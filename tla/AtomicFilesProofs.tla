-------------------------- MODULE AtomicFilesProofs --------------------------
(***************************************************************************)
(* Theorems about the two implementations of AtomicFiles.  For any number  *)
(* of packages, repositories, processes, faults and kills:                 *)
(*                                                                         *)
(*   the package records are atomic files, and a scan sees what was        *)
(*   installed and fails for removals only;                                *)
(*                                                                         *)
(*   where no two adds of one name overlap the configured repositories are *)
(*   atomic files, and a load fails for removals only; with overlaps too,  *)
(*   an add that runs alone repairs what they left, and an update or a     *)
(*   search tries every repository that was enabled.                       *)
(***************************************************************************)
EXTENDS RecordStore, RepoConfig, FiniteSetTheorems, TLAPS

(* THE PACKAGE RECORDS *)

-----------------------------------------------------------------------------
\* The invariant

\* What a command has in hand at each stage.
CallOK(c) ==
  /\ c.pc = "idle" => c = NoCall
  /\ c.job = "none" => c.pc = "idle"
  /\ c.job = "register" =>
       c.pc \in {"create", "write", "rename", "done"} /\ c.name \in Name /\ c.rec \in Record
  /\ c.job = "unregister" => c.pc \in {"unlink", "done"} /\ c.name \in Name
  /\ c.job = "info" =>
       /\ c.pc \in {"open", "read", "done"} /\ c.name \in Name
       /\ c.pc = "open" => c.rec = None
       /\ c.pc \in {"read", "done"} => c.rec \in Record
  /\ c.job = "list" => c.pc \in {"list", "done"}

\* Records are whole, and what is about to be renamed is the record to register.
RecordInv ==
  /\ TypeOK
  /\ live \in [Name -> Record \cup {None}]
  /\ \A p \in Proc : CallOK(call[p])
  /\ \A p \in Proc : At(p, "register", "rename") => temp[call[p].name][p] = call[p].rec

LEMMA RecordInit == Init => RecordInv
BY RecordStoreAssumption DEF Init, RecordInv, TypeOK, CallOK, NoCall, Call, Job, Stage, File,
   NoWatch, Watch, At

-----------------------------------------------------------------------------
\* What a listing notes is about packages and records.
LEMMA WatchTyped ==
  ASSUME RecordInv, NEW p \in Proc, Observe(p), live' \in [Name -> Record \cup {None}]
  PROVE  watch' \in [Proc -> Watch]
<1>1. Held \subseteq Name \X Record /\ Held' \subseteq Name \X Record
  BY DEF Held
<1>2. At(p, "unregister", "unlink") => call[p].name \in Name
  BY DEF At, RecordInv, CallOK
<1> SUFFICES ASSUME NEW q \in Proc
             PROVE  (IF call'[q].pc # "list" THEN NoWatch
                     ELSE [held |-> watch[q].held \cup Held \cup Held',
                           removed |-> watch[q].removed \cup
                             IF At(p, "unregister", "unlink") THEN {call[p].name} ELSE {}])
                      \in Watch
  BY DEF Observe
<1>3. watch[q].held \subseteq Name \X Record /\ watch[q].removed \subseteq Name
  BY DEF RecordInv, TypeOK, Watch
<1> QED
  BY <1>1, <1>2, <1>3 DEF Watch, NoWatch

\* A step of p that gives it the call c keeps the invariant if c is one that has in
\* hand what it should have.
LEMMA CallChanged ==
  ASSUME RecordInv, NEW p \in Proc, NEW c \in Call, CallOK(c), Observe(p),
         call' = [call EXCEPT ![p] = c],
         live' \in [Name -> Record \cup {None}],
         temp' \in [Name -> [Proc -> File]],
         \A q \in Proc \ {p} : \A n \in Name : temp'[n][q] = temp[n][q],
         c.job = "register" /\ c.pc = "rename" => temp'[c.name][p] = c.rec,
         ended' \in {"none", "ok", "failed", "killed"}, spent' \in Nat
  PROVE  RecordInv'
<1>1. live' \in [Name -> File]
  BY DEF File
<1>2. call' \in [Proc -> Call]
  BY DEF RecordInv, TypeOK
<1>3. \A q \in Proc : call'[q] = IF q = p THEN c ELSE call[q]
  BY DEF RecordInv, TypeOK
<1>4. \A q \in Proc : CallOK(call'[q])
  BY <1>3 DEF RecordInv
<1>5. \A q \in Proc : call'[q].pc = "idle" => call'[q] = NoCall
  BY <1>4 DEF CallOK
<1>6. ASSUME NEW q \in Proc, At(q, "register", "rename")'
      PROVE  temp'[call'[q].name][q] = call'[q].rec
  <2>1. CASE q = p
    BY <1>3, <1>6, <2>1 DEF At
  <2>2. CASE q # p
    <3>1. call'[q] = call[q] /\ call[q].name \in Name
      BY <1>3, <1>6, <2>2 DEF At, RecordInv, CallOK
    <3> QED
      BY <1>6, <2>2, <3>1 DEF At, RecordInv
  <2> QED
    BY <2>1, <2>2
<1> QED
  BY <1>1, <1>2, <1>4, <1>5, <1>6, WatchTyped DEF RecordInv, TypeOK, CallOK

-----------------------------------------------------------------------------
\* The actions

\* A command begins.
LEMMA EnterKeeps ==
  ASSUME RecordInv, NEW p \in Proc, NEW c \in Call, CallOK(c), c.pc # "rename",
         Enter(p, c.job, c.pc, c.name, c.rec, c.todo), c.got = {}, Observe(p)
  PROVE  RecordInv'
<1>1. c = [job |-> c.job, pc |-> c.pc, name |-> c.name, rec |-> c.rec,
           todo |-> c.todo, got |-> {}]
  BY DEF Call
<1>2. call' = [call EXCEPT ![p] = c] /\ UNCHANGED <<live, temp, spent>> /\ ended' = "none"
  BY <1>1 DEF Enter
<1> QED
  BY <1>2, CallChanged DEF RecordInv, TypeOK

LEMMA StartKeeps ==
  ASSUME RecordInv, NEW p \in Proc, Observe(p),
         Register(p) \/ Unregister(p) \/ Info(p) \/ List(p)
  PROVE  RecordInv'
<1>1. ASSUME NEW n \in Name, NEW r \in Record, Enter(p, "register", "create", n, r, {})
      PROVE  RecordInv'
  <2> DEFINE c == [job |-> "register", pc |-> "create", name |-> n, rec |-> r,
                   todo |-> {}, got |-> {}]
  <2>1. c \in Call /\ CallOK(c)
    BY DEF Call, Job, Stage, File, CallOK
  <2> QED
    BY <1>1, <2>1, EnterKeeps
<1>2. ASSUME NEW n \in Name, Enter(p, "unregister", "unlink", n, None, {})
      PROVE  RecordInv'
  <2> DEFINE c == [job |-> "unregister", pc |-> "unlink", name |-> n, rec |-> None,
                   todo |-> {}, got |-> {}]
  <2>1. c \in Call /\ CallOK(c)
    BY DEF Call, Job, Stage, File, CallOK
  <2> QED
    BY <1>2, <2>1, EnterKeeps
<1>3. ASSUME NEW n \in Name, Enter(p, "info", "open", n, None, {})
      PROVE  RecordInv'
  <2> DEFINE c == [job |-> "info", pc |-> "open", name |-> n, rec |-> None,
                   todo |-> {}, got |-> {}]
  <2>1. c \in Call /\ CallOK(c)
    BY DEF Call, Job, Stage, File, CallOK
  <2> QED
    BY <1>3, <2>1, EnterKeeps
<1>4. CASE List(p)
  <2> DEFINE c == [job |-> "list", pc |-> "list", name |-> None, rec |-> None,
                   todo |-> {n \in Name : live[n] # None}, got |-> {}]
  <2>1. c \in Call /\ CallOK(c)
    BY DEF Call, Job, Stage, File, CallOK
  <2> QED
    BY <1>4, <2>1, EnterKeeps DEF List
<1> QED
  BY <1>1, <1>2, <1>3, <1>4 DEF Register, Unregister, Info

\* A command ends.
LEMMA EndKeeps ==
  ASSUME RecordInv, NEW p \in Proc, Observe(p), NEW outcome \in {"ok", "failed", "killed"},
         End(p, outcome),
         live' \in [Name -> Record \cup {None}], temp' \in [Name -> [Proc -> File]],
         \A q \in Proc \ {p} : \A n \in Name : temp'[n][q] = temp[n][q], spent' \in Nat
  PROVE  RecordInv'
<1>1. NoCall \in Call /\ CallOK(NoCall) /\ NoCall.pc # "rename"
  BY DEF NoCall, Call, Job, Stage, File, CallOK
<1>2. call' = [call EXCEPT ![p] = NoCall] /\ ended' \in {"none", "ok", "failed", "killed"}
  BY DEF End
<1> QED
  BY <1>1, <1>2, CallChanged

\* A command goes on to its next stage.
LEMMA GoToKeeps ==
  ASSUME RecordInv, NEW p \in Proc, Observe(p), NEW stage \in Stage, GoTo(p, stage),
         CallOK([call[p] EXCEPT !.pc = stage]),
         call[p].job = "register" /\ stage = "rename" =>
           temp'[call[p].name][p] = call[p].rec,
         live' \in [Name -> Record \cup {None}], temp' \in [Name -> [Proc -> File]],
         \A q \in Proc \ {p} : \A n \in Name : temp'[n][q] = temp[n][q], spent' \in Nat
  PROVE  RecordInv'
<1> DEFINE c == [call[p] EXCEPT !.pc = stage]
<1>1. call[p] \in Call
  BY DEF RecordInv, TypeOK
<1>2. c \in Call /\ c.job = call[p].job /\ c.pc = stage /\ c.name = call[p].name
      /\ c.rec = call[p].rec
  BY <1>1 DEF Call
<1>3. call' = [call EXCEPT ![p] = c] /\ ended' = "none"
  BY DEF GoTo
<1> HIDE DEF c
<1>4. CallOK(c)
  BY DEF c
<1> QED
  BY <1>2, <1>3, <1>4, CallChanged

\* A command changes its own temporary file only.
LEMMA TempChanged ==
  ASSUME RecordInv, NEW p \in Proc, NEW n \in Name, NEW c \in File,
         temp' = [temp EXCEPT ![n][p] = c]
  PROVE  /\ temp' \in [Name -> [Proc -> File]]
         /\ \A q \in Proc \ {p} : \A m \in Name : temp'[m][q] = temp[m][q]
         /\ temp'[n][p] = c
BY DEF RecordInv, TypeOK

\* What is in place stays so if one of the files comes to hold a record or goes.
LEMMA LiveChanged ==
  ASSUME RecordInv, NEW n \in Name, NEW c \in Record \cup {None},
         live' = [live EXCEPT ![n] = c]
  PROVE  live' \in [Name -> Record \cup {None}]
BY DEF RecordInv

LEMMA CreateKeeps ==
  ASSUME RecordInv, NEW p \in Proc, Create(p), Observe(p) PROVE RecordInv'
<1>1. call[p] \in Call /\ CallOK(call[p]) /\ call[p].name \in Name /\ live \in [Name -> Record \cup {None}]
      /\ temp \in [Name -> [Proc -> File]] /\ spent \in Nat
  BY DEF Create, At, RecordInv, TypeOK, CallOK
<1>2. CASE temp[call[p].name][p] # None
  <2>1. End(p, "failed") /\ UNCHANGED <<live, temp, spent>>
    BY <1>2 DEF Create
  <2> QED
    BY <1>1, <2>1, EndKeeps
<1>3. CASE temp[call[p].name][p] = None
  <2>1. temp' = [temp EXCEPT ![call[p].name][p] = Partial] /\ GoTo(p, "write")
        /\ UNCHANGED <<live, spent>>
    BY <1>3 DEF Create
  <2>2. temp' \in [Name -> [Proc -> File]]
        /\ \A q \in Proc \ {p} : \A m \in Name : temp'[m][q] = temp[m][q]
    BY <1>1, <2>1, TempChanged DEF File
  <2>3. CallOK([call[p] EXCEPT !.pc = "write"])
    BY <1>1 DEF Create, At, CallOK, Call
  <2> QED
    BY <1>1, <2>1, <2>2, <2>3, GoToKeeps DEF Stage
<1> QED
  BY <1>2, <1>3

LEMMA WriteKeeps ==
  ASSUME RecordInv, NEW p \in Proc, Write(p), Observe(p) PROVE RecordInv'
<1>1. call[p] \in Call /\ CallOK(call[p]) /\ call[p].name \in Name /\ call[p].rec \in File
      /\ live \in [Name -> Record \cup {None}] /\ spent \in Nat
  BY DEF Write, At, RecordInv, TypeOK, CallOK, Call
<1>2. temp' = [temp EXCEPT ![call[p].name][p] = call[p].rec] /\ GoTo(p, "rename")
      /\ UNCHANGED <<live, spent>>
  BY DEF Write
<1>3. temp' \in [Name -> [Proc -> File]] /\ temp'[call[p].name][p] = call[p].rec
      /\ \A q \in Proc \ {p} : \A m \in Name : temp'[m][q] = temp[m][q]
  BY ZenonT(60), <1>1, <1>2, TempChanged
<1>4. CallOK([call[p] EXCEPT !.pc = "rename"])
  BY <1>1 DEF Write, At, CallOK, Call
<1> QED
  BY <1>1, <1>2, <1>3, <1>4, GoToKeeps DEF Stage

LEMMA RenameKeeps ==
  ASSUME RecordInv, NEW p \in Proc, Rename(p), Observe(p) PROVE RecordInv'
<1>1. call[p] \in Call /\ CallOK(call[p]) /\ call[p].name \in Name /\ spent \in Nat
      /\ temp[call[p].name][p] \in Record
  BY DEF Rename, At, RecordInv, TypeOK, CallOK
<1>2. live' = [live EXCEPT ![call[p].name] = temp[call[p].name][p]]
      /\ temp' = [temp EXCEPT ![call[p].name][p] = None] /\ GoTo(p, "done") /\ UNCHANGED spent
  BY DEF Rename
<1>3. temp' \in [Name -> [Proc -> File]]
      /\ \A q \in Proc \ {p} : \A m \in Name : temp'[m][q] = temp[m][q]
  BY <1>1, <1>2, TempChanged DEF File
<1>4. live' \in [Name -> Record \cup {None}]
  BY <1>1, <1>2, LiveChanged
<1>5. CallOK([call[p] EXCEPT !.pc = "done"])
  BY <1>1 DEF Rename, At, CallOK, Call
<1> QED
  BY <1>1, <1>2, <1>3, <1>4, <1>5, GoToKeeps DEF Stage

LEMMA RegisterFaultKeeps ==
  ASSUME RecordInv, NEW p \in Proc, RegisterFault(p), Observe(p) PROVE RecordInv'
<1>1. call[p].name \in Name /\ live' \in [Name -> Record \cup {None}] /\ spent' \in Nat
      /\ temp \in [Name -> [Proc -> File]]
  BY RecordStoreAssumption DEF RegisterFault, RecordInv, TypeOK, CallOK
<1>2. temp' \in [Name -> [Proc -> File]]
      /\ \A q \in Proc \ {p} : \A m \in Name : temp'[m][q] = temp[m][q]
  BY <1>1, TempChanged DEF RegisterFault, File
<1>3. End(p, "failed")
  BY DEF RegisterFault
<1> QED
  BY <1>1, <1>2, <1>3, EndKeeps

LEMMA UnlinkKeeps ==
  ASSUME RecordInv, NEW p \in Proc, UnlinkRecord(p), Observe(p) PROVE RecordInv'
<1>1. call[p] \in Call /\ CallOK(call[p]) /\ call[p].name \in Name /\ live \in [Name -> Record \cup {None}]
      /\ temp' \in [Name -> [Proc -> File]] /\ temp' = temp /\ spent' \in Nat
  BY DEF UnlinkRecord, At, RecordInv, TypeOK, CallOK
<1>2. CASE live[call[p].name] = None
  <2>1. End(p, "failed") /\ live' \in [Name -> Record \cup {None}]
    BY <1>1, <1>2 DEF UnlinkRecord
  <2> QED
    BY <1>1, <2>1, EndKeeps
<1>3. CASE live[call[p].name] # None
  <2>1. live' = [live EXCEPT ![call[p].name] = None] /\ GoTo(p, "done")
    BY <1>3 DEF UnlinkRecord
  <2>2. live' \in [Name -> Record \cup {None}]
    BY <1>1, <2>1, LiveChanged
  <2>3. CallOK([call[p] EXCEPT !.pc = "done"])
    BY <1>1 DEF UnlinkRecord, At, CallOK, Call
  <2>4. call[p].job # "register"
    BY DEF UnlinkRecord, At
  <2> QED
    BY <1>1, <2>1, <2>2, <2>3, <2>4, GoToKeeps DEF Stage
<1> QED
  BY <1>2, <1>3

\* The steps that change no file.
LEMMA ReadingKeeps ==
  ASSUME RecordInv, NEW p \in Proc, Observe(p),
         Open(p) \/ ReadRecord(p) \/ ListNext(p) \/ ListFails(p) \/ ListEnds(p)
           \/ Return(p) \/ OtherFault(p) \/ Crash(p)
  PROVE  RecordInv'
<1>1. call[p] \in Call /\ CallOK(call[p]) /\ live' \in [Name -> Record \cup {None}]
      /\ temp' \in [Name -> [Proc -> File]] /\ temp' = temp /\ spent' \in Nat
  BY RecordStoreAssumption DEF RecordInv, TypeOK, Open, ReadRecord, ListNext, ListFails,
     ListEnds, Return, OtherFault, Crash
<1>2. ASSUME NEW outcome \in {"ok", "failed", "killed"}, End(p, outcome) PROVE RecordInv'
  BY <1>1, <1>2, EndKeeps
<1>3. CASE Open(p) /\ live[call[p].name] # None
  <2> DEFINE c == [call[p] EXCEPT !.pc = "read", !.rec = live[call[p].name]]
  <2>1. call[p].name \in Name /\ live[call[p].name] \in Record
    BY <1>1, <1>3 DEF Open, At, CallOK, RecordInv
  <2>2. c \in Call /\ c.job = "info" /\ c.pc = "read" /\ c.name = call[p].name
        /\ c.rec = live[call[p].name]
    BY <1>1, <1>3, <2>1 DEF Open, At, Call, Stage, File
  <2>3. call' = [call EXCEPT ![p] = c] /\ ended' = "none"
    BY <1>3 DEF Open
  <2> HIDE DEF c
  <2>4. CallOK(c)
    BY <2>1, <2>2 DEF CallOK
  <2> QED
    BY <1>1, <2>2, <2>3, <2>4, CallChanged
<1>4. CASE ListNext(p)
  <2> PICK n \in call[p].todo : Readable(n) /\
        call' = [call EXCEPT ![p].todo = @ \ {n}, ![p].got = @ \cup {<<n, live[n]>>}]
    BY <1>4 DEF ListNext
  <2> DEFINE c == [call[p] EXCEPT !.todo = @ \ {n}, !.got = @ \cup {<<n, live[n]>>}]
  <2>1. n \in Name /\ live[n] \in Record
    BY <1>1 DEF Call, Readable
  <2>5. call[p].todo \ {n} \in SUBSET Name
        /\ call[p].got \cup {<<n, live[n]>>} \in SUBSET (Name \X Record)
    BY <1>1, <2>1 DEF Call
  <2>2. c \in Call /\ c.job = "list" /\ c.pc = "list"
    BY <1>1, <1>4, <2>5 DEF ListNext, At, Call
  <2>3. call' = [call EXCEPT ![p] = c] /\ ended' = "none"
    BY <1>4 DEF ListNext
  <2> HIDE DEF c
  <2>4. CallOK(c)
    BY <2>2 DEF CallOK
  <2> QED
    BY <1>1, <2>2, <2>3, <2>4, CallChanged
<1>5. ASSUME GoTo(p, "done"), call[p].job \in {"info", "list"}, call[p].pc \in {"read", "list"}
      PROVE  RecordInv'
  <2>1. CallOK([call[p] EXCEPT !.pc = "done"])
    BY <1>1, <1>5 DEF CallOK, Call
  <2> QED
    BY <1>1, <1>5, <2>1, GoToKeeps DEF Stage
<1> QED
  BY <1>2, <1>3, <1>4, <1>5 DEF Open, ReadRecord, ListFails, ListEnds, Return, OtherFault, Crash, At

LEMMA RecordStep == RecordInv /\ [Next]_vars => RecordInv'
<1> SUFFICES ASSUME RecordInv, [Next]_vars PROVE RecordInv'
  OBVIOUS
<1>1. CASE UNCHANGED vars
  BY <1>1 DEF vars, RecordInv, TypeOK, At
<1>2. ASSUME NEW p \in Proc, Step(p), Observe(p) PROVE RecordInv'
  BY <1>2, StartKeeps, CreateKeeps, WriteKeeps, RenameKeeps, RegisterFaultKeeps, UnlinkKeeps,
     ReadingKeeps DEF Step, Work
<1> QED
  BY <1>1, <1>2 DEF Next

\* The records are whole at any time.
THEOREM RecordTypes == Spec => []TypeOK
<1>1. RecordInv => TypeOK
  BY DEF RecordInv
<1> QED
  BY <1>1, RecordInit, RecordStep, PTL DEF Spec

\* The invariant the other theorems about the records rest on.
THEOREM RecordInvariant == Spec => []RecordInv
BY RecordInit, RecordStep, PTL DEF Spec

-----------------------------------------------------------------------------
\* Listings

\* A step changes the call of one process only.
LEMMA OthersStay ==
  ASSUME RecordInv, NEW p \in Proc, Step(p), NEW q \in Proc, q # p
  PROVE  call'[q] = call[q]
<1>1. call \in [Proc -> Call]
  BY DEF RecordInv, TypeOK
<1>2. ASSUME NEW c, call' = [call EXCEPT ![p] = c] PROVE call'[q] = call[q]
  BY <1>1, <1>2
<1>3. ASSUME NEW stage, GoTo(p, stage) PROVE call'[q] = call[q]
  BY <1>1, <1>3 DEF GoTo
<1>4. ASSUME NEW outcome, End(p, outcome) PROVE call'[q] = call[q]
  BY <1>2, <1>4 DEF End
<1>5. CASE Register(p) \/ Unregister(p) \/ Info(p) \/ List(p)
  BY <1>2, <1>5 DEF Register, Unregister, Info, List, Enter
<1>6. CASE Create(p) \/ Write(p) \/ Rename(p) \/ UnlinkRecord(p)
  BY <1>3, <1>4, <1>6 DEF Create, Write, Rename, UnlinkRecord
<1>7. CASE Open(p) \/ ListNext(p)
  BY <1>1, <1>4, <1>7 DEF Open, ListNext
<1>8. CASE ReadRecord(p) \/ ListFails(p) \/ ListEnds(p) \/ Return(p)
  BY <1>3, <1>4, <1>8 DEF ReadRecord, ListFails, ListEnds, Return
<1>9. CASE RegisterFault(p) \/ OtherFault(p) \/ Crash(p)
  BY <1>4, <1>9 DEF RegisterFault, OtherFault, Crash
<1> QED
  BY <1>5, <1>6, <1>7, <1>8, <1>9 DEF Step, Work

\* What a step does to a listing: it starts it, lets it go on, or leaves it alone.
LEMMA ListingStep ==
  ASSUME RecordInv, NEW p \in Proc, Step(p), NEW q \in Proc, call'[q].pc = "list"
  PROVE  \/ /\ call[q].pc = "list"
            /\ call'[q].todo \subseteq call[q].todo
            /\ call'[q].got \subseteq call[q].got \cup Held
         \/ /\ call[q].pc # "list"
            /\ call'[q].got = {}
            /\ call'[q].todo = {n \in Name : live[n] # None}
            /\ live' = live
<1>1. call \in [Proc -> Call] /\ live \in [Name -> Record \cup {None}]
  BY DEF RecordInv, TypeOK
<1>2. CASE q # p
  BY <1>2, OthersStay
<1>3. CASE q = p
  <2>1. ASSUME NEW stage, GoTo(p, stage), stage # "list" PROVE FALSE
    BY <1>1, <1>3, <2>1 DEF GoTo, Call
  <2>2. ASSUME NEW outcome, End(p, outcome) PROVE FALSE
    BY <1>1, <1>3, <2>2 DEF End, NoCall
  <2>3. ASSUME NEW n, NEW r, NEW job, NEW stage, Enter(p, job, stage, n, r, {}), stage # "list"
        PROVE  FALSE
    BY <1>1, <1>3, <2>3 DEF Enter
  <2>4. CASE List(p)
    BY <1>1, <1>3, <2>4 DEF List, Enter
  <2>5. CASE ListNext(p)
    <3> PICK n \in call[p].todo : Readable(n) /\
          call' = [call EXCEPT ![p].todo = @ \ {n}, ![p].got = @ \cup {<<n, live[n]>>}]
      BY <2>5 DEF ListNext
    <3>1. n \in Name /\ <<n, live[n]>> \in Held
      BY <1>1 DEF Call, Readable, Held
    <3>2. call'[p].todo = call[p].todo \ {n}
          /\ call'[p].got = call[p].got \cup {<<n, live[n]>>} /\ call[p].pc = "list"
      BY <1>1, <2>5 DEF Call, ListNext, At
    <3> QED
      BY <1>3, <3>1, <3>2
  <2>6. CASE Open(p)
    BY <1>1, <1>3, <2>2, <2>6 DEF Open, Call
  <2>7. CASE Register(p) \/ Unregister(p) \/ Info(p)
    BY <2>3, <2>7 DEF Register, Unregister, Info
  <2>8. CASE Create(p) \/ Write(p) \/ Rename(p) \/ UnlinkRecord(p)
    BY <2>1, <2>2, <2>8 DEF Create, Write, Rename, UnlinkRecord
  <2>9. CASE ReadRecord(p) \/ ListFails(p) \/ ListEnds(p) \/ Return(p)
    BY <2>1, <2>2, <2>9 DEF ReadRecord, ListFails, ListEnds, Return
  <2>10. CASE RegisterFault(p) \/ OtherFault(p) \/ Crash(p)
    BY <2>2, <2>10 DEF RegisterFault, OtherFault, Crash
  <2> QED
    BY <2>4, <2>5, <2>6, <2>7, <2>8, <2>9, <2>10 DEF Step, Work
<1> QED
  BY <1>2, <1>3

\* A record that is in place leaves it in a step that unregisters its package only.
LEMMA OnlyUnlinked ==
  ASSUME RecordInv, NEW p \in Proc, Step(p), NEW n \in Name, Readable(n), ~Readable(n)'
  PROVE  At(p, "unregister", "unlink") /\ call[p].name = n
<1>1. live \in [Name -> Record \cup {None}]
  BY DEF RecordInv
<1>2. live' # live
  BY DEF Readable
<1>3. CASE Rename(p)
  <2>1. temp[call[p].name][p] \in Record /\ live' = [live EXCEPT ![call[p].name] = temp[call[p].name][p]]
    BY <1>3 DEF Rename, At, RecordInv, CallOK
  <2> QED
    BY <1>1, <2>1 DEF Readable
<1>4. CASE UnlinkRecord(p)
  BY <1>1, <1>2, <1>4 DEF UnlinkRecord, Readable
<1> QED
  BY <1>2, <1>3, <1>4 DEF Step, Work, Register, Unregister, Info, List, Enter, Create, Write,
     Open, ReadRecord, ListNext, ListFails, ListEnds, Return, RegisterFault, OtherFault, Crash

\* What is noted for a listing that goes on.
LEMMA Noted ==
  ASSUME NEW p \in Proc, Observe(p), NEW q \in Proc, call'[q].pc = "list"
  PROVE  /\ watch'[q].held = watch[q].held \cup Held \cup Held'
         /\ watch[q].removed \subseteq watch'[q].removed
         /\ At(p, "unregister", "unlink") => call[p].name \in watch'[q].removed
<1>1. watch'[q] = [held |-> watch[q].held \cup Held \cup Held',
                   removed |-> watch[q].removed \cup
                     IF At(p, "unregister", "unlink") THEN {call[p].name} ELSE {}]
  BY DEF Observe
<1> HIDE DEF Held, At
<1> QED
  BY <1>1

\* A listing shows what was installed since it started.
THEOREM ListSoundAlways == Spec => []ListSound
<1>1. Init => ListSound
  BY DEF Init, ListSound, NoCall
<1>2. RecordInv /\ ListSound /\ [Next]_vars => ListSound'
  <2> SUFFICES ASSUME RecordInv, ListSound, [Next]_vars, NEW q \in Proc, call'[q].pc = "list"
               PROVE  call'[q].got \subseteq watch'[q].held
    BY DEF ListSound
  <2>1. CASE UNCHANGED vars
    BY <2>1 DEF vars, ListSound
  <2>2. ASSUME NEW p \in Proc, Step(p), Observe(p) PROVE call'[q].got \subseteq watch'[q].held
    BY <2>2, ListingStep, Noted DEF ListSound
  <2> QED
    BY <2>1, <2>2 DEF Next
<1> QED
  BY <1>1, <1>2, RecordInvariant, PTL DEF Spec

\* Only a package that was unregistered since makes a scan fail.
THEOREM ScansFailForRemovalsAlways == Spec => []ScansFailForRemovals
<1>1. Init => ScansFailForRemovals
  <2> SUFFICES ASSUME Init, NEW p \in Proc PROVE call[p].pc # "list"
    BY DEF ScansFailForRemovals
  <2> QED
    BY DEF Init, NoCall
<1>2. RecordInv /\ ScansFailForRemovals /\ [Next]_vars => ScansFailForRemovals'
  <2> SUFFICES ASSUME RecordInv, ScansFailForRemovals, [Next]_vars, NEW q \in Proc,
                      call'[q].pc = "list", NEW n \in call'[q].todo
               PROVE  Readable(n)' \/ n \in watch'[q].removed
    BY DEF ScansFailForRemovals
  <2>1. CASE UNCHANGED vars
    BY <2>1 DEF vars, ScansFailForRemovals, Readable
  <2>2. ASSUME NEW p \in Proc, Step(p), Observe(p)
        PROVE  Readable(n)' \/ n \in watch'[q].removed
    <3>1. CASE call[q].pc = "list"
      <4>1. n \in call[q].todo /\ n \in Name
        BY <2>2, <3>1, ListingStep DEF RecordInv, TypeOK, Call
      <4>2. Readable(n) \/ n \in watch[q].removed
        BY <3>1, <4>1 DEF ScansFailForRemovals
      <4> QED
        BY <2>2, <4>1, <4>2, Noted, OnlyUnlinked
    <3>2. CASE call[q].pc # "list"
      <4>1. n \in Name /\ live[n] # None /\ live' = live
        BY <2>2, <3>2, ListingStep
      <4> QED
        BY <4>1 DEF RecordInv, Readable
    <3> QED
      BY <3>1, <3>2
  <2> QED
    BY <2>1, <2>2 DEF Next
<1> QED
  BY <1>1, <1>2, RecordInvariant, PTL DEF Spec

-----------------------------------------------------------------------------
\* The records implement the atomic files.

LEMMA CallsChanged ==
  ASSUME RecordInv, NEW p \in Proc, NEW c, call' = [call EXCEPT ![p] = c]
  PROVE  Calls' = [Calls EXCEPT ![p] = Abstract(c)]
<1>1. \A q \in Proc : call'[q] = IF q = p THEN c ELSE call[q]
  BY DEF RecordInv, TypeOK
<1>2. \A q \in Proc : Abstract(call[q])' = IF q = p THEN Abstract(c) ELSE Abstract(call[q])
  BY <1>1
<1> HIDE DEF Abstract
<1>3. Calls' = [q \in Proc |-> Abstract(call'[q])] /\ Calls = [q \in Proc |-> Abstract(call[q])]
  BY DEF Calls
<1> QED
  BY <1>2, <1>3

\* A step that leaves what the call of p is to the store as it is.
LEMMA NothingForStore ==
  ASSUME RecordInv, NEW p \in Proc, NEW c, call' = [call EXCEPT ![p] = c],
         Abstract(c) = Abstract(call[p]), ended' = "none", live' = live
  PROVE  Store!Pass
<1>1. Calls' = [Calls EXCEPT ![p] = Abstract(c)] /\ Calls[p] = Abstract(call[p])
  BY CallsChanged DEF Calls
<1>2. Calls = [q \in Proc |-> Abstract(call[q])]
  BY DEF Calls
<1>3. Calls' = Calls
  BY <1>1, <1>2
<1> QED
  BY <1>3 DEF Store!Pass

\* The end of a command that wrote or read is one to the store.
LEMMA EndForStore ==
  ASSUME RecordInv, NEW p \in Proc, NEW outcome, End(p, outcome), live' = live,
         call[p].job \in {"register", "unregister", "info"}
  PROVE  Store!End(p, outcome)
<1>1. call' = [call EXCEPT ![p] = NoCall] /\ ended' = outcome
  BY DEF End
<1>2. Abstract(NoCall) = Store!NoCall
  BY DEF Abstract, Phase, NoCall, Store!NoCall
<1>3. Calls[p] = Abstract(call[p]) /\ Abstract(call[p]).op # "none"
  BY DEF Calls, Abstract
<1>4. Calls[p] # Store!NoCall
  BY <1>3 DEF Store!NoCall
<1>5. Calls' = [Calls EXCEPT ![p] = Store!NoCall]
  BY <1>1, <1>2, CallsChanged
<1> QED
  BY <1>1, <1>4, <1>5 DEF Store!End

\* The end of a listing is none.
LEMMA ListEndForStore ==
  ASSUME RecordInv, NEW p \in Proc, NEW outcome, End(p, outcome), live' = live,
         call[p].job = "list"
  PROVE  Store!Pass
<1>1. call' = [call EXCEPT ![p] = NoCall] /\ ended' = "none"
  BY DEF End
<1>2. Abstract(NoCall) = Abstract(call[p])
  BY DEF Abstract, Phase, NoCall
<1> QED
  BY <1>1, <1>2, NothingForStore

LEMMA StartRefines ==
  ASSUME RecordInv, NEW p \in Proc, Register(p) \/ Unregister(p) \/ Info(p) \/ List(p)
  PROVE  Store!Start(p) \/ Store!Pass
<1>1. call[p].pc = "idle" /\ live' = live /\ ended' = "none"
  BY DEF Register, Unregister, Info, List, Enter
<1>2. call[p] = NoCall /\ Abstract(NoCall) = Store!NoCall /\ Calls[p] = Store!NoCall
  BY <1>1 DEF RecordInv, TypeOK, Abstract, NoCall, Store!NoCall, Calls
<1>3. CASE Register(p)
  <2> PICK n \in Name, r \in Record : Enter(p, "register", "create", n, r, {})
    BY <1>3 DEF Register
  <2> DEFINE c == [job |-> "register", pc |-> "create", name |-> n, rec |-> r,
                   todo |-> {}, got |-> {}]
  <2>1. Abstract(c) = [op |-> "put", name |-> n, value |-> r, phase |-> "begun"]
    BY DEF Abstract, Phase
  <2>2. Calls' = [Calls EXCEPT ![p] = Abstract(c)]
    BY CallsChanged DEF Enter
  <2> QED
    BY <1>1, <1>2, <2>1, <2>2 DEF Store!Start
<1>4. CASE Unregister(p)
  <2> PICK n \in Name : Enter(p, "unregister", "unlink", n, None, {})
    BY <1>4 DEF Unregister
  <2> DEFINE c == [job |-> "unregister", pc |-> "unlink", name |-> n, rec |-> None,
                   todo |-> {}, got |-> {}]
  <2>1. Abstract(c) = [op |-> "delete", name |-> n, value |-> None, phase |-> "begun"]
    BY DEF Abstract, Phase
  <2>2. Calls' = [Calls EXCEPT ![p] = Abstract(c)]
    BY CallsChanged DEF Enter
  <2> QED
    BY <1>1, <1>2, <2>1, <2>2 DEF Store!Start
<1>5. CASE Info(p)
  <2> PICK n \in Name : Enter(p, "info", "open", n, None, {})
    BY <1>5 DEF Info
  <2> DEFINE c == [job |-> "info", pc |-> "open", name |-> n, rec |-> None,
                   todo |-> {}, got |-> {}]
  <2>1. Abstract(c) = [op |-> "read", name |-> n, value |-> None, phase |-> "begun"]
    BY DEF Abstract, Phase
  <2>2. Calls' = [Calls EXCEPT ![p] = Abstract(c)]
    BY CallsChanged DEF Enter
  <2> QED
    BY <1>1, <1>2, <2>1, <2>2 DEF Store!Start
<1>6. CASE List(p)
  <2> DEFINE c == [job |-> "list", pc |-> "list", name |-> None, rec |-> None,
                   todo |-> {n \in Name : live[n] # None}, got |-> {}]
  <2>1. Abstract(c) = Abstract(call[p])
    BY <1>2 DEF Abstract, Phase, NoCall
  <2>2. call' = [call EXCEPT ![p] = c]
    BY <1>6 DEF List, Enter
  <2> QED
    BY <1>1, <2>1, <2>2, NothingForStore
<1> QED
  BY <1>3, <1>4, <1>5, <1>6

LEMMA RegisterRefines ==
  ASSUME RecordInv, NEW p \in Proc, Create(p) \/ Write(p) \/ Rename(p) \/ RegisterFault(p)
  PROVE  Store!Pass \/ Store!Put(p) \/ Store!Fail(p)
<1>1. call[p] \in Call /\ CallOK(call[p]) /\ call[p].job = "register"
  BY DEF Create, Write, Rename, RegisterFault, At, RecordInv, TypeOK
<1>2. Calls[p] = [op |-> "put", name |-> call[p].name, value |-> call[p].rec,
                  phase |-> Phase(call[p], {"done"})]
  BY <1>1 DEF Calls, Abstract
<1>3. ASSUME End(p, "failed"), live' = live, call[p].pc # "done" PROVE Store!Fail(p)
  BY <1>1, <1>2, <1>3, EndForStore DEF Phase, Store!Fail
<1>4. ASSUME NEW stage \in {"write", "rename"}, GoTo(p, stage), live' = live,
             call[p].pc # "done"
      PROVE  Store!Pass
  <2> DEFINE c == [call[p] EXCEPT !.pc = stage]
  <2>1. Abstract(c) = Abstract(call[p])
    BY <1>1, <1>4 DEF Abstract, Phase, Call
  <2>2. call' = [call EXCEPT ![p] = c] /\ ended' = "none"
    BY <1>4 DEF GoTo
  <2> HIDE DEF c
  <2> QED
    BY <1>4, <2>1, <2>2, NothingForStore
<1>5. CASE Rename(p)
  <2> DEFINE c == [call[p] EXCEPT !.pc = "done"]
  <2>1. Abstract(c) = [op |-> "put", name |-> call[p].name, value |-> call[p].rec,
                       phase |-> "done"]
    BY <1>1 DEF Abstract, Phase, Call
  <2>2. call' = [call EXCEPT ![p] = c] /\ ended' = "none"
    BY <1>5 DEF Rename, GoTo
  <2> HIDE DEF c
  <2>3. Calls' = [Calls EXCEPT ![p] = [op |-> "put", name |-> call[p].name,
                                       value |-> call[p].rec, phase |-> "done"]]
    BY <2>1, <2>2, CallsChanged
  <2>4. live' = [live EXCEPT ![call[p].name] = call[p].rec]
    BY <1>5 DEF Rename, RecordInv
  <2>5. Calls[p].op = "put" /\ Calls[p].phase = "begun" /\ Calls[p].name = call[p].name
        /\ Calls[p].value = call[p].rec
    BY <1>2, <1>5 DEF Rename, At, Phase
  <2>6. [Calls[p] EXCEPT !.phase = "done"] = [op |-> "put", name |-> call[p].name,
                                           value |-> call[p].rec, phase |-> "done"]
    BY <1>2
  <2> QED
    BY <2>2, <2>3, <2>4, <2>5, <2>6 DEF Store!Put
<1> QED
  BY <1>3, <1>4, <1>5 DEF Create, Write, RegisterFault, At

LEMMA UnlinkRefines ==
  ASSUME RecordInv, NEW p \in Proc, UnlinkRecord(p)
  PROVE  Store!Delete(p) \/ Store!Fail(p)
<1>1. call[p] \in Call /\ call[p].job = "unregister" /\ call[p].pc = "unlink"
  BY DEF UnlinkRecord, At, RecordInv, TypeOK
<1>2. Calls[p] = [op |-> "delete", name |-> call[p].name, value |-> None, phase |-> "begun"]
  BY <1>1 DEF Calls, Abstract, Phase
<1>3. CASE live[call[p].name] = None
  <2>1. End(p, "failed") /\ live' = live
    BY <1>3 DEF UnlinkRecord
  <2> QED
    BY <1>1, <1>2, <2>1, EndForStore DEF Phase, Store!Fail
<1>4. CASE live[call[p].name] # None
  <2> DEFINE c == [call[p] EXCEPT !.pc = "done"]
  <2>1. Abstract(c) = [op |-> "delete", name |-> call[p].name, value |-> None, phase |-> "done"]
    BY <1>1 DEF Abstract, Phase, Call
  <2>2. call' = [call EXCEPT ![p] = c] /\ ended' = "none"
        /\ live' = [live EXCEPT ![call[p].name] = None]
    BY <1>4 DEF UnlinkRecord, GoTo
  <2> HIDE DEF c
  <2>3. Calls' = [Calls EXCEPT ![p] = Abstract(c)]
    BY <2>2, CallsChanged
  <2>4. [Calls[p] EXCEPT !.phase = "done"] = Abstract(c)
    BY <1>2, <2>1
  <2>5. Calls' = [Calls EXCEPT ![p].phase = "done"]
    BY <2>3, <2>4
  <2>6. Calls[p].op = "delete" /\ Calls[p].phase = "begun" /\ Calls[p].name = call[p].name
    BY <1>2
  <2> QED
    BY <1>4, <2>2, <2>5, <2>6 DEF Store!Delete
<1> QED
  BY <1>3, <1>4

LEMMA InfoRefines ==
  ASSUME RecordInv, NEW p \in Proc, Open(p) \/ ReadRecord(p)
  PROVE  Store!Read(p) \/ Store!Pass \/ Store!Fail(p)
<1>1. call[p] \in Call /\ CallOK(call[p]) /\ call[p].job = "info"
  BY DEF Open, ReadRecord, At, RecordInv, TypeOK
<1>2. Calls[p] = [op |-> "read", name |-> call[p].name, value |-> call[p].rec,
                  phase |-> Phase(call[p], {"read", "done"})]
  BY <1>1 DEF Calls, Abstract
<1>3. CASE Open(p) /\ live[call[p].name] = None
  <2>1. End(p, "failed") /\ live' = live
    BY <1>3 DEF Open
  <2> QED
    BY <1>1, <1>2, <2>1, EndForStore DEF Phase, Store!Fail
<1>4. CASE Open(p) /\ live[call[p].name] # None
  <2> DEFINE c == [call[p] EXCEPT !.pc = "read", !.rec = live[call[p].name]]
  <2>1. Abstract(c) = [op |-> "read", name |-> call[p].name, value |-> live[call[p].name],
                       phase |-> "done"]
    BY <1>1 DEF Abstract, Phase, Call
  <2>2. call' = [call EXCEPT ![p] = c] /\ ended' = "none" /\ live' = live
    BY <1>4 DEF Open
  <2> HIDE DEF c
  <2>3. Calls' = [Calls EXCEPT ![p] = Abstract(c)]
    BY <2>2, CallsChanged
  <2>4. Calls[p].op = "read" /\ Calls[p].phase = "begun" /\ Calls[p].name = call[p].name
    BY <1>2, <1>4 DEF Open, At, Phase
  <2> QED
    BY <1>4, <2>1, <2>2, <2>3, <2>4 DEF Store!Read
<1>5. CASE ReadRecord(p)
  <2> DEFINE c == [call[p] EXCEPT !.pc = "done"]
  <2>1. call[p].rec \in Record /\ call[p].pc = "read"
    BY <1>1, <1>5 DEF ReadRecord, At, CallOK
  <2>2. Abstract(c) = Abstract(call[p])
    BY <1>1, <2>1 DEF Abstract, Phase, Call
  <2>3. call' = [call EXCEPT ![p] = c] /\ ended' = "none" /\ live' = live
    BY <1>5, <2>1 DEF ReadRecord, GoTo
  <2> HIDE DEF c
  <2> QED
    BY <2>2, <2>3, NothingForStore
<1> QED
  BY <1>3, <1>4, <1>5

LEMMA ListRefines ==
  ASSUME RecordInv, NEW p \in Proc, ListNext(p) \/ ListFails(p) \/ ListEnds(p)
  PROVE  Store!Pass
<1>1. call[p] \in Call /\ call[p].job = "list"
  BY DEF ListNext, ListFails, ListEnds, RecordInv, TypeOK, At
<1>2. live' = live
  BY DEF ListNext, ListFails, ListEnds
<1>3. CASE ListFails(p)
  BY <1>1, <1>2, <1>3, ListEndForStore DEF ListFails
<1>4. CASE ListEnds(p)
  <2> DEFINE c == [call[p] EXCEPT !.pc = "done"]
  <2>1. Abstract(c) = Abstract(call[p])
    BY <1>1 DEF Abstract, Phase, Call
  <2>2. call' = [call EXCEPT ![p] = c] /\ ended' = "none"
    BY <1>4 DEF ListEnds, GoTo
  <2> QED
    BY <1>2, <2>1, <2>2, NothingForStore
<1>5. CASE ListNext(p)
  <2> PICK n \in call[p].todo :
        call' = [call EXCEPT ![p].todo = @ \ {n}, ![p].got = @ \cup {<<n, live[n]>>}]
    BY <1>5 DEF ListNext
  <2> DEFINE c == [call[p] EXCEPT !.todo = @ \ {n}, !.got = @ \cup {<<n, live[n]>>}]
  <2>1. Abstract(c) = Abstract(call[p])
    BY <1>1 DEF Abstract, Phase, Call
  <2>2. call' = [call EXCEPT ![p] = c] /\ ended' = "none"
    BY <1>5 DEF ListNext
  <2> QED
    BY <1>2, <2>1, <2>2, NothingForStore
<1> QED
  BY <1>3, <1>4, <1>5

LEMMA EndRefines ==
  ASSUME RecordInv, NEW p \in Proc, Return(p) \/ OtherFault(p) \/ Crash(p)
  PROVE  Store!Pass \/ Store!Return(p) \/ Store!Fail(p) \/ Store!Die(p)
<1>1. call[p] \in Call /\ CallOK(call[p]) /\ call[p].pc # "idle" /\ live' = live
  BY DEF Return, OtherFault, Crash, RecordInv, TypeOK
<1>2. call[p].job \in {"register", "unregister", "info", "list"}
  BY <1>1 DEF Call, Job, CallOK
<1>3. CASE call[p].job = "list"
  BY <1>1, <1>3, ListEndForStore DEF Return, OtherFault, Crash
<1>4. CASE call[p].job # "list"
  <2>1. CASE Return(p)
    <3>1. Calls[p].phase = "done"
      BY <1>2, <1>4, <2>1 DEF Return, Calls, Abstract, Phase
    <3> QED
      BY <1>1, <1>2, <1>4, <2>1, <3>1, EndForStore DEF Return, Store!Return
  <2>2. CASE OtherFault(p)
    <3>1. Calls[p].phase = "done" => Calls[p].op = "read"
      BY <1>2, <1>4, <2>2 DEF OtherFault, Calls, Abstract, Phase
    <3> QED
      BY <1>1, <1>2, <1>4, <2>2, <3>1, EndForStore DEF OtherFault, Store!Fail
  <2>3. CASE Crash(p)
    BY <1>1, <1>2, <1>4, <2>3, EndForStore DEF Crash, Store!Die
  <2> QED
    BY <2>1, <2>2, <2>3
<1> QED
  BY <1>3, <1>4

\* Every behaviour of the record files is one of atomic files: a step is the one
\* step of a write, a deletion or a read, or its start or end, or nothing.
THEOREM RecordsAreAtomicFiles == Spec => StoreSpec
<1>1. Init => Store!Init
  <2> SUFFICES ASSUME Init PROVE Store!Init
    OBVIOUS
  <2>1. Abstract(NoCall) = Store!NoCall
    BY DEF Abstract, Phase, NoCall, Store!NoCall
  <2>2. Calls = [p \in Proc |-> Store!NoCall]
    BY <2>1 DEF Calls, Init
  <2> QED
    BY <2>2 DEF Init, Store!Init
<1>2. RecordInv /\ [Next]_vars => [Store!Next]_(Store!vars)
  <2> SUFFICES ASSUME RecordInv, [Next]_vars PROVE [Store!Next]_(Store!vars)
    OBVIOUS
  <2>1. CASE UNCHANGED vars
    BY <2>1 DEF vars, Store!vars, Calls
  <2>2. ASSUME NEW p \in Proc, Step(p) PROVE Store!Next
    BY <2>2, StartRefines, RegisterRefines, UnlinkRefines, InfoRefines, ListRefines, EndRefines
       DEF Step, Work, Store!Next
  <2> QED
    BY <2>1, <2>2 DEF Next
<1> QED
  BY <1>1, <1>2, RecordInvariant, PTL DEF Spec, StoreSpec, Store!Spec

-----------------------------------------------------------------------------
(* THE CONFIGURED REPOSITORIES *)

-----------------------------------------------------------------------------
\* Types and stages

\* What a command has in hand at each stage.
ConfFits(c) ==
  /\ c.pc = "idle" => c = NoCmd
  /\ c.job = "none" => c.pc = "idle"
  /\ c.job = "add" => c.pc \in {"open", "write", "install", "drop", "done"}
                      /\ c.name \in Repo /\ c.entry \in Entry
  /\ c.job = "remove" => c.pc \in {"unlink", "done"} /\ c.name \in Repo
  /\ c.job \in {"list", "update", "search"} =>
       c.pc \in {"load", "visit", "done"} /\ c.name = NoConf
  /\ c.job = "list" => c.pc # "visit"
  /\ c.at # "none" => c.pc = "write"

ConfInv ==
  /\ ConfTypeOK
  /\ \A p \in ConfProc : ConfFits(cmd[p])

ConfStep(p) ==
  /\ ConfAdd(p) \/ ConfRemove(p) \/ Load(p) \/ ConfWork(p) \/ ConfFault(p) \/ ConfCrash(p)
  /\ UNCHANGED overlap

\* What the steps of others may change of a command: where its file is found, what it
\* has missed and whom it has met.
Alike(c, d) ==
  /\ d.job = c.job /\ d.pc = c.pc /\ d.name = c.name /\ d.entry = c.entry
  /\ d.todo = c.todo /\ d.got = c.got /\ d.won = c.won /\ d.lost = c.lost /\ d.hurt = c.hurt
  /\ c.met => d.met
  /\ c.removed \subseteq d.removed
  /\ c.at = "none" <=> d.at = "none"
  /\ c.pc = "idle" => d = c

\* A step of p gives it the command c.
Takes(p, c) ==
  /\ cmd' \in [ConfProc -> Cmd] /\ cmd'[p] = c
  /\ \A q \in ConfProc \ {p} :
       /\ Alike(cmd[q], cmd'[q])
       /\ cmd'[q].met => cmd[q].met \/ (cmd'[p].job = "add" /\ cmd'[p].met)
       /\ cmd[q].at = "temp" /\ cmd'[q].at # "temp" =>
            cmd[p].job = "add" /\ cmd[p].name = cmd[q].name

LEMMA NoCmdFits == NoCmd \in Cmd /\ ConfFits(NoCmd)
BY DEF NoCmd, Cmd, CmdJob, CmdStage, ConfFits

LEMMA OneTakes ==
  ASSUME ConfInv, NEW p \in ConfProc, NEW c \in Cmd, cmd' = [cmd EXCEPT ![p] = c]
  PROVE  Takes(p, c)
<1>1. cmd \in [ConfProc -> Cmd]
  BY DEF ConfInv, ConfTypeOK
<1>2. \A q \in ConfProc \ {p} : cmd'[q] = cmd[q]
  BY <1>1
<1> QED
  BY <1>1, <1>2 DEF Takes, Alike

LEMMA TakesInv ==
  ASSUME ConfInv, NEW p \in ConfProc, NEW c \in Cmd, ConfFits(c), Takes(p, c),
         conf' \in [Repo -> Content], tmp' \in [Repo -> Content], overlap' = overlap,
         reported' \in {"none", "ok", "failed", "killed"}, faults' \in Nat
  PROVE  ConfInv'
<1>1. ASSUME NEW q \in ConfProc, q # p PROVE ConfFits(cmd'[q])
  <2>1. Alike(cmd[q], cmd'[q]) /\ ConfFits(cmd[q])
    BY <1>1 DEF Takes, ConfInv
  <2> QED
    BY <2>1 DEF Alike, ConfFits
<1>2. ASSUME NEW q \in ConfProc PROVE ConfFits(cmd'[q])
  BY <1>1, <1>2 DEF Takes
<1>3. \A q \in ConfProc : cmd'[q].pc = "idle" => cmd'[q] = NoCmd
  BY <1>2 DEF ConfFits
<1> QED
  BY <1>2, <1>3 DEF ConfInv, ConfTypeOK, Takes

\* A file that has moved.
LEMMA MovedFile ==
  ASSUME NEW f \in [ConfProc -> Cmd], \A q \in ConfProc : f[q].at # "none" => f[q].pc = "write",
         NEW n, NEW path \in {"temp", "live"}, NEW to \in {"live", "gone"}
  PROVE  /\ Moved(f, n, path, to) \in [ConfProc -> Cmd]
         /\ \A q \in ConfProc :
              /\ Alike(f[q], Moved(f, n, path, to)[q])
              /\ Moved(f, n, path, to)[q].met = f[q].met
              /\ f[q].at = "none" => Moved(f, n, path, to)[q] = f[q]
              /\ f[q].at = "temp" /\ Moved(f, n, path, to)[q].at # "temp" => f[q].name = n
              /\ Moved(f, n, path, to)[q].at # "none" => Moved(f, n, path, to)[q].pc = "write"
<1> DEFINE g == Moved(f, n, path, to)
<1>1. ASSUME NEW q \in ConfProc
      PROVE  /\ g[q] \in Cmd /\ Alike(f[q], g[q]) /\ (f[q].at = "none" => g[q] = f[q])
             /\ g[q].met = f[q].met
             /\ f[q].at = "temp" /\ g[q].at # "temp" => f[q].name = n
             /\ g[q].at # "none" => g[q].pc = "write"
  <2>1. CASE f[q].name = n /\ f[q].at = path
    <3> DEFINE d == [f[q] EXCEPT !.at = to]
    <3>1. g[q] = d
      BY <2>1 DEF Moved
    <3>2. d \in Cmd /\ Alike(f[q], d) /\ d.at = to /\ d.pc = f[q].pc /\ d.met = f[q].met
      BY <2>1 DEF Cmd, Alike
    <3> HIDE DEF d
    <3> QED
      BY <2>1, <3>1, <3>2
  <2>2. CASE ~(f[q].name = n /\ f[q].at = path)
    BY <2>2 DEF Moved, Alike
  <2> QED
    BY <2>1, <2>2
<1>2. g \in [ConfProc -> Cmd]
  BY <1>1 DEF Moved
<1> QED
  BY <1>1, <1>2

LEMMA AlikeTwice ==
  ASSUME NEW b, NEW c, NEW d, Alike(b, c), Alike(c, d)
  PROVE  Alike(b, d)
BY DEF Alike

-----------------------------------------------------------------------------
\* What the steps make of the commands

LEMMA AddTakes ==
  ASSUME ConfInv, NEW p \in ConfProc, ConfAdd(p)
  PROVE  \E n \in Repo, e \in Entry, b \in BOOLEAN :
           LET c == [NoCmd EXCEPT !.job = "add", !.pc = "open", !.name = n, !.entry = e, !.met = b]
           IN /\ c \in Cmd /\ ConfFits(c) /\ Takes(p, c)
              /\ b <=> \E q \in ConfProc : cmd[q].job = "add" /\ cmd[q].name = n
              /\ b => overlap
              /\ \A q \in ConfProc \ {p} : cmd'[q].met <=>
                   (cmd[q].met \/ (cmd[q].job = "add" /\ cmd[q].name = n))
<1> PICK n \in Repo, e \in Entry :
      LET rivals == {q \in ConfProc : cmd[q].job = "add" /\ cmd[q].name = n} IN
      /\ overlap \/ rivals = {}
      /\ cmd' = [q \in ConfProc |->
                   IF q = p THEN [NoCmd EXCEPT !.job = "add", !.pc = "open", !.name = n,
                                               !.entry = e, !.met = rivals # {}]
                   ELSE [cmd[q] EXCEPT !.met = @ \/ q \in rivals]]
  BY DEF ConfAdd
<1> DEFINE rivals == {q \in ConfProc : cmd[q].job = "add" /\ cmd[q].name = n}
           b == rivals # {}
           c == [NoCmd EXCEPT !.job = "add", !.pc = "open", !.name = n, !.entry = e, !.met = b]
<1>1. cmd \in [ConfProc -> Cmd]
  BY DEF ConfInv, ConfTypeOK
<1>2. b \in BOOLEAN /\ (b <=> \E q \in ConfProc : cmd[q].job = "add" /\ cmd[q].name = n)
      /\ (b => overlap)
  OBVIOUS
<1>3. cmd'[p] = c /\ \A q \in ConfProc \ {p} : cmd'[q] = [cmd[q] EXCEPT !.met = @ \/ q \in rivals]
  OBVIOUS
<1>4. c \in Cmd /\ ConfFits(c)
  <2> HIDE DEF b
  <2> QED
    BY <1>2 DEF NoCmd, Cmd, CmdJob, CmdStage, ConfFits
<1>5. ASSUME NEW q \in ConfProc, q # p
      PROVE  /\ cmd'[q] \in Cmd /\ Alike(cmd[q], cmd'[q]) /\ cmd'[q].at = cmd[q].at
             /\ cmd'[q].met <=> (cmd[q].met \/ (cmd[q].job = "add" /\ cmd[q].name = n))
  <2> DEFINE m == cmd[q].met \/ q \in rivals
             d == [cmd[q] EXCEPT !.met = m]
  <2>1. cmd'[q] = d
    BY <1>3, <1>5
  <2>2. m \in BOOLEAN /\ (cmd[q].met => m)
        /\ (m <=> (cmd[q].met \/ (cmd[q].job = "add" /\ cmd[q].name = n)))
    BY <1>5
  <2>3. cmd[q] \in Cmd /\ cmd[q].met \in BOOLEAN /\ ConfFits(cmd[q])
    BY <1>1 DEF Cmd, ConfInv
  <2>4. cmd[q].pc = "idle" => m = cmd[q].met
    BY <2>3, <1>5 DEF ConfFits, NoCmd
  <2> HIDE DEF m
  <2>5. d \in Cmd /\ d.met = m /\ d.at = cmd[q].at
    BY <2>2, <2>3 DEF Cmd
  <2>6. cmd[q].pc = "idle" => d = cmd[q]
    BY <2>3, <2>4 DEF Cmd
  <2>7. Alike(cmd[q], d)
    BY <2>2, <2>3, <2>5, <2>6 DEF Alike, Cmd
  <2> HIDE DEF d
  <2> QED
    BY <2>1, <2>2, <2>5, <2>7
<1> HIDE DEF rivals, b, c
<1>6. Takes(p, c)
  <2>1. c.met = b /\ c.job = "add"
    BY DEF c, NoCmd
  <2>2. \A q \in ConfProc \ {p} : cmd'[q].met => cmd[q].met \/ (cmd'[p].job = "add" /\ cmd'[p].met)
    BY <1>2, <1>3, <1>5, <2>1
  <2> QED
    BY <1>3, <1>4, <1>5, <2>2 DEF Takes
<1>7. c = [NoCmd EXCEPT !.job = "add", !.pc = "open", !.name = n, !.entry = e, !.met = b]
  BY DEF c
<1> QED
  BY <1>2, <1>4, <1>5, <1>6, <1>7

\* Ending a command, and taking one to its next stage.
LEMMA ConfEndTakes ==
  ASSUME ConfInv, NEW p \in ConfProc, NEW outcome, ConfEnd(p, outcome)
  PROVE  Takes(p, NoCmd)
BY NoCmdFits, OneTakes DEF ConfEnd

LEMMA ConfGoTakes ==
  ASSUME ConfInv, NEW p \in ConfProc, NEW stage \in CmdStage, ConfGoTo(p, stage),
         cmd[p].at = "none"
  PROVE  \E c \in Cmd : Takes(p, c) /\ c = [cmd[p] EXCEPT !.pc = stage]
<1> DEFINE c == [cmd[p] EXCEPT !.pc = stage]
<1>1. cmd[p] \in Cmd
  BY DEF ConfInv, ConfTypeOK
<1>2. c \in Cmd
  BY <1>1 DEF Cmd
<1>3. cmd' = [cmd EXCEPT ![p] = c]
  BY DEF ConfGoTo
<1>4. c = [cmd[p] EXCEPT !.pc = stage]
  OBVIOUS
<1> HIDE DEF c
<1> QED
  BY <1>2, <1>3, <1>4, OneTakes

LEMMA OpenTakes ==
  ASSUME ConfInv, NEW p \in ConfProc, OpenTemp(p)
  PROVE  \E c \in Cmd : /\ Takes(p, c) /\ ConfFits(c)
                        /\ c = [cmd[p] EXCEPT !.pc = "write", !.at = "temp"]
<1> DEFINE c == [cmd[p] EXCEPT !.pc = "write", !.at = "temp"]
<1>1. cmd[p] \in Cmd /\ ConfFits(cmd[p]) /\ cmd[p].job = "add"
  BY DEF ConfInv, ConfTypeOK, OpenTemp, ConfAt
<1>2. c \in Cmd /\ c.job = "add" /\ c.pc = "write" /\ c.name = cmd[p].name
      /\ c.entry = cmd[p].entry
  BY <1>1 DEF Cmd, CmdStage
<1>3. cmd' = [cmd EXCEPT ![p] = c]
  BY DEF OpenTemp
<1>4. c = [cmd[p] EXCEPT !.pc = "write", !.at = "temp"]
  OBVIOUS
<1> HIDE DEF c
<1>5. ConfFits(c)
  BY <1>1, <1>2 DEF ConfFits
<1> QED
  BY <1>2, <1>3, <1>4, <1>5, OneTakes

LEMMA WriteTakes ==
  ASSUME ConfInv, NEW p \in ConfProc, WriteTemp(p)
  PROVE  \E c \in Cmd : /\ Takes(p, c) /\ ConfFits(c)
                        /\ c = [cmd[p] EXCEPT !.pc = "install", !.at = "none"]
<1> DEFINE c == [cmd[p] EXCEPT !.pc = "install", !.at = "none"]
<1>1. cmd[p] \in Cmd /\ ConfFits(cmd[p]) /\ cmd[p].job = "add"
  BY DEF ConfInv, ConfTypeOK, WriteTemp, ConfAt
<1>2. c \in Cmd /\ c.job = "add" /\ c.pc = "install" /\ c.name = cmd[p].name
      /\ c.entry = cmd[p].entry /\ c.at = "none"
  BY <1>1 DEF Cmd, CmdStage
<1>3. cmd' = [cmd EXCEPT ![p] = c]
  BY DEF WriteTemp
<1>4. c = [cmd[p] EXCEPT !.pc = "install", !.at = "none"]
  OBVIOUS
<1> HIDE DEF c
<1>5. ConfFits(c)
  BY <1>1, <1>2 DEF ConfFits
<1> QED
  BY <1>2, <1>3, <1>4, <1>5, OneTakes

\* A process whose file is closed, in a step that moves files of the name of its own.
LEMMA MovedTakes ==
  ASSUME ConfInv, NEW p \in ConfProc, NEW f \in [ConfProc -> Cmd], NEW c \in Cmd,
         cmd' = [f EXCEPT ![p] = c],
         \A q \in ConfProc \ {p} :
           /\ Alike(cmd[q], f[q]) /\ f[q].met = cmd[q].met
           /\ cmd[q].at = "temp" /\ f[q].at # "temp" =>
                cmd[p].job = "add" /\ cmd[p].name = cmd[q].name
  PROVE  Takes(p, c)
<1>1. cmd' \in [ConfProc -> Cmd] /\ cmd'[p] = c
  OBVIOUS
<1>2. \A q \in ConfProc \ {p} : cmd'[q] = f[q]
  OBVIOUS
<1> QED
  BY <1>1, <1>2 DEF Takes

LEMMA InstallTakes ==
  ASSUME ConfInv, NEW p \in ConfProc, Install(p)
  PROVE  \E c \in Cmd :
           /\ Takes(p, c) /\ ConfFits(c)
           /\ c = [cmd[p] EXCEPT !.pc = IF tmp[cmd[p].name] # NoConf THEN "done" ELSE "drop"]
<1>1. cmd \in [ConfProc -> Cmd] /\ cmd[p] \in Cmd /\ ConfFits(cmd[p]) /\ cmd[p].job = "add"
      /\ cmd[p].pc = "install" /\ cmd[p].at = "none"
  BY DEF ConfInv, ConfTypeOK, Install, ConfAt, ConfFits
<1>2. \A q \in ConfProc : cmd[q].at # "none" => cmd[q].pc = "write"
  BY DEF ConfInv, ConfFits
<1>3. ASSUME NEW stage \in {"done", "drop"}
      PROVE  [cmd[p] EXCEPT !.pc = stage] \in Cmd /\ ConfFits([cmd[p] EXCEPT !.pc = stage])
  <2> DEFINE c == [cmd[p] EXCEPT !.pc = stage]
  <2>1. c \in Cmd /\ c.job = "add" /\ c.pc = stage /\ c.name = cmd[p].name
        /\ c.entry = cmd[p].entry /\ c.at = "none"
    BY <1>1 DEF Cmd, CmdStage
  <2> HIDE DEF c
  <2>2. ConfFits(c)
    BY <1>1, <2>1 DEF ConfFits
  <2> QED
    BY <2>1, <2>2 DEF c
<1>4. CASE tmp[cmd[p].name] # NoConf
  <2> DEFINE n == cmd[p].name
             f == Moved(cmd, n, "live", "gone")
             g == Moved(f, n, "temp", "live")
             c == [cmd[p] EXCEPT !.pc = "done"]
  <2>1. f \in [ConfProc -> Cmd]
    BY <1>1, <1>2, MovedFile
  <2>2. \A q \in ConfProc : Alike(cmd[q], f[q]) /\ (cmd[q].at = "none" => f[q] = cmd[q])
                            /\ f[q].met = cmd[q].met /\ (f[q].at # "none" => f[q].pc = "write")
    BY <1>1, <1>2, MovedFile
  <2>3. g \in [ConfProc -> Cmd]
    BY <2>1, <2>2, MovedFile
  <2>4. \A q \in ConfProc : Alike(f[q], g[q]) /\ (f[q].at = "none" => g[q] = f[q])
                            /\ g[q].met = f[q].met
                            /\ (f[q].at = "temp" /\ g[q].at # "temp" => f[q].name = n)
    <3> HIDE DEF f
    <3> QED BY <2>1, <2>2, MovedFile
  <2>5. ASSUME NEW q \in ConfProc, cmd[q].at = "temp" PROVE f[q].at = "temp"
    BY <2>5 DEF Moved
  <2>6. f[p] = cmd[p] /\ g[p] = cmd[p]
    BY <1>1, <2>2, <2>4
  <2>7. cmd' = [g EXCEPT ![p].pc = "done"]
    BY <1>4 DEF Install
  <2> HIDE DEF f, g
  <2>8. cmd' = [g EXCEPT ![p] = c]
    BY <2>3, <2>6, <2>7
  <2>9. c \in Cmd /\ ConfFits(c)
    BY <1>3
  <2>10. ASSUME NEW q \in ConfProc \ {p}
         PROVE  /\ Alike(cmd[q], g[q]) /\ g[q].met = cmd[q].met
                /\ cmd[q].at = "temp" /\ g[q].at # "temp" =>
                     cmd[p].job = "add" /\ cmd[p].name = cmd[q].name
    <3>1. Alike(cmd[q], g[q])
      BY <2>2, <2>4, AlikeTwice
    <3>2. f[q].name = cmd[q].name /\ g[q].met = cmd[q].met
      BY <2>2, <2>4 DEF Alike
    <3> QED
      BY <1>1, <2>4, <2>5, <3>1, <3>2
  <2>11. c = [cmd[p] EXCEPT !.pc = IF tmp[cmd[p].name] # NoConf THEN "done" ELSE "drop"]
    BY <1>4
  <2> HIDE DEF c
  <2>12. Takes(p, c)
    BY <2>3, <2>8, <2>9, <2>10, MovedTakes
  <2> QED
    BY <2>9, <2>11, <2>12
<1>5. CASE tmp[cmd[p].name] = NoConf
  <2> DEFINE c == [cmd[p] EXCEPT !.pc = "drop"]
  <2>1. c \in Cmd /\ ConfFits(c)
    BY <1>3
  <2>2. cmd' = [cmd EXCEPT ![p] = c]
    BY <1>5 DEF Install
  <2>3. c = [cmd[p] EXCEPT !.pc = IF tmp[cmd[p].name] # NoConf THEN "done" ELSE "drop"]
    BY <1>5
  <2> HIDE DEF c
  <2> QED
    BY <2>1, <2>2, <2>3, OneTakes
<1> QED
  BY <1>4, <1>5

LEMMA DropTakes ==
  ASSUME ConfInv, NEW p \in ConfProc, Drop(p)
  PROVE  Takes(p, NoCmd)
<1> DEFINE f == Moved(cmd, cmd[p].name, "temp", "gone")
<1>1. cmd \in [ConfProc -> Cmd] /\ cmd[p].job = "add"
  BY DEF ConfInv, ConfTypeOK, Drop, ConfAt
<1>2. \A q \in ConfProc : cmd[q].at # "none" => cmd[q].pc = "write"
  BY DEF ConfInv, ConfFits
<1>3. f \in [ConfProc -> Cmd]
  BY <1>1, <1>2, MovedFile
<1>4. \A q \in ConfProc : Alike(cmd[q], f[q]) /\ f[q].met = cmd[q].met
                          /\ (cmd[q].at = "temp" /\ f[q].at # "temp" => cmd[q].name = cmd[p].name)
  BY <1>1, <1>2, MovedFile
<1>5. cmd' = [f EXCEPT ![p] = NoCmd]
  BY DEF Drop
<1> HIDE DEF f
<1>6. ASSUME NEW q \in ConfProc \ {p}
      PROVE  /\ Alike(cmd[q], f[q]) /\ f[q].met = cmd[q].met
             /\ cmd[q].at = "temp" /\ f[q].at # "temp" =>
                  cmd[p].job = "add" /\ cmd[p].name = cmd[q].name
  BY <1>1, <1>4
<1> QED
  BY <1>3, <1>5, <1>6, NoCmdFits, MovedTakes

\* Whoever is loading takes note of a removal.
LEMMA UnlinkTakes ==
  ASSUME ConfInv, NEW p \in ConfProc, Unlink(p)
  PROVE  \/ Takes(p, NoCmd) /\ conf[cmd[p].name] = NoConf /\ conf' = conf /\ reported' = "failed"
         \/ \E c \in Cmd :
              /\ Takes(p, c) /\ ConfFits(c) /\ c = [cmd[p] EXCEPT !.pc = "done"]
              /\ conf[cmd[p].name] # NoConf /\ conf' = [conf EXCEPT ![cmd[p].name] = NoConf]
              /\ reported' = "none"
              /\ \A q \in ConfProc \ {p} : cmd[q].pc = "load" => cmd[p].name \in cmd'[q].removed
<1>1. cmd \in [ConfProc -> Cmd] /\ cmd[p] \in Cmd /\ ConfFits(cmd[p]) /\ cmd[p].job = "remove"
      /\ cmd[p].pc = "unlink" /\ cmd[p].at = "none" /\ cmd[p].name \in Repo
  BY DEF ConfInv, ConfTypeOK, Unlink, ConfAt, ConfFits
<1>2. CASE conf[cmd[p].name] = NoConf
  <2>1. ConfEnd(p, "failed") /\ UNCHANGED conf
    BY <1>2 DEF Unlink
  <2>2. reported' = "failed"
    BY <1>1, <2>1 DEF ConfEnd
  <2> QED
    BY <1>2, <2>1, <2>2, ConfEndTakes
<1>3. CASE conf[cmd[p].name] # NoConf
  <2> DEFINE n == cmd[p].name
             e == [q \in ConfProc |-> IF cmd[q].pc = "load"
                                      THEN [cmd[q] EXCEPT !.removed = @ \cup {n}] ELSE cmd[q]]
             f == Moved(e, n, "live", "gone")
             c == [cmd[p] EXCEPT !.pc = "done"]
  <2>1. conf' = [conf EXCEPT ![n] = NoConf] /\ cmd' = [f EXCEPT ![p].pc = "done"]
        /\ reported' = "none"
    BY <1>3 DEF Unlink
  <2>2. ASSUME NEW q \in ConfProc
        PROVE  /\ e[q] \in Cmd /\ Alike(cmd[q], e[q]) /\ e[q].at = cmd[q].at
               /\ e[q].met = cmd[q].met
               /\ cmd[q].pc = "load" => n \in e[q].removed
               /\ cmd[q].pc # "load" => e[q] = cmd[q]
    <3>1. CASE cmd[q].pc = "load"
      <4> DEFINE r == cmd[q].removed \cup {n}
                 d == [cmd[q] EXCEPT !.removed = r]
      <4>1. e[q] = d
        BY <3>1
      <4>2. r \subseteq Repo /\ n \in r /\ cmd[q].removed \subseteq r
        BY <1>1 DEF Cmd
      <4> HIDE DEF r
      <4>3. d \in Cmd /\ d.removed = r /\ d.at = cmd[q].at /\ Alike(cmd[q], d)
            /\ d.met = cmd[q].met
        BY <1>1, <3>1, <4>2 DEF Cmd, Alike
      <4> HIDE DEF d
      <4> QED
        BY <3>1, <4>1, <4>2, <4>3
    <3>2. CASE cmd[q].pc # "load"
      BY <1>1, <3>2 DEF Alike
    <3> QED
      BY <3>1, <3>2
  <2>3. e \in [ConfProc -> Cmd]
    BY <2>2
  <2>4. \A q \in ConfProc : e[q].at # "none" => e[q].pc = "write"
    BY <2>2 DEF ConfInv, ConfFits, Alike
  <2>5. e[p] = cmd[p]
    BY <1>1, <2>2
  <2>6. \A q \in ConfProc : e[q].at = "temp" => f[q].at = "temp"
    BY DEF Moved
  <2> HIDE DEF e
  <2>7. f \in [ConfProc -> Cmd]
    BY <2>3, <2>4, MovedFile
  <2>8. \A q \in ConfProc : Alike(e[q], f[q]) /\ (e[q].at = "none" => f[q] = e[q])
                            /\ f[q].met = e[q].met
    BY <2>3, <2>4, MovedFile
  <2> HIDE DEF f
  <2>9. f[p] = cmd[p]
    BY <1>1, <2>5, <2>8
  <2>10. c \in Cmd /\ c.job = "remove" /\ c.pc = "done" /\ c.name = n /\ c.at = "none"
    BY <1>1 DEF Cmd, CmdStage
  <2>11. cmd' = [f EXCEPT ![p] = c]
    BY <2>1, <2>7, <2>9
  <2>12. c = [cmd[p] EXCEPT !.pc = "done"]
    OBVIOUS
  <2> HIDE DEF c
  <2>13. ConfFits(c)
    BY <1>1, <2>10 DEF ConfFits
  <2>14. ASSUME NEW q \in ConfProc \ {p}
         PROVE  /\ Alike(cmd[q], f[q]) /\ f[q].met = cmd[q].met
                /\ cmd[q].at = "temp" /\ f[q].at # "temp" =>
                     cmd[p].job = "add" /\ cmd[p].name = cmd[q].name
    <3>1. Alike(cmd[q], f[q]) /\ f[q].met = cmd[q].met
      BY <2>2, <2>8, AlikeTwice
    <3> QED
      BY <2>2, <2>6, <3>1
  <2>15. Takes(p, c)
    BY <2>7, <2>10, <2>11, <2>14, MovedTakes
  <2>16. ASSUME NEW q \in ConfProc \ {p}, cmd[q].pc = "load" PROVE n \in cmd'[q].removed
    <3>1. cmd'[q] = f[q] /\ n \in e[q].removed /\ Alike(e[q], f[q])
      BY <2>2, <2>7, <2>8, <2>11, <2>16
    <3> QED
      BY <3>1 DEF Alike
  <2> QED
    BY <1>3, <2>1, <2>10, <2>12, <2>13, <2>15, <2>16
<1> QED
  BY <1>2, <1>3

\* A load that begins.
LEMMA LoadTakes ==
  ASSUME ConfInv, NEW p \in ConfProc, Load(p)
  PROVE  \E job \in {"list", "update", "search"} :
           LET c == [NoCmd EXCEPT !.job = job, !.pc = "load",
                                  !.todo = {n \in Repo : conf[n] # NoConf}]
           IN c \in Cmd /\ ConfFits(c) /\ Takes(p, c)
<1> DEFINE todo == {n \in Repo : conf[n] # NoConf}
           c(job) == [NoCmd EXCEPT !.job = job, !.pc = "load", !.todo = todo]
<1> PICK job \in {"list", "update", "search"} : ConfEnter(p, c(job))
  BY DEF Load
<1>1. todo \subseteq Repo
  OBVIOUS
<1>2. c(job) \in Cmd /\ ConfFits(c(job))
  <2> HIDE DEF todo
  <2> QED
    BY <1>1 DEF NoCmd, Cmd, CmdJob, CmdStage, ConfFits
<1>3. Takes(p, c(job))
  BY <1>2, OneTakes DEF ConfEnter
<1> QED
  BY <1>2, <1>3

LEMMA LoadNextTakes ==
  ASSUME ConfInv, NEW p \in ConfProc, LoadNext(p)
  PROVE  \E n \in cmd[p].todo, c \in Cmd :
           /\ Takes(p, c) /\ ConfFits(c) /\ conf[n] \in Entry
           /\ c = [cmd[p] EXCEPT !.todo = @ \ {n}, !.got = @ \cup {<<n, conf[n]>>}]
<1>1. cmd[p] \in Cmd /\ ConfFits(cmd[p]) /\ cmd[p].pc = "load"
  BY DEF ConfInv, ConfTypeOK, LoadNext
<1> PICK n \in cmd[p].todo :
      /\ conf[n] \in Entry
      /\ cmd' = [cmd EXCEPT ![p].todo = @ \ {n}, ![p].got = @ \cup {<<n, conf[n]>>}]
  BY DEF LoadNext
<1> DEFINE c == [cmd[p] EXCEPT !.todo = @ \ {n}, !.got = @ \cup {<<n, conf[n]>>}]
<1>2. cmd[p].todo \ {n} \in SUBSET Repo
      /\ cmd[p].got \cup {<<n, conf[n]>>} \in SUBSET (Repo \X Entry)
  BY <1>1 DEF Cmd
<1>3. c \in Cmd /\ c.job = cmd[p].job /\ c.pc = "load" /\ c.name = cmd[p].name
      /\ c.at = cmd[p].at
  BY <1>1, <1>2 DEF Cmd
<1>4. cmd' = [cmd EXCEPT ![p] = c]
  OBVIOUS
<1>5. c = [cmd[p] EXCEPT !.todo = @ \ {n}, !.got = @ \cup {<<n, conf[n]>>}]
  OBVIOUS
<1> HIDE DEF c
<1>6. ConfFits(c)
  BY <1>1, <1>3 DEF ConfFits
<1> QED
  BY <1>3, <1>4, <1>5, <1>6, OneTakes

LEMMA LoadEndsTakes ==
  ASSUME ConfInv, NEW p \in ConfProc, LoadEnds(p)
  PROVE  \E c \in Cmd :
           /\ Takes(p, c) /\ ConfFits(c)
           /\ c = [cmd[p] EXCEPT !.pc = IF cmd[p].job = "list" THEN "done" ELSE "visit"]
<1> DEFINE stage == IF cmd[p].job = "list" THEN "done" ELSE "visit"
<1>1. cmd[p] \in Cmd /\ ConfFits(cmd[p]) /\ cmd[p].pc = "load" /\ cmd[p].at = "none"
  BY DEF ConfInv, ConfTypeOK, LoadEnds, ConfFits
<1>2. cmd[p].job \in {"list", "update", "search"}
  BY <1>1 DEF Cmd, CmdJob, ConfFits
<1>3. stage \in CmdStage /\ stage \in {"visit", "done"} /\ (cmd[p].job = "list" => stage # "visit")
  BY DEF CmdStage
<1>4. ConfGoTo(p, stage)
  BY DEF LoadEnds
<1> HIDE DEF stage
<1> PICK c \in Cmd : Takes(p, c) /\ c = [cmd[p] EXCEPT !.pc = stage]
  BY <1>1, <1>3, <1>4, ConfGoTakes
<1>5. c.job = cmd[p].job /\ c.pc = stage /\ c.name = cmd[p].name /\ c.at = "none"
  BY <1>1 DEF Cmd
<1>6. ConfFits(c)
  BY <1>1, <1>2, <1>3, <1>5 DEF ConfFits
<1> QED
  BY <1>6 DEF stage

-----------------------------------------------------------------------------
\* The best of several repositories

\* The repositories loaded are finitely many, each with one entry, so that their
\* order has a first.  By counting: were there one before each, the numbers of those
\* before them would not be different.
LEMMA BestOfThem ==
  ASSUME NEW S \in SUBSET (Repo \X Entry), IsFiniteSet(S), S # {},
         \A x, y \in S : x[1] = y[1] => x = y
  PROVE  Best(S) \in S
<1>1. \A x \in S : Priority[x[2]] \in Nat /\ Rank[x[1]] \in Int
  BY ConfConstants DEF ConfConstantsOK
<1>2. \A x, y \in S : x # y => Rank[x[1]] # Rank[y[1]]
  BY ConfConstants DEF ConfConstantsOK
<1>3. \A x, y \in S : x # y => Before(x, y) \/ Before(y, x)
  BY <1>1, <1>2 DEF Before
<1>4. \A x, y, z \in S : Before(x, y) /\ Before(y, z) => Before(x, z)
  BY <1>1 DEF Before
<1>5. \A x \in S : ~Before(x, x)
  BY <1>1 DEF Before
<1> HIDE DEF Before
<1> DEFINE earlier(x) == {y \in S : Before(y, x)}
<1>6. \E x \in S : earlier(x) = {}
  <2> SUFFICES ASSUME \A x \in S : earlier(x) # {} PROVE FALSE
    OBVIOUS
  <2> DEFINE n == Cardinality(S)
             count == [x \in S |-> Cardinality(earlier(x))]
  <2>1. n \in Nat
    BY FS_CardinalityType
  <2>2. ASSUME NEW x \in S PROVE count[x] \in 1..(n - 1)
    <3>1. earlier(x) \in SUBSET S /\ x \notin earlier(x) /\ earlier(x) # {}
      BY <1>5
    <3> HIDE DEF earlier
    <3>2. IsFiniteSet(earlier(x)) /\ Cardinality(earlier(x)) <= n /\ Cardinality(earlier(x)) # n
      BY <3>1, FS_Subset
    <3>3. Cardinality(earlier(x)) \in Nat /\ Cardinality(earlier(x)) # 0
      BY <3>1, <3>2, FS_CardinalityType, FS_EmptySet
    <3> QED
      BY <2>1, <3>2, <3>3
  <2>3. count \in [S -> 1..(n - 1)]
    BY <2>2
  <2>4. n # 0 /\ n - 1 \in Nat /\ 1 \in Int
    BY <2>1, FS_EmptySet
  <2>5. IsFiniteSet(1..(n - 1)) /\ Cardinality(1..(n - 1)) < n
    <3> HIDE DEF n
    <3>1. IsFiniteSet(1..(n - 1))
          /\ Cardinality(1..(n - 1)) = IF 1 > n - 1 THEN 0 ELSE n - 1 - 1 + 1
      BY <2>1, FS_Interval
    <3> QED
      BY <2>1, <2>4, <3>1
  <2>6. PICK x, y \in S : x # y /\ count[x] = count[y]
    <3> HIDE DEF count
    <3>1. Cardinality(1..(n - 1)) < Cardinality(S)
      BY <2>5
    <3> HIDE DEF n
    <3> DEFINE T == 1..(n - 1)
    <3>2. IsFiniteSet(T) /\ Cardinality(T) < Cardinality(S) /\ count \in [S -> T]
      BY <2>3, <2>5, <3>1
    <3> HIDE DEF T
    <3>3. \E x, y \in S : x # y /\ count[x] = count[y]
      BY ONLY IsFiniteSet(S), <3>2, FS_PigeonHole, Zenon
    <3> QED
      BY <3>3
  <2>7. ASSUME NEW u \in S, NEW v \in S, Before(u, v) PROVE count[u] # count[v]
    <3>1. earlier(u) \in SUBSET earlier(v) /\ u \in earlier(v) /\ u \notin earlier(u)
          /\ earlier(v) \in SUBSET S
      BY <1>4, <1>5, <2>7
    <3>2. count[u] = Cardinality(earlier(u)) /\ count[v] = Cardinality(earlier(v))
      OBVIOUS
    <3> HIDE DEF earlier, count
    <3>3. IsFiniteSet(earlier(v))
      BY <3>1, FS_Subset
    <3> QED
      BY <3>1, <3>2, <3>3, FS_Subset
  <2> QED
    BY <1>3, <2>6, <2>7
<1>7. PICK x \in S : earlier(x) = {}
  BY <1>6
<1>8. \A y \in S \ {x} : Before(x, y)
  BY <1>3, <1>7
<1> QED
  BY <1>8 DEF Best

-----------------------------------------------------------------------------
\* Going through the repositories

\* Every repository is loaded once, and those tried are enabled ones.
VisitFits(c) ==
  /\ IsFiniteSet(c.got)
  /\ \A x, y \in c.got : x[1] = y[1] => x = y
  /\ \A x \in c.got : x[1] \notin c.todo
  /\ c.pc = "load" => c.won = {} /\ c.lost = {}
  /\ c.pc = "visit" => c.won \cup c.lost \subseteq {x[1] : x \in {y \in c.got : y[2] \in Enabled}}

\* What was loaded stays as it is in the steps that have nothing to do with it.
LEMMA SameVisit ==
  ASSUME NEW c, NEW d, VisitFits(c), d.got = c.got, d.todo = c.todo, d.won = c.won,
         d.lost = c.lost, d.pc \in {"load", "visit"} => d.pc = c.pc
  PROVE  VisitFits(d)
BY DEF VisitFits

LEMMA NoVisit == VisitFits(NoCmd)
BY FS_EmptySet DEF VisitFits, NoCmd

LEMMA VisitTakes ==
  ASSUME ConfInv, NEW p \in ConfProc, VisitFits(cmd[p]), Visit(p)
  PROVE  \E c \in Cmd :
           /\ Takes(p, c) /\ ConfFits(c) /\ VisitFits(c)
           /\ c.job = cmd[p].job /\ c.pc = "visit"
<1> DEFINE best == Best(Waiting(cmd[p]))
           n == best[1]
<1>1. cmd[p] \in Cmd /\ ConfFits(cmd[p]) /\ cmd[p].pc = "visit" /\ Waiting(cmd[p]) # {}
  BY DEF ConfInv, ConfTypeOK, Visit
<1>2. Waiting(cmd[p]) \in SUBSET cmd[p].got /\ Waiting(cmd[p]) \in SUBSET (Repo \X Entry)
  BY <1>1 DEF Waiting, Cmd
<1>3. IsFiniteSet(Waiting(cmd[p]))
  BY <1>2, FS_Subset DEF VisitFits
<1>4. \A x, y \in Waiting(cmd[p]) : x[1] = y[1] => x = y
  BY <1>2 DEF VisitFits
<1>5. best \in Waiting(cmd[p])
  BY <1>1, <1>2, <1>3, <1>4, BestOfThem
<1>6. n \in Repo /\ n \in {x[1] : x \in {y \in cmd[p].got : y[2] \in Enabled}}
  BY <1>2, <1>5 DEF Waiting
<1>7. cmd' = [cmd EXCEPT ![p].won = @ \cup {n}] \/ cmd' = [cmd EXCEPT ![p].lost = @ \cup {n}]
  BY DEF Visit
<1> HIDE DEF n, best
<1>8. CASE cmd' = [cmd EXCEPT ![p].won = @ \cup {n}]
  <2> DEFINE s == cmd[p].won \cup {n}
             c == [cmd[p] EXCEPT !.won = s]
  <2>1. s \in SUBSET Repo
    BY <1>1, <1>6 DEF Cmd
  <2>2. s \cup cmd[p].lost \subseteq {x[1] : x \in {y \in cmd[p].got : y[2] \in Enabled}}
    BY <1>1, <1>6 DEF VisitFits
  <2>3. cmd' = [cmd EXCEPT ![p] = c]
    BY <1>8
  <2> HIDE DEF s
  <2>4. c \in Cmd /\ c.job = cmd[p].job /\ c.pc = "visit" /\ c.name = cmd[p].name
        /\ c.at = cmd[p].at /\ c.got = cmd[p].got /\ c.todo = cmd[p].todo /\ c.won = s
        /\ c.lost = cmd[p].lost
    BY <1>1, <2>1 DEF Cmd
  <2> HIDE DEF c
  <2>5. ConfFits(c)
    BY <1>1, <2>4 DEF ConfFits
  <2>6. VisitFits(c)
    BY <2>2, <2>4 DEF VisitFits
  <2> QED
    BY <2>3, <2>4, <2>5, <2>6, OneTakes
<1>9. CASE cmd' = [cmd EXCEPT ![p].lost = @ \cup {n}]
  <2> DEFINE s == cmd[p].lost \cup {n}
             c == [cmd[p] EXCEPT !.lost = s]
  <2>1. s \in SUBSET Repo
    BY <1>1, <1>6 DEF Cmd
  <2>2. cmd[p].won \cup s \subseteq {x[1] : x \in {y \in cmd[p].got : y[2] \in Enabled}}
    BY <1>1, <1>6 DEF VisitFits
  <2>3. cmd' = [cmd EXCEPT ![p] = c]
    BY <1>9
  <2> HIDE DEF s
  <2>4. c \in Cmd /\ c.job = cmd[p].job /\ c.pc = "visit" /\ c.name = cmd[p].name
        /\ c.at = cmd[p].at /\ c.got = cmd[p].got /\ c.todo = cmd[p].todo /\ c.lost = s
        /\ c.won = cmd[p].won
    BY <1>1, <2>1 DEF Cmd
  <2> HIDE DEF c
  <2>5. ConfFits(c)
    BY <1>1, <2>4 DEF ConfFits
  <2>6. VisitFits(c)
    BY <2>2, <2>4 DEF VisitFits
  <2> QED
    BY <2>3, <2>4, <2>5, <2>6, OneTakes
<1> QED
  BY <1>7, <1>8, <1>9

\* A search or an update that has tried them all.
LEMMA VisitEndsTakes ==
  ASSUME ConfInv, NEW p \in ConfProc, VisitEnds(p)
  PROVE  \/ Takes(p, NoCmd) /\ ~Successful(cmd[p])
         \/ \E c \in Cmd : /\ Takes(p, c) /\ ConfFits(c) /\ c = [cmd[p] EXCEPT !.pc = "done"]
                           /\ Successful(cmd[p])
<1>1. cmd[p] \in Cmd /\ ConfFits(cmd[p]) /\ cmd[p].pc = "visit" /\ cmd[p].at = "none"
  BY DEF ConfInv, ConfTypeOK, VisitEnds, ConfFits
<1>2. CASE ~Successful(cmd[p])
  BY <1>2, ConfEndTakes DEF VisitEnds
<1>3. CASE Successful(cmd[p])
  <2>1. ConfGoTo(p, "done") /\ "done" \in CmdStage
    BY <1>3 DEF VisitEnds, CmdStage
  <2> PICK c \in Cmd : Takes(p, c) /\ c = [cmd[p] EXCEPT !.pc = "done"]
    BY <1>1, <2>1, ConfGoTakes
  <2>2. c.job = cmd[p].job /\ c.pc = "done" /\ c.name = cmd[p].name /\ c.at = "none"
    BY <1>1 DEF Cmd
  <2>3. ConfFits(c)
    BY <1>1, <2>2 DEF ConfFits, Cmd, CmdJob
  <2> QED
    BY <1>3, <2>3
<1> QED
  BY <1>2, <1>3

LEMMA RemoveTakes ==
  ASSUME ConfInv, NEW p \in ConfProc, ConfRemove(p)
  PROVE  \E n \in Repo, c \in Cmd :
           /\ Takes(p, c) /\ ConfFits(c) /\ VisitFits(c)
           /\ c = [NoCmd EXCEPT !.job = "remove", !.pc = "unlink", !.name = n]
<1> DEFINE c(n) == [NoCmd EXCEPT !.job = "remove", !.pc = "unlink", !.name = n]
<1> PICK n \in Repo : ConfEnter(p, c(n))
  BY DEF ConfRemove
<1>1. c(n) \in Cmd /\ ConfFits(c(n)) /\ VisitFits(c(n))
  BY FS_EmptySet DEF NoCmd, Cmd, CmdJob, CmdStage, ConfFits, VisitFits
<1>2. Takes(p, c(n))
  BY <1>1, OneTakes DEF ConfEnter
<1> QED
  BY <1>1, <1>2

LEMMA FaultTakes ==
  ASSUME ConfInv, NEW p \in ConfProc, ConfFault(p)
  PROVE  \/ /\ Takes(p, NoCmd) /\ UNCHANGED <<conf, tmp>> /\ ConfEnd(p, "failed")
            /\ cmd[p].pc \in {"open", "unlink", "load"}
         \/ \E c \in Cmd :
              /\ Takes(p, c) /\ ConfFits(c) /\ cmd[p].job = "add"
              /\ cmd[p].pc \in {"write", "install"} /\ reported' = "none"
              /\ c = [cmd[p] EXCEPT !.pc = "drop", !.at = "none", !.hurt = TRUE]
<1>1. cmd[p] \in Cmd /\ ConfFits(cmd[p])
  BY DEF ConfInv, ConfTypeOK
<1>2. CASE cmd[p].pc \in {"open", "unlink", "load"}
  BY <1>2, ConfEndTakes DEF ConfFault
<1>3. CASE cmd[p].pc \in {"write", "install"}
  <2> DEFINE c == [cmd[p] EXCEPT !.pc = "drop", !.at = "none", !.hurt = TRUE]
  <2>1. cmd[p].job = "add"
    BY <1>1, <1>3 DEF Cmd, CmdJob, ConfFits
  <2>2. c \in Cmd /\ c.job = "add" /\ c.pc = "drop" /\ c.name = cmd[p].name
        /\ c.entry = cmd[p].entry /\ c.at = "none"
    BY <1>1, <2>1 DEF Cmd, CmdStage
  <2>3. cmd' = [cmd EXCEPT ![p] = c] /\ reported' = "none"
    BY <1>3 DEF ConfFault
  <2>4. c = [cmd[p] EXCEPT !.pc = "drop", !.at = "none", !.hurt = TRUE]
    OBVIOUS
  <2> HIDE DEF c
  <2>5. ConfFits(c)
    BY <1>1, <2>1, <2>2 DEF ConfFits
  <2> QED
    BY <1>3, <2>1, <2>2, <2>3, <2>4, <2>5, OneTakes
<1> QED
  BY <1>2, <1>3 DEF ConfFault

\* Whatever step p takes, its next command is one that fits.
LEMMA AnyTakes ==
  ASSUME ConfInv, NEW p \in ConfProc, VisitFits(cmd[p]), ConfStep(p)
  PROVE  \E c \in Cmd : Takes(p, c) /\ ConfFits(c) /\ VisitFits(c)
<1>1. cmd[p] \in Cmd
  BY DEF ConfInv, ConfTypeOK
<1> DEFINE Goal == \E c \in Cmd : Takes(p, c) /\ ConfFits(c) /\ VisitFits(c)
<1> SUFFICES Goal
  OBVIOUS
<1>2. Takes(p, NoCmd) => Goal
  BY NoCmdFits, NoVisit
<1>3. CASE ConfAdd(p)
  <2> PICK n \in Repo, e \in Entry, b \in BOOLEAN :
        LET c == [NoCmd EXCEPT !.job = "add", !.pc = "open", !.name = n, !.entry = e, !.met = b]
        IN c \in Cmd /\ ConfFits(c) /\ Takes(p, c)
    BY <1>3, AddTakes
  <2> DEFINE c == [NoCmd EXCEPT !.job = "add", !.pc = "open", !.name = n, !.entry = e, !.met = b]
  <2>1. VisitFits(c)
    BY FS_EmptySet DEF NoCmd, VisitFits
  <2> QED
    BY <2>1
<1>4. CASE OpenTemp(p)
  <2> PICK c \in Cmd : Takes(p, c) /\ ConfFits(c) /\ c = [cmd[p] EXCEPT !.pc = "write", !.at = "temp"]
    BY <1>4, OpenTakes
  <2>1. c.got = cmd[p].got /\ c.todo = cmd[p].todo /\ c.won = cmd[p].won /\ c.lost = cmd[p].lost
        /\ c.pc = "write"
    BY <1>1 DEF Cmd
  <2> QED
    BY <2>1, SameVisit
<1>5. CASE WriteTemp(p)
  <2> PICK c \in Cmd : Takes(p, c) /\ ConfFits(c) /\ c = [cmd[p] EXCEPT !.pc = "install", !.at = "none"]
    BY <1>5, WriteTakes
  <2>1. c.got = cmd[p].got /\ c.todo = cmd[p].todo /\ c.won = cmd[p].won /\ c.lost = cmd[p].lost
        /\ c.pc = "install"
    BY <1>1 DEF Cmd
  <2> QED
    BY <2>1, SameVisit
<1>6. CASE Install(p)
  <2> DEFINE stage == IF tmp[cmd[p].name] # NoConf THEN "done" ELSE "drop"
  <2> PICK c \in Cmd : Takes(p, c) /\ ConfFits(c) /\ c = [cmd[p] EXCEPT !.pc = stage]
    BY <1>6, InstallTakes
  <2>1. c.got = cmd[p].got /\ c.todo = cmd[p].todo /\ c.won = cmd[p].won /\ c.lost = cmd[p].lost
        /\ c.pc \in {"done", "drop"}
    BY <1>1 DEF Cmd
  <2>2. VisitFits(c)
    BY <2>1 DEF VisitFits
  <2> QED
    BY <2>2
<1>7. CASE Unlink(p)
  <2>1. CASE Takes(p, NoCmd)
    BY <1>2, <2>1
  <2>2. CASE ~Takes(p, NoCmd)
    <3> PICK c \in Cmd : Takes(p, c) /\ ConfFits(c) /\ c = [cmd[p] EXCEPT !.pc = "done"]
      BY <1>7, <2>2, UnlinkTakes
    <3>1. c.got = cmd[p].got /\ c.todo = cmd[p].todo /\ c.won = cmd[p].won /\ c.lost = cmd[p].lost
          /\ c.pc = "done"
      BY <1>1 DEF Cmd
    <3> QED
      BY <3>1, SameVisit
  <2> QED
    BY <2>1, <2>2
<1>8. CASE Load(p)
  <2> DEFINE todo == {n \in Repo : conf[n] # NoConf}
  <2> PICK job \in {"list", "update", "search"} :
        LET c == [NoCmd EXCEPT !.job = job, !.pc = "load", !.todo = todo]
        IN c \in Cmd /\ ConfFits(c) /\ Takes(p, c)
    BY <1>8, LoadTakes
  <2> DEFINE c == [NoCmd EXCEPT !.job = job, !.pc = "load", !.todo = todo]
  <2>1. VisitFits(c)
    BY FS_EmptySet DEF NoCmd, VisitFits
  <2>2. c \in Cmd /\ Takes(p, c) /\ ConfFits(c)
    OBVIOUS
  <2> HIDE DEF c, todo
  <2> QED
    BY <2>1, <2>2
<1>9. CASE LoadNext(p)
  <2> PICK n \in cmd[p].todo, c \in Cmd :
        /\ Takes(p, c) /\ ConfFits(c) /\ conf[n] \in Entry
        /\ c = [cmd[p] EXCEPT !.todo = @ \ {n}, !.got = @ \cup {<<n, conf[n]>>}]
    BY <1>9, LoadNextTakes
  <2>1. c.got = cmd[p].got \cup {<<n, conf[n]>>} /\ c.todo = cmd[p].todo \ {n}
        /\ c.won = cmd[p].won /\ c.lost = cmd[p].lost /\ c.pc = "load" /\ cmd[p].pc = "load"
    BY <1>1, <1>9 DEF Cmd, LoadNext
  <2>2. IsFiniteSet(c.got)
    <3>1. IsFiniteSet(cmd[p].got)
      BY DEF VisitFits
    <3>2. IsFiniteSet(cmd[p].got \cup {<<n, conf[n]>>})
      BY <3>1, FS_AddElement
    <3> QED
      BY <2>1, <3>2
  <2>3. /\ \A x, y \in c.got : x[1] = y[1] => x = y
        /\ \A x \in c.got : x[1] \notin c.todo
    BY <2>1 DEF VisitFits
  <2>4. c.won = {} /\ c.lost = {}
    BY <2>1 DEF VisitFits
  <2> QED
    BY <2>1, <2>2, <2>3, <2>4 DEF VisitFits
<1>10. CASE LoadEnds(p)
  <2> DEFINE stage == IF cmd[p].job = "list" THEN "done" ELSE "visit"
  <2> PICK c \in Cmd : Takes(p, c) /\ ConfFits(c) /\ c = [cmd[p] EXCEPT !.pc = stage]
    BY <1>10, LoadEndsTakes
  <2>1. c.got = cmd[p].got /\ c.todo = cmd[p].todo /\ c.won = cmd[p].won /\ c.lost = cmd[p].lost
        /\ c.pc # "load" /\ cmd[p].pc = "load"
    BY <1>1, <1>10 DEF Cmd, LoadEnds
  <2> QED
    BY <2>1 DEF VisitFits
<1>11. CASE VisitEnds(p)
  <2>1. CASE Takes(p, NoCmd)
    BY <1>2, <2>1
  <2>2. CASE ~Takes(p, NoCmd)
    <3> PICK c \in Cmd : Takes(p, c) /\ ConfFits(c) /\ c = [cmd[p] EXCEPT !.pc = "done"]
      BY <1>11, <2>2, VisitEndsTakes
    <3>1. c.got = cmd[p].got /\ c.todo = cmd[p].todo /\ c.won = cmd[p].won /\ c.lost = cmd[p].lost
          /\ c.pc = "done"
      BY <1>1 DEF Cmd
    <3> QED
      BY <3>1, SameVisit
  <2> QED
    BY <2>1, <2>2
<1>12. CASE ConfFault(p)
  <2>1. CASE Takes(p, NoCmd)
    BY <1>2, <2>1
  <2>2. CASE ~Takes(p, NoCmd)
    <3> PICK c \in Cmd : Takes(p, c) /\ ConfFits(c)
                         /\ c = [cmd[p] EXCEPT !.pc = "drop", !.at = "none", !.hurt = TRUE]
      BY <1>12, <2>2, FaultTakes
    <3>1. c.got = cmd[p].got /\ c.todo = cmd[p].todo /\ c.won = cmd[p].won /\ c.lost = cmd[p].lost
          /\ c.pc = "drop"
      BY <1>1 DEF Cmd
    <3> QED
      BY <3>1, SameVisit
  <2> QED
    BY <2>1, <2>2
<1>13. CASE Drop(p)
  BY <1>2, <1>13, DropTakes
<1>14. CASE LoadFails(p) \/ ConfReturn(p) \/ ConfCrash(p)
  BY <1>2, <1>14, ConfEndTakes DEF LoadFails, ConfReturn, ConfCrash
<1>15. CASE ConfRemove(p)
  BY <1>15, RemoveTakes
<1>16. CASE Visit(p)
  BY <1>16, VisitTakes
<1> QED
  BY <1>3, <1>4, <1>5, <1>6, <1>7, <1>8, <1>9, <1>10, <1>11, <1>12, <1>13, <1>14, <1>15, <1>16
     DEF ConfStep, ConfWork

-----------------------------------------------------------------------------
\* What the steps make of the files

LEMMA FillTypes ==
  ASSUME ConfInv, NEW p \in ConfProc, cmd[p].name \in Repo, NEW c \in Content, Fill(p, c)
  PROVE  /\ conf' \in [Repo -> Content] /\ tmp' \in [Repo -> Content]
         /\ \A n \in Repo : n # cmd[p].name => conf'[n] = conf[n] /\ tmp'[n] = tmp[n]
BY DEF Fill, ConfInv, ConfTypeOK

\* Each step leaves files in place, and changes those of its own repository only; the
\* temporary file in the course of an add.
LEMMA FilesChanged ==
  ASSUME ConfInv, NEW p \in ConfProc, ConfStep(p)
  PROVE  /\ conf' \in [Repo -> Content] /\ tmp' \in [Repo -> Content]
         /\ \A n \in Repo : conf'[n] # conf[n] =>
              cmd[p].job \in {"add", "remove"} /\ cmd[p].name = n
         /\ \A n \in Repo : tmp'[n] # tmp[n] => cmd[p].job = "add" /\ cmd[p].name = n
<1>1. conf \in [Repo -> Content] /\ tmp \in [Repo -> Content] /\ cmd[p] \in Cmd
      /\ ConfFits(cmd[p])
  BY DEF ConfInv, ConfTypeOK
<1>2. cmd[p].job = "add" => cmd[p].name \in Repo /\ cmd[p].entry \in Entry
  BY <1>1 DEF ConfFits
<1>3. cmd[p].job = "remove" => cmd[p].name \in Repo
  BY <1>1 DEF ConfFits
<1>4. Entry \subseteq Content /\ Empty \in Content /\ Torn \in Content /\ NoConf \in Content
  BY DEF Content
<1>5. CASE UNCHANGED <<conf, tmp>>
  BY <1>1, <1>5
<1>6. CASE OpenTemp(p) \/ Drop(p)
  BY <1>1, <1>2, <1>4, <1>6 DEF OpenTemp, Drop, ConfAt
<1>7. CASE WriteTemp(p)
  <2> DEFINE old == CASE cmd[p].at = "temp" -> tmp[cmd[p].name]
                      [] cmd[p].at = "live" -> conf[cmd[p].name]
                      [] OTHER -> Empty
  <2>1. PICK c \in Overlay(old, cmd[p].entry) : Fill(p, c)
    BY <1>7 DEF WriteTemp
  <2>2. cmd[p].job = "add" /\ cmd[p].name \in Repo /\ cmd[p].entry \in Content
    BY <1>2, <1>4, <1>7 DEF WriteTemp, ConfAt
  <2>3. c \in Content
    BY <1>4, <2>2 DEF Overlay
  <2> HIDE DEF old
  <2> QED
    BY <2>1, <2>2, <2>3, FillTypes
<1>8. CASE Install(p) /\ tmp[cmd[p].name] # NoConf
  BY <1>1, <1>2, <1>4, <1>8 DEF Install, ConfAt
<1>9. CASE Unlink(p)
  BY <1>1, <1>3, <1>4, <1>9 DEF Unlink, ConfAt
<1>10. CASE ConfFault(p) /\ cmd[p].pc = "write"
  <2>1. cmd[p].job = "add"
    BY <1>1, <1>10 DEF Cmd, CmdJob, ConfFits
  <2>2. Fill(p, Torn)
    BY <1>10 DEF ConfFault
  <2> QED
    BY <1>2, <1>4, <2>1, <2>2, FillTypes
<1>11. CASE ConfFault(p) /\ cmd[p].pc # "write"
  BY <1>5, <1>11 DEF ConfFault
<1>12. CASE Install(p) /\ tmp[cmd[p].name] = NoConf
  BY <1>5, <1>12 DEF Install
<1>13. CASE ConfAdd(p) \/ ConfRemove(p) \/ Load(p) \/ LoadNext(p) \/ LoadFails(p) \/ LoadEnds(p)
            \/ Visit(p) \/ VisitEnds(p) \/ ConfReturn(p) \/ ConfCrash(p)
  BY <1>5, <1>13 DEF ConfAdd, ConfRemove, Load, ConfEnter, LoadNext, LoadFails, LoadEnds, Visit,
     VisitEnds, ConfReturn, ConfCrash
<1> QED
  BY <1>6, <1>7, <1>8, <1>9, <1>10, <1>11, <1>12, <1>13 DEF ConfStep, ConfWork

LEMMA ReportsTyped ==
  ASSUME ConfInv, NEW p \in ConfProc, ConfStep(p)
  PROVE  /\ reported' \in {"none", "ok", "failed", "killed"}
         /\ faults' \in Nat /\ overlap' = overlap
<1>1. faults \in Nat
  BY DEF ConfInv, ConfTypeOK
<1>2. ASSUME NEW outcome \in {"ok", "failed", "killed"}, ConfEnd(p, outcome)
      PROVE  reported' \in {"none", "ok", "failed", "killed"}
  BY <1>2 DEF ConfEnd
<1>3. CASE ConfAdd(p) \/ ConfRemove(p) \/ Load(p)
  BY <1>1, <1>3 DEF ConfStep, ConfAdd, ConfRemove, Load, ConfEnter
<1>4. CASE OpenTemp(p) \/ WriteTemp(p) \/ Install(p) \/ Drop(p) \/ LoadNext(p) \/ Visit(p)
  BY <1>1, <1>4 DEF ConfStep, OpenTemp, WriteTemp, Install, Drop, LoadNext, Visit
<1>5. CASE Unlink(p)
  BY <1>1, <1>2, <1>5 DEF ConfStep, Unlink
<1>6. CASE LoadFails(p) \/ LoadEnds(p) \/ VisitEnds(p) \/ ConfReturn(p)
  BY <1>1, <1>2, <1>6 DEF ConfStep, LoadFails, LoadEnds, VisitEnds, ConfReturn, ConfGoTo
<1>7. CASE ConfFault(p) \/ ConfCrash(p)
  BY <1>1, <1>2, <1>7 DEF ConfStep, ConfFault, ConfCrash
<1> QED
  BY <1>3, <1>4, <1>5, <1>6, <1>7 DEF ConfStep, ConfWork

-----------------------------------------------------------------------------
\* Types, and what a command has in hand

CommandsInv ==
  /\ ConfInv
  /\ \A p \in ConfProc : VisitFits(cmd[p])

LEMMA CommandsInit == ConfInit => CommandsInv
<1> SUFFICES ASSUME ConfInit PROVE CommandsInv
  OBVIOUS
<1>1. \A p \in ConfProc : cmd[p] = NoCmd
  BY DEF ConfInit
<1>2. \A p \in ConfProc : cmd[p] \in Cmd /\ ConfFits(cmd[p]) /\ VisitFits(cmd[p])
  BY <1>1, NoCmdFits, NoVisit
<1>3. ConfTypeOK
  BY <1>1, NoCmdFits DEF ConfInit, ConfTypeOK, Content
<1> QED
  BY <1>2, <1>3 DEF CommandsInv, ConfInv

LEMMA CommandsStep ==
  ASSUME CommandsInv, NEW p \in ConfProc, ConfStep(p)
  PROVE  CommandsInv'
<1>1. ConfInv
  BY DEF CommandsInv
<1> PICK c \in Cmd : Takes(p, c) /\ ConfFits(c) /\ VisitFits(c)
  BY AnyTakes DEF CommandsInv
<1>2. ConfInv'
  BY <1>1, FilesChanged, ReportsTyped, TakesInv
<1>3. ASSUME NEW q \in ConfProc PROVE VisitFits(cmd'[q])
  <2>1. CASE q = p
    BY <2>1 DEF Takes
  <2>2. CASE q # p
    <3>1. Alike(cmd[q], cmd'[q]) /\ VisitFits(cmd[q])
      BY <2>2 DEF Takes, CommandsInv
    <3> QED
      BY <3>1 DEF Alike, VisitFits
  <2> QED
    BY <2>1, <2>2
<1> QED
  BY <1>2, <1>3 DEF CommandsInv

LEMMA CommandsNext == CommandsInv /\ [ConfNext]_confVars => CommandsInv'
<1> SUFFICES ASSUME CommandsInv, [ConfNext]_confVars PROVE CommandsInv'
  OBVIOUS
<1>1. CASE UNCHANGED confVars
  BY <1>1 DEF confVars, CommandsInv, ConfInv, ConfTypeOK
<1>2. CASE ConfNext
  <2> PICK p \in ConfProc : ConfStep(p)
    BY <1>2 DEF ConfNext, ConfStep
  <2> QED
    BY CommandsStep
<1> QED
  BY <1>1, <1>2

\* A command has in hand what belongs to its stage, and has tried enabled
\* repositories only.
THEOREM CommandsInvariant == ConfSpec => []CommandsInv
BY CommandsInit, CommandsNext, PTL DEF ConfSpec

\* Configurations and commands are well-formed at any time: in particular the next
\* repository to try is always one of those loaded.
THEOREM RepoTypes == ConfSpec => []ConfTypeOK
<1>1. CommandsInv => ConfTypeOK
  BY DEF CommandsInv, ConfInv
<1> QED
  BY <1>1, CommandsInvariant, PTL

-----------------------------------------------------------------------------
\* Adds that run alone

\* No other add of the name is running, and the temporary file is its own.
LoneFits(q) ==
  /\ \A r \in ConfProc \ {q} : ~(cmd[r].job = "add" /\ cmd[r].name = cmd[q].name)
  /\ cmd[q].pc = "write" => cmd[q].at = "temp" /\ tmp[cmd[q].name] = Empty
  /\ cmd[q].pc = "install" => tmp[cmd[q].name] = cmd[q].entry
  /\ cmd[q].pc = "drop" => cmd[q].hurt

LoneInv == \A q \in ConfProc : cmd[q].job = "add" /\ ~cmd[q].met => LoneFits(q)

\* The steps after which p is adding.
LEMMA AddSteps ==
  ASSUME CommandsInv, NEW p \in ConfProc, ConfStep(p), cmd'[p].job = "add"
  PROVE  \/ ConfAdd(p)
         \/ /\ cmd[p].job = "add" /\ cmd'[p].name = cmd[p].name /\ cmd'[p].entry = cmd[p].entry
            /\ cmd'[p].met = cmd[p].met
            /\ \/ OpenTemp(p) /\ cmd'[p].pc = "write" /\ cmd'[p].at = "temp"
               \/ WriteTemp(p) /\ cmd'[p].pc = "install"
               \/ Install(p) /\ cmd'[p].pc \in {"done", "drop"}
                  /\ (cmd'[p].pc = "drop" <=> tmp[cmd[p].name] = NoConf)
               \/ ConfFault(p) /\ cmd'[p].pc = "drop" /\ cmd'[p].hurt
<1>1. ConfInv /\ cmd[p] \in Cmd /\ ConfFits(cmd[p]) /\ VisitFits(cmd[p])
  BY DEF CommandsInv, ConfInv, ConfTypeOK
<1>2. ~Takes(p, NoCmd)
  BY DEF Takes, NoCmd
<1>3. CASE OpenTemp(p)
  <2> PICK c \in Cmd : Takes(p, c) /\ c = [cmd[p] EXCEPT !.pc = "write", !.at = "temp"]
    BY <1>1, <1>3, OpenTakes
  <2>1. c.name = cmd[p].name /\ c.entry = cmd[p].entry /\ c.met = cmd[p].met /\ c.pc = "write"
        /\ c.at = "temp" /\ cmd[p].job = "add"
    BY <1>1, <1>3 DEF Cmd, OpenTemp, ConfAt
  <2> QED
    BY <1>3, <2>1 DEF Takes
<1>4. CASE WriteTemp(p)
  <2> PICK c \in Cmd : Takes(p, c) /\ c = [cmd[p] EXCEPT !.pc = "install", !.at = "none"]
    BY <1>1, <1>4, WriteTakes
  <2>1. c.name = cmd[p].name /\ c.entry = cmd[p].entry /\ c.met = cmd[p].met /\ c.pc = "install"
        /\ cmd[p].job = "add"
    BY <1>1, <1>4 DEF Cmd, WriteTemp, ConfAt
  <2> QED
    BY <1>4, <2>1 DEF Takes
<1>5. CASE Install(p)
  <2> DEFINE stage == IF tmp[cmd[p].name] # NoConf THEN "done" ELSE "drop"
  <2> PICK c \in Cmd : Takes(p, c) /\ c = [cmd[p] EXCEPT !.pc = stage]
    BY <1>1, <1>5, InstallTakes
  <2>1. c.name = cmd[p].name /\ c.entry = cmd[p].entry /\ c.met = cmd[p].met
        /\ cmd[p].job = "add" /\ c.pc = stage
    BY <1>1, <1>5 DEF Cmd, Install, ConfAt
  <2>2. cmd'[p] = c
    BY DEF Takes
  <2> QED
    BY <1>5, <2>1, <2>2
<1>6. CASE ConfFault(p)
  <2> PICK c \in Cmd : /\ Takes(p, c) /\ cmd[p].job = "add"
                       /\ c = [cmd[p] EXCEPT !.pc = "drop", !.at = "none", !.hurt = TRUE]
    BY <1>1, <1>2, <1>6, FaultTakes
  <2>1. c.name = cmd[p].name /\ c.entry = cmd[p].entry /\ c.met = cmd[p].met /\ c.pc = "drop"
        /\ c.hurt
    BY <1>1 DEF Cmd
  <2> QED
    BY <1>6, <2>1 DEF Takes
<1>7. CASE Drop(p) \/ LoadFails(p) \/ ConfReturn(p) \/ ConfCrash(p)
  <2>1. Takes(p, NoCmd)
    BY <1>1, <1>7, DropTakes, ConfEndTakes DEF LoadFails, ConfReturn, ConfCrash
  <2> QED
    BY <1>2, <2>1
<1>8. CASE Unlink(p)
  <2> PICK c \in Cmd : Takes(p, c) /\ c = [cmd[p] EXCEPT !.pc = "done"]
    BY <1>1, <1>2, <1>8, UnlinkTakes
  <2>1. c.job = "remove"
    BY <1>1, <1>8 DEF Cmd, Unlink, ConfAt
  <2> QED
    BY <2>1 DEF Takes
<1>9. CASE ConfRemove(p)
  <2> PICK n \in Repo, c \in Cmd :
        Takes(p, c) /\ c = [NoCmd EXCEPT !.job = "remove", !.pc = "unlink", !.name = n]
    BY <1>1, <1>9, RemoveTakes
  <2>1. c.job = "remove"
    BY DEF NoCmd
  <2> QED
    BY <2>1 DEF Takes
<1>10. CASE Load(p)
  <2> DEFINE todo == {n \in Repo : conf[n] # NoConf}
  <2> PICK job \in {"list", "update", "search"} :
        Takes(p, [NoCmd EXCEPT !.job = job, !.pc = "load", !.todo = todo])
    BY <1>1, <1>10, LoadTakes
  <2>1. cmd'[p].job = job
    BY DEF Takes, NoCmd
  <2> QED
    BY <2>1
<1>11. CASE LoadNext(p)
  <2> PICK n \in cmd[p].todo, c \in Cmd :
        Takes(p, c) /\ c = [cmd[p] EXCEPT !.todo = @ \ {n}, !.got = @ \cup {<<n, conf[n]>>}]
    BY <1>1, <1>11, LoadNextTakes
  <2>1. c.job = cmd[p].job /\ cmd[p].pc = "load"
    BY <1>1, <1>11 DEF Cmd, LoadNext
  <2> QED
    BY <1>1, <2>1 DEF Takes, ConfFits
<1>12. CASE LoadEnds(p)
  <2> DEFINE stage == IF cmd[p].job = "list" THEN "done" ELSE "visit"
  <2> PICK c \in Cmd : Takes(p, c) /\ c = [cmd[p] EXCEPT !.pc = stage]
    BY <1>1, <1>12, LoadEndsTakes
  <2>1. c.job = cmd[p].job /\ cmd[p].pc = "load"
    BY <1>1, <1>12 DEF Cmd, LoadEnds
  <2> QED
    BY <1>1, <2>1 DEF Takes, ConfFits
<1>13. CASE Visit(p)
  <2> PICK c \in Cmd : Takes(p, c) /\ c.job = cmd[p].job
    BY <1>1, <1>13, VisitTakes
  <2>1. cmd[p].pc = "visit"
    BY <1>13 DEF Visit
  <2> QED
    BY <1>1, <2>1 DEF Takes, ConfFits
<1>14. CASE VisitEnds(p)
  <2> PICK c \in Cmd : Takes(p, c) /\ c = [cmd[p] EXCEPT !.pc = "done"]
    BY <1>1, <1>2, <1>14, VisitEndsTakes
  <2>1. c.job = cmd[p].job /\ cmd[p].pc = "visit"
    BY <1>1, <1>14 DEF Cmd, VisitEnds
  <2> QED
    BY <1>1, <2>1 DEF Takes, ConfFits
<1> QED
  BY <1>3, <1>4, <1>5, <1>6, <1>7, <1>8, <1>9, <1>10, <1>11, <1>12, <1>13, <1>14
     DEF ConfStep, ConfWork

\* What an add that runs alone writes, and what it installs.
LEMMA LoneFiles ==
  ASSUME CommandsInv, NEW p \in ConfProc, cmd[p].job = "add", LoneFits(p)
  PROVE  /\ OpenTemp(p) => tmp'[cmd[p].name] = Empty
         /\ WriteTemp(p) => tmp'[cmd[p].name] = cmd[p].entry /\ conf' = conf
         /\ Install(p) => /\ tmp[cmd[p].name] # NoConf
                          /\ conf' = [conf EXCEPT ![cmd[p].name] = cmd[p].entry]
<1>1. tmp \in [Repo -> Content] /\ conf \in [Repo -> Content] /\ cmd[p].name \in Repo
      /\ cmd[p].entry \in Entry
  BY DEF CommandsInv, ConfInv, ConfTypeOK, ConfFits
<1>2. Empty \notin Entry /\ Empty # Torn /\ NoConf \notin Entry
  <2>1. Cardinality({Empty, Torn, NoConf}) = 3 /\ {Empty, Torn, NoConf} \cap Entry = {}
    BY ConfConstants DEF ConfConstantsOK
  <2>2. Empty # Torn
    <3> SUFFICES ASSUME Empty = Torn PROVE FALSE
      OBVIOUS
    <3>1. {Empty, Torn, NoConf} = {Empty} \cup {NoConf}
      OBVIOUS
    <3>2. IsFiniteSet({Empty}) /\ Cardinality({Empty}) = 1
      BY FS_Singleton
    <3>3. Cardinality({Empty} \cup {NoConf}) \in {1, 2}
      BY <3>2, FS_AddElement
    <3> QED
      BY <2>1, <3>1, <3>3
  <2> QED
    BY <2>1, <2>2
<1>3. OpenTemp(p) => tmp'[cmd[p].name] = Empty
  BY <1>1 DEF OpenTemp
<1>4. ASSUME WriteTemp(p) PROVE tmp'[cmd[p].name] = cmd[p].entry /\ conf' = conf
  <2>1. cmd[p].at = "temp" /\ tmp[cmd[p].name] = Empty
    BY <1>4 DEF LoneFits, WriteTemp, ConfAt
  <2>2. PICK c \in Overlay(Empty, cmd[p].entry) : Fill(p, c)
    BY <1>4, <2>1 DEF WriteTemp
  <2>3. c = cmd[p].entry
    BY <1>2 DEF Overlay
  <2> QED
    BY <1>1, <2>1, <2>2, <2>3 DEF Fill
<1>5. ASSUME Install(p) PROVE tmp[cmd[p].name] # NoConf
                              /\ conf' = [conf EXCEPT ![cmd[p].name] = cmd[p].entry]
  <2>1. tmp[cmd[p].name] = cmd[p].entry
    BY <1>5 DEF LoneFits, Install, ConfAt
  <2> QED
    BY <1>1, <1>2, <1>5, <2>1 DEF Install
<1> QED
  BY <1>3, <1>4, <1>5

LEMMA LoneStep ==
  ASSUME CommandsInv, LoneInv, NEW p \in ConfProc, ConfStep(p)
  PROVE  LoneInv'
<1> SUFFICES ASSUME NEW q \in ConfProc, cmd'[q].job = "add", ~cmd'[q].met
             PROVE  LoneFits(q)'
  BY DEF LoneInv
<1>1. ConfInv /\ ConfInv' /\ cmd[p] \in Cmd
  BY CommandsStep DEF CommandsInv, ConfInv, ConfTypeOK
<1>2. PICK c \in Cmd : Takes(p, c)
  BY AnyTakes DEF CommandsInv
<1>3. \A r \in ConfProc \ {p} : Alike(cmd[r], cmd'[r])
  BY <1>2 DEF Takes
<1>4. CASE q # p
  <2>1. Alike(cmd[q], cmd'[q]) /\ cmd[q].job = "add" /\ ~cmd[q].met /\ cmd'[q].name = cmd[q].name
        /\ cmd'[q].pc = cmd[q].pc /\ cmd'[q].entry = cmd[q].entry /\ cmd'[q].hurt = cmd[q].hurt
    BY <1>3, <1>4 DEF Alike
  <2>2. LoneFits(q) /\ cmd[q].name \in Repo
    BY <1>1, <2>1 DEF LoneInv, ConfInv, ConfFits
  <2>3. ~(cmd[p].job = "add" /\ cmd[p].name = cmd[q].name)
    BY <1>4, <2>2 DEF LoneFits
  <2>4. ~(cmd'[p].job = "add" /\ cmd'[p].name = cmd[q].name)
    <3> SUFFICES ASSUME cmd'[p].job = "add", cmd'[p].name = cmd[q].name PROVE FALSE
      OBVIOUS
    <3>1. ConfAdd(p)
      BY <2>3, AddSteps
    <3> PICK n \in Repo, e \in Entry, b \in BOOLEAN :
          /\ Takes(p, [NoCmd EXCEPT !.job = "add", !.pc = "open", !.name = n, !.entry = e, !.met = b])
          /\ \A r \in ConfProc \ {p} : cmd'[r].met <=>
               (cmd[r].met \/ (cmd[r].job = "add" /\ cmd[r].name = n))
      BY <1>1, <3>1, AddTakes
    <3>2. cmd'[p].name = n
      BY DEF Takes, NoCmd
    <3> QED
      BY <1>4, <2>1, <3>2
  <2>5. ASSUME NEW r \in ConfProc \ {q}
        PROVE  ~(cmd'[r].job = "add" /\ cmd'[r].name = cmd[q].name)
    <3>1. CASE r = p
      BY <2>4, <3>1
    <3>2. CASE r # p
      BY <1>3, <2>2, <3>2 DEF Alike, LoneFits
    <3> QED
      BY <3>1, <3>2
  <2>6. tmp'[cmd[q].name] = tmp[cmd[q].name]
    BY <1>1, <2>2, <2>3, FilesChanged
  <2>7. cmd[q].at = "temp" => cmd'[q].at = "temp"
    BY <1>2, <1>4, <2>3 DEF Takes
  <2> QED
    BY <2>1, <2>2, <2>5, <2>6, <2>7 DEF LoneFits
<1>5. CASE q = p
  <2>1. CASE ConfAdd(p)
    <3> PICK n \in Repo, e \in Entry, b \in BOOLEAN :
          /\ Takes(p, [NoCmd EXCEPT !.job = "add", !.pc = "open", !.name = n, !.entry = e, !.met = b])
          /\ b <=> \E r \in ConfProc : cmd[r].job = "add" /\ cmd[r].name = n
      BY <1>1, <2>1, AddTakes
    <3>1. cmd'[p].name = n /\ cmd'[p].pc = "open" /\ cmd'[p].met = b
      BY DEF Takes, NoCmd
    <3>2. \A r \in ConfProc \ {p} : ~(cmd[r].job = "add" /\ cmd[r].name = n)
      BY <1>5, <3>1
    <3>3. \A r \in ConfProc \ {p} : ~(cmd'[r].job = "add" /\ cmd'[r].name = n)
      BY <1>3, <3>2 DEF Alike
    <3> QED
      BY <1>5, <3>1, <3>3 DEF LoneFits
  <2>2. CASE ~ConfAdd(p)
    <3> DEFINE Next1 ==
          \/ OpenTemp(p) /\ cmd'[p].pc = "write" /\ cmd'[p].at = "temp"
          \/ WriteTemp(p) /\ cmd'[p].pc = "install"
          \/ Install(p) /\ cmd'[p].pc \in {"done", "drop"}
             /\ (cmd'[p].pc = "drop" <=> tmp[cmd[p].name] = NoConf)
          \/ ConfFault(p) /\ cmd'[p].pc = "drop" /\ cmd'[p].hurt
    <3>1. cmd[p].job = "add" /\ cmd'[p].name = cmd[p].name /\ cmd'[p].entry = cmd[p].entry
          /\ cmd'[p].met = cmd[p].met
      BY <1>5, <2>2, AddSteps
    <3>2. Next1
      BY <1>5, <2>2, AddSteps
    <3>3. LoneFits(p)
      BY <1>5, <3>1 DEF LoneInv
    <3>4. \A r \in ConfProc \ {p} : ~(cmd'[r].job = "add" /\ cmd'[r].name = cmd[p].name)
      BY <1>3, <3>3 DEF LoneFits, Alike
    <3>5. /\ OpenTemp(p) => tmp'[cmd[p].name] = Empty
          /\ WriteTemp(p) => tmp'[cmd[p].name] = cmd[p].entry
          /\ Install(p) => tmp[cmd[p].name] # NoConf
      BY <3>1, <3>3, LoneFiles
    <3>6. /\ cmd'[p].pc = "write" => cmd'[p].at = "temp" /\ tmp'[cmd[p].name] = Empty
          /\ cmd'[p].pc = "install" => tmp'[cmd[p].name] = cmd[p].entry
          /\ cmd'[p].pc = "drop" => cmd'[p].hurt
      BY <3>2, <3>5
    <3> QED
      BY <1>5, <3>1, <3>4, <3>6 DEF LoneFits
  <2> QED
    BY <2>1, <2>2
<1> QED
  BY <1>4, <1>5

LEMMA LoneNext == CommandsInv /\ LoneInv /\ [ConfNext]_confVars => LoneInv'
<1> SUFFICES ASSUME CommandsInv, LoneInv, [ConfNext]_confVars PROVE LoneInv'
  OBVIOUS
<1>1. CASE UNCHANGED confVars
  BY <1>1 DEF confVars, LoneInv, LoneFits
<1>2. CASE ConfNext
  <2> PICK p \in ConfProc : ConfStep(p)
    BY <1>2 DEF ConfNext, ConfStep
  <2> QED
    BY LoneStep
<1> QED
  BY <1>1, <1>2

LEMMA LoneInit == ConfInit => LoneInv
BY DEF ConfInit, LoneInv, NoCmd

\* The temporary file of an add that runs alone is its own at every stage.
THEOREM LoneInvariant == ConfSpec => []LoneInv
BY LoneInit, LoneNext, CommandsInvariant, PTL DEF ConfSpec

\* What p can do while it is adding.
LEMMA AddingSteps ==
  ASSUME CommandsInv, NEW p \in ConfProc, ConfStep(p), cmd[p].job = "add"
  PROVE  \/ OpenTemp(p) \/ WriteTemp(p) \/ Install(p) \/ Drop(p) \/ ConfFault(p) \/ ConfCrash(p)
         \/ ConfReturn(p)
<1>1. ConfFits(cmd[p])
  BY DEF CommandsInv, ConfInv
<1>2. cmd[p].pc \in {"open", "write", "install", "drop", "done"}
  BY <1>1 DEF ConfFits
<1>3. ~ConfAdd(p) /\ ~ConfRemove(p) /\ ~Load(p)
  BY <1>2 DEF ConfAdd, ConfRemove, Load, ConfEnter
<1>4. ~Unlink(p) /\ ~LoadNext(p) /\ ~LoadFails(p) /\ ~LoadEnds(p) /\ ~Visit(p) /\ ~VisitEnds(p)
  BY <1>2 DEF Unlink, ConfAt, LoadNext, LoadFails, LoadEnds, Visit, VisitEnds
<1> QED
  BY <1>3, <1>4 DEF ConfStep, ConfWork

\* A step of another process does not end p, nor take it on.
LEMMA OthersWait ==
  ASSUME CommandsInv, NEW q \in ConfProc, ConfStep(q), NEW p \in ConfProc, p # q
  PROVE  Alike(cmd[p], cmd'[p])
<1> PICK c \in Cmd : Takes(q, c)
  BY AnyTakes DEF CommandsInv
<1> QED
  BY DEF Takes

\* An add that runs alone is a repair: unless a call of its own fails or it is killed it
\* succeeds, and what it installs is its own settings, whatever others have left.
THEOREM RepairByAdd == ConfSpec => LoneAddInstalls
<1> DEFINE Repair(p) ==
      /\ cmd[p].pc = "install" /\ cmd'[p].pc = "done" =>
           conf'[cmd[p].name] = cmd[p].entry
      /\ cmd'[p] = NoCmd /\ reported' = "failed" =>
           cmd[p].hurt \/ faults' # faults
<1>1. ASSUME CommandsInv, LoneInv, NEW q \in ConfProc, ConfStep(q), NEW p \in ConfProc,
             cmd[p].job = "add", ~cmd[p].met
      PROVE  Repair(p)
  <2>1. CASE p # q
    <3>1. cmd'[p].job = "add" /\ cmd'[p].pc = cmd[p].pc
      BY <1>1, <2>1, OthersWait DEF Alike
    <3> QED
      BY <3>1 DEF NoCmd
  <2>2. CASE p = q
    <3>1. LoneFits(p) /\ cmd \in [ConfProc -> Cmd] /\ conf \in [Repo -> Content] /\ faults \in Nat
          /\ ConfFits(cmd[p]) /\ ConfInv
      BY <1>1 DEF LoneInv, CommandsInv, ConfInv, ConfTypeOK
    <3>2. cmd[p].name \in Repo
      BY <1>1, <3>1 DEF ConfFits
    <3>3. CASE Install(p)
      <4>1. conf' = [conf EXCEPT ![cmd[p].name] = cmd[p].entry] /\ reported' = "none"
        BY <1>1, <3>1, <3>3, LoneFiles DEF Install
      <4> QED
        BY <3>1, <3>2, <4>1
    <3>4. CASE OpenTemp(p) \/ WriteTemp(p)
      BY <3>4 DEF OpenTemp, WriteTemp, ConfAt
    <3>5. CASE Drop(p)
      <4>1. cmd[p].pc = "drop" /\ cmd[p].hurt
        BY <3>1, <3>5 DEF Drop, ConfAt, LoneFits
      <4> QED
        BY <4>1
    <3>6. CASE ConfFault(p)
      <4>1. faults' # faults
        BY <3>1, <3>6 DEF ConfFault
      <4>2. cmd[p].pc = "install" => cmd'[p].pc = "drop"
        <5> SUFFICES ASSUME cmd[p].pc = "install" PROVE cmd'[p].pc = "drop"
          OBVIOUS
        <5> PICK c \in Cmd : Takes(p, c) /\ c = [cmd[p] EXCEPT !.pc = "drop", !.at = "none", !.hurt = TRUE]
          BY <3>1, <3>6, FaultTakes
        <5> QED
          BY <3>1 DEF Takes, Cmd
      <4> QED
        BY <4>1, <4>2
    <3>7. CASE ConfCrash(p) \/ ConfReturn(p)
      <4>1. cmd'[p] = NoCmd /\ reported' \in {"killed", "ok"}
        BY <1>1, <3>1, <3>7 DEF ConfCrash, ConfReturn, ConfEnd
      <4> QED
        BY <4>1 DEF NoCmd
    <3> QED
      BY <1>1, <2>2, <3>3, <3>4, <3>5, <3>6, <3>7, AddingSteps
  <2> QED
    BY <2>1, <2>2
<1>2. CommandsInv /\ LoneInv /\ [ConfNext]_confVars =>
        [\A p \in ConfProc : cmd[p].job = "add" /\ ~cmd[p].met => Repair(p)]_confVars
  <2> SUFFICES ASSUME CommandsInv, LoneInv, ConfNext
               PROVE  \A p \in ConfProc : cmd[p].job = "add" /\ ~cmd[p].met => Repair(p)
    OBVIOUS
  <2> PICK q \in ConfProc : ConfStep(q)
    BY DEF ConfNext, ConfStep
  <2> HIDE DEF Repair
  <2> QED
    BY <1>1
<1> QED
  BY <1>2, CommandsInvariant, LoneInvariant, PTL DEF ConfSpec, LoneAddInstalls

-----------------------------------------------------------------------------
\* Going through the repositories

\* An update or a search that gets through has tried every repository enabled when it
\* loaded them, and an update reports success only if all of them were updated.
THEOREM EveryOneTried == ConfSpec => EveryEnabledTried
<1> DEFINE named(p) == {x[1] : x \in {y \in cmd[p].got : y[2] \in Enabled}}
           Tried(p) == /\ named(p) = cmd[p].won \cup cmd[p].lost
                       /\ cmd[p].job = "update" /\ cmd'[p].pc = "done" => named(p) = cmd[p].won
<1>1. ASSUME CommandsInv, NEW q \in ConfProc, ConfStep(q), NEW p \in ConfProc,
             cmd[p].pc = "visit", cmd'[p].pc \in {"done", "idle"}, faults' = faults
      PROVE  Tried(p)
  <2>1. cmd[p] \in Cmd /\ ConfFits(cmd[p]) /\ VisitFits(cmd[p]) /\ ConfInv /\ faults \in Nat
    BY <1>1 DEF CommandsInv, ConfInv, ConfTypeOK
  <2>2. p = q
    BY <1>1, OthersWait DEF Alike
  <2>3. VisitEnds(p)
    <3>1. ~ConfAdd(p) /\ ~ConfRemove(p) /\ ~Load(p)
      BY <1>1 DEF ConfAdd, ConfRemove, Load, ConfEnter
    <3>2. ~OpenTemp(p) /\ ~WriteTemp(p) /\ ~Install(p) /\ ~Drop(p) /\ ~Unlink(p) /\ ~LoadNext(p)
          /\ ~LoadFails(p) /\ ~LoadEnds(p) /\ ~ConfReturn(p)
      BY <1>1 DEF OpenTemp, WriteTemp, Install, Drop, Unlink, ConfAt, LoadNext, LoadFails,
         LoadEnds, ConfReturn
    <3>3. ~ConfFault(p) /\ ~ConfCrash(p)
      BY <1>1, <2>1 DEF ConfFault, ConfCrash
    <3>4. ASSUME Visit(p) PROVE FALSE
      <4>1. cmd'[p].pc = "visit"
        BY <2>1, <3>4, VisitTakes DEF Takes
      <4> QED
        BY <1>1, <4>1
    <3> QED
      BY <1>1, <2>2, <3>1, <3>2, <3>3, <3>4 DEF ConfStep, ConfWork
  <2>4. named(p) \subseteq cmd[p].won \cup cmd[p].lost
    BY <2>3 DEF VisitEnds, Waiting
  <2>5. cmd[p].won \cup cmd[p].lost \subseteq named(p)
    BY <1>1, <2>1 DEF VisitFits
  <2>6. ASSUME cmd[p].job = "update", cmd'[p].pc = "done" PROVE cmd[p].lost = {}
    <3>1. ~Takes(p, NoCmd)
      BY <2>6 DEF Takes, NoCmd
    <3>2. Successful(cmd[p])
      BY <2>1, <2>3, <3>1, VisitEndsTakes
    <3> QED
      BY <2>6, <3>2 DEF Successful
  <2> QED
    BY <2>4, <2>5, <2>6
<1>2. CommandsInv /\ [ConfNext]_confVars =>
        [\A p \in ConfProc :
           cmd[p].pc = "visit" /\ cmd'[p].pc \in {"done", "idle"} /\ faults' = faults =>
             Tried(p)]_confVars
  <2> SUFFICES ASSUME CommandsInv, ConfNext
               PROVE  \A p \in ConfProc :
                        cmd[p].pc = "visit" /\ cmd'[p].pc \in {"done", "idle"} /\ faults' = faults =>
                          Tried(p)
    OBVIOUS
  <2> PICK q \in ConfProc : ConfStep(q)
    BY DEF ConfNext, ConfStep
  <2> HIDE DEF Tried
  <2> QED
    BY <1>1
<1> QED
  BY <1>2, CommandsInvariant, PTL DEF ConfSpec, EveryEnabledTried

-----------------------------------------------------------------------------
\* No adds of one name at the same time

\* No add has met another, and each file is gone or complete.
QuietInv ==
  ~overlap =>
    /\ \A q \in ConfProc : cmd[q].job = "add" => ~cmd[q].met
    /\ \A n \in Repo : conf[n] \in Entry \cup {NoConf}
    /\ LoadFailsForCause

\* What p can do while it is removing.
LEMMA RemovingSteps ==
  ASSUME CommandsInv, NEW p \in ConfProc, ConfStep(p), cmd[p].job = "remove"
  PROVE  Unlink(p) \/ ConfFault(p) \/ ConfCrash(p) \/ ConfReturn(p)
<1>1. cmd[p].pc \in {"unlink", "done"}
  BY DEF CommandsInv, ConfInv, ConfFits
<1>2. ~ConfAdd(p) /\ ~ConfRemove(p) /\ ~Load(p)
  BY <1>1 DEF ConfAdd, ConfRemove, Load, ConfEnter
<1>3. ~OpenTemp(p) /\ ~WriteTemp(p) /\ ~Install(p) /\ ~Drop(p) /\ ~LoadNext(p) /\ ~LoadFails(p)
      /\ ~LoadEnds(p) /\ ~Visit(p) /\ ~VisitEnds(p)
  BY <1>1 DEF OpenTemp, WriteTemp, Install, Drop, ConfAt, LoadNext, LoadFails, LoadEnds, Visit,
     VisitEnds
<1> QED
  BY <1>2, <1>3 DEF ConfStep, ConfWork

\* Where all adds run alone, a configuration is written and removed in one step.
LEMMA QuietFiles ==
  ASSUME CommandsInv, NEW p \in ConfProc, ConfStep(p), cmd[p].job = "add" => LoneFits(p)
  PROVE  \/ conf' = conf
         \/ /\ Install(p) /\ cmd[p].name \in Repo /\ cmd[p].entry \in Entry
            /\ conf' = [conf EXCEPT ![cmd[p].name] = cmd[p].entry]
         \/ /\ Unlink(p) /\ cmd[p].name \in Repo /\ conf[cmd[p].name] # NoConf
            /\ conf' = [conf EXCEPT ![cmd[p].name] = NoConf]
<1>1. ConfInv /\ conf \in [Repo -> Content] /\ ConfFits(cmd[p])
  BY DEF CommandsInv, ConfInv, ConfTypeOK
<1>2. CASE cmd[p].job = "add"
  <2>1. cmd[p].name \in Repo /\ cmd[p].entry \in Entry /\ LoneFits(p)
    BY <1>1, <1>2 DEF ConfFits
  <2>2. ASSUME ConfFault(p) PROVE conf' = conf
    BY <2>1, <2>2 DEF ConfFault, LoneFits, Fill
  <2>3. ASSUME Install(p) PROVE conf' = [conf EXCEPT ![cmd[p].name] = cmd[p].entry]
    BY <1>2, <2>1, <2>3, LoneFiles
  <2>4. ASSUME WriteTemp(p) PROVE conf' = conf
    BY <1>2, <2>1, <2>4, LoneFiles
  <2>5. ASSUME OpenTemp(p) \/ Drop(p) \/ ConfCrash(p) \/ ConfReturn(p) PROVE conf' = conf
    BY <2>5 DEF OpenTemp, Drop, ConfCrash, ConfReturn
  <2> QED
    BY <1>2, <2>1, <2>2, <2>3, <2>4, <2>5, AddingSteps
<1>3. CASE cmd[p].job = "remove"
  <2>1. cmd[p].name \in Repo /\ cmd[p].pc # "write"
    BY <1>1, <1>3 DEF ConfFits
  <2>2. ASSUME ConfFault(p) \/ ConfCrash(p) \/ ConfReturn(p) PROVE conf' = conf
    BY <2>1, <2>2 DEF ConfFault, ConfCrash, ConfReturn
  <2>3. ASSUME Unlink(p), conf' # conf
        PROVE  conf[cmd[p].name] # NoConf /\ conf' = [conf EXCEPT ![cmd[p].name] = NoConf]
    BY <1>1, <2>3, UnlinkTakes
  <2> QED
    BY <1>3, <2>1, <2>2, <2>3, RemovingSteps
<1>4. CASE cmd[p].job \notin {"add", "remove"}
  <2>1. conf' \in [Repo -> Content] /\ \A n \in Repo : conf'[n] = conf[n]
    BY <1>1, <1>4, FilesChanged
  <2>2. conf' = conf
    BY <1>1, <2>1
  <2> QED
    BY <2>2
<1> QED
  BY <1>2, <1>3, <1>4

\* The steps after which p is loading.
LEMMA LoadingSteps ==
  ASSUME CommandsInv, NEW p \in ConfProc, ConfStep(p), cmd'[p].pc = "load"
  PROVE  \/ /\ cmd'[p].todo = {n \in Repo : conf[n] # NoConf} /\ conf' = conf
         \/ /\ cmd[p].pc = "load" /\ cmd'[p].todo \subseteq cmd[p].todo
            /\ cmd'[p].removed = cmd[p].removed /\ conf' = conf
<1>1. ConfInv /\ cmd[p] \in Cmd /\ ConfFits(cmd[p]) /\ VisitFits(cmd[p])
      /\ cmd \in [ConfProc -> Cmd]
  BY DEF CommandsInv, ConfInv, ConfTypeOK
<1>2. ~Takes(p, NoCmd)
  BY DEF Takes, NoCmd
<1>3. CASE ConfAdd(p)
  <2> PICK n \in Repo, e \in Entry, b \in BOOLEAN :
        Takes(p, [NoCmd EXCEPT !.job = "add", !.pc = "open", !.name = n, !.entry = e, !.met = b])
    BY <1>1, <1>3, AddTakes
  <2> QED
    BY DEF Takes, NoCmd
<1>4. CASE OpenTemp(p)
  <2> PICK c \in Cmd : Takes(p, c) /\ c = [cmd[p] EXCEPT !.pc = "write", !.at = "temp"]
    BY <1>1, <1>4, OpenTakes
  <2> QED
    BY <1>1 DEF Takes, Cmd
<1>5. CASE WriteTemp(p)
  <2> PICK c \in Cmd : Takes(p, c) /\ c = [cmd[p] EXCEPT !.pc = "install", !.at = "none"]
    BY <1>1, <1>5, WriteTakes
  <2> QED
    BY <1>1 DEF Takes, Cmd
<1>6. CASE Install(p)
  <2>1. CASE tmp[cmd[p].name] # NoConf
    <3> PICK c \in Cmd : Takes(p, c) /\ c = [cmd[p] EXCEPT !.pc = "done"]
      BY <1>1, <1>6, <2>1, InstallTakes
    <3> QED
      BY <1>1 DEF Takes, Cmd
  <2>2. CASE tmp[cmd[p].name] = NoConf
    <3> PICK c \in Cmd : Takes(p, c) /\ c = [cmd[p] EXCEPT !.pc = "drop"]
      BY <1>1, <1>6, <2>2, InstallTakes
    <3> QED
      BY <1>1 DEF Takes, Cmd
  <2> QED
    BY <2>1, <2>2
<1>7. CASE Drop(p) \/ LoadFails(p) \/ ConfReturn(p) \/ ConfCrash(p)
  BY <1>1, <1>2, <1>7, DropTakes, ConfEndTakes DEF LoadFails, ConfReturn, ConfCrash
<1>8. CASE Unlink(p)
  <2> PICK c \in Cmd : Takes(p, c) /\ c = [cmd[p] EXCEPT !.pc = "done"]
    BY <1>1, <1>2, <1>8, UnlinkTakes
  <2> QED
    BY <1>1 DEF Takes, Cmd
<1>9. CASE ConfFault(p)
  <2> PICK c \in Cmd : Takes(p, c) /\ c = [cmd[p] EXCEPT !.pc = "drop", !.at = "none", !.hurt = TRUE]
    BY <1>1, <1>2, <1>9, FaultTakes
  <2> QED
    BY <1>1 DEF Takes, Cmd
<1>10. CASE ConfRemove(p)
  <2> PICK n \in Repo, c \in Cmd :
        Takes(p, c) /\ c = [NoCmd EXCEPT !.job = "remove", !.pc = "unlink", !.name = n]
    BY <1>1, <1>10, RemoveTakes
  <2> QED
    BY DEF Takes, NoCmd
<1>11. CASE Load(p)
  <2> DEFINE todo == {n \in Repo : conf[n] # NoConf}
  <2> PICK job \in {"list", "update", "search"} :
        Takes(p, [NoCmd EXCEPT !.job = job, !.pc = "load", !.todo = todo])
    BY <1>1, <1>11, LoadTakes
  <2>1. conf' = conf
    BY <1>11 DEF Load, ConfEnter
  <2>2. cmd'[p] = [NoCmd EXCEPT !.job = job, !.pc = "load", !.todo = todo]
    BY DEF Takes
  <2> HIDE DEF todo
  <2>3. cmd'[p].todo = todo
    BY <2>2 DEF NoCmd
  <2> QED
    BY <2>1, <2>3 DEF todo
<1>12. CASE LoadNext(p)
  <2> PICK n \in cmd[p].todo, c \in Cmd :
        Takes(p, c) /\ c = [cmd[p] EXCEPT !.todo = @ \ {n}, !.got = @ \cup {<<n, conf[n]>>}]
    BY <1>1, <1>12, LoadNextTakes
  <2>1. c.todo \subseteq cmd[p].todo /\ c.removed = cmd[p].removed
    BY <1>1 DEF Cmd
  <2> QED
    BY <1>12, <2>1 DEF Takes, LoadNext
<1>13. CASE LoadEnds(p)
  <2> DEFINE stage == IF cmd[p].job = "list" THEN "done" ELSE "visit"
  <2> PICK c \in Cmd : Takes(p, c) /\ c = [cmd[p] EXCEPT !.pc = stage]
    BY <1>1, <1>13, LoadEndsTakes
  <2>1. c.pc = stage
    BY <1>1 DEF Cmd
  <2> QED
    BY <2>1 DEF Takes
<1>14. CASE Visit(p)
  BY <1>1, <1>14, VisitTakes DEF Takes
<1>15. CASE VisitEnds(p)
  <2> PICK c \in Cmd : Takes(p, c) /\ c = [cmd[p] EXCEPT !.pc = "done"]
    BY <1>1, <1>2, <1>15, VisitEndsTakes
  <2> QED
    BY <1>1 DEF Takes, Cmd
<1> QED
  BY <1>3, <1>4, <1>5, <1>6, <1>7, <1>8, <1>9, <1>10, <1>11, <1>12, <1>13, <1>14, <1>15
     DEF ConfStep, ConfWork

LEMMA QuietStep ==
  ASSUME CommandsInv, LoneInv, QuietInv, NEW p \in ConfProc, ConfStep(p)
  PROVE  QuietInv'
<1> SUFFICES ASSUME ~overlap
             PROVE  /\ \A q \in ConfProc : cmd'[q].job = "add" => ~cmd'[q].met
                    /\ \A n \in Repo : conf'[n] \in Entry \cup {NoConf}
                    /\ LoadFailsForCause'
  BY DEF QuietInv, ConfStep
<1>1. ConfInv /\ conf \in [Repo -> Content]
  BY DEF CommandsInv, ConfInv, ConfTypeOK
<1>2. /\ \A q \in ConfProc : cmd[q].job = "add" => ~cmd[q].met /\ LoneFits(q)
      /\ \A n \in Repo : conf[n] \in Entry \cup {NoConf}
      /\ LoadFailsForCause
  BY DEF QuietInv, LoneInv
<1>3. PICK c \in Cmd : Takes(p, c)
  BY AnyTakes DEF CommandsInv
<1>4. cmd'[p].job = "add" => ~cmd'[p].met
  <2> SUFFICES ASSUME cmd'[p].job = "add" PROVE ~cmd'[p].met
    OBVIOUS
  <2>1. CASE ConfAdd(p)
    <3> PICK n \in Repo, e \in Entry, b \in BOOLEAN :
          /\ Takes(p, [NoCmd EXCEPT !.job = "add", !.pc = "open", !.name = n, !.entry = e, !.met = b])
          /\ b => overlap
      BY <1>1, <2>1, AddTakes
    <3>1. cmd'[p].met = b
      BY DEF Takes, NoCmd
    <3> QED
      BY <3>1
  <2>2. CASE ~ConfAdd(p)
    BY <1>2, <2>2, AddSteps
  <2> QED
    BY <2>1, <2>2
<1>5. ASSUME NEW q \in ConfProc, cmd'[q].job = "add", q # p PROVE ~cmd'[q].met
  <2>1. cmd[q].job = "add" /\ (cmd'[q].met => cmd[q].met \/ (cmd'[p].job = "add" /\ cmd'[p].met))
    BY <1>3, <1>5 DEF Takes, Alike
  <2> QED
    BY <1>2, <1>4, <2>1
<1>6. \/ conf' = conf
      \/ /\ Install(p) /\ cmd[p].name \in Repo /\ cmd[p].entry \in Entry
         /\ conf' = [conf EXCEPT ![cmd[p].name] = cmd[p].entry]
      \/ /\ Unlink(p) /\ cmd[p].name \in Repo /\ conf[cmd[p].name] # NoConf
         /\ conf' = [conf EXCEPT ![cmd[p].name] = NoConf]
  BY <1>2, QuietFiles
<1>7. \A n \in Repo : conf'[n] \in Entry \cup {NoConf}
  BY <1>1, <1>2, <1>6
<1>8. ASSUME NEW q \in ConfProc, cmd'[q].pc = "load", NEW n \in cmd'[q].todo
      PROVE  conf'[n] \in Entry \/ n \in cmd'[q].removed
  <2>1. n \in Repo
    <3>1. cmd'[q] \in Cmd
      BY <1>3 DEF Takes
    <3> QED
      BY <3>1 DEF Cmd
  <2>2. CASE q = p
    <3>1. CASE cmd'[p].todo = {m \in Repo : conf[m] # NoConf} /\ conf' = conf
      BY <1>2, <1>8, <2>1, <2>2, <3>1
    <3>2. CASE /\ cmd[p].pc = "load" /\ cmd'[p].todo \subseteq cmd[p].todo
               /\ cmd'[p].removed = cmd[p].removed /\ conf' = conf
      BY <1>2, <1>8, <2>2, <3>2 DEF LoadFailsForCause
    <3> QED
      BY <1>8, <2>2, <3>1, <3>2, LoadingSteps
  <2>3. CASE q # p
    <3>1. cmd[q].pc = "load" /\ n \in cmd[q].todo /\ cmd[q].removed \subseteq cmd'[q].removed
      BY <1>3, <1>8, <2>3 DEF Takes, Alike
    <3>2. conf[n] \in Entry \/ n \in cmd[q].removed
      BY <1>2, <3>1 DEF LoadFailsForCause
    <3>3. CASE /\ Unlink(p) /\ conf[cmd[p].name] # NoConf
               /\ conf' = [conf EXCEPT ![cmd[p].name] = NoConf]
      <4>1. cmd[p].name \in cmd'[q].removed
        BY <1>1, <2>3, <3>1, <3>3, UnlinkTakes
      <4> QED
        BY <1>1, <2>1, <3>1, <3>2, <3>3, <4>1
    <3>4. CASE cmd[p].entry \in Entry /\ conf' = [conf EXCEPT ![cmd[p].name] = cmd[p].entry]
      BY <1>1, <2>1, <3>1, <3>2, <3>4
    <3> QED
      BY <1>6, <3>1, <3>2, <3>3, <3>4
  <2> QED
    BY <2>2, <2>3
<1> QED
  BY <1>4, <1>5, <1>7, <1>8 DEF LoadFailsForCause

LEMMA QuietInit == ConfInit => QuietInv
BY DEF ConfInit, QuietInv, NoCmd, LoadFailsForCause

LEMMA QuietNext == CommandsInv /\ LoneInv /\ QuietInv /\ [ConfNext]_confVars => QuietInv'
<1> SUFFICES ASSUME CommandsInv, LoneInv, QuietInv, [ConfNext]_confVars PROVE QuietInv'
  OBVIOUS
<1>1. CASE UNCHANGED confVars
  BY <1>1 DEF confVars, QuietInv, LoadFailsForCause
<1>2. CASE ConfNext
  <2> PICK p \in ConfProc : ConfStep(p)
    BY <1>2 DEF ConfNext, ConfStep
  <2> QED
    BY QuietStep
<1> QED
  BY <1>1, <1>2

\* Without overlapping adds no configuration is partial, and nobody misses one that
\* was not removed.
THEOREM QuietInvariant == ConfSpec => []QuietInv
BY QuietInit, QuietNext, CommandsInvariant, LoneInvariant, PTL DEF ConfSpec

\* Without overlapping adds a load finds a file missing or unreadable only if that
\* repository was removed during the load.
THEOREM LoadsFailForRemovals == ConfSpec => []LoadFailsForCause
<1>1. QuietInv => LoadFailsForCause
  BY DEF QuietInv, LoadFailsForCause
<1> QED
  BY <1>1, QuietInvariant, PTL

-----------------------------------------------------------------------------
\* The configurations implement the atomic files

LEMMA CallsTaken ==
  ASSUME NEW p \in ConfProc, NEW c, Takes(p, c)
  PROVE  StoreCalls' = [StoreCalls EXCEPT ![p] = AsCall(c)]
<1>1. ASSUME NEW q \in ConfProc PROVE AsCall(cmd'[q]) = IF q = p THEN AsCall(c) ELSE AsCall(cmd[q])
  <2>1. CASE q = p
    BY <2>1 DEF Takes
  <2>2. CASE q # p
    <3>1. Alike(cmd[q], cmd'[q])
      BY <2>2 DEF Takes
    <3> QED
      BY <2>2, <3>1 DEF Alike, AsCall, ConfPhase
  <2> QED
    BY <2>1, <2>2
<1> HIDE DEF AsCall
<1>2. StoreCalls' = [q \in ConfProc |-> AsCall(cmd'[q])]
      /\ StoreCalls = [q \in ConfProc |-> AsCall(cmd[q])]
  BY DEF StoreCalls, AsCall
<1> QED
  BY <1>1, <1>2

\* A step that leaves what the command of p is to the store as it is.
LEMMA PassedOver ==
  ASSUME NEW p \in ConfProc, NEW c, Takes(p, c), AsCall(c) = AsCall(cmd[p]),
         reported' = "none", conf' = conf
  PROVE  ConfStore!Pass
<1>1. StoreCalls' = [StoreCalls EXCEPT ![p] = AsCall(c)] /\ StoreCalls[p] = AsCall(cmd[p])
  BY CallsTaken DEF StoreCalls
<1>2. StoreCalls = [q \in ConfProc |-> AsCall(cmd[q])]
  BY DEF StoreCalls
<1>3. StoreCalls' = StoreCalls
  BY <1>1, <1>2
<1> QED
  BY <1>3 DEF ConfStore!Pass

\* The end of a command: one to the store if it added or removed, nothing otherwise.
LEMMA Ended ==
  ASSUME NEW p \in ConfProc, NEW outcome, ConfInv, ConfEnd(p, outcome), conf' = conf
  PROVE  /\ cmd[p].job \in {"add", "remove"} => ConfStore!End(p, outcome)
         /\ cmd[p].job \notin {"add", "remove"} => ConfStore!Pass
<1>1. Takes(p, NoCmd)
  BY ConfEndTakes
<1>2. AsCall(NoCmd) = ConfStore!NoCall
  BY DEF AsCall, NoCmd, ConfStore!NoCall
<1>3. CASE cmd[p].job \in {"add", "remove"}
  <2>1. StoreCalls[p] = AsCall(cmd[p]) /\ AsCall(cmd[p]).op # "none"
    BY <1>3 DEF StoreCalls, AsCall
  <2>2. StoreCalls[p] # ConfStore!NoCall
    BY <2>1 DEF ConfStore!NoCall
  <2>3. StoreCalls' = [StoreCalls EXCEPT ![p] = ConfStore!NoCall]
    BY <1>1, <1>2, CallsTaken
  <2>4. reported' = outcome
    BY <1>3 DEF ConfEnd
  <2> QED
    BY <1>3, <2>2, <2>3, <2>4 DEF ConfStore!End
<1>4. CASE cmd[p].job \notin {"add", "remove"}
  <2>1. AsCall(NoCmd) = AsCall(cmd[p]) /\ reported' = "none"
    BY <1>4 DEF AsCall, NoCmd, ConfEnd
  <2> QED
    BY <1>1, <1>4, <2>1, PassedOver
<1> QED
  BY <1>3, <1>4

LEMMA BeginRefines ==
  ASSUME CommandsInv, NEW p \in ConfProc, ConfAdd(p) \/ ConfRemove(p) \/ Load(p)
  PROVE  ConfStore!Start(p) \/ ConfStore!Pass
<1>1. ConfInv /\ cmd[p].pc = "idle" /\ conf' = conf /\ reported' = "none"
  BY DEF CommandsInv, ConfAdd, ConfRemove, Load, ConfEnter
<1>2. cmd[p] = NoCmd
  BY <1>1 DEF ConfInv, ConfTypeOK
<1>3. AsCall(NoCmd) = ConfStore!NoCall /\ StoreCalls[p] = ConfStore!NoCall
  BY <1>2 DEF AsCall, NoCmd, ConfStore!NoCall, StoreCalls
<1>4. CASE ConfAdd(p)
  <2> PICK n \in Repo, e \in Entry, b \in BOOLEAN :
        Takes(p, [NoCmd EXCEPT !.job = "add", !.pc = "open", !.name = n, !.entry = e, !.met = b])
    BY <1>1, <1>4, AddTakes
  <2> DEFINE c == [NoCmd EXCEPT !.job = "add", !.pc = "open", !.name = n, !.entry = e, !.met = b]
  <2>1. AsCall(c) = [op |-> "put", name |-> n, value |-> e, phase |-> "begun"]
    BY DEF AsCall, NoCmd, ConfPhase
  <2>2. StoreCalls' = [StoreCalls EXCEPT ![p] = AsCall(c)]
    BY CallsTaken
  <2> QED
    BY <1>1, <1>3, <2>1, <2>2 DEF ConfStore!Start
<1>5. CASE ConfRemove(p)
  <2> PICK n \in Repo, c \in Cmd :
        Takes(p, c) /\ c = [NoCmd EXCEPT !.job = "remove", !.pc = "unlink", !.name = n]
    BY <1>1, <1>5, RemoveTakes
  <2>1. AsCall(c) = [op |-> "delete", name |-> n, value |-> NoConf, phase |-> "begun"]
    BY DEF AsCall, NoCmd, ConfPhase
  <2>2. StoreCalls' = [StoreCalls EXCEPT ![p] = AsCall(c)]
    BY CallsTaken
  <2> QED
    BY <1>1, <1>3, <2>1, <2>2 DEF ConfStore!Start
<1>6. CASE Load(p)
  <2> DEFINE todo == {n \in Repo : conf[n] # NoConf}
  <2> PICK job \in {"list", "update", "search"} :
        Takes(p, [NoCmd EXCEPT !.job = job, !.pc = "load", !.todo = todo])
    BY <1>1, <1>6, LoadTakes
  <2> DEFINE c == [NoCmd EXCEPT !.job = job, !.pc = "load", !.todo = todo]
  <2> HIDE DEF todo
  <2>1. AsCall(c) = AsCall(cmd[p])
    BY <1>2 DEF AsCall, NoCmd
  <2> HIDE DEF c
  <2>2. Takes(p, c)
    BY DEF c
  <2> QED
    BY <1>1, <2>1, <2>2, PassedOver
<1> QED
  BY <1>4, <1>5, <1>6

LEMMA AddRefines ==
  ASSUME CommandsInv, NEW p \in ConfProc, ConfStep(p), cmd[p].job = "add", LoneFits(p)
  PROVE  \/ ConfStore!Pass \/ ConfStore!Put(p) \/ ConfStore!Return(p) \/ ConfStore!Fail(p)
         \/ ConfStore!Die(p)
<1>1. ConfInv /\ cmd[p] \in Cmd /\ ConfFits(cmd[p]) /\ VisitFits(cmd[p])
  BY DEF CommandsInv, ConfInv, ConfTypeOK
<1>2. StoreCalls[p] = [op |-> "put", name |-> cmd[p].name, value |-> cmd[p].entry,
                       phase |-> IF cmd[p].pc = "done" THEN "done" ELSE "begun"]
  BY DEF StoreCalls, AsCall, ConfPhase
<1>3. ASSUME NEW c, Takes(p, c), c.job = "add", c.name = cmd[p].name, c.entry = cmd[p].entry,
             c.pc # "done", cmd[p].pc # "done", reported' = "none", conf' = conf
      PROVE  ConfStore!Pass
  <2>1. AsCall(c) = AsCall(cmd[p])
    BY <1>3 DEF AsCall, ConfPhase
  <2> QED
    BY <1>3, <2>1, PassedOver
<1>4. CASE OpenTemp(p)
  <2> PICK c \in Cmd : Takes(p, c) /\ c = [cmd[p] EXCEPT !.pc = "write", !.at = "temp"]
    BY <1>1, <1>4, OpenTakes
  <2>1. c.job = "add" /\ c.name = cmd[p].name /\ c.entry = cmd[p].entry /\ c.pc # "done"
    BY <1>1 DEF Cmd
  <2>2. cmd[p].pc # "done" /\ reported' = "none" /\ conf' = conf
    BY <1>4 DEF OpenTemp, ConfAt
  <2> QED
    BY <1>3, <2>1, <2>2
<1>5. CASE WriteTemp(p)
  <2> PICK c \in Cmd : Takes(p, c) /\ c = [cmd[p] EXCEPT !.pc = "install", !.at = "none"]
    BY <1>1, <1>5, WriteTakes
  <2>1. c.job = "add" /\ c.name = cmd[p].name /\ c.entry = cmd[p].entry /\ c.pc # "done"
    BY <1>1 DEF Cmd
  <2>2. cmd[p].pc # "done" /\ reported' = "none" /\ conf' = conf
    BY <1>5, LoneFiles DEF WriteTemp, ConfAt
  <2> QED
    BY <1>3, <2>1, <2>2
<1>6. CASE Install(p)
  <2>1. /\ tmp[cmd[p].name] # NoConf
        /\ conf' = [conf EXCEPT ![cmd[p].name] = cmd[p].entry] /\ reported' = "none"
    BY <1>6, LoneFiles DEF Install
  <2> PICK c \in Cmd : Takes(p, c) /\ c = [cmd[p] EXCEPT !.pc = "done"]
    BY <1>1, <1>6, <2>1, InstallTakes
  <2>2. c.job = "add" /\ c.name = cmd[p].name /\ c.entry = cmd[p].entry /\ c.pc = "done"
    BY <1>1 DEF Cmd
  <2>3. AsCall(c) = [op |-> "put", name |-> cmd[p].name, value |-> cmd[p].entry,
                     phase |-> "done"]
    BY <2>2 DEF AsCall, ConfPhase
  <2>4. StoreCalls' = [StoreCalls EXCEPT ![p] = AsCall(c)]
    BY CallsTaken
  <2>5. StoreCalls[p].op = "put" /\ StoreCalls[p].phase = "begun"
        /\ StoreCalls[p].name = cmd[p].name /\ StoreCalls[p].value = cmd[p].entry
    BY <1>2, <1>6 DEF Install, ConfAt
  <2>6. [StoreCalls[p] EXCEPT !.phase = "done"] = AsCall(c)
    BY <1>2, <2>3
  <2>7. StoreCalls' = [StoreCalls EXCEPT ![p].phase = "done"]
    BY <2>4, <2>6
  <2> QED
    BY <2>1, <2>5, <2>7 DEF ConfStore!Put
<1>7. CASE Drop(p)
  <2>1. Takes(p, NoCmd) /\ reported' = "failed" /\ conf' = conf /\ cmd[p].pc = "drop"
    BY <1>1, <1>7, DropTakes DEF Drop, ConfAt
  <2>2. AsCall(NoCmd) = ConfStore!NoCall
    BY DEF AsCall, NoCmd, ConfStore!NoCall
  <2>3. StoreCalls' = [StoreCalls EXCEPT ![p] = ConfStore!NoCall]
    BY <2>1, <2>2, CallsTaken
  <2>4. StoreCalls[p].op # "none" /\ StoreCalls[p].phase # "done"
    BY <1>2, <2>1
  <2>5. StoreCalls[p] # ConfStore!NoCall
    BY <2>4 DEF ConfStore!NoCall
  <2> QED
    BY <2>1, <2>3, <2>4, <2>5 DEF ConfStore!Fail, ConfStore!End
<1>8. CASE ConfFault(p)
  <2>1. CASE cmd[p].pc \in {"write", "install"}
    <3> PICK c \in Cmd : Takes(p, c) /\ reported' = "none"
                         /\ c = [cmd[p] EXCEPT !.pc = "drop", !.at = "none", !.hurt = TRUE]
      BY <1>1, <1>8, <2>1, FaultTakes
    <3>1. c.job = "add" /\ c.name = cmd[p].name /\ c.entry = cmd[p].entry /\ c.pc # "done"
      BY <1>1 DEF Cmd
    <3>2. conf' = conf
      BY <1>8, <2>1 DEF ConfFault, LoneFits, Fill
    <3> QED
      BY <1>3, <2>1, <3>1, <3>2
  <2>2. CASE cmd[p].pc \notin {"write", "install"}
    <3>1. ConfEnd(p, "failed") /\ conf' = conf /\ cmd[p].pc # "done"
      BY <1>8, <2>2 DEF ConfFault
    <3>2. ConfStore!End(p, "failed")
      BY <1>1, <3>1, Ended
    <3> QED
      BY <1>2, <3>1, <3>2 DEF ConfStore!Fail
  <2> QED
    BY <2>1, <2>2
<1>9. CASE ConfCrash(p)
  BY <1>1, <1>9, Ended DEF ConfCrash, ConfStore!Die
<1>10. CASE ConfReturn(p)
  <2>1. ConfStore!End(p, "ok") /\ StoreCalls[p].phase = "done"
    BY <1>1, <1>2, <1>10, Ended DEF ConfReturn
  <2> QED
    BY <2>1 DEF ConfStore!Return
<1> QED
  BY <1>4, <1>5, <1>6, <1>7, <1>8, <1>9, <1>10, AddingSteps

LEMMA RemoveRefines ==
  ASSUME CommandsInv, NEW p \in ConfProc, ConfStep(p), cmd[p].job = "remove"
  PROVE  ConfStore!Delete(p) \/ ConfStore!Return(p) \/ ConfStore!Fail(p) \/ ConfStore!Die(p)
<1>1. ConfInv /\ cmd[p] \in Cmd /\ ConfFits(cmd[p])
  BY DEF CommandsInv, ConfInv, ConfTypeOK
<1>2. StoreCalls[p] = [op |-> "delete", name |-> cmd[p].name, value |-> NoConf,
                       phase |-> IF cmd[p].pc = "done" THEN "done" ELSE "begun"]
  BY DEF StoreCalls, AsCall, ConfPhase
<1>3. CASE Unlink(p)
  <2>1. cmd[p].pc = "unlink"
    BY <1>3 DEF Unlink, ConfAt
  <2>2. CASE conf[cmd[p].name] = NoConf
    <3>1. ConfEnd(p, "failed") /\ conf' = conf
      BY <1>3, <2>2 DEF Unlink
    <3>2. ConfStore!End(p, "failed")
      BY <1>1, <3>1, Ended
    <3> QED
      BY <1>2, <2>1, <3>2 DEF ConfStore!Fail
  <2>3. CASE conf[cmd[p].name] # NoConf
    <3> PICK c \in Cmd : /\ Takes(p, c) /\ c = [cmd[p] EXCEPT !.pc = "done"]
                         /\ conf' = [conf EXCEPT ![cmd[p].name] = NoConf] /\ reported' = "none"
      BY <1>1, <1>3, <2>3, UnlinkTakes
    <3>1. c.job = "remove" /\ c.name = cmd[p].name /\ c.pc = "done"
      BY <1>1 DEF Cmd
    <3>2. AsCall(c) = [op |-> "delete", name |-> cmd[p].name, value |-> NoConf, phase |-> "done"]
      BY <3>1 DEF AsCall, ConfPhase
    <3>3. StoreCalls' = [StoreCalls EXCEPT ![p] = AsCall(c)]
      BY CallsTaken
    <3>4. [StoreCalls[p] EXCEPT !.phase = "done"] = AsCall(c)
      BY <1>2, <3>2
    <3>5. StoreCalls' = [StoreCalls EXCEPT ![p].phase = "done"]
      BY <3>3, <3>4
    <3>6. StoreCalls[p].op = "delete" /\ StoreCalls[p].phase = "begun"
          /\ StoreCalls[p].name = cmd[p].name
      BY <1>2, <2>1
    <3> QED
      BY <2>3, <3>5, <3>6 DEF ConfStore!Delete
  <2> QED
    BY <2>2, <2>3
<1>4. CASE ConfFault(p)
  <2>1. cmd[p].pc # "done" /\ cmd[p].pc \notin {"write", "install"}
    BY <1>1, <1>4 DEF ConfFault, ConfFits
  <2>2. ConfEnd(p, "failed") /\ conf' = conf
    BY <1>4, <2>1 DEF ConfFault
  <2>3. ConfStore!End(p, "failed")
    BY <1>1, <2>2, Ended
  <2> QED
    BY <1>2, <2>1, <2>3 DEF ConfStore!Fail
<1>5. CASE ConfCrash(p)
  BY <1>1, <1>5, Ended DEF ConfCrash, ConfStore!Die
<1>6. CASE ConfReturn(p)
  <2>1. ConfStore!End(p, "ok") /\ StoreCalls[p].phase = "done"
    BY <1>1, <1>2, <1>6, Ended DEF ConfReturn
  <2> QED
    BY <2>1 DEF ConfStore!Return
<1> QED
  BY <1>3, <1>4, <1>5, <1>6, RemovingSteps

\* The commands that go through the repositories are nothing to the store.
LEMMA VisitRefines ==
  ASSUME CommandsInv, NEW p \in ConfProc, ConfStep(p), cmd[p].job \in {"list", "update", "search"}
  PROVE  ConfStore!Pass
<1>1. ConfInv /\ cmd[p] \in Cmd /\ ConfFits(cmd[p]) /\ VisitFits(cmd[p])
  BY DEF CommandsInv, ConfInv, ConfTypeOK
<1>2. cmd[p].pc \in {"load", "visit", "done"}
  BY <1>1 DEF ConfFits
<1>3. conf' = conf
  <2>1. conf \in [Repo -> Content]
    BY <1>1 DEF ConfInv, ConfTypeOK
  <2>2. conf' \in [Repo -> Content] /\ \A n \in Repo : conf'[n] = conf[n]
    BY <1>1, FilesChanged
  <2> QED
    BY <2>1, <2>2
<1>4. ASSUME NEW c, Takes(p, c), c.job = cmd[p].job, reported' = "none" PROVE ConfStore!Pass
  <2>1. AsCall(c) = AsCall(cmd[p])
    BY <1>4 DEF AsCall
  <2> QED
    BY <1>3, <1>4, <2>1, PassedOver
<1>5. ASSUME NEW outcome, ConfEnd(p, outcome) PROVE ConfStore!Pass
  BY <1>1, <1>3, <1>5, Ended
<1>6. CASE LoadNext(p)
  <2> PICK n \in cmd[p].todo, c \in Cmd :
        Takes(p, c) /\ c = [cmd[p] EXCEPT !.todo = @ \ {n}, !.got = @ \cup {<<n, conf[n]>>}]
    BY <1>1, <1>6, LoadNextTakes
  <2>1. c.job = cmd[p].job /\ reported' = "none"
    BY <1>1, <1>6 DEF Cmd, LoadNext
  <2> QED
    BY <1>4, <2>1
<1>7. CASE LoadEnds(p)
  <2> DEFINE stage == IF cmd[p].job = "list" THEN "done" ELSE "visit"
  <2> PICK c \in Cmd : Takes(p, c) /\ c = [cmd[p] EXCEPT !.pc = stage]
    BY <1>1, <1>7, LoadEndsTakes
  <2>1. c.job = cmd[p].job /\ reported' = "none"
    BY <1>1, <1>7 DEF Cmd, LoadEnds, ConfGoTo
  <2> QED
    BY <1>4, <2>1
<1>8. CASE Visit(p)
  <2> PICK c \in Cmd : Takes(p, c) /\ c.job = cmd[p].job
    BY <1>1, <1>8, VisitTakes
  <2>1. reported' = "none"
    BY <1>8 DEF Visit
  <2> QED
    BY <1>4, <2>1
<1>9. CASE VisitEnds(p)
  <2>1. CASE ConfEnd(p, "failed")
    BY <1>5, <2>1
  <2>2. CASE ~ConfEnd(p, "failed")
    <3>1. ConfGoTo(p, "done") /\ "done" \in CmdStage
      BY <1>9, <2>2 DEF VisitEnds, CmdStage
    <3>2. cmd[p].at = "none"
      BY <1>1, <1>9 DEF ConfFits, VisitEnds
    <3> PICK c \in Cmd : Takes(p, c) /\ c = [cmd[p] EXCEPT !.pc = "done"]
      BY <1>1, <3>1, <3>2, ConfGoTakes
    <3>3. c.job = cmd[p].job /\ reported' = "none"
      BY <1>1, <3>1 DEF Cmd, ConfGoTo
    <3> QED
      BY <1>4, <3>3
  <2> QED
    BY <2>1, <2>2
<1>10. CASE LoadFails(p) \/ ConfReturn(p) \/ ConfCrash(p)
  BY <1>5, <1>10 DEF LoadFails, ConfReturn, ConfCrash
<1>11. CASE ConfFault(p)
  BY <1>2, <1>5, <1>11 DEF ConfFault
<1>12. ~OpenTemp(p) /\ ~WriteTemp(p) /\ ~Install(p) /\ ~Drop(p) /\ ~Unlink(p)
  BY <1>2 DEF OpenTemp, WriteTemp, Install, Drop, Unlink, ConfAt
<1>13. ~ConfAdd(p) /\ ~ConfRemove(p) /\ ~Load(p)
  BY <1>2 DEF ConfAdd, ConfRemove, Load, ConfEnter
<1> QED
  BY <1>6, <1>7, <1>8, <1>9, <1>10, <1>11, <1>12, <1>13 DEF ConfStep, ConfWork

\* Where no two adds of one name overlap, every behaviour of the configurations is one
\* of atomic files.
THEOREM ConfigurationsAreAtomicFiles == ConfSpec => ConfigStoreSpec
<1>1. ConfInit => ConfStore!Init
  <2> SUFFICES ASSUME ConfInit PROVE ConfStore!Init
    OBVIOUS
  <2>1. AsCall(NoCmd) = ConfStore!NoCall
    BY DEF AsCall, NoCmd, ConfStore!NoCall
  <2>2. StoreCalls = [p \in ConfProc |-> ConfStore!NoCall]
    BY <2>1 DEF StoreCalls, ConfInit
  <2> QED
    BY <2>2 DEF ConfInit, ConfStore!Init
<1>2. CommandsInv /\ LoneInv /\ QuietInv /\ [ConfNext]_confVars =>
        [~overlap => [ConfStore!Next]_(ConfStore!vars)]_confVars
  <2> SUFFICES ASSUME CommandsInv, LoneInv, QuietInv, ConfNext, ~overlap
               PROVE  ConfStore!Next
    OBVIOUS
  <2> PICK p \in ConfProc : ConfStep(p)
    BY DEF ConfNext, ConfStep
  <2>1. CASE cmd[p].job = "none"
    <3>1. cmd[p].pc = "idle"
      BY <2>1 DEF CommandsInv, ConfInv, ConfFits
    <3>2. ConfAdd(p) \/ ConfRemove(p) \/ Load(p)
      BY <3>1 DEF ConfStep, ConfWork, OpenTemp, WriteTemp, Install, Drop, Unlink, ConfAt, LoadNext,
         LoadFails, LoadEnds, Visit, VisitEnds, ConfReturn, ConfFault, ConfCrash
    <3> QED
      BY <3>2, BeginRefines DEF ConfStore!Next
  <2>2. CASE cmd[p].job = "add"
    <3>1. LoneFits(p)
      BY <2>2 DEF QuietInv, LoneInv
    <3> QED
      BY <2>2, <3>1, AddRefines DEF ConfStore!Next
  <2>3. CASE cmd[p].job = "remove"
    BY <2>3, RemoveRefines DEF ConfStore!Next
  <2>4. CASE cmd[p].job \in {"list", "update", "search"}
    BY <2>4, VisitRefines DEF ConfStore!Next
  <2>5. cmd[p].job \in CmdJob
    BY DEF CommandsInv, ConfInv, ConfTypeOK, Cmd
  <2> QED
    BY <2>1, <2>2, <2>3, <2>4, <2>5 DEF CmdJob
<1> QED
  BY <1>1, <1>2, CommandsInvariant, LoneInvariant, QuietInvariant, PTL DEF ConfSpec, ConfigStoreSpec
=============================================================================
