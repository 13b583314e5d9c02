----------------------------- MODULE RecordStore ----------------------------
(***************************************************************************)
(* The package records as files (src/src/db.c): how one is written, read,  *)
(* listed and unlinked while other commands do the same.  PackageDb says   *)
(* what the records mean and takes each of these operations as one step;   *)
(* this module shows why that is right.                                    *)
(*                                                                         *)
(* A step is one system call, or the calls that write one temporary file.  *)
(* No two commands have a temporary file in common and no file is written  *)
(* after its rename, so an open file is modelled by its content.           *)
(***************************************************************************)
EXTENDS Naturals

CONSTANTS
  Name,     \* package names
  Record,   \* what a whole record can say
  Partial,  \* the content of a record that is still being written
  None,     \* no record
  Proc,     \* process ids: a new command may get that of a killed one
  Runs,     \* Runs[p]: the commands that process p runs
  Limit     \* bound: how many calls fail and processes are killed, together

ASSUME RecordStoreAssumption ==
  /\ Partial \notin Record /\ None \notin Record /\ Partial # None
  /\ Runs \in [Proc -> SUBSET {"register", "unregister", "info", "list"}]
  /\ Limit \in Nat

VARIABLES
  live,   \* live[n]: the content of <n>.record, None if there is none
  temp,   \* temp[n][p]: the content of <n>.record.tmp.<p>
  call,   \* the command each process is running
  ended,  \* history: how a write or read ended in the step before, if one did
  watch,  \* history: what a listing could have seen since it started
  spent   \* how many calls have failed and processes have been killed

vars == <<live, temp, call, ended, watch, spent>>

Stage == {"idle", "create", "write", "rename", "unlink", "open", "read", "list", "done"}
Job == {"none", "register", "unregister", "info", "list"}

File == Record \cup {Partial, None}

\* rec is the record to write or the one that was opened, todo and got the names
\* still to be listed and the records listed.
Call == [job : Job, pc : Stage, name : Name \cup {None}, rec : File,
         todo : SUBSET Name, got : SUBSET (Name \X Record)]
NoCall == [job |-> "none", pc |-> "idle", name |-> None, rec |-> None,
           todo |-> {}, got |-> {}]

\* What was in place at one time or another, and the packages unregistered.
Watch == [held : SUBSET (Name \X Record), removed : SUBSET Name]
NoWatch == [held |-> {}, removed |-> {}]

TypeOK ==
  /\ live \in [Name -> File]
  /\ temp \in [Name -> [Proc -> File]]
  /\ call \in [Proc -> Call]
  /\ \A p \in Proc : call[p].pc = "idle" => call[p] = NoCall
  /\ ended \in {"none", "ok", "failed", "killed"}
  /\ watch \in [Proc -> Watch]
  /\ spent \in Nat

Init ==
  /\ live = [n \in Name |-> None]
  /\ temp = [n \in Name |-> [p \in Proc |-> None]]
  /\ call = [p \in Proc |-> NoCall]
  /\ ended = "none"
  /\ watch = [p \in Proc |-> NoWatch]
  /\ spent = 0

-----------------------------------------------------------------------------
Readable(n) == live[n] \in Record
Held == {x \in Name \X Record : live[x[1]] = x[2]}

At(p, job, stage) == call[p].job = job /\ call[p].pc = stage
GoTo(p, stage) == call' = [call EXCEPT ![p].pc = stage] /\ ended' = "none"

End(p, outcome) ==
  /\ call' = [call EXCEPT ![p] = NoCall]
  /\ ended' = IF call[p].job = "list" THEN "none" ELSE outcome

Enter(p, job, stage, n, r, todo) ==
  /\ call[p].pc = "idle" /\ job \in Runs[p]
  /\ call' = [call EXCEPT ![p] =
       [job |-> job, pc |-> stage, name |-> n, rec |-> r, todo |-> todo, got |-> {}]]
  /\ ended' = "none"
  /\ UNCHANGED <<live, temp, spent>>

-----------------------------------------------------------------------------
\* pux_db_register_package

Register(p) == \E n \in Name, r \in Record : Enter(p, "register", "create", n, r, {})

\* Faulty variant: the record is written in place.
CreateInPlace(p) ==
  /\ At(p, "register", "create")
  /\ live' = [live EXCEPT ![call[p].name] = Partial]
  /\ GoTo(p, "write")
  /\ UNCHANGED <<temp, spent>>

\* create_temp_record: O_EXCL.  A killed command of the same process id may have
\* left its temporary record.
Create(p) ==
  /\ At(p, "register", "create")
  /\ IF temp[call[p].name][p] # None
     THEN End(p, "failed") /\ UNCHANGED temp
     ELSE /\ temp' = [temp EXCEPT ![call[p].name][p] = Partial]
          /\ GoTo(p, "write")
  /\ UNCHANGED <<live, spent>>

\* Written, flushed, synced and closed.
Write(p) ==
  /\ At(p, "register", "write")
  /\ temp' = [temp EXCEPT ![call[p].name][p] = call[p].rec]
  /\ GoTo(p, "rename")
  /\ UNCHANGED <<live, spent>>

\* Faulty variant: an old record is unlinked before the new one takes its name.
RenameAfterUnlink(p) ==
  /\ At(p, "register", "rename")
  /\ LET n == call[p].name IN
     \/ /\ live[n] # None
        /\ live' = [live EXCEPT ![n] = None]
        /\ GoTo(p, "rename") /\ UNCHANGED temp
     \/ /\ live[n] = None
        /\ live' = [live EXCEPT ![n] = temp[n][p]]
        /\ temp' = [temp EXCEPT ![n][p] = None]
        /\ GoTo(p, "done")
  /\ UNCHANGED spent

Rename(p) ==
  /\ At(p, "register", "rename")
  /\ LET n == call[p].name IN
       /\ live' = [live EXCEPT ![n] = temp[n][p]]
       /\ temp' = [temp EXCEPT ![n][p] = None]
  /\ GoTo(p, "done")
  /\ UNCHANGED spent

\* open fails; writing fails, which may be at any byte, or rename fails, and the
\* temporary record is unlinked.
RegisterFault(p) ==
  /\ call[p].job = "register" /\ call[p].pc \in {"create", "write", "rename"}
  /\ spent < Limit /\ spent' = spent + 1
  /\ temp' = IF call[p].pc = "create" THEN temp ELSE [temp EXCEPT ![call[p].name][p] = None]
  /\ End(p, "failed")
  /\ UNCHANGED live

-----------------------------------------------------------------------------
\* pux_db_unregister_package, pux_db_read_package

Unregister(p) == \E n \in Name : Enter(p, "unregister", "unlink", n, None, {})

UnlinkRecord(p) ==
  /\ At(p, "unregister", "unlink")
  /\ IF live[call[p].name] = None
     THEN End(p, "failed") /\ UNCHANGED live
     ELSE /\ live' = [live EXCEPT ![call[p].name] = None]
          /\ GoTo(p, "done")
  /\ UNCHANGED <<temp, spent>>

Info(p) == \E n \in Name : Enter(p, "info", "open", n, None, {})

Open(p) ==
  /\ At(p, "info", "open")
  /\ IF live[call[p].name] = None
     THEN End(p, "failed")
     ELSE /\ call' = [call EXCEPT ![p].pc = "read", ![p].rec = live[call[p].name]]
          /\ ended' = "none"
  /\ UNCHANGED <<live, temp, spent>>

ReadRecord(p) ==
  /\ At(p, "info", "read")
  /\ IF call[p].rec \in Record THEN GoTo(p, "done") ELSE End(p, "failed")
  /\ UNCHANGED <<live, temp, spent>>

-----------------------------------------------------------------------------
\* Scans of all records: pux_db_list_packages, and the questions about
\* dependencies, dependents and owners, which read until they have an answer.

List(p) == Enter(p, "list", "list", None, None, {n \in Name : live[n] # None})

\* Faulty variant: a record that is whole is taken where it is found.
ListNextTemp(p) ==
  /\ At(p, "list", "list")
  /\ \E n \in call[p].todo, r \in Record :
       /\ r \in {live[n]} \cup {temp[n][q] : q \in Proc}
       /\ call' = [call EXCEPT ![p].todo = @ \ {n}, ![p].got = @ \cup {<<n, r>>}]
  /\ ended' = "none"
  /\ UNCHANGED <<live, temp, spent>>

ListNext(p) ==
  /\ At(p, "list", "list")
  /\ \E n \in call[p].todo :
       /\ Readable(n)
       /\ call' = [call EXCEPT ![p].todo = @ \ {n}, ![p].got = @ \cup {<<n, live[n]>>}]
  /\ ended' = "none"
  /\ UNCHANGED <<live, temp, spent>>

\* One record that is gone, or that cannot be read, fails the scan.
ListFails(p) ==
  /\ At(p, "list", "list")
  /\ \E n \in call[p].todo : ~Readable(n)
  /\ End(p, "failed")
  /\ UNCHANGED <<live, temp, spent>>

ListEnds(p) ==
  /\ At(p, "list", "list")
  /\ call[p].todo = {}
  /\ GoTo(p, "done")
  /\ UNCHANGED <<live, temp, spent>>

-----------------------------------------------------------------------------
Return(p) ==
  /\ call[p].pc = "done"
  /\ End(p, "ok")
  /\ UNCHANGED <<live, temp, spent>>

\* A call of one of the other commands fails.
OtherFault(p) ==
  /\ call[p].pc \in {"unlink", "open", "read", "list"}
  /\ spent < Limit /\ spent' = spent + 1
  /\ End(p, "failed")
  /\ UNCHANGED <<live, temp>>

\* The process is killed: its temporary record stays.
Crash(p) ==
  /\ call[p].pc # "idle"
  /\ spent < Limit /\ spent' = spent + 1
  /\ End(p, "killed")
  /\ UNCHANGED <<live, temp>>

Work(p) ==
  \/ Create(p) \/ Write(p) \/ Rename(p)
  \/ UnlinkRecord(p) \/ Open(p) \/ ReadRecord(p)
  \/ ListNext(p) \/ ListFails(p) \/ ListEnds(p) \/ Return(p)

Step(p) ==
  \/ Register(p) \/ Unregister(p) \/ Info(p) \/ List(p)
  \/ Work(p) \/ RegisterFault(p) \/ OtherFault(p) \/ Crash(p)

\* watch notes for each listing what the step of whatever process leaves in place.
Observe(p) ==
  watch' = [q \in Proc |->
    IF call'[q].pc # "list" THEN NoWatch
    ELSE [held |-> watch[q].held \cup Held \cup Held',
          removed |-> watch[q].removed \cup
                        IF At(p, "unregister", "unlink") THEN {call[p].name} ELSE {}]]

Next == \E p \in Proc : Step(p) /\ Observe(p)

Spec == Init /\ [][Next]_vars

-----------------------------------------------------------------------------
\* Properties

\* What a call is to the abstract store.
Phase(c, finished) == IF c.pc \in finished THEN "done" ELSE "begun"
Abstract(c) ==
  CASE c.job = "register"   -> [op |-> "put", name |-> c.name, value |-> c.rec,
                                phase |-> Phase(c, {"done"})]
    [] c.job = "unregister" -> [op |-> "delete", name |-> c.name, value |-> None,
                                phase |-> Phase(c, {"done"})]
    [] c.job = "info"       -> [op |-> "read", name |-> c.name, value |-> c.rec,
                                phase |-> Phase(c, {"read", "done"})]
    [] OTHER                -> [op |-> "none", name |-> None, value |-> None,
                                phase |-> "none"]
Calls == [p \in Proc |-> Abstract(call[p])]

Store == INSTANCE AtomicFiles WITH
  file <- live, call <- Calls, ended <- ended, Value <- Record

\* The records are atomic files: whatever fails and whoever is killed, a record is
\* absent or whole, a registration or an unregistration takes effect in one step
\* exactly if it is reported to, and a query answers with what was in place.
StoreSpec == Store!Spec

\* A listing shows only packages that were installed, with the record it shows,
\* at some moment since it started.
ListSound ==
  \A p \in Proc : call[p].pc = "list" => call[p].got \subseteq watch[p].held

\* A scan finds a record missing or unreadable only where that package has been
\* unregistered since the scan started; an upgrade, a write that fails and a
\* command that is killed never make one fail.
ScansFailForRemovals ==
  \A p \in Proc : call[p].pc = "list" =>
    \A n \in call[p].todo : Readable(n) \/ n \in watch[p].removed
=============================================================================
