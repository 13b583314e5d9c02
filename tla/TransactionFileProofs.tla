------------------------- MODULE TransactionFileProofs -------------------------
(***************************************************************************)
(* Theorems about the files of installed packages, for any number of       *)
(* commands beside each other: that they stay, whatever fails and whatever *)
(* is killed, and that nothing else stays.                                 *)
(***************************************************************************)
EXTENDS TransactionProofs

-----------------------------------------------------------------------------
\* What the theorems assume

\* Commands that run side by side are about different packages, and their archives have
\* nothing but directories in common.
Apart ==
  \A p, r \in Proc : p # r =>
    /\ Mine[p] \cap Mine[r] = {}
    /\ \A a, b \in Pkg : NameOf[a] \in Mine[p] /\ NameOf[b] \in Mine[r]
                           => Files(a) \cap Entries(b) = {}

\* The administrator edits nothing.
NoEdits == Limit["edit"] = 0

\* He puts files of his own only where no archive has a file; or where the archives that
\* have anything have a regular file, as his is.
OwnPlaces == \A a \in Pkg : Files(a) \cap UserPath = {}
RegularPlaces == \A a \in Pkg : \A q \in Entries(a) \cap UserPath : Payload[a][q].kind = "f"

\* No path is a directory in one archive and a file or a link in another.
KindsAgree == \A a, b \in Pkg : Files(a) \cap Dirs(b) = {}

-----------------------------------------------------------------------------
\* The lists of a transaction

Brings(t)   == t.op \in {"install", "upgrade"}
Replaces(t) == t.op \in {"remove", "upgrade"}
NewFiles(t) == IF Brings(t) THEN Files(t.new) ELSE {}
NewDirs(t)  == IF Brings(t) THEN Dirs(t.new) ELSE {}
OldFiles(t) == IF Replaces(t) THEN Files(t.old) ELSE {}
OldDirs(t)  == IF Replaces(t) THEN Dirs(t.old) ELSE {}

\* They hold paths of the two archives only, and the loops visit what is left of these.
Lists(t) ==
  /\ t.pc \in Check => t.placed = {} /\ t.created = {} /\ t.backup = EmptyTree
  /\ t.pc \in Working =>
       /\ t.placed \subseteq NewFiles(t) /\ t.created \subseteq NewDirs(t)
       /\ \A q \in Path : Exists(t.backup, q) => q \in OldFiles(t)
  /\ t.pc \in {"stage", "dirs"} => t.placed = {}
  /\ t.pc = "stage" =>
       t.todo \subseteq OldFiles(t) /\ \A q \in t.todo : ~Exists(t.backup, q)
  /\ t.pc = "dirs" => t.todo \subseteq NewDirs(t)
  /\ t.pc = "files" => t.todo = NewFiles(t) \ t.placed
  /\ t.pc = "register" => t.placed = NewFiles(t)
  /\ t.pc = "prune" => t.todo \subseteq OldDirs(t)

\* Two archives agree on the kinds of the paths they share.
SameKinds(a, b) ==
  \A q \in Entries(a) \cap Entries(b) : Payload[a][q].kind = Payload[b][q].kind

\* What a transaction that has passed its checks can rely on until it ends, its rollback
\* included: the record it found, and that nobody else owns what it brings.
Cleared(t, d) ==
  t.pc \in Working =>
    /\ d[TargetOf(t)] = t.old
    /\ \A n \in Installed(d) \ {TargetOf(t)} : Files(d[n]) \cap NewFiles(t) = {}
    /\ t.op = "upgrade" => SameKinds(t.new, t.old)

\* ... and that nothing is in the way of the files that it moves and may move back.
Fits(t, f) ==
  t.pc \in Working \cup {"preflight"} =>
    /\ \A q \in OldDirs(t) : f[q].kind \in {"none", "d"}
    /\ \A q \in OldFiles(t) : ~IsDir(f, q)
Stashed(t) == t.pc \in Working => \A q \in Path : ~IsDir(t.backup, q)

\* Every installed package is the business of some process.
Housed == \A n \in Installed(db) : \E p \in Proc : n \in Mine[p]

FileInv ==
  /\ OwnerInv
  /\ Housed
  /\ \A p \in Proc :
       Lists(txn[p]) /\ Cleared(txn[p], db) /\ Fits(txn[p], fs) /\ Stashed(txn[p])

-----------------------------------------------------------------------------
\* The files of installed packages

\* What need not be in place: the administrator has deleted it, or a killed command has
\* left it in its staging directory.
Excused == attic \cup (deleted \X Node)

\* While transaction t works on its package, every file of the old archive is where it
\* was, in the backup, or excused; from the moment an upgrade has staged them all, none
\* is where it was.  Every file on the list of what is in place is there.
Held(t, f, X) ==
  t.pc \in Working =>
    /\ \A q \in OldFiles(t) :
         LET node == Payload[t.old][q] IN
         \/ <<q, node>> \in X
         \/ t.backup[q] = node
         \/ /\ f[q] = node /\ q \notin t.placed /\ ~Exists(t.backup, q)
            /\ t.op = "upgrade" => t.pc = "undo" \/ (t.pc = "stage" /\ q \in t.todo)
    /\ \A q \in t.placed : f[q] = Payload[t.new][q]

\* Transaction t is at work on package n.
WorksOn(t, n) == t.pc \in Working /\ TargetOf(t) = n

\* The files of the packages M, but for the one that t works on, are in place.
Kept(M, t, f, d, X) ==
  \A n \in M \cap Installed(d) : ~WorksOn(t, n) =>
    \A q \in Files(d[n]) : f[q] = Payload[d[n]][q] \/ <<q, Payload[d[n]][q]>> \in X

KeepInv ==
  /\ FileInv
  /\ \A p \in Proc : Held(txn[p], fs, Excused) /\ Kept(Mine[p], txn[p], fs, db, Excused)

-----------------------------------------------------------------------------
\* Files without an owner

\* At q is a regular file, or a link that no removal has taken for missing.
Loose(q, f, m) == f[q].kind = "f" \/ (f[q].kind = "l" /\ q \notin m)

\* Transaction t has moved what it has visited of the old files, the links excepted that
\* it took for missing.
Swept(t, f, m) ==
  /\ t.pc \in {"stage", "unregister"} =>
       \A q \in OldFiles(t) : Loose(q, f, m) => t.pc = "stage" /\ q \in t.todo
  /\ t.pc \in {"dirs", "files", "register"} =>
       \A q \in OldFiles(t) : Loose(q, f, m) => q \in t.placed

Accounted(q) ==
  \/ fs[q] = UserNode
  \/ \E n \in Installed(db) : q \in Files(db[n])
  \/ \E p \in Proc : txn[p].pc \in Working /\ q \in txn[p].placed

OrphanInv ==
  /\ FileInv
  /\ \A p \in Proc : Swept(txn[p], fs, missed)
  /\ \A q \in Path : Loose(q, fs, missed) => Accounted(q)

-----------------------------------------------------------------------------
\* The kinds of recorded paths

\* A node is of the kind that the archive has there and, where no command was killed and
\* no list misses an entry, a link to the same target.
Alike(x, y) == x.kind = y.kind /\ (NoKills /\ AllTracked /\ x.kind = "l" => x.tag = y.tag)

\* Files and directories are where some archive has files and directories.
Sorted(f) ==
  \A a \in Pkg : /\ \A q \in Files(a) : ~IsDir(f, q)
                 /\ \A q \in Dirs(a) : f[q].kind \in {"none", "d"}

IntactHeld(t, f) ==
  t.pc \in Working =>
    /\ \A q \in OldFiles(t) :
         LET node == Payload[t.old][q] IN
         /\ Exists(t.backup, q) => Alike(t.backup[q], node)
         /\ Exists(f, q) /\ q \notin t.placed => Alike(f[q], node)
    /\ \A q \in t.placed : f[q] = Payload[t.new][q]

IntactKept(M, t, f, d) ==
  \A n \in M \cap Installed(d) : ~WorksOn(t, n) =>
    \A q \in Files(d[n]) : Exists(f, q) => Alike(f[q], Payload[d[n]][q])

IntactInv ==
  /\ FileInv
  /\ Sorted(fs)
  /\ \A p \in Proc : IntactHeld(txn[p], fs) /\ IntactKept(Mine[p], txn[p], fs, db)

-----------------------------------------------------------------------------
\* What a step of a command does to its transaction and to the tree

\* Tree g is tree f but for path q.
OnlyAt(q, f, g) == \A r \in Path \ {q} : g[r] = f[r]

\* The same, but for missing parents of q, which are made.
AtAndAbove(q, f, g) ==
  \A r \in Path \ {q} : g[r] = f[r] \/ (r \in Above[q] /\ ~Exists(f, r) /\ g[r] = Dir)

\* Steps that leave the tree alone: a transaction begins, passes a check, passes its last
\* check, goes on to the next stage or to its rollback, or ends with nothing to undo.
Begins(t, u) ==
  t.pc = "idle" /\ u.pc = "depends" /\ u.placed = {} /\ u.created = {} /\ u.backup = EmptyTree
Looks(t, u, f) == t.pc \in Check /\ u.pc \in Check /\ SameLists(t, u) /\ Fits(u, f)
Enters(t, u, f) ==
  /\ t.pc \in Check /\ u.pc \in {"stage", "dirs"} /\ SameLists(t, u) /\ Fits(u, f)
  /\ u.pc = "stage" => Replaces(u) /\ u.todo = OldFiles(u)
  /\ u.pc = "dirs" =>
       u.op = "install" /\ u.todo = NewDirs(u) /\ \A q \in NewFiles(u) : ~Exists(f, q)
  /\ u.op = "upgrade" => SameKinds(u.new, u.old)
Passes(t, u) ==
  /\ t.pc \in Change /\ SameLists(t, u)
  /\ \/ u.pc = "undo"
     \/ t.pc = "stage" /\ t.todo = {} /\ u.pc = "unregister" /\ u.op = "remove"
     \/ t.pc = "stage" /\ t.todo = {} /\ u.pc = "dirs" /\ u.op = "upgrade" /\ u.todo = NewDirs(u)
     \/ t.pc = "dirs" /\ u.pc = "files" /\ u.todo = NewFiles(u)
     \/ t.pc = "files" /\ t.todo = {} /\ u.pc = "register"
Ends(t, u) ==
  /\ u = NoTxn
  /\ \/ t.pc \in Check \cup {"prune"}
     \/ /\ t.pc = "undo" /\ t.placed = {} /\ t.created = {}
        /\ \A q \in Path : ~Exists(t.backup, q)

\* A turn of a loop that finds nothing to do.
Skips(t, u, f, g, q) ==
  /\ g = f /\ SameLists(t, u) /\ u.pc = t.pc /\ t.pc \in {"stage", "dirs"}
  /\ q \in t.todo /\ u.todo = t.todo \ {q}
  /\ t.pc = "stage" => f[q].kind # "f" /\ (t.op = "upgrade" => ~Exists(f, q))
\* An old file goes to the staging directory.
Stages(t, u, f, g, q) ==
  /\ t.pc = "stage" /\ u.pc = "stage" /\ SameJob(t, u) /\ q \in t.todo /\ u.todo = t.todo \ {q}
  /\ u.placed = t.placed /\ u.created = t.created
  /\ u.backup[q] = f[q] /\ OnlyAt(q, t.backup, u.backup)
  /\ Exists(f, q) /\ g[q] = Absent /\ OnlyAt(q, f, g)
\* A directory is made, a file is put in place, on the list or not.
Makes(t, u, f, g, q) ==
  /\ t.pc = "dirs" /\ SameJob(t, u) /\ q \in t.todo
  /\ u.placed = t.placed /\ u.backup = t.backup
  /\ \/ u.pc = "dirs" /\ u.todo = t.todo \ {q} /\ u.created = t.created \cup {q}
     \/ u.pc = "undo" /\ u.created = t.created
  /\ ~Exists(f, q) /\ g[q] = Dir /\ OnlyAt(q, f, g)
Puts(t, u, f, g, q) ==
  /\ t.pc = "files" /\ SameJob(t, u) /\ q \in t.todo
  /\ u.created = t.created /\ u.backup = t.backup
  /\ \/ u.pc = "files" /\ u.todo = t.todo \ {q} /\ u.placed = t.placed \cup {q}
     \/ u.pc = "undo" /\ u.placed = t.placed /\ ~AllTracked
  /\ g[q] = Payload[t.new][q] /\ AtAndAbove(q, f, g)
\* The rollback: a file is deleted, a directory removed, an old file put back.
Unputs(t, u, f, g, q) ==
  /\ t.pc = "undo" /\ u.pc = "undo" /\ SameJob(t, u) /\ q \in t.placed
  /\ u.placed = t.placed \ {q} /\ u.created = t.created /\ u.backup = t.backup
  /\ \/ g = f /\ IsDir(f, q)
     \/ g[q] = Absent /\ OnlyAt(q, f, g)
Unmakes(t, u, f, g, q) ==
  /\ t.pc = "undo" /\ u.pc = "undo" /\ SameJob(t, u) /\ q \in t.created
  /\ u.placed = t.placed /\ u.created = t.created \ {q} /\ u.backup = t.backup
  /\ \/ g = f
     \/ IsDir(f, q) /\ g[q] = Absent /\ OnlyAt(q, f, g)
Restores(t, u, f, g, q) ==
  /\ t.pc = "undo" /\ u.pc = "undo" /\ SameJob(t, u) /\ Exists(t.backup, q)
  /\ u.placed = t.placed /\ u.created = t.created /\ u.placed = {}
  /\ u.backup[q] = Absent /\ OnlyAt(q, t.backup, u.backup)
  /\ \/ g = f /\ ~CanPut(f, q)
     \/ g[q] = t.backup[q] /\ AtAndAbove(q, f, g)
\* A directory that is left over goes, or stays.
Prunes(t, u, f, g, q) ==
  /\ t.pc = "prune" /\ u.pc = "prune" /\ SameJob(t, u) /\ q \in t.todo /\ u.todo = t.todo \ {q}
  /\ \/ g = f
     \/ IsDir(f, q) /\ g[q] = Absent /\ OnlyAt(q, f, g)

Turn(t, u, f, g) ==
  \/ g = f /\ (Begins(t, u) \/ Looks(t, u, f) \/ Enters(t, u, f) \/ Passes(t, u) \/ Ends(t, u))
  \/ \E q \in Path :
       \/ Skips(t, u, f, g, q) \/ Stages(t, u, f, g, q) \/ Makes(t, u, f, g, q)
       \/ Puts(t, u, f, g, q) \/ Unputs(t, u, f, g, q) \/ Unmakes(t, u, f, g, q)
       \/ Restores(t, u, f, g, q) \/ Prunes(t, u, f, g, q)

\* Steps that commit a record, or delete one; kills (see Crash).
Commits(t, u, d, e) ==
  \/ /\ t.pc = "register" /\ e = Registered(d, t.new)
     /\ \/ u = NoTxn
        \/ u.pc = "prune" /\ SameLists(t, u) /\ u.todo \subseteq OldDirs(u)
  \/ /\ t.pc = "unregister" /\ e = Unregistered(d, TargetOf(t))
     /\ u.pc = "prune" /\ SameLists(t, u) /\ u.todo \subseteq OldDirs(u)
Killed(t, u, X, Y) ==
  u = NoTxn /\ \A q \in Path : Exists(t.backup, q) => <<q, t.backup[q]>> \in Y

Steps(p) ==
  \/ /\ UNCHANGED <<db, attic, deleted>> /\ Turn(txn[p], txn'[p], fs, fs')
  \/ /\ UNCHANGED <<fs, attic, deleted>> /\ Commits(txn[p], txn'[p], db, db')
  \/ /\ UNCHANGED <<fs, db, deleted>> /\ attic \subseteq attic' /\ Limit["crash"] # 0
     /\ Killed(txn[p], txn'[p], attic, attic')

\* How the step keeps the history of the links that were taken for missing: a link is
\* dropped from it only when it goes, or is put in place or put back; one that the loop of
\* a removal passes over is noted.
Notes(p) == \A q \in Path :
  /\ q \in missed \ missed' =>
       \/ fs'[q].kind # "l"
       \/ txn'[p].pc \in Working /\ q \in NewFiles(txn[p]) \cap txn'[p].placed
       \/ txn[p].pc = "undo" /\ txn'[p].pc = "undo" /\ q \in OldFiles(txn[p])
  /\ /\ txn[p].pc = "stage" /\ txn'[p].pc = "stage" /\ fs'[q].kind = "l"
     /\ q \in txn[p].todo \ txn'[p].todo
     => q \in missed'

\* The system calls, path by path.
LEMMA TreeChanges ==
  ASSUME NEW f \in Tree, NEW q \in Path
  PROVE  /\ Without(f, q)[q] = Absent /\ OnlyAt(q, f, Without(f, q))
         /\ \A n \in Node : Put(f, q, n)[q] = n /\ AtAndAbove(q, f, Put(f, q, n))
BY DEF Tree, Without, OnlyAt, AtAndAbove, Put, WithParents

LEMMA SetAt ==
  ASSUME NEW f \in Tree, NEW q \in Path, NEW n, NEW g, g = [f EXCEPT ![q] = n]
  PROVE  g[q] = n /\ OnlyAt(q, f, g)
BY DEF Tree, OnlyAt

LEMMA ClearChanges ==
  ASSUME NEW f \in Tree, NEW q \in Path
  PROVE  /\ (Unlink(f, q) = f /\ IsDir(f, q)) \/ Unlink(f, q) = Without(f, q)
         /\ Rmdir(f, q) = f \/ (IsDir(f, q) /\ Rmdir(f, q) = Without(f, q))
BY DEF Unlink, Rmdir

\* The types of what the steps of p are about.
LEMMA StepTypes ==
  ASSUME TypeInv, NEW p \in Proc
  PROVE  /\ fs \in Tree /\ db \in Records /\ txn \in [Proc -> Txn] /\ txn[p] \in Txn
         /\ Shape(txn[p]) /\ txn[p].backup \in Tree
         /\ txn[p].pc = "idle" \/ txn[p].pc \in Check \/ txn[p].pc \in Working \/ txn[p].pc = "prune"
         /\ txn[p].todo \subseteq Path /\ txn[p].placed \subseteq Path /\ txn[p].created \subseteq Path
<1>1. /\ fs \in Tree /\ db \in Records /\ txn \in [Proc -> Txn] /\ txn[p] \in Txn
      /\ Shape(txn[p])
  BY DEF TypeInv, TypeOK
<1> QED
  BY <1>1 DEF Txn, Stage, Working, Undoing

\* Entering a stage keeps the lists, and leaves the others alone.
LEMMA EnterSteps ==
  ASSUME TypeInv, NEW p \in Proc, NEW stage, NEW paths, Enter(p, stage, paths)
  PROVE  /\ SameLists(txn[p], txn'[p]) /\ txn'[p].pc = stage /\ txn'[p].todo = paths
         /\ \A r \in Proc \ {p} : txn'[r] = txn[r]
<1>1. \A r \in Proc \ {p} : txn'[r] = txn[r]
  BY StepTypes DEF Enter
<1> QED
  BY <1>1, Entered

LEMMA EndSteps ==
  ASSUME TypeInv, NEW p \in Proc, End(p)
  PROVE  txn'[p] = NoTxn /\ \A r \in Proc \ {p} : txn'[r] = txn[r]
BY StepTypes DEF End

\* The steps that check.
LEMMA CheckSteps ==
  ASSUME TypeInv, NEW p \in Proc, CheckDependencies(p) \/ ValidateOld(p) \/ Preflight(p),
         Fits(txn[p], fs), Aims(p, txn[p])
  PROVE  /\ UNCHANGED <<fs, db, attic, deleted>>
         /\ Looks(txn[p], txn'[p], fs) \/ Enters(txn[p], txn'[p], fs) \/ Ends(txn[p], txn'[p])
         /\ \A r \in Proc \ {p} : txn'[r] = txn[r]
<1> DEFINE t == txn[p]
           u == txn'[p]
<1>un. UNCHANGED <<fs, db, attic, deleted>> /\ t.pc \in Check
  BY DEF CheckDependencies, ValidateOld, Preflight, Check
<1>ty. Shape(t) /\ t \in Txn /\ fs \in Tree
  BY StepTypes
<1>1. CASE End(p)
  BY <1>1, <1>un, EndSteps DEF Ends
<1>2. CASE CheckDependencies(p) /\ ~End(p)
  <2>1. /\ SameLists(t, u) /\ u.pc = IF t.op = "install" THEN "preflight" ELSE "validate"
        /\ \A r \in Proc \ {p} : txn'[r] = txn[r]
    BY <1>2, EnterSteps DEF CheckDependencies
  <2>2. Fits(u, fs)
    BY <2>1 DEF Fits, SameLists, SameJob, OldFiles, OldDirs, Replaces, Working, Change, Undoing
  <2> QED
    BY <1>un, <2>1, <2>2 DEF Looks, Check
<1>3. CASE ValidateOld(p) /\ ~End(p)
  <2>1. RecordedPathsIntact(p) /\ t.op \in {"remove", "upgrade"} /\ t.old \in Pkg
    BY <1>3, <1>ty DEF ValidateOld, Shape
  <2>2. /\ \A q \in Dirs(t.old) : fs[q].kind \in {"none", "d"}
        /\ \A q \in Files(t.old) : ~IsDir(fs, q)
    BY <2>1 DEF RecordedPathsIntact, Dirs, Files, Entries, Exists, IsDir
  <2>3. CASE Enter(p, "stage", Files(t.old)) /\ t.op = "remove"
    <3>1. /\ SameLists(t, u) /\ u.pc = "stage" /\ u.todo = Files(t.old)
          /\ \A r \in Proc \ {p} : txn'[r] = txn[r]
      BY <2>3, EnterSteps
    <3> HIDE DEF u
    <3>2. Fits(u, fs)
      BY <2>2, <3>1 DEF Fits, SameLists, SameJob, OldFiles, OldDirs
    <3>3. Enters(t, u, fs)
      BY <1>un, <2>3, <3>1, <3>2 DEF Enters, SameLists, SameJob, OldFiles, Replaces
    <3> QED
      BY <1>un, <3>1, <3>3 DEF u
  <2>4. CASE Enter(p, "preflight", {})
    <3>1. SameLists(t, u) /\ u.pc = "preflight" /\ \A r \in Proc \ {p} : txn'[r] = txn[r]
      BY <2>4, EnterSteps
    <3> HIDE DEF u
    <3>2. Fits(u, fs)
      BY <2>2, <3>1 DEF Fits, SameLists, SameJob, OldFiles, OldDirs
    <3>3. Looks(t, u, fs)
      BY <1>un, <3>1, <3>2 DEF Looks, Check
    <3> QED
      BY <1>un, <3>1, <3>3 DEF u
  <2> QED
    BY <1>3, <2>3, <2>4 DEF ValidateOld
<1>4. CASE Preflight(p) /\ ~End(p)
  <2>1. PathsFree(p) /\ t.op \in {"install", "upgrade"} /\ t.new \in Pkg /\ t.pc = "preflight"
    BY <1>4, <1>ty DEF Preflight, Shape
  <2>2. CASE Enter(p, "dirs", Dirs(t.new)) /\ t.op = "install"
    <3>1. /\ SameLists(t, u) /\ u.pc = "dirs" /\ u.todo = Dirs(t.new)
          /\ \A r \in Proc \ {p} : txn'[r] = txn[r]
      BY <2>2, EnterSteps
    <3> HIDE DEF u
    <3>2. \A q \in Files(t.new) : ~Exists(fs, q)
      BY <2>1, <2>2 DEF PathsFree, InstallPathsFree
    <3>3. Fits(u, fs) /\ NewFiles(u) = Files(t.new) /\ NewDirs(u) = Dirs(t.new)
      BY <2>2, <3>1
      DEF Fits, SameLists, SameJob, OldFiles, OldDirs, NewFiles, NewDirs, Replaces, Brings
    <3>4. Enters(t, u, fs)
      BY <1>un, <2>2, <3>1, <3>2, <3>3 DEF Enters, SameLists, SameJob
    <3> QED
      BY <1>un, <3>1, <3>4 DEF u
  <2>3. CASE Enter(p, "stage", Files(t.old)) /\ t.op = "upgrade"
    <3>1. /\ SameLists(t, u) /\ u.pc = "stage" /\ u.todo = Files(t.old)
          /\ \A r \in Proc \ {p} : txn'[r] = txn[r]
      BY <2>3, EnterSteps
    <3> HIDE DEF u
    <3>2. SameKinds(t.new, t.old)
      BY <2>1, <2>3 DEF PathsFree, UpgradePathsFree, SameKinds
    <3>3. Fits(u, fs)
      BY <2>1, <3>1 DEF Fits, SameLists, SameJob, OldFiles, OldDirs, Replaces
    <3>4. Enters(t, u, fs)
      BY <1>un, <2>3, <3>1, <3>2, <3>3 DEF Enters, SameLists, SameJob, OldFiles, Replaces
    <3> QED
      BY <1>un, <3>1, <3>4 DEF u
  <2> QED
    BY <1>4, <2>1, <2>2, <2>3 DEF Preflight
<1> QED
  BY <1>1, <1>2, <1>3, <1>4

\* A step that replaces the transaction of p.
LEMMA Replaced ==
  ASSUME TypeInv, NEW p \in Proc, NEW w, txn' = [txn EXCEPT ![p] = w]
  PROVE  txn'[p] = w /\ \A r \in Proc \ {p} : txn'[r] = txn[r]
BY StepTypes

\* A turn of a loop that only takes a path off the list.
LEMMA TodoSteps ==
  ASSUME TypeInv, NEW p \in Proc, NEW q \in Path, txn' = [txn EXCEPT ![p].todo = @ \ {q}]
  PROVE  /\ SameLists(txn[p], txn'[p]) /\ txn'[p].pc = txn[p].pc
         /\ txn'[p].todo = txn[p].todo \ {q}
         /\ \A r \in Proc \ {p} : txn'[r] = txn[r]
<1> DEFINE w == [txn[p] EXCEPT !.todo = @ \ {q}]
<1>1. SameLists(txn[p], w) /\ w.pc = txn[p].pc /\ w.todo = txn[p].todo \ {q}
  BY StepTypes DEF Txn, SameLists, SameJob
<1>2. txn' = [txn EXCEPT ![p] = w]
  BY StepTypes DEF Txn
<1> HIDE DEF w
<1> QED
  BY <1>1, <1>2, Replaced

LEMMA StageSteps ==
  ASSUME TypeInv, NEW p \in Proc, NEW q \in Path, StageOld(p, q)
  PROVE  /\ UNCHANGED <<db, attic, deleted>>
         /\ \/ Passes(txn[p], txn'[p]) /\ UNCHANGED fs
            \/ Skips(txn[p], txn'[p], fs, fs', q) \/ Stages(txn[p], txn'[p], fs, fs', q)
         /\ \A r \in Proc \ {p} : txn'[r] = txn[r]
<1>un. UNCHANGED <<db, attic, deleted>> /\ txn[p].pc = "stage" /\ q \in txn[p].todo
  BY DEF StageOld, First, Last
<1>1. CASE Found(p, q) = "none" /\ txn' = [txn EXCEPT ![p].todo = @ \ {q}] /\ UNCHANGED fs
  <2>1. fs[q].kind # "f" /\ (txn[p].op = "upgrade" => ~Exists(fs, q))
    BY <1>1 DEF Found, Exists
  <2> QED
    BY <1>un, <1>1, <2>1, TodoSteps DEF Skips
<1>2. CASE Undo(p) /\ UNCHANGED fs
  BY <1>un, <1>2, EnterSteps DEF Undo, Passes, Change
<1>3. CASE /\ Found(p, q) # "none" /\ fs' = Without(fs, q)
           /\ txn' = [txn EXCEPT ![p].todo = @ \ {q}, ![p].backup[q] = fs[q]]
  <2> DEFINE w == [txn[p] EXCEPT !.todo = @ \ {q}, !.backup[q] = fs[q]]
  <2>1. /\ SameJob(txn[p], w) /\ w.pc = txn[p].pc /\ w.todo = txn[p].todo \ {q}
        /\ w.placed = txn[p].placed /\ w.created = txn[p].created
        /\ w.backup = [txn[p].backup EXCEPT ![q] = fs[q]]
    BY StepTypes DEF Txn, SameJob
  <2>2. txn' = [txn EXCEPT ![p] = w]
    BY <1>3, StepTypes DEF Txn
  <2> HIDE DEF w
  <2>3. w.backup[q] = fs[q] /\ OnlyAt(q, txn[p].backup, w.backup)
    BY <2>1, StepTypes, SetAt
  <2>4. Exists(fs, q)
    BY <1>3 DEF Found, Exists
  <2>5. fs'[q] = Absent /\ OnlyAt(q, fs, fs')
    BY <1>3, StepTypes, TreeChanges
  <2>6. txn'[p] = w /\ \A r \in Proc \ {p} : txn'[r] = txn[r]
    BY <2>2, Replaced
  <2> QED
    BY <1>un, <2>1, <2>3, <2>4, <2>5, <2>6 DEF Stages
<1> QED
  BY <1>1, <1>2, <1>3 DEF StageOld

LEMMA DirSteps ==
  ASSUME TypeInv, NEW p \in Proc, NEW q \in Path, PlaceDir(p, q)
  PROVE  /\ UNCHANGED <<db, attic, deleted>>
         /\ \/ Passes(txn[p], txn'[p]) /\ UNCHANGED fs
            \/ Skips(txn[p], txn'[p], fs, fs', q) \/ Makes(txn[p], txn'[p], fs, fs', q)
         /\ \A r \in Proc \ {p} : txn'[r] = txn[r]
<1>un. UNCHANGED <<db, attic, deleted>> /\ txn[p].pc = "dirs" /\ q \in txn[p].todo
  BY DEF PlaceDir
<1>1. CASE txn' = [txn EXCEPT ![p].todo = @ \ {q}] /\ UNCHANGED fs
  BY <1>un, <1>1, TodoSteps DEF Skips
<1>2. CASE Undo(p) /\ UNCHANGED fs
  BY <1>un, <1>2, EnterSteps DEF Undo, Passes, Change
<1>3. CASE /\ CanMkdir(fs, q) /\ fs' = [fs EXCEPT ![q] = Dir]
           /\ txn' = [txn EXCEPT ![p].todo = @ \ {q}, ![p].created = @ \cup {q}]
  <2> DEFINE w == [txn[p] EXCEPT !.todo = @ \ {q}, !.created = @ \cup {q}]
  <2>1. /\ SameJob(txn[p], w) /\ w.pc = txn[p].pc /\ w.todo = txn[p].todo \ {q}
        /\ w.placed = txn[p].placed /\ w.created = txn[p].created \cup {q}
        /\ w.backup = txn[p].backup
    BY StepTypes DEF Txn, SameJob
  <2>2. txn' = [txn EXCEPT ![p] = w]
    BY <1>3, StepTypes DEF Txn
  <2> HIDE DEF w
  <2>3. ~Exists(fs, q) /\ fs'[q] = Dir /\ OnlyAt(q, fs, fs')
    <3>1. ~Exists(fs, q) /\ fs \in Tree
      BY <1>3, StepTypes DEF CanMkdir
    <3> QED
      BY <1>3, <3>1 DEF Tree, OnlyAt
  <2>4. txn'[p] = w /\ \A r \in Proc \ {p} : txn'[r] = txn[r]
    BY <2>2, Replaced
  <2> QED
    BY <1>un, <2>1, <2>3, <2>4 DEF Makes
<1> QED
  BY <1>1, <1>2, <1>3 DEF PlaceDir

LEMMA FileSteps ==
  ASSUME TypeInv, NEW p \in Proc, NEW q \in Path, PlaceFile(p, q)
  PROVE  /\ UNCHANGED <<db, attic, deleted>>
         /\ \/ Passes(txn[p], txn'[p]) /\ UNCHANGED fs
            \/ Puts(txn[p], txn'[p], fs, fs', q)
         /\ \A r \in Proc \ {p} : txn'[r] = txn[r]
<1>un. UNCHANGED <<db, attic, deleted>> /\ txn[p].pc = "files" /\ q \in txn[p].todo
  BY DEF PlaceFile
<1>1. CASE Undo(p) /\ UNCHANGED fs
  BY <1>un, <1>1, EnterSteps DEF Undo, Passes, Change
<1>2. CASE /\ fs' = Put(fs, q, Payload[txn[p].new][q])
           /\ txn' = [txn EXCEPT ![p].todo = @ \ {q}, ![p].placed = @ \cup {q}]
  <2> DEFINE w == [txn[p] EXCEPT !.todo = @ \ {q}, !.placed = @ \cup {q}]
  <2>1. /\ SameJob(txn[p], w) /\ w.pc = txn[p].pc /\ w.todo = txn[p].todo \ {q}
        /\ w.placed = txn[p].placed \cup {q} /\ w.created = txn[p].created
        /\ w.backup = txn[p].backup
    BY StepTypes DEF Txn, SameJob
  <2>2. txn' = [txn EXCEPT ![p] = w]
    BY <1>2, StepTypes DEF Txn
  <2> HIDE DEF w
  <2>3. Payload[txn[p].new][q] \in Node
    BY <1>un, StepTypes, ArchiveTypes DEF Shape
  <2>4. fs'[q] = Payload[txn[p].new][q] /\ AtAndAbove(q, fs, fs')
    BY <1>2, <2>3, StepTypes, TreeChanges
  <2>5. txn'[p] = w /\ \A r \in Proc \ {p} : txn'[r] = txn[r]
    BY <2>2, Replaced
  <2> QED
    BY <1>un, <2>1, <2>4, <2>5 DEF Puts
<1> QED
  BY <1>1, <1>2 DEF PlaceFile

LEMMA UntrackedSteps ==
  ASSUME TypeInv, NEW p \in Proc, NEW q \in Path, PlaceUntracked(p, q)
  PROVE  /\ UNCHANGED <<db, attic, deleted>>
         /\ Makes(txn[p], txn'[p], fs, fs', q) \/ Puts(txn[p], txn'[p], fs, fs', q)
         /\ \A r \in Proc \ {p} : txn'[r] = txn[r]
<1>un. UNCHANGED <<db, attic, deleted>> /\ q \in txn[p].todo
  BY DEF PlaceUntracked
<1>1. /\ SameLists(txn[p], txn'[p]) /\ txn'[p].pc = "undo"
      /\ \A r \in Proc \ {p} : txn'[r] = txn[r]
  BY EnterSteps DEF PlaceUntracked, Undo
<1>2. ~AllTracked
  <2>1. spent["untracked"] \in Nat /\ spent["untracked"] < Limit["untracked"]
    BY DEF PlaceUntracked, Spend, TypeInv, TypeOK, Event
  <2> QED
    BY <2>1 DEF AllTracked
<1>3. CASE txn[p].pc = "dirs" /\ CanMkdir(fs, q) /\ fs' = [fs EXCEPT ![q] = Dir]
  <2>1. ~Exists(fs, q) /\ fs'[q] = Dir /\ OnlyAt(q, fs, fs')
    <3>1. ~Exists(fs, q) /\ fs \in Tree
      BY <1>3, StepTypes DEF CanMkdir
    <3> QED
      BY <1>3, <3>1 DEF Tree, OnlyAt
  <2> QED
    BY <1>un, <1>1, <1>3, <2>1 DEF Makes, SameLists
<1>4. CASE txn[p].pc = "files" /\ fs' = Put(fs, q, Payload[txn[p].new][q])
  <2>1. Payload[txn[p].new][q] \in Node
    BY <1>4, StepTypes, ArchiveTypes DEF Shape
  <2>2. fs'[q] = Payload[txn[p].new][q] /\ AtAndAbove(q, fs, fs')
    BY <1>4, <2>1, StepTypes, TreeChanges
  <2> QED
    BY <1>un, <1>1, <1>2, <1>4, <2>2 DEF Puts, SameLists
<1> QED
  BY <1>3, <1>4 DEF PlaceUntracked

LEMMA PruneSteps ==
  ASSUME TypeInv, NEW p \in Proc, NEW q \in Path, Prune(p, q)
  PROVE  /\ UNCHANGED <<db, attic, deleted>>
         /\ Prunes(txn[p], txn'[p], fs, fs', q)
         /\ \A r \in Proc \ {p} : txn'[r] = txn[r]
<1>1. /\ SameLists(txn[p], txn'[p]) /\ txn'[p].pc = txn[p].pc
      /\ txn'[p].todo = txn[p].todo \ {q}
      /\ \A r \in Proc \ {p} : txn'[r] = txn[r]
  BY TodoSteps DEF Prune
<1>2. txn[p].pc = "prune" /\ q \in txn[p].todo /\ UNCHANGED <<db, attic, deleted>>
  BY DEF Prune, Last
<1>3. fs' = fs \/ fs' = Rmdir(fs, q)
  BY DEF Prune
<1>4. fs' = fs \/ (IsDir(fs, q) /\ fs'[q] = Absent /\ OnlyAt(q, fs, fs'))
  BY <1>3, StepTypes, TreeChanges, ClearChanges
<1> QED
  BY <1>1, <1>2, <1>4 DEF Prunes, SameLists

LEMMA UndoSteps ==
  ASSUME TypeInv, NEW p \in Proc, NEW q \in Path,
         UndoFile(p, q) \/ UndoDir(p, q) \/ UndoBackup(p, q)
  PROVE  /\ UNCHANGED <<db, attic, deleted>>
         /\ \/ Unputs(txn[p], txn'[p], fs, fs', q) \/ Unmakes(txn[p], txn'[p], fs, fs', q)
            \/ Restores(txn[p], txn'[p], fs, fs', q)
         /\ \A r \in Proc \ {p} : txn'[r] = txn[r]
<1>un. UNCHANGED <<db, attic, deleted>> /\ txn[p].pc = "undo"
  BY DEF UndoFile, UndoDir, UndoBackup
<1>1. CASE UndoFile(p, q)
  <2> DEFINE w == [txn[p] EXCEPT !.placed = @ \ {q}]
  <2>1. /\ SameJob(txn[p], w) /\ w.pc = txn[p].pc
        /\ w.placed = txn[p].placed \ {q} /\ w.created = txn[p].created
        /\ w.backup = txn[p].backup
    BY StepTypes DEF Txn, SameJob
  <2>2. txn' = [txn EXCEPT ![p] = w]
    BY <1>1, StepTypes DEF UndoFile, Txn
  <2> HIDE DEF w
  <2>3. (fs' = fs /\ IsDir(fs, q)) \/ (fs'[q] = Absent /\ OnlyAt(q, fs, fs'))
    BY <1>1, StepTypes, TreeChanges, ClearChanges DEF UndoFile
  <2>4. txn'[p] = w /\ \A r \in Proc \ {p} : txn'[r] = txn[r]
    BY <2>2, Replaced
  <2>5. q \in txn[p].placed
    BY <1>1 DEF UndoFile
  <2> QED
    BY <1>un, <2>1, <2>3, <2>4, <2>5 DEF Unputs
<1>2. CASE UndoDir(p, q)
  <2> DEFINE w == [txn[p] EXCEPT !.created = @ \ {q}]
  <2>1. /\ SameJob(txn[p], w) /\ w.pc = txn[p].pc
        /\ w.placed = txn[p].placed /\ w.created = txn[p].created \ {q}
        /\ w.backup = txn[p].backup
    BY StepTypes DEF Txn, SameJob
  <2>2. txn' = [txn EXCEPT ![p] = w]
    BY <1>2, StepTypes DEF UndoDir, Txn
  <2> HIDE DEF w
  <2>3. fs' = fs \/ (IsDir(fs, q) /\ fs'[q] = Absent /\ OnlyAt(q, fs, fs'))
    BY <1>2, StepTypes, TreeChanges, ClearChanges DEF UndoDir
  <2>4. txn'[p] = w /\ \A r \in Proc \ {p} : txn'[r] = txn[r]
    BY <2>2, Replaced
  <2>5. q \in txn[p].created
    BY <1>2 DEF UndoDir
  <2> QED
    BY <1>un, <2>1, <2>3, <2>4, <2>5 DEF Unmakes
<1>3. CASE UndoBackup(p, q)
  <2> DEFINE w == [txn[p] EXCEPT !.backup[q] = Absent]
  <2>1. /\ SameJob(txn[p], w) /\ w.pc = txn[p].pc
        /\ w.placed = txn[p].placed /\ w.created = txn[p].created
        /\ w.backup = [txn[p].backup EXCEPT ![q] = Absent]
    BY StepTypes DEF Txn, SameJob
  <2>2. txn' = [txn EXCEPT ![p] = w]
    BY <1>3, StepTypes DEF UndoBackup, Txn
  <2> HIDE DEF w
  <2>3. txn[p].backup[q] \in Node /\ txn[p].placed = {} /\ Exists(txn[p].backup, q)
    BY <1>3, StepTypes DEF UndoBackup, BackedUp, Tree
  <2>4. \/ fs' = fs /\ ~CanPut(fs, q)
        \/ fs'[q] = txn[p].backup[q] /\ AtAndAbove(q, fs, fs')
    BY <1>3, <2>3, StepTypes, TreeChanges DEF UndoBackup
  <2>5. w.backup[q] = Absent /\ OnlyAt(q, txn[p].backup, w.backup)
    BY <2>1, StepTypes, SetAt
  <2>6. txn'[p] = w /\ \A r \in Proc \ {p} : txn'[r] = txn[r]
    BY <2>2, Replaced
  <2> QED
    BY <1>un, <2>1, <2>3, <2>4, <2>5, <2>6 DEF Restores
<1> QED
  BY <1>1, <1>2, <1>3

LEMMA CommitSteps ==
  ASSUME TypeInv, NEW p \in Proc, Register(p) \/ Unregister(p)
  PROVE  /\ UNCHANGED <<fs, attic, deleted>>
         /\ \/ UNCHANGED db /\ Passes(txn[p], txn'[p])
            \/ Commits(txn[p], txn'[p], db, db')
         /\ \A r \in Proc \ {p} : txn'[r] = txn[r]
<1>un. UNCHANGED <<fs, attic, deleted>>
  BY DEF Register, Unregister
<1>1. CASE Register(p) /\ txn[p].op = "install"
  BY <1>un, <1>1, EndSteps DEF Register, Commits
<1>2. CASE Register(p) /\ txn[p].op # "install"
  <2>1. txn[p].op = "upgrade" /\ txn[p].pc = "register"
    BY <1>2, StepTypes DEF Register, Shape
  <2>2. /\ SameLists(txn[p], txn'[p]) /\ txn'[p].pc = "prune"
        /\ txn'[p].todo = Dirs(txn[p].old) \ Dirs(txn[p].new)
        /\ \A r \in Proc \ {p} : txn'[r] = txn[r]
    BY <1>2, EnterSteps DEF Register
  <2>3. txn'[p].todo \subseteq OldDirs(txn'[p])
    BY <2>1, <2>2 DEF OldDirs, Replaces, SameLists, SameJob
  <2>4. db' = Registered(db, txn[p].new)
    BY <1>2 DEF Register
  <2> QED
    BY <1>un, <2>1, <2>2, <2>3, <2>4 DEF Commits
<1>3. CASE Unregister(p) /\ Undo(p) /\ UNCHANGED db
  BY <1>un, <1>3, EnterSteps DEF Unregister, Undo, Passes, Change
<1>4. CASE Unregister(p) /\ Enter(p, "prune", Dirs(txn[p].old)) /\ db' = Unregistered(db, Target(p))
  <2>1. txn[p].op = "remove" /\ txn[p].pc = "unregister"
    BY <1>4, StepTypes DEF Unregister, Shape
  <2>2. /\ SameLists(txn[p], txn'[p]) /\ txn'[p].pc = "prune"
        /\ txn'[p].todo = Dirs(txn[p].old)
        /\ \A r \in Proc \ {p} : txn'[r] = txn[r]
    BY <1>4, EnterSteps
  <2>3. txn'[p].todo \subseteq OldDirs(txn'[p])
    BY <2>1, <2>2 DEF OldDirs, Replaces, SameLists, SameJob
  <2>4. db' = Unregistered(db, TargetOf(txn[p]))
    BY <1>4 DEF Target, TargetOf
  <2> QED
    BY <1>un, <2>1, <2>2, <2>3, <2>4 DEF Commits
<1> QED
  BY <1>1, <1>2, <1>3, <1>4 DEF Unregister

\* The steps that go on to another stage, or end a command.
LEMMA StageEndSteps ==
  ASSUME TypeInv, NEW p \in Proc, OldStaged(p) \/ DirsPlaced(p) \/ FilesPlaced(p)
  PROVE  /\ UNCHANGED <<fs, db, attic, deleted>>
         /\ Passes(txn[p], txn'[p])
         /\ \A r \in Proc \ {p} : txn'[r] = txn[r]
<1>un. UNCHANGED <<fs, db, attic, deleted>>
  BY DEF OldStaged, DirsPlaced, FilesPlaced
<1>1. CASE OldStaged(p)
  <2>1. txn[p].pc = "stage" /\ txn[p].todo = {} /\ txn[p].op \in {"remove", "upgrade"}
    BY <1>1, StepTypes DEF OldStaged, Shape
  <2>2. CASE txn[p].op = "remove"
    <3>1. /\ SameLists(txn[p], txn'[p]) /\ txn'[p].pc = "unregister"
          /\ \A r \in Proc \ {p} : txn'[r] = txn[r]
      BY <1>1, <2>2, EnterSteps DEF OldStaged
    <3> QED
      BY <1>un, <2>1, <2>2, <3>1 DEF Passes, Change, SameLists, SameJob
  <2>3. CASE txn[p].op = "upgrade"
    <3>1. /\ SameLists(txn[p], txn'[p]) /\ txn'[p].pc = "dirs"
          /\ txn'[p].todo = Dirs(txn[p].new)
          /\ \A r \in Proc \ {p} : txn'[r] = txn[r]
      BY <1>1, <2>3, EnterSteps DEF OldStaged
    <3>2. txn'[p].op = "upgrade" /\ txn'[p].todo = NewDirs(txn'[p])
      BY <2>3, <3>1 DEF SameLists, SameJob, NewDirs, Brings
    <3> QED
      BY <1>un, <2>1, <3>1, <3>2 DEF Passes, Change
  <2> QED
    BY <2>1, <2>2, <2>3
<1>2. CASE DirsPlaced(p)
  <2>1. txn[p].pc = "dirs" /\ txn[p].op \in {"install", "upgrade"}
    BY <1>2, StepTypes DEF DirsPlaced, Shape
  <2>2. /\ SameLists(txn[p], txn'[p]) /\ txn'[p].pc = "files"
        /\ txn'[p].todo = Files(txn[p].new)
        /\ \A r \in Proc \ {p} : txn'[r] = txn[r]
    BY <1>2, EnterSteps DEF DirsPlaced
  <2>3. txn'[p].todo = NewFiles(txn'[p])
    BY <2>1, <2>2 DEF SameLists, SameJob, NewFiles, Brings
  <2> QED
    BY <1>un, <2>1, <2>2, <2>3 DEF Passes, Change
<1>3. CASE FilesPlaced(p)
  <2>1. /\ SameLists(txn[p], txn'[p]) /\ txn'[p].pc = "register"
        /\ \A r \in Proc \ {p} : txn'[r] = txn[r]
    BY <1>3, EnterSteps DEF FilesPlaced
  <2> QED
    BY <1>un, <1>3, <2>1 DEF FilesPlaced, Passes, Change
<1> QED
  BY <1>1, <1>2, <1>3

LEMMA BeginSteps ==
  ASSUME TypeInv, NEW p \in Proc, Command(p)
  PROVE  /\ UNCHANGED <<fs, db, attic, deleted>>
         /\ Begins(txn[p], txn'[p])
         /\ \A r \in Proc \ {p} : txn'[r] = txn[r]
<1>1. /\ UNCHANGED <<fs, db, attic, deleted>> /\ txn[p].pc = "idle"
      /\ \E op, new, old : Begin(p, op, new, old)
  BY DEF Command, InstallBegin, UpgradeBegin, RemoveBegin, Idle
<1>2. PICK op, new, old : Begin(p, op, new, old)
  BY <1>1
<1>3. /\ txn'[p].pc = "depends" /\ txn'[p].placed = {} /\ txn'[p].created = {}
      /\ txn'[p].backup = EmptyTree
  BY <1>2, StepTypes DEF Begin, NoTxn
<1>4. \A r \in Proc \ {p} : txn'[r] = txn[r]
  BY <1>2, StepTypes DEF Begin
<1> QED
  BY <1>1, <1>3, <1>4 DEF Begins

LEMMA CrashSteps ==
  ASSUME TypeInv, NEW p \in Proc, Crash(p)
  PROVE  /\ UNCHANGED <<fs, db, deleted>> /\ attic \subseteq attic' /\ Limit["crash"] # 0
         /\ Killed(txn[p], txn'[p], attic, attic')
         /\ \A r \in Proc \ {p} : txn'[r] = txn[r]
<1>1. UNCHANGED <<fs, db, deleted>> /\ attic \subseteq attic'
  BY DEF Crash
<1>2. txn'[p] = NoTxn /\ \A r \in Proc \ {p} : txn'[r] = txn[r]
  BY EndSteps DEF Crash
<1>3. \A q \in Path : Exists(txn[p].backup, q) => <<q, txn[p].backup[q]>> \in attic'
  BY DEF Crash, BackedUp
<1>4. Limit["crash"] # 0
  BY DEF Crash, Spend, TypeInv, TypeOK, Event
<1> QED
  BY <1>1, <1>2, <1>3, <1>4 DEF Killed

\* Every step of a process is one of these.
LEMMA ProcessSteps ==
  ASSUME TypeInv, NEW p \in Proc, Command(p) \/ Work(p) \/ Environment(p),
         Fits(txn[p], fs), Aims(p, txn[p])
  PROVE  Steps(p) /\ \A r \in Proc \ {p} : txn'[r] = txn[r]
<1>1. CASE Command(p)
  BY <1>1, BeginSteps DEF Steps, Turn
<1>2. CASE CheckDependencies(p) \/ ValidateOld(p) \/ Preflight(p)
  BY <1>2, CheckSteps DEF Steps, Turn
<1>3. CASE OldStaged(p) \/ DirsPlaced(p) \/ FilesPlaced(p)
  BY <1>3, StageEndSteps DEF Steps, Turn
<1>4. CASE Register(p) \/ Unregister(p)
  BY <1>4, CommitSteps DEF Steps, Turn
<1>5. CASE Pruned(p) \/ Undone(p)
  <2>1. UNCHANGED <<fs, db, attic, deleted>> /\ End(p)
    BY <1>5 DEF Pruned, Undone
  <2>2. \/ txn[p].pc = "prune"
        \/ /\ txn[p].pc = "undo" /\ txn[p].placed = {} /\ txn[p].created = {}
           /\ \A q \in Path : ~Exists(txn[p].backup, q)
    BY <1>5 DEF Pruned, Undone, BackedUp
  <2>3. Ends(txn[p], txn'[p]) /\ \A r \in Proc \ {p} : txn'[r] = txn[r]
    BY <2>1, <2>2, EndSteps DEF Ends
  <2> QED
    BY <2>1, <2>3 DEF Steps, Turn
<1>6. ASSUME NEW q \in Path, StageOld(p, q)
      PROVE  Steps(p) /\ \A r \in Proc \ {p} : txn'[r] = txn[r]
  BY <1>6, StageSteps DEF Steps, Turn
<1>7. ASSUME NEW q \in Path, PlaceDir(p, q)
      PROVE  Steps(p) /\ \A r \in Proc \ {p} : txn'[r] = txn[r]
  BY <1>7, DirSteps DEF Steps, Turn
<1>8. ASSUME NEW q \in Path, PlaceFile(p, q)
      PROVE  Steps(p) /\ \A r \in Proc \ {p} : txn'[r] = txn[r]
  BY <1>8, FileSteps DEF Steps, Turn
<1>9. ASSUME NEW q \in Path, Prune(p, q)
      PROVE  Steps(p) /\ \A r \in Proc \ {p} : txn'[r] = txn[r]
  BY <1>9, PruneSteps DEF Steps, Turn
<1>10. ASSUME NEW q \in Path, UndoFile(p, q) \/ UndoDir(p, q) \/ UndoBackup(p, q)
       PROVE  Steps(p) /\ \A r \in Proc \ {p} : txn'[r] = txn[r]
  BY <1>10, UndoSteps DEF Steps, Turn
<1>11. ASSUME NEW q \in Path, PlaceUntracked(p, q)
       PROVE  Steps(p) /\ \A r \in Proc \ {p} : txn'[r] = txn[r]
  BY <1>11, UntrackedSteps DEF Steps, Turn
<1>12. CASE Fault(p)
  <2>1. UNCHANGED <<fs, db, attic, deleted>>
    BY <1>12 DEF Fault
  <2>2. CASE txn[p].pc \in Check /\ End(p)
    BY <2>1, <2>2, EndSteps DEF Ends, Steps, Turn
  <2>3. CASE txn[p].pc \in Change /\ Undo(p)
    BY <2>1, <2>3, EnterSteps DEF Undo, Passes, Steps, Turn
  <2> QED
    BY <1>12, <2>2, <2>3 DEF Fault
<1>13. CASE Crash(p)
  BY <1>13, CrashSteps DEF Steps
<1> QED
  BY <1>1, <1>2, <1>3, <1>4, <1>5, <1>6, <1>7, <1>8, <1>9, <1>10, <1>11, <1>12, <1>13
  DEF Work, Environment

-----------------------------------------------------------------------------
\* What such a step keeps of its own transaction

\* The archives of a transaction of process p.
LEMMA ItsArchives ==
  ASSUME NEW p \in Proc, NEW t \in Txn, Shape(t), Aims(p, t)
  PROVE  /\ Brings(t) => /\ t.new \in Pkg /\ NameOf[t.new] = TargetOf(t)
                         /\ TargetOf(t) \in Mine[p]
         /\ Replaces(t) => /\ t.old \in Pkg /\ NameOf[t.old] = TargetOf(t)
                           /\ TargetOf(t) \in Mine[p]
         /\ t.pc # "idle" => TargetOf(t) \in Mine[p] /\ (Brings(t) \/ Replaces(t))
BY DEF Shape, Aims, Brings, Replaces, TargetOf, Txn

\* The paths of an archive: files and links have their parents among its directories.
LEMMA PathsOf ==
  ASSUME NEW a \in Pkg
  PROVE  /\ Files(a) \subseteq Path /\ Dirs(a) \subseteq Path /\ Files(a) \cap Dirs(a) = {}
         /\ \A q \in Files(a) : Above[q] \subseteq Dirs(a) /\ Payload[a][q].kind \in {"f", "l"}
<1>1. \A q \in Files(a) : q \in Entries(a)
  BY DEF Files, Entries
<1>2. \A q \in Files(a) : Above[q] \subseteq Dirs(a)
  BY <1>1, ArchiveAssumption
<1> QED
  BY <1>2 DEF Files, Dirs

LEMMA ItsPaths ==
  ASSUME NEW t \in Txn, Shape(t)
  PROVE  /\ NewFiles(t) \subseteq Path /\ NewDirs(t) \subseteq Path
         /\ OldFiles(t) \subseteq Path /\ OldDirs(t) \subseteq Path
         /\ NewFiles(t) \cap NewDirs(t) = {} /\ OldFiles(t) \cap OldDirs(t) = {}
         /\ \A q \in NewFiles(t) : Above[q] \subseteq NewDirs(t) /\ Payload[t.new][q].kind \in {"f", "l"}
         /\ \A q \in OldFiles(t) : Above[q] \subseteq OldDirs(t) /\ Payload[t.old][q].kind \in {"f", "l"}
<1>1. /\ Brings(t) => t.new \in Pkg
      /\ Replaces(t) => t.old \in Pkg
  BY DEF Brings, Replaces, Shape
<1> QED
  BY <1>1, PathsOf DEF NewFiles, NewDirs, OldFiles, OldDirs

\* Transactions about the same have the same archives.
LEMMA SameArchives ==
  ASSUME NEW t, NEW u, SameJob(t, u)
  PROVE  /\ NewFiles(u) = NewFiles(t) /\ NewDirs(u) = NewDirs(t)
         /\ OldFiles(u) = OldFiles(t) /\ OldDirs(u) = OldDirs(t)
         /\ TargetOf(u) = TargetOf(t) /\ u.op = t.op /\ u.new = t.new /\ u.old = t.old
BY DEF SameJob, NewFiles, NewDirs, OldFiles, OldDirs, Brings, Replaces, TargetOf

\* The lists stay what they are for.
LEMMA TurnLists ==
  ASSUME NEW t \in Txn, NEW u \in Txn, Shape(t), Lists(t), NEW f, NEW g, Turn(t, u, f, g)
  PROVE  Lists(u)
<1> USE DEF Check, Working, Change, Undoing
<1>e. \A q \in Path : ~Exists(EmptyTree, q)
  BY DEF Exists, EmptyTree, Absent
<1>1. CASE Begins(t, u)
  BY <1>1 DEF Begins, Lists
<1>2. CASE Looks(t, u, f)
  BY <1>2 DEF Looks, Lists, SameLists
<1>3. CASE Enters(t, u, f)
  <2>1. SameJob(t, u) /\ u.placed = {} /\ u.created = {} /\ u.backup = EmptyTree
    BY <1>3 DEF Enters, SameLists, Lists
  <2>2. u.pc \in {"stage", "dirs"}
    BY <1>3 DEF Enters
  <2>3. u.pc = "stage" => u.todo = OldFiles(u)
    BY <1>3 DEF Enters
  <2>4. u.pc = "dirs" => u.todo = NewDirs(u)
    BY <1>3 DEF Enters
  <2>5. OldFiles(u) \subseteq Path
    BY <2>1, ItsPaths, SameArchives
  <2> QED
    BY <2>1, <2>2, <2>3, <2>4, <2>5, <1>e DEF Lists
<1>4. CASE Passes(t, u)
  <2>1. SameLists(t, u) /\ SameJob(t, u) /\ t.pc \in Change
    BY <1>4 DEF Passes, SameLists
  <2>2. /\ t.placed \subseteq NewFiles(t) /\ t.created \subseteq NewDirs(t)
        /\ \A q \in Path : Exists(t.backup, q) => q \in OldFiles(t)
        /\ t.pc \in {"stage", "dirs"} => t.placed = {}
        /\ t.pc = "files" => t.todo = NewFiles(t) \ t.placed
    BY <2>1 DEF Lists
  <2>3. /\ u.placed \subseteq NewFiles(u) /\ u.created \subseteq NewDirs(u)
        /\ \A q \in Path : Exists(u.backup, q) => q \in OldFiles(u)
        /\ t.pc \in {"stage", "dirs"} => u.placed = {}
        /\ t.pc = "files" => t.todo = NewFiles(u) \ u.placed
    BY <2>1, <2>2, SameArchives DEF SameLists
  <2> QED
    BY <1>4, <2>3 DEF Passes, Lists
<1>5. CASE Ends(t, u)
  BY <1>5 DEF Ends, NoTxn, Lists
<1>6. ASSUME NEW q \in Path, Skips(t, u, f, g, q) PROVE Lists(u)
  BY <1>6, SameArchives DEF Skips, Lists, SameLists
<1>7. ASSUME NEW q \in Path, Stages(t, u, f, g, q) PROVE Lists(u)
  <2>1. /\ SameJob(t, u) /\ u.pc = "stage" /\ u.todo = t.todo \ {q} /\ t.todo \subseteq OldFiles(t)
        /\ q \in t.todo /\ \A r \in t.todo : ~Exists(t.backup, r)
        /\ t.placed \subseteq NewFiles(t) /\ t.created \subseteq NewDirs(t) /\ t.placed = {}
        /\ u.placed = t.placed /\ u.created = t.created
        /\ \A r \in Path : Exists(t.backup, r) => r \in OldFiles(t)
    BY <1>7 DEF Stages, Lists
  <2>2. \A r \in Path \ {q} : u.backup[r] = t.backup[r]
    BY <1>7 DEF Stages, OnlyAt
  <2>3. \A r \in Path : Exists(u.backup, r) => r \in OldFiles(t)
    BY <2>1, <2>2 DEF Exists
  <2>4. \A r \in u.todo : ~Exists(u.backup, r)
    BY <2>1, <2>2, ItsPaths DEF Exists
  <2> QED
    BY <2>1, <2>3, <2>4, SameArchives DEF Lists
<1>8. ASSUME NEW q \in Path, Makes(t, u, f, g, q) PROVE Lists(u)
  BY <1>8, SameArchives DEF Makes, Lists
<1>9. ASSUME NEW q \in Path, Puts(t, u, f, g, q) PROVE Lists(u)
  BY <1>9, SameArchives DEF Puts, Lists
<1>10. ASSUME NEW q \in Path, Unputs(t, u, f, g, q) PROVE Lists(u)
  BY <1>10, SameArchives DEF Unputs, Lists
<1>11. ASSUME NEW q \in Path, Unmakes(t, u, f, g, q) PROVE Lists(u)
  BY <1>11, SameArchives DEF Unmakes, Lists
<1>12. ASSUME NEW q \in Path, Restores(t, u, f, g, q) PROVE Lists(u)
  <2>1. /\ SameJob(t, u) /\ u.pc = "undo"
        /\ t.placed \subseteq NewFiles(t) /\ t.created \subseteq NewDirs(t)
        /\ u.placed = t.placed /\ u.created = t.created
        /\ \A r \in Path : Exists(t.backup, r) => r \in OldFiles(t)
    BY <1>12 DEF Restores, Lists
  <2>2. u.backup[q] = Absent /\ \A r \in Path \ {q} : u.backup[r] = t.backup[r]
    BY <1>12 DEF Restores, OnlyAt
  <2>3. \A r \in Path : Exists(u.backup, r) => r \in OldFiles(t)
    BY <2>1, <2>2 DEF Exists, Absent
  <2> QED
    BY <2>1, <2>3, SameArchives DEF Lists
<1>13. ASSUME NEW q \in Path, Prunes(t, u, f, g, q) PROVE Lists(u)
  BY <1>13, SameArchives DEF Prunes, Lists
<1> QED
  BY <1>1, <1>2, <1>3, <1>4, <1>5, <1>6, <1>7, <1>8, <1>9, <1>10, <1>11, <1>12, <1>13 DEF Turn

\* A step changes files of its two archives, and makes and removes directories of them.
Touched(t, f, g) ==
  \A q \in Path :
    \/ g[q] = f[q]
    \/ q \in NewFiles(t) \cup OldFiles(t)
    \/ q \in NewDirs(t) \cup OldDirs(t) /\ f[q].kind \in {"none", "d"} /\ g[q].kind \in {"none", "d"}

LEMMA TurnTouches ==
  ASSUME NEW t \in Txn, NEW u \in Txn, Shape(t), Lists(t), NEW f, NEW g, Turn(t, u, f, g)
  PROVE  Touched(t, f, g)
<1> USE DEF Check, Working, Change, Undoing
<1>1. CASE g = f
  BY <1>1 DEF Touched
<1>2. ASSUME NEW q \in Path, Stages(t, u, f, g, q) PROVE Touched(t, f, g)
  BY <1>2 DEF Stages, Lists, OnlyAt, Touched
<1>3. ASSUME NEW q \in Path, Makes(t, u, f, g, q) PROVE Touched(t, f, g)
  BY <1>3 DEF Makes, Lists, OnlyAt, Touched, Exists, Dir
<1>4. ASSUME NEW q \in Path, Puts(t, u, f, g, q) PROVE Touched(t, f, g)
  <2>1. q \in NewFiles(t)
    BY <1>4 DEF Puts, Lists
  <2>2. Above[q] \subseteq NewDirs(t)
    BY <2>1, ItsPaths
  <2>3. \A r \in Path \ {q} : g[r] = f[r] \/ (r \in Above[q] /\ ~Exists(f, r) /\ g[r] = Dir)
    BY <1>4 DEF Puts, AtAndAbove
  <2> QED
    BY <2>1, <2>2, <2>3 DEF Touched, Exists, Dir
<1>5. ASSUME NEW q \in Path, Unputs(t, u, f, g, q) PROVE Touched(t, f, g)
  BY <1>5 DEF Unputs, Lists, OnlyAt, Touched
<1>6. ASSUME NEW q \in Path, Unmakes(t, u, f, g, q) PROVE Touched(t, f, g)
  BY <1>6 DEF Unmakes, Lists, OnlyAt, Touched, IsDir, Absent
<1>7. ASSUME NEW q \in Path, Restores(t, u, f, g, q) PROVE Touched(t, f, g)
  <2>1. q \in OldFiles(t)
    BY <1>7 DEF Restores, Lists
  <2>2. Above[q] \subseteq OldDirs(t)
    BY <2>1, ItsPaths
  <2>3. \/ g = f
        \/ \A r \in Path \ {q} : g[r] = f[r] \/ (r \in Above[q] /\ ~Exists(f, r) /\ g[r] = Dir)
    BY <1>7 DEF Restores, AtAndAbove
  <2> QED
    BY <2>1, <2>2, <2>3 DEF Touched, Exists, Dir
<1>8. ASSUME NEW q \in Path, Prunes(t, u, f, g, q) PROVE Touched(t, f, g)
  BY <1>8 DEF Prunes, Lists, OnlyAt, Touched, IsDir, Absent
<1>9. ASSUME NEW q \in Path, Skips(t, u, f, g, q) PROVE Touched(t, f, g)
  BY <1>1, <1>9 DEF Skips
<1> QED
  BY <1>1, <1>2, <1>3, <1>4, <1>5, <1>6, <1>7, <1>8, <1>9 DEF Turn

\* Where an upgrade changes no kinds, no path is a file here and a directory there.
LEMMA KindsApart ==
  ASSUME NEW t \in Txn, Shape(t), t.op = "upgrade" => SameKinds(t.new, t.old)
  PROVE  NewFiles(t) \cap OldDirs(t) = {} /\ NewDirs(t) \cap OldFiles(t) = {}
<1>1. CASE t.op = "upgrade"
  BY <1>1 DEF SameKinds, NewFiles, NewDirs, OldFiles, OldDirs, Files, Dirs, Entries
<1>2. CASE t.op # "upgrade"
  BY <1>2 DEF NewFiles, NewDirs, OldFiles, OldDirs, Brings, Replaces
<1> QED
  BY <1>1, <1>2

\* Nothing gets in the way of the old files.
LEMMA TurnFits ==
  ASSUME NEW t \in Txn, NEW u \in Txn, Shape(t), Lists(t), NEW f, NEW g, Turn(t, u, f, g),
         Fits(t, f), Stashed(t),
         t.pc \in Working /\ t.op = "upgrade" => SameKinds(t.new, t.old)
  PROVE  Fits(u, g) /\ Stashed(u)
<1> USE DEF Check, Working, Change, Undoing
<1>e. \A q \in Path : ~IsDir(EmptyTree, q)
  BY DEF IsDir, EmptyTree, Absent
<1>w. ASSUME t.pc \in Working, SameJob(t, u), u.pc \in Working,
             \A q \in OldDirs(t) : f[q].kind \in {"none", "d"} => g[q].kind \in {"none", "d"},
             \A q \in OldFiles(t) : ~IsDir(f, q) => ~IsDir(g, q)
      PROVE  Fits(u, g)
  BY <1>w, SameArchives DEF Fits
<1>k. t.pc \in Working =>
        NewFiles(t) \cap OldDirs(t) = {} /\ NewDirs(t) \cap OldFiles(t) = {}
  BY KindsApart
<1>1. CASE g = f /\ (Begins(t, u) \/ Looks(t, u, f) \/ Ends(t, u))
  BY <1>1 DEF Begins, Looks, Ends, NoTxn, Fits, Stashed
<1>2. CASE g = f /\ Enters(t, u, f)
  BY <1>2, <1>e DEF Enters, Stashed, Lists, SameLists
<1>3. CASE g = f /\ Passes(t, u)
  <2>1. t.pc \in Working /\ u.pc \in Working /\ SameJob(t, u) /\ u.backup = t.backup
    BY <1>3 DEF Passes, SameLists
  <2> QED
    BY <1>3, <1>w, <2>1 DEF Stashed
<1>4. ASSUME NEW q \in Path, Skips(t, u, f, g, q) PROVE Fits(u, g) /\ Stashed(u)
  BY <1>4, <1>w DEF Skips, SameLists, Stashed
<1>5. ASSUME NEW q \in Path, Stages(t, u, f, g, q) PROVE Fits(u, g) /\ Stashed(u)
  <2>1. t.pc \in Working /\ u.pc \in Working /\ SameJob(t, u) /\ q \in OldFiles(t)
    BY <1>5 DEF Stages, Lists
  <2>2. g[q] = Absent /\ \A r \in Path \ {q} : g[r] = f[r]
    BY <1>5 DEF Stages, OnlyAt
  <2>3. u.backup[q] = f[q] /\ \A r \in Path \ {q} : u.backup[r] = t.backup[r]
    BY <1>5 DEF Stages, OnlyAt
  <2>4. ~IsDir(f, q)
    BY <2>1 DEF Fits
  <2>5. Stashed(u)
    BY <2>1, <2>3, <2>4 DEF Stashed, IsDir
  <2>6. Fits(u, g)
    BY <1>w, <2>1, <2>2, ItsPaths DEF IsDir, Absent
  <2> QED
    BY <2>5, <2>6
<1>6. ASSUME NEW q \in Path, Makes(t, u, f, g, q) PROVE Fits(u, g) /\ Stashed(u)
  <2>1. t.pc \in Working /\ u.pc \in Working /\ SameJob(t, u) /\ q \in NewDirs(t)
        /\ u.backup = t.backup
    BY <1>6 DEF Makes, Lists
  <2>2. g[q] = Dir /\ \A r \in Path \ {q} : g[r] = f[r]
    BY <1>6 DEF Makes, OnlyAt
  <2>3. Fits(u, g)
    BY <1>w, <1>k, <2>1, <2>2, ItsPaths DEF IsDir, Dir
  <2> QED
    BY <2>1, <2>3 DEF Stashed
<1>7. ASSUME NEW q \in Path, Puts(t, u, f, g, q) PROVE Fits(u, g) /\ Stashed(u)
  <2>1. t.pc \in Working /\ u.pc \in Working /\ SameJob(t, u) /\ q \in NewFiles(t)
        /\ u.backup = t.backup
    BY <1>7 DEF Puts, Lists
  <2>2. /\ g[q] = Payload[t.new][q]
        /\ \A r \in Path \ {q} : g[r] = f[r] \/ (r \in Above[q] /\ ~Exists(f, r) /\ g[r] = Dir)
    BY <1>7 DEF Puts, AtAndAbove
  <2>3. Above[q] \subseteq NewDirs(t) /\ g[q].kind \in {"f", "l"}
    BY <2>1, <2>2, ItsPaths
  <2>4. \A r \in OldDirs(t) : f[r].kind \in {"none", "d"} => g[r].kind \in {"none", "d"}
    BY <1>k, <2>1, <2>2, ItsPaths DEF Dir
  <2>5. \A r \in OldFiles(t) : ~IsDir(f, r) => ~IsDir(g, r)
    BY <1>k, <2>1, <2>2, <2>3, ItsPaths DEF IsDir
  <2> QED
    BY <1>w, <2>1, <2>4, <2>5 DEF Stashed
<1>8. ASSUME NEW q \in Path, Unputs(t, u, f, g, q) \/ Unmakes(t, u, f, g, q)
      PROVE  Fits(u, g) /\ Stashed(u)
  <2>1. t.pc \in Working /\ u.pc \in Working /\ SameJob(t, u) /\ u.backup = t.backup
    BY <1>8 DEF Unputs, Unmakes
  <2>2. g = f \/ (g[q] = Absent /\ \A r \in Path \ {q} : g[r] = f[r])
    BY <1>8 DEF Unputs, Unmakes, OnlyAt
  <2>3. Fits(u, g)
    BY <1>w, <2>1, <2>2, ItsPaths DEF IsDir, Absent
  <2> QED
    BY <2>1, <2>3 DEF Stashed
<1>9. ASSUME NEW q \in Path, Restores(t, u, f, g, q) PROVE Fits(u, g) /\ Stashed(u)
  <2>1. t.pc \in Working /\ u.pc \in Working /\ SameJob(t, u) /\ q \in OldFiles(t)
    BY <1>9 DEF Restores, Lists
  <2>2. u.backup[q] = Absent /\ \A r \in Path \ {q} : u.backup[r] = t.backup[r]
    BY <1>9 DEF Restores, OnlyAt
  <2>3. Stashed(u)
    BY <2>1, <2>2 DEF Stashed, IsDir, Absent
  <2>4. CASE g = f
    BY <1>w, <2>1, <2>3, <2>4
  <2>5. CASE g[q] = t.backup[q] /\ AtAndAbove(q, f, g)
    <3>1. Above[q] \subseteq OldDirs(t)
      BY <2>1, ItsPaths
    <3>2. ~IsDir(g, q)
      BY <2>1, <2>5 DEF Stashed, IsDir
    <3>3. \A r \in Path \ {q} : g[r] = f[r] \/ (r \in Above[q] /\ g[r] = Dir)
      BY <2>5 DEF AtAndAbove
    <3>4. \A r \in OldDirs(t) : f[r].kind \in {"none", "d"} => g[r].kind \in {"none", "d"}
      BY <2>1, <3>3, ItsPaths DEF Dir
    <3>5. \A r \in OldFiles(t) : ~IsDir(f, r) => ~IsDir(g, r)
      BY <3>1, <3>2, <3>3, ItsPaths DEF IsDir
    <3> QED
      BY <1>w, <2>1, <2>3, <3>4, <3>5
  <2> QED
    BY <1>9, <2>4, <2>5 DEF Restores
<1>10. ASSUME NEW q \in Path, Prunes(t, u, f, g, q) PROVE Fits(u, g) /\ Stashed(u)
  BY <1>10 DEF Prunes, Fits, Stashed
<1> QED
  BY <1>1, <1>2, <1>3, <1>4, <1>5, <1>6, <1>7, <1>8, <1>9, <1>10 DEF Turn

\* What a step of p leaves alone of an archive of another process: all of its files; of
\* its directories that they are directories, or nothing.
LEMMA Foreign ==
  ASSUME Apart, NEW p \in Proc, NEW r \in Proc \ {p}, NEW t \in Txn, Shape(t), Aims(p, t),
         NEW f, NEW g, Touched(t, f, g), NEW a \in Pkg, NameOf[a] \in Mine[r]
  PROVE  /\ \A q \in Files(a) : g[q] = f[q]
         /\ \A q \in Dirs(a) : f[q].kind \in {"none", "d"} => g[q].kind \in {"none", "d"}
<1> DEFINE Apart2(b) == Files(a) \cap Entries(b) = {} /\ Files(b) \cap Entries(a) = {}
<1>1. ASSUME NEW b \in Pkg, NameOf[b] \in Mine[p] PROVE Apart2(b)
  BY <1>1 DEF Apart
<1>2. Brings(t) => t.new \in Pkg /\ Apart2(t.new)
  BY <1>1, ItsArchives
<1>3. Replaces(t) => t.old \in Pkg /\ Apart2(t.old)
  BY <1>1, ItsArchives
<1>4. \A b : Files(b) \subseteq Entries(b) /\ Dirs(b) \subseteq Entries(b)
  BY DEF Files, Dirs, Entries
<1> HIDE DEF Apart2
<1>5. \A q \in Files(a) : /\ q \notin NewFiles(t) \cup OldFiles(t)
                          /\ q \notin NewDirs(t) \cup OldDirs(t)
  BY <1>2, <1>3, <1>4 DEF Apart2, NewFiles, OldFiles, NewDirs, OldDirs
<1>6. \A q \in Dirs(a) : q \notin NewFiles(t) \cup OldFiles(t)
  BY <1>2, <1>3, <1>4 DEF Apart2, NewFiles, OldFiles
<1>7. \A q \in Files(a) \cup Dirs(a) : q \in Path
  BY PathsOf
<1> QED
  BY <1>5, <1>6, <1>7 DEF Touched

\* So another transaction finds its old and its new files unchanged.
LEMMA Bystander ==
  ASSUME Apart, NEW p \in Proc, NEW r \in Proc \ {p}, NEW t \in Txn, Shape(t), Aims(p, t),
         NEW w \in Txn, Shape(w), Aims(r, w), NEW f, NEW g, Touched(t, f, g)
  PROVE  /\ \A q \in OldFiles(w) \cup NewFiles(w) : g[q] = f[q]
         /\ \A q \in OldDirs(w) : f[q].kind \in {"none", "d"} => g[q].kind \in {"none", "d"}
<1>1. /\ Brings(w) => w.new \in Pkg /\ NameOf[w.new] \in Mine[r]
      /\ Replaces(w) => w.old \in Pkg /\ NameOf[w.old] \in Mine[r]
  BY ItsArchives
<1> QED
  BY <1>1, Foreign DEF OldFiles, NewFiles, OldDirs

\* What holds of every process.
LEMMA FileTypes ==
  ASSUME FileInv, NEW p \in Proc
  PROVE  /\ TypeInv /\ txn[p] \in Txn /\ Shape(txn[p]) /\ Aims(p, txn[p])
         /\ fs \in Tree /\ db \in Records
         /\ Lists(txn[p]) /\ Cleared(txn[p], db) /\ Fits(txn[p], fs) /\ Stashed(txn[p])
BY DEF FileInv, OwnerInv, TypeInv, TypeOK, Good

\* The record a step changes, if any.
LEMMA RecordChanges ==
  ASSUME FileInv, OwnerInv', NEW p \in Proc, Steps(p)
  PROVE  /\ \A n \in Name : n # TargetOf(txn[p]) => db'[n] = db[n]
         /\ Installed(db') # Installed(db) \/ db' # db => TargetOf(txn[p]) \in Mine[p]
         /\ db' # db => /\ txn'[p].pc \in {"idle", "prune"} /\ txn[p].pc \in Working
                        /\ \/ txn[p].pc = "register" /\ db'[TargetOf(txn[p])] = txn[p].new
                              /\ txn[p].new \in Pkg /\ NameOf[txn[p].new] = TargetOf(txn[p])
                              /\ Brings(txn[p])
                           \/ txn[p].pc = "unregister" /\ db'[TargetOf(txn[p])] = NoPkg
<1>1. CASE UNCHANGED db
  BY <1>1
<1>2. CASE Commits(txn[p], txn'[p], db, db')
  <2>1. txn[p].pc \in {"register", "unregister"} /\ txn'[p].pc \in {"idle", "prune"}
    BY <1>2 DEF Commits, NoTxn
  <2>2. TargetOf(txn[p]) \in Mine[p] /\ TargetOf(txn[p]) \in Name
    BY <2>1, FileTypes, ItsArchives, EnvironmentAssumption
  <2>3. CASE txn[p].pc = "register"
    <3>1. Brings(txn[p]) /\ txn[p].new \in Pkg /\ NameOf[txn[p].new] = TargetOf(txn[p])
      BY <2>3, FileTypes, ItsArchives DEF Shape, Brings
    <3>2. db' = [db EXCEPT ![TargetOf(txn[p])] = txn[p].new]
      BY <1>2, <2>3, <3>1 DEF Commits, Registered
    <3> QED
      BY <2>1, <2>2, <2>3, <3>1, <3>2, FileTypes DEF Records, Working, Change
  <2>4. CASE txn[p].pc = "unregister"
    <3>1. db' = [db EXCEPT ![TargetOf(txn[p])] = NoPkg]
      BY <1>2, <2>4 DEF Commits, Unregistered
    <3> QED
      BY <2>1, <2>2, <2>4, <3>1, FileTypes DEF Records, Working, Change
  <2> QED
    BY <2>1, <2>3, <2>4
<1> QED
  BY <1>1, <1>2 DEF Steps

\* What a step does to the tree, whether it commits or not.
LEMMA StepTouches ==
  ASSUME FileInv, NEW p \in Proc, Steps(p), TypeInv'
  PROVE  Touched(txn[p], fs, fs')
<1>1. txn'[p] \in Txn
  BY DEF TypeInv, TypeOK
<1>2. CASE UNCHANGED fs
  BY <1>2 DEF Touched
<1>3. CASE Turn(txn[p], txn'[p], fs, fs')
  BY <1>1, <1>3, FileTypes, TurnTouches
<1> QED
  BY <1>2, <1>3 DEF Steps

LEMMA FileOwn ==
  ASSUME FileInv, OwnerInv', NEW p \in Proc, Steps(p)
  PROVE  Lists(txn'[p]) /\ Cleared(txn'[p], db') /\ Fits(txn'[p], fs') /\ Stashed(txn'[p])
<1> DEFINE t == txn[p]
           u == txn'[p]
<1>t. /\ t \in Txn /\ Shape(t) /\ Aims(p, t) /\ db \in Records
      /\ Lists(t) /\ Cleared(t, db) /\ Fits(t, fs) /\ Stashed(t)
  BY FileTypes
<1>u. u \in Txn /\ Good(p, db', u) /\ Shape(u)
  BY DEF OwnerInv, TypeInv, TypeOK
<1> SUFFICES Lists(u) /\ Cleared(u, db') /\ Fits(u, fs') /\ Stashed(u)
  OBVIOUS
<1> HIDE DEF t, u
<1>1. CASE u.pc \in {"idle", "prune"} /\ (u.pc = "prune" => u.todo \subseteq OldDirs(u))
  BY <1>1 DEF Lists, Cleared, Fits, Stashed, Check, Working, Change, Undoing
<1>2. CASE Commits(t, u, db, db') \/ Killed(t, u, attic, attic')
  BY <1>1, <1>2 DEF Commits, Killed, NoTxn
<1>3. CASE UNCHANGED db /\ Turn(t, u, fs, fs')
  <2>1. t.pc \in Working /\ t.op = "upgrade" => SameKinds(t.new, t.old)
    BY <1>t DEF Cleared
  <2>2. Lists(u) /\ Fits(u, fs') /\ Stashed(u)
    BY <1>t, <1>u, <1>3, <2>1, TurnLists, TurnFits
  <2>3. CASE Enters(t, u, fs)
    <3>1. u.pc \in {"stage", "dirs"} /\ (u.op = "upgrade" => SameKinds(u.new, u.old))
      BY <2>3 DEF Enters
    <3>2. db[TargetOf(u)] = u.old
      BY <1>u, <1>3, <3>1 DEF Good, Fresh, Pending, Change
    <3>3. \A n \in Installed(db) \ {TargetOf(u)} : Files(db[n]) \cap NewFiles(u) = {}
      BY <1>u, <1>3, <3>1 DEF Good, Claimed, Claiming, NewFiles, Brings, TargetOf
    <3> QED
      BY <1>3, <2>2, <3>1, <3>2, <3>3 DEF Cleared
  <2>4. CASE SameJob(t, u) /\ t.pc \in Working
    <3>1. Cleared(u, db)
      BY <1>t, <2>4, SameArchives DEF Cleared
    <3> QED
      BY <1>3, <2>2, <3>1
  <2>5. CASE u.pc \notin Working
    BY <2>2, <2>5 DEF Cleared
  <2>6. \/ Enters(t, u, fs) \/ u.pc \notin Working
        \/ SameJob(t, u) /\ t.pc \in Working
    BY <1>3 DEF Turn, Begins, Looks, Passes, Ends, Skips, Stages, Makes, Puts, Unputs,
                Unmakes, Restores, Prunes, SameLists, Working, Change, Undoing, Check, NoTxn
  <2> QED
    BY <2>3, <2>4, <2>5, <2>6
<1> QED
  BY <1>2, <1>3 DEF Steps, t, u

LEMMA FileOther ==
  ASSUME Apart, FileInv, OwnerInv', NEW p \in Proc, NEW r \in Proc \ {p}, Steps(p)
  PROVE  Cleared(txn[r], db') /\ Fits(txn[r], fs')
<1> DEFINE t == txn[p]
           w == txn[r]
<1>t. t \in Txn /\ Shape(t) /\ Aims(p, t) /\ w \in Txn /\ Shape(w) /\ Aims(r, w)
  BY FileTypes
<1>w. Cleared(w, db) /\ Fits(w, fs) /\ db \in Records
  BY FileTypes
<1>1. Touched(t, fs, fs')
  BY StepTouches DEF OwnerInv
<1>2. Fits(w, fs')
  BY <1>t, <1>w, <1>1, Bystander DEF Fits, IsDir
<1>3. Cleared(w, db')
  <2> SUFFICES ASSUME w.pc \in Working PROVE Cleared(w, db')
    BY DEF Cleared
  <2>1. TargetOf(w) \in Mine[r] /\ TargetOf(w) \in Name
    BY <1>t, ItsArchives, EnvironmentAssumption DEF Working, Change, Undoing
  <2>2. CASE UNCHANGED db
    BY <1>w, <2>2
  <2>3. CASE db' # db
    <3>1. TargetOf(t) \in Mine[p] /\ TargetOf(t) # TargetOf(w)
      BY <2>1, <2>3, RecordChanges DEF Apart
    <3>2. db'[TargetOf(w)] = w.old
      BY <1>w, <2>1, <3>1, RecordChanges DEF Cleared
    <3>3. ASSUME NEW n \in Installed(db') \ {TargetOf(w)}
          PROVE  Files(db'[n]) \cap NewFiles(w) = {}
      <4>1. CASE n # TargetOf(t)
        <5>1. n \in Name /\ db'[n] = db[n] /\ n \in Installed(db)
          BY <3>3, <4>1, RecordChanges DEF Installed
        <5> QED
          BY <1>w, <3>3, <5>1 DEF Cleared
      <4>2. CASE n = TargetOf(t)
        <5>1. db'[n] = t.new /\ t.new \in Pkg /\ NameOf[t.new] \in Mine[p]
          BY <2>3, <3>1, <3>3, <4>2, RecordChanges DEF Installed
        <5>2. CASE Brings(w)
          <6>1. w.new \in Pkg /\ NameOf[w.new] \in Mine[r] /\ NewFiles(w) = Files(w.new)
            BY <1>t, <5>2, ItsArchives DEF NewFiles
          <6> QED
            BY <5>1, <6>1 DEF Apart, Files, Entries
        <5>3. CASE ~Brings(w)
          BY <5>3 DEF NewFiles
        <5> QED
          BY <5>2, <5>3
      <4> QED
        BY <4>1, <4>2
    <3> QED
      BY <1>w, <3>2, <3>3 DEF Cleared
  <2> QED
    BY <2>2, <2>3
<1> QED
  BY <1>2, <1>3

LEMMA FileInit == Init => FileInv
<1> SUFFICES ASSUME Init PROVE FileInv
  OBVIOUS
<1>1. \A p \in Proc : txn[p].pc = "idle"
  BY DEF Init, NoTxn
<1>2. Housed
  BY DEF Init, Housed, Installed
<1> QED
  BY <1>1, <1>2, OwnerInit
  DEF FileInv, Lists, Cleared, Fits, Stashed, Check, Working, Change, Undoing

\* What a step does to the history of the links taken for missing.
LEMMA NoteSteps ==
  ASSUME FileInv, AllTracked, NEW p \in Proc, Command(p) \/ Work(p) \/ Environment(p)
  PROVE  Notes(p)
<1>t. /\ TypeInv /\ txn \in [Proc -> Txn] /\ txn[p] \in Txn /\ Lists(txn[p]) /\ fs \in Tree
      /\ Shape(txn[p])
  BY FileTypes DEF TypeInv, TypeOK
<1>n. ASSUME missed' = missed, ~(txn[p].pc = "stage" /\ txn'[p].pc = "stage") PROVE Notes(p)
  BY <1>n DEF Notes
<1>e. End(p) => txn'[p].pc = "idle"
  BY <1>t DEF End, NoTxn
<1>g. ASSUME NEW stage, NEW paths, Enter(p, stage, paths) PROVE txn'[p].pc = stage
  BY <1>g, <1>t, EnterSteps
<1>1. CASE Command(p)
  BY <1>1, <1>n DEF Command, InstallBegin, UpgradeBegin, RemoveBegin, Idle
<1>2. CASE CheckDependencies(p) \/ ValidateOld(p) \/ Preflight(p)
  BY <1>2, <1>n DEF CheckDependencies, ValidateOld, Preflight
<1>3. CASE OldStaged(p) \/ DirsPlaced(p) \/ FilesPlaced(p)
  BY <1>3, <1>n, <1>g DEF OldStaged, DirsPlaced, FilesPlaced
<1>4. CASE Register(p) \/ Unregister(p) \/ Pruned(p) \/ Undone(p)
  BY <1>4, <1>n DEF Register, Unregister, Pruned, Undone
<1>5. ASSUME NEW q \in Path, PlaceDir(p, q) \/ Prune(p, q) \/ UndoDir(p, q) PROVE Notes(p)
  BY <1>5, <1>n DEF PlaceDir, Prune, UndoDir
<1>6. CASE Fault(p) \/ Crash(p)
  BY <1>6, <1>n, <1>e, <1>g DEF Fault, Crash, Undo
<1>7. ASSUME NEW q \in Path, PlaceUntracked(p, q) PROVE FALSE
  BY <1>7, <1>t DEF PlaceUntracked, Spend, AllTracked, TypeInv, TypeOK, Event
<1>8. ASSUME NEW q \in Path, StageOld(p, q) PROVE Notes(p)
  <2>1. CASE txn' = [txn EXCEPT ![p].todo = @ \ {q}] /\ UNCHANGED fs
    <3>1. missed' = IF Exists(fs, q) THEN missed \cup {q} ELSE missed
      <4>1. txn'[p].backup = txn[p].backup /\ txn'[p].pc = "stage"
        BY <1>8, <1>t, <2>1, TodoSteps DEF StageOld, SameLists
      <4>2. ~Undo(p)
        BY <1>g, <4>1 DEF Undo
      <4>3. ASSUME fs' = Without(fs, q) PROVE ~Exists(fs, q)
        <5>1. Without(fs, q)[q] = Absent
          BY <1>t, TreeChanges
        <5>2. fs[q] = Absent
          BY <2>1, <4>3, <5>1
        <5> QED
          BY <5>2 DEF Exists, Absent
      <4> QED
        BY <1>8, <4>2, <4>3 DEF StageOld, Found, Exists
    <3>2. txn[p].todo \ txn'[p].todo \subseteq {q}
      BY <1>t, <2>1, TodoSteps
    <3> QED
      BY <2>1, <3>1, <3>2 DEF Notes, Exists
  <2>2. CASE Undo(p) /\ UNCHANGED <<fs, missed>>
    BY <1>g, <1>n, <2>2 DEF Undo
  <2>3. CASE /\ fs' = Without(fs, q) /\ missed' = missed \ {q}
             /\ txn' = [txn EXCEPT ![p].todo = @ \ {q}, ![p].backup[q] = fs[q]]
    <3>1. fs'[q] = Absent
      BY <1>t, <2>3, TreeChanges
    <3>2. txn'[p].todo = txn[p].todo \ {q}
      BY <1>t, <2>3 DEF Txn
    <3>3. missed' = missed \ {q} /\ fs'[q].kind # "l"
      BY <2>3, <3>1 DEF Absent
    <3> QED
      BY <3>2, <3>3 DEF Notes
  <2> QED
    BY <1>8, <2>1, <2>2, <2>3 DEF StageOld
<1>9. ASSUME NEW q \in Path, PlaceFile(p, q) PROVE Notes(p)
  <2>1. CASE UNCHANGED missed
    BY <1>9, <1>n, <2>1 DEF PlaceFile
  <2>2. CASE missed' = missed \ {q} /\ missed' # missed
    <3>1. txn' = [txn EXCEPT ![p].todo = @ \ {q}, ![p].placed = @ \cup {q}]
      BY <1>9, <2>2 DEF PlaceFile
    <3>2. q \in txn'[p].placed /\ txn'[p].pc = "files"
      BY <1>9, <1>t, <3>1 DEF PlaceFile, Txn
    <3>3. q \in NewFiles(txn[p])
      BY <1>9, <1>t DEF PlaceFile, Lists
    <3> QED
      BY <1>9, <2>2, <3>2, <3>3 DEF PlaceFile, Notes, Working, Change
  <2> QED
    BY <1>9, <2>1, <2>2 DEF PlaceFile
<1>10. ASSUME NEW q \in Path, UndoFile(p, q) PROVE Notes(p)
  <2>1. fs'[q].kind # "l"
    BY <1>10, <1>t, ClearChanges, TreeChanges DEF UndoFile, IsDir, Absent
  <2> QED
    BY <1>10, <2>1 DEF UndoFile, Notes
<1>11. ASSUME NEW q \in Path, UndoBackup(p, q) PROVE Notes(p)
  <2>1. txn'[p].pc = "undo"
    BY <1>11, <1>t DEF UndoBackup, Txn
  <2>2. q \in OldFiles(txn[p])
    BY <1>11, <1>t DEF UndoBackup, BackedUp, Lists, Working, Undoing
  <2> QED
    BY <1>11, <2>1, <2>2 DEF UndoBackup, Notes
<1> QED
  BY <1>1, <1>2, <1>3, <1>4, <1>5, <1>6, <1>7, <1>8, <1>9, <1>10, <1>11
  DEF Work, Environment

\* A step of any process, as the transactions see it; or the administrator's, or none.
LEMMA WhoSteps ==
  ASSUME Apart, FileInv, [Next]_vars
  PROVE  /\ OwnerInv'
         /\ \/ \E p \in Proc : /\ Steps(p) /\ (AllTracked => Notes(p))
                               /\ \A r \in Proc \ {p} : txn'[r] = txn[r]
            \/ UNCHANGED <<db, txn, attic>> /\ \E q \in Path : Edit(q)
            \/ UNCHANGED vars
<1>1. Independent
  BY DEF Apart, Independent, Files, Entries
<1>2. OwnerInv'
  BY <1>1, OwnerStep DEF FileInv
<1>3. ASSUME NEW p \in Proc, Command(p) \/ Work(p) \/ Environment(p)
      PROVE  /\ Steps(p) /\ (AllTracked => Notes(p))
             /\ \A r \in Proc \ {p} : txn'[r] = txn[r]
  BY <1>3, FileTypes, ProcessSteps, NoteSteps
<1>4. ASSUME NEW q \in Path, Edit(q) PROVE UNCHANGED <<db, txn, attic>>
  BY <1>4 DEF Edit
<1> QED
  BY <1>2, <1>3, <1>4 DEF Next

\* What the checks have established holds until the command ends.
LEMMA FileStep ==
  ASSUME Apart
  PROVE  FileInv /\ [Next]_vars => FileInv'
<1> SUFFICES ASSUME FileInv, [Next]_vars PROVE FileInv'
  OBVIOUS
<1>o. OwnerInv'
  BY WhoSteps
<1>1. ASSUME NEW p \in Proc, Steps(p), \A r \in Proc \ {p} : txn'[r] = txn[r]
      PROVE  FileInv'
  <2>1. ASSUME NEW r \in Proc
        PROVE  /\ Lists(txn'[r]) /\ Cleared(txn'[r], db') /\ Fits(txn'[r], fs')
               /\ Stashed(txn'[r])
    <3>1. CASE r = p
      BY <1>o, <1>1, <3>1, FileOwn
    <3>2. CASE r # p
      BY <1>o, <1>1, <3>2, FileOther, FileTypes
    <3> QED
      BY <3>1, <3>2
  <2>2. Housed'
    <3> SUFFICES ASSUME NEW n \in Installed(db') PROVE \E r \in Proc : n \in Mine[r]
      BY DEF Housed
    <3>1. CASE n \in Installed(db)
      BY <3>1 DEF FileInv, Housed
    <3>2. CASE n \notin Installed(db)
      <4>1. n \in Name /\ db'[n] # db[n]
        BY <3>2 DEF Installed
      <4> QED
        BY <1>o, <1>1, <4>1, RecordChanges
    <3> QED
      BY <3>1, <3>2
  <2> QED
    BY <1>o, <2>1, <2>2 DEF FileInv
<1>2. CASE UNCHANGED <<db, txn>> /\ (\E q \in Path : Edit(q))
  <2>1. \A p \in Proc : txn'[p].pc = "idle"
    BY <1>2 DEF Edit, Idle
  <2> QED
    BY <1>o, <1>2, <2>1
    DEF FileInv, Housed, Lists, Cleared, Fits, Stashed, Check, Working, Change, Undoing
<1>3. CASE UNCHANGED vars
  BY <1>o, <1>3 DEF vars, FileInv, Housed
<1> QED
  BY <1>1, <1>2, <1>3, WhoSteps

-----------------------------------------------------------------------------
\* No file of an installed package is lost

\* A transaction at work keeps every old file in its place or in its staging directory.
LEMMA TurnHolds ==
  ASSUME NEW t \in Txn, NEW u \in Txn, Shape(t), Lists(t), NEW f, NEW g, Turn(t, u, f, g),
         Fits(t, f), NEW X, Held(t, f, X),
         t.pc \in Working /\ t.op = "upgrade" => SameKinds(t.new, t.old),
         t.pc \in Check =>
           \A q \in OldFiles(t) : f[q] = Payload[t.old][q] \/ <<q, Payload[t.old][q]>> \in X
  PROVE  Held(u, g, X)
<1> USE DEF Check, Working, Change, Undoing
<1> DEFINE Shipped(q) == Payload[t.old][q]
           Safe(v, h, q) ==
             \/ <<q, Shipped(q)>> \in X
             \/ v.backup[q] = Shipped(q)
             \/ /\ h[q] = Shipped(q) /\ q \notin v.placed /\ ~Exists(v.backup, q)
                /\ v.op = "upgrade" => v.pc = "undo" \/ (v.pc = "stage" /\ q \in v.todo)
           InPlace(v, h) == \A q \in v.placed : h[q] = Payload[t.new][q]
<1>s. ASSUME SameJob(t, u), \A q \in OldFiles(t) : Safe(u, g, q), InPlace(u, g)
      PROVE  Held(u, g, X)
  BY <1>s, SameArchives DEF Held
<1>t. ASSUME t.pc \in Working
      PROVE  /\ \A q \in OldFiles(t) : Safe(t, f, q)
             /\ InPlace(t, f)
             /\ t.placed \subseteq NewFiles(t)
  BY <1>t DEF Held, Lists
<1>n. /\ OldFiles(t) \subseteq Path /\ NewFiles(t) \subseteq Path
      /\ \A q \in OldFiles(t) : Shipped(q).kind \in {"f", "l"} /\ Above[q] \subseteq OldDirs(t)
      /\ \A q \in NewFiles(t) : Payload[t.new][q].kind \in {"f", "l"} /\ Above[q] \subseteq NewDirs(t)
      /\ OldFiles(t) \cap OldDirs(t) = {} /\ NewFiles(t) \cap NewDirs(t) = {}
  BY ItsPaths
<1>k. t.pc \in Working =>
        NewFiles(t) \cap OldDirs(t) = {} /\ NewDirs(t) \cap OldFiles(t) = {}
  BY KindsApart
<1>1. CASE u.pc \notin Working
  BY <1>1 DEF Held
<1>2. CASE g = f /\ Enters(t, u, f)
  <2>1. SameJob(t, u) /\ u.placed = {} /\ u.backup = EmptyTree /\ u.pc \in {"stage", "dirs"}
    BY <1>2 DEF Enters, SameLists, Lists
  <2>2. \A q \in Path : ~Exists(u.backup, q)
    BY <2>1 DEF EmptyTree, Exists, Absent
  <2>3. ASSUME NEW q \in OldFiles(t) PROVE Safe(u, g, q)
    <3>1. u.pc = "stage" /\ u.todo = OldFiles(u)
      BY <1>2, <2>1, <2>3 DEF Enters, OldFiles, Replaces, SameJob
    <3>2. q \in u.todo
      BY <2>1, <3>1, SameArchives
    <3> QED
      BY <1>2, <1>n, <2>1, <2>2, <3>1, <3>2 DEF Enters
  <2> QED
    BY <1>s, <2>1, <2>3
<1>3. CASE g = f /\ Passes(t, u)
  <2>1. SameJob(t, u) /\ u.placed = t.placed /\ u.backup = t.backup /\ t.pc \in Change
    BY <1>3 DEF Passes, SameLists
  <2>2. ASSUME NEW q \in OldFiles(t) PROVE Safe(u, g, q)
    <3>1. Safe(t, f, q)
      BY <1>t, <2>1
    <3>2. u.op = "upgrade" => u.pc = "undo" \/ t.todo = {} \/ t.pc # "stage"
      BY <1>3 DEF Passes
    <3>3. u.op = t.op /\ t.pc # "undo"
      BY <2>1 DEF SameJob
    <3> QED
      BY <1>3, <2>1, <3>1, <3>2, <3>3
  <2> QED
    BY <1>s, <1>t, <1>3, <2>1, <2>2
<1>4. ASSUME NEW q \in Path, Skips(t, u, f, g, q) PROVE Held(u, g, X)
  <2>1. /\ SameJob(t, u) /\ u.placed = t.placed /\ u.backup = t.backup /\ t.pc \in Working
        /\ u.pc = t.pc /\ g = f /\ u.todo = t.todo \ {q} /\ u.op = t.op
        /\ t.pc = "stage" /\ t.op = "upgrade" => f[q].kind = "none"
    BY <1>4 DEF Skips, SameLists, SameJob, Exists
  <2>2. ASSUME NEW r \in OldFiles(t) PROVE Safe(u, g, r)
    <3>1. Safe(t, f, r) /\ Shipped(r).kind # "none"
      BY <1>t, <1>n, <2>1
    <3> QED
      BY <2>1, <3>1
  <2> QED
    BY <1>s, <1>t, <2>1, <2>2
<1>5. ASSUME NEW q \in Path, Stages(t, u, f, g, q) PROVE Held(u, g, X)
  <2>1. /\ SameJob(t, u) /\ u.placed = {} /\ t.placed = {} /\ t.pc = "stage" /\ u.pc = "stage"
        /\ u.todo = t.todo \ {q} /\ u.op = t.op /\ q \in OldFiles(t) /\ q \in t.todo
        /\ ~Exists(t.backup, q)
    BY <1>5 DEF Stages, Lists, SameJob
  <2>2. u.backup[q] = f[q] /\ \A r \in Path \ {q} : u.backup[r] = t.backup[r] /\ g[r] = f[r]
    BY <1>5 DEF Stages, OnlyAt
  <2>3. ASSUME NEW r \in OldFiles(t) PROVE Safe(u, g, r)
    <3>1. Safe(t, f, r) /\ Shipped(r).kind # "none" /\ r \in Path
      BY <1>t, <1>n, <2>1
    <3> QED
      BY <2>1, <2>2, <3>1 DEF Exists
  <2> QED
    BY <1>s, <2>1, <2>3
<1>6. ASSUME NEW q \in Path, Makes(t, u, f, g, q) PROVE Held(u, g, X)
  <2>1. /\ SameJob(t, u) /\ u.placed = {} /\ t.placed = {} /\ t.pc = "dirs"
        /\ u.pc \in {"dirs", "undo"} /\ u.op = t.op /\ u.backup = t.backup
        /\ q \in NewDirs(t)
    BY <1>6 DEF Makes, Lists, SameJob
  <2>2. \A r \in Path \ {q} : g[r] = f[r]
    BY <1>6 DEF Makes, OnlyAt
  <2>3. ASSUME NEW r \in OldFiles(t) PROVE Safe(u, g, r)
    <3>1. Safe(t, f, r) /\ r \in Path /\ r # q
      BY <1>t, <1>n, <1>k, <2>1
    <3> QED
      BY <2>1, <2>2, <3>1
  <2> QED
    BY <1>s, <2>1, <2>3
<1>7. ASSUME NEW q \in Path, Puts(t, u, f, g, q) PROVE Held(u, g, X)
  <2>1. /\ SameJob(t, u) /\ t.pc = "files" /\ u.pc \in {"files", "undo"} /\ u.op = t.op
        /\ u.backup = t.backup /\ q \in NewFiles(t) /\ q \notin t.placed
        /\ u.placed \subseteq t.placed \cup {q} /\ t.placed \subseteq NewFiles(t)
    BY <1>7 DEF Puts, Lists, SameJob
  <2>2. /\ g[q] = Payload[t.new][q]
        /\ \A r \in Path \ {q} : g[r] = f[r] \/ r \in NewDirs(t)
    BY <1>7, <1>n, <2>1 DEF Puts, AtAndAbove
  <2>3. ASSUME NEW r \in OldFiles(t) PROVE Safe(u, g, r)
    <3>1. Safe(t, f, r) /\ r \in Path
      BY <1>t, <1>n, <2>1
    <3>2. t.op = "upgrade"
      <4>1. t.op \in {"remove", "upgrade"} /\ t.op # "remove"
        BY <2>1, <2>3 DEF OldFiles, Replaces, Shape
      <4> QED
        BY <4>1
    <3> QED
      BY <2>1, <3>1, <3>2
  <2>4. InPlace(u, g)
    BY <1>t, <1>n, <2>1, <2>2
  <2> QED
    BY <1>s, <2>1, <2>3, <2>4
<1>8. ASSUME NEW q \in Path, Unputs(t, u, f, g, q) PROVE Held(u, g, X)
  <2>1. /\ SameJob(t, u) /\ t.pc = "undo" /\ u.pc = "undo" /\ u.backup = t.backup
        /\ q \in t.placed /\ u.placed = t.placed \ {q} /\ t.placed \subseteq NewFiles(t)
        /\ u.op = t.op
    BY <1>8 DEF Unputs, Lists, SameJob
  <2>2. \A r \in Path \ {q} : g[r] = f[r]
    BY <1>8 DEF Unputs, OnlyAt
  <2>3. ASSUME NEW r \in OldFiles(t) PROVE Safe(u, g, r)
    <3>1. Safe(t, f, r) /\ r \in Path
      BY <1>t, <1>n, <2>1
    <3> QED
      BY <2>1, <2>2, <3>1
  <2>4. InPlace(u, g)
    BY <1>t, <1>n, <2>1, <2>2
  <2> QED
    BY <1>s, <2>1, <2>3, <2>4
<1>9. ASSUME NEW q \in Path, Unmakes(t, u, f, g, q) PROVE Held(u, g, X)
  <2>1. /\ SameJob(t, u) /\ t.pc = "undo" /\ u.pc = "undo" /\ u.backup = t.backup
        /\ q \in NewDirs(t) /\ u.placed = t.placed /\ t.placed \subseteq NewFiles(t)
        /\ u.op = t.op
    BY <1>9 DEF Unmakes, Lists, SameJob
  <2>2. \A r \in Path \ {q} : g[r] = f[r]
    BY <1>9 DEF Unmakes, OnlyAt
  <2>3. ASSUME NEW r \in OldFiles(t) PROVE Safe(u, g, r)
    <3>1. Safe(t, f, r) /\ r \in Path /\ r # q
      BY <1>t, <1>n, <1>k, <2>1
    <3> QED
      BY <2>1, <2>2, <3>1
  <2>4. InPlace(u, g)
    BY <1>t, <1>n, <2>1, <2>2
  <2> QED
    BY <1>s, <2>1, <2>3, <2>4
<1>10. ASSUME NEW q \in Path, Restores(t, u, f, g, q) PROVE Held(u, g, X)
  <2>1. /\ SameJob(t, u) /\ t.pc = "undo" /\ u.pc = "undo" /\ u.op = t.op
        /\ u.placed = {} /\ t.placed = {} /\ q \in OldFiles(t) /\ Exists(t.backup, q)
    BY <1>10 DEF Restores, Lists, SameJob
  <2>2. u.backup[q] = Absent /\ \A r \in Path \ {q} : u.backup[r] = t.backup[r]
    BY <1>10 DEF Restores, OnlyAt
  <2>3. CanPut(f, q)
    <3>1. \A r \in OldDirs(t) : f[r].kind \in {"none", "d"}
      BY <2>1 DEF Fits
    <3>2. ~IsDir(f, q)
      BY <2>1 DEF Fits
    <3> QED
      BY <1>n, <2>1, <3>1, <3>2 DEF CanPut, ParentsUsable, IsDir, Exists
  <2>4. /\ g[q] = t.backup[q]
        /\ \A r \in Path \ {q} : g[r] = f[r] \/ r \in OldDirs(t)
    BY <1>10, <1>n, <2>1, <2>3 DEF Restores, AtAndAbove
  <2>5. ASSUME NEW r \in OldFiles(t) PROVE Safe(u, g, r)
    <3>1. Safe(t, f, r) /\ r \in Path /\ r \notin OldDirs(t)
      BY <1>t, <1>n, <2>1
    <3>2. ~Exists(u.backup, q)
      BY <2>2 DEF Exists, Absent
    <3>3. CASE r = q
      BY <2>1, <2>4, <3>1, <3>2, <3>3
    <3>4. CASE r # q
      BY <2>1, <2>2, <2>4, <3>1, <3>4 DEF Exists
    <3> QED
      BY <3>3, <3>4
  <2> QED
    BY <1>s, <2>1, <2>5
<1>11. \/ u.pc \notin Working
       \/ g = f /\ (Enters(t, u, f) \/ Passes(t, u))
       \/ \E q \in Path :
            \/ Skips(t, u, f, g, q) \/ Stages(t, u, f, g, q) \/ Makes(t, u, f, g, q)
            \/ Puts(t, u, f, g, q) \/ Unputs(t, u, f, g, q) \/ Unmakes(t, u, f, g, q)
            \/ Restores(t, u, f, g, q)
  BY DEF Turn, Begins, Looks, Ends, Prunes, NoTxn
<1> QED
  BY <1>1, <1>2, <1>3, <1>4, <1>5, <1>6, <1>7, <1>8, <1>9, <1>10, <1>11

\* What is put away by a kill stays put away; so does what is in the staging directories.
LEMMA HeldMore ==
  ASSUME NEW t, NEW f, NEW X, NEW Y, X \subseteq Y, Held(t, f, X)
  PROVE  Held(t, f, Y)
BY DEF Held

\* The transaction of another process still holds what it holds.
LEMMA OtherHolds ==
  ASSUME NEW w \in Txn, NEW f, NEW g, NEW X, Held(w, f, X), Lists(w),
         \A q \in OldFiles(w) \cup NewFiles(w) : g[q] = f[q]
  PROVE  Held(w, g, X)
<1> SUFFICES ASSUME w.pc \in Working PROVE Held(w, g, X)
  BY DEF Held
<1>1. w.placed \subseteq NewFiles(w)
  BY DEF Lists
<1> QED
  BY <1>1 DEF Held

\* A file where a file is recorded is not touched, unless it belongs to the archives of
\* the transaction.
LEMMA UntouchedFile ==
  ASSUME NEW t, NEW f, NEW g, Touched(t, f, g), NEW q \in Path,
         q \notin NewFiles(t) \cup OldFiles(t), f[q].kind \notin {"none", "d"}
  PROVE  g[q] = f[q]
BY DEF Touched

\* What a transaction works on is nothing of the other packages.
LEMMA OthersFiles ==
  ASSUME Apart, FileInv, NEW p \in Proc, txn[p].pc \in Working,
         NEW n \in Installed(db), n # TargetOf(txn[p])
  PROVE  Files(db[n]) \cap (NewFiles(txn[p]) \cup OldFiles(txn[p])) = {}
<1>1. Files(db[n]) \cap NewFiles(txn[p]) = {} /\ db[TargetOf(txn[p])] = txn[p].old
  BY FileTypes DEF Cleared
<1>2. CASE Replaces(txn[p])
  <2>1. txn[p].old \in Pkg /\ TargetOf(txn[p]) \in Mine[p]
    BY <1>2, FileTypes, ItsArchives
  <2>2. TargetOf(txn[p]) \in Installed(db)
    BY <1>1, <2>1, EnvironmentAssumption, NamesAssumption DEF Installed
  <2>3. Files(db[n]) \cap Files(txn[p].old) = {}
    BY <1>1, <2>2 DEF FileInv, OwnerInv, Disjoint
  <2> QED
    BY <1>1, <1>2, <2>3 DEF OldFiles
<1>3. CASE ~Replaces(txn[p])
  BY <1>1, <1>3 DEF OldFiles
<1> QED
  BY <1>2, <1>3

\* Whatever package a process may ask for, a step of another leaves its files alone; of
\* its own steps, those that work on another package do.
LEMMA OthersKept ==
  ASSUME Apart, FileInv, OwnerInv', NEW p \in Proc, Steps(p), NEW r \in Proc,
         NEW n \in Mine[r] \cap Installed(db), db'[n] = db[n],
         r = p => n # TargetOf(txn[p]) \/ txn[p].pc \notin Working,
         NEW q \in Files(db[n]), fs[q].kind \notin {"none", "d"}
  PROVE  fs'[q] = fs[q]
<1>1. Touched(txn[p], fs, fs')
  BY StepTouches DEF OwnerInv
<1>2. n \in Name /\ db[n] \in Pkg /\ NameOf[db[n]] = n
  BY FileTypes DEF FileInv, OwnerInv, Named, Installed, Records
<1>3. CASE r # p
  BY <1>1, <1>2, <1>3, FileTypes, Foreign
<1>4. CASE r = p /\ txn[p].pc \in Working
  BY SMTT(30), <1>1, <1>2, <1>4, OthersFiles, PathsOf, UntouchedFile
<1>5. CASE r = p /\ txn[p].pc \notin Working
  <2>1. \/ UNCHANGED fs
        \/ \E s \in Path : Prunes(txn[p], txn'[p], fs, fs', s)
    BY <1>5 DEF Steps, Turn, Skips, Stages, Makes, Puts, Unputs, Unmakes, Restores,
                Working, Change, Undoing
  <2>2. ASSUME NEW s \in Path, Prunes(txn[p], txn'[p], fs, fs', s) PROVE fs'[q] = fs[q]
    BY <1>2, <2>2, PathsOf DEF Prunes, OnlyAt, IsDir
  <2> QED
    BY <2>1, <2>2
<1> QED
  BY <1>3, <1>4, <1>5

\* A command that has not changed anything yet finds the files of the record it found.
LEMMA OldFilesFound ==
  ASSUME KeepInv, NEW p \in Proc, txn[p].pc \in Check
  PROVE  \A q \in OldFiles(txn[p]) :
           \/ fs[q] = Payload[txn[p].old][q]
           \/ <<q, Payload[txn[p].old][q]>> \in Excused
<1> SUFFICES ASSUME Replaces(txn[p])
             PROVE  \A q \in OldFiles(txn[p]) :
                      \/ fs[q] = Payload[txn[p].old][q]
                      \/ <<q, Payload[txn[p].old][q]>> \in Excused
  BY DEF OldFiles
<1>1. FileInv /\ Kept(Mine[p], txn[p], fs, db, Excused)
  BY DEF KeepInv
<1>2. /\ txn[p].old \in Pkg /\ TargetOf(txn[p]) \in Mine[p] /\ TargetOf(txn[p]) \in Name
  BY <1>1, FileTypes, ItsArchives, EnvironmentAssumption
<1>3. db[TargetOf(txn[p])] = txn[p].old
  BY <1>1 DEF FileInv, OwnerInv, Good, Fresh, Pending
<1>4. TargetOf(txn[p]) \in Installed(db) /\ ~WorksOn(txn[p], TargetOf(txn[p]))
  BY <1>2, <1>3, NamesAssumption DEF Installed, WorksOn, Check, Working, Change, Undoing
<1> QED
  BY <1>1, <1>2, <1>3, <1>4 DEF Kept, OldFiles

\* Where a command ends without a commit the files it worked on are in place, or put away.
LEMMA EndKeeps ==
  ASSUME KeepInv, NEW p \in Proc, txn[p].pc \in Working, NEW Y, Excused \subseteq Y,
         \A q \in Path : Exists(txn[p].backup, q) => <<q, txn[p].backup[q]>> \in Y,
         TargetOf(txn[p]) \in Installed(db),
         NEW q \in Files(db[TargetOf(txn[p])])
  PROVE  \/ fs[q] = Payload[db[TargetOf(txn[p])]][q]
         \/ <<q, Payload[db[TargetOf(txn[p])]][q]>> \in Y
<1> DEFINE t == txn[p]
<1>1. /\ t \in Txn /\ Shape(t) /\ Aims(p, t) /\ Cleared(t, db) /\ Held(t, fs, Excused)
  BY FileTypes DEF KeepInv
<1> HIDE DEF t
<1>2. db[TargetOf(t)] = t.old /\ t.old # NoPkg
  BY <1>1 DEF Cleared, Installed, t
<1>3. t.op # "install" /\ t.op # "none"
  BY <1>1, <1>2 DEF Aims, Shape, t, Working, Change, Undoing
<1>4. Replaces(t) /\ t.old \in Pkg
  BY <1>1, <1>3 DEF Replaces, Txn, Shape
<1>5. q \in OldFiles(t) /\ q \in Path
  BY <1>2, <1>4, PathsOf DEF OldFiles, t
<1>6. Payload[t.old][q].kind \in {"f", "l"}
  BY <1>1, <1>5, ItsPaths
<1>7. \/ <<q, Payload[t.old][q]>> \in Excused
      \/ t.backup[q] = Payload[t.old][q]
      \/ fs[q] = Payload[t.old][q]
  BY <1>1, <1>5 DEF Held, t
<1>8. t.backup[q] = Payload[t.old][q] => Exists(t.backup, q)
  BY <1>6 DEF Exists
<1> QED
  BY <1>2, <1>5, <1>7, <1>8 DEF t

\* Where it commits an archive, all of its files are in place.
LEMMA CommitKeeps ==
  ASSUME KeepInv, NEW p \in Proc, txn[p].pc = "register"
  PROVE  \A q \in Files(txn[p].new) : fs[q] = Payload[txn[p].new][q]
<1>1. Held(txn[p], fs, Excused) /\ Lists(txn[p]) /\ Brings(txn[p])
  BY FileTypes DEF KeepInv, Shape, Brings
<1> QED
  BY <1>1 DEF Held, Lists, NewFiles, Working, Change

\* A step of a process keeps the files of the packages that any process may ask for.
LEMMA StepKeeps ==
  ASSUME Apart, KeepInv, OwnerInv', NEW p \in Proc, Steps(p),
         \A r \in Proc \ {p} : txn'[r] = txn[r], NEW r \in Proc
  PROVE  Held(txn'[r], fs', Excused') /\ Kept(Mine[r], txn'[r], fs', db', Excused')
<1> DEFINE t == txn[p]
           u == txn'[p]
<1>i. FileInv
  BY DEF KeepInv
<1>t. /\ t \in Txn /\ Shape(t) /\ Aims(p, t) /\ db \in Records
      /\ Lists(t) /\ Cleared(t, db) /\ Fits(t, fs) /\ Stashed(t) /\ Held(t, fs, Excused)
  BY <1>i, FileTypes DEF KeepInv
<1>u. u \in Txn /\ db' \in Records
  BY DEF OwnerInv, TypeInv, TypeOK
<1>x. Excused \subseteq Excused'
  BY DEF Steps, Excused
<1>y. UNCHANGED <<attic, deleted>> => Excused' = Excused
  BY DEF Excused
<1>h. Held(u, fs', Excused')
  <2>1. CASE u.pc \notin Working
    BY <2>1 DEF Held
  <2>2. CASE UNCHANGED <<attic, deleted>> /\ Turn(t, u, fs, fs')
    <3>1. t.pc \in Working /\ t.op = "upgrade" => SameKinds(t.new, t.old)
      BY <1>t DEF Cleared
    <3>2. t.pc \in Check => \A q \in OldFiles(t) :
            fs[q] = Payload[t.old][q] \/ <<q, Payload[t.old][q]>> \in Excused
      BY OldFilesFound
    <3> HIDE DEF t, u
    <3>3. Held(u, fs', Excused)
      BY <1>t, <1>u, <2>2, <3>1, <3>2, TurnHolds
    <3> QED
      BY <1>y, <2>2, <3>3
  <2>3. Commits(t, u, db, db') \/ Killed(t, u, attic, attic') => u.pc \notin Working
    BY DEF Commits, Killed, NoTxn, Working, Change, Undoing
  <2> QED
    BY <2>1, <2>2, <2>3 DEF Steps
<1>1. Held(txn'[r], fs', Excused')
  <2>1. CASE r = p
    BY <1>h, <2>1
  <2>2. CASE r # p
    <3>1. Touched(t, fs, fs')
      BY <1>i, StepTouches DEF OwnerInv
    <3>2. /\ txn[r] \in Txn /\ Shape(txn[r]) /\ Aims(r, txn[r]) /\ Lists(txn[r])
          /\ Held(txn[r], fs, Excused)
      BY <1>i, FileTypes DEF KeepInv
    <3>3. \A q \in OldFiles(txn[r]) \cup NewFiles(txn[r]) : fs'[q] = fs[q]
      BY <1>t, <2>2, <3>1, <3>2, Bystander
    <3>4. Held(txn[r], fs', Excused)
      BY <3>2, <3>3, OtherHolds
    <3>5. Held(txn[r], fs', Excused')
      BY <1>x, <3>4, HeldMore
    <3> QED
      BY <2>2, <3>5
  <2> QED
    BY <2>1, <2>2
<1>2. Kept(Mine[r], txn'[r], fs', db', Excused')
  <2> SUFFICES ASSUME NEW n \in Mine[r] \cap Installed(db'), ~WorksOn(txn'[r], n),
                      NEW q \in Files(db'[n])
               PROVE  fs'[q] = Payload[db'[n]][q] \/ <<q, Payload[db'[n]][q]>> \in Excused'
    BY DEF Kept
  <2>0. n \in Name
    BY DEF Installed
  <2>1. CASE r = p /\ n = TargetOf(t) /\ t.pc \in Working
    <3>1. CASE UNCHANGED <<fs, db>> /\ Killed(t, u, attic, attic')
      <4>1. \A s \in Path : Exists(t.backup, s) => <<s, t.backup[s]>> \in Excused'
        BY <3>1 DEF Killed, Excused
      <4> QED
        BY <1>x, <2>1, <3>1, <4>1, EndKeeps
    <3>2. CASE UNCHANGED db /\ Turn(t, u, fs, fs')
      <4>1. Ends(t, u) \/ (SameJob(t, u) /\ u.pc \in Working)
        BY ZenonT(60), <2>1, <3>2
        DEF Turn, Begins, Looks, Enters, Passes, Skips, Stages, Makes, Puts, Unputs,
            Unmakes, Restores, Prunes, SameLists, Working, Change, Undoing, Check
      <4>2. Ends(t, u)
        BY <2>1, <4>1, SameArchives DEF WorksOn
      <4>3. UNCHANGED fs
        BY <2>1, <3>2, <4>2
        DEF Turn, Ends, NoTxn, Skips, Stages, Makes, Puts, Unputs, Unmakes, Restores, Prunes
      <4>4. \A s \in Path : ~Exists(t.backup, s)
        BY <2>1, <4>2 DEF Ends, Working, Change, Undoing, Check
      <4> QED
        BY <1>x, <2>1, <3>2, <4>3, <4>4, EndKeeps
    <3>3. CASE UNCHANGED fs /\ Commits(t, u, db, db')
      <4>1. CASE t.pc = "register" /\ db' = Registered(db, t.new)
        <5>1. t.new \in Pkg /\ NameOf[t.new] = TargetOf(t)
          BY <1>t, <4>1, ItsArchives DEF Shape, Brings
        <5>2. db'[n] = t.new
          BY <1>t, <2>0, <2>1, <4>1, <5>1 DEF Registered, Records
        <5> QED
          BY <3>3, <4>1, <5>2, CommitKeeps
      <4>2. CASE t.pc = "unregister" /\ db' = Unregistered(db, TargetOf(t))
        <5>1. db'[n] = NoPkg
          BY <1>t, <2>0, <2>1, <4>2 DEF Unregistered, Records
        <5> QED
          BY <5>1 DEF Installed
      <4> QED
        BY <3>3, <4>1, <4>2 DEF Commits
    <3> QED
      BY <3>1, <3>2, <3>3 DEF Steps
  <2>2. CASE r # p \/ n # TargetOf(t) \/ t.pc \notin Working
    <3>1. db'[n] = db[n] /\ n \in Installed(db)
      <4>1. r # p => n # TargetOf(t) \/ UNCHANGED db
        BY <1>i, RecordChanges DEF Apart
      <4>2. t.pc \notin Working => UNCHANGED db
        BY <1>i, RecordChanges
      <4>3. db'[n] = db[n]
        BY <1>i, <2>0, <2>2, <4>1, <4>2, RecordChanges
      <4> QED
        BY <4>3 DEF Installed
    <3>2. ~WorksOn(txn[r], n)
      BY <2>2 DEF WorksOn
    <3>3. fs[q] = Payload[db[n]][q] \/ <<q, Payload[db[n]][q]>> \in Excused
      BY <3>1, <3>2 DEF KeepInv, Kept
    <3>4. db[n] \in Pkg
      BY <1>t, <2>0, <3>1 DEF Records, Installed
    <3>5. Payload[db[n]][q].kind \in {"f", "l"}
      BY <3>1, <3>4, PathsOf
    <3>6. fs[q] = Payload[db[n]][q] => fs'[q] = fs[q]
      BY <1>i, <2>2, <3>1, <3>5, OthersKept
    <3> QED
      BY <1>x, <3>1, <3>3, <3>6
  <2> QED
    BY <2>1, <2>2
<1> QED
  BY <1>1, <1>2

LEMMA KeepInit == Init => KeepInv
<1> SUFFICES ASSUME Init PROVE KeepInv
  OBVIOUS
<1>1. \A p \in Proc : txn[p].pc = "idle"
  BY DEF Init, NoTxn
<1>2. Installed(db) = {}
  BY DEF Init, Installed
<1> QED
  BY <1>1, <1>2, FileInit DEF KeepInv, Held, Kept, Working, Change, Undoing

\* An edit by hand, which waits until no command runs, keeps the files of packages but for
\* those it deletes, as long as the administrator's own files are elsewhere.
LEMMA EditKeeps ==
  ASSUME Apart, OwnPlaces, KeepInv, NEW q \in Path, Edit(q), NEW p \in Proc
  PROVE  Held(txn'[p], fs', Excused') /\ Kept(Mine[p], txn'[p], fs', db', Excused')
<1>1. txn'[p].pc = "idle" /\ txn' = txn /\ db' = db /\ attic' = attic
  BY DEF Edit, Idle
<1>2. Held(txn'[p], fs', Excused')
  BY <1>1 DEF Held, Working, Change, Undoing
<1>t. fs \in Tree /\ db \in Records
  BY FileTypes DEF KeepInv
<1>3. ASSUME NEW n \in Mine[p] \cap Installed(db), NEW r \in Files(db[n])
      PROVE  fs'[r] = Payload[db[n]][r] \/ <<r, Payload[db[n]][r]>> \in Excused'
  <2>1. db[n] \in Pkg /\ r \in Path /\ Payload[db[n]][r] \in Node
    BY <1>t, ArchiveTypes DEF Records, Installed
  <2>2. ~WorksOn(txn[p], n)
    BY <1>1 DEF WorksOn, Working, Change, Undoing
  <2>3. fs[r] = Payload[db[n]][r] \/ <<r, Payload[db[n]][r]>> \in Excused
    BY <1>3, <2>2 DEF KeepInv, Kept
  <2>4. CASE q \in UserPath /\ fs' = [fs EXCEPT ![q] = UserNode] /\ deleted' = deleted \ {q}
    <3>1. r # q
      BY <2>1, <2>4 DEF OwnPlaces
    <3> QED
      BY <1>1, <1>t, <2>1, <2>3, <2>4, <3>1 DEF Excused, Tree
  <2>5. CASE fs' = Without(fs, q) /\ deleted' = deleted \cup {q}
    BY <1>1, <1>t, <2>1, <2>3, <2>5 DEF Excused, Tree, Without
  <2> QED
    BY <2>4, <2>5 DEF Edit
<1> QED
  BY <1>1, <1>2, <1>3 DEF Kept

\* Nothing is edited where the administrator edits nothing.
LEMMA NobodyEdits ==
  ASSUME NoEdits, TypeInv, NEW q \in Path
  PROVE  ~Edit(q)
<1>1. spent["edit"] \in Nat /\ Limit["edit"] = 0
  BY DEF TypeInv, TypeOK, Event, NoEdits
<1> QED
  BY <1>1 DEF Edit, Spend

\* Every step, of any number of commands beside each other, keeps the files of installed
\* packages where they belong, or put away.
LEMMA KeepStep ==
  ASSUME Apart, OwnPlaces \/ NoEdits
  PROVE  KeepInv /\ [Next]_vars => KeepInv'
<1> SUFFICES ASSUME KeepInv, [Next]_vars PROVE KeepInv'
  OBVIOUS
<1>i. FileInv /\ FileInv' /\ OwnerInv'
  BY FileStep, WhoSteps DEF KeepInv
<1>1. ASSUME NEW p \in Proc, Steps(p), \A r \in Proc \ {p} : txn'[r] = txn[r]
      PROVE  KeepInv'
  BY <1>i, <1>1, StepKeeps DEF KeepInv
<1>2. ASSUME NEW q \in Path, Edit(q) PROVE KeepInv'
  <2>1. OwnPlaces
    BY <1>i, <1>2, NobodyEdits DEF FileInv, OwnerInv
  <2> QED
    BY <1>i, <1>2, <2>1, EditKeeps DEF KeepInv
<1>3. CASE UNCHANGED vars
  <2>1. Excused' = Excused /\ txn' = txn /\ fs' = fs /\ db' = db
    BY <1>3 DEF vars, Excused
  <2> QED
    BY <1>i, <2>1 DEF KeepInv
<1> QED
  BY <1>i, <1>1, <1>2, <1>3, WhoSteps

\* Without kills no staging directory is left behind; without edits nothing is deleted by
\* hand.
LEMMA NothingPutAway ==
  ASSUME Apart, FileInv, [Next]_vars
  PROVE  /\ NoKills /\ attic = {} => attic' = {}
         /\ NoEdits /\ deleted = {} => deleted' = {}
<1>1. ASSUME NEW p \in Proc, Steps(p)
      PROVE  deleted' = deleted /\ (NoKills => attic' = attic)
  BY <1>1 DEF Steps, NoKills
<1>2. ASSUME NEW q \in Path, Edit(q) PROVE attic' = attic /\ ~NoEdits
  BY <1>2, NobodyEdits DEF Edit, FileInv, OwnerInv
<1>3. UNCHANGED vars => attic' = attic /\ deleted' = deleted
  BY DEF vars
<1> QED
  BY <1>1, <1>2, <1>3, WhoSteps

\* Every file and link of a package on which no command works is in place as it was
\* shipped, unless the administrator has deleted it: whatever other commands run, and
\* wherever one of them fails and rolls back, short of being killed.
THEOREM FilesStayPresent ==
  ASSUME Apart, OwnPlaces \/ NoEdits, NoKills
  PROVE  Spec => []RecordedFilesPresent
<1> DEFINE Inv == KeepInv /\ attic = {}
<1>1. Init => Inv
  BY KeepInit DEF Init
<1>2. Inv /\ [Next]_vars => Inv'
  BY KeepStep, NothingPutAway DEF KeepInv
<1>3. Inv => RecordedFilesPresent
  <2> SUFFICES ASSUME Inv, NEW n \in Name, Settled(n), NEW q \in Files(db[n])
               PROVE  fs[q] = Payload[db[n]][q] \/ q \in deleted
    BY DEF RecordedFilesPresent
  <2>1. n \in Installed(db) /\ \A p \in Proc : ~WorksOn(txn[p], n)
    BY DEF Settled, Idle, WorksOn, Target, TargetOf, Working, Change, Undoing
  <2>2. PICK p \in Proc : n \in Mine[p]
    BY <2>1 DEF KeepInv, FileInv, Housed
  <2>3. fs[q] = Payload[db[n]][q] \/ <<q, Payload[db[n]][q]>> \in Excused
    BY <2>1, <2>2 DEF KeepInv, Kept
  <2> QED
    BY <2>3 DEF Excused
<1> QED
  BY <1>1, <1>2, <1>3, PTL DEF Spec

\* Whatever is killed, and when, and whatever a rollback loses track of: the shipped
\* contents of every recorded file are in place, or in the staging directory of a command
\* that runs or was killed.  Only the administrator can delete them.
THEOREM ContentsNeverLost ==
  ASSUME Apart, NoEdits
  PROVE  Spec => []NothingLost
<1> DEFINE Inv == KeepInv /\ deleted = {}
<1>1. Init => Inv
  BY KeepInit DEF Init
<1>2. Inv /\ [Next]_vars => Inv'
  BY KeepStep, NothingPutAway DEF KeepInv
<1>3. Inv => NothingLost
  <2> SUFFICES ASSUME Inv, NEW n \in Installed(db), NEW q \in Files(db[n])
               PROVE  \/ fs[q] = Payload[db[n]][q]
                      \/ <<q, Payload[db[n]][q]>> \in attic
                      \/ \E p \in Proc : txn[p].backup[q] = Payload[db[n]][q]
    BY DEF NothingLost
  <2>1. PICK p \in Proc : n \in Mine[p]
    BY DEF KeepInv, FileInv, Housed
  <2>2. Excused = attic
    BY DEF Excused
  <2>3. CASE ~WorksOn(txn[p], n)
    BY <2>1, <2>2, <2>3 DEF KeepInv, Kept
  <2>4. CASE WorksOn(txn[p], n)
    <3>1. /\ txn[p].pc \in Working /\ n = TargetOf(txn[p]) /\ db[n] = txn[p].old
          /\ Shape(txn[p]) /\ Aims(p, txn[p]) /\ txn[p] \in Txn /\ Held(txn[p], fs, attic)
      BY <2>2, <2>4, FileTypes DEF WorksOn, Cleared, KeepInv
    <3>2. txn[p].old # NoPkg /\ txn[p].op \notin {"none", "install"}
      BY <3>1 DEF Installed, Aims, Shape, Working, Change, Undoing
    <3>3. q \in OldFiles(txn[p])
      BY <3>1, <3>2 DEF OldFiles, Replaces, Txn
    <3> QED
      BY <3>1, <3>3 DEF Held
  <2> QED
    BY <2>3, <2>4
<1> QED
  BY <1>1, <1>2, <1>3, PTL DEF Spec

-----------------------------------------------------------------------------
\* No file is left without an owner

\* A loop leaves no old file behind it but the links it takes for missing (m, then n, are
\* those noted so far).
LEMMA TurnSweeps ==
  ASSUME NEW t \in Txn, NEW u \in Txn, Shape(t), Lists(t), NEW f, NEW g, Turn(t, u, f, g),
         NEW m, NEW n, Swept(t, f, m),
         \A q \in OldFiles(t) : q \in m \ n =>
           g[q].kind # "l" \/ q \in u.placed \/ u.pc = "undo",
         \A q \in t.todo \ u.todo :
           t.pc = "stage" /\ u.pc = "stage" /\ g[q].kind = "l" => q \in n
  PROVE  Swept(u, g, n)
<1> USE DEF Check, Working, Change, Undoing
<1>n. OldFiles(t) \subseteq Path
  BY ItsPaths
<1>s. t.pc = "stage" => t.placed = {} /\ t.todo \subseteq OldFiles(t)
  BY DEF Lists
<1>l. \A q \in OldFiles(t) : Loose(q, g, n) => Loose(q, g, m) \/ q \in u.placed \/ u.pc = "undo"
  BY DEF Loose
<1>1. CASE u.pc \in {"idle", "prune", "undo"} \cup Check
  BY <1>1 DEF Swept
<1>2. CASE g = f /\ Enters(t, u, f)
  BY <1>2 DEF Enters, Swept, OldFiles, Replaces
<1>3. CASE g = f /\ Passes(t, u)
  <2>1. SameJob(t, u) /\ u.placed = t.placed
    BY <1>3 DEF Passes, SameLists
  <2> QED
    BY <1>3, <1>s, <1>l, <2>1, SameArchives DEF Passes, Swept, Loose
<1>4. ASSUME NEW q \in Path, Skips(t, u, f, g, q) PROVE Swept(u, g, n)
  <2>1. OldFiles(u) = OldFiles(t) /\ u.placed = t.placed /\ u.pc = t.pc /\ g = f
    BY <1>4, SameArchives DEF Skips, SameLists
  <2>2. \A r \in OldFiles(t) : Loose(r, g, n) => Loose(r, f, m) \/ r \in t.placed
    BY <1>4, <1>l, <2>1 DEF Skips
  <2>3. t.pc = "stage" => ~Loose(q, g, n)
    BY <1>4, <2>1 DEF Skips, Loose
  <2> QED
    BY <1>4, <1>s, <2>1, <2>2, <2>3 DEF Skips, Swept
<1>5. ASSUME NEW q \in Path, Stages(t, u, f, g, q) PROVE Swept(u, g, n)
  <2>1. OldFiles(u) = OldFiles(t) /\ u.placed = {}
    BY <1>5, <1>s, SameArchives DEF Stages
  <2>2. \A r \in OldFiles(t) : Loose(r, g, n) => Loose(r, f, m) /\ r # q
    BY <1>5, <1>n, <1>l, <2>1 DEF Stages, OnlyAt, Absent, Loose
  <2> QED
    BY <1>5, <2>1, <2>2 DEF Stages, Swept
<1>6. ASSUME NEW q \in Path, Makes(t, u, f, g, q) PROVE Swept(u, g, n)
  BY <1>6, <1>n, SameArchives DEF Makes, OnlyAt, Dir, Swept, Loose
<1>7. ASSUME NEW q \in Path, Puts(t, u, f, g, q) PROVE Swept(u, g, n)
  BY <1>7, <1>n, SameArchives DEF Puts, AtAndAbove, Dir, Swept, Loose
<1>8. \/ u.pc \in {"idle", "prune", "undo"} \cup Check
      \/ g = f /\ (Enters(t, u, f) \/ Passes(t, u))
      \/ \E q \in Path :
           \/ Skips(t, u, f, g, q) \/ Stages(t, u, f, g, q) \/ Makes(t, u, f, g, q)
           \/ Puts(t, u, f, g, q)
  BY DEF Turn, Begins, Looks, Ends, Unputs, Unmakes, Restores, Prunes, NoTxn
<1> QED
  BY <1>1, <1>2, <1>3, <1>4, <1>5, <1>6, <1>7, <1>8

\* A file or link after a step was there before, and is still on the list if it was; or it
\* has been put on the list; or it is an old one that has come back.
LEMMA TurnAccounts ==
  ASSUME AllTracked, NEW t \in Txn, NEW u \in Txn, Shape(t), Lists(t),
         NEW f, NEW g, Turn(t, u, f, g), NEW q \in Path, g[q].kind \in {"f", "l"}
  PROVE  \/ /\ g[q] = f[q]
            /\ t.pc \in Working /\ q \in t.placed => u.pc \in Working /\ q \in u.placed
         \/ u.pc \in Working /\ q \in u.placed
         \/ t.pc \in Working /\ q \in OldFiles(t)
<1> USE DEF Check, Working, Change, Undoing
<1>1. CASE g = f /\ (Begins(t, u) \/ Looks(t, u, f) \/ Enters(t, u, f) \/ Passes(t, u))
  BY <1>1 DEF Begins, Looks, Enters, Passes, SameLists
<1>2. CASE g = f /\ Ends(t, u)
  BY <1>2 DEF Ends
<1>3. ASSUME NEW r \in Path, Skips(t, u, f, g, r) PROVE g[q] = f[q] /\ u.pc = t.pc /\ u.placed = t.placed
  BY <1>3 DEF Skips, SameLists
<1>4. ASSUME NEW r \in Path, Stages(t, u, f, g, r) \/ Makes(t, u, f, g, r)
      PROVE  g[q] = f[q] /\ u.pc \in Working /\ u.placed = t.placed
  BY <1>4 DEF Stages, Makes, OnlyAt, Absent, Dir
<1>5. ASSUME NEW r \in Path, Puts(t, u, f, g, r)
      PROVE  u.pc \in Working /\ (q = r \/ g[q] = f[q]) /\ u.placed = t.placed \cup {r}
  BY <1>5 DEF Puts, AtAndAbove, Dir
<1>6. ASSUME NEW r \in Path, Unputs(t, u, f, g, r)
      PROVE  u.pc \in Working /\ q # r /\ g[q] = f[q] /\ u.placed = t.placed \ {r}
  BY <1>6 DEF Unputs, OnlyAt, Absent, IsDir
<1>7. ASSUME NEW r \in Path, Unmakes(t, u, f, g, r)
      PROVE  u.pc \in Working /\ g[q] = f[q] /\ u.placed = t.placed
  BY <1>7 DEF Unmakes, OnlyAt, Absent
<1>8. ASSUME NEW r \in Path, Restores(t, u, f, g, r)
      PROVE  /\ u.pc \in Working /\ u.placed = t.placed
             /\ g[q] = f[q] \/ (t.pc \in Working /\ q \in OldFiles(t))
  BY <1>8 DEF Restores, AtAndAbove, Dir, Lists
<1>9. ASSUME NEW r \in Path, Prunes(t, u, f, g, r) PROVE g[q] = f[q] /\ t.pc \notin Working
  BY <1>9 DEF Prunes, OnlyAt, Absent
<1> QED
  BY <1>1, <1>2, <1>3, <1>4, <1>5, <1>6, <1>7, <1>8, <1>9 DEF Turn

\* At a commit every file that is there has an owner afterwards, if it had one before.
LEMMA CommitAccounts ==
  ASSUME OrphanInv, OwnerInv', NEW p \in Proc, Steps(p), UNCHANGED fs,
         Commits(txn[p], txn'[p], db, db'), NEW q \in Path, Loose(q, fs, missed),
         \/ \E n \in Installed(db) : q \in Files(db[n])
         \/ q \in txn[p].placed
  PROVE  \E n \in Installed(db') : q \in Files(db'[n])
<1> DEFINE t == txn[p]
<1>i. FileInv /\ Swept(t, fs, missed)
  BY DEF OrphanInv
<1>t. /\ t \in Txn /\ Shape(t) /\ Aims(p, t) /\ db \in Records
      /\ Lists(t) /\ Cleared(t, db)
  BY <1>i, FileTypes
<1>g. TargetOf(t) \in Name /\ t.pc \in {"register", "unregister"}
  BY <1>t, ItsArchives, EnvironmentAssumption DEF Commits
<1>o. ASSUME NEW n \in Installed(db), q \in Files(db[n]), n # TargetOf(t)
      PROVE  \E m \in Installed(db') : q \in Files(db'[m])
  <2>1. db'[n] = db[n] /\ n \in Installed(db')
    BY <1>i, <1>o, RecordChanges DEF Installed
  <2> QED
    BY <1>o, <2>1
<1>c. CASE q \in t.placed
  <2>1. Brings(t) /\ t.pc = "register"
    BY <1>t, <1>g, <1>c DEF Lists, NewFiles, Shape, Brings, Working, Change
  <2>2. t.new \in Pkg /\ NameOf[t.new] = TargetOf(t) /\ q \in Files(t.new)
    BY <1>t, <1>c, <2>1, ItsArchives DEF Lists, NewFiles, Working, Change
  <2>3. db'[TargetOf(t)] = t.new
    BY <1>t, <1>g, <2>1, <2>2 DEF Commits, Registered, Records
  <2>4. TargetOf(t) \in Installed(db')
    BY <1>g, <2>2, <2>3, NamesAssumption DEF Installed
  <2> QED
    BY <2>2, <2>3, <2>4
<1>m. CASE TargetOf(t) \in Installed(db) /\ q \in Files(db[TargetOf(t)])
  <2>1. db[TargetOf(t)] = t.old /\ t.old # NoPkg
    BY <1>t, <1>g, <1>m DEF Cleared, Installed, Working, Change
  <2>2. t.op \notin {"none", "install"}
    BY <1>t, <1>g, <2>1 DEF Aims, Shape
  <2>3. q \in OldFiles(t)
    BY <1>t, <1>m, <2>1, <2>2 DEF OldFiles, Replaces, Txn
  <2>4. q \in t.placed
    BY <1>i, <1>g, <2>3 DEF Swept
  <2> QED
    BY <1>c, <2>4
<1> QED
  BY <1>o, <1>c, <1>m

\* Another transaction has swept what it has swept.
LEMMA OtherSwept ==
  ASSUME NEW w, NEW f, NEW g, NEW m, NEW n, Swept(w, f, m),
         \A q \in OldFiles(w) : g[q] = f[q] /\ (q \in m /\ f[q].kind = "l" => q \in n)
  PROVE  Swept(w, g, n)
BY DEF Swept, Loose

\* The old files of another transaction are neither new nor old ones of this one.
LEMMA OldFilesApart ==
  ASSUME Apart, NEW p \in Proc, NEW r \in Proc \ {p}, NEW t \in Txn, Shape(t), Aims(p, t),
         NEW w \in Txn, Shape(w), Aims(r, w)
  PROVE  OldFiles(w) \cap (OldFiles(t) \cup NewFiles(t)) = {}
<1>1. /\ Brings(t) => t.new \in Pkg /\ NameOf[t.new] \in Mine[p]
      /\ Replaces(t) => t.old \in Pkg /\ NameOf[t.old] \in Mine[p]
      /\ Replaces(w) => w.old \in Pkg /\ NameOf[w.old] \in Mine[r]
  BY ItsArchives
<1>2. \A a, b \in Pkg : NameOf[a] \in Mine[p] /\ NameOf[b] \in Mine[r]
                           => Files(a) \cap Files(b) = {}
  BY DEF Apart, Files, Entries
<1> QED
  BY <1>1, <1>2 DEF OldFiles, NewFiles

LEMMA StepSweeps ==
  ASSUME Apart, OrphanInv, OwnerInv', NEW p \in Proc, Steps(p), Notes(p),
         \A r \in Proc \ {p} : txn'[r] = txn[r], NEW r \in Proc
  PROVE  Swept(txn'[r], fs', missed')
<1> DEFINE t == txn[p]
           u == txn'[p]
<1>i. FileInv /\ \A s \in Proc : Swept(txn[s], fs, missed)
  BY DEF OrphanInv
<1>t. t \in Txn /\ Shape(t) /\ Aims(p, t) /\ Lists(t)
  BY <1>i, FileTypes
<1>1. CASE r = p
  <2>1. CASE Commits(t, u, db, db') \/ Killed(t, u, attic, attic')
    BY <1>1, <2>1 DEF Commits, Killed, NoTxn, Swept
  <2>2. CASE Turn(t, u, fs, fs')
    <3>1. u \in Txn /\ OldFiles(t) \subseteq Path /\ t.todo \subseteq Path
      BY <1>t, ItsPaths DEF OwnerInv, TypeInv, TypeOK, Txn
    <3>2. \A q \in OldFiles(t) : q \in missed \ missed' =>
            fs'[q].kind # "l" \/ q \in u.placed \/ u.pc = "undo"
      BY <3>1 DEF Notes
    <3>3. \A q \in t.todo \ u.todo :
            t.pc = "stage" /\ u.pc = "stage" /\ fs'[q].kind = "l" => q \in missed'
      BY <3>1 DEF Notes
    <3> HIDE DEF t, u
    <3>4. Swept(u, fs', missed')
      BY <1>i, <1>t, <2>2, <3>1, <3>2, <3>3, TurnSweeps DEF t
    <3> QED
      BY <1>1, <3>4 DEF u
  <2> QED
    BY <2>1, <2>2 DEF Steps
<1>2. CASE r # p
  <2>1. Touched(t, fs, fs')
    BY <1>i, StepTouches DEF OwnerInv
  <2>2. txn[r] \in Txn /\ Shape(txn[r]) /\ Aims(r, txn[r])
    BY <1>i, FileTypes
  <2>3. \A q \in OldFiles(txn[r]) : fs'[q] = fs[q]
    BY <1>t, <1>2, <2>1, <2>2, Bystander
  <2>4. OldFiles(txn[r]) \cap (OldFiles(t) \cup NewFiles(t)) = {} /\ OldFiles(txn[r]) \subseteq Path
    BY <1>t, <1>2, <2>2, OldFilesApart, ItsPaths
  <2>5. \A q \in OldFiles(txn[r]) : q \in missed /\ fs[q].kind = "l" => q \in missed'
    BY <2>3, <2>4 DEF Notes
  <2> QED
    BY <1>i, <1>2, <2>3, <2>5, OtherSwept
<1> QED
  BY <1>1, <1>2

\* No step leaves a file without an owner, or a link but one taken for missing, as long as
\* nothing is killed.
LEMMA StepAccounts ==
  ASSUME AllTracked, NoKills, OrphanInv, OwnerInv', NEW p \in Proc, Steps(p), Notes(p),
         \A r \in Proc \ {p} : txn'[r] = txn[r], NEW q \in Path, Loose(q, fs', missed')
  PROVE  Accounted(q)'
<1> DEFINE t == txn[p]
           u == txn'[p]
<1>i. FileInv
  BY DEF OrphanInv
<1>t. t \in Txn /\ Shape(t) /\ Aims(p, t) /\ Lists(t) /\ Cleared(t, db)
  BY <1>i, FileTypes
<1>w. Loose(q, fs, missed) => Accounted(q)
  BY DEF OrphanInv
<1>d. CASE q \in missed \ missed' /\ fs'[q].kind = "l"
  <2>1. CASE txn'[p].pc \in Working /\ q \in txn'[p].placed
    BY <2>1 DEF Accounted
  <2>2. CASE t.pc = "undo" /\ u.pc = "undo" /\ q \in OldFiles(t)
    <3>1. Replaces(t) /\ t.old \in Pkg /\ q \in Files(t.old) /\ TargetOf(t) \in Name
      BY <1>t, <2>2, ItsArchives, EnvironmentAssumption DEF OldFiles
    <3>2. TargetOf(t) \in Installed(db) /\ db[TargetOf(t)] = t.old
      BY <1>t, <2>2, <3>1, NamesAssumption DEF Cleared, Installed, Working, Undoing
    <3>3. UNCHANGED db
      BY <2>2 DEF Steps, Commits
    <3> QED
      BY <3>1, <3>2, <3>3 DEF Accounted
  <2> QED
    BY <1>d, <2>1, <2>2 DEF Notes
<1>h. CASE ~(q \in missed \ missed' /\ fs'[q].kind = "l")
  <2>l. fs'[q] = fs[q] => Loose(q, fs, missed)
    BY <1>h DEF Loose
  <2>k. fs'[q].kind \in {"f", "l"}
    BY DEF Loose
  <2>r. ASSUME NEW r \in Proc \ {p}, txn[r].pc \in Working, q \in txn[r].placed
        PROVE  Accounted(q)'
    BY <2>r DEF Accounted
  <2>1. CASE UNCHANGED fs /\ Commits(t, u, db, db')
    <3>1. CASE fs[q] = UserNode
      BY <2>1, <3>1 DEF Accounted
    <3>2. CASE (\E n \in Installed(db) : q \in Files(db[n])) \/ q \in t.placed
      <4>1. \E n \in Installed(db') : q \in Files(db'[n])
        BY <2>1, <2>l, <3>2, CommitAccounts
      <4> QED
        BY <4>1 DEF Accounted
    <3> QED
      BY <2>r, <2>l, <1>w, <2>1, <3>1, <3>2 DEF Accounted
  <2>2. CASE UNCHANGED db /\ Turn(t, u, fs, fs')
    <3>0. u \in Txn
      BY DEF OwnerInv, TypeInv, TypeOK
    <3>1. \/ /\ fs'[q] = fs[q]
             /\ t.pc \in Working /\ q \in t.placed => u.pc \in Working /\ q \in u.placed
          \/ u.pc \in Working /\ q \in u.placed
          \/ t.pc \in Working /\ q \in OldFiles(t)
      BY <1>t, <2>2, <2>k, <3>0, TurnAccounts
    <3>2. CASE u.pc \in Working /\ q \in u.placed
      BY <3>2 DEF Accounted
    <3>3. CASE t.pc \in Working /\ q \in OldFiles(t)
      <4>1. Replaces(t) /\ t.old \in Pkg /\ q \in Files(t.old) /\ TargetOf(t) \in Name
        BY <1>t, <3>3, ItsArchives, EnvironmentAssumption DEF OldFiles
      <4>2. TargetOf(t) \in Installed(db) /\ db[TargetOf(t)] = t.old
        BY <1>t, <3>3, <4>1, NamesAssumption DEF Cleared, Installed
      <4> QED
        BY <2>2, <4>1, <4>2 DEF Accounted
    <3>4. CASE fs'[q] = fs[q] /\ (t.pc \in Working /\ q \in t.placed => u.pc \in Working /\ q \in u.placed)
      <4>1. \/ fs[q] = UserNode
            \/ \E n \in Installed(db) : q \in Files(db[n])
            \/ \E r \in Proc \ {p} : txn[r].pc \in Working /\ q \in txn[r].placed
            \/ t.pc \in Working /\ q \in t.placed
        BY <1>w, <2>l, <3>4 DEF Accounted
      <4> QED
        BY <2>r, <2>2, <3>2, <3>4, <4>1 DEF Accounted
    <3> QED
      BY <3>1, <3>2, <3>3, <3>4
  <2> QED
    BY <2>1, <2>2 DEF Steps, NoKills
<1> QED
  BY <1>d, <1>h

LEMMA OrphanStep ==
  ASSUME Apart, AllTracked, NoKills
  PROVE  OrphanInv /\ [Next]_vars => OrphanInv'
<1> SUFFICES ASSUME OrphanInv, [Next]_vars PROVE OrphanInv'
  OBVIOUS
<1>i. FileInv /\ FileInv' /\ OwnerInv'
  BY FileStep, WhoSteps DEF OrphanInv
<1>1. ASSUME NEW p \in Proc, Steps(p), Notes(p), \A r \in Proc \ {p} : txn'[r] = txn[r]
      PROVE  OrphanInv'
  <2>1. \A r \in Proc : Swept(txn'[r], fs', missed')
    BY <1>i, <1>1, StepSweeps
  <2>2. \A q \in Path : Loose(q, fs', missed') => Accounted(q)'
    BY <1>i, <1>1, StepAccounts
  <2> QED
    BY <1>i, <2>1, <2>2 DEF OrphanInv
<1>2. ASSUME NEW q \in Path, Edit(q) PROVE OrphanInv'
  <2>1. fs \in Tree /\ UNCHANGED <<db, txn>>
    BY <1>i, <1>2, FileTypes DEF Edit, FileInv, OwnerInv, TypeInv, TypeOK
  <2>2. /\ \A r \in Path \ {q} : fs'[r] = fs[r] /\ (r \in missed => r \in missed')
        /\ fs'[q] = UserNode \/ fs'[q] = Absent
    BY <1>2, <2>1 DEF Edit, Tree, Without
  <2>3. \A r \in Path : Loose(r, fs', missed') => Accounted(r)'
    BY <2>1, <2>2 DEF OrphanInv, Accounted, Absent, Loose
  <2>4. \A p \in Proc : txn'[p].pc = "idle"
    BY <1>2 DEF Edit, Idle
  <2> QED
    BY <1>i, <2>3, <2>4 DEF OrphanInv, Swept
<1>3. CASE UNCHANGED vars
  BY <1>i, <1>3 DEF vars, OrphanInv, Accounted
<1> QED
  BY <1>i, <1>1, <1>2, <1>3, WhoSteps

LEMMA OrphanInit == Init => OrphanInv
<1> SUFFICES ASSUME Init PROVE OrphanInv
  OBVIOUS
<1>1. \A p \in Proc : txn[p].pc = "idle"
  BY DEF Init, NoTxn
<1>2. \A q \in Path : fs[q].kind = "none"
  BY DEF Init, EmptyTree, Absent
<1> QED
  BY <1>1, <1>2, FileInit DEF OrphanInv, Swept, Loose

\* What is recorded is owned.
LEMMA AccountedOwned ==
  ASSUME OrphanInv, Quiet, NEW q \in Path, Loose(q, fs, missed)
  PROVE  Owners(db, q) # {} \/ fs[q] = UserNode
<1>1. fs[q] = UserNode \/ \E n \in Installed(db) : q \in Files(db[n])
  BY DEF OrphanInv, Accounted, Quiet, Idle, Working, Change, Undoing
<1>2. \A n \in Installed(db) : q \in Files(db[n]) => n \in Owners(db, q)
  BY DEF Owners, Files, Entries
<1> QED
  BY <1>1, <1>2

\* Between two commands every regular file below the root is recorded by a package or is
\* the administrator's: removals, upgrades, rollbacks and commits leave none behind, as
\* long as no command is killed and no rename is forgotten.
THEOREM NoFilesOrphaned ==
  ASSUME Apart, AllTracked, NoKills
  PROVE  Spec => []NoOrphanFiles
<1>1. OrphanInv => NoOrphanFiles
  BY AccountedOwned DEF NoOrphanFiles, Loose
<1> QED
  BY OrphanInit, OrphanStep, <1>1, PTL DEF Spec

-----------------------------------------------------------------------------
\* What an earlier command leaves is of the recorded kind

\* A tree stays sorted where directories are made, and files put in place, only as some
\* archive has them.
LEMMA StaysSorted ==
  ASSUME KindsAgree, NEW f, NEW g, Sorted(f),
         \A q \in Path :
           \/ g[q] = f[q] \/ g[q] = Absent
           \/ g[q] = Dir /\ \E b \in Pkg : q \in Dirs(b)
           \/ ~IsDir(g, q) /\ \E b \in Pkg : q \in Files(b)
  PROVE  Sorted(g)
<1> SUFFICES ASSUME NEW a \in Pkg
             PROVE  /\ \A q \in Files(a) : ~IsDir(g, q)
                    /\ \A q \in Dirs(a) : g[q].kind \in {"none", "d"}
  BY DEF Sorted
<1>1. Files(a) \subseteq Path /\ Dirs(a) \subseteq Path
  BY PathsOf
<1>2. /\ \A q \in Files(a) : ~IsDir(f, q)
      /\ \A q \in Dirs(a) : f[q].kind \in {"none", "d"}
  BY DEF Sorted
<1>3. \A b \in Pkg : Files(b) \cap Dirs(a) = {} /\ Files(a) \cap Dirs(b) = {}
  BY DEF KindsAgree
<1>4. ASSUME NEW q \in Files(a) PROVE ~IsDir(g, q)
  BY <1>1, <1>2, <1>3 DEF IsDir, Absent
<1>5. ASSUME NEW q \in Dirs(a) PROVE g[q].kind \in {"none", "d"}
  BY <1>1, <1>2, <1>3 DEF Absent, Dir
<1> QED
  BY <1>4, <1>5

LEMMA TurnSorted ==
  ASSUME KindsAgree, NEW t \in Txn, NEW u \in Txn, Shape(t), Lists(t), Stashed(t),
         NEW f, NEW g, Turn(t, u, f, g), Sorted(f)
  PROVE  Sorted(g)
<1> USE DEF Check, Working, Change, Undoing
<1> DEFINE MadeHere(q) == g[q] = Dir /\ \E b \in Pkg : q \in Dirs(b)
           PutHere(q)  == ~IsDir(g, q) /\ \E b \in Pkg : q \in Files(b)
           Orderly     == \A q \in Path : g[q] = f[q] \/ g[q] = Absent \/ MadeHere(q) \/ PutHere(q)
<1>o. Orderly => Sorted(g)
  BY StaysSorted
<1>n. /\ \A q \in NewDirs(t) \cup OldDirs(t) : \E b \in Pkg : q \in Dirs(b)
      /\ \A q \in NewFiles(t) \cup OldFiles(t) : \E b \in Pkg : q \in Files(b)
  <2>1. (Brings(t) => t.new \in Pkg) /\ (Replaces(t) => t.old \in Pkg)
    BY DEF Brings, Replaces, Shape
  <2> QED
    BY <2>1 DEF NewDirs, OldDirs, NewFiles, OldFiles
<1>p. /\ \A q \in NewFiles(t) : Above[q] \subseteq NewDirs(t) /\ Payload[t.new][q].kind \in {"f", "l"}
      /\ \A q \in OldFiles(t) : Above[q] \subseteq OldDirs(t)
  BY ItsPaths
<1>1. CASE g = f
  BY <1>1, <1>o
<1>2. ASSUME NEW q \in Path,
             Stages(t, u, f, g, q) \/ Unputs(t, u, f, g, q) \/ Unmakes(t, u, f, g, q)
               \/ Prunes(t, u, f, g, q) \/ Skips(t, u, f, g, q)
      PROVE  Orderly
  BY <1>2 DEF Stages, Unputs, Unmakes, Prunes, Skips, OnlyAt
<1>3. ASSUME NEW q \in Path, Makes(t, u, f, g, q) PROVE Orderly
  <2>1. q \in NewDirs(t)
    BY <1>3 DEF Makes, Lists
  <2> QED
    BY <1>3, <1>n, <2>1 DEF Makes, OnlyAt
<1>4. ASSUME NEW q \in Path, Puts(t, u, f, g, q) PROVE Orderly
  <2>1. q \in NewFiles(t)
    BY <1>4 DEF Puts, Lists
  <2>2. PutHere(q)
    BY <1>4, <1>n, <1>p, <2>1 DEF Puts, IsDir
  <2>3. \A r \in Path \ {q} : g[r] = f[r] \/ (r \in NewDirs(t) /\ g[r] = Dir)
    BY <1>4, <1>p, <2>1 DEF Puts, AtAndAbove
  <2> QED
    BY <1>n, <2>2, <2>3
<1>5. ASSUME NEW q \in Path, Restores(t, u, f, g, q) PROVE g = f \/ Orderly
  <2>1. q \in OldFiles(t) /\ ~IsDir(t.backup, q)
    BY <1>5 DEF Restores, Lists, Stashed
  <2>2. CASE g[q] = t.backup[q] /\ AtAndAbove(q, f, g)
    <3>1. PutHere(q)
      BY <1>n, <2>1, <2>2 DEF IsDir
    <3>2. \A r \in Path \ {q} : g[r] = f[r] \/ (r \in OldDirs(t) /\ g[r] = Dir)
      BY <1>p, <2>1, <2>2 DEF AtAndAbove
    <3> QED
      BY <1>n, <3>1, <3>2
  <2> QED
    BY <1>5, <2>2 DEF Restores
<1> QED
  BY <1>o, <1>1, <1>2, <1>3, <1>4, <1>5 DEF Turn

\* A transaction at work finds and keeps every old file as the archive has it.
LEMMA TurnIntact ==
  ASSUME NEW t \in Txn, NEW u \in Txn, Shape(t), Lists(t), NEW f, NEW g, Turn(t, u, f, g),
         IntactHeld(t, f),
         t.pc \in Working /\ t.op = "upgrade" => SameKinds(t.new, t.old),
         t.pc \in Check =>
           \A q \in OldFiles(t) : Exists(f, q) => Alike(f[q], Payload[t.old][q])
  PROVE  IntactHeld(u, g)
<1> USE DEF Check, Working, Change, Undoing
<1> DEFINE Shipped(q) == Payload[t.old][q]
           Saved(v, q) == Exists(v.backup, q) => Alike(v.backup[q], Shipped(q))
           There(v, h, q) == Exists(h, q) /\ q \notin v.placed => Alike(h[q], Shipped(q))
           InPlace(v, h) == \A q \in v.placed : h[q] = Payload[t.new][q]
<1>s. ASSUME SameJob(t, u), \A q \in OldFiles(t) : Saved(u, q) /\ There(u, g, q), InPlace(u, g)
      PROVE  IntactHeld(u, g)
  BY <1>s, SameArchives DEF IntactHeld
<1>t. ASSUME t.pc \in Working
      PROVE  /\ \A q \in OldFiles(t) : Saved(t, q) /\ There(t, f, q)
             /\ InPlace(t, f) /\ t.placed \subseteq NewFiles(t)
  BY <1>t DEF IntactHeld, Lists
<1>n. /\ OldFiles(t) \subseteq Path /\ NewFiles(t) \subseteq Path
      /\ \A q \in OldFiles(t) : Above[q] \subseteq OldDirs(t)
      /\ \A q \in NewFiles(t) : Payload[t.new][q].kind \in {"f", "l"} /\ Above[q] \subseteq NewDirs(t)
      /\ OldFiles(t) \cap OldDirs(t) = {} /\ NewFiles(t) \cap NewDirs(t) = {}
  BY ItsPaths
<1>k. t.pc \in Working =>
        NewFiles(t) \cap OldDirs(t) = {} /\ NewDirs(t) \cap OldFiles(t) = {}
  BY KindsApart
<1>1. CASE u.pc \notin Working
  BY <1>1 DEF IntactHeld
<1>2. CASE g = f /\ Enters(t, u, f)
  <2>1. SameJob(t, u) /\ u.placed = {} /\ u.backup = EmptyTree
    BY <1>2 DEF Enters, SameLists, Lists
  <2>2. \A q \in Path : ~Exists(u.backup, q)
    BY <2>1 DEF EmptyTree, Exists, Absent
  <2> QED
    BY <1>2, <1>n, <1>s, <2>1, <2>2 DEF Enters
<1>3. CASE g = f /\ Passes(t, u)
  BY <1>3, <1>s, <1>t DEF Passes, SameLists
<1>4. ASSUME NEW q \in Path, Skips(t, u, f, g, q) PROVE IntactHeld(u, g)
  <2>1. SameJob(t, u) /\ u.placed = t.placed /\ u.backup = t.backup /\ t.pc \in Working /\ g = f
    BY <1>4 DEF Skips, SameLists
  <2> QED
    BY <1>s, <1>t, <2>1
<1>5. ASSUME NEW q \in Path, Stages(t, u, f, g, q) PROVE IntactHeld(u, g)
  <2>1. /\ SameJob(t, u) /\ u.placed = {} /\ t.placed = {} /\ t.pc = "stage"
        /\ q \in OldFiles(t) /\ g[q] = Absent /\ Exists(f, q)
    BY <1>5 DEF Stages, Lists
  <2>2. u.backup[q] = f[q] /\ \A r \in Path \ {q} : u.backup[r] = t.backup[r] /\ g[r] = f[r]
    BY <1>5 DEF Stages, OnlyAt
  <2>3. ASSUME NEW r \in OldFiles(t) PROVE Saved(u, r) /\ There(u, g, r)
    <3>1. Saved(t, r) /\ There(t, f, r) /\ r \in Path
      BY <1>t, <1>n, <2>1
    <3> QED
      BY <2>1, <2>2, <3>1 DEF Exists, Absent
  <2> QED
    BY <1>s, <2>1, <2>3
<1>6. ASSUME NEW q \in Path, Makes(t, u, f, g, q) PROVE IntactHeld(u, g)
  <2>1. /\ SameJob(t, u) /\ u.placed = {} /\ t.placed = {} /\ t.pc = "dirs"
        /\ u.backup = t.backup /\ q \in NewDirs(t)
    BY <1>6 DEF Makes, Lists
  <2>2. \A r \in Path \ {q} : g[r] = f[r]
    BY <1>6 DEF Makes, OnlyAt
  <2>3. ASSUME NEW r \in OldFiles(t) PROVE Saved(u, r) /\ There(u, g, r)
    <3>1. Saved(t, r) /\ There(t, f, r) /\ r \in Path /\ r # q
      BY <1>t, <1>n, <1>k, <2>1
    <3> QED
      BY <2>1, <2>2, <3>1 DEF Exists
  <2> QED
    BY <1>s, <2>1, <2>3
<1>7. ASSUME NEW q \in Path, Puts(t, u, f, g, q) PROVE IntactHeld(u, g)
  <2>1. /\ SameJob(t, u) /\ t.pc = "files"
        /\ u.backup = t.backup /\ q \in NewFiles(t) /\ t.placed \subseteq NewFiles(t)
        /\ u.placed = t.placed \cup {q} \/ (u.placed = t.placed /\ ~AllTracked)
    BY <1>7 DEF Puts, Lists
  <2>2. /\ g[q] = Payload[t.new][q]
        /\ \A r \in Path \ {q} : g[r] = f[r] \/ r \in NewDirs(t)
    BY <1>7, <1>n, <2>1 DEF Puts, AtAndAbove
  <2>3. ASSUME NEW r \in OldFiles(t) PROVE Saved(u, r) /\ There(u, g, r)
    <3>1. Saved(t, r) /\ There(t, f, r) /\ r \in Path /\ r \notin NewDirs(t)
      BY <1>t, <1>n, <1>k, <2>1
    <3>2. CASE r # q
      <4>1. g[r] = f[r] /\ (r \notin u.placed => r \notin t.placed)
        BY <2>1, <2>2, <3>1, <3>2
      <4> QED
        BY <2>1, <3>1, <4>1 DEF Exists
    <3>3. CASE r = q /\ q \notin u.placed
      <4>1. ~AllTracked
        BY <2>1, <3>3
      <4>2. t.op = "upgrade"
        BY <2>1, <3>3 DEF OldFiles, NewFiles, Replaces, Brings
      <4>3. q \in Entries(t.new) \cap Entries(t.old)
        BY <2>1, <2>3, <3>3 DEF OldFiles, NewFiles, Files, Entries
      <4>4. g[q].kind = Payload[t.old][q].kind
        BY <2>1, <2>2, <4>2, <4>3 DEF SameKinds
      <4> QED
        BY <2>1, <3>1, <3>3, <4>1, <4>4 DEF Alike
    <3> QED
      BY <2>1, <3>1, <3>2, <3>3
  <2>4. InPlace(u, g)
    BY <1>t, <1>n, <2>1, <2>2
  <2> QED
    BY <1>s, <2>1, <2>3, <2>4
<1>8. ASSUME NEW q \in Path, Unputs(t, u, f, g, q) PROVE IntactHeld(u, g)
  <2>1. /\ SameJob(t, u) /\ t.pc = "undo" /\ u.backup = t.backup
        /\ q \in t.placed /\ u.placed = t.placed \ {q} /\ t.placed \subseteq NewFiles(t)
    BY <1>8 DEF Unputs, Lists
  <2>2. g[q] = Absent /\ \A r \in Path \ {q} : g[r] = f[r]
    <3>1. f[q].kind \in {"f", "l"}
      BY <1>n, <1>t, <2>1
    <3> QED
      BY <1>8, <3>1 DEF Unputs, OnlyAt, IsDir
  <2>3. ASSUME NEW r \in OldFiles(t) PROVE Saved(u, r) /\ There(u, g, r)
    <3>1. Saved(t, r) /\ There(t, f, r) /\ r \in Path
      BY <1>t, <1>n, <2>1
    <3> QED
      BY <2>1, <2>2, <3>1 DEF Exists, Absent
  <2>4. InPlace(u, g)
    BY <1>t, <1>n, <2>1, <2>2
  <2> QED
    BY <1>s, <2>1, <2>3, <2>4
<1>9. ASSUME NEW q \in Path, Unmakes(t, u, f, g, q) PROVE IntactHeld(u, g)
  <2>1. /\ SameJob(t, u) /\ t.pc = "undo" /\ u.backup = t.backup
        /\ q \in NewDirs(t) /\ u.placed = t.placed /\ t.placed \subseteq NewFiles(t)
    BY <1>9 DEF Unmakes, Lists
  <2>2. \A r \in Path \ {q} : g[r] = f[r]
    BY <1>9 DEF Unmakes, OnlyAt
  <2>3. ASSUME NEW r \in OldFiles(t) PROVE Saved(u, r) /\ There(u, g, r)
    <3>1. Saved(t, r) /\ There(t, f, r) /\ r \in Path /\ r # q
      BY <1>t, <1>n, <1>k, <2>1
    <3> QED
      BY <2>1, <2>2, <3>1 DEF Exists
  <2>4. InPlace(u, g)
    BY <1>t, <1>n, <2>1, <2>2
  <2> QED
    BY <1>s, <2>1, <2>3, <2>4
<1>10. ASSUME NEW q \in Path, Restores(t, u, f, g, q) PROVE IntactHeld(u, g)
  <2>1. /\ SameJob(t, u) /\ t.pc = "undo" /\ u.placed = {} /\ t.placed = {}
        /\ q \in OldFiles(t) /\ Exists(t.backup, q)
    BY <1>10 DEF Restores, Lists
  <2>2. u.backup[q] = Absent /\ \A r \in Path \ {q} : u.backup[r] = t.backup[r]
    BY <1>10 DEF Restores, OnlyAt
  <2>3. \/ g = f
        \/ g[q] = t.backup[q] /\ \A r \in Path \ {q} : g[r] = f[r] \/ r \in OldDirs(t)
    BY <1>10, <1>n, <2>1 DEF Restores, AtAndAbove
  <2>4. ASSUME NEW r \in OldFiles(t) PROVE Saved(u, r) /\ There(u, g, r)
    <3>1. Saved(t, r) /\ There(t, f, r) /\ r \in Path /\ r \notin OldDirs(t)
      BY <1>t, <1>n, <2>1
    <3> QED
      BY <2>1, <2>2, <2>3, <3>1 DEF Exists, Absent
  <2> QED
    BY <1>s, <2>1, <2>4
<1>11. \/ u.pc \notin Working
       \/ g = f /\ (Enters(t, u, f) \/ Passes(t, u))
       \/ \E q \in Path :
            \/ Skips(t, u, f, g, q) \/ Stages(t, u, f, g, q) \/ Makes(t, u, f, g, q)
            \/ Puts(t, u, f, g, q) \/ Unputs(t, u, f, g, q) \/ Unmakes(t, u, f, g, q)
            \/ Restores(t, u, f, g, q)
  BY DEF Turn, Begins, Looks, Ends, Prunes, NoTxn
<1> QED
  BY <1>1, <1>2, <1>3, <1>4, <1>5, <1>6, <1>7, <1>8, <1>9, <1>10, <1>11

\* A step of any process leaves the files of a package that it does not work on as they
\* are, or takes what is there for a directory's.
LEMMA OthersSeen ==
  ASSUME Apart, FileInv, OwnerInv', NEW p \in Proc, Steps(p), NEW r \in Proc,
         NEW n \in Mine[r] \cap Installed(db), db'[n] = db[n],
         r = p => n # TargetOf(txn[p]) \/ txn[p].pc \notin Working,
         NEW q \in Files(db[n])
  PROVE  fs'[q] = fs[q] \/ fs'[q].kind \in {"none", "d"}
<1>1. Touched(txn[p], fs, fs')
  BY StepTouches DEF OwnerInv
<1>2. n \in Name /\ db[n] \in Pkg /\ NameOf[db[n]] = n /\ q \in Path
  <2>1. n \in Name /\ db[n] \in Pkg /\ NameOf[db[n]] = n
    BY FileTypes DEF FileInv, OwnerInv, Named, Installed, Records
  <2> QED
    BY <2>1, PathsOf
<1>3. CASE r # p
  BY <1>1, <1>2, <1>3, FileTypes, Foreign
<1>4. CASE r = p /\ txn[p].pc \in Working
  BY <1>1, <1>2, <1>4, OthersFiles DEF Touched
<1>5. CASE r = p /\ txn[p].pc \notin Working
  <2>1. \/ UNCHANGED fs
        \/ \E s \in Path : Prunes(txn[p], txn'[p], fs, fs', s)
    BY <1>5 DEF Steps, Turn, Skips, Stages, Makes, Puts, Unputs, Unmakes, Restores,
                Working, Change, Undoing
  <2>2. ASSUME NEW s \in Path, Prunes(txn[p], txn'[p], fs, fs', s)
        PROVE  fs'[q] = fs[q] \/ fs'[q].kind \in {"none", "d"}
    BY <1>2, <2>2 DEF Prunes, OnlyAt, Absent
  <2> QED
    BY <2>1, <2>2
<1> QED
  BY <1>3, <1>4, <1>5

\* Before its first change a command finds the files of its record as any other would.
LEMMA OldFilesIntact ==
  ASSUME IntactInv, NEW p \in Proc, txn[p].pc \in Check
  PROVE  \A q \in OldFiles(txn[p]) : Exists(fs, q) => Alike(fs[q], Payload[txn[p].old][q])
<1> SUFFICES ASSUME Replaces(txn[p])
             PROVE  \A q \in OldFiles(txn[p]) :
                      Exists(fs, q) => Alike(fs[q], Payload[txn[p].old][q])
  BY DEF OldFiles
<1>1. FileInv /\ IntactKept(Mine[p], txn[p], fs, db)
  BY DEF IntactInv
<1>2. /\ txn[p].old \in Pkg /\ TargetOf(txn[p]) \in Mine[p] /\ TargetOf(txn[p]) \in Name
  BY <1>1, FileTypes, ItsArchives, EnvironmentAssumption
<1>3. db[TargetOf(txn[p])] = txn[p].old
  BY <1>1 DEF FileInv, OwnerInv, Good, Fresh, Pending
<1>4. TargetOf(txn[p]) \in Installed(db) /\ ~WorksOn(txn[p], TargetOf(txn[p]))
  BY <1>2, <1>3, NamesAssumption DEF Installed, WorksOn, Check, Working, Change, Undoing
<1> QED
  BY <1>1, <1>2, <1>3, <1>4 DEF IntactKept, OldFiles

\* Where a command is killed or ends without a commit, what is there of the package is of
\* the recorded kind: a new file that stays in place of an old one has the kind of that.
LEMMA EndIntact ==
  ASSUME IntactInv, NEW p \in Proc, txn[p].pc \in Working,
         txn[p].placed = {} \/ ~NoKills,
         TargetOf(txn[p]) \in Installed(db),
         NEW q \in Files(db[TargetOf(txn[p])]), Exists(fs, q)
  PROVE  Alike(fs[q], Payload[db[TargetOf(txn[p])]][q])
<1> DEFINE t == txn[p]
<1>1. /\ t \in Txn /\ Shape(t) /\ Aims(p, t) /\ Cleared(t, db) /\ Lists(t) /\ IntactHeld(t, fs)
  BY FileTypes DEF IntactInv
<1> HIDE DEF t
<1>2. db[TargetOf(t)] = t.old /\ t.old # NoPkg
  BY <1>1 DEF Cleared, Installed, t
<1>3. t.op # "install" /\ t.op # "none"
  BY <1>1, <1>2 DEF Aims, Shape, t, Working, Change, Undoing
<1>4. Replaces(t) /\ t.old \in Pkg
  BY <1>1, <1>3 DEF Replaces, Txn, Shape
<1>5. q \in OldFiles(t) /\ q \in Files(t.old)
  BY <1>2, <1>4 DEF OldFiles, t
<1>6. CASE q \notin t.placed
  BY <1>1, <1>2, <1>5, <1>6 DEF IntactHeld, t
<1>7. CASE q \in t.placed
  <2>1. q \in NewFiles(t) /\ fs[q] = Payload[t.new][q] /\ ~NoKills
    BY <1>1, <1>7 DEF IntactHeld, Lists, t
  <2>2. t.op = "upgrade"
    BY <1>4, <2>1 DEF Replaces, NewFiles, Brings
  <2>3. q \in Entries(t.new) \cap Entries(t.old)
    BY <1>5, <2>1 DEF NewFiles, Files, Entries
  <2>4. fs[q].kind = Payload[t.old][q].kind
    BY <1>1, <2>1, <2>2, <2>3 DEF Cleared, SameKinds, t
  <2> QED
    BY <1>2, <2>1, <2>4 DEF Alike, t
<1> QED
  BY <1>6, <1>7

\* A step of a process keeps the kinds of what any process may ask for.
LEMMA StepIntact ==
  ASSUME Apart, KindsAgree, IntactInv, OwnerInv', NEW p \in Proc, Steps(p),
         \A r \in Proc \ {p} : txn'[r] = txn[r], NEW r \in Proc
  PROVE  Sorted(fs') /\ IntactHeld(txn'[r], fs') /\ IntactKept(Mine[r], txn'[r], fs', db')
<1> DEFINE t == txn[p]
           u == txn'[p]
<1>i. FileInv /\ Sorted(fs)
  BY DEF IntactInv
<1>t. /\ t \in Txn /\ Shape(t) /\ Aims(p, t) /\ db \in Records
      /\ Lists(t) /\ Cleared(t, db) /\ Stashed(t) /\ IntactHeld(t, fs)
  BY <1>i, FileTypes DEF IntactInv
<1>u. u \in Txn /\ db' \in Records
  BY DEF OwnerInv, TypeInv, TypeOK
<1>s. Sorted(fs')
  <2>1. CASE UNCHANGED fs
    BY <1>i, <2>1
  <2>2. CASE Turn(t, u, fs, fs')
    <3> HIDE DEF t, u
    <3> QED
      BY <1>i, <1>t, <1>u, <2>2, TurnSorted
  <2> QED
    BY <2>1, <2>2 DEF Steps
<1>h. IntactHeld(u, fs')
  <2>1. CASE u.pc \notin Working
    BY <2>1 DEF IntactHeld
  <2>2. CASE Turn(t, u, fs, fs')
    <3>1. t.pc \in Working /\ t.op = "upgrade" => SameKinds(t.new, t.old)
      BY <1>t DEF Cleared
    <3>2. t.pc \in Check =>
            \A q \in OldFiles(t) : Exists(fs, q) => Alike(fs[q], Payload[t.old][q])
      BY OldFilesIntact
    <3> HIDE DEF t, u
    <3> QED
      BY <1>t, <1>u, <2>2, <3>1, <3>2, TurnIntact
  <2>3. Commits(t, u, db, db') \/ Killed(t, u, attic, attic') => u.pc \notin Working
    BY DEF Commits, Killed, NoTxn, Working, Change, Undoing
  <2> QED
    BY <2>1, <2>2, <2>3 DEF Steps
<1>1. IntactHeld(txn'[r], fs')
  <2>1. CASE r = p
    BY <1>h, <2>1
  <2>2. CASE r # p
    <3>1. Touched(t, fs, fs')
      BY <1>i, StepTouches DEF OwnerInv
    <3>2. /\ txn[r] \in Txn /\ Shape(txn[r]) /\ Aims(r, txn[r]) /\ Lists(txn[r])
          /\ IntactHeld(txn[r], fs)
      BY <1>i, FileTypes DEF IntactInv
    <3>3. \A q \in OldFiles(txn[r]) \cup NewFiles(txn[r]) : fs'[q] = fs[q]
      BY <1>t, <2>2, <3>1, <3>2, Bystander
    <3>4. txn[r].pc \in Working => txn[r].placed \subseteq NewFiles(txn[r])
      BY <3>2 DEF Lists
    <3> QED
      BY <2>2, <3>2, <3>3, <3>4 DEF IntactHeld, Exists
  <2> QED
    BY <2>1, <2>2
<1>2. IntactKept(Mine[r], txn'[r], fs', db')
  <2> SUFFICES ASSUME NEW n \in Mine[r] \cap Installed(db'), ~WorksOn(txn'[r], n),
                      NEW q \in Files(db'[n]), Exists(fs', q)
               PROVE  Alike(fs'[q], Payload[db'[n]][q])
    BY DEF IntactKept
  <2>0. n \in Name /\ db'[n] \in Pkg
    BY <1>u DEF Installed, Records
  <2>1. CASE r = p /\ n = TargetOf(t) /\ t.pc \in Working
    <3>1. CASE UNCHANGED <<fs, db>> /\ Limit["crash"] # 0
      BY <2>1, <3>1, EndIntact DEF NoKills, Exists
    <3>2. CASE UNCHANGED db /\ Turn(t, u, fs, fs')
      <4>1. Ends(t, u) \/ (SameJob(t, u) /\ u.pc \in Working)
        BY ZenonT(60), <2>1, <3>2
        DEF Turn, Begins, Looks, Enters, Passes, Skips, Stages, Makes, Puts, Unputs,
            Unmakes, Restores, Prunes, SameLists, Working, Change, Undoing, Check
      <4>2. Ends(t, u)
        BY <2>1, <4>1, SameArchives DEF WorksOn
      <4>3. UNCHANGED fs
        BY <2>1, <3>2, <4>2
        DEF Turn, Ends, NoTxn, Skips, Stages, Makes, Puts, Unputs, Unmakes, Restores, Prunes
      <4>4. t.placed = {}
        BY <2>1, <4>2 DEF Ends, Working, Change, Undoing, Check
      <4> QED
        BY <2>1, <3>2, <4>3, <4>4, EndIntact DEF Exists
    <3>3. CASE UNCHANGED fs /\ Commits(t, u, db, db')
      <4>1. CASE t.pc = "register" /\ db' = Registered(db, t.new)
        <5>1. t.new \in Pkg /\ NameOf[t.new] = TargetOf(t) /\ Brings(t)
          BY <1>t, <4>1, ItsArchives DEF Shape, Brings
        <5>2. db'[n] = t.new
          BY <1>t, <2>0, <2>1, <4>1, <5>1 DEF Registered, Records
        <5>3. q \in t.placed
          BY <1>t, <4>1, <5>1, <5>2 DEF Lists, NewFiles
        <5>4. fs[q] = Payload[t.new][q]
          BY <1>t, <2>1, <5>3 DEF IntactHeld
        <5> QED
          BY <3>3, <5>2, <5>4 DEF Alike
      <4>2. CASE t.pc = "unregister" /\ db' = Unregistered(db, TargetOf(t))
        <5>1. db'[n] = NoPkg
          BY <1>t, <2>0, <2>1, <4>2 DEF Unregistered, Records
        <5> QED
          BY <5>1 DEF Installed
      <4> QED
        BY <3>3, <4>1, <4>2 DEF Commits
    <3> QED
      BY <3>1, <3>2, <3>3 DEF Steps
  <2>2. CASE r # p \/ n # TargetOf(t) \/ t.pc \notin Working
    <3>1. db'[n] = db[n] /\ n \in Installed(db)
      <4>1. r # p => n # TargetOf(t) \/ UNCHANGED db
        BY <1>i, RecordChanges DEF Apart
      <4>2. t.pc \notin Working => UNCHANGED db
        BY <1>i, RecordChanges
      <4>3. db'[n] = db[n]
        BY <1>i, <2>0, <2>2, <4>1, <4>2, RecordChanges
      <4> QED
        BY <4>3 DEF Installed
    <3>2. ~WorksOn(txn[r], n)
      BY <2>2 DEF WorksOn
    <3>3. Exists(fs, q) => Alike(fs[q], Payload[db[n]][q])
      BY <3>1, <3>2 DEF IntactInv, IntactKept
    <3>4. fs'[q] = fs[q] \/ fs'[q].kind \in {"none", "d"}
      BY <1>i, <2>2, <3>1, OthersSeen
    <3>5. fs'[q].kind \notin {"none", "d"}
      BY <1>s, <2>0 DEF Sorted, IsDir, Exists
    <3> QED
      BY <3>1, <3>3, <3>4, <3>5 DEF Exists
  <2> QED
    BY <2>1, <2>2
<1> QED
  BY <1>s, <1>1, <1>2

\* The administrator puts regular files where archives have regular files, or nothing.
LEMMA EditSorted ==
  ASSUME KindsAgree, RegularPlaces, IntactInv, NEW q \in Path, Edit(q)
  PROVE  /\ \A r \in Path \ {q} : fs'[r] = fs[r]
         /\ fs'[q] = Absent \/ (fs'[q] = UserNode /\ q \in UserPath)
         /\ Sorted(fs')
<1>1. fs \in Tree
  BY TreeTypes DEF IntactInv, FileInv, OwnerInv, TypeInv, TypeOK
<1>2. /\ \A r \in Path \ {q} : fs'[r] = fs[r]
      /\ fs'[q] = Absent \/ (fs'[q] = UserNode /\ q \in UserPath)
  BY <1>1 DEF Edit, Without, Tree
<1>3. Sorted(fs')
  <2> SUFFICES ASSUME NEW a \in Pkg
               PROVE  /\ \A r \in Files(a) : ~IsDir(fs', r)
                      /\ \A r \in Dirs(a) : fs'[r].kind \in {"none", "d"}
    BY DEF Sorted
  <2>1. Files(a) \subseteq Path /\ Dirs(a) \subseteq Path
    BY PathsOf
  <2>2. /\ \A r \in Files(a) : ~IsDir(fs, r)
        /\ \A r \in Dirs(a) : fs[r].kind \in {"none", "d"}
    BY DEF IntactInv, Sorted
  <2>3. q \in UserPath => q \notin Dirs(a)
    BY DEF RegularPlaces, Entries, Dirs
  <2> QED
    BY <1>2, <2>1, <2>2, <2>3, EnvironmentAssumption DEF IsDir, Absent
<1> QED
  BY <1>2, <1>3

LEMMA EditIntact ==
  ASSUME KindsAgree, RegularPlaces, IntactInv, NEW q \in Path, Edit(q), NEW p \in Proc
  PROVE  IntactHeld(txn'[p], fs') /\ IntactKept(Mine[p], txn'[p], fs', db')
<1>1. txn'[p].pc = "idle" /\ txn' = txn /\ db' = db
  BY DEF Edit, Idle
<1>2. IntactHeld(txn'[p], fs')
  BY <1>1 DEF IntactHeld, Working, Change, Undoing
<1>3. ASSUME NEW n \in Mine[p] \cap Installed(db), NEW r \in Files(db[n]), Exists(fs', r)
      PROVE  Alike(fs'[r], Payload[db[n]][r])
  <2>1. db[n] \in Pkg /\ r \in Path /\ r \in Entries(db[n])
    <3>1. db[n] \in Pkg
      BY FileTypes DEF IntactInv, Records, Installed
    <3> QED
      BY <3>1, PathsOf DEF Files, Entries
  <2>2. ~WorksOn(txn[p], n)
    BY <1>1 DEF WorksOn, Working, Change, Undoing
  <2>3. Exists(fs, r) => Alike(fs[r], Payload[db[n]][r])
    BY <1>3, <2>2 DEF IntactInv, IntactKept
  <2>4. CASE r # q
    BY <1>3, <2>1, <2>3, <2>4, EditSorted DEF Exists
  <2>5. CASE r = q
    <3>1. fs'[r] = UserNode /\ Payload[db[n]][r].kind = "f"
      BY <1>3, <2>1, <2>5, EditSorted DEF Exists, Absent, RegularPlaces
    <3> QED
      BY <3>1, EnvironmentAssumption DEF Alike
  <2> QED
    BY <2>4, <2>5
<1> QED
  BY <1>1, <1>2, <1>3 DEF IntactKept

LEMMA IntactStep ==
  ASSUME Apart, KindsAgree, RegularPlaces \/ NoEdits
  PROVE  IntactInv /\ [Next]_vars => IntactInv'
<1> SUFFICES ASSUME IntactInv, [Next]_vars PROVE IntactInv'
  OBVIOUS
<1>i. FileInv /\ FileInv' /\ OwnerInv' /\ Sorted(fs)
  BY FileStep, WhoSteps DEF IntactInv
<1>1. ASSUME NEW p \in Proc, Steps(p), \A r \in Proc \ {p} : txn'[r] = txn[r]
      PROVE  IntactInv'
  BY <1>i, <1>1, StepIntact DEF IntactInv
<1>2. ASSUME NEW q \in Path, Edit(q) PROVE IntactInv'
  <2>1. RegularPlaces
    BY <1>i, <1>2, NobodyEdits DEF FileInv, OwnerInv
  <2> QED
    BY <1>i, <1>2, <2>1, EditSorted, EditIntact DEF IntactInv
<1>3. CASE UNCHANGED vars
  BY <1>i, <1>3 DEF vars, IntactInv
<1> QED
  BY <1>i, <1>1, <1>2, <1>3, WhoSteps

LEMMA IntactInit == Init => IntactInv
<1> SUFFICES ASSUME Init PROVE IntactInv
  OBVIOUS
<1>1. \A p \in Proc : txn[p].pc = "idle"
  BY DEF Init, NoTxn
<1>2. \A q \in Path : fs[q].kind = "none"
  BY DEF Init, EmptyTree, Absent
<1>3. Sorted(fs)
  BY <1>2, PathsOf DEF Sorted, IsDir
<1>4. Installed(db) = {}
  BY DEF Init, Installed
<1> QED
  BY <1>1, <1>3, <1>4, FileInit DEF IntactInv, IntactHeld, IntactKept, Working, Change, Undoing

\* Between two commands what is there of an installed package is as the database has it.
LEMMA QuietIntact ==
  ASSUME IntactInv, Quiet, NEW n \in Installed(db), NEW q \in Entries(db[n]), Exists(fs, q)
  PROVE  /\ db[n] \in Pkg /\ fs[q].kind = Payload[db[n]][q].kind
         /\ q \in Files(db[n]) => Alike(fs[q], Payload[db[n]][q])
<1>1. FileInv /\ Sorted(fs) /\ db \in Records
  BY FileTypes, TreeTypes DEF IntactInv, FileInv, OwnerInv, TypeInv, TypeOK
<1>2. db[n] \in Pkg /\ n \in Name
  BY <1>1 DEF Records, Installed
<1>3. PICK p \in Proc : n \in Mine[p]
  BY <1>1 DEF FileInv, Housed
<1>4. ~WorksOn(txn[p], n)
  BY DEF Quiet, Idle, WorksOn, Working, Change, Undoing
<1>5. CASE q \in Files(db[n])
  BY <1>2, <1>3, <1>4, <1>5 DEF IntactInv, IntactKept, Alike
<1>6. CASE q \notin Files(db[n])
  <2>1. q \in Dirs(db[n])
    BY <1>2, <1>6, ManifestAssumption DEF Entries, Files, Dirs, Node, Kind
  <2> QED
    BY <1>1, <1>2, <1>6, <2>1 DEF Sorted, Exists, Dirs
<1> QED
  BY <1>2, <1>5, <1>6

\* Whatever is killed and whatever a rollback loses track of: between two commands what is
\* there of an installed package is of the recorded kind, so that the command can be run
\* again; for the checks on the recorded paths ask for no more, but of links.
THEOREM KindsStayIntact ==
  ASSUME Apart, KindsAgree, RegularPlaces \/ NoEdits
  PROVE  Spec => []KindsIntact
<1>1. IntactInv => KindsIntact
  BY QuietIntact DEF KindsIntact
<1> QED
  BY IntactInit, IntactStep, <1>1, PTL DEF Spec

\* Where nothing is killed and every rename is on a list, no command leaves anything in
\* the way of a later one, but the links that a removal took for missing: every installed
\* package passes the checks on its recorded paths, and every archive whose files are not
\* claimed passes the preflight of its install.
THEOREM NothingGetsInTheWay ==
  ASSUME Apart, KindsAgree, RegularPlaces \/ NoEdits, AllTracked, NoKills,
         \A a \in Pkg : Entries(a) # {}
  PROVE  Spec => []NothingInTheWay
<1> DEFINE Inv == IntactInv /\ OrphanInv
<1>1. Init => Inv
  BY IntactInit, OrphanInit
<1>2. Inv /\ [Next]_vars => Inv'
  BY IntactStep, OrphanStep
<1>3. ASSUME Inv, Quiet, NEW n \in Installed(db) PROVE Removable(n)
  <2> SUFFICES ASSUME NEW q \in Entries(db[n])
               PROVE  /\ q \in Files(db[n]) => Owners(db, q) = {n}
                      /\ Exists(fs, q) =>
                           /\ fs[q].kind = Payload[db[n]][q].kind
                           /\ fs[q].kind = "l" => fs[q].tag = Payload[db[n]][q].tag
    BY DEF Removable
  <2>1. FileInv /\ db \in Records /\ Disjoint(db)
    BY <1>3 DEF IntactInv, FileInv, OwnerInv, TypeInv, TypeOK
  <2>2. ASSUME q \in Files(db[n]) PROVE Owners(db, q) = {n}
    <3>1. n \in Owners(db, q)
      BY DEF Owners
    <3>2. ASSUME NEW m \in Owners(db, q), m # n PROVE FALSE
      <4>1. m \in Installed(db) /\ q \in Entries(db[m]) /\ db[m] \in Pkg /\ db[n] \in Pkg
        BY <2>1 DEF Owners, Records, Installed
      <4>2. q \in Files(db[m]) \/ q \in Dirs(db[m])
        BY <4>1, ManifestAssumption DEF Entries, Files, Dirs, Node, Kind
      <4> QED
        BY <2>1, <2>2, <3>2, <4>1, <4>2 DEF Disjoint, KindsAgree
    <3> QED
      BY <3>1, <3>2
  <2>3. ASSUME Exists(fs, q)
        PROVE  /\ fs[q].kind = Payload[db[n]][q].kind
               /\ fs[q].kind = "l" => fs[q].tag = Payload[db[n]][q].tag
    <3>1. /\ fs[q].kind = Payload[db[n]][q].kind
          /\ q \in Files(db[n]) => Alike(fs[q], Payload[db[n]][q])
      BY <1>3, <2>3, QuietIntact
    <3>2. fs[q].kind = "l" => q \in Files(db[n])
      BY <3>1 DEF Entries, Files
    <3> QED
      BY <3>1, <3>2 DEF Alike
  <2> QED
    BY <2>2, <2>3
<1>4. ASSUME Inv, Quiet, NEW a \in Pkg, Unclaimed(a) PROVE InstallPathsFree(a)
  <2>1. Sorted(fs) /\ Files(a) \subseteq Path
    BY <1>4, PathsOf DEF IntactInv
  <2>2. ASSUME NEW q \in Files(a) PROVE Owners(db, q) = {} /\ ~Exists(fs, q)
    <3>1. Owners(db, q) = {} /\ fs[q] # UserNode /\ q \notin missed
      BY <1>4 DEF Unclaimed
    <3>2. fs[q].kind # "d"
      BY <2>1 DEF Sorted, IsDir
    <3>3. fs[q].kind \notin {"f", "l"}
      BY <1>4, <2>1, <3>1, AccountedOwned DEF Loose
    <3>4. fs[q].kind \in Kind
      BY <1>4, <2>1, FileTypes DEF IntactInv, FileInv, OwnerInv, TypeInv, TypeOK, Tree, Node
    <3> QED
      BY <3>1, <3>2, <3>3, <3>4 DEF Exists, Kind
  <2>3. \A q \in Dirs(a) : ~Exists(fs, q) \/ IsDir(fs, q)
    BY <2>1 DEF Sorted, Exists, IsDir
  <2> QED
    BY <2>2, <2>3 DEF InstallPathsFree
<1>5. Inv => NothingInTheWay
  BY <1>3, <1>4 DEF NothingInTheWay
<1> QED
  BY <1>1, <1>2, <1>5, PTL DEF Spec
=============================================================================
