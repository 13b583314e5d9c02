----------------------------- MODULE Transaction -----------------------------
(***************************************************************************)
(* The transaction engine of pux (src/src/transaction.c): installing,      *)
(* removing and upgrading one package.                                     *)
(*                                                                         *)
(* Every command is a process of its own.  Processes share the             *)
(* installation root (fs) and the package database (db) and nothing locks  *)
(* either, so their steps interleave.  A step is one system call that      *)
(* changes the shared state, or one check that only reads it.  The stages  *)
(* of a transaction are the values of pc:                                  *)
(*                                                                         *)
(*   install  depends, preflight,                    dirs, files, register *)
(*   remove   depends, validate,              stage, unregister,     prune *)
(*   upgrade  depends, validate, preflight,   stage, dirs, files,          *)
(*                                                   register,       prune *)
(*                                                                         *)
(* A failure from "stage" or "dirs" on leads to "undo", the rollback.      *)
(***************************************************************************)
EXTENDS FileTree

CONSTANTS
  Proc,      \* the running pux commands
  Mine,      \* Mine[p]: the package names the commands of process p are about
  UserPath,  \* paths at which the administrator may put a file by hand
  UserNode,  \* such a file
  Limit      \* how often each event of the environment may happen

Event == {"fault", "untracked", "crash", "edit"}

ASSUME EnvironmentAssumption ==
  /\ Mine \in [Proc -> SUBSET Name]
  /\ UserPath \subseteq Path
  /\ UserNode \in Node /\ UserNode.kind = "f"
  /\ Limit \in [Event -> Nat]

VARIABLES
  fs,      \* the tree below the installation root
  db,      \* the package database
  txn,     \* txn[p]: the transaction process p is running
  attic,   \* what killed processes left in their staging directories
  deleted, \* history: the paths the administrator deleted by hand
  missed,  \* history: the links a removal took for missing, and left where they were
  spent    \* how often each event has happened

vars == <<fs, db, txn, attic, deleted, missed, spent>>

Check  == {"depends", "validate", "preflight"}
Change == {"stage", "dirs", "files", "register", "unregister"}
Stage  == {"idle", "prune", "undo"} \cup Check \cup Change

\* One transaction: its archive and the record it replaces, the paths the loop
\* of the current stage has still to visit, and what a rollback would need: the
\* files put in place, the directories made, and the files moved to the staging
\* directory.  before is history: the tree as the transaction found it.
Txn == [pc : Stage, op : {"none", "install", "remove", "upgrade"},
        new : Pkg \cup {NoPkg}, old : Pkg \cup {NoPkg},
        todo : SUBSET Path, placed : SUBSET Path, created : SUBSET Path,
        backup : Tree, before : Tree]

EmptyTree == [q \in Path |-> Absent]
NoTxn == [pc |-> "idle", op |-> "none", new |-> NoPkg, old |-> NoPkg,
          todo |-> {}, placed |-> {}, created |-> {},
          backup |-> EmptyTree, before |-> EmptyTree]

TypeOK ==
  /\ fs \in Tree
  /\ db \in Records
  /\ txn \in [Proc -> Txn]
  /\ attic \subseteq Path \X Node
  /\ deleted \subseteq Path
  /\ missed \subseteq Path
  /\ spent \in [Event -> Nat]

Init ==
  /\ fs = EmptyTree
  /\ db = [n \in Name |-> NoPkg]
  /\ txn = [p \in Proc |-> NoTxn]
  /\ attic = {}
  /\ deleted = {}
  /\ missed = {}
  /\ spent = [e \in Event |-> 0]

-----------------------------------------------------------------------------
\* Helpers

Idle(p)     == txn[p].pc = "idle"
Target(p)   == IF txn[p].op = "remove" THEN NameOf[txn[p].old] ELSE NameOf[txn[p].new]
BackedUp(p) == {q \in Path : Exists(txn[p].backup, q)}

Begin(p, op, new, old) ==
  txn' = [txn EXCEPT ![p] = [NoTxn EXCEPT !.pc = "depends", !.op = op,
                                          !.new = new, !.old = old, !.before = fs]]

\* Go on to a loop over the given paths.
Enter(p, stage, paths) == txn' = [txn EXCEPT ![p].pc = stage, ![p].todo = paths]

\* The process ends; the staging directory goes with it (remove_tree).
End(p) == txn' = [txn EXCEPT ![p] = NoTxn]

\* Faulty variant: a command that fails just ends.
UndoNothing(p) == End(p)

Undo(p) == Enter(p, "undo", {})

\* Take one more of the events the environment may cause.
Spend(e) == spent[e] < Limit[e] /\ spent' = [spent EXCEPT ![e] = @ + 1]

\* The path the loop takes next: records are read back sorted by path
\* (compare_file_entries); pux_remove_package sorts them the other way round
\* (compare_paths_desc), and so do both loops that prune directories.
First(paths, q) == q \in paths /\ \A r \in paths : Rank[q] <= Rank[r]
Last(paths, q)  == q \in paths /\ \A r \in paths : Rank[r] <= Rank[q]

-----------------------------------------------------------------------------
\* Beginning a command, and the checks made before anything is changed

\* pux_install_package: refused while the name has a record.
InstallBegin(p, a) ==
  /\ Idle(p)
  /\ db[NameOf[a]] = NoPkg
  /\ Begin(p, "install", a, NoPkg)
  /\ UNCHANGED <<fs, db, attic, deleted, missed, spent>>

\* pux_remove_package: the record has to be there.
RemoveBegin(p, n) ==
  /\ Idle(p)
  /\ db[n] # NoPkg
  /\ Begin(p, "remove", NoPkg, db[n])
  /\ UNCHANGED <<fs, db, attic, deleted, missed, spent>>

\* Faulty variant: any version will do.
UpgradeBeginAnyVersion(p, a) ==
  /\ Idle(p)
  /\ db[NameOf[a]] # NoPkg
  /\ Begin(p, "upgrade", a, db[NameOf[a]])
  /\ UNCHANGED <<fs, db, attic, deleted, missed, spent>>

\* pux_upgrade_package: of an installed package, to a newer archive.
UpgradeBegin(p, a) ==
  /\ Idle(p)
  /\ db[NameOf[a]] # NoPkg
  /\ Newer(a, db[NameOf[a]])
  /\ Begin(p, "upgrade", a, db[NameOf[a]])
  /\ UNCHANGED <<fs, db, attic, deleted, missed, spent>>

DependencyCheck(p) ==
  CASE txn[p].op = "install" -> DependenciesMet(db, txn[p].new)
    [] txn[p].op = "remove"  -> ~HasReverseDependency(db, txn[p].old)
    [] OTHER -> /\ ReplacementMet(db, txn[p].new, txn[p].old)
                /\ DependentsMet(db, txn[p].new, txn[p].old)
                /\ ConflictFree(db, txn[p].new, txn[p].old)

CheckDependencies(p) ==
  /\ txn[p].pc = "depends"
  /\ IF DependencyCheck(p)
     THEN Enter(p, IF txn[p].op = "install" THEN "preflight" ELSE "validate", {})
     ELSE End(p)
  /\ UNCHANGED <<fs, db, attic, deleted, missed, spent>>

\* pux_db_find_owner may find another owner of one of the files first, also where
\* the package owns it too.
AnotherOwnerFound(p, files) == \E q \in files : OwnedElsewhere(db, q, Target(p))

\* validate_removal_paths: what the record lists is owned (files and links by
\* this package) and, where it is still there, is of the recorded kind; a link
\* has the recorded target.
RecordedPathsIntact(p) ==
  LET old == txn[p].old IN
  \A q \in Entries(old) :
    /\ Owners(db, q) # {}
    /\ \/ ~Exists(fs, q)
       \/ /\ fs[q].kind = Payload[old][q].kind
          /\ fs[q].kind = "l" => fs[q].tag = Payload[old][q].tag

OwnerFound(p) ==
  \A q \in Files(txn[p].old) : Target(p) \in Owners(db, q)

ValidateOld(p) ==
  /\ txn[p].pc = "validate"
  /\ \/ IF ~RecordedPathsIntact(p) \/ ~OwnerFound(p) THEN End(p)
        ELSE IF txn[p].op = "remove" THEN Enter(p, "stage", Files(txn[p].old))
        ELSE Enter(p, "preflight", {})
     \/ /\ AnotherOwnerFound(p, Files(txn[p].old))
        /\ End(p)
  /\ UNCHANGED <<fs, db, attic, deleted, missed, spent>>

\* Faulty variant: only what is on disk counts.
InstallPathsFreeOnDisk(a) ==
  /\ Entries(a) # {}
  /\ \A q \in Files(a) : ~Exists(fs, q)
  /\ \A q \in Dirs(a) : ~Exists(fs, q) \/ IsDir(fs, q)

\* preflight_paths, once the payload is extracted (collect_tree finds at least
\* one entry): no file of it is owned, nothing but directories is in the way.
InstallPathsFree(a) ==
  /\ Entries(a) # {}
  /\ \A q \in Files(a) : Owners(db, q) = {} /\ ~Exists(fs, q)
  /\ \A q \in Dirs(a) : ~Exists(fs, q) \/ IsDir(fs, q)

\* Faulty variant: an upgrade looks at no kinds.
UpgradePathsFreeOfOwners(new, old) ==
  /\ Entries(new) # {}
  /\ \A q \in Files(new) : Owners(db, q) = {} \/ NameOf[old] \in Owners(db, q)

\* The same of an upgrade: the owner found of a file is the package itself,
\* whatever is in the way is of the new kind, and no path of the old payload
\* changes its kind.
UpgradePathsFree(new, old) ==
  /\ Entries(new) # {}
  /\ \A q \in Files(new) : Owners(db, q) = {} \/ NameOf[old] \in Owners(db, q)
  /\ \A q \in Entries(new) : Exists(fs, q) => fs[q].kind = Payload[new][q].kind
  /\ \A q \in Entries(new) \cap Entries(old) : Payload[new][q].kind = Payload[old][q].kind

PathsFree(p) ==
  IF txn[p].op = "install" THEN InstallPathsFree(txn[p].new)
                           ELSE UpgradePathsFree(txn[p].new, txn[p].old)

\* Faulty variant: an upgrade renames the new files over the old ones.
PreflightInPlace(p) ==
  /\ txn[p].pc = "preflight"
  /\ IF PathsFree(p) THEN Enter(p, "dirs", Dirs(txn[p].new)) ELSE End(p)
  /\ UNCHANGED <<fs, db, attic, deleted, missed, spent>>

Preflight(p) ==
  /\ txn[p].pc = "preflight"
  /\ \/ IF ~PathsFree(p) THEN End(p)
        ELSE IF txn[p].op = "install" THEN Enter(p, "dirs", Dirs(txn[p].new))
        ELSE Enter(p, "stage", Files(txn[p].old))
     \/ /\ AnotherOwnerFound(p, Files(txn[p].new))
        /\ End(p)
  /\ UNCHANGED <<fs, db, attic, deleted, missed, spent>>

-----------------------------------------------------------------------------
\* Moving the old files to the staging directory (remove and upgrade)

\* What the loop finds at a path.  An upgrade looks with lstat; a removal asks
\* access, which follows a link: one whose target is gone counts as missing, one
\* that leads nowhere (ELOOP) as an error.
Found(p, q) ==
  IF txn[p].op = "upgrade" \/ fs[q].kind # "l" THEN fs[q].kind ELSE fs[Follow(fs, q)].kind

StageOld(p, q) ==
  /\ txn[p].pc = "stage"
  /\ IF txn[p].op = "remove" THEN Last(txn[p].todo, q) ELSE First(txn[p].todo, q)
  /\ \/ /\ Found(p, q) = "none"
        /\ txn' = [txn EXCEPT ![p].todo = @ \ {q}]
        /\ missed' = IF Exists(fs, q) THEN missed \cup {q} ELSE missed
        /\ UNCHANGED fs
     \/ /\ Found(p, q) = "l" /\ txn[p].op = "remove"
        /\ Undo(p)
        /\ UNCHANGED <<fs, missed>>
     \/ /\ Found(p, q) # "none" /\ ~(Found(p, q) = "l" /\ txn[p].op = "remove")
        /\ txn' = [txn EXCEPT ![p].todo = @ \ {q}, ![p].backup[q] = fs[q]]
        /\ fs' = Without(fs, q)
        /\ missed' = missed \ {q}
  /\ UNCHANGED <<db, attic, deleted, spent>>

OldStaged(p) ==
  /\ txn[p].pc = "stage"
  /\ txn[p].todo = {}
  /\ IF txn[p].op = "remove" THEN Enter(p, "unregister", {})
                             ELSE Enter(p, "dirs", Dirs(txn[p].new))
  /\ UNCHANGED <<fs, db, attic, deleted, missed, spent>>

-----------------------------------------------------------------------------
\* Putting the new payload in place (install and upgrade)

\* Faulty variant: a directory that cannot be made is tried again.
PlaceDirAgain(p, q) ==
  /\ txn[p].pc = "dirs"
  /\ q \in txn[p].todo /\ Above[q] \cap txn[p].todo = {}
  /\ \/ /\ IsDir(fs, q)
        /\ txn' = [txn EXCEPT ![p].todo = @ \ {q}]
        /\ UNCHANGED fs
     \/ /\ CanMkdir(fs, q)
        /\ txn' = [txn EXCEPT ![p].todo = @ \ {q}, ![p].created = @ \cup {q}]
        /\ fs' = [fs EXCEPT ![q] = Dir]
  /\ UNCHANGED <<db, attic, deleted, missed, spent>>

\* Pass 0 makes the missing directories, parents before children.
PlaceDir(p, q) ==
  /\ txn[p].pc = "dirs"
  /\ q \in txn[p].todo /\ Above[q] \cap txn[p].todo = {}
  /\ \/ /\ IsDir(fs, q)
        /\ txn' = [txn EXCEPT ![p].todo = @ \ {q}]
        /\ UNCHANGED fs
     \/ /\ CanMkdir(fs, q)
        /\ txn' = [txn EXCEPT ![p].todo = @ \ {q}, ![p].created = @ \cup {q}]
        /\ fs' = [fs EXCEPT ![q] = Dir]
     \/ /\ ~IsDir(fs, q) /\ ~CanMkdir(fs, q)
        /\ Undo(p)
        /\ UNCHANGED fs
  /\ UNCHANGED <<db, attic, deleted, missed, spent>>

DirsPlaced(p) ==
  /\ txn[p].pc = "dirs"
  /\ txn[p].todo = {}
  /\ Enter(p, "files", Files(txn[p].new))
  /\ UNCHANGED <<fs, db, attic, deleted, missed, spent>>

\* Pass 1 renames the files and links to their destinations.
PlaceFile(p, q) ==
  /\ txn[p].pc = "files"
  /\ q \in txn[p].todo
  /\ \/ /\ CanPut(fs, q)
        /\ txn' = [txn EXCEPT ![p].todo = @ \ {q}, ![p].placed = @ \cup {q}]
        /\ fs' = Put(fs, q, Payload[txn[p].new][q])
        /\ missed' = missed \ {q}
     \/ /\ ~CanPut(fs, q)
        /\ Undo(p)
        /\ UNCHANGED <<fs, missed>>
  /\ UNCHANGED <<db, attic, deleted, spent>>

\* moved_append fails after the rename or the mkdir (it copies the path, so it
\* can run out of memory): what has just been put in place is not on the list
\* the rollback works from.
PlaceUntracked(p, q) ==
  /\ q \in txn[p].todo
  /\ \/ /\ txn[p].pc = "dirs" /\ Above[q] \cap txn[p].todo = {} /\ CanMkdir(fs, q)
        /\ fs' = [fs EXCEPT ![q] = Dir]
     \/ /\ txn[p].pc = "files" /\ CanPut(fs, q)
        /\ fs' = Put(fs, q, Payload[txn[p].new][q])
  /\ missed' = missed \ {q}
  /\ Spend("untracked")
  /\ Undo(p)
  /\ UNCHANGED <<db, attic, deleted>>

FilesPlaced(p) ==
  /\ txn[p].pc = "files"
  /\ txn[p].todo = {}
  /\ Enter(p, "register", {})
  /\ UNCHANGED <<fs, db, attic, deleted, missed, spent>>

-----------------------------------------------------------------------------
\* The commit, and the directories that are left over

\* pux_db_register_package commits an install or an upgrade.
Register(p) ==
  /\ txn[p].pc = "register"
  /\ db' = Registered(db, txn[p].new)
  /\ IF txn[p].op = "install" THEN End(p)
     ELSE Enter(p, "prune", Dirs(txn[p].old) \ Dirs(txn[p].new))
  /\ UNCHANGED <<fs, attic, deleted, missed, spent>>

\* pux_db_unregister_package commits a removal; it fails when the record is gone.
Unregister(p) ==
  /\ txn[p].pc = "unregister"
  /\ \/ /\ db[Target(p)] # NoPkg
        /\ db' = Unregistered(db, Target(p))
        /\ Enter(p, "prune", Dirs(txn[p].old))
     \/ /\ db[Target(p)] = NoPkg
        /\ Undo(p)
        /\ UNCHANGED db
  /\ UNCHANGED <<fs, attic, deleted, missed, spent>>

\* Empty directories no other package records are removed, deepest first.
Prune(p, q) ==
  /\ txn[p].pc = "prune"
  /\ Last(txn[p].todo, q)
  /\ fs' = IF OwnedElsewhere(db, q, Target(p)) THEN fs ELSE Rmdir(fs, q)
  /\ txn' = [txn EXCEPT ![p].todo = @ \ {q}]
  /\ UNCHANGED <<db, attic, deleted, missed, spent>>

Pruned(p) ==
  /\ txn[p].pc = "prune"
  /\ txn[p].todo = {}
  /\ End(p)
  /\ UNCHANGED <<fs, db, attic, deleted, missed, spent>>

-----------------------------------------------------------------------------
\* Rollback: rollback_transaction, and the rollback_remove and upgrade_rollback
\* parts of the other two.  New files go first, then new directories (deepest
\* first), then the old files come back.  Errors on the way are ignored.

UndoFile(p, q) ==
  /\ txn[p].pc = "undo"
  /\ q \in txn[p].placed
  /\ fs' = Unlink(fs, q)
  /\ txn' = [txn EXCEPT ![p].placed = @ \ {q}]
  /\ missed' = missed \ {q}
  /\ UNCHANGED <<db, attic, deleted, spent>>

\* Faulty variant: directories are removed while they still hold files.
UndoDirTooEarly(p, q) ==
  /\ txn[p].pc = "undo"
  /\ q \in txn[p].created
  /\ fs' = Rmdir(fs, q)
  /\ txn' = [txn EXCEPT ![p].created = @ \ {q}]
  /\ UNCHANGED <<db, attic, deleted, missed, spent>>

UndoDir(p, q) ==
  /\ txn[p].pc = "undo"
  /\ txn[p].placed = {}
  /\ q \in txn[p].created /\ \A r \in txn[p].created : q \notin Above[r]
  /\ fs' = Rmdir(fs, q)
  /\ txn' = [txn EXCEPT ![p].created = @ \ {q}]
  /\ UNCHANGED <<db, attic, deleted, missed, spent>>

\* A file that cannot be moved back goes with the staging directory.
UndoBackup(p, q) ==
  /\ txn[p].pc = "undo"
  /\ txn[p].placed = {} /\ txn[p].created = {}
  /\ q \in BackedUp(p)
  /\ fs' = IF CanPut(fs, q) THEN Put(fs, q, txn[p].backup[q]) ELSE fs
  /\ txn' = [txn EXCEPT ![p].backup[q] = Absent]
  /\ missed' = missed \ {q}
  /\ UNCHANGED <<db, attic, deleted, spent>>

Undone(p) ==
  /\ txn[p].pc = "undo"
  /\ txn[p].placed = {} /\ txn[p].created = {} /\ BackedUp(p) = {}
  /\ End(p)
  /\ UNCHANGED <<fs, db, attic, deleted, missed, spent>>

-----------------------------------------------------------------------------
\* The environment

\* A system call or an allocation fails before it has changed anything.  While
\* the command only checks or stages (pux_package_archive_extract among it) the
\* process gives up; from its first change on it rolls back.
Fault(p) ==
  /\ \/ txn[p].pc \in Check /\ End(p)
     \/ txn[p].pc \in Change /\ Undo(p)
  /\ Spend("fault")
  /\ UNCHANGED <<fs, db, attic, deleted, missed>>

\* Faulty variant: the staging directory goes with the process.
CrashAndTidy(p) ==
  /\ ~Idle(p)
  /\ End(p)
  /\ Spend("crash")
  /\ UNCHANGED <<fs, db, attic, deleted, missed>>

\* The process is killed.  Its staging directory stays, with the old files that
\* were moved there; nothing ever looks at it again.
Crash(p) ==
  /\ ~Idle(p)
  /\ attic' = attic \cup {<<q, txn[p].backup[q]>> : q \in BackedUp(p)}
  /\ End(p)
  /\ Spend("crash")
  /\ UNCHANGED <<fs, db, deleted, missed>>

\* Between two commands the administrator puts a file of his own at a free path
\* or deletes a file or link.
Edit(q) ==
  /\ \A p \in Proc : Idle(p)
  /\ \/ /\ q \in UserPath /\ CanMkdir(fs, q)
        /\ fs' = [fs EXCEPT ![q] = UserNode]
        /\ deleted' = deleted \ {q}
     \/ /\ fs[q].kind \in {"f", "l"}
        /\ fs' = Without(fs, q)
        /\ deleted' = deleted \cup {q}
  /\ missed' = missed \ {q}
  /\ Spend("edit")
  /\ UNCHANGED <<db, txn, attic>>

-----------------------------------------------------------------------------
\* The specification

Command(p) ==
  \/ \E a \in Pkg : NameOf[a] \in Mine[p] /\ (InstallBegin(p, a) \/ UpgradeBegin(p, a))
  \/ \E n \in Mine[p] : RemoveBegin(p, n)

\* What a running command does of its own accord.
Work(p) ==
  \/ CheckDependencies(p) \/ ValidateOld(p) \/ Preflight(p)
  \/ OldStaged(p) \/ DirsPlaced(p) \/ FilesPlaced(p)
  \/ Register(p) \/ Unregister(p) \/ Pruned(p) \/ Undone(p)
  \/ \E q \in Path :
       \/ StageOld(p, q) \/ PlaceDir(p, q) \/ PlaceFile(p, q) \/ Prune(p, q)
       \/ UndoFile(p, q) \/ UndoDir(p, q) \/ UndoBackup(p, q)

Environment(p) == Fault(p) \/ Crash(p) \/ \E q \in Path : PlaceUntracked(p, q)

Next ==
  \/ \E p \in Proc : Command(p) \/ Work(p) \/ Environment(p)
  \/ \E q \in Path : Edit(q)

\* A running command is a process the system schedules: it goes on until it
\* ends or is killed.  Nobody has to start one.
Fairness == \A p \in Proc : WF_vars(Work(p))

Spec == Init /\ [][Next]_vars
FairSpec == Spec /\ Fairness

-----------------------------------------------------------------------------
\* Properties

\* No command is running.
Quiet == \A p \in Proc : Idle(p)

\* A package is settled when it is installed and no command is working on it.
Settled(n) == n \in Installed(db) /\ \A p \in Proc : ~Idle(p) => Target(p) # n

\* No two installed packages record the same file or link (the preflight checks
\* of install and upgrade, which look at the database long before they commit).
UniqueOwner ==
  \A m, n \in Installed(db) : m # n => Files(db[m]) \cap Files(db[n]) = {}

\* The dependencies of every installed package are met by installed packages
\* (dependency_check, pux_db_find_reverse_dependency and the upgrade checks).
DependenciesClosed ==
  \A n \in Installed(db) : \A dep \in Depends[db[n]] : DependencySatisfied(db, dep)

\* Every file and link of a settled package is in place as the package shipped
\* it, unless the administrator deleted it: no rollback and no command for
\* another package has touched it.
RecordedFilesPresent ==
  \A n \in Name : Settled(n) =>
    \A q \in Files(db[n]) : fs[q] = Payload[db[n]][q] \/ q \in deleted

\* Between two commands a regular file below the root is recorded by a package
\* or the administrator's own: removals, upgrades and rollbacks leave none.
NoOrphanFiles ==
  Quiet => \A q \in Path : fs[q].kind = "f" => Owners(db, q) # {} \/ fs[q] = UserNode

\* Between two commands every symbolic link is recorded by a package: a removal
\* removes the links of the package as well.
NoOrphanLinks ==
  Quiet => \A q \in Path : fs[q].kind = "l" => Owners(db, q) # {}

\* The checks a removal or an upgrade of package n makes on the recorded paths
\* (validate_removal_paths) would pass.
Removable(n) == \A q \in Entries(db[n]) :
  /\ q \in Files(db[n]) => Owners(db, q) = {n}
  /\ Exists(fs, q) => /\ fs[q].kind = Payload[db[n]][q].kind
                      /\ fs[q].kind = "l" => fs[q].tag = Payload[db[n]][q].tag

\* No package owns a file of archive a, no file of the administrator is in its way, and
\* no link that a removal took for missing, because its target had gone first, and left.
Unclaimed(a) == \A q \in Files(a) :
  Owners(db, q) = {} /\ fs[q] # UserNode /\ q \notin missed

\* Between two commands nothing that an earlier one has left is in the way of a later
\* one: no installed package is stuck, and the preflight of the install of an archive
\* whose paths are not claimed passes.  The links a removal leaves (NoOrphanLinks) are
\* the one exception: they make it refuse the very package that brought them.
NothingInTheWay ==
  Quiet => /\ \A n \in Installed(db) : Removable(n)
           /\ \A a \in Pkg : Unclaimed(a) => InstallPathsFree(a)

\* What a crash leaves of this: between two commands every recorded path is of the
\* recorded kind, so that the command can be run again, unless it is a link that a
\* killed upgrade had already replaced by one to another target.
KindsIntact ==
  Quiet => \A n \in Installed(db) : \A q \in Entries(db[n]) :
    Exists(fs, q) => fs[q].kind = Payload[db[n]][q].kind

\* Whatever is killed, and when: the shipped contents of every recorded file are
\* in place, or in the staging directory of a running or a killed command.
NothingLost ==
  \A n \in Installed(db) : \A q \in Files(db[n]) :
    LET node == Payload[db[n]][q] IN
    \/ fs[q] = node
    \/ <<q, node>> \in attic
    \/ \E p \in Proc : txn[p].backup[q] = node

\* The command of p ends in this step without having committed.
GivesUp(p) ==
  /\ ~Idle(p) /\ Idle(p)' /\ txn[p].pc # "prune"
  /\ spent'["crash"] = spent["crash"] /\ db' = db

\* A command that fails leaves the tree as it found it.
FailureRestores ==
  [][\A p \in Proc : GivesUp(p) => fs' = txn[p].before]_vars

\* The same, but for what no package records at a path where an upgrade brings a
\* new file: the administrator's own, or a link a removal left.
FailureRestoresOwned ==
  [][\A p \in Proc : GivesUp(p) =>
       \A q \in Path :
         \/ fs'[q] = txn[p].before[q]
         \/ txn[p].op = "upgrade" /\ q \in Files(txn[p].new) /\ Owners(db, q) = {}]_vars

\* An upgrade never brings in a conflict with another installed package.
Conflict(a, b) ==
  \/ \E c \in Conflicts[a] : HasCapability(b, c.cap)
  \/ \E c \in Conflicts[b] : HasCapability(a, c.cap)
UpgradeKeepsPeace ==
  [][\A n \in Installed(db) : db'[n] \notin {db[n], NoPkg} =>
       \A m \in Installed(db) \ {n} : ~Conflict(db'[n], db[m])]_vars

\* Every command ends: it commits, gives up or is killed.
Terminates == \A p \in Proc : ~Idle(p) ~> Idle(p)

-----------------------------------------------------------------------------
\* Refinement.  Seen from outside, a command changes the database and the files
\* in one step, that of its commit, and a command that fails changes nothing.

\* What a reader sees of a tree: its files and links.
Plain(t) == [q \in Path |-> IF IsDir(t, q) THEN Absent ELSE t[q]]

\* The processes that run a command and have not committed.
Uncommitted == {p \in Proc : txn[p].pc \notin {"idle", "prune"}}

\* What a reader takes the tree to be: that before the command that is running,
\* until it commits.
CommittedTree ==
  Plain(IF Uncommitted = {} THEN fs ELSE txn[CHOOSE p \in Uncommitted : TRUE].before)

Store == INSTANCE PackageStore WITH store <- db, tree <- CommittedTree

\* The engine implements the abstract store (one command at a time, no crash).
Atomic == Store!Spec

=============================================================================
