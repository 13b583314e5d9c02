--------------------------- MODULE TransactionProofs ---------------------------
(***************************************************************************)
(* Theorems about the transaction engine, for every set of packages, paths *)
(* and processes: types, owners and dependencies; then trees, what a       *)
(* rollback restores, and that a lone command is atomic.                   *)
(***************************************************************************)
EXTENDS Transaction, TLAPS

-----------------------------------------------------------------------------
\* Type correctness

\* Which stages belong to which operation, and what a transaction is about.
Shape(t) ==
  /\ t.pc # "idle" => t.op # "none"
  /\ t.op \in {"install", "upgrade"} => t.new \in Pkg
  /\ t.op \in {"remove", "upgrade"} => t.old \in Pkg
  /\ t.pc \in {"validate", "stage"} => t.op \in {"remove", "upgrade"}
  /\ t.pc \in {"preflight", "dirs", "files", "register"} => t.op \in {"install", "upgrade"}
  /\ t.pc = "unregister" => t.op = "remove"

TypeInv == TypeOK /\ \A p \in Proc : Shape(txn[p])

\* A node made by mkdir and the absence of a node are nodes.
LEMMA NodesAreNodes == Absent \in Node /\ Dir \in Node
BY NamesAssumption DEF Absent, Dir, Node, Kind

\* What an archive holds at a path is a node, and its name is a name.
LEMMA ArchiveTypes ==
  ASSUME NEW a \in Pkg
  PROVE  /\ NameOf[a] \in Name
         /\ \A q \in Path : Payload[a][q] \in Node
         /\ Files(a) \subseteq Path /\ Dirs(a) \subseteq Path
BY ManifestAssumption DEF Files, Dirs

\* Every system call takes a tree to a tree.
LEMMA TreeOperations ==
  ASSUME NEW t \in Tree, NEW q \in Path
  PROVE  /\ Without(t, q) \in Tree
         /\ Unlink(t, q) \in Tree
         /\ Rmdir(t, q) \in Tree
         /\ \A n \in Node : Put(t, q, n) \in Tree
         /\ \A n \in Node : [t EXCEPT ![q] = n] \in Tree
<1>1. Without(t, q) \in Tree
  BY NodesAreNodes DEF Tree, Without
<1>2. WithParents(t, q) \in Tree
  BY NodesAreNodes DEF Tree, WithParents
<1>3. \A n \in Node : Put(t, q, n) \in Tree
  BY <1>2 DEF Tree, Put
<1> QED
  BY <1>1, <1>3 DEF Tree, Unlink, Rmdir

\* The transaction of an idle process is a proper one.
LEMMA NoTxnTypes == NoTxn \in Txn /\ Shape(NoTxn)
<1>1. EmptyTree \in Tree
  BY NodesAreNodes DEF EmptyTree, Tree
<1> QED
  BY <1>1 DEF NoTxn, Txn, Shape, Stage, Check, Change

\* A step that replaces one transaction by a proper one keeps them all proper.
LEMMA OneTransaction ==
  ASSUME TypeInv, NEW p \in Proc, NEW t \in Txn, Shape(t), txn' = [txn EXCEPT ![p] = t]
  PROVE  txn' \in [Proc -> Txn] /\ \A r \in Proc : Shape(txn'[r])
BY DEF TypeInv, TypeOK

\* Where a command ends (every return of the three functions) the transactions
\* stay proper ones.
LEMMA EndTypes ==
  ASSUME TypeInv, NEW p \in Proc, End(p)
  PROVE  txn' \in [Proc -> Txn] /\ \A r \in Proc : Shape(txn'[r])
BY NoTxnTypes, OneTransaction DEF End

\* So they do where a command goes on to a stage that its kind of command has.
LEMMA EnterTypes ==
  ASSUME TypeInv, NEW p \in Proc, NEW stage \in Stage, NEW paths \in SUBSET Path,
         Enter(p, stage, paths), txn[p].op # "none",
         stage \in {"validate", "stage"} => txn[p].op \in {"remove", "upgrade"},
         stage \in {"preflight", "dirs", "files", "register"} => txn[p].op \in {"install", "upgrade"},
         stage = "unregister" => txn[p].op = "remove"
  PROVE  txn' \in [Proc -> Txn] /\ \A r \in Proc : Shape(txn'[r])
<1> DEFINE t == [txn[p] EXCEPT !.pc = stage, !.todo = paths]
<1>1. txn[p] \in Txn /\ Shape(txn[p])
  BY DEF TypeInv, TypeOK
<1>2. t \in Txn /\ Shape(t)
  BY <1>1 DEF Txn, Shape
<1>3. txn' = [txn EXCEPT ![p] = t]
  BY DEF Enter, TypeInv, TypeOK
<1> QED
  BY <1>2, <1>3, OneTransaction

\* So they do where it turns to its rollback.
LEMMA UndoTypes ==
  ASSUME TypeInv, NEW p \in Proc, Undo(p), txn[p].pc # "idle"
  PROVE  txn' \in [Proc -> Txn] /\ \A r \in Proc : Shape(txn'[r])
<1>1. txn[p].op # "none"
  BY DEF TypeInv, Shape
<1> QED
  BY <1>1, EnterTypes DEF Undo, Stage

\* So they do where a command starts.
LEMMA BeginTypes ==
  ASSUME TypeInv, NEW p \in Proc, NEW op \in {"install", "remove", "upgrade"},
         NEW new \in Pkg \cup {NoPkg}, NEW old \in Pkg \cup {NoPkg}, Begin(p, op, new, old),
         op \in {"install", "upgrade"} => new \in Pkg,
         op \in {"remove", "upgrade"} => old \in Pkg
  PROVE  txn' \in [Proc -> Txn] /\ \A r \in Proc : Shape(txn'[r])
<1> DEFINE t == [NoTxn EXCEPT !.pc = "depends", !.op = op, !.new = new, !.old = old,
                              !.before = fs]
<1>1. t \in Txn /\ Shape(t)
  BY NoTxnTypes DEF NoTxn, Txn, Shape, Stage, Check, TypeInv, TypeOK
<1> QED
  BY <1>1, OneTransaction DEF Begin

\* A turn of one of the loops: only the lists the loops work on change.
LEMMA LoopTypes ==
  ASSUME TypeInv, NEW p \in Proc, NEW t \in Txn, txn' = [txn EXCEPT ![p] = t],
         t.pc = txn[p].pc, t.op = txn[p].op, t.new = txn[p].new, t.old = txn[p].old
  PROVE  txn' \in [Proc -> Txn] /\ \A r \in Proc : Shape(txn'[r])
<1>1. Shape(t)
  BY DEF TypeInv, TypeOK, Shape
<1> QED
  BY <1>1, OneTransaction

\* The program starts with variables of their types.
LEMMA TypeInit == Init => TypeInv
BY NodesAreNodes, NoTxnTypes
DEF Init, TypeInv, TypeOK, EmptyTree, Tree, Records

\* Every step keeps the variables of their types; the shape of a transaction (which
\* stages each kind of command has, what it carries) is what makes this inductive.
LEMMA TypeStep == TypeInv /\ [Next]_vars => TypeInv'
<1> SUFFICES ASSUME TypeInv, [Next]_vars PROVE TypeInv'
  OBVIOUS
<1> USE DEF TypeInv
<1>ty. /\ fs \in Tree /\ db \in Records /\ txn \in [Proc -> Txn]
       /\ attic \subseteq Path \X Node /\ deleted \subseteq Path /\ missed \subseteq Path
       /\ spent \in [Event -> Nat]
  BY DEF TypeOK
<1>tx. ASSUME NEW p \in Proc
       PROVE  /\ txn[p].todo \in SUBSET Path /\ txn[p].placed \in SUBSET Path
              /\ txn[p].created \in SUBSET Path /\ txn[p].backup \in Tree
              /\ txn[p].new \in Pkg \cup {NoPkg} /\ txn[p].old \in Pkg \cup {NoPkg}
              /\ txn[p].op \in {"none", "install", "remove", "upgrade"}
  BY <1>ty DEF Txn
<1>sp. ASSUME NEW e \in Event, Spend(e) PROVE spent' \in [Event -> Nat]
  BY <1>ty, <1>sp DEF Spend
<1>fd. ASSUME NEW a \in Pkg PROVE Files(a) \in SUBSET Path /\ Dirs(a) \in SUBSET Path
  BY ArchiveTypes
<1>vt. ASSUME NEW p \in Proc, NEW q \in Path, txn' = [txn EXCEPT ![p].todo = @ \ {q}]
       PROVE  txn' \in [Proc -> Txn] /\ \A r \in Proc : Shape(txn'[r])
  <2> DEFINE t == [txn[p] EXCEPT !.todo = @ \ {q}]
  <2>1. t \in Txn
    BY <1>ty DEF Txn
  <2> QED
    BY <1>vt, <2>1, <1>ty, LoopTypes DEF Txn
<1>1. ASSUME NEW p \in Proc, NEW a \in Pkg, NameOf[a] \in Mine[p], InstallBegin(p, a)
      PROVE  TypeInv'
  BY <1>1, <1>ty, BeginTypes DEF InstallBegin, TypeOK
<1>2. ASSUME NEW p \in Proc, NEW a \in Pkg, NameOf[a] \in Mine[p], UpgradeBegin(p, a)
      PROVE  TypeInv'
  <2>1. db[NameOf[a]] \in Pkg
    BY <1>2, <1>ty, ArchiveTypes DEF UpgradeBegin, Records
  <2> QED
    BY <1>2, <2>1, <1>ty, BeginTypes DEF UpgradeBegin, TypeOK
<1>3. ASSUME NEW p \in Proc, NEW n \in Mine[p], RemoveBegin(p, n)
      PROVE  TypeInv'
  <2>1. db[n] \in Pkg
    BY <1>3, <1>ty, EnvironmentAssumption DEF RemoveBegin, Records
  <2> QED
    BY <1>3, <2>1, <1>ty, BeginTypes DEF RemoveBegin, TypeOK
<1>4. ASSUME NEW p \in Proc, CheckDependencies(p)
      PROVE  TypeInv'
  <2>1. txn[p].op # "none"
    BY <1>4 DEF CheckDependencies, Shape
  <2>2. txn' \in [Proc -> Txn] /\ \A r \in Proc : Shape(txn'[r])
    <3>1. CASE End(p)
      BY <3>1, EndTypes
    <3>2. CASE Enter(p, "preflight", {}) /\ txn[p].op = "install"
      BY <3>2, EnterTypes DEF Stage, Check
    <3>3. CASE Enter(p, "validate", {}) /\ txn[p].op # "install"
      BY <3>3, <2>1, <1>tx, EnterTypes DEF Stage, Check
    <3> QED
      BY <1>4, <3>1, <3>2, <3>3 DEF CheckDependencies
  <2> QED
    BY <1>4, <2>2, <1>ty DEF CheckDependencies, TypeOK
<1>5. ASSUME NEW p \in Proc, ValidateOld(p)
      PROVE  TypeInv'
  <2>1. txn[p].op \in {"remove", "upgrade"} /\ txn[p].old \in Pkg
    BY <1>5 DEF ValidateOld, Shape
  <2>2. txn' \in [Proc -> Txn] /\ \A r \in Proc : Shape(txn'[r])
    <3>1. CASE End(p)
      BY <3>1, EndTypes
    <3>2. CASE Enter(p, "stage", Files(txn[p].old))
      BY <3>2, <2>1, <1>fd, EnterTypes DEF Stage, Change
    <3>3. CASE Enter(p, "preflight", {}) /\ txn[p].op # "remove"
      BY <3>3, <2>1, EnterTypes DEF Stage, Check
    <3> QED
      BY <1>5, <3>1, <3>2, <3>3 DEF ValidateOld
  <2> QED
    BY <1>5, <2>2, <1>ty DEF ValidateOld, TypeOK
<1>6. ASSUME NEW p \in Proc, Preflight(p)
      PROVE  TypeInv'
  <2>1. txn[p].op \in {"install", "upgrade"} /\ txn[p].new \in Pkg
    BY <1>6 DEF Preflight, Shape
  <2>2. txn' \in [Proc -> Txn] /\ \A r \in Proc : Shape(txn'[r])
    <3>1. CASE End(p)
      BY <3>1, EndTypes
    <3>2. CASE Enter(p, "dirs", Dirs(txn[p].new))
      BY <3>2, <2>1, <1>fd, EnterTypes DEF Stage, Change
    <3>3. CASE Enter(p, "stage", Files(txn[p].old)) /\ txn[p].op # "install"
      <4>1. txn[p].op = "upgrade" /\ txn[p].old \in Pkg
        BY <3>3, <2>1 DEF Shape
      <4> QED
        BY <3>3, <4>1, <1>fd, EnterTypes DEF Stage, Change
    <3> QED
      BY <1>6, <3>1, <3>2, <3>3 DEF Preflight
  <2> QED
    BY <1>6, <2>2, <1>ty DEF Preflight, TypeOK
<1>7. ASSUME NEW p \in Proc, NEW q \in Path, StageOld(p, q)
      PROVE  TypeInv'
  <2>1. txn' \in [Proc -> Txn] /\ (\A r \in Proc : Shape(txn'[r])) /\ fs' \in Tree
    <3>1. CASE txn' = [txn EXCEPT ![p].todo = @ \ {q}] /\ UNCHANGED fs
      BY <3>1, <1>vt, <1>ty
    <3>2. CASE Undo(p) /\ UNCHANGED fs
      BY <3>2, <1>7, <1>ty, UndoTypes DEF StageOld
    <3>3. CASE /\ txn' = [txn EXCEPT ![p].todo = @ \ {q}, ![p].backup[q] = fs[q]]
               /\ fs' = Without(fs, q)
      <4> DEFINE t == [txn[p] EXCEPT !.todo = @ \ {q}, !.backup[q] = fs[q]]
      <4>1. fs[q] \in Node
        BY <1>ty DEF Tree
      <4>2. [txn[p].backup EXCEPT ![q] = fs[q]] \in Tree
        BY <4>1, <1>tx, TreeOperations
      <4>3. t \in Txn
        BY ZenonT(60), <4>2, <1>ty DEF Txn
      <4>4. txn' = [txn EXCEPT ![p] = t]
        BY <3>3, <1>ty DEF Txn
      <4>5. t.pc = txn[p].pc /\ t.op = txn[p].op /\ t.new = txn[p].new /\ t.old = txn[p].old
        BY <1>ty DEF Txn
      <4>6. fs' \in Tree
        BY <3>3, <1>ty, TreeOperations
      <4> HIDE DEF t
      <4> QED
        BY <1>tx, <4>3, <4>4, <4>5, <4>6, LoopTypes
    <3> QED
      BY <1>7, <3>1, <3>2, <3>3 DEF StageOld
  <2> QED
    BY <1>7, <2>1, <1>ty DEF StageOld, TypeOK
<1>8. ASSUME NEW p \in Proc, OldStaged(p)
      PROVE  TypeInv'
  <2>1. txn[p].op \in {"remove", "upgrade"}
    BY <1>8 DEF OldStaged, Shape
  <2>2. txn' \in [Proc -> Txn] /\ \A r \in Proc : Shape(txn'[r])
    <3>1. CASE Enter(p, "unregister", {}) /\ txn[p].op = "remove"
      BY <3>1, EnterTypes DEF Stage, Change
    <3>2. CASE Enter(p, "dirs", Dirs(txn[p].new)) /\ txn[p].op # "remove"
      <4>1. txn[p].op = "upgrade" /\ txn[p].new \in Pkg
        BY <3>2, <2>1 DEF Shape
      <4> QED
        BY <3>2, <4>1, <1>fd, EnterTypes DEF Stage, Change
    <3> QED
      BY <1>8, <3>1, <3>2 DEF OldStaged
  <2> QED
    BY <1>8, <2>2, <1>ty DEF OldStaged, TypeOK
<1>9. ASSUME NEW p \in Proc, NEW q \in Path, PlaceDir(p, q)
      PROVE  TypeInv'
  <2>1. txn' \in [Proc -> Txn] /\ (\A r \in Proc : Shape(txn'[r])) /\ fs' \in Tree
    <3>1. CASE txn' = [txn EXCEPT ![p].todo = @ \ {q}] /\ UNCHANGED fs
      BY <3>1, <1>vt, <1>ty
    <3>2. CASE /\ txn' = [txn EXCEPT ![p].todo = @ \ {q}, ![p].created = @ \cup {q}]
               /\ fs' = [fs EXCEPT ![q] = Dir]
      <4> DEFINE t == [txn[p] EXCEPT !.todo = @ \ {q}, !.created = @ \cup {q}]
      <4>1. t \in Txn
        BY <1>ty DEF Txn
      <4>2. txn' = [txn EXCEPT ![p] = t]
        BY <3>2, <1>ty DEF Txn
      <4> QED
        BY <3>2, <4>1, <4>2, <1>ty, NodesAreNodes, LoopTypes, TreeOperations DEF Txn
    <3>3. CASE Undo(p) /\ UNCHANGED fs
      BY <3>3, <1>9, <1>ty, UndoTypes DEF PlaceDir
    <3> QED
      BY <1>9, <3>1, <3>2, <3>3 DEF PlaceDir
  <2> QED
    BY <1>9, <2>1, <1>ty DEF PlaceDir, TypeOK
<1>10. ASSUME NEW p \in Proc, DirsPlaced(p)
       PROVE  TypeInv'
  <2>1. txn[p].op \in {"install", "upgrade"} /\ txn[p].new \in Pkg
    BY <1>10 DEF DirsPlaced, Shape
  <2>2. txn' \in [Proc -> Txn] /\ \A r \in Proc : Shape(txn'[r])
    BY <1>10, <2>1, <1>fd, EnterTypes DEF DirsPlaced, Stage, Change
  <2> QED
    BY <1>10, <2>2, <1>ty DEF DirsPlaced, TypeOK
<1>11. ASSUME NEW p \in Proc, NEW q \in Path, PlaceFile(p, q)
       PROVE  TypeInv'
  <2>1. txn[p].new \in Pkg /\ Payload[txn[p].new][q] \in Node
    BY <1>11, ArchiveTypes DEF PlaceFile, Shape
  <2>2. txn' \in [Proc -> Txn] /\ (\A r \in Proc : Shape(txn'[r])) /\ fs' \in Tree
    <3>1. CASE /\ txn' = [txn EXCEPT ![p].todo = @ \ {q}, ![p].placed = @ \cup {q}]
               /\ fs' = Put(fs, q, Payload[txn[p].new][q])
      <4> DEFINE t == [txn[p] EXCEPT !.todo = @ \ {q}, !.placed = @ \cup {q}]
      <4>1. t \in Txn
        BY <1>ty DEF Txn
      <4>2. txn' = [txn EXCEPT ![p] = t]
        BY <3>1, <1>ty DEF Txn
      <4> QED
        BY <3>1, <4>1, <4>2, <2>1, <1>ty, LoopTypes, TreeOperations DEF Txn
    <3>2. CASE Undo(p) /\ UNCHANGED fs
      BY <3>2, <1>11, <1>ty, UndoTypes DEF PlaceFile
    <3> QED
      BY <1>11, <3>1, <3>2 DEF PlaceFile
  <2> QED
    BY <1>11, <2>2, <1>ty DEF PlaceFile, TypeOK
<1>12. ASSUME NEW p \in Proc, NEW q \in Path, PlaceUntracked(p, q)
       PROVE  TypeInv'
  <2>1. txn' \in [Proc -> Txn] /\ \A r \in Proc : Shape(txn'[r])
    BY <1>12, UndoTypes DEF PlaceUntracked
  <2>2. fs' \in Tree
    <3>1. CASE fs' = [fs EXCEPT ![q] = Dir]
      BY <3>1, <1>ty, NodesAreNodes, TreeOperations
    <3>2. CASE txn[p].pc = "files" /\ fs' = Put(fs, q, Payload[txn[p].new][q])
      <4>1. txn[p].new \in Pkg
        BY <3>2 DEF Shape
      <4> QED
        BY <3>2, <4>1, <1>ty, ArchiveTypes, TreeOperations
    <3> QED
      BY <1>12, <3>1, <3>2 DEF PlaceUntracked
  <2> QED
    BY <1>12, <2>1, <2>2, <1>ty, <1>sp DEF PlaceUntracked, TypeOK, Event
<1>13. ASSUME NEW p \in Proc, FilesPlaced(p)
       PROVE  TypeInv'
  <2>1. txn' \in [Proc -> Txn] /\ \A r \in Proc : Shape(txn'[r])
    BY <1>13, EnterTypes DEF FilesPlaced, Shape, Stage, Change
  <2> QED
    BY <1>13, <2>1, <1>ty DEF FilesPlaced, TypeOK
<1>14. ASSUME NEW p \in Proc, Register(p)
       PROVE  TypeInv'
  <2>1. txn[p].op \in {"install", "upgrade"} /\ txn[p].new \in Pkg
    BY <1>14 DEF Register, Shape
  <2>2. txn' \in [Proc -> Txn] /\ \A r \in Proc : Shape(txn'[r])
    <3>1. CASE End(p)
      BY <3>1, EndTypes
    <3>2. CASE Enter(p, "prune", Dirs(txn[p].old) \ Dirs(txn[p].new)) /\ txn[p].op # "install"
      <4>1. txn[p].op = "upgrade" /\ txn[p].old \in Pkg
        BY <3>2, <2>1 DEF Shape
      <4> QED
        BY <3>2, <4>1, <1>fd, EnterTypes DEF Stage
    <3> QED
      BY <1>14, <3>1, <3>2 DEF Register
  <2>3. db' \in Records
    BY <1>14, <2>1, <1>ty, ArchiveTypes DEF Register, Registered, Records
  <2> QED
    BY <1>14, <2>2, <2>3, <1>ty DEF Register, TypeOK
<1>15. ASSUME NEW p \in Proc, Unregister(p)
       PROVE  TypeInv'
  <2>1. txn[p].op = "remove" /\ txn[p].old \in Pkg
    BY <1>15 DEF Unregister, Shape
  <2>2. txn' \in [Proc -> Txn] /\ \A r \in Proc : Shape(txn'[r])
    <3>1. CASE Enter(p, "prune", Dirs(txn[p].old))
      BY <3>1, <2>1, <1>fd, EnterTypes DEF Stage
    <3>2. CASE Undo(p)
      BY <3>2, <1>15, UndoTypes DEF Unregister
    <3> QED
      BY <1>15, <3>1, <3>2 DEF Unregister
  <2>3. db' \in Records
    BY <1>15, <1>ty DEF Unregister, Unregistered, Records
  <2> QED
    BY <1>15, <2>2, <2>3, <1>ty DEF Unregister, TypeOK
<1>16. ASSUME NEW p \in Proc, NEW q \in Path, Prune(p, q)
       PROVE  TypeInv'
  <2>1. fs' \in Tree
    BY <1>16, <1>ty, TreeOperations DEF Prune
  <2> QED
    BY <1>16, <2>1, <1>ty, <1>vt DEF Prune, TypeOK
<1>17. ASSUME NEW p \in Proc, Pruned(p) \/ Undone(p)
       PROVE  TypeInv'
  <2>1. End(p) /\ UNCHANGED <<fs, db, attic, deleted, missed, spent>>
    BY <1>17 DEF Pruned, Undone
  <2> QED
    BY <2>1, <1>ty, EndTypes DEF TypeOK
<1>18. ASSUME NEW p \in Proc, NEW q \in Path, UndoFile(p, q)
       PROVE  TypeInv'
  <2> DEFINE t == [txn[p] EXCEPT !.placed = @ \ {q}]
  <2>1. t \in Txn /\ txn' = [txn EXCEPT ![p] = t]
    BY <1>18, <1>ty DEF UndoFile, Txn
  <2> QED
    BY <1>18, <2>1, <1>ty, LoopTypes, TreeOperations DEF UndoFile, Txn, TypeOK
<1>19. ASSUME NEW p \in Proc, NEW q \in Path, UndoDir(p, q)
       PROVE  TypeInv'
  <2> DEFINE t == [txn[p] EXCEPT !.created = @ \ {q}]
  <2>1. t \in Txn /\ txn' = [txn EXCEPT ![p] = t]
    BY <1>19, <1>ty DEF UndoDir, Txn
  <2> QED
    BY <1>19, <2>1, <1>ty, LoopTypes, TreeOperations DEF UndoDir, Txn, TypeOK
<1>20. ASSUME NEW p \in Proc, NEW q \in Path, UndoBackup(p, q)
       PROVE  TypeInv'
  <2> DEFINE t == [txn[p] EXCEPT !.backup[q] = Absent]
  <2>1. [txn[p].backup EXCEPT ![q] = Absent] \in Tree
    BY <1>tx, NodesAreNodes, TreeOperations
  <2>2. t \in Txn /\ txn' = [txn EXCEPT ![p] = t]
    BY <1>20, <2>1, <1>ty DEF UndoBackup, Txn
  <2>3. txn[p].backup[q] \in Node
    BY <1>tx DEF Tree
  <2>4. fs' \in Tree
    BY <1>20, <2>3, <1>ty, TreeOperations DEF UndoBackup
  <2> QED
    BY <1>20, <2>2, <2>4, <1>ty, LoopTypes DEF UndoBackup, Txn, TypeOK
<1>21. ASSUME NEW p \in Proc, Fault(p)
       PROVE  TypeInv'
  <2>1. txn' \in [Proc -> Txn] /\ \A r \in Proc : Shape(txn'[r])
    BY <1>21, EndTypes, UndoTypes DEF Fault, Change
  <2> QED
    BY <1>21, <2>1, <1>ty, <1>sp DEF Fault, TypeOK, Event
<1>22. ASSUME NEW p \in Proc, Crash(p)
       PROVE  TypeInv'
  <2>1. attic' \subseteq Path \X Node
    BY <1>22, <1>ty, <1>tx DEF Crash, BackedUp, Tree
  <2> QED
    BY <1>22, <2>1, <1>ty, <1>sp, EndTypes DEF Crash, TypeOK, Event
<1>23. ASSUME NEW q \in Path, Edit(q)
       PROVE  TypeInv'
  <2>1. fs' \in Tree
    BY <1>23, <1>ty, EnvironmentAssumption, TreeOperations DEF Edit
  <2>2. deleted' \subseteq Path
    BY <1>23, <1>ty DEF Edit
  <2> QED
    BY <1>23, <2>1, <2>2, <1>ty, <1>sp DEF Edit, TypeOK, Event
<1>24. CASE UNCHANGED vars
  BY <1>24 DEF vars, TypeOK
<1> QED
  BY <1>1, <1>2, <1>3, <1>4, <1>5, <1>6, <1>7, <1>8, <1>9, <1>10, <1>11, <1>12, <1>13,
     <1>14, <1>15, <1>16, <1>17, <1>18, <1>19, <1>20, <1>21, <1>22, <1>23, <1>24
  DEF Next, Command, Work, Environment

\* The variables keep their types, whatever the constants.
THEOREM TypeCorrect == Spec => []TypeOK
<1>1. TypeInv => TypeOK
  BY DEF TypeInv
<1> QED
  BY TypeInit, TypeStep, <1>1, PTL DEF Spec

-----------------------------------------------------------------------------
\* What a step does to the database and to the transactions

Pending  == Check \cup Change                       \* before the commit
Vetted   == Pending \ {"depends"}                   \* its dependencies are checked
Claiming == {"stage", "dirs", "files", "register"}  \* its paths are checked

\* A transaction goes on: it is about the same packages, and enters no stage that
\* takes a check to enter.
Onward(t, u) ==
  /\ u.op = t.op /\ u.new = t.new /\ u.old = t.old
  /\ u.pc \in Pending => t.pc \in Pending
  /\ u.pc \in Vetted => t.pc \in Vetted
  /\ u.pc \in Claiming /\ u.op # "remove" => t.pc \in Claiming

GoesOn(p) ==
  UNCHANGED db /\ \E t \in Txn : Onward(txn[p], t) /\ txn' = [txn EXCEPT ![p] = t]
Stops(p)  == UNCHANGED db /\ End(p)
Vets(p)   ==
  /\ UNCHANGED db
  /\ txn[p].pc = "depends"
  /\ DependencyCheck(p)
  /\ Enter(p, IF txn[p].op = "install" THEN "preflight" ELSE "validate", {})
Claims(p) ==
  /\ UNCHANGED db
  /\ txn[p].pc = "preflight"
  /\ PathsFree(p)
  /\ IF txn[p].op = "install" THEN Enter(p, "dirs", Dirs(txn[p].new))
                              ELSE Enter(p, "stage", Files(txn[p].old))
Drops(p) ==
  /\ txn[p].pc = "unregister"
  /\ db' = Unregistered(db, Target(p))
  /\ Enter(p, "prune", Dirs(txn[p].old))

\* Going on to a stage that asks for nothing new leaves what is known of the
\* transaction as it was.
LEMMA EnterOnward ==
  ASSUME TypeInv, NEW p \in Proc, NEW stage \in Stage, NEW paths \in SUBSET Path,
         Enter(p, stage, paths), UNCHANGED db,
         stage \in Pending => txn[p].pc \in Pending,
         stage \in Vetted => txn[p].pc \in Vetted,
         stage \in Claiming /\ txn[p].op # "remove" => txn[p].pc \in Claiming
  PROVE  GoesOn(p)
<1> DEFINE t == [txn[p] EXCEPT !.pc = stage, !.todo = paths]
<1>1. txn[p] \in Txn
  BY DEF TypeInv, TypeOK
<1>2. t \in Txn /\ t.pc = stage /\ t.op = txn[p].op /\ t.new = txn[p].new /\ t.old = txn[p].old
  BY <1>1 DEF Txn
<1>3. txn' = [txn EXCEPT ![p] = t]
  BY DEF Enter, TypeInv, TypeOK
<1>4. Onward(txn[p], t)
  BY <1>2 DEF Onward
<1> QED
  BY <1>2, <1>3, <1>4 DEF GoesOn

\* So does turning to the rollback.
LEMMA UndoOnward ==
  ASSUME TypeInv, NEW p \in Proc, Undo(p), UNCHANGED db
  PROVE  GoesOn(p)
BY EnterOnward DEF Undo, Stage, Pending, Vetted, Claiming, Check, Change

\* So does a turn of one of the loops.
LEMMA LoopOnward ==
  ASSUME TypeInv, NEW p \in Proc, NEW t \in Txn, txn' = [txn EXCEPT ![p] = t], UNCHANGED db,
         t.pc = txn[p].pc, t.op = txn[p].op, t.new = txn[p].new, t.old = txn[p].old
  PROVE  GoesOn(p)
BY DEF GoesOn, Onward

\* What any step does to the database and the transactions: nothing, or one process
\* starts, stops, goes on, passes one of its checks, or commits.
LEMMA StepShape ==
  ASSUME TypeInv, [Next]_vars
  PROVE  \/ UNCHANGED <<db, txn>>
         \/ \E p \in Proc :
              \/ Command(p)
              \/ Stops(p) \/ GoesOn(p) \/ Vets(p) \/ Claims(p)
              \/ Register(p) \/ Drops(p)
<1> DEFINE Goal == \/ UNCHANGED <<db, txn>>
                   \/ \E p \in Proc : Command(p) \/ Stops(p) \/ GoesOn(p) \/ Vets(p)
                                      \/ Claims(p) \/ Register(p) \/ Drops(p)
<1> SUFFICES Goal
  OBVIOUS
<1>ty. txn \in [Proc -> Txn] /\ fs \in Tree
  BY DEF TypeInv, TypeOK
<1>sh. \A p \in Proc : Shape(txn[p])
  BY DEF TypeInv
<1>tt. ASSUME NEW p \in Proc
       PROVE  /\ txn[p] \in Txn
              /\ txn[p].op \in {"none", "install", "remove", "upgrade"}
              /\ txn[p].backup \in Tree
  BY <1>ty DEF Txn
<1>fd. ASSUME NEW a \in Pkg PROVE Files(a) \in SUBSET Path /\ Dirs(a) \in SUBSET Path
  BY ArchiveTypes
<1>vt. ASSUME NEW p \in Proc, NEW q \in Path, txn' = [txn EXCEPT ![p].todo = @ \ {q}],
              UNCHANGED db
       PROVE  GoesOn(p)
  <2> DEFINE t == [txn[p] EXCEPT !.todo = @ \ {q}]
  <2>1. t \in Txn /\ txn' = [txn EXCEPT ![p] = t]
    BY <1>vt, <1>ty DEF Txn
  <2> QED
    BY <1>vt, <2>1, <1>tt, LoopOnward DEF Txn
<1>1. ASSUME NEW p \in Proc, CheckDependencies(p)
      PROVE  Stops(p) \/ Vets(p)
  BY <1>1 DEF CheckDependencies, Stops, Vets
<1>2. ASSUME NEW p \in Proc, ValidateOld(p)
      PROVE  Stops(p) \/ GoesOn(p)
  <2>1. CASE End(p)
    BY <1>2, <2>1 DEF ValidateOld, Stops
  <2>2. CASE Enter(p, "stage", Files(txn[p].old)) /\ txn[p].op = "remove"
    <3>1. txn[p].old \in Pkg
      BY <2>2, <1>sh DEF Shape
    <3> QED
      BY <1>2, <2>2, <3>1, <1>fd, EnterOnward
      DEF ValidateOld, Stage, Pending, Vetted, Claiming, Check, Change
  <2>3. CASE Enter(p, "preflight", {})
    BY <1>2, <2>3, EnterOnward
    DEF ValidateOld, Stage, Pending, Vetted, Claiming, Check, Change
  <2> QED
    BY <1>2, <2>1, <2>2, <2>3 DEF ValidateOld
<1>3. ASSUME NEW p \in Proc, Preflight(p)
      PROVE  Stops(p) \/ Claims(p)
  BY <1>3 DEF Preflight, Stops, Claims
<1>4. ASSUME NEW p \in Proc, NEW q \in Path, StageOld(p, q)
      PROVE  GoesOn(p)
  <2>1. CASE txn' = [txn EXCEPT ![p].todo = @ \ {q}]
    BY <1>4, <2>1, <1>vt DEF StageOld
  <2>2. CASE Undo(p)
    BY <1>4, <2>2, UndoOnward DEF StageOld
  <2>3. CASE txn' = [txn EXCEPT ![p].todo = @ \ {q}, ![p].backup[q] = fs[q]]
    <3> DEFINE t == [txn[p] EXCEPT !.todo = @ \ {q}, !.backup[q] = fs[q]]
    <3>1. [txn[p].backup EXCEPT ![q] = fs[q]] \in Tree
      BY <1>tt, <1>ty, TreeOperations DEF Tree
    <3>2. t \in Txn /\ txn' = [txn EXCEPT ![p] = t]
      BY <2>3, <3>1, <1>ty DEF Txn
    <3> QED
      BY <1>4, <3>2, <1>tt, LoopOnward DEF StageOld, Txn
  <2> QED
    BY <1>4, <2>1, <2>2, <2>3 DEF StageOld
<1>5. ASSUME NEW p \in Proc, OldStaged(p)
      PROVE  GoesOn(p)
  <2>1. CASE Enter(p, "unregister", {})
    BY <1>5, <2>1, EnterOnward
    DEF OldStaged, Stage, Pending, Vetted, Claiming, Check, Change
  <2>2. CASE Enter(p, "dirs", Dirs(txn[p].new)) /\ txn[p].op # "remove"
    <3>1. txn[p].new \in Pkg
      BY <1>5, <2>2, <1>sh, <1>tt DEF Shape, OldStaged
    <3> QED
      BY <1>5, <2>2, <3>1, <1>fd, EnterOnward
      DEF OldStaged, Stage, Pending, Vetted, Claiming, Check, Change
  <2> QED
    BY <1>5, <2>1, <2>2 DEF OldStaged
<1>6. ASSUME NEW p \in Proc, NEW q \in Path, PlaceDir(p, q)
      PROVE  GoesOn(p)
  <2>1. CASE txn' = [txn EXCEPT ![p].todo = @ \ {q}]
    BY <1>6, <2>1, <1>vt DEF PlaceDir
  <2>2. CASE Undo(p)
    BY <1>6, <2>2, UndoOnward DEF PlaceDir
  <2>3. CASE txn' = [txn EXCEPT ![p].todo = @ \ {q}, ![p].created = @ \cup {q}]
    <3> DEFINE t == [txn[p] EXCEPT !.todo = @ \ {q}, !.created = @ \cup {q}]
    <3>1. t \in Txn /\ txn' = [txn EXCEPT ![p] = t]
      BY <2>3, <1>ty DEF Txn
    <3> QED
      BY <1>6, <3>1, <1>tt, LoopOnward DEF PlaceDir, Txn
  <2> QED
    BY <1>6, <2>1, <2>2, <2>3 DEF PlaceDir
<1>7. ASSUME NEW p \in Proc, DirsPlaced(p)
      PROVE  GoesOn(p)
  <2>1. txn[p].new \in Pkg
    BY <1>7, <1>sh DEF DirsPlaced, Shape
  <2> QED
    BY <1>7, <2>1, <1>fd, EnterOnward
    DEF DirsPlaced, Stage, Pending, Vetted, Claiming, Check, Change
<1>8. ASSUME NEW p \in Proc, NEW q \in Path, PlaceFile(p, q) \/ PlaceUntracked(p, q)
      PROVE  GoesOn(p)
  <2>1. CASE Undo(p)
    BY <1>8, <2>1, UndoOnward DEF PlaceFile, PlaceUntracked
  <2>2. CASE txn' = [txn EXCEPT ![p].todo = @ \ {q}, ![p].placed = @ \cup {q}]
    <3> DEFINE t == [txn[p] EXCEPT !.todo = @ \ {q}, !.placed = @ \cup {q}]
    <3>1. t \in Txn /\ txn' = [txn EXCEPT ![p] = t]
      BY <2>2, <1>ty DEF Txn
    <3> QED
      BY <1>8, <3>1, <1>tt, LoopOnward DEF PlaceFile, PlaceUntracked, Txn
  <2> QED
    BY <1>8, <2>1, <2>2 DEF PlaceFile, PlaceUntracked
<1>9. ASSUME NEW p \in Proc, FilesPlaced(p)
      PROVE  GoesOn(p)
  BY <1>9, EnterOnward DEF FilesPlaced, Stage, Pending, Vetted, Claiming, Check, Change
<1>10. ASSUME NEW p \in Proc, Unregister(p)
       PROVE  GoesOn(p) \/ Drops(p)
  BY <1>10, UndoOnward DEF Unregister, Drops
<1>11. ASSUME NEW p \in Proc, NEW q \in Path, Prune(p, q)
       PROVE  GoesOn(p)
  BY <1>11, <1>vt DEF Prune
<1>12. ASSUME NEW p \in Proc, Pruned(p) \/ Undone(p) \/ Crash(p)
       PROVE  Stops(p)
  BY <1>12 DEF Pruned, Undone, Crash, Stops
<1>13. ASSUME NEW p \in Proc, NEW q \in Path, UndoFile(p, q)
       PROVE  GoesOn(p)
  <2> DEFINE t == [txn[p] EXCEPT !.placed = @ \ {q}]
  <2>1. t \in Txn /\ txn' = [txn EXCEPT ![p] = t]
    BY <1>13, <1>ty DEF UndoFile, Txn
  <2> QED
    BY <1>13, <2>1, <1>tt, LoopOnward DEF UndoFile, Txn
<1>14. ASSUME NEW p \in Proc, NEW q \in Path, UndoDir(p, q)
       PROVE  GoesOn(p)
  <2> DEFINE t == [txn[p] EXCEPT !.created = @ \ {q}]
  <2>1. t \in Txn /\ txn' = [txn EXCEPT ![p] = t]
    BY <1>14, <1>ty DEF UndoDir, Txn
  <2> QED
    BY <1>14, <2>1, <1>tt, LoopOnward DEF UndoDir, Txn
<1>15. ASSUME NEW p \in Proc, NEW q \in Path, UndoBackup(p, q)
       PROVE  GoesOn(p)
  <2> DEFINE t == [txn[p] EXCEPT !.backup[q] = Absent]
  <2>1. [txn[p].backup EXCEPT ![q] = Absent] \in Tree
    BY <1>tt, NodesAreNodes, TreeOperations
  <2>2. t \in Txn /\ txn' = [txn EXCEPT ![p] = t]
    BY <1>15, <2>1, <1>ty DEF UndoBackup, Txn
  <2> QED
    BY <1>15, <2>2, <1>tt, LoopOnward DEF UndoBackup, Txn
<1>16. ASSUME NEW p \in Proc, Fault(p)
       PROVE  Stops(p) \/ GoesOn(p)
  BY <1>16, UndoOnward DEF Fault, Stops
<1>17. ASSUME NEW q \in Path, Edit(q)
       PROVE  UNCHANGED <<db, txn>>
  BY <1>17 DEF Edit
<1>18. CASE UNCHANGED vars
  BY <1>18 DEF vars
<1> QED
  BY <1>1, <1>2, <1>3, <1>4, <1>5, <1>6, <1>7, <1>8, <1>9, <1>10, <1>11, <1>12, <1>13,
     <1>14, <1>15, <1>16, <1>17, <1>18
  DEF Next, Work, Environment

-----------------------------------------------------------------------------
\* No two packages own a file

\* Commands that run side by side are about different packages, and no archives
\* of theirs have a file in common.  Nothing in the program sees to it: without
\* it two commands may own one file (both look before either commits).
Independent ==
  \A p, r \in Proc : p # r =>
    /\ Mine[p] \cap Mine[r] = {}
    /\ \A a, b \in Pkg : NameOf[a] \in Mine[p] /\ NameOf[b] \in Mine[r]
                           => Files(a) \cap Files(b) = {}

\* What holds of transaction t of process p while the database is d: it is about
\* a package of p's; until it commits, the record it found is still there; and
\* from the moment its paths are checked no other package owns its files.
TargetOf(t) == IF t.op = "remove" THEN NameOf[t.old] ELSE NameOf[t.new]
Aims(p, t) ==
  /\ t.op # "none" => TargetOf(t) \in Mine[p]
  /\ t.op = "install" => t.old = NoPkg
  /\ t.op = "upgrade" => NameOf[t.old] = NameOf[t.new]
Fresh(d, t)  == t.pc \in Pending => d[TargetOf(t)] = t.old
Claimed(d, t) ==
  t.pc \in Claiming /\ t.op # "remove" =>
    \A n \in Installed(d) \ {NameOf[t.new]} : Files(d[n]) \cap Files(t.new) = {}
Good(p, d, t) == Aims(p, t) /\ Fresh(d, t) /\ Claimed(d, t)

Named(d) == \A n \in Installed(d) : NameOf[d[n]] = n
Disjoint(d) == \A m, n \in Installed(d) : m # n => Files(d[m]) \cap Files(d[n]) = {}

OwnerInv ==
  /\ TypeInv
  /\ Named(db)
  /\ Disjoint(db)
  /\ \A p \in Proc : Good(p, db, txn[p])

\* Nothing is asked of a process that runs no command.
LEMMA GoodNoTxn == \A p, d : Good(p, d, NoTxn)
BY DEF Good, Aims, Fresh, Claimed, NoTxn, Pending, Check, Change, Claiming

\* What holds of a transaction holds of it further on.
LEMMA GoodOnward ==
  ASSUME NEW p, NEW d, NEW t, NEW u, Good(p, d, t), Onward(t, u)
  PROVE  Good(p, d, u)
BY DEF Good, Aims, Fresh, Claimed, TargetOf, Onward

\* Where the paths of a transaction are checked, no other package owns its files:
\* of an install because nobody does, of an upgrade because the package itself
\* does, as a file (no path changes its kind), and nobody owns a file of its.
LEMMA ChecksClaim ==
  ASSUME OwnerInv, NEW p \in Proc, txn[p].pc = "preflight", PathsFree(p)
  PROVE  \A n \in Installed(db) \ {NameOf[txn[p].new]} :
           Files(db[n]) \cap Files(txn[p].new) = {}
<1> DEFINE new == txn[p].new
           old == txn[p].old
<1>1. new \in Pkg /\ txn[p].op \in {"install", "upgrade"}
  BY DEF OwnerInv, TypeInv, Shape
<1>2. \A n \in Installed(db) : db[n] \in Pkg /\ n \in Name
  BY DEF OwnerInv, TypeInv, TypeOK, Records, Installed
<1> SUFFICES ASSUME NEW n \in Installed(db) \ {NameOf[new]},
                    NEW q \in Files(db[n]), q \in Files(new)
             PROVE  FALSE
  OBVIOUS
<1>3. q \in Path /\ q \in Entries(new) /\ q \in Entries(db[n]) /\ n \in Owners(db, q)
  BY DEF Files, Entries, Owners
<1>4. CASE txn[p].op = "install"
  BY <1>3, <1>4 DEF PathsFree, InstallPathsFree
<1>5. CASE txn[p].op = "upgrade"
  <2>1. old \in Pkg /\ NameOf[old] = NameOf[new] /\ db[NameOf[new]] = old
    BY <1>5 DEF OwnerInv, TypeInv, Shape, Good, Aims, Fresh, TargetOf, Pending, Check
  <2>2. UpgradePathsFree(new, old)
    BY <1>5 DEF PathsFree
  <2>3. NameOf[new] \in Installed(db) /\ q \in Entries(old)
    BY <1>3, <2>1, <2>2 DEF UpgradePathsFree, Owners
  <2>4. q \in Files(old)
    BY <1>3, <2>2, <2>3 DEF UpgradePathsFree, Files
  <2> QED
    BY <2>1, <2>3, <2>4, <1>2 DEF OwnerInv, Disjoint
<1> QED
  BY <1>1, <1>4, <1>5

\* An empty installation has no file with two owners.
LEMMA OwnerInit == Init => OwnerInv
BY TypeInit, GoodNoTxn DEF Init, OwnerInv, Named, Disjoint, Installed

\* Every step of independent commands keeps the files of the installed packages apart,
\* and keeps true what the checks of each running command have established.
LEMMA OwnerStep ==
  ASSUME Independent
  PROVE  OwnerInv /\ [Next]_vars => OwnerInv'
<1> SUFFICES ASSUME OwnerInv, [Next]_vars PROVE OwnerInv'
  OBVIOUS
<1>ty. TypeInv /\ TypeInv'
  BY TypeStep DEF OwnerInv
<1>tx. /\ txn \in [Proc -> Txn] /\ db \in Records
       /\ \A p \in Proc : Shape(txn[p]) /\ Good(p, db, txn[p])
  BY DEF OwnerInv, TypeInv, TypeOK
<1>in. \A n \in Installed(db) : n \in Name /\ db[n] \in Pkg
  BY <1>tx DEF Records, Installed
\* db unchanged: one good transaction takes the place of another
<1>one. ASSUME NEW p \in Proc, NEW t, txn' = [txn EXCEPT ![p] = t], UNCHANGED db,
               Good(p, db, t)
        PROVE  OwnerInv'
  BY <1>one, <1>tx, <1>ty DEF OwnerInv
\* the record of Target(p) changes: of no interest to the transactions of others
<1>oth. ASSUME NEW p \in Proc, NEW r \in Proc \ {p}, NEW x \in Pkg \cup {NoPkg},
               txn[p].op # "none", db' = [db EXCEPT ![Target(p)] = x],
               x = NoPkg \/ NameOf[x] = Target(p)
        PROVE  Good(r, db', txn[r])
  <2>1. Target(p) \in Mine[p] /\ Target(p) \in Name
    BY <1>oth, <1>tx, EnvironmentAssumption DEF Good, Aims, TargetOf, Target
  <2>2. Aims(r, txn[r]) /\ Fresh(db, txn[r]) /\ Claimed(db, txn[r]) /\ Shape(txn[r])
    BY <1>tx DEF Good
  <2>3. Mine[p] \cap Mine[r] = {}
    BY DEF Independent
  <2>4. CASE txn[r].op = "none"
    BY <2>2, <2>4 DEF Good, Fresh, Claimed, Shape, Pending, Check, Change, Claiming, Aims
  <2>5. CASE txn[r].op # "none"
    <3>1. TargetOf(txn[r]) \in Mine[r] /\ TargetOf(txn[r]) # Target(p)
      BY <2>5, <2>1, <2>2, <2>3 DEF Aims
    <3>2. TargetOf(txn[r]) \in Name
      BY <3>1, EnvironmentAssumption
    <3>3. Fresh(db', txn[r])
      BY <1>oth, <2>2, <3>1, <3>2, <1>tx DEF Fresh, Records
    <3>4. Claimed(db', txn[r])
      <4> SUFFICES ASSUME txn[r].pc \in Claiming, txn[r].op # "remove",
                          NEW n \in Installed(db') \ {NameOf[txn[r].new]}
                   PROVE  Files(db'[n]) \cap Files(txn[r].new) = {}
        BY DEF Claimed
      <4>1. txn[r].new \in Pkg /\ TargetOf(txn[r]) = NameOf[txn[r].new]
        BY <2>2, <2>5, <1>tx DEF Shape, TargetOf, Claiming, Txn
      <4>2. CASE n = Target(p)
        <5>1. db'[n] = x /\ x \in Pkg /\ NameOf[x] \in Mine[p]
          BY <1>oth, <2>1, <4>2, <1>tx DEF Installed, Records
        <5> QED
          BY <5>1, <4>1, <3>1 DEF Independent
      <4>3. CASE n # Target(p)
        <5>1. n \in Installed(db) /\ db'[n] = db[n]
          BY <1>oth, <4>3, <1>tx DEF Installed, Records
        <5> QED
          BY <5>1, <2>2 DEF Claimed
      <4> QED
        BY <4>2, <4>3
    <3> QED
      BY <2>2, <3>3, <3>4 DEF Good
  <2> QED
    BY <2>4, <2>5
<1>1. CASE UNCHANGED <<db, txn>>
  BY <1>1, <1>ty DEF OwnerInv
<1>2. ASSUME NEW p \in Proc, Command(p) PROVE OwnerInv'
  <2>1. ASSUME NEW a \in Pkg, NameOf[a] \in Mine[p], InstallBegin(p, a) PROVE OwnerInv'
    <3> DEFINE t == [NoTxn EXCEPT !.pc = "depends", !.op = "install", !.new = a,
                                  !.old = NoPkg, !.before = fs]
    <3>1. Good(p, db, t)
      BY <2>1 DEF InstallBegin, Good, Aims, Fresh, Claimed, TargetOf, Claiming, NoTxn
    <3> QED
      BY <2>1, <3>1, <1>one DEF InstallBegin, Begin
  <2>2. ASSUME NEW a \in Pkg, NameOf[a] \in Mine[p], UpgradeBegin(p, a) PROVE OwnerInv'
    <3> DEFINE t == [NoTxn EXCEPT !.pc = "depends", !.op = "upgrade", !.new = a,
                                  !.old = db[NameOf[a]], !.before = fs]
    <3>1. NameOf[db[NameOf[a]]] = NameOf[a]
      BY <2>2, ArchiveTypes DEF UpgradeBegin, OwnerInv, Named, Installed
    <3>2. Good(p, db, t)
      BY <2>2, <3>1 DEF Good, Aims, Fresh, Claimed, TargetOf, Claiming, NoTxn
    <3> QED
      BY <2>2, <3>2, <1>one DEF UpgradeBegin, Begin
  <2>3. ASSUME NEW n \in Mine[p], RemoveBegin(p, n) PROVE OwnerInv'
    <3> DEFINE t == [NoTxn EXCEPT !.pc = "depends", !.op = "remove", !.new = NoPkg,
                                  !.old = db[n], !.before = fs]
    <3>1. NameOf[db[n]] = n
      BY <2>3, EnvironmentAssumption DEF RemoveBegin, OwnerInv, Named, Installed
    <3>2. Good(p, db, t)
      BY <2>3, <3>1 DEF Good, Aims, Fresh, Claimed, TargetOf, Claiming, NoTxn
    <3> QED
      BY <2>3, <3>2, <1>one DEF RemoveBegin, Begin
  <2> QED
    BY <1>2, <2>1, <2>2, <2>3 DEF Command
<1>3. ASSUME NEW p \in Proc, Stops(p) PROVE OwnerInv'
  BY <1>3, <1>one, GoodNoTxn DEF Stops, End
<1>4. ASSUME NEW p \in Proc, GoesOn(p) PROVE OwnerInv'
  BY <1>4, <1>tx, <1>one, GoodOnward DEF GoesOn
<1>5. ASSUME NEW p \in Proc, Vets(p) PROVE OwnerInv'
  <2> DEFINE t == [txn[p] EXCEPT !.pc = IF txn[p].op = "install" THEN "preflight" ELSE "validate",
                                 !.todo = {}]
  <2>1. txn[p].pc \in Pending /\ t.pc \notin Claiming
    BY <1>5, <1>tx DEF Vets, Pending, Check, Claiming, Txn
  <2>2. t.op = txn[p].op /\ t.new = txn[p].new /\ t.old = txn[p].old
    BY <1>tx DEF Txn
  <2>3. Good(p, db, t)
    BY <2>1, <2>2, <1>tx DEF Good, Aims, Fresh, Claimed, TargetOf
  <2>4. txn' = [txn EXCEPT ![p] = t]
    BY <1>5, <1>tx DEF Vets, Enter
  <2> QED
    BY <1>5, <2>3, <2>4, <1>one DEF Vets
<1>6. ASSUME NEW p \in Proc, Claims(p) PROVE OwnerInv'
  <2> DEFINE t == IF txn[p].op = "install"
                  THEN [txn[p] EXCEPT !.pc = "dirs", !.todo = Dirs(txn[p].new)]
                  ELSE [txn[p] EXCEPT !.pc = "stage", !.todo = Files(txn[p].old)]
  <2>1. txn[p].pc \in Pending
    BY <1>6 DEF Claims, Pending, Check
  <2>2. t.op = txn[p].op /\ t.new = txn[p].new /\ t.old = txn[p].old
    BY <1>tx DEF Txn
  <2>3. Claimed(db, t)
    BY <1>6, <2>2, ChecksClaim DEF Claims, Claimed
  <2>4. Good(p, db, t)
    BY <2>1, <2>2, <2>3, <1>tx DEF Good, Aims, Fresh, TargetOf
  <2>5. txn' = [txn EXCEPT ![p] = t]
    BY <1>6, <1>tx DEF Claims, Enter
  <2> QED
    BY <1>6, <2>4, <2>5, <1>one DEF Claims
\* a commit: the record of Target(p) becomes x, and p is no longer pending
<1>com. ASSUME NEW p \in Proc, NEW x \in Pkg \cup {NoPkg}, txn[p].op # "none",
               db' = [db EXCEPT ![Target(p)] = x], x = NoPkg \/ NameOf[x] = Target(p),
               \A n \in Installed(db) \ {Target(p)} : x # NoPkg => Files(db[n]) \cap Files(x) = {},
               NEW t, txn' = [txn EXCEPT ![p] = t], Onward(txn[p], t) \/ t = NoTxn,
               t.pc \notin Pending
        PROVE  OwnerInv'
  <2>1. Target(p) \in Name
    BY <1>com, <1>tx, EnvironmentAssumption DEF Good, Aims, TargetOf, Target
  <2>2. \A n \in Installed(db') : db'[n] \in Pkg /\ n \in Name
    BY <1>ty DEF TypeInv, TypeOK, Records, Installed
  <2>3. \A n \in Installed(db') : n # Target(p) => n \in Installed(db) /\ db'[n] = db[n]
    BY <1>com, <1>tx DEF Installed, Records
  <2>4. Target(p) \in Installed(db') => db'[Target(p)] = x /\ x # NoPkg /\ NameOf[x] = Target(p)
    BY <1>com, <2>1, <1>tx DEF Installed, Records
  <2>5. Named(db')
    BY <2>3, <2>4 DEF OwnerInv, Named
  <2>6. Disjoint(db')
    BY <1>com, <2>3, <2>4 DEF OwnerInv, Disjoint
  <2>7. Good(p, db', t)
    <3>1. CASE t = NoTxn
      BY <3>1, GoodNoTxn
    <3>2. CASE Onward(txn[p], t)
      <4>1. Aims(p, t)
        BY <3>2, <1>tx DEF Good, Aims, Onward, TargetOf
      <4>2. Fresh(db', t) /\ Claimed(db', t)
        BY <1>com DEF Fresh, Claimed, Pending, Claiming, Change
      <4> QED
        BY <4>1, <4>2 DEF Good
    <3> QED
      BY <1>com, <3>1, <3>2
  <2>8. \A r \in Proc : Good(r, db', txn'[r])
    BY <1>com, <1>oth, <2>7, <1>tx
  <2> QED
    BY <1>ty, <2>5, <2>6, <2>8 DEF OwnerInv
<1>7. ASSUME NEW p \in Proc, Register(p) PROVE OwnerInv'
  <2>1. /\ txn[p].op \in {"install", "upgrade"} /\ txn[p].new \in Pkg
        /\ Target(p) = NameOf[txn[p].new]
    BY <1>7, <1>tx DEF Register, Shape, Target
  <2>2. db' = [db EXCEPT ![Target(p)] = txn[p].new]
    BY <1>7, <2>1 DEF Register, Registered
  <2>3. \A n \in Installed(db) \ {Target(p)} : Files(db[n]) \cap Files(txn[p].new) = {}
    BY <1>7, <2>1, <1>tx DEF Register, Good, Claimed, Claiming
  <2> DEFINE t == IF txn[p].op = "install" THEN NoTxn
                  ELSE [txn[p] EXCEPT !.pc = "prune", !.todo = Dirs(txn[p].old) \ Dirs(txn[p].new)]
  <2>4. /\ Onward(txn[p], t) \/ t = NoTxn
        /\ t.pc \notin Pending
    BY <1>tx DEF Txn, Onward, NoTxn, Pending, Vetted, Claiming, Check, Change
  <2>5. txn' = [txn EXCEPT ![p] = t]
    BY <1>7, <1>tx DEF Register, End, Enter
  <2> HIDE DEF t
  <2> QED
    BY <2>1, <2>2, <2>3, <2>4, <2>5, <1>com
<1>8. ASSUME NEW p \in Proc, Drops(p) PROVE OwnerInv'
  <2>1. txn[p].op = "remove"
    BY <1>8, <1>tx DEF Drops, Shape
  <2>2. db' = [db EXCEPT ![Target(p)] = NoPkg]
    BY <1>8 DEF Drops, Unregistered
  <2> DEFINE t == [txn[p] EXCEPT !.pc = "prune", !.todo = Dirs(txn[p].old)]
  <2>3. Onward(txn[p], t) /\ t.pc \notin Pending
    BY <1>tx DEF Txn, Onward, Pending, Vetted, Claiming, Check, Change
  <2>4. txn' = [txn EXCEPT ![p] = t]
    BY <1>8, <1>tx DEF Drops, Enter
  <2> HIDE DEF t
  <2> QED
    BY <2>1, <2>2, <2>3, <2>4, <1>com
<1> QED
  BY <1>1, <1>2, <1>3, <1>4, <1>5, <1>6, <1>7, <1>8, <1>ty, StepShape

\* No two installed packages ever own the same file, as long as commands that run
\* side by side are independent (one command at a time always is): the checks of
\* preflight_paths and of pux_upgrade_package, made long before the commit, are
\* enough.
THEOREM OwnersStayUnique ==
  ASSUME Independent
  PROVE  Spec => []UniqueOwner
<1>1. OwnerInv => UniqueOwner
  BY DEF OwnerInv, Disjoint, UniqueOwner
<1> QED
  BY OwnerInit, OwnerStep, <1>1, PTL DEF Spec

-----------------------------------------------------------------------------
\* The dependencies of installed packages stay met

\* One command at a time.
Alone == \A p, r \in Proc : p = r

\* From the moment a transaction's dependencies are checked until it commits the
\* check would succeed again.
CheckedInv == OwnerInv /\ \A p \in Proc : txn[p].pc \in Vetted => DependencyCheck(p)

DependencyInv == CheckedInv /\ DependenciesClosed

\* The three commits.  Installing takes nothing away that another package needs.
LEMMA InstallKeepsDependencies ==
  ASSUME NEW d \in Records, NEW a \in Pkg, d[NameOf[a]] = NoPkg,
         \A dep \in Depends[a] : DependencySatisfied(d, dep),
         \A n \in Installed(d) : \A dep \in Depends[d[n]] : DependencySatisfied(d, dep)
  PROVE  LET e == Registered(d, a) IN
         \A n \in Installed(e) : \A dep \in Depends[e[n]] : DependencySatisfied(e, dep)
<1> DEFINE e == Registered(d, a)
<1>1. \A n \in Installed(d) : n \in Installed(e) /\ e[n] = d[n]
  BY ArchiveTypes DEF Installed, Registered, Records
<1>2. \A dep : DependencySatisfied(d, dep) => DependencySatisfied(e, dep)
  BY <1>1 DEF DependencySatisfied
<1>3. \A n \in Installed(e) : e[n] = a \/ (n \in Installed(d) /\ e[n] = d[n])
  BY ArchiveTypes DEF Installed, Registered, Records
<1> QED
  BY <1>2, <1>3

\* What needed the package that is removed has another one to turn to.
LEMMA RemovalKeepsDependencies ==
  ASSUME NEW d \in Records, NEW a \in Pkg, ~HasReverseDependency(d, a),
         d[NameOf[a]] = a,
         \A n \in Installed(d) : \A dep \in Depends[d[n]] : DependencySatisfied(d, dep)
  PROVE  LET e == Unregistered(d, NameOf[a]) IN
         \A n \in Installed(e) : \A dep \in Depends[e[n]] : DependencySatisfied(e, dep)
<1> DEFINE e == Unregistered(d, NameOf[a])
           others == Installed(d) \ {NameOf[a]}
<1>1. Installed(e) = others /\ \A n \in others : e[n] = d[n]
  BY ArchiveTypes DEF Installed, Unregistered, Records
<1> SUFFICES ASSUME NEW n \in others, NEW dep \in Depends[d[n]]
             PROVE  DependencySatisfied(e, dep)
  BY <1>1
<1>2. PICK m \in Installed(d) : RequirementMatches(d[m], dep)
  BY DEF DependencySatisfied
<1>3. CASE m = NameOf[a]
  <2>1. PICK k \in others : RequirementMatches(d[k], dep)
    BY <1>2, <1>3 DEF HasReverseDependency
  <2> QED
    BY <2>1, <1>1 DEF DependencySatisfied
<1>4. CASE m # NameOf[a]
  BY <1>1, <1>2, <1>4 DEF DependencySatisfied
<1> QED
  BY <1>3, <1>4

\* What the old version met for others the new one meets as well, and what the
\* new one needs is met without the old one: the comparators have to agree here,
\* or a constraint is checked by one and judged by the other.
LEMMA UpgradeKeepsDependencies ==
  ASSUME TxCmp = DbCmp,
         NEW d \in Records, NEW new \in Pkg, NEW old \in Pkg, NameOf[old] = NameOf[new],
         d[NameOf[new]] = old,
         \A dep \in Depends[new] :
           \/ SatisfiedByManifest(new, dep)
           \/ /\ ~(dep.op = "any" /\ HasCapability(old, dep.cap))
              /\ dep.cap # NameOf[new]
              /\ DependencySatisfied(d, dep),
         \A n \in Installed(d) \ {NameOf[old]} : \A dep \in Depends[d[n]] :
           HasCapability(old, dep.cap) => SatisfiedByManifest(new, dep),
         \A n \in Installed(d) : \A dep \in Depends[d[n]] : DependencySatisfied(d, dep)
  PROVE  LET e == Registered(d, new) IN
         \A n \in Installed(e) : \A dep \in Depends[e[n]] : DependencySatisfied(e, dep)
<1> DEFINE e == Registered(d, new)
           name == NameOf[new]
<1>1. /\ Installed(e) = Installed(d) /\ name \in Installed(d)
      /\ e[name] = new /\ \A n \in Installed(d) \ {name} : e[n] = d[n]
  BY NamesAssumption, ArchiveTypes DEF Installed, Registered, Records
<1>2. \A a, dep : SatisfiedByManifest(a, dep) <=> RequirementMatches(a, dep)
  BY DEF SatisfiedByManifest, RequirementMatches
<1>3. \A dep : SatisfiedByManifest(new, dep) => DependencySatisfied(e, dep)
  BY <1>1, <1>2 DEF DependencySatisfied
<1>4. \A dep : RequirementMatches(old, dep) => HasCapability(old, dep.cap)
  BY DEF RequirementMatches, Meets, HasCapability
<1>5. ASSUME NEW n \in Installed(d) \ {name}, NEW dep \in Depends[d[n]]
      PROVE  DependencySatisfied(e, dep)
  <2>1. PICK m \in Installed(d) : RequirementMatches(d[m], dep)
    BY DEF DependencySatisfied
  <2>2. CASE m = name
    BY <2>1, <2>2, <1>3, <1>4
  <2>3. CASE m # name
    BY <2>1, <2>3, <1>1 DEF DependencySatisfied
  <2> QED
    BY <2>2, <2>3
<1>6. ASSUME NEW dep \in Depends[new]
      PROVE  DependencySatisfied(e, dep)
  <2>1. CASE SatisfiedByManifest(new, dep)
    BY <2>1, <1>3
  <2>2. CASE /\ ~(dep.op = "any" /\ HasCapability(old, dep.cap))
             /\ dep.cap # name
             /\ DependencySatisfied(d, dep)
    <3>1. PICK m \in Installed(d) : RequirementMatches(d[m], dep)
      BY <2>2 DEF DependencySatisfied
    <3>2. ~RequirementMatches(old, dep)
      BY <2>2 DEF RequirementMatches, Meets
    <3> QED
      BY <3>1, <3>2, <1>1 DEF DependencySatisfied
  <2> QED
    BY <2>1, <2>2
<1> QED
  BY <1>1, <1>5, <1>6

\* A check that was made stays made while neither the database nor what the
\* transaction is about changes.
LEMMA CheckKeeps ==
  ASSUME NEW p \in Proc, DependencyCheck(p), UNCHANGED db,
         txn'[p].op = txn[p].op, txn'[p].new = txn[p].new, txn'[p].old = txn[p].old
  PROVE  DependencyCheck(p)'
BY DEF DependencyCheck, DependenciesMet, ReplacementMet, DependentsMet, ConflictFree,
       DependencySatisfied, HasReverseDependency, Installed

LEMMA CheckedInit == Init => CheckedInv
BY OwnerInit DEF Init, CheckedInv, NoTxn, Vetted, Pending, Check, Change

\* Every step of a lone command keeps true what its dependency checks have established
\* until it commits.
LEMMA CheckedStep ==
  ASSUME Alone
  PROVE  CheckedInv /\ [Next]_vars => CheckedInv'
<1> SUFFICES ASSUME CheckedInv, [Next]_vars PROVE CheckedInv'
  OBVIOUS
<1>ow. OwnerInv /\ OwnerInv'
  BY OwnerStep DEF Alone, Independent, CheckedInv
<1>tx. TypeInv /\ txn \in [Proc -> Txn]
  BY <1>ow DEF OwnerInv, TypeInv, TypeOK
\* nothing changes in the database, and what is vetted was or has just been
<1>same. ASSUME UNCHANGED db, NEW p \in Proc,
                txn'[p].pc \in Vetted =>
                  /\ DependencyCheck(p)
                  /\ txn'[p].op = txn[p].op /\ txn'[p].new = txn[p].new
                  /\ txn'[p].old = txn[p].old
         PROVE  CheckedInv'
  <2>1. txn'[p].pc \in Vetted => DependencyCheck(p)'
    BY <1>same, CheckKeeps
  <2> QED
    BY <1>ow, <2>1 DEF CheckedInv, Alone
\* a commit: the transaction ends or prunes, and there is no other one
<1>done. ASSUME NEW p \in Proc, txn'[p].pc \notin Vetted PROVE CheckedInv'
  BY <1>done, <1>ow DEF CheckedInv, Alone
<1>1. CASE UNCHANGED <<db, txn>>
  <2>1. ASSUME NEW p \in Proc, txn'[p].pc \in Vetted PROVE DependencyCheck(p)'
    BY <1>1, <2>1, CheckKeeps DEF CheckedInv
  <2> QED
    BY <1>ow, <2>1 DEF CheckedInv
<1>2. ASSUME NEW p \in Proc, Command(p) PROVE CheckedInv'
  <2>1. UNCHANGED db /\ \E op, new, old : Begin(p, op, new, old)
    BY <1>2 DEF Command, InstallBegin, UpgradeBegin, RemoveBegin
  <2>2. txn'[p].pc = "depends"
    BY <2>1, <1>tx DEF Begin, NoTxn
  <2> QED
    BY <2>1, <2>2, <1>same DEF Vetted
<1>3. ASSUME NEW p \in Proc, Stops(p) PROVE CheckedInv'
  BY <1>3, <1>tx, <1>same DEF Stops, End, NoTxn, Vetted, Pending, Check, Change
<1>4. ASSUME NEW p \in Proc, GoesOn(p) PROVE CheckedInv'
  <2>1. PICK t \in Txn : Onward(txn[p], t) /\ txn' = [txn EXCEPT ![p] = t]
    BY <1>4 DEF GoesOn
  <2>2. txn'[p] = t
    BY <2>1, <1>tx
  <2> QED
    BY <1>4, <2>1, <2>2, <1>same DEF GoesOn, Onward, CheckedInv
<1>5. ASSUME NEW p \in Proc, Vets(p) PROVE CheckedInv'
  BY <1>5, <1>tx, <1>same DEF Vets, Enter, Txn
<1>6. ASSUME NEW p \in Proc, Claims(p) PROVE CheckedInv'
  <2>1. DependencyCheck(p)
    BY <1>6 DEF Claims, CheckedInv, Vetted, Pending, Check
  <2> QED
    BY <1>6, <2>1, <1>tx, <1>same DEF Claims, Enter, Txn
<1>7. ASSUME NEW p \in Proc, Register(p) PROVE CheckedInv'
  <2>1. txn'[p].pc \notin Vetted
    BY <1>7, <1>tx DEF Register, End, Enter, NoTxn, Txn, Vetted, Pending, Check, Change
  <2> QED
    BY <2>1, <1>done
<1>8. ASSUME NEW p \in Proc, Drops(p) PROVE CheckedInv'
  <2>1. txn'[p].pc \notin Vetted
    BY <1>8, <1>tx DEF Drops, Enter, Txn, Vetted, Pending, Check, Change
  <2> QED
    BY <2>1, <1>done
<1> QED
  BY <1>1, <1>2, <1>3, <1>4, <1>5, <1>6, <1>7, <1>8, <1>tx, StepShape

\* A commit finds the record the transaction is about as it was.
LEMMA CommitFinds ==
  ASSUME OwnerInv, NEW p \in Proc, txn[p].pc \in {"register", "unregister"}
  PROVE  /\ txn[p].op = "install" => db[NameOf[txn[p].new]] = NoPkg
         /\ txn[p].op = "upgrade" => /\ txn[p].old \in Pkg
                                    /\ NameOf[txn[p].old] = NameOf[txn[p].new]
                                    /\ db[NameOf[txn[p].new]] = txn[p].old
         /\ txn[p].op = "remove" => db[NameOf[txn[p].old]] = txn[p].old
BY DEF OwnerInv, TypeInv, Shape, Good, Aims, Fresh, TargetOf, Pending, Change

\* Every step of a lone command keeps all dependencies met.
LEMMA DependencyStep ==
  ASSUME Alone, TxCmp = DbCmp
  PROVE  DependencyInv /\ [Next]_vars => DependencyInv'
<1> SUFFICES ASSUME DependencyInv, [Next]_vars PROVE DependenciesClosed'
  BY CheckedStep DEF DependencyInv
<1>tx. /\ OwnerInv /\ TypeInv /\ db \in Records /\ \A p \in Proc : Shape(txn[p])
       /\ \A p \in Proc : txn[p].pc \in Vetted => DependencyCheck(p)
       /\ \A n \in Installed(db) : \A dep \in Depends[db[n]] : DependencySatisfied(db, dep)
  BY DEF DependencyInv, DependenciesClosed, CheckedInv, OwnerInv, TypeInv, TypeOK
<1>1. CASE UNCHANGED db
  BY <1>1, <1>tx DEF DependenciesClosed, DependencySatisfied, Installed
<1>2. ASSUME NEW p \in Proc, Register(p) PROVE DependenciesClosed'
  <2>1. /\ txn[p].op \in {"install", "upgrade"} /\ txn[p].new \in Pkg /\ txn[p].pc = "register"
        /\ db' = Registered(db, txn[p].new)
    BY <1>2, <1>tx DEF Register, Shape
  <2>2. DependencyCheck(p)
    BY <2>1, <1>tx DEF Vetted, Pending, Change
  <2>3. CASE txn[p].op = "install"
    BY <2>1, <2>2, <2>3, <1>tx, CommitFinds, InstallKeepsDependencies
    DEF DependencyCheck, DependenciesMet, DependenciesClosed
  <2>4. CASE txn[p].op = "upgrade"
    <3>1. ReplacementMet(db, txn[p].new, txn[p].old) /\ DependentsMet(db, txn[p].new, txn[p].old)
      BY <2>2, <2>4 DEF DependencyCheck
    <3> QED
      BY <2>1, <2>4, <3>1, <1>tx, CommitFinds, UpgradeKeepsDependencies
      DEF ReplacementMet, DependentsMet, DependenciesClosed
  <2> QED
    BY <2>1, <2>3, <2>4
<1>3. ASSUME NEW p \in Proc, Drops(p) PROVE DependenciesClosed'
  <2>1. /\ txn[p].op = "remove" /\ txn[p].old \in Pkg /\ txn[p].pc = "unregister"
        /\ db' = Unregistered(db, NameOf[txn[p].old])
    BY <1>3, <1>tx DEF Drops, Shape, Target
  <2>2. ~HasReverseDependency(db, txn[p].old)
    BY <2>1, <1>tx DEF Vetted, Pending, Change, DependencyCheck
  <2> QED
    BY <2>1, <2>2, <1>tx, CommitFinds, RemovalKeepsDependencies DEF DependenciesClosed
<1> QED
  BY <1>1, <1>2, <1>3, <1>tx, StepShape
  DEF Command, InstallBegin, UpgradeBegin, RemoveBegin, Stops, GoesOn, Vets, Claims

\* With one command at a time and one idea of which version is newer, every
\* dependency of every installed package is met, always: the checks of install,
\* remove and upgrade suffice.  The run "skew" shows what happens where the two
\* comparators of the program differ.
THEOREM DependenciesStayMet ==
  ASSUME Alone, TxCmp = DbCmp
  PROVE  Spec => []DependenciesClosed
<1>1. Init => DependencyInv
  BY CheckedInit DEF Init, DependencyInv, DependenciesClosed, Installed
<1>2. DependencyInv /\ [Next]_vars => DependencyInv'
  BY DependencyStep
<1>3. DependencyInv => DependenciesClosed
  BY DEF DependencyInv
<1> QED
  BY <1>1, <1>2, <1>3, PTL DEF Spec

-----------------------------------------------------------------------------
\* Upgrades bring in no conflicts

\* With one command at a time an upgrade never replaces a package by one that is in
\* conflict with another installed package: upgrade_conflict_check, made before
\* anything is staged, still holds when the new record is written.
THEOREM UpgradesKeepPeace ==
  ASSUME Alone
  PROVE  Spec => UpgradeKeepsPeace
<1> DEFINE Peaceful == \A n \in Installed(db) : db'[n] \notin {db[n], NoPkg} =>
             \A m \in Installed(db) \ {n} : ~Conflict(db'[n], db[m])
<1>1. CheckedInv /\ [Next]_vars => [Peaceful]_vars
  <2> SUFFICES ASSUME CheckedInv, [Next]_vars, NEW n \in Installed(db), db'[n] # db[n], db'[n] # NoPkg,
                      NEW m \in Installed(db) \ {n}
               PROVE  ~Conflict(db'[n], db[m])
    OBVIOUS
  <2>t. OwnerInv /\ TypeInv /\ db \in Records /\ n \in Name /\ \A p \in Proc : Shape(txn[p])
    BY DEF CheckedInv, OwnerInv, TypeInv, TypeOK, Installed
  <2>1. ~UNCHANGED db
    OBVIOUS
  <2>2. PICK p \in Proc : Register(p) \/ Drops(p)
    BY <2>1, <2>t, StepShape
    DEF Command, InstallBegin, UpgradeBegin, RemoveBegin, Stops, GoesOn, Vets, Claims
  <2>3. ~Drops(p)
    BY <2>t DEF Drops, Unregistered, Records
  <2>4. /\ txn[p].pc = "register" /\ txn[p].new \in Pkg /\ txn[p].op \in {"install", "upgrade"}
        /\ db' = [db EXCEPT ![NameOf[txn[p].new]] = txn[p].new]
    BY <2>2, <2>3, <2>t DEF Register, Shape, Registered
  <2>5. n = NameOf[txn[p].new] /\ db'[n] = txn[p].new
    BY <2>4, <2>t DEF Records
  <2>6. txn[p].op = "upgrade" /\ NameOf[txn[p].old] = n
    BY <2>4, <2>5, <2>t, CommitFinds DEF Installed
  <2>7. ConflictFree(db, txn[p].new, txn[p].old)
    BY <2>4, <2>6 DEF CheckedInv, Vetted, Pending, Change, DependencyCheck
  <2> QED
    BY <2>5, <2>6, <2>7 DEF ConflictFree, Conflict
<1> QED
  BY <1>1, CheckedInit, CheckedStep, PTL DEF Spec, UpgradeKeepsPeace

-----------------------------------------------------------------------------
\* Trees

\* Below every path that holds something there are directories only, and what holds
\* nothing has no contents either.
Closed(t) ==
  \A q \in Path : /\ Exists(t, q) => \A r \in Above[q] : IsDir(t, r)
                  /\ ~Exists(t, q) => t[q] = Absent

\* A path below a file or a link holds nothing.
LEMMA NothingBelowFiles ==
  ASSUME NEW t \in Tree, Closed(t), NEW q \in Path, ~IsDir(t, q)
  PROVE  \A r \in Path : q \in Above[r] => ~Exists(t, r)
BY DEF Closed

\* No path is a directory on the way to itself, and neither are two on the way to
\* each other.
LEMMA AboveOrdered ==
  /\ \A q \in Path : Above[q] \subseteq Path /\ q \notin Above[q]
  /\ \A q \in Path : \A r \in Above[q] : Above[r] \subseteq Above[q]
<1>1. \A q \in Path : Above[q] \subseteq Path
  BY PathAssumption
<1>2. \A q \in Path : Rank[q] \in Nat
  BY PathAssumption
<1>3. ASSUME NEW q \in Path, q \in Above[q] PROVE FALSE
  <2>1. Rank[q] < Rank[q]
    BY <1>3, PathAssumption
  <2> QED
    BY <2>1, <1>2
<1> QED
  BY <1>1, <1>3, PathAssumption

\* Taking away a file, a link or nothing keeps a tree closed.
LEMMA WithoutClosed ==
  ASSUME NEW t \in Tree, Closed(t), NEW q \in Path, ~IsDir(t, q)
  PROVE  Closed(Without(t, q))
<1> DEFINE u == Without(t, q)
<1> SUFFICES Closed(u)
  OBVIOUS
<1>1. /\ u[q] = Absent
      /\ \A r \in Path \ {q} : u[r] = t[r]
  BY DEF Without, Tree
<1>2. \A r \in Path : q \in Above[r] => ~Exists(t, r)
  BY NothingBelowFiles
<1> HIDE DEF u
<1> QED
  BY <1>1, <1>2, AboveOrdered DEF Closed, Exists, IsDir, Absent

\* So does a directory that is removed or left.
LEMMA RmdirClosed ==
  ASSUME NEW t \in Tree, Closed(t), NEW q \in Path
  PROVE  Closed(Rmdir(t, q))
<1>1. CASE IsDir(t, q) /\ \A r \in Path : q \in Above[r] => ~Exists(t, r)
  <2> DEFINE u == Without(t, q)
  <2>1. /\ u[q] = Absent
        /\ \A r \in Path \ {q} : u[r] = t[r]
    BY DEF Without, Tree
  <2>2. Rmdir(t, q) = u
    BY <1>1 DEF Rmdir
  <2> HIDE DEF u
  <2> QED
    BY <2>1, <2>2, <1>1, AboveOrdered DEF Closed, Exists, IsDir, Absent
<1>2. CASE ~(IsDir(t, q) /\ \A r \in Path : q \in Above[r] => ~Exists(t, r))
  BY <1>2 DEF Rmdir
<1> QED
  BY <1>1, <1>2

\* So does a node put where nothing is, below directories.
LEMMA MkdirClosed ==
  ASSUME NEW t \in Tree, Closed(t), NEW q \in Path, CanMkdir(t, q),
         NEW n \in Node, n.kind # "none"
  PROVE  Closed([t EXCEPT ![q] = n])
<1> DEFINE u == [t EXCEPT ![q] = n]
<1> SUFFICES Closed(u)
  OBVIOUS
<1>1. /\ u[q] = n
      /\ \A r \in Path \ {q} : u[r] = t[r]
  BY DEF Tree
<1>2. \A r \in Path : q \in Above[r] => ~Exists(t, r)
  BY NothingBelowFiles DEF CanMkdir, IsDir, Exists
<1> HIDE DEF u
<1> QED
  BY <1>1, <1>2, AboveOrdered DEF Closed, Exists, IsDir, CanMkdir

\* So does a file renamed to a path whose parents are made first.
LEMMA PutClosed ==
  ASSUME NEW t \in Tree, Closed(t), NEW q \in Path, CanPut(t, q),
         NEW n \in Node, n.kind # "none"
  PROVE  Closed(Put(t, q, n))
<1> DEFINE u == Put(t, q, n)
<1> SUFFICES Closed(u)
  OBVIOUS
<1>1. /\ u[q] = n
      /\ \A r \in Path \ {q} : u[r] = IF r \in Above[q] /\ ~Exists(t, r) THEN Dir ELSE t[r]
  BY DEF Put, WithParents
<1>2. \A r \in Path : q \in Above[r] => ~Exists(t, r)
  BY NothingBelowFiles DEF CanPut
<1>3. \A r \in Above[q] : IsDir(u, r)
  BY <1>1, AboveOrdered DEF CanPut, ParentsUsable, IsDir, Dir
<1> HIDE DEF u
<1>4. ASSUME NEW r \in Path, Exists(u, r), NEW s \in Above[r] PROVE IsDir(u, s)
  <2>1. CASE r = q
    BY <1>3, <2>1
  <2>2. CASE r # q /\ r \in Above[q]
    BY <1>3, <2>2, AboveOrdered
  <2>3. CASE r # q /\ r \notin Above[q]
    <3>1. Exists(t, r) /\ s # q /\ s \in Path /\ IsDir(t, s)
      BY <1>1, <1>2, <1>4, <2>3, AboveOrdered DEF Exists, Closed
    <3> QED
      BY <1>1, <3>1 DEF IsDir, Exists
  <2> QED
    BY <2>1, <2>2, <2>3
<1>5. ASSUME NEW r \in Path, ~Exists(u, r) PROVE u[r] = Absent
  BY <1>1, <1>5 DEF Exists, Closed, Dir
<1> QED
  BY <1>4, <1>5 DEF Closed

\* Where all parents are there a rename changes the one path.
LEMMA PutBelowDirs ==
  ASSUME NEW t \in Tree, NEW q \in Path, NEW n, \A r \in Above[q] : IsDir(t, r)
  PROVE  Put(t, q, n) = [t EXCEPT ![q] = n]
<1>1. WithParents(t, q) = t
  BY DEF WithParents, Tree, IsDir, Exists
<1> QED
  BY <1>1 DEF Put

-----------------------------------------------------------------------------
\* What a transaction knows of the tree it found

Undoing == {"undo"}
Working == Change \cup Undoing        \* it may have changed something

\* An upgrade may replace what no package records.
Exposed(t, q, d) == t.op = "upgrade" /\ q \in Files(t.new) /\ Owners(d, q) = {}

\* The lists of transaction t account for every difference between the tree f and
\* the one it found: q is put in place, or made, or moved to the staging directory,
\* or it is as it was; only what was exposed may be lost.
Traced(t, f, d) ==
  /\ Closed(t.before)
  /\ \A q \in Path : Exists(t.backup, q) =>
       /\ t.op # "install" /\ q \in Files(t.old)
       /\ t.backup[q] = t.before[q] /\ ~IsDir(t.before, q)
  /\ \A q \in t.placed :
       /\ q \in Files(t.new) /\ f[q] = Payload[t.new][q]
       /\ Exists(t.before, q) => Exists(t.backup, q) \/ Exposed(t, q, d)
  /\ \A q \in t.created : f[q] = Dir /\ ~Exists(t.before, q)
  /\ \A q \in Path \ (t.placed \cup t.created) :
       \/ f[q] = t.before[q] /\ ~Exists(t.backup, q)
       \/ f[q] = Absent /\ (Exists(t.backup, q) \/ Exposed(t, q, d))

\* What the checks have established of the tree that was found.
Examined(t, d) ==
  /\ t.op = "install" => \A q \in Files(t.new) : ~Exists(t.before, q)
  /\ t.op \in {"remove", "upgrade"} =>
       \A q \in Files(t.old) : Exists(t.before, q) => t.before[q].kind = Payload[t.old][q].kind
  /\ t.op = "upgrade" =>
       /\ \A q \in Files(t.new) : Owners(d, q) = {} \/ q \in Files(t.old)
       /\ \A q \in Files(t.new) : ~IsDir(t.before, q)
       /\ Files(t.old) \cap Dirs(t.new) = {}

\* A removal leaves links whose target has gone before.
Gone(t, f, q) == ~Exists(f, q) \/ (t.op = "remove" /\ f[q].kind = "l")

\* How far the loops have come.
Reached(t, f) ==
  /\ t.pc \in {"stage", "dirs", "unregister"} => t.placed = {}
  /\ t.pc \in {"stage", "unregister"} => t.created = {}
  /\ t.pc = "stage" =>
       t.todo \subseteq Files(t.old) /\ \A q \in Files(t.old) \ t.todo : Gone(t, f, q)
  /\ t.pc = "unregister" => \A q \in Files(t.old) : Gone(t, f, q)
  /\ t.pc \in {"dirs", "files", "register"} /\ t.op = "upgrade" =>
       \A q \in Files(t.old) \ t.placed : ~Exists(f, q)
  /\ t.pc = "dirs" =>
       t.todo \subseteq Dirs(t.new) /\ \A q \in Dirs(t.new) \ t.todo : IsDir(f, q)
  /\ t.pc = "files" =>
       t.todo = Files(t.new) \ t.placed /\ \A q \in Dirs(t.new) : IsDir(f, q)
  /\ t.pc = "register" => t.placed = Files(t.new)

\* Before its first change a transaction has nothing to undo.
Untouched(t, f) ==
  /\ f = t.before
  /\ t.placed = {} /\ t.created = {} /\ t.backup = EmptyTree

\* What is known of transaction t, the tree f and the database d at each stage.
Sound(t, f, d) ==
  /\ t.pc \in Check => Untouched(t, f)
  /\ t.pc = "preflight" /\ t.op = "upgrade" =>
       \A q \in Files(t.old) : Exists(f, q) => f[q].kind = Payload[t.old][q].kind
  /\ t.pc \in Working => Traced(t, f, d) /\ Examined(t, d) /\ Reached(t, f)

\* moved_append never fails after a rename or a mkdir.
AllTracked == Limit["untracked"] = 0

TreeInv ==
  /\ OwnerInv
  /\ Closed(fs)
  /\ \A p \in Proc : Sound(txn[p], fs, db)

\* One transaction is about the same as another, and has the same to undo.
SameJob(t, u) ==
  u.op = t.op /\ u.new = t.new /\ u.old = t.old /\ u.before = t.before
SameLists(t, u) ==
  SameJob(t, u) /\ u.placed = t.placed /\ u.created = t.created /\ u.backup = t.backup

LEMMA Entered ==
  ASSUME TypeInv, NEW p \in Proc, NEW stage, NEW paths, Enter(p, stage, paths)
  PROVE  SameLists(txn[p], txn'[p]) /\ txn'[p].pc = stage /\ txn'[p].todo = paths
<1>1. txn[p] \in Txn /\ txn'[p] = [txn[p] EXCEPT !.pc = stage, !.todo = paths]
  BY DEF TypeInv, TypeOK, Enter
<1> QED
  BY <1>1 DEF Txn, SameLists, SameJob

LEMMA ListsKeep ==
  ASSUME NEW t, NEW u, SameLists(t, u), NEW f, NEW d
  PROVE  /\ Traced(t, f, d) => Traced(u, f, d)
         /\ Untouched(t, f) => Untouched(u, f)
BY DEF SameLists, SameJob, Traced, Untouched, Exposed

LEMMA JobKeeps ==
  ASSUME NEW t, NEW u, SameJob(t, u), NEW d
  PROVE  Examined(t, d) => Examined(u, d)
BY DEF SameJob, Examined

\* At its first change a transaction has an account of nothing.
LEMMA UntouchedTraced ==
  ASSUME NEW t, NEW f, NEW d, Untouched(t, f), Closed(f)
  PROVE  Traced(t, f, d)
BY DEF Untouched, Traced, EmptyTree, Absent, Exists

\* The types of what the invariant speaks of.
LEMMA TreeTypes ==
  ASSUME TreeInv, NEW p \in Proc
  PROVE  /\ fs \in Tree /\ db \in Records /\ txn \in [Proc -> Txn]
         /\ txn[p] \in Txn /\ Shape(txn[p]) /\ Good(p, db, txn[p]) /\ TypeInv
         /\ txn[p].backup \in Tree /\ txn[p].before \in Tree
         /\ txn[p].placed \subseteq Path /\ txn[p].created \subseteq Path
         /\ Closed(fs) /\ Sound(txn[p], fs, db)
<1>1. /\ fs \in Tree /\ db \in Records /\ txn \in [Proc -> Txn] /\ txn[p] \in Txn
      /\ Shape(txn[p]) /\ Good(p, db, txn[p]) /\ TypeInv
      /\ Closed(fs) /\ Sound(txn[p], fs, db)
  BY DEF TreeInv, OwnerInv, TypeInv, TypeOK
<1> QED
  BY <1>1 DEF Txn

\* What a step has to keep.
Keeps(p) == Closed(fs') /\ Sound(txn'[p], fs', db')

LEMMA EndKeepsTree ==
  ASSUME TreeInv, NEW p \in Proc, End(p), Closed(fs')
  PROVE  Keeps(p)
<1>1. txn'[p].pc = "idle"
  BY TreeTypes DEF End, NoTxn
<1> QED
  BY <1>1 DEF Keeps, Sound, Check, Working, Change, Undoing

\* Turning to the rollback keeps the account.
LEMMA UndoKeepsTree ==
  ASSUME TreeInv, NEW p \in Proc, txn[p].pc \in Change, Undo(p), UNCHANGED <<fs, db>>
  PROVE  Keeps(p)
<1> DEFINE t == txn[p]
           u == txn'[p]
<1>1. SameLists(t, u) /\ u.pc = "undo"
  BY TreeTypes, Entered DEF Undo
<1>2. Traced(t, fs, db) /\ Examined(t, db)
  BY TreeTypes DEF Sound, Working
<1>3. Traced(u, fs, db) /\ Examined(u, db)
  BY <1>1, <1>2, ListsKeep, JobKeeps DEF SameLists
<1>4. Reached(u, fs)
  BY <1>1 DEF Reached
<1> QED
  BY <1>1, <1>3, <1>4, TreeTypes DEF Keeps, Sound, Check

\* Going on to the next stage keeps the account.
LEMMA EnterKeepsTree ==
  ASSUME TreeInv, NEW p \in Proc, NEW stage, NEW paths, Enter(p, stage, paths),
         txn[p].pc \in Change, stage \in Change, UNCHANGED <<fs, db>>,
         Reached(txn'[p], fs)
  PROVE  Keeps(p)
<1> DEFINE t == txn[p]
           u == txn'[p]
<1>1. SameLists(t, u) /\ u.pc = stage
  BY TreeTypes, Entered
<1>2. Traced(t, fs, db) /\ Examined(t, db)
  BY TreeTypes DEF Sound, Working
<1>3. Traced(u, fs, db) /\ Examined(u, db)
  BY <1>1, <1>2, ListsKeep, JobKeeps DEF SameLists
<1> QED
  BY <1>1, <1>3, TreeTypes DEF Keeps, Sound, Check, Change

-----------------------------------------------------------------------------
\* The checks

LEMMA BeginKeepsTree ==
  ASSUME TreeInv, NEW p \in Proc, Command(p)
  PROVE  Keeps(p)
<1>1. UNCHANGED <<fs, db>> /\ \E op, new, old : Begin(p, op, new, old)
  BY DEF Command, InstallBegin, UpgradeBegin, RemoveBegin
<1>2. /\ txn'[p].pc = "depends" /\ txn'[p].before = fs
      /\ txn'[p].placed = {} /\ txn'[p].created = {} /\ txn'[p].backup = EmptyTree
  BY <1>1, TreeTypes DEF Begin, NoTxn
<1>3. Untouched(txn'[p], fs)
  BY <1>2 DEF Untouched
<1> QED
  BY <1>1, <1>2, <1>3, TreeTypes DEF Keeps, Sound, Working, Change, Undoing

LEMMA DependsKeepsTree ==
  ASSUME TreeInv, NEW p \in Proc, CheckDependencies(p)
  PROVE  Keeps(p)
<1>1. CASE End(p)
  BY <1>1, EndKeepsTree, TreeTypes DEF CheckDependencies
<1>2. CASE Enter(p, IF txn[p].op = "install" THEN "preflight" ELSE "validate", {})
  <2>1. /\ SameLists(txn[p], txn'[p])
        /\ txn'[p].pc = IF txn[p].op = "install" THEN "preflight" ELSE "validate"
    BY <1>2, TreeTypes, Entered
  <2>2. Untouched(txn[p], fs)
    BY TreeTypes DEF CheckDependencies, Sound, Check
  <2>3. Untouched(txn'[p], fs)
    BY <2>1, <2>2, ListsKeep
  <2>4. UNCHANGED <<fs, db>>
    BY DEF CheckDependencies
  <2> QED
    BY <2>1, <2>3, <2>4, TreeTypes DEF Keeps, Sound, Working, Change, Undoing, SameLists, SameJob
<1> QED
  BY <1>1, <1>2 DEF CheckDependencies

LEMMA ValidateKeepsTree ==
  ASSUME TreeInv, NEW p \in Proc, ValidateOld(p)
  PROVE  Keeps(p)
<1> DEFINE t == txn[p]
           u == txn'[p]
<1>1. UNCHANGED <<fs, db>> /\ t.pc = "validate" /\ t.old \in Pkg /\ t.op \in {"remove", "upgrade"}
  BY TreeTypes DEF ValidateOld, Shape
<1>2. Untouched(t, fs)
  BY <1>1, TreeTypes DEF Sound, Check
<1>3. CASE End(p)
  BY <1>1, <1>3, EndKeepsTree, TreeTypes
<1>4. CASE ~End(p)
  <2>1. RecordedPathsIntact(p)
    BY <1>4 DEF ValidateOld
  <2>2. \A q \in Files(t.old) : Exists(fs, q) => fs[q].kind = Payload[t.old][q].kind
    BY <2>1 DEF RecordedPathsIntact, Files, Entries
  <2>3. CASE t.op = "remove"
    <3>1. Enter(p, "stage", Files(t.old))
      BY <1>4, <2>3 DEF ValidateOld
    <3>2. SameLists(t, u) /\ u.pc = "stage" /\ u.todo = Files(u.old) /\ u.op = "remove"
      BY <3>1, <2>3, TreeTypes, Entered DEF SameLists, SameJob
    <3>3. Untouched(u, fs)
      BY <1>2, <3>2, ListsKeep
    <3>4. Traced(u, fs, db)
      BY <3>3, TreeTypes, UntouchedTraced
    <3>5. Examined(u, db)
      BY <2>2, <3>2, <3>3 DEF Examined, Untouched, SameLists, SameJob
    <3>6. Reached(u, fs)
      BY <3>2, <3>3 DEF Reached, Untouched
    <3> QED
      BY <1>1, <3>2, <3>4, <3>5, <3>6, TreeTypes DEF Keeps, Sound, Check
  <2>4. CASE t.op # "remove"
    <3>1. Enter(p, "preflight", {})
      BY <1>4, <2>4 DEF ValidateOld
    <3>2. SameLists(t, u) /\ u.pc = "preflight"
      BY <3>1, TreeTypes, Entered
    <3>3. Untouched(u, fs)
      BY <1>2, <3>2, ListsKeep
    <3> QED
      BY <1>1, <2>2, <3>2, <3>3, TreeTypes
      DEF Keeps, Sound, Working, Change, Undoing, SameLists, SameJob
  <2> QED
    BY <2>3, <2>4
<1> QED
  BY <1>3, <1>4

LEMMA PreflightKeepsTree ==
  ASSUME TreeInv, NEW p \in Proc, Preflight(p)
  PROVE  Keeps(p)
<1> DEFINE t == txn[p]
           u == txn'[p]
<1>1. /\ UNCHANGED <<fs, db>> /\ t.pc = "preflight" /\ t.new \in Pkg
      /\ t.op \in {"install", "upgrade"}
  BY TreeTypes DEF Preflight, Shape
<1>2. Untouched(t, fs)
  BY <1>1, TreeTypes DEF Sound, Check
<1>3. CASE End(p)
  BY <1>1, <1>3, EndKeepsTree, TreeTypes
<1>4. CASE ~End(p)
  <2>1. PathsFree(p)
    BY <1>4 DEF Preflight
  <2>2. CASE t.op = "install"
    <3>1. Enter(p, "dirs", Dirs(t.new))
      BY <1>4, <2>2 DEF Preflight
    <3>2. SameLists(t, u) /\ u.pc = "dirs" /\ u.todo = Dirs(u.new) /\ u.op = "install"
      BY <3>1, <2>2, TreeTypes, Entered DEF SameLists, SameJob
    <3>3. Untouched(u, fs)
      BY <1>2, <3>2, ListsKeep
    <3>4. Traced(u, fs, db)
      BY <3>3, TreeTypes, UntouchedTraced
    <3>5. Examined(u, db)
      BY <2>1, <2>2, <3>2, <3>3
      DEF Examined, Untouched, SameLists, SameJob, PathsFree, InstallPathsFree
    <3>6. Reached(u, fs)
      BY <3>2, <3>3 DEF Reached, Untouched
    <3> QED
      BY <1>1, <3>2, <3>4, <3>5, <3>6, TreeTypes DEF Keeps, Sound, Check
  <2>3. CASE t.op = "upgrade"
    <3>1. Enter(p, "stage", Files(t.old))
      BY <1>4, <2>3 DEF Preflight
    <3>2. SameLists(t, u) /\ u.pc = "stage" /\ u.todo = Files(u.old) /\ u.op = "upgrade"
      BY <3>1, <2>3, TreeTypes, Entered DEF SameLists, SameJob
    <3>3. Untouched(u, fs)
      BY <1>2, <3>2, ListsKeep
    <3>4. Traced(u, fs, db)
      BY <3>3, TreeTypes, UntouchedTraced
    <3>5. t.old \in Pkg /\ NameOf[t.old] = NameOf[t.new] /\ db[NameOf[t.old]] = t.old
      BY <1>1, <2>3, TreeTypes DEF Shape, Good, Aims, Fresh, TargetOf, Pending, Check
    <3>6. UpgradePathsFree(t.new, t.old)
      BY <2>1, <2>3 DEF PathsFree
    <3>7. ASSUME NEW q \in Files(t.new)
          PROVE  (Owners(db, q) = {} \/ q \in Files(t.old)) /\ ~IsDir(fs, q)
      <4>1. q \in Path /\ q \in Entries(t.new) /\ Payload[t.new][q].kind \in {"f", "l"}
        BY <3>7 DEF Files, Entries
      <4>2. ~IsDir(fs, q)
        BY <3>6, <4>1 DEF UpgradePathsFree, IsDir, Exists
      <4>3. CASE NameOf[t.old] \in Owners(db, q)
        <5>1. q \in Entries(t.old)
          BY <4>3, <3>5 DEF Owners
        <5> QED
          BY <3>6, <4>1, <4>2, <5>1 DEF UpgradePathsFree, Files
      <4> QED
        BY <3>6, <3>7, <4>2, <4>3 DEF UpgradePathsFree
    <3>8. Files(t.old) \cap Dirs(t.new) = {}
      BY <3>6 DEF UpgradePathsFree, Files, Dirs, Entries
    <3>9. \A q \in Files(t.old) : Exists(fs, q) => fs[q].kind = Payload[t.old][q].kind
      BY <1>1, <2>3, TreeTypes DEF Sound
    <3>10. Examined(u, db)
      BY <3>2, <3>3, <3>7, <3>8, <3>9 DEF Examined, Untouched, SameLists, SameJob
    <3>11. Reached(u, fs)
      BY <3>2, <3>3 DEF Reached, Untouched
    <3> QED
      BY <1>1, <3>2, <3>4, <3>10, <3>11, TreeTypes DEF Keeps, Sound, Check
  <2> QED
    BY <1>1, <2>2, <2>3
<1> QED
  BY <1>3, <1>4

-----------------------------------------------------------------------------
\* The changes

LEMMA StageKeepsTree ==
  ASSUME TreeInv, NEW p \in Proc, NEW q \in Path, StageOld(p, q)
  PROVE  Keeps(p)
<1> DEFINE t == txn[p]
           u == txn'[p]
<1>1. /\ UNCHANGED db /\ t.pc = "stage" /\ q \in t.todo /\ t.op \in {"remove", "upgrade"}
      /\ t.old \in Pkg
  BY TreeTypes DEF StageOld, First, Last, Shape
<1>2. Traced(t, fs, db) /\ Examined(t, db) /\ Reached(t, fs)
  BY <1>1, TreeTypes DEF Sound, Working, Change
<1>3. /\ t.placed = {} /\ t.created = {} /\ q \in Files(t.old)
      /\ t.todo \subseteq Files(t.old) /\ \A r \in Files(t.old) \ t.todo : Gone(t, fs, r)
  BY <1>1, <1>2 DEF Reached
<1>4. CASE txn' = [txn EXCEPT ![p].todo = @ \ {q}] /\ UNCHANGED fs /\ Found(p, q) = "none"
  <2>1. SameLists(t, u) /\ u.pc = "stage" /\ u.todo = t.todo \ {q}
    BY <1>1, <1>4, TreeTypes DEF Txn, SameLists, SameJob
  <2>2. Gone(t, fs, q)
    BY <1>1, <1>4 DEF Found, Gone, Exists
  <2>3. Traced(u, fs, db) /\ Examined(u, db)
    BY <1>2, <2>1, ListsKeep, JobKeeps DEF SameLists
  <2>4. Reached(u, fs)
    BY <1>3, <2>1, <2>2 DEF Reached, Gone, SameLists, SameJob
  <2> QED
    BY <1>1, <1>4, <2>1, <2>3, <2>4, TreeTypes DEF Keeps, Sound, Check
<1>5. CASE Undo(p) /\ UNCHANGED fs
  BY <1>1, <1>5, UndoKeepsTree DEF Change
<1>6. CASE /\ Found(p, q) # "none"
           /\ txn' = [txn EXCEPT ![p].todo = @ \ {q}, ![p].backup[q] = fs[q]]
           /\ fs' = Without(fs, q)
  <2>1. /\ SameJob(t, u) /\ u.pc = "stage" /\ u.todo = t.todo \ {q}
        /\ u.placed = {} /\ u.created = {} /\ u.backup = [t.backup EXCEPT ![q] = fs[q]]
    BY <1>1, <1>3, <1>6, TreeTypes DEF Txn, SameJob
  <2>2. /\ u.backup[q] = fs[q] /\ \A r \in Path \ {q} : u.backup[r] = t.backup[r]
        /\ fs'[q] = Absent /\ \A r \in Path \ {q} : fs'[r] = fs[r]
    BY <1>6, <2>1, TreeTypes DEF Tree, Without
  <2>3. Exists(fs, q)
    BY <1>6 DEF Found, Exists
  <2>4. fs[q] = t.before[q]
    BY <1>2, <1>3, <2>3 DEF Traced, Exists, Absent
  <2>5. ~IsDir(fs, q) /\ ~IsDir(t.before, q)
    BY <1>1, <1>2, <1>3, <2>3, <2>4 DEF Examined, Files, Exists, IsDir
  <2>6. Closed(fs')
    BY <1>6, <2>5, TreeTypes, WithoutClosed
  <2>7. Traced(u, fs', db)
    <3>1. ASSUME NEW r \in Path, Exists(u.backup, r)
          PROVE  /\ u.op # "install" /\ r \in Files(u.old)
                 /\ u.backup[r] = u.before[r] /\ ~IsDir(u.before, r)
      BY <1>1, <1>2, <1>3, <2>1, <2>2, <2>4, <2>5, <3>1 DEF Traced, SameJob, Exists
    <3>2. ASSUME NEW r \in Path
          PROVE  \/ fs'[r] = u.before[r] /\ ~Exists(u.backup, r)
                 \/ fs'[r] = Absent /\ (Exists(u.backup, r) \/ Exposed(u, r, db))
      BY <1>2, <1>3, <2>1, <2>2, <2>3, <3>2 DEF Traced, SameJob, Exists, Exposed
    <3> QED
      BY <1>2, <2>1, <3>1, <3>2 DEF Traced, SameJob
  <2>8. Examined(u, db)
    BY <1>2, <2>1, JobKeeps
  <2>9. Reached(u, fs')
    BY <1>1, <1>3, <2>1, <2>2, ArchiveTypes DEF Reached, Gone, SameJob, Exists, Absent
  <2> QED
    BY <1>1, <2>1, <2>6, <2>7, <2>8, <2>9 DEF Keeps, Sound, Check
<1> QED
  BY <1>4, <1>5, <1>6 DEF StageOld

LEMMA StagedKeepsTree ==
  ASSUME TreeInv, NEW p \in Proc, OldStaged(p)
  PROVE  Keeps(p)
<1> DEFINE t == txn[p]
           u == txn'[p]
<1>1. /\ UNCHANGED <<fs, db>> /\ t.pc = "stage" /\ t.todo = {} /\ t.op \in {"remove", "upgrade"}
  BY TreeTypes DEF OldStaged, Shape
<1>2. Traced(t, fs, db) /\ Reached(t, fs)
  BY <1>1, TreeTypes DEF Sound, Working, Change
<1>3. /\ t.placed = {} /\ t.created = {} /\ \A r \in Files(t.old) : Gone(t, fs, r)
  BY <1>1, <1>2 DEF Reached
<1>4. CASE t.op = "remove" /\ Enter(p, "unregister", {})
  <2>1. SameLists(t, u) /\ u.pc = "unregister"
    BY <1>4, TreeTypes, Entered
  <2>2. Reached(u, fs)
    BY <1>3, <2>1 DEF Reached, Gone, SameLists, SameJob
  <2> QED
    BY <1>1, <1>4, <2>2, EnterKeepsTree DEF Change
<1>5. CASE t.op = "upgrade" /\ Enter(p, "dirs", Dirs(t.new))
  <2>1. SameLists(t, u) /\ u.pc = "dirs" /\ u.todo = Dirs(u.new)
    BY <1>5, TreeTypes, Entered DEF SameLists, SameJob
  <2>2. Reached(u, fs)
    BY <1>3, <1>5, <2>1 DEF Reached, Gone, SameLists, SameJob
  <2> QED
    BY <1>1, <1>5, <2>2, EnterKeepsTree DEF Change
<1> QED
  BY <1>1, <1>4, <1>5 DEF OldStaged

LEMMA DirKeepsTree ==
  ASSUME TreeInv, NEW p \in Proc, NEW q \in Path, PlaceDir(p, q)
  PROVE  Keeps(p)
<1> DEFINE t == txn[p]
           u == txn'[p]
<1>1. /\ UNCHANGED db /\ t.pc = "dirs" /\ q \in t.todo /\ t.op \in {"install", "upgrade"}
      /\ t.new \in Pkg
  BY TreeTypes DEF PlaceDir, Shape
<1>2. Traced(t, fs, db) /\ Examined(t, db) /\ Reached(t, fs)
  BY <1>1, TreeTypes DEF Sound, Working, Change
<1>3. /\ t.placed = {} /\ q \in Dirs(t.new) /\ t.todo \subseteq Dirs(t.new)
      /\ \A r \in Dirs(t.new) \ t.todo : IsDir(fs, r)
      /\ t.op = "upgrade" => \A r \in Files(t.old) : ~Exists(fs, r)
  BY <1>1, <1>2 DEF Reached
<1>4. CASE IsDir(fs, q) /\ txn' = [txn EXCEPT ![p].todo = @ \ {q}] /\ UNCHANGED fs
  <2>1. SameLists(t, u) /\ u.pc = "dirs" /\ u.todo = t.todo \ {q}
    BY <1>1, <1>4, TreeTypes DEF Txn, SameLists, SameJob
  <2>2. Traced(u, fs, db) /\ Examined(u, db)
    BY <1>2, <2>1, ListsKeep, JobKeeps DEF SameLists
  <2>3. Reached(u, fs)
    BY <1>3, <1>4, <2>1 DEF Reached, SameLists, SameJob
  <2> QED
    BY <1>1, <1>4, <2>1, <2>2, <2>3, TreeTypes DEF Keeps, Sound, Check
<1>5. CASE /\ CanMkdir(fs, q) /\ fs' = [fs EXCEPT ![q] = Dir]
           /\ txn' = [txn EXCEPT ![p].todo = @ \ {q}, ![p].created = @ \cup {q}]
  <2>1. /\ SameJob(t, u) /\ u.pc = "dirs" /\ u.todo = t.todo \ {q}
        /\ u.placed = {} /\ u.created = t.created \cup {q} /\ u.backup = t.backup
    BY <1>1, <1>3, <1>5, TreeTypes DEF Txn, SameJob
  <2>2. fs'[q] = Dir /\ \A r \in Path \ {q} : fs'[r] = fs[r]
    BY <1>5, TreeTypes DEF Tree
  <2>3. ~Exists(fs, q) /\ q \notin t.created
    BY <1>2, <1>5 DEF CanMkdir, Traced, Exists, Dir
  <2>4. q \notin Files(t.new) /\ (t.op = "upgrade" => q \notin Files(t.old))
    BY <1>2, <1>3 DEF Files, Dirs, Examined
  <2>5. ~Exists(t.backup, q)
    <3>1. CASE t.op = "upgrade"
      BY <1>2, <2>4, <3>1 DEF Traced
    <3>2. CASE t.op = "install"
      BY <1>2, <3>2 DEF Traced
    <3> QED
      BY <1>1, <3>1, <3>2
  <2>6. ~Exists(t.before, q)
    BY <1>2, <1>3, <2>3, <2>4, <2>5 DEF Traced, Exposed, Exists
  <2>7. Closed(fs')
    BY <1>5, TreeTypes, NodesAreNodes, MkdirClosed DEF Dir
  <2>8. Traced(u, fs', db)
    BY <1>2, <1>3, <2>1, <2>2, <2>3, <2>6, TreeTypes DEF Traced, SameJob, Exposed
  <2>9. Examined(u, db)
    BY <1>2, <2>1, JobKeeps
  <2>10. Reached(u, fs')
    BY <1>1, <1>3, <2>1, <2>2, <2>4, ArchiveTypes
    DEF Reached, SameJob, IsDir, Exists, Dir, Files
  <2> QED
    BY <1>1, <2>1, <2>7, <2>8, <2>9, <2>10 DEF Keeps, Sound, Check
<1>6. CASE Undo(p) /\ UNCHANGED fs
  BY <1>1, <1>6, UndoKeepsTree DEF Change
<1> QED
  BY <1>4, <1>5, <1>6 DEF PlaceDir

LEMMA DirsKeepTree ==
  ASSUME TreeInv, NEW p \in Proc, DirsPlaced(p)
  PROVE  Keeps(p)
<1> DEFINE t == txn[p]
           u == txn'[p]
<1>1. UNCHANGED <<fs, db>> /\ t.pc = "dirs" /\ t.todo = {} /\ Enter(p, "files", Files(t.new))
  BY DEF DirsPlaced
<1>2. Reached(t, fs)
  BY <1>1, TreeTypes DEF Sound, Working, Change
<1>3. SameLists(t, u) /\ u.pc = "files" /\ u.todo = Files(t.new)
  BY <1>1, TreeTypes, Entered
<1>4. Reached(u, fs)
  BY <1>1, <1>2, <1>3 DEF Reached, SameLists, SameJob
<1> QED
  BY <1>1, <1>4, EnterKeepsTree DEF Change

LEMMA FileKeepsTree ==
  ASSUME TreeInv, NEW p \in Proc, NEW q \in Path, PlaceFile(p, q)
  PROVE  Keeps(p)
<1> DEFINE t == txn[p]
           u == txn'[p]
<1>1. /\ UNCHANGED db /\ t.pc = "files" /\ q \in t.todo /\ t.op \in {"install", "upgrade"}
      /\ t.new \in Pkg
  BY TreeTypes DEF PlaceFile, Shape
<1>2. Traced(t, fs, db) /\ Examined(t, db) /\ Reached(t, fs)
  BY <1>1, TreeTypes DEF Sound, Working, Change
<1>3. /\ t.todo = Files(t.new) \ t.placed /\ q \in Files(t.new)
      /\ \A r \in Dirs(t.new) : IsDir(fs, r)
      /\ t.op = "upgrade" => \A r \in Files(t.old) \ t.placed : ~Exists(fs, r)
  BY <1>1, <1>2 DEF Reached
<1>4. CASE /\ CanPut(fs, q) /\ fs' = Put(fs, q, Payload[t.new][q])
           /\ txn' = [txn EXCEPT ![p].todo = @ \ {q}, ![p].placed = @ \cup {q}]
  <2>1. /\ SameJob(t, u) /\ u.pc = "files" /\ u.todo = t.todo \ {q}
        /\ u.placed = t.placed \cup {q} /\ u.created = t.created /\ u.backup = t.backup
    BY <1>1, <1>4, TreeTypes DEF Txn, SameJob
  <2>2. \A r \in Above[q] : r \in Path /\ IsDir(fs, r)
    BY <1>1, <1>3, ArchiveAssumption, AboveOrdered DEF Files, Entries
  <2>3. fs' = [fs EXCEPT ![q] = Payload[t.new][q]]
    BY <1>4, <2>2, TreeTypes, PutBelowDirs
  <2>4. fs'[q] = Payload[t.new][q] /\ \A r \in Path \ {q} : fs'[r] = fs[r]
    BY <2>3, TreeTypes DEF Tree
  <2>5. /\ q \notin t.placed /\ ~IsDir(fs, q) /\ q \notin t.created
        /\ Payload[t.new][q].kind \in {"f", "l"}
    <3>1. ~IsDir(fs, q)
      BY <1>4 DEF CanPut
    <3>2. q \notin t.created
      BY <1>2, <3>1 DEF Traced, IsDir, Dir
    <3>3. q \notin t.placed
      BY <1>1, <1>3
    <3>4. Payload[t.new][q].kind \in {"f", "l"}
      BY <1>3 DEF Files
    <3> QED
      BY <3>1, <3>2, <3>3, <3>4
  <2>6. Exists(t.before, q) => Exists(t.backup, q) \/ Exposed(t, q, db)
    BY <1>1, <1>2, <1>3, <2>5 DEF Examined, Traced, Exposed, Exists
  <2>7. Closed(fs')
    BY <1>1, <1>4, <2>5, TreeTypes, ArchiveTypes, PutClosed
  <2>8. Traced(u, fs', db)
    BY <1>2, <1>3, <2>1, <2>4, <2>5, <2>6, TreeTypes DEF Traced, SameJob, Exposed
  <2>9. Examined(u, db)
    BY <1>2, <2>1, JobKeeps
  <2>10. \A r \in Dirs(t.new) : r # q
    BY <1>3 DEF Dirs, Files
  <2>11. Reached(u, fs')
    <3>1. u.todo = Files(u.new) \ u.placed
      BY <1>3, <2>1 DEF SameJob
    <3>2. \A r \in Dirs(u.new) : IsDir(fs', r)
      BY <1>3, <2>1, <2>4, <2>10 DEF SameJob, IsDir, Dirs
    <3>3. u.op = "upgrade" => \A r \in Files(u.old) \ u.placed : ~Exists(fs', r)
      BY <1>3, <2>1, <2>4 DEF SameJob, Exists, Files
    <3> QED
      BY <2>1, <3>1, <3>2, <3>3 DEF Reached
  <2> QED
    BY <1>1, <2>1, <2>7, <2>8, <2>9, <2>11 DEF Keeps, Sound, Check
<1>5. CASE Undo(p) /\ UNCHANGED fs
  BY <1>1, <1>5, UndoKeepsTree DEF Change
<1> QED
  BY <1>4, <1>5 DEF PlaceFile

LEMMA FilesKeepTree ==
  ASSUME TreeInv, NEW p \in Proc, FilesPlaced(p)
  PROVE  Keeps(p)
<1> DEFINE t == txn[p]
           u == txn'[p]
<1>1. UNCHANGED <<fs, db>> /\ t.pc = "files" /\ t.todo = {} /\ Enter(p, "register", {})
  BY DEF FilesPlaced
<1>2. Traced(t, fs, db) /\ Reached(t, fs)
  BY <1>1, TreeTypes DEF Sound, Working, Change
<1>3. SameLists(t, u) /\ u.pc = "register"
  BY <1>1, TreeTypes, Entered
<1>4. t.placed = Files(t.new)
  BY <1>1, <1>2 DEF Reached, Traced
<1>5. Reached(u, fs)
  BY <1>1, <1>2, <1>3, <1>4 DEF Reached, SameLists, SameJob
<1> QED
  BY <1>1, <1>5, EnterKeepsTree DEF Change

\* After the commit nothing is asked of a transaction any more.
LEMMA CommitKeepsTree ==
  ASSUME TreeInv, NEW p \in Proc, Register(p) \/ Unregister(p)
  PROVE  Keeps(p)
<1>1. CASE Undo(p) /\ txn[p].pc = "unregister" /\ UNCHANGED <<fs, db>>
  BY <1>1, UndoKeepsTree DEF Change
<1>2. CASE End(p) /\ UNCHANGED fs
  BY <1>2, TreeTypes, EndKeepsTree
<1>3. CASE (\E paths : Enter(p, "prune", paths)) /\ UNCHANGED fs
  <2>1. txn'[p].pc = "prune"
    BY <1>3, TreeTypes, Entered
  <2> QED
    BY <1>3, <2>1, TreeTypes DEF Keeps, Sound, Check, Working, Change, Undoing
<1> QED
  BY <1>1, <1>2, <1>3 DEF Register, Unregister

LEMMA PruneKeepsTree ==
  ASSUME TreeInv, NEW p \in Proc, NEW q \in Path, Prune(p, q)
  PROVE  Keeps(p)
<1>1. Closed(fs')
  BY TreeTypes, RmdirClosed DEF Prune
<1>2. txn'[p].pc = "prune"
  BY TreeTypes DEF Prune, Txn
<1> QED
  BY <1>1, <1>2 DEF Keeps, Sound, Check, Working, Change, Undoing

-----------------------------------------------------------------------------
\* The rollback

LEMMA UndoFileKeepsTree ==
  ASSUME TreeInv, NEW p \in Proc, NEW q \in Path, UndoFile(p, q)
  PROVE  Keeps(p)
<1> DEFINE t == txn[p]
           u == txn'[p]
<1>1. UNCHANGED db /\ t.pc = "undo" /\ q \in t.placed
  BY DEF UndoFile
<1>2. Traced(t, fs, db) /\ Examined(t, db)
  BY <1>1, TreeTypes DEF Sound, Working, Undoing
<1>3. /\ SameJob(t, u) /\ u.pc = "undo" /\ u.placed = t.placed \ {q}
      /\ u.created = t.created /\ u.backup = t.backup
  BY <1>1, TreeTypes DEF UndoFile, Txn, SameJob
<1>4. ~IsDir(fs, q) /\ q \notin t.created
  BY <1>1, <1>2 DEF Traced, Files, IsDir, Dir
<1>5. fs' = Without(fs, q)
  BY <1>4 DEF UndoFile, Unlink
<1>6. fs'[q] = Absent /\ \A r \in Path \ {q} : fs'[r] = fs[r]
  BY <1>5, TreeTypes DEF Tree, Without
<1>7. Closed(fs')
  BY <1>4, <1>5, TreeTypes, WithoutClosed
<1>8. \/ fs'[q] = t.before[q] /\ ~Exists(t.backup, q)
      \/ fs'[q] = Absent /\ (Exists(t.backup, q) \/ Exposed(t, q, db))
  BY <1>1, <1>2, <1>6 DEF Traced, Closed
<1>9. Traced(u, fs', db)
  <2>1. \A r \in u.placed : /\ r \in Files(u.new) /\ fs'[r] = Payload[u.new][r]
                            /\ Exists(u.before, r) => Exists(u.backup, r) \/ Exposed(u, r, db)
    BY <1>2, <1>3, <1>6, TreeTypes DEF Traced, SameJob, Exposed
  <2>2. \A r \in u.created : fs'[r] = Dir /\ ~Exists(u.before, r)
    BY <1>2, <1>3, <1>4, <1>6, TreeTypes DEF Traced, SameJob
  <2>3. ASSUME NEW r \in Path \ (u.placed \cup u.created)
        PROVE  \/ fs'[r] = u.before[r] /\ ~Exists(u.backup, r)
               \/ fs'[r] = Absent /\ (Exists(u.backup, r) \/ Exposed(u, r, db))
    BY <1>2, <1>3, <1>6, <1>8 DEF Traced, SameJob, Exposed
  <2> QED
    BY <1>2, <1>3, <2>1, <2>2, <2>3 DEF Traced, SameJob
<1>10. Examined(u, db)
  BY <1>2, <1>3, JobKeeps
<1>11. Reached(u, fs')
  BY <1>3 DEF Reached
<1> QED
  BY <1>1, <1>3, <1>7, <1>9, <1>10, <1>11 DEF Keeps, Sound, Check

\* A directory the transaction made is empty when its turn comes: whatever else is in
\* it would have been there before, and the directory was not.
LEMMA UndoDirKeepsTree ==
  ASSUME TreeInv, NEW p \in Proc, NEW q \in Path, UndoDir(p, q)
  PROVE  Keeps(p)
<1> DEFINE t == txn[p]
           u == txn'[p]
<1>1. /\ UNCHANGED db /\ t.pc = "undo" /\ t.placed = {} /\ q \in t.created
      /\ \A r \in t.created : q \notin Above[r]
  BY DEF UndoDir
<1>2. Traced(t, fs, db) /\ Examined(t, db)
  BY <1>1, TreeTypes DEF Sound, Working, Undoing
<1>3. /\ SameJob(t, u) /\ u.pc = "undo" /\ u.placed = {}
      /\ u.created = t.created \ {q} /\ u.backup = t.backup
  BY <1>1, TreeTypes DEF UndoDir, Txn, SameJob
<1>4. IsDir(fs, q) /\ ~Exists(t.before, q)
  BY <1>1, <1>2 DEF Traced, IsDir, Dir
<1>5. ASSUME NEW r \in Path, q \in Above[r], Exists(fs, r) PROVE FALSE
  <2>1. fs[r] = t.before[r]
    BY <1>1, <1>2, <1>5 DEF Traced, Exists, Absent
  <2>2. Exists(t.before, r) /\ Closed(t.before)
    BY <1>2, <1>5, <2>1 DEF Traced, Exists
  <2>3. IsDir(t.before, q)
    BY <1>5, <2>2 DEF Closed
  <2> QED
    BY <1>4, <2>3 DEF IsDir, Exists
<1>6. fs' = Without(fs, q)
  BY <1>4, <1>5 DEF UndoDir, Rmdir
<1>7. fs'[q] = Absent /\ \A r \in Path \ {q} : fs'[r] = fs[r]
  BY <1>6, TreeTypes DEF Tree, Without
<1>8. Closed(fs')
  BY TreeTypes, RmdirClosed DEF UndoDir
<1>9. fs'[q] = t.before[q] /\ ~Exists(t.backup, q)
  BY <1>2, <1>4, <1>7 DEF Traced, Closed, Exists
<1>10. Traced(u, fs', db)
  <2>1. \A r \in u.created : fs'[r] = Dir /\ ~Exists(u.before, r)
    BY <1>2, <1>3, <1>7, TreeTypes DEF Traced, SameJob
  <2>2. ASSUME NEW r \in Path \ (u.placed \cup u.created)
        PROVE  \/ fs'[r] = u.before[r] /\ ~Exists(u.backup, r)
               \/ fs'[r] = Absent /\ (Exists(u.backup, r) \/ Exposed(u, r, db))
    BY <1>1, <1>2, <1>3, <1>7, <1>9 DEF Traced, SameJob, Exposed
  <2> QED
    BY <1>2, <1>3, <2>1, <2>2 DEF Traced, SameJob
<1>11. Examined(u, db)
  BY <1>2, <1>3, JobKeeps
<1>12. Reached(u, fs')
  BY <1>3 DEF Reached
<1> QED
  BY <1>1, <1>3, <1>8, <1>10, <1>11, <1>12 DEF Keeps, Sound, Check

\* An old file can always be moved back: the directories on the way to it are those
\* that were there before, and nothing is in its place.
LEMMA UndoBackupKeepsTree ==
  ASSUME TreeInv, NEW p \in Proc, NEW q \in Path, UndoBackup(p, q)
  PROVE  Keeps(p)
<1> DEFINE t == txn[p]
           u == txn'[p]
<1>1. /\ UNCHANGED db /\ t.pc = "undo" /\ t.placed = {} /\ t.created = {}
      /\ Exists(t.backup, q)
  BY DEF UndoBackup, BackedUp
<1>2. Traced(t, fs, db) /\ Examined(t, db)
  BY <1>1, TreeTypes DEF Sound, Working, Undoing
<1>3. /\ SameJob(t, u) /\ u.pc = "undo" /\ u.placed = {} /\ u.created = {}
      /\ u.backup = [t.backup EXCEPT ![q] = Absent]
  BY <1>1, TreeTypes DEF UndoBackup, Txn, SameJob
<1>4. /\ u.backup[q] = Absent /\ \A r \in Path \ {q} : u.backup[r] = t.backup[r]
  BY <1>3, TreeTypes DEF Tree
<1>5. fs[q] = Absent /\ t.backup[q] = t.before[q]
  BY <1>1, <1>2 DEF Traced
<1>6. ASSUME NEW r \in Above[q] PROVE IsDir(fs, r)
  <2>1. r \in Path /\ IsDir(t.before, r)
    BY <1>1, <1>2, <1>5, AboveOrdered DEF Traced, Closed, Exists
  <2>2. ~Exists(t.backup, r) /\ ~Exposed(t, r, db)
    BY <1>2, <2>1 DEF Traced, Examined, Exposed
  <2> QED
    BY <1>1, <1>2, <2>1, <2>2 DEF Traced, IsDir
<1>7. CanPut(fs, q)
  BY <1>5, <1>6 DEF CanPut, ParentsUsable, IsDir, Absent
<1>8. fs' = Put(fs, q, t.backup[q])
  BY <1>7 DEF UndoBackup
<1>9. fs' = [fs EXCEPT ![q] = t.backup[q]]
  BY <1>6, <1>8, TreeTypes, PutBelowDirs
<1>10. fs'[q] = t.before[q] /\ \A r \in Path \ {q} : fs'[r] = fs[r]
  BY <1>5, <1>9, TreeTypes DEF Tree
<1>11. Closed(fs')
  BY <1>1, <1>7, <1>8, TreeTypes, PutClosed DEF Tree, Exists
<1>12. Traced(u, fs', db)
  <2>1. ASSUME NEW r \in Path, Exists(u.backup, r)
        PROVE  /\ u.op # "install" /\ r \in Files(u.old)
               /\ u.backup[r] = u.before[r] /\ ~IsDir(u.before, r)
    BY <1>2, <1>3, <1>4, <2>1 DEF Traced, SameJob, Exists, Absent
  <2>2. ASSUME NEW r \in Path
        PROVE  \/ fs'[r] = u.before[r] /\ ~Exists(u.backup, r)
               \/ fs'[r] = Absent /\ (Exists(u.backup, r) \/ Exposed(u, r, db))
    BY <1>1, <1>2, <1>3, <1>4, <1>10, <2>2 DEF Traced, SameJob, Exists, Exposed, Absent
  <2> QED
    BY <1>2, <1>3, <2>1, <2>2 DEF Traced, SameJob
<1>13. Examined(u, db)
  BY <1>2, <1>3, JobKeeps
<1>14. Reached(u, fs')
  BY <1>3 DEF Reached
<1> QED
  BY <1>1, <1>3, <1>11, <1>12, <1>13, <1>14 DEF Keeps, Sound, Check

-----------------------------------------------------------------------------
\* Every step

LEMMA TreeInit == Init => TreeInv
<1> SUFFICES ASSUME Init PROVE TreeInv
  OBVIOUS
<1>1. Closed(fs)
  BY DEF Init, Closed, EmptyTree, Exists, Absent
<1>2. \A p \in Proc : txn[p].pc = "idle"
  BY DEF Init, NoTxn
<1> QED
  BY <1>1, <1>2, OwnerInit DEF TreeInv, Sound, Check, Working, Change, Undoing

\* What the lone process does keeps the account of its transaction, and where no
\* command runs there is none to keep.
LEMMA TreeStep ==
  ASSUME Alone, AllTracked
  PROVE  TreeInv /\ [Next]_vars => TreeInv'
<1> SUFFICES ASSUME TreeInv, [Next]_vars PROVE TreeInv'
  OBVIOUS
<1>ow. OwnerInv /\ OwnerInv'
  BY OwnerStep DEF Alone, Independent, TreeInv
<1>p. ASSUME NEW p \in Proc, Keeps(p) PROVE TreeInv'
  BY <1>ow, <1>p DEF TreeInv, Keeps, Alone
<1>1. ASSUME NEW p \in Proc, Command(p) PROVE TreeInv'
  BY <1>1, <1>p, BeginKeepsTree
<1>2. ASSUME NEW p \in Proc, Work(p) PROVE Keeps(p)
  <2>1. CASE CheckDependencies(p) \/ ValidateOld(p) \/ Preflight(p)
    BY <2>1, DependsKeepsTree, ValidateKeepsTree, PreflightKeepsTree
  <2>2. CASE OldStaged(p) \/ DirsPlaced(p) \/ FilesPlaced(p)
    BY <2>2, StagedKeepsTree, DirsKeepTree, FilesKeepTree
  <2>3. CASE Register(p) \/ Unregister(p)
    BY <2>3, CommitKeepsTree
  <2>4. CASE Pruned(p) \/ Undone(p)
    BY <2>4, TreeTypes, EndKeepsTree DEF Pruned, Undone
  <2>5. ASSUME NEW q \in Path,
               StageOld(p, q) \/ PlaceDir(p, q) \/ PlaceFile(p, q) \/ Prune(p, q)
        PROVE  Keeps(p)
    BY <2>5, StageKeepsTree, DirKeepsTree, FileKeepsTree, PruneKeepsTree
  <2>6. ASSUME NEW q \in Path, UndoFile(p, q) \/ UndoDir(p, q) \/ UndoBackup(p, q)
        PROVE  Keeps(p)
    BY <2>6, UndoFileKeepsTree, UndoDirKeepsTree, UndoBackupKeepsTree
  <2> QED
    BY <1>2, <2>1, <2>2, <2>3, <2>4, <2>5, <2>6 DEF Work
<1>3. ASSUME NEW p \in Proc, Fault(p) \/ Crash(p) PROVE Keeps(p)
  <2>1. CASE End(p) /\ UNCHANGED fs
    BY <2>1, TreeTypes, EndKeepsTree
  <2>2. CASE Undo(p) /\ txn[p].pc \in Change /\ UNCHANGED <<fs, db>>
    BY <2>2, UndoKeepsTree
  <2> QED
    BY <1>3, <2>1, <2>2 DEF Fault, Crash
<1>4. ASSUME NEW p \in Proc, NEW q \in Path, PlaceUntracked(p, q) PROVE FALSE
  <2>1. spent["untracked"] \in Nat
    BY <1>ow DEF OwnerInv, TypeInv, TypeOK, Event
  <2>2. spent["untracked"] < 0
    BY <1>4 DEF PlaceUntracked, Spend, AllTracked
  <2> QED
    BY <2>1, <2>2
<1>5. ASSUME NEW q \in Path, Edit(q) PROVE TreeInv'
  <2>1. fs \in Tree /\ Closed(fs)
    BY <1>ow DEF TreeInv, OwnerInv, TypeInv, TypeOK
  <2>2. Closed(fs')
    <3>1. CASE CanMkdir(fs, q) /\ fs' = [fs EXCEPT ![q] = UserNode]
      BY <2>1, <3>1, MkdirClosed, EnvironmentAssumption
    <3>2. CASE fs[q].kind \in {"f", "l"} /\ fs' = Without(fs, q)
      BY <2>1, <3>2, WithoutClosed DEF IsDir
    <3> QED
      BY <1>5, <3>1, <3>2 DEF Edit
  <2>3. \A p \in Proc : txn'[p].pc = "idle"
    BY <1>5 DEF Edit, Idle
  <2> QED
    BY <1>ow, <2>2, <2>3 DEF TreeInv, Sound, Check, Working, Change, Undoing
<1>6. CASE UNCHANGED vars
  BY <1>6, <1>ow DEF vars, TreeInv
<1> QED
  BY <1>p, <1>1, <1>2, <1>3, <1>4, <1>5, <1>6 DEF Next, Environment

\* A command that gives up has either done nothing but check, or has undone what it did.
LEMMA GivesUpHow ==
  ASSUME Alone, AllTracked, TreeInv, Next, NEW p \in Proc, GivesUp(p)
  PROVE  (txn[p].pc \in Check /\ UNCHANGED fs) \/ Undone(p)
<1>t. txn \in [Proc -> Txn] /\ txn[p] \in Txn /\ Shape(txn[p]) /\ Good(p, db, txn[p]) /\ db \in Records
  BY TreeTypes
<1>u. /\ txn'[p].pc = "idle" /\ txn[p].pc \notin {"idle", "prune"} /\ UNCHANGED db
      /\ spent'["crash"] = spent["crash"]
  BY DEF GivesUp, Idle
<1>1. ~Command(p)
  BY <1>u DEF Command, InstallBegin, UpgradeBegin, RemoveBegin, Idle
<1>2. ASSUME NEW stage, NEW paths, Enter(p, stage, paths) PROVE stage = "idle"
  BY <1>2, <1>t, <1>u DEF Enter, Txn
<1>3. ~Undo(p)
  BY <1>2 DEF Undo
<1>4. CASE CheckDependencies(p) \/ ValidateOld(p) \/ Preflight(p)
  BY <1>4 DEF CheckDependencies, ValidateOld, Preflight, Check
<1>5. ~OldStaged(p) /\ ~DirsPlaced(p) /\ ~FilesPlaced(p)
  BY <1>2 DEF OldStaged, DirsPlaced, FilesPlaced
<1>6. ~Register(p)
  <2> SUFFICES ASSUME Register(p) PROVE FALSE
    OBVIOUS
  <2>1. txn[p].op = "install" /\ txn[p].new \in Pkg /\ db[NameOf[txn[p].new]] = NoPkg
    BY <1>2, <1>t DEF Register, Shape, Good, Aims, Fresh, TargetOf, Pending, Change
  <2>2. db'[NameOf[txn[p].new]] = txn[p].new
    BY <1>t, <2>1, ArchiveTypes DEF Register, Registered, Records
  <2> QED
    BY <1>u, <2>1, <2>2, NamesAssumption
<1>7. ~Unregister(p) /\ ~Pruned(p)
  BY <1>2, <1>3, <1>u DEF Unregister, Pruned
<1>8. ASSUME NEW q \in Path PROVE ~StageOld(p, q) /\ ~PlaceDir(p, q) /\ ~PlaceFile(p, q)
  BY <1>3, <1>t, <1>u DEF StageOld, PlaceDir, PlaceFile, Txn
<1>9. ASSUME NEW q \in Path
      PROVE  ~Prune(p, q) /\ ~UndoFile(p, q) /\ ~UndoDir(p, q) /\ ~UndoBackup(p, q)
  BY <1>t, <1>u DEF Prune, UndoFile, UndoDir, UndoBackup, Txn
<1>10. CASE Fault(p)
  BY <1>3, <1>10 DEF Fault
<1>11. ~Crash(p)
  <2>1. spent \in [Event -> Nat]
    BY DEF TreeInv, OwnerInv, TypeInv, TypeOK
  <2> QED
    BY <1>u, <2>1 DEF Crash, Spend, Event
<1>12. ASSUME NEW q \in Path PROVE ~PlaceUntracked(p, q) /\ ~Edit(q)
  BY <1>3, <1>u DEF PlaceUntracked, Edit, Idle
<1> QED
  BY <1>1, <1>4, <1>5, <1>6, <1>7, <1>8, <1>9, <1>10, <1>11, <1>12
  DEF Next, Work, Environment, Alone

\* A lone command that fails, for whatever reason and at whatever point, leaves every
\* path as it found it, directories included, except where an upgrade would have
\* brought a file to a path no package records.  Earlier commands may have been
\* killed, and the administrator may have edited the tree.
THEOREM FailuresRestore ==
  ASSUME Alone, AllTracked
  PROVE  Spec => FailureRestoresOwned
<1> DEFINE Restored == \A p \in Proc : GivesUp(p) =>
             \A q \in Path :
               \/ fs'[q] = txn[p].before[q]
               \/ txn[p].op = "upgrade" /\ q \in Files(txn[p].new) /\ Owners(db, q) = {}
<1>1. TreeInv /\ [Next]_vars => [Restored]_vars
  <2> SUFFICES ASSUME TreeInv, Next, NEW p \in Proc, GivesUp(p), NEW q \in Path
               PROVE  \/ fs'[q] = txn[p].before[q]
                      \/ Exposed(txn[p], q, db)
    BY DEF Exposed
  <2>1. txn'[p].pc = "idle" /\ txn[p].pc # "idle" /\ txn[p].pc # "prune" /\ UNCHANGED db
    BY DEF GivesUp, Idle
  <2>2. (txn[p].pc \in Check /\ UNCHANGED fs) \/ Undone(p)
    BY GivesUpHow
  <2>3. CASE txn[p].pc \in Check /\ UNCHANGED fs
    BY <2>3, TreeTypes DEF Sound, Untouched
  <2>4. CASE Undone(p)
    <3>1. /\ UNCHANGED fs /\ txn[p].pc = "undo" /\ txn[p].placed = {} /\ txn[p].created = {}
          /\ ~Exists(txn[p].backup, q)
      BY <2>4 DEF Undone, BackedUp
    <3>2. Traced(txn[p], fs, db)
      BY <3>1, TreeTypes DEF Sound, Working, Undoing
    <3> QED
      BY <3>1, <3>2 DEF Traced
  <2> QED
    BY <2>2, <2>3, <2>4
<1> QED
  BY <1>1, TreeInit, TreeStep, PTL DEF Spec, FailureRestoresOwned

-----------------------------------------------------------------------------
\* A lone command is atomic

NoKills == Limit["crash"] = 0

\* An upgrade that is running is one of an installed package to a newer version.
Upgrading(t, d) == t.op = "upgrade" => Newer(t.new, t.old) /\ NameOf[t.new] \in Installed(d)

AtomicInv ==
  /\ TreeInv
  /\ DependencyInv
  /\ \A p \in Proc : Upgrading(txn[p], db)

LEMMA AtomicInit == Init => AtomicInv
<1> SUFFICES ASSUME Init PROVE AtomicInv
  OBVIOUS
<1>1. DependencyInv
  BY CheckedInit DEF Init, DependencyInv, DependenciesClosed, Installed
<1>2. \A p \in Proc : txn[p].op = "none"
  BY DEF Init, NoTxn
<1> QED
  BY <1>1, <1>2, TreeInit DEF AtomicInv, Upgrading

LEMMA AtomicStep ==
  ASSUME Alone, AllTracked, TxCmp = DbCmp
  PROVE  AtomicInv /\ [Next]_vars => AtomicInv'
<1> SUFFICES ASSUME AtomicInv, [Next]_vars
             PROVE  \A p \in Proc : Upgrading(txn'[p], db')
  BY TreeStep, DependencyStep DEF AtomicInv
<1>t. TypeInv /\ txn \in [Proc -> Txn] /\ db \in Records
  BY DEF AtomicInv, TreeInv, OwnerInv, TypeInv, TypeOK
<1>1. CASE UNCHANGED <<db, txn>>
  BY <1>1 DEF AtomicInv, Upgrading, Installed
<1>2. ASSUME NEW p \in Proc, Upgrading(txn'[p], db')
      PROVE  \A r \in Proc : Upgrading(txn'[r], db')
  BY <1>2 DEF Alone
<1>3. ASSUME NEW p \in Proc, txn'[p].op = txn[p].op, txn'[p].new = txn[p].new,
             txn'[p].old = txn[p].old, UNCHANGED db
      PROVE  Upgrading(txn'[p], db')
  BY <1>3 DEF AtomicInv, Upgrading, Installed
<1>4. ASSUME NEW p \in Proc, End(p)
      PROVE  Upgrading(txn'[p], db')
  BY <1>4, <1>t DEF End, NoTxn, Upgrading
<1>5. ASSUME NEW p \in Proc, Command(p)
      PROVE  Upgrading(txn'[p], db')
  <2>1. ASSUME NEW op, NEW new, NEW old, Begin(p, op, new, old)
        PROVE  txn'[p].op = op /\ txn'[p].new = new /\ txn'[p].old = old
    BY <2>1, <1>t DEF Begin, NoTxn
  <2> QED
    BY <1>5, <2>1, ArchiveTypes
    DEF Command, InstallBegin, RemoveBegin, UpgradeBegin, Upgrading, Installed
<1>6. ASSUME NEW p \in Proc, GoesOn(p)
      PROVE  Upgrading(txn'[p], db')
  BY <1>3, <1>6, <1>t DEF GoesOn, Onward
<1>7. ASSUME NEW p \in Proc, Vets(p) \/ Claims(p)
      PROVE  Upgrading(txn'[p], db')
  BY <1>3, <1>7, <1>t, Entered DEF Vets, Claims, SameLists, SameJob
<1>8. ASSUME NEW p \in Proc, Register(p), ~End(p)
      PROVE  Upgrading(txn'[p], db')
  <2>1. SameJob(txn[p], txn'[p]) /\ txn[p].new \in Pkg /\ txn[p].op = "upgrade"
    BY <1>8, <1>t, Entered DEF Register, SameLists, TypeInv, Shape
  <2>2. NameOf[txn[p].new] \in Installed(db')
    BY <1>8, <1>t, <2>1, ArchiveTypes, NamesAssumption DEF Register, Registered, Records, Installed
  <2> QED
    BY <2>1, <2>2 DEF AtomicInv, Upgrading, SameJob
<1>9. ASSUME NEW p \in Proc, Drops(p)
      PROVE  Upgrading(txn'[p], db')
  <2>1. txn'[p].op = "remove"
    BY <1>9, <1>t, Entered DEF Drops, TypeInv, Shape, SameLists, SameJob
  <2> QED
    BY <2>1 DEF Upgrading
<1> QED
  BY <1>1, <1>2, <1>4, <1>5, <1>6, <1>7, <1>8, <1>9, <1>t, StepShape DEF Stops

Running(p) == txn[p].pc \notin {"idle", "prune"}

\* What a reader takes the tree to be, with one process.
LEMMA CommittedOf ==
  ASSUME Alone, NEW p \in Proc
  PROVE  /\ CommittedTree = Plain(IF Running(p) THEN txn[p].before ELSE fs)
         /\ CommittedTree' = Plain(IF Running(p)' THEN txn'[p].before ELSE fs')
<1>1. Uncommitted = IF Running(p) THEN {p} ELSE {}
  BY DEF Alone, Running, Uncommitted
<1>2. Uncommitted' = IF Running(p)' THEN {p} ELSE {}
  BY DEF Alone, Running, Uncommitted
<1>3. (CHOOSE r \in {p} : TRUE) = p
  OBVIOUS
<1> QED
  BY <1>1, <1>2, <1>3 DEF CommittedTree

\* A step within a command is none of the store.
LEMMA RunningOn ==
  ASSUME Alone, NEW p \in Proc, Running(p), Running(p)', UNCHANGED db,
         txn'[p].before = txn[p].before
  PROVE  UNCHANGED Store!vars
BY CommittedOf DEF Store!vars

\* The store speaks of packages and records as the engine does.
LEMMA StoreMeans ==
  /\ Store!Absent = Absent
  /\ \A a : Store!Files(a) = Files(a) /\ Store!Entries(a) = Entries(a)
  /\ \A s : Store!Installed(s) = Installed(s)
  /\ \A s, a : Store!Registered(s, a) = Registered(s, a)
  /\ \A s, n : Store!Unregistered(s, n) = Unregistered(s, n)
  /\ \A a, b : Store!Newer(a, b) <=> Newer(a, b)
<1>1. Store!Absent = Absent
  BY DEF Store!Absent, Absent
<1>2. \A a : Store!Files(a) = Files(a) /\ Store!Entries(a) = Entries(a)
  BY DEF Store!Files, Files, Store!Entries, Entries
<1>3. \A s : Store!Installed(s) = Installed(s)
  BY DEF Store!Installed, Installed
<1>4. \A s, a : Store!Registered(s, a) = Registered(s, a)
  BY DEF Store!Registered, Registered
<1>5. \A s, n : Store!Unregistered(s, n) = Unregistered(s, n)
  BY DEF Store!Unregistered, Unregistered
<1>6. \A a, b : Store!Newer(a, b) <=> Newer(a, b)
  BY DEF Store!Newer, Newer
<1> QED
  BY <1>1, <1>2, <1>3, <1>4, <1>5, <1>6

LEMMA StoreOwners == \A s, q : Store!Owners(s, q) = Owners(s, q)
BY StoreMeans DEF Store!Owners, Owners

\* A dependency is met in the store as it is in the database.
LEMMA StoreMeets == \A s, dep : Store!DependencySatisfied(s, dep) <=> DependencySatisfied(s, dep)
<1>1. \A op, c : Store!OpHolds(op, c) <=> OpHolds(op, c)
  BY DEF Store!OpHolds, OpHolds
<1>2. \A a, cap : Store!HasCapability(a, cap) <=> HasCapability(a, cap)
  BY DEF Store!HasCapability, HasCapability
<1>3. \A a, dep : Store!RequirementMatches(a, dep) <=> RequirementMatches(a, dep)
  BY <1>1, <1>2 DEF Store!RequirementMatches, RequirementMatches, Store!Meets, Meets
<1> QED
  BY <1>3, StoreMeans DEF Store!DependencySatisfied, DependencySatisfied

\* The commit of an install or an upgrade is that of the store: exactly the files of
\* the archive have come, and those of the old record gone.
LEMMA RegisterRefines ==
  ASSUME Alone, AtomicInv, AtomicInv', NEW p \in Proc, Register(p)
  PROVE  Store!Next
<1> DEFINE t == txn[p]
           a == t.new
<1>t. /\ TreeInv /\ t.pc = "register" /\ UNCHANGED fs /\ db' = Registered(db, a)
      /\ a \in Pkg /\ t.op \in {"install", "upgrade"} /\ NameOf[a] \in Name
  BY TreeTypes, ArchiveTypes DEF AtomicInv, Register, Shape
<1>1. Traced(t, fs, db) /\ Examined(t, db) /\ Reached(t, fs)
  BY <1>t, TreeTypes DEF Sound, Working, Change
<1>2. t.placed = Files(a) /\ (t.op = "upgrade" => \A q \in Files(t.old) \ Files(a) : ~Exists(fs, q))
  BY <1>t, <1>1 DEF Reached
<1>3. Running(p) /\ ~Running(p)'
  <2>1. txn'[p].pc \in {"idle", "prune"}
    BY <1>t, TreeTypes, Entered DEF Register, End, NoTxn
  <2> QED
    BY <1>t, <2>1 DEF Running
<1>4. CommittedTree = Plain(t.before) /\ CommittedTree' = Plain(fs)
  BY <1>t, <1>3, CommittedOf
<1>5. Store!Consistent(db')
  <2>1. UniqueOwner' /\ DependenciesClosed'
    BY DEF AtomicInv, DependencyInv, CheckedInv, OwnerInv, Disjoint, UniqueOwner
  <2> QED
    BY <2>1, StoreMeans, StoreMeets DEF Store!Consistent, UniqueOwner, DependenciesClosed
<1>6. \A q \in Files(a) : q \in Path /\ fs[q] = Payload[a][q] /\ ~IsDir(fs, q)
  BY <1>1, <1>2 DEF Traced, Files, IsDir
<1>7. \A q \in Path : ~Exists(t.before, q) => t.before[q] = Absent
  BY <1>1 DEF Traced, Closed
<1>8. CASE t.op = "install"
  <2>1. db[NameOf[a]] = NoPkg
    BY <1>t, <1>8, TreeTypes DEF Good, Aims, Fresh, TargetOf, Pending, Change
  <2>2. \A q \in Files(a) : Plain(t.before)[q] = Absent
    BY <1>1, <1>6, <1>7, <1>8 DEF Plain, Examined
  <2>3. ASSUME NEW q \in Path
        PROVE  Plain(fs)[q] = IF q \in Files(a) THEN Payload[a][q]
                              ELSE IF q \in {} THEN Absent ELSE Plain(t.before)[q]
    <3>1. CASE q \in Files(a)
      BY <1>6, <3>1 DEF Plain
    <3>2. CASE q \in t.created
      BY <1>1, <1>2, <1>7, <3>2 DEF Plain, Traced, IsDir, Dir, Files
    <3>3. CASE q \notin Files(a) /\ q \notin t.created
      <4>1. fs[q] = t.before[q]
        BY <1>1, <1>2, <1>8, <3>3 DEF Traced, Exposed
      <4> QED
        BY <3>3, <4>1 DEF Plain, IsDir
    <3> QED
      BY <3>1, <3>2, <3>3
  <2>4. Store!Replace({}, a)
    BY <1>4, <2>3, StoreMeans DEF Store!Replace, Plain
  <2>5. Store!Install(a)
    BY <1>t, <1>4, <1>5, <2>1, <2>2, <2>4, StoreMeans DEF Store!Install
  <2> QED
    BY <1>t, <2>5 DEF Store!Next
<1>9. CASE t.op = "upgrade"
  <2>1. db[NameOf[a]] = t.old /\ t.old \in Pkg /\ Newer(a, t.old)
    BY <1>t, <1>9, TreeTypes
    DEF AtomicInv, Upgrading, Shape, Good, Aims, Fresh, TargetOf, Pending, Change
  <2>2. ASSUME NEW q \in Path
        PROVE  Plain(fs)[q] = IF q \in Files(a) THEN Payload[a][q]
                              ELSE IF q \in Files(t.old) THEN Absent ELSE Plain(t.before)[q]
    <3>1. CASE q \in Files(a)
      BY <1>6, <3>1 DEF Plain
    <3>2. CASE q \notin Files(a) /\ q \in t.created
      BY <1>1, <1>7, <3>2 DEF Plain, Traced, IsDir, Dir
    <3>3. CASE q \notin Files(a) /\ q \in Files(t.old)
      <4>1. fs[q] = Absent
        BY <1>2, <1>9, <3>3, <1>t, TreeTypes DEF Closed
      <4> QED
        BY <3>3, <4>1 DEF Plain, IsDir, Absent
    <3>4. CASE q \notin Files(a) /\ q \notin t.created /\ q \notin Files(t.old)
      <4>1. fs[q] = t.before[q]
        BY <1>1, <1>2, <3>4 DEF Traced, Exposed
      <4> QED
        BY <3>4, <4>1 DEF Plain, IsDir
    <3> QED
      BY <3>1, <3>2, <3>3, <3>4
  <2>3. Store!Replace(Files(t.old), a)
    BY <1>4, <2>2, StoreMeans DEF Store!Replace, Plain
  <2>4. Store!Upgrade(a)
    BY <1>t, <1>4, <1>5, <2>1, <2>3, StoreMeans, NamesAssumption DEF Store!Upgrade
  <2> QED
    BY <1>t, <2>4 DEF Store!Next
<1> QED
  BY <1>t, <1>8, <1>9

\* The commit of a removal is that of the store: what the loop left are links.
LEMMA RemovalRefines ==
  ASSUME Alone, AtomicInv, AtomicInv', NEW p \in Proc, Unregister(p), db[Target(p)] # NoPkg
  PROVE  Store!Next
<1> DEFINE t == txn[p]
           n == NameOf[t.old]
           kept == {q \in Files(t.old) : Payload[t.old][q].kind = "l" /\ fs[q].kind = "l"}
<1>t. /\ TreeInv /\ t.pc = "unregister" /\ UNCHANGED fs /\ t.op = "remove" /\ t.old \in Pkg
      /\ db' = Unregistered(db, n) /\ n \in Name /\ Enter(p, "prune", Dirs(t.old))
  BY TreeTypes, ArchiveTypes DEF AtomicInv, Unregister, Shape, Target
<1>1. Traced(t, fs, db) /\ Examined(t, db) /\ Reached(t, fs)
  BY <1>t, TreeTypes DEF Sound, Working, Change
<1>2. t.placed = {} /\ t.created = {} /\ \A q \in Files(t.old) : Gone(t, fs, q)
  BY <1>t, <1>1 DEF Reached
<1>3. Running(p) /\ ~Running(p)'
  BY <1>t, TreeTypes, Entered DEF Running
<1>4. CommittedTree = Plain(t.before) /\ CommittedTree' = Plain(fs)
  BY <1>t, <1>3, CommittedOf
<1>5. Store!Consistent(db')
  <2>1. UniqueOwner' /\ DependenciesClosed'
    BY DEF AtomicInv, DependencyInv, CheckedInv, OwnerInv, Disjoint, UniqueOwner
  <2> QED
    BY <2>1, StoreMeans, StoreMeets DEF Store!Consistent, UniqueOwner, DependenciesClosed
<1>6. db[n] = t.old
  BY <1>t, TreeTypes DEF Good, Fresh, TargetOf, Pending, Change
<1>7. ASSUME NEW q \in Path
      PROVE  Plain(fs)[q] = IF q \in Files(t.old) \ kept THEN Absent ELSE Plain(t.before)[q]
  <2>1. CASE Exists(fs, q)
    <3>1. fs[q] = t.before[q]
      BY <1>1, <1>2, <2>1 DEF Traced, Exists, Absent
    <3>2. q \in Files(t.old) => q \in kept
      BY <1>1, <1>2, <1>t, <2>1, <3>1 DEF Gone, Examined, Exists
    <3> QED
      BY <3>1, <3>2 DEF Plain, IsDir
  <2>2. CASE ~Exists(fs, q)
    <3>1. fs[q] = Absent
      BY <1>t, <2>2, TreeTypes DEF Closed
    <3>2. q \notin kept
      BY <2>2 DEF Exists
    <3>3. q \notin Files(t.old) => fs[q] = t.before[q]
      BY <1>1, <1>2, <1>t DEF Traced, Exposed
    <3> QED
      BY <3>1, <3>2, <3>3 DEF Plain, IsDir, Absent
  <2> QED
    BY <2>1, <2>2
<1>8. CommittedTree' = [q \in Path |-> IF q \in Files(t.old) \ kept THEN Absent ELSE CommittedTree[q]]
  BY <1>4, <1>7 DEF Plain
<1>9. kept \in SUBSET {q \in Files(t.old) : Payload[t.old][q].kind = "l"}
  OBVIOUS
<1> HIDE DEF kept
<1>10. Store!Remove(n)
  BY <1>t, <1>5, <1>6, <1>8, <1>9, StoreMeans, NamesAssumption DEF Store!Remove
<1> QED
  BY <1>t, <1>10 DEF Store!Next

\* A command that has undone what it did has changed nothing, or is an upgrade that
\* has lost files no package records.
LEMMA UndoneRefines ==
  ASSUME Alone, AtomicInv, NEW p \in Proc, Undone(p)
  PROVE  Store!Next \/ UNCHANGED Store!vars
<1> DEFINE t == txn[p]
           a == t.new
<1>t. /\ TreeInv /\ t.pc = "undo" /\ UNCHANGED <<fs, db>>
      /\ t.placed = {} /\ t.created = {} /\ \A q \in Path : ~Exists(t.backup, q)
  BY DEF AtomicInv, Undone, BackedUp
<1>1. Traced(t, fs, db) /\ (t.op = "upgrade" => a \in Pkg)
  BY <1>t, TreeTypes DEF Sound, Working, Undoing, Shape
<1>2. Running(p) /\ ~Running(p)'
  <2>1. txn'[p].pc = "idle"
    BY <1>t, TreeTypes DEF Undone, End, NoTxn
  <2> QED
    BY <1>t, <2>1 DEF Running
<1>3. CommittedTree = Plain(t.before) /\ CommittedTree' = Plain(fs)
  BY <1>t, <1>2, CommittedOf
<1>4. \A q \in Path : \/ fs[q] = t.before[q]
                      \/ fs[q] = Absent /\ Exposed(t, q, db)
  BY <1>1, <1>t DEF Traced
<1>5. CASE t.op = "upgrade"
  <2>1. db[NameOf[a]] # NoPkg
    BY <1>5 DEF AtomicInv, Upgrading, Installed
  <2>2. \A q \in Path : \/ Plain(fs)[q] = Plain(t.before)[q]
                        \/ Plain(fs)[q] = Absent /\ q \in Files(a) /\ Owners(db, q) = {}
    BY <1>4 DEF Plain, IsDir, Exposed, Absent
  <2>3. CommittedTree' = [q \in Path |-> IF q \in Files(a) /\ Owners(db, q) = {}
                                         THEN CommittedTree'[q] ELSE CommittedTree[q]]
    BY <1>3, <2>2 DEF Plain
  <2>4. Store!FailedUpgrade(a)
    BY <1>t, <1>3, <2>1, <2>2, <2>3, StoreMeans, StoreOwners DEF Store!FailedUpgrade
  <2> QED
    BY <1>1, <1>5, <2>4 DEF Store!Next
<1>6. CASE t.op # "upgrade"
  <2>1. \A q \in Path : fs[q] = t.before[q]
    BY <1>4, <1>6 DEF Exposed
  <2>2. Plain(fs) = Plain(t.before)
    BY <2>1 DEF Plain, IsDir
  <2> QED
    BY <1>t, <1>3, <2>2 DEF Store!vars
<1> QED
  BY <1>5, <1>6

\* Removing empty directories does not show.
LEMMA PruneRefines ==
  ASSUME Alone, TreeInv, NEW p \in Proc, NEW q \in Path, Prune(p, q)
  PROVE  UNCHANGED Store!vars
<1>1. txn[p].pc = "prune" /\ txn'[p].pc = "prune" /\ UNCHANGED db
  BY TreeTypes DEF Prune, Txn
<1>2. CommittedTree = Plain(fs) /\ CommittedTree' = Plain(fs')
  BY <1>1, CommittedOf DEF Running
<1>3. \A r \in Path : fs'[r] = fs[r] \/ (IsDir(fs, r) /\ fs'[r] = Absent)
  BY TreeTypes DEF Prune, Rmdir, Without, Tree
<1>4. Plain(fs') = Plain(fs)
  BY <1>3 DEF Plain, IsDir, Absent
<1> QED
  BY <1>1, <1>2, <1>4 DEF Store!vars

\* What the administrator does to the tree he does to the store.
LEMMA EditRefines ==
  ASSUME TypeInv, NEW q \in Path, Edit(q)
  PROVE  Store!Next
<1>1. UNCHANGED <<db, txn>> /\ \A p \in Proc : txn[p].pc = "idle"
  BY DEF Edit, Idle
<1>2. Uncommitted = {} /\ Uncommitted' = {}
  BY <1>1 DEF Uncommitted
<1>3. CommittedTree = Plain(fs) /\ CommittedTree' = Plain(fs')
  BY <1>2 DEF CommittedTree
<1>4. fs \in Tree
  BY DEF TypeInv, TypeOK
<1>5. \A r \in Path \ {q} : fs'[r] = fs[r]
  BY <1>4 DEF Edit, Without, Tree
<1>6. CommittedTree' = [CommittedTree EXCEPT ![q] = CommittedTree'[q]]
  BY <1>3, <1>5 DEF Plain, IsDir
<1>7. Store!Edit(q)
  BY <1>1, <1>6 DEF Store!Edit
<1> QED
  BY <1>7 DEF Store!Next

\* Any other step is within a command, or before its start or after its end.
LEMMA OtherRefines ==
  ASSUME Alone, TreeInv, NEW p \in Proc,
         \/ Command(p) \/ Fault(p) \/ Pruned(p)
         \/ CheckDependencies(p) \/ ValidateOld(p) \/ Preflight(p)
         \/ OldStaged(p) \/ DirsPlaced(p) \/ FilesPlaced(p)
         \/ Unregister(p) /\ db[Target(p)] = NoPkg
         \/ \E q \in Path : \/ StageOld(p, q) \/ PlaceDir(p, q) \/ PlaceFile(p, q)
                            \/ UndoFile(p, q) \/ UndoDir(p, q) \/ UndoBackup(p, q)
  PROVE  UNCHANGED Store!vars
<1> DEFINE t == txn[p]
           u == txn'[p]
<1>t. t \in Txn /\ txn \in [Proc -> Txn] /\ TypeInv /\ Sound(t, fs, db)
  BY TreeTypes
\* it goes on with the same tree in mind
<1>on. ASSUME UNCHANGED db, t.pc \in Stage \ {"idle", "prune"}, u.pc \in Stage \ {"idle", "prune"},
              u.before = t.before
       PROVE  UNCHANGED Store!vars
  BY <1>on, RunningOn DEF Running
<1>en. ASSUME UNCHANGED db, t.pc \in Stage \ {"idle", "prune"},
              NEW stage \in Stage \ {"idle", "prune"}, NEW paths, Enter(p, stage, paths)
       PROVE  UNCHANGED Store!vars
  BY <1>en, <1>on, <1>t, Entered DEF SameLists, SameJob
\* it ends before its first change
<1>end. ASSUME t.pc \in Check, End(p), UNCHANGED <<fs, db>>
        PROVE  UNCHANGED Store!vars
  <2>1. fs = t.before
    BY <1>end, <1>t DEF Sound, Untouched
  <2>2. Running(p) /\ ~Running(p)'
    BY <1>end, <1>t DEF Running, Check, End, NoTxn
  <2> QED
    BY <1>end, <2>1, <2>2, CommittedOf DEF Store!vars
<1>1. CASE Command(p)
  <2>1. UNCHANGED <<fs, db>> /\ t.pc = "idle" /\ u.pc = "depends" /\ u.before = fs
    <3>1. UNCHANGED <<fs, db>> /\ t.pc = "idle" /\ \E op, new, old : Begin(p, op, new, old)
      BY <1>1 DEF Command, InstallBegin, UpgradeBegin, RemoveBegin, Idle
    <3> QED
      BY <3>1, <1>t DEF Begin, NoTxn
  <2>2. ~Running(p) /\ Running(p)'
    BY <2>1 DEF Running
  <2>3. CommittedTree = Plain(fs) /\ CommittedTree' = Plain(fs)
    BY <2>1, <2>2, CommittedOf
  <2> QED
    BY <2>1, <2>3 DEF Store!vars
<1>2. CASE Fault(p)
  BY <1>2, <1>en, <1>end DEF Fault, Undo, Stage, Check, Change
<1>3. CASE Pruned(p)
  <2>1. UNCHANGED <<fs, db>> /\ ~Running(p) /\ ~Running(p)'
    BY <1>3, <1>t DEF Pruned, End, NoTxn, Running
  <2> QED
    BY <2>1, CommittedOf DEF Store!vars
<1>4. CASE CheckDependencies(p) \/ ValidateOld(p) \/ Preflight(p)
  BY <1>4, <1>en, <1>end
  DEF CheckDependencies, ValidateOld, Preflight, Stage, Check, Change
<1>5. CASE OldStaged(p) \/ DirsPlaced(p) \/ FilesPlaced(p)
  BY <1>5, <1>en DEF OldStaged, DirsPlaced, FilesPlaced, Stage, Check, Change
<1>6. CASE Unregister(p) /\ db[Target(p)] = NoPkg
  BY <1>6, <1>en DEF Unregister, Undo, Stage, Change
<1>7. ASSUME NEW q \in Path, StageOld(p, q) \/ PlaceDir(p, q) \/ PlaceFile(p, q)
      PROVE  UNCHANGED Store!vars
  <2>1. CASE Undo(p)
    BY <1>7, <2>1, <1>en DEF StageOld, PlaceDir, PlaceFile, Undo, Stage, Change
  <2>2. CASE ~Undo(p)
    <3>1. u.pc = t.pc /\ u.before = t.before
      BY <1>7, <2>2, <1>t DEF StageOld, PlaceDir, PlaceFile, Txn
    <3> QED
      BY <1>7, <3>1, <1>on DEF StageOld, PlaceDir, PlaceFile, Stage, Change
  <2> QED
    BY <2>1, <2>2
<1>8. ASSUME NEW q \in Path, UndoFile(p, q) \/ UndoDir(p, q) \/ UndoBackup(p, q)
      PROVE  UNCHANGED Store!vars
  <2>1. u.pc = t.pc /\ u.before = t.before
    BY <1>8, <1>t DEF UndoFile, UndoDir, UndoBackup, Txn
  <2> QED
    BY <1>8, <2>1, <1>on DEF UndoFile, UndoDir, UndoBackup, Stage
<1> QED
  BY <1>1, <1>2, <1>3, <1>4, <1>5, <1>6, <1>7, <1>8

\* A lone command that is not killed is atomic: seen from outside it changes the
\* records and the files in one step, that of its commit, or changes nothing (an
\* upgrade that fails may lose files no package records), whatever fails on the way and
\* whatever the administrator does between two commands.
THEOREM CommandsAreAtomic ==
  ASSUME Alone, AllTracked, NoKills, TxCmp = DbCmp
  PROVE  Spec => Atomic
<1>1. Init => Store!Init
  <2> SUFFICES ASSUME Init PROVE Store!Init
    OBVIOUS
  <2>1. Uncommitted = {}
    BY DEF Init, NoTxn, Uncommitted
  <2>2. CommittedTree = [q \in Path |-> Absent]
    BY <2>1 DEF Init, CommittedTree, Plain, EmptyTree
  <2> QED
    BY <2>2, StoreMeans DEF Init, Store!Init
<1>2. AtomicInv /\ AtomicInv' /\ [Next]_vars => [Store!Next]_(Store!vars)
  <2> SUFFICES ASSUME AtomicInv, AtomicInv', [Next]_vars
               PROVE  Store!Next \/ UNCHANGED Store!vars
    OBVIOUS
  <2>t. TreeInv /\ TypeInv /\ spent \in [Event -> Nat]
    BY DEF AtomicInv, TreeInv, OwnerInv, TypeInv, TypeOK
  <2>1. ASSUME NEW p \in Proc, Command(p) \/ Work(p) \/ Fault(p)
        PROVE  Store!Next \/ UNCHANGED Store!vars
    BY <2>1, <2>t, RegisterRefines, RemovalRefines, UndoneRefines, PruneRefines, OtherRefines
    DEF Work
  <2>2. ASSUME NEW p \in Proc, Crash(p) PROVE FALSE
    BY <2>2, <2>t DEF Crash, Spend, NoKills, Event
  <2>3. ASSUME NEW p \in Proc, NEW q \in Path, PlaceUntracked(p, q) PROVE FALSE
    BY <2>3, <2>t DEF PlaceUntracked, Spend, AllTracked, Event
  <2>4. ASSUME NEW q \in Path, Edit(q) PROVE Store!Next
    BY <2>4, <2>t, EditRefines
  <2>5. CASE UNCHANGED vars
    BY <2>5 DEF vars, Store!vars, CommittedTree, Uncommitted
  <2> QED
    BY <2>1, <2>2, <2>3, <2>4, <2>5 DEF Next, Environment
<1>3. AtomicInv /\ [Next]_vars => AtomicInv'
  BY AtomicStep
<1> QED
  BY <1>1, <1>2, <1>3, AtomicInit, PTL DEF Spec, Atomic, Store!Spec
===============================================================================
