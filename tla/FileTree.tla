------------------------------- MODULE FileTree ------------------------------
(***************************************************************************)
(* The installation root as the transaction engine uses it: the effect of  *)
(* the few system calls it makes on a tree of paths.  A tree maps every    *)
(* path to what it holds.  The staging directories the engine creates in   *)
(* the root have random names of their own and are no part of the tree.    *)
(***************************************************************************)
EXTENDS PackageDb, Naturals

CONSTANTS
  Above,   \* Above[q]: the directories on the way from the root to q
  Rank     \* the order of the paths under strcmp

ASSUME PathAssumption ==
  /\ Above \in [Path -> SUBSET Path]
  /\ Rank \in [Path -> Nat]
  /\ \A q, r \in Path : Rank[q] = Rank[r] => q = r
  /\ \A q \in Path : \A r \in Above[q] : Above[r] \subseteq Above[q] /\ Rank[r] < Rank[q]

\* An archive holds every parent directory of what it holds (collect_tree walks
\* the extracted tree, so the parents are entries of the list as well).  Its links
\* lead to paths of the tree.
ASSUME ArchiveAssumption ==
  \A a \in Pkg : \A q \in Entries(a) :
    /\ Above[q] \subseteq Dirs(a)
    /\ Payload[a][q].kind = "l" => Payload[a][q].tag \in Path

Tree == [Path -> Node]

Exists(t, q) == t[q].kind # "none"
IsDir(t, q)  == t[q].kind = "d"

\* mkdir succeeds where nothing exists below existing directories.
CanMkdir(t, q) == ~Exists(t, q) /\ \A r \in Above[q] : IsDir(t, r)

\* ensure_destination_parent: creates the missing parents, and fails where one
\* of them is there but is no directory.
ParentsUsable(t, q) == \A r \in Above[q] : IsDir(t, r) \/ ~Exists(t, r)
WithParents(t, q) ==
  [r \in Path |-> IF r \in Above[q] /\ ~Exists(t, r) THEN Dir ELSE t[r]]

\* Faulty variant: the parents are taken to be there.
CanPutBelowParents(t, q) == (\A r \in Above[q] : IsDir(t, r)) /\ ~IsDir(t, q)

\* rename(2) of a file or link to path q, its parents made first.  It replaces
\* whatever file or link is there.
CanPut(t, q) == ParentsUsable(t, q) /\ ~IsDir(t, q)
Put(t, q, node) == [WithParents(t, q) EXCEPT ![q] = node]

\* unlink(2), rename(2) of q out of the tree
Without(t, q) == [t EXCEPT ![q] = Absent]

\* unlink and rmdir as a clean-up calls them: a failure changes nothing.
Unlink(t, q) == IF IsDir(t, q) THEN t ELSE Without(t, q)
Rmdir(t, q) ==
  IF IsDir(t, q) /\ \A r \in Path : q \in Above[r] => ~Exists(t, r)
  THEN Without(t, q) ELSE t

\* Where access(2) ends up: it follows links, up to a limit (here the number of
\* paths, after which a chain that still stands on a link is a loop).
Follow(t, q) ==
  LET step(r) == IF t[r].kind = "l" THEN t[r].tag ELSE r
      walk[i \in Nat] == IF i = 0 THEN q ELSE step(walk[i - 1])
  IN  walk[Cardinality(Path)]
=============================================================================
