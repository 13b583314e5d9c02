----------------------------- MODULE PackageProofs -----------------------------
(***************************************************************************)
(* Theorems about packages: first about the making and the unpacking of    *)
(* one, for any payload, any number of edits, failures and kills, and any  *)
(* number of extractions beside each other; then about the way of packages *)
(* from a repository to what is installed, for any packages, any number of *)
(* commands beside each other, and any interleaving with the publisher and *)
(* with any number of updates of the index, their rollbacks included.      *)
(***************************************************************************)
EXTENDS Archive, RepoCache, SequenceTheorems, WellFoundedInduction, TLAPS

-----------------------------------------------------------------------------
\* Types

\* The constants, as the proofs use them.
LEMMA ArchiveFacts ==
  /\ Root \notin Path /\ \A x \in Path : Parent[x] \in Path \cup {Root} /\ Rank[x] \in Nat
  /\ \A x, y \in Path : Rank[x] = Rank[y] => x = y
  /\ \A x \in Path : Parent[x] # Root => Rank[Parent[x]] < Rank[x] /\ Parent[x] \in Path
  /\ \A t \in Target : Behind[t] \in Content \cup {None} /\ t \notin Content
  /\ \A x \in Content \cup Target : Size[x] \in Nat /\ x \notin {Dir, None, Part}
  /\ Dir # None /\ Part \notin {Dir, None}
  /\ MaxEdits \in Nat /\ MaxPlants \in Nat /\ Limit \in Nat
  /\ Part \notin Node
BY ArchiveConstants DEF ConstantsOK, Node

\* Reading a path gives a node.
LEMMA ReadingTypes == payload \in [Path -> Node] => Reading \in [Path -> SUBSET Node]
BY ArchiveFacts DEF Reading, Through, Node

LEMMA TypesInit == Init => TypeOK
<1>1. <<>> \in Seq(Member)
  BY EmptySeq
<1> QED
  BY <1>1, ArchiveFacts
  DEF Init, TypeOK, NoTree, NoArchive, NoBuild, Build, NoCall, Call, Node

\* Ending a build and writing a member keep types.
LEMMA EndBuildTypes ==
  ASSUME TypeOK, EndBuild
  PROVE  /\ payload' \in [Path -> Node] /\ build' \in Build /\ seen' \in [Path -> SUBSET Node]
         /\ edits' \in 0..MaxEdits
BY ArchiveFacts DEF EndBuild, NoBuild, Build, NoTree, Node, TypeOK

LEMMA WriteTypes ==
  ASSUME TypeOK, NEW e \in build.entries, NEW node \in Node \ {None}, Write(e, node)
  PROVE  /\ out'.whole = out.whole /\ out'.members \in Seq(Member) /\ build' \in Build
         /\ out'.members = Append(out.members, [path |-> e.path, node |-> node])
         /\ build'.pc = "write" /\ build'.entries = build.entries \ {e}
<1>1. e \in Member /\ [path |-> e.path, node |-> node] \in Member
  BY DEF TypeOK, Build, Member
<1>2. Append(out.members, [path |-> e.path, node |-> node]) \in Seq(Member)
  BY <1>1, AppendProperties DEF TypeOK
<1> QED
  BY <1>2 DEF TypeOK, Build, Write

-----------------------------------------------------------------------------
\* The invariant of the extractions

Writing(p) == call[p].pc \in {"copy", "drop"}
Extracted(p) ==
  \A i \in 1..Len(out.members) :
    i < call[p].next => dest[out.members[i].path] = out.members[i].node

\* Where an extraction stands: one that goes on has an archive that was built to the end,
\* and what it has passed is in place; a file that it writes is there in part.
CallInv(p) ==
  /\ call[p].pc \in {"idle", "validate"} => call[p].next = 1
  /\ call[p].pc \notin {"idle", "validate"} => out.whole /\ Extracted(p)
  /\ Writing(p) => /\ call[p].next \in 1..Len(out.members)
                   /\ Current(p).node \in Content /\ dest[Current(p).path] = Part
  /\ call[p].pc = "mkdir" => /\ call[p].next \in 1..Len(out.members)
                             /\ Current(p).node = Dir /\ Above(dest, Current(p).path) = Dir
  /\ call[p].pc = "done" => call[p].next > Len(out.members)

\* No two extractions write one file, and none runs while the archive is built.
ExtractInv ==
  /\ build.pc # "idle" => \A p \in Proc : call[p].pc = "idle"
  /\ IsTree(dest)
  /\ \A p \in Proc : CallInv(p)
  /\ \A p, q \in Proc : p # q /\ Writing(p) /\ Writing(q) => Current(p).path # Current(q).path

\* The values keep their types.
LEMMA ArchiveTypesStep == TypeOK /\ ExtractInv /\ [Next]_vars => TypeOK'
<1> SUFFICES ASSUME TypeOK, ExtractInv, [Next]_vars PROVE TypeOK'
  OBVIOUS
<1> USE ArchiveFacts
<1>1. CASE StartBuild
  <2>1. payload' \in [Path -> Node] /\ Children(Root)' \subseteq Path
    BY <1>1 DEF StartBuild, Children
  <2>2. build' \in Build
    BY <2>1, <1>1 DEF StartBuild, NoBuild, Build
  <2>3. seen' \in [Path -> SUBSET Node]
    <3>1. (payload \in [Path -> Node])' => (Reading \in [Path -> SUBSET Node])'
      BY ReadingTypes, PTL
    <3> QED
      BY <3>1, <2>1, <1>1 DEF StartBuild
  <2> QED
    BY <2>1, <2>2, <2>3, <1>1 DEF StartBuild, NoTree, TypeOK, Node
<1>2. ASSUME extracting' = extracting, payload' \in [Path -> Node], build' \in Build,
             seen' \in [Path -> SUBSET Node], edits' \in 0..MaxEdits, spent' \in 0..Limit,
             out' \in [members : Seq(Member), whole : BOOLEAN]
      PROVE  TypeOK'
  BY <1>2 DEF TypeOK, extracting
<1>3. ASSUME building' = building, dest' \in [Path -> Node \cup {Part}],
             call' \in [Proc -> Call], plants' \in 0..MaxPlants, spent' \in 0..Limit
      PROVE  TypeOK'
  BY <1>3 DEF TypeOK, building
<1>a. NoArchive \in [members : Seq(Member), whole : BOOLEAN]
  BY EmptySeq DEF NoArchive
<1>4. CASE Builder /\ UNCHANGED extracting
  <2> USE <1>4
  <2>1. CASE Collect
    <3>1. PICK x \in build.todo :
             \/ payload[x] = None /\ EndBuild
             \/ /\ build' = [build EXCEPT
                     !.todo = (@ \ {x}) \cup IF payload[x] = Dir THEN Children(x) ELSE {},
                     !.entries = @ \cup {[path |-> x, node |-> payload[x]]}]
                /\ payload[x] # None
                /\ UNCHANGED <<payload, seen, edits>>
      BY <2>1 DEF Collect
    <3>2. CASE EndBuild
      BY <3>2, <2>1, <1>2, EndBuildTypes DEF Collect, TypeOK
    <3>3. CASE ~(payload[x] = None /\ EndBuild)
      <4>1. x \in Path /\ [path |-> x, node |-> payload[x]] \in Member /\ Children(x) \subseteq Path
        BY <3>1, <3>3 DEF TypeOK, Build, Member, Children
      <4>2. /\ (build.todo \ {x}) \cup (IF payload[x] = Dir THEN Children(x) ELSE {}) \in SUBSET Path
            /\ build.entries \cup {[path |-> x, node |-> payload[x]]} \in SUBSET Member
        BY <4>1 DEF TypeOK, Build
      <4>3. \A d \in SUBSET Path : \A es \in SUBSET Member :
               [build EXCEPT !.todo = d, !.entries = es] \in Build
        BY DEF TypeOK, Build
      <4>4. build' \in Build
        <5>1. PICK d \in SUBSET Path, es \in SUBSET Member :
                 build' = [build EXCEPT !.todo = d, !.entries = es]
          BY <4>2, <3>1, <3>3
        <5> QED
          BY <4>3, <5>1
      <4> QED
        BY <4>4, <3>1, <3>3, <2>1, <1>2 DEF Collect, TypeOK
    <3> QED
      BY <3>2, <3>3
  <2>2. CASE OpenOutput
    <3>1. build' \in Build
      BY <2>2 DEF OpenOutput, TypeOK, Build
    <3> QED
      BY <3>1, <1>a, <2>2, <1>2 DEF OpenOutput, TypeOK
  <2>3. ASSUME Abandon, UNCHANGED <<payload, seen, edits>>, spent' \in 0..Limit
        PROVE  TypeOK'
    <3>1. build' \in Build
      BY <2>3 DEF Abandon, TypeOK, Build
    <3> QED
      BY <3>1, <2>3, <1>2 DEF Abandon, TypeOK
  <2>4. ASSUME NEW e \in build.entries, NEW node \in Node \ {None}, Write(e, node),
               UNCHANGED <<payload, seen, edits, spent>>
        PROVE  TypeOK'
    <3>1. out' \in [members : Seq(Member), whole : BOOLEAN]
      BY <2>4, WriteTypes DEF Write, TypeOK
    <3> QED
      BY <3>1, <2>4, <1>2, WriteTypes DEF TypeOK
  <2>5. CASE WriteEntry
    <3>1. PICK e \in build.entries :
             \/ Abandon
             \/ Write(e, e.node)
             \/ /\ SameKind(e, payload[e.path]) /\ e.node \in Content
                /\ build' = [build EXCEPT !.pc = "copy", !.size = Size[payload[e.path]]]
                /\ UNCHANGED out
      BY <2>5 DEF WriteEntry
    <3>2. e.node \in Node \ {None} /\ e.path \in Path
      BY DEF TypeOK, Build, Member
    <3>3. UNCHANGED <<payload, seen, edits, spent>> /\ spent' \in 0..Limit
      BY <2>5 DEF WriteEntry, TypeOK
    <3>4. CASE Abandon
      BY <3>4, <3>3, <2>3
    <3>5. CASE Write(e, e.node)
      BY <3>5, <3>2, <3>3, <2>4
    <3>6. CASE ~Abandon /\ ~Write(e, e.node)
      <4>1. Size[payload[e.path]] \in Nat
        BY <3>1, <3>6 DEF SameKind
      <4>2. build' \in Build
        BY <4>1, <3>1, <3>6 DEF TypeOK, Build
      <4> QED
        BY <4>2, <3>1, <3>3, <3>6, <1>2 DEF TypeOK
    <3> QED
      BY <3>4, <3>5, <3>6
  <2>6. CASE CopyFile
    <3>1. PICK e \in build.entries :
             IF Through(payload[e.path]) \in Content /\ Size[Through(payload[e.path])] = build.size
             THEN Write(e, Through(payload[e.path])) ELSE Abandon
      BY <2>6 DEF CopyFile
    <3>2. UNCHANGED <<payload, seen, edits, spent>> /\ spent' \in 0..Limit
      BY <2>6 DEF CopyFile, TypeOK
    <3>3. Content \subseteq Node \ {None}
      BY DEF Node
    <3> QED
      BY <3>1, <3>2, <3>3, <2>3, <2>4
  <2>7. CASE WriteEnd
    <3>1. out' \in [members : Seq(Member), whole : BOOLEAN]
      BY <2>7 DEF WriteEnd, TypeOK
    <3> QED
      BY <3>1, <2>7, <1>2, EndBuildTypes DEF WriteEnd, TypeOK
  <2>8. CASE Drop
    BY <2>8, <1>a, <1>2, EndBuildTypes DEF Drop, TypeOK
  <2>9. CASE BuildFault
    <3>1. spent' \in 0..Limit
      BY <2>9 DEF BuildFault, TypeOK
    <3> QED
      BY <3>1, <2>9, <2>3, <1>2, EndBuildTypes DEF BuildFault, TypeOK
  <2>10. CASE Edit
    <3>1. payload' \in [Path -> Node]
      BY <2>10 DEF Edit, TypeOK
    <3>2. (payload \in [Path -> Node])' => (Reading \in [Path -> SUBSET Node])'
      BY ReadingTypes, PTL
    <3>3. seen' \in [Path -> SUBSET Node]
      BY <3>1, <3>2, <2>10 DEF Edit, TypeOK
    <3> QED
      BY <3>1, <3>3, <2>10, <1>2 DEF Edit, TypeOK
  <2> QED
    BY <2>1, <2>2, <2>5, <2>6, <2>7, <2>8, <2>9, <2>10 DEF Builder
<1>5. CASE Plant /\ UNCHANGED building
  BY <1>5, <1>3 DEF Plant, TypeOK, Node
<1>6. ASSUME NEW p \in Proc, Extraction(p), UNCHANGED building PROVE TypeOK'
  <2>1. call[p] \in Call
    BY DEF TypeOK
  <2>2. [call EXCEPT ![p] = NoCall] \in [Proc -> Call]
    BY DEF TypeOK, NoCall, Call
  <2>3. [call EXCEPT ![p].pc = "member", ![p].next = @ + 1] \in [Proc -> Call]
    <3>1. call[p].next + 1 \in Nat \ {0}
      BY <2>1 DEF Call
    <3>2. [[call[p] EXCEPT !.pc = "member"] EXCEPT !.next = @ + 1] \in Call
      BY <3>1, <2>1 DEF Call
    <3> QED
      BY <3>1, <3>2, <2>1 DEF TypeOK, Call
  <2>4. \A s \in {"validate", "member", "mkdir", "copy", "drop", "done"} :
           [call EXCEPT ![p].pc = s] \in [Proc -> Call]
    BY <2>1 DEF TypeOK, Call
  <2>5. call' \in [Proc -> Call]
    BY <1>6, <2>2, <2>3, <2>4
    DEF Extraction, StartExtract, Validate, ExtractMember, MakeDirectory, CopyMember, DropMember,
        ExtractEnds, Return, ExtractFault, End, GoOn, TypeOK
  <2>6. plants' \in 0..MaxPlants /\ spent' \in 0..Limit
    BY <1>6
    DEF Extraction, StartExtract, Validate, ExtractMember, MakeDirectory, CopyMember, DropMember,
        ExtractEnds, Return, ExtractFault, TypeOK
  <2>7. \A x \in Path : \A node \in Node \cup {Part} :
           [dest EXCEPT ![x] = node] \in [Path -> Node \cup {Part}]
    BY DEF TypeOK
  <2>8. dest' \in [Path -> Node \cup {Part}]
    <3>1. CASE ExtractMember(p)
      <4>1. Current(p) \in Member
        <5>1. out.members \in Seq(Member) /\ call[p].next \in Nat \ {0}
          BY DEF TypeOK, Call
        <5>2. call[p].next \in 1..Len(out.members)
          BY <3>1, <5>1, LenProperties DEF ExtractMember
        <5> QED
          BY <5>1, <5>2, ElementOfSeq DEF Current
      <4> QED
        BY <4>1, <2>7, <3>1 DEF ExtractMember, TypeOK, Member
    <3>2. CASE CopyMember(p) \/ DropMember(p) \/ MakeDirectory(p)
      <4>1. (Writing(p) \/ call[p].pc = "mkdir") /\ CallInv(p)
        BY <3>2 DEF CopyMember, DropMember, MakeDirectory, Writing, ExtractInv
      <4>2. Current(p) \in Member
        BY <4>1, ElementOfSeq DEF CallInv, Current, TypeOK
      <4> QED
        BY <4>2, <2>7, <3>2 DEF CopyMember, DropMember, MakeDirectory, Member, Node, TypeOK
    <3> QED
      BY <1>6, <3>1, <3>2
      DEF Extraction, StartExtract, Validate, ExtractEnds, Return, ExtractFault, TypeOK
  <2> QED
    BY <2>5, <2>6, <2>8, <1>3, <1>6
<1>7. CASE UNCHANGED vars
  BY <1>7 DEF vars, TypeOK
<1> QED
  BY <1>1, <1>4, <1>5, <1>6, <1>7 DEF Next

-----------------------------------------------------------------------------
\* SuccessIsWhole and ExistingStays

\* What an archive holds, and what an extraction reads of it.
LEMMA Members ==
  ASSUME TypeOK
  PROVE  /\ Len(out.members) \in Nat /\ DOMAIN out.members = 1..Len(out.members)
         /\ \A i \in 1..Len(out.members) :
              out.members[i].path \in Path /\ out.members[i].node \in Node \ {None}
         /\ \A p \in Proc : call[p].next \in Nat \ {0}
<1>1. out.members \in Seq(Member)
  BY DEF TypeOK
<1>2. \A i \in 1..Len(out.members) : out.members[i] \in Member
  BY <1>1, ElementOfSeq
<1> QED
  BY <1>1, <1>2, LenProperties DEF TypeOK, Member, Call

\* A tree stays one when something is put where nothing was, or where a file was.
LEMMA TreeGrows ==
  ASSUME NEW t \in [Path -> Node \cup {Part}], IsTree(t), NEW x \in Path, NEW node,
         Above(t, x) = Dir, t[x] # Dir
  PROVE  IsTree([t EXCEPT ![x] = node])
<1> DEFINE u == [t EXCEPT ![x] = node]
<1> SUFFICES ASSUME NEW y \in Path, u[y] # None PROVE Above(u, y) = Dir
  BY DEF IsTree
<1>1. CASE y = x
  <2>1. Parent[x] # Root => Parent[x] # x
    BY ArchiveFacts
  <2> QED
    BY <1>1, <2>1, ArchiveFacts DEF Above
<1>2. CASE y # x
  BY <1>2, ArchiveFacts DEF IsTree, Above
<1> QED
  BY <1>1, <1>2

\* What an extraction has put in place stays, whatever is put where nothing was and
\* whatever becomes of the files that others write.
LEMMA OthersStay ==
  ASSUME TypeOK, NEW q \in Proc, CallInv(q), UNCHANGED <<out, call[q]>>,
         \A y \in Path : dest'[y] # dest[y] =>
           dest[y] \in {None, Part} /\ (Writing(q) => Current(q).path # y)
  PROVE  CallInv(q)' /\ Writing(q)' = Writing(q) /\ Current(q)' = Current(q)
<1>1. Writing(q)' = Writing(q) /\ Current(q)' = Current(q)
  BY DEF Writing, Current
<1>2. Extracted(q) => Extracted(q)'
  <2>1. \A i \in 1..Len(out.members) :
           out.members[i].path \in Path /\ out.members[i].node \notin {None, Part}
    BY Members, ArchiveFacts
  <2> QED
    BY <2>1 DEF Extracted
<1>3. Writing(q) => Current(q).path \in Path
  BY Members DEF CallInv, Current
<1>4. ASSUME call[q].pc = "mkdir" PROVE Above(dest', Current(q).path) = Dir
  <2>1. Current(q).path \in Path /\ Above(dest, Current(q).path) = Dir
    BY <1>4, Members DEF CallInv, Current
  <2>2. Parent[Current(q).path] # Root => Parent[Current(q).path] \in Path
    BY <2>1, ArchiveFacts
  <2> QED
    BY <2>1, <2>2, ArchiveFacts DEF Above
<1>5. Above(dest, Current(q).path)' = Above(dest', Current(q).path)
  BY <1>1 DEF Above
<1> QED
  BY <1>1, <1>2, <1>3, <1>4, <1>5 DEF CallInv

\* The invariant of the extractions holds.
LEMMA ExtractInvInit == Init => ExtractInv
BY DEF Init, ExtractInv, NoCall, NoTree, IsTree, CallInv, Writing, NoBuild

LEMMA ExtractInvStep == TypeOK /\ ExtractInv /\ [Next]_vars => ExtractInv'
<1> SUFFICES ASSUME TypeOK, ExtractInv, [Next]_vars PROVE ExtractInv'
  OBVIOUS
<1>1. ASSUME \A p \in Proc : call[p].pc = "idle", call' = call, IsTree(dest')
      PROVE  ExtractInv'
  BY <1>1 DEF ExtractInv, CallInv, Writing
<1>2. CASE StartBuild
  <2>1. IsTree(NoTree)
    BY DEF IsTree, NoTree
  <2> QED
    BY <2>1, <1>1, <1>2 DEF StartBuild, IsTree, Above
<1>3. CASE Builder /\ UNCHANGED extracting
  <2>1. Collect \/ OpenOutput \/ WriteEntry \/ CopyFile \/ WriteEnd \/ Drop =>
           build.pc \in {"collect", "write", "copy", "drop"}
    BY DEF Collect, OpenOutput, WriteEntry, CopyFile, WriteEnd, Drop
  <2>2. BuildFault \/ Edit => build.pc # "idle"
    BY DEF BuildFault, Edit
  <2>3. build.pc # "idle"
    BY <2>1, <2>2, <1>3 DEF Builder
  <2> QED
    BY <2>3, <1>1, <1>3 DEF ExtractInv, extracting, IsTree, Above
<1>4. CASE Plant /\ UNCHANGED building
  <2>1. PICK x \in Path, node \in Content \cup Target :
           dest[x] = None /\ ParentOpens(x) /\ dest' = [dest EXCEPT ![x] = node]
    BY <1>4 DEF Plant
  <2>2. IsTree(dest')
    <3>1. IsTree([dest EXCEPT ![x] = node])
      BY <2>1, TreeGrows, ArchiveFacts DEF TypeOK, ExtractInv, ParentOpens
    <3> QED
      BY <3>1, <2>1 DEF IsTree, Above
  <2>3. \A y \in Path : dest'[y] # dest[y] => y = x
    BY <2>1 DEF TypeOK
  <2>4. \A q \in Proc : CallInv(q)' /\ Writing(q)' = Writing(q) /\ Current(q)' = Current(q)
    <3> SUFFICES ASSUME NEW q \in Proc
                 PROVE  CallInv(q)' /\ Writing(q)' = Writing(q) /\ Current(q)' = Current(q)
      OBVIOUS
    <3>1. CallInv(q) /\ UNCHANGED <<out, call[q]>>
      BY <1>4 DEF ExtractInv, building, Plant
    <3>2. Writing(q) => Current(q).path # x
      BY <3>1, <2>1, ArchiveFacts DEF CallInv
    <3> QED
      BY <3>1, <3>2, <2>1, <2>3, OthersStay
  <2> QED
    BY <2>2, <2>4, <1>4 DEF ExtractInv, building, Plant
<1>5. ASSUME NEW p \in Proc, Extraction(p), UNCHANGED building PROVE ExtractInv'
  <2>1. build' = build /\ out' = out /\ build.pc = "idle"
    BY <1>5
    DEF building, ExtractInv, Extraction, StartExtract, Validate, ExtractMember, MakeDirectory,
        CopyMember, DropMember, ExtractEnds, Return, ExtractFault
  <2>2. \A q \in Proc : q # p => call'[q] = call[q]
    BY <1>5
    DEF TypeOK, Extraction, StartExtract, Validate, ExtractMember, MakeDirectory, CopyMember,
        DropMember, ExtractEnds, Return, ExtractFault, End, GoOn
  <2> DEFINE x == Current(p).path
             node == Current(p).node
  <2>a. CallInv(p) /\ call[p] \in Call
    BY DEF ExtractInv, TypeOK
  \* What remains to show of a step that changes dest at one path only.
  <2>3. ASSUME NEW y \in Path, dest[y] \in {None, Part}, Above(dest, y) = Dir,
               NEW v, dest' = [dest EXCEPT ![y] = v], CallInv(p)',
               \A q \in Proc : q # p /\ Writing(q) =>
                 Current(q).path # y /\ (Writing(p)' => Current(p)'.path # Current(q).path)
        PROVE  ExtractInv'
    <3>1. IsTree(dest')
      <4>1. IsTree([dest EXCEPT ![y] = v])
        BY <2>3, TreeGrows, ArchiveFacts DEF TypeOK, ExtractInv
      <4> QED
        BY <4>1, <2>3 DEF IsTree, Above
    <3>2. \A q \in Proc : q # p =>
             CallInv(q)' /\ Writing(q)' = Writing(q) /\ Current(q)' = Current(q)
      <4> SUFFICES ASSUME NEW q \in Proc, q # p
                   PROVE  CallInv(q)' /\ Writing(q)' = Writing(q) /\ Current(q)' = Current(q)
        OBVIOUS
      <4>1. CallInv(q) /\ UNCHANGED <<out, call[q]>>
        BY <2>1, <2>2 DEF ExtractInv
      <4>2. \A z \in Path : dest'[z] # dest[z] => z = y
        BY <2>3 DEF TypeOK
      <4> QED
        BY <4>1, <4>2, <2>3, OthersStay
    <3>3. \A q \in Proc : CallInv(q)'
      BY <3>2, <2>3
    <3>4. \A q, r \in Proc :
             q # r /\ Writing(q)' /\ Writing(r)' => Current(q)'.path # Current(r)'.path
      <4> SUFFICES ASSUME NEW q \in Proc, NEW r \in Proc, q # r, Writing(q)', Writing(r)'
                   PROVE  Current(q)'.path # Current(r)'.path
        OBVIOUS
      <4>1. CASE q # p /\ r # p
        BY <4>1, <3>2 DEF ExtractInv
      <4>2. CASE q = p
        BY <4>2, <3>2, <2>3
      <4>3. CASE r = p
        BY <4>3, <3>2, <2>3
      <4> QED
        BY <4>1, <4>2, <4>3
    <3> QED
      BY <3>1, <3>3, <3>4, <2>1 DEF ExtractInv
  \* And of one that leaves dest as it is.
  <2>4. ASSUME dest' = dest, CallInv(p)', Writing(p)' => Writing(p) /\ Current(p)' = Current(p)
        PROVE  ExtractInv'
    <3>1. \A q \in Proc : q # p =>
             CallInv(q)' /\ Writing(q)' = Writing(q) /\ Current(q)' = Current(q)
      BY <2>4, <2>1, <2>2, OthersStay DEF ExtractInv
    <3>2. IsTree(dest')
      BY <2>4 DEF ExtractInv
    <3>3. \A q \in Proc : CallInv(q)' /\
             (Writing(q)' => Writing(q) /\ Current(q)' = Current(q))
      BY <3>1, <2>4
    <3> QED
      BY <3>2, <3>3, <2>1 DEF ExtractInv, IsTree, Above
  \* A member that is in place now.
  <2>5. ASSUME GoOn(p), out.whole, Extracted(p), call[p].next <= Len(out.members),
               dest'[x] = node,
               \A i \in 1..Len(out.members) :
                 dest[out.members[i].path] = out.members[i].node =>
                   dest'[out.members[i].path] = out.members[i].node
        PROVE  CallInv(p)' /\ ~Writing(p)'
    <3>1. call'[p].pc = "member" /\ call'[p].next = call[p].next + 1
      BY <2>5, <2>a DEF GoOn, TypeOK, Call
    <3>2. Extracted(p)'
      <4> SUFFICES ASSUME NEW i \in 1..Len(out.members), i < call[p].next + 1
                   PROVE  dest'[out.members[i].path] = out.members[i].node
        BY <3>1, <2>1 DEF Extracted
      <4>1. i = call[p].next \/ i < call[p].next
        BY Members
      <4> QED
        BY <4>1, <2>5 DEF Extracted, Current
    <3> QED
      BY <3>1, <3>2, <2>1, <2>5 DEF CallInv, Writing
  <2>6. ASSUME End(p) PROVE CallInv(p)' /\ ~Writing(p)'
    BY <2>6 DEF End, NoCall, TypeOK, CallInv, Writing
  <2>7. \A i \in 1..Len(out.members) :
           out.members[i].path \in Path /\ out.members[i].node \notin {None, Part}
    BY Members, ArchiveFacts
  \* Something that is put in place where nothing was.
  <2>b. ASSUME call[p].next \in 1..Len(out.members), x \in Path, node \notin {None, Part},
               out.whole, Extracted(p), Above(dest, x) = Dir, dest[x] = None,
               dest' = [dest EXCEPT ![x] = node], GoOn(p)
        PROVE  ExtractInv'
    <3>1. \A q \in Proc : Writing(q) => Current(q).path # x
      BY <2>b, ArchiveFacts DEF ExtractInv, CallInv
    <3>2. dest'[x] = node
      BY <2>b DEF TypeOK
    <3>3. \A i \in 1..Len(out.members) :
             dest[out.members[i].path] = out.members[i].node =>
               dest'[out.members[i].path] = out.members[i].node
      BY <2>b, <2>7 DEF TypeOK
    <3>4. CallInv(p)' /\ ~Writing(p)'
      <4>1. call[p].next <= Len(out.members) /\ GoOn(p) /\ out.whole /\ Extracted(p)
        BY <2>b
      <4> HIDE DEF x, node
      <4> QED
        BY <4>1, <3>2, <3>3, <2>5
    <3>5. \A q \in Proc : q # p /\ Writing(q) =>
             Current(q).path # x /\ (Writing(p)' => Current(p)'.path # Current(q).path)
      BY <3>1, <3>4
    <3>6. /\ x \in Path /\ dest[x] \in {None, Part} /\ Above(dest, x) = Dir
          /\ dest' = [dest EXCEPT ![x] = node]
      BY <2>b
    <3> HIDE DEF x, node
    <3> QED
      BY <3>4, <3>5, <3>6, <2>3
  <2>8. CASE StartExtract(p) \/ Validate(p)
    <3>1. call[p].next = 1
      BY <2>8, <2>a DEF StartExtract, Validate, CallInv
    <3>2. dest' = dest
      BY <2>8 DEF StartExtract, Validate
    <3>3. CASE End(p)
      BY <3>3, <3>2, <2>4, <2>6
    <3>4. CASE call' = [call EXCEPT ![p].pc = "validate"]
      BY <3>1, <3>2, <3>4, <2>4 DEF CallInv, Writing, TypeOK, Call
    <3>5. CASE call' = [call EXCEPT ![p].pc = "member"] /\ out.whole
      <4>1. Extracted(p)'
        BY <3>1, <3>5, <2>1 DEF Extracted, TypeOK, Call
      <4> QED
        BY <4>1, <3>1, <3>2, <3>5, <2>1, <2>4 DEF CallInv, Writing, TypeOK, Call
    <3> QED
      BY <2>8, <3>3, <3>4, <3>5 DEF StartExtract, Validate
  <2>9. CASE ExtractMember(p)
    <3>1. /\ call[p].next \in 1..Len(out.members) /\ x \in Path
          /\ node \in Node /\ node \notin {None, Part}
          /\ out.whole /\ Extracted(p)
      <4>1. call[p].pc = "member" /\ call[p].next \in 1..Len(out.members)
        BY <2>9, Members DEF ExtractMember
      <4> QED
        BY <4>1, <2>7, <2>a, Members DEF Current, CallInv
    <3>2. CASE End(p) /\ UNCHANGED dest
      BY <3>2, <2>4, <2>6
    <3>3. CASE GoOn(p) /\ UNCHANGED dest /\ dest[x] = node
      BY <3>1, <3>3, <2>4, <2>5
    <3>4. ASSUME ParentOpens(x), dest[x] = None
          PROVE  /\ \A q \in Proc : Writing(q) => Current(q).path # x
                 /\ Above(dest, x) = Dir
                 /\ \A v : dest' = [dest EXCEPT ![x] = v] =>
                      /\ dest'[x] = v
                      /\ \A i \in 1..Len(out.members) :
                           dest[out.members[i].path] = out.members[i].node =>
                             dest'[out.members[i].path] = out.members[i].node
      <4>1. \A q \in Proc : Writing(q) => Current(q).path # x
        BY <3>4, ArchiveFacts DEF ExtractInv, CallInv
      <4> QED
        BY <4>1, <3>1, <3>4, <2>7 DEF ParentOpens, TypeOK
    <3>5. CASE /\ ParentOpens(x) /\ dest[x] = None /\ node \in Content
               /\ dest' = [dest EXCEPT ![x] = Part] /\ call' = [call EXCEPT ![p].pc = "copy"]
      <4>1. call'[p].pc = "copy" /\ call'[p].next = call[p].next
        BY <3>5 DEF TypeOK, Call
      <4>2. Current(p)' = Current(p)
        BY <4>1, <2>1 DEF Current
      <4>3. Extracted(p)'
        BY ZenonT(60), <4>1, <3>1, <3>4, <3>5, <2>1 DEF Extracted
      <4>4. dest'[x] = Part
        BY <3>4, <3>5
      <4>5. CallInv(p)'
        BY <4>1, <4>2, <4>3, <4>4, <3>1, <3>5, <2>1 DEF CallInv, Writing
      <4>6. \A q \in Proc : q # p /\ Writing(q) =>
               Current(q).path # x /\ (Writing(p)' => Current(p)'.path # Current(q).path)
        BY <4>2, <3>4, <3>5
      <4>7. x \in Path /\ dest[x] \in {None, Part} /\ Above(dest, x) = Dir
        BY <3>1, <3>4, <3>5
      <4>8. dest' = [dest EXCEPT ![x] = Part]
        BY <3>5
      <4> HIDE DEF x
      <4> QED
        BY <4>5, <4>6, <4>7, <4>8, <2>3
    <3>6. CASE ParentOpens(x) /\ dest[x] = None /\ dest' = [dest EXCEPT ![x] = node] /\ GoOn(p)
      BY <3>1, <3>6, <2>b DEF ParentOpens
    <3>7. CASE /\ ParentOpens(x) /\ node = Dir /\ UNCHANGED dest
               /\ call' = [call EXCEPT ![p].pc = "mkdir"]
      <4>1. call'[p].pc = "mkdir" /\ call'[p].next = call[p].next
        BY <3>7 DEF TypeOK, Call
      <4>2. Current(p)' = Current(p)
        BY <4>1, <2>1 DEF Current
      <4>3. Extracted(p)'
        BY <4>1, <3>1, <3>7, <2>1 DEF Extracted
      <4>4. CallInv(p)'
        BY <4>1, <4>2, <4>3, <3>1, <3>7, <2>1 DEF CallInv, Writing, ParentOpens, Above
      <4> QED
        BY <4>1, <4>4, <3>7, <2>4 DEF Writing
    <3> QED
      BY <2>9, <3>2, <3>3, <3>5, <3>6, <3>7 DEF ExtractMember
  <2>c. CASE MakeDirectory(p)
    <3>1. /\ call[p].next \in 1..Len(out.members) /\ x \in Path /\ node = Dir
          /\ out.whole /\ Extracted(p) /\ Above(dest, x) = Dir
      <4>1. call[p].pc = "mkdir"
        BY <2>c DEF MakeDirectory
      <4>2. call[p].next \in 1..Len(out.members) /\ node = Dir /\ Above(dest, x) = Dir
        BY <4>1, <2>a DEF CallInv
      <4> QED
        BY <4>1, <4>2, <2>7, <2>a DEF Current, CallInv
    <3>2. CASE End(p) /\ UNCHANGED dest
      BY <3>2, <2>4, <2>6
    <3>3. CASE dest[x] = None /\ dest' = [dest EXCEPT ![x] = node] /\ GoOn(p)
      BY <3>1, <3>3, <2>b, ArchiveFacts
    <3> QED
      BY <2>c, <3>1, <3>2, <3>3 DEF MakeDirectory
  <2>10. CASE CopyMember(p) \/ DropMember(p)
    <3>1. /\ Writing(p) /\ call[p].next \in 1..Len(out.members) /\ x \in Path /\ dest[x] = Part
          /\ out.whole /\ Extracted(p) /\ Above(dest, x) = Dir
      <4>1. Writing(p) /\ call[p].pc \notin {"idle", "validate"}
        BY <2>10 DEF CopyMember, DropMember, Writing
      <4>2. call[p].next \in 1..Len(out.members) /\ x \in Path /\ dest[x] = Part
        BY <4>1, <2>a, Members DEF CallInv, Current
      <4> QED
        BY <4>1, <4>2, <2>a, ArchiveFacts DEF CallInv, ExtractInv, IsTree
    <3>2. \A q \in Proc : q # p /\ Writing(q) => Current(q).path # x
      BY <3>1 DEF ExtractInv
    <3>3. CASE CopyMember(p)
      <4>1. GoOn(p) /\ dest' = [dest EXCEPT ![x] = node]
        BY <3>3 DEF CopyMember
      <4>2. dest'[x] = node
        BY <4>1, <3>1 DEF TypeOK
      <4>3. \A i \in 1..Len(out.members) :
               dest[out.members[i].path] = out.members[i].node =>
                 dest'[out.members[i].path] = out.members[i].node
        BY <4>1, <3>1, <2>7 DEF TypeOK
      <4>4. CallInv(p)' /\ ~Writing(p)'
        BY <4>1, <4>2, <4>3, <3>1, <2>5
      <4> QED
        BY <4>1, <4>4, <3>1, <3>2, <2>3
    <3>4. CASE DropMember(p)
      BY <3>1, <3>2, <3>4, <2>3, <2>6 DEF DropMember
    <3> QED
      BY <2>10, <3>3, <3>4
  <2>11. CASE ExtractEnds(p)
    <3>1. call'[p].pc = "done" /\ call'[p].next = call[p].next /\ dest' = dest
      BY <2>11 DEF ExtractEnds, TypeOK, Call
    <3>2. out.whole /\ Extracted(p) /\ call[p].next > Len(out.members)
      BY <2>11, <2>a DEF ExtractEnds, CallInv
    <3> QED
      BY <3>1, <3>2, <2>1, <2>4 DEF CallInv, Writing, Extracted
  <2>12. CASE Return(p)
    BY <2>12, <2>4, <2>6 DEF Return
  <2>13. CASE ExtractFault(p)
    <3>1. CASE End(p)
      BY <3>1, <2>13, <2>4, <2>6 DEF ExtractFault
    <3>2. CASE call[p].pc = "copy" /\ call' = [call EXCEPT ![p].pc = "drop"]
      <4>1. /\ call'[p].pc = "drop" /\ call'[p].next = call[p].next /\ dest' = dest
            /\ Writing(p)
        BY <3>2, <2>13 DEF ExtractFault, TypeOK, Call, Writing
      <4>2. Current(p)' = Current(p)
        BY <4>1, <2>1 DEF Current
      <4>3. CallInv(p)'
        BY <4>1, <4>2, <3>2, <2>1, <2>a DEF CallInv, Writing, Extracted
      <4> QED
        BY <4>1, <4>2, <4>3, <2>4
    <3> QED
      BY <2>13, <3>1, <3>2 DEF ExtractFault
  <2> QED
    BY <1>5, <2>8, <2>9, <2>c, <2>10, <2>11, <2>12, <2>13 DEF Extraction
<1>6. CASE UNCHANGED vars
  BY <1>6
  DEF vars, ExtractInv, CallInv, Writing, Current, Extracted, IsTree, Above
<1> QED
  BY <1>2, <1>3, <1>4, <1>5, <1>6 DEF Next

\* Types and invariant hold together: what a step writes is in range because of it.
LEMMA ExtractInvHolds == Spec => [](TypeOK /\ ExtractInv)
<1>1. Init => TypeOK /\ ExtractInv
  BY TypesInit, ExtractInvInit
<1>2. TypeOK /\ ExtractInv /\ [Next]_vars => (TypeOK /\ ExtractInv)'
  BY ArchiveTypesStep, ExtractInvStep
<1> QED
  BY <1>1, <1>2, PTL DEF Spec

\* The values of the model have their types.
THEOREM ArchiveTypes == Spec => []TypeOK
BY ExtractInvHolds, PTL

\* An extraction that succeeds has put every member of an archive that was built to the
\* end in place, whole, also where others run, have failed or were killed in the same
\* destination (pux_package_archive_extract).
THEOREM ExtractionsDeliver == Spec => []SuccessIsWhole
<1>1. TypeOK /\ ExtractInv => SuccessIsWhole
  BY Members DEF SuccessIsWhole, ExtractInv, CallInv, Extracted
<1> QED
  BY <1>1, ExtractInvHolds, PTL

\* No extraction overwrites or removes what it finds, follows a link, or touches a file
\* that another one is writing (open_parent_dir, extract_regular_file).
THEOREM NothingIsOverwritten == Spec => ExistingStays
<1> DEFINE Stays ==
      /\ IsTree(dest')
      /\ \A x \in Path : build' = build /\ dest'[x] # dest[x] =>
           \/ dest[x] = None
           \/ dest[x] = Part /\ \E p \in Proc :
                call[p].pc \in {"copy", "drop"} /\ Current(p).path = x /\ call'[p] # call[p]
<1>1. TypeOK /\ ExtractInv /\ ExtractInv' /\ [Next]_vars => [Stays]_vars
  <2> SUFFICES ASSUME TypeOK, ExtractInv, ExtractInv', Next PROVE Stays
    BY DEF vars
  <2>1. IsTree(dest')
    BY DEF ExtractInv, IsTree, Above
  <2> SUFFICES ASSUME NEW x \in Path, build' = build, dest'[x] # dest[x]
               PROVE  \/ dest[x] = None
                      \/ dest[x] = Part /\ \E p \in Proc :
                           call[p].pc \in {"copy", "drop"} /\ Current(p).path = x
                             /\ call'[p] # call[p]
    BY <2>1
  <2>2. CASE StartBuild
    BY <2>2 DEF StartBuild, NoBuild
  <2>3. CASE UNCHANGED extracting
    BY <2>3 DEF extracting
  <2>4. CASE Plant
    BY <2>4 DEF Plant, TypeOK
  <2>5. ASSUME NEW p \in Proc, ExtractMember(p) \/ MakeDirectory(p)
        PROVE  dest[x] = None
    BY <2>5 DEF ExtractMember, MakeDirectory, TypeOK
  <2>6. ASSUME NEW p \in Proc, CopyMember(p) \/ DropMember(p)
        PROVE  dest[x] = Part /\ call[p].pc \in {"copy", "drop"} /\ Current(p).path = x
                 /\ call'[p] # call[p]
    <3>1. Writing(p) /\ dest[Current(p).path] = Part
      BY <2>6 DEF CopyMember, DropMember, Writing, ExtractInv, CallInv
    <3>2. Current(p).path = x
      BY <2>6 DEF CopyMember, DropMember, TypeOK
    <3>3. call'[p].pc \in {"member", "idle"}
      BY <2>6 DEF CopyMember, DropMember, GoOn, End, NoCall, TypeOK, Call
    <3> QED
      BY <3>1, <3>2, <3>3 DEF Writing
  <2>7. ASSUME NEW p \in Proc, Extraction(p), ~ExtractMember(p), ~MakeDirectory(p),
               ~CopyMember(p), ~DropMember(p)
        PROVE  FALSE
    BY <2>7 DEF Extraction, StartExtract, Validate, ExtractEnds, Return, ExtractFault
  <2> QED
    BY <2>2, <2>3, <2>4, <2>5, <2>6, <2>7 DEF Next
<1> QED
  BY <1>1, ExtractInvHolds, PTL DEF Spec, ExistingStays

-----------------------------------------------------------------------------
\* The invariant of the builder

Written == {out.members[i] : i \in 1..Len(out.members)}
Paths(S) == {e.path : e \in S}
\* x is at the root, or its directory is among the members of S.
Below(x, S) == Parent[x] = Root \/ [path |-> Parent[x], node |-> Dir] \in S

\* What was read: above whatever was there throughout there was always a directory.
PayloadInv ==
  /\ IsTree(payload)
  /\ \A x \in Path : Reading[x] \subseteq seen[x]
  /\ \A x \in Path : None \notin seen[x] /\ Parent[x] # Root => seen[Parent[x]] \subseteq {Dir}

\* Nothing is found twice, and what is found was read.
EntriesInv ==
  /\ \A e \in build.entries : e.node \in seen[e.path]
  /\ \A e, f \in build.entries : e.path = f.path => e = f

\* The directory of what is found or to look at was found before; and in a directory that
\* was found nothing is missed.
CollectInv ==
  /\ build.todo \cap Paths(build.entries) = {}
  /\ \A x \in build.todo \cup Paths(build.entries) : Below(x, build.entries)
  /\ \A x \in Path : None \notin seen[x] /\ Below(x, build.entries) =>
       x \in build.todo \cup Paths(build.entries)

\* What is written was read, in order, below directories, and before what is to be
\* written; and between the two nothing is lost.
WriteInv ==
  /\ ~out.whole
  /\ \A j \in 1..Len(out.members) :
       /\ out.members[j].node \in seen[out.members[j].path]
       /\ \A e \in build.entries : Rank[out.members[j].path] < Rank[e.path]
       /\ \A i \in 1..Len(out.members) :
            i < j => Rank[out.members[i].path] < Rank[out.members[j].path]
       /\ Parent[out.members[j].path] = Root
            \/ \E i \in 1..Len(out.members) :
                 i < j /\ out.members[i] = [path |-> Parent[out.members[j].path], node |-> Dir]
  /\ \A e \in build.entries : Below(e.path, build.entries \cup Written)
  /\ \A x \in Path : None \notin seen[x] => x \in Paths(build.entries \cup Written)

BuildInv ==
  /\ build.pc # "idle" => PayloadInv
  /\ build.pc \in {"collect", "write", "copy"} => EntriesInv
  /\ build.pc = "collect" => CollectInv
  /\ build.pc \in {"write", "copy"} => WriteInv
  /\ build.pc = "copy" => \A e \in build.entries : NextEntry(e) => e.node \in Content

-----------------------------------------------------------------------------
\* ValidIsBuilt

\* Of any paths there is one with the least name.
LEMMA LeastPath ==
  ASSUME NEW S \in SUBSET Path, S # {}
  PROVE  \E x \in S : \A y \in S : Rank[x] <= Rank[y]
<1> DEFINE R == {Rank[x] : x \in S}
           L == {s \in Nat \X Nat : s[1] < s[2]}
<1>1. IsWellFoundedOn(L, Nat)
  <2>1. L = OpToRel(<, Nat)
    BY DEF OpToRel
  <2> QED
    BY <2>1, NatLessThanWellFounded
<1>2. R \subseteq Nat /\ R # {}
  BY ArchiveFacts
<1>3. PICK n \in R : \A m \in R : ~(<<m, n>> \in L)
  <2> HIDE DEF R, L
  <2> QED
    BY <1>1, <1>2, WFMin
<1>4. PICK x \in S : n = Rank[x]
  OBVIOUS
<1>5. \A m \in R : n <= m
  <2> SUFFICES ASSUME NEW m \in R PROVE n <= m
    OBVIOUS
  <2>1. n \in Nat /\ m \in Nat /\ ~(<<m, n>> \in L)
    BY <1>2, <1>3
  <2> QED
    BY <2>1
<1> QED
  BY <1>4, <1>5

\* What reading a path gives: what is there, and what is behind it.
LEMMA WhatIsRead ==
  ASSUME PayloadInv, NEW x \in Path
  PROVE  /\ payload[x] \in seen[x]
         /\ Through(payload[x]) # None => Through(payload[x]) \in seen[x]
         /\ None \notin seen[x] => payload[x] # None
BY DEF PayloadInv, Reading

\* When everything that was to be looked at is found, nothing is missing: the least path
\* that was would be in a directory that is there.
LEMMA AllFound ==
  ASSUME TypeOK, PayloadInv, EntriesInv, CollectInv, build.todo = {}
  PROVE  \A x \in Path : None \notin seen[x] => x \in Paths(build.entries)
<1> DEFINE Missed == {x \in Path : None \notin seen[x] /\ x \notin Paths(build.entries)}
<1> SUFFICES ASSUME Missed # {} PROVE FALSE
  OBVIOUS
<1>1. PICK x \in Missed : \A y \in Missed : Rank[x] <= Rank[y]
  <2>1. Missed \in SUBSET Path
    OBVIOUS
  <2> HIDE DEF Missed
  <2> QED
    BY <2>1, LeastPath
<1>2. ~Below(x, build.entries)
  BY <1>1 DEF CollectInv
<1>3. Parent[x] \in Path /\ Rank[Parent[x]] < Rank[x] /\ seen[Parent[x]] \subseteq {Dir}
  BY <1>1, <1>2, ArchiveFacts DEF Below, PayloadInv
<1>4. None \notin seen[Parent[x]]
  BY <1>3, ArchiveFacts
<1>5. Parent[x] \in Paths(build.entries)
  <2>1. Parent[x] \notin Missed
    BY <1>1, <1>3, ArchiveFacts
  <2> QED
    BY <2>1, <1>3, <1>4
<1>6. PICK e \in build.entries : e.path = Parent[x]
  BY <1>5 DEF Paths
<1>7. e = [path |-> Parent[x], node |-> Dir]
  <2>1. e \in Member /\ e.node = Dir
    BY <1>3, <1>6 DEF EntriesInv, TypeOK, Build
  <2> QED
    BY <2>1, <1>6 DEF Member
<1> QED
  BY <1>2, <1>6, <1>7 DEF Below

\* The next entry, and what is written of it, come after all that is written.
LEMMA WriteStep ==
  ASSUME TypeOK, PayloadInv, EntriesInv, WriteInv, NEW e \in build.entries, NextEntry(e),
         NEW node \in Node \ {None}, node \in seen[e.path],
         e.node = Dir => node = Dir, Write(e, node), UNCHANGED <<payload, seen>>
  PROVE  BuildInv'
<1> DEFINE new == [path |-> e.path, node |-> node]
           m == out.members
           n == Len(out.members)
<1>1. /\ out'.whole = out.whole /\ out'.members = Append(m, new)
      /\ build'.pc = "write" /\ build'.entries = build.entries \ {e}
  BY WriteTypes
<1>2. /\ n \in Nat /\ Len(out'.members) = n + 1 /\ out'.members[n+1] = new
      /\ \A i \in 1..n : out'.members[i] = m[i]
  <2>1. m \in Seq(Member) /\ new \in Member
    BY DEF TypeOK, Build, Member
  <2> QED
    BY <1>1, <2>1, AppendProperties, LenProperties
<1>3. Written' = Written \cup {new}
  <2>1. 1..(n+1) = (1..n) \cup {n+1}
    BY <1>2
  <2>2. Written' = {out'.members[i] : i \in (1..n) \cup {n+1}}
    BY <1>2, <2>1 DEF Written
  <2>3. Written = {m[i] : i \in 1..n}
    BY DEF Written
  <2> HIDE DEF new, m, n
  <2> QED
    BY <1>2, <2>2, <2>3
<1>4. e \in Member /\ \A f \in build.entries : f \in Member /\ Rank[f.path] \in Nat
  BY ArchiveFacts DEF TypeOK, Build, Member
<1>5. \A f \in build.entries \ {e} : Rank[e.path] < Rank[f.path]
  <2> SUFFICES ASSUME NEW f \in build.entries \ {e} PROVE Rank[e.path] < Rank[f.path]
    OBVIOUS
  <2>1. e.path # f.path /\ e.path \in Path /\ f.path \in Path
    BY <1>4 DEF EntriesInv, Member
  <2>2. Rank[e.path] # Rank[f.path] /\ Rank[e.path] <= Rank[f.path]
    BY <2>1, ArchiveFacts DEF NextEntry
  <2> QED
    BY <2>2, <1>4
<1>6. Parent[e.path] = Root \/ \E i \in 1..n : m[i] = [path |-> Parent[e.path], node |-> Dir]
  <2> SUFFICES ASSUME Parent[e.path] # Root
               PROVE  [path |-> Parent[e.path], node |-> Dir] \in Written
    BY DEF Written
  <2>1. [path |-> Parent[e.path], node |-> Dir] \notin build.entries
    <3>1. Rank[Parent[e.path]] < Rank[e.path] /\ Parent[e.path] \in Path
      BY <1>4, ArchiveFacts DEF Member
    <3> QED
      BY <3>1, <1>4, ArchiveFacts DEF NextEntry
  <2> QED
    BY <2>1 DEF WriteInv, Below
<1>7. PayloadInv' /\ EntriesInv'
  BY <1>1 DEF PayloadInv, EntriesInv, IsTree, Above, Reading
<1>8. \A j \in 1..(n+1) :
         /\ out'.members[j].node \in seen[out'.members[j].path]
         /\ \A f \in build.entries \ {e} : Rank[out'.members[j].path] < Rank[f.path]
         /\ \A i \in 1..(n+1) :
              i < j => Rank[out'.members[i].path] < Rank[out'.members[j].path]
         /\ Parent[out'.members[j].path] = Root
              \/ \E i \in 1..(n+1) : i < j /\
                   out'.members[i] = [path |-> Parent[out'.members[j].path], node |-> Dir]
  <2> SUFFICES ASSUME NEW j \in 1..(n+1)
               PROVE
         /\ out'.members[j].node \in seen[out'.members[j].path]
         /\ \A f \in build.entries \ {e} : Rank[out'.members[j].path] < Rank[f.path]
         /\ \A i \in 1..(n+1) :
              i < j => Rank[out'.members[i].path] < Rank[out'.members[j].path]
         /\ Parent[out'.members[j].path] = Root
              \/ \E i \in 1..(n+1) : i < j /\
                   out'.members[i] = [path |-> Parent[out'.members[j].path], node |-> Dir]
    OBVIOUS
  <2>1. CASE j \in 1..n
    <3>1. \A i \in 1..(n+1) : i < j => i \in 1..n
      BY <1>2, <2>1
    <3>2. \A i \in 1..n : i \in 1..(n+1)
      BY <1>2
    <3> HIDE DEF new, m
    <3> QED
      BY <3>1, <3>2, <2>1, <1>2 DEF WriteInv, m
  <2>2. CASE j = n + 1
    <3>1. \A i \in 1..(n+1) : i < j => i \in 1..n
      BY <1>2, <2>2
    <3>2. \A i \in 1..n : i \in 1..(n+1) /\ i < j
      BY <1>2, <2>2
    <3>3. out'.members[j].path = e.path /\ out'.members[j].node = node
      BY <1>2, <2>2
    <3>4. \A i \in 1..n : Rank[m[i].path] < Rank[e.path]
      BY DEF WriteInv
    <3> HIDE DEF new, m
    <3> QED
      BY <3>1, <3>2, <3>3, <3>4, <2>2, <1>2, <1>5, <1>6
  <2> QED
    BY SMTT(30), <2>1, <2>2, <1>2
<1>9. \A f \in build.entries \ {e} : Below(f.path, (build.entries \ {e}) \cup Written \cup {new})
  <2> SUFFICES ASSUME NEW f \in build.entries \ {e}, Parent[f.path] # Root
               PROVE  [path |-> Parent[f.path], node |-> Dir]
                        \in (build.entries \ {e}) \cup Written \cup {new}
    BY DEF Below
  <2>1. [path |-> Parent[f.path], node |-> Dir] \in build.entries \cup Written
    BY DEF WriteInv, Below
  <2>2. CASE e = [path |-> Parent[f.path], node |-> Dir]
    BY <2>2
  <2> QED
    BY <2>1, <2>2
<1>10. \A x \in Path : None \notin seen[x] =>
          x \in Paths((build.entries \ {e}) \cup Written \cup {new})
  <2> SUFFICES ASSUME NEW x \in Path, None \notin seen[x]
               PROVE  \E f \in (build.entries \ {e}) \cup Written \cup {new} : x = f.path
    BY DEF Paths
  <2>1. PICK f \in build.entries \cup Written : x = f.path
    <3>1. x \in Paths(build.entries \cup Written)
      BY DEF WriteInv
    <3> QED
      BY <3>1 DEF Paths
  <2>2. CASE f = e
    <3>1. x = new.path
      BY <2>1, <2>2
    <3> QED
      BY <3>1
  <2>3. CASE f # e
    BY <2>1, <2>3
  <2> QED
    BY <2>2, <2>3
<1>11. WriteInv'
  <2>1. ~out'.whole
    BY <1>1 DEF WriteInv
  <2>2. build'.entries \cup Written' = (build.entries \ {e}) \cup Written \cup {new}
    BY <1>1, <1>3
  <2>3. \A f \in build'.entries : Below(f.path, build'.entries \cup Written')
    BY <2>2, <1>1, <1>9
  <2>4. \A x \in Path : None \notin seen'[x] => x \in Paths(build'.entries \cup Written')
    BY <2>2, <1>10
  <2> HIDE DEF new, m, n
  <2> QED
    BY <2>1, <2>3, <2>4, <1>1, <1>2, <1>8 DEF WriteInv, Below, Paths
<1> QED
  BY <1>1, <1>7, <1>11 DEF BuildInv

\* The payload is a tree, and its readings are recorded, when it is edited.
LEMMA EditStep ==
  ASSUME TypeOK, BuildInv, Edit
  PROVE  BuildInv'
<1>1. /\ payload' \in [Path -> Node] /\ IsTree(payload')
      /\ \A x \in Path : seen'[x] = seen[x] \cup Reading'[x]
      /\ out' = out /\ build' = build /\ PayloadInv
  BY DEF Edit, TypeOK, BuildInv
<1>2. PayloadInv'
  <2>1. \A x \in Path : Reading'[x] \subseteq seen'[x]
    BY <1>1
  <2>2. ASSUME NEW x \in Path, None \notin seen'[x], Parent[x] # Root
        PROVE  seen'[Parent[x]] \subseteq {Dir}
    <3>1. Parent[x] \in Path /\ None \notin seen[x] /\ None \notin Reading'[x]
      BY <1>1, <2>2, ArchiveFacts
    <3>2. payload'[x] # None
      BY <3>1 DEF Reading
    <3>3. payload'[Parent[x]] = Dir
      BY <1>1, <2>2, <3>2 DEF IsTree, Above
    <3>4. Reading'[Parent[x]] = {Dir}
      BY <3>1, <3>3, ArchiveFacts DEF Reading, Through
    <3>5. seen[Parent[x]] \subseteq {Dir}
      BY <1>1, <2>2, <3>1 DEF PayloadInv
    <3> QED
      BY <1>1, <3>1, <3>4, <3>5
  <2>3. IsTree(payload)'
    BY <1>1 DEF IsTree, Above
  <2> QED
    BY <2>1, <2>2, <2>3 DEF PayloadInv
<1>3. \A x \in Path : seen[x] \subseteq seen'[x]
  BY <1>1
<1>4. \A e \in build.entries : e.path \in Path
  BY DEF TypeOK, Build, Member
<1>5. EntriesInv => EntriesInv'
  BY <1>1, <1>3, <1>4 DEF EntriesInv
<1>6. CollectInv => CollectInv'
  BY <1>1, <1>3 DEF CollectInv, Paths, Below
<1>7. WriteInv => WriteInv'
  BY SMTT(30), <1>1, <1>3, Members DEF WriteInv, Paths, Below, Written
<1> QED
  BY <1>1, <1>2, <1>5, <1>6, <1>7 DEF BuildInv, NextEntry

\* A path that is looked at is found, and its children are to look at.
LEMMA CollectStep ==
  ASSUME TypeOK, PayloadInv, EntriesInv, CollectInv, NEW x \in build.todo, payload[x] # None,
         build' = [build EXCEPT
           !.todo = (@ \ {x}) \cup IF payload[x] = Dir THEN Children(x) ELSE {},
           !.entries = @ \cup {[path |-> x, node |-> payload[x]]}],
         UNCHANGED <<payload, seen>>
  PROVE  EntriesInv' /\ CollectInv' /\ PayloadInv' /\ build'.pc = build.pc
<1> DEFINE new == [path |-> x, node |-> payload[x]]
           more == IF payload[x] = Dir THEN Children(x) ELSE {}
<1>1. /\ build'.entries = build.entries \cup {new} /\ build'.pc = build.pc
      /\ build'.todo = (build.todo \ {x}) \cup more
  BY DEF TypeOK, Build
<1>2. x \in Path /\ x \notin Paths(build.entries) /\ Parent[x] # x
  <2>1. x \in Path
    BY DEF TypeOK, Build
  <2> QED
    BY <2>1, ArchiveFacts DEF CollectInv
<1>3. \A y \in more : y \in Path /\ Parent[y] = x /\ payload[x] = Dir
  BY DEF Children
<1>4. Paths(build'.entries) = Paths(build.entries) \cup {x}
  <2>1. new.path = x
    OBVIOUS
  <2> HIDE DEF new
  <2>2. {e.path : e \in build.entries \cup {new}} = {e.path : e \in build.entries} \cup {x}
    BY <2>1
  <2> QED
    BY <2>2, <1>1 DEF Paths
<1>5. \A y \in Path : Parent[y] = x => ~Below(y, build.entries)
  <2>1. [path |-> x, node |-> Dir] \notin build.entries
    BY <1>2 DEF Paths
  <2> QED
    BY <2>1, <1>2, ArchiveFacts DEF Below
<1>6. \A y \in Path : Below(y, build'.entries) <=>
        Below(y, build.entries) \/ (Parent[y] = x /\ payload[x] = Dir)
  BY <1>1, <1>2, ArchiveFacts DEF Below
<1>7. \A y \in more : y \notin Paths(build.entries) \cup {x}
  BY <1>2, <1>3, <1>5 DEF CollectInv
<1>8. EntriesInv'
  <2>1. new.node \in seen[x]
    BY <1>2, WhatIsRead
  <2> QED
    BY <2>1, <1>1, <1>2 DEF EntriesInv, Paths
<1>9. CollectInv'
  <2>1. build'.todo \cap Paths(build'.entries) = {}
    BY <1>1, <1>4, <1>7 DEF CollectInv
  <2>2. \A y \in build'.todo \cup Paths(build'.entries) : Below(y, build'.entries)
    <3>1. \A e \in build.entries : e.path \in Path
      BY DEF TypeOK, Build, Member
    <3>2. build.todo \subseteq Path /\ Paths(build.entries) \subseteq Path
      BY <3>1 DEF TypeOK, Build, Paths
    <3> HIDE DEF more, new
    <3> QED
      BY <3>2, <1>1, <1>2, <1>3, <1>4, <1>6 DEF CollectInv
  <2>3. ASSUME NEW y \in Path, None \notin seen[y], Below(y, build'.entries)
        PROVE  y \in build'.todo \cup Paths(build'.entries)
    <3>1. CASE Below(y, build.entries)
      BY <3>1, <2>3, <1>1, <1>4 DEF CollectInv
    <3>2. CASE Parent[y] = x /\ payload[x] = Dir
      BY <3>2, <2>3, <1>1, WhatIsRead DEF Children
    <3> QED
      BY <3>1, <3>2, <2>3, <1>6
  <2> QED
    BY <2>1, <2>2, <2>3 DEF CollectInv, Below
<1> QED
  BY <1>1, <1>8, <1>9 DEF PayloadInv, IsTree, Above, Reading

\* The invariant of the builder holds.
LEMMA BuildInvInit == Init => BuildInv
BY DEF Init, BuildInv, NoBuild

LEMMA BuildInvStep == TypeOK /\ BuildInv /\ [Next]_vars => BuildInv'
<1> SUFFICES ASSUME TypeOK, BuildInv, [Next]_vars PROVE BuildInv'
  OBVIOUS
<1>1. ASSUME EndBuild PROVE BuildInv'
  BY <1>1 DEF EndBuild, NoBuild, BuildInv
<1>2. ASSUME Abandon, UNCHANGED <<payload, seen>>, build.pc # "idle" PROVE BuildInv'
  <2>1. build'.pc = "drop"
    BY <1>2 DEF Abandon, TypeOK, Build
  <2>2. PayloadInv'
    BY <1>2 DEF BuildInv, PayloadInv, IsTree, Above, Reading
  <2> QED
    BY <2>1, <2>2 DEF BuildInv
<1>3. CASE StartBuild
  <2>1. /\ payload' \in [Path -> Node] /\ IsTree(payload')
        /\ build'.pc = "collect" /\ build'.entries = {} /\ build'.todo = Children(Root)'
        /\ seen' = Reading'
    BY <1>3 DEF StartBuild, NoBuild
  <2>2. PayloadInv'
    <3>1. ASSUME NEW x \in Path, None \notin seen'[x], Parent[x] # Root
          PROVE  seen'[Parent[x]] \subseteq {Dir}
      <4>1. payload'[x] # None /\ Parent[x] \in Path
        BY <2>1, <3>1, ArchiveFacts DEF Reading
      <4>2. payload'[Parent[x]] = Dir
        BY <4>1, <2>1, <3>1 DEF IsTree, Above
      <4> QED
        BY <4>1, <4>2, <2>1, ArchiveFacts DEF Reading, Through
    <3>2. IsTree(payload)'
      BY <2>1 DEF IsTree, Above
    <3> QED
      BY <3>1, <3>2, <2>1 DEF PayloadInv
  <2>3. EntriesInv'
    BY <2>1 DEF EntriesInv
  <2>4. CollectInv'
    <3>1. Paths(build'.entries) = {} /\ \A y \in build'.todo : Parent[y] = Root
      BY <2>1 DEF Paths, Children
    <3>2. ASSUME NEW y \in Path, None \notin seen'[y], Below(y, build'.entries)
          PROVE  y \in build'.todo
      <4>1. Parent[y] = Root /\ payload'[y] # None
        BY <3>2, <2>1 DEF Below, Reading
      <4> QED
        BY <4>1, <2>1 DEF Children
    <3> QED
      BY <3>1, <3>2 DEF CollectInv, Below, Paths
  <2> QED
    BY <2>1, <2>2, <2>3, <2>4 DEF BuildInv
<1>4. CASE Collect
  <2>1. PICK x \in build.todo :
           \/ payload[x] = None /\ EndBuild
           \/ /\ payload[x] # None
              /\ build' = [build EXCEPT
                   !.todo = (@ \ {x}) \cup IF payload[x] = Dir THEN Children(x) ELSE {},
                   !.entries = @ \cup {[path |-> x, node |-> payload[x]]}]
              /\ UNCHANGED <<payload, seen>>
    BY <1>4 DEF Collect
  <2>2. PayloadInv /\ EntriesInv /\ CollectInv /\ build.pc = "collect"
    BY <1>4 DEF Collect, BuildInv
  <2>3. CASE EndBuild
    BY <2>3, <1>1
  <2>4. CASE ~EndBuild
    <3>1. EntriesInv' /\ CollectInv' /\ PayloadInv' /\ build'.pc = build.pc
      BY <2>1, <2>2, <2>4, CollectStep
    <3> QED
      BY <3>1, <2>2 DEF BuildInv
  <2> QED
    BY <2>3, <2>4
<1>5. CASE OpenOutput
  <2>1. /\ out' = NoArchive /\ build'.pc = "write" /\ build'.entries = build.entries
        /\ PayloadInv /\ EntriesInv /\ CollectInv /\ build.todo = {}
        /\ UNCHANGED <<payload, seen>>
    BY <1>5 DEF OpenOutput, BuildInv, TypeOK, Build
  <2>2. Len(out'.members) = 0 /\ ~out'.whole
    BY <2>1 DEF NoArchive
  <2>3. PayloadInv' /\ EntriesInv'
    BY <2>1 DEF PayloadInv, EntriesInv, IsTree, Above, Reading
  <2>4. WriteInv'
    <3>1. \A x \in Path : None \notin seen[x] => x \in Paths(build.entries)
      BY <2>1, AllFound
    <3>2. \A e \in build.entries : Below(e.path, build.entries)
      BY <2>1 DEF CollectInv, Paths
    <3> QED
      BY <3>1, <3>2, <2>1, <2>2 DEF WriteInv, Below, Paths
  <2> QED
    BY <2>1, <2>3, <2>4 DEF BuildInv
<1>6. CASE WriteEntry
  <2>1. PICK e \in build.entries :
           /\ NextEntry(e)
           /\ \/ Abandon
              \/ e.node \notin Content /\ Write(e, e.node)
              \/ /\ e.node \in Content
                 /\ build' = [build EXCEPT !.pc = "copy", !.size = Size[payload[e.path]]]
                 /\ UNCHANGED out
    BY <1>6 DEF WriteEntry
  <2>2. PayloadInv /\ EntriesInv /\ WriteInv /\ build.pc = "write" /\ UNCHANGED <<payload, seen>>
    BY <1>6 DEF WriteEntry, BuildInv
  <2>3. CASE Abandon
    BY <2>2, <2>3, <1>2
  <2>4. CASE Write(e, e.node)
    <3>1. e.node \in Node \ {None} /\ e.node \in seen[e.path]
      BY <2>2 DEF TypeOK, Build, Member, EntriesInv
    <3> QED
      BY <3>1, <2>1, <2>2, <2>4, WriteStep
  <2>5. CASE ~Abandon /\ ~Write(e, e.node)
    <3>1. build'.pc = "copy" /\ build'.entries = build.entries /\ out' = out /\ e.node \in Content
      BY <2>1, <2>5 DEF TypeOK, Build
    <3>2. PayloadInv' /\ EntriesInv'
      BY <3>1, <2>2 DEF PayloadInv, EntriesInv, IsTree, Above, Reading
    <3>3. WriteInv'
      BY <3>1, <2>2 DEF WriteInv, Below, Paths, Written
    <3>4. \A f \in build.entries : NextEntry(f) => f = e
      <4> SUFFICES ASSUME NEW f \in build.entries, NextEntry(f) PROVE f = e
        OBVIOUS
      <4>1. e.path \in Path /\ f.path \in Path
        BY DEF TypeOK, Build, Member
      <4>2. Rank[e.path] = Rank[f.path]
        BY <4>1, <2>1, ArchiveFacts DEF NextEntry
      <4> QED
        BY <4>1, <4>2, <2>2, ArchiveFacts DEF EntriesInv
    <3> QED
      BY <3>1, <3>2, <3>3, <3>4 DEF BuildInv, NextEntry
  <2> QED
    BY <2>3, <2>4, <2>5
<1>7. CASE CopyFile
  <2>1. PICK e \in build.entries :
           /\ NextEntry(e)
           /\ \/ Through(payload[e.path]) \in Content /\ Write(e, Through(payload[e.path]))
              \/ Abandon
    BY <1>7 DEF CopyFile
  <2>2. /\ PayloadInv /\ EntriesInv /\ WriteInv /\ build.pc = "copy" /\ UNCHANGED <<payload, seen>>
        /\ e.node \in Content
    BY <1>7, <2>1 DEF CopyFile, BuildInv
  <2>3. CASE Abandon
    BY <2>2, <2>3, <1>2
  <2>4. CASE Through(payload[e.path]) \in Content /\ Write(e, Through(payload[e.path]))
    <3>1. e.path \in Path
      BY DEF TypeOK, Build, Member
    <3>2. /\ Through(payload[e.path]) \in Node \ {None} /\ e.node # Dir
          /\ Through(payload[e.path]) \in seen[e.path]
      BY <3>1, <2>2, <2>4, WhatIsRead, ArchiveFacts DEF Node
    <3> QED
      BY <3>2, <2>1, <2>2, <2>4, WriteStep
  <2> QED
    BY <2>1, <2>3, <2>4
<1>8. CASE WriteEnd \/ Drop
  BY <1>8, <1>1 DEF WriteEnd, Drop
<1>9. CASE BuildFault
  BY <1>9, <1>1, <1>2 DEF BuildFault
<1>10. CASE Edit
  BY <1>10, EditStep
<1>11. CASE UNCHANGED building \/ UNCHANGED vars
  <2>1. UNCHANGED <<payload, out, build, seen>>
    BY <1>11 DEF building, vars
  <2>2. PayloadInv' = PayloadInv /\ EntriesInv' = EntriesInv
    BY <2>1 DEF PayloadInv, EntriesInv, IsTree, Above, Reading
  <2>3. CollectInv' = CollectInv
    BY <2>1 DEF CollectInv, Paths, Below
  <2>4. WriteInv' = WriteInv
    BY <2>1 DEF WriteInv, Paths, Below, Written
  <2> QED
    BY <2>1, <2>2, <2>3, <2>4 DEF BuildInv, NextEntry
<1> QED
  BY <1>3, <1>4, <1>5, <1>6, <1>7, <1>8, <1>9, <1>10, <1>11 DEF Next, Builder

\* What pux validates was built to the end, by one build, whatever was edited, failed or
\* was killed meanwhile: every member was read in it and comes after its directory, and
\* nothing that was there throughout is missing (pux_package_build).
THEOREM ArchivesAreTrue == Spec => ValidIsBuilt
<1> DEFINE Built ==
      out'.whole /\ out' # out => LET m == out'.members IN
        /\ \A j \in DOMAIN m :
             /\ m[j].node \in seen[m[j].path]
             /\ \A i \in DOMAIN m : i < j => Rank[m[i].path] < Rank[m[j].path]
             /\ Parent[m[j].path] = Root
                  \/ \E i \in DOMAIN m : i < j /\ m[i] = [path |-> Parent[m[j].path], node |-> Dir]
        /\ \A x \in Path : None \notin seen[x] => \E i \in DOMAIN m : m[i].path = x
<1>1. TypeOK /\ BuildInv /\ [Next]_vars => [Built]_vars
  <2> SUFFICES ASSUME TypeOK, BuildInv, Next, out'.whole, out' # out PROVE Built
    BY DEF vars
  <2>1. WriteEnd
    <3>1. ASSUME NEW e \in build.entries, NEW node, Write(e, node), build.pc \in {"write", "copy"}
          PROVE  FALSE
      BY <3>1 DEF Write, BuildInv, WriteInv, TypeOK
    <3>2. ~WriteEntry /\ ~CopyFile
      BY <3>1 DEF WriteEntry, CopyFile, Abandon
    <3>3. ~StartBuild
      BY DEF StartBuild
    <3>4. ~Collect
      BY DEF Collect
    <3>5. ~BuildFault /\ ~Edit
      BY DEF BuildFault, Abandon, Edit
    <3>6. ~OpenOutput /\ ~Drop
      BY DEF OpenOutput, Drop, NoArchive
    <3>7. ~UNCHANGED building
      BY DEF building
    <3> QED
      BY <3>2, <3>3, <3>4, <3>5, <3>6, <3>7 DEF Next, Builder
  <2>2. /\ WriteInv /\ build.entries = {}
        /\ out'.members = out.members
    BY <2>1 DEF WriteEnd, BuildInv, TypeOK
  <2>3. DOMAIN out.members = 1..Len(out.members)
    BY Members
  <2>4. \A x \in Path : None \notin seen[x] => \E i \in 1..Len(out.members) : out.members[i].path = x
    BY <2>2 DEF WriteInv, Paths, Written
  <2> QED
    BY SMTT(30), <2>2, <2>3, <2>4 DEF WriteInv
<1>2. Spec => []BuildInv
  <2>1. TypeOK /\ BuildInv /\ [Next]_vars => BuildInv'
    BY BuildInvStep
  <2> QED
    BY <2>1, BuildInvInit, ArchiveTypes, PTL DEF Spec
<1> QED
  BY <1>1, <1>2, ArchiveTypes, PTL DEF Spec, ValidIsBuilt

-----------------------------------------------------------------------------
\* Types, and InstalledWasIndexed

\* The constants, as the proofs use them.
LEMMA CacheFacts ==
  /\ Wanted \in File /\ First \in [File -> Package]
  /\ \A c \in Package : Age[c] \in Nat /\ PlanOf[c] \in Seq(File) /\ c \notin {Broken, Nothing}
  /\ \A b, c \in Package : Age[b] = Age[c] => b = c
  /\ \A c \in Package : \A i \in 1..Len(PlanOf[c]) : PlanOf[c][i] = Wanted => i = Len(PlanOf[c])
  /\ Broken # Nothing
  /\ MaxPublish \in Nat /\ MaxFetch \in Nat /\ MaxBegin \in Nat /\ MaxFaults \in Nat
<1>1. \A c \in Package : PlanOf[c] \in Seq(File)
  BY CacheConstants DEF CacheConstantsOK
<1>2. \A c \in Package : DOMAIN PlanOf[c] = 1..Len(PlanOf[c])
  BY <1>1, LenProperties
<1> QED
  BY <1>1, <1>2, CacheConstants DEF CacheConstantsOK

\* What has been in place, downloaded or installed was in an index: a command's download
\* from the moment at which it has been checked.
FilesInv ==
  /\ offer \in [File -> Package]
  /\ \A k \in Update : updates[k].pc \in {"fetched", "moved"} => updates[k].got \in [File -> Package]
  /\ \A k \in Update : updates[k].aside # NoIndex =>
       updates[k].aside \in [File -> Package] /\ \A f \in File : updates[k].aside[f] \in indexed[f]
  /\ index # NoIndex => index \in [File -> Package] /\ \A f \in File : index[f] \in indexed[f]
  /\ \A f \in File : cached[f] # Nothing => cached[f] \in indexed[f]
  /\ \A p \in Command : getting[p].pc \in {"check", "rename"} =>
       getting[p].pos <= Len(getting[p].plan)
  /\ \A p \in Command : getting[p].pc = "rename" => getting[p].temp \in indexed[Planned(p)]
  /\ InstalledWasIndexed

LEMMA PlannedIsFile ==
  ASSUME CacheTypeOK, NEW p \in Command, getting[p].pos <= Len(getting[p].plan)
  PROVE  Planned(p) \in File
<1>1. getting[p] \in Getting
  BY DEF CacheTypeOK
<1>2. getting[p].plan \in Seq(File) /\ Len(getting[p].plan) \in Nat
      /\ getting[p].pos \in 1..Len(getting[p].plan)
  BY <1>1, LenProperties DEF Getting
<1> QED
  BY <1>2, ElementOfSeq DEF Planned

LEMMA PlansAreLists == \A plan \in Plans : plan \in Seq(File)
BY CacheFacts DEF Plans

\* What fits the index has been indexed.
LEMMA FitsWasIndexed ==
  ASSUME FilesInv, NEW f \in File, NEW c, Fits(f, c)
  PROVE  index # NoIndex /\ c \in indexed[f]
<1>1. index # NoIndex
  BY DEF Fits, NoIndex
<1> QED
  BY <1>1 DEF Fits, FilesInv

\* How the steps of a command change what it is doing.
Pcs == {"idle", "resolve", "download", "check", "rename", "verify", "install", "done"}
LEMMA GettingTypes ==
  ASSUME NEW g \in Getting
  PROVE  /\ \A pc \in Pcs : [g EXCEPT !.pc = pc] \in Getting
         /\ \A pc \in Pcs : [g EXCEPT !.pos = @ + 1, !.pc = pc] \in Getting
         /\ \A pc \in Pcs : \A plan \in Seq(File) : [g EXCEPT !.pc = pc, !.plan = plan] \in Getting
         /\ \A pc \in Pcs : \A plan \in Seq(File) :
              [g EXCEPT !.pc = pc, !.plan = plan, !.pos = 1] \in Getting
         /\ \A pc \in Pcs : [g EXCEPT !.pc = pc, !.pos = 1] \in Getting
         /\ \A pc \in Pcs : \A c \in Package : [g EXCEPT !.temp = c, !.pc = pc] \in Getting
         /\ \A pc \in Pcs : [g EXCEPT !.temp = Nothing, !.pos = @ + 1, !.pc = pc] \in Getting
         /\ \A pc \in Pcs : \A t \in SUBSET File :
              [g EXCEPT !.pos = @ + 1, !.pc = pc, !.took = @ \cup t] \in Getting
         /\ [g EXCEPT !.temp = Broken] \in Getting
         /\ NotGetting \in Getting
<1>1. <<>> \in Seq(File)
  BY EmptySeq
<1>2. g.pos + 1 \in Nat \ {0}
  BY DEF Getting
<1>3. \A t \in SUBSET File : g.took \cup t \in SUBSET File
  BY DEF Getting
<1>a. \A h \in Getting : [h EXCEPT !.pos = 1] \in Getting
  BY SMTT(30) DEF Getting
<1>4. \A pc \in Pcs : [g EXCEPT !.pc = pc] \in Getting
  BY <1>1, <1>2, <1>3 DEF Getting, NotGetting, Pcs
<1>5. \A pc \in Pcs : [g EXCEPT !.pos = @ + 1, !.pc = pc] \in Getting
  BY <1>1, <1>2, <1>3 DEF Getting, NotGetting, Pcs
<1>6. \A pc \in Pcs : \A plan \in Seq(File) : [g EXCEPT !.pc = pc, !.plan = plan] \in Getting
  BY <1>1, <1>2, <1>3 DEF Getting, NotGetting, Pcs
<1>7. \A pc \in Pcs : \A plan \in Seq(File) : [g EXCEPT !.pc = pc, !.plan = plan, !.pos = 1] \in Getting
  BY <1>a, <1>6, <1>4
<1>8. \A pc \in Pcs : [g EXCEPT !.pc = pc, !.pos = 1] \in Getting
  BY <1>a, <1>6, <1>4
<1>9. \A pc \in Pcs : \A c \in Package : [g EXCEPT !.temp = c, !.pc = pc] \in Getting
  BY <1>1, <1>2, <1>3 DEF Getting, NotGetting, Pcs
<1>10. \A pc \in Pcs : [g EXCEPT !.temp = Nothing, !.pos = @ + 1, !.pc = pc] \in Getting
  BY <1>1, <1>2, <1>3 DEF Getting, NotGetting, Pcs
<1>11. \A pc \in Pcs : \A t \in SUBSET File : [g EXCEPT !.pos = @ + 1, !.pc = pc, !.took = @ \cup t] \in Getting
  BY <1>1, <1>2, <1>3 DEF Getting, NotGetting, Pcs
<1>12. [g EXCEPT !.temp = Broken] \in Getting
  BY <1>1, <1>2, <1>3 DEF Getting, NotGetting, Pcs
<1>13. NotGetting \in Getting
  BY <1>1, <1>2, <1>3 DEF Getting, NotGetting, Pcs
<1> QED
  BY <1>4, <1>5, <1>6, <1>7, <1>8, <1>9, <1>10, <1>11, <1>12, <1>13

\* A step of a command changes only what that command is doing.
LEMMA OneMoves ==
  ASSUME CacheTypeOK, NEW p \in Command, NEW s \in Getting, getting' = [getting EXCEPT ![p] = s]
  PROVE  /\ getting' \in [Command -> Getting] /\ getting'[p] = s
         /\ \A q \in Command : q # p => getting'[q] = getting[q]
BY DEF CacheTypeOK

\* What a command goes on to: either it ends, or it does what follows.
LEMMA Moves ==
  ASSUME CacheTypeOK, FilesInv, NEW p \in Command, Installer(p)
  PROVE  \E s \in Getting : getting' = [getting EXCEPT ![p] = s]
<1> DEFINE g == getting[p]
           Moved == \E s \in Getting : getting' = [getting EXCEPT ![p] = s]
<1>1. g \in Getting
  BY DEF CacheTypeOK
<1>2. CASE Begin(p)
  <2>a. \A h \in Getting : \A job \in {"install", "upgrade"} :
           [h EXCEPT !.pc = "resolve", !.job = job] \in Getting
    BY DEF Getting
  <2>1. \A job \in {"install", "upgrade"} :
           [NotGetting EXCEPT !.pc = "resolve", !.job = job] \in Getting
    BY <2>a, <1>1, GettingTypes
  <2> QED
    BY <2>1, <1>2 DEF Begin
<1>3. CASE Stop(p)
  BY <1>1, <1>3, GettingTypes DEF Stop
<1>4. CASE Resolve(p) \/ ResolveAgain(p)
  BY <1>1, <1>3, <1>4, GettingTypes, PlansAreLists DEF Resolve, ResolveAgain, Set, Pcs
<1>5. CASE Download(p)
  <2>1. Planned(p) \in File
    BY <1>5, PlannedIsFile DEF Download
  <2>2. server[Planned(p)] \in Package
    BY <2>1 DEF CacheTypeOK
  <2> QED
    BY <2>2, <1>1, <1>5, GettingTypes DEF Download, Set, GoOnTo, Pcs
<1>6. CASE Check(p) \/ Verify(p) \/ Done(p)
  BY <1>1, <1>3, <1>6, GettingTypes DEF Check, Verify, Done, Set, GoTo, GoOnTo, Pcs
<1>7. CASE Rename(p) \/ AllVerified(p)
  BY <1>1, <1>7, GettingTypes DEF Rename, AllVerified, Set, Pcs
<1>8. CASE Install(p)
  <2>1. Planned(p) \in File
    BY <1>8, PlannedIsFile DEF Install
  <2>2. PICK t \in SUBSET File :
           \/ Set(p, [g EXCEPT !.pos = @ + 1, !.pc = After(p), !.took = @ \cup t])
           \/ Stop(p)
    BY <2>1, <1>8 DEF Install
  <2>3. After(p) \in Pcs
    BY DEF After, Pcs
  <2> QED
    BY <2>2, <2>3, <1>1, <1>3, GettingTypes DEF Set
<1>9. CASE Report(p) \/ Fault(p)
  BY <1>3, <1>9 DEF Report, Fault
<1>10. CASE BadDownload(p)
  BY <1>1, <1>10, GettingTypes DEF BadDownload, CacheTypeOK
<1> QED
  BY <1>2, <1>4, <1>5, <1>6, <1>7, <1>8, <1>9, <1>10 DEF Installer, Work

\* In a step that does not end it, a command goes on as follows; nobody else moves.
Moved(p, pc, pos, plan, temp, took) ==
  /\ getting'[p].pc = pc /\ getting'[p].job = getting[p].job
  /\ getting'[p].pos = pos /\ getting'[p].plan = plan
  /\ getting'[p].temp = temp /\ getting'[p].took = took
  /\ UNCHANGED watch

LEMMA WorkMoves ==
  ASSUME CacheTypeOK, NEW p \in Command
  PROVE  LET g == getting[p] IN
    /\ Resolve(p) =>
         Stop(p) \/ \E plan \in Plans : Moved(p, "download", g.pos, plan, g.temp, g.took)
    /\ Download(p) =>
         \/ /\ Fits(Planned(p), cached[Planned(p)])
            /\ Moved(p, "download", g.pos + 1, g.plan, g.temp, g.took)
         \/ Moved(p, "check", g.pos, g.plan, server[Planned(p)], g.took)
    /\ Check(p) =>
         \/ ~Fits(Planned(p), g.temp) /\ Stop(p)
         \/ Fits(Planned(p), g.temp) /\ Moved(p, "rename", g.pos, g.plan, g.temp, g.took)
    /\ Rename(p) => Moved(p, "download", g.pos + 1, g.plan, Nothing, g.took)
    /\ ResolveAgain(p) =>
         Stop(p) \/ \E plan \in Plans : Moved(p, "verify", 1, plan, g.temp, g.took)
    /\ Verify(p) =>
         \/ /\ Fits(Planned(p), cached[Planned(p)])
            /\ \/ g.job = "upgrade" /\ Moved(p, "install", g.pos, g.plan, g.temp, g.took)
               \/ g.job = "install" /\ Moved(p, "verify", g.pos + 1, g.plan, g.temp, g.took)
         \/ Stop(p)
    /\ AllVerified(p) => Moved(p, "install", 1, g.plan, g.temp, g.took)
    /\ Install(p) =>
         \/ \E t \in SUBSET {Planned(p)} :
               /\ Moved(p, After(p), g.pos + 1, g.plan, g.temp, g.took \cup t)
               /\ t # {} => installed'[Planned(p)] = cached[Planned(p)]
         \/ Stop(p)
    /\ Done(p) => Moved(p, "done", g.pos, g.plan, g.temp, g.took)
    /\ Report(p) => Stop(p)
<1> DEFINE g == getting[p]
<1>1. getting \in [Command -> Getting]
  BY DEF CacheTypeOK
<1>2. Resolve(p) =>
        Stop(p) \/ \E plan \in Plans : Moved(p, "download", g.pos, plan, g.temp, g.took)
  BY ZenonT(60), <1>1 DEF Set, Resolve, Moved, Getting
<1>3. Download(p) =>
        \/ /\ Fits(Planned(p), cached[Planned(p)])
           /\ Moved(p, "download", g.pos + 1, g.plan, g.temp, g.took)
        \/ Moved(p, "check", g.pos, g.plan, server[Planned(p)], g.took)
  <2>1. GoOnTo(p, "download") => Moved(p, "download", g.pos + 1, g.plan, g.temp, g.took)
    BY <1>1 DEF Set, GoOnTo, Moved, Getting
  <2>2. ASSUME NEW c, Set(p, [g EXCEPT !.temp = c, !.pc = "check"])
        PROVE  Moved(p, "check", g.pos, g.plan, c, g.took)
    BY <1>1, <2>2 DEF Set, Moved, Getting
  <2> QED
    BY <2>1, <2>2, Zenon DEF Download
<1>4. Check(p) =>
        \/ ~Fits(Planned(p), g.temp) /\ Stop(p)
        \/ Fits(Planned(p), g.temp) /\ Moved(p, "rename", g.pos, g.plan, g.temp, g.took)
  BY <1>1 DEF Set, Check, GoTo, Moved, Getting
<1>5. Rename(p) => Moved(p, "download", g.pos + 1, g.plan, Nothing, g.took)
  BY <1>1 DEF Set, Rename, Moved, Getting
<1>6. ResolveAgain(p) =>
        Stop(p) \/ \E plan \in Plans : Moved(p, "verify", 1, plan, g.temp, g.took)
  <2> SUFFICES ASSUME NEW plan, Set(p, [g EXCEPT !.pc = "verify", !.plan = plan, !.pos = 1])
               PROVE  Moved(p, "verify", 1, plan, g.temp, g.took)
    BY DEF ResolveAgain
  <2>1. getting'[p] = [g EXCEPT !.pc = "verify", !.plan = plan, !.pos = 1] /\ UNCHANGED watch
    BY <1>1 DEF Set
  <2> QED
    BY <2>1, <1>1 DEF Moved, Getting
<1>7. Verify(p) =>
        \/ /\ Fits(Planned(p), cached[Planned(p)])
           /\ \/ g.job = "upgrade" /\ Moved(p, "install", g.pos, g.plan, g.temp, g.took)
              \/ g.job = "install" /\ Moved(p, "verify", g.pos + 1, g.plan, g.temp, g.took)
        \/ Stop(p)
  <2>1. GoTo(p, "install") => Moved(p, "install", g.pos, g.plan, g.temp, g.took)
    BY <1>1 DEF Set, GoTo, Moved, Getting
  <2>2. GoOnTo(p, "verify") => Moved(p, "verify", g.pos + 1, g.plan, g.temp, g.took)
    BY <1>1 DEF Set, GoOnTo, Moved, Getting
  <2> QED
    BY <2>1, <2>2 DEF Verify
<1>8. AllVerified(p) => Moved(p, "install", 1, g.plan, g.temp, g.took)
  <2> SUFFICES ASSUME AllVerified(p)
               PROVE  Moved(p, "install", 1, g.plan, g.temp, g.took)
    OBVIOUS
  <2>1. getting'[p] = [g EXCEPT !.pc = "install", !.pos = 1] /\ UNCHANGED watch
    BY <1>1 DEF Set, AllVerified
  <2> QED
    BY <2>1, <1>1 DEF Moved, Getting
<1>9. Install(p) =>
        \/ \E t \in SUBSET {Planned(p)} :
              /\ Moved(p, After(p), g.pos + 1, g.plan, g.temp, g.took \cup t)
              /\ t # {} => installed'[Planned(p)] = cached[Planned(p)]
        \/ Stop(p)
  <2> SUFFICES ASSUME Install(p), ~Stop(p)
               PROVE  \E t \in SUBSET {Planned(p)} :
                        /\ Moved(p, After(p), g.pos + 1, g.plan, g.temp, g.took \cup t)
                        /\ t # {} => installed'[Planned(p)] = cached[Planned(p)]
    OBVIOUS
  <2> DEFINE t == IF UpToDate(p) /\ installed[Planned(p)] # cached[Planned(p)] THEN {}
                  ELSE {Planned(p)}
  <2>1. Set(p, [g EXCEPT !.pos = @ + 1, !.pc = After(p), !.took = @ \cup t])
    BY DEF Install
  <2>2. t \in SUBSET {Planned(p)}
    OBVIOUS
  <2>3. t # {} => installed'[Planned(p)] = cached[Planned(p)]
    <3>1. Planned(p) \in File
      BY PlannedIsFile DEF Install
    <3> QED
      BY <3>1 DEF Install, CacheTypeOK
  <2> HIDE DEF t
  <2>4. /\ getting'[p] = [g EXCEPT !.pos = @ + 1, !.pc = After(p), !.took = @ \cup t]
        /\ UNCHANGED watch
    BY <1>1, <2>1 DEF Set
  <2>5. Moved(p, After(p), g.pos + 1, g.plan, g.temp, g.took \cup t)
    BY <1>1, <2>4 DEF Moved, Getting
  <2> QED
    BY <2>2, <2>3, <2>5
<1>10. Done(p) => Moved(p, "done", g.pos, g.plan, g.temp, g.took)
  BY <1>1 DEF Set, Done, GoTo, Moved, Getting
<1>11. Report(p) => Stop(p)
  BY DEF Report
<1> QED
  BY <1>2, <1>3, <1>4, <1>5, <1>6, <1>7, <1>8, <1>9, <1>10, <1>11

\* What an update does to the index, and what the running commands see of it: nothing, or
\* it goes, or a whole index is put in place.
Left == UNCHANGED <<index, indexed, watch>>
Gone == index' = NoIndex /\ watch' = Disturbed /\ UNCHANGED indexed
Placed ==
  /\ index' \in [File -> Package] /\ watch' = SeenBy(index')
  /\ indexed' \in [File -> SUBSET Package]
  /\ \A f \in File : indexed[f] \subseteq indexed'[f] /\ index'[f] \in indexed'[f]

\* An updating command that holds an index holds a whole one, and what it has moved aside
\* was in place.
HoldsWhole(k) ==
  /\ updates[k].pc \in {"fetched", "moved"} => updates[k].got \in [File -> Package]
  /\ updates[k].aside # NoIndex =>
       updates[k].aside \in [File -> Package] /\ \A f \in File : updates[k].aside[f] \in indexed[f]

LEMMA UpdaterIs ==
  ASSUME CacheTypeOK, FilesInv, NEW k \in Update, Updater(k)
  PROVE  /\ Left \/ Gone \/ Placed
         /\ updates' \in [Update -> Updating]
         /\ \A j \in Update : j # k => updates'[j] = updates[j]
         /\ HoldsWhole(k)'
         /\ fetched' \in 0..MaxFetch /\ lost' \in 0..MaxFaults
<1> DEFINE d == updates[k]
           Holding(state) ==
             /\ state \in Updating
             /\ state.pc \in {"fetched", "moved"} => state.got \in [File -> Package]
             /\ state.aside # NoIndex =>
                  state.aside \in [File -> Package] /\ \A f \in File : state.aside[f] \in indexed'[f]
<1>1. d \in Updating /\ HoldsWhole(k) /\ NoIndex \in Index
  BY DEF CacheTypeOK, FilesInv, HoldsWhole, NoIndex, Index
<1>2. NoUpdate \in Updating /\ NoUpdate.aside = NoIndex /\ NoUpdate.pc = "idle"
  BY <1>1 DEF NoUpdate, Updating
<1>3. fetched' \in 0..MaxFetch /\ lost' \in 0..MaxFaults
  BY CacheFacts
  DEF Updater, Fetch, MoveAside, PutInPlace, TakeBack, Restore, EndUpdate, KillUpdate, Fails,
      CacheTypeOK
<1>4. \E state : Step(k, state) /\ Holding(state) /\ (Left \/ Gone \/ Placed)
  <2>1. CASE Fetch(k)
    <3> DEFINE state == [NoUpdate EXCEPT !.pc = "fetched", !.got = offer]
    <3>1. offer \in [File -> Package] /\ offer \in Index
      BY DEF FilesInv, CacheTypeOK
    <3>2. /\ state.pc = "fetched" /\ state.got = offer /\ state.aside = NoIndex
          /\ state \in Updating
      BY <1>1, <3>1 DEF NoUpdate, Updating
    <3>3. Step(k, state) /\ Left
      BY <2>1 DEF Fetch, Left
    <3> HIDE DEF state
    <3>4. Holding(state)
      BY <3>1, <3>2
    <3> QED
      BY <3>3, <3>4
  <2>2. CASE MoveAside(k)
    <3> DEFINE state == [d EXCEPT !.pc = "moved", !.aside = index]
    <3>1. /\ state.pc = "moved" /\ state.got = d.got /\ state.aside = index
          /\ state \in Updating
      BY <1>1 DEF Updating, CacheTypeOK
    <3>2. d.got \in [File -> Package] /\ UNCHANGED indexed
      BY <1>1, <2>2 DEF MoveAside, HoldsWhole
    <3>3. index # NoIndex => index \in [File -> Package] /\ \A f \in File : index[f] \in indexed[f]
      BY DEF FilesInv
    <3> HIDE DEF state
    <3>4. Holding(state)
      BY <3>1, <3>2, <3>3
    <3>5. Step(k, state) /\ Gone
      BY <2>2 DEF MoveAside, Gone, state
    <3> QED
      BY <3>4, <3>5
  <2>3. CASE PutInPlace(k)
    <3> DEFINE state == [d EXCEPT !.pc = "placed", !.got = NoIndex]
    <3>1. state.pc = "placed" /\ state.aside = d.aside /\ state \in Updating
      BY <1>1 DEF Updating
    <3>2. d.got \in [File -> Package] /\ index' = d.got /\ watch' = SeenBy(index')
      BY <1>1, <2>3 DEF PutInPlace, HoldsWhole
    <3>3. /\ indexed' = [f \in File |-> indexed[f] \cup {d.got[f]}]
          /\ indexed \in [File -> SUBSET Package]
      BY <2>3, <3>2 DEF PutInPlace, CacheTypeOK
    <3>4. /\ indexed' \in [File -> SUBSET Package]
          /\ \A f \in File : indexed[f] \subseteq indexed'[f] /\ d.got[f] \in indexed'[f]
      BY <3>2, <3>3
    <3>5. Placed
      BY <3>2, <3>4 DEF Placed
    <3> HIDE DEF state
    <3>6. Holding(state)
      BY <1>1, <3>1, <3>4 DEF HoldsWhole
    <3>7. Step(k, state)
      BY <2>3 DEF PutInPlace, state
    <3> QED
      BY <3>5, <3>6, <3>7
  <2>4. CASE TakeBack(k)
    <3> DEFINE state == [d EXCEPT !.pc = "taken"]
    <3>1. state.pc = "taken" /\ state.aside = d.aside /\ state \in Updating
      BY <1>1 DEF Updating
    <3>2. UNCHANGED indexed /\ Gone
      BY <2>4 DEF TakeBack, Gone
    <3> HIDE DEF state
    <3>3. Holding(state)
      BY <1>1, <3>1, <3>2 DEF HoldsWhole
    <3>4. Step(k, state)
      BY <2>4 DEF TakeBack, state
    <3> QED
      BY <3>2, <3>3, <3>4
  <2>5. CASE Restore(k)
    <3>1. /\ d.aside \in [File -> Package] /\ index' = d.aside /\ watch' = SeenBy(index')
          /\ UNCHANGED indexed /\ \A f \in File : d.aside[f] \in indexed[f]
      BY <1>1, <2>5 DEF Restore, HoldsWhole
    <3>2. Placed
      BY <3>1 DEF Placed, CacheTypeOK
    <3>3. Holding(NoUpdate) /\ Step(k, NoUpdate)
      BY <1>2, <2>5 DEF Restore
    <3> QED
      BY <3>2, <3>3
  <2>6. CASE EndUpdate(k) \/ KillUpdate(k)
    <3>1. Holding(NoUpdate) /\ Step(k, NoUpdate) /\ Left
      BY <1>2, <2>6 DEF EndUpdate, KillUpdate, Left
    <3> QED
      BY <3>1
  <2> QED
    BY <2>1, <2>2, <2>3, <2>4, <2>5, <2>6 DEF Updater
<1>5. PICK state : Step(k, state) /\ Holding(state)
  BY <1>4
<1>6. /\ updates' \in [Update -> Updating] /\ updates'[k] = state
      /\ \A j \in Update : j # k => updates'[j] = updates[j]
  BY <1>5 DEF Step, CacheTypeOK
<1> QED
  BY <1>3, <1>4, <1>5, <1>6 DEF HoldsWhole

LEMMA WatchTypes ==
  ASSUME CacheTypeOK, FilesInv, [CacheNext]_cacheVars
  PROVE  watch' \in [Command -> Watch]
<1>1. Disturbed \in [Command -> Watch] /\ NoWatch \in Watch /\ Crowded \in Watch
  BY DEF CacheTypeOK, Disturbed, Watch, NoWatch, Crowded
<1>2. CASE Publisher
  BY <1>1, <1>2 DEF Publisher, Publish, CreateIndex, CacheTypeOK
<1>3. ASSUME NEW k \in Update, Updater(k) PROVE watch' \in [Command -> Watch]
  <2>1. ASSUME NEW i \in Index PROVE SeenBy(i) \in [Command -> Watch]
    <3>1. ASSUME NEW p \in Command
          PROVE  [watch[p] EXCEPT !.calm = FALSE, !.during = @ \cup {i},
                    !.forward = @ /\ \A j \in watch[p].during : NotOlder(i, j)] \in Watch
      BY DEF CacheTypeOK, Watch
    <3> QED
      BY <3>1 DEF SeenBy, CacheTypeOK
  <2>2. [File -> Package] \subseteq Index
    BY DEF Index
  <2> QED
    BY <2>1, <2>2, <1>1, <1>3, UpdaterIs DEF Left, Gone, Placed, CacheTypeOK
<1>4. ASSUME NEW p \in Command, Installer(p) PROVE watch' \in [Command -> Watch]
  <2>1. CASE Stop(p) \/ UNCHANGED watch \/ watch' = Disturbed
    BY <2>1, <1>1 DEF Stop, CacheTypeOK
  <2>2. CASE Begin(p)
    <3>1. [alone |-> TRUE, calm |-> Settled, forward |-> NotBehind(index), during |-> {index}]
            \in Watch
      BY DEF CacheTypeOK, Watch, Settled, NotBehind
    <3> QED
      BY <1>1, <2>2, <3>1 DEF Begin, CacheTypeOK
  <2>3. Work(p) \/ Fault(p) \/ BadDownload(p) => Stop(p) \/ UNCHANGED watch \/ watch' = Disturbed
    BY DEF Work, Resolve, Download, Check, Rename, ResolveAgain, Verify, AllVerified, Install, Done,
           Report, Fault, BadDownload, Set, GoTo, GoOnTo
  <2> QED
    BY <1>4, <2>1, <2>2, <2>3 DEF Installer
<1> QED
  BY <1>2, <1>3, <1>4 DEF CacheNext, cacheVars, CacheTypeOK

\* The files that a command writes.
LEMMA FilesWritten ==
  ASSUME CacheTypeOK, FilesInv, NEW p \in Command, Installer(p)
  PROVE  /\ \/ UNCHANGED cached
            \/ /\ Rename(p) /\ Planned(p) \in File
               /\ cached' = [cached EXCEPT ![Planned(p)] = getting[p].temp]
               /\ getting[p].temp \in indexed[Planned(p)]
         /\ \/ UNCHANGED installed
            \/ /\ Install(p) /\ Planned(p) \in File
               /\ installed' = [installed EXCEPT ![Planned(p)] = cached[Planned(p)]]
         /\ begun' \in 0..MaxBegin /\ lost' \in 0..MaxFaults
<1>1. begun' \in 0..MaxBegin /\ lost' \in 0..MaxFaults
  <2>1. Work(p) => UNCHANGED <<begun, lost>>
    <3>1. Resolve(p) \/ Download(p) \/ Check(p) \/ Rename(p) => UNCHANGED <<begun, lost>>
      BY DEF Resolve, Download, Check, Rename
    <3>2. ResolveAgain(p) \/ Verify(p) \/ AllVerified(p) => UNCHANGED <<begun, lost>>
      BY DEF ResolveAgain, Verify, AllVerified
    <3>3. Install(p) \/ Done(p) \/ Report(p) => UNCHANGED <<begun, lost>>
      BY DEF Install, Done, Report
    <3> QED
      BY <3>1, <3>2, <3>3 DEF Work
  <2>2. CASE Begin(p)
    <3>1. begun < MaxBegin /\ begun' = begun + 1 /\ UNCHANGED lost
      BY <2>2, Zenon DEF Begin
    <3> QED
      BY <3>1, CacheFacts DEF CacheTypeOK
  <2>3. CASE Fault(p) \/ BadDownload(p)
    BY <2>3, CacheFacts DEF Fault, BadDownload, Fails, CacheTypeOK
  <2> QED
    BY <2>1, <2>2, <2>3 DEF Installer, CacheTypeOK
<1>2. CASE Rename(p)
  BY <1>1, <1>2, PlannedIsFile DEF Rename, FilesInv
<1>3. CASE Install(p)
  BY <1>1, <1>3, PlannedIsFile DEF Install
<1>4. CASE ~Rename(p) /\ ~Install(p)
  <2>1. UNCHANGED <<cached, installed>>
    BY <1>4 DEF Installer, Begin, Work, Resolve, Download, Check, ResolveAgain, Verify,
       AllVerified, Done, Report, Fault, BadDownload
  <2> QED
    BY <2>1, <1>1
<1> QED
  BY <1>2, <1>3, <1>4

LEMMA CacheTypesStep == CacheTypeOK /\ FilesInv /\ [CacheNext]_cacheVars => CacheTypeOK'
<1> SUFFICES ASSUME CacheTypeOK, FilesInv, [CacheNext]_cacheVars PROVE CacheTypeOK'
  OBVIOUS
<1>1. watch' \in [Command -> Watch]
  BY WatchTypes
<1>2. CASE Publisher /\ UNCHANGED <<updating, installing, lost>>
  <2>1. offer \in Index /\ server \in Index
    BY DEF CacheTypeOK, Index
  <2> QED
    BY <2>1, <1>1, <1>2, CacheFacts
    DEF Publisher, Publish, CreateIndex, updating, installing, CacheTypeOK
<1>3. ASSUME NEW k \in Update, Updater(k), UNCHANGED <<publishing, installing>>
      PROVE  CacheTypeOK'
  <2>1. NoIndex \in Index /\ [File -> Package] \subseteq Index
    BY DEF NoIndex, Index
  <2>2. /\ index' \in Index /\ indexed' \in [File -> SUBSET Package]
        /\ updates' \in [Update -> Updating]
        /\ fetched' \in 0..MaxFetch /\ lost' \in 0..MaxFaults
    BY <2>1, <1>3, UpdaterIs DEF Left, Gone, Placed, CacheTypeOK
  <2> QED
    BY <2>2, <1>1, <1>3 DEF publishing, installing, CacheTypeOK
<1>4. ASSUME NEW p \in Command, Installer(p), UNCHANGED <<publishing, updating>>
      PROVE  CacheTypeOK'
  <2>1. getting' \in [Command -> Getting]
    BY <1>4, Moves, OneMoves
  <2>2. begun' \in 0..MaxBegin /\ lost' \in 0..MaxFaults
    BY <1>4, FilesWritten
  <2>3. cached' \in [File -> Package \cup {Nothing}]
    BY <1>4, FilesWritten DEF CacheTypeOK
  <2>4. installed' \in [File -> Package \cup {Nothing}]
    BY <1>4, FilesWritten DEF CacheTypeOK
  <2> QED
    BY <1>1, <1>4, <2>1, <2>2, <2>3, <2>4 DEF publishing, updating, CacheTypeOK
<1>5. CASE UNCHANGED cacheVars
  BY <1>5 DEF cacheVars, CacheTypeOK
<1> QED
  BY <1>2, <1>3, <1>4, <1>5 DEF CacheNext

LEMMA FilesInvStep == CacheTypeOK /\ FilesInv /\ [CacheNext]_cacheVars => FilesInv'
<1> SUFFICES ASSUME CacheTypeOK, FilesInv, [CacheNext]_cacheVars PROVE FilesInv'
  OBVIOUS
<1>1. CASE Publisher /\ UNCHANGED <<updating, installing, lost>>
  BY <1>1
  DEF Publisher, Publish, CreateIndex, updating, installing, CacheTypeOK, FilesInv, Planned,
      InstalledWasIndexed
<1>2. ASSUME NEW k \in Update, Updater(k), UNCHANGED <<publishing, installing>>
      PROVE  FilesInv'
  <2>1. \A f \in File : indexed[f] \subseteq indexed'[f]
    BY <1>2, UpdaterIs DEF Left, Gone, Placed
  <2>2. offer' = offer /\ UNCHANGED installing
    BY <1>2 DEF publishing
  <2>3. ASSUME NEW j \in Update PROVE HoldsWhole(j)'
    <3>1. CASE j = k
      BY <1>2, <3>1, UpdaterIs
    <3>2. CASE j # k
      <4>1. updates'[j] = updates[j] /\ HoldsWhole(j)
        BY <1>2, <3>2, UpdaterIs DEF FilesInv, HoldsWhole
      <4> QED
        BY <4>1, <2>1 DEF HoldsWhole
    <3> QED
      BY <3>1, <3>2
  <2>4. index' # NoIndex => index' \in [File -> Package] /\ \A f \in File : index'[f] \in indexed'[f]
    BY <1>2, UpdaterIs DEF Left, Gone, Placed, FilesInv
  <2>5. \A p \in Command : getting[p].pc = "rename" => Planned(p) \in File
    BY PlannedIsFile DEF FilesInv
  <2> QED
    BY <2>1, <2>2, <2>3, <2>4, <2>5
    DEF installing, FilesInv, HoldsWhole, Planned, InstalledWasIndexed, NoIndex
<1>3. ASSUME NEW p \in Command, Installer(p), UNCHANGED <<publishing, updating>>
      PROVE  FilesInv'
  <2>1. \A q \in Command : q # p => getting'[q] = getting[q]
    BY <1>3, Moves, OneMoves
  <2>2. UNCHANGED <<offer, updates, index, indexed>>
    BY <1>3 DEF publishing, updating
  <2>3. \A f \in File : cached'[f] # Nothing => cached'[f] \in indexed[f]
    BY <1>3, FilesWritten DEF FilesInv, CacheTypeOK
  <2>4. \A f \in File : installed'[f] # Nothing => installed'[f] \in indexed[f]
    BY <1>3, FilesWritten DEF FilesInv, CacheTypeOK, InstalledWasIndexed
  <2>5. getting[p] \in Getting
    BY DEF CacheTypeOK
  <2> DEFINE s == getting'[p]
  <2>6. s.pc \in {"check", "rename"} =>
           /\ s.pos <= Len(s.plan)
           /\ s.pc = "rename" => s.temp \in indexed[s.plan[s.pos]]
    <3>1. CASE Download(p)
      BY <3>1, WorkMoves DEF Download, Moved
    <3>2. CASE Check(p) /\ ~Stop(p)
      <4>1. Planned(p) \in File /\ getting[p].pos <= Len(getting[p].plan)
        BY <3>2, PlannedIsFile DEF Check, FilesInv
      <4>2. getting[p].temp \in indexed[Planned(p)]
        BY <4>1, <3>2, FitsWasIndexed, WorkMoves
      <4> QED
        BY <4>1, <4>2, <3>2, WorkMoves DEF Moved, Planned
    <3>3. CASE BadDownload(p)
      BY <3>3, <2>5 DEF BadDownload, Getting, CacheTypeOK, FilesInv
    <3>4. CASE Begin(p)
      <4>1. s.pc = "resolve"
        BY <3>4 DEF Begin, NotGetting, CacheTypeOK
      <4> QED
        BY <4>1
    <3>5. CASE Stop(p)
      BY <3>5 DEF Stop, NotGetting, CacheTypeOK
    <3>6. CASE Work(p) /\ ~Download(p) /\ ~Check(p) /\ ~Stop(p)
      BY <3>6, WorkMoves DEF Work, Moved, After
    <3> QED
      BY <1>3, <3>1, <3>2, <3>3, <3>4, <3>5, <3>6 DEF Installer, Fault
  <2> QED
    BY <2>1, <2>2, <2>3, <2>4, <2>6 DEF FilesInv, Planned, InstalledWasIndexed
<1>4. CASE UNCHANGED cacheVars
  BY <1>4 DEF cacheVars, FilesInv, Planned, InstalledWasIndexed
<1> QED
  BY <1>1, <1>2, <1>3, <1>4 DEF CacheNext

LEMMA InitialFiles == CacheInit => CacheTypeOK /\ FilesInv
<1> SUFFICES ASSUME CacheInit PROVE CacheTypeOK /\ FilesInv
  OBVIOUS
<1>1. NotGetting \in Getting
  BY EmptySeq DEF NotGetting, Getting
<1>2. NoIndex \in Index /\ First \in Index
  BY CacheFacts DEF NoIndex, Index
<1>3. CacheTypeOK
  BY <1>1, <1>2, CacheFacts
  DEF CacheInit, CacheTypeOK, NoFiles, NoWatch, Watch, NoUpdate, Updating
<1>4. FilesInv
  BY CacheFacts DEF CacheInit, FilesInv, NoUpdate, NoFiles, NotGetting, InstalledWasIndexed
<1> QED
  BY <1>3, <1>4

LEMMA FilesInvHolds == CacheSpec => [](CacheTypeOK /\ FilesInv)
<1>1. CacheTypeOK /\ FilesInv /\ [CacheNext]_cacheVars => (CacheTypeOK /\ FilesInv)'
  BY CacheTypesStep, FilesInvStep
<1> QED
  BY <1>1, InitialFiles, PTL DEF CacheSpec

\* The values of the model have their types.
THEOREM CacheTypes == CacheSpec => []CacheTypeOK
BY FilesInvHolds, PTL

\* Whatever is installed has had the digest of its entry in an index in the local
\* directory, however many commands share the directory and whatever the server sends
\* (download_remote_package, pux_repo_verify_package).
THEOREM OnlyIndexedInstalled == CacheSpec => []InstalledWasIndexed
<1>1. FilesInv => InstalledWasIndexed
  BY DEF FilesInv
<1> QED
  BY <1>1, FilesInvHolds, PTL

-----------------------------------------------------------------------------
\* SuccessIsOneIndex

\* What the history of a lone command says of the index and of the others.
WatchInv ==
  \A p \in Command :
    /\ \A i \in watch[p].during : \A f \in File : i[f] \in indexed[f]
    /\ getting[p].pc # "idle" /\ watch[p].alone =>
         /\ watch[p].during # {}
         /\ index # NoIndex => index \in watch[p].during
         /\ Alone(p)

\* Where the index has gone forward only, the last that was put in place is the newest, no
\* package in the directory is newer, and none will be by what the command has checked.
Newest(p, m) ==
  /\ m \in watch[p].during /\ NotBehind(m) /\ index \in {NoIndex, m}
  /\ \A i \in watch[p].during : NotOlder(m, i)

Forward(p) == getting[p].pc # "idle" /\ watch[p].alone /\ watch[p].forward

ForwardInv ==
  \A p \in Command : Forward(p) =>
    /\ \E m \in watch[p].during : Newest(p, m)
    /\ getting[p].pc = "rename" => \E i \in watch[p].during : getting[p].temp = i[Planned(p)]

LEMMA AgeTypes ==
  ASSUME CacheTypeOK, FilesInv, NEW f \in File
  PROVE  /\ cached[f] # Nothing => Age[cached[f]] \in Nat
         /\ index # NoIndex => index[f] \in Package /\ Age[index[f]] \in Nat
         /\ \A c \in indexed[f] : c \in Package /\ Age[c] \in Nat
<1>1. indexed[f] \in SUBSET Package /\ cached[f] \in Package \cup {Nothing}
  BY DEF CacheTypeOK
<1>2. index # NoIndex => index[f] \in Package
  BY DEF FilesInv
<1> QED
  BY <1>1, <1>2, CacheFacts

\* What happens to a command.
LEMMA Running ==
  ASSUME NEW p \in Command, Work(p) \/ Fault(p) \/ BadDownload(p)
  PROVE  /\ getting[p].pc # "idle"
         /\ Stop(p) \/ UNCHANGED watch \/ watch' = Disturbed
<1>1. Resolve(p) \/ Download(p) \/ Check(p) \/ Rename(p) \/ ResolveAgain(p) => getting[p].pc # "idle"
  BY DEF Resolve, Download, Check, Rename, ResolveAgain
<1>2. Verify(p) \/ AllVerified(p) \/ Install(p) \/ Done(p) \/ Report(p) => getting[p].pc # "idle"
  BY DEF Verify, AllVerified, Install, Done, Report, After
<1>3. Fault(p) \/ BadDownload(p) =>
        getting[p].pc # "idle" /\ (Stop(p) \/ UNCHANGED watch \/ watch' = Disturbed)
  BY DEF Fault, BadDownload
<1>4. Resolve(p) \/ Download(p) \/ Check(p) \/ Rename(p) \/ ResolveAgain(p) =>
        Stop(p) \/ UNCHANGED watch
  BY DEF Resolve, Download, Check, Rename, ResolveAgain, Set, GoTo, GoOnTo
<1>5. Verify(p) \/ AllVerified(p) \/ Install(p) \/ Done(p) \/ Report(p) =>
        Stop(p) \/ UNCHANGED watch
  BY DEF Verify, AllVerified, Install, Done, Report, Set, GoTo, GoOnTo
<1> QED
  BY <1>1, <1>2, <1>3, <1>4, <1>5 DEF Work

LEMMA Ends ==
  ASSUME CacheTypeOK, NEW p \in Command, Stop(p)
  PROVE  /\ getting'[p] = NotGetting /\ watch'[p] = NoWatch
         /\ \A q \in Command : q # p => watch'[q] = watch[q]
BY DEF CacheTypeOK, Stop

LEMMA Begins ==
  ASSUME CacheTypeOK, NEW p \in Command, Begin(p)
  PROVE  /\ getting[p].pc = "idle" /\ getting'[p].pc = "resolve"
         /\ getting'[p].took = {} /\ getting'[p].pos = 1
         /\ index # NoIndex /\ watch'[p].during \subseteq {index}
         /\ watch'[p].alone => Alone(p) /\ index \in watch'[p].during
         /\ watch'[p].calm => Settled /\ watch'[p].alone
         /\ watch'[p].forward => NotBehind(index)
         /\ \A q \in Command : q # p =>
              /\ watch'[q].during \subseteq watch[q].during
              /\ watch'[q].calm => watch[q].calm
              /\ getting[q].pc # "idle" => ~watch'[q].alone /\ ~watch'[q].calm
<1>1. PICK job : getting' = [getting EXCEPT ![p] = [NotGetting EXCEPT !.pc = "resolve", !.job = job]]
  BY DEF Begin
<1>2. getting'[p] = [NotGetting EXCEPT !.pc = "resolve", !.job = job]
  BY <1>1 DEF CacheTypeOK
<1>3. getting'[p].pc = "resolve" /\ getting'[p].took = {} /\ getting'[p].pos = 1
  BY <1>2 DEF NotGetting
<1>4. getting[p].pc = "idle" /\ index # NoIndex
  BY DEF Begin
<1>5. CASE Alone(p)
  <2>1. watch' = [watch EXCEPT ![p] = [alone |-> TRUE, calm |-> Settled,
                                       forward |-> NotBehind(index), during |-> {index}]]
    BY <1>5 DEF Begin
  <2>2. watch'[p] = [alone |-> TRUE, calm |-> Settled, forward |-> NotBehind(index),
                     during |-> {index}]
    BY <2>1 DEF CacheTypeOK
  <2>3. \A q \in Command : q # p => watch'[q] = watch[q] /\ getting[q].pc = "idle"
    BY <1>5, <2>1 DEF CacheTypeOK, Alone
  <2>4. watch'[p].during = {index} /\ watch'[p].alone
    BY <2>2
  <2>5. (watch'[p].calm => Settled) /\ (watch'[p].forward => NotBehind(index))
    <3> DEFINE ahead == NotBehind(index)
               still == Settled
    <3>1. watch'[p] = [alone |-> TRUE, calm |-> still, forward |-> ahead, during |-> {index}]
      BY <2>2
    <3>2. ahead \in BOOLEAN /\ still \in BOOLEAN
      BY DEF NotBehind, Settled
    <3> HIDE DEF ahead, still
    <3>3. watch'[p].forward = ahead /\ watch'[p].calm = still
      BY <3>1
    <3> QED
      BY <3>2, <3>3 DEF ahead, still
  <2> QED
    BY <1>3, <1>4, <1>5, <2>3, <2>4, <2>5
<1>6. CASE ~Alone(p)
  <2>1. watch' = [q \in Command |-> IF q = p \/ getting[q].pc # "idle" THEN Crowded ELSE NoWatch]
    BY <1>6 DEF Begin
  <2>2. \A q \in Command : watch'[q].during = {} /\ ~watch'[q].calm /\ ~watch'[q].forward
    BY <2>1 DEF Crowded, NoWatch
  <2>3. \A q \in Command : q = p \/ getting[q].pc # "idle" => ~watch'[q].alone
    BY <2>1 DEF Crowded, NoWatch
  <2> QED
    BY <1>3, <1>4, <2>2, <2>3
<1> QED
  BY <1>5, <1>6

LEMMA DisturbedIs ==
  ASSUME CacheTypeOK, NEW q \in Command
  PROVE  /\ Disturbed[q].alone = watch[q].alone /\ Disturbed[q].during = watch[q].during
         /\ Disturbed[q].forward = watch[q].forward /\ ~Disturbed[q].calm
<1>1. watch[q] \in Watch
  BY DEF CacheTypeOK
<1>2. Disturbed[q] = [watch[q] EXCEPT !.calm = FALSE]
  BY DEF Disturbed
<1> QED
  BY <1>1, <1>2 DEF Watch

LEMMA SeenByIs ==
  ASSUME CacheTypeOK, NEW q \in Command, NEW i
  PROVE  /\ watch[q].during = {} => SeenBy(i)[q] = watch[q]
         /\ watch[q].during # {} =>
              /\ SeenBy(i)[q].alone = watch[q].alone /\ ~SeenBy(i)[q].calm
              /\ SeenBy(i)[q].during = watch[q].during \cup {i}
              /\ SeenBy(i)[q].forward =>
                   watch[q].forward /\ \A j \in watch[q].during : NotOlder(i, j)
<1>1. watch[q] \in Watch
  BY DEF CacheTypeOK
<1>2. watch[q].during = {} => SeenBy(i)[q] = watch[q]
  BY DEF SeenBy
<1>3. ASSUME watch[q].during # {}
      PROVE  SeenBy(i)[q] = [watch[q] EXCEPT !.calm = FALSE, !.during = @ \cup {i},
                     !.forward = @ /\ \A j \in watch[q].during : NotOlder(i, j)]
  BY <1>3 DEF SeenBy
<1> QED
  BY <1>1, <1>2, <1>3 DEF Watch

\* Where another command takes a step, a running command is not alone; nor is it if it
\* was before.
LEMMA OtherCommands ==
  ASSUME CacheTypeOK, FilesInv, NEW p \in Command, Installer(p), NEW q \in Command, q # p
  PROVE  /\ getting'[q] = getting[q]
         /\ watch'[q].during \subseteq watch[q].during
         /\ watch'[q].calm => watch[q].calm
         /\ WatchInv /\ getting[q].pc # "idle" =>
              ~watch'[q].alone /\ ~(watch[q].alone /\ watch'[q].calm)
<1>1. getting'[q] = getting[q]
  BY Moves, OneMoves
<1>2. CASE Begin(p)
  BY <1>1, <1>2, Begins
<1>3. CASE Work(p) \/ Fault(p) \/ BadDownload(p)
  <2>1. /\ watch'[q].during = watch[q].during /\ watch'[q].alone = watch[q].alone
        /\ watch'[q].calm => watch[q].calm
    BY <1>3, Running, Ends, DisturbedIs
  <2>2. getting[p].pc # "idle"
    BY <1>3, Running
  <2>3. WatchInv /\ getting[q].pc # "idle" => ~watch[q].alone
    BY <2>2 DEF WatchInv, Alone
  <2> QED
    BY <1>1, <2>1, <2>3
<1> QED
  BY <1>2, <1>3 DEF Installer

LEMMA WatchStep ==
  CacheTypeOK /\ FilesInv /\ WatchInv /\ [CacheNext]_cacheVars => WatchInv'
<1> SUFFICES ASSUME CacheTypeOK, FilesInv, WatchInv, [CacheNext]_cacheVars PROVE WatchInv'
  OBVIOUS
<1> DEFINE W(p) ==
      /\ \A i \in watch[p].during : \A f \in File : i[f] \in indexed[f]
      /\ getting[p].pc # "idle" /\ watch[p].alone =>
           /\ watch[p].during # {}
           /\ index # NoIndex => index \in watch[p].during
           /\ Alone(p)
<1>1. CASE Publisher /\ UNCHANGED <<updating, installing, lost>>
  <2>1. UNCHANGED <<index, indexed, getting>>
    BY <1>1 DEF updating, installing
  <2>2. watch' = watch \/ watch' = Disturbed
    BY <1>1 DEF Publisher, Publish, CreateIndex
  <2>3. \A p \in Command : watch'[p].alone = watch[p].alone /\ watch'[p].during = watch[p].during
    BY <2>2, DisturbedIs
  <2> QED
    BY <2>1, <2>3 DEF WatchInv, Alone
<1>2. ASSUME NEW k \in Update, Updater(k), UNCHANGED <<publishing, installing>>
      PROVE  WatchInv'
  <2>1. UNCHANGED getting
    BY <1>2 DEF installing
  <2>2. CASE Left \/ Gone
    <3>1. index' \in {index, NoIndex} /\ UNCHANGED indexed /\ watch' \in {watch, Disturbed}
      BY <2>2 DEF Left, Gone
    <3>2. \A p \in Command : watch'[p].alone = watch[p].alone /\ watch'[p].during = watch[p].during
      BY <3>1, DisturbedIs
    <3> QED
      BY <2>1, <3>1, <3>2 DEF WatchInv, Alone
  <2>3. CASE Placed
    <3>1. \A f \in File : indexed[f] \subseteq indexed'[f] /\ index'[f] \in indexed'[f]
      BY <2>3 DEF Placed
    <3>2. ASSUME NEW p \in Command PROVE W(p)'
      <4>1. CASE watch[p].during = {}
        <5>1. watch'[p] = watch[p]
          BY <2>3, <4>1, SeenByIs DEF Placed
        <5> QED
          BY <4>1, <5>1, <2>1 DEF WatchInv
      <4>2. CASE watch[p].during # {}
        <5>1. watch'[p].alone = watch[p].alone /\ watch'[p].during = watch[p].during \cup {index'}
          BY <2>3, <4>2, SeenByIs DEF Placed
        <5>2. \A i \in watch'[p].during : \A f \in File : i[f] \in indexed'[f]
          BY <3>1, <5>1 DEF WatchInv
        <5> QED
          BY <5>1, <5>2, <2>1 DEF WatchInv, Alone
      <4> QED
        BY <4>1, <4>2
    <3> QED
      BY <3>2 DEF WatchInv
  <2> QED
    BY <1>2, <2>2, <2>3, UpdaterIs
<1>4. ASSUME NEW p \in Command, Installer(p), UNCHANGED <<publishing, updating>>
      PROVE  WatchInv'
  <2>1. UNCHANGED <<index, indexed>>
    BY <1>4 DEF updating
  <2>2. ASSUME NEW q \in Command, q # p PROVE W(q)'
    BY <1>4, <2>1, <2>2, OtherCommands DEF WatchInv
  <2>3. W(p)'
    <3>1. Alone(p)' = Alone(p)
      BY <1>4, OtherCommands DEF Alone
    <3>2. CASE Begin(p)
      <4>1. \A f \in File : index[f] \in indexed[f]
        BY <3>2, Begins DEF FilesInv
      <4> QED
        BY <2>1, <3>1, <4>1, <3>2, Begins
    <3>3. CASE Stop(p)
      BY <3>3, Ends DEF NotGetting, NoWatch
    <3>4. CASE (Work(p) \/ Fault(p) \/ BadDownload(p)) /\ ~Stop(p)
      <4>1. watch'[p].alone = watch[p].alone /\ watch'[p].during = watch[p].during
        BY <3>4, Running, DisturbedIs
      <4>2. getting[p].pc # "idle"
        BY <3>4, Running
      <4> QED
        BY <2>1, <3>1, <4>1, <4>2 DEF WatchInv
    <3> QED
      BY <1>4, <3>2, <3>3, <3>4 DEF Installer
  <2> QED
    BY <2>2, <2>3 DEF WatchInv
<1>5. CASE UNCHANGED cacheVars
  BY <1>5 DEF cacheVars, WatchInv, Alone
<1> QED
  BY <1>1, <1>2, <1>4, <1>5 DEF CacheNext

LEMMA NotOlderItself ==
  ASSUME CacheTypeOK, NEW i \in [File -> Package] PROVE NotOlder(i, i)
BY CacheFacts DEF NotOlder

LEMMA ForwardStep ==
  CacheTypeOK /\ FilesInv /\ WatchInv /\ ForwardInv /\ [CacheNext]_cacheVars => ForwardInv'
<1> SUFFICES ASSUME CacheTypeOK, FilesInv, WatchInv, ForwardInv, [CacheNext]_cacheVars
             PROVE  ForwardInv'
  OBVIOUS
<1> DEFINE F(p) == Forward(p) =>
      /\ \E m \in watch[p].during : Newest(p, m)
      /\ getting[p].pc = "rename" => \E i \in watch[p].during : getting[p].temp = i[Planned(p)]
<1>1. ASSUME NEW p \in Command, getting[p].pc # "idle", UNCHANGED cached,
             index' \in {index, NoIndex},
             watch'[p].alone = watch[p].alone, watch'[p].during = watch[p].during,
             watch'[p].forward = watch[p].forward,
             \/ UNCHANGED getting[p]
             \/ /\ getting'[p].pc = "rename" =>
                     \E i \in watch[p].during : getting'[p].temp = i[Planned(p)']
      PROVE  F(p)'
  <2>1. ASSUME NEW m, Newest(p, m) PROVE Newest(p, m)'
    BY <1>1, <2>1 DEF Newest, NotBehind, NotOlder
  <2>2. Forward(p)' => Forward(p)
    BY <1>1 DEF Forward
  <2>3. ASSUME Forward(p)' PROVE \E m \in watch'[p].during : Newest(p, m)'
    BY <1>1, <2>1, <2>2, <2>3 DEF ForwardInv
  <2>4. ASSUME Forward(p)', getting'[p].pc = "rename"
        PROVE  \E i \in watch'[p].during : getting'[p].temp = i[Planned(p)']
    BY <1>1, <2>2, <2>4 DEF ForwardInv, Planned
  <2> QED
    BY <2>3, <2>4
<1>2. ASSUME NEW p \in Command, getting'[p].pc = "idle" \/ ~watch'[p].alone PROVE F(p)'
  BY <1>2 DEF Forward
<1>3. CASE Publisher /\ UNCHANGED <<updating, installing, lost>>
  <2>1. UNCHANGED <<index, cached, getting>>
    BY <1>3 DEF updating, installing
  <2>2. watch' = watch \/ watch' = Disturbed
    BY <1>3 DEF Publisher, Publish, CreateIndex
  <2>3. ASSUME NEW p \in Command PROVE F(p)'
    <3>1. /\ watch'[p].alone = watch[p].alone /\ watch'[p].during = watch[p].during
          /\ watch'[p].forward = watch[p].forward
      BY <2>2, DisturbedIs
    <3> QED
      BY <1>1, <1>2, <2>1, <3>1
  <2> QED
    BY <2>3 DEF ForwardInv
<1>4. ASSUME NEW k \in Update, Updater(k), UNCHANGED <<publishing, installing>>, NEW p \in Command
      PROVE  F(p)'
  <2>1. UNCHANGED <<cached, getting>>
    BY <1>4 DEF installing
  <2>2. CASE Left \/ Gone
    <3>1. index' \in {index, NoIndex} /\ watch' \in {watch, Disturbed}
      BY <2>2 DEF Left, Gone
    <3>2. /\ watch'[p].alone = watch[p].alone /\ watch'[p].during = watch[p].during
          /\ watch'[p].forward = watch[p].forward
      BY <3>1, DisturbedIs
    <3> QED
      BY <1>1, <1>2, <2>1, <3>1, <3>2
  <2>3. CASE Placed /\ Forward(p)'
    <3>1. watch[p].during # {}
      <4>1. CASE watch[p].during = {}
        <5>1. watch'[p] = watch[p]
          BY <2>3, <4>1, SeenByIs DEF Placed
        <5> QED
          BY <2>1, <2>3, <4>1, <5>1 DEF Forward, WatchInv
      <4> QED
        BY <4>1
    <3>2. /\ watch'[p].alone = watch[p].alone
          /\ watch'[p].during = watch[p].during \cup {index'}
          /\ watch'[p].forward =>
               watch[p].forward /\ \A j \in watch[p].during : NotOlder(index', j)
      BY <2>3, <3>1, SeenByIs DEF Placed
    <3>3. Forward(p) /\ \A j \in watch[p].during : NotOlder(index', j)
      BY <2>1, <2>3, <3>2 DEF Forward
    <3>4. PICK m \in watch[p].during : Newest(p, m)
      BY <3>3 DEF ForwardInv
    <3>5. \A f \in File : cached'[f] # Nothing => Age[cached'[f]] <= Age[index'[f]]
      <4>1. ASSUME NEW f \in File, cached[f] # Nothing PROVE Age[cached[f]] <= Age[index'[f]]
        <5>1. Age[cached[f]] <= Age[m[f]]
          BY <3>4, <4>1 DEF Newest, NotBehind
        <5>2. Age[m[f]] <= Age[index'[f]]
          BY <3>3 DEF NotOlder
        <5>3. Age[cached[f]] \in Nat /\ Age[m[f]] \in Nat
          BY <4>1, AgeTypes DEF WatchInv
        <5>4. Age[index'[f]] \in Nat
          BY <2>3, CacheFacts DEF Placed
        <5> HIDE DEF Placed
        <5> QED
          BY <5>1, <5>2, <5>3, <5>4
      <4> QED
        BY <2>1, <4>1
    <3>6. \A j \in watch'[p].during : NotOlder(index', j)
      BY <2>3, <3>2, <3>3, NotOlderItself DEF Placed
    <3>7. Newest(p, index)'
      BY <3>2, <3>5, <3>6 DEF Newest, NotOlder, NotBehind
    <3>8. getting'[p].pc = "rename" => \E i \in watch'[p].during : getting'[p].temp = i[Planned(p)']
      BY <2>1, <3>2, <3>3 DEF ForwardInv, Planned
    <3> QED
      BY <3>2, <3>7, <3>8
  <2> QED
    BY <1>4, <2>2, <2>3, UpdaterIs
<1>5. ASSUME NEW p \in Command, Installer(p), UNCHANGED <<publishing, updating>>
      PROVE  ForwardInv'
  <2>1. UNCHANGED index
    BY <1>5 DEF updating
  <2>2. ASSUME NEW q \in Command, q # p PROVE F(q)'
    BY <1>2, <1>5, <2>2, OtherCommands
  <2>3. F(p)'
    <3>1. CASE Begin(p)
      <4> SUFFICES ASSUME Forward(p)' PROVE F(p)'
        OBVIOUS
      <4>1. /\ index # NoIndex /\ watch'[p].during = {index} /\ getting'[p].pc = "resolve"
            /\ NotBehind(index)
        BY <3>1, Begins DEF Forward
      <4>2. UNCHANGED cached
        BY <3>1 DEF Begin
      <4>3. NotOlder(index, index)
        BY <4>1, NotOlderItself DEF FilesInv
      <4>4. Newest(p, index)'
        BY <2>1, <4>1, <4>2, <4>3 DEF Newest, NotBehind, NotOlder
      <4> QED
        BY <2>1, <4>1, <4>4
    <3>2. CASE Stop(p)
      BY <1>2, <3>2, Ends DEF NotGetting
    <3>3. CASE (Work(p) \/ Fault(p) \/ BadDownload(p)) /\ ~Stop(p)
      <4>1. /\ getting[p].pc # "idle"
            /\ watch'[p].alone = watch[p].alone /\ watch'[p].during = watch[p].during
            /\ watch'[p].forward = watch[p].forward
        BY <3>3, Running, DisturbedIs
      <4>2. CASE Check(p)
        <5>1. /\ Fits(Planned(p), getting[p].temp) /\ getting[p].pos <= Len(getting[p].plan)
              /\ getting'[p].temp = getting[p].temp /\ Planned(p)' = Planned(p)
          BY <3>3, <4>2, WorkMoves DEF Moved, Planned, Check, FilesInv
        <5>2. index # NoIndex /\ index[Planned(p)] = getting[p].temp
          BY <5>1, PlannedIsFile, FitsWasIndexed DEF Fits
        <5>3. watch[p].alone => index \in watch[p].during
          BY <4>1, <5>2 DEF WatchInv
        <5>4. UNCHANGED cached
          BY <4>2 DEF Check
        <5>5. CASE watch[p].alone
          BY <1>1, <2>1, <4>1, <5>1, <5>2, <5>3, <5>4, <5>5
        <5> QED
          BY <1>2, <4>1, <5>5
      <4>3. CASE Rename(p)
        <5> SUFFICES ASSUME Forward(p)' PROVE F(p)'
          OBVIOUS
        <5>1. Forward(p) /\ getting[p].pc = "rename"
          BY <4>1, <4>3 DEF Forward, Rename
        <5>2. PICK m \in watch[p].during : Newest(p, m)
          BY <5>1 DEF ForwardInv
        <5>3. PICK i \in watch[p].during : getting[p].temp = i[Planned(p)]
          BY <5>1 DEF ForwardInv
        <5>4. Planned(p) \in File
          BY <5>1, PlannedIsFile DEF FilesInv
        <5>5. Age[getting[p].temp] <= Age[m[Planned(p)]]
          BY <5>2, <5>3, <5>4 DEF Newest, NotOlder
        <5>6. cached' = [cached EXCEPT ![Planned(p)] = getting[p].temp]
          BY <4>3 DEF Rename
        <5>7. NotBehind(m)'
          BY <5>2, <5>4, <5>5, <5>6 DEF NotBehind, Newest, CacheTypeOK
        <5>8. Newest(p, m)'
          BY <2>1, <4>1, <5>2, <5>7 DEF Newest, NotOlder
        <5>9. getting'[p].pc = "download"
          BY <4>3, WorkMoves DEF Moved
        <5> QED
          BY <4>1, <5>8, <5>9
      <4>4. CASE ~Check(p) /\ ~Rename(p)
        <5>1. UNCHANGED cached
          BY <3>3, <4>4 DEF Work, Resolve, Download, ResolveAgain, Verify, AllVerified, Install, Done,
             Report, Fault, BadDownload
        <5>2. CASE BadDownload(p)
          <6>1. getting'[p].pc = getting[p].pc /\ getting[p].pc = "check"
            BY <5>2 DEF BadDownload, CacheTypeOK, Getting
          <6> QED
            BY <1>1, <2>1, <4>1, <5>1, <6>1
        <5>3. CASE Work(p)
          <6>1. getting'[p].pc # "rename"
            BY <3>3, <4>4, <5>3, WorkMoves DEF Work, Moved, After
          <6> QED
            BY <1>1, <2>1, <4>1, <5>1, <6>1
        <5> QED
          BY <3>3, <5>2, <5>3 DEF Fault
      <4> QED
        BY <4>2, <4>3, <4>4
    <3> QED
      BY <1>5, <3>1, <3>2, <3>3 DEF Installer
  <2> QED
    BY <2>2, <2>3 DEF ForwardInv
<1>6. CASE UNCHANGED cacheVars
  <2>1. ASSUME NEW p \in Command PROVE F(p)'
    BY <1>1, <1>2, <1>6, <2>1 DEF cacheVars
  <2> QED
    BY <2>1 DEF ForwardInv
<1> QED
  <2>1. (\E k \in Update : Updater(k)) /\ UNCHANGED <<publishing, installing>> => ForwardInv'
    BY <1>4 DEF ForwardInv
  <2> QED
    BY <1>3, <1>5, <1>6, <2>1 DEF CacheNext

\* The members of its plan that a command has looked at since it made that plan, with
\* those that it has taken.
LookedAt(p, k) ==
  \/ getting[p].pc = "verify" /\ k < getting[p].pos
  \/ getting[p].pc = "install" /\ (getting[p].job = "install" \/ k <= getting[p].pos)
Sure(p) == getting[p].took \cup
  {getting[p].plan[k] : k \in {k \in 1..Len(getting[p].plan) : LookedAt(p, k)}}

\* The packages that a lone command is sure of are from indexes that it has seen.  Where
\* these went forward only, all are those of one that the directory was not ahead of: a
\* package that fits a later index has fitted that index, too.
OneOf(p, S) == \E i \in watch[p].during : NotBehind(i) /\ \A f \in S : cached[f] = i[f]
Seen(p, S) == \A f \in S : \E i \in watch[p].during : cached[f] = i[f]

OneIndex(p) ==
  IF getting[p].pc \in {"verify", "install", "done"}
  THEN watch[p].alone =>
         /\ \A f \in getting[p].took : installed[f] = cached[f]
         /\ Seen(p, Sure(p))
         /\ watch[p].forward /\ Sure(p) # {} => OneOf(p, Sure(p))
  ELSE getting[p].took = {}

OneIndexInv == \A p \in Command : OneIndex(p)

LEMMA VerifiedToo ==
  ASSUME CacheTypeOK, FilesInv, WatchInv, ForwardInv, NEW p \in Command, OneIndex(p),
         getting[p].pc \in {"verify", "install", "done"}, watch[p].alone,
         NEW f \in File, Fits(f, cached[f])
  PROVE  /\ Seen(p, Sure(p) \cup {f})
         /\ watch[p].forward => OneOf(p, Sure(p) \cup {f})
<1>1. index # NoIndex /\ index \in watch[p].during /\ index[f] = cached[f]
  BY FitsWasIndexed DEF Fits, WatchInv
<1>2. Seen(p, Sure(p) \cup {f})
  BY <1>1 DEF OneIndex, Seen
<1>3. ASSUME watch[p].forward PROVE NotBehind(index) /\ \A i \in watch[p].during : NotOlder(index, i)
  BY <1>1, <1>3 DEF ForwardInv, Forward, Newest
<1>4. CASE Sure(p) = {}
  BY <1>1, <1>2, <1>3, <1>4 DEF OneOf
<1>5. CASE Sure(p) # {} /\ watch[p].forward
  <2>1. PICK i \in watch[p].during : NotBehind(i) /\ \A g \in Sure(p) : cached[g] = i[g]
    BY <1>5 DEF OneIndex, OneOf
  <2>2. i[f] \in indexed[f]
    BY <2>1 DEF WatchInv
  <2>3. i[f] \in Package /\ index[f] \in Package /\ Age[i[f]] \in Nat /\ Age[index[f]] \in Nat
    BY <1>1, <2>2, AgeTypes
  <2>4. Age[i[f]] <= Age[index[f]]
    BY <1>3, <1>5 DEF NotOlder
  <2>5. Age[cached[f]] <= Age[i[f]]
    BY <2>1 DEF NotBehind, Fits
  <2>6. i[f] = cached[f]
    BY <1>1, <2>3, <2>4, <2>5, CacheFacts
  <2> QED
    BY <1>2, <2>1, <2>6 DEF OneOf
<1> QED
  BY <1>2, <1>4, <1>5

\* A command that goes on with the directory as it is.
LEMMA StaysSure ==
  ASSUME NEW p \in Command, UNCHANGED <<cached, watch>>,
         getting'[p].pc \in {"verify", "install", "done"},
         watch[p].alone => \A f \in getting'[p].took : installed'[f] = cached[f],
         NEW S, Sure(p)' \subseteq S,
         watch[p].alone => Seen(p, S),
         watch[p].alone /\ watch[p].forward /\ S # {} => OneOf(p, S)
  PROVE  OneIndex(p)'
<1>1. \A i : NotBehind(i)' = NotBehind(i)
  BY DEF NotBehind
<1>2. watch[p].alone => Seen(p, Sure(p))'
  BY DEF Seen
<1>3. watch[p].alone /\ watch[p].forward /\ Sure(p)' # {} => OneOf(p, Sure(p))'
  BY <1>1 DEF OneOf
<1> QED
  BY <1>2, <1>3 DEF OneIndex

LEMMA OneIndexStep ==
  CacheTypeOK /\ FilesInv /\ WatchInv /\ ForwardInv /\ OneIndexInv /\ [CacheNext]_cacheVars
    => OneIndexInv'
<1> SUFFICES ASSUME CacheTypeOK, FilesInv, WatchInv, ForwardInv, OneIndexInv,
                    [CacheNext]_cacheVars
             PROVE  OneIndexInv'
  OBVIOUS
<1>1. ASSUME NEW p \in Command, UNCHANGED <<cached, installed>>,
             UNCHANGED getting[p], watch'[p].alone = watch[p].alone,
             watch[p].during \subseteq watch'[p].during,
             watch'[p].forward => watch[p].forward
      PROVE  OneIndex(p)'
  <2>1. Sure(p)' = Sure(p)
    BY <1>1 DEF Sure, LookedAt
  <2>2. \A i : NotBehind(i)' = NotBehind(i)
    BY <1>1 DEF NotBehind
  <2>3. Seen(p, Sure(p)) => Seen(p, Sure(p))'
    BY <1>1, <2>1 DEF Seen
  <2>4. OneOf(p, Sure(p)) => OneOf(p, Sure(p))'
    BY <1>1, <2>1, <2>2 DEF OneOf
  <2> QED
    BY <1>1, <2>1, <2>3, <2>4 DEF OneIndexInv, OneIndex
<1>2. CASE Publisher /\ UNCHANGED installing
  <2>1. watch' = watch \/ watch' = Disturbed
    BY <1>2 DEF Publisher, Publish, CreateIndex
  <2>2. \A p \in Command : /\ watch'[p].alone = watch[p].alone /\ watch'[p].during = watch[p].during
                           /\ watch'[p].forward = watch[p].forward
    BY <2>1, DisturbedIs
  <2> QED
    BY <1>1, <1>2, <2>2 DEF installing, OneIndexInv
<1>3. ASSUME NEW k \in Update, Updater(k), UNCHANGED installing PROVE OneIndexInv'
  <2>1. ASSUME NEW p \in Command PROVE OneIndex(p)'
    <3>1. CASE Left \/ Gone
      <4>1. watch' \in {watch, Disturbed}
        BY <3>1 DEF Left, Gone
      <4>2. /\ watch'[p].alone = watch[p].alone /\ watch'[p].during = watch[p].during
            /\ watch'[p].forward = watch[p].forward
        BY <4>1, DisturbedIs
      <4> QED
        BY <1>1, <1>3, <4>2 DEF installing
    <3>2. CASE Placed
      <4>1. /\ watch'[p].alone = watch[p].alone /\ watch[p].during \subseteq watch'[p].during
            /\ watch'[p].forward => watch[p].forward
        BY <3>2, SeenByIs DEF Placed
      <4> QED
        BY <1>1, <1>3, <4>1 DEF installing
    <3> QED
      BY <1>3, <3>1, <3>2, UpdaterIs
  <2> QED
    BY <2>1 DEF OneIndexInv
<1>4. ASSUME NEW p \in Command, Installer(p) PROVE OneIndexInv'
  <2>1. ASSUME NEW q \in Command, q # p PROVE OneIndex(q)'
    <3>1. getting'[q] = getting[q]
      BY <1>4, <2>1, OtherCommands
    <3>2. getting[q].pc # "idle" => ~watch'[q].alone
      BY <1>4, <2>1, OtherCommands
    <3> QED
      BY <3>1, <3>2 DEF OneIndexInv, OneIndex
  <2>2. OneIndex(p)'
    <3> DEFINE g == getting[p]
               late == {"verify", "install", "done"}
    <3>1. OneIndex(p) /\ g \in Getting
      BY DEF OneIndexInv, CacheTypeOK
    <3>2. CASE Begin(p)
      BY <3>2, Begins DEF OneIndex
    <3>3. CASE Stop(p)
      BY <3>3, Ends DEF OneIndex, NotGetting
    <3>4. CASE (Resolve(p) \/ Download(p) \/ Check(p) \/ Rename(p)) /\ ~Stop(p)
      <4>1. g.took = {}
        BY <3>1, <3>4 DEF OneIndex, Resolve, Download, Check, Rename
      <4>2. getting'[p].pc \notin late /\ getting'[p].took = g.took
        BY <3>4, WorkMoves DEF Moved
      <4> QED
        BY <4>1, <4>2 DEF OneIndex
    <3>5. CASE ResolveAgain(p) /\ ~Stop(p)
      <4>1. g.took = {} /\ UNCHANGED cached
        BY <3>1, <3>5 DEF OneIndex, ResolveAgain
      <4>2. /\ UNCHANGED watch /\ getting'[p].pc = "verify"
            /\ getting'[p].took = g.took /\ getting'[p].pos = 1
        BY <3>5, WorkMoves DEF Moved
      <4>3. Sure(p)' = {}
        BY <4>1, <4>2 DEF Sure, LookedAt
      <4>4. Seen(p, {})
        BY DEF Seen
      <4> QED
        BY <4>1, <4>2, <4>3, <4>4, StaysSure
    <3>6. CASE Verify(p) /\ ~Stop(p)
      <4>1. g.pc = "verify" /\ g.pos <= Len(g.plan) /\ UNCHANGED <<cached, installed>>
        BY <3>6 DEF Verify
      <4>2. Planned(p) \in File /\ Fits(Planned(p), cached[Planned(p)])
        BY <3>6, <4>1, PlannedIsFile, WorkMoves
      <4>3. /\ UNCHANGED watch /\ getting'[p].took = g.took /\ getting'[p].plan = g.plan
            /\ getting'[p].job = g.job
            /\ \/ g.job = "upgrade" /\ getting'[p].pc = "install" /\ getting'[p].pos = g.pos
               \/ g.job = "install" /\ getting'[p].pc = "verify" /\ getting'[p].pos = g.pos + 1
        BY <3>6, WorkMoves DEF Moved
      <4>4. Sure(p)' \subseteq Sure(p) \cup {Planned(p)}
        <5>1. ASSUME NEW k \in 1..Len(g.plan), LookedAt(p, k)'
              PROVE  LookedAt(p, k) \/ k = g.pos
          BY <3>1, <4>1, <4>3, <5>1 DEF LookedAt, Getting
        <5> QED
          BY <4>3, <5>1 DEF Sure, Planned
      <4>5. watch[p].alone =>
              /\ Seen(p, Sure(p) \cup {Planned(p)})
              /\ watch[p].forward => OneOf(p, Sure(p) \cup {Planned(p)})
        BY <3>1, <4>1, <4>2, VerifiedToo
      <4>6. watch[p].alone => \A f \in getting'[p].took : installed'[f] = cached[f]
        BY <3>1, <4>1, <4>3 DEF OneIndex
      <4> QED
        BY <4>1, <4>3, <4>4, <4>5, <4>6, StaysSure
    <3>7. CASE (AllVerified(p) \/ Done(p)) /\ ~Stop(p)
      <4>1. g.pc \in late /\ UNCHANGED <<cached, installed>>
        BY <3>7 DEF AllVerified, Done, After
      <4>2. /\ UNCHANGED watch /\ getting'[p].took = g.took /\ getting'[p].plan = g.plan
            /\ getting'[p].pc \in {"install", "done"}
            /\ getting'[p].pc = "install" => g.pc = "verify" /\ g.pos > Len(g.plan)
        BY <3>7, WorkMoves DEF Moved, AllVerified
      <4>3. Sure(p)' \subseteq Sure(p)
        <5>1. ASSUME NEW k \in 1..Len(g.plan), LookedAt(p, k)'
              PROVE  LookedAt(p, k)
          <6>1. Len(g.plan) \in Nat
            BY <3>1, LenProperties DEF Getting
          <6> QED
            BY <3>1, <4>2, <5>1, <6>1 DEF LookedAt, Getting
        <5> QED
          BY <4>2, <5>1 DEF Sure
      <4>4. watch[p].alone => \A f \in getting'[p].took : installed'[f] = cached[f]
        BY <3>1, <4>1, <4>2 DEF OneIndex
      <4>5. watch[p].alone =>
              Seen(p, Sure(p)) /\ (watch[p].forward /\ Sure(p) # {} => OneOf(p, Sure(p)))
        BY <3>1, <4>1 DEF OneIndex
      <4> QED
        BY <4>1, <4>2, <4>3, <4>4, <4>5, StaysSure
    <3>8. CASE Install(p) /\ ~Stop(p)
      <4>1. g.pc = "install" /\ g.pos <= Len(g.plan) /\ UNCHANGED cached
        BY <3>8 DEF Install
      <4>2. PICK t \in SUBSET {Planned(p)} :
              /\ Moved(p, After(p), g.pos + 1, g.plan, g.temp, g.took \cup t)
              /\ t # {} => installed'[Planned(p)] = cached[Planned(p)]
        BY <3>8, WorkMoves
      <4>3. /\ getting'[p].pc = After(p) /\ getting'[p].pos = g.pos + 1 /\ UNCHANGED watch
            /\ getting'[p].plan = g.plan /\ getting'[p].took = g.took \cup t
            /\ getting'[p].job = g.job
        BY <4>2 DEF Moved
      <4>4. Len(g.plan) \in Nat /\ g.pos \in 1..Len(g.plan)
        BY <3>1, <4>1, LenProperties DEF Getting
      <4>5. Planned(p) \in Sure(p)
        BY <4>1, <4>4 DEF Sure, LookedAt, Planned
      <4>6. Sure(p)' \subseteq Sure(p)
        <5>1. ASSUME NEW k \in 1..Len(g.plan), LookedAt(p, k)'
              PROVE  LookedAt(p, k)
          BY <4>1, <4>3, <4>4, <5>1 DEF LookedAt, After
        <5> QED
          BY <4>3, <4>5, <5>1 DEF Sure
      <4>7. watch[p].alone => \A f \in getting'[p].took : installed'[f] = cached[f]
        <5>1. \A f \in File : installed'[f] = installed[f] \/ installed'[f] = cached[f]
          BY <1>4, FilesWritten DEF CacheTypeOK
        <5>2. watch[p].alone => \A f \in g.took : installed[f] = cached[f]
          BY <3>1, <4>1 DEF OneIndex
        <5>3. g.took \subseteq File
          BY <3>1 DEF Getting
        <5> QED
          BY <4>2, <4>3, <5>1, <5>2, <5>3
      <4>8. watch[p].alone =>
              Seen(p, Sure(p)) /\ (watch[p].forward /\ Sure(p) # {} => OneOf(p, Sure(p)))
        BY <3>1, <4>1 DEF OneIndex
      <4>9. getting'[p].pc \in late
        BY <4>3 DEF After
      <4> QED
        BY <4>1, <4>3, <4>6, <4>7, <4>8, <4>9, StaysSure
    <3>9. CASE BadDownload(p)
      <4>1. getting'[p].pc = "check" /\ getting'[p].took = g.took
        BY <3>1, <3>9 DEF BadDownload, Getting, CacheTypeOK
      <4>2. g.pc = "check"
        BY <3>9 DEF BadDownload
      <4> QED
        BY <3>1, <4>1, <4>2 DEF OneIndex
    <3> QED
      BY <1>4, <3>2, <3>3, <3>4, <3>5, <3>6, <3>7, <3>8, <3>9 DEF Installer, Work, Report, Fault
  <2> QED
    BY <2>1, <2>2 DEF OneIndexInv
<1>5. CASE UNCHANGED cacheVars
  BY <1>1, <1>5 DEF cacheVars, OneIndexInv
<1> QED
  BY <1>2, <1>3, <1>4, <1>5 DEF CacheNext

-----------------------------------------------------------------------------
\* CalmSucceeds

\* What a command has behind it, where nothing has disturbed it: it has one and the same
\* plan all the time, the members before pos are downloaded, then all are, and then
\* those before pos are installed, from the directory as it is.
DownloadedBefore(p, n) ==
  \A k \in 1..Len(getting[p].plan) : k < n =>
    cached[getting[p].plan[k]] = index[getting[p].plan[k]]
InstalledBefore(p, n) ==
  \A k \in 1..Len(getting[p].plan) : k < n => installed[getting[p].plan[k]] # Nothing

Calm(p) ==
  /\ index = server /\ watch[p].alone /\ getting[p].pc # "idle"
  /\ IF getting[p].pc = "resolve" THEN getting[p].pos = 1
     ELSE getting[p].plan = PlanOf[index[Wanted]]
  /\ getting[p].pc \in {"check", "rename"} => getting[p].temp = index[Planned(p)]
  /\ getting[p].pc \in {"download", "check", "rename"} => DownloadedBefore(p, getting[p].pos)
  /\ IF getting[p].pc \in {"verify", "install", "done"}
     THEN /\ DownloadedBefore(p, Len(getting[p].plan) + 1)
          /\ \A f \in File : installed[f] \in {Nothing, cached[f]}
          /\ getting[p].pc = "install" \/ getting[p].job = "upgrade" =>
               InstalledBefore(p, getting[p].pos)
     ELSE installed = NoFiles

CalmInv == \A p \in Command : watch[p].calm => Calm(p)

\* The plan of an index that describes the repository.
LEMMA OnePlan ==
  ASSUME CacheTypeOK, index = server
  PROVE  Plans = {PlanOf[index[Wanted]]} /\ \A f \in File : index[f] \in Package
<1>1. \A f \in File : index[f] \in Package
  BY DEF CacheTypeOK
<1>2. index[Wanted] \in Package /\ Wanted \in File
  BY <1>1, CacheFacts
<1>3. index # NoIndex
  BY <1>2, CacheFacts DEF NoIndex
<1>4. ASSUME NEW i \in DOMAIN PlanOf[index[Wanted]]
      PROVE  index[PlanOf[index[Wanted]][i]] # Nothing
  <2>1. PlanOf[index[Wanted]] \in Seq(File)
    BY <1>2, CacheFacts
  <2>2. PlanOf[index[Wanted]][i] \in File
    BY <1>4, <2>1, LenProperties, ElementOfSeq
  <2> QED
    BY <1>1, <2>2, CacheFacts
<1> QED
  BY <1>1, <1>2, <1>3, <1>4 DEF Plans, Manifests

\* A member that the command has downloaded and checked.
LEMMA CalmFits ==
  ASSUME CacheTypeOK, NEW p \in Command, index = server, getting[p].pos <= Len(getting[p].plan),
         DownloadedBefore(p, Len(getting[p].plan) + 1)
  PROVE  /\ Planned(p) \in File /\ cached[Planned(p)] = index[Planned(p)]
         /\ Fits(Planned(p), cached[Planned(p)])
<1>1. Planned(p) \in File
  BY PlannedIsFile
<1>2. getting[p] \in Getting
  BY DEF CacheTypeOK
<1>3. Len(getting[p].plan) \in Nat /\ getting[p].pos \in 1..Len(getting[p].plan)
  BY <1>2, LenProperties DEF Getting
<1>4. cached[Planned(p)] = index[Planned(p)]
  BY <1>3 DEF DownloadedBefore, Planned
<1> QED
  BY <1>1, <1>4, OnePlan, CacheFacts DEF Fits

\* The engine finds what the package depends on: the wanted package is the last of its
\* plan.
LEMMA CalmAccepts ==
  ASSUME CacheTypeOK, NEW p \in Command, Calm(p), getting[p].pc = "install",
         getting[p].pos <= Len(getting[p].plan), ~UpToDate(p)
  PROVE  Accepts(p)
<1> DEFINE g == getting[p]
           f == Planned(p)
<1>1. f \in File /\ cached[f] = index[f] /\ Fits(f, cached[f])
  BY CalmFits DEF Calm
<1>2. cached[f] \in Package /\ Age[cached[f]] \in Nat /\ cached[f] # Nothing
  BY <1>1, OnePlan, CacheFacts DEF Calm
<1>3. installed[f] = Nothing
  <2>1. installed[f] \in {Nothing, cached[f]}
    BY <1>1 DEF Calm
  <2> QED
    BY <1>2, <2>1 DEF UpToDate
<1>4. ASSUME NEW h \in DependsOn(f) PROVE installed[h] # Nothing
  <2>1. f = Wanted /\ h \in {PlanOf[cached[f]][i] : i \in DOMAIN PlanOf[cached[f]]} \ {f}
    BY <1>4 DEF DependsOn
  <2>2. g.plan = PlanOf[cached[f]] /\ g.plan \in Seq(File)
    BY <1>1, <1>2, <2>1, CacheFacts DEF Calm
  <2>3. PICK i \in 1..Len(g.plan) : h = g.plan[i]
    BY <2>1, <2>2, LenProperties
  <2>4. g.pos \in 1..Len(g.plan) /\ Len(g.plan) \in Nat
    BY <2>2, LenProperties DEF CacheTypeOK, Getting
  <2>5. g.pos = Len(g.plan)
    BY <1>2, <2>1, <2>2, <2>4, CacheFacts DEF Planned
  <2>6. i # g.pos
    BY <2>1, <2>3 DEF Planned
  <2>7. InstalledBefore(p, g.pos)
    BY DEF Calm
  <2> QED
    BY <2>3, <2>4, <2>5, <2>6, <2>7 DEF InstalledBefore
<1> QED
  BY <1>3, <1>4 DEF Accepts

\* No step of an undisturbed command ends it before it is done.
LEMMA CalmGoesOn ==
  ASSUME CacheTypeOK, FilesInv, NEW p \in Command, Calm(p), Work(p), getting[p].pc # "done"
  PROVE  getting'[p].pc # "idle"
<1> DEFINE g == getting[p]
<1>1. Plans # {} /\ \A f \in File : index[f] \in Package
  BY OnePlan DEF Calm
<1>2. CASE Resolve(p)
  <2>1. PICK plan \in Plans : Set(p, [g EXCEPT !.pc = "download", !.plan = plan])
    BY <1>1, <1>2 DEF Resolve
  <2>2. getting'[p] = [g EXCEPT !.pc = "download", !.plan = plan]
    BY <2>1 DEF Set, CacheTypeOK
  <2> QED
    BY <2>2 DEF CacheTypeOK, Getting
<1>3. CASE Download(p)
  BY <1>3, WorkMoves DEF Moved
<1>4. CASE Check(p)
  <2>1. Planned(p) \in File /\ g.temp = index[Planned(p)]
    BY <1>4, PlannedIsFile DEF Check, FilesInv, Calm
  <2>2. Fits(Planned(p), g.temp)
    BY <1>1, <2>1, CacheFacts DEF Fits
  <2>3. GoTo(p, "rename")
    BY <1>4, <2>2 DEF Check
  <2>4. getting'[p] = [g EXCEPT !.pc = "rename"]
    BY <2>3 DEF GoTo, Set, CacheTypeOK
  <2> QED
    BY <2>4 DEF CacheTypeOK, Getting
<1>5. CASE Rename(p) \/ AllVerified(p) \/ Done(p)
  BY <1>5, WorkMoves DEF Moved
<1>6. CASE ResolveAgain(p)
  <2>1. PICK plan \in Plans : Set(p, [g EXCEPT !.pc = "verify", !.plan = plan, !.pos = 1])
    BY <1>1, <1>6 DEF ResolveAgain
  <2>2. getting'[p] = [g EXCEPT !.pc = "verify", !.plan = plan, !.pos = 1]
    BY <2>1 DEF Set, CacheTypeOK
  <2> QED
    BY <2>2 DEF CacheTypeOK, Getting
<1>7. CASE Verify(p)
  <2>1. g.pc = "verify" /\ g.pos <= Len(g.plan)
    BY <1>7 DEF Verify
  <2>2. Planned(p) \in File /\ Fits(Planned(p), cached[Planned(p)])
    BY <2>1, CalmFits DEF Calm
  <2>3. installed[Planned(p)] \in {Nothing, cached[Planned(p)]}
    BY <2>1, <2>2 DEF Calm
  <2>4. GoTo(p, "install") \/ GoOnTo(p, "verify")
    BY <1>7, <2>2, <2>3 DEF Verify
  <2>5. getting'[p] = [g EXCEPT !.pc = "install"] \/
        getting'[p] = [g EXCEPT !.pos = @ + 1, !.pc = "verify"]
    BY <2>4 DEF GoTo, GoOnTo, Set, CacheTypeOK
  <2> QED
    BY <2>5 DEF CacheTypeOK, Getting
<1>8. CASE Install(p)
  <2>1. UpToDate(p) \/ Accepts(p)
    BY <1>8, CalmAccepts DEF Install
  <2>2. PICK t : Set(p, [g EXCEPT !.pos = @ + 1, !.pc = After(p), !.took = @ \cup t])
    BY <1>8, <2>1 DEF Install
  <2>3. getting'[p] = [g EXCEPT !.pos = @ + 1, !.pc = After(p), !.took = @ \cup t]
    BY <2>2 DEF Set, CacheTypeOK
  <2>4. getting'[p].pc = After(p)
    BY <2>3 DEF CacheTypeOK, Getting
  <2> QED
    BY <2>4 DEF After
<1>9. ~Report(p)
  BY DEF Report
<1> QED
  BY <1>2, <1>3, <1>4, <1>5, <1>6, <1>7, <1>8, <1>9 DEF Work

\* What the steps of an undisturbed command do with the files.
LEMMA CalmInstalls ==
  ASSUME CacheTypeOK, FilesInv, NEW p \in Command, Calm(p), Install(p)
  PROVE  /\ \A f \in File : installed'[f] \in {Nothing, cached[f]}
         /\ \A f \in File : installed[f] # Nothing => installed'[f] # Nothing
         /\ installed'[Planned(p)] # Nothing
<1>1. getting[p].pc = "install" /\ getting[p].pos <= Len(getting[p].plan)
  BY DEF Install
<1>2. /\ Planned(p) \in File /\ cached[Planned(p)] # Nothing
      /\ \A f \in File : installed[f] \in {Nothing, cached[f]}
  BY <1>1, CalmFits, OnePlan, CacheFacts DEF Calm
<1>3. UpToDate(p) \/ Accepts(p)
  BY <1>1, CalmAccepts
<1>4. \/ UpToDate(p) /\ UNCHANGED installed
      \/ installed' = [installed EXCEPT ![Planned(p)] = cached[Planned(p)]]
  BY <1>3 DEF Install
<1>5. UpToDate(p) => installed[Planned(p)] # Nothing
  BY DEF UpToDate
<1> QED
  BY <1>2, <1>4, <1>5 DEF CacheTypeOK

LEMMA CalmWorks ==
  ASSUME CacheTypeOK, FilesInv, NEW p \in Command, Calm(p), Work(p), ~Stop(p),
         UNCHANGED <<server, index>>
  PROVE  Calm(p)'
<1> DEFINE g == getting[p]
<1>1. /\ g \in Getting /\ g.plan \in Seq(File) /\ Len(g.plan) \in Nat /\ g.pos \in Nat \ {0}
      /\ index = server /\ watch[p].alone
  BY LenProperties DEF CacheTypeOK, Getting, Calm
<1>2. Plans = {PlanOf[index[Wanted]]} /\ \A f \in File : index[f] \in Package
  BY <1>1, OnePlan
<1>3. CASE Resolve(p)
  <2>1. g.pos = 1 /\ installed = NoFiles /\ UNCHANGED <<cached, installed>>
    BY <1>3 DEF Resolve, Calm
  <2>2. /\ getting'[p].pc = "download" /\ getting'[p].pos = 1 /\ UNCHANGED watch
        /\ getting'[p].plan = PlanOf[index[Wanted]]
    BY <1>2, <1>3, <2>1, WorkMoves DEF Moved
  <2>3. DownloadedBefore(p, getting[p].pos)'
    BY <2>2 DEF DownloadedBefore
  <2> QED
    BY <1>1, <2>1, <2>2, <2>3 DEF Calm, NoFiles
<1>4. CASE Download(p)
  <2>1. /\ g.pc = "download" /\ installed = NoFiles /\ g.pos <= Len(g.plan)
        /\ UNCHANGED <<cached, installed>>
        /\ DownloadedBefore(p, g.pos) /\ g.plan = PlanOf[index[Wanted]]
    BY <1>4 DEF Download, Calm
  <2>2. CASE /\ Fits(Planned(p), cached[Planned(p)])
             /\ Moved(p, "download", g.pos + 1, g.plan, g.temp, g.took)
    <3>1. DownloadedBefore(p, getting[p].pos)'
      BY SMTT(30), <1>1, <2>1, <2>2 DEF Fits, Planned, Moved, DownloadedBefore
    <3> QED
      BY <1>1, <2>1, <2>2, <3>1 DEF Calm, Moved, NoFiles
  <2>3. CASE Moved(p, "check", g.pos, g.plan, server[Planned(p)], g.took)
    <3>1. DownloadedBefore(p, getting[p].pos)'
      BY <1>1, <2>1, <2>3 DEF Moved, DownloadedBefore
    <3>2. getting'[p].temp = index'[Planned(p)']
      BY <1>1, <2>3 DEF Moved, Planned
    <3> QED
      BY <1>1, <2>1, <2>3, <3>1, <3>2 DEF Calm, Moved, NoFiles
  <2> QED
    BY <1>4, <2>2, <2>3, WorkMoves
<1>5. CASE Check(p)
  <2>1. /\ g.pc = "check" /\ installed = NoFiles /\ UNCHANGED <<cached, installed>>
        /\ DownloadedBefore(p, g.pos) /\ g.plan = PlanOf[index[Wanted]]
        /\ g.temp = index[Planned(p)]
    BY <1>5 DEF Check, Calm
  <2>2. Moved(p, "rename", g.pos, g.plan, g.temp, g.took)
    BY <1>5, WorkMoves
  <2>3. DownloadedBefore(p, getting[p].pos)' /\ getting'[p].temp = index'[Planned(p)']
    BY <2>1, <2>2 DEF Moved, DownloadedBefore, Planned
  <2> QED
    BY <1>1, <2>1, <2>2, <2>3 DEF Calm, Moved, NoFiles
<1>6. CASE Rename(p)
  <2>1. /\ g.pc = "rename" /\ installed = NoFiles /\ UNCHANGED installed
        /\ DownloadedBefore(p, g.pos) /\ g.plan = PlanOf[index[Wanted]]
        /\ cached' = [cached EXCEPT ![Planned(p)] = index[Planned(p)]]
    BY <1>6 DEF Rename, Calm
  <2>2. Moved(p, "download", g.pos + 1, g.plan, Nothing, g.took)
    BY <1>6, WorkMoves
  <2>3. DownloadedBefore(p, getting[p].pos)'
    <3>1. \A k \in 1..Len(g.plan) : g.plan[k] \in File
      BY <1>1, ElementOfSeq
    <3>2. getting'[p].pos = g.pos + 1 /\ getting'[p].plan = g.plan /\ UNCHANGED index
      BY <2>2 DEF Moved
    <3>3. cached \in [File -> Package \cup {Nothing}]
      BY DEF CacheTypeOK
    <3> QED
      BY SMTT(30), <1>1, <2>1, <3>1, <3>2, <3>3 DEF DownloadedBefore, Planned
  <2> QED
    BY <1>1, <2>1, <2>2, <2>3 DEF Calm, Moved, NoFiles
<1>7. CASE ResolveAgain(p)
  <2>1. /\ g.pc = "download" /\ installed = NoFiles /\ UNCHANGED <<cached, installed>>
        /\ DownloadedBefore(p, g.pos) /\ g.plan = PlanOf[index[Wanted]] /\ g.pos > Len(g.plan)
    BY <1>7 DEF ResolveAgain, Calm
  <2>2. Moved(p, "verify", 1, g.plan, g.temp, g.took)
    BY <1>2, <1>7, <2>1, WorkMoves
  <2>3. DownloadedBefore(p, Len(getting[p].plan) + 1)' /\ InstalledBefore(p, 1)'
    BY <1>1, <2>1, <2>2 DEF Moved, DownloadedBefore, InstalledBefore
  <2> QED
    BY <1>1, <2>1, <2>2, <2>3 DEF Calm, Moved, NoFiles
<1>8. CASE Verify(p) \/ AllVerified(p) \/ Done(p)
  <2>1. /\ g.pc \in {"verify", "install"} /\ UNCHANGED <<cached, installed>>
        /\ g.plan = PlanOf[index[Wanted]]
        /\ DownloadedBefore(p, Len(g.plan) + 1)
        /\ \A f \in File : installed[f] \in {Nothing, cached[f]}
        /\ g.pc = "install" \/ g.job = "upgrade" => InstalledBefore(p, g.pos)
    BY <1>8 DEF Verify, AllVerified, Done, After, Calm
  <2>2. /\ getting'[p].pc \in {"verify", "install", "done"} /\ getting'[p].plan = g.plan
        /\ getting'[p].job = g.job /\ UNCHANGED watch
        /\ getting'[p].pc = "install" \/ getting'[p].job = "upgrade" =>
             getting'[p].pos = 1 \/ (getting'[p].pos = g.pos /\ g.job = "upgrade")
    BY <1>8, WorkMoves DEF Moved, Done, After
  <2>3. DownloadedBefore(p, Len(getting[p].plan) + 1)'
    BY <2>1, <2>2 DEF DownloadedBefore
  <2>4. getting'[p].pc = "install" \/ getting'[p].job = "upgrade" =>
          InstalledBefore(p, getting[p].pos)'
    BY <1>1, <2>1, <2>2 DEF InstalledBefore
  <2> QED
    BY <1>1, <2>1, <2>2, <2>3, <2>4 DEF Calm
<1>9. CASE Install(p)
  <2>1. /\ g.pc = "install" /\ UNCHANGED cached /\ g.plan = PlanOf[index[Wanted]]
        /\ DownloadedBefore(p, Len(g.plan) + 1) /\ InstalledBefore(p, g.pos)
        /\ g.pos <= Len(g.plan)
    BY <1>9 DEF Install, Calm
  <2>2. /\ getting'[p].pc \in {"install", "verify"} /\ getting'[p].plan = g.plan
        /\ getting'[p].pos = g.pos + 1 /\ UNCHANGED watch
    BY <1>9, WorkMoves DEF Moved, After
  <2>3. DownloadedBefore(p, Len(getting[p].plan) + 1)'
    BY <2>1, <2>2 DEF DownloadedBefore
  <2>4. InstalledBefore(p, getting[p].pos)'
    <3>1. \A k \in 1..Len(g.plan) : g.plan[k] \in File
      BY <1>1, ElementOfSeq
    <3>2. \A f \in File : installed[f] # Nothing => installed'[f] # Nothing
      BY <1>9, CalmInstalls
    <3>3. installed'[Planned(p)] # Nothing
      BY <1>9, CalmInstalls
    <3> QED
      BY SMTT(30), <1>1, <2>1, <2>2, <3>1, <3>2, <3>3 DEF InstalledBefore, Planned
  <2>5. \A f \in File : installed'[f] \in {Nothing, cached'[f]}
    BY <1>9, <2>1, CalmInstalls
  <2> QED
    BY <1>1, <2>1, <2>2, <2>3, <2>4, <2>5 DEF Calm
<1>10. ~Report(p)
  BY DEF Report
<1> QED
  BY <1>3, <1>4, <1>5, <1>6, <1>7, <1>8, <1>9, <1>10 DEF Work

LEMMA CalmStep ==
  CacheTypeOK /\ FilesInv /\ WatchInv /\ CalmInv /\ [CacheNext]_cacheVars => CalmInv'
<1> SUFFICES ASSUME CacheTypeOK, FilesInv, WatchInv, CalmInv, [CacheNext]_cacheVars
             PROVE  CalmInv'
  OBVIOUS
<1>1. ASSUME NEW p \in Command, UNCHANGED <<server, index, cached, installed>>,
             UNCHANGED getting[p], watch'[p].alone = watch[p].alone, Calm(p)
      PROVE  Calm(p)'
  <2>1. \A n : DownloadedBefore(p, n)' = DownloadedBefore(p, n)
    BY <1>1 DEF DownloadedBefore
  <2>2. \A n : InstalledBefore(p, n)' = InstalledBefore(p, n)
    BY <1>1 DEF InstalledBefore
  <2>3. Planned(p)' = Planned(p)
    BY <1>1 DEF Planned
  <2> QED
    BY <1>1, <2>1, <2>2, <2>3 DEF Calm, NoFiles
<1>2. CASE Publisher /\ UNCHANGED <<updating, installing, lost>>
  <2>1. CASE Publish
    BY <2>1, DisturbedIs DEF Publish, CalmInv
  <2>2. CASE CreateIndex
    BY <1>1, <1>2, <2>2 DEF CreateIndex, updating, installing, CalmInv
  <2> QED
    BY <1>2, <2>1, <2>2 DEF Publisher
<1>3. ASSUME NEW k \in Update, Updater(k), UNCHANGED <<publishing, installing>>
      PROVE  CalmInv'
  <2>1. CASE Left
    BY <1>1, <1>3, <2>1 DEF Left, publishing, installing, CalmInv
  <2>2. CASE Gone
    BY <2>2, DisturbedIs DEF Gone, CalmInv
  <2>3. CASE Placed
    <3>1. \A p \in Command : watch[p].calm => watch[p].during # {}
      BY DEF CalmInv, Calm, WatchInv
    <3>2. \A p \in Command : ~watch'[p].calm
      BY <2>3, <3>1, SeenByIs DEF Placed
    <3> QED
      BY <3>2 DEF CalmInv
  <2> QED
    BY <1>3, <2>1, <2>2, <2>3, UpdaterIs
<1>5. ASSUME NEW p \in Command, Installer(p), UNCHANGED <<publishing, updating>>
      PROVE  CalmInv'
  <2>1. UNCHANGED <<server, index>>
    BY <1>5 DEF publishing, updating
  <2>2. ASSUME NEW q \in Command, q # p, watch'[q].calm PROVE Calm(q)'
    <3>1. watch[q].calm
      BY <1>5, <2>2, OtherCommands
    <3>2. Calm(q)
      BY <3>1 DEF CalmInv
    <3>3. getting[q].pc # "idle" /\ watch[q].alone
      BY <3>2 DEF Calm
    <3> QED
      BY <1>5, <2>2, <3>3, OtherCommands
  <2>3. ASSUME watch'[p].calm PROVE Calm(p)'
    <3>1. CASE Begin(p)
      <4>1. Settled /\ watch'[p].alone /\ getting'[p].pc = "resolve" /\ getting'[p].pos = 1
        BY <2>3, <3>1, Begins
      <4>2. UNCHANGED installed
        BY <3>1 DEF Begin
      <4> QED
        BY <2>1, <4>1, <4>2 DEF Calm, Settled, NoFiles
    <3>2. CASE Stop(p)
      BY <2>3, <3>2, Ends DEF NoWatch
    <3>3. CASE BadDownload(p)
      BY <2>3, <3>3, DisturbedIs DEF BadDownload
    <3>4. CASE Work(p) /\ ~Stop(p)
      <4>1. watch' = watch \/ watch' = Disturbed
        BY <3>4, Running
      <4>2. watch[p].calm
        BY <2>3, <4>1, DisturbedIs
      <4>3. Calm(p)
        BY <4>2 DEF CalmInv
      <4> QED
        BY <2>1, <3>4, <4>3, CalmWorks
    <3> QED
      BY <1>5, <3>1, <3>2, <3>3, <3>4 DEF Installer, Fault
  <2> QED
    BY <2>2, <2>3 DEF CalmInv
<1>6. CASE UNCHANGED cacheVars
  BY <1>1, <1>6 DEF cacheVars, CalmInv
<1> QED
  BY <1>2, <1>3, <1>5, <1>6 DEF CacheNext

-----------------------------------------------------------------------------
CacheInv == CacheTypeOK /\ FilesInv /\ WatchInv /\ ForwardInv /\ OneIndexInv /\ CalmInv

LEMMA CacheInvHolds == CacheSpec => []CacheInv
<1>1. CacheInit => CacheInv
  <2> SUFFICES ASSUME CacheInit PROVE CacheInv
    OBVIOUS
  <2>1. CacheTypeOK /\ FilesInv
    BY InitialFiles
  <2>3. \A p \in Command : getting[p] = NotGetting /\ watch[p] = NoWatch
    BY DEF CacheInit
  <2>4. WatchInv /\ ForwardInv /\ OneIndexInv /\ CalmInv
    BY <2>3 DEF WatchInv, ForwardInv, Forward, OneIndexInv, OneIndex, CalmInv, NotGetting, NoWatch
  <2> QED
    BY <2>1, <2>4 DEF CacheInv
<1>2. CacheInv /\ [CacheNext]_cacheVars => CacheInv'
  BY CacheTypesStep, FilesInvStep, WatchStep, ForwardStep, OneIndexStep, CalmStep DEF CacheInv
<1> QED
  BY <1>1, <1>2, PTL DEF CacheSpec

\* Each package that a successful command takes in a directory of its own is from an index
\* that was in place meanwhile, whatever updates come between its many looks at the index,
\* overlap and are rolled back; and all are from one such index, unless the index went
\* back (install_from_repository_policy, upgrade_from_repository_policy, replace_metadata).
THEOREM SuccessesAreOneIndex == CacheSpec => []SuccessIsOneIndex
<1>1. CacheInv => SuccessIsOneIndex
  <2> SUFFICES ASSUME CacheInv, NEW p \in Command, getting[p].pc = "done", watch[p].alone
               PROVE  /\ \A f \in getting[p].took : \E i \in watch[p].during : installed[f] = i[f]
                      /\ watch[p].forward =>
                           \E i \in watch[p].during : \A f \in getting[p].took : installed[f] = i[f]
    BY DEF SuccessIsOneIndex
  <2>1. OneIndex(p) /\ watch[p].during # {}
    BY DEF CacheInv, OneIndexInv, WatchInv
  <2>2. getting[p].took \subseteq Sure(p) /\ \A f \in getting[p].took : installed[f] = cached[f]
    BY <2>1 DEF OneIndex, Sure
  <2>3. \A f \in getting[p].took : \E i \in watch[p].during : installed[f] = i[f]
    BY <2>1, <2>2 DEF OneIndex, Seen
  <2>4. CASE Sure(p) = {}
    BY <2>1, <2>2, <2>4
  <2>5. CASE Sure(p) # {}
    BY <2>1, <2>2, <2>3, <2>5 DEF OneIndex, OneOf
  <2> QED
    BY <2>4, <2>5
<1> QED
  BY <1>1, CacheInvHolds, PTL

\* Where the index describes the repository and has a plan, a first install or upgrade
\* in a directory of its own does not fail by itself: the plan it makes anew is the one
\* it has downloaded, what it verifies is what it has checked, and the engine finds every
\* dependency (run_remote_install, pux_repo_verify_package).
THEOREM UndisturbedSucceed == CacheSpec => CalmSucceeds
<1>1. CacheInv /\ [CacheNext]_cacheVars =>
        [\A p \in Command : getting[p].pc \notin {"idle", "done"} /\ getting'[p].pc = "idle"
           /\ lost' = lost => ~watch[p].calm]_cacheVars
  <2> SUFFICES ASSUME CacheInv, CacheNext, NEW p \in Command,
                      getting[p].pc \notin {"idle", "done"}, getting'[p].pc = "idle",
                      lost' = lost, watch[p].calm
               PROVE  FALSE
    OBVIOUS
  <2> USE DEF CacheInv
  <2>1. CASE UNCHANGED installing
    BY <2>1 DEF installing
  <2>2. ASSUME NEW q \in Command, Installer(q) PROVE FALSE
    <3>1. q = p
      BY <2>2, OtherCommands
    <3>2. ~Begin(p)
      BY DEF Begin
    <3>3. ~Fault(p) /\ ~BadDownload(p)
      BY DEF Fault, BadDownload, Fails, CacheTypeOK
    <3>4. Work(p) /\ Calm(p)
      BY <2>2, <3>1, <3>2, <3>3 DEF Installer, CalmInv
    <3> QED
      BY <3>4, CalmGoesOn
  <2> QED
    BY <2>1, <2>2 DEF CacheNext
<1> QED
  BY <1>1, CacheInvHolds, PTL DEF CacheSpec, CalmSucceeds
===============================================================================
