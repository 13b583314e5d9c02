------------------------------- MODULE Archive -------------------------------
(***************************************************************************)
(* Package archives: pux_package_build writes one from a payload tree that *)
(* somebody may edit meanwhile (src/src/builder.c), and                    *)
(* pux_package_archive_extract checks one and unpacks it (src/src/         *)
(* container.c, src/src/extract.c), for any number of extractions into one *)
(* destination in which others put files and links of their own.           *)
(*                                                                         *)
(* The manifest is the first member of every archive and is not shown.  An *)
(* archive is opened and closed at its end: until the two zero blocks are  *)
(* written any part of it may be missing, and the reader, who has nothing  *)
(* but the sizes in the headers to go by, runs into its end.               *)
(***************************************************************************)
EXTENDS Naturals, Sequences

CONSTANTS
  Path,     \* the paths of the payload, relative to its root
  Parent,   \* Parent[x]: the directory that x is in
  Root,     \* the root, which is always there
  Rank,     \* the order of the members' names under strcmp
  Content,  \* what a file can hold
  Target,   \* where a link can lead
  Behind,   \* Behind[t]: the content of the file that a link to t leads to
  Size,     \* the length of a content and of the text of a link
  Dir,      \* a directory
  Part,     \* a file of which a part is written
  None,     \* nothing
  Proc,     \* the extractions
  MaxEdits,  \* bound: how often the payload is edited during a build
  MaxPlants, \* bound: how often somebody else puts something in the destination
  Limit      \* bound: how many calls fail and processes are killed, together

Node == Content \cup Target \cup {Dir, None}
ConstantsOK ==
  /\ Root \notin Path /\ Parent \in [Path -> Path \cup {Root}]
  /\ Rank \in [Path -> Nat]
  /\ \A x, y \in Path : Rank[x] = Rank[y] => x = y
  /\ \A x \in Path : Parent[x] = Root \/ Rank[Parent[x]] < Rank[x]
  /\ Behind \in [Target -> Content \cup {None}] /\ Size \in [Content \cup Target -> Nat]
  /\ Content \cap Target = {} /\ {Dir, None, Part} \cap (Content \cup Target) = {}
  /\ Dir # None /\ Part \notin {Dir, None}
  /\ MaxEdits \in Nat /\ MaxPlants \in Nat /\ Limit \in Nat

ASSUME ArchiveConstants == ConstantsOK

VARIABLES
  payload,  \* the tree the archive is built from
  out,      \* the members in the archive file, and whether its end is there
  build,    \* what the builder is doing
  dest,     \* the tree the archive is extracted to
  call,     \* what each extraction is doing
  seen,     \* history: what reading x has given at some moment of the build
  edits,    \* how often the payload has been edited during the build
  plants, spent  \* how much of the other bounds has been used

vars == <<payload, out, build, dest, call, seen, edits, plants, spent>>
building == <<payload, out, build, seen, edits>>
extracting == <<dest, call, plants>>

Member == [path : Path, node : Node \ {None}]
\* todo are the paths to look at, entries what was found and has not been written, size
\* is the one in the header of the entry that is being written.
Build == [pc : {"idle", "collect", "write", "copy", "drop"}, todo : SUBSET Path,
          entries : SUBSET Member, size : Nat]
\* A file that is not there or is empty is no archive.
NoArchive == [members |-> <<>>, whole |-> FALSE]
NoBuild == [pc |-> "idle", todo |-> {}, entries |-> {}, size |-> 0]
\* next is the number of the member to extract.
Call == [pc : {"idle", "validate", "member", "mkdir", "copy", "drop", "done"}, next : Nat \ {0}]
NoCall == [pc |-> "idle", next |-> 1]

TypeOK ==
  /\ payload \in [Path -> Node]
  /\ out \in [members : Seq(Member), whole : BOOLEAN]
  /\ build \in Build
  /\ dest \in [Path -> Node \cup {Part}]
  /\ call \in [Proc -> Call]
  /\ seen \in [Path -> SUBSET Node]
  /\ edits \in 0..MaxEdits /\ plants \in 0..MaxPlants /\ spent \in 0..Limit

\* What a tree has above x.
Above(t, x) == IF Parent[x] = Root THEN Dir ELSE t[Parent[x]]

\* A tree: whatever is not there or is no directory has nothing below it.
IsTree(t) == \A x \in Path : t[x] # None => Above(t, x) = Dir
NoTree == [x \in Path |-> None]

Init ==
  /\ payload = NoTree
  /\ out = NoArchive
  /\ build = NoBuild
  /\ dest = NoTree
  /\ call = [p \in Proc |-> NoCall]
  /\ seen = [x \in Path |-> {}]
  /\ edits = 0 /\ plants = 0 /\ spent = 0

-----------------------------------------------------------------------------
\* pux_package_build

Children(d) == {x \in Path : Parent[x] = d /\ payload[x] # None}

\* What fopen and fread find: they follow a link.
Through(node) == IF node \in Target THEN Behind[node] ELSE node
Reading == [x \in Path |-> {payload[x]} \cup ({Through(payload[x])} \ {None})]

\* Whatever tree somebody has prepared is built, while nobody extracts the package, and
\* every build has a destination of its own.
StartBuild ==
  /\ build.pc = "idle" /\ \A p \in Proc : call[p].pc = "idle"
  /\ payload' \in {t \in [Path -> Node] : IsTree(t)}
  /\ build' = [NoBuild EXCEPT !.pc = "collect", !.todo = Children(Root)']
  /\ seen' = Reading'
  /\ dest' = NoTree /\ plants' = 0
  /\ UNCHANGED <<out, call, edits, spent>>

\* Between two builds the tree does not matter.
EndBuild ==
  /\ build' = NoBuild
  /\ payload' = NoTree /\ seen' = [x \in Path |-> {}] /\ edits' = 0

\* add_tree: lstat, readlink, readdir.
Collect ==
  /\ build.pc = "collect"
  /\ \E x \in build.todo :
       IF payload[x] = None THEN EndBuild
       ELSE /\ build' = [build EXCEPT
                 !.todo = (@ \ {x}) \cup IF payload[x] = Dir THEN Children(x) ELSE {},
                 !.entries = @ \cup {[path |-> x, node |-> payload[x]]}]
            /\ UNCHANGED <<payload, seen, edits>>
  /\ UNCHANGED <<out, spent>>

\* fopen "wb": an archive that is there already is truncated.
OpenOutput ==
  /\ build.pc = "collect" /\ build.todo = {}
  /\ out' = NoArchive
  /\ build' = [build EXCEPT !.pc = "write"]
  /\ UNCHANGED <<payload, seen, edits, spent>>

\* The entries are written in the order of their names (qsort, compare_entries): e is
\* the next one.
NextEntry(e) == e \in build.entries /\ \A f \in build.entries : Rank[e.path] <= Rank[f.path]

Write(e, node) ==
  /\ out' = [out EXCEPT !.members = Append(@, [path |-> e.path, node |-> node])]
  /\ build' = [build EXCEPT !.pc = "write", !.entries = @ \ {e}]
Abandon == build' = [build EXCEPT !.pc = "drop"] /\ UNCHANGED out

\* The entry is still of the kind it was when it was collected.  A file that has
\* become a link is taken for the file it leads to.
SameKind(e, node) == IF e.node \in Content THEN node \in Content \cup Target ELSE node = e.node

\* write_payload_entry, up to the header
WriteEntry ==
  /\ build.pc = "write"
  /\ \E e \in build.entries :
       LET now == payload[e.path] IN
       /\ NextEntry(e)
       /\ \/ ~SameKind(e, now) /\ Abandon
          \/ SameKind(e, now) /\ e.node \notin Content /\ Write(e, e.node)
          \/ /\ SameKind(e, now) /\ e.node \in Content
             /\ build' = [build EXCEPT !.pc = "copy", !.size = Size[now]]
             /\ UNCHANGED out
  /\ UNCHANGED <<payload, seen, edits, spent>>

\* copy_file: what is copied must have the size in the header.
CopyFile ==
  /\ build.pc = "copy"
  /\ \E e \in build.entries :
       LET read == Through(payload[e.path]) IN
       /\ NextEntry(e)
       /\ IF read \in Content /\ Size[read] = build.size THEN Write(e, read) ELSE Abandon
  /\ UNCHANGED <<payload, seen, edits, spent>>

\* write_zero_blocks, fclose
WriteEnd ==
  /\ build.pc = "write" /\ build.entries = {}
  /\ out' = [out EXCEPT !.whole = TRUE]
  /\ EndBuild
  /\ UNCHANGED spent

\* Faulty variant: the end is written also after a failure.
DropNothing ==
  /\ build.pc = "drop"
  /\ out' = [out EXCEPT !.whole = TRUE]
  /\ EndBuild
  /\ UNCHANGED spent

\* unlink(output_path)
Drop ==
  /\ build.pc = "drop"
  /\ out' = NoArchive
  /\ EndBuild
  /\ UNCHANGED spent

\* A call of the builder fails, or the builder is killed and leaves what it wrote.
BuildFault ==
  /\ build.pc # "idle" /\ spent < Limit /\ spent' = spent + 1
  /\ \/ build.pc \in {"write", "copy"} /\ Abandon /\ UNCHANGED <<payload, seen, edits>>
     \/ EndBuild /\ UNCHANGED out

\* Somebody edits the payload.
Edit ==
  /\ build.pc # "idle" /\ edits < MaxEdits /\ edits' = edits + 1
  /\ payload' \in {[payload EXCEPT ![x] = node] : x \in Path, node \in Node} \ {payload}
  /\ IsTree(payload')
  /\ seen' = [x \in Path |-> seen[x] \cup Reading'[x]]
  /\ UNCHANGED <<out, build, spent>>

-----------------------------------------------------------------------------
\* pux_package_archive_extract

End(p) == call' = [call EXCEPT ![p] = NoCall]
GoOn(p) == call' = [call EXCEPT ![p].pc = "member", ![p].next = @ + 1]

\* While the builder runs an extraction would meet a part of an archive, as it does
\* after a builder that was killed.
StartExtract(p) ==
  /\ call[p].pc = "idle" /\ build.pc = "idle"
  /\ call' = [call EXCEPT ![p].pc = "validate"]
  /\ UNCHANGED <<dest, plants, spent>>

\* Faulty variant: the end of the file is the end of the archive.
ValidateOpenEnd(p) ==
  /\ call[p].pc = "validate"
  /\ IF out # NoArchive THEN call' = [call EXCEPT ![p].pc = "member"] ELSE End(p)
  /\ UNCHANGED <<dest, plants, spent>>

\* pux_package_archive_validate, which reads to the second zero block.
Validate(p) ==
  /\ call[p].pc = "validate"
  /\ IF out.whole THEN call' = [call EXCEPT ![p].pc = "member"] ELSE End(p)
  /\ UNCHANGED <<dest, plants, spent>>

Current(p) == out.members[call[p].next]

\* Faulty variant: links on the way are followed.
ParentOpensThroughLinks(x) == Above(dest, x) \in {Dir} \cup Target

\* open_parent_dir: O_NOFOLLOW.  The parents are members of the archive and come first.
ParentOpens(x) == Above(dest, x) = Dir

\* extract_symlink, extract_regular_file up to its O_EXCL, extract_directory up to its
\* mkdirat.
ExtractMember(p) ==
  /\ call[p].pc = "member" /\ call[p].next <= Len(out.members)
  /\ LET x == Current(p).path
         node == Current(p).node
         free == ParentOpens(x) /\ dest[x] = None
     IN \/ /\ free /\ node \in Content
           /\ dest' = [dest EXCEPT ![x] = Part] /\ call' = [call EXCEPT ![p].pc = "copy"]
        \/ free /\ node \in Target /\ dest' = [dest EXCEPT ![x] = node] /\ GoOn(p)
        \/ free /\ node = Dir /\ call' = [call EXCEPT ![p].pc = "mkdir"] /\ UNCHANGED dest
        \/ ParentOpens(x) /\ node = Dir /\ dest[x] = Dir /\ GoOn(p) /\ UNCHANGED dest
        \/ /\ ~ParentOpens(x) \/ (dest[x] # None /\ ~(node = Dir /\ dest[x] = Dir))
           /\ End(p) /\ UNCHANGED dest
  /\ UNCHANGED <<plants, spent>>

\* mkdirat, where openat has found nothing: a directory that another extraction has made
\* meanwhile is an error, too.
MakeDirectory(p) ==
  /\ call[p].pc = "mkdir"
  /\ \/ /\ dest[Current(p).path] = None
        /\ dest' = [dest EXCEPT ![Current(p).path] = Dir] /\ GoOn(p)
     \/ dest[Current(p).path] # None /\ End(p) /\ UNCHANGED dest
  /\ UNCHANGED <<plants, spent>>

\* copy_member, fchmod, close
CopyMember(p) ==
  /\ call[p].pc = "copy"
  /\ dest' = [dest EXCEPT ![Current(p).path] = Current(p).node]
  /\ GoOn(p)
  /\ UNCHANGED <<plants, spent>>

\* unlinkat of the file that could not be written
DropMember(p) ==
  /\ call[p].pc = "drop"
  /\ dest' = [dest EXCEPT ![Current(p).path] = None]
  /\ End(p)
  /\ UNCHANGED <<plants, spent>>

ExtractEnds(p) ==
  /\ call[p].pc = "member" /\ call[p].next > Len(out.members)
  /\ call' = [call EXCEPT ![p].pc = "done"]
  /\ UNCHANGED <<dest, plants, spent>>

Return(p) == call[p].pc = "done" /\ End(p) /\ UNCHANGED <<dest, plants, spent>>

\* A call of the extraction fails, or the extraction is killed and leaves what it wrote.
ExtractFault(p) ==
  /\ call[p].pc \notin {"idle", "done"} /\ spent < Limit /\ spent' = spent + 1
  /\ \/ call[p].pc = "copy" /\ call' = [call EXCEPT ![p].pc = "drop"]
     \/ End(p)
  /\ UNCHANGED <<dest, plants>>

\* Somebody puts a file or a link in the destination.
Plant ==
  /\ build.pc = "idle" /\ plants < MaxPlants /\ plants' = plants + 1
  /\ \E x \in Path, node \in Content \cup Target :
       /\ dest[x] = None /\ ParentOpens(x)
       /\ dest' = [dest EXCEPT ![x] = node]
  /\ UNCHANGED <<call, spent>>

-----------------------------------------------------------------------------
Builder == Collect \/ OpenOutput \/ WriteEntry \/ CopyFile \/ WriteEnd
             \/ Drop \/ BuildFault \/ Edit
Extraction(p) == StartExtract(p) \/ Validate(p) \/ ExtractMember(p) \/ MakeDirectory(p)
                   \/ CopyMember(p) \/ DropMember(p) \/ ExtractEnds(p) \/ Return(p)
                   \/ ExtractFault(p)

Next ==
  \/ StartBuild
  \/ Builder /\ UNCHANGED extracting
  \/ (Plant \/ \E p \in Proc : Extraction(p)) /\ UNCHANGED building

Spec == Init /\ [][Next]_vars

-----------------------------------------------------------------------------
\* Properties

\* What pux validates was built to the end, by one build, whatever was edited, failed
\* or was killed meanwhile: its members are distinct and in the order of their names,
\* each below a directory that comes before it, and each is what reading its path gave
\* at some moment of that build; and what was there throughout the build is among them.
ValidIsBuilt ==
  [][out'.whole /\ out' # out => LET m == out'.members IN
       /\ \A j \in DOMAIN m :
            /\ m[j].node \in seen[m[j].path]
            /\ \A i \in DOMAIN m : i < j => Rank[m[i].path] < Rank[m[j].path]
            /\ Parent[m[j].path] = Root
                 \/ \E i \in DOMAIN m : i < j /\ m[i] = [path |-> Parent[m[j].path], node |-> Dir]
       /\ \A x \in Path : None \notin seen[x] => \E i \in DOMAIN m : m[i].path = x]_vars

\* An extraction that succeeds has put every member of an archive that was built to the
\* end in place, whole, also where another one runs, has failed or was killed in the
\* same destination.
SuccessIsWhole ==
  \A p \in Proc : call[p].pc = "done" =>
    out.whole /\ \A i \in DOMAIN out.members : dest[out.members[i].path] = out.members[i].node

\* "Existing regular files are never overwritten", and links "are never followed during
\* extraction": what is in the destination stays as it is, a file being written is
\* touched by the one that writes it only, and nothing lands behind a link.
ExistingStays ==
  [][/\ IsTree(dest')
     /\ \A x \in Path : build' = build /\ dest'[x] # dest[x] =>
          \/ dest[x] = None
          \/ dest[x] = Part /\ \E p \in Proc :
               call[p].pc \in {"copy", "drop"} /\ Current(p).path = x /\ call'[p] # call[p]]_vars
=============================================================================
