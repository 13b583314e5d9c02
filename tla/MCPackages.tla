------------------------------ MODULE MCPackages -----------------------------
(***************************************************************************)
(* Packages and their versions.  The three have nothing to do with each    *)
(* other, so that a behaviour is about one of them:                        *)
(*                                                                         *)
(*   archive   a package is built and extracted.  Its payload is made from *)
(*             a directory with one entry and another entry beside it, two *)
(*             contents of different lengths, and a link as long as the    *)
(*             content behind it                                           *)
(*   versions  a walk through all triples of versions of bounded total     *)
(*             length, one character at a time                             *)
(*   cache     packages get from a repository to an installation.  app has *)
(*             three versions, of which the second does without lib, and   *)
(*             lib has two.  What happens to them is within one of the     *)
(*             Mixes: two commands, an update that is rolled back, or      *)
(*             updates that overtake each other                            *)
(***************************************************************************)
EXTENDS Archive, VersionWalk, RepoCache, SampleVersions, TLC

VARIABLE part \* "archive", "versions" or "cache"

Symmetry == Permutations(Proc) \cup Permutations(Command) \cup Permutations(Update)

MCPath == {"bin", "bin/run", "doc"}
MCParent == [x \in MCPath |-> IF x = "bin/run" THEN "bin" ELSE "root"]
MCRank == [x \in MCPath |-> IF x = "bin" THEN 1 ELSE IF x = "bin/run" THEN 2 ELSE 3]
MCContent == {"short", "long"}
MCBehind == [t \in {"link"} |-> "short"]
MCSize == [x \in MCContent \cup {"link"} |-> IF x = "long" THEN 2 ELSE 1]

MCChar == {Separator, 0, 1, LetterB}

MCFile == {"app", "lib"}
MCHolds == [f \in MCFile |-> IF f = "app" THEN {"v1", "v2", "v3"} ELSE {"v1", "v2"}]
MCPackage == MCHolds["app"]
MCFirst == [f \in MCFile |-> "v1"]
MCAge == [c \in MCPackage |-> CASE c = "v1" -> 1 [] c = "v2" -> 2 [] OTHER -> 3]
MCPlanOf == [c \in MCPackage |-> IF c = "v2" THEN <<"app">> ELSE <<"lib", "app">>]

\* Bounds: how many publications, updates, installing commands and faults one behaviour
\* has.  The last two bring back an old index: the second of three updates is taken back,
\* or the third of four puts in place what it has downloaded before the second did.
Mix(publish, fetch, begin, fail) ==
  [published |-> publish, fetched |-> fetch, begun |-> begin, lost |-> fail]
Mixes == {Mix(1, 2, 2, 0), Mix(1, 1, 2, 1), Mix(2, 2, 1, 1), Mix(1, 3, 1, 1), Mix(1, 4, 1, 0)}
Within(m) == published <= m.published /\ fetched <= m.fetched /\ begun <= m.begun
               /\ lost <= m.lost
Affordable == {m \in Mixes : Within(m)} # {}

PackagesInit ==
  /\ part \in {"archive", "versions", "cache"}
  /\ Init
  /\ WalkInit
  /\ CacheInit

PackagesNext ==
  /\ \/ part = "archive" /\ Next /\ UNCHANGED <<triple, cacheVars>>
     \/ part = "versions" /\ Grow /\ UNCHANGED <<vars, cacheVars>>
     \/ part = "cache" /\ CacheNext /\ UNCHANGED <<vars, triple>> /\ Affordable'
  /\ UNCHANGED part

PackagesSpec == PackagesInit /\ [][PackagesNext]_<<part, vars, triple, cacheVars>>
=============================================================================
