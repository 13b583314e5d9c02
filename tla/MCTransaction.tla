---------------------------- MODULE MCTransaction ----------------------------
(***************************************************************************)
(* A small installation for TLC: three package names in two versions each. *)
(*                                                                         *)
(*   base  1.9 provides api; 1.10 does not, adds usr/data and points its   *)
(*         link usr/lnk elsewhere.  1.9 also ships usr/a, a link that      *)
(*         sorts before its target usr/base.                               *)
(*   app   1.9 needs base >= 1.9, 1.10 needs api                           *)
(*   alt   1.9 provides api and ships usr/data, as base 1.10 does; 1.10    *)
(*         ships usr/alt instead and conflicts with app; the second        *)
(*         release of 1.10 makes usr/data a link to usr/base               *)
(***************************************************************************)
EXTENDS Transaction, SampleVersions

MCName == {"base", "app", "alt"}
MCPkg  == {"base1", "base2", "app1", "app2", "alt1", "alt2", "alt3"}
MCPath == {"opt", "opt/app", "usr", "usr/a", "usr/alt", "usr/base", "usr/data", "usr/lnk"}
MCTag  == MCPkg \cup MCPath \cup {"-", "user"}
MCCap  == MCName \cup {"api"}
MCUserPath == {"usr/data"}
MCUserNode == [kind |-> "f", tag |-> "user"]

MCVersion == {V9, V10}
MCCmp == VersionTable(V9, V10)

MCNameOf == [a \in MCPkg |-> CASE a \in {"base1", "base2"} -> "base"
                               [] a \in {"app1", "app2"}   -> "app"
                               [] OTHER                    -> "alt"]
MCVersionOf == [a \in MCPkg |-> IF a \in {"base1", "app1", "alt1"} THEN V9 ELSE V10]
MCReleaseOf == [a \in MCPkg |-> IF a = "alt3" THEN 2 ELSE 1]

Needs(cap) == [cap |-> cap, op |-> "any", ver |-> V9]
MCDepends == [a \in MCPkg |-> CASE a = "app1" -> {[cap |-> "base", op |-> "ge", ver |-> V9]}
                                [] a = "app2" -> {Needs("api")}
                                [] OTHER      -> {}]
MCProvides == [a \in MCPkg |-> IF a \in {"base1", "alt1"} THEN {"api"} ELSE {}]
MCConflicts == [a \in MCPkg |-> IF a = "alt2" THEN {Needs("app")} ELSE {}]

D == [kind |-> "d", tag |-> "-"]
N == [kind |-> "none", tag |-> "-"]
File(a)    == [kind |-> "f", tag |-> a]
Link(to)   == [kind |-> "l", tag |-> to]
Tree3(a, top, files) ==
  [q \in MCPath |-> IF q = top THEN D ELSE IF q \in files THEN File(a) ELSE N]

MCPayload == [a \in MCPkg |->
  CASE a = "base1" -> [Tree3(a, "usr", {"usr/base"}) EXCEPT
                         !["usr/a"] = Link("usr/base"), !["usr/lnk"] = Link("usr/base")]
    [] a = "base2" -> [Tree3(a, "usr", {"usr/base", "usr/data"}) EXCEPT
                         !["usr/lnk"] = Link("usr/data")]
    [] a \in {"app1", "app2"} -> Tree3(a, "opt", {"opt/app"})
    [] a = "alt1" -> Tree3(a, "usr", {"usr/data"})
    [] a = "alt2" -> Tree3(a, "usr", {"usr/alt"})
    [] a = "alt3" -> [Tree3(a, "usr", {}) EXCEPT !["usr/data"] = Link("usr/base")]]

MCAbove == [q \in MCPath |-> CASE q = "opt/app"       -> {"opt"}
                               [] q \in {"opt", "usr"} -> {}
                               [] OTHER                -> {"usr"}]
MCRank == [q \in MCPath |->
  CASE q = "opt" -> 1 [] q = "opt/app" -> 2 [] q = "usr" -> 3 [] q = "usr/a" -> 4
    [] q = "usr/alt" -> 5 [] q = "usr/base" -> 6 [] q = "usr/data" -> 7 [] OTHER -> 8]

MCMine == [p \in Proc |-> MCName]

\* The environment of each run: how many faults, lost entries, kills, edits.
Events(f, u, c, e) == [x \in Event |-> CASE x = "fault" -> f [] x = "untracked" -> u
                                         [] x = "crash" -> c [] OTHER -> e]
FaultsAndEdits == Events(1, 0, 0, 1)
OneFault == Events(1, 0, 0, 0)
Crashes == Events(0, 1, 1, 0)
Calm == Events(0, 0, 0, 0)
=============================================================================
