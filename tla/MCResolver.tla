----------------------------- MODULE MCResolver ------------------------------
(***************************************************************************)
(* Repositories for the resolver: every set of ten candidates, beside one  *)
(* for another architecture, and every name and capability asked for.      *)
(*                                                                         *)
(*   app   1.9 needs lib and api, 1.10 needs lib >= 1.10 and tool          *)
(*   lib   1.9, 1.10, and 1.10 for another architecture                    *)
(*   core  provides api, needs lib = 1.9                                   *)
(*   alt   provides api, conflicts with tool; there is a loose manifest of *)
(*         a later release of it                                           *)
(*   hub   provides api too and is newer, needs core and tool              *)
(*   tool  needs app: a cycle                                              *)
(*   kit   needs api and tool                                              *)
(***************************************************************************)
EXTENDS Resolver, SampleVersions

MCName == {"app", "lib", "core", "alt", "hub", "tool", "kit"}
MCCap  == MCName \cup {"api"}
MCPkg  == {"app9", "app10", "lib9", "lib10", "libx", "core", "alt1", "alt2",
           "hub", "tool", "kit"}
MCVersion == {V9, V10}

MCNameOf == [a \in MCPkg |-> CASE a \in {"app9", "app10"}         -> "app"
                               [] a \in {"lib9", "lib10", "libx"} -> "lib"
                               [] a \in {"alt1", "alt2"}          -> "alt"
                               [] OTHER                           -> a]
MCVersionOf == [a \in MCPkg |-> IF a \in {"app10", "lib10", "libx", "hub"} THEN V10 ELSE V9]
MCReleaseOf == [a \in MCPkg |-> IF a = "alt2" THEN 2 ELSE 1]

On(cap) == [cap |-> cap, op |-> "any", ver |-> V9]
MCDepends == [a \in MCPkg |->
  CASE a = "app9"  -> {On("lib"), On("api")}
    [] a = "app10" -> {[cap |-> "lib", op |-> "ge", ver |-> V10], On("tool")}
    [] a = "core"  -> {[cap |-> "lib", op |-> "eq", ver |-> V9]}
    [] a = "hub"   -> {On("core"), On("tool")}
    [] a = "tool"  -> {On("app")}
    [] a = "kit"   -> {On("api"), On("tool")}
    [] OTHER       -> {}]
MCProvides == [a \in MCPkg |-> IF a \in {"core", "alt1", "alt2", "hub"} THEN {"api"} ELSE {}]
MCConflicts == [a \in MCPkg |-> IF a \in {"alt1", "alt2"} THEN {On("tool")} ELSE {}]

\* The resolver does not look at payloads.
MCPath == {"usr"}
MCPayload == [a \in MCPkg |-> [q \in MCPath |-> [kind |-> "d", tag |-> "-"]]]

\* The documented order of versions, and the one that the resolver has where
\* isdigit answers yes by another value than 1.
MCCmp == VersionTable(V9, V10)
MCGlibcCmp == VersionTable(V10, V9)

MCNative == MCPkg \ {"libx"}
MCArchives == MCPkg \ {"alt2"}
MCCatalogs == {{"libx"} \cup S : S \in SUBSET MCNative}
MCFileRank == [a \in MCPkg |->
  CASE a = "alt1" -> 1 [] a = "alt2" -> 2 [] a = "app10" -> 3 [] a = "app9" -> 4 [] a = "core" -> 5
    [] a = "lib10" -> 6 [] a = "lib9" -> 7 [] a = "libx" -> 8 [] a = "tool" -> 9
    [] a = "hub" -> 10 [] OTHER -> 11]
=============================================================================
