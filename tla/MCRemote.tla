------------------------------ MODULE MCRemote -------------------------------
(***************************************************************************)
(* Repositories, as the commands use them.  The two modules have nothing   *)
(* to do with each other, so that a behaviour is about one of them:        *)
(*                                                                         *)
(*   update   two updates of one repository, one of which requires a       *)
(*            signature; the server publishes two editions, and one call   *)
(*            fails or one update is killed                                *)
(*   client   commands over the repositories old, new, mixed and odd, one  *)
(*            of them or two in a row                                      *)
(*                                                                         *)
(*   app   1.9 needs lib, 1.10 needs lib >= 1.10 and api                   *)
(*   lib   1.9, 1.10, which conflicts with suite                           *)
(*   plug  provides api, needs lib                                         *)
(*   suite provides app, needs lib = 1.9                                   *)
(***************************************************************************)
EXTENDS Client, RepoUpdate, SampleVersions

VARIABLE part  \* "update" or "client"

ASSUME UpdateAssumption == ConstantsOK

MCName == {"app", "lib", "plug", "suite"}
MCCap  == MCName \cup {"api"}
MCPkg  == {"app9", "app10", "lib9", "lib10", "plug", "suite"}
MCVersion == {V9, V10}

MCNameOf == [a \in MCPkg |-> CASE a \in {"app9", "app10"} -> "app"
                               [] a \in {"lib9", "lib10"} -> "lib"
                               [] OTHER                   -> a]
MCVersionOf == [a \in MCPkg |-> IF a \in {"app10", "lib10"} THEN V10 ELSE V9]
MCReleaseOf == [a \in MCPkg |-> 1]
On(cap) == [cap |-> cap, op |-> "any", ver |-> V9]
Lib(op, v) == [cap |-> "lib", op |-> op, ver |-> v]
MCDepends == [a \in MCPkg |-> CASE a = "app9"  -> {On("lib")}
                                [] a = "app10" -> {Lib("ge", V10), On("api")}
                                [] a = "plug"  -> {On("lib")}
                                [] a = "suite" -> {Lib("eq", V9)}
                                [] OTHER       -> {}]
MCProvides == [a \in MCPkg |-> CASE a = "plug"  -> {"api"}
                                 [] a = "suite" -> {"app"}
                                 [] OTHER       -> {}]
MCConflicts == [a \in MCPkg |-> IF a = "lib10" THEN {On("suite")} ELSE {}]

\* The client does not look at payloads.
MCPath == {"usr"}
MCPayload == [a \in MCPkg |-> [q \in MCPath |-> [kind |-> "d", tag |-> "-"]]]

MCCmp == VersionTable(V9, V10)
MCFileRank == [a \in MCPkg |-> CASE a = "app10" -> 1 [] a = "app9" -> 2 [] a = "lib10" -> 3
                                 [] a = "lib9" -> 4 [] a = "plug" -> 5 [] OTHER -> 6]

Old   == {"app9", "lib9"}
New   == {"app10", "lib10", "plug"}
Mixed == {"app9", "lib10", "plug"}
Odd   == {"app10", "suite", "lib9"}
MCCatalogs == {Old, New, Mixed, Odd}
MCConfigurations ==
  [1..1 -> MCCatalogs] \cup {rs \in [1..2 -> MCCatalogs] : rs[1] # rs[2]}

-----------------------------------------------------------------------------
\* A behaviour about updates has the first of the configurations of the client.
RemoteInit ==
  /\ part \in {"update", "client"}
  /\ UpdateInit
  /\ ClientInit /\ (part = "update" => repos = <<Old>> /\ catalog = Old /\ request = "app")

RemoteNext ==
  /\ \/ part = "update" /\ UpdateNext /\ UNCHANGED clientVars
     \/ part = "client" /\ ClientNext /\ UNCHANGED updateVars
  /\ UNCHANGED part

\* Fairness is that of the two modules: a running command goes on.  Each step of an
\* update changes upd.
RemoteSpec ==
  /\ RemoteInit /\ [][RemoteNext]_<<part, updateVars, clientVars>>
  /\ WF_clientVars(part = "client" /\ Work)
  /\ \A p \in Proc : WF_upd(part = "update" /\ UpdateWork(p))

TypesOK == ClientTypeOK /\ UpdateTypeOK

\* Every command ends, however many repositories it has to ask, and every update,
\* also where another has moved the files away that it was about to move.
CommandsEnd == ClientEnds /\ Terminates
=============================================================================
