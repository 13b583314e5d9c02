-------------------------------- MODULE MCSkew --------------------------------
(***************************************************************************)
(* Versions the two comparators order differently: 1.9b and 1.10b.  The    *)
(* database (db.c) says 1.10b is the newer one, the transaction engine     *)
(* (transaction.c) says 1.9b is.  app needs base >= 1.10b.                 *)
(***************************************************************************)
EXTENDS Transaction, SampleVersions

MCName == {"base", "app"}
MCPkg  == {"base9", "base10", "app"}
MCPath == {"base", "app"}
MCTag  == MCPkg \cup {"-"}

MCVersion == {V9b, V10b}
MCDbCmp == VersionTable(V9b, V10b)
MCTxCmp == VersionTable(V10b, V9b)

MCNameOf == [a \in MCPkg |-> IF a = "app" THEN "app" ELSE "base"]
MCVersionOf == [a \in MCPkg |-> IF a = "base9" THEN V9b ELSE V10b]
MCReleaseOf == [a \in MCPkg |-> 1]
MCDepends == [a \in MCPkg |-> IF a = "app" THEN {[cap |-> "base", op |-> "ge", ver |-> V10b]}
                                           ELSE {}]
Nothing == [a \in MCPkg |-> {}]

MCUserNode == [kind |-> "f", tag |-> "-"]
MCPayload == [a \in MCPkg |-> [q \in MCPath |->
  IF q = MCNameOf[a] THEN [kind |-> "f", tag |-> a] ELSE [kind |-> "none", tag |-> "-"]]]
MCAbove == [q \in MCPath |-> {}]
MCRank == [q \in MCPath |-> IF q = "app" THEN 1 ELSE 2]

MCMine == [p \in Proc |-> MCName]
Calm == [e \in Event |-> 0]
===============================================================================
