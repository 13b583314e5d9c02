------------------------------ MODULE MCParallel ------------------------------
(***************************************************************************)
(* Two commands side by side, about packages that have nothing but         *)
(* directories in common: base and tool both live in usr, and tool and the *)
(* second version of base have files or want room in usr/more.             *)
(***************************************************************************)
EXTENDS Transaction

MCName == {"base", "tool"}
MCPkg  == {"base1", "base2", "tool1"}
MCPath == {"usr", "usr/base", "usr/more", "usr/more/x"}
MCTag  == MCPkg \cup MCPath \cup {"-"}

MCNameOf == [a \in MCPkg |-> IF a = "tool1" THEN "tool" ELSE "base"]
MCVersion == 1..2
MCVersionOf == [a \in MCPkg |-> IF a = "base2" THEN 2 ELSE 1]
MCReleaseOf == [a \in MCPkg |-> 1]
MCCmp == [vw \in MCVersion \X MCVersion |-> vw[1] - vw[2]]
Nothing == [a \in MCPkg |-> {}]

D == [kind |-> "d", tag |-> "-"]
N == [kind |-> "none", tag |-> "-"]
F(a) == [kind |-> "f", tag |-> a]
MCUserNode == F("-")

Ships(dirs, files, nodeOf) ==
  [q \in MCPath |-> IF q \in dirs THEN D ELSE IF q \in files THEN nodeOf ELSE N]
MCPayload == [a \in MCPkg |->
  CASE a = "base1" -> Ships({"usr"}, {"usr/base"}, F(a))
    [] a = "base2" -> Ships({"usr", "usr/more"}, {"usr/base"}, F(a))
    [] a = "tool1" -> Ships({"usr", "usr/more"}, {"usr/more/x"}, F(a))]

MCAbove == [q \in MCPath |-> CASE q = "usr"        -> {}
                               [] q = "usr/more/x" -> {"usr", "usr/more"}
                               [] OTHER            -> {"usr"}]
MCRank == [q \in MCPath |->
  CASE q = "usr" -> 1 [] q = "usr/base" -> 2 [] q = "usr/more" -> 3 [] OTHER -> 4]

MCMine == [p \in Proc |-> IF p = "p1" THEN {"base"} ELSE {"tool"}]
OneFault == [e \in Event |-> IF e = "fault" THEN 1 ELSE 0]
===============================================================================
