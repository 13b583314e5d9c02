------------------------------- MODULE Client --------------------------------
(***************************************************************************)
(* pux install NAME and pux upgrade NAME (src/src/cli.c): one command asks *)
(* the configured repositories in turn, has the resolver make a plan and   *)
(* executes it package by package.  With a repository directory on the     *)
(* command line there is just that one repository.                         *)
(*                                                                         *)
(* The resolver is the state machine of module Resolver, which this module *)
(* extends: a search is the variables vars of that module, and a turn of   *)
(* it its Next.  The transaction engine is used as module Transaction      *)
(* implements it: a package is installed or upgraded in one step when the  *)
(* engine's dependency checks pass, or not at all.  Commands run one at a  *)
(* time.                                                                   *)
(***************************************************************************)
EXTENDS Resolver

CONSTANT Configurations  \* the lists of enabled repositories, by their catalogs

ASSUME ClientAssumption == Configurations \subseteq Seq(Catalogs) \ {<<>>}

VARIABLES
  db,       \* the package database
  command,  \* the command that is running: "none", "install" or "upgrade"
  phase,    \* what it is at
  repos,    \* its repositories
  at,       \* the one it is trying
  pos,      \* the member of the plan it is to execute next
  result    \* how the last command ended

client     == <<db, command, phase, repos, at, pos, result>>
clientVars == <<vars, client>>

Phase == {"idle", "resolve", "check", "run"}

ClientTypeOK ==
  /\ TypeOK
  /\ db \in Records
  /\ command \in {"none", "install", "upgrade"}
  /\ phase \in Phase /\ (phase = "idle" <=> command = "none")
  /\ repos \in Configurations
  /\ at \in DOMAIN repos
  /\ pos \in Nat /\ (phase = "run" => pos \in 1..Len(plan) + 1)
  /\ result \in {"none", "success", "failure"}

ClientInit ==
  /\ Init
  /\ db = [n \in Name |-> NoPkg]
  /\ command = "none" /\ phase = "idle" /\ repos \in Configurations
  /\ at = 1 /\ pos = 1 /\ result = "none"

-----------------------------------------------------------------------------
\* Resolving

\* A new search in catalog c.
Reset(c) ==
  /\ catalog' = c /\ stack' = <<>> /\ selected' = {} /\ plan' = <<>>
  /\ steps' = 0 /\ answer' = "none" /\ outcome' = "none"

Begin(op, name, rs) ==
  /\ phase = "idle"
  /\ command' = op /\ request' = name /\ repos' = rs
  /\ phase' = "resolve" /\ at' = 1 /\ pos' = 1 /\ result' = "none"
  /\ Reset(rs[1])
  /\ UNCHANGED db

End(how) ==
  /\ phase' = "idle" /\ command' = "none" /\ result' = how

\* Faulty variant: the last repository is asked once more.
NextRepositoryForever ==
  /\ phase' = "resolve" /\ pos' = 1 /\ at' = IF at < Len(repos) THEN at + 1 ELSE at
  /\ Reset(repos[at'])
  /\ UNCHANGED <<request, command, repos, result>>

\* A repository that fails, for whatever reason and however much of its plan has
\* been executed, makes room for the next one.
NextRepository ==
  /\ IF at < Len(repos)
     THEN /\ phase' = "resolve" /\ at' = at + 1 /\ pos' = 1
          /\ Reset(repos[at + 1])
          /\ UNCHANGED <<request, command, result>>
     ELSE End("failure") /\ UNCHANGED <<vars, at, pos>>
  /\ UNCHANGED repos

Search ==
  /\ phase = "resolve"
  /\ Next
  /\ UNCHANGED client

Resolved ==
  /\ phase = "resolve" /\ outcome # "none"
  /\ IF outcome = "plan"
     THEN /\ phase' = IF command = "install" THEN "check" ELSE "run"
          /\ UNCHANGED <<vars, command, repos, at, pos, result>>
     ELSE NextRepository
  /\ UNCHANGED db

-----------------------------------------------------------------------------
\* Executing the plan

\* manifests_match_exact
Same(a, b) ==
  NameOf[a] = NameOf[b] /\ VersionOf[a] = VersionOf[b] /\ ReleaseOf[a] = ReleaseOf[b]

Record(a) == db[NameOf[a]]

Fits(a) == Record(a) # NoPkg => Same(a, Record(a))

\* An install makes sure first that no member of the plan is installed in another
\* version (install_from_repository_policy).
CheckPlan ==
  /\ phase = "check"
  /\ IF \A i \in DOMAIN plan : Fits(plan[i])
     THEN phase' = "run" /\ UNCHANGED <<vars, command, repos, at, pos, result>>
     ELSE NextRepository
  /\ UNCHANGED db

\* Nothing to be done for a: it is installed, in this or in a newer version.
UpToDate(a) ==
  /\ Record(a) # NoPkg
  /\ IF command = "install" THEN Same(a, Record(a)) ELSE ~Newer(a, Record(a))

\* The checks of pux_install_package and pux_upgrade_package.
EngineAccepts(a) ==
  IF Record(a) = NoPkg
  THEN DependenciesMet(db, a)
  ELSE /\ command = "upgrade" /\ Newer(a, Record(a))
       /\ ReplacementMet(db, a, Record(a)) /\ DependentsMet(db, a, Record(a))
       /\ ConflictFree(db, a, Record(a))

\* Faulty variant: the loop starts with the second member.
ExecuteFromSecond ==
  /\ phase = "run" /\ pos <= Len(plan)
  /\ db' = IF ~UpToDate(plan[pos]) /\ EngineAccepts(plan[pos]) /\ pos > 1
           THEN Registered(db, plan[pos]) ELSE db
  /\ pos' = pos + 1
  /\ UNCHANGED <<vars, command, phase, repos, at, result>>

\* The next member of the plan.
Execute ==
  /\ phase = "run" /\ pos <= Len(plan)
  /\ \/ /\ UpToDate(plan[pos])
        /\ pos' = pos + 1
        /\ UNCHANGED <<vars, db, command, phase, repos, at, result>>
     \/ /\ ~UpToDate(plan[pos]) /\ EngineAccepts(plan[pos])
        /\ db' = Registered(db, plan[pos])
        /\ pos' = pos + 1
        /\ UNCHANGED <<vars, command, phase, repos, at, result>>
     \/ /\ ~UpToDate(plan[pos]) /\ ~EngineAccepts(plan[pos])
        /\ NextRepository
        /\ UNCHANGED db

\* A download, a verification or the transaction fails for another reason.
Fail ==
  /\ phase \in {"check", "run"} /\ pos <= Len(plan)
  /\ NextRepository
  /\ UNCHANGED db

\* Faulty variant: the loop ends one member early.
DoneEarly ==
  /\ phase = "run" /\ pos >= Len(plan)
  /\ End("success")
  /\ UNCHANGED <<vars, db, repos, at, pos>>

\* The plan is done.  An upgrade fails when its plan has no package of the name
\* that was asked for (root_seen); an install does not ask.
Done ==
  /\ phase = "run" /\ pos > Len(plan)
  /\ IF command = "upgrade" /\ \A i \in DOMAIN plan : NameOf[plan[i]] # request
     THEN NextRepository
     ELSE End("success") /\ UNCHANGED <<vars, repos, at, pos>>
  /\ UNCHANGED db

\* pux remove, as the engine does it.
Remove(n) ==
  /\ phase = "idle"
  /\ db[n] # NoPkg /\ ~HasReverseDependency(db, db[n])
  /\ db' = Unregistered(db, n)
  /\ UNCHANGED <<vars, command, phase, repos, at, pos, result>>

Work == Search \/ Resolved \/ CheckPlan \/ Execute \/ Done

ClientNext ==
  \/ Work \/ Fail
  \/ \E name \in Cap, rs \in Configurations :
       Begin("install", name, rs) \/ Begin("upgrade", name, rs)
  \/ \E n \in Name : Remove(n)

\* A command goes on by itself until it ends.
ClientSpec == ClientInit /\ [][ClientNext]_clientVars /\ WF_clientVars(Work)

-----------------------------------------------------------------------------
\* Properties

\* Every dependency of a member is met by a member before it.
InOrder ==
  \A i \in DOMAIN plan : \A dep \in Depends[plan[i]] :
    \E j \in 1..(i - 1) : RequirementMatches(plan[j], dep)

\* A plan in that order is executed without the engine ever refusing a member for
\* its dependencies: the resolver and the engine mean the same by "met", and what
\* was installed before the command does no harm.
PlanExecutable ==
  command = "install" /\ phase = "run" /\ pos <= Len(plan) /\ InOrder =>
    UpToDate(plan[pos]) \/ EngineAccepts(plan[pos])

\* a is older than b, as the database orders versions.
Below(a, b) ==
  LET order == DbCmp[<<VersionOf[a], VersionOf[b]>>]
  IN  order < 0 \/ (order = 0 /\ ReleaseOf[a] < ReleaseOf[b])

\* A command that succeeds has delivered: after an install every member of its
\* plan is installed as planned, after an upgrade none is older than planned.
SuccessDelivers ==
  [][phase = "run" /\ result' = "success" =>
       \A i \in DOMAIN plan :
         /\ Record(plan[i]) # NoPkg
         /\ ~Below(Record(plan[i]), plan[i])
         /\ command = "install" => Same(plan[i], Record(plan[i]))]_clientVars

\* Installing never changes an installed package, whatever repositories a command
\* falls back on, and upgrading never makes one older.
VersionsOnlyGrow ==
  [][\A n \in Installed(db) : db'[n] \notin {db[n], NoPkg} =>
       command = "upgrade" /\ Below(db[n], db'[n])]_clientVars

\* Every command ends, however many repositories it has to ask.
ClientEnds == command # "none" ~> command = "none"
=============================================================================
