------------------------------- MODULE Resolver ------------------------------
(***************************************************************************)
(* The dependency resolver of pux (pux_resolve_package_plan in             *)
(* src/src/resolver.c).                                                    *)
(*                                                                         *)
(* resolve_requirement calls itself for the dependencies of the candidate  *)
(* it tries.  Here its activations are the frames of a stack, the          *)
(* innermost first, and one action is one turn of its two loops.  The      *)
(* state it shares between activations (struct solve_state) is the set of  *)
(* selected candidates, the plan and the number of steps.                  *)
(*                                                                         *)
(* The order of the dependencies in a manifest is left open.               *)
(***************************************************************************)
EXTENDS PackageDb, Sequences

CONSTANTS
  RsCmp,     \* RsCmp[<<v, w>>]: the sign of the resolver's compare_version
  FileRank,  \* the order of the candidates' file names under strcmp
  Native,    \* the candidates of the target architecture, or of any
  Archives,  \* the candidates that are .pux files, not loose manifests
  Catalogs,  \* the repositories: sets of candidates
  MaxSteps   \* PUX_RESOLVER_MAX_STEPS

ASSUME ResolverAssumption ==
  /\ RsCmp \in [Version \X Version -> {-1, 0, 1}]
  /\ FileRank \in [Pkg -> Nat]
  /\ \A a, b \in Pkg : FileRank[a] = FileRank[b] => a = b
  /\ Catalogs \subseteq SUBSET Pkg
  /\ MaxSteps \in Nat

VARIABLES
  catalog,   \* the candidates load_repository read
  request,   \* the package name that was asked for
  stack,     \* the activations of resolve_requirement
  selected,  \* the candidates that are marked as selected
  plan,      \* the candidates in the order they are to be installed
  steps,     \* how often resolve_requirement was called
  answer,    \* what the innermost activation has just returned, if it has
  outcome    \* how the whole search ended

vars == <<catalog, request, stack, selected, plan, steps, answer, outcome>>

\* An activation: what it has to satisfy, the matches it has not tried yet, the
\* one it is trying, that one's dependencies it has still to resolve, and the
\* length of the plan when it was chosen.
Frame == [req : Dep, left : SUBSET Pkg, cand : Pkg \cup {NoPkg},
          todo : SUBSET Dep, mark : Nat]

TypeOK ==
  /\ catalog \in Catalogs
  /\ request \in Cap
  /\ stack \in Seq(Frame)
  /\ selected \subseteq Pkg
  /\ plan \in Seq(Pkg)
  /\ steps \in 0..MaxSteps + 1
  /\ answer \in {"none", "met", "unmet"}
  /\ outcome \in {"none", "plan", "error"}

Planned == {plan[i] : i \in DOMAIN plan}
Pending == {stack[i].cand : i \in DOMAIN stack} \ {NoPkg}

-----------------------------------------------------------------------------
\* Candidates

\* candidate_match
Matches(a, req) == a \in Native /\ Meets(RsCmp, a, req)

\* candidate_preferred: a package of that name before one that provides it, the
\* newer before the older one, and at last the order of the file names.
Preferred(a, b, req) ==
  LET named(c) == NameOf[c] = req.cap
      order    == RsCmp[<<VersionOf[a], VersionOf[b]>>]
  IN  \/ named(a) /\ ~named(b)
      \/ /\ named(a) <=> named(b)
         /\ \/ order > 0
            \/ order = 0 /\ ReleaseOf[a] > ReleaseOf[b]
            \/ /\ order = 0 /\ ReleaseOf[a] = ReleaseOf[b]
               /\ FileRank[a] < FileRank[b]

Best(a, frame) ==
  a \in frame.left /\ \A b \in frame.left \ {a} : Preferred(a, b, frame.req)

\* selected_has_name
NameSelected(n) == \E a \in selected : NameOf[a] = n

\* requirement_satisfied
Satisfied(req) == \E a \in selected : Matches(a, req)

\* conflicts_supported
Supported(a) == \A c \in Conflicts[a] : c.op = "any"

Attacks(a, b) == \E c \in Conflicts[a] : HasCapability(b, c.cap)

\* Faulty variant: only the conflicts of the candidate itself.
RejectedOneWay(a) ==
  \/ ~Supported(a) \/ Attacks(a, a)
  \/ \E b \in selected : Attacks(a, b)

\* candidate_conflicts_with_selected: conflicts count in both directions, a
\* candidate may not be in conflict with itself, nor name a version.
Rejected(a) ==
  \/ ~Supported(a) \/ Attacks(a, a)
  \/ \E b \in selected : Attacks(a, b) \/ Attacks(b, a) \/ ~Supported(b)

-----------------------------------------------------------------------------
\* The search

Init ==
  /\ catalog \in Catalogs
  /\ request \in Cap
  /\ stack = <<>> /\ selected = {} /\ plan = <<>> /\ steps = 0
  /\ answer = "none" /\ outcome = "none"

Any(name) == [cap |-> name, op |-> "any", ver |-> CHOOSE v \in Version : TRUE]

\* The head of resolve_requirement, called for req with the given activations
\* below it: it returns at once or becomes an activation of its own.
Call(req, frames) ==
  LET matches == {a \in catalog : Matches(a, req)}
      over    == steps >= MaxSteps
      give(a) == answer' = a /\ stack' = frames
  IN  /\ steps' = IF steps > MaxSteps THEN steps ELSE steps + 1
      /\ IF ~over /\ Satisfied(req) THEN give("met")
         ELSE IF over \/ NameSelected(req.cap) \/ matches = {} THEN give("unmet")
         ELSE /\ answer' = "none"
              /\ stack' = <<[req |-> req, left |-> matches, cand |-> NoPkg,
                             todo |-> {}, mark |-> 0]>> \o frames

\* The root has to be the name of a candidate of the right architecture.
Start ==
  /\ outcome = "none" /\ stack = <<>> /\ answer = "none"
  /\ IF \E a \in catalog \cap Native : NameOf[a] = request
     THEN Call(Any(request), <<>>) /\ UNCHANGED outcome
     ELSE outcome' = "error" /\ UNCHANGED <<stack, steps, answer>>
  /\ UNCHANGED <<catalog, request, selected, plan>>

Active(pending) ==
  stack # <<>> /\ answer = "none" /\ (Head(stack).cand # NoPkg <=> pending)

\* The best match that is left is tried, unless its name is selected already or
\* it is in conflict.
Choose(a) ==
  /\ Active(FALSE)
  /\ Best(a, Head(stack))
  /\ LET frame == [Head(stack) EXCEPT !.left = @ \ {a}] IN
     IF NameSelected(NameOf[a]) \/ Rejected(a)
     THEN /\ stack' = <<frame>> \o Tail(stack)
          /\ UNCHANGED selected
     ELSE /\ stack' = <<[frame EXCEPT !.cand = a, !.todo = Depends[a], !.mark = Len(plan)]>>
                        \o Tail(stack)
          /\ selected' = selected \cup {a}
  /\ UNCHANGED <<catalog, request, plan, steps, answer, outcome>>

\* No match is left.
GiveUp ==
  /\ Active(FALSE)
  /\ Head(stack).left = {}
  /\ stack' = Tail(stack)
  /\ answer' = "unmet"
  /\ UNCHANGED <<catalog, request, selected, plan, steps, outcome>>

\* The next dependency of the candidate.
Resolve(dep) ==
  /\ Active(TRUE)
  /\ dep \in Head(stack).todo
  /\ Call(dep, <<[Head(stack) EXCEPT !.todo = @ \ {dep}]>> \o Tail(stack))
  /\ UNCHANGED <<catalog, request, selected, plan, outcome>>

\* A dependency is met: on to the next one.
GoOn ==
  /\ stack # <<>> /\ answer = "met"
  /\ answer' = "none"
  /\ UNCHANGED <<catalog, request, stack, selected, plan, steps, outcome>>

\* Faulty variant: nothing but the plan stays selected.
RetractToPlan ==
  /\ stack # <<>> /\ answer = "unmet"
  /\ plan' = SubSeq(plan, 1, Head(stack).mark)
  /\ selected' = {plan[i] : i \in 1..Head(stack).mark}
  /\ stack' = <<[Head(stack) EXCEPT !.cand = NoPkg, !.todo = {}, !.mark = 0]>> \o Tail(stack)
  /\ answer' = "none"
  /\ UNCHANGED <<catalog, request, steps, outcome>>

\* Faulty variant: the candidate is tried once more.
RetractAndRetry ==
  /\ stack # <<>> /\ answer = "unmet"
  /\ selected' = selected \ {Head(stack).cand}
  /\ plan' = SubSeq(plan, 1, Head(stack).mark)
  /\ stack' = <<[Head(stack) EXCEPT !.cand = NoPkg, !.left = @ \cup {Head(stack).cand},
                                    !.todo = {}, !.mark = 0]>> \o Tail(stack)
  /\ answer' = "none"
  /\ UNCHANGED <<catalog, request, steps, outcome>>

\* A dependency is not met: the candidate is not selected any longer and the plan
\* is cut back.  What was selected for its other dependencies stays selected.
Retract ==
  /\ stack # <<>> /\ answer = "unmet"
  /\ selected' = selected \ {Head(stack).cand}
  /\ plan' = SubSeq(plan, 1, Head(stack).mark)
  /\ stack' = <<[Head(stack) EXCEPT !.cand = NoPkg, !.todo = {}, !.mark = 0]>> \o Tail(stack)
  /\ answer' = "none"
  /\ UNCHANGED <<catalog, request, steps, outcome>>

\* Faulty variant: the candidate goes before what it needs.
AcceptInFront ==
  /\ Active(TRUE)
  /\ Head(stack).todo = {}
  /\ plan' = <<Head(stack).cand>> \o plan
  /\ stack' = Tail(stack)
  /\ answer' = "met"
  /\ UNCHANGED <<catalog, request, selected, steps, outcome>>

\* All dependencies are met: the candidate goes to the end of the plan.
Accept ==
  /\ Active(TRUE)
  /\ Head(stack).todo = {}
  /\ plan' = Append(plan, Head(stack).cand)
  /\ stack' = Tail(stack)
  /\ answer' = "met"
  /\ UNCHANGED <<catalog, request, selected, steps, outcome>>

\* resolve_conflicts_in_plan
Peaceful ==
  \A i, j \in DOMAIN plan : i # j => Supported(plan[i]) /\ ~Attacks(plan[i], plan[j])

\* The first activation has returned.  The plan is handed out when it passes
\* resolve_conflicts_in_plan and has archives only.
Finish ==
  /\ outcome = "none" /\ stack = <<>> /\ answer # "none"
  /\ outcome' = IF answer = "met" /\ Peaceful /\ Planned \subseteq Archives
                THEN "plan" ELSE "error"
  /\ UNCHANGED <<catalog, request, stack, selected, plan, steps, answer>>

Next ==
  \/ Start \/ GiveUp \/ GoOn \/ Retract \/ Accept \/ Finish
  \/ \E a \in Pkg : Choose(a)
  \/ \E dep \in Dep : Resolve(dep)

\* The search is one running process.
Spec == Init /\ [][Next]_vars /\ WF_vars(Next)

-----------------------------------------------------------------------------
\* Properties

\* Dependency cycles end: a candidate is never tried while it is being tried
\* further out, so resolve_requirement is at most as deep as there are names.
NoEndlessDescent ==
  /\ Pending \subseteq selected
  /\ \A i, j \in DOMAIN stack : i < j => /\ stack[j].cand # NoPkg
                                       /\ stack[j].cand # stack[i].cand

\* What is selected can be installed together: one version of a name and no
\* conflict in either direction, whatever was selected and retracted on the way.
SelectionSound ==
  \A a, b \in selected : a # b => NameOf[a] # NameOf[b] /\ ~Attacks(a, b)

\* The plan holds each candidate once, only selected ones, and none that is still
\* being tried, so cutting it back to a mark never cuts off anything else.
PlanSound ==
  /\ \A i, j \in DOMAIN plan : plan[i] = plan[j] => i = j
  /\ Planned \subseteq selected \ Pending
  /\ \A i \in DOMAIN stack : stack[i].mark <= Len(plan)

\* A successful search never fails in the second conflict check.
ConflictsFoundInTime == answer = "met" => Peaceful

\* b meets a dependency of a.
Needs(a, b) == \E dep \in Depends[a] : Matches(b, dep)

\* ... or one of something that a needs, and so on.
NeedsInTheEnd(a, b) ==
  \A S \in SUBSET catalog :
    (\A c \in {a} \cup S : \A d \in catalog : Needs(c, d) => d \in S) => b \in S

\* A plan is an order of installation that ends with what was asked for: every
\* dependency is met by an earlier member, or by a later one that needs this one
\* in turn (a cycle).  What was selected and is not planned, the left-over of a
\* candidate that was retracted, is left aside: see PlanComplete.
PlanInOrder ==
  outcome = "plan" =>
    /\ plan # <<>> /\ Matches(plan[Len(plan)], Any(request))
    /\ \A i \in DOMAIN plan : \A dep \in Depends[plan[i]] :
         \/ \E a \in selected \ Planned : Matches(a, dep)
         \/ \E j \in DOMAIN plan : /\ Matches(plan[j], dep)
                                   /\ j < i \/ NeedsInTheEnd(plan[j], plan[i])

\* A plan holds everything that its members depend on.
PlanComplete ==
  outcome = "plan" =>
    \A a \in Planned : \A dep \in Depends[a] : \E b \in Planned : Matches(b, dep)

\* When the repository offers the package in several versions, none of which
\* depends on anything, the plan is for the highest of them (in the order that
\* the database uses).
HighestIsTaken ==
  LET offers == {a \in catalog \cap Native : NameOf[a] = request}
      easy   == \A a \in offers : Depends[a] = {} /\ Conflicts[a] = {}
  IN  outcome = "plan" /\ easy =>
        \A a \in offers : DbCmp[<<VersionOf[a], VersionOf[plan[Len(plan)]]>>] <= 0

\* The search ends.
Ends == <>(outcome # "none")
=============================================================================
