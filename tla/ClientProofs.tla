----------------------------- MODULE ClientProofs -----------------------------
(***************************************************************************)
(* Theorems about the dependency resolver, for every catalog, request and  *)
(* step limit, and about pux install NAME and pux upgrade NAME, which use  *)
(* it, for any packages, repositories and sequences of commands.  The      *)
(* client takes the resolver with all its steps: that a plan names every   *)
(* package once is a lemma of the resolver's.                              *)
(***************************************************************************)
EXTENDS Client, SequenceTheorems, TLAPS

-----------------------------------------------------------------------------
\* What the actions do to the stack

\* Calling for a requirement puts a frame on top.
LEMMA Pushed ==
  ASSUME NEW s \in Seq(Frame), NEW f \in Frame
  PROVE  LET t == <<f>> \o s IN
         /\ t \in Seq(Frame) /\ t # <<>> /\ Len(t) = Len(s) + 1
         /\ t[1] = f /\ \A i \in 2..Len(t) : t[i] = s[i - 1]
<1>1. <<f>> \in Seq(Frame) /\ Len(<<f>>) = 1 /\ <<f>>[1] = f
  OBVIOUS
<1> QED
  BY <1>1, ConcatProperties, LenProperties

\* Returning takes the top frame away.
LEMMA Popped ==
  ASSUME NEW s \in Seq(Frame), s # <<>>
  PROVE  /\ Tail(s) \in Seq(Frame) /\ Len(Tail(s)) = Len(s) - 1
         /\ \A i \in 1..Len(Tail(s)) : Tail(s)[i] = s[i + 1]
BY HeadTailProperties

\* A turn of a loop changes the top frame.
LEMMA Replaced ==
  ASSUME NEW s \in Seq(Frame), s # <<>>, NEW f \in Frame
  PROVE  LET t == <<f>> \o Tail(s) IN
         /\ t \in Seq(Frame) /\ t # <<>> /\ Len(t) = Len(s)
         /\ t[1] = f /\ \A i \in 2..Len(t) : t[i] = s[i]
<1> DEFINE t == <<f>> \o Tail(s)
<1>1. /\ Tail(s) \in Seq(Frame) /\ Len(Tail(s)) = Len(s) - 1
      /\ \A i \in 1..Len(Tail(s)) : Tail(s)[i] = s[i + 1]
  BY Popped
<1>2. /\ t \in Seq(Frame) /\ t # <<>> /\ Len(t) = Len(Tail(s)) + 1
      /\ t[1] = f /\ \A i \in 2..Len(t) : t[i] = Tail(s)[i - 1]
  BY <1>1, Pushed
<1>3. Len(s) \in Nat
  BY LenProperties
<1>4. \A i \in 2..Len(t) : t[i] = s[i]
  <2> TAKE i \in 2..Len(t)
  <2>1. i - 1 \in 1..Len(Tail(s)) /\ (i - 1) + 1 = i
    BY <1>1, <1>2, <1>3
  <2> QED
    BY <2>1, <1>1, <1>2
<1> QED
  BY <1>1, <1>2, <1>3, <1>4

-----------------------------------------------------------------------------
\* The inductive invariant

\* The candidates on the stack are selected, and each is there once; only the top
\* frame may be without one.
Nested(s, chosen) ==
  /\ \A i \in 1..Len(s) : s[i].cand # NoPkg => s[i].cand \in chosen
  /\ \A i, j \in 1..Len(s) : i < j => s[j].cand # NoPkg /\ s[j].cand # s[i].cand

\* The marks lie within a plan of length n, and those further in are not smaller.
Marked(s, n) ==
  /\ \A i \in 1..Len(s) : s[i].mark <= n
  /\ \A i, j \in 1..Len(s) : i < j /\ s[i].cand # NoPkg => s[j].mark <= s[i].mark

\* The plan is a list of different selected candidates, none of them on the stack.
Listed(list, s, chosen) ==
  /\ \A i, j \in 1..Len(list) : list[i] = list[j] => i = j
  /\ \A i \in 1..Len(list) : /\ list[i] \in chosen
                             /\ \A k \in 1..Len(s) : s[k].cand # list[i]

\* Nothing in a selection is in conflict or says so in a way that is not
\* supported, and no name occurs twice.
Compatible(chosen) ==
  /\ \A a \in chosen : Supported(a)
  /\ \A a, b \in chosen : a # b => NameOf[a] # NameOf[b] /\ ~Attacks(a, b)

\* An answer is for a frame that is trying a candidate.
Answering(s, given) == given # "none" /\ s # <<>> => s[1].cand # NoPkg

SearchInv ==
  /\ TypeOK
  /\ Nested(stack, selected)
  /\ Marked(stack, Len(plan))
  /\ Listed(plan, stack, selected)
  /\ Compatible(selected)
  /\ Answering(stack, answer)

\* The search starts with nothing selected.
LEMMA SearchInit == Init => SearchInv
<1> SUFFICES ASSUME Init PROVE SearchInv
  OBVIOUS
<1>1. Len(stack) = 0 /\ Len(plan) = 0 /\ stack \in Seq(Frame) /\ plan \in Seq(Pkg)
  BY DEF Init
<1>2. TypeOK
  BY <1>1, ResolverAssumption DEF Init, TypeOK
<1> QED
  BY <1>1, <1>2 DEF Init, SearchInv, Nested, Marked, Listed, Compatible, Answering

\* A frame in which nothing is being tried says nothing of the selection.
LEMMA CallKeeps ==
  ASSUME SearchInv, NEW req \in Dep, NEW frames \in Seq(Frame), Call(req, frames),
         Nested(frames, selected), Marked(frames, Len(plan)), Listed(plan, frames, selected),
         \A i \in 1..Len(frames) : frames[i].cand # NoPkg,
         UNCHANGED <<catalog, request, selected, plan, outcome>>
  PROVE  SearchInv'
<1> DEFINE matches == {a \in catalog : Matches(a, req)}
           frame   == [req |-> req, left |-> matches, cand |-> NoPkg, todo |-> {}, mark |-> 0]
<1>1. steps' \in 0..MaxSteps + 1
  BY ResolverAssumption DEF Call, SearchInv, TypeOK
<1>ln. Len(plan) \in Nat /\ Len(frames) \in Nat
  BY LenProperties DEF SearchInv, TypeOK
<1>2. CASE answer' \in {"met", "unmet"} /\ stack' = frames
  <2>1. Answering(stack', answer')
    <3> SUFFICES ASSUME frames # <<>> PROVE frames[1].cand # NoPkg
      BY <1>2 DEF Answering
    <3>1. 1 \in 1..Len(frames)
      BY <1>ln, EmptySeq
    <3> QED
      BY <3>1
  <2> QED
    BY <1>1, <1>2, <2>1 DEF SearchInv, TypeOK
<1>3. CASE answer' = "none" /\ stack' = <<frame>> \o frames
  <2>1. frame \in Frame
    <3>1. matches \subseteq Pkg
      BY ResolverAssumption DEF SearchInv, TypeOK
    <3> QED
      BY <3>1 DEF Frame
  <2>2. /\ stack' \in Seq(Frame) /\ Len(stack') = Len(frames) + 1
        /\ stack'[1] = frame /\ \A i \in 2..Len(stack') : stack'[i] = frames[i - 1]
    BY <1>3, <2>1, Pushed
  <2>3. TypeOK'
    BY <1>1, <1>3, <2>2 DEF SearchInv, TypeOK
  <2>4. \A i \in 1..Len(stack') :
          \/ i = 1 /\ stack'[i] = frame
          \/ i - 1 \in 1..Len(frames) /\ stack'[i] = frames[i - 1]
    BY <2>2, <1>ln
  <2> HIDE DEF frame
  <2>5. frame.cand = NoPkg /\ frame.mark = 0
    BY DEF frame
  <2>6. NoPkg \notin Pkg
    BY NamesAssumption
  <2>7. Nested(stack', selected)
    <3>1. ASSUME NEW i \in 1..Len(stack'), stack'[i].cand # NoPkg
          PROVE  stack'[i].cand \in selected
      BY <3>1, <2>4, <2>5 DEF Nested
    <3>2. ASSUME NEW i \in 1..Len(stack'), NEW j \in 1..Len(stack'), i < j
          PROVE  stack'[j].cand # NoPkg /\ stack'[j].cand # stack'[i].cand
      <4>1. j - 1 \in 1..Len(frames) /\ stack'[j] = frames[j - 1]
        BY <3>2, <2>4
      <4>2. CASE i = 1 /\ stack'[i] = frame
        BY <4>1, <4>2, <2>5
      <4>3. CASE i - 1 \in 1..Len(frames) /\ stack'[i] = frames[i - 1]
        BY <4>1, <4>3, <3>2 DEF Nested
      <4> QED
        BY <4>2, <4>3, <2>4
    <3> QED
      BY <3>1, <3>2 DEF Nested
  <2>8. Marked(stack', Len(plan))
    <3>1. ASSUME NEW i \in 1..Len(stack') PROVE stack'[i].mark <= Len(plan)
      BY <2>4, <2>5, <1>ln DEF Marked
    <3>2. ASSUME NEW i \in 1..Len(stack'), NEW j \in 1..Len(stack'), i < j, stack'[i].cand # NoPkg
          PROVE  stack'[j].mark <= stack'[i].mark
      <4>1. j - 1 \in 1..Len(frames) /\ stack'[j] = frames[j - 1]
        BY <3>2, <2>4
      <4>2. i - 1 \in 1..Len(frames) /\ stack'[i] = frames[i - 1] /\ i - 1 < j - 1
        BY <3>2, <2>4, <2>5
      <4> QED
        BY <3>2, <4>1, <4>2 DEF Marked
    <3> QED
      BY <3>1, <3>2 DEF Marked
  <2>9. Listed(plan, stack', selected)
    <3>1. \A i \in 1..Len(plan) : plan[i] # NoPkg
      BY <2>6, ElementOfSeq DEF SearchInv, TypeOK
    <3>2. ASSUME NEW i \in 1..Len(plan), NEW k \in 1..Len(stack') PROVE stack'[k].cand # plan[i]
      <4>1. CASE stack'[k] = frame
        BY <4>1, <2>5, <3>1
      <4>2. CASE k - 1 \in 1..Len(frames) /\ stack'[k] = frames[k - 1]
        BY <4>2 DEF Listed
      <4> QED
        BY <4>1, <4>2, <2>4
    <3> QED
      BY <3>2 DEF Listed
  <2> QED
    BY <1>3, <2>3, <2>7, <2>8, <2>9 DEF SearchInv, Answering
<1> QED
  BY <1>2, <1>3 DEF Call

\* Below the top frame every frame is trying a candidate, and another one than the
\* top frame.
LEMMA PopKeeps ==
  ASSUME NEW s \in Seq(Frame), s # <<>>, NEW chosen, NEW n, NEW list,
         Nested(s, chosen), Marked(s, n), Listed(list, s, chosen)
  PROVE  /\ Nested(Tail(s), chosen) /\ Marked(Tail(s), n) /\ Listed(list, Tail(s), chosen)
         /\ \A i \in 1..Len(Tail(s)) : Tail(s)[i].cand \notin {NoPkg, s[1].cand}
<1>1. Len(s) \in Nat \ {0}
  BY EmptySeq
<1>2. Len(Tail(s)) = Len(s) - 1
  BY Popped
<1>3. \A i \in 1..Len(Tail(s)) : i + 1 \in 2..Len(s) /\ Tail(s)[i] = s[i + 1]
  BY <1>1, <1>2, Popped
<1>4. \A i, j \in 1..Len(Tail(s)) : i < j => i + 1 < j + 1
  BY <1>1, <1>2
<1>5. 1 \in 1..Len(s) /\ \A i \in 2..Len(s) : 1 < i /\ i \in 1..Len(s)
  BY <1>1
<1>6. Nested(Tail(s), chosen)
  BY <1>3, <1>4, <1>5 DEF Nested
<1>7. Marked(Tail(s), n)
  BY <1>3, <1>4, <1>5 DEF Marked
<1>8. Listed(list, Tail(s), chosen)
  BY <1>3, <1>5 DEF Listed
<1>9. \A i \in 1..Len(Tail(s)) : Tail(s)[i].cand \notin {NoPkg, s[1].cand}
  BY <1>3, <1>5 DEF Nested
<1> QED
  BY <1>6, <1>7, <1>8, <1>9

\* A new top frame over the rest of the stack keeps all of it, when it has no
\* candidate or the same one with the same mark.
LEMMA TopKeeps ==
  ASSUME NEW s \in Seq(Frame), s # <<>>, NEW f \in Frame, NEW chosen, NEW n \in Nat,
         NEW list \in Seq(Pkg), Nested(s, chosen), Marked(s, n), Listed(list, s, chosen),
         \/ f.cand = NoPkg /\ f.mark = 0
         \/ f.cand = s[1].cand /\ f.mark = s[1].mark
  PROVE  LET t == <<f>> \o Tail(s) IN
         t \in Seq(Frame) /\ Nested(t, chosen) /\ Marked(t, n) /\ Listed(list, t, chosen)
<1> DEFINE t == <<f>> \o Tail(s)
<1>1. /\ t \in Seq(Frame) /\ Len(t) = Len(s)
      /\ t[1] = f /\ \A i \in 2..Len(t) : t[i] = s[i]
  BY Replaced
<1>2. Len(s) \in Nat \ {0}
  BY EmptySeq
<1>3. \A i \in 1..Len(t) : \/ i = 1 /\ t[i].cand = NoPkg /\ t[i].mark = 0
                           \/ i \in 1..Len(s) /\ t[i].cand = s[i].cand /\ t[i].mark = s[i].mark
  BY <1>1, <1>2
<1>4. \A i, j \in 1..Len(t) : i < j => t[j] = s[j] /\ j \in 1..Len(s) /\ i \in 1..Len(s)
  BY <1>1, <1>2
<1>5. \A i \in 1..Len(list) : list[i] # NoPkg
  BY NamesAssumption, ElementOfSeq
<1> HIDE DEF t
<1>6. Nested(t, chosen)
  <2>1. \A i \in 1..Len(t) : t[i].cand # NoPkg => t[i].cand \in chosen
    BY <1>3 DEF Nested
  <2>2. \A i, j \in 1..Len(t) : i < j => t[j].cand # NoPkg /\ t[j].cand # t[i].cand
    BY <1>3, <1>4 DEF Nested
  <2> QED
    BY <2>1, <2>2 DEF Nested
<1>7. Marked(t, n)
  <2>1. \A i \in 1..Len(t) : t[i].mark <= n
    BY <1>3 DEF Marked
  <2>2. \A i, j \in 1..Len(t) : i < j /\ t[i].cand # NoPkg => t[j].mark <= t[i].mark
    BY <1>3, <1>4 DEF Marked
  <2> QED
    BY <2>1, <2>2 DEF Marked
<1>8. Listed(list, t, chosen)
  BY <1>3, <1>5 DEF Listed
<1> QED
  BY <1>1, <1>6, <1>7, <1>8 DEF t

-----------------------------------------------------------------------------
\* One lemma per action

\* The root is called for with nothing on the stack.
LEMMA StartKeeps == SearchInv /\ Start => SearchInv'
<1> SUFFICES ASSUME SearchInv, Start PROVE SearchInv'
  OBVIOUS
<1>1. CASE \E a \in catalog \cap Native : NameOf[a] = request
  <2>0. PICK a \in catalog : TRUE
    BY <1>1
  <2>1. Any(request) \in Dep
    <3>1. a \in Pkg
      BY <2>0, ResolverAssumption DEF SearchInv, TypeOK
    <3>2. VersionOf[a] \in Version
      BY <3>1, ManifestAssumption
    <3>3. (CHOOSE v \in Version : TRUE) \in Version
      BY <3>2
    <3> QED
      BY <3>3 DEF Any, Dep, Op, SearchInv, TypeOK
  <2>2. <<>> \in Seq(Frame) /\ Len(<<>>) = 0
    OBVIOUS
  <2>3. /\ Nested(<<>>, selected) /\ Marked(<<>>, Len(plan)) /\ Listed(plan, <<>>, selected)
        /\ \A i \in 1..Len(<<>>) : <<>>[i].cand # NoPkg
    BY <2>2 DEF Nested, Marked, Listed, SearchInv
  <2>4. Call(Any(request), <<>>) /\ UNCHANGED <<catalog, request, selected, plan, outcome>>
    BY <1>1 DEF Start
  <2> QED
    BY <2>1, <2>2, <2>3, <2>4, CallKeeps
<1>2. CASE ~\E a \in catalog \cap Native : NameOf[a] = request
  BY <1>2 DEF Start, SearchInv, TypeOK
<1> QED
  BY <1>1, <1>2

\* A dependency is called for with its candidate on top of the stack.
LEMMA ResolveKeeps ==
  ASSUME SearchInv, NEW dep \in Dep, Resolve(dep)
  PROVE  SearchInv'
<1> DEFINE f == [Head(stack) EXCEPT !.todo = @ \ {dep}]
           frames == <<f>> \o Tail(stack)
<1>1. stack # <<>> /\ stack \in Seq(Frame) /\ Head(stack) = stack[1] /\ stack[1] \in Frame
  BY HeadTailProperties DEF Resolve, Active, SearchInv, TypeOK
<1>2. f \in Frame /\ f.cand = stack[1].cand /\ f.mark = stack[1].mark /\ f.cand # NoPkg
  BY <1>1 DEF Frame, Resolve, Active
<1>3. plan \in Seq(Pkg) /\ Len(plan) \in Nat
  BY LenProperties DEF SearchInv, TypeOK
<1> HIDE DEF f
<1>4. /\ frames \in Seq(Frame) /\ Nested(frames, selected)
      /\ Marked(frames, Len(plan)) /\ Listed(plan, frames, selected)
  BY <1>1, <1>2, <1>3, TopKeeps DEF SearchInv
<1>5. \A i \in 1..Len(frames) : frames[i].cand # NoPkg
  <2>1. frames[1] = f /\ frames # <<>>
    BY <1>1, <1>2, Replaced
  <2>2. Len(frames) \in Nat \ {0}
    BY <1>4, <2>1, EmptySeq
  <2> QED
    BY <1>2, <1>4, <2>1, <2>2 DEF Nested
<1>6. Call(dep, frames) /\ UNCHANGED <<catalog, request, selected, plan, outcome>>
  BY DEF Resolve, f
<1> QED
  BY <1>4, <1>5, <1>6, CallKeeps

\* No match is left: the frame goes, and the one below is trying a candidate.
LEMMA GiveUpKeeps == SearchInv /\ GiveUp => SearchInv'
<1> SUFFICES ASSUME SearchInv, GiveUp PROVE SearchInv'
  OBVIOUS
<1>1. stack # <<>> /\ stack \in Seq(Frame) /\ stack' = Tail(stack) /\ Tail(stack) \in Seq(Frame)
  BY Popped DEF GiveUp, Active, SearchInv, TypeOK
<1>2. /\ Nested(stack', selected) /\ Marked(stack', Len(plan)) /\ Listed(plan, stack', selected)
      /\ \A i \in 1..Len(stack') : stack'[i].cand # NoPkg
  BY <1>1, PopKeeps DEF SearchInv
<1>3. Answering(stack', answer')
  <2> SUFFICES ASSUME stack' # <<>> PROVE stack'[1].cand # NoPkg
    BY DEF Answering
  <2>1. 1 \in 1..Len(stack')
    BY <1>1, EmptySeq
  <2> QED
    BY <1>2, <2>1
<1> QED
  BY <1>1, <1>2, <1>3 DEF GiveUp, SearchInv, TypeOK

\* A candidate that was chosen has a name of its own among the selected ones and
\* is in conflict with none of them (NameSelected, Rejected).
LEMMA ChooseKeeps ==
  ASSUME SearchInv, NEW a \in Pkg, Choose(a)
  PROVE  SearchInv'
<1> DEFINE f == [Head(stack) EXCEPT !.left = @ \ {a}]
           g == [f EXCEPT !.cand = a, !.todo = Depends[a], !.mark = Len(plan)]
<1>1. stack # <<>> /\ stack \in Seq(Frame) /\ Head(stack) = stack[1] /\ stack[1] \in Frame
  BY HeadTailProperties DEF Choose, Active, SearchInv, TypeOK
<1>2. f \in Frame /\ f.cand = stack[1].cand /\ f.mark = stack[1].mark
  BY <1>1 DEF Frame
<1>3. plan \in Seq(Pkg) /\ Len(plan) \in Nat
  BY LenProperties DEF SearchInv, TypeOK
<1>4. answer' = "none" /\ UNCHANGED <<catalog, request, plan, steps, outcome>>
  BY DEF Choose, Active
<1>5. CASE NameSelected(NameOf[a]) \/ Rejected(a)
  <2>1. stack' = <<f>> \o Tail(stack) /\ selected' = selected
    BY <1>5 DEF Choose
  <2> HIDE DEF f
  <2>2. /\ stack' \in Seq(Frame) /\ Nested(stack', selected)
        /\ Marked(stack', Len(plan)) /\ Listed(plan, stack', selected)
    BY <1>1, <1>2, <1>3, <2>1, TopKeeps DEF SearchInv
  <2> QED
    BY <1>4, <2>1, <2>2 DEF SearchInv, TypeOK, Answering, Choose, Active
<1>6. CASE ~(NameSelected(NameOf[a]) \/ Rejected(a))
  <2>1. stack' = <<g>> \o Tail(stack) /\ selected' = selected \cup {a}
    BY <1>6 DEF Choose
  <2>2. g \in Frame /\ g.cand = a /\ g.mark = Len(plan)
    BY <1>2, <1>3, ManifestAssumption DEF Frame
  <2>3. a \notin selected
    BY <1>6 DEF NameSelected
  <2> HIDE DEF f, g
  <2>4. /\ stack' \in Seq(Frame) /\ Len(stack') = Len(stack)
        /\ stack'[1] = g /\ \A i \in 2..Len(stack') : stack'[i] = stack[i]
    BY <1>1, <2>1, <2>2, Replaced
  <2>5. Len(stack) \in Nat \ {0}
    BY <1>1, EmptySeq
  <2>6. \A i \in 1..Len(stack') : i = 1 \/ (i \in 2..Len(stack') /\ i \in 1..Len(stack) /\ stack'[i] = stack[i])
    BY <2>4, <2>5
  <2>7. \A i \in 2..Len(stack') : stack[i].cand \in selected /\ stack[i].cand # NoPkg
    BY <2>4, <2>5 DEF SearchInv, Nested
  <2>8. \A i, j \in 1..Len(stack') : i < j => j \in 2..Len(stack') /\ stack'[j] = stack[j]
                                               /\ j \in 1..Len(stack) /\ i \in 1..Len(stack)
    BY <2>4, <2>5
  <2>9. Nested(stack', selected')
    <3>1. \A i \in 1..Len(stack') : stack'[i].cand # NoPkg => stack'[i].cand \in selected'
      BY <2>1, <2>2, <2>4, <2>6 DEF SearchInv, Nested
    <3>2. \A i, j \in 1..Len(stack') : i < j => /\ stack'[j].cand # NoPkg
                                                /\ stack'[j].cand # stack'[i].cand
      BY <2>2, <2>3, <2>4, <2>6, <2>7, <2>8 DEF SearchInv, Nested
    <3> QED
      BY <3>1, <3>2 DEF Nested
  <2>10. Marked(stack', Len(plan))
    <3>1. \A i \in 1..Len(stack') : stack'[i].mark <= Len(plan)
      BY <1>3, <2>2, <2>4, <2>6 DEF SearchInv, Marked
    <3>2. \A i, j \in 1..Len(stack') :
            i < j /\ stack'[i].cand # NoPkg => stack'[j].mark <= stack'[i].mark
      BY <2>2, <2>4, <2>6, <2>8 DEF SearchInv, Marked
    <3> QED
      BY <3>1, <3>2 DEF Marked
  <2>11. Listed(plan, stack', selected')
    <3>1. \A i \in 1..Len(plan) : plan[i] \in selected
      BY DEF SearchInv, Listed
    <3> QED
      BY <2>1, <2>2, <2>3, <2>4, <2>6, <3>1 DEF SearchInv, Listed
  <2>12. Compatible(selected')
    BY <1>6, <2>1 DEF SearchInv, Compatible, NameSelected, Rejected
  <2> QED
    BY <1>4, <2>1, <2>4, <2>9, <2>10, <2>11, <2>12 DEF SearchInv, TypeOK, Answering
<1> QED
  BY <1>5, <1>6

\* On to the next dependency: nothing but the answer changes.
LEMMA GoOnKeeps == SearchInv /\ GoOn => SearchInv'
BY DEF SearchInv, TypeOK, Answering, GoOn

\* Retracting a candidate cuts the plan back to its mark.  What stays on the plan
\* was there before, so it is selected and is not the candidate.
LEMMA RetractKeeps == SearchInv /\ Retract => SearchInv'
<1> SUFFICES ASSUME SearchInv, Retract PROVE SearchInv'
  OBVIOUS
<1> DEFINE f == [Head(stack) EXCEPT !.cand = NoPkg, !.todo = {}, !.mark = 0]
           m == stack[1].mark
           c == stack[1].cand
<1>1. stack # <<>> /\ stack \in Seq(Frame) /\ Head(stack) = stack[1] /\ stack[1] \in Frame
  BY HeadTailProperties DEF Retract, SearchInv, TypeOK
<1>2. f \in Frame /\ f.cand = NoPkg /\ f.mark = 0
  BY <1>1 DEF Frame
<1>3. plan \in Seq(Pkg) /\ Len(plan) \in Nat /\ Len(stack) \in Nat \ {0}
  BY <1>1, LenProperties, EmptySeq DEF SearchInv, TypeOK
<1>4. /\ selected' = selected \ {c} /\ plan' = SubSeq(plan, 1, m)
      /\ stack' = <<f>> \o Tail(stack) /\ answer' = "none"
      /\ UNCHANGED <<catalog, request, steps, outcome>>
  BY <1>1 DEF Retract
<1>5. c # NoPkg
  BY <1>1 DEF Retract, SearchInv, Answering
<1>6. m \in Nat /\ m <= Len(plan)
  BY <1>1, <1>3 DEF SearchInv, Marked, Frame
<1> HIDE DEF f
<1>7. /\ stack' \in Seq(Frame) /\ Len(stack') = Len(stack)
      /\ stack'[1] = f /\ \A i \in 2..Len(stack') : stack'[i] = stack[i]
  BY <1>1, <1>2, <1>4, Replaced
<1>8. /\ plan' \in Seq(Pkg) /\ Len(plan') = m
      /\ \A i \in 1..Len(plan') : i \in 1..Len(plan) /\ plan'[i] = plan[i]
  <2>1. \A i \in 1..m : i \in 1..Len(plan) /\ plan[i] \in Pkg
    BY <1>3, <1>6, ElementOfSeq
  <2>2. /\ plan' \in Seq(Pkg) /\ Len(plan') = IF 1 <= m THEN m - 1 + 1 ELSE 0
        /\ \A i \in 1..(m - 1 + 1) : plan'[i] = plan[1 + i - 1]
    BY <1>4, <1>6, <2>1, SubSeqProperties
  <2>3. Len(plan') = m
    BY <1>6, <2>2
  <2> QED
    BY <1>6, <2>1, <2>2, <2>3
<1>9. \A i \in 2..Len(stack') :
        /\ stack'[i] = stack[i] /\ i \in 1..Len(stack)
        /\ stack[i].cand \notin {NoPkg, c} /\ stack[i].cand \in selected
        /\ stack[i].mark <= m
  <2> TAKE i \in 2..Len(stack')
  <2>1. i \in 1..Len(stack) /\ 1 \in 1..Len(stack) /\ 1 < i
    BY <1>3, <1>7
  <2> QED
    BY <1>5, <1>7, <2>1 DEF SearchInv, Nested, Marked
<1>10. \A i \in 1..Len(stack') : (i = 1 /\ stack'[i] = f) \/ i \in 2..Len(stack')
  BY <1>3, <1>7
<1>11. \A i, j \in 1..Len(stack') : i < j => j \in 2..Len(stack')
  BY <1>3, <1>7
<1>12. Nested(stack', selected')
  <2>1. \A i \in 1..Len(stack') : stack'[i].cand # NoPkg => stack'[i].cand \in selected'
    BY <1>2, <1>4, <1>9, <1>10
  <2>2. \A i, j \in 1..Len(stack') : i < j => /\ stack'[j].cand # NoPkg
                                              /\ stack'[j].cand # stack'[i].cand
    BY <1>2, <1>9, <1>10, <1>11 DEF SearchInv, Nested
  <2> QED
    BY <2>1, <2>2 DEF Nested
<1>13. Marked(stack', Len(plan'))
  <2>1. \A i \in 1..Len(stack') : stack'[i].mark <= Len(plan')
    BY <1>2, <1>6, <1>8, <1>9, <1>10
  <2>2. \A i, j \in 1..Len(stack') :
          i < j /\ stack'[i].cand # NoPkg => stack'[j].mark <= stack'[i].mark
    BY <1>2, <1>9, <1>10, <1>11 DEF SearchInv, Marked
  <2> QED
    BY <2>1, <2>2 DEF Marked
<1>14. Listed(plan', stack', selected')
  <2>1. \A i \in 1..Len(plan') : plan'[i] \in selected /\ plan'[i] # c /\ plan'[i] # NoPkg
    <3>1. 1 \in 1..Len(stack)
      BY <1>3
    <3> QED
      BY SMTT(30), <1>3, <1>8, <3>1, ElementOfSeq, NamesAssumption DEF SearchInv, Listed
  <2>2. \A i \in 1..Len(plan'), k \in 1..Len(stack') : stack'[k].cand # plan'[i]
    BY SMTT(30), <1>2, <1>8, <1>9, <1>10, <2>1 DEF SearchInv, Listed
  <2>3. \A i, j \in 1..Len(plan') : plan'[i] = plan'[j] => i = j
    BY <1>8 DEF SearchInv, Listed
  <2> QED
    BY <1>4, <2>1, <2>2, <2>3 DEF Listed
<1>15. Compatible(selected')
  BY <1>4 DEF SearchInv, Compatible
<1> QED
  BY <1>4, <1>7, <1>8, <1>12, <1>13, <1>14, <1>15 DEF SearchInv, TypeOK, Answering

\* A candidate whose dependencies are met goes to the end of the plan and off the
\* stack.
LEMMA AcceptKeeps == SearchInv /\ Accept => SearchInv'
<1> SUFFICES ASSUME SearchInv, Accept PROVE SearchInv'
  OBVIOUS
<1> DEFINE c == stack[1].cand
<1>1. stack # <<>> /\ stack \in Seq(Frame) /\ Head(stack) = stack[1] /\ stack[1] \in Frame
  BY HeadTailProperties DEF Accept, Active, SearchInv, TypeOK
<1>2. /\ plan' = Append(plan, c) /\ stack' = Tail(stack) /\ answer' = "met" /\ c # NoPkg
      /\ UNCHANGED <<catalog, request, selected, steps, outcome>>
  BY <1>1 DEF Accept, Active
<1>3. plan \in Seq(Pkg) /\ Len(plan) \in Nat /\ 1 \in 1..Len(stack)
  BY <1>1, LenProperties, EmptySeq DEF SearchInv, TypeOK
<1>4. c \in Pkg /\ c \in selected
  BY <1>1, <1>2, <1>3 DEF Frame, SearchInv, Nested
<1>5. /\ plan' \in Seq(Pkg) /\ Len(plan') = Len(plan) + 1
      /\ plan'[Len(plan')] = c /\ \A i \in 1..Len(plan) : plan'[i] = plan[i]
  BY <1>2, <1>3, <1>4, AppendProperties
<1>6. \A i \in 1..Len(plan') : i = Len(plan') \/ i \in 1..Len(plan)
  BY <1>3, <1>5
<1>7. /\ Nested(stack', selected) /\ Marked(stack', Len(plan)) /\ Listed(plan, stack', selected)
      /\ \A i \in 1..Len(stack') : stack'[i].cand \notin {NoPkg, c}
  BY <1>1, <1>2, PopKeeps DEF SearchInv
<1>8. stack' \in Seq(Frame)
  BY <1>1, <1>2, Popped
<1>9. \A i \in 1..Len(stack') : stack'[i].mark \in Nat
  <2> TAKE i \in 1..Len(stack')
  <2>1. stack'[i] \in Frame
    BY <1>8, ElementOfSeq
  <2> QED
    BY <2>1 DEF Frame
<1>10. Marked(stack', Len(plan'))
  <2>1. Len(plan) \in Nat /\ Len(plan') = Len(plan) + 1
    BY <1>3, <1>5
  <2>2. \A n \in Nat : n <= Len(plan) => n <= Len(plan')
    BY <2>1
  <2> QED
    BY <2>1, <2>2, <1>7, <1>9 DEF Marked
<1>11. Listed(plan', stack', selected')
  <2>1. \A i \in 1..Len(plan) : plan[i] # c
    BY <1>3 DEF SearchInv, Listed
  <2>2. \A i, j \in 1..Len(plan') : plan'[i] = plan'[j] => i = j
    BY <1>5, <1>6, <2>1 DEF SearchInv, Listed
  <2>3. \A i \in 1..Len(plan') : /\ plan'[i] \in selected
                                 /\ \A k \in 1..Len(stack') : stack'[k].cand # plan'[i]
    BY <1>4, <1>5, <1>6, <1>7 DEF Listed
  <2> QED
    BY <1>2, <2>2, <2>3 DEF Listed
<1>12. Answering(stack', answer')
  <2> SUFFICES ASSUME stack' # <<>> PROVE stack'[1].cand # NoPkg
    BY DEF Answering
  <2>1. 1 \in 1..Len(stack')
    BY <1>8, EmptySeq
  <2> QED
    BY <1>7, <2>1
<1> QED
  BY <1>2, <1>5, <1>7, <1>8, <1>10, <1>11, <1>12 DEF SearchInv, TypeOK, Compatible

\* The end of the search changes nothing but its outcome.
LEMMA FinishKeeps == SearchInv /\ Finish => SearchInv'
BY DEF SearchInv, TypeOK, Answering, Finish

\* Every step of the search keeps the invariant.
LEMMA SearchStep == SearchInv /\ [Next]_vars => SearchInv'
<1> SUFFICES ASSUME SearchInv, [Next]_vars PROVE SearchInv'
  OBVIOUS
<1>1. CASE Start
  BY <1>1, StartKeeps
<1>2. CASE GiveUp
  BY <1>2, GiveUpKeeps
<1>3. CASE GoOn
  BY <1>3, GoOnKeeps
<1>4. CASE Retract
  BY <1>4, RetractKeeps
<1>5. CASE Accept
  BY <1>5, AcceptKeeps
<1>6. CASE Finish
  BY <1>6, FinishKeeps
<1>7. ASSUME NEW a \in Pkg, Choose(a) PROVE SearchInv'
  BY <1>7, ChooseKeeps
<1>8. ASSUME NEW dep \in Dep, Resolve(dep) PROVE SearchInv'
  BY <1>8, ResolveKeeps
<1>9. CASE UNCHANGED vars
  BY <1>9 DEF vars, SearchInv, TypeOK, Answering
<1> QED
  BY <1>1, <1>2, <1>3, <1>4, <1>5, <1>6, <1>7, <1>8, <1>9 DEF Next

-----------------------------------------------------------------------------
\* The theorems

\* The invariant holds throughout the search.
LEMMA SearchCorrect == Spec => []SearchInv
BY SearchInit, SearchStep, PTL DEF Spec

\* The state of resolve_requirement keeps its types in every search.
THEOREM SearchTypes == Spec => []TypeOK
<1>1. SearchInv => TypeOK
  BY DEF SearchInv
<1> QED
  BY SearchCorrect, <1>1, PTL

\* No candidate is tried while it is being tried further out, whatever cycles the
\* dependencies have.
THEOREM DescentEnds == Spec => []NoEndlessDescent
<1>1. SearchInv => NoEndlessDescent
  <2> SUFFICES ASSUME SearchInv PROVE NoEndlessDescent
    OBVIOUS
  <2>1. DOMAIN stack = 1..Len(stack)
    BY LenProperties DEF SearchInv, TypeOK
  <2> QED
    BY <2>1 DEF SearchInv, Nested, NoEndlessDescent, Pending
<1> QED
  BY SearchCorrect, <1>1, PTL

\* At every moment what is selected can be installed together: one version of a
\* name and no conflict in either direction.
THEOREM SelectionStaysSound == Spec => []SelectionSound
<1>1. SearchInv => SelectionSound
  BY DEF SearchInv, Compatible, SelectionSound
<1> QED
  BY SearchCorrect, <1>1, PTL

\* The plan holds different selected candidates, none of which is still being
\* tried, and the marks it is cut back to lie within it.
THEOREM PlanStaysSound == Spec => []PlanSound
<1>1. SearchInv => PlanSound
  <2> SUFFICES ASSUME SearchInv PROVE PlanSound
    OBVIOUS
  <2>1. DOMAIN stack = 1..Len(stack) /\ DOMAIN plan = 1..Len(plan)
    BY LenProperties DEF SearchInv, TypeOK
  <2> QED
    BY <2>1 DEF SearchInv, Listed, Marked, PlanSound, Planned, Pending
<1> QED
  BY SearchCorrect, <1>1, PTL

\* resolve_conflicts_in_plan never rejects the plan of a search that succeeded:
\* candidate_conflicts_with_selected has found every conflict before.
THEOREM NoLateConflict == Spec => []ConflictsFoundInTime
<1>1. SearchInv => ConflictsFoundInTime
  <2> SUFFICES ASSUME SearchInv PROVE Peaceful
    BY DEF ConflictsFoundInTime
  <2>1. DOMAIN plan = 1..Len(plan)
    BY LenProperties DEF SearchInv, TypeOK
  <2> QED
    BY <2>1 DEF SearchInv, Listed, Compatible, Peaceful
<1> QED
  BY SearchCorrect, <1>1, PTL

-----------------------------------------------------------------------------
\* The order of the plan

\* NeedsInTheEnd, for the candidates C.
Reaches(C, a, b) ==
  \A S \in SUBSET C : (\A c \in {a} \cup S : \A d \in C : Needs(c, d) => d \in S) => b \in S

InPlan(x, list) == \E j \in 1..Len(list) : list[j] = x

\* Candidate x is being tried in frame k of the stack or further out.
TriedFrom(k, x, s) == \E i \in 1..Len(s) : k <= i /\ s[i].cand = x

\* What is selected, but neither planned nor being tried.
Spare(chosen, list, s) == {a \in chosen : ~InPlan(a, list) /\ ~TriedFrom(1, a, s)}

\* A dependency of the candidate of frame k is met.
MetFrom(k, dep, list, s, chosen) ==
  \E x \in chosen : Matches(x, dep) /\ (x \in Spare(chosen, list, s) \/ InPlan(x, list) \/ TriedFrom(k, x, s))

\* Frames try what is in the catalog and matches.
Matching(C, s) ==
  \A i \in 1..Len(s) :
    /\ \A a \in s[i].left : a \in C /\ Matches(a, s[i].req)
    /\ s[i].cand # NoPkg => s[i].cand \in C /\ Matches(s[i].cand, s[i].req)

\* Every frame is there for a dependency of the frame below, the outermost for the root.
Linked(s, root) ==
  /\ \A i, k \in 1..Len(s) : k = i + 1 => s[i].req \in Depends[s[k].cand]
  /\ s # <<>> => s[Len(s)].req = root

\* So what is tried further out needs, in the end, what is tried further in.
Chained(C, s) ==
  \A i, k \in 1..Len(s) : i < k /\ s[i].cand # NoPkg => Reaches(C, s[k].cand, s[i].cand)

\* What a frame has still to resolve are dependencies of its candidate.
Pledged(s) == \A i \in 1..Len(s) : s[i].cand # NoPkg => s[i].todo \subseteq Depends[s[i].cand]

\* The dependencies that a frame has been through are met, but for the one that the
\* frame above it is there for, or that has just failed.
Through(s, given, list, chosen) ==
  \A i \in 1..Len(s) : s[i].cand # NoPkg =>
    \A dep \in Depends[s[i].cand] \ s[i].todo :
      \/ i = 1 /\ given = "unmet"
      \/ \E k \in 1..Len(s) : i = k + 1 /\ dep = s[k].req
      \/ MetFrom(i, dep, list, s, chosen)

\* What meets a dependency of a planned candidate is spare, or planned before it, or needs
\* it in the end and is planned after it or was being tried before it was planned.
Ordered(C, list, s, chosen) ==
  \A i \in 1..Len(list) : \A dep \in Depends[list[i]] : \E x \in chosen :
    /\ Matches(x, dep)
    /\ \/ x \in Spare(chosen, list, s)
       \/ \E j \in 1..Len(list) : j < i /\ list[j] = x
       \/ /\ Reaches(C, x, list[i])
          /\ InPlan(x, list) \/ \E k \in 1..Len(s) : s[k].cand = x /\ s[k].mark < i

\* The search begins with nothing, and ends with a plan for the root or none.
Bounded ==
  /\ stack = <<>> /\ answer = "none" /\ outcome = "none" => selected = {} /\ plan = <<>>
  /\ stack = <<>> /\ answer = "met" =>
       plan # <<>> /\ Matches(plan[Len(plan)], Any(request))
  /\ outcome # "none" => stack = <<>>
  /\ outcome = "plan" => answer = "met"

OrderInv ==
  /\ SearchInv
  /\ Matching(catalog, stack)
  /\ Linked(stack, Any(request))
  /\ Chained(catalog, stack)
  /\ Pledged(stack)
  /\ Through(stack, answer, plan, selected)
  /\ Ordered(catalog, plan, stack, selected)
  /\ Bounded

\* Needing, and needing in the end.
LEMMA ReachesNext ==
  ASSUME NEW C, NEW b \in C, NEW a, Needs(a, b)
  PROVE  Reaches(C, a, b)
BY DEF Reaches

LEMMA ReachesOn ==
  ASSUME NEW C, NEW a, NEW b, NEW d \in C, Reaches(C, a, b), Needs(b, d)
  PROVE  Reaches(C, a, d)
BY DEF Reaches

\* What the steps of the search can rely on.
LEMMA TopFrame ==
  ASSUME SearchInv, stack # <<>>
  PROVE  /\ stack \in Seq(Frame) /\ Head(stack) = stack[1] /\ stack[1] \in Frame
         /\ Len(stack) \in Nat \ {0} /\ 1 \in 1..Len(stack)
         /\ plan \in Seq(Pkg) /\ Len(plan) \in Nat
         /\ selected \subseteq Pkg /\ NoPkg \notin Pkg
         /\ \A i \in 1..Len(stack) : stack[i].mark \in Nat
<1>1. stack \in Seq(Frame) /\ plan \in Seq(Pkg) /\ selected \subseteq Pkg
  BY DEF SearchInv, TypeOK
<1>2. Len(stack) \in Nat \ {0}
  BY <1>1, EmptySeq
<1>3. \A i \in 1..Len(stack) : stack[i] \in Frame
  BY <1>1, ElementOfSeq
<1> QED
  BY <1>1, <1>2, <1>3, HeadTailProperties, LenProperties, NamesAssumption DEF Frame

\* The plan stays in order where nothing on it, on the stack or spare is lost.
LEMMA OrderedMore ==
  ASSUME NEW C, NEW list, NEW s, NEW t, NEW chosen, NEW more, Ordered(C, list, s, chosen),
         chosen \subseteq more, Spare(chosen, list, s) \subseteq Spare(more, list, t),
         \A x \in chosen : \A k \in 1..Len(s) :
           s[k].cand = x => \E l \in 1..Len(t) : t[l].cand = x /\ t[l].mark = s[k].mark
  PROVE  Ordered(C, list, t, more)
<1> SUFFICES ASSUME NEW i \in 1..Len(list), NEW dep \in Depends[list[i]]
             PROVE  \E x \in more :
                      /\ Matches(x, dep)
                      /\ \/ x \in Spare(more, list, t)
                         \/ \E j \in 1..Len(list) : j < i /\ list[j] = x
                         \/ /\ Reaches(C, x, list[i])
                            /\ \/ InPlan(x, list)
                               \/ \E k \in 1..Len(t) : t[k].cand = x /\ t[k].mark < i
  BY DEF Ordered
<1>1. PICK x \in chosen :
        /\ Matches(x, dep)
        /\ \/ x \in Spare(chosen, list, s)
           \/ \E j \in 1..Len(list) : j < i /\ list[j] = x
           \/ /\ Reaches(C, x, list[i])
              /\ InPlan(x, list) \/ \E k \in 1..Len(s) : s[k].cand = x /\ s[k].mark < i
  BY DEF Ordered
<1> QED
  BY <1>1

\* Popping the top frame.
LEMMA PopOrder ==
  ASSUME NEW s \in Seq(Frame), s # <<>>, NEW C, NEW root,
         Matching(C, s), Linked(s, root), Chained(C, s), Pledged(s)
  PROVE  LET t == Tail(s) IN
         /\ Len(t) \in Nat /\ Len(s) = Len(t) + 1
         /\ \A i \in 1..Len(t) : i + 1 \in 1..Len(s) /\ t[i] = s[i + 1]
         /\ \A i \in 2..Len(s) : i - 1 \in 1..Len(t) /\ s[i] = t[i - 1]
         /\ Matching(C, t) /\ Linked(t, root) /\ Chained(C, t) /\ Pledged(t)
<1> DEFINE t == Tail(s)
<1>1. Len(s) \in Nat \ {0} /\ Len(t) = Len(s) - 1
  BY EmptySeq, Popped
<1>2. \A i \in 1..Len(t) : i + 1 \in 1..Len(s) /\ t[i] = s[i + 1]
  BY <1>1, Popped
<1>3. \A i \in 2..Len(s) : i - 1 \in 1..Len(t) /\ s[i] = t[i - 1]
  <2> TAKE i \in 2..Len(s)
  <2>1. i - 1 \in 1..Len(t) /\ (i - 1) + 1 = i
    BY <1>1
  <2> QED
    BY <1>2, <2>1
<1>4. t # <<>> => Len(t) \in 1..Len(t)
  <2>1. t \in Seq(Frame)
    BY Popped
  <2> QED
    BY <2>1, EmptySeq
<1> HIDE DEF t
<1>5. Matching(C, t)
  BY <1>2 DEF Matching
<1>6. Linked(t, root)
  <2>1. ASSUME NEW i \in 1..Len(t), NEW k \in 1..Len(t), k = i + 1
        PROVE  t[i].req \in Depends[t[k].cand]
    <3>1. /\ i + 1 \in 1..Len(s) /\ k + 1 \in 1..Len(s) /\ k + 1 = (i + 1) + 1
          /\ t[i] = s[i + 1] /\ t[k] = s[k + 1]
      BY <1>2, <2>1
    <3> QED
      BY <3>1 DEF Linked
  <2>2. t # <<>> => t[Len(t)].req = root
    BY <1>1, <1>2, <1>4 DEF Linked
  <2> QED
    BY <2>1, <2>2 DEF Linked
<1>7. Chained(C, t)
  <2> SUFFICES ASSUME NEW i \in 1..Len(t), NEW k \in 1..Len(t), i < k, t[i].cand # NoPkg
               PROVE  Reaches(C, t[k].cand, t[i].cand)
    BY DEF Chained
  <2>1. /\ i + 1 \in 1..Len(s) /\ k + 1 \in 1..Len(s) /\ i + 1 < k + 1
        /\ t[i] = s[i + 1] /\ t[k] = s[k + 1]
    BY <1>2
  <2> QED
    BY <2>1 DEF Chained
<1>8. Pledged(t)
  BY <1>2 DEF Pledged
<1> QED
  BY <1>1, <1>2, <1>3, <1>5, <1>6, <1>7, <1>8 DEF t

\* A new top frame for the same requirement, that tries what may be tried.
LEMMA TopOrder ==
  ASSUME NEW s \in Seq(Frame), s # <<>>, NEW f \in Frame, NEW C, NEW root,
         Matching(C, s), Linked(s, root), Chained(C, s), Pledged(s),
         f.cand # NoPkg => f.todo \subseteq Depends[f.cand],
         f.req = s[1].req, f.left \subseteq s[1].left,
         f.cand \in {NoPkg, s[1].cand} \cup s[1].left,
         \A i \in 2..Len(s) : s[i].cand # NoPkg
  PROVE  LET t == <<f>> \o Tail(s) IN
         /\ t \in Seq(Frame) /\ t # <<>> /\ Len(t) = Len(s) /\ Len(s) \in Nat \ {0}
         /\ t[1] = f /\ \A i \in 2..Len(s) : t[i] = s[i]
         /\ Matching(C, t) /\ Linked(t, root) /\ Chained(C, t) /\ Pledged(t)
<1> DEFINE t == <<f>> \o Tail(s)
<1>1. /\ t \in Seq(Frame) /\ t # <<>> /\ Len(t) = Len(s)
      /\ t[1] = f /\ \A i \in 2..Len(s) : t[i] = s[i]
  BY Replaced
<1>2. Len(s) \in Nat \ {0}
  BY EmptySeq
<1> HIDE DEF t
<1>3. 1 \in 1..Len(s) /\ \A i \in 1..Len(s) : i = 1 \/ i \in 2..Len(s)
  BY <1>2
<1>4. /\ \A a \in s[1].left : a \in C /\ Matches(a, s[1].req)
      /\ s[1].cand # NoPkg => s[1].cand \in C /\ Matches(s[1].cand, s[1].req)
  BY <1>3 DEF Matching
<1>5. f.cand # NoPkg => f.cand \in C /\ Matches(f.cand, s[1].req)
  BY <1>4
<1>6. Matching(C, t)
  BY <1>1, <1>3, <1>4, <1>5 DEF Matching
<1>r. \A i \in 1..Len(s) : t[i].req = s[i].req
  BY <1>1, <1>3
<1>7. Linked(t, root)
  <2>1. ASSUME NEW i \in 1..Len(t), NEW k \in 1..Len(t), k = i + 1
        PROVE  t[i].req \in Depends[t[k].cand]
    <3>1. i \in 1..Len(s) /\ k \in 1..Len(s) /\ t[k] = s[k]
      BY <1>1, <1>2, <2>1
    <3> QED
      BY <1>r, <2>1, <3>1 DEF Linked
  <2>2. t # <<>> => t[Len(t)].req = root
    BY <1>1, <1>2, <1>r DEF Linked
  <2> QED
    BY <2>1, <2>2 DEF Linked
<1>8. Chained(C, t)
  <2> SUFFICES ASSUME NEW i \in 1..Len(t), NEW k \in 1..Len(t), i < k, t[i].cand # NoPkg
               PROVE  Reaches(C, t[k].cand, t[i].cand)
    BY DEF Chained
  <2>1. i \in 1..Len(s) /\ k \in 1..Len(s) /\ k \in 2..Len(s) /\ t[k] = s[k]
    BY <1>1, <1>2
  <2>2. CASE t[i].cand = s[i].cand
    BY <2>1, <2>2 DEF Chained
  <2>3. CASE t[i].cand # s[i].cand
    <3>1. i = 1 /\ t[i].cand = f.cand /\ f.cand \in C /\ Matches(f.cand, s[1].req)
      BY <1>1, <1>3, <1>5, <2>1, <2>3
    <3>2. 2 \in 1..Len(s) /\ s[1].req \in Depends[s[2].cand]
      BY <1>2, <1>3, <2>1 DEF Linked
    <3>3. Needs(s[2].cand, f.cand)
      BY <3>1, <3>2 DEF Needs
    <3>4. CASE k = 2
      BY <2>1, <3>1, <3>3, <3>4, ReachesNext
    <3>5. CASE k # 2
      <4>1. 2 < k
        BY <2>1, <3>5
      <4>2. Reaches(C, s[k].cand, s[2].cand)
        BY <1>2, <2>1, <3>2, <4>1 DEF Chained
      <4> QED
        BY <2>1, <3>1, <3>3, <4>2, ReachesOn
    <3> QED
      BY <3>4, <3>5
  <2> QED
    BY <2>2, <2>3
<1>9. Pledged(t)
  BY <1>1, <1>3 DEF Pledged
<1> QED
  BY <1>1, <1>2, <1>6, <1>7, <1>8, <1>9 DEF t

\* Calling for a requirement: the call is answered at once, or gets a frame of its own.
LEMMA CallOrder ==
  ASSUME SearchInv, NEW req \in Dep, NEW frames \in Seq(Frame), Call(req, frames), NEW root,
         UNCHANGED <<catalog, selected, plan>>,
         Matching(catalog, frames), Linked(frames, root), Chained(catalog, frames),
         Pledged(frames),
         Ordered(catalog, plan, frames, selected),
         \A i \in 1..Len(frames) : frames[i].cand # NoPkg,
         IF frames = <<>> THEN req = root ELSE req \in Depends[frames[1].cand],
         \A i \in 1..Len(frames) : \A dep \in Depends[frames[i].cand] \ frames[i].todo :
           \/ i = 1 /\ dep = req
           \/ \E k \in 1..Len(frames) : i = k + 1 /\ dep = frames[k].req
           \/ MetFrom(i, dep, plan, frames, selected)
  PROVE  /\ Matching(catalog', stack') /\ Linked(stack', root) /\ Chained(catalog', stack')
         /\ Pledged(stack')
         /\ Through(stack', answer', plan', selected')
         /\ Ordered(catalog', plan', stack', selected')
<1> DEFINE matches == {a \in catalog : Matches(a, req)}
           f == [req |-> req, left |-> matches, cand |-> NoPkg, todo |-> {}, mark |-> 0]
<1>t. selected \subseteq Pkg /\ NoPkg \notin Pkg /\ matches \subseteq Pkg
  BY NamesAssumption, ResolverAssumption DEF SearchInv, TypeOK
<1>n. Len(frames) \in Nat /\ (frames # <<>> => 1 \in 1..Len(frames))
  BY LenProperties, EmptySeq
<1>1. CASE answer' = "met" /\ Satisfied(req) /\ stack' = frames
  <2>1. PICK x \in selected : Matches(x, req)
    BY <1>1 DEF Satisfied
  <2>2. MetFrom(1, req, plan, frames, selected)
    BY <2>1 DEF MetFrom, Spare
  <2>3. Through(frames, "met", plan, selected)
    BY <2>2 DEF Through
  <2> QED
    BY <1>1, <2>3
<1>2. CASE answer' = "unmet" /\ stack' = frames
  <2>1. Through(frames, "unmet", plan, selected)
    BY DEF Through
  <2> QED
    BY <1>2, <2>1
<1>3. CASE answer' = "none" /\ stack' = <<f>> \o frames
  <2> DEFINE t == <<f>> \o frames
  <2>1. f \in Frame
    BY <1>t DEF Frame
  <2>2. /\ t \in Seq(Frame) /\ t # <<>> /\ Len(t) = Len(frames) + 1
        /\ t[1] = f /\ \A i \in 2..Len(t) : t[i] = frames[i - 1]
    BY <2>1, Pushed
  <2>f. /\ f.req = req /\ f.cand = NoPkg /\ \A a \in f.left : a \in catalog /\ Matches(a, req)
    OBVIOUS
  <2> HIDE DEF t, f
  <2>3. \A i \in 1..Len(t) : \/ i = 1 /\ t[i] = f
                             \/ i - 1 \in 1..Len(frames) /\ t[i] = frames[i - 1]
    BY <1>n, <2>2
  <2>4. \A i \in 1..Len(frames) : i + 1 \in 1..Len(t) /\ t[i + 1] = frames[i]
    <3> TAKE i \in 1..Len(frames)
    <3>1. i + 1 \in 2..Len(t) /\ (i + 1) - 1 = i
      BY <1>n, <2>2
    <3> QED
      BY <2>2, <3>1
  <2>5. Matching(catalog, t)
    <3> SUFFICES ASSUME NEW i \in 1..Len(t)
                 PROVE  /\ \A a \in t[i].left : a \in catalog /\ Matches(a, t[i].req)
                        /\ t[i].cand # NoPkg => t[i].cand \in catalog /\ Matches(t[i].cand, t[i].req)
      BY DEF Matching
    <3> QED
      BY <2>3, <2>f DEF Matching
  <2>6. Linked(t, root)
    <3>1. ASSUME NEW i \in 1..Len(t), NEW k \in 1..Len(t), k = i + 1
          PROVE  t[i].req \in Depends[t[k].cand]
      <4>1. i \in 1..Len(frames) /\ t[k] = frames[i]
        BY <1>n, <2>2, <3>1
      <4>2. CASE i = 1
        BY <2>2, <2>f, <4>1, <4>2, EmptySeq
      <4>3. CASE i # 1
        <5>1. i - 1 \in 1..Len(frames) /\ i = (i - 1) + 1 /\ t[i] = frames[i - 1]
          BY <2>3, <4>3
        <5> QED
          BY <4>1, <5>1 DEF Linked
      <4> QED
        BY <4>2, <4>3
    <3>2. t[Len(t)].req = root
      <4>1. CASE frames = <<>>
        BY <2>2, <2>f, <4>1, EmptySeq
      <4>2. CASE frames # <<>>
        <5>1. Len(t) \in 2..Len(t) /\ Len(t) - 1 = Len(frames)
          BY <1>n, <2>2, <4>2, EmptySeq
        <5> QED
          BY <2>2, <4>2, <5>1 DEF Linked
      <4> QED
        BY <4>1, <4>2
    <3> QED
      BY <3>1, <3>2 DEF Linked
  <2>7. Chained(catalog, t)
    <3> SUFFICES ASSUME NEW i \in 1..Len(t), NEW k \in 1..Len(t), i < k, t[i].cand # NoPkg
                 PROVE  Reaches(catalog, t[k].cand, t[i].cand)
      BY DEF Chained
    <3>1. /\ i - 1 \in 1..Len(frames) /\ t[i] = frames[i - 1]
          /\ k - 1 \in 1..Len(frames) /\ t[k] = frames[k - 1] /\ i - 1 < k - 1
      BY <2>3, <2>f
    <3> QED
      BY <3>1 DEF Chained
  <2>8. \A x \in selected : \A i \in 1..Len(frames) :
          TriedFrom(i, x, frames) => TriedFrom(i + 1, x, t)
    <3> SUFFICES ASSUME NEW x \in selected, NEW i \in 1..Len(frames), TriedFrom(i, x, frames)
                 PROVE  TriedFrom(i + 1, x, t)
      OBVIOUS
    <3>1. PICK l \in 1..Len(frames) : i <= l /\ frames[l].cand = x
      BY DEF TriedFrom
    <3>2. l + 1 \in 1..Len(t) /\ i + 1 <= l + 1 /\ t[l + 1].cand = x
      BY <2>4, <3>1
    <3> QED
      BY <3>2 DEF TriedFrom
  <2>9. Spare(selected, plan, frames) \subseteq Spare(selected, plan, t)
    <3> SUFFICES ASSUME NEW x \in selected, TriedFrom(1, x, t) PROVE TriedFrom(1, x, frames)
      BY DEF Spare
    <3>1. PICK l \in 1..Len(t) : t[l].cand = x
      BY DEF TriedFrom
    <3>2. l - 1 \in 1..Len(frames) /\ frames[l - 1].cand = x
      BY <1>t, <2>3, <2>f, <3>1
    <3> QED
      BY <3>2 DEF TriedFrom
  <2>10. Through(t, "none", plan, selected)
    <3> SUFFICES ASSUME NEW i \in 1..Len(t), t[i].cand # NoPkg,
                        NEW dep \in Depends[t[i].cand] \ t[i].todo
                 PROVE  \/ \E k \in 1..Len(t) : i = k + 1 /\ dep = t[k].req
                        \/ MetFrom(i, dep, plan, t, selected)
      BY DEF Through
    <3>1. i - 1 \in 1..Len(frames) /\ t[i] = frames[i - 1] /\ i = (i - 1) + 1
      BY <2>3, <2>f
    <3>2. CASE i - 1 = 1 /\ dep = req
      <4>1. 1 \in 1..Len(t) /\ i = 1 + 1 /\ dep = t[1].req
        BY <2>2, <2>f, <3>1, <3>2
      <4> QED
        BY <4>1
    <3>3. ASSUME NEW k \in 1..Len(frames), i - 1 = k + 1, dep = frames[k].req
          PROVE  \E l \in 1..Len(t) : i = l + 1 /\ dep = t[l].req
      <4>1. k + 1 \in 1..Len(t) /\ i = (k + 1) + 1 /\ dep = t[k + 1].req
        BY <2>4, <3>1, <3>3
      <4> QED
        BY <4>1
    <3>4. CASE MetFrom(i - 1, dep, plan, frames, selected)
      BY <2>8, <2>9, <3>1, <3>4 DEF MetFrom
    <3> QED
      BY <3>1, <3>2, <3>3, <3>4
  <2>11. Ordered(catalog, plan, t, selected)
    <3>1. \A x \in selected : \A k \in 1..Len(frames) : frames[k].cand = x =>
            \E l \in 1..Len(t) : t[l].cand = x /\ t[l].mark = frames[k].mark
      BY <2>4
    <3> QED
      BY <2>9, <3>1, OrderedMore
  <2>12. Pledged(t)
    BY <2>3, <2>f DEF Pledged
  <2> QED
    BY <1>3, <2>5, <2>6, <2>7, <2>10, <2>11, <2>12 DEF t, f
<1> QED
  BY <1>1, <1>2, <1>3 DEF Call

\* A new top frame without a candidate, or with the same one, keeps the plan in order.
LEMMA TopTries ==
  ASSUME NEW s \in Seq(Frame), NEW t \in Seq(Frame), s # <<>>, Len(t) = Len(s),
         \A i \in 2..Len(s) : t[i] = s[i], NEW list, NEW chosen, NEW more,
         chosen \subseteq more, \A x \in chosen : t[1].cand = x => s[1].cand = x
  PROVE  /\ Spare(chosen, list, s) \subseteq Spare(more, list, t)
         /\ \A x \in chosen : \A i \in 2..Len(s) : TriedFrom(i, x, s) => TriedFrom(i, x, t)
<1>1. Len(s) \in Nat \ {0}
  BY EmptySeq
<1>2. \A i \in 1..Len(s) : i = 1 \/ i \in 2..Len(s)
  BY <1>1
<1>3. \A x \in chosen : TriedFrom(1, x, t) => TriedFrom(1, x, s)
  BY <1>1, <1>2 DEF TriedFrom
<1>4. Spare(chosen, list, s) \subseteq Spare(more, list, t)
  BY <1>3 DEF Spare
<1>5. ASSUME NEW x \in chosen, NEW i \in 2..Len(s), TriedFrom(i, x, s)
      PROVE  TriedFrom(i, x, t)
  <2>1. PICK l \in 1..Len(s) : i <= l /\ s[l].cand = x
    BY <1>5 DEF TriedFrom
  <2>2. l \in 2..Len(s)
    BY <1>1, <2>1
  <2> QED
    BY <2>1, <2>2 DEF TriedFrom
<1> QED
  BY <1>4, <1>5

\* The root is called for with an empty plan.
LEMMA StartOrder == OrderInv /\ Start => OrderInv'
<1> SUFFICES ASSUME OrderInv, Start PROVE OrderInv'
  OBVIOUS
<1>i. SearchInv /\ SearchInv'
  BY StartKeeps DEF OrderInv
<1>0. selected = {} /\ plan = <<>> /\ Len(plan) = 0 /\ Len(<<>>) = 0
  BY DEF OrderInv, Bounded, Start
<1>1. CASE \E a \in catalog \cap Native : NameOf[a] = request
  <2>0. PICK a \in catalog : TRUE
    BY <1>1
  <2>1. Any(request) \in Dep
    <3>1. a \in Pkg
      BY <1>i, <2>0, ResolverAssumption DEF SearchInv, TypeOK
    <3>2. (CHOOSE v \in Version : TRUE) \in Version
      BY <3>1, ManifestAssumption
    <3> QED
      BY <1>i, <3>2 DEF Any, Dep, Op, SearchInv, TypeOK
  <2>2. Call(Any(request), <<>>) /\ UNCHANGED <<catalog, request, selected, plan, outcome>>
    BY <1>1 DEF Start
  <2>3. <<>> \in Seq(Frame) /\ UNCHANGED <<catalog, selected, plan>>
    BY <2>2
  <2>4. Matching(catalog, <<>>) /\ Linked(<<>>, Any(request)) /\ Chained(catalog, <<>>)
        /\ Pledged(<<>>)
    BY <1>0 DEF Matching, Linked, Chained, Pledged
  <2>5. Ordered(catalog, plan, <<>>, selected)
    BY <1>0 DEF Ordered
  <2>6. /\ Matching(catalog', stack') /\ Linked(stack', Any(request)) /\ Chained(catalog', stack')
        /\ Pledged(stack')
        /\ Through(stack', answer', plan', selected')
        /\ Ordered(catalog', plan', stack', selected')
    <3>1. \A i \in 1..Len(<<>>) : FALSE
      BY <1>0
    <3> DEFINE root == Any(request)
    <3> HIDE DEF root
    <3>2. /\ root \in Dep /\ Call(root, <<>>) /\ Linked(<<>>, root)
      BY <2>1, <2>2, <2>4 DEF root
    <3>3. /\ Matching(catalog', stack') /\ Linked(stack', root) /\ Chained(catalog', stack')
          /\ Pledged(stack')
          /\ Through(stack', answer', plan', selected')
          /\ Ordered(catalog', plan', stack', selected')
      BY <1>i, <2>3, <2>4, <2>5, <3>1, <3>2, CallOrder
    <3> QED
      BY <3>3 DEF root
  <2>7. Bounded'
    <3>1. ~Satisfied(Any(request))
      BY <1>0 DEF Satisfied
    <3>2. answer' # "met" /\ (stack' = <<>> => answer' # "none")
      BY <2>2, <3>1 DEF Call
    <3>3. outcome' = "none"
      BY <2>2 DEF Start
    <3> QED
      BY <3>2, <3>3 DEF Bounded
  <2> QED
    BY <1>i, <2>2, <2>6, <2>7 DEF OrderInv, Any
<1>2. CASE ~\E a \in catalog \cap Native : NameOf[a] = request
  BY <1>i, <1>2 DEF Start, OrderInv, Bounded, Any
<1> QED
  BY <1>1, <1>2

\* A dependency is called for: it is no longer among those that are left, and the frame
\* or the answer is for it.
LEMMA ResolveOrder ==
  ASSUME OrderInv, NEW dep \in Dep, Resolve(dep)
  PROVE  OrderInv'
<1> DEFINE f == [Head(stack) EXCEPT !.todo = @ \ {dep}]
           t == <<f>> \o Tail(stack)
<1>i. SearchInv /\ SearchInv' /\ stack # <<>>
  BY ResolveKeeps DEF OrderInv, Resolve, Active
<1>1. /\ stack \in Seq(Frame) /\ Head(stack) = stack[1] /\ stack[1] \in Frame
      /\ Len(stack) \in Nat \ {0} /\ 1 \in 1..Len(stack)
  BY <1>i, TopFrame
<1>2. /\ f \in Frame /\ f.cand = stack[1].cand /\ f.mark = stack[1].mark
      /\ f.req = stack[1].req /\ f.left = stack[1].left /\ f.cand # NoPkg
      /\ f.todo = stack[1].todo \ {dep} /\ dep \in stack[1].todo /\ answer = "none"
  BY <1>1 DEF Frame, Resolve, Active
<1>3. Call(dep, t) /\ UNCHANGED <<catalog, request, selected, plan, outcome>>
  BY DEF Resolve
<1>p. f.todo \subseteq Depends[f.cand] /\ dep \in Depends[f.cand]
  BY <1>1, <1>2 DEF OrderInv, Pledged
<1>4. \A i \in 2..Len(stack) : stack[i].cand # NoPkg
  BY <1>1 DEF OrderInv, SearchInv, Nested
<1> HIDE DEF f
<1>5. /\ t \in Seq(Frame) /\ t # <<>> /\ Len(t) = Len(stack)
      /\ t[1] = f /\ \A i \in 2..Len(stack) : t[i] = stack[i]
      /\ Matching(catalog, t) /\ Linked(t, Any(request)) /\ Chained(catalog, t) /\ Pledged(t)
  BY <1>1, <1>2, <1>4, <1>i, <1>p, TopOrder DEF OrderInv
<1> HIDE DEF t
<1>6. \A i \in 1..Len(stack) : /\ i = 1 \/ i \in 2..Len(stack)
                               /\ t[i].cand = stack[i].cand /\ t[i].mark = stack[i].mark
                               /\ t[i].req = stack[i].req
  BY <1>1, <1>2, <1>5
<1>7. /\ Spare(selected, plan, stack) \subseteq Spare(selected, plan, t)
      /\ \A x, k : TriedFrom(k, x, stack) => TriedFrom(k, x, t)
  BY <1>5, <1>6 DEF Spare, TriedFrom
<1>8. Ordered(catalog, plan, t, selected)
  <2>1. \A x \in selected : \A k \in 1..Len(stack) : stack[k].cand = x =>
          \E l \in 1..Len(t) : t[l].cand = x /\ t[l].mark = stack[k].mark
    BY <1>5, <1>6
  <2> QED
    BY <1>7, <2>1, OrderedMore DEF OrderInv
<1>9. \A i \in 1..Len(t) : t[i].cand # NoPkg
  BY <1>2, <1>4, <1>5, <1>6
<1>10. ASSUME NEW i \in 1..Len(t), NEW d \in Depends[t[i].cand] \ t[i].todo
       PROVE  \/ i = 1 /\ d = dep
              \/ \E k \in 1..Len(t) : i = k + 1 /\ d = t[k].req
              \/ MetFrom(i, d, plan, t, selected)
  <2>1. i \in 1..Len(stack) /\ stack[i].cand = t[i].cand /\ stack[i].cand # NoPkg
    BY <1>5, <1>6, <1>9
  <2>2. d \notin stack[i].todo \/ (i = 1 /\ d = dep)
    BY <1>2, <1>5, <1>6, <2>1
  <2>3. CASE d \notin stack[i].todo
    <3>1. \/ \E k \in 1..Len(stack) : i = k + 1 /\ d = stack[k].req
          \/ MetFrom(i, d, plan, stack, selected)
      BY <1>2, <1>10, <2>1, <2>3 DEF OrderInv, Through
    <3> QED
      BY <1>5, <1>6, <1>7, <3>1 DEF MetFrom
  <2> QED
    BY <2>2, <2>3
<1>11. dep \in Depends[t[1].cand]
  BY <1>5, <1>p
<1>12. /\ Matching(catalog', stack') /\ Linked(stack', Any(request)) /\ Chained(catalog', stack')
       /\ Pledged(stack')
       /\ Through(stack', answer', plan', selected')
       /\ Ordered(catalog', plan', stack', selected')
  BY <1>i, <1>3, <1>5, <1>8, <1>9, <1>10, <1>11, CallOrder
<1>13. stack' # <<>> /\ outcome' = outcome /\ outcome = "none"
  <2>1. stack' = t \/ \E g : stack' = <<g>> \o t
    BY <1>3 DEF Call
  <2>2. \A g : <<g>> \o t # <<>>
    BY <1>5
  <2> QED
    BY <1>i, <1>3, <1>5, <2>1, <2>2 DEF OrderInv, Bounded
<1> QED
  BY <1>i, <1>3, <1>12, <1>13 DEF OrderInv, Bounded, Any

\* A top frame that had no candidate loses a match, or begins to try one that was not
\* selected.
LEMMA TopHolds ==
  ASSUME NEW s \in Seq(Frame), NEW t \in Seq(Frame), s # <<>>, Len(t) = Len(s),
         \A i \in 2..Len(s) : t[i] = s[i], t[1].req = s[1].req,
         NEW C, NEW list, NEW chosen, NEW more, chosen \subseteq more, NoPkg \notin chosen,
         s[1].cand = NoPkg, t[1].cand \notin chosen,
         t[1].cand # NoPkg => t[1].todo = Depends[t[1].cand],
         Through(s, "none", list, chosen), Ordered(C, list, s, chosen)
  PROVE  Through(t, "none", list, more) /\ Ordered(C, list, t, more)
<1>1. Len(s) \in Nat \ {0}
  BY EmptySeq
<1>2. \A i \in 1..Len(s) : i = 1 \/ i \in 2..Len(s)
  BY <1>1
<1>3. /\ Spare(chosen, list, s) \subseteq Spare(more, list, t)
      /\ \A x \in chosen : \A i \in 2..Len(s) : TriedFrom(i, x, s) => TriedFrom(i, x, t)
  <2>1. \A x \in chosen : t[1].cand = x => s[1].cand = x
    OBVIOUS
  <2> QED
    BY <2>1, TopTries
<1>4. Through(t, "none", list, more)
  <2> SUFFICES ASSUME NEW i \in 1..Len(t), t[i].cand # NoPkg, NEW dep \in Depends[t[i].cand] \ t[i].todo
               PROVE  \/ \E k \in 1..Len(t) : i = k + 1 /\ dep = t[k].req
                      \/ MetFrom(i, dep, list, t, more)
    BY DEF Through
  <2>1. i \in 2..Len(s) /\ t[i] = s[i]
    BY <1>2
  <2>2. \/ \E k \in 1..Len(s) : i = k + 1 /\ dep = s[k].req
        \/ MetFrom(i, dep, list, s, chosen)
    BY <2>1 DEF Through
  <2>3. \A k \in 1..Len(s) : t[k].req = s[k].req
    BY <1>2
  <2> QED
    BY <1>3, <2>1, <2>2, <2>3 DEF MetFrom
<1>5. Ordered(C, list, t, more)
  <2>1. \A x \in chosen : \A k \in 1..Len(s) : s[k].cand = x =>
          \E l \in 1..Len(t) : t[l].cand = x /\ t[l].mark = s[k].mark
    BY <1>2
  <2> QED
    BY <1>3, <2>1, OrderedMore
<1> QED
  BY <1>4, <1>5

\* The next match is tried or passed over.
LEMMA ChooseOrder ==
  ASSUME OrderInv, NEW a \in Pkg, Choose(a)
  PROVE  OrderInv'
<1> DEFINE f == [Head(stack) EXCEPT !.left = @ \ {a}]
           g == [f EXCEPT !.cand = a, !.todo = Depends[a], !.mark = Len(plan)]
<1>i. SearchInv /\ SearchInv' /\ stack # <<>>
  BY ChooseKeeps DEF OrderInv, Choose, Active
<1>1. /\ stack \in Seq(Frame) /\ Head(stack) = stack[1] /\ stack[1] \in Frame
      /\ Len(stack) \in Nat \ {0} /\ 1 \in 1..Len(stack) /\ Len(plan) \in Nat
      /\ selected \subseteq Pkg /\ NoPkg \notin Pkg
  BY <1>i, TopFrame
<1>2. /\ stack[1].cand = NoPkg /\ a \in stack[1].left /\ answer = "none" /\ answer' = "none"
      /\ UNCHANGED <<catalog, request, plan, steps, outcome>>
  BY <1>1 DEF Choose, Active, Best
<1>3. /\ f \in Frame /\ f.req = stack[1].req /\ f.left \subseteq stack[1].left /\ f.cand = NoPkg
      /\ g \in Frame /\ g.req = stack[1].req /\ g.left \subseteq stack[1].left /\ g.cand = a
      /\ g.todo = Depends[a]
  BY <1>1, <1>2, ManifestAssumption DEF Frame
<1>4. \A i \in 2..Len(stack) : stack[i].cand # NoPkg
  BY <1>1 DEF OrderInv, SearchInv, Nested
<1>5. \/ stack' = <<f>> \o Tail(stack) /\ selected' = selected
      \/ /\ stack' = <<g>> \o Tail(stack) /\ selected' = selected \cup {a}
         /\ a \notin selected
  BY DEF Choose, NameSelected
<1>6. PICK h \in {f, g} : /\ stack' = <<h>> \o Tail(stack) /\ selected \subseteq selected'
                          /\ h.cand \notin selected
  BY <1>1, <1>3, <1>5
<1>7. /\ h \in Frame /\ h.req = stack[1].req /\ h.left \subseteq stack[1].left
      /\ h.cand \in {NoPkg, stack[1].cand} \cup stack[1].left
      /\ h.cand # NoPkg => h.todo = Depends[h.cand]
  BY <1>2, <1>3
<1> HIDE DEF f, g
<1>8. /\ stack' \in Seq(Frame) /\ stack' # <<>> /\ Len(stack') = Len(stack)
      /\ stack'[1] = h /\ \A i \in 2..Len(stack) : stack'[i] = stack[i]
      /\ Matching(catalog, stack') /\ Linked(stack', Any(request)) /\ Chained(catalog, stack')
      /\ Pledged(stack')
  <2>1. /\ Matching(catalog, stack) /\ Linked(stack, Any(request)) /\ Chained(catalog, stack)
        /\ Pledged(stack)
        /\ h.cand # NoPkg => h.todo \subseteq Depends[h.cand]
    BY <1>7 DEF OrderInv
  <2>2. LET t == <<h>> \o Tail(stack) IN
        /\ t \in Seq(Frame) /\ t # <<>> /\ Len(t) = Len(stack) /\ Len(stack) \in Nat \ {0}
        /\ t[1] = h /\ \A i \in 2..Len(stack) : t[i] = stack[i]
        /\ Matching(catalog, t) /\ Linked(t, Any(request)) /\ Chained(catalog, t) /\ Pledged(t)
    BY <1>1, <1>4, <1>7, <1>i, <2>1, TopOrder
  <2> QED
    BY <1>6, <2>2
<1>9. Through(stack', "none", plan, selected') /\ Ordered(catalog, plan, stack', selected')
  <2>1. Through(stack, "none", plan, selected) /\ Ordered(catalog, plan, stack, selected)
    BY <1>2 DEF OrderInv
  <2>2. NoPkg \notin selected
    BY <1>1
  <2> QED
    BY ZenonT(60), <1>1, <1>2, <1>6, <1>7, <1>8, <1>i, <2>1, <2>2, TopHolds
<1> QED
  BY <1>i, <1>2, <1>8, <1>9 DEF OrderInv, Bounded, Any

\* Popping the frame of a requirement leaves what is spare and what is tried further out.
LEMMA PopHolds ==
  ASSUME NEW s, NEW t, Len(t) \in Nat, Len(s) = Len(t) + 1,
         \A i \in 1..Len(t) : i + 1 \in 1..Len(s) /\ t[i] = s[i + 1],
         \A i \in 2..Len(s) : i - 1 \in 1..Len(t) /\ s[i] = t[i - 1]
  PROVE  /\ \A x : TriedFrom(1, x, t) => TriedFrom(1, x, s)
         /\ \A x : TriedFrom(1, x, s) => TriedFrom(1, x, t) \/ s[1].cand = x
         /\ \A x : \A i \in 1..Len(t) : TriedFrom(i + 1, x, s) => TriedFrom(i, x, t)
<1>1. \A i \in 1..Len(s) : i = 1 \/ i \in 2..Len(s)
  OBVIOUS
<1>2. ASSUME NEW x, TriedFrom(1, x, t) PROVE TriedFrom(1, x, s)
  <2>1. PICK l \in 1..Len(t) : t[l].cand = x
    BY <1>2 DEF TriedFrom
  <2>2. l + 1 \in 1..Len(s) /\ 1 <= l + 1 /\ s[l + 1].cand = x
    BY <2>1
  <2> QED
    BY <2>2 DEF TriedFrom
<1>3. ASSUME NEW x, TriedFrom(1, x, s), s[1].cand # x PROVE TriedFrom(1, x, t)
  <2>1. PICK l \in 1..Len(s) : s[l].cand = x
    BY <1>3 DEF TriedFrom
  <2>2. l - 1 \in 1..Len(t) /\ 1 <= l - 1 /\ t[l - 1].cand = x
    BY <1>1, <1>3, <2>1
  <2> QED
    BY <2>2 DEF TriedFrom
<1>4. ASSUME NEW x, NEW i \in 1..Len(t), TriedFrom(i + 1, x, s) PROVE TriedFrom(i, x, t)
  <2>1. PICK l \in 1..Len(s) : i + 1 <= l /\ s[l].cand = x
    BY <1>4 DEF TriedFrom
  <2>2. l - 1 \in 1..Len(t) /\ i <= l - 1 /\ t[l - 1].cand = x
    BY <2>1
  <2> QED
    BY <2>2 DEF TriedFrom
<1> QED
  BY <1>2, <1>3, <1>4

\* No match is left: the dependency below has failed.
LEMMA GiveUpOrder == OrderInv /\ GiveUp => OrderInv'
<1> SUFFICES ASSUME OrderInv, GiveUp PROVE OrderInv'
  OBVIOUS
<1> DEFINE t == Tail(stack)
<1>i. SearchInv /\ SearchInv' /\ stack # <<>>
  BY GiveUpKeeps DEF OrderInv, GiveUp, Active
<1>1. /\ stack \in Seq(Frame) /\ Head(stack) = stack[1] /\ selected \subseteq Pkg /\ NoPkg \notin Pkg
  BY <1>i, TopFrame
<1>2. /\ stack[1].cand = NoPkg /\ answer = "none" /\ answer' = "unmet" /\ stack' = t
      /\ UNCHANGED <<catalog, request, selected, plan, steps, outcome>>
  BY <1>1 DEF GiveUp, Active
<1>3. /\ Len(t) \in Nat /\ Len(stack) = Len(t) + 1
      /\ \A i \in 1..Len(t) : i + 1 \in 1..Len(stack) /\ t[i] = stack[i + 1]
      /\ \A i \in 2..Len(stack) : i - 1 \in 1..Len(t) /\ stack[i] = t[i - 1]
      /\ Matching(catalog, t) /\ Linked(t, Any(request)) /\ Chained(catalog, t) /\ Pledged(t)
  BY <1>1, <1>i, PopOrder DEF OrderInv
<1> HIDE DEF t
<1>4. /\ \A x : TriedFrom(1, x, t) => TriedFrom(1, x, stack)
      /\ \A x : \A i \in 1..Len(t) : TriedFrom(i + 1, x, stack) => TriedFrom(i, x, t)
  BY <1>3, PopHolds
<1>5. Spare(selected, plan, stack) \subseteq Spare(selected, plan, t)
  BY <1>4 DEF Spare
<1>6. Through(t, "unmet", plan, selected)
  <2> SUFFICES ASSUME NEW i \in 1..Len(t), t[i].cand # NoPkg, i # 1,
                      NEW dep \in Depends[t[i].cand] \ t[i].todo
               PROVE  \/ \E k \in 1..Len(t) : i = k + 1 /\ dep = t[k].req
                      \/ MetFrom(i, dep, plan, t, selected)
    BY DEF Through
  <2>1. i + 1 \in 1..Len(stack) /\ i + 1 # 1 /\ t[i] = stack[i + 1]
    BY <1>3
  <2>2. \/ \E k \in 1..Len(stack) : i + 1 = k + 1 /\ dep = stack[k].req
        \/ MetFrom(i + 1, dep, plan, stack, selected)
    BY <2>1 DEF OrderInv, Through
  <2>3. ASSUME NEW k \in 1..Len(stack), i + 1 = k + 1, dep = stack[k].req
        PROVE  \E l \in 1..Len(t) : i = l + 1 /\ dep = t[l].req
    <3>1. k \in 2..Len(stack) /\ k = i
      BY <1>3, <2>3
    <3>2. k - 1 \in 1..Len(t) /\ i = (k - 1) + 1 /\ dep = t[k - 1].req
      BY <1>3, <2>3, <3>1
    <3> QED
      BY <3>2
  <2>4. CASE MetFrom(i + 1, dep, plan, stack, selected)
    BY <1>4, <1>5, <2>4 DEF MetFrom
  <2> QED
    BY <2>2, <2>3, <2>4
<1>7. Ordered(catalog, plan, t, selected)
  <2>1. ASSUME NEW x \in selected, NEW k \in 1..Len(stack), stack[k].cand = x
        PROVE  \E l \in 1..Len(t) : t[l].cand = x /\ t[l].mark = stack[k].mark
    <3>1. k \in 2..Len(stack)
      BY <1>1, <1>2, <1>3, <2>1
    <3> QED
      BY <1>3, <2>1, <3>1
  <2> QED
    BY <1>5, <2>1, OrderedMore DEF OrderInv
<1> QED
  BY <1>i, <1>2, <1>3, <1>6, <1>7 DEF OrderInv, Bounded, Any

\* A dependency is met: so are all that the frame has been through.
LEMMA GoOnOrder == OrderInv /\ GoOn => OrderInv'
BY GoOnKeeps DEF OrderInv, GoOn, Through, Bounded, Any

\* Only a search that met its root has a plan.
LEMMA FinishOrder == OrderInv /\ Finish => OrderInv'
BY FinishKeeps DEF OrderInv, Finish, Bounded, Any

\* The candidate goes to the end of the plan: what meets its dependencies is spare, or
\* planned, or tried further out, where it needs this one in the end.
LEMMA AcceptOrder == OrderInv /\ Accept => OrderInv'
<1> SUFFICES ASSUME OrderInv, Accept PROVE OrderInv'
  OBVIOUS
<1> DEFINE t == Tail(stack)
           c == stack[1].cand
<1>i. SearchInv /\ SearchInv' /\ stack # <<>>
  BY AcceptKeeps DEF OrderInv, Accept, Active
<1>1. /\ stack \in Seq(Frame) /\ Head(stack) = stack[1] /\ 1 \in 1..Len(stack)
      /\ stack[1] \in Frame /\ plan \in Seq(Pkg) /\ Len(plan) \in Nat
  BY <1>i, TopFrame
<1>2. /\ c # NoPkg /\ stack[1].todo = {} /\ answer = "none" /\ answer' = "met" /\ stack' = t
      /\ plan' = Append(plan, c) /\ UNCHANGED <<catalog, request, selected, steps, outcome>>
  BY <1>1 DEF Accept, Active
<1>3. /\ Len(t) \in Nat /\ Len(stack) = Len(t) + 1
      /\ \A i \in 1..Len(t) : i + 1 \in 1..Len(stack) /\ t[i] = stack[i + 1]
      /\ \A i \in 2..Len(stack) : i - 1 \in 1..Len(t) /\ stack[i] = t[i - 1]
      /\ Matching(catalog, t) /\ Linked(t, Any(request)) /\ Chained(catalog, t) /\ Pledged(t)
  BY <1>1, <1>i, PopOrder DEF OrderInv
<1>c. /\ c \in Pkg /\ c \in selected /\ c \in catalog /\ Matches(c, stack[1].req)
  BY <1>1, <1>2 DEF OrderInv, SearchInv, Nested, Matching, Frame
<1>n. /\ Len(plan') = Len(plan) + 1 /\ Len(plan') \in 1..Len(plan') /\ plan'[Len(plan')] = c
      /\ \A i \in 1..Len(plan) : i \in 1..Len(plan') /\ plan'[i] = plan[i] /\ i < Len(plan')
      /\ \A i \in 1..Len(plan') : i = Len(plan') \/ i \in 1..Len(plan)
  <2>1. /\ plan' \in Seq(Pkg) /\ Len(plan') = Len(plan) + 1
        /\ plan'[Len(plan')] = c /\ \A i \in 1..Len(plan) : plan'[i] = plan[i]
    BY <1>1, <1>2, <1>c, AppendProperties
  <2> QED
    BY <1>1, <2>1
<1> HIDE DEF t, c
<1>4. /\ \A x : TriedFrom(1, x, t) => TriedFrom(1, x, stack)
      /\ \A x : \A i \in 1..Len(t) : TriedFrom(i + 1, x, stack) => TriedFrom(i, x, t)
  BY <1>3, PopHolds
<1>5. /\ \A x : InPlan(x, plan) => InPlan(x, plan')
      /\ \A x : InPlan(x, plan') => InPlan(x, plan) \/ x = c
      /\ InPlan(c, plan')
  BY <1>n DEF InPlan
<1>6. Spare(selected, plan, stack) \subseteq Spare(selected, plan', t)
  <2>1. TriedFrom(1, c, stack)
    BY <1>1 DEF TriedFrom, c
  <2> QED
    BY <1>4, <1>5, <2>1 DEF Spare
<1>7. Through(t, "met", plan', selected)
  <2> SUFFICES ASSUME NEW i \in 1..Len(t), t[i].cand # NoPkg,
                      NEW dep \in Depends[t[i].cand] \ t[i].todo
               PROVE  \/ \E k \in 1..Len(t) : i = k + 1 /\ dep = t[k].req
                      \/ MetFrom(i, dep, plan', t, selected)
    BY DEF Through
  <2>1. i + 1 \in 1..Len(stack) /\ i + 1 # 1 /\ t[i] = stack[i + 1]
    BY <1>3
  <2>2. \/ \E k \in 1..Len(stack) : i + 1 = k + 1 /\ dep = stack[k].req
        \/ MetFrom(i + 1, dep, plan, stack, selected)
    BY <1>2, <2>1 DEF OrderInv, Through
  <2>3. CASE dep = stack[1].req
    BY <1>5, <1>c, <2>3 DEF MetFrom
  <2>4. ASSUME NEW k \in 1..Len(stack), i + 1 = k + 1, dep = stack[k].req, k # 1
        PROVE  \E l \in 1..Len(t) : i = l + 1 /\ dep = t[l].req
    <3>1. k \in 2..Len(stack) /\ k = i
      BY <1>3, <2>4
    <3>2. k - 1 \in 1..Len(t) /\ i = (k - 1) + 1 /\ dep = t[k - 1].req
      BY <1>3, <2>4, <3>1
    <3> QED
      BY <3>2
  <2>5. CASE MetFrom(i + 1, dep, plan, stack, selected)
    BY <1>4, <1>5, <1>6, <2>5 DEF MetFrom
  <2> QED
    BY <2>2, <2>3, <2>4, <2>5
<1>8. Ordered(catalog, plan', t, selected)
  <2> SUFFICES ASSUME NEW i \in 1..Len(plan'), NEW dep \in Depends[plan'[i]]
               PROVE  \E x \in selected :
                        /\ Matches(x, dep)
                        /\ \/ x \in Spare(selected, plan', t)
                           \/ \E j \in 1..Len(plan') : j < i /\ plan'[j] = x
                           \/ /\ Reaches(catalog, x, plan'[i])
                              /\ \/ InPlan(x, plan')
                                 \/ \E k \in 1..Len(t) : t[k].cand = x /\ t[k].mark < i
    BY DEF Ordered
  <2>1. CASE i \in 1..Len(plan)
    <3>1. PICK x \in selected :
            /\ Matches(x, dep)
            /\ \/ x \in Spare(selected, plan, stack)
               \/ \E j \in 1..Len(plan) : j < i /\ plan[j] = x
               \/ /\ Reaches(catalog, x, plan[i])
                  /\ \/ InPlan(x, plan)
                     \/ \E k \in 1..Len(stack) : stack[k].cand = x /\ stack[k].mark < i
      BY <1>n, <2>1 DEF OrderInv, Ordered
    <3>2. ASSUME NEW k \in 1..Len(stack), stack[k].cand = x, stack[k].mark < i
          PROVE  InPlan(x, plan') \/ \E l \in 1..Len(t) : t[l].cand = x /\ t[l].mark < i
      <4>1. k = 1 \/ k \in 2..Len(stack)
        BY <1>3
      <4>2. CASE k = 1
        BY <1>5, <3>2, <4>2 DEF c
      <4>3. CASE k \in 2..Len(stack)
        BY <1>3, <3>2, <4>3
      <4> QED
        BY <4>1, <4>2, <4>3
    <3> QED
      BY <1>5, <1>6, <1>n, <2>1, <3>1, <3>2
  <2>2. CASE i = Len(plan')
    <3>0. plan'[i] = c /\ Len(plan) < i
      BY <1>1, <1>n, <2>2
    <3>1. MetFrom(1, dep, plan, stack, selected)
      <4>1. dep \in Depends[stack[1].cand] \ stack[1].todo /\ stack[1].cand # NoPkg
        BY <1>2, <3>0 DEF c
      <4>2. ~\E k \in 1..Len(stack) : 1 = k + 1
        BY <1>3
      <4> QED
        BY <1>1, <1>2, <4>1, <4>2 DEF OrderInv, Through
    <3>2. PICK x \in selected :
            /\ Matches(x, dep)
            /\ x \in Spare(selected, plan, stack) \/ InPlan(x, plan) \/ TriedFrom(1, x, stack)
      BY <3>1 DEF MetFrom
    <3>3. CASE InPlan(x, plan)
      BY <1>n, <2>2, <3>2, <3>3 DEF InPlan
    <3>4. CASE TriedFrom(1, x, stack)
      <4>1. PICK k \in 1..Len(stack) : stack[k].cand = x
        BY <3>4 DEF TriedFrom
      <4>2. CASE k = 1
        <5>1. x = c /\ Needs(c, c)
          BY <3>0, <3>2, <4>1, <4>2 DEF Needs, c
        <5>2. Reaches(catalog, x, plan'[i])
          BY <1>c, <3>0, <5>1, ReachesNext
        <5> QED
          BY <1>5, <3>2, <5>1, <5>2
      <4>3. CASE k # 1
        <5>1. k \in 2..Len(stack) /\ 1 < k
          BY <1>3, <4>3
        <5>2. Reaches(catalog, x, plan'[i])
          BY <1>1, <1>2, <3>0, <4>1, <5>1 DEF OrderInv, Chained, c
        <5>3. stack[k].mark <= Len(plan) /\ stack[k].mark \in Nat
          BY <1>i, TopFrame DEF SearchInv, Marked
        <5>4. k - 1 \in 1..Len(t) /\ t[k - 1].cand = x /\ t[k - 1].mark < i
          BY <1>1, <1>3, <1>n, <2>2, <4>1, <5>1, <5>3
        <5> QED
          BY <3>2, <5>2, <5>4
      <4> QED
        BY <4>2, <4>3
    <3> QED
      BY <1>6, <3>2, <3>3, <3>4
  <2> QED
    BY <1>n, <2>1, <2>2
<1>9. Bounded'
  <2>1. outcome' = "none"
    BY <1>2, <1>i DEF OrderInv, Bounded
  <2>2. ASSUME stack' = <<>> PROVE plan' # <<>> /\ Matches(plan'[Len(plan')], Any(request)')
    <3>1. Len(t) = 0
      BY <1>2, <2>2
    <3>2. stack[1].req = Any(request)
      BY <1>3, <1>i, <3>1 DEF OrderInv, Linked
    <3>3. Any(request)' = Any(request)
      BY <1>2 DEF Any
    <3>4. plan' # <<>>
      BY <1>2, <1>1, <1>c, AppendProperties
    <3> QED
      BY <1>c, <1>n, <3>2, <3>3, <3>4
  <2> QED
    BY <1>2, <2>1, <2>2 DEF Bounded
<1> QED
  BY <1>i, <1>2, <1>3, <1>7, <1>8, <1>9 DEF OrderInv, Any

\* The candidate is given up: what the plan loses is spare from then on.
LEMMA RetractOrder == OrderInv /\ Retract => OrderInv'
<1> SUFFICES ASSUME OrderInv, Retract PROVE OrderInv'
  OBVIOUS
<1> DEFINE f == [Head(stack) EXCEPT !.cand = NoPkg, !.todo = {}, !.mark = 0]
           t == <<f>> \o Tail(stack)
           m == stack[1].mark
           c == stack[1].cand
<1>i. SearchInv /\ SearchInv' /\ stack # <<>>
  BY RetractKeeps DEF OrderInv, Retract
<1>1. /\ stack \in Seq(Frame) /\ Head(stack) = stack[1] /\ stack[1] \in Frame
      /\ Len(stack) \in Nat \ {0} /\ 1 \in 1..Len(stack)
      /\ plan \in Seq(Pkg) /\ Len(plan) \in Nat /\ selected \subseteq Pkg /\ NoPkg \notin Pkg
  BY <1>i, TopFrame
<1>2. /\ f \in Frame /\ f.req = stack[1].req /\ f.left = stack[1].left /\ f.cand = NoPkg
  BY <1>1 DEF Frame
<1>3. /\ answer = "unmet" /\ answer' = "none" /\ stack' = t
      /\ selected' = selected \ {c} /\ plan' = SubSeq(plan, 1, m)
      /\ UNCHANGED <<catalog, request, steps, outcome>>
  BY <1>1 DEF Retract
<1>c. c # NoPkg
  BY <1>1, <1>3, <1>i DEF SearchInv, Answering
<1>4. m \in Nat /\ m <= Len(plan)
  BY <1>1, <1>i DEF SearchInv, Marked, Frame
<1>5. \A i \in 2..Len(stack) : stack[i].cand # NoPkg /\ stack[i].cand # c /\ i \in 1..Len(stack)
  BY <1>1, <1>i DEF SearchInv, Nested
<1> HIDE DEF f
<1>6. /\ t \in Seq(Frame) /\ t # <<>> /\ Len(t) = Len(stack)
      /\ t[1] = f /\ \A i \in 2..Len(stack) : t[i] = stack[i]
      /\ Matching(catalog, t) /\ Linked(t, Any(request)) /\ Chained(catalog, t) /\ Pledged(t)
  BY <1>1, <1>2, <1>5, <1>i, TopOrder DEF OrderInv
<1> HIDE DEF t, m, c
<1>7. \A i \in 1..Len(stack) : i = 1 \/ i \in 2..Len(stack)
  BY <1>1
<1>8. /\ Len(plan') = m
      /\ \A i \in 1..m : i \in 1..Len(plan) /\ plan'[i] = plan[i]
  <2>1. \A i \in 1..m : i \in 1..Len(plan) /\ plan[i] \in Pkg
    BY <1>1, <1>4, ElementOfSeq
  <2>2. /\ Len(plan') = IF 1 <= m THEN m - 1 + 1 ELSE 0
        /\ \A i \in 1..(m - 1 + 1) : plan'[i] = plan[1 + i - 1]
    BY <1>3, <1>4, <2>1, SubSeqProperties
  <2> QED
    BY <1>4, <2>1, <2>2
<1>9. \A x : TriedFrom(1, x, t) /\ x # NoPkg => TriedFrom(1, x, stack)
  <2> SUFFICES ASSUME NEW x, TriedFrom(1, x, t), x # NoPkg PROVE TriedFrom(1, x, stack)
    OBVIOUS
  <2>1. PICK l \in 1..Len(t) : 1 <= l /\ t[l].cand = x
    BY DEF TriedFrom
  <2>2. l \in 1..Len(stack) /\ stack[l].cand = x
    BY <1>2, <1>6, <1>7, <2>1
  <2> QED
    BY <2>1, <2>2 DEF TriedFrom
<1>10. \A x : InPlan(x, plan') => InPlan(x, plan)
  BY <1>8 DEF InPlan
\* What was neither planned nor tried stays so, and the candidate was tried.
<1>11. Spare(selected, plan, stack) \subseteq Spare(selected', plan', t)
  <2>1. TriedFrom(1, c, stack)
    BY <1>1 DEF TriedFrom, c
  <2> QED
    BY <1>1, <1>3, <1>9, <1>10, <2>1 DEF Spare
\* What was planned stays planned, or is cut off and becomes spare.
<1>12. \A x \in selected : InPlan(x, plan) =>
         x \in selected' /\ (InPlan(x, plan') \/ x \in Spare(selected', plan', t))
  <2> SUFFICES ASSUME NEW x \in selected, InPlan(x, plan)
               PROVE  x \in selected' /\ (InPlan(x, plan') \/ x \in Spare(selected', plan', t))
    OBVIOUS
  <2>1. \A k \in 1..Len(stack) : stack[k].cand # x
    BY <1>i DEF SearchInv, Listed, InPlan
  <2>2. ~TriedFrom(1, x, stack) /\ x # c
    BY <1>1, <2>1 DEF TriedFrom, c
  <2> QED
    BY <1>1, <1>3, <1>9, <2>2 DEF Spare
\* What is tried further out is another candidate than the one that is given up.
<1>13. \A x \in selected : \A i \in 2..Len(stack) :
         TriedFrom(i, x, stack) => x \in selected' /\ TriedFrom(i, x, t)
  <2> SUFFICES ASSUME NEW x \in selected, NEW i \in 2..Len(stack), TriedFrom(i, x, stack)
               PROVE  x \in selected' /\ TriedFrom(i, x, t)
    OBVIOUS
  <2>1. PICK l \in 1..Len(stack) : i <= l /\ stack[l].cand = x
    BY DEF TriedFrom
  <2>2. l \in 2..Len(stack)
    BY <1>1, <2>1
  <2>3. x # c /\ l \in 1..Len(t) /\ t[l].cand = x
    BY <1>5, <1>6, <2>1, <2>2
  <2> QED
    BY <1>3, <2>1, <2>3 DEF TriedFrom
<1>14. Through(t, "none", plan', selected')
  <2> SUFFICES ASSUME NEW i \in 1..Len(t), t[i].cand # NoPkg,
                      NEW dep \in Depends[t[i].cand] \ t[i].todo
               PROVE  \/ \E k \in 1..Len(t) : i = k + 1 /\ dep = t[k].req
                      \/ MetFrom(i, dep, plan', t, selected')
    BY DEF Through
  <2>1. i \in 2..Len(stack) /\ i # 1 /\ i \in 1..Len(stack) /\ t[i] = stack[i]
    BY <1>2, <1>6, <1>7
  <2>2. \/ \E k \in 1..Len(stack) : i = k + 1 /\ dep = stack[k].req
        \/ MetFrom(i, dep, plan, stack, selected)
    BY <2>1 DEF OrderInv, Through
  <2>3. \A k \in 1..Len(stack) : t[k].req = stack[k].req
    BY <1>2, <1>6, <1>7
  <2>4. CASE MetFrom(i, dep, plan, stack, selected)
    <3>1. PICK x \in selected :
            /\ Matches(x, dep)
            /\ x \in Spare(selected, plan, stack) \/ InPlan(x, plan) \/ TriedFrom(i, x, stack)
      BY <2>4 DEF MetFrom
    <3>2. x \in Spare(selected', plan', t) => x \in selected'
      BY DEF Spare
    <3> QED
      BY <1>11, <1>12, <1>13, <2>1, <3>1, <3>2 DEF MetFrom
  <2> QED
    BY <1>6, <2>2, <2>3, <2>4
<1>15. Ordered(catalog, plan', t, selected')
  <2> SUFFICES ASSUME NEW i \in 1..Len(plan'), NEW dep \in Depends[plan'[i]]
               PROVE  \E x \in selected' :
                        /\ Matches(x, dep)
                        /\ \/ x \in Spare(selected', plan', t)
                           \/ \E j \in 1..Len(plan') : j < i /\ plan'[j] = x
                           \/ /\ Reaches(catalog, x, plan'[i])
                              /\ \/ InPlan(x, plan')
                                 \/ \E k \in 1..Len(t) : t[k].cand = x /\ t[k].mark < i
    BY DEF Ordered
  <2>0. i \in 1..m /\ i \in 1..Len(plan) /\ plan'[i] = plan[i] /\ dep \in Depends[plan[i]]
    BY <1>8
  <2>1. PICK x \in selected :
          /\ Matches(x, dep)
          /\ \/ x \in Spare(selected, plan, stack)
             \/ \E j \in 1..Len(plan) : j < i /\ plan[j] = x
             \/ /\ Reaches(catalog, x, plan[i])
                /\ \/ InPlan(x, plan)
                   \/ \E k \in 1..Len(stack) : stack[k].cand = x /\ stack[k].mark < i
    BY <2>0 DEF OrderInv, Ordered
  <2>2. x \in Spare(selected', plan', t) => x \in selected'
    BY DEF Spare
  <2>3. CASE x \in Spare(selected, plan, stack)
    BY <1>11, <2>1, <2>2, <2>3
  <2>4. ASSUME NEW j \in 1..Len(plan), j < i, plan[j] = x
        PROVE  x \in selected' /\ \E l \in 1..Len(plan') : l < i /\ plan'[l] = x
    <3>1. j \in 1..Len(plan') /\ plan'[j] = x
      BY <1>4, <1>8, <2>0, <2>4
    <3>2. InPlan(x, plan)
      BY <2>4 DEF InPlan
    <3> QED
      BY <1>12, <2>4, <3>1, <3>2
  <2>5. CASE Reaches(catalog, x, plan[i]) /\ InPlan(x, plan)
    BY <1>12, <2>0, <2>1, <2>5
  <2>6. ASSUME NEW k \in 1..Len(stack), stack[k].cand = x, stack[k].mark < i
        PROVE  x \in selected' /\ \E l \in 1..Len(t) : t[l].cand = x /\ t[l].mark < i
    <3>1. k # 1
      BY <1>4, <2>0, <2>6 DEF m
    <3>2. k \in 2..Len(stack)
      BY <1>7, <3>1
    <3> QED
      BY <1>3, <1>5, <1>6, <2>6, <3>2
  <2> QED
    BY <2>0, <2>1, <2>3, <2>4, <2>5, <2>6
<1> QED
  BY <1>i, <1>3, <1>6, <1>14, <1>15 DEF OrderInv, Bounded, Any

\* The search starts with nothing to put in order.
LEMMA OrderInit == Init => OrderInv
<1> SUFFICES ASSUME Init PROVE OrderInv
  OBVIOUS
<1>1. stack = <<>> /\ plan = <<>> /\ selected = {} /\ Len(<<>>) = 0
  BY DEF Init
<1> QED
  BY <1>1, SearchInit
  DEF Init, OrderInv, Matching, Linked, Chained, Pledged, Through, Ordered, Bounded

\* Every step of the search keeps its plan in order.
LEMMA OrderStep == OrderInv /\ [Next]_vars => OrderInv'
<1> SUFFICES ASSUME OrderInv, [Next]_vars PROVE OrderInv'
  OBVIOUS
<1>1. CASE Start
  BY <1>1, StartOrder
<1>2. CASE GiveUp
  BY <1>2, GiveUpOrder
<1>3. CASE GoOn
  BY <1>3, GoOnOrder
<1>4. CASE Retract
  BY <1>4, RetractOrder
<1>5. CASE Accept
  BY <1>5, AcceptOrder
<1>6. CASE Finish
  BY <1>6, FinishOrder
<1>7. ASSUME NEW a \in Pkg, Choose(a) PROVE OrderInv'
  BY <1>7, ChooseOrder
<1>8. ASSUME NEW dep \in Dep, Resolve(dep) PROVE OrderInv'
  BY <1>8, ResolveOrder
<1>9. CASE UNCHANGED vars
  <2>1. SearchInv'
    BY <1>9, SearchStep DEF OrderInv
  <2> QED
    BY <1>9, <2>1 DEF vars, OrderInv, Bounded, Any
<1> QED
  BY <1>1, <1>2, <1>3, <1>4, <1>5, <1>6, <1>7, <1>8, <1>9 DEF Next

\* A plan that is handed out ends with what was asked for, and what each member needs is
\* selected and left aside, or planned before it, or planned after it and needs it in the
\* end: in whatever order dependencies are resolved, candidates retracted and cycles cut.
THEOREM PlansInOrder == Spec => []PlanInOrder
<1>1. Spec => []OrderInv
  BY OrderInit, OrderStep, PTL DEF Spec
<1>2. OrderInv => PlanInOrder
  <2> SUFFICES ASSUME OrderInv, outcome = "plan"
               PROVE  /\ plan # <<>> /\ Matches(plan[Len(plan)], Any(request))
                      /\ \A i \in DOMAIN plan : \A dep \in Depends[plan[i]] :
                           \/ \E a \in selected \ Planned : Matches(a, dep)
                           \/ \E j \in DOMAIN plan :
                                /\ Matches(plan[j], dep)
                                /\ j < i \/ NeedsInTheEnd(plan[j], plan[i])
    BY DEF PlanInOrder
  <2>1. stack = <<>> /\ Len(stack) = 0 /\ answer = "met"
    BY DEF OrderInv, Bounded
  <2>2. DOMAIN plan = 1..Len(plan)
    BY LenProperties DEF OrderInv, SearchInv, TypeOK
  <2>3. plan # <<>> /\ Matches(plan[Len(plan)], Any(request))
    BY <2>1 DEF OrderInv, Bounded
  <2>4. ASSUME NEW i \in DOMAIN plan, NEW dep \in Depends[plan[i]]
        PROVE  \/ \E a \in selected \ Planned : Matches(a, dep)
               \/ \E j \in DOMAIN plan : /\ Matches(plan[j], dep)
                                         /\ j < i \/ NeedsInTheEnd(plan[j], plan[i])
    <3>1. PICK x \in selected :
            /\ Matches(x, dep)
            /\ \/ x \in Spare(selected, plan, stack)
               \/ \E j \in 1..Len(plan) : j < i /\ plan[j] = x
               \/ Reaches(catalog, x, plan[i]) /\ InPlan(x, plan)
      BY <2>1, <2>2, <2>4 DEF OrderInv, Ordered
    <3>2. CASE x \in Spare(selected, plan, stack)
      BY <2>2, <3>1, <3>2 DEF Spare, InPlan, Planned
    <3>3. CASE Reaches(catalog, x, plan[i]) /\ InPlan(x, plan)
      BY <2>2, <3>1, <3>3 DEF Reaches, NeedsInTheEnd, InPlan
    <3> QED
      BY <2>2, <3>1, <3>2, <3>3
  <2> QED
    BY <2>3, <2>4
<1> QED
  BY <1>1, <1>2, PTL

-----------------------------------------------------------------------------
\* What the theorems assume

\* The comparators answer the same, and the opposite for the opposite question.
OneOrder ==
  /\ TxCmp = DbCmp
  /\ \A v, w \in Version : DbCmp[<<v, w>>] = -DbCmp[<<w, v>>]

\* Archives of one release of a package provide the same.
PublishedOnce == \A a, b \in Pkg : Same(a, b) => Provides[a] = Provides[b]

-----------------------------------------------------------------------------
\* The inductive invariants

ClientInv ==
  /\ SearchInv
  /\ ClientTypeOK
  /\ phase \in {"resolve", "check"} => pos = 1
  /\ phase = "check" => command = "install"
  /\ phase # "idle" => result = "none"

\* a is installed, or, after an upgrade, a newer version of it.
Delivered(a) ==
  /\ Record(a) # NoPkg
  /\ ~Below(Record(a), a)
  /\ command = "install" => Same(a, Record(a))

\* While a plan is executed what it has been through is delivered, and an install
\* has nothing before it that it would have to replace.
DeliveryInv ==
  /\ ClientInv
  /\ phase = "run" =>
       /\ \A i \in 1..(pos - 1) : Delivered(plan[i])
       /\ command = "install" => \A i \in 1..Len(plan) : Fits(plan[i])

-----------------------------------------------------------------------------
\* Commands keep their types and the search its invariant

\* A search that is started anew.
LEMMA ResetKeeps ==
  ASSUME NEW c \in Catalogs, Reset(c), request' \in Cap
  PROVE  SearchInv'
<1>1. Init'
  BY DEF Reset, Init
<1>2. Init' => SearchInv'
  BY SearchInit, PTL
<1> QED
  BY <1>1, <1>2

\* A configuration is a list of catalogs, and not empty.
LEMMA RepositoryTypes ==
  ASSUME NEW rs \in Configurations
  PROVE  /\ DOMAIN rs = 1..Len(rs) /\ Len(rs) \in Nat \ {0}
         /\ \A i \in 1..Len(rs) : rs[i] \in Catalogs
<1>1. rs \in Seq(Catalogs) /\ rs # <<>>
  BY ClientAssumption
<1> QED
  BY <1>1, LenProperties, EmptySeq, ElementOfSeq

LEMMA NextRepositoryKeeps ==
  ASSUME ClientInv, phase # "idle", NextRepository, UNCHANGED db
  PROVE  ClientInv' /\ phase' # "run"
<1>1. /\ repos \in Configurations /\ DOMAIN repos = 1..Len(repos) /\ Len(repos) \in Nat \ {0}
      /\ at \in 1..Len(repos) /\ request \in Cap
      /\ \A i \in 1..Len(repos) : repos[i] \in Catalogs
  BY RepositoryTypes DEF ClientInv, ClientTypeOK, SearchInv, TypeOK
<1>2. CASE at < Len(repos)
  <2>1. /\ phase' = "resolve" /\ at' = at + 1 /\ pos' = 1 /\ Reset(repos[at + 1])
        /\ UNCHANGED <<request, command, result, repos>>
    BY <1>2 DEF NextRepository
  <2>2. at + 1 \in 1..Len(repos)
    BY <1>1, <1>2
  <2>3. SearchInv'
    BY <1>1, <2>1, <2>2, ResetKeeps
  <2>4. TypeOK'
    BY <2>3 DEF SearchInv
  <2> QED
    BY <1>1, <2>1, <2>2, <2>3, <2>4 DEF ClientInv, ClientTypeOK, Phase
<1>3. CASE ~(at < Len(repos))
  <2>1. phase' = "idle" /\ command' = "none" /\ result' = "failure"
        /\ UNCHANGED <<vars, at, pos, repos>>
    BY <1>3 DEF NextRepository, End
  <2>2. SearchInv' /\ TypeOK'
    BY <2>1, SearchStep DEF ClientInv, SearchInv
  <2> QED
    BY <2>1, <2>2 DEF ClientInv, ClientTypeOK, Phase
<1> QED
  BY <1>2, <1>3

LEMMA ClientStarts == ClientInit => ClientInv
<1> SUFFICES ASSUME ClientInit PROVE ClientInv
  OBVIOUS
<1>1. SearchInv /\ TypeOK
  BY SearchInit DEF ClientInit, SearchInv
<1>2. 1 \in DOMAIN repos
  BY RepositoryTypes DEF ClientInit
<1> QED
  BY <1>1, <1>2 DEF ClientInit, ClientInv, ClientTypeOK, Records, Phase

LEMMA ClientStep == ClientInv /\ [ClientNext]_clientVars => ClientInv'
<1> SUFFICES ASSUME ClientInv, [ClientNext]_clientVars PROVE ClientInv'
  OBVIOUS
<1>t. /\ SearchInv /\ TypeOK /\ ClientTypeOK /\ plan \in Seq(Pkg) /\ Len(plan) \in Nat
      /\ NameOf \in [Pkg -> Name] /\ Name \subseteq Cap
  BY LenProperties, ManifestAssumption, NamesAssumption DEF ClientInv, SearchInv, TypeOK
<1>s. ASSUME UNCHANGED vars PROVE SearchInv' /\ TypeOK' /\ plan' = plan
  BY <1>s, SearchStep DEF ClientInv, SearchInv, vars
<1>1. CASE UNCHANGED clientVars
  BY <1>1, <1>s DEF ClientInv, ClientTypeOK, clientVars, client
<1>2. CASE Search
  <2>1. SearchInv' /\ TypeOK'
    BY <1>2, SearchStep DEF Search, ClientInv, SearchInv
  <2> QED
    BY <1>2, <2>1 DEF Search, ClientInv, ClientTypeOK, client
<1>3. CASE Resolved
  <2>1. CASE outcome = "plan"
    <3>1. /\ phase = "resolve" /\ phase' = IF command = "install" THEN "check" ELSE "run"
          /\ UNCHANGED <<vars, command, repos, at, pos, result, db>>
      BY <1>3, <2>1 DEF Resolved
    <3>2. pos \in 1..Len(plan) + 1
      BY <1>t, <3>1 DEF ClientInv
    <3> QED
      BY <1>s, <3>1, <3>2 DEF ClientInv, ClientTypeOK, Phase
  <2>2. CASE outcome # "plan"
    BY <1>3, <2>2, NextRepositoryKeeps DEF Resolved
  <2> QED
    BY <2>1, <2>2
<1>4. CASE CheckPlan
  <2>1. CASE \A i \in DOMAIN plan : Fits(plan[i])
    <3>1. /\ phase = "check" /\ phase' = "run"
          /\ UNCHANGED <<vars, command, repos, at, pos, result, db>>
      BY <1>4, <2>1 DEF CheckPlan
    <3>2. pos \in 1..Len(plan) + 1
      BY <1>t, <3>1 DEF ClientInv
    <3> QED
      BY <1>s, <3>1, <3>2 DEF ClientInv, ClientTypeOK, Phase
  <2>2. CASE ~\A i \in DOMAIN plan : Fits(plan[i])
    BY <1>4, <2>2, NextRepositoryKeeps DEF CheckPlan
  <2> QED
    BY <2>1, <2>2
<1>5. CASE Execute
  <2>0. /\ phase = "run" /\ pos <= Len(plan) /\ pos \in 1..Len(plan) + 1 /\ plan[pos] \in Pkg
        /\ pos + 1 \in 1..Len(plan) + 1
    BY <1>5, <1>t, ElementOfSeq DEF Execute, ClientTypeOK
  <2>1. CASE /\ db' \in {db, Registered(db, plan[pos])} /\ pos' = pos + 1
             /\ UNCHANGED <<vars, command, phase, repos, at, result>>
    <3>1. db' \in Records
      BY <1>t, <2>0, <2>1 DEF ClientTypeOK, Registered, Records
    <3> QED
      BY <1>s, <2>0, <2>1, <3>1 DEF ClientInv, ClientTypeOK
  <2>2. CASE NextRepository /\ UNCHANGED db
    BY <2>0, <2>2, NextRepositoryKeeps
  <2> QED
    BY <1>5, <2>1, <2>2 DEF Execute
<1>6. CASE Done
  <2>0. phase = "run"
    BY <1>6 DEF Done
  <2>1. CASE NextRepository /\ UNCHANGED db
    BY <2>0, <2>1, NextRepositoryKeeps
  <2>2. CASE End("success") /\ UNCHANGED <<vars, repos, at, pos, db>>
    BY <1>s, <2>2 DEF End, ClientInv, ClientTypeOK, Phase
  <2> QED
    BY <1>6, <2>1, <2>2 DEF Done
<1>7. CASE Fail
  BY <1>7, NextRepositoryKeeps DEF Fail
<1>8. ASSUME NEW op \in {"install", "upgrade"}, NEW name \in Cap, NEW rs \in Configurations,
             Begin(op, name, rs)
      PROVE  ClientInv'
  <2>1. /\ command' = op /\ request' = name /\ repos' = rs /\ phase' = "resolve" /\ at' = 1
        /\ pos' = 1 /\ result' = "none" /\ Reset(rs[1]) /\ db' = db
    BY <1>8 DEF Begin
  <2>2. 1 \in DOMAIN rs /\ rs[1] \in Catalogs
    BY RepositoryTypes
  <2>3. SearchInv' /\ TypeOK'
    BY <2>1, <2>2, ResetKeeps DEF SearchInv
  <2> QED
    BY <1>t, <2>1, <2>2, <2>3 DEF ClientInv, ClientTypeOK, Phase
<1>9. ASSUME NEW n \in Name, Remove(n) PROVE ClientInv'
  <2>1. /\ phase = "idle" /\ db' = Unregistered(db, n)
        /\ UNCHANGED <<vars, command, phase, repos, at, pos, result>>
    BY <1>9 DEF Remove
  <2>2. db' \in Records
    BY <1>t, <2>1 DEF ClientTypeOK, Unregistered, Records
  <2> QED
    BY <1>s, <2>1, <2>2 DEF ClientInv, ClientTypeOK
<1> QED
  BY <1>1, <1>2, <1>3, <1>4, <1>5, <1>6, <1>7, <1>8, <1>9 DEF ClientNext, Work

-----------------------------------------------------------------------------
\* What is installed grows newer

\* Whatever is asked for, wherever a command falls back on another repository and
\* however it fails: an install leaves every installed package as it is, and an upgrade
\* makes none older in the order of the database.
THEOREM VersionsGrow ==
  ASSUME OneOrder
  PROVE  ClientSpec => VersionsOnlyGrow
<1> DEFINE Grows == \A n \in Installed(db) : db'[n] \notin {db[n], NoPkg} =>
                      command = "upgrade" /\ Below(db[n], db'[n])
<1>1. ClientInv /\ [ClientNext]_clientVars => [Grows]_clientVars
  <2> SUFFICES ASSUME ClientInv, ClientNext, NEW n \in Installed(db), db'[n] \notin {db[n], NoPkg}
               PROVE  command = "upgrade" /\ Below(db[n], db'[n])
    OBVIOUS
  <2>t. db \in Records /\ plan \in Seq(Pkg) /\ pos \in Nat /\ Len(plan) \in Nat
    BY LenProperties DEF ClientInv, ClientTypeOK, SearchInv, TypeOK
  <2>1. db' # db
    OBVIOUS
  <2>2. ASSUME NEW m \in Name, Remove(m) PROVE FALSE
    BY <2>2, <2>t DEF Remove, Unregistered, Records, Installed
  <2>3. Execute /\ db' = Registered(db, plan[pos]) /\ EngineAccepts(plan[pos])
    BY <2>1, <2>2 DEF ClientNext, Work, Search, client, Resolved, CheckPlan, Execute, Done,
                      Fail, Begin
  <2> DEFINE a == plan[pos]
  <2>4. a \in Pkg
    <3>1. pos \in 1..Len(plan)
      BY <2>3, <2>t DEF Execute, ClientInv, ClientTypeOK
    <3> QED
      BY <3>1, <2>t, ElementOfSeq
  <2>5. n = NameOf[a] /\ db'[n] = a /\ Record(a) = db[n] /\ db[n] \in Pkg
    BY <2>3, <2>t DEF Registered, Records, Record, Installed
  <2>6. command = "upgrade" /\ Newer(a, db[n])
    BY <2>3, <2>5 DEF EngineAccepts, Installed
  <2>7. Below(db[n], a)
    <3>1. /\ VersionOf[a] \in Version /\ VersionOf[db[n]] \in Version
          /\ ReleaseOf[a] \in Nat /\ ReleaseOf[db[n]] \in Nat
      BY <2>4, <2>5, ManifestAssumption
    <3>2. /\ DbCmp[<<VersionOf[db[n]], VersionOf[a]>>] = -DbCmp[<<VersionOf[a], VersionOf[db[n]]>>]
          /\ DbCmp[<<VersionOf[a], VersionOf[db[n]]>>] \in {-1, 0, 1}
          /\ TxCmp = DbCmp
      BY <3>1, ComparatorAssumption DEF OneOrder
    <3> QED
      BY <2>6, <3>1, <3>2 DEF Newer, Below
  <2> QED
    BY <2>5, <2>6, <2>7
<1> QED
  BY <1>1, ClientStarts, ClientStep, PTL DEF ClientSpec, VersionsOnlyGrow

-----------------------------------------------------------------------------
\* What a plan promises is delivered

\* A plan names every package once.
LEMMA NamesOnce ==
  ASSUME SearchInv, NEW i \in 1..Len(plan), NEW j \in 1..Len(plan), i # j
  PROVE  NameOf[plan[i]] # NameOf[plan[j]]
BY DEF SearchInv, Listed, Compatible

\* What is installed as planned is neither older nor another release.
LEMMA SameDelivers ==
  ASSUME OneOrder, NEW a \in Pkg, NEW b \in Pkg, Same(a, b)
  PROVE  ~Below(b, a)
<1>1. /\ VersionOf[a] = VersionOf[b] /\ ReleaseOf[a] = ReleaseOf[b]
      /\ VersionOf[a] \in Version /\ ReleaseOf[a] \in Nat
  BY ManifestAssumption DEF Same
<1>2. /\ DbCmp[<<VersionOf[a], VersionOf[a]>>] = -DbCmp[<<VersionOf[a], VersionOf[a]>>]
      /\ DbCmp[<<VersionOf[a], VersionOf[a]>>] \in {-1, 0, 1}
  BY <1>1, ComparatorAssumption DEF OneOrder
<1> QED
  BY <1>1, <1>2 DEF Below

\* A member that an upgrade leaves as it is has been installed in no older version.
LEMMA NotNewerDelivers ==
  ASSUME OneOrder, NEW a \in Pkg, NEW b \in Pkg, ~Newer(a, b)
  PROVE  ~Below(b, a)
<1>1. /\ VersionOf[a] \in Version /\ VersionOf[b] \in Version
      /\ ReleaseOf[a] \in Nat /\ ReleaseOf[b] \in Nat
  BY ManifestAssumption
<1>2. /\ DbCmp[<<VersionOf[b], VersionOf[a]>>] = -DbCmp[<<VersionOf[a], VersionOf[b]>>]
      /\ DbCmp[<<VersionOf[a], VersionOf[b]>>] \in {-1, 0, 1}
      /\ TxCmp = DbCmp
  BY <1>1, ComparatorAssumption DEF OneOrder
<1> QED
  BY <1>1, <1>2 DEF Newer, Below

LEMMA DeliveryStarts == ClientInit => DeliveryInv
BY ClientStarts DEF ClientInit, DeliveryInv

\* Executing a member delivers it and leaves what is recorded of the others.
LEMMA ExecuteDelivers ==
  ASSUME OneOrder, DeliveryInv, Execute, phase' = "run"
  PROVE  DeliveryInv'
<1>t. /\ db \in Records /\ plan \in Seq(Pkg) /\ Len(plan) \in Nat /\ SearchInv
      /\ phase = "run" /\ pos \in 1..Len(plan) /\ NoPkg \notin Pkg
      /\ NameOf \in [Pkg -> Name]
  BY LenProperties, ManifestAssumption, NamesAssumption
  DEF DeliveryInv, ClientInv, ClientTypeOK, SearchInv, TypeOK, Execute
<1>p. \A i \in 1..Len(plan) : plan[i] \in Pkg /\ NameOf[plan[i]] \in Name
  BY <1>t, ElementOfSeq
<1>i. ClientInv'
  BY ClientStep DEF DeliveryInv, ClientNext, Work
<1>a. PICK a \in Pkg : a = plan[pos]
  BY <1>p, <1>t
<1>1. /\ pos' = pos + 1 /\ UNCHANGED <<vars, command, phase, repos, at, result>>
      /\ \/ UpToDate(a) /\ db' = db
         \/ ~UpToDate(a) /\ EngineAccepts(a) /\ db' = Registered(db, a)
  <2>1. ~NextRepository
    BY <1>t, NextRepositoryKeeps DEF NextRepository, End
  <2> QED
    BY <1>a, <2>1 DEF Execute
<1>2. plan' = plan /\ command' = command
  BY <1>1 DEF vars
<1>3. ASSUME NEW i \in 1..Len(plan), i # pos PROVE Record(plan[i])' = Record(plan[i])
  <2>1. NameOf[plan[i]] # NameOf[a] /\ NameOf[plan[i]] \in Name
    BY <1>3, <1>a, <1>t, <1>p, NamesOnce
  <2> QED
    BY <1>1, <1>2, <1>t, <2>1 DEF Record, Registered, Records
<1>4. /\ Record(a)' # NoPkg /\ ~Below(Record(a)', a)
      /\ command = "install" => Same(a, Record(a)')
  <2>1. CASE UpToDate(a) /\ db' = db
    <3>1. Record(a)' = Record(a) /\ Record(a) \in Pkg
      BY <1>a, <1>t, <2>1 DEF Record, UpToDate, Records
    <3>2. CASE command = "install"
      BY <1>a, <2>1, <3>1, <3>2, <1>t, SameDelivers DEF UpToDate
    <3>3. CASE command # "install"
      BY <1>a, <2>1, <3>1, <3>3, <1>t, NotNewerDelivers DEF UpToDate
    <3> QED
      BY <3>2, <3>3
  <2>2. CASE db' = Registered(db, a)
    <3>1. Record(a)' = a
      BY <1>a, <1>t, <1>2, <2>2 DEF Record, Registered, Records
    <3>2. Same(a, a)
      BY DEF Same
    <3> QED
      BY <1>a, <1>t, <3>1, <3>2, SameDelivers
  <2> QED
    BY <1>1, <2>1, <2>2
<1>5. ASSUME NEW i \in 1..(pos' - 1) PROVE Delivered(plan[i])'
  <2>1. i \in 1..Len(plan) /\ (i = pos \/ i \in 1..(pos - 1))
    BY <1>1, <1>t
  <2>2. CASE i = pos
    BY <1>2, <1>4, <1>a, <2>2 DEF Delivered, Record
  <2>3. CASE i # pos
    <3>1. Delivered(plan[i]) /\ Record(plan[i])' = Record(plan[i])
      BY <2>1, <2>3, <1>3, <1>t DEF DeliveryInv
    <3> QED
      BY <1>2, <3>1 DEF Delivered
  <2> QED
    BY <2>2, <2>3
<1>6. ASSUME NEW i \in 1..Len(plan), command = "install" PROVE Fits(plan[i])'
  <2>1. CASE i = pos
    BY <1>2, <1>4, <1>6, <1>a, <2>1 DEF Fits, Record
  <2>2. CASE i # pos
    BY <1>2, <1>3, <1>6, <1>t, <2>2 DEF Fits, DeliveryInv
  <2> QED
    BY <2>1, <2>2
<1> QED
  BY <1>i, <1>2, <1>5, <1>6 DEF DeliveryInv

\* The plan is executed from its start, and an install only after CheckPlan.
LEMMA DeliveryStep ==
  ASSUME OneOrder
  PROVE  DeliveryInv /\ [ClientNext]_clientVars => DeliveryInv'
<1> SUFFICES ASSUME DeliveryInv, [ClientNext]_clientVars, phase' = "run" PROVE DeliveryInv'
  BY ClientStep DEF DeliveryInv
<1>t. /\ ClientInv /\ ClientInv'
      /\ phase # "idle" => result = "none"
      /\ DOMAIN plan = 1..Len(plan)
  BY ClientStep, LenProperties DEF DeliveryInv, ClientInv, SearchInv, TypeOK
<1>n. ASSUME NextRepository, UNCHANGED db, phase # "idle" PROVE FALSE
  BY <1>n, <1>t, NextRepositoryKeeps
<1>1. CASE UNCHANGED <<plan, pos, db, command, phase>>
  BY <1>1, <1>t DEF DeliveryInv, Delivered, Fits, Record
<1>2. CASE Resolved
  <2>1. /\ command # "install" /\ pos = 1 /\ UNCHANGED <<vars, command, pos>>
    BY <1>2, <1>n, <1>t DEF Resolved, ClientInv
  <2> QED
    BY <1>t, <2>1 DEF DeliveryInv
<1>3. CASE CheckPlan
  <2>1. /\ pos = 1 /\ UNCHANGED <<vars, command, pos, db>>
        /\ \A i \in DOMAIN plan : Fits(plan[i])
    BY <1>3, <1>n, <1>t DEF CheckPlan, ClientInv
  <2>2. pos' = 1 /\ plan' = plan
    BY <2>1 DEF vars
  <2>3. \A i \in 1..Len(plan') : Fits(plan[i])'
    BY <1>t, <2>1, <2>2 DEF Fits, Record
  <2> QED
    BY <1>t, <2>2, <2>3 DEF DeliveryInv
<1>4. CASE Execute
  BY <1>4, ExecuteDelivers
<1>5. CASE Done \/ Fail
  <2>1. phase # "idle"
    BY <1>5 DEF Done, Fail
  <2> QED
    BY <1>5, <2>1, <1>n DEF Done, Fail, End
<1>6. CASE Search
  BY <1>6 DEF Search, client
<1>7. ASSUME NEW op, NEW name, NEW rs, Begin(op, name, rs) PROVE FALSE
  BY <1>7 DEF Begin
<1>8. ASSUME NEW n \in Name, Remove(n) PROVE FALSE
  BY <1>8 DEF Remove
<1> QED
  BY <1>1, <1>2, <1>3, <1>4, <1>5, <1>6, <1>7, <1>8 DEF ClientNext, Work, clientVars, client, vars

LEMMA DeliveryAlways ==
  ASSUME OneOrder
  PROVE  ClientSpec => []DeliveryInv
BY DeliveryStarts, DeliveryStep, PTL DEF ClientSpec

\* A command that succeeds has delivered its whole plan, whatever was installed before,
\* how many repositories it has asked and what it had executed of their plans: later
\* members never undo earlier ones, because no name is in a plan twice.
THEOREM SuccessesDeliver ==
  ASSUME OneOrder
  PROVE  ClientSpec => SuccessDelivers
<1> DEFINE Delivers == phase = "run" /\ result' = "success" =>
              \A i \in DOMAIN plan :
                /\ Record(plan[i]) # NoPkg
                /\ ~Below(Record(plan[i]), plan[i])
                /\ command = "install" => Same(plan[i], Record(plan[i]))
<1>1. DeliveryInv /\ [ClientNext]_clientVars => [Delivers]_clientVars
  <2> SUFFICES ASSUME DeliveryInv, ClientNext, phase = "run", result' = "success",
                      NEW i \in DOMAIN plan
               PROVE  Delivered(plan[i])
    BY DEF Delivered
  <2>t. /\ DOMAIN plan = 1..Len(plan) /\ Len(plan) \in Nat /\ pos \in 1..Len(plan) + 1
        /\ result = "none"
    BY LenProperties DEF DeliveryInv, ClientInv, ClientTypeOK, SearchInv, TypeOK
  <2>1. ASSUME NextRepository PROVE FALSE
    BY <2>1, <2>t DEF NextRepository, End
  <2>2. Done
    BY <2>1, <2>t DEF ClientNext, Work, Search, client, Resolved, CheckPlan, Execute, Fail, Begin,
                      Remove
  <2>3. i \in 1..(pos - 1)
    BY <2>2, <2>t DEF Done
  <2> QED
    BY <2>3 DEF DeliveryInv
<1> QED
  BY <1>1, DeliveryAlways, PTL DEF ClientSpec, SuccessDelivers

\* The engine never refuses a member of an install whose plan has the dependencies of
\* every member before it: what meets a dependency in the plan has been installed, as
\* the very release or an equal one, by the time the member's turn comes.
THEOREM PlansAreExecutable ==
  ASSUME OneOrder, PublishedOnce
  PROVE  ClientSpec => []PlanExecutable
<1>1. DeliveryInv => PlanExecutable
  <2> SUFFICES ASSUME DeliveryInv, command = "install", phase = "run", pos <= Len(plan), InOrder
               PROVE  UpToDate(plan[pos]) \/ EngineAccepts(plan[pos])
    BY DEF PlanExecutable
  <2>t. /\ db \in Records /\ plan \in Seq(Pkg) /\ Len(plan) \in Nat /\ DOMAIN plan = 1..Len(plan)
        /\ pos \in 1..Len(plan) /\ NameOf \in [Pkg -> Name]
    BY LenProperties, ManifestAssumption
    DEF DeliveryInv, ClientInv, ClientTypeOK, SearchInv, TypeOK
  <2>1. CASE Record(plan[pos]) # NoPkg
    BY <2>1, <2>t DEF DeliveryInv, Fits, UpToDate
  <2>2. CASE Record(plan[pos]) = NoPkg
    <3>1. ASSUME NEW dep \in Depends[plan[pos]] PROVE DependencySatisfied(db, dep)
      <4>1. PICK j \in 1..(pos - 1) : RequirementMatches(plan[j], dep)
        BY <2>t DEF InOrder
      <4>2. plan[j] \in Pkg /\ NameOf[plan[j]] \in Name
        BY <2>t, <4>1, ElementOfSeq
      <4>3. Record(plan[j]) # NoPkg /\ Same(plan[j], Record(plan[j]))
        BY DEF DeliveryInv, Delivered
      <4>4. NameOf[plan[j]] \in Installed(db) /\ Record(plan[j]) \in Pkg
        BY <4>2, <4>3, <2>t DEF Record, Installed, Records
      <4>5. RequirementMatches(Record(plan[j]), dep)
        BY <4>1, <4>2, <4>3, <4>4 DEF RequirementMatches, Meets, HasCapability, PublishedOnce, Same
      <4> QED
        BY <4>4, <4>5 DEF DependencySatisfied, Record
    <3> QED
      BY <2>2, <3>1 DEF EngineAccepts, DependenciesMet
  <2> QED
    BY <2>1, <2>2
<1> QED
  BY <1>1, DeliveryAlways, PTL
===============================================================================
