----------------------------- MODULE PackageStore ----------------------------
(***************************************************************************)
(* What the transaction engine promises: an installation is a set of       *)
(* package records and a tree of files, and every command changes both in  *)
(* one step or changes nothing.  The step leads to a set of records that   *)
(* is consistent, in which no two packages own a file and every dependency *)
(* is met.                                                                 *)
(*                                                                         *)
(* Two steps are here because the engine takes them, not because one would *)
(* promise them: a removal may leave links behind, and an upgrade that     *)
(* fails may lose files no package owned.                                  *)
(***************************************************************************)
EXTENDS PackageDb

VARIABLES
  store,  \* the record of each package
  tree    \* the file or link at each path

vars == <<store, tree>>

Consistent(s) ==
  /\ \A m, n \in Installed(s) : m # n => Files(s[m]) \cap Files(s[n]) = {}
  /\ \A n \in Installed(s) : \A dep \in Depends[s[n]] : DependencySatisfied(s, dep)

Init ==
  /\ store = [n \in Name |-> NoPkg]
  /\ tree = [q \in Path |-> Absent]

\* The files of the old record make way for those of archive a.
Replace(old, a) ==
  tree' = [q \in Path |-> IF q \in Files(a) THEN Payload[a][q]
                          ELSE IF q \in old THEN Absent ELSE tree[q]]

Install(a) ==
  /\ store[NameOf[a]] = NoPkg
  /\ store' = Registered(store, a)
  /\ Consistent(store')
  /\ \A q \in Files(a) : tree[q] = Absent
  /\ Replace({}, a)

Upgrade(a) ==
  /\ store[NameOf[a]] # NoPkg
  /\ store' = Registered(store, a)
  /\ Consistent(store')
  /\ Newer(a, store[NameOf[a]])
  /\ Replace(Files(store[NameOf[a]]), a)

\* The links that stay are those whose target went first.
Remove(n) ==
  /\ store[n] # NoPkg
  /\ store' = Unregistered(store, n)
  /\ Consistent(store')
  /\ \E kept \in SUBSET {q \in Files(store[n]) : Payload[store[n]][q].kind = "l"} :
       tree' = [q \in Path |-> IF q \in Files(store[n]) \ kept THEN Absent ELSE tree[q]]

\* The administrator puts or deletes a file at q.
Edit(q) ==
  /\ UNCHANGED store
  /\ tree' = [tree EXCEPT ![q] = tree'[q]]

\* An upgrade to a fails after it has replaced files that had no owner.
FailedUpgrade(a) ==
  /\ UNCHANGED store
  /\ store[NameOf[a]] # NoPkg
  /\ tree' = [q \in Path |-> IF q \in Files(a) /\ Owners(store, q) = {}
                             THEN tree'[q] ELSE tree[q]]
  /\ \A q \in Path : tree'[q] \in {tree[q], Absent}

Next ==
  \/ \E a \in Pkg : Install(a) \/ Upgrade(a) \/ FailedUpgrade(a)
  \/ \E n \in Name : Remove(n)
  \/ \E q \in Path : Edit(q)

Spec == Init /\ [][Next]_vars
=============================================================================
