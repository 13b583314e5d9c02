---------------------------- MODULE SampleVersions ---------------------------
(***************************************************************************)
(* The versions of the packages in the models, and how each comparator     *)
(* orders them.  The tables are written down, and checked against the      *)
(* comparators, because TLC would work them out again at every use.        *)
(***************************************************************************)
EXTENDS Versions

LetterB == 11
V9   == <<1, Separator, 9>>             \* 1.9
V10  == <<1, Separator, 1, 0>>          \* 1.10
V9b  == <<1, Separator, 9, LetterB>>    \* 1.9b
V10b == <<1, Separator, 1, 0, LetterB>> \* 1.10b

\* Two versions, the second of them the newer one.
VersionTable(old, new) == [vw \in {old, new} \X {old, new} |->
  IF vw[1] = vw[2] THEN 0 ELSE IF vw[1] = old THEN -1 ELSE 1]

OrderedBy(Compare(_, _), old, new) ==
  \A v, w \in {old, new} : VersionTable(old, new)[<<v, w>>] = Compare(v, w)

\* Numbers: all but the resolver put 1.9 before 1.10.
ASSUME NumbersAssumption ==
  /\ OrderedBy(CompareSplit, V9, V10)
  /\ OrderedBy(CompareWhole, V9, V10)
  /\ OrderedBy(CompareResolver, V10, V9)

\* Numbers with a letter: to the database 1.10b is the newer one, to the
\* transaction engine 1.9b.
ASSUME LettersAssumption ==
  /\ OrderedBy(CompareSplit, V9b, V10b)
  /\ OrderedBy(CompareWhole, V10b, V9b)
=============================================================================
