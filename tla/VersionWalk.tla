----------------------------- MODULE VersionWalk -----------------------------
(***************************************************************************)
(* All triples of versions over an alphabet, up to a total length, reached *)
(* one character at a time, and what the comparators make of them.         *)
(***************************************************************************)
EXTENDS Versions

CONSTANTS
  Char,    \* the characters, Separator among them or not
  MaxTotal \* the bound on the three lengths together

ASSUME CharAssumption == Char \subseteq Int

VARIABLES u, v, w

triple == <<u, v, w>>

WalkInit == u = <<>> /\ v = <<>> /\ w = <<>>

Grow == \E c \in Char :
  /\ Len(u) + Len(v) + Len(w) < MaxTotal
  /\ \/ v = <<>> /\ w = <<>> /\ u' = Append(u, c) /\ UNCHANGED <<v, w>>
     \/ w = <<>> /\ v' = Append(v, c) /\ UNCHANGED <<u, w>>
     \/ w' = Append(w, c) /\ UNCHANGED <<u, v>>

WalkSpec == WalkInit /\ [][Grow]_triple

-----------------------------------------------------------------------------
\* Compare as the order of x, y and z: by its sign, and with the same answer both ways.
TotalPreorder(Compare(_, _), x, y, z) ==
  /\ Compare(x, x) = 0
  /\ Compare(x, y) = -Compare(y, x)
  /\ Compare(x, y) <= 0 /\ Compare(y, z) <= 0 => Compare(x, z) <= 0

\* Versions with a part like 10b, which one comparator cuts and the other does not.
Mixed(x) == \E i \in DOMAIN WholeParts(x) : \E j, k \in DOMAIN WholeParts(x)[i] :
  IsDigit(WholeParts(x)[i][j]) /\ ~IsDigit(WholeParts(x)[i][k])

\* Versions like 1.02.10.
OfNumbers(x) == \A i \in DOMAIN x : x[i] = Separator \/ IsDigit(x[i])

\* The number that the digits denote.
Value(digits) ==
  LET upTo[n \in 0..Len(digits)] == IF n = 0 THEN 0 ELSE 10 * upTo[n - 1] + digits[n]
  IN  upTo[Len(digits)]

Values(x) == [i \in DOMAIN SplitParts(x) |-> Value(SplitParts(x)[i])]

\* s comes before t in the order of lists of numbers.
OlderByValue(s, t) == \E i \in DOMAIN t :
  /\ i <= Len(s) + 1 /\ \A j \in 1..(i - 1) : s[j] = t[j]
  /\ i <= Len(s) => s[i] < t[i]

\* Versions of numbers are ordered as lists of numbers, by value and not digit by
\* digit, whatever their leading zeros; the one with more numbers is the newer.
NumbersByValue == OfNumbers(u) /\ OfNumbers(v) =>
  (CompareSplit(u, v) < 0 <=> OlderByValue(Values(u), Values(v)))

\* Both working comparators order all versions, so that "newer" and the version
\* constraints make sense (db_compare_version, compare_version_local), numbers by
\* their values, and they order them alike but for those with a part that mixes digits
\* and letters: elsewhere the upgrade checks and the database see the same order.
VersionsAreOrdered ==
  /\ TotalPreorder(CompareSplit, u, v, w)
  /\ TotalPreorder(CompareWhole, u, v, w)
  /\ ~Mixed(u) /\ ~Mixed(v) => CompareSplit(u, v) = CompareWhole(u, v)
  /\ NumbersByValue
=============================================================================
