------------------------------ MODULE Versions ------------------------------
(***************************************************************************)
(* The version comparators of pux.  The C code holds five hand-written     *)
(* copies of one loop, which differ in how a version string is cut into    *)
(* parts:                                                                  *)
(*                                                                         *)
(*   - src/src/db.c and src/src/repo.c end a part where digits meet        *)
(*     letters, so "10b" is the two parts 10 and b;                        *)
(*   - src/src/transaction.c and src/src/cli.c take a whole alphanumeric   *)
(*     run as one part, so "10b" is a single part that is not numeric;     *)
(*   - src/src/resolver.c means to do what db.c does and cannot read a     *)
(*     part that starts with a digit: see CompareResolver.                 *)
(*                                                                         *)
(* A version is a sequence of character codes that are ordered as strcmp   *)
(* orders the characters: digits are 0..9, letters are larger than 9, and  *)
(* Separator stands for a dot, a hyphen or a plus.  Parts too long for the *)
(* buffers of the code (more than 63 characters) are left out.             *)
(***************************************************************************)
EXTENDS Integers, Sequences, FiniteSets

Separator == -1
IsDigit(c) == c \in 0..9

Least(S) == CHOOSE i \in S : \A j \in S : i <= j

-----------------------------------------------------------------------------
\* Cutting a version into parts

\* Where a part begins: at a letter or digit after a separator or at the front, and
\* in db_next_version_part also where digits meet letters.
WholeStarts(v) == {i \in DOMAIN v :
  v[i] # Separator /\ (i = 1 \/ v[i - 1] = Separator)}
SplitStarts(v) == {i \in DOMAIN v :
  v[i] # Separator /\ (i = 1 \/ v[i - 1] = Separator \/ IsDigit(v[i - 1]) # IsDigit(v[i]))}

\* The part that begins at i ends before the next separator or start.
PartAt(v, starts, i) ==
  LET stops == {j \in DOMAIN v : v[j] = Separator} \cup starts \cup {Len(v) + 1}
  IN  SubSeq(v, i, Least({j \in stops : i < j}) - 1)

\* The parts in the order of their starts.
Parts(v, starts) ==
  LET Start(n) == CHOOSE i \in starts : Cardinality({j \in starts : j < i}) = n - 1
  IN  [n \in 1..Cardinality(starts) |-> PartAt(v, starts, Start(n))]

\* db_next_version_part: a part is a run of digits or a run of letters.
SplitParts(v) == Parts(v, SplitStarts(v))

\* version_part: a part is a run of letters and digits.
WholeParts(v) == Parts(v, WholeStarts(v))

-----------------------------------------------------------------------------
\* Comparing

Numeric(part) == \A i \in DOMAIN part : IsDigit(part[i])

\* strcmp: the sign of the first difference, the longer one is larger.
Lexical(l, r) ==
  LET differ == {i \in DOMAIN l \cap DOMAIN r : l[i] # r[i]}
      first  == Least(differ)
  IN  IF differ = {}
      THEN IF Len(l) = Len(r) THEN 0 ELSE IF Len(l) < Len(r) THEN -1 ELSE 1
      ELSE IF l[first] < r[first] THEN -1 ELSE 1

StripZeros(part) ==
  LET significant == {i \in DOMAIN part : part[i] # 0}
  IN  IF significant = {} THEN <<>>
      ELSE SubSeq(part, Least(significant), Len(part))

\* Numbers by value (by length once the zeros are gone), words by strcmp, and
\* a number is newer than a word.
ComparePart(l, r) ==
  LET a == StripZeros(l)
      b == StripZeros(r)
  IN  CASE Numeric(l) /\ Numeric(r) ->
             IF Len(a) # Len(b) THEN IF Len(a) < Len(b) THEN -1 ELSE 1
                                ELSE Lexical(a, b)
        [] Numeric(l) # Numeric(r) -> IF Numeric(l) THEN 1 ELSE -1
        [] OTHER -> Lexical(l, r)

\* Part by part; a version that runs out of parts first is the older one.
CompareParts(ls, rs) ==
  LET differ == {i \in DOMAIN ls \cap DOMAIN rs : ComparePart(ls[i], rs[i]) # 0}
      first  == Least(differ)
  IN  IF differ # {} THEN ComparePart(ls[first], rs[first])
      ELSE IF Len(ls) = Len(rs) THEN 0 ELSE IF Len(ls) < Len(rs) THEN -1 ELSE 1

\* Faulty variant: the parts one version has more than the other do not count.
CompareWholeCommon(l, r) ==
  LET ls == WholeParts(l)
      rs == WholeParts(r)
      n  == IF Len(ls) < Len(rs) THEN Len(ls) ELSE Len(rs)
  IN  CompareParts(SubSeq(ls, 1, n), SubSeq(rs, 1, n))

\* compare_version_local (transaction.c) and cli_compare_versions (cli.c).
CompareWhole(l, r) == CompareParts(WholeParts(l), WholeParts(r))

\* db_compare_version (db.c) and compare_version (repo.c).
CompareSplit(l, r) == CompareParts(SplitParts(l), SplitParts(r))

\* compare_version (resolver.c).  next_version_part compares what isdigit returns
\* with 1.  Where isdigit answers yes by another value (in glibc it is 2048) a
\* part that starts with a digit comes out empty, which is an error, and at the
\* first such part the versions are compared by strcmp as a whole.
CompareResolver(l, r) ==
  LET ls == SplitParts(l)
      rs == SplitParts(r)
      numbers == {i \in DOMAIN ls : IsDigit(ls[i][1])} \cup {i \in DOMAIN rs : IsDigit(rs[i][1])}
      differ  == {i \in DOMAIN ls \cap DOMAIN rs : ls[i] # rs[i]}
      ends    == {Len(ls) + 1, Len(rs) + 1}
      first   == Least(numbers \cup differ \cup ends)
  IN  IF first \in numbers THEN Lexical(l, r) ELSE CompareParts(ls, rs)
=============================================================================
