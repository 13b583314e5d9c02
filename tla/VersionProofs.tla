---------------------------- MODULE VersionProofs ----------------------------
(***************************************************************************)
(* Proofs about the version comparators: what the walk checks of short     *)
(* versions over four characters holds of all versions over any alphabet.  *)
(***************************************************************************)
EXTENDS VersionWalk, FiniteSetTheorems, SequenceTheorems, TLAPS

-----------------------------------------------------------------------------
\* Numbers

\* The members of S before i.
Below(S, i) == {j \in S : j < i}

\* There are fewer members below a member than there are members.
LEMMA BelowIsFewer ==
  ASSUME NEW S \in SUBSET Nat, IsFiniteSet(S), NEW i \in S
  PROVE  IsFiniteSet(Below(S, i)) /\ Cardinality(Below(S, i)) \in 0..(Cardinality(S) - 1)
<1> DEFINE k == Cardinality(S)
<1>1. k \in Nat
  BY FS_CardinalityType
<1>2. Below(S, i) \in SUBSET S /\ i \notin Below(S, i)
  BY DEF Below
<1>3. IsFiniteSet(Below(S, i)) /\ Cardinality(Below(S, i)) <= k /\ Cardinality(Below(S, i)) # k
  BY <1>2, FS_Subset
<1>4. Cardinality(Below(S, i)) \in Nat
  BY <1>3, FS_CardinalityType
<1> QED
  BY <1>1, <1>3, <1>4

\* Below different members there are different numbers of members.
LEMMA BelowGrows ==
  ASSUME NEW S \in SUBSET Nat, IsFiniteSet(S), NEW a \in S, NEW b \in S, a < b
  PROVE  Cardinality(Below(S, a)) # Cardinality(Below(S, b))
<1>1. a \in Below(S, b) /\ a \notin Below(S, a)
  BY DEF Below
<1>2. Below(S, a) \in SUBSET Below(S, b)
  <2>1. ASSUME NEW j \in Below(S, a) PROVE j \in Below(S, b)
    <3>1. j \in S /\ j < a
      BY <2>1 DEF Below
    <3>2. j < b
      BY <3>1
    <3> QED
      BY <3>1, <3>2 DEF Below
  <2> QED
    BY <2>1
<1>3. IsFiniteSet(Below(S, b))
  BY BelowIsFewer
<1> QED
  BY <1>1, <1>2, <1>3, FS_Subset

\* Every set of numbers has a least one.  By counting: were there a smaller one
\* below each, the numbers of those below them would not be different.
LEMMA LeastIsLeast ==
  ASSUME NEW S \in SUBSET Nat, S # {}
  PROVE  Least(S) \in S /\ \A j \in S : Least(S) <= j
<1>1. PICK m \in S : TRUE
  OBVIOUS
<1> DEFINE T == {i \in S : i <= m}
<1>2. IsFiniteSet(T) /\ T # {} /\ T \in SUBSET Nat
  <2>1. T \in SUBSET Nat /\ (\A x \in T : x <= m) /\ m \in Nat
    OBVIOUS
  <2>2. m \in T
    OBVIOUS
  <2> HIDE DEF T
  <2>3. IsFiniteSet(T)
    BY <2>1, FS_BoundedSetOfNaturals
  <2> QED
    BY <2>1, <2>2, <2>3
<1>3. \E x \in T : Below(T, x) = {}
  <2> SUFFICES ASSUME \A x \in T : Below(T, x) # {} PROVE FALSE
    OBVIOUS
  <2> DEFINE n == Cardinality(T)
             count == [x \in T |-> Cardinality(Below(T, x))]
  <2> HIDE DEF T
  <2>1. n \in Nat /\ n # 0 /\ n - 1 \in Nat /\ 1 \in Int
    BY <1>2, FS_CardinalityType, FS_EmptySet
  <2>2. ASSUME NEW x \in T PROVE Cardinality(Below(T, x)) \in 1..(n - 1)
    <3>1. IsFiniteSet(Below(T, x)) /\ Cardinality(Below(T, x)) \in 0..(n - 1)
      BY <1>2, BelowIsFewer
    <3>2. Cardinality(Below(T, x)) # 0
      BY <3>1, FS_EmptySet
    <3> QED
      BY <2>1, <3>1, <3>2
  <2>3. count \in [T -> 1..(n - 1)]
    BY <2>2
  <2>4. IsFiniteSet(1..(n - 1)) /\ Cardinality(1..(n - 1)) < n
    <3> HIDE DEF n
    <3>1. IsFiniteSet(1..(n - 1))
          /\ Cardinality(1..(n - 1)) = IF 1 > n - 1 THEN 0 ELSE n - 1 - 1 + 1
      BY <2>1, FS_Interval
    <3> QED
      BY <2>1, <3>1
  <2>5. PICK c, d \in T : c # d /\ count[c] = count[d]
    <3> HIDE DEF count
    <3> QED
      BY <1>2, <2>3, <2>4, FS_PigeonHole
  <2>6. c \in Nat /\ d \in Nat /\ (c < d \/ d < c)
    BY <1>2, <2>5
  <2>7. Cardinality(Below(T, c)) # Cardinality(Below(T, d))
    BY <1>2, <2>6, BelowGrows
  <2> QED
    BY <2>5, <2>7
<1>4. PICK x \in T : Below(T, x) = {}
  BY <1>3
<1>5. x \in S /\ \A j \in S : x <= j
  BY <1>4 DEF Below
<1> QED
  BY <1>5 DEF Least

\* Induction, for a set in the place of a predicate.
LEMMA SetInduction ==
  ASSUME NEW S, 0 \in S, \A n \in Nat : n \in S => n + 1 \in S
  PROVE  Nat \subseteq S
<1> SUFFICES ASSUME NEW n \in Nat, n \notin S PROVE FALSE
  OBVIOUS
<1> DEFINE T == {i \in Nat : i \notin S}
           m == Least(T)
<1>1. T \in SUBSET Nat /\ T # {}
  OBVIOUS
<1>2. m \in T /\ \A j \in T : m <= j
  <2> HIDE DEF T
  <2> QED
    BY <1>1, LeastIsLeast
<1> HIDE DEF m
<1>3. m \in Nat /\ m # 0 /\ m - 1 \in Nat /\ m - 1 \notin T
  BY <1>2
<1> QED
  BY <1>2, <1>3

\* The members of a finite set of numbers are its first, its second and so on: as
\* many members as there are counts of smaller ones, and no two with the same.
LEMMA NthMember ==
  ASSUME NEW S \in SUBSET Nat, IsFiniteSet(S), NEW n \in 1..Cardinality(S)
  PROVE  \E i \in S : Cardinality(Below(S, i)) = n - 1
<1> DEFINE k == Cardinality(S)
           count == [i \in S |-> Cardinality(Below(S, i))]
<1>1. k \in Nat
  BY FS_CardinalityType
<1>2. count \in Injection(S, 0..(k - 1))
  <2>1. count \in [S -> 0..(k - 1)]
    BY BelowIsFewer
  <2>2. \A a, b \in S : count[a] = count[b] => a = b
    BY BelowGrows
  <2> HIDE DEF count
  <2> QED
    BY <2>1, <2>2 DEF Injection, IsInjective
<1>3. IsFiniteSet(0..(k - 1)) /\ Cardinality(0..(k - 1)) = k
  <2> HIDE DEF k
  <2>1. IsFiniteSet(0..(k - 1))
        /\ Cardinality(0..(k - 1)) = IF 0 > k - 1 THEN 0 ELSE k - 1 - 0 + 1
    BY <1>1, FS_Interval
  <2> QED
    BY <1>1, <2>1
<1>4. count \in Surjection(S, 0..(k - 1))
  <2> HIDE DEF count
  <2> QED
    BY <1>2, <1>3, FS_Injection
<1>5. n - 1 \in 0..(k - 1)
  BY <1>1
<1>6. PICK i \in S : count[i] = n - 1
  <2> HIDE DEF count
  <2> QED
    BY <1>4, <1>5 DEF Surjection
<1> QED
  BY <1>6

-----------------------------------------------------------------------------
\* Sequences compared item by item

\* What makes a comparison of the members of D, given as a function, a total preorder.
Ordering(D, cmp) ==
  /\ cmp \in [D \X D -> Int]
  /\ \A a \in D : cmp[<<a, a>>] = 0
  /\ \A a, b \in D : cmp[<<a, b>>] = -cmp[<<b, a>>]
  /\ \A a, b, c \in D : cmp[<<a, b>>] <= 0 /\ cmp[<<b, c>>] <= 0 => cmp[<<a, c>>] <= 0

\* Lexical and CompareParts are this, each with a comparison of its own.
Differ(cmp, x, y) == {i \in DOMAIN x \cap DOMAIN y : cmp[<<x[i], y[i]>>] # 0}
InOrder(cmp, x, y) ==
  IF Differ(cmp, x, y) = {}
  THEN IF Len(x) = Len(y) THEN 0 ELSE IF Len(x) < Len(y) THEN -1 ELSE 1
  ELSE cmp[<<x[Least(Differ(cmp, x, y))], y[Least(Differ(cmp, x, y))]>>]

\* The two agree before k, and at k it shows that x is not behind y.
Agree(cmp, x, y, k) == \A i \in 1..(k - 1) : i <= Len(x) /\ i <= Len(y) /\ cmp[<<x[i], y[i]>>] = 0
NotAfter(cmp, x, y, k) ==
  /\ k \in Nat /\ k >= 1 /\ Agree(cmp, x, y, k)
  /\ \/ k = Len(x) + 1
     \/ k <= Len(x) /\ k <= Len(y) /\ cmp[<<x[k], y[k]>>] < 0

\* Either the items both have agree, or there is a first that does not.
LEMMA FirstDiffer ==
  ASSUME NEW D, NEW cmp, Ordering(D, cmp), NEW x \in Seq(D), NEW y \in Seq(D)
  PROVE  \/ /\ Differ(cmp, x, y) = {}
            /\ \A i \in 1..Len(x) : i <= Len(y) => cmp[<<x[i], y[i]>>] = 0
            /\ InOrder(cmp, x, y) = IF Len(x) = Len(y) THEN 0 ELSE IF Len(x) < Len(y) THEN -1 ELSE 1
         \/ \E k \in 1..Len(x) : /\ k <= Len(y) /\ cmp[<<x[k], y[k]>>] # 0
                                 /\ Agree(cmp, x, y, k)
                                 /\ InOrder(cmp, x, y) = cmp[<<x[k], y[k]>>]
<1> DEFINE S == Differ(cmp, x, y)
           k == Least(S)
<1>1. DOMAIN x = 1..Len(x) /\ DOMAIN y = 1..Len(y) /\ Len(x) \in Nat /\ Len(y) \in Nat
  OBVIOUS
<1>2. CASE S = {}
  <2>1. InOrder(cmp, x, y) = IF Len(x) = Len(y) THEN 0 ELSE IF Len(x) < Len(y) THEN -1 ELSE 1
    BY <1>2 DEF InOrder
  <2>2. ASSUME NEW i \in 1..Len(x), i <= Len(y) PROVE cmp[<<x[i], y[i]>>] = 0
    <3>1. i \in DOMAIN x \cap DOMAIN y /\ i \notin S
      BY <1>1, <1>2, <2>2
    <3> QED
      BY <3>1 DEF Differ
  <2>3. Differ(cmp, x, y) = {}
    BY <1>2
  <2> QED
    BY <2>1, <2>2, <2>3
<1>3. CASE S # {}
  <2>1. S \in SUBSET Nat
    BY <1>1 DEF Differ
  <2>2. k \in S /\ \A j \in S : k <= j
    <3> HIDE DEF S
    <3> QED
      BY <1>3, <2>1, LeastIsLeast
  <2>3. InOrder(cmp, x, y) = cmp[<<x[k], y[k]>>]
    BY <1>3 DEF InOrder
  <2> HIDE DEF k
  <2>4. k \in 1..Len(x) /\ k <= Len(y) /\ cmp[<<x[k], y[k]>>] # 0
    BY <1>1, <2>2 DEF Differ
  <2>5. Agree(cmp, x, y, k)
    <3> SUFFICES ASSUME NEW i \in 1..(k - 1)
                 PROVE  i <= Len(x) /\ i <= Len(y) /\ cmp[<<x[i], y[i]>>] = 0
      BY DEF Agree
    <3>1. i \in 1..Len(x) /\ i \in 1..Len(y) /\ ~(k <= i)
      BY <1>1, <2>4
    <3>2. i \notin S
      BY <2>2, <3>1
    <3> QED
      BY <1>1, <3>1, <3>2 DEF Differ
  <2> QED
    BY <2>3, <2>4, <2>5
<1> HIDE DEF S, k
<1> QED
  BY <1>2, <1>3

\* Not behind is what the sign says.
LEMMA InOrderSign ==
  ASSUME NEW D, NEW cmp, Ordering(D, cmp), NEW x \in Seq(D), NEW y \in Seq(D)
  PROVE  /\ InOrder(cmp, x, y) \in Int
         /\ InOrder(cmp, x, y) <= 0 <=> \E k \in Nat : NotAfter(cmp, x, y, k)
<1>1. Len(x) \in Nat /\ Len(y) \in Nat
      /\ (\A i \in 1..Len(x) : x[i] \in D) /\ (\A i \in 1..Len(y) : y[i] \in D)
  OBVIOUS
<1>2. \A i \in Nat : 1 <= i /\ i <= Len(x) /\ i <= Len(y) => cmp[<<x[i], y[i]>>] \in Int
  BY <1>1 DEF Ordering
<1>3. CASE /\ \A i \in 1..Len(x) : i <= Len(y) => cmp[<<x[i], y[i]>>] = 0
           /\ InOrder(cmp, x, y) = IF Len(x) = Len(y) THEN 0 ELSE IF Len(x) < Len(y) THEN -1 ELSE 1
  <2>1. CASE Len(x) <= Len(y)
    <3>1. NotAfter(cmp, x, y, Len(x) + 1)
      BY <1>1, <1>3, <2>1 DEF NotAfter, Agree
    <3> QED
      BY <1>1, <1>3, <2>1, <3>1
  <2>2. CASE Len(y) < Len(x)
    <3>1. ASSUME NEW k \in Nat, NotAfter(cmp, x, y, k) PROVE FALSE
      <4>1. CASE k = Len(x) + 1
        <5>1. Len(x) \in 1..(k - 1)
          BY <1>1, <2>2, <4>1
        <5>2. Agree(cmp, x, y, k)
          BY <3>1 DEF NotAfter
        <5>3. Len(x) <= Len(y)
          BY <5>1, <5>2 DEF Agree
        <5> QED
          BY <1>1, <2>2, <5>3
      <4>2. CASE k <= Len(x) /\ k <= Len(y) /\ cmp[<<x[k], y[k]>>] < 0
        BY <1>1, <1>3, <3>1, <4>2 DEF NotAfter
      <4> QED
        BY <3>1, <4>1, <4>2 DEF NotAfter
    <3> QED
      BY <1>1, <1>3, <2>2, <3>1
  <2> QED
    BY <1>1, <2>1, <2>2
<1>4. CASE \E k \in 1..Len(x) : /\ k <= Len(y) /\ cmp[<<x[k], y[k]>>] # 0
                                /\ Agree(cmp, x, y, k)
                                /\ InOrder(cmp, x, y) = cmp[<<x[k], y[k]>>]
  <2>1. PICK k \in 1..Len(x) : /\ k <= Len(y) /\ cmp[<<x[k], y[k]>>] # 0
                               /\ Agree(cmp, x, y, k)
                               /\ InOrder(cmp, x, y) = cmp[<<x[k], y[k]>>]
    BY <1>4
  <2>2. k \in Nat /\ 1 <= k /\ k <= Len(x)
    BY <1>1
  <2>3. cmp[<<x[k], y[k]>>] \in Int
    BY <1>2, <2>1, <2>2
  <2>4. ASSUME InOrder(cmp, x, y) <= 0 PROVE NotAfter(cmp, x, y, k)
    BY <2>1, <2>2, <2>3, <2>4 DEF NotAfter
  <2>5. ASSUME NEW m \in Nat, NotAfter(cmp, x, y, m) PROVE cmp[<<x[k], y[k]>>] < 0
    <3>1. m >= 1 /\ Agree(cmp, x, y, m)
          /\ (m = Len(x) + 1 \/ (m <= Len(x) /\ m <= Len(y) /\ cmp[<<x[m], y[m]>>] < 0))
      BY <2>5 DEF NotAfter
    <3>2. ~(k < m)
      <4> SUFFICES ASSUME k < m PROVE FALSE
        OBVIOUS
      <4>1. k \in 1..(m - 1)
        BY <2>2
      <4> QED
        BY <2>1, <3>1, <4>1 DEF Agree
    <3>3. ~(m < k)
      <4> SUFFICES ASSUME m < k PROVE FALSE
        OBVIOUS
      <4>1. m \in 1..(k - 1) /\ m # Len(x) + 1
        BY <1>1, <2>2, <3>1
      <4>2. cmp[<<x[m], y[m]>>] = 0
        BY <2>1, <4>1 DEF Agree
      <4> QED
        BY <3>1, <4>1, <4>2
    <3>4. m = k /\ m # Len(x) + 1
      BY <1>1, <2>2, <3>2, <3>3
    <3> QED
      BY <3>1, <3>4
  <2>6. InOrder(cmp, x, y) \in Int
    BY <2>1, <2>3
  <2>7. InOrder(cmp, x, y) <= 0 => \E m \in Nat : NotAfter(cmp, x, y, m)
    BY <2>2, <2>4
  <2>8. (\E m \in Nat : NotAfter(cmp, x, y, m)) => InOrder(cmp, x, y) <= 0
    <3> SUFFICES ASSUME NEW m \in Nat, NotAfter(cmp, x, y, m) PROVE InOrder(cmp, x, y) <= 0
      OBVIOUS
    <3>1. cmp[<<x[k], y[k]>>] < 0
      BY <2>5
    <3> QED
      BY <2>1, <2>3, <3>1
  <2> QED
    BY <2>6, <2>7, <2>8
<1>5. \/ /\ \A i \in 1..Len(x) : i <= Len(y) => cmp[<<x[i], y[i]>>] = 0
         /\ InOrder(cmp, x, y) = IF Len(x) = Len(y) THEN 0 ELSE IF Len(x) < Len(y) THEN -1 ELSE 1
      \/ \E k \in 1..Len(x) : /\ k <= Len(y) /\ cmp[<<x[k], y[k]>>] # 0
                              /\ Agree(cmp, x, y, k)
                              /\ InOrder(cmp, x, y) = cmp[<<x[k], y[k]>>]
  BY FirstDiffer
<1> QED
  BY <1>3, <1>4, <1>5

\* Exchanging the two changes the sign.
LEMMA InOrderSwap ==
  ASSUME NEW D, NEW cmp, Ordering(D, cmp), NEW x \in Seq(D), NEW y \in Seq(D)
  PROVE  InOrder(cmp, x, y) = -InOrder(cmp, y, x)
<1> DEFINE S == Differ(cmp, x, y)
           k == Least(S)
<1>1. DOMAIN x = 1..Len(x) /\ DOMAIN y = 1..Len(y) /\ Len(x) \in Nat /\ Len(y) \in Nat
      /\ (\A i \in 1..Len(x) : x[i] \in D) /\ (\A i \in 1..Len(y) : y[i] \in D)
  OBVIOUS
<1>2. \A i \in DOMAIN x \cap DOMAIN y :
        /\ cmp[<<x[i], y[i]>>] = -cmp[<<y[i], x[i]>>]
        /\ cmp[<<x[i], y[i]>>] \in Int /\ cmp[<<y[i], x[i]>>] \in Int
  BY <1>1 DEF Ordering
<1>3. Differ(cmp, y, x) = S
  <2>1. ASSUME NEW i \in DOMAIN x \cap DOMAIN y
        PROVE  cmp[<<x[i], y[i]>>] # 0 <=> cmp[<<y[i], x[i]>>] # 0
    BY <1>2
  <2> QED
    BY <2>1 DEF Differ
<1>4. S \in SUBSET Nat
  BY <1>1 DEF Differ
<1>5. CASE S = {}
  <2>1. Differ(cmp, x, y) = {} /\ Differ(cmp, y, x) = {}
    BY <1>3, <1>5
  <2>2. InOrder(cmp, x, y) = IF Len(x) = Len(y) THEN 0 ELSE IF Len(x) < Len(y) THEN -1 ELSE 1
    BY <2>1 DEF InOrder
  <2>3. InOrder(cmp, y, x) = IF Len(y) = Len(x) THEN 0 ELSE IF Len(y) < Len(x) THEN -1 ELSE 1
    BY <2>1 DEF InOrder
  <2>4. Len(x) = Len(y) \/ (Len(x) < Len(y) /\ ~(Len(y) < Len(x)) /\ Len(x) # Len(y))
        \/ (Len(y) < Len(x) /\ ~(Len(x) < Len(y)) /\ Len(x) # Len(y))
    <3>1. Len(x) \in Int /\ Len(y) \in Int
      BY <1>1
    <3> QED
      BY ONLY <3>1
  <2>5. (InOrder(cmp, x, y) = 0 /\ InOrder(cmp, y, x) = 0)
        \/ (InOrder(cmp, x, y) = -1 /\ InOrder(cmp, y, x) = 1)
        \/ (InOrder(cmp, x, y) = 1 /\ InOrder(cmp, y, x) = -1)
    BY <2>2, <2>3, <2>4
  <2> QED
    BY <2>5
<1>6. CASE S # {}
  <2>1. k \in S
    <3> HIDE DEF S
    <3> QED
      BY <1>4, <1>6, LeastIsLeast
  <2>2. InOrder(cmp, x, y) = cmp[<<x[k], y[k]>>] /\ InOrder(cmp, y, x) = cmp[<<y[k], x[k]>>]
    BY <1>3, <1>6 DEF InOrder
  <2> HIDE DEF k
  <2>3. k \in DOMAIN x \cap DOMAIN y
    BY <2>1 DEF Differ
  <2> QED
    BY <1>2, <2>2, <2>3
<1> QED
  BY <1>5, <1>6

\* Nothing is before or after a sequence that it equals in every place.
LEMMA InOrderSame ==
  ASSUME NEW D, NEW cmp, Ordering(D, cmp), NEW x \in Seq(D)
  PROVE  InOrder(cmp, x, x) = 0
<1>1. InOrder(cmp, x, x) = -InOrder(cmp, x, x)
  BY InOrderSwap
<1>2. InOrder(cmp, x, x) \in Int
  BY InOrderSign
<1> QED
  BY <1>1, <1>2

\* Of two places where it shows, the nearer one decides.
LEMMA InOrderTransitive ==
  ASSUME NEW D, NEW cmp, Ordering(D, cmp),
         NEW x \in Seq(D), NEW y \in Seq(D), NEW z \in Seq(D),
         InOrder(cmp, x, y) <= 0, InOrder(cmp, y, z) <= 0
  PROVE  InOrder(cmp, x, z) <= 0
<1>1. Len(x) \in Nat /\ Len(y) \in Nat /\ Len(z) \in Nat
      /\ (\A i \in 1..Len(x) : x[i] \in D) /\ (\A i \in 1..Len(y) : y[i] \in D)
      /\ (\A i \in 1..Len(z) : z[i] \in D)
  OBVIOUS
<1>2. PICK k \in Nat : NotAfter(cmp, x, y, k)
  BY InOrderSign
<1>3. PICK m \in Nat : NotAfter(cmp, y, z, m)
  BY InOrderSign
<1>4. ASSUME NEW a \in D, NEW b \in D, NEW c \in D, cmp[<<a, b>>] = 0, cmp[<<b, c>>] = 0
      PROVE  cmp[<<a, c>>] = 0
  <2>1. cmp[<<b, a>>] = 0 /\ cmp[<<c, b>>] = 0 /\ cmp[<<a, c>>] \in Int /\ cmp[<<c, a>>] \in Int
        /\ cmp[<<a, b>>] = -cmp[<<b, a>>] /\ cmp[<<b, c>>] = -cmp[<<c, b>>]
        /\ cmp[<<a, c>>] = -cmp[<<c, a>>]
    <3>1. /\ cmp[<<a, b>>] = -cmp[<<b, a>>] /\ cmp[<<b, c>>] = -cmp[<<c, b>>]
          /\ cmp[<<a, c>>] = -cmp[<<c, a>>]
      BY DEF Ordering
    <3>2. cmp[<<b, a>>] \in Int /\ cmp[<<c, b>>] \in Int /\ cmp[<<a, c>>] \in Int
          /\ cmp[<<c, a>>] \in Int
      BY DEF Ordering
    <3> QED
      BY <1>4, <3>1, <3>2
  <2>2. cmp[<<a, c>>] <= 0
    BY <1>4 DEF Ordering
  <2>3. cmp[<<c, a>>] <= 0
    <3>1. cmp[<<c, b>>] <= 0 /\ cmp[<<b, a>>] <= 0
      BY <2>1
    <3> QED
      BY <3>1 DEF Ordering
  <2> QED
    BY <2>1, <2>2, <2>3
<1>5. ASSUME NEW a \in D, NEW b \in D, NEW c \in D, cmp[<<a, b>>] <= 0, cmp[<<b, c>>] <= 0,
             cmp[<<a, b>>] < 0 \/ cmp[<<b, c>>] < 0
      PROVE  cmp[<<a, c>>] < 0
  <2>1. cmp[<<a, b>>] = -cmp[<<b, a>>] /\ cmp[<<b, c>>] = -cmp[<<c, b>>]
        /\ cmp[<<a, c>>] = -cmp[<<c, a>>]
    BY DEF Ordering
  <2>2. cmp[<<b, a>>] \in Int /\ cmp[<<c, b>>] \in Int /\ cmp[<<a, c>>] \in Int
        /\ cmp[<<c, a>>] \in Int /\ cmp[<<a, b>>] \in Int /\ cmp[<<b, c>>] \in Int
    BY DEF Ordering
  <2>3. cmp[<<a, c>>] <= 0
    BY <1>5 DEF Ordering
  <2>4. ASSUME cmp[<<c, a>>] <= 0 PROVE FALSE
    <3>1. cmp[<<c, b>>] <= 0
      BY <1>5, <2>4 DEF Ordering
    <3>2. cmp[<<b, a>>] <= 0
      BY <1>5, <2>4 DEF Ordering
    <3> QED
      BY <1>5, <2>1, <2>2, <3>1, <3>2
  <2> QED
    BY <2>1, <2>2, <2>3, <2>4
<1> DEFINE n == IF k <= m THEN k ELSE m
<1>6. n \in Nat /\ n >= 1 /\ n <= k /\ n <= m /\ k \in Nat /\ m \in Nat
  BY <1>2, <1>3 DEF NotAfter
<1>7. \A i \in 1..(n - 1) : i <= Len(x) /\ i <= Len(y) /\ i <= Len(z)
        /\ cmp[<<x[i], y[i]>>] = 0 /\ cmp[<<y[i], z[i]>>] = 0
  <2> SUFFICES ASSUME NEW i \in 1..(n - 1)
               PROVE  i <= Len(x) /\ i <= Len(y) /\ i <= Len(z)
                      /\ cmp[<<x[i], y[i]>>] = 0 /\ cmp[<<y[i], z[i]>>] = 0
    OBVIOUS
  <2> HIDE DEF n
  <2>1. i \in 1..(k - 1) /\ i \in 1..(m - 1)
    BY <1>6
  <2> QED
    BY <1>2, <1>3, <2>1 DEF NotAfter, Agree
<1>8. Agree(cmp, x, z, n)
  <2> SUFFICES ASSUME NEW i \in 1..(n - 1)
               PROVE  i <= Len(x) /\ i <= Len(z) /\ cmp[<<x[i], z[i]>>] = 0
    BY DEF Agree
  <2>1. x[i] \in D /\ y[i] \in D /\ z[i] \in D
    <3> HIDE DEF n
    <3>1. i \in Nat /\ 1 <= i
      BY <1>6
    <3>2. i <= Len(x) /\ i <= Len(y) /\ i <= Len(z)
      BY <1>7
    <3>3. Len(x) \in Nat /\ Len(y) \in Nat /\ Len(z) \in Nat
      BY <1>1
    <3>4. i \in 1..Len(x) /\ i \in 1..Len(y) /\ i \in 1..Len(z)
      BY <3>1, <3>2, <3>3
    <3> QED
      BY <1>1, <3>4
  <2> QED
    BY <1>4, <1>7, <2>1
<1>9. n = Len(x) + 1 \/ (n <= Len(x) /\ n <= Len(z) /\ cmp[<<x[n], z[n]>>] < 0)
  <2>1. (k = Len(x) + 1) \/ (k <= Len(x) /\ k <= Len(y) /\ cmp[<<x[k], y[k]>>] < 0)
    BY <1>2 DEF NotAfter
  <2>2. (m = Len(y) + 1) \/ (m <= Len(y) /\ m <= Len(z) /\ cmp[<<y[m], z[m]>>] < 0)
    BY <1>3 DEF NotAfter
  <2>3. CASE k < m
    <3>1. n = k /\ k \in 1..(m - 1)
      BY <1>6, <2>3
    <3>2. k <= Len(y) /\ k <= Len(z) /\ cmp[<<y[k], z[k]>>] = 0
      BY <1>3, <3>1 DEF NotAfter, Agree
    <3>3. CASE k <= Len(x) /\ k <= Len(y) /\ cmp[<<x[k], y[k]>>] < 0
      <4>1. x[k] \in D /\ y[k] \in D /\ z[k] \in D
        BY <1>1, <1>6, <3>1, <3>2, <3>3
      <4>2. cmp[<<x[k], y[k]>>] <= 0 /\ cmp[<<y[k], z[k]>>] <= 0
        <5>1. cmp[<<x[k], y[k]>>] \in Int
          BY <4>1 DEF Ordering
        <5> QED
          BY <3>2, <3>3, <5>1
      <4>3. cmp[<<x[k], z[k]>>] < 0
        BY <1>5, <3>3, <4>1, <4>2
      <4> QED
        BY <3>1, <3>2, <3>3, <4>3
    <3> QED
      BY <2>1, <3>1, <3>3
  <2>4. CASE m < k
    <3>1. n = m /\ m \in 1..(k - 1)
      BY <1>6, <2>4
    <3>2. m <= Len(x) /\ m <= Len(y) /\ cmp[<<x[m], y[m]>>] = 0
      BY <1>2, <3>1 DEF NotAfter, Agree
    <3>3. m <= Len(z) /\ cmp[<<y[m], z[m]>>] < 0
      BY <1>1, <2>2, <3>2
    <3>4. x[m] \in D /\ y[m] \in D /\ z[m] \in D
      BY <1>1, <1>6, <3>1, <3>2, <3>3
    <3>5. cmp[<<x[m], y[m]>>] <= 0 /\ cmp[<<y[m], z[m]>>] <= 0
      <4>1. cmp[<<y[m], z[m]>>] \in Int
        BY <3>4 DEF Ordering
      <4> QED
        BY <3>2, <3>3, <4>1
    <3>6. cmp[<<x[m], z[m]>>] < 0
      BY <1>5, <3>3, <3>4, <3>5
    <3> QED
      BY <3>1, <3>2, <3>3, <3>6
  <2>5. CASE k = m
    <3>1. n = k
      BY <1>6, <2>5
    <3>2. CASE k <= Len(x) /\ k <= Len(y) /\ cmp[<<x[k], y[k]>>] < 0
      <4>1. k <= Len(z) /\ cmp[<<y[k], z[k]>>] < 0
        BY <1>1, <1>6, <2>2, <2>5, <3>2
      <4>2. x[k] \in D /\ y[k] \in D /\ z[k] \in D
        BY <1>1, <1>6, <3>1, <3>2, <4>1
      <4>3. cmp[<<x[k], y[k]>>] <= 0 /\ cmp[<<y[k], z[k]>>] <= 0
        <5>1. cmp[<<x[k], y[k]>>] \in Int /\ cmp[<<y[k], z[k]>>] \in Int
          BY <4>2 DEF Ordering
        <5> QED
          BY <3>2, <4>1, <5>1
      <4>4. cmp[<<x[k], z[k]>>] < 0
        BY <1>5, <4>1, <4>2, <4>3
      <4> QED
        BY <3>1, <3>2, <4>1, <4>4
    <3> QED
      BY <2>1, <3>1, <3>2
  <2> QED
    BY <1>6, <2>3, <2>4, <2>5
<1> HIDE DEF n
<1>10. NotAfter(cmp, x, z, n)
  BY <1>6, <1>8, <1>9 DEF NotAfter
<1> QED
  BY <1>6, <1>10, InOrderSign

-----------------------------------------------------------------------------
\* Words and numbers

\* Two characters, or two numbers, in their order.
ByCode == [ab \in Int \X Int |-> IF ab[1] = ab[2] THEN 0 ELSE IF ab[1] < ab[2] THEN -1 ELSE 1]

\* Numbers in their order are ordered.
LEMMA CodesAreOrdered == Ordering(Int, ByCode)
<1>1. \A a, b \in Int : ByCode[<<a, b>>] = IF a = b THEN 0 ELSE IF a < b THEN -1 ELSE 1
  BY DEF ByCode
<1>2. ByCode \in [Int \X Int -> Int]
  BY DEF ByCode
<1>3. \A a \in Int : ByCode[<<a, a>>] = 0
  BY <1>1
<1>4. \A a, b \in Int : ByCode[<<a, b>>] = -ByCode[<<b, a>>]
  <2> SUFFICES ASSUME NEW a \in Int, NEW b \in Int PROVE ByCode[<<a, b>>] = -ByCode[<<b, a>>]
    OBVIOUS
  <2> DEFINE m == ByCode[<<a, b>>]
             n == ByCode[<<b, a>>]
  <2>1. m = (IF a = b THEN 0 ELSE IF a < b THEN -1 ELSE 1)
        /\ n = (IF b = a THEN 0 ELSE IF b < a THEN -1 ELSE 1)
    BY <1>1
  <2> HIDE DEF m, n
  <2>2. m = -n
    BY <2>1
  <2> QED
    BY <2>2 DEF m, n
<1>5. \A a, b, c \in Int : ByCode[<<a, b>>] <= 0 /\ ByCode[<<b, c>>] <= 0 => ByCode[<<a, c>>] <= 0
  <2>1. ASSUME NEW a \in Int, NEW b \in Int PROVE ByCode[<<a, b>>] <= 0 <=> a <= b
    <3>1. CASE a = b
      BY <1>1, <3>1
    <3>2. CASE a < b
      BY <1>1, <3>2
    <3>3. CASE b < a
      BY <1>1, <3>3
    <3> QED
      BY <3>1, <3>2, <3>3
  <2> QED
    BY <2>1
<1> QED
  BY <1>2, <1>3, <1>4, <1>5 DEF Ordering

\* strcmp compares character by character.
LEMMA LexicalInOrder ==
  ASSUME NEW l \in Seq(Int), NEW r \in Seq(Int)
  PROVE  Lexical(l, r) = InOrder(ByCode, l, r)
<1> DEFINE S == {i \in DOMAIN l \cap DOMAIN r : l[i] # r[i]}
           k == Least(S)
<1>1. DOMAIN l = 1..Len(l) /\ DOMAIN r = 1..Len(r) /\ Len(l) \in Nat /\ Len(r) \in Nat
      /\ (\A i \in 1..Len(l) : l[i] \in Int) /\ (\A i \in 1..Len(r) : r[i] \in Int)
  OBVIOUS
<1>2. \A i \in DOMAIN l \cap DOMAIN r : l[i] \in Int /\ r[i] \in Int
  BY <1>1
<1>3. \A i \in DOMAIN l \cap DOMAIN r :
        ByCode[<<l[i], r[i]>>] = IF l[i] = r[i] THEN 0 ELSE IF l[i] < r[i] THEN -1 ELSE 1
  BY <1>2 DEF ByCode
<1>4. Differ(ByCode, l, r) = S
  <2>1. ASSUME NEW i \in DOMAIN l \cap DOMAIN r
        PROVE  ByCode[<<l[i], r[i]>>] # 0 <=> l[i] # r[i]
    BY <1>3
  <2> QED
    BY <2>1 DEF Differ
<1>5. S \in SUBSET Nat
  BY <1>1
<1>6. CASE S = {}
  BY <1>4, <1>6 DEF Lexical, InOrder
<1>7. CASE S # {}
  <2>1. k \in S
    <3> HIDE DEF S
    <3> QED
      BY <1>5, <1>7, LeastIsLeast
  <2>2. k \in DOMAIN l \cap DOMAIN r /\ l[k] # r[k]
    <3> HIDE DEF k
    <3> QED
      BY <2>1
  <2>3. Lexical(l, r) = IF l[k] < r[k] THEN -1 ELSE 1
    BY <1>7 DEF Lexical
  <2>4. InOrder(ByCode, l, r) = ByCode[<<l[k], r[k]>>]
    BY <1>4, <1>7 DEF InOrder
  <2> HIDE DEF k
  <2> QED
    BY <1>3, <2>2, <2>3, <2>4
<1> QED
  BY <1>6, <1>7

\* The order of strings (strcmp, transaction.c 936 and 941, db.c 855 and 860) is a total preorder.
LEMMA WordsAreOrdered ==
  ASSUME NEW x \in Seq(Int), NEW y \in Seq(Int), NEW z \in Seq(Int)
  PROVE  /\ Lexical(x, y) \in Int
         /\ Lexical(x, x) = 0
         /\ Lexical(x, y) = -Lexical(y, x)
         /\ Lexical(x, y) <= 0 /\ Lexical(y, z) <= 0 => Lexical(x, z) <= 0
<1>1. Lexical(x, y) = InOrder(ByCode, x, y) /\ Lexical(y, x) = InOrder(ByCode, y, x)
      /\ Lexical(x, x) = InOrder(ByCode, x, x) /\ Lexical(y, z) = InOrder(ByCode, y, z)
      /\ Lexical(x, z) = InOrder(ByCode, x, z)
  BY LexicalInOrder
<1>2. InOrder(ByCode, x, y) \in Int
  BY CodesAreOrdered, InOrderSign
<1>3. InOrder(ByCode, x, x) = 0
  BY CodesAreOrdered, InOrderSame
<1>4. InOrder(ByCode, x, y) = -InOrder(ByCode, y, x)
  BY CodesAreOrdered, InOrderSwap
<1>5. InOrder(ByCode, x, y) <= 0 /\ InOrder(ByCode, y, z) <= 0 => InOrder(ByCode, x, z) <= 0
  BY CodesAreOrdered, InOrderTransitive
<1> QED
  BY <1>1, <1>2, <1>3, <1>4, <1>5

\* What is left of a part is its end from the first digit that is not a zero.
LEMMA Stripped ==
  ASSUME NEW part \in Seq(Int)
  PROVE  /\ StripZeros(part) \in Seq(Int)
         /\ \E n \in 0..Len(part) :
              /\ \A i \in 1..n : part[i] = 0
              /\ Len(StripZeros(part)) = Len(part) - n
              /\ \A i \in 1..(Len(part) - n) : StripZeros(part)[i] = part[n + i]
              /\ Len(StripZeros(part)) > 0 => StripZeros(part)[1] # 0
<1> DEFINE S == {i \in DOMAIN part : part[i] # 0}
           k == Least(S)
<1>1. DOMAIN part = 1..Len(part) /\ Len(part) \in Nat /\ \A i \in 1..Len(part) : part[i] \in Int
  OBVIOUS
<1>2. S \in SUBSET Nat
  BY <1>1
<1>3. CASE S = {}
  <2>1. StripZeros(part) = <<>> /\ Len(<<>>) = 0 /\ <<>> \in Seq(Int)
    BY <1>3 DEF StripZeros
  <2>2. \A i \in 1..Len(part) : part[i] = 0
    BY <1>1, <1>3
  <2>3. Len(part) \in 0..Len(part) /\ Len(part) - Len(part) = 0
        /\ \A i \in 1..(Len(part) - Len(part)) : FALSE
    BY <1>1
  <2> HIDE DEF S
  <2> QED
    BY <2>1, <2>2, <2>3
<1>4. CASE S # {}
  <2>1. k \in S /\ \A j \in S : k <= j
    <3> HIDE DEF S
    <3> QED
      BY <1>2, <1>4, LeastIsLeast
  <2>2. StripZeros(part) = SubSeq(part, k, Len(part))
    BY <1>4 DEF StripZeros
  <2> HIDE DEF k
  <2>3. k \in 1..Len(part) /\ part[k] # 0
    BY <1>1, <2>1
  <2>4. \A i \in 1..(k - 1) : part[i] = 0
    <3> SUFFICES ASSUME NEW i \in 1..(k - 1) PROVE part[i] = 0
      OBVIOUS
    <3>1. i \in DOMAIN part /\ ~(k <= i)
      BY <1>1, <2>3
    <3> QED
      BY <2>1, <3>1
  <2>5. SubSeq(part, k, Len(part)) \in Seq(Int)
        /\ Len(SubSeq(part, k, Len(part))) = Len(part) - (k - 1)
        /\ \A i \in 1..(Len(part) - (k - 1)) : SubSeq(part, k, Len(part))[i] = part[(k - 1) + i]
    <3>1. k \in Int /\ Len(part) \in Int /\ \A i \in k..Len(part) : part[i] \in Int
      BY <1>1, <2>3
    <3> QED
      BY <1>1, <2>3, <3>1
  <2>6. StripZeros(part)[1] # 0
    BY <1>1, <2>2, <2>3, <2>5
  <2>7. k - 1 \in 0..Len(part)
    BY <1>1, <2>3
  <2> HIDE DEF S
  <2> QED
    BY <2>2, <2>4, <2>5, <2>6, <2>7
<1> QED
  BY <1>3, <1>4

\* The three cases of a comparison of parts.
LEMMA PartCases ==
  ASSUME NEW x \in Seq(Int), NEW y \in Seq(Int)
  PROVE  /\ Numeric(x) /\ Numeric(y) =>
              ComparePart(x, y) = IF Len(StripZeros(x)) # Len(StripZeros(y))
                                  THEN IF Len(StripZeros(x)) < Len(StripZeros(y)) THEN -1 ELSE 1
                                  ELSE Lexical(StripZeros(x), StripZeros(y))
         /\ Numeric(x) /\ ~Numeric(y) => ComparePart(x, y) = 1
         /\ ~Numeric(x) /\ Numeric(y) => ComparePart(x, y) = -1
         /\ ~Numeric(x) /\ ~Numeric(y) => ComparePart(x, y) = Lexical(x, y)
<1>1. Numeric(x) \in BOOLEAN /\ Numeric(y) \in BOOLEAN
  BY DEF Numeric
<1>2. CASE Numeric(x) /\ Numeric(y)
  BY <1>2 DEF ComparePart
<1>3. CASE Numeric(x) /\ ~Numeric(y)
  BY <1>1, <1>3 DEF ComparePart
<1>4. CASE ~Numeric(x) /\ Numeric(y)
  BY <1>1, <1>4 DEF ComparePart
<1>5. CASE ~Numeric(x) /\ ~Numeric(y)
  BY <1>1, <1>5 DEF ComparePart
<1> QED
  BY <1>2, <1>3, <1>4, <1>5

\* Two numbers: the one with fewer digits is the smaller, of as many the first
\* difference decides.
LEMMA NumberCases ==
  ASSUME NEW x \in Seq(Int), NEW y \in Seq(Int), Numeric(x), Numeric(y)
  PROVE  /\ ComparePart(x, y) \in Int
         /\ ComparePart(x, y) = -ComparePart(y, x)
         /\ ComparePart(x, y) <= 0 <=>
              \/ Len(StripZeros(x)) < Len(StripZeros(y))
              \/ /\ Len(StripZeros(x)) = Len(StripZeros(y))
                 /\ Lexical(StripZeros(x), StripZeros(y)) <= 0
<1> DEFINE a == StripZeros(x)
           b == StripZeros(y)
           m == ComparePart(x, y)
           n == ComparePart(y, x)
           s == Lexical(a, b)
           t == Lexical(b, a)
<1>1. a \in Seq(Int) /\ b \in Seq(Int)
  BY Stripped
<1> HIDE DEF a, b
<1>2. s \in Int /\ t \in Int /\ s = -t
  BY <1>1, WordsAreOrdered
<1>3. m = (IF Len(a) # Len(b) THEN IF Len(a) < Len(b) THEN -1 ELSE 1 ELSE s)
      /\ n = (IF Len(b) # Len(a) THEN IF Len(b) < Len(a) THEN -1 ELSE 1 ELSE t)
  BY PartCases DEF a, b
<1>4. Len(a) \in Nat /\ Len(b) \in Nat
  BY <1>1
<1> HIDE DEF m, n, s, t
<1>5. m \in Int /\ m = -n /\ (m <= 0 <=> Len(a) < Len(b) \/ (Len(a) = Len(b) /\ s <= 0))
  <2>1. CASE Len(a) = Len(b)
    BY <1>2, <1>3, <2>1
  <2>2. CASE Len(a) < Len(b)
    BY <1>3, <1>4, <2>2
  <2>3. CASE Len(b) < Len(a)
    BY <1>3, <1>4, <2>3
  <2> QED
    BY <1>4, <2>1, <2>2, <2>3
<1> QED
  BY <1>5 DEF m, n, s, a, b

\* ComparePart as a function, for InOrder.
PartOrder == [pq \in Seq(Int) \X Seq(Int) |-> ComparePart(pq[1], pq[2])]

\* Parts are ordered: the words, and above them the numbers.
LEMMA PartsAreOrdered == Ordering(Seq(Int), PartOrder)
<1>1. ASSUME NEW x \in Seq(Int), NEW y \in Seq(Int)
      PROVE  ComparePart(x, y) \in Int /\ ComparePart(x, y) = -ComparePart(y, x)
  <2>1. CASE Numeric(x) /\ Numeric(y)
    BY <2>1, NumberCases
  <2>2. CASE Numeric(x) /\ ~Numeric(y)
    <3> DEFINE m == ComparePart(x, y)
               n == ComparePart(y, x)
    <3>1. m = 1 /\ n = -1
      BY <2>2, PartCases
    <3> HIDE DEF m, n
    <3>2. m = 1 /\ n \in Int /\ n + 1 = 0
      BY <3>1
    <3>3. m \in Int /\ m = -n
      BY <3>2
    <3> QED
      BY <3>3 DEF m, n
  <2>3. CASE ~Numeric(x) /\ Numeric(y)
    <3> DEFINE m == ComparePart(x, y)
               n == ComparePart(y, x)
    <3>1. m = -1 /\ n = 1
      BY <2>3, PartCases
    <3> HIDE DEF m, n
    <3>2. m \in Int /\ m = -n
      BY <3>1
    <3> QED
      BY <3>2 DEF m, n
  <2>4. CASE ~Numeric(x) /\ ~Numeric(y)
    <3>1. ComparePart(x, y) = Lexical(x, y) /\ ComparePart(y, x) = Lexical(y, x)
      BY <2>4, PartCases
    <3> QED
      BY <3>1, WordsAreOrdered
  <2> QED
    BY <2>1, <2>2, <2>3, <2>4
<1>2. ASSUME NEW x \in Seq(Int), NEW y \in Seq(Int), NEW z \in Seq(Int),
             ComparePart(x, y) <= 0, ComparePart(y, z) <= 0
      PROVE  ComparePart(x, z) <= 0
  <2>1. CASE Numeric(x)
    <3>1. Numeric(y)
      <4>1. Numeric(x) /\ ~Numeric(y) => ComparePart(x, y) = 1
        BY PartCases
      <4> QED
        BY <1>2, <2>1, <4>1
    <3>2. Numeric(z)
      <4>1. Numeric(y) /\ ~Numeric(z) => ComparePart(y, z) = 1
        BY PartCases
      <4> QED
        BY <1>2, <3>1, <4>1
    <3> DEFINE a == StripZeros(x)
               b == StripZeros(y)
               c == StripZeros(z)
    <3>3. Len(a) < Len(b) \/ (Len(a) = Len(b) /\ Lexical(a, b) <= 0)
      BY <1>2, <2>1, <3>1, NumberCases
    <3>4. Len(b) < Len(c) \/ (Len(b) = Len(c) /\ Lexical(b, c) <= 0)
      BY <1>2, <3>1, <3>2, NumberCases
    <3>5. ComparePart(x, z) <= 0 <=> Len(a) < Len(c) \/ (Len(a) = Len(c) /\ Lexical(a, c) <= 0)
      BY <2>1, <3>2, NumberCases
    <3>6. a \in Seq(Int) /\ b \in Seq(Int) /\ c \in Seq(Int)
      BY Stripped
    <3> HIDE DEF a, b, c
    <3>7. Len(a) \in Nat /\ Len(b) \in Nat /\ Len(c) \in Nat
      BY <3>6
    <3>8. Lexical(a, b) <= 0 /\ Lexical(b, c) <= 0 => Lexical(a, c) <= 0
      BY <3>6, WordsAreOrdered
    <3> QED
      BY <3>3, <3>4, <3>5, <3>7, <3>8
  <2>2. CASE ~Numeric(x) /\ Numeric(z)
    <3>1. ComparePart(x, z) = -1
      BY <2>2, PartCases
    <3> QED
      BY <3>1
  <2>3. CASE ~Numeric(x) /\ ~Numeric(z)
    <3>1. ~Numeric(y)
      <4>1. Numeric(y) /\ ~Numeric(z) => ComparePart(y, z) = 1
        BY PartCases
      <4> QED
        BY <1>2, <2>3, <4>1
    <3>2. ComparePart(x, y) = Lexical(x, y) /\ ComparePart(y, z) = Lexical(y, z)
          /\ ComparePart(x, z) = Lexical(x, z)
      BY <2>3, <3>1, PartCases
    <3> QED
      BY <1>2, <3>2, WordsAreOrdered
  <2> QED
    BY <2>1, <2>2, <2>3
<1>3. \A x, y \in Seq(Int) : PartOrder[<<x, y>>] = ComparePart(x, y)
  BY DEF PartOrder
<1>4. PartOrder \in [Seq(Int) \X Seq(Int) -> Int]
  BY <1>1 DEF PartOrder
<1>5. \A x \in Seq(Int) : PartOrder[<<x, x>>] = 0
  <2> SUFFICES ASSUME NEW x \in Seq(Int) PROVE PartOrder[<<x, x>>] = 0
    OBVIOUS
  <2> DEFINE m == ComparePart(x, x)
  <2>1. m \in Int /\ m = -m
    BY <1>1
  <2> HIDE DEF m
  <2>2. m = 0
    BY <2>1
  <2> QED
    BY <1>3, <2>2 DEF m
<1>6. \A x, y \in Seq(Int) : PartOrder[<<x, y>>] = -PartOrder[<<y, x>>]
  BY <1>1, <1>3
<1>7. \A x, y, z \in Seq(Int) :
        PartOrder[<<x, y>>] <= 0 /\ PartOrder[<<y, z>>] <= 0 => PartOrder[<<x, z>>] <= 0
  BY <1>2, <1>3
<1> QED
  BY <1>4, <1>5, <1>6, <1>7 DEF Ordering

\* CompareParts is the lexicographic order by the comparison of two parts.
LEMMA ComparePartsInOrder ==
  ASSUME NEW ls \in Seq(Seq(Int)), NEW rs \in Seq(Seq(Int))
  PROVE  CompareParts(ls, rs) = InOrder(PartOrder, ls, rs)
<1> DEFINE S == {i \in DOMAIN ls \cap DOMAIN rs : ComparePart(ls[i], rs[i]) # 0}
           k == Least(S)
<1>1. \A i \in DOMAIN ls \cap DOMAIN rs :
        PartOrder[<<ls[i], rs[i]>>] = ComparePart(ls[i], rs[i])
  <2>1. \A i \in DOMAIN ls \cap DOMAIN rs : ls[i] \in Seq(Int) /\ rs[i] \in Seq(Int)
    OBVIOUS
  <2> QED
    BY <2>1 DEF PartOrder
<1>2. Differ(PartOrder, ls, rs) = S
  BY <1>1 DEF Differ
<1>3. DOMAIN ls = 1..Len(ls) /\ S \in SUBSET Nat
  OBVIOUS
<1>4. CASE S = {}
  BY <1>2, <1>4 DEF CompareParts, InOrder
<1>5. CASE S # {}
  <2>1. k \in S
    <3> HIDE DEF S
    <3> QED
      BY <1>3, <1>5, LeastIsLeast
  <2>2. k \in DOMAIN ls \cap DOMAIN rs
    <3> HIDE DEF k
    <3> QED
      BY <2>1
  <2>3. CompareParts(ls, rs) = ComparePart(ls[k], rs[k])
    BY <1>5 DEF CompareParts
  <2>4. InOrder(PartOrder, ls, rs) = PartOrder[<<ls[k], rs[k]>>]
    BY <1>2, <1>5 DEF InOrder
  <2> HIDE DEF k
  <2> QED
    BY <1>1, <2>2, <2>3, <2>4
<1> QED
  BY <1>4, <1>5

\* Lists of parts are ordered: the loop of all five comparators (CompareParts) gives a
\* total preorder, whatever the parts.
THEOREM PartListsAreOrdered ==
  ASSUME NEW x \in Seq(Seq(Int)), NEW y \in Seq(Seq(Int)), NEW z \in Seq(Seq(Int))
  PROVE  TotalPreorder(CompareParts, x, y, z)
<1>1. CompareParts(x, y) = InOrder(PartOrder, x, y)
      /\ CompareParts(y, x) = InOrder(PartOrder, y, x)
      /\ CompareParts(x, x) = InOrder(PartOrder, x, x)
      /\ CompareParts(y, z) = InOrder(PartOrder, y, z)
      /\ CompareParts(x, z) = InOrder(PartOrder, x, z)
  BY ComparePartsInOrder
<1>2. InOrder(PartOrder, x, x) = 0
  BY PartsAreOrdered, InOrderSame
<1>3. InOrder(PartOrder, x, y) = -InOrder(PartOrder, y, x)
  BY PartsAreOrdered, InOrderSwap
<1>4. InOrder(PartOrder, x, y) <= 0 /\ InOrder(PartOrder, y, z) <= 0
      => InOrder(PartOrder, x, z) <= 0
  BY PartsAreOrdered, InOrderTransitive
<1> QED
  BY <1>1, <1>2, <1>3, <1>4 DEF TotalPreorder

-----------------------------------------------------------------------------
\* The parts of a version

\* A part goes from its start to the next separator or start, with neither in between.
EndsAt(ver, starts, i, e) ==
  /\ Len(PartAt(ver, starts, i)) = e - i
  /\ \A j \in 1..(e - i) : PartAt(ver, starts, i)[j] = ver[i + j - 1]
  /\ \A j \in (i + 1)..(e - 1) : ver[j] # Separator /\ j \notin starts
  /\ e = Len(ver) + 1 \/ ver[e] = Separator \/ e \in starts

\* Every start has a part, which is not empty, and which ends where EndsAt says.
LEMMA PartIsRun ==
  ASSUME NEW ver \in Seq(Int), NEW starts \in SUBSET (DOMAIN ver), NEW i \in starts
  PROVE  /\ PartAt(ver, starts, i) \in Seq(Int)
         /\ \E e \in (i + 1)..(Len(ver) + 1) : EndsAt(ver, starts, i, e)
<1> DEFINE stops == {j \in DOMAIN ver : ver[j] = Separator} \cup starts \cup {Len(ver) + 1}
           after == {j \in stops : i < j}
           e == Least(after)
<1>1. DOMAIN ver = 1..Len(ver) /\ Len(ver) \in Nat /\ \A j \in 1..Len(ver) : ver[j] \in Int
  OBVIOUS
<1>2. i \in 1..Len(ver)
  BY <1>1
<1>3. stops \in SUBSET (1..(Len(ver) + 1))
  BY <1>1
<1>4. after \in SUBSET Nat /\ after # {}
  <2>1. Len(ver) + 1 \in after
    BY <1>1, <1>2
  <2>2. after \in SUBSET stops /\ stops \in SUBSET Nat
    BY <1>1, <1>3
  <2> HIDE DEF stops, after
  <2> QED
    BY <2>1, <2>2
<1>5. e \in after /\ \A j \in after : e <= j
  <2> HIDE DEF after
  <2> QED
    BY <1>4, LeastIsLeast
<1>6. PartAt(ver, starts, i) = SubSeq(ver, i, e - 1)
  BY DEF PartAt
<1> HIDE DEF e
<1>7. e \in (i + 1)..(Len(ver) + 1) /\ e \in stops
  <2> HIDE DEF stops
  <2> QED
    BY <1>1, <1>2, <1>3, <1>5
<1>8. SubSeq(ver, i, e - 1) \in Seq(Int) /\ Len(SubSeq(ver, i, e - 1)) = e - i
      /\ \A j \in 1..(e - i) : SubSeq(ver, i, e - 1)[j] = ver[i + j - 1]
  <2>1. \A j \in i..(e - 1) : ver[j] \in Int
    BY <1>1, <1>2, <1>7
  <2>2. i \in Int /\ e - 1 \in Int /\ i <= e - 1 /\ (e - 1) - i + 1 = e - i
    BY <1>1, <1>2, <1>7
  <2>3. SubSeq(ver, i, e - 1) \in Seq(Int)
        /\ Len(SubSeq(ver, i, e - 1)) = (IF i <= e - 1 THEN (e - 1) - i + 1 ELSE 0)
        /\ \A j \in 1..((e - 1) - i + 1) : SubSeq(ver, i, e - 1)[j] = ver[i + j - 1]
    BY <2>1, <2>2, SubSeqProperties
  <2> QED
    BY <2>2, <2>3
<1>9. \A j \in (i + 1)..(e - 1) : ver[j] # Separator /\ j \notin starts
  <2> SUFFICES ASSUME NEW j \in (i + 1)..(e - 1) PROVE ver[j] # Separator /\ j \notin starts
    OBVIOUS
  <2>1. j \in DOMAIN ver /\ i < j /\ ~(e <= j)
    BY <1>1, <1>2, <1>7
  <2>2. j \notin stops
    <3> HIDE DEF stops
    <3> QED
      BY <1>5, <2>1
  <2> QED
    BY <2>1, <2>2
<1>10. e = Len(ver) + 1 \/ ver[e] = Separator \/ e \in starts
  BY <1>7
<1> HIDE DEF stops, after
<1>11. EndsAt(ver, starts, i, e)
  BY <1>6, <1>8, <1>9, <1>10 DEF EndsAt
<1> QED
  BY <1>6, <1>7, <1>8, <1>11

\* There is one part for every start and one start for every part.
LEMMA PartsAreRuns ==
  ASSUME NEW ver \in Seq(Int), NEW starts \in SUBSET (DOMAIN ver)
  PROVE  /\ Parts(ver, starts) \in Seq(Seq(Int))
         /\ \A n \in DOMAIN Parts(ver, starts) :
              \E i \in starts : Parts(ver, starts)[n] = PartAt(ver, starts, i)
         /\ \A i \in starts : \E n \in DOMAIN Parts(ver, starts) :
              Parts(ver, starts)[n] = PartAt(ver, starts, i)
<1> DEFINE Start(n) == CHOOSE i \in starts : Cardinality(Below(starts, i)) = n - 1
           k == Cardinality(starts)
           ps == [n \in 1..k |-> PartAt(ver, starts, Start(n))]
<1>1. Parts(ver, starts) = ps
  BY DEF Parts, Below
<1>2. IsFiniteSet(starts) /\ starts \in SUBSET Nat /\ k \in Nat
  <2>1. starts \in SUBSET Nat /\ Len(ver) \in Nat /\ \A i \in starts : i <= Len(ver)
    OBVIOUS
  <2>2. IsFiniteSet(starts)
    BY <2>1, FS_BoundedSetOfNaturals
  <2> QED
    BY <2>1, <2>2, FS_CardinalityType
<1>3. ASSUME NEW n \in 1..k
      PROVE  Start(n) \in starts /\ Cardinality(Below(starts, Start(n))) = n - 1
  <2>1. \E i \in starts : Cardinality(Below(starts, i)) = n - 1
    BY <1>2, NthMember
  <2> QED
    BY <2>1
<1>4. ASSUME NEW n \in 1..k PROVE PartAt(ver, starts, Start(n)) \in Seq(Int)
  <2> DEFINE i == Start(n)
  <2>1. i \in starts
    BY <1>3
  <2> HIDE DEF i
  <2>2. PartAt(ver, starts, i) \in Seq(Int)
    BY <2>1, PartIsRun
  <2> QED
    BY <2>2 DEF i
<1>5. ps \in Seq(Seq(Int)) /\ DOMAIN ps = 1..k
  <2>1. ps \in [1..k -> Seq(Int)]
    BY <1>4
  <2> HIDE DEF ps, k
  <2> QED
    BY <1>2, <2>1
<1>6. \A n \in 1..k : \E i \in starts : ps[n] = PartAt(ver, starts, i)
  BY <1>3
<1>7. ASSUME NEW i \in starts PROVE \E n \in 1..k : ps[n] = PartAt(ver, starts, i)
  <2> DEFINE n == Cardinality(Below(starts, i)) + 1
  <2>1. Cardinality(Below(starts, i)) \in 0..(k - 1)
    BY <1>2, BelowIsFewer
  <2>2. n \in 1..k /\ n - 1 = Cardinality(Below(starts, i))
    BY <1>2, <2>1
  <2> HIDE DEF n
  <2>3. Start(n) \in starts /\ Cardinality(Below(starts, Start(n))) = Cardinality(Below(starts, i))
    BY <1>3, <2>2
  <2>4. Start(n) = i
    <3> DEFINE s == Start(n)
    <3>1. s \in starts /\ Cardinality(Below(starts, s)) = Cardinality(Below(starts, i))
      BY <2>3
    <3> HIDE DEF s
    <3>2. ~(s < i) /\ ~(i < s)
      BY <1>2, <3>1, BelowGrows
    <3>3. s = i
      BY <1>2, <3>1, <3>2
    <3> QED
      BY <3>3 DEF s
  <2> QED
    BY <2>2, <2>4
<1> HIDE DEF ps
<1> QED
  BY <1>1, <1>5, <1>6, <1>7

\* Both ways of cutting give lists of parts, for every version.
LEMMA StartsOfVersions ==
  ASSUME NEW x \in Seq(Int)
  PROVE  /\ SplitStarts(x) \in SUBSET (DOMAIN x) /\ WholeStarts(x) \in SUBSET (DOMAIN x)
         /\ SplitParts(x) \in Seq(Seq(Int)) /\ WholeParts(x) \in Seq(Seq(Int))
<1>1. SplitStarts(x) \in SUBSET (DOMAIN x)
  BY DEF SplitStarts
<1>2. WholeStarts(x) \in SUBSET (DOMAIN x)
  BY DEF WholeStarts
<1>3. Parts(x, SplitStarts(x)) \in Seq(Seq(Int)) /\ Parts(x, WholeStarts(x)) \in Seq(Seq(Int))
  BY <1>1, <1>2, PartsAreRuns
<1> QED
  BY <1>1, <1>2, <1>3 DEF SplitParts, WholeParts

\* The comparators of the database and of the transaction engine put all versions in
\* order, of any length and over any characters (db_compare_version,
\* compare_version_local): exchanging two of them changes the sign, and there is no
\* circle of newer ones.
THEOREM AllVersionsAreOrdered ==
  ASSUME NEW x \in Seq(Int), NEW y \in Seq(Int), NEW z \in Seq(Int)
  PROVE  TotalPreorder(CompareSplit, x, y, z) /\ TotalPreorder(CompareWhole, x, y, z)
<1>1. TotalPreorder(CompareSplit, x, y, z)
  <2> DEFINE a == SplitParts(x)
             b == SplitParts(y)
             c == SplitParts(z)
  <2>1. a \in Seq(Seq(Int)) /\ b \in Seq(Seq(Int)) /\ c \in Seq(Seq(Int))
    BY StartsOfVersions
  <2> HIDE DEF a, b, c
  <2>2. TotalPreorder(CompareParts, a, b, c)
    BY <2>1, PartListsAreOrdered
  <2> QED
    BY <2>2 DEF TotalPreorder, CompareSplit, a, b, c
<1>2. TotalPreorder(CompareWhole, x, y, z)
  <2> DEFINE a == WholeParts(x)
             b == WholeParts(y)
             c == WholeParts(z)
  <2>1. a \in Seq(Seq(Int)) /\ b \in Seq(Seq(Int)) /\ c \in Seq(Seq(Int))
    BY StartsOfVersions
  <2> HIDE DEF a, b, c
  <2>2. TotalPreorder(CompareParts, a, b, c)
    BY <2>1, PartListsAreOrdered
  <2> QED
    BY <2>2 DEF TotalPreorder, CompareWhole, a, b, c
<1> QED
  BY <1>1, <1>2

\* Where digits meet letters in a version, a part of it is mixed: the run around that
\* place goes back to a start and forward to an end.
LEMMA MeetingIsMixed ==
  ASSUME NEW x \in Seq(Int), NEW i \in DOMAIN x, i # 1, x[i] # Separator,
         x[i - 1] # Separator, IsDigit(x[i - 1]) # IsDigit(x[i])
  PROVE  Mixed(x)
<1>1. DOMAIN x = 1..Len(x) /\ Len(x) \in Nat
  OBVIOUS
<1>2. i \in 2..Len(x) /\ i - 1 \in 1..Len(x)
  BY <1>1
<1> DEFINE S == {j \in 1..(i - 1) : \A k \in j..(i - 1) : x[k] # Separator}
           s == Least(S)
<1>3. s \in S /\ \A j \in S : s <= j
  <2>1. i - 1 \in S /\ S \in SUBSET Nat
    BY <1>2
  <2> HIDE DEF S
  <2> QED
    BY <2>1, LeastIsLeast
<1>4. s \in 1..(i - 1) /\ \A k \in s..(i - 1) : x[k] # Separator
  <2> HIDE DEF s
  <2> QED
    BY <1>3
<1> HIDE DEF s
<1>5. s \in WholeStarts(x)
  <2>1. s \in DOMAIN x /\ x[s] # Separator
    BY <1>1, <1>2, <1>4
  <2>2. ASSUME s # 1, x[s - 1] # Separator PROVE FALSE
    <3>1. s \in Int /\ i \in Int /\ s >= 2 /\ s <= i - 1
      BY <1>2, <1>4, <2>2
    <3>2. s - 1 \in 1..(i - 1) /\ \A k \in (s - 1)..(i - 1) : k = s - 1 \/ k \in s..(i - 1)
      BY ONLY <3>1
    <3>3. s - 1 \in S
      BY <1>4, <2>2, <3>2
    <3> HIDE DEF S
    <3>4. s <= s - 1
      BY <1>3, <3>3
    <3> QED
      BY <3>1, <3>4
  <2> QED
    BY <2>1, <2>2 DEF WholeStarts
<1>6. WholeStarts(x) \in SUBSET (DOMAIN x)
  BY StartsOfVersions
<1> DEFINE p == PartAt(x, WholeStarts(x), s)
<1>7. PICK e \in (s + 1)..(Len(x) + 1) : EndsAt(x, WholeStarts(x), s, e)
  BY <1>5, <1>6, PartIsRun
<1>8. p \in Seq(Int)
  BY <1>5, <1>6, PartIsRun
<1>9. /\ Len(p) = e - s
      /\ \A j \in 1..(e - s) : p[j] = x[s + j - 1]
      /\ e = Len(x) + 1 \/ x[e] = Separator \/ e \in WholeStarts(x)
  BY <1>7 DEF EndsAt
<1> HIDE DEF p
<1>10. i < e
  <2> SUFFICES ASSUME e <= i PROVE FALSE
    BY <1>1, <1>2, <1>4, <1>7
  <2>1. e \in (s + 1)..i /\ e # Len(x) + 1
    BY <1>1, <1>2, <1>4, <1>7
  <2>2. x[e] # Separator /\ x[e - 1] # Separator /\ e # 1
    <3>1. e = i \/ e \in s..(i - 1)
      BY <1>2, <1>4, <2>1
    <3>2. e - 1 \in s..(i - 1)
      BY <1>2, <1>4, <2>1
    <3>3. e # 1
      BY <1>4, <2>1
    <3> QED
      BY <1>4, <3>1, <3>2, <3>3
  <2>3. e \notin WholeStarts(x)
    BY <2>2 DEF WholeStarts
  <2> QED
    BY <1>9, <2>1, <2>2, <2>3
<1>11. /\ i - s \in DOMAIN p /\ p[i - s] = x[i - 1]
       /\ i - s + 1 \in DOMAIN p /\ p[i - s + 1] = x[i]
  <2>1. i - s \in 1..(e - s) /\ i - s + 1 \in 1..(e - s)
        /\ s + (i - s) - 1 = i - 1 /\ s + (i - s + 1) - 1 = i
    <3>1. s \in Int /\ i \in Int /\ e \in Int /\ s <= i - 1 /\ i < e
      BY <1>1, <1>2, <1>4, <1>7, <1>10
    <3>2. i - s \in 1..(e - s) /\ i - s + 1 \in 1..(e - s)
      BY ONLY <3>1
    <3>3. s + (i - s) - 1 = i - 1 /\ s + (i - s + 1) - 1 = i
      BY ONLY <3>1
    <3> QED
      BY <3>2, <3>3
  <2>2. DOMAIN p = 1..(e - s)
    BY <1>8, <1>9
  <2>3. p[i - s] = x[s + (i - s) - 1] /\ p[i - s + 1] = x[s + (i - s + 1) - 1]
    BY <1>9, <2>1
  <2> QED
    BY <2>1, <2>2, <2>3
<1>12. \E j, k \in DOMAIN p : IsDigit(p[j]) /\ ~IsDigit(p[k])
  <2>1. IsDigit(x[i - 1]) \in BOOLEAN /\ IsDigit(x[i]) \in BOOLEAN
    BY DEF IsDigit
  <2>2. CASE IsDigit(x[i - 1]) /\ ~IsDigit(x[i])
    BY <1>11, <2>2
  <2>3. CASE ~IsDigit(x[i - 1]) /\ IsDigit(x[i])
    BY <1>11, <2>3
  <2> QED
    BY <2>1, <2>2, <2>3
<1>13. PICK n \in DOMAIN WholeParts(x) : WholeParts(x)[n] = p
  BY <1>5, <1>6, PartsAreRuns DEF WholeParts, p
<1> QED
  BY <1>12, <1>13 DEF Mixed

\* Where no part mixes digits and letters, the database and the transaction engine
\* cut a version alike.
LEMMA UnmixedAreCutAlike ==
  ASSUME NEW x \in Seq(Int), ~Mixed(x)
  PROVE  SplitParts(x) = WholeParts(x)
<1>1. WholeStarts(x) \subseteq SplitStarts(x)
  BY DEF WholeStarts, SplitStarts
<1>2. ASSUME NEW i \in SplitStarts(x), i \notin WholeStarts(x) PROVE FALSE
  <2>1. i \in DOMAIN x /\ x[i] # Separator /\ i # 1 /\ x[i - 1] # Separator
    BY <1>2 DEF WholeStarts, SplitStarts
  <2>2. IsDigit(x[i - 1]) # IsDigit(x[i])
    BY <1>2, <2>1 DEF SplitStarts
  <2> QED
    BY <2>1, <2>2, MeetingIsMixed
<1>3. SplitStarts(x) = WholeStarts(x)
  BY <1>1, <1>2
<1> QED
  BY <1>3 DEF SplitParts, WholeParts

\* What the walk grows are sequences of characters.
WalkTypeOK == u \in Seq(Int) /\ v \in Seq(Int) /\ w \in Seq(Int)

\* What the walk grows are versions.
LEMMA WalkTyped == WalkSpec => []WalkTypeOK
<1>1. WalkInit => WalkTypeOK
  BY DEF WalkInit, WalkTypeOK
<1>2. WalkTypeOK /\ [Grow]_triple => WalkTypeOK'
  <2> SUFFICES ASSUME WalkTypeOK, [Grow]_triple PROVE WalkTypeOK'
    OBVIOUS
  <2>1. CASE UNCHANGED triple
    BY <2>1 DEF WalkTypeOK, triple
  <2>2. CASE Grow
    <3>1. \A c \in Char : c \in Int
      BY CharAssumption
    <3>2. PICK c \in Char : \/ u' = Append(u, c) /\ UNCHANGED <<v, w>>
                            \/ v' = Append(v, c) /\ UNCHANGED <<u, w>>
                            \/ w' = Append(w, c) /\ UNCHANGED <<u, v>>
      BY <2>2 DEF Grow
    <3>3. c \in Int /\ u \in Seq(Int) /\ v \in Seq(Int) /\ w \in Seq(Int)
      BY <3>1 DEF WalkTypeOK
    <3>4. Append(u, c) \in Seq(Int) /\ Append(v, c) \in Seq(Int) /\ Append(w, c) \in Seq(Int)
      BY <3>3
    <3> QED
      BY <3>2, <3>3, <3>4 DEF WalkTypeOK
  <2> QED
    BY <2>1, <2>2
<1> QED
  BY <1>1, <1>2, PTL DEF WalkSpec

-----------------------------------------------------------------------------
\* Numbers by their digits

\* f holds the values of the beginnings of a sequence of digits.
Sums(f, d) ==
  /\ f \in [0..Len(d) -> Int]
  /\ f[0] = 0
  /\ \A i \in 1..Len(d) : f[i] = 10 * f[i - 1] + d[i]

\* There are such values, one after the other.
LEMMA SumsExist ==
  ASSUME NEW d \in Seq(Int)
  PROVE  \E f : Sums(f, d)
<1> DEFINE Good(f, n) == /\ f \in [0..n -> Int] /\ f[0] = 0
                         /\ \A i \in 1..n : f[i] = 10 * f[i - 1] + d[i]
           S == {n \in Nat : n <= Len(d) => \E f : Good(f, n)}
<1>1. Len(d) \in Nat /\ \A i \in 1..Len(d) : d[i] \in Int
  OBVIOUS
<1>2. 0 \in S
  <2>1. [i \in 0..0 |-> 0] \in [0..0 -> Int] /\ [i \in 0..0 |-> 0][0] = 0
    OBVIOUS
  <2>2. Good([i \in 0..0 |-> 0], 0)
    BY <2>1
  <2> QED
    BY <2>2
<1>3. ASSUME NEW n \in Nat, n \in S PROVE n + 1 \in S
  <2> HIDE DEF Good
  <2> SUFFICES ASSUME n + 1 <= Len(d) PROVE \E f : Good(f, n + 1)
    OBVIOUS
  <2>1. \E f : Good(f, n)
    BY <1>1, <1>3
  <2> USE DEF Good
  <2>2. PICK f : Good(f, n)
    BY <2>1
  <2> DEFINE g == [i \in 0..(n + 1) |-> IF i = n + 1 THEN 10 * f[n] + d[n + 1] ELSE f[i]]
  <2>3. d[n + 1] \in Int
    BY <1>1
  <2>4. \A i \in 0..n : f[i] \in Int
    BY <2>2
  <2>5. g \in [0..(n + 1) -> Int]
    <3>1. ASSUME NEW i \in 0..(n + 1)
          PROVE  (IF i = n + 1 THEN 10 * f[n] + d[n + 1] ELSE f[i]) \in Int
      <4>1. f[n] \in Int
        BY <2>4
      <4>2. i # n + 1 => i \in 0..n
        OBVIOUS
      <4> QED
        BY <2>3, <2>4, <4>1, <4>2
    <3> QED
      BY <3>1
  <2>6. g[0] = 0
    BY <2>2
  <2>7. ASSUME NEW i \in 1..(n + 1) PROVE g[i] = 10 * g[i - 1] + d[i]
    <3>1. i \in 0..(n + 1) /\ i - 1 \in 0..(n + 1) /\ i - 1 # n + 1
      OBVIOUS
    <3>2. g[i - 1] = f[i - 1] /\ g[i] = IF i = n + 1 THEN 10 * f[n] + d[n + 1] ELSE f[i]
      BY <3>1
    <3>3. CASE i = n + 1
      BY <3>2, <3>3
    <3>4. CASE i # n + 1
      <4>1. i \in 1..n
        BY <3>4
      <4> QED
        BY <2>2, <3>2, <3>4, <4>1
    <3> QED
      BY <3>3, <3>4
  <2> QED
    BY <2>5, <2>6, <2>7
<1>4. Len(d) \in S
  <2> HIDE DEF S
  <2> QED
    BY <1>1, <1>2, <1>3, SetInduction
<1> QED
  BY <1>1, <1>4 DEF Sums

\* The value of a sequence of digits is the last of them.
LEMMA ValueIsSum ==
  ASSUME NEW d \in Seq(Int)
  PROVE  \E f : Sums(f, d) /\ Value(d) = f[Len(d)]
<1> DEFINE n == Len(d)
           Next10(f) == [i \in 0..n |-> IF i = 0 THEN 0 ELSE 10 * f[i - 1] + d[i]]
           g == CHOOSE f : f = Next10(f)
<1>1. n \in Nat /\ \A i \in 1..n : d[i] \in Int
  OBVIOUS
<1>2. PICK f : Sums(f, d)
  BY SumsExist
<1>3. f = Next10(f)
  <2>1. f \in [0..n -> Int]
    BY <1>2 DEF Sums
  <2>2. ASSUME NEW i \in 0..n PROVE f[i] = IF i = 0 THEN 0 ELSE 10 * f[i - 1] + d[i]
    <3>1. CASE i = 0
      BY <1>2, <3>1 DEF Sums
    <3>2. CASE i # 0
      <4>1. i \in 1..n
        BY <1>1, <3>2
      <4> QED
        BY <1>2, <3>2, <4>1 DEF Sums
    <3> QED
      BY <3>1, <3>2
  <2> QED
    BY <2>1, <2>2
<1>4. g = Next10(g)
  BY <1>3
<1>5. Value(d) = g[n]
  BY DEF Value
<1> HIDE DEF g
<1>6. g[0] = 0 /\ \A i \in 1..n : g[i] = 10 * g[i - 1] + d[i]
  <2>1. \A i \in 0..n : g[i] = IF i = 0 THEN 0 ELSE 10 * g[i - 1] + d[i]
    BY <1>4
  <2>2. 0 \in 0..n /\ \A i \in 1..n : i \in 0..n /\ i # 0
    BY <1>1
  <2> QED
    BY <2>1, <2>2
<1> DEFINE S == {i \in Nat : i <= n => g[i] \in Int}
<1>7. 0 \in S
  BY <1>6
<1>8. ASSUME NEW i \in Nat, i \in S PROVE i + 1 \in S
  <2> SUFFICES ASSUME i + 1 <= n PROVE g[i + 1] \in Int
    OBVIOUS
  <2>1. i + 1 \in 1..n /\ g[i] \in Int /\ (i + 1) - 1 = i
    BY <1>1, <1>8
  <2>2. g[i + 1] = 10 * g[(i + 1) - 1] + d[i + 1]
    BY <1>6, <2>1
  <2> QED
    BY <1>1, <2>1, <2>2
<1>9. \A i \in Nat : i \in S
  <2> HIDE DEF S
  <2> QED
    BY <1>7, <1>8, SetInduction
<1>10. \A i \in 0..n : g[i] \in Int
  BY <1>1, <1>9
<1>11. g \in [0..n -> Int]
  BY <1>4, <1>10
<1>12. Sums(g, d)
  BY <1>6, <1>11 DEF Sums
<1> QED
  BY <1>5, <1>12

\* A digit by its value.
Digit == 0..9

\* Whatever digits follow two numbers, the smaller stays the smaller, and a positive one
\* stays positive.
LEMMA OneMoreDigit ==
  ASSUME NEW x \in Int, NEW y \in Int, NEW c \in Digit, NEW d \in Digit
  PROVE  /\ x < y => 10 * x + c < 10 * y + d
         /\ x >= 1 => 10 * x + c >= 1
<1>1. c \in Int /\ 0 <= c /\ c <= 9 /\ d \in Int /\ 0 <= d /\ d <= 9
  BY DEF Digit
<1> QED
  BY <1>1

\* Once behind, always behind: another digit on either side does not make up for a
\* difference of one in what is before it.
LEMMA StaysBehind ==
  ASSUME NEW a \in Seq(Digit), NEW b \in Seq(Digit), NEW f, NEW g, Sums(f, a), Sums(g, b),
         NEW m \in 0..Len(a), NEW n \in 0..Len(b), Len(a) - m = Len(b) - n, f[m] < g[n]
  PROVE  f[Len(a)] < g[Len(b)]
<1> DEFINE S == {k \in Nat : m + k <= Len(a) => f[m + k] < g[n + k]}
<1>1. Len(a) \in Nat /\ Len(b) \in Nat /\ m \in Nat /\ n \in Nat
      /\ (\A i \in 1..Len(a) : a[i] \in 0..9) /\ (\A i \in 1..Len(b) : b[i] \in 0..9)
  <2>1. Len(a) \in Nat /\ Len(b) \in Nat
    OBVIOUS
  <2>2. \A i \in 1..Len(a) : a[i] \in 0..9
    BY DEF Digit
  <2>3. \A i \in 1..Len(b) : b[i] \in 0..9
    BY DEF Digit
  <2>4. m \in Nat /\ n \in Nat
    OBVIOUS
  <2> QED
    BY <2>1, <2>2, <2>3, <2>4
<1>2. 0 \in S
  BY <1>1
<1>3. ASSUME NEW k \in Nat, k \in S PROVE k + 1 \in S
  <2> SUFFICES ASSUME m + (k + 1) <= Len(a) PROVE f[m + (k + 1)] < g[n + (k + 1)]
    OBVIOUS
  <2> DEFINE i == m + (k + 1)
             j == n + (k + 1)
  <2>1. i \in 1..Len(a) /\ j \in 1..Len(b) /\ i - 1 = m + k /\ j - 1 = n + k
        /\ i - 1 \in 0..Len(a) /\ j - 1 \in 0..Len(b) /\ m + k <= Len(a)
    BY <1>1
  <2>2. f[i - 1] < g[j - 1]
    BY <1>3, <2>1
  <2> HIDE DEF i, j
  <2>3. f[i] = 10 * f[i - 1] + a[i] /\ g[j] = 10 * g[j - 1] + b[j]
    BY <2>1 DEF Sums
  <2>4. f[i - 1] \in Int /\ g[j - 1] \in Int /\ a[i] \in 0..9 /\ b[j] \in 0..9
    BY <1>1, <2>1 DEF Sums
  <2>5. 10 * f[i - 1] + a[i] < 10 * g[j - 1] + b[j]
    BY <2>2, <2>4, OneMoreDigit DEF Digit
  <2>6. f[i] < g[j]
    BY <2>3, <2>5
  <2> QED
    BY <2>6 DEF i, j
<1>4. \A k \in Nat : k \in S
  <2> HIDE DEF S
  <2> QED
    BY <1>2, <1>3, SetInduction
<1> DEFINE r == Len(a) - m
<1>5. r \in Nat /\ m + r = Len(a) /\ n + r = Len(b)
  BY <1>1
<1> HIDE DEF r
<1>6. r \in S /\ m + r <= Len(a)
  BY <1>1, <1>4, <1>5
<1>7. f[m + r] < g[n + r]
  BY <1>6
<1> QED
  BY <1>5, <1>7

\* As many equal digits make equal values.
LEMMA SameDigits ==
  ASSUME NEW a \in Seq(Digit), NEW b \in Seq(Digit), NEW f, NEW g, Sums(f, a), Sums(g, b),
         NEW n \in Nat, n <= Len(a), n <= Len(b), \A i \in 1..n : a[i] = b[i]
  PROVE  f[n] = g[n]
<1> DEFINE S == {k \in Nat : k <= n => f[k] = g[k]}
<1>1. Len(a) \in Nat /\ Len(b) \in Nat
  OBVIOUS
<1>2. 0 \in S
  BY DEF Sums
<1>3. ASSUME NEW k \in Nat, k \in S PROVE k + 1 \in S
  <2> SUFFICES ASSUME k + 1 <= n PROVE f[k + 1] = g[k + 1]
    OBVIOUS
  <2>1. k + 1 \in 1..n /\ k + 1 \in 1..Len(a) /\ k + 1 \in 1..Len(b) /\ (k + 1) - 1 = k
    BY <1>1
  <2>2. f[k] = g[k] /\ a[k + 1] = b[k + 1]
    BY <1>3, <2>1
  <2>3. f[k + 1] = 10 * f[(k + 1) - 1] + a[k + 1] /\ g[k + 1] = 10 * g[(k + 1) - 1] + b[k + 1]
    BY <2>1 DEF Sums
  <2> QED
    BY <2>1, <2>2, <2>3
<1>4. n \in S
  <2> HIDE DEF S
  <2> QED
    BY <1>2, <1>3, SetInduction
<1> QED
  BY <1>4

\* A number that does not begin with a zero is at least one.
LEMMA NoZeroInFront ==
  ASSUME NEW a \in Seq(Digit), NEW f, Sums(f, a), NEW n \in 1..Len(a), a[1] # 0
  PROVE  f[n] >= 1
<1> DEFINE S == {k \in Nat : k + 1 <= Len(a) => f[k + 1] >= 1}
<1>1. Len(a) \in Nat /\ (\A i \in 1..Len(a) : a[i] \in 0..9)
  BY DEF Digit
<1>2. 0 \in S
  <2> SUFFICES ASSUME 1 <= Len(a) PROVE f[1] >= 1
    OBVIOUS
  <2>1. 1 \in 1..Len(a) /\ 1 - 1 = 0
    BY <1>1
  <2>2. f[1] = 10 * f[1 - 1] + a[1] /\ f[0] = 0
    BY <2>1 DEF Sums
  <2>3. a[1] \in 1..9
    BY <1>1, <2>1
  <2> QED
    BY <2>1, <2>2, <2>3
<1>3. ASSUME NEW k \in Nat, k \in S PROVE k + 1 \in S
  <2> SUFFICES ASSUME (k + 1) + 1 <= Len(a) PROVE f[(k + 1) + 1] >= 1
    OBVIOUS
  <2> DEFINE i == (k + 1) + 1
  <2>1. i \in 1..Len(a) /\ i - 1 = k + 1 /\ i - 1 \in 0..Len(a) /\ k + 1 <= Len(a)
    BY <1>1
  <2>2. f[i - 1] >= 1
    BY <1>3, <2>1
  <2> HIDE DEF i
  <2>3. f[i] = 10 * f[i - 1] + a[i] /\ f[i - 1] \in Int /\ a[i] \in 0..9
    BY <1>1, <2>1 DEF Sums
  <2>4. 10 * f[i - 1] + a[i] >= 1
    BY <2>2, <2>3, OneMoreDigit DEF Digit
  <2>5. f[i] >= 1
    BY <2>3, <2>4
  <2> QED
    BY <2>5 DEF i
<1>4. n - 1 \in S
  <2>1. n - 1 \in Nat
    BY <1>1
  <2> HIDE DEF S
  <2> QED
    BY <1>2, <1>3, <2>1, SetInduction
<1>5. n \in Int /\ (n - 1) + 1 = n /\ n <= Len(a)
  BY <1>1
<1> QED
  BY <1>4, <1>5

\* Zeros in front do not count.
LEMMA ZerosDoNotCount ==
  ASSUME NEW p \in Seq(Digit)
  PROVE  /\ StripZeros(p) \in Seq(Digit) /\ Value(StripZeros(p)) = Value(p)
         /\ Len(StripZeros(p)) > 0 => StripZeros(p)[1] # 0
<1> DEFINE a == StripZeros(p)
<1>1. Len(p) \in Nat /\ (\A i \in 1..Len(p) : p[i] \in 0..9) /\ p \in Seq(Int)
  BY DEF Digit
<1>2. a \in Seq(Int)
  BY <1>1, Stripped
<1>3. PICK z \in 0..Len(p) : /\ \A i \in 1..z : p[i] = 0
                             /\ Len(a) = Len(p) - z
                             /\ \A i \in 1..(Len(p) - z) : a[i] = p[z + i]
                             /\ Len(a) > 0 => a[1] # 0
  BY <1>1, Stripped
<1> HIDE DEF a
<1>4. \A i \in 1..Len(a) : a[i] \in 0..9
  <2> SUFFICES ASSUME NEW i \in 1..Len(a) PROVE a[i] \in 0..9
    OBVIOUS
  <2>1. i \in 1..(Len(p) - z) /\ z + i \in 1..Len(p)
    BY <1>1, <1>3
  <2> QED
    BY <1>1, <1>3, <2>1
<1>5. a \in Seq(Digit)
  <2>1. Len(a) \in Nat /\ DOMAIN a = 1..Len(a) /\ a \in [1..Len(a) -> Int]
    BY <1>2
  <2>2. a \in [1..Len(a) -> Digit]
    BY <1>4, <2>1 DEF Digit
  <2> QED
    BY <2>1, <2>2
<1>6. PICK f : Sums(f, p) /\ Value(p) = f[Len(p)]
  BY <1>1, ValueIsSum
<1>7. PICK g : Sums(g, a) /\ Value(a) = g[Len(a)]
  BY <1>2, ValueIsSum
<1> DEFINE Z == {k \in Nat : k <= z => f[k] = 0}
<1>8. z \in Z
  <2>1. 0 \in Z
    BY <1>6 DEF Sums
  <2>2. ASSUME NEW k \in Nat, k \in Z PROVE k + 1 \in Z
    <3> SUFFICES ASSUME k + 1 <= z PROVE f[k + 1] = 0
      OBVIOUS
    <3>1. k + 1 \in 1..z /\ k + 1 \in 1..Len(p) /\ (k + 1) - 1 = k /\ f[k] = 0
      BY <1>1, <1>3, <2>2
    <3>2. f[k + 1] = 10 * f[(k + 1) - 1] + p[k + 1] /\ p[k + 1] = 0
      BY <1>3, <1>6, <3>1 DEF Sums
    <3> QED
      BY <3>1, <3>2
  <2> HIDE DEF Z
  <2> QED
    BY <1>3, <2>1, <2>2, SetInduction
<1> DEFINE S == {k \in Nat : k <= Len(a) => f[z + k] = g[k]}
<1>9. Len(a) \in S
  <2>1. 0 \in S
    BY <1>1, <1>3, <1>7, <1>8 DEF Sums
  <2>2. ASSUME NEW k \in Nat, k \in S PROVE k + 1 \in S
    <3> SUFFICES ASSUME k + 1 <= Len(a) PROVE f[z + (k + 1)] = g[k + 1]
      OBVIOUS
    <3> DEFINE i == z + (k + 1)
    <3>1. i \in 1..Len(p) /\ i - 1 = z + k /\ k + 1 \in 1..Len(a) /\ (k + 1) - 1 = k
          /\ k + 1 \in 1..(Len(p) - z) /\ f[z + k] = g[k]
      BY <1>1, <1>3, <2>2
    <3>2. p[i] = a[k + 1]
      BY <1>3, <3>1
    <3> HIDE DEF i
    <3>3. f[i] = 10 * f[i - 1] + p[i] /\ g[k + 1] = 10 * g[(k + 1) - 1] + a[k + 1]
      BY <1>6, <1>7, <3>1 DEF Sums
    <3>4. f[i] = g[k + 1]
      BY <3>1, <3>2, <3>3
    <3> QED
      BY <3>4 DEF i
  <2>3. Len(a) \in Nat
    BY <1>2
  <2> HIDE DEF S
  <2> QED
    BY <2>1, <2>2, <2>3, SetInduction
<1>10. f[z + Len(a)] = g[Len(a)] /\ z + Len(a) = Len(p)
  BY <1>1, <1>3, <1>9
<1>11. Value(a) = Value(p)
  BY <1>6, <1>7, <1>10
<1> QED
  BY <1>3, <1>5, <1>11 DEF a

\* Of two numbers without zeros in front, the one with fewer digits is the smaller.
LEMMA FewerDigits ==
  ASSUME NEW a \in Seq(Digit), NEW b \in Seq(Digit), Len(a) < Len(b), b[1] # 0
  PROVE  Value(a) < Value(b)
<1>1. Len(a) \in Nat /\ Len(b) \in Nat /\ a \in Seq(Int) /\ b \in Seq(Int)
  <2>1. Len(a) \in Nat /\ Len(b) \in Nat
    OBVIOUS
  <2>2. a \in Seq(Int)
    BY DEF Digit
  <2>3. b \in Seq(Int)
    BY DEF Digit
  <2> QED
    BY <2>1, <2>2, <2>3
<1>2. PICK f : Sums(f, a) /\ Value(a) = f[Len(a)]
  BY <1>1, ValueIsSum
<1>3. PICK g : Sums(g, b) /\ Value(b) = g[Len(b)]
  BY <1>1, ValueIsSum
<1> DEFINE n == Len(b) - Len(a)
<1>4. n \in 1..Len(b) /\ n \in 0..Len(b) /\ 0 \in 0..Len(a) /\ Len(a) - 0 = Len(b) - n
  BY <1>1
<1> HIDE DEF n
<1>5. g[n] >= 1 /\ g[n] \in Int
  BY <1>3, <1>4, NoZeroInFront DEF Sums
<1>6. f[0] < g[n]
  BY <1>2, <1>5 DEF Sums
<1>7. f[Len(a)] < g[Len(b)]
  BY <1>2, <1>3, <1>4, <1>6, StaysBehind
<1> QED
  BY <1>2, <1>3, <1>7

\* Of two with as many digits, the first difference decides.
LEMMA FirstDigitDecides ==
  ASSUME NEW a \in Seq(Digit), NEW b \in Seq(Digit), Len(a) = Len(b)
  PROVE  /\ Lexical(a, b) = 0 => Value(a) = Value(b)
         /\ Lexical(a, b) < 0 => Value(a) < Value(b)
<1>1. Len(a) \in Nat /\ Len(b) \in Nat /\ a \in Seq(Int) /\ b \in Seq(Int)
      /\ (\A i \in 1..Len(a) : a[i] \in Int) /\ (\A i \in 1..Len(b) : b[i] \in Int)
  BY DEF Digit
<1>2. PICK f : Sums(f, a) /\ Value(a) = f[Len(a)]
  BY <1>1, ValueIsSum
<1>3. PICK g : Sums(g, b) /\ Value(b) = g[Len(b)]
  BY <1>1, ValueIsSum
<1>4. Lexical(a, b) = InOrder(ByCode, a, b)
  BY <1>1, LexicalInOrder
<1>5. \A i \in 1..Len(a) :
        ByCode[<<a[i], b[i]>>] = IF a[i] = b[i] THEN 0 ELSE IF a[i] < b[i] THEN -1 ELSE 1
  BY <1>1 DEF ByCode
<1>6. \/ /\ Differ(ByCode, a, b) = {}
         /\ \A i \in 1..Len(a) : i <= Len(b) => ByCode[<<a[i], b[i]>>] = 0
         /\ InOrder(ByCode, a, b) = IF Len(a) = Len(b) THEN 0 ELSE IF Len(a) < Len(b) THEN -1 ELSE 1
      \/ \E k \in 1..Len(a) : /\ k <= Len(b) /\ ByCode[<<a[k], b[k]>>] # 0
                              /\ Agree(ByCode, a, b, k)
                              /\ InOrder(ByCode, a, b) = ByCode[<<a[k], b[k]>>]
  <2>1. a \in Seq(Int) /\ b \in Seq(Int)
    BY <1>1
  <2> QED
    BY <2>1, CodesAreOrdered, FirstDiffer
<1>7. CASE /\ \A i \in 1..Len(a) : i <= Len(b) => ByCode[<<a[i], b[i]>>] = 0
           /\ InOrder(ByCode, a, b) = IF Len(a) = Len(b) THEN 0 ELSE IF Len(a) < Len(b) THEN -1 ELSE 1
  <2>1. \A i \in 1..Len(a) : a[i] = b[i]
    <3> SUFFICES ASSUME NEW i \in 1..Len(a) PROVE a[i] = b[i]
      OBVIOUS
    <3>1. i <= Len(b)
      BY <1>1
    <3>2. ByCode[<<a[i], b[i]>>] = 0
      BY <1>7, <3>1
    <3> QED
      BY <1>5, <3>2
  <2>2. f[Len(a)] = g[Len(a)]
    <3> DEFINE n == Len(a)
    <3>1. n \in Nat /\ n <= Len(a) /\ n <= Len(b) /\ \A i \in 1..n : a[i] = b[i]
      BY <1>1, <2>1
    <3> HIDE DEF n
    <3>2. f[n] = g[n]
      BY <1>2, <1>3, <3>1, SameDigits
    <3> QED
      BY <3>2 DEF n
  <2>3. InOrder(ByCode, a, b) = 0
    BY <1>7
  <2> QED
    BY <1>2, <1>3, <1>4, <2>2, <2>3
<1>8. CASE \E k \in 1..Len(a) : /\ k <= Len(b) /\ ByCode[<<a[k], b[k]>>] # 0
                                /\ Agree(ByCode, a, b, k)
                                /\ InOrder(ByCode, a, b) = ByCode[<<a[k], b[k]>>]
  <2>1. PICK k \in 1..Len(a) : /\ k <= Len(b) /\ ByCode[<<a[k], b[k]>>] # 0
                               /\ Agree(ByCode, a, b, k)
                               /\ InOrder(ByCode, a, b) = ByCode[<<a[k], b[k]>>]
    BY <1>8
  <2>2. Lexical(a, b) # 0
    BY <1>4, <2>1
  <2>3. ASSUME Lexical(a, b) < 0 PROVE Value(a) < Value(b)
    <3>1. a[k] < b[k]
      <4>1. ByCode[<<a[k], b[k]>>] < 0
        BY <1>4, <2>1, <2>3
      <4>2. ByCode[<<a[k], b[k]>>] = IF a[k] = b[k] THEN 0 ELSE IF a[k] < b[k] THEN -1 ELSE 1
        BY <1>5
      <4> QED
        BY <4>1, <4>2
    <3>2. k - 1 \in Nat /\ k - 1 <= Len(a) /\ k - 1 <= Len(b) /\ k \in 1..Len(b)
          /\ k \in 0..Len(a) /\ k \in 0..Len(b)
      BY <1>1, <2>1
    <3>3. \A i \in 1..(k - 1) : a[i] = b[i]
      <4> SUFFICES ASSUME NEW i \in 1..(k - 1) PROVE a[i] = b[i]
        OBVIOUS
      <4>1. i \in 1..Len(a)
        BY <1>1, <2>1, <3>2
      <4>2. ByCode[<<a[i], b[i]>>] = 0
        BY <2>1 DEF Agree
      <4> QED
        BY <1>5, <4>1, <4>2
    <3>4. f[k - 1] = g[k - 1]
      <4> DEFINE n == k - 1
      <4>1. n \in Nat /\ n <= Len(a) /\ n <= Len(b) /\ \A i \in 1..n : a[i] = b[i]
        BY <3>2, <3>3
      <4> HIDE DEF n
      <4>2. f[n] = g[n]
        BY <1>2, <1>3, <4>1, SameDigits
      <4> QED
        BY <4>2 DEF n
    <3>5. f[k] = 10 * f[k - 1] + a[k] /\ g[k] = 10 * g[k - 1] + b[k] /\ f[k - 1] \in Int
      <4>1. k - 1 \in 0..Len(a)
        BY <1>1, <3>2
      <4>2. f[k] = 10 * f[k - 1] + a[k] /\ f[k - 1] \in Int
        BY <1>2, <4>1 DEF Sums
      <4>3. g[k] = 10 * g[k - 1] + b[k]
        BY <1>3, <3>2 DEF Sums
      <4> QED
        BY <4>2, <4>3
    <3>6. f[k] < g[k]
      <4>1. a[k] \in Int /\ b[k] \in Int
        BY <1>1, <3>2
      <4> DEFINE h == f[k - 1]
      <4>2. h \in Int /\ f[k] = 10 * h + a[k] /\ g[k] = 10 * h + b[k]
        BY <3>4, <3>5
      <4> HIDE DEF h
      <4> QED
        BY <3>1, <4>1, <4>2
    <3>7. f[Len(a)] < g[Len(b)]
      BY <1>2, <1>3, <3>2, <3>6, StaysBehind
    <3> QED
      BY <1>2, <1>3, <3>7
  <2> QED
    BY <2>2, <2>3
<1> QED
  BY <1>6, <1>7, <1>8

\* Parts that are numbers are compared by value, whatever their leading zeros.
LEMMA NumbersAreComparedByValue ==
  ASSUME NEW p \in Seq(Digit), NEW q \in Seq(Digit)
  PROVE  /\ ComparePart(p, q) = 0 <=> Value(p) = Value(q)
         /\ ComparePart(p, q) < 0 <=> Value(p) < Value(q)
<1>1. ASSUME NEW d \in Seq(Digit) PROVE d \in Seq(Int) /\ Numeric(d) /\ Value(d) \in Int
  <2>1. d \in Seq(Int) /\ Numeric(d)
    BY DEF Digit, Numeric, IsDigit
  <2>2. PICK f : Sums(f, d) /\ Value(d) = f[Len(d)]
    BY <2>1, ValueIsSum
  <2>3. Len(d) \in 0..Len(d)
    OBVIOUS
  <2> QED
    BY <2>1, <2>2, <2>3 DEF Sums
<1>2. ASSUME NEW x \in Seq(Digit), NEW y \in Seq(Digit)
      PROVE  /\ ComparePart(x, y) = 0 => Value(x) = Value(y)
             /\ ComparePart(x, y) < 0 => Value(x) < Value(y)
  <2> DEFINE a == StripZeros(x)
             b == StripZeros(y)
             s == Lexical(a, b)
             m == ComparePart(x, y)
  <2>1. a \in Seq(Digit) /\ b \in Seq(Digit) /\ Value(a) = Value(x) /\ Value(b) = Value(y)
        /\ (Len(b) > 0 => b[1] # 0)
    BY ZerosDoNotCount
  <2>2. m = IF Len(a) # Len(b) THEN IF Len(a) < Len(b) THEN -1 ELSE 1 ELSE s
    BY <1>1, PartCases
  <2> HIDE DEF a, b, m, s
  <2>3. Len(a) \in Nat /\ Len(b) \in Nat
    BY <2>1
  <2>4. CASE Len(a) = Len(b)
    <3>1. m = s
      BY <2>2, <2>4
    <3>2. (s = 0 => Value(a) = Value(b)) /\ (s < 0 => Value(a) < Value(b))
      BY <2>1, <2>4, FirstDigitDecides DEF s
    <3> QED
      BY <2>1, <3>1, <3>2 DEF m
  <2>5. CASE Len(a) < Len(b)
    <3>1. Value(a) < Value(b)
      BY <2>1, <2>3, <2>5, FewerDigits
    <3>2. m # 0
      BY <2>2, <2>3, <2>5
    <3> QED
      BY <2>1, <3>1, <3>2 DEF m
  <2>6. CASE Len(b) < Len(a)
    <3>1. m = 1
      BY <2>2, <2>3, <2>6
    <3>2. m # 0 /\ ~(m < 0)
      BY <3>1
    <3> QED
      BY <3>2 DEF m
  <2> QED
    BY <2>3, <2>4, <2>5, <2>6
<1> DEFINE m == ComparePart(p, q)
           n == ComparePart(q, p)
           s == Value(p)
           t == Value(q)
<1>3. m \in Int /\ n \in Int /\ m = -n
  BY <1>1, NumberCases
<1>4. s \in Int /\ t \in Int
  BY <1>1
<1>5. (m = 0 => s = t) /\ (m < 0 => s < t) /\ (n = 0 => t = s) /\ (n < 0 => t < s)
  BY <1>2
<1> HIDE DEF m, n, s, t
<1>6. (m = 0 <=> s = t) /\ (m < 0 <=> s < t)
  BY <1>3, <1>4, <1>5
<1> QED
  BY <1>6 DEF m, s, t

-----------------------------------------------------------------------------
\* Versions of numbers

\* What it takes to be before: the two agree up to a place where the one has no more
\* items or the smaller one.
LEMMA WhatIsBefore ==
  ASSUME NEW D, NEW cmp, Ordering(D, cmp), NEW x \in Seq(D), NEW y \in Seq(D)
  PROVE  InOrder(cmp, x, y) < 0 <=>
           \E k \in 1..Len(y) : /\ Agree(cmp, x, y, k)
                                /\ k = Len(x) + 1 \/ (k <= Len(x) /\ cmp[<<x[k], y[k]>>] < 0)
<1> DEFINE Before(k) == /\ Agree(cmp, x, y, k)
                        /\ k = Len(x) + 1 \/ (k <= Len(x) /\ cmp[<<x[k], y[k]>>] < 0)
<1>1. Len(x) \in Nat /\ Len(y) \in Nat
      /\ (\A i \in 1..Len(x) : x[i] \in D) /\ (\A i \in 1..Len(y) : y[i] \in D)
  OBVIOUS
<1>2. InOrder(cmp, x, y) \in Int
  BY InOrderSign
<1>3. CASE /\ \A i \in 1..Len(x) : i <= Len(y) => cmp[<<x[i], y[i]>>] = 0
           /\ InOrder(cmp, x, y) = IF Len(x) = Len(y) THEN 0 ELSE IF Len(x) < Len(y) THEN -1 ELSE 1
  <2>1. ASSUME NEW k \in 1..Len(y), Before(k) PROVE Len(x) < Len(y)
    <3>1. ~(k <= Len(x) /\ cmp[<<x[k], y[k]>>] < 0)
      <4> SUFFICES ASSUME k <= Len(x), cmp[<<x[k], y[k]>>] < 0 PROVE FALSE
        OBVIOUS
      <4>1. k \in 1..Len(x) /\ k <= Len(y)
        BY <1>1
      <4>2. cmp[<<x[k], y[k]>>] = 0
        BY <1>3, <4>1
      <4> QED
        BY <4>2
    <3>2. k = Len(x) + 1
      BY <2>1, <3>1
    <3> QED
      BY <1>1, <3>2
  <2>2. ASSUME Len(x) < Len(y) PROVE Len(x) + 1 \in 1..Len(y) /\ Before(Len(x) + 1)
    <3>1. Len(x) + 1 \in 1..Len(y)
      BY <1>1, <2>2
    <3>2. Agree(cmp, x, y, Len(x) + 1)
      <4> SUFFICES ASSUME NEW i \in 1..((Len(x) + 1) - 1)
                   PROVE  i <= Len(x) /\ i <= Len(y) /\ cmp[<<x[i], y[i]>>] = 0
        BY DEF Agree
      <4>1. i \in 1..Len(x) /\ i <= Len(x) /\ i <= Len(y)
        BY <1>1, <2>2
      <4> QED
        BY <1>3, <4>1
    <3> QED
      BY <3>1, <3>2
  <2>3. InOrder(cmp, x, y) < 0 <=> Len(x) < Len(y)
    <3> DEFINE r == InOrder(cmp, x, y)
    <3>1. r = IF Len(x) = Len(y) THEN 0 ELSE IF Len(x) < Len(y) THEN -1 ELSE 1
      BY <1>3
    <3> HIDE DEF r
    <3>2. r < 0 <=> Len(x) < Len(y)
      BY <1>1, <3>1
    <3> QED
      BY <3>2 DEF r
  <2> HIDE DEF Before
  <2>4. InOrder(cmp, x, y) < 0 <=> \E k \in 1..Len(y) : Before(k)
    BY <2>1, <2>2, <2>3
  <2> QED
    BY <2>4 DEF Before
<1>4. CASE \E k \in 1..Len(x) : /\ k <= Len(y) /\ cmp[<<x[k], y[k]>>] # 0
                                /\ Agree(cmp, x, y, k)
                                /\ InOrder(cmp, x, y) = cmp[<<x[k], y[k]>>]
  <2>1. PICK k \in 1..Len(x) : /\ k <= Len(y) /\ cmp[<<x[k], y[k]>>] # 0
                               /\ Agree(cmp, x, y, k)
                               /\ InOrder(cmp, x, y) = cmp[<<x[k], y[k]>>]
    BY <1>4
  <2>2. k \in 1..Len(y) /\ k <= Len(x) /\ k # Len(x) + 1
    BY <1>1, <2>1
  <2>3. InOrder(cmp, x, y) < 0 => Before(k)
    BY <2>1, <2>2
  <2>4. ASSUME NEW m \in 1..Len(y), Before(m) PROVE InOrder(cmp, x, y) < 0
    <3>1. ~(k < m)
      <4> SUFFICES ASSUME k < m PROVE FALSE
        OBVIOUS
      <4>1. k \in 1..(m - 1)
        BY <1>1, <2>2
      <4> QED
        BY <2>1, <2>4, <4>1 DEF Agree
    <3>2. ~(m < k)
      <4> SUFFICES ASSUME m < k PROVE FALSE
        OBVIOUS
      <4>1. m \in 1..(k - 1) /\ m # Len(x) + 1
        BY <1>1, <2>2
      <4>2. cmp[<<x[m], y[m]>>] = 0
        BY <2>1, <4>1 DEF Agree
      <4>3. cmp[<<x[m], y[m]>>] < 0
        BY <2>4, <4>1
      <4> QED
        BY <4>2, <4>3
    <3>3. m = k
      BY <1>1, <2>2, <3>1, <3>2
    <3> QED
      BY <2>1, <2>2, <2>4, <3>3
  <2> HIDE DEF Before
  <2>5. InOrder(cmp, x, y) < 0 <=> \E m \in 1..Len(y) : Before(m)
    BY <2>2, <2>3, <2>4
  <2> QED
    BY <2>5 DEF Before
<1>5. \/ /\ \A i \in 1..Len(x) : i <= Len(y) => cmp[<<x[i], y[i]>>] = 0
         /\ InOrder(cmp, x, y) = IF Len(x) = Len(y) THEN 0 ELSE IF Len(x) < Len(y) THEN -1 ELSE 1
      \/ \E k \in 1..Len(x) : /\ k <= Len(y) /\ cmp[<<x[k], y[k]>>] # 0
                              /\ Agree(cmp, x, y, k)
                              /\ InOrder(cmp, x, y) = cmp[<<x[k], y[k]>>]
  BY FirstDiffer
<1> QED
  BY <1>3, <1>4, <1>5

\* The parts of a version without letters are numbers.
LEMMA PartsOfNumbers ==
  ASSUME NEW x \in Seq(Int), OfNumbers(x)
  PROVE  SplitParts(x) \in Seq(Seq(Digit))
<1> DEFINE starts == SplitStarts(x)
           ps == SplitParts(x)
<1>1. DOMAIN x = 1..Len(x) /\ Len(x) \in Nat
  OBVIOUS
<1>2. starts \in SUBSET (DOMAIN x) /\ (\A i \in starts : x[i] # Separator)
  BY DEF SplitStarts
<1>3. \A i \in DOMAIN x : x[i] # Separator => x[i] \in Digit
  BY DEF OfNumbers, IsDigit, Digit
<1> HIDE DEF starts
<1>4. ASSUME NEW i \in starts PROVE PartAt(x, starts, i) \in Seq(Digit)
  <2> DEFINE p == PartAt(x, starts, i)
  <2>1. p \in Seq(Int)
    BY <1>2, PartIsRun
  <2>2. PICK e \in (i + 1)..(Len(x) + 1) : EndsAt(x, starts, i, e)
    BY <1>2, PartIsRun
  <2>3. /\ Len(p) = e - i
        /\ \A j \in 1..(e - i) : p[j] = x[i + j - 1]
        /\ \A j \in (i + 1)..(e - 1) : x[j] # Separator
    BY <2>2 DEF EndsAt
  <2> HIDE DEF p
  <2>4. i \in 1..Len(x) /\ x[i] # Separator
    BY <1>1, <1>2
  <2>5. ASSUME NEW j \in 1..Len(p) PROVE p[j] \in Digit
    <3> DEFINE k == i + j - 1
    <3>1. j \in 1..(e - i) /\ k \in DOMAIN x /\ (k = i \/ k \in (i + 1)..(e - 1))
      <4>1. i \in Int /\ 1 <= i /\ e \in Int /\ i + 1 <= e /\ e <= Len(x) + 1 /\ Len(x) \in Int
        BY <1>1, <2>4
      <4>2. j \in 1..(e - i)
        BY <2>3
      <4>3. k \in 1..Len(x) /\ (k = i \/ k \in (i + 1)..(e - 1))
        BY <4>1, <4>2
      <4> QED
        BY <1>1, <4>2, <4>3
    <3>2. p[j] = x[k]
      BY <2>3, <3>1
    <3> HIDE DEF k
    <3> QED
      BY <1>3, <2>3, <2>4, <3>1, <3>2
  <2>6. Len(p) \in Nat /\ p \in [1..Len(p) -> Digit]
    <3>1. Len(p) \in Nat /\ p \in [1..Len(p) -> Int]
      BY <2>1
    <3> QED
      BY <2>5, <3>1
  <2>7. p \in Seq(Digit)
    BY <2>6
  <2> QED
    BY <2>7 DEF p
<1>5. ps \in Seq(Seq(Int)) /\ \A n \in DOMAIN ps : \E i \in starts : ps[n] = PartAt(x, starts, i)
  BY <1>2, PartsAreRuns DEF SplitParts, starts
<1> HIDE DEF ps
<1>6. Len(ps) \in Nat /\ ps \in [1..Len(ps) -> Seq(Int)]
  BY <1>5
<1>7. \A n \in 1..Len(ps) : ps[n] \in Seq(Digit)
  BY <1>4, <1>5, <1>6
<1>8. ps \in [1..Len(ps) -> Seq(Digit)]
  BY <1>6, <1>7
<1>9. ps \in Seq(Seq(Digit))
  BY <1>6, <1>8
<1> QED
  BY <1>9 DEF ps

\* Versions of numbers, however many and however long, are ordered as the lists of
\* their numbers are: by value, and of two that agree as far as the shorter goes the
\* longer is the newer (db_compare_version).
THEOREM NumbersAreOrderedByValue ==
  ASSUME NEW x \in Seq(Int), NEW y \in Seq(Int), OfNumbers(x), OfNumbers(y)
  PROVE  CompareSplit(x, y) < 0 <=> OlderByValue(Values(x), Values(y))
<1> DEFINE a == SplitParts(x)
           b == SplitParts(y)
           s == Values(x)
           t == Values(y)
           Before(k) == /\ Agree(PartOrder, a, b, k)
                        /\ k = Len(a) + 1 \/ (k <= Len(a) /\ PartOrder[<<a[k], b[k]>>] < 0)
           Smaller(k) == /\ k <= Len(s) + 1 /\ \A j \in 1..(k - 1) : s[j] = t[j]
                         /\ k <= Len(s) => s[k] < t[k]
<1>1. a \in Seq(Seq(Digit)) /\ b \in Seq(Seq(Digit))
  BY PartsOfNumbers
<1>2. a \in Seq(Seq(Int)) /\ b \in Seq(Seq(Int))
  BY StartsOfVersions
<1>3. s = [i \in DOMAIN a |-> Value(a[i])] /\ t = [i \in DOMAIN b |-> Value(b[i])]
  BY DEF Values
<1>4. CompareSplit(x, y) = InOrder(PartOrder, a, b)
  BY <1>2, ComparePartsInOrder DEF CompareSplit
<1>5. OlderByValue(s, t) <=> \E k \in DOMAIN t : Smaller(k)
  BY DEF OlderByValue
<1> HIDE DEF a, b, s, t
<1>6. InOrder(PartOrder, a, b) < 0 <=> \E k \in 1..Len(b) : Before(k)
  BY <1>2, PartsAreOrdered, WhatIsBefore
<1>7. Len(a) \in Nat /\ Len(b) \in Nat /\ DOMAIN a = 1..Len(a) /\ DOMAIN b = 1..Len(b)
      /\ (\A i \in 1..Len(a) : a[i] \in Seq(Digit)) /\ (\A i \in 1..Len(b) : b[i] \in Seq(Digit))
  BY <1>1
<1>8. DOMAIN t = 1..Len(b) /\ DOMAIN s = 1..Len(a) /\ Len(s) = Len(a)
      /\ (\A i \in 1..Len(a) : s[i] = Value(a[i])) /\ (\A i \in 1..Len(b) : t[i] = Value(b[i]))
  BY <1>3, <1>7
<1>9. ASSUME NEW i \in 1..Len(a), NEW j \in 1..Len(b)
      PROVE  /\ PartOrder[<<a[i], b[j]>>] = 0 <=> s[i] = t[j]
             /\ PartOrder[<<a[i], b[j]>>] < 0 <=> s[i] < t[j]
  <2> DEFINE p == a[i]
             q == b[j]
  <2>1. p \in Seq(Digit) /\ q \in Seq(Digit) /\ s[i] = Value(p) /\ t[j] = Value(q)
    BY <1>7, <1>8
  <2>2. p \in Seq(Int) /\ q \in Seq(Int)
    BY <1>2
  <2> HIDE DEF p, q
  <2>3. PartOrder[<<p, q>>] = ComparePart(p, q)
    BY <2>2 DEF PartOrder
  <2>4. (ComparePart(p, q) = 0 <=> Value(p) = Value(q))
        /\ (ComparePart(p, q) < 0 <=> Value(p) < Value(q))
    BY <2>1, NumbersAreComparedByValue
  <2> QED
    BY <2>1, <2>3, <2>4 DEF p, q
<1>10. ASSUME NEW k \in 1..Len(b) PROVE Before(k) <=> Smaller(k)
  <2>1. ASSUME Before(k) PROVE Smaller(k)
    <3>1. k <= Len(a) + 1
      BY <1>7, <2>1
    <3>2. \A j \in 1..(k - 1) : s[j] = t[j]
      <4> SUFFICES ASSUME NEW j \in 1..(k - 1) PROVE s[j] = t[j]
        OBVIOUS
      <4>1. j \in 1..Len(a) /\ j \in 1..Len(b)
        BY <1>7, <3>1
      <4>2. PartOrder[<<a[j], b[j]>>] = 0
        BY <2>1 DEF Agree
      <4> QED
        BY <1>9, <4>1, <4>2
    <3>3. ASSUME k <= Len(a) PROVE s[k] < t[k]
      <4>1. k \in 1..Len(a) /\ k # Len(a) + 1
        BY <1>7, <3>3
      <4>2. PartOrder[<<a[k], b[k]>>] < 0
        BY <2>1, <4>1
      <4> QED
        BY <1>9, <4>1, <4>2
    <3> QED
      BY <1>8, <3>1, <3>2, <3>3
  <2>2. ASSUME Smaller(k) PROVE Before(k)
    <3>1. k <= Len(a) + 1
      BY <1>8, <2>2
    <3>2. Agree(PartOrder, a, b, k)
      <4> SUFFICES ASSUME NEW j \in 1..(k - 1)
                   PROVE  j <= Len(a) /\ j <= Len(b) /\ PartOrder[<<a[j], b[j]>>] = 0
        BY DEF Agree
      <4>1. j \in 1..Len(a) /\ j \in 1..Len(b) /\ j <= Len(a) /\ j <= Len(b)
        BY <1>7, <3>1
      <4>2. s[j] = t[j]
        BY <2>2
      <4> QED
        BY <1>9, <4>1, <4>2
    <3>3. k = Len(a) + 1 \/ k <= Len(a)
      BY <1>7, <3>1
    <3>4. ASSUME k <= Len(a) PROVE PartOrder[<<a[k], b[k]>>] < 0
      <4>1. k \in 1..Len(a) /\ s[k] < t[k]
        BY <1>7, <1>8, <2>2, <3>4
      <4> QED
        BY <1>9, <4>1
    <3> QED
      BY <3>2, <3>3, <3>4
  <2> QED
    BY <2>1, <2>2
<1> HIDE DEF Before, Smaller
<1>11. (\E k \in 1..Len(b) : Before(k)) <=> \E k \in DOMAIN t : Smaller(k)
  BY <1>8, <1>10
<1> QED
  BY <1>4, <1>5, <1>6, <1>11 DEF s, t

\* Whatever the characters and however long the versions of the walk get, both
\* comparators order them, numbers by their values, and order them alike where no part
\* is mixed (db_compare_version, compare_version_local).
THEOREM WalkVersionsAreOrdered == WalkSpec => []VersionsAreOrdered
<1>1. WalkTypeOK => VersionsAreOrdered
  <2> SUFFICES ASSUME WalkTypeOK PROVE VersionsAreOrdered
    OBVIOUS
  <2>1. u \in Seq(Int) /\ v \in Seq(Int) /\ w \in Seq(Int)
    BY DEF WalkTypeOK
  <2>2. TotalPreorder(CompareSplit, u, v, w) /\ TotalPreorder(CompareWhole, u, v, w)
    BY <2>1, AllVersionsAreOrdered
  <2>3. ASSUME ~Mixed(u), ~Mixed(v) PROVE CompareSplit(u, v) = CompareWhole(u, v)
    <3>1. SplitParts(u) = WholeParts(u) /\ SplitParts(v) = WholeParts(v)
      BY <2>1, <2>3, UnmixedAreCutAlike
    <3> QED
      BY <3>1 DEF CompareSplit, CompareWhole
  <2>4. NumbersByValue
    BY <2>1, NumbersAreOrderedByValue DEF NumbersByValue
  <2> QED
    BY <2>2, <2>3, <2>4 DEF VersionsAreOrdered
<1> QED
  BY <1>1, WalkTyped, PTL
=============================================================================
