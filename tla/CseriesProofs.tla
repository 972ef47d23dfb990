----------------------------- MODULE CseriesProofs -----------------------------
(***************************************************************************)
(* Facts about the conversions of Cseries and about searching a table,     *)
(* cited by the proofs about the modules that use them.                    *)
(***************************************************************************)
EXTENDS Cseries, SequencesExt, SequenceTheorems, WellFoundedInduction, TLAPS

-------------------------------------------------------------------------------
(* Narrowing conversions.                                                    *)

\* Both casts give an integer; the unsigned one is in the range of its type.
LEMMA CastTypes ==
  ASSUME NEW modulus \in Nat \ {0}, NEW value \in Int
  PROVE  /\ Signed(value, modulus) \in Int
         /\ Unsigned(value, modulus) \in Nat
         /\ Unsigned(value, modulus) \in 0 .. modulus - 1
BY SMT DEF Signed, Unsigned

\* A signed type keeps every value below half its modulus, and NONE: an index
\* into a table that is small enough survives the narrowing.
LEMMA SignedKeeps ==
  ASSUME NEW modulus \in Nat \ {0, 1}
  PROVE  /\ \A value \in Nat : 2 * value < modulus => Signed(value, modulus) = value
         /\ Signed(NONE, modulus) = NONE
BY SMT DEF Signed, NONE

\* NONE is NONE again after it has been unsigned in between, as 0xFFFF is.
LEMMA NoneSurvivesBothCasts ==
  ASSUME NEW modulus \in Nat \ {0, 1}
  PROVE  Signed(Unsigned(NONE, modulus), modulus) = NONE
BY SMT DEF Signed, Unsigned, NONE

\* No multiple of a modulus lies strictly between it and its negation but 0.
LEMMA NoMultipleBetween ==
  ASSUME NEW modulus \in Nat \ {0}, NEW d \in Int,
         modulus * d < modulus, modulus * d > -modulus
  PROVE  d = 0
<1>1. CASE d >= 1
  <2>1. modulus * d >= modulus BY <1>1, Z3
  <2> QED BY <2>1, Z3
<1>2. CASE d <= -1
  <2>1. modulus * d <= -modulus BY <1>2, Z3
  <2> QED BY <2>1, Z3
<1> QED BY <1>1, <1>2, Z3

\* A remainder is unique.
LEMMA RemainderUnique ==
  ASSUME NEW modulus \in Nat \ {0}, NEW q \in Int, NEW r \in 0 .. modulus - 1
  PROVE  (modulus * q + r) % modulus = r
<1> DEFINE a  == modulus * q + r
           q1 == a \div modulus
           r1 == a % modulus
<1>1. a \in Int /\ q1 \in Int /\ r1 \in 0 .. modulus - 1 /\ a = modulus * q1 + r1
  BY Z3
<1>2. modulus * (q - q1) = r1 - r
  BY <1>1, Z3
<1>3. q - q1 = 0
  BY <1>1, <1>2, NoMultipleBetween
<1> QED BY <1>1, <1>2, <1>3, Z3

\* A value of an unsigned type that a signed one of its width keeps is the value read
\* back, though from half the modulus on it is negative in between.
LEMMA SignedIsReadBack ==
  ASSUME NEW modulus \in Nat \ {0}, NEW value \in 0 .. modulus - 1
  PROVE  /\ 2 * Signed(value, modulus) \in -modulus .. modulus - 1
         /\ Unsigned(Signed(value, modulus), modulus) = value
<1>1. value % modulus = value
  <2>1. (modulus * 0 + value) % modulus = value
    BY RemainderUnique
  <2> QED BY <2>1, Z3
<1>2. CASE 2 * value < modulus
  BY <1>1, <1>2, SMT DEF Signed, Unsigned
<1>3. CASE ~(2 * value < modulus)
  <2>1. Signed(value, modulus) = value - modulus
    BY <1>1, <1>3 DEF Signed
  <2>2. (modulus * (-1) + value) % modulus = value
    BY RemainderUnique
  <2>3. modulus * (-1) + value = value - modulus
    BY Z3
  <2> QED BY <1>3, <2>1, <2>2, <2>3 DEF Unsigned
<1> QED BY <1>2, <1>3

\* A sum in the width of an unsigned type: of a part of it no more than that width is
\* needed.
LEMMA SumModulo ==
  ASSUME NEW modulus \in Nat \ {0}, NEW x \in Int, NEW y \in Int
  PROVE  Unsigned(Unsigned(x, modulus) + y, modulus) = Unsigned(x + y, modulus)
<1> DEFINE q == x \div modulus
           r == x % modulus
           q1 == (r + y) \div modulus
           r1 == (r + y) % modulus
<1>1. q \in Int /\ r \in 0 .. modulus - 1 /\ x = modulus * q + r
  BY Z3
<1>2. q1 \in Int /\ r1 \in 0 .. modulus - 1 /\ r + y = modulus * q1 + r1
  BY <1>1, Z3
<1> HIDE DEF q, q1, r1
<1>3. x + y = modulus * (q + q1) + r1
  <2>1. modulus * (q + q1) = modulus * q + modulus * q1
    BY <1>1, <1>2, Z3
  <2> QED BY <1>1, <1>2, <2>1, Z3
<1>4. (x + y) % modulus = r1
  <2>1. q + q1 \in Int
    BY <1>1, <1>2
  <2> QED BY <1>2, <1>3, <2>1, RemainderUnique
<1> QED BY <1>4 DEF Unsigned, r1

\* ++ on an unsigned type: counting in its width is counting and then taking
\* that width.
LEMMA CountModulo ==
  ASSUME NEW modulus \in Nat \ {0}, NEW count \in Nat
  PROVE  Unsigned(Unsigned(count, modulus) + 1, modulus) = Unsigned(count + 1, modulus)
<1> DEFINE q == count \div modulus
           r == count % modulus
<1>1. q \in Int /\ r \in 0 .. modulus - 1 /\ count = modulus * q + r
  BY Z3
<1> HIDE DEF q, r
<1>2. (r + 1) % modulus = (count + 1) % modulus
  <2>1. CASE r + 1 < modulus
    <3>1. (modulus * q + (r + 1)) % modulus = r + 1
      BY <1>1, <2>1, RemainderUnique, Z3
    <3>2. count + 1 = modulus * q + (r + 1)
      BY <1>1, Z3
    <3>3. (r + 1) % modulus = r + 1
      BY <1>1, <2>1, Z3
    <3> QED BY <3>1, <3>2, <3>3
  <2>2. CASE r + 1 = modulus
    <3>1. (modulus * (q + 1) + 0) % modulus = 0
      BY <1>1, RemainderUnique, Z3
    <3>2. count + 1 = modulus * (q + 1) + 0
      BY <1>1, <2>2, Z3
    <3>3. (r + 1) % modulus = 0
      BY <2>2, Z3
    <3> QED BY <3>1, <3>2, <3>3
  <2> QED BY <1>1, <2>1, <2>2, Z3
<1> QED BY <1>2 DEF r, Unsigned

-------------------------------------------------------------------------------
(* The first row that matches.                                               *)

NaturalOrder == {pair \in Nat \X Nat : pair[1] < pair[2]}

\* A nonempty set of natural numbers has a least element.
LEMMA LeastElement ==
  ASSUME NEW S \in SUBSET Nat, S # {}
  PROVE  \E x \in S : \A y \in S : x <= y
<1>1. IsWellFoundedOn(NaturalOrder, Nat)
  BY NatLessThanWellFounded, Zenon DEF OpToRel, NaturalOrder
<1>2. PICK x \in S : \A y \in S : <<y, x>> \notin NaturalOrder
  BY <1>1, WFMin
<1>3. ASSUME NEW y \in S PROVE x <= y
  <2>1. y \in Nat /\ x \in Nat
    OBVIOUS
  <2>2. y < x => <<y, x>> \in NaturalOrder
    BY <2>1 DEF NaturalOrder
  <2> QED BY <1>2, <2>1, <2>2
<1> QED BY <1>3

\* The least element of a nonempty set of natural numbers is in it.
LEMMA MinIsElement ==
  ASSUME NEW S \in SUBSET Nat, S # {}
  PROVE  Min(S) \in S /\ \A y \in S : Min(S) <= y
BY LeastElement DEF Min

-------------------------------------------------------------------------------
(* Induction, and what a fold over a sequence computes.                      *)

\* Induction up to n, with a set of numbers in the place of a predicate.
LEMMA AllUpTo ==
  ASSUME NEW n \in Nat, NEW Good, 0 \in Good, \A k \in 0 .. n - 1 : k \in Good => k + 1 \in Good
  PROVE  \A k \in 0 .. n : k \in Good
<1> DEFINE Bad == {k \in 0 .. n : k \notin Good}
<1>1. Bad \in SUBSET Nat
  OBVIOUS
<1> SUFFICES ASSUME Bad # {} PROVE FALSE
  OBVIOUS
<1>2. PICK k \in Bad : \A j \in Bad : k <= j
  <2> HIDE DEF Bad
  <2> QED BY <1>1, LeastElement
<1>3. k \in 0 .. n /\ k \notin Good /\ k # 0
  OBVIOUS
<1>4. k - 1 \in 0 .. n - 1 /\ k - 1 \in 0 .. n /\ ~(k <= k - 1) /\ (k - 1) + 1 = k
  BY <1>3
<1>5. k - 1 \in Good
  BY <1>2, <1>4
<1> QED BY <1>3, <1>4, <1>5

\* A nonempty set of indexes has a greatest one.
LEMMA MaxIsElement ==
  ASSUME NEW n \in Nat, NEW s \in SUBSET (1 .. n), s # {}
  PROVE  Max(s) \in s /\ \A i \in s : i <= Max(s)
<1> DEFINE T == {n - i : i \in s}
<1>1. T \in SUBSET Nat /\ T # {}
  <2>1. \A i \in 1 .. n : n - i \in Nat
    OBVIOUS
  <2> QED BY <2>1
<1>2. PICK t \in T : \A u \in T : t <= u
  <2> HIDE DEF T
  <2> QED BY <1>1, LeastElement
<1>3. PICK x \in s : t = n - x
  OBVIOUS
<1>4. ASSUME NEW y \in s PROVE x >= y
  <2>1. n - y \in T
    OBVIOUS
  <2>2. n - x <= n - y
    BY <1>2, <1>3, <2>1
  <2>3. x \in Int /\ y \in Int
    OBVIOUS
  <2> HIDE DEF T
  <2> QED BY <2>2, <2>3
<1>5. Max(s) \in s /\ \A y \in s : Max(s) >= y
  <2> HIDE DEF T
  <2> QED BY <1>4 DEF Max
<1> QED
  <2>1. \A y \in s : y \in Int
    OBVIOUS
  <2> HIDE DEF T
  <2> QED BY <1>5, <2>1

\* The functions a fold of n elements can be made of, from an index and the value so far
\* to the next value.
FoldFunctions(n, V) == [(1 .. n) \X V -> V]

\* What FoldLeft is by its definition: g says of every set of indexes what folding F over
\* it yields, from the least to the greatest.
IsFold(g, n, V, base, F) ==
  /\ g \in [SUBSET (1 .. n) -> V]
  /\ \A s \in SUBSET (1 .. n) :
       g[s] = IF s = {} THEN base ELSE F[<<Max(s), g[s \ {Max(s)}]>>]

\* The same of an iter whose values are not known to be in V.
FoldsAsLongAsIn(iter, n, V, base, F) ==
  /\ iter[{}] = base
  /\ \A s \in SUBSET (1 .. n) : s # {} /\ iter[s \ {Max(s)}] \in V =>
       iter[s] = F[<<Max(s), iter[s \ {Max(s)}]>>]

\* The values such a fold goes through.
IsRunOfFold(a, n, V, base, F) ==
  /\ a \in [0 .. n -> V]
  /\ a[0] = base
  /\ \A k \in 0 .. n - 1 : a[k + 1] = F[<<k + 1, a[k]>>]

\* There is such a function of the sets of indexes.
LEMMA FoldExists ==
  ASSUME NEW n \in Nat, NEW V, NEW base \in V, NEW F \in FoldFunctions(n, V)
  PROVE  \E g : IsFold(g, n, V, base, F)
<1> USE DEF FoldFunctions
<1> DEFINE Folds(g, k) == \A s \in SUBSET (1 .. k) :
                            g[s] = IF s = {} THEN base ELSE F[<<Max(s), g[s \ {Max(s)}]>>]
           Good == {k \in 0 .. n : \E g \in [SUBSET (1 .. n) -> V] : Folds(g, k)}
<1>1. \E g \in [SUBSET (1 .. n) -> V] : Folds(g, 0)
  <2> DEFINE g == [s \in SUBSET (1 .. n) |-> base]
  <2>1. \A s \in SUBSET (1 .. 0) : s = {}
    OBVIOUS
  <2>2. g \in [SUBSET (1 .. n) -> V] /\ Folds(g, 0)
    BY <2>1
  <2> QED BY <2>2
<1>2. ASSUME NEW k \in 0 .. n - 1, NEW g \in [SUBSET (1 .. n) -> V], Folds(g, k)
      PROVE  \E h \in [SUBSET (1 .. n) -> V] : Folds(h, k + 1)
  <2> DEFINE h == [s \in SUBSET (1 .. n) |->
                     IF s = {} THEN base ELSE F[<<Max(s), g[s \ {Max(s)}]>>]]
  <2>1. h \in [SUBSET (1 .. n) -> V]
    <3>1. ASSUME NEW s \in SUBSET (1 .. n), s # {}
          PROVE  F[<<Max(s), g[s \ {Max(s)}]>>] \in V
      <4>1. Max(s) \in 1 .. n /\ g[s \ {Max(s)}] \in V
        BY <3>1, MaxIsElement
      <4> QED BY <4>1
    <3> QED BY <3>1
  <2>2. SUBSET (1 .. k) \subseteq SUBSET (1 .. n) /\ SUBSET (1 .. k + 1) \subseteq SUBSET (1 .. n)
    OBVIOUS
  <2>3. \A s \in SUBSET (1 .. k) : h[s] = g[s]
    BY <1>2, <2>2
  <2>4. ASSUME NEW s \in SUBSET (1 .. k + 1), s # {}
        PROVE  s \ {Max(s)} \in SUBSET (1 .. k)
    <3>1. Max(s) \in s /\ \A i \in s : i <= Max(s)
      <4>1. k + 1 \in Nat
        OBVIOUS
      <4> QED BY <2>4, <4>1, MaxIsElement
    <3>2. ASSUME NEW i \in s \ {Max(s)} PROVE i \in 1 .. k
      <4>1. i <= Max(s) /\ i # Max(s) /\ i \in 1 .. k + 1 /\ Max(s) \in 1 .. k + 1
        BY <3>1
      <4> QED BY <4>1
    <3> QED BY <3>2
  <2>5. ASSUME NEW s \in SUBSET (1 .. k + 1)
        PROVE  h[s] = IF s = {} THEN base ELSE F[<<Max(s), h[s \ {Max(s)}]>>]
    <3>1. h[s] = IF s = {} THEN base ELSE F[<<Max(s), g[s \ {Max(s)}]>>]
      BY <2>2
    <3> HIDE DEF Folds, h
    <3>2. s # {} => h[s \ {Max(s)}] = g[s \ {Max(s)}]
      BY <2>3, <2>4
    <3> QED BY <3>1, <3>2
  <2>6. Folds(h, k + 1)
    BY <2>5
  <2> HIDE DEF h, Folds
  <2> QED BY <2>1, <2>6
<1> HIDE DEF Folds
<1>3. \A k \in 0 .. n : k \in Good
  <2>1. 0 \in Good
    BY <1>1
  <2>2. ASSUME NEW k \in 0 .. n - 1, k \in Good PROVE k + 1 \in Good
    <3>1. k + 1 \in 0 .. n
      OBVIOUS
    <3> QED BY <1>2, <2>2, <3>1
  <2> HIDE DEF Good
  <2> QED BY <2>1, <2>2, AllUpTo
<1>4. PICK g \in [SUBSET (1 .. n) -> V] : Folds(g, n)
  <2>1. n \in 0 .. n
    OBVIOUS
  <2> QED BY <1>3, <2>1
<1> QED BY <1>4 DEF Folds, IsFold

\* The greatest of the first indexes, and those before it.
LEMMA GreatestIndex ==
  ASSUME NEW k \in Nat
  PROVE  /\ 1 .. k + 1 # {}
         /\ Max(1 .. k + 1) = k + 1
         /\ (1 .. k + 1) \ {k + 1} = 1 .. k
<1>1. k + 1 \in 1 .. k + 1 /\ \A y \in 1 .. k + 1 : k + 1 >= y
  OBVIOUS
<1>2. \A x \in 1 .. k + 1 : (\A y \in 1 .. k + 1 : x >= y) => x = k + 1
  OBVIOUS
<1>3. Max(1 .. k + 1) = k + 1
  BY <1>1, <1>2 DEF Max
<1> QED BY <1>1, <1>3

\* It goes through the sequence from its first element to its last.
LEMMA FoldSteps ==
  ASSUME NEW n \in Nat, NEW V, NEW base \in V, NEW F \in FoldFunctions(n, V), NEW iter,
         FoldsAsLongAsIn(iter, n, V, base, F)
  PROVE  \E a : IsRunOfFold(a, n, V, base, F) /\ a[n] = iter[1 .. n]
<1> USE DEF FoldFunctions, FoldsAsLongAsIn
<1> DEFINE a == [k \in 0 .. n |-> iter[1 .. k]]
           Good == {k \in 0 .. n : iter[1 .. k] \in V}
<1>1. ASSUME NEW k \in 0 .. n - 1, iter[1 .. k] \in V
      PROVE  iter[1 .. k + 1] = F[<<k + 1, iter[1 .. k]>>]
  <2>1. k \in Nat /\ 1 .. k + 1 \in SUBSET (1 .. n)
    OBVIOUS
  <2> QED BY <1>1, <2>1, GreatestIndex
<1>2. \A k \in 0 .. n : k \in Good
  <2>1. 0 \in Good
    <3>1. 1 .. 0 = {} /\ 0 \in 0 .. n
      OBVIOUS
    <3> QED BY <3>1
  <2>2. ASSUME NEW k \in 0 .. n - 1, k \in Good PROVE k + 1 \in Good
    <3>1. k + 1 \in 1 .. n /\ k + 1 \in 0 .. n
      OBVIOUS
    <3>2. F[<<k + 1, iter[1 .. k]>>] \in V
      BY <2>2, <3>1
    <3> QED BY <1>1, <2>2, <3>1, <3>2
  <2> HIDE DEF Good
  <2> QED BY <2>1, <2>2, AllUpTo
<1>3. a \in [0 .. n -> V]
  BY <1>2
<1>4. a[0] = base
  <2>1. 1 .. 0 = {} /\ 0 \in 0 .. n
    OBVIOUS
  <2> QED BY <2>1
<1>5. \A k \in 0 .. n - 1 : a[k + 1] = F[<<k + 1, a[k]>>]
  <2> TAKE k \in 0 .. n - 1
  <2>1. k \in 0 .. n /\ k + 1 \in 0 .. n
    OBVIOUS
  <2> QED BY <1>1, <1>2, <2>1
<1>6. a[n] = iter[1 .. n]
  OBVIOUS
<1> HIDE DEF a
<1> QED BY <1>3, <1>4, <1>5, <1>6 DEF IsRunOfFold

-------------------------------------------------------------------------------
(* Rows of a table after one more has been appended.                         *)

\* Appending keeps the rows there are, and gives the new one the last index.
LEMMA AppendedRow ==
  ASSUME NEW T, NEW table \in Seq(T), NEW row \in T
  PROVE  LET longer == Append(table, row)
         IN  /\ longer \in Seq(T)
             /\ Len(longer) = Len(table) + 1
             /\ LastIndex(longer) = Len(table)
             /\ ValidIndex(LastIndex(longer), longer)
             /\ RowAt(longer, LastIndex(longer)) = row
             /\ \A index : ValidIndex(index, table) =>
                  ValidIndex(index, longer) /\ RowAt(longer, index) = RowAt(table, index)
             /\ \A i \in DOMAIN table : i \in DOMAIN longer /\ longer[i] = table[i]
<1> DEFINE longer == Append(table, row)
<1>1. /\ Len(table) \in Nat
      /\ DOMAIN table = 1 .. Len(table)
      /\ longer \in Seq(T)
      /\ Len(longer) = Len(table) + 1
      /\ DOMAIN longer = 1 .. Len(table) + 1
      /\ \A i \in 1 .. Len(table) : longer[i] = table[i]
      /\ longer[Len(table) + 1] = row
  BY AppendProperties, LenProperties
<1> HIDE DEF longer
<1>2. LastIndex(longer) = Len(table) /\ ValidIndex(Len(table), longer)
  BY <1>1 DEF LastIndex, ValidIndex
<1>3. RowAt(longer, Len(table)) = row
  BY <1>1 DEF RowAt
<1>4. ASSUME NEW index, ValidIndex(index, table)
      PROVE  ValidIndex(index, longer) /\ RowAt(longer, index) = RowAt(table, index)
  <2>1. index \in 0 .. Len(table) - 1 /\ index + 1 \in 1 .. Len(table)
    BY <1>1, <1>4 DEF ValidIndex
  <2> QED BY <1>1, <2>1 DEF ValidIndex, RowAt
<1> QED BY <1>1, <1>2, <1>3, <1>4 DEF longer
=============================================================================
