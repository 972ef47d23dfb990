--------------------------- MODULE ZoneManifestProofs ---------------------------
(***************************************************************************)
(* Proofs about ZoneManifest, for every builder, every number of resources *)
(* and tags, and words and blocks of any size.                             *)
(***************************************************************************)
EXTENDS ZoneManifest, CseriesProofs

-------------------------------------------------------------------------------
(* What the operations of BitVector do to single bits, for words of any width. *)

\* Division and remainder.
LEMMA Divided ==
  ASSUME NEW d \in Nat \ {0}, NEW i \in Nat
  PROVE  /\ i \div d \in Nat
         /\ i % d \in 0 .. d - 1
         /\ i = d * (i \div d) + (i % d)
<1> DEFINE q == i \div d
           r == i % d
<1>1. q \in Int /\ r \in 0 .. d - 1 /\ i = d * q + r
  BY Z3
<1> HIDE DEF q, r
<1>2. q >= 0
  <2> SUFFICES ASSUME q <= -1 PROVE FALSE
    BY <1>1, SMT
  <2>1. d * q <= -d
    BY <1>1, Z3
  <2> QED BY <1>1, <2>1, Z3
<1>3. q \in Nat
  BY <1>1, <1>2, SMT
<1> QED BY <1>1, <1>3 DEF q, r

\* A place is a word and a bit of it.
LEMMA Place ==
  ASSUME NEW i \in Nat
  PROVE  /\ i \div WordBits \in Nat
         /\ i % WordBits \in 0 .. WordBits - 1
         /\ i = WordBits * (i \div WordBits) + (i % WordBits)
BY Divided, WordsAssumption

\* A word ends before the next begins.
LEMMA WordsInOrder ==
  ASSUME NEW v \in Nat, NEW w \in Nat, v < w
  PROVE  WordBits * v + WordBits <= WordBits * w
<1> WordBits \in Nat
  BY WordsAssumption
<1>1. WordBits * (v + 1) = WordBits * v + WordBits
  BY SMT
<1>2. w - (v + 1) \in Nat
  BY SMT
<1>3. WordBits * (w - (v + 1)) \in Nat
  BY <1>2, SMT
<1>4. WordBits * w = WordBits * (v + 1) + WordBits * (w - (v + 1))
  BY SMT
<1> QED BY <1>1, <1>3, <1>4, SMT

\* The words before one hold the places below it.
LEMMA WordsBelow ==
  ASSUME NEW count \in Nat
  PROVE  UNION {Word(w) : w \in 0 .. count - 1} = 0 .. WordBits * count - 1
<1> DEFINE words == UNION {Word(w) : w \in 0 .. count - 1}
<1>0. WordBits \in Nat \ {0} /\ WordBits * count \in Nat
  BY WordsAssumption, SMT
<1>1. ASSUME NEW i \in words PROVE i \in 0 .. WordBits * count - 1
  <2>1. PICK w \in 0 .. count - 1 : i \in Word(w)
    BY <1>1
  <2>2. PICK b \in 0 .. WordBits - 1 : i = WordBits * w + b
    BY <2>1 DEF Word
  <2>3. WordBits * w \in Nat
    BY <1>0, SMT
  <2>4. WordBits * w + WordBits <= WordBits * count
    BY <2>1, WordsInOrder, SMT
  <2> QED BY <1>0, <2>2, <2>3, <2>4, SMT
<1>2. ASSUME NEW i \in 0 .. WordBits * count - 1 PROVE i \in words
  <2> DEFINE w == i \div WordBits
             b == i % WordBits
  <2>1. w \in Nat /\ b \in 0 .. WordBits - 1 /\ i = WordBits * w + b /\ i < WordBits * count
    BY <1>0, Place, SMT
  <2> HIDE DEF w, b
  <2>2. w < count
    <3> SUFFICES ASSUME count <= w PROVE FALSE
      BY <2>1, SMT
    <3>1. WordBits * count <= WordBits * w
      BY <1>0, <2>1, WordsInOrder, SMT
    <3> QED BY <1>0, <2>1, <3>1, SMT
  <2>3. i \in Word(w)
    BY <2>1 DEF Word
  <2>4. w \in 0 .. count - 1
    BY <2>1, <2>2, SMT
  <2> QED BY <2>3, <2>4
<1> QED BY <1>1, <1>2

\* set_all sets the bits of the vector and no other bit of its words: neither the
\* whole words nor what is left over is off by one.
THEOREM SetAllExact ==
  ASSUME NEW bits, NEW bit_count \in Nat
  PROVE  SetAll(bits, bit_count) = bits \cup 0 .. bit_count - 1
<1> DEFINE full   == bit_count \div WordBits
           rem    == bit_count % WordBits
           wholes == UNION {Word(w) : w \in 0 .. full - 1}
           rest   == {WordBits * full + b : b \in 0 .. rem - 1}
<1>1. full \in Nat /\ rem \in 0 .. WordBits - 1 /\ bit_count = WordBits * full + rem
  BY Place
<1>2. wholes = 0 .. WordBits * full - 1
  BY <1>1, WordsBelow
<1>3. SetAll(bits, bit_count) = bits \cup wholes \cup rest
  BY DEF SetAll
<1> HIDE DEF full, rem
<1>4. rest = WordBits * full .. bit_count - 1
  <2>1. WordBits * full \in Nat
    BY <1>1, WordsAssumption, SMT
  <2>2. ASSUME NEW i \in WordBits * full .. bit_count - 1 PROVE i \in rest
    <3>1. i - WordBits * full \in 0 .. rem - 1 /\ i = WordBits * full + (i - WordBits * full)
      BY <1>1, <2>1, SMT
    <3> QED BY <3>1
  <2>3. ASSUME NEW i \in rest PROVE i \in WordBits * full .. bit_count - 1
    <3>1. PICK b \in 0 .. rem - 1 : i = WordBits * full + b
      OBVIOUS
    <3> QED BY <1>1, <2>1, <3>1, SMT
  <2> QED BY <2>2, <2>3
<1> HIDE DEF wholes, rest
<1>5. wholes \cup rest = 0 .. bit_count - 1
  <2>1. WordBits * full \in Nat /\ WordBits * full <= bit_count
    BY <1>1, WordsAssumption, SMT
  <2> QED BY <1>2, <1>4, <2>1, SMT
<1> QED BY <1>3, <1>5

\* clear leaves no bit of the vector, though it counts whole words.
THEOREM ClearLeavesNothing ==
  ASSUME NEW bits, NEW bit_count \in Nat
  PROVE  ClearAll(bits, bit_count) \cap 0 .. bit_count - 1 = {}
<1> DEFINE words == WordsFor(bit_count)
<1>1. WordBits \in Nat \ {0}
  BY WordsAssumption
<1>2. words \in Nat /\ bit_count <= WordBits * words
  <2> DEFINE r == (bit_count + WordBits - 1) % WordBits
  <2>1. /\ words \in Nat /\ r \in 0 .. WordBits - 1
        /\ bit_count + WordBits - 1 = WordBits * words + r
    BY <1>1, Place, SMT DEF WordsFor
  <2> HIDE DEF words, r
  <2>2. WordBits * words \in Nat
    BY <1>1, <2>1, SMT
  <2> QED BY <1>1, <2>1, <2>2, SMT
<1>3. UNION {Word(w) : w \in 0 .. words - 1} = 0 .. WordBits * words - 1
  BY <1>2, WordsBelow
<1>4. ClearAll(bits, bit_count) = bits \ 0 .. WordBits * words - 1
  BY <1>3 DEF ClearAll
<1> HIDE DEF words
<1>5. 0 .. bit_count - 1 \subseteq 0 .. WordBits * words - 1
  BY <1>1, <1>2, SMT
<1> QED BY <1>4, <1>5

\* set changes what test says of the one index, if the vector has it, and of none
\* other.
THEOREM SetIsTested ==
  ASSUME NEW vector, vector = [words |-> vector.words, bits |-> vector.bits],
         vector.words \in Nat, NEW i \in Nat, NEW j \in Nat
  PROVE  /\ TestBit(SetBit(vector, i), j) <=>
              TestBit(vector, j) \/ (i = j /\ VerifyIndex(vector, i))
         /\ TestBit(ResetBit(vector, i), j) <=> TestBit(vector, j) /\ i # j
<1> DEFINE after(bits) == [vector EXCEPT !.bits = bits]
<1>1. \A bits : after(bits).bits = bits /\ BitCount(after(bits)) = BitCount(vector)
  BY DEF BitCount
<1>2. CASE VerifyIndex(vector, i)
  <2>1. SetBit(vector, i) = after(vector.bits \cup {i})
        /\ ResetBit(vector, i) = after(vector.bits \ {i})
    BY <1>2 DEF SetBit, ResetBit
  <2> HIDE DEF after
  <2> QED BY <1>1, <1>2, <2>1 DEF TestBit, VerifyIndex
<1>3. CASE ~VerifyIndex(vector, i)
  BY <1>3 DEF SetBit, ResetBit, TestBit, VerifyIndex
<1> QED BY <1>2, <1>3

-------------------------------------------------------------------------------
(* The steps of the folds.                                                   *)

\* The loop over the owners sets one bit at a time.
LEMMA SetIndexesSteps ==
  ASSUME NEW V, NEW vector \in V, NEW handles \in Seq(Nat),
         \A v \in V, h \in Nat : SetBit(v, Index(h)) \in V
  PROVE  \E a \in [0 .. Len(handles) -> V] :
           /\ a[0] = vector
           /\ \A k \in 0 .. Len(handles) - 1 : a[k + 1] = SetBit(a[k], Index(handles[k + 1]))
           /\ a[Len(handles)] = SetIndexes(vector, handles)
<1> DEFINE n == Len(handles)
           Step(v, i) == SetBit(v, Index(handles[i]))
           F == [p \in (1 .. n) \X V |-> Step(p[2], p[1])]
           Fold(f) == f = [s \in SUBSET (1 .. n) |->
                           IF s = {} THEN vector ELSE Step(f[s \ {Max(s)}], Max(s))]
           iter == CHOOSE f : Fold(f)
<1>1. n \in Nat /\ DOMAIN handles = 1 .. n /\ \A i \in 1 .. n : handles[i] \in Nat
  OBVIOUS
<1>2. SetIndexes(vector, handles) = iter[1 .. n]
  <2>1. SetIndexes(vector, handles) = iter[DOMAIN handles]
    BY <1>1 DEF SetIndexes, FoldLeft, MapThenFoldSet
  <2> QED BY <2>1, <1>1
<1>3. F \in FoldFunctions(n, V)
  BY <1>1 DEF FoldFunctions
<1>4. \A v \in V, i \in 1 .. n : F[<<i, v>>] = Step(v, i)
  OBVIOUS
<1> HIDE DEF n, Step, F, iter
<1>5. \A s \in SUBSET (1 .. n) : s # {} => Max(s) \in 1 .. n /\ s \ {Max(s)} \in SUBSET (1 .. n)
  BY <1>1, MaxIsElement
<1>6. \E g : Fold(g)
  <2> HIDE DEF Fold
  <2>1. PICK g : IsFold(g, n, V, vector, F)
    BY <1>1, <1>3, FoldExists
  <2>2. \A s \in SUBSET (1 .. n) :
          g[s] = IF s = {} THEN vector ELSE Step(g[s \ {Max(s)}], Max(s))
    <3>1. \A s \in SUBSET (1 .. n) : s # {} => g[s \ {Max(s)}] \in V
      BY <1>5, <2>1 DEF IsFold
    <3> QED BY <1>4, <1>5, <2>1, <3>1 DEF IsFold
  <2>3. Fold(g)
    BY <2>1, <2>2 DEF Fold, IsFold
  <2> QED BY <2>3
<1>7. Fold(iter)
  <2> HIDE DEF Fold
  <2> QED BY <1>6 DEF iter
<1>8. FoldsAsLongAsIn(iter, n, V, vector, F)
  BY <1>4, <1>5, <1>7 DEF FoldsAsLongAsIn
<1> HIDE DEF Fold
<1>9. PICK a : IsRunOfFold(a, n, V, vector, F) /\ a[n] = iter[1 .. n]
  BY <1>1, <1>3, <1>8, FoldSteps
<1>10. ASSUME NEW k \in 0 .. n - 1 PROVE a[k + 1] = Step(a[k], k + 1)
  <2>1. k + 1 \in 1 .. n /\ k \in 0 .. n
    BY <1>1
  <2> QED BY <1>4, <1>9, <2>1 DEF IsRunOfFold
<1> QED BY <1>2, <1>9, <1>10 DEF n, Step, IsRunOfFold

\* A step of the loop over the listed resources.
Recorded(v, r, definitions) ==
  IF Counts(r) /\ r.definition \in definitions THEN SetBit(v, Index(r.handle)) ELSE v

\* The vectors that loop goes through.
IsRecording(a, V, vector, resources, definitions) ==
  /\ a \in [0 .. Len(resources) -> V]
  /\ a[0] = vector
  /\ \A k \in 0 .. Len(resources) - 1 : a[k + 1] = Recorded(a[k], resources[k + 1], definitions)
  /\ a[Len(resources)] = SetBits(vector, resources, definitions)

\* There are such vectors.
LEMMA SetBitsSteps ==
  ASSUME NEW V, NEW vector \in V, NEW resources \in Seq(TagResource), NEW definitions,
         \A v \in V, h \in Nat : SetBit(v, Index(h)) \in V
  PROVE  \E a : IsRecording(a, V, vector, resources, definitions)
<1> DEFINE n == Len(resources)
           Step(v, i) == Recorded(v, resources[i], definitions)
           F == [p \in (1 .. n) \X V |-> Step(p[2], p[1])]
           Fold(f) == f = [s \in SUBSET (1 .. n) |->
                           IF s = {} THEN vector ELSE Step(f[s \ {Max(s)}], Max(s))]
           iter == CHOOSE f : Fold(f)
<1>1. n \in Nat /\ DOMAIN resources = 1 .. n /\ \A i \in 1 .. n : resources[i].handle \in Nat
  <2>1. \A i \in 1 .. n : resources[i] \in TagResource
    OBVIOUS
  <2> QED BY <2>1 DEF TagResource
<1>2. SetBits(vector, resources, definitions) = iter[1 .. n]
  <2>1. SetBits(vector, resources, definitions) = iter[DOMAIN resources]
    BY <1>1 DEF SetBits, Recorded, FoldLeft, MapThenFoldSet
  <2> QED BY <2>1, <1>1
<1>3. F \in FoldFunctions(n, V)
  BY <1>1 DEF FoldFunctions, Recorded
<1>4. \A v \in V, i \in 1 .. n : F[<<i, v>>] = Step(v, i)
  OBVIOUS
<1> HIDE DEF n, Step, F, iter
<1>5. \A s \in SUBSET (1 .. n) : s # {} => Max(s) \in 1 .. n /\ s \ {Max(s)} \in SUBSET (1 .. n)
  BY <1>1, MaxIsElement
<1>6. \E g : Fold(g)
  <2> HIDE DEF Fold
  <2>1. PICK g : IsFold(g, n, V, vector, F)
    BY <1>1, <1>3, FoldExists
  <2>2. \A s \in SUBSET (1 .. n) :
          g[s] = IF s = {} THEN vector ELSE Step(g[s \ {Max(s)}], Max(s))
    <3>1. \A s \in SUBSET (1 .. n) : s # {} => g[s \ {Max(s)}] \in V
      BY <1>5, <2>1 DEF IsFold
    <3> QED BY <1>4, <1>5, <2>1, <3>1 DEF IsFold
  <2>3. Fold(g)
    BY <2>1, <2>2 DEF Fold, IsFold
  <2> QED BY <2>3
<1>7. Fold(iter)
  <2> HIDE DEF Fold
  <2> QED BY <1>6 DEF iter
<1>8. FoldsAsLongAsIn(iter, n, V, vector, F)
  BY <1>4, <1>5, <1>7 DEF FoldsAsLongAsIn
<1> HIDE DEF Fold
<1>9. PICK a : IsRunOfFold(a, n, V, vector, F) /\ a[n] = iter[1 .. n]
  BY <1>1, <1>3, <1>8, FoldSteps
<1>10. ASSUME NEW k \in 0 .. n - 1 PROVE a[k + 1] = Step(a[k], k + 1)
  <2>1. k + 1 \in 1 .. n /\ k \in 0 .. n
    BY <1>1
  <2> QED BY <1>4, <1>9, <2>1 DEF IsRunOfFold
<1> QED BY <1>2, <1>9, <1>10 DEF n, Step, IsRunOfFold, IsRecording

\* A step of the loop over the cleared ones.
Taken(v, r) == IF r.empty THEN v ELSE ResetBit(v, Index(r.handle))

\* That loop.
LEMMA ResetBitsSteps ==
  ASSUME NEW V, NEW vector \in V, NEW resources \in Seq(TagResource),
         \A v \in V, h \in Nat : ResetBit(v, Index(h)) \in V
  PROVE  \E a \in [0 .. Len(resources) -> V] :
           /\ a[0] = vector
           /\ \A k \in 0 .. Len(resources) - 1 : a[k + 1] = Taken(a[k], resources[k + 1])
           /\ a[Len(resources)] = ResetBits(vector, resources)
<1> DEFINE n == Len(resources)
           Step(v, i) == Taken(v, resources[i])
           F == [p \in (1 .. n) \X V |-> Step(p[2], p[1])]
           Fold(f) == f = [s \in SUBSET (1 .. n) |->
                           IF s = {} THEN vector ELSE Step(f[s \ {Max(s)}], Max(s))]
           iter == CHOOSE f : Fold(f)
<1>1. n \in Nat /\ DOMAIN resources = 1 .. n /\ \A i \in 1 .. n : resources[i].handle \in Nat
  <2>1. \A i \in 1 .. n : resources[i] \in TagResource
    OBVIOUS
  <2> QED BY <2>1 DEF TagResource
<1>2. ResetBits(vector, resources) = iter[1 .. n]
  <2>1. ResetBits(vector, resources) = iter[DOMAIN resources]
    BY <1>1 DEF ResetBits, Taken, FoldLeft, MapThenFoldSet
  <2> QED BY <2>1, <1>1
<1>3. F \in FoldFunctions(n, V)
  BY <1>1 DEF FoldFunctions, Taken
<1>4. \A v \in V, i \in 1 .. n : F[<<i, v>>] = Step(v, i)
  OBVIOUS
<1> HIDE DEF n, Step, F, iter
<1>5. \A s \in SUBSET (1 .. n) : s # {} => Max(s) \in 1 .. n /\ s \ {Max(s)} \in SUBSET (1 .. n)
  BY <1>1, MaxIsElement
<1>6. \E g : Fold(g)
  <2> HIDE DEF Fold
  <2>1. PICK g : IsFold(g, n, V, vector, F)
    BY <1>1, <1>3, FoldExists
  <2>2. \A s \in SUBSET (1 .. n) :
          g[s] = IF s = {} THEN vector ELSE Step(g[s \ {Max(s)}], Max(s))
    <3>1. \A s \in SUBSET (1 .. n) : s # {} => g[s \ {Max(s)}] \in V
      BY <1>5, <2>1 DEF IsFold
    <3> QED BY <1>4, <1>5, <2>1, <3>1 DEF IsFold
  <2>3. Fold(g)
    BY <2>1, <2>2 DEF Fold, IsFold
  <2> QED BY <2>3
<1>7. Fold(iter)
  <2> HIDE DEF Fold
  <2> QED BY <1>6 DEF iter
<1>8. FoldsAsLongAsIn(iter, n, V, vector, F)
  BY <1>4, <1>5, <1>7 DEF FoldsAsLongAsIn
<1> HIDE DEF Fold
<1>9. PICK a : IsRunOfFold(a, n, V, vector, F) /\ a[n] = iter[1 .. n]
  BY <1>1, <1>3, <1>8, FoldSteps
<1>10. ASSUME NEW k \in 0 .. n - 1 PROVE a[k + 1] = Step(a[k], k + 1)
  <2>1. k + 1 \in 1 .. n /\ k \in 0 .. n
    BY <1>1
  <2> QED BY <1>4, <1>9, <2>1 DEF IsRunOfFold
<1> QED BY <1>2, <1>9, <1>10 DEF n, Step, IsRunOfFold

\* What the fold over the tags makes of the nodes for one of them.
Visited(nodes, handle) ==
  [nodes EXCEPT ![Index(handle) + 1] =
     VisitNode(Index(handle), @.child_node_indices \o Links(handle))]

\* The loop over the tags.
LEMMA VisitTagsSteps ==
  ASSUME NEW V, NEW nodes \in V,
         \A v \in V, i \in DOMAIN Tags : Visited(v, Tags[i]) \in V
  PROVE  \E a \in [0 .. Len(Tags) -> V] :
           /\ a[0] = nodes
           /\ \A k \in 0 .. Len(Tags) - 1 : a[k + 1] = Visited(a[k], Tags[k + 1])
           /\ a[Len(Tags)] = VisitTags(nodes)
<1> DEFINE n == Len(Tags)
           Step(v, i) == Visited(v, Tags[i])
           F == [p \in (1 .. n) \X V |-> Step(p[2], p[1])]
           Fold(f) == f = [s \in SUBSET (1 .. n) |->
                           IF s = {} THEN nodes ELSE Step(f[s \ {Max(s)}], Max(s))]
           iter == CHOOSE f : Fold(f)
<1>1. n \in Nat /\ DOMAIN Tags = 1 .. n
  BY ZoneAssumption
<1>2. VisitTags(nodes) = iter[1 .. n]
  <2>1. VisitTags(nodes) = iter[DOMAIN Tags]
    BY <1>1 DEF VisitTags, Visited, FoldLeft, MapThenFoldSet
  <2> QED BY <2>1, <1>1
<1>3. F \in FoldFunctions(n, V)
  BY <1>1 DEF FoldFunctions
<1>4. \A v \in V, i \in 1 .. n : F[<<i, v>>] = Step(v, i)
  OBVIOUS
<1> HIDE DEF n, Step, F, iter
<1>5. \A s \in SUBSET (1 .. n) : s # {} => Max(s) \in 1 .. n /\ s \ {Max(s)} \in SUBSET (1 .. n)
  BY <1>1, MaxIsElement
<1>6. \E g : Fold(g)
  <2> HIDE DEF Fold
  <2>1. PICK g : IsFold(g, n, V, nodes, F)
    BY <1>1, <1>3, FoldExists
  <2>2. \A s \in SUBSET (1 .. n) :
          g[s] = IF s = {} THEN nodes ELSE Step(g[s \ {Max(s)}], Max(s))
    <3>1. \A s \in SUBSET (1 .. n) : s # {} => g[s \ {Max(s)}] \in V
      BY <1>5, <2>1 DEF IsFold
    <3> QED BY <1>4, <1>5, <2>1, <3>1 DEF IsFold
  <2>3. Fold(g)
    BY <2>1, <2>2 DEF Fold, IsFold
  <2> QED BY <2>3
<1>7. Fold(iter)
  <2> HIDE DEF Fold
  <2> QED BY <1>6 DEF iter
<1>8. FoldsAsLongAsIn(iter, n, V, nodes, F)
  BY <1>4, <1>5, <1>7 DEF FoldsAsLongAsIn
<1> HIDE DEF Fold
<1>9. PICK a : IsRunOfFold(a, n, V, nodes, F) /\ a[n] = iter[1 .. n]
  BY <1>1, <1>3, <1>8, FoldSteps
<1>10. ASSUME NEW k \in 0 .. n - 1 PROVE a[k + 1] = Step(a[k], k + 1)
  <2>1. k + 1 \in 1 .. n /\ k \in 0 .. n
    BY <1>1
  <2> QED BY <1>4, <1>9, <2>1 DEF IsRunOfFold
<1> QED BY <1>2, <1>9, <1>10 DEF n, Step, IsRunOfFold
-------------------------------------------------------------------------------
(* What the loops make of a vector.                                          *)

\* Vectors of so many words.
VectorsOf(words) == [words : {words}, bits : SUBSET Nat]

Vectors == [words : 0 .. MaxWords, bits : SUBSET Nat]

\* The indexes a vector has.
Room(vector) == 0 .. BitCount(vector) - 1

\* The index of a handle is a number.
LEMMA IndexIsNatural ==
  ASSUME NEW handle \in Nat
  PROVE  Index(handle) \in Nat
BY ZoneAssumption, CastTypes DEF Index, Unsigned

\* set and reset change the one bit, where there is room for it, and no word.
LEMMA BitChanges ==
  ASSUME NEW words \in Nat, NEW v \in VectorsOf(words), NEW i \in Nat
  PROVE  /\ SetBit(v, i) \in VectorsOf(words)
         /\ SetBit(v, i).bits = v.bits \cup ({i} \cap Room(v))
         /\ ResetBit(v, i) \in VectorsOf(words)
         /\ ResetBit(v, i).bits = v.bits \ ({i} \cap Room(v))
         /\ \A w \in VectorsOf(words) : Room(w) = Room(v)
<1>1. v.words = words /\ v.bits \in SUBSET Nat /\ \A w \in VectorsOf(words) : w.words = words
  BY DEF VectorsOf
<1>2. BitCount(v) \in Nat /\ \A w \in VectorsOf(words) : BitCount(w) = BitCount(v)
  <2>1. WordBits * words \in Nat
    BY WordsAssumption
  <2> QED BY <1>1, <2>1 DEF BitCount
<1>3. VerifyIndex(v, i) <=> i \in Room(v)
  BY <1>2 DEF VerifyIndex, Room
<1>4. \A bits \in SUBSET Nat : [v EXCEPT !.bits = bits] \in VectorsOf(words)
                               /\ [v EXCEPT !.bits = bits].bits = bits
  BY DEF VectorsOf
<1>5. \A w \in VectorsOf(words) : Room(w) = Room(v)
  BY <1>2 DEF Room
<1>6. CASE i \in Room(v)
  <2>1. v.bits \cup {i} \in SUBSET Nat /\ v.bits \ {i} \in SUBSET Nat
    BY <1>1
  <2>2. {i} \cap Room(v) = {i}
    BY <1>6
  <2>3. SetBit(v, i) = [v EXCEPT !.bits = v.bits \cup {i}]
        /\ ResetBit(v, i) = [v EXCEPT !.bits = v.bits \ {i}]
    BY <1>3, <1>6 DEF SetBit, ResetBit
  <2> QED BY <1>4, <1>5, <2>1, <2>2, <2>3
<1>7. CASE i \notin Room(v)
  <2>1. SetBit(v, i) = v /\ ResetBit(v, i) = v
    BY <1>3, <1>7 DEF SetBit, ResetBit
  <2> QED BY <1>5, <1>7, <2>1
<1> QED BY <1>6, <1>7

\* What the steps of a run of n steps have in all.
AllOf(changes, n) == UNION {changes[j] : j \in 1 .. n}

\* A run that adds to the bits ends with all of what it added.
LEMMA RunAdds ==
  ASSUME NEW n \in Nat, NEW words, NEW a \in [0 .. n -> VectorsOf(words)], NEW added,
         \A k \in 0 .. n - 1 : a[k + 1].bits = a[k].bits \cup added[k + 1]
  PROVE  a[n].bits = a[0].bits \cup AllOf(added, n)
<1> DEFINE Good == {k \in 0 .. n : a[k].bits = a[0].bits \cup UNION {added[j] : j \in 1 .. k}}
<1>1. 0 \in Good
  <2>1. 1 .. 0 = {} /\ 0 \in 0 .. n
    OBVIOUS
  <2> QED BY <2>1
<1>2. ASSUME NEW k \in 0 .. n - 1, k \in Good PROVE k + 1 \in Good
  <2>1. k + 1 \in 0 .. n
    OBVIOUS
  <2>2. 1 .. k + 1 = (1 .. k) \cup {k + 1}
    OBVIOUS
  <2>3. UNION {added[j] : j \in 1 .. k + 1} = (UNION {added[j] : j \in 1 .. k}) \cup added[k + 1]
    BY <2>2, Zenon
  <2> QED BY <1>2, <2>1, <2>3
<1>3. n \in Good
  <2> HIDE DEF Good
  <2>1. n \in 0 .. n
    OBVIOUS
  <2> QED BY <1>1, <1>2, <2>1, AllUpTo
<1> QED BY <1>3 DEF AllOf

\* A run that takes from the bits ends without any of what it took.
LEMMA RunTakes ==
  ASSUME NEW n \in Nat, NEW words, NEW a \in [0 .. n -> VectorsOf(words)], NEW taken,
         \A k \in 0 .. n - 1 : a[k + 1].bits = a[k].bits \ taken[k + 1]
  PROVE  a[n].bits = a[0].bits \ AllOf(taken, n)
<1> DEFINE Good == {k \in 0 .. n : a[k].bits = a[0].bits \ UNION {taken[j] : j \in 1 .. k}}
<1>1. 0 \in Good
  <2>1. 1 .. 0 = {} /\ 0 \in 0 .. n
    OBVIOUS
  <2> QED BY <2>1
<1>2. ASSUME NEW k \in 0 .. n - 1, k \in Good PROVE k + 1 \in Good
  <2>1. k + 1 \in 0 .. n
    OBVIOUS
  <2>2. 1 .. k + 1 = (1 .. k) \cup {k + 1}
    OBVIOUS
  <2>3. UNION {taken[j] : j \in 1 .. k + 1} = (UNION {taken[j] : j \in 1 .. k}) \cup taken[k + 1]
    BY <2>2, Zenon
  <2> QED BY <1>2, <2>1, <2>3
<1>3. n \in Good
  <2> HIDE DEF Good
  <2>1. n \in 0 .. n
    OBVIOUS
  <2> QED BY <1>1, <1>2, <2>1, AllUpTo
<1> QED BY <1>3 DEF AllOf

\* The loop over the owners sets the index of each, where there is room for it.
LEMMA SetIndexesExact ==
  ASSUME NEW words \in Nat, NEW vector \in VectorsOf(words), NEW handles \in Seq(Nat)
  PROVE  /\ SetIndexes(vector, handles) \in VectorsOf(words)
         /\ SetIndexes(vector, handles).bits =
              vector.bits \cup ({Index(h) : h \in Range(handles)} \cap Room(vector))
<1> DEFINE n == Len(handles)
           added == [j \in 1 .. n |-> {Index(handles[j])} \cap Room(vector)]
<1>1. n \in Nat /\ DOMAIN handles = 1 .. n /\ \A j \in 1 .. n : handles[j] \in Nat
  OBVIOUS
<1>2. PICK a \in [0 .. n -> VectorsOf(words)] :
           /\ a[0] = vector
           /\ \A k \in 0 .. n - 1 : a[k + 1] = SetBit(a[k], Index(handles[k + 1]))
           /\ a[n] = SetIndexes(vector, handles)
  <2>1. \A v \in VectorsOf(words), h \in Nat : SetBit(v, Index(h)) \in VectorsOf(words)
    BY IndexIsNatural, BitChanges
  <2> QED BY <2>1, SetIndexesSteps
<1> HIDE DEF n
<1>3. ASSUME NEW k \in 0 .. n - 1 PROVE a[k + 1].bits = a[k].bits \cup added[k + 1]
  <2>1. k \in 0 .. n /\ k + 1 \in 1 .. n
    BY <1>1
  <2> DEFINE i == Index(handles[k + 1])
  <2>2. a[k] \in VectorsOf(words) /\ i \in Nat /\ a[k + 1] = SetBit(a[k], i)
    BY <1>1, <1>2, <2>1, IndexIsNatural
  <2>3. added[k + 1] = {i} \cap Room(vector)
    BY <2>1
  <2> HIDE DEF i, added
  <2>4. Room(a[k]) = Room(vector)
    BY <2>2, BitChanges
  <2>5. SetBit(a[k], i).bits = a[k].bits \cup ({i} \cap Room(a[k]))
    BY <2>2, BitChanges
  <2> QED BY <2>2, <2>3, <2>4, <2>5
<1>4. a[n].bits = vector.bits \cup AllOf(added, n)
  <2> HIDE DEF added
  <2> QED BY <1>1, <1>2, <1>3, RunAdds
<1>5. AllOf(added, n) = {Index(h) : h \in Range(handles)} \cap Room(vector)
  <2> DEFINE indexes == {Index(h) : h \in Range(handles)}
  <2>1. \A x : x \in AllOf(added, n) <=> \E j \in 1 .. n : x \in added[j]
    BY DEF AllOf
  <2>2. \A x : x \in indexes <=> \E j \in 1 .. n : x = Index(handles[j])
    BY <1>1 DEF Range
  <2>3. \A j \in 1 .. n : added[j] = {Index(handles[j])} \cap Room(vector)
    OBVIOUS
  <2> HIDE DEF added, indexes
  <2>4. \A x : x \in AllOf(added, n) <=> x \in indexes /\ x \in Room(vector)
    BY <2>1, <2>2, <2>3
  <2> QED BY <2>4 DEF indexes
<1>6. a[n] \in VectorsOf(words)
  BY <1>1
<1> HIDE DEF added
<1> QED BY <1>2, <1>4, <1>5, <1>6
\* What tells the resources of a list apart.
LEMMA ListedResources ==
  ASSUME NEW resources \in Seq(TagResource)
  PROVE  /\ Len(resources) \in Nat
         /\ DOMAIN resources = 1 .. Len(resources)
         /\ \A j \in 1 .. Len(resources) :
              /\ Index(resources[j].handle) \in Nat
              /\ resources[j].empty \in BOOLEAN
              /\ resources[j].definition \in Definitions
         /\ \A definitions, x :
              x \in Listed(resources, definitions) <=>
                \E j \in 1 .. Len(resources) :
                  /\ ~resources[j].empty
                  /\ resources[j].definition \in definitions
                  /\ x = Index(resources[j].handle)
<1>1. Len(resources) \in Nat /\ DOMAIN resources = 1 .. Len(resources)
  OBVIOUS
<1>2. ASSUME NEW j \in 1 .. Len(resources)
      PROVE  /\ Index(resources[j].handle) \in Nat
             /\ resources[j].empty \in BOOLEAN
             /\ resources[j].definition \in Definitions
  <2>1. resources[j] \in TagResource
    OBVIOUS
  <2> QED BY <2>1, IndexIsNatural DEF TagResource
<1>3. \A definitions, x :
        x \in Listed(resources, definitions) <=>
          \E j \in 1 .. Len(resources) :
            /\ ~resources[j].empty
            /\ resources[j].definition \in definitions
            /\ x = Index(resources[j].handle)
  BY <1>1, Zenon DEF Listed, Range
<1> QED BY <1>1, <1>2, <1>3

\* The loop over the listed resources sets the index of each that has one of the
\* definitions, where there is room for it.
LEMMA SetBitsExact ==
  ASSUME NEW words \in Nat, NEW vector \in VectorsOf(words), NEW resources \in Seq(TagResource),
         NEW definitions, "null" \notin definitions
  PROVE  /\ SetBits(vector, resources, definitions) \in VectorsOf(words)
         /\ SetBits(vector, resources, definitions).bits =
              vector.bits \cup (Listed(resources, definitions) \cap Room(vector))
<1> DEFINE n == Len(resources)
           Has(j) == Counts(resources[j]) /\ resources[j].definition \in definitions
           added == [j \in 1 .. n |->
                       IF Has(j) THEN {Index(resources[j].handle)} \cap Room(vector) ELSE {}]
<1>1. n \in Nat /\ \A j \in 1 .. n : Index(resources[j].handle) \in Nat
  BY ListedResources
<1>2. PICK a \in [0 .. n -> VectorsOf(words)] :
           /\ a[0] = vector
           /\ \A k \in 0 .. n - 1 : a[k + 1] = Recorded(a[k], resources[k + 1], definitions)
           /\ a[n] = SetBits(vector, resources, definitions)
  <2>1. \A v \in VectorsOf(words), h \in Nat : SetBit(v, Index(h)) \in VectorsOf(words)
    BY IndexIsNatural, BitChanges
  <2> HIDE DEF Has, added
  <2>2. vector \in VectorsOf(words) /\ resources \in Seq(TagResource)
    OBVIOUS
  <2>3. \E a : IsRecording(a, VectorsOf(words), vector, resources, definitions)
    BY <2>1, <2>2, SetBitsSteps
  <2> QED BY <2>3 DEF IsRecording, n
<1> HIDE DEF n
<1>3. ASSUME NEW k \in 0 .. n - 1 PROVE a[k + 1].bits = a[k].bits \cup added[k + 1]
  <2>1. k \in 0 .. n /\ k + 1 \in 1 .. n
    BY <1>1
  <2> DEFINE i == Index(resources[k + 1].handle)
  <2>2. a[k] \in VectorsOf(words) /\ i \in Nat
        /\ a[k + 1] = IF Has(k + 1) THEN SetBit(a[k], i) ELSE a[k]
    BY <1>1, <1>2, <2>1 DEF Recorded
  <2>3. added[k + 1] = IF Has(k + 1) THEN {i} \cap Room(vector) ELSE {}
    BY <2>1
  <2> HIDE DEF i, added, Has
  <2>4. Room(a[k]) = Room(vector)
    BY <2>2, BitChanges
  <2>5. SetBit(a[k], i).bits = a[k].bits \cup ({i} \cap Room(a[k]))
    BY <2>2, BitChanges
  <2> QED BY <2>2, <2>3, <2>4, <2>5
<1>4. a[n].bits = vector.bits \cup AllOf(added, n)
  <2> HIDE DEF added
  <2> QED BY <1>1, <1>2, <1>3, RunAdds
<1>5. AllOf(added, n) = Listed(resources, definitions) \cap Room(vector)
  <2>1. \A x : x \in AllOf(added, n) <=> \E j \in 1 .. n : x \in added[j]
    BY DEF AllOf
  <2>2. \A x : x \in Listed(resources, definitions) <=>
                 \E j \in 1 .. n : Has(j) /\ x = Index(resources[j].handle)
    <3>1. \A j \in 1 .. n :
            Has(j) <=> ~resources[j].empty /\ resources[j].definition \in definitions
      BY DEF Counts
    <3> HIDE DEF Has
    <3> QED BY <3>1, ListedResources DEF n
  <2>3. \A j \in 1 .. n :
          \A x : x \in added[j] <=>
                 Has(j) /\ x = Index(resources[j].handle) /\ x \in Room(vector)
    OBVIOUS
  <2> HIDE DEF added, Has
  <2>4. \A x : x \in AllOf(added, n) <=> x \in Listed(resources, definitions) /\ x \in Room(vector)
    BY <2>1, <2>2, <2>3
  <2> QED BY <2>4
<1>6. a[n] \in VectorsOf(words)
  BY <1>1
<1> HIDE DEF added
<1> QED BY <1>2, <1>4, <1>5, <1>6

\* The loop over the cleared ones resets the index of each.
LEMMA ResetBitsExact ==
  ASSUME NEW words \in Nat, NEW vector \in VectorsOf(words), NEW resources \in Seq(TagResource)
  PROVE  /\ ResetBits(vector, resources) \in VectorsOf(words)
         /\ ResetBits(vector, resources).bits =
              vector.bits \ (Listed(resources, Definitions) \cap Room(vector))
<1> DEFINE n == Len(resources)
           taken == [j \in 1 .. n |-> IF resources[j].empty THEN {}
                                      ELSE {Index(resources[j].handle)} \cap Room(vector)]
<1>1. n \in Nat /\ \A j \in 1 .. n : Index(resources[j].handle) \in Nat
  BY ListedResources
<1>2. PICK a \in [0 .. n -> VectorsOf(words)] :
           /\ a[0] = vector
           /\ \A k \in 0 .. n - 1 : a[k + 1] = Taken(a[k], resources[k + 1])
           /\ a[n] = ResetBits(vector, resources)
  <2>1. \A v \in VectorsOf(words), h \in Nat : ResetBit(v, Index(h)) \in VectorsOf(words)
    BY IndexIsNatural, BitChanges
  <2> QED BY <2>1, ResetBitsSteps
<1> HIDE DEF n
<1>3. ASSUME NEW k \in 0 .. n - 1 PROVE a[k + 1].bits = a[k].bits \ taken[k + 1]
  <2>1. k \in 0 .. n /\ k + 1 \in 1 .. n
    BY <1>1
  <2> DEFINE i == Index(resources[k + 1].handle)
             e == resources[k + 1].empty
  <2>2. a[k] \in VectorsOf(words) /\ i \in Nat
        /\ a[k + 1] = IF e THEN a[k] ELSE ResetBit(a[k], i)
    BY <1>1, <1>2, <2>1 DEF Taken
  <2>3. taken[k + 1] = IF e THEN {} ELSE {i} \cap Room(vector)
    BY <2>1
  <2> HIDE DEF i, e, taken
  <2>4. Room(a[k]) = Room(vector)
    BY <2>2, BitChanges
  <2>5. ResetBit(a[k], i).bits = a[k].bits \ ({i} \cap Room(a[k]))
    BY <2>2, BitChanges
  <2> QED BY <2>2, <2>3, <2>4, <2>5
<1>4. a[n].bits = vector.bits \ AllOf(taken, n)
  <2> HIDE DEF taken
  <2> QED BY <1>1, <1>2, <1>3, RunTakes
<1>5. AllOf(taken, n) = Listed(resources, Definitions) \cap Room(vector)
  <2>1. \A x : x \in AllOf(taken, n) <=> \E j \in 1 .. n : x \in taken[j]
    BY DEF AllOf
  <2>2. \A x : x \in Listed(resources, Definitions) <=>
                 \E j \in 1 .. n : ~resources[j].empty /\ x = Index(resources[j].handle)
    BY ListedResources DEF n
  <2>3. \A j \in 1 .. n :
          \A x : x \in taken[j] <=>
                 ~resources[j].empty /\ x = Index(resources[j].handle) /\ x \in Room(vector)
    OBVIOUS
  <2> HIDE DEF taken
  <2>4. \A x : x \in AllOf(taken, n) <=>
                 x \in Listed(resources, Definitions) /\ x \in Room(vector)
    BY <2>1, <2>2, <2>3
  <2> QED BY <2>4
<1>6. a[n] \in VectorsOf(words)
  BY <1>1
<1> HIDE DEF taken
<1> QED BY <1>2, <1>4, <1>5, <1>6

\* A vector that is resized and cleared has room for the bits asked for, if the block
\* has room for their words, and none of them is set.
LEMMA ResizedAndCleared ==
  ASSUME NEW vector \in Vectors, NEW bit_count \in Nat, NEW resized \in Resized(vector, bit_count)
  PROVE  \E words \in 0 .. MaxWords :
           /\ Cleared(resized) \in VectorsOf(words)
           /\ Cleared(resized).bits = {}
           /\ bit_count <= WordBits * MaxWords => bit_count <= BitCount(Cleared(resized))
<1> DEFINE words == WordsFor(bit_count)
           r == (bit_count + WordBits - 1) % WordBits
<1>1. WordBits \in Nat \ {0} /\ MaxWords \in Nat
  BY WordsAssumption
<1>2. words \in Nat /\ r \in 0 .. WordBits - 1 /\ bit_count + WordBits - 1 = WordBits * words + r
  BY <1>1, Place, SMT DEF WordsFor
<1>3. CASE words > MaxWords
  <2>1. resized = vector
    BY <1>3 DEF Resized
  <2>2. vector.words \in 0 .. MaxWords /\ vector \in VectorsOf(vector.words)
    BY DEF Vectors, VectorsOf
  <2>3. Cleared(vector) \in VectorsOf(vector.words) /\ Cleared(vector).bits = {}
    BY <2>2 DEF Cleared, VectorsOf
  <2>4. ~(bit_count <= WordBits * MaxWords)
    <3> HIDE DEF words, r
    <3>1. WordBits * MaxWords + WordBits <= WordBits * words
      BY <1>1, <1>2, <1>3, WordsInOrder
    <3>2. WordBits * MaxWords \in Nat /\ WordBits * words \in Nat
      BY <1>1, <1>2
    <3> QED BY <1>1, <1>2, <3>1, <3>2
  <2> HIDE DEF words, r
  <2> QED BY <2>1, <2>2, <2>3, <2>4
<1>4. CASE ~(words > MaxWords)
  <2>1. PICK bits : resized = [words |-> words, bits |-> bits]
    BY <1>4 DEF Resized
  <2>2. Cleared(resized) = [words |-> words, bits |-> {}]
    BY <2>1 DEF Cleared
  <2>3. BitCount(Cleared(resized)) = WordBits * words
    BY <2>2 DEF BitCount
  <2> HIDE DEF words, r
  <2>4. Cleared(resized) \in VectorsOf(words) /\ Cleared(resized).bits = {}
    BY <2>2 DEF VectorsOf
  <2>5. bit_count <= WordBits * words
    <3>1. WordBits * words \in Nat
      BY <1>1, <1>2
    <3> QED BY <1>1, <1>2, <3>1
  <2>6. words \in 0 .. MaxWords
    BY <1>1, <1>2, <1>4
  <2> QED BY <2>3, <2>4, <2>5, <2>6
<1> QED BY <1>3, <1>4
-------------------------------------------------------------------------------
(* What the loop over the tags makes of the hierarchy.                       *)

\* The nodes of a hierarchy.
VisitNodes ==
  [resource_owner_index : Int, child_node_indices : Seq(Int)]

\* A row of one is an integer, and a table of them a table of integers.
LEMMA ShortIsInteger ==
  /\ \A index \in Nat : Short(index) \in Int
  /\ \A handle : Attachments(handle) \in Seq(0 .. IndexModulus - 1) => Links(handle) \in Seq(Int)
<1>1. \A index \in Nat : Short(index) \in Int
  BY ZoneAssumption, CastTypes DEF Short
<1>2. ASSUME NEW handle, Attachments(handle) \in Seq(0 .. IndexModulus - 1)
      PROVE  Links(handle) \in Seq(Int)
  <2> DEFINE children == Attachments(handle)
             n == Len(children)
  <2>1. n \in Nat /\ DOMAIN children = 1 .. n /\ \A k \in 1 .. n : children[k] \in Nat
    BY <1>2, ZoneAssumption
  <2>2. Links(handle) = [k \in 1 .. n |-> Short(children[k])]
    BY <2>1 DEF Links
  <2> HIDE DEF children, n
  <2>3. Links(handle) \in [1 .. n -> Int]
    BY <1>1, <2>1, <2>2
  <2> QED BY <2>1, <2>3
<1> QED BY <1>1, <1>2

\* Visiting one tag fills in its own node.
LEMMA VisitedNode ==
  ASSUME NEW count \in Nat, NEW nodes \in [1 .. count -> VisitNodes], NEW handle \in Nat,
         Index(handle) < count, Links(handle) \in Seq(Int)
  PROVE  /\ Visited(nodes, handle) \in [1 .. count -> VisitNodes]
         /\ Index(handle) + 1 \in 1 .. count
         /\ Visited(nodes, handle)[Index(handle) + 1] =
              VisitNode(Index(handle),
                        nodes[Index(handle) + 1].child_node_indices \o Links(handle))
         /\ \A place \in 1 .. count :
              place # Index(handle) + 1 => Visited(nodes, handle)[place] = nodes[place]
<1> DEFINE place == Index(handle) + 1
           node == VisitNode(Index(handle), nodes[place].child_node_indices \o Links(handle))
<1>1. Index(handle) \in Nat
  BY IndexIsNatural
<1>2. place \in 1 .. count
  BY <1>1
<1>3. nodes[place].child_node_indices \in Seq(Int)
  BY <1>2 DEF VisitNodes
<1>4. node \in VisitNodes
  <2>1. nodes[place].child_node_indices \o Links(handle) \in Seq(Int)
    BY <1>3, ConcatProperties
  <2> QED BY <1>1, <2>1, ShortIsInteger DEF VisitNode, VisitNodes
<1>5. Visited(nodes, handle) = [nodes EXCEPT ![place] = node]
  BY <1>2 DEF Visited
<1> HIDE DEF place, node
<1>6. /\ Visited(nodes, handle) \in [1 .. count -> VisitNodes]
      /\ Visited(nodes, handle)[place] = node
      /\ \A p \in 1 .. count : p # place => Visited(nodes, handle)[p] = nodes[p]
  BY <1>2, <1>4, <1>5
<1> QED BY <1>2, <1>6 DEF place, node

\* Each tag has its own index: a node is filled in once, with the children of its tag.
LEMMA VisitTagsExact ==
  ASSUME NEW count \in Nat,
         \A i \in DOMAIN Tags :
           Index(Tags[i]) < count /\ Links(Tags[i]) \in Seq(Int)
  PROVE  LET hierarchy == VisitTags([i \in 1 .. count |-> VisitNode(0, << >>)])
         IN  /\ hierarchy \in [1 .. count -> VisitNodes]
             /\ \A j \in DOMAIN Tags :
                  hierarchy[Index(Tags[j]) + 1] = VisitNode(Index(Tags[j]), Links(Tags[j]))
<1> DEFINE n == Len(Tags)
           V == [1 .. count -> VisitNodes]
           empty == [i \in 1 .. count |-> VisitNode(0, << >>)]
           PlaceOf(j) == Index(Tags[j]) + 1
           Filled(nodes, j) ==
             nodes[PlaceOf(j)] = VisitNode(Index(Tags[j]), Links(Tags[j]))
           Pending(nodes, j) == nodes[PlaceOf(j)].child_node_indices = << >>
<1>1. n \in Nat /\ DOMAIN Tags = 1 .. n /\ \A j \in 1 .. n : Tags[j] \in Nat
  BY ZoneAssumption
<1>2. \A i, j \in 1 .. n : PlaceOf(i) = PlaceOf(j) => i = j
  <2>1. \A j \in 1 .. n : Index(Tags[j]) \in Nat
    BY <1>1, IndexIsNatural
  <2> QED BY <1>1, <2>1, TagIndexesDistinct
<1>3. \A j \in 1 .. n : PlaceOf(j) \in 1 .. count
  <2>1. \A j \in 1 .. n : Index(Tags[j]) \in Nat
    BY <1>1, IndexIsNatural
  <2> QED BY <1>1, <2>1
<1>4. empty \in V /\ \A j \in 1 .. n : Pending(empty, j)
  <2>1. VisitNode(0, << >>) \in VisitNodes
    BY ShortIsInteger DEF VisitNode, VisitNodes
  <2> QED BY <1>3, <2>1 DEF VisitNode
<1>5. ASSUME NEW nodes \in V, NEW j \in 1 .. n
      PROVE  /\ Visited(nodes, Tags[j]) \in V
             /\ Pending(nodes, j) => Filled(Visited(nodes, Tags[j]), j)
             /\ \A i \in 1 .. n : i # j =>
                  Visited(nodes, Tags[j])[PlaceOf(i)] = nodes[PlaceOf(i)]
  <2>1. /\ Tags[j] \in Nat /\ Index(Tags[j]) < count
        /\ Links(Tags[j]) \in Seq(Int)
    BY <1>1
  <2>2. /\ Visited(nodes, Tags[j]) \in V
        /\ Visited(nodes, Tags[j])[PlaceOf(j)] =
              VisitNode(Index(Tags[j]),
                        nodes[PlaceOf(j)].child_node_indices \o Links(Tags[j]))
        /\ \A p \in 1 .. count : p # PlaceOf(j) => Visited(nodes, Tags[j])[p] = nodes[p]
    BY <2>1, VisitedNode
  <2>3. << >> \o Links(Tags[j]) = Links(Tags[j])
    BY <2>1, ConcatEmptySeq
  <2>4. Pending(nodes, j) => Filled(Visited(nodes, Tags[j]), j)
    BY <2>2, <2>3
  <2>5. ASSUME NEW i \in 1 .. n, i # j
        PROVE  Visited(nodes, Tags[j])[PlaceOf(i)] = nodes[PlaceOf(i)]
    <3>1. PlaceOf(i) \in 1 .. count /\ PlaceOf(i) # PlaceOf(j)
      BY <1>2, <1>3, <2>5
    <3> HIDE DEF PlaceOf
    <3> QED BY <2>2, <3>1
  <2> QED BY <2>2, <2>4, <2>5
<1> HIDE DEF V, empty
<1>6. PICK a \in [0 .. n -> V] :
           /\ a[0] = empty
           /\ \A k \in 0 .. n - 1 : a[k + 1] = Visited(a[k], Tags[k + 1])
           /\ a[n] = VisitTags(empty)
  <2>1. \A v \in V, i \in DOMAIN Tags : Visited(v, Tags[i]) \in V
    BY <1>1, <1>5
  <2> HIDE DEF PlaceOf, Filled, Pending
  <2> QED BY <1>4, <2>1, VisitTagsSteps
<1> HIDE DEF n, PlaceOf, Filled, Pending
<1> DEFINE Good == {k \in 0 .. n : /\ \A j \in 1 .. k : Filled(a[k], j)
                                   /\ \A j \in k + 1 .. n : Pending(a[k], j)}
<1>7. 0 \in Good
  <2>1. 0 \in 0 .. n /\ 1 .. 0 = {} /\ 0 + 1 .. n = 1 .. n
    BY <1>1
  <2> QED BY <1>4, <1>6, <2>1
<1>8. ASSUME NEW k \in 0 .. n - 1, k \in Good PROVE k + 1 \in Good
  <2>1. k \in 0 .. n /\ k + 1 \in 0 .. n /\ k + 1 \in 1 .. n /\ k + 1 \in k + 1 .. n /\ k \in Int
    BY <1>1
  <2>2. a[k] \in V /\ a[k + 1] = Visited(a[k], Tags[k + 1])
    BY <1>6, <2>1
  <2>3. ASSUME NEW j \in 1 .. k + 1 PROVE Filled(a[k + 1], j)
    <3>1. CASE j = k + 1
      BY <1>5, <1>8, <2>1, <2>2, <3>1
    <3>2. CASE j # k + 1
      <4>1. j \in 1 .. k /\ j \in 1 .. n
        BY <1>1, <2>1, <3>2
      <4>2. Filled(a[k], j) /\ a[k + 1][PlaceOf(j)] = a[k][PlaceOf(j)]
        BY <1>5, <1>8, <2>1, <2>2, <3>2, <4>1
      <4> QED BY <4>2 DEF Filled
    <3> QED BY <3>1, <3>2
  <2>4. ASSUME NEW j \in (k + 1) + 1 .. n PROVE Pending(a[k + 1], j)
    <3>1. j # k + 1 /\ j \in k + 1 .. n /\ j \in 1 .. n
      BY <1>1, <2>1
    <3>2. Pending(a[k], j) /\ a[k + 1][PlaceOf(j)] = a[k][PlaceOf(j)]
      BY <1>5, <1>8, <2>1, <2>2, <3>1
    <3> QED BY <3>2 DEF Pending
  <2> QED BY <2>1, <2>3, <2>4
<1>9. n \in Good
  <2> HIDE DEF Good
  <2>1. n \in 0 .. n
    BY <1>1
  <2> QED BY <1>1, <1>7, <1>8, <2>1, AllUpTo
<1>10. VisitTags(empty) \in V /\ \A j \in 1 .. n : Filled(VisitTags(empty), j)
  <2>1. n \in 0 .. n
    BY <1>1
  <2> QED BY <1>6, <1>9, <2>1
<1> QED BY <1>1, <1>10 DEF V, empty, Filled, PlaceOf
-------------------------------------------------------------------------------
(* The inductive invariant.                                                  *)

\* The rows of the block.
Rows ==
  [required : Vectors, optional : Vectors, streamed : Vectors,
   active : Vectors, top_level : Vectors, hierarchy : Seq(VisitNodes)]

BitFields == {"required", "optional", "streamed", "active", "top_level"}

\* A vector has just those of the indexes that it has room for, and it has room for
\* as many as asked if its block has.
Holds(vector, indexes, bit_count) ==
  /\ vector.bits = indexes \cap Room(vector)
  /\ bit_count <= WordBits * MaxWords => bit_count <= BitCount(vector)

\* What the loop over tag_resources has recorded.
RowListed(row, from, count) ==
  /\ Holds(row.required, Listed(from.tag_resources, {"immediate"}), count)
  /\ Holds(row.streamed, Listed(from.tag_resources, {"streamed"}), count)
  /\ row.optional.bits = {}

\* What is left of it after the loop over cleared_resources.
RowResources(row, from, count) ==
  LET cleared == Listed(from.cleared_resources, Definitions)
  IN  /\ Holds(row.required, Listed(from.tag_resources, {"immediate"}) \ cleared, count)
      /\ Holds(row.streamed, Listed(from.tag_resources, {"streamed"}) \ cleared, count)
      /\ row.optional.bits = {}

\* What the loops over the owners have recorded.
RowOwners(row, from, count) ==
  /\ Holds(row.active, {Index(h) : h \in Range(from.active_resource_owners)}, count)
  /\ Holds(row.top_level, {Index(h) : h \in Range(from.top_level_resource_owners)}, count)

\* The nodes of the tags.
RowHierarchy(row, from) ==
  \A j \in DOMAIN Tags :
    LET children == from.attachments[Tags[j]]
    IN  row.hierarchy[Index(Tags[j]) + 1] =
          VisitNode(Index(Tags[j]), [k \in DOMAIN children |-> Short(children[k])])

\* The steps of the loop over the manifests.
LoopSteps ==
  {"record_resources", "clear_resources", "record_owners", "build_hierarchy", "strike_resources"}

\* No row has a bit outside its words.
RowsTyped ==
  /\ manifests \in Seq(Rows)
  /\ \A i \in DOMAIN manifests :
       /\ \A field \in BitFields : manifests[i][field].bits \subseteq Room(manifests[i][field])
       /\ Len(manifests[i].hierarchy) \in {0, NodeCount}

\* The block has its rows from the resize on, and the loop is at one of them.
LoopInBlock ==
  /\ manifest_index \in 1 .. Len(builder_manifests) + 1
  /\ Len(manifests) \in {0, Len(builder_manifests)}
  /\ pc = "resize_manifests" => manifests = << >> /\ manifest_index = 1
  /\ pc \in LoopSteps =>
       Len(manifests) = Len(builder_manifests) /\ manifest_index <= Len(builder_manifests)
  /\ pc \in LoopSteps \cup {"resize_manifests", "returned", "aborted"}

\* The row the loop is at has what the steps before have recorded.
RowInProgress ==
  /\ pc = "clear_resources" =>
       RowListed(manifests[manifest_index], builder, resources_count)
  /\ pc \in {"record_owners", "build_hierarchy", "strike_resources"} =>
       RowResources(manifests[manifest_index], builder, resources_count)
  /\ pc \in {"build_hierarchy", "strike_resources"} =>
       RowOwners(manifests[manifest_index], builder, maximum_tag_instances_count)
  /\ pc = "strike_resources" =>
       RowHierarchy(manifests[manifest_index], builder)

\* The rows before have everything.
RowsDone ==
  \A i \in Done :
    /\ RowResources(manifests[i], builder_manifests[i], resources_count)
    /\ RowOwners(manifests[i], builder_manifests[i], maximum_tag_instances_count)
    /\ RowHierarchy(manifests[i], builder_manifests[i])

ArgumentsTyped ==
  /\ builder_manifests \in BuilderArrays
  /\ resources_count \in ResourcesCounts
  /\ maximum_tag_instances_count \in MaximumTagInstancesCounts
  /\ asked \in UsedResources

\* ZoneManifest's invariants speak of rows that are done: what becomes of the row the
\* loop is at is in RowInProgress.
ZoneInvariant ==
  /\ ArgumentsTyped /\ RowsTyped /\ LoopInBlock
  /\ RowInProgress /\ RowsDone /\ StruckExactly
\* The types behind the names of the arguments.
LEMMA Arguments ==
  ASSUME ArgumentsTyped
  PROVE  /\ builder_manifests \in Seq(BuilderManifest)
         /\ resources_count \in Nat /\ maximum_tag_instances_count \in Nat
         /\ NodeCount \in Nat
         /\ asked.bit_count \in Nat /\ asked.bits \subseteq 0 .. asked.bit_count - 1
<1>1. builder_manifests \in Seq(BuilderManifest)
  BY ZoneAssumption DEF ArgumentsTyped
<1>2. resources_count \in Nat /\ maximum_tag_instances_count \in Nat
  BY ZoneAssumption DEF ArgumentsTyped
<1>3. NodeCount \in Nat
  BY <1>2 DEF NodeCount
<1>4. asked.bit_count \in Nat /\ asked.bits \subseteq 0 .. asked.bit_count - 1
  BY ZoneAssumption DEF ArgumentsTyped
<1> QED BY <1>1, <1>2, <1>3, <1>4

\* The row the loop is at, and the manifest it is filled from.
LEMMA CurrentRow ==
  ASSUME ZoneInvariant, pc \in LoopSteps
  PROVE  /\ manifest_index \in DOMAIN manifests
         /\ manifest_index \in DOMAIN builder_manifests
         /\ manifests[manifest_index] \in Rows
         /\ builder \in BuilderManifest
<1>1. builder_manifests \in Seq(BuilderManifest)
  BY Arguments DEF ZoneInvariant
<1>2. manifests \in Seq(Rows)
  BY DEF ZoneInvariant, RowsTyped
<1>3. /\ manifest_index \in 1 .. Len(builder_manifests)
      /\ Len(manifests) = Len(builder_manifests)
  BY <1>1 DEF ZoneInvariant, LoopInBlock
<1>4. manifest_index \in DOMAIN manifests /\ manifest_index \in DOMAIN builder_manifests
  BY <1>1, <1>2, <1>3
<1>5. manifests[manifest_index] \in Rows /\ builder_manifests[manifest_index] \in BuilderManifest
  BY <1>1, <1>2, <1>4
<1> QED BY <1>4, <1>5 DEF builder

\* A step that fills the row the loop is at leaves the other rows, and what is done.
LEMMA FillKeeps ==
  ASSUME ZoneInvariant, pc \in LoopSteps, NEW next \in LoopSteps,
         NEW row \in Rows, FillManifest(row, next),
         \A field \in BitFields : row[field].bits \subseteq Room(row[field]),
         Len(row.hierarchy) \in {0, NodeCount}
  PROVE  /\ ArgumentsTyped' /\ RowsTyped' /\ LoopInBlock' /\ RowsDone' /\ StruckExactly'
         /\ manifests'[manifest_index] = row
         /\ pc' = next
         /\ UNCHANGED <<arguments, manifest_index, builder>>
<1>1. /\ manifests' = [manifests EXCEPT ![manifest_index] = row]
      /\ pc' = next
      /\ UNCHANGED <<builder_manifests, resources_count, maximum_tag_instances_count, asked,
                     in_out_used_resources, manifest_index>>
  BY DEF FillManifest, arguments
<1>2. manifest_index \in DOMAIN manifests /\ manifests \in Seq(Rows)
  BY CurrentRow DEF ZoneInvariant, RowsTyped
<1>3. /\ manifests' \in Seq(Rows) /\ Len(manifests') = Len(manifests)
      /\ DOMAIN manifests' = DOMAIN manifests
      /\ manifests'[manifest_index] = row
      /\ \A i \in DOMAIN manifests : i # manifest_index => manifests'[i] = manifests[i]
  BY <1>1, <1>2, ExceptSeq
<1>4. UNCHANGED NodeCount
  BY <1>1 DEF NodeCount
<1>5. ArgumentsTyped'
  BY <1>1 DEF ZoneInvariant, ArgumentsTyped
<1>6. RowsTyped'
  <2>1. \A i \in DOMAIN manifests' :
          /\ \A field \in BitFields :
               manifests'[i][field].bits \subseteq Room(manifests'[i][field])
          /\ Len(manifests'[i].hierarchy) \in {0, NodeCount}
    BY <1>3 DEF ZoneInvariant, RowsTyped
  <2> QED BY <1>3, <1>4, <2>1 DEF RowsTyped
<1>7. LoopInBlock'
  <2>1. pc' # "resize_manifests" /\ pc' \in LoopSteps
    BY <1>1 DEF LoopSteps
  <2> QED BY <1>1, <1>3, <2>1 DEF ZoneInvariant, LoopInBlock
<1>8. Done' = Done /\ \A i \in Done : i \in DOMAIN manifests /\ manifests'[i] = manifests[i]
  <2>1. manifest_index \in Int
    BY <1>2
  <2> QED BY <1>1, <1>3, <2>1 DEF Done
<1>9. RowsDone'
  BY <1>1, <1>8 DEF ZoneInvariant, RowsDone
<1>10. StruckExactly'
  <2>1. \A i \in Done : UsedBy(i)' = UsedBy(i)
    BY <1>8 DEF UsedBy
  <2>2. UNION {UsedBy(i)' : i \in Done} = UNION {UsedBy(i) : i \in Done}
    BY <2>1
  <2> QED BY <1>1, <1>8, <2>2 DEF ZoneInvariant, StruckExactly
<1>11. UNCHANGED <<arguments, manifest_index, builder>>
  BY <1>1 DEF arguments, builder
<1> QED BY <1>1, <1>3, <1>5, <1>6, <1>7, <1>9, <1>10, <1>11

\* The call begins without rows.
LEMMA InitZone == Init => ZoneInvariant
<1> SUFFICES ASSUME Init PROVE ZoneInvariant
  OBVIOUS
<1>1. ArgumentsTyped
  BY DEF Init, ArgumentsTyped
<1>2. builder_manifests \in Seq(BuilderManifest)
  BY <1>1, Arguments
<1>3. manifests = << >> /\ DOMAIN manifests = {} /\ Len(manifests) = 0 /\ manifests \in Seq(Rows)
  BY DEF Init
<1>4. RowsTyped
  BY <1>3 DEF RowsTyped
<1>5. LoopInBlock
  BY <1>2, <1>3 DEF Init, LoopInBlock, LoopSteps
<1>6. Done = {}
  BY <1>3 DEF Done
<1>7. RowsDone /\ StruckExactly
  BY <1>6 DEF Init, RowsDone, StruckExactly
<1>8. RowInProgress
  BY DEF Init, RowInProgress
<1> QED BY <1>1, <1>4, <1>5, <1>7, <1>8 DEF ZoneInvariant
\* A vector that was cleared, and to which the loops have added indexes where there is
\* room for them, holds these.
LEMMA HoldsAdded ==
  ASSUME NEW words \in 0 .. MaxWords, NEW v \in VectorsOf(words), v.bits = {},
         NEW w \in VectorsOf(words), NEW indexes, w.bits = v.bits \cup (indexes \cap Room(v)),
         NEW bit_count \in Nat,
         bit_count <= WordBits * MaxWords => bit_count <= BitCount(v)
  PROVE  w \in Vectors /\ w.bits \subseteq Room(w) /\ Holds(w, indexes, bit_count)
<1>1. v.words = words /\ w.words = words /\ w \in Vectors
  BY DEF VectorsOf, Vectors
<1>2. BitCount(w) = BitCount(v) /\ Room(w) = Room(v)
  BY <1>1 DEF BitCount, Room
<1> QED BY <1>1, <1>2 DEF Holds

\* The loop over tag_resources, for one vector.
LEMMA ListedHeld ==
  ASSUME NEW vector \in Vectors, NEW bit_count \in Nat, NEW resized \in Resized(vector, bit_count),
         NEW resources \in Seq(TagResource), NEW definitions, "null" \notin definitions
  PROVE  LET w == SetBits(Cleared(resized), resources, definitions)
         IN  /\ w \in Vectors /\ w.bits \subseteq Room(w)
             /\ Holds(w, Listed(resources, definitions), bit_count)
<1> DEFINE v == Cleared(resized)
           w == SetBits(v, resources, definitions)
<1>1. PICK words \in 0 .. MaxWords :
        /\ v \in VectorsOf(words) /\ v.bits = {}
        /\ bit_count <= WordBits * MaxWords => bit_count <= BitCount(v)
  BY ResizedAndCleared
<1> HIDE DEF v
<1>2. words \in Nat
  BY WordsAssumption
<1>3. w \in VectorsOf(words) /\ w.bits = v.bits \cup (Listed(resources, definitions) \cap Room(v))
  BY <1>1, <1>2, SetBitsExact
<1> HIDE DEF w
<1>4. w \in Vectors /\ w.bits \subseteq Room(w)
      /\ Holds(w, Listed(resources, definitions), bit_count)
  BY <1>1, <1>3, HoldsAdded
<1> QED BY <1>4 DEF v, w

\* A loop over the owners.
LEMMA OwnersHeld ==
  ASSUME NEW vector \in Vectors, NEW bit_count \in Nat, NEW resized \in Resized(vector, bit_count),
         NEW handles \in Seq(Nat)
  PROVE  LET w == SetIndexes(Cleared(resized), handles)
         IN  /\ w \in Vectors /\ w.bits \subseteq Room(w)
             /\ Holds(w, {Index(h) : h \in Range(handles)}, bit_count)
<1> DEFINE v == Cleared(resized)
           w == SetIndexes(v, handles)
           indexes == {Index(h) : h \in Range(handles)}
<1>1. PICK words \in 0 .. MaxWords :
        /\ v \in VectorsOf(words) /\ v.bits = {}
        /\ bit_count <= WordBits * MaxWords => bit_count <= BitCount(v)
  BY ResizedAndCleared
<1> HIDE DEF v
<1>2. words \in Nat
  BY WordsAssumption
<1>3. w \in VectorsOf(words) /\ w.bits = v.bits \cup (indexes \cap Room(v))
  BY <1>1, <1>2, SetIndexesExact
<1> HIDE DEF w, indexes
<1>4. w \in Vectors /\ w.bits \subseteq Room(w) /\ Holds(w, indexes, bit_count)
  BY <1>1, <1>3, HoldsAdded
<1> QED BY <1>4 DEF v, w, indexes

\* The loop over cleared_resources, for one vector.
LEMMA ClearedHeld ==
  ASSUME NEW vector \in Vectors, NEW resources \in Seq(TagResource)
  PROVE  LET w == ResetBits(vector, resources)
         IN  /\ w \in Vectors
             /\ w.bits = vector.bits \ (Listed(resources, Definitions) \cap Room(vector))
             /\ BitCount(w) = BitCount(vector) /\ Room(w) = Room(vector)
<1> DEFINE w == ResetBits(vector, resources)
<1>1. vector.words \in 0 .. MaxWords /\ vector.words \in Nat /\ vector \in VectorsOf(vector.words)
  BY WordsAssumption DEF Vectors, VectorsOf
<1>2. w \in VectorsOf(vector.words)
      /\ w.bits = vector.bits \ (Listed(resources, Definitions) \cap Room(vector))
  BY <1>1, ResetBitsExact
<1> HIDE DEF w
<1>3. w \in Vectors /\ w.words = vector.words
  BY <1>1, <1>2 DEF Vectors, VectorsOf
<1>4. BitCount(w) = BitCount(vector) /\ Room(w) = Room(vector)
  BY <1>3 DEF BitCount, Room
<1> QED BY <1>2, <1>3, <1>4 DEF w

\* Such a loop leaves what a vector holds but for the cleared ones.
LEMMA ClearedStillHeld ==
  ASSUME NEW vector \in Vectors, NEW resources \in Seq(TagResource), NEW indexes, NEW bit_count,
         Holds(vector, indexes, bit_count)
  PROVE  Holds(ResetBits(vector, resources),
               indexes \ Listed(resources, Definitions), bit_count)
<1> DEFINE cleared == Listed(resources, Definitions)
           w == ResetBits(vector, resources)
<1>1. /\ w.bits = vector.bits \ (cleared \cap Room(vector))
      /\ BitCount(w) = BitCount(vector) /\ Room(w) = Room(vector)
  BY ClearedHeld
<1> HIDE DEF w, cleared
<1>2. w.bits = (indexes \ cleared) \cap Room(w)
  BY <1>1 DEF Holds
<1>3. Holds(w, indexes \ cleared, bit_count)
  BY <1>1, <1>2 DEF Holds
<1> QED BY <1>3 DEF w, cleared

-------------------------------------------------------------------------------
(* The steps that fill a row.                                                *)

\* The loop over tag_resources.
LEMMA RecordKeeps ==
  ASSUME ZoneInvariant, RecordTagResources PROVE ZoneInvariant'
<1>1. PICK row \in Rows, next \in LoopSteps :
        /\ FillManifest(row, next) /\ next = "clear_resources"
        /\ \A field \in BitFields : row[field].bits \subseteq Room(row[field])
        /\ Len(row.hierarchy) \in {0, NodeCount}
        /\ RowListed(row, builder, resources_count)
  <2> DEFINE m == manifests[manifest_index]
             list == builder.tag_resources
             count == resources_count
  <2>1. PICK required \in Resized(m.required, count), optional \in Resized(m.optional, count),
             streamed \in Resized(m.streamed, count) :
          FillManifest([m EXCEPT !.required = SetBits(Cleared(required), list, Required),
                                 !.optional = SetBits(Cleared(optional), list, Optional),
                                 !.streamed = SetBits(Cleared(streamed), list, Streamed)],
                       "clear_resources")
    BY DEF RecordTagResources
  <2>2. pc \in LoopSteps
    BY DEF RecordTagResources, LoopSteps
  <2>3. m \in Rows /\ builder \in BuilderManifest /\ manifest_index \in DOMAIN manifests
    BY <2>2, CurrentRow
  <2>4. list \in Seq(TagResource) /\ count \in Nat
    BY <2>3, Arguments DEF BuilderManifest, ZoneInvariant
  <2>5. m.required \in Vectors /\ m.optional \in Vectors /\ m.streamed \in Vectors
    BY <2>3 DEF Rows
  <2>6. /\ \A field \in BitFields : m[field].bits \subseteq Room(m[field])
        /\ Len(m.hierarchy) \in {0, NodeCount}
    BY <2>3 DEF ZoneInvariant, RowsTyped
  <2> DEFINE r == SetBits(Cleared(required), list, Required)
             o == SetBits(Cleared(optional), list, Optional)
             s == SetBits(Cleared(streamed), list, Streamed)
             row == [m EXCEPT !.required = r, !.optional = o, !.streamed = s]
  <2> HIDE DEF m, list, count
  <2>7. "null" \notin Required /\ "null" \notin Optional /\ "null" \notin Streamed
    BY DEF Required, Optional, Streamed
  <2>8. r \in Vectors /\ r.bits \subseteq Room(r) /\ Holds(r, Listed(list, Required), count)
    BY <2>1, <2>4, <2>5, <2>7, ListedHeld
  <2>9. o \in Vectors /\ o.bits \subseteq Room(o) /\ Holds(o, Listed(list, Optional), count)
    BY <2>1, <2>4, <2>5, <2>7, ListedHeld
  <2>10. s \in Vectors /\ s.bits \subseteq Room(s) /\ Holds(s, Listed(list, Streamed), count)
    BY <2>1, <2>4, <2>5, <2>7, ListedHeld
  <2>11. Listed(list, Optional) = {}
    BY DEF Listed, Optional
  <2> HIDE DEF r, o, s
  <2>12. /\ row \in Rows
         /\ row.required = r /\ row.optional = o /\ row.streamed = s
         /\ row.active = m.active /\ row.top_level = m.top_level /\ row.hierarchy = m.hierarchy
    BY <2>3, <2>8, <2>9, <2>10 DEF Rows
  <2>13. FillManifest(row, "clear_resources")
    BY <2>1 DEF r, o, s
  <2> HIDE DEF row
  <2>14. \A field \in BitFields : row[field].bits \subseteq Room(row[field])
    BY <2>6, <2>8, <2>9, <2>10, <2>12 DEF BitFields
  <2>15. RowListed(row, builder, resources_count)
    BY <2>8, <2>9, <2>10, <2>11, <2>12 DEF RowListed, Holds, Required, Streamed, list, count
  <2>16. "clear_resources" \in LoopSteps
    BY DEF LoopSteps
  <2> QED BY <2>6, <2>12, <2>13, <2>14, <2>15, <2>16
<1>2. pc \in LoopSteps
  BY DEF RecordTagResources, LoopSteps
<1>3. /\ ArgumentsTyped' /\ RowsTyped' /\ LoopInBlock' /\ RowsDone' /\ StruckExactly'
      /\ manifests'[manifest_index] = row
      /\ pc' = "clear_resources"
      /\ UNCHANGED <<arguments, manifest_index, builder>>
  BY <1>1, <1>2, FillKeeps
<1>4. RowInProgress'
  BY <1>1, <1>3 DEF RowInProgress, arguments
<1> QED BY <1>3, <1>4 DEF ZoneInvariant
\* The loop over cleared_resources.
LEMMA ClearKeeps ==
  ASSUME ZoneInvariant, ClearResources PROVE ZoneInvariant'
<1>1. PICK row \in Rows, next \in LoopSteps :
        /\ FillManifest(row, next) /\ next = "record_owners"
        /\ \A field \in BitFields : row[field].bits \subseteq Room(row[field])
        /\ Len(row.hierarchy) \in {0, NodeCount}
        /\ RowResources(row, builder, resources_count)
  <2> DEFINE m == manifests[manifest_index]
             list == builder.cleared_resources
             r == ResetBits(m.required, list)
             o == ResetBits(m.optional, list)
             s == ResetBits(m.streamed, list)
             row == [m EXCEPT !.required = r, !.optional = o, !.streamed = s]
  <2>1. pc \in LoopSteps
    BY DEF ClearResources, LoopSteps
  <2>2. m \in Rows /\ builder \in BuilderManifest /\ manifest_index \in DOMAIN manifests
    BY <2>1, CurrentRow
  <2>3. list \in Seq(TagResource)
    BY <2>2 DEF BuilderManifest
  <2>4. m.required \in Vectors /\ m.optional \in Vectors /\ m.streamed \in Vectors
    BY <2>2 DEF Rows
  <2>5. FillManifest(row, "record_owners")
    BY <2>2 DEF ClearResources, Rows
  <2>6. /\ \A field \in BitFields : m[field].bits \subseteq Room(m[field])
        /\ Len(m.hierarchy) \in {0, NodeCount}
    BY <2>2 DEF ZoneInvariant, RowsTyped
  <2>7. RowListed(m, builder, resources_count)
    BY DEF ZoneInvariant, RowInProgress, ClearResources
  <2> HIDE DEF m, list
  <2>8. /\ r \in Vectors /\ r.bits \subseteq m.required.bits /\ Room(r) = Room(m.required)
        /\ o \in Vectors /\ o.bits \subseteq m.optional.bits /\ Room(o) = Room(m.optional)
        /\ s \in Vectors /\ s.bits \subseteq m.streamed.bits /\ Room(s) = Room(m.streamed)
    <3>1. /\ r \in Vectors /\ Room(r) = Room(m.required)
          /\ r.bits = m.required.bits \ (Listed(list, Definitions) \cap Room(m.required))
      BY <2>3, <2>4, ClearedHeld
    <3>2. /\ o \in Vectors /\ Room(o) = Room(m.optional)
          /\ o.bits = m.optional.bits \ (Listed(list, Definitions) \cap Room(m.optional))
      BY <2>3, <2>4, ClearedHeld
    <3>3. /\ s \in Vectors /\ Room(s) = Room(m.streamed)
          /\ s.bits = m.streamed.bits \ (Listed(list, Definitions) \cap Room(m.streamed))
      BY <2>3, <2>4, ClearedHeld
    <3> HIDE DEF r, o, s
    <3> QED BY <3>1, <3>2, <3>3
  <2>9. /\ Holds(r, Listed(builder.tag_resources, {"immediate"}) \ Listed(list, Definitions),
                 resources_count)
        /\ Holds(s, Listed(builder.tag_resources, {"streamed"}) \ Listed(list, Definitions),
                 resources_count)
    <3>1. /\ Holds(m.required, Listed(builder.tag_resources, {"immediate"}), resources_count)
          /\ Holds(m.streamed, Listed(builder.tag_resources, {"streamed"}), resources_count)
      BY <2>7 DEF RowListed
    <3> QED BY <2>3, <2>4, <3>1, ClearedStillHeld
  <2> HIDE DEF r, o, s
  <2>10. /\ row \in Rows
         /\ row.required = r /\ row.optional = o /\ row.streamed = s
         /\ row.active = m.active /\ row.top_level = m.top_level /\ row.hierarchy = m.hierarchy
    BY <2>2, <2>8 DEF Rows
  <2> HIDE DEF row
  <2>11. \A field \in BitFields : row[field].bits \subseteq Room(row[field])
    BY <2>6, <2>8, <2>10 DEF BitFields
  <2>12. RowResources(row, builder, resources_count)
    <3>1. o.bits = {}
      BY <2>7, <2>8 DEF RowListed
    <3> QED BY <2>9, <2>10, <3>1 DEF RowResources, list
  <2>13. "record_owners" \in LoopSteps
    BY DEF LoopSteps
  <2> QED BY <2>5, <2>6, <2>10, <2>11, <2>12, <2>13
<1>2. pc \in LoopSteps
  BY DEF ClearResources, LoopSteps
<1>3. /\ ArgumentsTyped' /\ RowsTyped' /\ LoopInBlock' /\ RowsDone' /\ StruckExactly'
      /\ manifests'[manifest_index] = row
      /\ pc' = "record_owners"
      /\ UNCHANGED <<arguments, manifest_index, builder>>
  BY <1>1, <1>2, FillKeeps
<1>4. RowInProgress'
  BY <1>1, <1>3 DEF RowInProgress, arguments
<1> QED BY <1>3, <1>4 DEF ZoneInvariant

\* The two loops over owners.
LEMMA OwnersKeeps ==
  ASSUME ZoneInvariant, RecordOwners PROVE ZoneInvariant'
<1>1. PICK row \in Rows, next \in LoopSteps :
        /\ FillManifest(row, next) /\ next = "build_hierarchy"
        /\ \A field \in BitFields : row[field].bits \subseteq Room(row[field])
        /\ Len(row.hierarchy) \in {0, NodeCount}
        /\ RowResources(row, builder, resources_count)
        /\ RowOwners(row, builder, maximum_tag_instances_count)
  <2> DEFINE m == manifests[manifest_index]
             owners == builder.active_resource_owners
             tops == builder.top_level_resource_owners
             count == maximum_tag_instances_count
  <2>1. PICK active \in Resized(m.active, count), top_level \in Resized(m.top_level, count) :
          FillManifest([m EXCEPT !.active = SetIndexes(Cleared(active), owners),
                                 !.top_level = SetIndexes(Cleared(top_level), tops)],
                       "build_hierarchy")
    BY DEF RecordOwners
  <2>2. pc \in LoopSteps
    BY DEF RecordOwners, LoopSteps
  <2>3. m \in Rows /\ builder \in BuilderManifest /\ manifest_index \in DOMAIN manifests
    BY <2>2, CurrentRow
  <2>4. owners \in Seq(Nat) /\ tops \in Seq(Nat) /\ count \in Nat
    BY <2>3, Arguments DEF BuilderManifest, ZoneInvariant
  <2>5. m.active \in Vectors /\ m.top_level \in Vectors
    BY <2>3 DEF Rows
  <2>6. /\ \A field \in BitFields : m[field].bits \subseteq Room(m[field])
        /\ Len(m.hierarchy) \in {0, NodeCount}
    BY <2>3 DEF ZoneInvariant, RowsTyped
  <2>7. RowResources(m, builder, resources_count)
    BY DEF ZoneInvariant, RowInProgress, RecordOwners
  <2> DEFINE a == SetIndexes(Cleared(active), owners)
             t == SetIndexes(Cleared(top_level), tops)
             row == [m EXCEPT !.active = a, !.top_level = t]
  <2> HIDE DEF m, owners, tops, count
  <2>8. a \in Vectors /\ a.bits \subseteq Room(a)
        /\ Holds(a, {Index(h) : h \in Range(owners)}, count)
    BY <2>1, <2>4, <2>5, OwnersHeld
  <2>9. t \in Vectors /\ t.bits \subseteq Room(t)
        /\ Holds(t, {Index(h) : h \in Range(tops)}, count)
    BY <2>1, <2>4, <2>5, OwnersHeld
  <2> HIDE DEF a, t
  <2>10. /\ row \in Rows
         /\ row.active = a /\ row.top_level = t
         /\ row.required = m.required /\ row.optional = m.optional /\ row.streamed = m.streamed
         /\ row.hierarchy = m.hierarchy
    BY <2>3, <2>8, <2>9 DEF Rows
  <2>11. FillManifest(row, "build_hierarchy")
    BY <2>1 DEF a, t
  <2> HIDE DEF row
  <2>12. \A field \in BitFields : row[field].bits \subseteq Room(row[field])
    BY <2>6, <2>8, <2>9, <2>10 DEF BitFields
  <2>13. RowResources(row, builder, resources_count)
    BY <2>7, <2>10 DEF RowResources
  <2>14. RowOwners(row, builder, maximum_tag_instances_count)
    BY <2>8, <2>9, <2>10 DEF RowOwners, owners, tops, count
  <2>15. "build_hierarchy" \in LoopSteps
    BY DEF LoopSteps
  <2> QED BY <2>6, <2>10, <2>11, <2>12, <2>13, <2>14, <2>15
<1>2. pc \in LoopSteps
  BY DEF RecordOwners, LoopSteps
<1>3. /\ ArgumentsTyped' /\ RowsTyped' /\ LoopInBlock' /\ RowsDone' /\ StruckExactly'
      /\ manifests'[manifest_index] = row
      /\ pc' = "build_hierarchy"
      /\ UNCHANGED <<arguments, manifest_index, builder>>
  BY <1>1, <1>2, FillKeeps
<1>4. RowInProgress'
  BY <1>1, <1>3 DEF RowInProgress, arguments
<1> QED BY <1>3, <1>4 DEF ZoneInvariant

\* The loop over the tags.
LEMMA HierarchyKeeps ==
  ASSUME ZoneInvariant, BuildHierarchy PROVE ZoneInvariant'
<1>1. PICK row \in Rows, next \in LoopSteps :
        /\ FillManifest(row, next) /\ next = "strike_resources"
        /\ \A field \in BitFields : row[field].bits \subseteq Room(row[field])
        /\ Len(row.hierarchy) \in {0, NodeCount}
        /\ RowResources(row, builder, resources_count)
        /\ RowOwners(row, builder, maximum_tag_instances_count)
        /\ RowHierarchy(row, builder)
  <2> DEFINE m == manifests[manifest_index]
             hierarchy == VisitTags([i \in 1 .. NodeCount |-> VisitNode(0, << >>)])
             row == [m EXCEPT !.hierarchy = hierarchy]
  <2>1. pc \in LoopSteps
    BY DEF BuildHierarchy, LoopSteps
  <2>2. m \in Rows /\ builder \in BuilderManifest /\ manifest_index \in DOMAIN manifests
    BY <2>1, CurrentRow
  <2>3. FillManifest(row, "strike_resources")
    BY DEF BuildHierarchy
  <2>4. \A field \in BitFields : m[field].bits \subseteq Room(m[field])
    BY <2>2 DEF ZoneInvariant, RowsTyped
  <2>5. /\ RowResources(m, builder, resources_count)
        /\ RowOwners(m, builder, maximum_tag_instances_count)
    BY DEF ZoneInvariant, RowInProgress, BuildHierarchy
  <2>6. NodeCount \in Nat
    BY Arguments DEF ZoneInvariant
  <2>7. ASSUME NEW i \in DOMAIN Tags
        PROVE  Index(Tags[i]) < NodeCount /\ Links(Tags[i]) \in Seq(Int)
    <3>1. Tags[i] \in Nat /\ Tags[i] \in Range(Tags)
      BY ZoneAssumption DEF Range
    <3>2. Index(Tags[i]) \in Nat
      BY <3>1, IndexIsNatural
    <3>3. ~(Index(Tags[i]) >= NodeCount)
      BY DEF BuildHierarchy, HierarchyBroken
    <3>4. Links(Tags[i]) \in Seq(Int)
      BY <2>2, <3>1, ShortIsInteger DEF BuilderManifest, Attachments
    <3> QED BY <2>6, <3>2, <3>3, <3>4
  <2>8. /\ hierarchy \in [1 .. NodeCount -> VisitNodes]
        /\ \A j \in DOMAIN Tags :
             hierarchy[Index(Tags[j]) + 1] = VisitNode(Index(Tags[j]), Links(Tags[j]))
    BY <2>6, <2>7, VisitTagsExact
  <2> HIDE DEF m, hierarchy
  <2>9. hierarchy \in Seq(VisitNodes) /\ Len(hierarchy) = NodeCount
    BY <2>6, <2>8
  <2>10. /\ row \in Rows
         /\ row.hierarchy = hierarchy
         /\ row.active = m.active /\ row.top_level = m.top_level
         /\ row.required = m.required /\ row.optional = m.optional /\ row.streamed = m.streamed
    BY <2>2, <2>9 DEF Rows
  <2> HIDE DEF row
  <2>11. \A field \in BitFields : row[field].bits \subseteq Room(row[field])
    BY <2>4, <2>10 DEF BitFields
  <2>12. RowResources(row, builder, resources_count)
    BY <2>5, <2>10 DEF RowResources
  <2>13. RowOwners(row, builder, maximum_tag_instances_count)
    BY <2>5, <2>10 DEF RowOwners
  <2>14. RowHierarchy(row, builder)
    BY <2>8, <2>10 DEF RowHierarchy, Links, Attachments
  <2>15. "strike_resources" \in LoopSteps
    BY DEF LoopSteps
  <2> QED BY <2>3, <2>9, <2>10, <2>11, <2>12, <2>13, <2>14, <2>15
<1>2. pc \in LoopSteps
  BY DEF BuildHierarchy, LoopSteps
<1>3. /\ ArgumentsTyped' /\ RowsTyped' /\ LoopInBlock' /\ RowsDone' /\ StruckExactly'
      /\ manifests'[manifest_index] = row
      /\ pc' = "strike_resources"
      /\ UNCHANGED <<arguments, manifest_index, builder>>
  BY <1>1, <1>2, FillKeeps
<1>4. RowInProgress'
  BY <1>1, <1>3 DEF RowInProgress, arguments
<1> QED BY <1>3, <1>4 DEF ZoneInvariant
-------------------------------------------------------------------------------
(* The other steps.                                                          *)

\* At the head of the loop the call is at the next manifest, or it is over.
LEMMA LoopHead ==
  ASSUME ArgumentsTyped, NEW index \in Nat, NextManifest(index)
  PROVE  /\ pc' \in LoopSteps => pc' = "record_resources" /\ index <= Len(builder_manifests)
         /\ pc' \in LoopSteps \cup {"returned"}
         /\ pc' # "resize_manifests"
BY DEF NextManifest, LoopSteps

\* The block gets its rows.
LEMMA ResizeKeeps ==
  ASSUME ZoneInvariant, ResizeManifests PROVE ZoneInvariant'
<1>1. builder_manifests \in Seq(BuilderManifest)
  BY Arguments DEF ZoneInvariant
<1>2. /\ manifests = << >> /\ manifest_index = 1
      /\ manifests' = [i \in DOMAIN builder_manifests |-> NewManifest]
      /\ UNCHANGED <<builder_manifests, resources_count, maximum_tag_instances_count, asked,
                     in_out_used_resources, manifest_index>>
  BY DEF ZoneInvariant, LoopInBlock, ResizeManifests, arguments
<1>3. ArgumentsTyped'
  BY <1>2 DEF ZoneInvariant, ArgumentsTyped
<1>4. NewManifest \in Rows
  <2>1. NoBits \in Vectors
    BY WordsAssumption DEF NoBits, Vectors
  <2> QED BY <2>1 DEF NewManifest, Rows
<1>5. /\ manifests' \in Seq(Rows) /\ Len(manifests') = Len(builder_manifests)
      /\ \A i \in DOMAIN manifests' : manifests'[i] = NewManifest
  BY <1>1, <1>2, <1>4
<1>6. RowsTyped'
  <2>1. \A field \in BitFields : NewManifest[field].bits \subseteq Room(NewManifest[field])
    BY DEF BitFields, NewManifest, NoBits
  <2>2. Len(NewManifest.hierarchy) = 0
    BY DEF NewManifest
  <2>3. \A i \in DOMAIN manifests' :
          /\ \A field \in BitFields :
               manifests'[i][field].bits \subseteq Room(manifests'[i][field])
          /\ Len(manifests'[i].hierarchy) \in {0, NodeCount'}
    BY <1>5, <2>1, <2>2
  <2> QED BY <1>5, <2>3 DEF RowsTyped
<1>7. /\ pc' \in LoopSteps => pc' = "record_resources" /\ 1 <= Len(builder_manifests)
      /\ pc' \in LoopSteps \cup {"returned"}
      /\ pc' # "resize_manifests"
  BY LoopHead DEF ResizeManifests, ZoneInvariant
<1>8. LoopInBlock'
  BY <1>1, <1>2, <1>5, <1>7 DEF LoopInBlock
<1>9. Done' = {} /\ Done = {}
  <2>1. \A i \in DOMAIN manifests' : i \in Nat /\ ~(i < 1)
    BY <1>5
  <2>2. Done' = {}
    BY <1>2, <2>1 DEF Done
  <2> QED BY <1>2, <2>2 DEF Done
<1>10. RowsDone' /\ StruckExactly'
  BY <1>2, <1>9 DEF ZoneInvariant, RowsDone, StruckExactly
<1>11. RowInProgress'
  BY <1>7 DEF RowInProgress, LoopSteps
<1> QED BY <1>3, <1>6, <1>8, <1>10, <1>11 DEF ZoneInvariant

\* The row is done once its resources are struck.
LEMMA StrikeKeeps ==
  ASSUME ZoneInvariant, StrikeResources PROVE ZoneInvariant'
<1>1. pc \in LoopSteps /\ pc = "strike_resources"
  BY DEF StrikeResources, LoopSteps
<1>2. builder_manifests \in Seq(BuilderManifest) /\ manifests \in Seq(Rows)
  BY Arguments DEF ZoneInvariant, RowsTyped
<1>3. /\ manifest_index' = manifest_index + 1
      /\ manifest_index \in 1 .. Len(builder_manifests)
      /\ manifest_index \in DOMAIN manifests /\ manifest_index \in Nat
      /\ manifest_index + 1 \in Nat
      /\ UNCHANGED <<builder_manifests, resources_count, maximum_tag_instances_count, asked,
                     manifests>>
  BY <1>1, <1>2, CurrentRow DEF StrikeResources, arguments
<1>4. ArgumentsTyped'
  BY <1>3 DEF ZoneInvariant, ArgumentsTyped
<1>5. RowsTyped'
  <2>1. UNCHANGED NodeCount
    BY <1>3 DEF NodeCount
  <2> QED BY <1>3, <2>1 DEF ZoneInvariant, RowsTyped
<1>6. /\ pc' \in LoopSteps => pc' = "record_resources" /\ manifest_index' <= Len(builder_manifests)
      /\ pc' \in LoopSteps \cup {"returned"}
      /\ pc' # "resize_manifests"
  <2>1. NextManifest(manifest_index + 1)
    BY <1>3 DEF StrikeResources, NextManifest
  <2> QED BY <1>3, <2>1, LoopHead DEF ZoneInvariant
<1>7. LoopInBlock'
  <2>1. Len(manifests) = Len(builder_manifests) /\ Len(builder_manifests) \in Nat
    BY <1>1, <1>2 DEF ZoneInvariant, LoopInBlock
  <2> QED BY <1>3, <1>6, <2>1 DEF LoopInBlock
<1>8. Done' = Done \cup {manifest_index}
  <2>1. \A i \in DOMAIN manifests : i \in Nat
    BY <1>2
  <2> QED BY <1>3, <2>1 DEF Done
<1>9. RowsDone'
  <2>1. /\ RowResources(manifests[manifest_index], builder, resources_count)
        /\ RowOwners(manifests[manifest_index], builder, maximum_tag_instances_count)
        /\ RowHierarchy(manifests[manifest_index], builder)
    BY <1>1 DEF ZoneInvariant, RowInProgress
  <2>2. \A i \in Done' :
          /\ RowResources(manifests[i], builder_manifests[i], resources_count)
          /\ RowOwners(manifests[i], builder_manifests[i], maximum_tag_instances_count)
          /\ RowHierarchy(manifests[i], builder_manifests[i])
    BY <1>8, <2>1 DEF ZoneInvariant, RowsDone, builder
  <2> QED BY <1>3, <2>2 DEF RowsDone
<1>10. StruckExactly'
  <2> DEFINE m == manifests[manifest_index]
             used == in_out_used_resources
             before == UNION {UsedBy(i) : i \in Done}
  <2>1. m.optional.bits = {}
    BY <1>1 DEF ZoneInvariant, RowInProgress, RowResources
  <2>2. used' = ((used \ m.required.bits) \ m.optional.bits) \ m.streamed.bits
    BY DEF StrikeResources, NotAnd
  <2>3. used = asked.bits \ before
    BY DEF ZoneInvariant, StruckExactly
  <2>4. UNION {UsedBy(i)' : i \in Done'} = before \cup UsedBy(manifest_index)
    <3>1. \A i : UsedBy(i)' = UsedBy(i)
      BY <1>3 DEF UsedBy
    <3>2. UNION {UsedBy(i)' : i \in Done'} = UNION {UsedBy(i) : i \in Done \cup {manifest_index}}
      BY <1>8, <3>1
    <3>3. UNION {UsedBy(i) : i \in Done \cup {manifest_index}} = before \cup UsedBy(manifest_index)
      BY Zenon
    <3> QED BY <3>2, <3>3
  <2>5. UsedBy(manifest_index) = m.required.bits \cup m.streamed.bits
    BY DEF UsedBy
  <2> HIDE DEF m, before
  <2>6. used' = asked.bits \ (before \cup UsedBy(manifest_index))
    BY <2>1, <2>2, <2>3, <2>5
  <2> QED BY <1>3, <2>4, <2>6 DEF StruckExactly
<1>11. RowInProgress'
  BY <1>6 DEF RowInProgress, LoopSteps
<1> QED BY <1>4, <1>5, <1>7, <1>9, <1>10, <1>11 DEF ZoneInvariant

\* An assert that fails, and a step that does nothing, leave all as it was.
LEMMA AbortKeeps ==
  ASSUME ZoneInvariant, Abort \/ UNCHANGED vars PROVE ZoneInvariant'
<1>1. /\ pc' = "aborted" \/ UNCHANGED pc
      /\ UNCHANGED <<builder_manifests, resources_count, maximum_tag_instances_count, asked,
                     in_out_used_resources, manifests, manifest_index>>
  BY DEF Abort, vars, arguments
<1>2. UNCHANGED <<NodeCount, Done, builder>> /\ \A i : UsedBy(i)' = UsedBy(i)
  BY <1>1 DEF NodeCount, Done, builder, UsedBy
<1>3. ArgumentsTyped' /\ RowsTyped' /\ RowsDone'
  BY <1>1, <1>2 DEF ZoneInvariant, ArgumentsTyped, RowsTyped, RowsDone
<1>4. StruckExactly'
  BY <1>1, <1>2 DEF ZoneInvariant, StruckExactly
<1>5. LoopInBlock'
  BY <1>1 DEF ZoneInvariant, LoopInBlock, LoopSteps
<1>6. RowInProgress'
  BY <1>1, <1>2 DEF ZoneInvariant, RowInProgress
<1> QED BY <1>3, <1>4, <1>5, <1>6 DEF ZoneInvariant

\* Every step keeps the invariant.
LEMMA NextZone == ZoneInvariant /\ [Next]_vars => ZoneInvariant'
<1> SUFFICES ASSUME ZoneInvariant, [Next]_vars PROVE ZoneInvariant'
  OBVIOUS
<1>1. CASE ResizeManifests
  BY <1>1, ResizeKeeps
<1>2. CASE RecordTagResources
  BY <1>2, RecordKeeps
<1>3. CASE ClearResources
  BY <1>3, ClearKeeps
<1>4. CASE RecordOwners
  BY <1>4, OwnersKeeps
<1>5. CASE BuildHierarchy
  BY <1>5, HierarchyKeeps
<1>6. CASE StrikeResources
  BY <1>6, StrikeKeeps
<1>7. CASE ManifestIndexAsserts \/ DefinitionAsserts \/ HierarchyAsserts \/ BitCountAsserts
  BY <1>7, AbortKeeps DEF ManifestIndexAsserts, DefinitionAsserts, HierarchyAsserts, BitCountAsserts
<1>8. CASE Finished \/ UNCHANGED vars
  BY <1>8, AbortKeeps DEF Finished
<1> QED BY <1>1, <1>2, <1>3, <1>4, <1>5, <1>6, <1>7, <1>8 DEF Next, CallStep

\* It holds from the first step on.
LEMMA ZoneHolds == Spec => []ZoneInvariant
BY InitZone, NextZone, PTL DEF Spec

-------------------------------------------------------------------------------
(* The theorems.                                                             *)

\* What holds just the indexes it has room for records them.
LEMMA HoldsRecords ==
  ASSUME NEW vector, NEW indexes, NEW bit_count \in Nat, BitCount(vector) \in Nat,
         Holds(vector, indexes, bit_count)
  PROVE  Records(vector, indexes, bit_count)
<1>1. vector.bits \subseteq indexes
  BY DEF Holds
<1>2. ASSUME bit_count <= WordBits * MaxWords
      PROVE  indexes \cap 0 .. bit_count - 1 \subseteq vector.bits
  <2>1. bit_count <= BitCount(vector)
    BY <1>2 DEF Holds
  <2>2. 0 .. bit_count - 1 \subseteq Room(vector)
    BY <2>1 DEF Room
  <2> QED BY <2>2 DEF Holds
<1> QED BY <1>1, <1>2 DEF Records

\* A vector of the right type has a number of bits.
LEMMA BitCountIsNatural ==
  ASSUME NEW vector \in Vectors PROVE BitCount(vector) \in Nat /\ vector.words \in 0 .. MaxWords
                                      /\ DOMAIN vector = {"words", "bits"}
<1>1. vector.words \in 0 .. MaxWords /\ WordBits \in Nat /\ MaxWords \in Nat
  BY WordsAssumption DEF Vectors
<1>2. WordBits * vector.words \in Nat
  BY <1>1
<1>3. DOMAIN vector = {"words", "bits"}
  BY DEF Vectors
<1> QED BY <1>1, <1>2, <1>3 DEF BitCount

\* Type correctness: whatever the block's new words hold, and whatever the resizes had
\* room for, no vector has a bit outside its words.
THEOREM TypeCorrect == Spec => []TypeOK
<1>1. ZoneInvariant => TypeOK
  <2> SUFFICES ASSUME ZoneInvariant PROVE TypeOK
    OBVIOUS
  <2>1. /\ builder_manifests \in BuilderArrays /\ resources_count \in ResourcesCounts
        /\ maximum_tag_instances_count \in MaximumTagInstancesCounts
    BY DEF ZoneInvariant, ArgumentsTyped
  <2>2. in_out_used_resources \subseteq 0 .. asked.bit_count - 1
    BY Arguments DEF ZoneInvariant, StruckExactly
  <2>3. ASSUME NEW i \in DOMAIN manifests, NEW field \in BitFields
        PROVE  IsVector(manifests[i][field])
    <3>1. manifests[i] \in Rows
      BY DEF ZoneInvariant, RowsTyped
    <3>2. manifests[i][field] \in Vectors
      BY <3>1 DEF Rows, BitFields
    <3>3. manifests[i][field].bits \subseteq Room(manifests[i][field])
      BY DEF ZoneInvariant, RowsTyped
    <3> QED BY <3>2, <3>3, BitCountIsNatural DEF IsVector, Room
  <2>4. \A i \in DOMAIN manifests : Len(manifests[i].hierarchy) \in {0, NodeCount}
    BY DEF ZoneInvariant, RowsTyped
  <2>5. manifest_index \in 1 .. Len(builder_manifests) + 1
    BY DEF ZoneInvariant, LoopInBlock
  <2>6. pc \in LoopSteps \cup {"resize_manifests", "returned", "aborted"}
    BY DEF ZoneInvariant, LoopInBlock
  <2> QED BY <2>1, <2>2, <2>3, <2>4, <2>5, <2>6 DEF TypeOK, LoopSteps, BitFields
<1> QED BY <1>1, ZoneHolds, PTL

\* What is known of a row that is done.
LEMMA DoneRow ==
  ASSUME ZoneInvariant, NEW i \in Done
  PROVE  /\ RowResources(manifests[i], builder_manifests[i], resources_count)
         /\ RowOwners(manifests[i], builder_manifests[i], maximum_tag_instances_count)
         /\ RowHierarchy(manifests[i], builder_manifests[i])
         /\ \A field \in BitFields : BitCount(manifests[i][field]) \in Nat
         /\ resources_count \in Nat /\ maximum_tag_instances_count \in Nat
<1>1. i \in DOMAIN manifests /\ manifests[i] \in Rows
  BY DEF ZoneInvariant, RowsTyped, Done
<1>2. ASSUME NEW field \in BitFields PROVE BitCount(manifests[i][field]) \in Nat
  <2>1. manifests[i][field] \in Vectors
    BY <1>1 DEF Rows, BitFields
  <2> QED BY <2>1, BitCountIsNatural
<1>3. resources_count \in Nat /\ maximum_tag_instances_count \in Nat
  BY Arguments DEF ZoneInvariant
<1> QED BY <1>2, <1>3 DEF ZoneInvariant, RowsDone

\* A row records each resource of its manifest as the manifest lists it, but for those
\* it clears, whatever its words held before and however many it has.
THEOREM ResourcesAlwaysRecorded == Spec => []ResourcesRecorded
<1>1. ZoneInvariant => ResourcesRecorded
  <2> SUFFICES ASSUME ZoneInvariant, NEW i \in Done
               PROVE  LET from == builder_manifests[i]
                          cleared == Listed(from.cleared_resources, Definitions)
                          Wanted(definition) == Listed(from.tag_resources, {definition}) \ cleared
                      IN  /\ Records(manifests[i].required, Wanted("immediate"), resources_count)
                          /\ Records(manifests[i].streamed, Wanted("streamed"), resources_count)
                          /\ manifests[i].optional.bits = {}
    BY DEF ResourcesRecorded
  <2>1. /\ RowResources(manifests[i], builder_manifests[i], resources_count)
        /\ BitCount(manifests[i].required) \in Nat /\ BitCount(manifests[i].streamed) \in Nat
        /\ resources_count \in Nat
    BY DoneRow DEF BitFields
  <2> QED BY <2>1, HoldsRecords DEF RowResources
<1> QED BY <1>1, ZoneHolds, PTL

\* A row records the owners of its manifest, each kind in its own vector.
THEOREM OwnersAlwaysRecorded == Spec => []OwnersRecorded
<1>1. ZoneInvariant => OwnersRecorded
  <2> SUFFICES ASSUME ZoneInvariant, NEW i \in Done
               PROVE  LET from == builder_manifests[i]
                          Indexes(handles) == {Index(h) : h \in Range(handles)}
                      IN  /\ Records(manifests[i].active, Indexes(from.active_resource_owners),
                                     maximum_tag_instances_count)
                          /\ Records(manifests[i].top_level,
                                     Indexes(from.top_level_resource_owners),
                                     maximum_tag_instances_count)
    BY DEF OwnersRecorded
  <2>1. /\ RowOwners(manifests[i], builder_manifests[i], maximum_tag_instances_count)
        /\ BitCount(manifests[i].active) \in Nat /\ BitCount(manifests[i].top_level) \in Nat
        /\ maximum_tag_instances_count \in Nat
    BY DoneRow DEF BitFields
  <2> QED BY <2>1, HoldsRecords DEF RowOwners
<1> QED BY <1>1, ZoneHolds, PTL

\* Each tag is at its own index in the hierarchy of a row, with the children the builder
\* attached to that handle: whatever the number of tags, the shorts the row keeps them in
\* give every index back when they are read as uns16.
THEOREM HierarchyAlwaysRecorded == Spec => []HierarchyRecorded
<1>1. ASSUME NEW handle \in Nat PROVE Index(handle) \in 0 .. IndexModulus - 1
  <2>1. IndexModulus \in Nat \ {0} /\ handle \in Int
    BY ZoneAssumption
  <2> QED BY <2>1, CastTypes DEF Index
<1>2. ASSUME NEW index \in 0 .. IndexModulus - 1 PROVE Keeps(Short(index), index)
  BY ZoneAssumption, SignedIsReadBack DEF Keeps, Short
<1>3. ASSUME ZoneInvariant, NEW i \in Done, NEW j \in DOMAIN Tags
      PROVE  LET node     == manifests[i].hierarchy[Index(Tags[j]) + 1]
                 children == builder_manifests[i].attachments[Tags[j]]
             IN  /\ Keeps(node.resource_owner_index, Index(Tags[j]))
                 /\ Len(node.child_node_indices) = Len(children)
                 /\ \A k \in DOMAIN children : Keeps(node.child_node_indices[k], children[k])
  <2> DEFINE node     == manifests[i].hierarchy[Index(Tags[j]) + 1]
             children == builder_manifests[i].attachments[Tags[j]]
             links    == [k \in DOMAIN children |-> Short(children[k])]
  <2>1. node = VisitNode(Index(Tags[j]), links)
    BY <1>3, DoneRow DEF RowHierarchy
  <2>2. Tags[j] \in Nat /\ Tags[j] \in Range(Tags) /\ Index(Tags[j]) \in 0 .. IndexModulus - 1
    <3>1. Tags[j] \in Nat /\ Tags[j] \in Range(Tags)
      BY ZoneAssumption DEF Range
    <3> QED BY <1>1, <3>1
  <2>3. children \in Seq(0 .. IndexModulus - 1)
    <3>1. i \in DOMAIN builder_manifests /\ builder_manifests \in Seq(BuilderManifest)
      BY <1>3, ZoneAssumption, LenProperties
         DEF ZoneInvariant, LoopInBlock, ArgumentsTyped, RowsTyped, Done
    <3>2. builder_manifests[i] \in BuilderManifest
      BY <3>1
    <3> QED BY <2>2, <3>2 DEF BuilderManifest
  <2>4. Len(links) = Len(children) /\ \A k \in DOMAIN children : links[k] = Short(children[k])
    <3>1. Len(children) \in Nat /\ DOMAIN children = 1 .. Len(children)
      BY <2>3
    <3>2. \A k \in DOMAIN children : children[k] \in Nat
      BY <2>3, ZoneAssumption
    <3> HIDE DEF children
    <3>3. links \in [1 .. Len(children) -> Int]
      BY <3>1, <3>2, ShortIsInteger
    <3>4. \A k \in DOMAIN children : links[k] = Short(children[k])
      OBVIOUS
    <3> HIDE DEF links
    <3>5. links \in Seq(Int) /\ DOMAIN links = 1 .. Len(children)
      BY <3>1, <3>3
    <3>6. Len(links) = Len(children)
      BY <3>1, <3>5, LenProperties
    <3> QED BY <3>1, <3>4, <3>6
  <2>5. \A k \in DOMAIN children : children[k] \in 0 .. IndexModulus - 1
    <3> HIDE DEF children
    <3>1. children \in [1 .. Len(children) -> 0 .. IndexModulus - 1]
      BY <2>3, LenProperties
    <3> HIDE DEF node, links
    <3> QED BY <3>1, Zenon
  <2>6. node.resource_owner_index = Short(Index(Tags[j])) /\ node.child_node_indices = links
    BY <2>1 DEF VisitNode
  <2> HIDE DEF node, children, links
  <2> QED BY <1>2, <2>2, <2>4, <2>5, <2>6 DEF node, children
<1>4. ZoneInvariant => HierarchyRecorded
  BY <1>3 DEF HierarchyRecorded
<1> QED BY <1>4, ZoneHolds, PTL

\* What the caller reads afterwards are the resources it asked about that no row requires
\* or streams.
THEOREM AlwaysStruckExactly == Spec => []StruckExactly
<1>1. ZoneInvariant => StruckExactly
  BY DEF ZoneInvariant
<1> QED BY <1>1, ZoneHolds, PTL

\* No step touches a row once its resources have been struck.
THEOREM DoneRowsFinal == Spec => RowsFinal
<1>1. ZoneInvariant /\ [Next]_vars => [\A i \in Done : manifests'[i] = manifests[i]]_vars
  <2> SUFFICES ASSUME ZoneInvariant, Next, NEW i \in Done PROVE manifests'[i] = manifests[i]
    OBVIOUS
  <2>1. i \in DOMAIN manifests /\ i < manifest_index /\ manifests \in Seq(Rows)
    BY DEF Done, ZoneInvariant, RowsTyped
  <2>2. i # manifest_index
    BY <2>1 DEF ZoneInvariant, LoopInBlock
  <2>3. ASSUME NEW row, NEW next, FillManifest(row, next) PROVE manifests'[i] = manifests[i]
    BY <2>1, <2>2, <2>3 DEF FillManifest
  <2>4. CASE ResizeManifests
    BY <2>1, <2>4 DEF ResizeManifests, ZoneInvariant, LoopInBlock
  <2>5. CASE RecordTagResources
    BY <2>3, <2>5 DEF RecordTagResources
  <2>6. CASE ClearResources
    BY <2>3, <2>6 DEF ClearResources
  <2>7. CASE RecordOwners
    BY <2>3, <2>7 DEF RecordOwners
  <2>8. CASE BuildHierarchy
    BY <2>3, <2>8 DEF BuildHierarchy
  <2>9. CASE StrikeResources
    BY <2>9 DEF StrikeResources
  <2>10. CASE ManifestIndexAsserts \/ DefinitionAsserts \/ HierarchyAsserts \/ BitCountAsserts
    BY <2>10 DEF ManifestIndexAsserts, DefinitionAsserts, HierarchyAsserts, BitCountAsserts, Abort
  <2>11. CASE Finished
    BY <2>11 DEF Finished, vars
  <2> QED BY <2>4, <2>5, <2>6, <2>7, <2>8, <2>9, <2>10, <2>11 DEF Next, CallStep
<1> QED BY <1>1, ZoneHolds, PTL DEF Spec, RowsFinal
=============================================================================
