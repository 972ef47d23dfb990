-------------------------- MODULE StreamingTableProofs --------------------------
(***************************************************************************)
(* Proofs about StreamingTable, for any procedures and blocks of any size: *)
(* that what ResourceGestalt takes for one step is what the function does  *)
(* statement by statement, and that a reader of the map therefore finds    *)
(* what LocationPromise says.                                              *)
(***************************************************************************)
EXTENDS StreamingTable, ResourceGestaltProofs

-------------------------------------------------------------------------------
(* What reaches a stream.                                                    *)

Emission == [stream : {"primary", "null"}, row : StreamingSublocation]

\* What has reached a stream after so many rows of an emission.
IsWriting(a, stream, rows) ==
  /\ a \in [0 .. Len(rows) -> Seq(StreamingSublocation)]
  /\ a[0] = << >>
  /\ \A k \in 0 .. Len(rows) - 1 :
       a[k + 1] = IF rows[k + 1].stream = stream THEN Append(a[k], rows[k + 1].row) ELSE a[k]
  /\ a[Len(rows)] = WrittenTo(stream, rows)

\* An emission reaches a stream row by row.
LEMMA WrittenSteps ==
  ASSUME NEW stream, NEW rows \in Seq(Emission)
  PROVE  \E a : IsWriting(a, stream, rows)
<1> DEFINE n == Len(rows)
           V == Seq(StreamingSublocation)
           none == << >>
           Step(v, i) == IF rows[i].stream = stream THEN Append(v, rows[i].row) ELSE v
           F == [p \in (1 .. n) \X V |-> Step(p[2], p[1])]
           Fold(f) == f = [s \in SUBSET (1 .. n) |->
                           IF s = {} THEN none ELSE Step(f[s \ {Max(s)}], Max(s))]
           iter == CHOOSE f : Fold(f)
<1>1. n \in Nat /\ DOMAIN rows = 1 .. n /\ \A i \in 1 .. n : rows[i].row \in StreamingSublocation
  <2>1. \A i \in 1 .. Len(rows) : rows[i] \in Emission
    OBVIOUS
  <2> QED BY <2>1 DEF Emission
<1>2. WrittenTo(stream, rows) = iter[1 .. n]
  <2>1. WrittenTo(stream, rows) = iter[DOMAIN rows]
    BY <1>1 DEF WrittenTo, FoldLeft, MapThenFoldSet
  <2> QED BY <2>1, <1>1
<1>3. F \in FoldFunctions(n, V) /\ none \in V
  <2>1. ASSUME NEW v \in V, NEW i \in 1 .. n PROVE Step(v, i) \in V
    BY <1>1
  <2>2. none \in V
    OBVIOUS
  <2> HIDE DEF Step, V, none
  <2> QED BY <2>1, <2>2 DEF FoldFunctions
<1>4. \A v \in V, i \in 1 .. n : F[<<i, v>>] = Step(v, i)
  OBVIOUS
<1> HIDE DEF n, Step, F, iter, V, none
<1>5. \A s \in SUBSET (1 .. n) : s # {} => Max(s) \in 1 .. n /\ s \ {Max(s)} \in SUBSET (1 .. n)
  BY <1>1, MaxIsElement
<1>6. \E g : Fold(g)
  <2> HIDE DEF Fold
  <2>1. PICK g : IsFold(g, n, V, none, F)
    BY <1>1, <1>3, FoldExists
  <2>2. \A s \in SUBSET (1 .. n) :
          g[s] = IF s = {} THEN none ELSE Step(g[s \ {Max(s)}], Max(s))
    <3>1. \A s \in SUBSET (1 .. n) : s # {} => g[s \ {Max(s)}] \in V
      BY <1>5, <2>1 DEF IsFold
    <3> QED BY <1>4, <1>5, <2>1, <3>1 DEF IsFold
  <2>3. Fold(g)
    BY <2>1, <2>2 DEF Fold, IsFold
  <2> QED BY <2>3
<1>7. Fold(iter)
  <2> HIDE DEF Fold
  <2> QED BY <1>6 DEF iter
<1>8. FoldsAsLongAsIn(iter, n, V, none, F)
  BY <1>4, <1>5, <1>7 DEF FoldsAsLongAsIn
<1> HIDE DEF Fold
<1>9. PICK a : IsRunOfFold(a, n, V, none, F) /\ a[n] = iter[1 .. n]
  BY <1>1, <1>3, <1>8, FoldSteps
<1>10. ASSUME NEW k \in 0 .. n - 1 PROVE a[k + 1] = Step(a[k], k + 1)
  <2>1. k + 1 \in 1 .. n /\ k \in 0 .. n
    BY <1>1
  <2> QED BY <1>4, <1>9, <2>1 DEF IsRunOfFold
<1> QED BY <1>2, <1>9, <1>10 DEF n, Step, V, none, IsRunOfFold, IsWriting

\* The first rows of an emission, and one more.
LEMMA OneMoreRow ==
  ASSUME NEW stream, NEW rows \in Seq(Emission), NEW k \in 0 .. Len(rows) - 1
  PROVE  LET before == WrittenTo(stream, SubSeq(rows, 1, k))
             after  == WrittenTo(stream, SubSeq(rows, 1, k + 1))
         IN  /\ before \in Seq(StreamingSublocation)
             /\ after = IF rows[k + 1].stream = stream THEN Append(before, rows[k + 1].row)
                        ELSE before
<1> DEFINE first == SubSeq(rows, 1, k)
           more  == SubSeq(rows, 1, k + 1)
<1>1. /\ k \in Nat
      /\ first \in Seq(Emission) /\ Len(first) = k /\ \A i \in 1 .. k : first[i] = rows[i]
      /\ more \in Seq(Emission) /\ Len(more) = k + 1 /\ \A i \in 1 .. k + 1 : more[i] = rows[i]
  OBVIOUS
<1> HIDE DEF first, more
<1>2. PICK a : IsWriting(a, stream, first)
  BY <1>1, WrittenSteps
<1>3. PICK b : IsWriting(b, stream, more)
  BY <1>1, WrittenSteps
<1> DEFINE Same == {j \in 0 .. k : a[j] = b[j]}
<1>4. \A j \in 0 .. k : j \in Same
  <2>1. 0 \in Same
    BY <1>1, <1>2, <1>3 DEF IsWriting
  <2>2. ASSUME NEW j \in 0 .. k - 1, j \in Same PROVE j + 1 \in Same
    <3>1. j + 1 \in 1 .. k /\ j + 1 \in 1 .. k + 1 /\ j \in 0 .. (k + 1) - 1 /\ j + 1 \in 0 .. k
      BY <1>1
    <3>2. first[j + 1] = rows[j + 1] /\ more[j + 1] = rows[j + 1]
      BY <1>1, <3>1
    <3>3. a[j + 1] = IF rows[j + 1].stream = stream THEN Append(a[j], rows[j + 1].row) ELSE a[j]
      BY <1>1, <1>2, <3>1, <3>2 DEF IsWriting
    <3>4. b[j + 1] = IF rows[j + 1].stream = stream THEN Append(b[j], rows[j + 1].row) ELSE b[j]
      BY <1>1, <1>3, <3>1, <3>2 DEF IsWriting
    <3> QED BY <2>2, <3>1, <3>3, <3>4
  <2> HIDE DEF Same
  <2> QED BY <1>1, <2>1, <2>2, AllUpTo
<1>5. a[k] = b[k] /\ a[k] \in Seq(StreamingSublocation)
  <2>1. k \in 0 .. k
    BY <1>1
  <2> QED BY <1>1, <1>2, <1>4, <2>1 DEF IsWriting
<1>6. b[k + 1] = IF rows[k + 1].stream = stream THEN Append(b[k], rows[k + 1].row) ELSE b[k]
  <2>1. k \in 0 .. (k + 1) - 1 /\ k + 1 \in 1 .. k + 1
    BY <1>1
  <2>2. more[k + 1] = rows[k + 1]
    BY <1>1, <2>1
  <2> QED BY <1>1, <1>3, <2>1, <2>2 DEF IsWriting
<1>7. a[k] = WrittenTo(stream, first) /\ b[k + 1] = WrittenTo(stream, more)
  BY <1>1, <1>2, <1>3 DEF IsWriting
<1> QED BY <1>5, <1>6, <1>7 DEF first, more

\* Before the first row nothing has reached a stream.
LEMMA NothingWritten ==
  ASSUME NEW stream, NEW rows \in Seq(Emission)
  PROVE  WrittenTo(stream, SubSeq(rows, 1, 0)) = << >>
<1>1. SubSeq(rows, 1, 0) = << >> /\ << >> \in Seq(Emission) /\ Len(<< >>) = 0
  OBVIOUS
<1>2. PICK a : IsWriting(a, stream, << >>)
  BY <1>1, WrittenSteps
<1> QED BY <1>1, <1>2 DEF IsWriting

\* What reaches a stream are rows, and what has reached it is not taken back.
LEMMA WrittenGrows ==
  ASSUME NEW stream, NEW rows \in Seq(Emission)
  PROVE  /\ WrittenTo(stream, rows) \in Seq(StreamingSublocation)
         /\ \A k \in 0 .. Len(rows) :
              /\ WrittenTo(stream, SubSeq(rows, 1, k)) \in Seq(StreamingSublocation)
              /\ Len(WrittenTo(stream, SubSeq(rows, 1, k))) <= Len(WrittenTo(stream, rows))
<1> DEFINE n == Len(rows)
           w == [k \in 0 .. n |-> WrittenTo(stream, SubSeq(rows, 1, k))]
           Rows == {k \in 0 .. n : w[k] \in Seq(StreamingSublocation)}
<1>0. n \in Nat
  OBVIOUS
<1>1. ASSUME NEW k \in 0 .. n - 1
      PROVE  /\ rows[k + 1].row \in StreamingSublocation
             /\ w[k] \in Seq(StreamingSublocation)
             /\ w[k + 1] = IF rows[k + 1].stream = stream THEN Append(w[k], rows[k + 1].row)
                           ELSE w[k]
  <2>1. rows[k + 1] \in Emission /\ k \in 0 .. n /\ k + 1 \in 0 .. n
    OBVIOUS
  <2>2. rows[k + 1].row \in StreamingSublocation
    BY <2>1 DEF Emission
  <2> QED BY <2>1, <2>2, OneMoreRow
<1>2. \A k \in 0 .. n : k \in Rows
  <2>1. 0 \in Rows
    <3>1. w[0] = << >>
      BY <1>0, NothingWritten
    <3>2. << >> \in Seq(StreamingSublocation)
      OBVIOUS
    <3> HIDE DEF w
    <3>3. w[0] \in Seq(StreamingSublocation)
      BY <3>1, <3>2
    <3> QED BY <1>0, <3>3
  <2> HIDE DEF w, n
  <2>2. ASSUME NEW k \in 0 .. n - 1, k \in Rows PROVE k + 1 \in Rows
    <3>1. k + 1 \in 0 .. n
      BY <1>0
    <3>2. /\ rows[k + 1].row \in StreamingSublocation /\ w[k] \in Seq(StreamingSublocation)
          /\ w[k + 1] = IF rows[k + 1].stream = stream THEN Append(w[k], rows[k + 1].row)
                        ELSE w[k]
      BY <1>1
    <3>3. w[k + 1] \in Seq(StreamingSublocation)
      BY <3>2
    <3> QED BY <3>1, <3>3
  <2> HIDE DEF Rows
  <2> QED BY <1>0, <2>1, <2>2, AllUpTo
<1> HIDE DEF n
<1>3. ASSUME NEW k \in 0 .. n PROVE Len(w[k]) <= Len(w[n])
  <2> DEFINE Good == {j \in 0 .. n - k : Len(w[k]) <= Len(w[k + j])}
  <2> HIDE DEF w
  <2>1. 0 \in Good
    BY <1>0, <1>2
  <2>2. ASSUME NEW j \in 0 .. (n - k) - 1, j \in Good PROVE j + 1 \in Good
    <3>1. /\ k + j \in 0 .. n - 1 /\ k + j \in 0 .. n
          /\ k + (j + 1) = (k + j) + 1 /\ j + 1 \in 0 .. n - k
      BY <1>0
    <3>2. w[k] \in Seq(StreamingSublocation) /\ w[k + j] \in Seq(StreamingSublocation)
      BY <1>2, <3>1
    <3>3. Len(w[k + j]) <= Len(w[(k + j) + 1]) /\ Len(w[(k + j) + 1]) \in Nat
      <4>1. /\ rows[(k + j) + 1].row \in StreamingSublocation
            /\ w[(k + j) + 1] = IF rows[(k + j) + 1].stream = stream
                                THEN Append(w[k + j], rows[(k + j) + 1].row) ELSE w[k + j]
        BY <1>1, <3>1
      <4> QED BY <3>2, <4>1
    <3>4. Len(w[k]) <= Len(w[k + j]) /\ Len(w[k]) \in Nat /\ Len(w[k + j]) \in Nat
      BY <2>2, <3>2
    <3>5. Len(w[k]) <= Len(w[(k + j) + 1])
      BY <3>3, <3>4
    <3> QED BY <3>1, <3>5
  <2>3. n - k \in Nat /\ k + (n - k) = n /\ n - k \in 0 .. n - k
    BY <1>0
  <2>4. \A j \in 0 .. n - k : j \in Good
    <3> HIDE DEF Good
    <3> QED BY <2>1, <2>2, <2>3, AllUpTo
  <2> QED BY <2>3, <2>4
<1>4. n \in 0 .. n
  BY <1>0
<1>5. w[n] = WrittenTo(stream, rows)
  <2>1. SubSeq(rows, 1, n) = rows
    BY DEF n
  <2> QED BY <1>4, <2>1
<1> QED BY <1>2, <1>3, <1>4, <1>5 DEF n

-------------------------------------------------------------------------------
(* The sum so far.                                                           *)

\* What the loop has summed after so many rows.
IsTotalling(a, rows) ==
  /\ a \in [0 .. Len(rows) -> Nat]
  /\ a[0] = 0
  /\ \A k \in 0 .. Len(rows) - 1 :
       a[k + 1] = Unsigned(a[k] + rows[k + 1].memory_size, LongModulus)
  /\ a[Len(rows)] = TotalMemorySize(rows)

\* The rows are summed one by one.
LEMMA TotallingExists ==
  ASSUME NEW rows \in Seq(StreamingSublocation)
  PROVE  \E a : IsTotalling(a, rows)
BY TotalSteps DEF IsTotalling

\* Before the first row the total is 0.
LEMMA NothingTotalled ==
  ASSUME NEW rows \in Seq(StreamingSublocation)
  PROVE  TotalMemorySize(SubSeq(rows, 1, 0)) = 0
<1>1. SubSeq(rows, 1, 0) = << >> /\ << >> \in Seq(StreamingSublocation) /\ Len(<< >>) = 0
  OBVIOUS
<1>2. PICK a : IsTotalling(a, << >>)
  BY <1>1, TotallingExists
<1> QED BY <1>1, <1>2 DEF IsTotalling

\* One more row adds its size, in 32 bits.
LEMMA OneMoreSize ==
  ASSUME NEW rows \in Seq(StreamingSublocation), NEW k \in 0 .. Len(rows) - 1
  PROVE  TotalMemorySize(SubSeq(rows, 1, k + 1)) =
           Unsigned(TotalMemorySize(SubSeq(rows, 1, k)) + rows[k + 1].memory_size, LongModulus)
<1> DEFINE first == SubSeq(rows, 1, k)
           more  == SubSeq(rows, 1, k + 1)
<1>1. /\ k \in Nat
      /\ first \in Seq(StreamingSublocation) /\ Len(first) = k
      /\ \A i \in 1 .. k : first[i] = rows[i]
      /\ more \in Seq(StreamingSublocation) /\ Len(more) = k + 1
      /\ \A i \in 1 .. k + 1 : more[i] = rows[i]
  OBVIOUS
<1> HIDE DEF first, more
<1>2. PICK a : IsTotalling(a, first)
  BY <1>1, TotallingExists
<1>3. PICK b : IsTotalling(b, more)
  BY <1>1, TotallingExists
<1> DEFINE Same == {j \in 0 .. k : a[j] = b[j]}
<1>4. \A j \in 0 .. k : j \in Same
  <2>1. 0 \in Same
    BY <1>1, <1>2, <1>3 DEF IsTotalling
  <2>2. ASSUME NEW j \in 0 .. k - 1, j \in Same PROVE j + 1 \in Same
    <3>1. j + 1 \in 1 .. k /\ j + 1 \in 1 .. k + 1 /\ j \in 0 .. (k + 1) - 1 /\ j + 1 \in 0 .. k
      BY <1>1
    <3>2. first[j + 1] = rows[j + 1] /\ more[j + 1] = rows[j + 1]
      BY <1>1, <3>1
    <3>3. a[j + 1] = Unsigned(a[j] + rows[j + 1].memory_size, LongModulus)
      BY <1>1, <1>2, <3>1, <3>2 DEF IsTotalling
    <3>4. b[j + 1] = Unsigned(b[j] + rows[j + 1].memory_size, LongModulus)
      BY <1>1, <1>3, <3>1, <3>2 DEF IsTotalling
    <3> QED BY <2>2, <3>1, <3>3, <3>4
  <2> HIDE DEF Same
  <2> QED BY <1>1, <2>1, <2>2, AllUpTo
<1>5. a[k] = b[k]
  BY <1>1, <1>4
<1>6. b[k + 1] = Unsigned(b[k] + rows[k + 1].memory_size, LongModulus)
  <2>1. k \in 0 .. (k + 1) - 1 /\ k + 1 \in 1 .. k + 1
    BY <1>1
  <2>2. more[k + 1] = rows[k + 1]
    BY <1>1, <2>1
  <2> QED BY <1>1, <1>3, <2>1, <2>2 DEF IsTotalling
<1>7. a[k] = TotalMemorySize(first) /\ b[k + 1] = TotalMemorySize(more)
  BY <1>1, <1>2, <1>3 DEF IsTotalling
<1> QED BY <1>5, <1>6, <1>7 DEF first, more

-------------------------------------------------------------------------------
(* The last table of the block.                                              *)

\* It is stored without disturbing the others.
LEMMA LastTableStored ==
  ASSUME NEW T, NEW tables \in Seq(T), tables # << >>, NEW table \in T
  PROVE  LET stored == [tables EXCEPT ![Len(tables)] = table]
         IN  /\ stored \in Seq(T)
             /\ Len(stored) = Len(tables)
             /\ stored # << >>
             /\ Last(stored) = table
             /\ WithoutLastTable(stored) = WithoutLastTable(tables)
<1> DEFINE n      == Len(tables)
           stored == [tables EXCEPT ![n] = table]
<1>1. n \in Nat \ {0} /\ DOMAIN tables = 1 .. n /\ \A i \in 1 .. n : tables[i] \in T
  OBVIOUS
<1>2. stored \in Seq(T) /\ Len(stored) = n /\ stored[n] = table
  OBVIOUS
<1>3. ASSUME NEW i \in 1 .. n - 1 PROVE stored[i] = tables[i]
  <2> HIDE DEF n
  <2>1. i \in 1 .. n /\ i # n
    BY <1>1
  <2> QED BY <1>1, <2>1
<1> HIDE DEF stored
<1>4. stored # << >>
  BY <1>1, <1>2
<1>5. Last(stored) = table
  BY <1>2 DEF Last
<1>6. /\ SubSeq(stored, 1, n - 1) \in Seq(T) /\ SubSeq(tables, 1, n - 1) \in Seq(T)
      /\ Len(SubSeq(stored, 1, n - 1)) = n - 1 /\ Len(SubSeq(tables, 1, n - 1)) = n - 1
      /\ \A i \in 1 .. n - 1 : SubSeq(stored, 1, n - 1)[i] = stored[i]
      /\ \A i \in 1 .. n - 1 : SubSeq(tables, 1, n - 1)[i] = tables[i]
  BY <1>1, <1>2
<1>7. SubSeq(stored, 1, n - 1) = SubSeq(tables, 1, n - 1)
  BY <1>3, <1>6, SeqEqual
<1> QED BY <1>2, <1>4, <1>5, <1>7 DEF WithoutLastTable, stored

\* The block is its last table behind the others.
LEMMA LastTableAppended ==
  ASSUME NEW T, NEW tables \in Seq(T), tables # << >>
  PROVE  /\ WithoutLastTable(tables) \in Seq(T)
         /\ Len(WithoutLastTable(tables)) = Len(tables) - 1
         /\ Last(tables) \in T
         /\ Append(WithoutLastTable(tables), Last(tables)) = tables
<1> DEFINE n      == Len(tables)
           before == SubSeq(tables, 1, n - 1)
<1>1. n \in Nat \ {0} /\ tables[n] \in T
  OBVIOUS
<1>2. before \in Seq(T) /\ Len(before) = n - 1 /\ \A i \in 1 .. n - 1 : before[i] = tables[i]
  <2>1. n - 1 \in Nat /\ \A i \in 1 .. n - 1 : tables[i] \in T
    BY <1>1
  <2> HIDE DEF n
  <2>2. /\ before \in Seq(T) /\ Len(before) = IF 1 <= n - 1 THEN (n - 1) - 1 + 1 ELSE 0
        /\ \A i \in 1 .. (n - 1) - 1 + 1 : before[i] = tables[1 + i - 1]
    BY <2>1, SubSeqProperties
  <2> HIDE DEF before
  <2>3. (n - 1) - 1 + 1 = n - 1 /\ \A i \in 1 .. n - 1 : 1 + i - 1 = i
    BY <2>1
  <2>4. Len(before) = n - 1
    BY <2>1, <2>2, <2>3
  <2> QED BY <2>2, <2>3, <2>4
<1> HIDE DEF before
<1> DEFINE again == Append(before, tables[n])
<1>3. /\ again \in Seq(T) /\ Len(again) = n
      /\ \A i \in 1 .. n - 1 : again[i] = before[i]
      /\ again[n] = tables[n]
  BY <1>1, <1>2
<1> HIDE DEF again
<1>4. ASSUME NEW i \in 1 .. n PROVE again[i] = tables[i]
  <2>1. i = n \/ i \in 1 .. n - 1
    BY <1>1
  <2> QED BY <1>2, <1>3, <2>1
<1>5. again = tables
  <2> HIDE DEF n
  <2>1. n = Len(tables)
    BY DEF n
  <2> QED BY <1>3, <1>4, <2>1, SeqEqual
<1> QED BY <1>1, <1>2, <1>5 DEF WithoutLastTable, before, again, Last

-------------------------------------------------------------------------------
(* The inductive invariant of the function.                                  *)

\* What a procedure writes is in the answers, and never changes.
EmissionsFixed ==
  /\ emissions \in [Resources -> Emissions]
  /\ \A r \in Resources : answers[r].sublocations = WrittenTo("primary", emissions[r])

\* What has reached the table so far.
Written == WrittenTo("primary", SubSeq(emission, 1, emitted))

\* The table in the making is that of the resource whose call is under way: it holds
\* what the procedure has written to it, or that sorted, and the sum so far.
TableInMaking ==
  /\ step \in {"called", "emit", "sum"}
  /\ emitted \in Nat /\ place \in Nat
  /\ step # "called" =>
       /\ pc \in {"streaming_sublocations", "aborted"}
       /\ current \in Resources
       /\ answer.structured /\ answer.streams /\ answer.has_owner
       /\ streaming_sublocation_tables # << >>
       /\ Len(streaming_sublocation_tables) <= MaxTables
  /\ step = "emit" =>
       /\ emitted <= Len(emission)
       /\ NewRow = SublocationTable(Written, 0)
       /\ Len(Written) <= MaxSublocations
  /\ step = "sum" =>
       /\ answer.sublocations # << >>
       /\ Len(answer.sublocations) <= MaxSublocations
       /\ NewRow.stream_locations \in SortedSublocations(answer.sublocations)
       /\ place <= Len(NewRow.stream_locations)
       /\ NewRow.total_memory_size =
            TotalMemorySize(SubSeq(NewRow.stream_locations, 1, place))

\* There is the room the stream said there is.
RoomGranted ==
  /\ granted \in 0 .. MaxSublocations
  /\ granted > 0 => step = "emit" /\ definition # Unresolved
  /\ granted > 0 /\ definition # NoDefinition =>
       Len(NewRow.stream_locations) + granted <= MaxSublocations

StreamInvariant ==
  /\ TypeOK
  /\ definition \in Definitions
  /\ EmissionsFixed
  /\ TableInMaking
  /\ RoomGranted

\* It holds when no table has been asked for ...
LEMMA StreamInvariantInitially == StreamInit => StreamInvariant
<1> SUFFICES ASSUME StreamInit PROVE StreamInvariant
  OBVIOUS
<1>1. TypeOK
  BY InitTypeOK DEF StreamInit
<1>2. definition \in Definitions /\ EmissionsFixed
  BY DEF StreamInit, EmissionsFixed
<1>3. TableInMaking /\ RoomGranted
  BY CapacitiesAssumption DEF StreamInit, TableInMaking, RoomGranted
<1> QED BY <1>1, <1>2, <1>3 DEF StreamInvariant

\* What the answers and emissions of the resource under way are.
LEMMA EmissionUnderWay ==
  ASSUME StreamInvariant, current \in Resources
  PROVE  /\ emission \in Seq(Emission)
         /\ answer.sublocations = WrittenTo("primary", emission)
         /\ answer \in Answer
<1>1. emissions[current] \in Emissions /\ answers[current] \in Answers
  BY DEF StreamInvariant, EmissionsFixed, TypeOK
<1>2. emissions[current] \in Seq(Emission)
  BY <1>1, EmissionsAssumption DEF Emission
<1>3. answers[current] \in Answer
  BY <1>1, AnswersAssumption
<1> QED BY <1>2, <1>3 DEF StreamInvariant, EmissionsFixed, emission, answer

\* The table in the making is one of the tables, and their last.
LEMMA TableUnderWay ==
  ASSUME StreamInvariant, step # "called"
  PROVE  /\ current \in Resources
         /\ streaming_sublocation_tables \in Seq(StreamingTable)
         /\ streaming_sublocation_tables # << >>
         /\ NewRow \in StreamingTable
         /\ NewRow = streaming_sublocation_tables[Len(streaming_sublocation_tables)]
<1>1. /\ streaming_sublocation_tables \in Seq(StreamingTable)
      /\ streaming_sublocation_tables # << >> /\ current \in Resources
  BY DEF StreamInvariant, TypeOK, TableInMaking
<1>2. Last(streaming_sublocation_tables) \in StreamingTable
  BY <1>1, LastTableAppended
<1> QED BY <1>1, <1>2 DEF NewRow, Last

\* A failed assert changes no type.
LEMMA AbortTypeOK == TypeOK /\ Abort => TypeOK'
BY DEF TypeOK, Abort, gestalt, locals, Operations

\* Nor does a step that stores to the table in the making, and nowhere else.
LEMMA StoreTypeOK ==
  ASSUME TypeOK, OthersUnchanged, streaming_sublocation_tables' \in Seq(StreamingTable)
  PROVE  TypeOK'
BY DEF TypeOK, OthersUnchanged, locals

\* Nor one that returns the index of a table.
LEMMA UseTypeOK ==
  ASSUME TypeOK, current \in Resources, NEW index \in Int, UseStreamingTable(index),
         pc # "idle",
         streaming_sublocation_tables' \in Seq(StreamingTable),
         has_pageable_data' \in [Resources -> BOOLEAN]
  PROVE  TypeOK'
<1>1. Signed(index, ShortModulus) \in Int
  BY CastTypes, CapacitiesAssumption
<1>2. pageable_location' \in FileLocation
  BY <1>1 DEF TypeOK, UseStreamingTable, FileLocation
<1> QED BY <1>2 DEF TypeOK, UseStreamingTable, Operations

\* What stores to the table in the making does.
LEMMA NewRowStored ==
  ASSUME StreamInvariant, step # "called", NEW table \in StreamingTable, StoreNewRow(table)
  PROVE  /\ streaming_sublocation_tables' \in Seq(StreamingTable)
         /\ streaming_sublocation_tables' # << >>
         /\ Len(streaming_sublocation_tables') = Len(streaming_sublocation_tables)
         /\ NewRow' = table
         /\ WithoutLastTable(streaming_sublocation_tables') =
              WithoutLastTable(streaming_sublocation_tables)
BY TableUnderWay, LastTableStored DEF StoreNewRow, NewRow

\* ... adding it.
LEMMA NewRowAdded ==
  ASSUME StreamInvariant, AddTable
  PROVE  /\ current \in Resources
         /\ streaming_sublocation_tables' \in Seq(StreamingTable)
         /\ streaming_sublocation_tables' # << >>
         /\ Len(streaming_sublocation_tables') <= MaxTables
         /\ NewRow' = SublocationTable(<< >>, 0)
         /\ WithoutLastTable(streaming_sublocation_tables') = streaming_sublocation_tables
<1> DEFINE table == SublocationTable(<< >>, 0)
           tables == streaming_sublocation_tables
<1>1. tables \in Seq(StreamingTable) /\ current \in Resources
  BY DEF StreamInvariant, TypeOK, AddTable, AtStep
<1>2. table \in StreamingTable
  <2>1. 0 \in 0 .. LongModulus - 1
    BY CapacitiesAssumption
  <2> QED BY <2>1 DEF SublocationTable, StreamingTable
<1>3. tables' = Append(tables, table) /\ Len(tables) < MaxTables /\ MaxTables \in Nat
  BY CapacitiesAssumption DEF AddTable
<1> HIDE DEF table
<1>4. /\ Append(tables, table) \in Seq(StreamingTable)
      /\ Len(Append(tables, table)) = Len(tables) + 1
      /\ Append(tables, table)[Len(tables) + 1] = table
      /\ Len(tables) \in Nat
  BY <1>1, <1>2
<1>5. Append(tables, table) # << >> /\ Len(Append(tables, table)) <= MaxTables
  BY <1>3, <1>4
<1>6. Last(Append(tables, table)) = table
  BY <1>4 DEF Last
<1>7. WithoutLastTable(Append(tables, table)) = tables
  BY <1>1, <1>2, AddedTableGivenBack
<1> QED BY <1>1, <1>3, <1>4, <1>5, <1>6, <1>7 DEF table, NewRow

\* While the procedure runs: what its next row makes of what it has written.
LEMMA RowWritten ==
  ASSUME StreamInvariant, NEW stream, Writes(stream)
  PROVE  LET e == emission[emitted + 1]
         IN  /\ e.row \in StreamingSublocation
             /\ e.stream = stream
             /\ Written \in Seq(StreamingSublocation)
             /\ NewRow = SublocationTable(Written, 0)
             /\ emitted + 1 \in 1 .. Len(emission)
             /\ WrittenTo("primary", SubSeq(emission, 1, emitted + 1)) =
                  IF stream = "primary" THEN Append(Written, e.row) ELSE Written
<1>1. /\ step = "emit" /\ emitted < Len(emission) /\ emission[emitted + 1].stream = stream
      /\ NewRow = SublocationTable(Written, 0) /\ emitted \in Nat
      /\ current \in Resources
  BY DEF Writes, AtStep, StreamInvariant, TableInMaking
<1>2. emission \in Seq(Emission)
  BY <1>1, EmissionUnderWay
<1>3. emitted \in 0 .. Len(emission) - 1 /\ emitted + 1 \in 1 .. Len(emission)
  BY <1>1, <1>2
<1>4. emission[emitted + 1] \in Emission
  BY <1>2, <1>3
<1>5. /\ Written \in Seq(StreamingSublocation)
      /\ WrittenTo("primary", SubSeq(emission, 1, emitted + 1)) =
           IF emission[emitted + 1].stream = "primary"
           THEN Append(Written, emission[emitted + 1].row) ELSE Written
  BY <1>2, <1>3, OneMoreRow DEF Written
<1> QED BY <1>1, <1>3, <1>4, <1>5 DEF Emission

\* The row that AppendRow stores.
LEMMA RowAppended ==
  ASSUME StreamInvariant, AppendRow
  PROVE  LET rows == Append(Written, emission[emitted + 1].row)
         IN  /\ SublocationTable(rows, 0) \in StreamingTable
             /\ StoreNewRow(SublocationTable(rows, 0))
             /\ rows = WrittenTo("primary", SubSeq(emission, 1, emitted + 1))
             /\ Len(rows) = Len(Written) + 1
             /\ Len(rows) <= MaxSublocations
<1> DEFINE row  == emission[emitted + 1].row
           rows == Append(Written, row)
<1>1. /\ row \in StreamingSublocation /\ Written \in Seq(StreamingSublocation)
      /\ NewRow = SublocationTable(Written, 0)
      /\ rows = WrittenTo("primary", SubSeq(emission, 1, emitted + 1))
  BY RowWritten DEF AppendRow
<1>2. Len(NewRow.stream_locations) < MaxSublocations
      /\ StoreNewRow([NewRow EXCEPT !.stream_locations = Append(@, row)])
  BY DEF AppendRow
<1> HIDE DEF row
<1>3. NewRow.stream_locations = Written
      /\ [NewRow EXCEPT !.stream_locations = Append(@, row)] = SublocationTable(rows, 0)
  BY <1>1 DEF SublocationTable
<1>4. /\ rows \in Seq(StreamingSublocation) /\ Len(rows) = Len(Written) + 1
      /\ Len(Written) \in Nat /\ MaxSublocations \in Nat
  BY <1>1, CapacitiesAssumption
<1>5. 0 \in 0 .. LongModulus - 1
  BY CapacitiesAssumption
<1> HIDE DEF rows
<1>6. SublocationTable(rows, 0) \in StreamingTable
  BY <1>4, <1>5 DEF SublocationTable, StreamingTable
<1>7. Len(rows) <= MaxSublocations
  BY <1>2, <1>3, <1>4
<1> QED BY <1>1, <1>2, <1>3, <1>4, <1>6, <1>7 DEF rows, row

\* When the procedure has returned, the table holds what the answers say.
LEMMA AllWritten ==
  ASSUME StreamInvariant, ProcedureReturned
  PROVE  /\ step = "emit"
         /\ current \in Resources
         /\ answer.sublocations \in Seq(StreamingSublocation)
         /\ NewRow = SublocationTable(answer.sublocations, 0)
         /\ Len(answer.sublocations) <= MaxSublocations
<1>1. /\ step = "emit" /\ current \in Resources /\ emitted = Len(emission)
      /\ NewRow = SublocationTable(Written, 0) /\ Len(Written) <= MaxSublocations
  BY DEF StreamInvariant, TableInMaking, ProcedureReturned, AtStep
<1>2. emission \in Seq(Emission) /\ answer.sublocations = WrittenTo("primary", emission)
  BY <1>1, EmissionUnderWay
<1>3. SubSeq(emission, 1, Len(emission)) = emission
  BY <1>2, SubSeqFull
<1>4. Written = answer.sublocations
  BY <1>1, <1>2, <1>3 DEF Written
<1>5. answer.sublocations \in Seq(StreamingSublocation)
  BY <1>2, WrittenGrows
<1> QED BY <1>1, <1>4, <1>5

\* A sorted table, before it is summed.
LEMMA SortedTable ==
  ASSUME StreamInvariant, ProcedureReturned, NewRow.stream_locations # << >>,
         NEW sorted \in SortedSublocations(NewRow.stream_locations)
  PROVE  /\ SublocationTable(sorted, 0) \in StreamingTable
         /\ sorted \in SortedSublocations(answer.sublocations)
         /\ answer.sublocations # << >>
         /\ Len(answer.sublocations) <= MaxSublocations
         /\ sorted \in Seq(StreamingSublocation)
<1>1. /\ NewRow.stream_locations = answer.sublocations
      /\ answer.sublocations \in Seq(StreamingSublocation)
      /\ Len(answer.sublocations) <= MaxSublocations
  BY AllWritten DEF SublocationTable
<1>2. sorted \in Seq(StreamingSublocation)
  BY <1>1, SortedSublocationsOrdered
<1>3. 0 \in 0 .. LongModulus - 1
  BY CapacitiesAssumption
<1>4. SublocationTable(sorted, 0) \in StreamingTable
  BY <1>2, <1>3 DEF SublocationTable, StreamingTable
<1> QED BY <1>1, <1>2, <1>4

\* The loop over the sorted rows.
LEMMA RowSummed ==
  ASSUME StreamInvariant, AtStep("sum")
  PROVE  LET rows == NewRow.stream_locations
         IN  /\ rows \in Seq(StreamingSublocation)
             /\ place \in 0 .. Len(rows)
             /\ ~Summed =>
                  LET total == Unsigned(NewRow.total_memory_size + RowAt(rows, place).memory_size,
                                        LongModulus)
                  IN  /\ total = TotalMemorySize(SubSeq(rows, 1, place + 1))
                      /\ place + 1 \in 0 .. Len(rows)
                      /\ [NewRow EXCEPT !.total_memory_size = total] =
                           SublocationTable(rows, total)
                      /\ SublocationTable(rows, total) \in StreamingTable
             /\ Summed => NewRow = SublocationTable(rows, TotalMemorySize(rows))
<1> DEFINE rows  == NewRow.stream_locations
           total == Unsigned(NewRow.total_memory_size + RowAt(rows, place).memory_size, LongModulus)
<1>1. /\ step = "sum" /\ place \in Nat /\ place <= Len(rows)
      /\ NewRow.total_memory_size = TotalMemorySize(SubSeq(rows, 1, place))
      /\ NewRow \in StreamingTable
  BY TableUnderWay DEF AtStep, StreamInvariant, TableInMaking
<1>2. /\ rows \in Seq(StreamingSublocation)
      /\ NewRow = [stream_locations |-> rows, total_memory_size |-> NewRow.total_memory_size]
      /\ NewRow.total_memory_size \in 0 .. LongModulus - 1
  BY <1>1 DEF StreamingTable
<1>3. place \in 0 .. Len(rows)
  BY <1>1, <1>2
<1>4. ASSUME ~Summed
      PROVE  /\ total = TotalMemorySize(SubSeq(rows, 1, place + 1))
             /\ place + 1 \in 0 .. Len(rows)
             /\ [NewRow EXCEPT !.total_memory_size = total] = SublocationTable(rows, total)
             /\ SublocationTable(rows, total) \in StreamingTable
  <2>1. place \in 0 .. Len(rows) - 1 /\ place + 1 \in 0 .. Len(rows) /\ place + 1 \in 1 .. Len(rows)
    BY <1>2, <1>3, <1>4 DEF Summed
  <2>2. total = TotalMemorySize(SubSeq(rows, 1, place + 1))
    BY <1>1, <1>2, <2>1, OneMoreSize DEF RowAt
  <2>3. rows[place + 1] \in StreamingSublocation
    BY <1>2, <2>1
  <2>4. total \in 0 .. LongModulus - 1
    <3>1. NewRow.total_memory_size + RowAt(rows, place).memory_size \in Int
      BY <1>2, <2>3 DEF RowAt, StreamingSublocation
    <3> QED BY <3>1, CastTypes, CapacitiesAssumption
  <2> HIDE DEF total, rows
  <2>5. [NewRow EXCEPT !.total_memory_size = total] = SublocationTable(rows, total)
    BY <1>2 DEF SublocationTable
  <2>6. SublocationTable(rows, total) \in StreamingTable
    BY <1>2, <2>4 DEF SublocationTable, StreamingTable
  <2> QED BY <2>1, <2>2, <2>5, <2>6
<1>5. ASSUME Summed PROVE NewRow = SublocationTable(rows, TotalMemorySize(rows))
  <2>1. place = Len(rows)
    BY <1>2, <1>3, <1>5 DEF Summed
  <2>2. SubSeq(rows, 1, Len(rows)) = rows
    BY <1>2, SubSeqFull
  <2> QED BY <1>1, <1>2, <2>1, <2>2 DEF SublocationTable
<1> HIDE DEF rows, total
<1> QED BY <1>2, <1>3, <1>4, <1>5 DEF rows, total

\* The answers are given once.
LEMMA AnswersFixed == Next => answers' = answers
BY DEF Next, BeginCall, BeginCallAsserts, CallStep, Finished, vars, Abort,
   DescribeFails, FindCachedSharedFile, AppendSharedFile, FindOwnSharedFile, SharedFileAsserts,
   UseSharedFile, FindCodecDefinition, AppendCodecDefinition, CodecDefinitionAsserts,
   UseCodecDefinition, NotStreamed, DropEmptyStreamingTable, AppendStreamingTable,
   StreamingTableAsserts, TableIndexAsserts, UseStreamingTable, AppendFileLocation,
   ReuseNullFileLocation, FileLocationAsserts, UseFileLocation, AssignLocation,
   AssignLocationAsserts

\* Outside the function it is not under way, or the process is gone.
LEMMA NotUnderWay ==
  ASSUME StreamInvariant, Elsewhere(Next)
  PROVE  \/ UNCHANGED streamVars
         \/ /\ step = "called" /\ step' = "called" /\ granted = 0
            /\ Next /\ UNCHANGED calleeVars
<1>1. CASE pc = "aborted"
  <2>1. ~CallStep
    BY <1>1, CallInProgress DEF StreamInvariant
  <2>2. Finished
    BY <1>1, <2>1 DEF Elsewhere, Next, BeginCall, BeginCallAsserts
  <2> QED BY <2>2 DEF Finished, Elsewhere, streamVars
<1>2. CASE pc # "aborted"
  <2>1. step = "called"
    BY <1>2 DEF Elsewhere, StreamInvariant, TableInMaking
  <2>2. granted = 0
    BY <2>1, CapacitiesAssumption DEF StreamInvariant, RoomGranted
  <2> QED BY <2>1, <2>2 DEF Elsewhere, calleeVars
<1> QED BY <1>1, <1>2

\* No statement writes a value of another type, or changes what a procedure writes.
LEMMA StreamTypesKept ==
  ASSUME StreamInvariant, StreamNext
  PROVE  TypeOK' /\ definition' \in Definitions /\ EmissionsFixed'
<1> USE DEF StreamInvariant
<1>1. CASE Elsewhere(Next)
  <2>1. TypeOK'
    BY <1>1, NextTypeOK DEF Elsewhere
  <2> QED BY <1>1, <2>1, AnswersFixed DEF Elsewhere, calleeVars, EmissionsFixed
<1>2. CASE ReturnNothing
  <2>1. TypeOK'
    BY <1>2, NextTypeOK DEF ReturnNothing, Next, CallStep
  <2> QED BY <1>2, <2>1 DEF ReturnNothing, NotStreamed, UseStreamingTable, calleeVars,
    EmissionsFixed
<1>3. CASE Abort /\ definition' = definition /\ emissions' = emissions
  BY <1>3, AbortTypeOK DEF Abort, EmissionsFixed
<1>4. CASE OthersUnchanged /\ streaming_sublocation_tables' \in Seq(StreamingTable)
  BY <1>4, StoreTypeOK DEF OthersUnchanged, EmissionsFixed
<1>5. CASE AddTable
  BY <1>4, <1>5, NewRowAdded DEF AddTable
<1>6. CASE AskCapacity \/ AppendRowToNull
  BY <1>4, <1>6 DEF AskCapacity, AppendRowToNull, TypeOK
<1>7. CASE AppendRow
  <2>1. step # "called"
    BY <1>7 DEF AppendRow, Writes, AtStep
  <2>2. streaming_sublocation_tables' \in Seq(StreamingTable)
    BY <1>7, <2>1, RowAppended, NewRowStored
  <2> QED BY <1>4, <1>7, <2>2 DEF AppendRow
<1>8. CASE SortRows
  <2>1. step # "called"
    BY <1>8 DEF SortRows, ProcedureReturned, AtStep
  <2>2. streaming_sublocation_tables' \in Seq(StreamingTable)
    BY <1>8, <2>1, SortedTable, NewRowStored DEF SortRows
  <2> QED BY <1>4, <1>8, <2>2 DEF SortRows
<1>9. CASE SumRow
  <2>1. step # "called" /\ AtStep("sum") /\ ~Summed
    BY <1>9 DEF SumRow, AtStep
  <2>2. streaming_sublocation_tables' \in Seq(StreamingTable)
    BY <1>9, <2>1, RowSummed, NewRowStored DEF SumRow
  <2> QED BY <1>4, <1>9, <2>2 DEF SumRow
<1>10. CASE GiveBackTable
  <2>1. /\ current \in Resources /\ step # "called"
        /\ pc = "streaming_sublocations" /\ UseStreamingTable(NoStreamingTable)
    BY <1>10, AllWritten DEF GiveBackTable, ProcedureReturned, AtStep
  <2>2. streaming_sublocation_tables' \in Seq(StreamingTable)
    BY <1>10, <2>1, TableUnderWay, LastTableAppended DEF GiveBackTable
  <2>3. NoStreamingTable \in Int
    BY CastTypes, CapacitiesAssumption DEF NoStreamingTable, NONE
  <2>4. has_pageable_data' \in [Resources -> BOOLEAN]
    BY <1>10 DEF GiveBackTable, TypeOK
  <2>5. TypeOK'
    BY <2>1, <2>2, <2>3, <2>4, UseTypeOK
  <2> QED BY <1>10, <2>5 DEF GiveBackTable, UseStreamingTable, EmissionsFixed
<1>11. CASE ReturnTable
  <2>1. /\ current \in Resources
        /\ pc = "streaming_sublocations"
        /\ UseStreamingTable(TableIndex(streaming_sublocation_tables))
        /\ streaming_sublocation_tables' \in Seq(StreamingTable)
    BY <1>11, TableUnderWay DEF ReturnTable, AtStep
  <2>2. TableIndex(streaming_sublocation_tables) \in Int
    <3>1. LastIndex(streaming_sublocation_tables) \in Int
      BY DEF TypeOK, LastIndex
    <3> QED BY <3>1, CastTypes, CapacitiesAssumption DEF TableIndex
  <2>3. has_pageable_data' \in [Resources -> BOOLEAN]
    BY <1>11 DEF ReturnTable, TypeOK
  <2>4. TypeOK'
    BY <2>1, <2>2, <2>3, UseTypeOK
  <2> QED BY <1>11, <2>4 DEF ReturnTable, UseStreamingTable, EmissionsFixed
<1> QED BY <1>1, <1>2, <1>3, <1>5, <1>6, <1>7, <1>8, <1>9, <1>10, <1>11
  DEF StreamNext, CalleeStep, AddTableAsserts, CapacityAsserts, AppendRowAsserts,
    ReturnedIndexAsserts, calleeVars

\* Each statement leaves the table in the making as the place in the function says.
LEMMA TableInMakingKept ==
  ASSUME StreamInvariant, StreamNext
  PROVE  TableInMaking'
<1> USE DEF StreamInvariant
<1>1. CASE Elsewhere(Next)
  BY <1>1, NotUnderWay DEF TableInMaking, calleeVars, streamVars, vars, gestalt, locals, answer,
    emission, NewRow, Written
<1>2. CASE ReturnNothing
  BY <1>2 DEF ReturnNothing, AtStep, calleeVars, TableInMaking
<1>3. CASE Abort /\ UNCHANGED calleeVars
  BY <1>3 DEF Abort, TableInMaking, calleeVars, gestalt, locals, answer, emission, NewRow, Written
<1>4. CASE ReturnedIndexAsserts
  BY <1>4 DEF ReturnedIndexAsserts, TableInMaking
<1>5. CASE AddTable
  <2>1. /\ step' = "emit" /\ emitted' = 0 /\ place' = place /\ pc = "streaming_sublocations"
        /\ OthersUnchanged /\ answer.structured /\ answer.streams /\ answer.has_owner
    BY <1>5 DEF AddTable, AtStep
  <2>2. emission \in Seq(Emission)
    BY <1>5, NewRowAdded, EmissionUnderWay
  <2>3. emission' = emission /\ answer' = answer /\ current' = current /\ pc' = pc
    BY <2>1 DEF OthersUnchanged, locals, emission, answer
  <2>4. Written' = << >>
    BY <2>1, <2>2, <2>3, NothingWritten DEF Written
  <2>5. 0 <= Len(emission) /\ Len(<< >>) <= MaxSublocations
    BY <2>2, CapacitiesAssumption
  <2> QED BY <1>5, <2>1, <2>2, <2>3, <2>4, <2>5, NewRowAdded DEF TableInMaking
<1>6. CASE AskCapacity
  BY <1>6 DEF AskCapacity, OthersUnchanged, locals, TableInMaking, answer, emission, NewRow, Written
<1>7. CASE AppendRow
  <2>1. /\ step = "emit" /\ step' = step /\ emitted' = emitted + 1 /\ place' = place
        /\ OthersUnchanged /\ Writes("primary")
    BY <1>7 DEF AppendRow, Writes, AtStep
  <2>2. emission' = emission /\ answer' = answer /\ current' = current /\ pc' = pc
    BY <2>1 DEF OthersUnchanged, locals, emission, answer
  <2>3. /\ streaming_sublocation_tables' # << >>
        /\ Len(streaming_sublocation_tables') = Len(streaming_sublocation_tables)
        /\ NewRow' = SublocationTable(Append(Written, emission[emitted + 1].row), 0)
    BY <1>7, <2>1, RowAppended, NewRowStored
  <2>4. /\ Written' = Append(Written, emission[emitted + 1].row)
        /\ Len(Written') <= MaxSublocations
    BY <1>7, <2>1, <2>2, RowAppended DEF Written
  <2>5. emitted + 1 \in Nat /\ emitted + 1 <= Len(emission)
    BY <2>1, RowWritten, TableUnderWay, EmissionUnderWay
  <2> QED BY <2>1, <2>2, <2>3, <2>4, <2>5 DEF TableInMaking
<1>8. CASE AppendRowToNull
  <2>1. /\ step = "emit" /\ step' = step /\ emitted' = emitted + 1 /\ place' = place
        /\ UNCHANGED streaming_sublocation_tables /\ OthersUnchanged /\ Writes("null")
    BY <1>8 DEF AppendRowToNull, Writes, AtStep
  <2>2. emission' = emission /\ answer' = answer /\ current' = current /\ pc' = pc
    BY <2>1 DEF OthersUnchanged, locals, emission, answer
  <2>3. Written' = Written
    BY <2>1, <2>2, RowWritten DEF Written
  <2>4. emitted + 1 \in Nat /\ emitted + 1 <= Len(emission)
    BY <2>1, RowWritten, TableUnderWay, EmissionUnderWay
  <2> QED BY <2>1, <2>2, <2>3, <2>4 DEF TableInMaking, NewRow
<1>9. CASE GiveBackTable
  BY <1>9 DEF GiveBackTable, TableInMaking
<1>10. CASE SortRows
  <2>1. /\ ProcedureReturned /\ NewRow.stream_locations # << >> /\ OthersUnchanged
        /\ step' = "sum" /\ place' = 0 /\ emitted' = emitted
    BY <1>10 DEF SortRows
  <2>2. PICK sorted \in SortedSublocations(NewRow.stream_locations) :
          StoreNewRow(SublocationTable(sorted, 0))
    BY <1>10 DEF SortRows
  <2>3. /\ SublocationTable(sorted, 0) \in StreamingTable
        /\ sorted \in SortedSublocations(answer.sublocations)
        /\ answer.sublocations # << >> /\ Len(answer.sublocations) <= MaxSublocations
        /\ sorted \in Seq(StreamingSublocation)
    BY <2>1, SortedTable
  <2>4. step = "emit" /\ pc = "streaming_sublocations"
    BY <2>1 DEF ProcedureReturned, AtStep
  <2>5. answer' = answer /\ current' = current /\ pc' = pc
    BY <2>1 DEF OthersUnchanged, locals, answer
  <2>6. /\ streaming_sublocation_tables' # << >>
        /\ Len(streaming_sublocation_tables') = Len(streaming_sublocation_tables)
        /\ NewRow' = SublocationTable(sorted, 0)
    BY <2>2, <2>3, <2>4, NewRowStored
  <2>7. NewRow'.stream_locations = sorted /\ NewRow'.total_memory_size = 0
    BY <2>6 DEF SublocationTable
  <2>8. TotalMemorySize(SubSeq(sorted, 1, 0)) = 0 /\ 0 <= Len(sorted)
    BY <2>3, NothingTotalled
  <2> QED BY <2>1, <2>3, <2>4, <2>5, <2>6, <2>7, <2>8 DEF TableInMaking
<1>11. CASE SumRow
  <2> DEFINE rows  == NewRow.stream_locations
             total == Unsigned(NewRow.total_memory_size + RowAt(rows, place).memory_size,
                               LongModulus)
  <2>1. /\ AtStep("sum") /\ step = "sum" /\ step' = step /\ ~Summed /\ OthersUnchanged
        /\ place' = place + 1 /\ emitted' = emitted
        /\ StoreNewRow([NewRow EXCEPT !.total_memory_size = total])
    BY <1>11 DEF SumRow, AtStep
  <2>2. /\ total = TotalMemorySize(SubSeq(rows, 1, place + 1))
        /\ place + 1 \in 0 .. Len(rows)
        /\ [NewRow EXCEPT !.total_memory_size = total] = SublocationTable(rows, total)
        /\ SublocationTable(rows, total) \in StreamingTable
    BY <2>1, RowSummed
  <2>3. answer' = answer /\ current' = current /\ pc' = pc
    BY <2>1 DEF OthersUnchanged, locals, answer
  <2> HIDE DEF total
  <2>4. /\ streaming_sublocation_tables' # << >>
        /\ Len(streaming_sublocation_tables') = Len(streaming_sublocation_tables)
        /\ NewRow' = SublocationTable(rows, total)
    BY <2>1, <2>2, NewRowStored
  <2>5. NewRow'.stream_locations = rows /\ NewRow'.total_memory_size = total
    BY <2>4 DEF SublocationTable
  <2>6. place + 1 \in Nat /\ place + 1 <= Len(rows)
    BY <2>2
  <2> QED BY <2>1, <2>2, <2>3, <2>4, <2>5, <2>6 DEF TableInMaking
<1>12. CASE ReturnTable
  BY <1>12 DEF ReturnTable, TableInMaking
<1> QED BY <1>1, <1>2, <1>3, <1>4, <1>5, <1>6, <1>7, <1>8, <1>9, <1>10, <1>11, <1>12
  DEF StreamNext, CalleeStep, AddTableAsserts, CapacityAsserts, AppendRowAsserts

\* Room that was granted is used up by the rows that are stored, and by nothing else.
LEMMA RoomGrantedKept ==
  ASSUME StreamInvariant, StreamNext
  PROVE  RoomGranted'
<1> USE DEF StreamInvariant
<1>0. MaxSublocations \in Nat
  BY CapacitiesAssumption
<1>1. CASE UNCHANGED <<definition, step, granted, streaming_sublocation_tables>>
  BY <1>1 DEF RoomGranted, NewRow
<1>2. CASE granted' = 0
  BY <1>0, <1>2 DEF RoomGranted
<1>3. CASE Elsewhere(Next)
  <2>1. CASE UNCHANGED streamVars
    BY <1>1, <2>1 DEF streamVars, vars, gestalt, calleeVars
  <2>2. CASE granted = 0 /\ UNCHANGED calleeVars
    BY <1>2, <2>2 DEF calleeVars
  <2> QED BY <1>3, <2>1, <2>2, NotUnderWay
<1>4. CASE step = "called" /\ granted' = granted
  BY <1>0, <1>2, <1>4 DEF RoomGranted
<1>5. CASE Abort /\ UNCHANGED calleeVars
  BY <1>1, <1>5 DEF Abort, gestalt, calleeVars
<1>6. CASE AskCapacity
  <2>1. PICK element_count \in 1 .. MaxSublocations :
          granted' = IF CapacityAllowsAdding(element_count) THEN element_count ELSE 0
    BY <1>6 DEF AskCapacity
  <2>2. /\ step = "emit" /\ step' = step /\ definition # Unresolved /\ definition' = definition
        /\ NewRow' = NewRow
    BY <1>6 DEF AskCapacity, AtStep, OthersUnchanged, NewRow
  <2>3. CASE CapacityAllowsAdding(element_count)
    <3>1. granted' = element_count
      BY <2>1, <2>3
    <3>2. definition # NoDefinition =>
            Len(NewRow.stream_locations) + element_count <= MaxSublocations
      BY <2>3 DEF CapacityAllowsAdding
    <3> HIDE DEF NewRow
    <3> QED BY <1>0, <2>2, <3>1, <3>2 DEF RoomGranted
  <2>4. CASE ~CapacityAllowsAdding(element_count)
    BY <1>2, <2>1, <2>4
  <2> QED BY <2>3, <2>4
<1>7. CASE AppendRow
  <2>1. /\ step = "emit" /\ step' = step /\ definition' = definition
        /\ granted' = (IF granted = 0 THEN 0 ELSE granted - 1)
        /\ NewRow = SublocationTable(Written, 0)
    BY <1>7, RowWritten DEF AppendRow, Writes, AtStep, OthersUnchanged
  <2> DEFINE rows == Append(Written, emission[emitted + 1].row)
  <2>2. NewRow' = SublocationTable(rows, 0) /\ Len(rows) = Len(Written) + 1
    BY <1>7, <2>1, RowAppended, NewRowStored
  <2>3. NewRow.stream_locations = Written /\ NewRow'.stream_locations = rows
    BY <2>1, <2>2 DEF SublocationTable
  <2>4. Len(Written) \in Nat
    BY <1>7, RowWritten DEF AppendRow
  <2> HIDE DEF rows
  <2>5. CASE granted = 0
    BY <1>2, <2>1, <2>5
  <2>6. CASE granted # 0
    <3>1. /\ granted \in 1 .. MaxSublocations /\ definition # Unresolved
          /\ definition # NoDefinition => Len(Written) + granted <= MaxSublocations
      BY <1>0, <2>3, <2>6 DEF RoomGranted
    <3>2. granted' = granted - 1
      BY <2>1, <2>6
    <3>3. /\ granted' \in 0 .. MaxSublocations
          /\ definition # NoDefinition => Len(rows) + granted' <= MaxSublocations
      BY <1>0, <2>2, <2>4, <3>1, <3>2
    <3> QED BY <2>1, <2>3, <3>1, <3>3 DEF RoomGranted
  <2> QED BY <2>5, <2>6
<1>8. CASE AppendRowToNull
  BY <1>1, <1>8 DEF AppendRowToNull, OthersUnchanged
<1>9. CASE SumRow \/ ReturnTable \/ ReturnedIndexAsserts
  <2>1. step = "sum" /\ granted' = granted
    BY <1>9 DEF SumRow, ReturnTable, ReturnedIndexAsserts, AtStep
  <2> QED BY <1>0, <1>2, <2>1 DEF RoomGranted
<1> QED BY <1>2, <1>3, <1>4, <1>5, <1>6, <1>7, <1>8, <1>9
  DEF StreamNext, CalleeStep, ReturnNothing, AtStep, calleeVars, AddTableAsserts, AddTable,
    CapacityAsserts, AppendRowAsserts, GiveBackTable, SortRows

\* ... each statement keeps it ...
LEMMA StreamInvariantKept == StreamInvariant /\ [StreamNext]_streamVars => StreamInvariant'
<1> SUFFICES ASSUME StreamInvariant, [StreamNext]_streamVars PROVE StreamInvariant'
  OBVIOUS
<1>1. CASE StreamNext
  BY <1>1, StreamTypesKept, TableInMakingKept, RoomGrantedKept DEF StreamInvariant
<1>2. CASE UNCHANGED streamVars
  <2>1. TypeOK'
    BY <1>2, NextTypeOK DEF StreamInvariant, streamVars
  <2>2. EmissionsFixed' /\ TableInMaking' /\ RoomGranted'
    BY <1>2 DEF StreamInvariant, streamVars, vars, gestalt, locals, calleeVars, EmissionsFixed,
      TableInMaking, RoomGranted, answer, emission, NewRow, Written
  <2> QED BY <1>2, <2>1, <2>2 DEF StreamInvariant, streamVars, calleeVars
<1> QED BY <1>1, <1>2

\* ... and so it always holds.
LEMMA StreamInvariantAlways == StreamSpec => []StreamInvariant
BY StreamInvariantInitially, StreamInvariantKept, PTL DEF StreamSpec

\* Every variable of the function keeps its type, whatever procedures write.
THEOREM StreamTypeCorrect == StreamSpec => []StreamTypeOK
<1>1. StreamInvariant => StreamTypeOK
  <2> SUFFICES ASSUME StreamInvariant PROVE StreamTypeOK
    OBVIOUS
  <2> QED BY DEF StreamInvariant, EmissionsFixed, TableInMaking, RoomGranted, StreamTypeOK
<1> QED BY <1>1, StreamInvariantAlways, PTL

\* Of any size of the block and any rows: a procedure that was told there is room for so
\* many rows gets to store them.
THEOREM GrantedRowsAlwaysStored == StreamSpec => GrantedRowsStored
<1>1. ASSUME StreamInvariant, StreamNext, granted > 0, definition # NoDefinition,
             ~UNCHANGED streamVars
      PROVE  pc' # "aborted"
  <2>1. /\ step = "emit" /\ definition # Unresolved /\ granted \in Nat
        /\ Len(NewRow.stream_locations) + granted <= MaxSublocations
        /\ NewRow \in StreamingTable
    BY <1>1, CapacitiesAssumption, TableUnderWay DEF StreamInvariant, RoomGranted
  <2>2. Len(NewRow.stream_locations) \in Nat /\ MaxSublocations \in Nat
    BY <2>1, CapacitiesAssumption DEF StreamingTable
  <2>3. Len(NewRow.stream_locations) < MaxSublocations
    BY <1>1, <2>1, <2>2
  <2>4. ~Elsewhere(Next)
    BY <1>1, <2>1, NotUnderWay
  <2> QED BY <1>1, <2>1, <2>2, <2>3, <2>4
    DEF StreamNext, CalleeStep, AtStep, ReturnNothing, AddTableAsserts, AddTable, AskCapacity,
      CapacityAsserts, Writes, AppendRow, AppendRowAsserts, AppendRowToNull, ProcedureReturned,
      GiveBackTable, UseStreamingTable, SortRows, SumRow, ReturnTable, ReturnedIndexAsserts,
      OthersUnchanged
<1>2. StreamInvariant /\ [StreamNext]_streamVars =>
        [granted > 0 /\ definition # NoDefinition => pc' # "aborted"]_streamVars
  BY <1>1
<1> QED BY <1>2, StreamInvariantAlways, PTL DEF StreamSpec, GrantedRowsStored

-------------------------------------------------------------------------------
(* The gestalt, seen past the table in the making. *)

\* The operators are those of the code's specification.
LEMMA SameGestalt ==
  /\ \A index, modulus : Gestalt!Signed(index, modulus) = Signed(index, modulus)
  /\ \A index, modulus : Gestalt!Unsigned(index, modulus) = Unsigned(index, modulus)
  /\ \A index, rows : Gestalt!ValidIndex(index, rows) = ValidIndex(index, rows)
  /\ \A index, rows : Gestalt!RowAt(rows, index) = RowAt(rows, index)
  /\ \A rows : Gestalt!LastIndex(rows) = LastIndex(rows)
  /\ Gestalt!NONE = NONE
  /\ Gestalt!NullFileLocation = NullFileLocation
  /\ \A path, io_offset : Gestalt!SharedFile(path, io_offset) = SharedFile(path, io_offset)
  /\ \A path : Gestalt!FirstSharedFile(path) = FirstSharedFile(path)
  /\ \A identifier :
       Gestalt!FirstCodecDefinition(identifier) = FirstCodecDefinition(identifier)
  /\ \A locations, index :
       Gestalt!CountReference(locations, index) = CountReference(locations, index)
<1>1. /\ \A index, modulus : Gestalt!Signed(index, modulus) = Signed(index, modulus)
      /\ \A index, modulus : Gestalt!Unsigned(index, modulus) = Unsigned(index, modulus)
      /\ \A index, rows : Gestalt!ValidIndex(index, rows) = ValidIndex(index, rows)
      /\ \A index, rows : Gestalt!RowAt(rows, index) = RowAt(rows, index)
      /\ \A rows : Gestalt!LastIndex(rows) = LastIndex(rows)
      /\ Gestalt!NONE = NONE
      /\ Gestalt!NullFileLocation = NullFileLocation
  BY DEF Gestalt!Signed, Signed, Gestalt!Unsigned, Unsigned, Gestalt!ValidIndex, ValidIndex,
    Gestalt!RowAt, RowAt, Gestalt!LastIndex, LastIndex, Gestalt!NONE, NONE,
    Gestalt!NullFileLocation, NullFileLocation
<1>2. \A path, io_offset : Gestalt!SharedFile(path, io_offset) = SharedFile(path, io_offset)
  BY <1>1 DEF Gestalt!SharedFile, SharedFile
<1>3. \A path : Gestalt!FirstSharedFile(path) = FirstSharedFile(path)
  BY DEF Gestalt!FirstSharedFile, FirstSharedFile, Gestalt!SelectInSeq, SelectInSeq,
    Gestalt!Min, Min
<1>4. \A identifier :
        Gestalt!FirstCodecDefinition(identifier) = FirstCodecDefinition(identifier)
  BY DEF Gestalt!FirstCodecDefinition, FirstCodecDefinition, Gestalt!SelectInSeq, SelectInSeq,
    Gestalt!Min, Min
<1>5. \A locations, index :
        Gestalt!CountReference(locations, index) = CountReference(locations, index)
  BY <1>1 DEF Gestalt!CountReference, CountReference
<1> QED BY <1>1, <1>2, <1>3, <1>4, <1>5

\* ... and those about streaming tables.
LEMMA SameTables ==
  /\ \A rows : Gestalt!SortedSublocations(rows) = SortedSublocations(rows)
  /\ \A rows : Gestalt!TotalMemorySize(rows) = TotalMemorySize(rows)
  /\ \A tables : Gestalt!WithoutLastTable(tables) = WithoutLastTable(tables)
  /\ \A rows, total : Gestalt!SublocationTable(rows, total) = SublocationTable(rows, total)
  /\ Gestalt!NoStreamingTable = NoStreamingTable
  /\ \A tables : Gestalt!TableIndex(tables) = TableIndex(tables)
  /\ \A tables : Gestalt!CallersTableIndex(tables) = CallersTableIndex(tables)
  /\ \A tables : Gestalt!CallerAccepts(tables) = CallerAccepts(tables)
  /\ \A tables : Gestalt!TableHasNoBytes(tables) = TableHasNoBytes(tables)
<1>1. \A rows : Gestalt!SortedSublocations(rows) = SortedSublocations(rows)
  BY DEF Gestalt!SortedSublocations, SortedSublocations, Gestalt!IsSorted, IsSorted,
    Gestalt!Bijection, Bijection, Gestalt!Injection, Injection, Gestalt!Surjection, Surjection,
    Gestalt!IsInjective, IsInjective
<1>2. \A rows : Gestalt!TotalMemorySize(rows) = TotalMemorySize(rows)
  BY DEF Gestalt!TotalMemorySize, TotalMemorySize, Gestalt!FoldLeft, FoldLeft,
    Gestalt!MapThenFoldSet, MapThenFoldSet, Gestalt!Max, Max, Gestalt!Unsigned, Unsigned
<1>3. /\ \A tables : Gestalt!WithoutLastTable(tables) = WithoutLastTable(tables)
      /\ \A rows, total : Gestalt!SublocationTable(rows, total) = SublocationTable(rows, total)
      /\ Gestalt!NoStreamingTable = NoStreamingTable
      /\ \A tables : Gestalt!TableIndex(tables) = TableIndex(tables)
  BY SameGestalt DEF Gestalt!WithoutLastTable, WithoutLastTable, Gestalt!SublocationTable,
    SublocationTable, Gestalt!NoStreamingTable, NoStreamingTable, Gestalt!TableIndex, TableIndex
<1>4. \A tables : Gestalt!CallersTableIndex(tables) = CallersTableIndex(tables)
  BY <1>3, SameGestalt DEF Gestalt!CallersTableIndex, CallersTableIndex
<1>5. /\ \A tables : Gestalt!CallerAccepts(tables) = CallerAccepts(tables)
      /\ \A tables : Gestalt!TableHasNoBytes(tables) = TableHasNoBytes(tables)
  BY <1>4, SameGestalt DEF Gestalt!CallerAccepts, CallerAccepts, Gestalt!TableHasNoBytes,
    TableHasNoBytes
<1> QED BY <1>1, <1>2, <1>3, <1>4, <1>5

\* A step of the rest of the call is the same step seen past the table in the making.
LEMMA ElsewhereSeen ==
  ASSUME Next, pc # "streaming_sublocations",
         FinishedTables = streaming_sublocation_tables,
         FinishedTables' = streaming_sublocation_tables'
  PROVE  Gestalt!Next
<1> USE SameGestalt DEF Gestalt!gestalt, Gestalt!locals, gestalt, locals, answer, Gestalt!answer,
      Abort, Gestalt!Abort, Return, Gestalt!Return
<1>1. ASSUME NEW r \in Resources, BeginCall(r) PROVE Gestalt!BeginCall(r)
  BY <1>1 DEF BeginCall, Gestalt!BeginCall
<1>2. ASSUME NEW r \in Resources, BeginCallAsserts(r) PROVE Gestalt!BeginCallAsserts(r)
  BY <1>2 DEF BeginCallAsserts, Gestalt!BeginCallAsserts
<1>3. DescribeFails => Gestalt!DescribeFails
  BY DEF DescribeFails, Gestalt!DescribeFails
<1>4. \A index : UseSharedFile(index) => Gestalt!UseSharedFile(index)
  BY DEF UseSharedFile, Gestalt!UseSharedFile
<1>5. \A index : RememberSharedFile(index) => Gestalt!RememberSharedFile(index)
  BY DEF RememberSharedFile, Gestalt!RememberSharedFile
<1>6. NewSharedFileAsked => Gestalt!NewSharedFileAsked
  BY DEF NewSharedFileAsked, Gestalt!NewSharedFileAsked
<1>7. FindCachedSharedFile => Gestalt!FindCachedSharedFile
  BY <1>4 DEF FindCachedSharedFile, Gestalt!FindCachedSharedFile
<1>8. AppendSharedFile => Gestalt!AppendSharedFile
  BY <1>4, <1>5, <1>6 DEF AppendSharedFile, Gestalt!AppendSharedFile
<1>9. FindOwnSharedFile => Gestalt!FindOwnSharedFile
  BY <1>4, <1>5, <1>6 DEF FindOwnSharedFile, Gestalt!FindOwnSharedFile
<1>10. SharedFileAsserts => Gestalt!SharedFileAsserts
  BY <1>6 DEF SharedFileAsserts, Gestalt!SharedFileAsserts
<1>11. \A index : UseCodecDefinition(index) => Gestalt!UseCodecDefinition(index)
  BY DEF UseCodecDefinition, Gestalt!UseCodecDefinition
<1>12. NewCodecAsked => Gestalt!NewCodecAsked
  BY DEF NewCodecAsked, Gestalt!NewCodecAsked
<1>13. FindCodecDefinition => Gestalt!FindCodecDefinition
  BY <1>11 DEF FindCodecDefinition, Gestalt!FindCodecDefinition
<1>14. AppendCodecDefinition => Gestalt!AppendCodecDefinition
  BY <1>11, <1>12 DEF AppendCodecDefinition, Gestalt!AppendCodecDefinition
<1>15. CodecDefinitionAsserts => Gestalt!CodecDefinitionAsserts
  BY <1>12 DEF CodecDefinitionAsserts, Gestalt!CodecDefinitionAsserts
<1>16. \A index : UseFileLocation(index) => Gestalt!UseFileLocation(index)
  BY DEF UseFileLocation, Gestalt!UseFileLocation
<1>17. AppendFileLocation => Gestalt!AppendFileLocation
  BY <1>16 DEF AppendFileLocation, Gestalt!AppendFileLocation
<1>18. ReuseNullFileLocation => Gestalt!ReuseNullFileLocation
  BY <1>16 DEF ReuseNullFileLocation, Gestalt!ReuseNullFileLocation
<1>19. FileLocationAsserts => Gestalt!FileLocationAsserts
  BY DEF FileLocationAsserts, Gestalt!FileLocationAsserts
<1>20. AssignLocation => Gestalt!AssignLocation
  BY DEF AssignLocation, Gestalt!AssignLocation
<1>21. AssignLocationAsserts => Gestalt!AssignLocationAsserts
  BY DEF AssignLocationAsserts, Gestalt!AssignLocationAsserts
<1>22. Finished => Gestalt!Finished
  BY DEF Finished, Gestalt!Finished, vars, Gestalt!vars
<1>23. ~NotStreamed /\ ~NewTableAsked /\ ~NewFilledTableAsked /\ ~StreamingTableAsserts
  BY DEF NotStreamed, NewTableAsked, NewFilledTableAsked, StreamingTableAsserts
<1>24. CallStep => Gestalt!CallStep
  BY <1>3, <1>7, <1>8, <1>9, <1>10, <1>13, <1>14, <1>15, <1>17, <1>18, <1>19, <1>20, <1>21, <1>23
  DEF CallStep, Gestalt!CallStep, DropEmptyStreamingTable, AppendStreamingTable, TableIndexAsserts
<1> QED BY <1>1, <1>2, <1>22, <1>24 DEF Next, Gestalt!Next

\* While a statement of the function is executed, nothing of the table in the making is
\* seen: not when it is added, asked about, written to, sorted or summed.
LEMMA MakingUnseen ==
  ASSUME StreamInvariant,
         AddTable \/ AskCapacity \/ AppendRow \/ AppendRowToNull \/ SortRows \/ SumRow
  PROVE  UNCHANGED Gestalt!vars
<1>1. FinishedTables' = FinishedTables
  <2>1. CASE AddTable
    BY <2>1, NewRowAdded DEF AddTable, AtStep, FinishedTables
  <2>2. CASE AskCapacity \/ AppendRowToNull
    BY <2>2 DEF AskCapacity, AppendRowToNull, FinishedTables
  <2>3. CASE AppendRow
    <3>1. step = "emit" /\ step' = step
      BY <2>3 DEF AppendRow, Writes, AtStep
    <3> QED BY <2>3, <3>1, RowAppended, NewRowStored DEF FinishedTables
  <2>4. CASE SortRows
    <3>1. step = "emit" /\ step' = "sum"
      BY <2>4 DEF SortRows, ProcedureReturned, AtStep
    <3>2. PICK sorted \in SortedSublocations(NewRow.stream_locations) :
            StoreNewRow(SublocationTable(sorted, 0))
      BY <2>4 DEF SortRows
    <3>3. SublocationTable(sorted, 0) \in StreamingTable
      BY <2>4, SortedTable DEF SortRows
    <3> QED BY <3>1, <3>2, <3>3, NewRowStored DEF FinishedTables
  <2>5. CASE SumRow
    <3>1. step = "sum" /\ step' = step
      BY <2>5 DEF SumRow, AtStep
    <3>2. PICK total : /\ total = Unsigned(NewRow.total_memory_size +
                                    RowAt(NewRow.stream_locations, place).memory_size, LongModulus)
                       /\ SublocationTable(NewRow.stream_locations, total) \in StreamingTable
                       /\ StoreNewRow(SublocationTable(NewRow.stream_locations, total))
      BY <2>5, RowSummed DEF SumRow
    <3> QED BY <3>1, <3>2, NewRowStored DEF FinishedTables
  <2> QED BY <2>1, <2>2, <2>3, <2>4, <2>5
<1>2. OthersUnchanged
  BY DEF AddTable, AskCapacity, AppendRow, AppendRowToNull, SortRows, SumRow
<1> QED BY <1>1, <1>2 DEF Gestalt!vars, Gestalt!gestalt, Gestalt!locals, OthersUnchanged, locals

\* A failed assert leaves the table in the making, if there is one, unseen.
LEMMA AbortSeen ==
  ASSUME Abort, UNCHANGED calleeVars
  PROVE  Gestalt!Abort
BY DEF Abort, Gestalt!Abort, gestalt, locals, Gestalt!gestalt, Gestalt!locals, calleeVars,
  FinishedTables

\* The asserts of the function are those of the one step.
LEMMA AssertsSeen ==
  ASSUME StreamInvariant, AddTableAsserts \/ AppendRowAsserts
  PROVE  Gestalt!StreamingTableAsserts
<1>1. Gestalt!Abort
  BY AbortSeen DEF AddTableAsserts, AppendRowAsserts
<1>2. CASE AddTableAsserts
  <2>1. FinishedTables = streaming_sublocation_tables
    BY <1>2 DEF AddTableAsserts, AtStep, FinishedTables
  <2> QED BY <1>1, <1>2, <2>1
    DEF AddTableAsserts, AtStep, Gestalt!StreamingTableAsserts, Gestalt!answer, answer
<1>3. CASE AppendRowAsserts
  <2>1. /\ pc = "streaming_sublocations" /\ step = "emit" /\ answer.streams
        /\ current \in Resources
        /\ NewRow = SublocationTable(Written, 0)
    BY <1>3 DEF AppendRowAsserts, Writes, AtStep, StreamInvariant, TableInMaking
  <2>2. /\ emission \in Seq(Emission)
        /\ answer.sublocations = WrittenTo("primary", emission)
    BY <2>1, EmissionUnderWay
  <2>3. PICK written : written = Written
    OBVIOUS
  <2>4. /\ written \in Seq(StreamingSublocation)
        /\ Len(written) >= MaxSublocations
        /\ emitted + 1 \in 1 .. Len(emission)
        /\ Len(WrittenTo("primary", SubSeq(emission, 1, emitted + 1))) = Len(written) + 1
    <3>1. Writes("primary")
      BY <1>3 DEF AppendRowAsserts
    <3>2. /\ emission[emitted + 1].row \in StreamingSublocation
          /\ written \in Seq(StreamingSublocation)
          /\ emitted + 1 \in 1 .. Len(emission)
          /\ WrittenTo("primary", SubSeq(emission, 1, emitted + 1)) =
               Append(written, emission[emitted + 1].row)
      BY <2>3, <3>1, RowWritten
    <3> QED BY <1>3, <2>1, <2>3, <3>2 DEF AppendRowAsserts, SublocationTable
  <2>5. Len(WrittenTo("primary", SubSeq(emission, 1, emitted + 1))) <= Len(answer.sublocations)
    BY <2>2, <2>4, WrittenGrows
  <2>6. Len(answer.sublocations) \in Nat /\ MaxSublocations \in Nat /\ Len(written) \in Nat
    BY <2>2, <2>4, WrittenGrows, CapacitiesAssumption
  <2>7. Len(answer.sublocations) > MaxSublocations
    BY <2>4, <2>5, <2>6
  <2> QED BY <1>1, <2>1, <2>7 DEF Gestalt!StreamingTableAsserts, Gestalt!answer, answer
<1> QED BY <1>2, <1>3

\* The table in the making was added where there was room for it.
LEMMA FinishedBehind ==
  ASSUME StreamInvariant, step # "called"
  PROVE  /\ FinishedTables = WithoutLastTable(streaming_sublocation_tables)
         /\ FinishedTables \in Seq(StreamingTable)
         /\ Len(FinishedTables) < MaxTables
         /\ Append(FinishedTables, NewRow) = streaming_sublocation_tables
<1>1. /\ streaming_sublocation_tables \in Seq(StreamingTable)
      /\ streaming_sublocation_tables # << >>
      /\ Len(streaming_sublocation_tables) <= MaxTables
  BY TableUnderWay DEF StreamInvariant, TableInMaking
<1>2. /\ FinishedTables = WithoutLastTable(streaming_sublocation_tables)
      /\ NewRow = Last(streaming_sublocation_tables)
  BY DEF FinishedTables, NewRow
<1>3. /\ FinishedTables \in Seq(StreamingTable)
      /\ Len(FinishedTables) = Len(streaming_sublocation_tables) - 1
      /\ Append(FinishedTables, NewRow) = streaming_sublocation_tables
  BY <1>1, <1>2, LastTableAppended
<1>4. Len(streaming_sublocation_tables) \in Nat /\ MaxTables \in Nat
  BY <1>1, CapacitiesAssumption
<1> QED BY <1>1, <1>2, <1>3, <1>4

\* Giving back an empty table is adding none.
LEMMA GiveBackSeen ==
  ASSUME StreamInvariant, GiveBackTable
  PROVE  Gestalt!DropEmptyStreamingTable
<1>1. /\ step = "emit" /\ pc = "streaming_sublocations" /\ current \in Resources
      /\ answer.structured /\ answer.streams /\ answer.has_owner
  BY DEF GiveBackTable, ProcedureReturned, AtStep, StreamInvariant, TableInMaking
<1>2. answer.sublocations = << >>
  <2>1. ProcedureReturned /\ NewRow.stream_locations = << >>
    BY DEF GiveBackTable
  <2> QED BY <2>1, AllWritten DEF SublocationTable
<1>3. FinishedTables \in Seq(StreamingTable) /\ Len(FinishedTables) < MaxTables
  BY <1>1, FinishedBehind
<1>4. FinishedTables' = FinishedTables
  BY <1>1 DEF GiveBackTable, FinishedTables
<1>5. SublocationTable(<< >>, 0) \in StreamingTable
  <2>1. 0 \in 0 .. LongModulus - 1
    BY CapacitiesAssumption
  <2> QED BY <2>1 DEF SublocationTable, StreamingTable
<1>6. WithoutLastTable(Append(FinishedTables, SublocationTable(<< >>, 0))) = FinishedTables
  BY <1>3, <1>5, AddedTableGivenBack
<1>7. Gestalt!UseStreamingTable(NoStreamingTable)
  BY SameGestalt DEF GiveBackTable, UseStreamingTable, Gestalt!UseStreamingTable
<1>8. Gestalt!NewTableAsked
  BY <1>1, <1>2, <1>3, CapacitiesAssumption DEF Gestalt!NewTableAsked, Gestalt!answer, answer
<1> QED BY <1>2, <1>4, <1>6, <1>7, <1>8, SameTables
  DEF GiveBackTable, Gestalt!DropEmptyStreamingTable, Gestalt!answer, answer

\* A table that has been summed is one of those the one step may add.
LEMMA FilledSeen ==
  ASSUME StreamInvariant, AtStep("sum"), Summed
  PROVE  /\ Gestalt!NewFilledTableAsked
         /\ streaming_sublocation_tables \in Gestalt!WithFilledTable
<1>1. /\ step = "sum" /\ pc = "streaming_sublocations" /\ current \in Resources
      /\ answer.structured /\ answer.streams /\ answer.has_owner
      /\ answer.sublocations # << >> /\ Len(answer.sublocations) <= MaxSublocations
      /\ NewRow.stream_locations \in SortedSublocations(answer.sublocations)
  BY DEF AtStep, StreamInvariant, TableInMaking
<1>2. NewRow = SublocationTable(NewRow.stream_locations,
                                TotalMemorySize(NewRow.stream_locations))
  BY RowSummed
<1>3. /\ Len(FinishedTables) < MaxTables
      /\ Append(FinishedTables, NewRow) = streaming_sublocation_tables
  BY <1>1, FinishedBehind
<1>4. Gestalt!NewFilledTableAsked
  BY <1>1, <1>3
  DEF Gestalt!NewFilledTableAsked, Gestalt!NewTableAsked, Gestalt!answer, answer
<1>5. streaming_sublocation_tables \in Gestalt!WithFilledTable
  BY <1>1, <1>2, <1>3, SameTables DEF Gestalt!WithFilledTable, Gestalt!answer, answer
<1> QED BY <1>4, <1>5

\* Returning it is adding it.
LEMMA ReturnSeen ==
  ASSUME StreamInvariant, ReturnTable
  PROVE  Gestalt!AppendStreamingTable
<1> DEFINE tables == streaming_sublocation_tables
<1>1. Gestalt!NewFilledTableAsked /\ tables \in Gestalt!WithFilledTable
  BY FilledSeen DEF ReturnTable
<1>2. FinishedTables' = tables
  BY DEF ReturnTable, FinishedTables
<1>3. Gestalt!CallerAccepts(tables)
  BY SameTables DEF ReturnTable
<1>4. has_pageable_data' =
        [has_pageable_data EXCEPT ![current] = @ /\ ~Gestalt!TableHasNoBytes(tables)]
  BY SameTables, Zenon DEF ReturnTable
<1>5. Gestalt!UseStreamingTable(Gestalt!TableIndex(tables))
  BY SameGestalt, SameTables DEF ReturnTable, UseStreamingTable, Gestalt!UseStreamingTable
<1> HIDE DEF tables
<1> QED BY <1>1, <1>2, <1>3, <1>4, <1>5 DEF Gestalt!AppendStreamingTable

\* ... and having its index refused is failing the assert of the caller.
LEMMA RefusalSeen ==
  ASSUME StreamInvariant, ReturnedIndexAsserts
  PROVE  Gestalt!TableIndexAsserts
<1> DEFINE tables == streaming_sublocation_tables
<1>1. Gestalt!NewFilledTableAsked /\ tables \in Gestalt!WithFilledTable
  BY FilledSeen DEF ReturnedIndexAsserts
<1>2. FinishedTables' = tables
  BY DEF ReturnedIndexAsserts, Abort, gestalt, FinishedTables
<1>3. ~Gestalt!CallerAccepts(tables)
  BY SameTables DEF ReturnedIndexAsserts
<1> HIDE DEF tables
<1> QED BY <1>1, <1>2, <1>3
  DEF Gestalt!TableIndexAsserts, ReturnedIndexAsserts, Abort, gestalt, locals, Gestalt!locals

\* A call that has nothing to stream.
LEMMA NothingSeen ==
  ASSUME ReturnNothing
  PROVE  Gestalt!NotStreamed
<1>1. FinishedTables = streaming_sublocation_tables
      /\ FinishedTables' = streaming_sublocation_tables'
  BY DEF ReturnNothing, AtStep, calleeVars, FinishedTables
<1> QED BY <1>1, SameGestalt, SameTables
  DEF ReturnNothing, NotStreamed, Gestalt!NotStreamed, UseStreamingTable,
    Gestalt!UseStreamingTable, Gestalt!answer, answer

\* At first no table is in the making.
LEMMA GestaltInitially == StreamInit => Gestalt!Init
<1> SUFFICES ASSUME StreamInit PROVE Gestalt!Init
  OBVIOUS
<1>1. FinishedTables = streaming_sublocation_tables
  BY DEF StreamInit, FinishedTables
<1> QED BY <1>1, SameGestalt DEF StreamInit, Init, Gestalt!Init

\* Each statement is a step of the gestalt, seen past the table in the making.
LEMMA GestaltStep ==
  StreamInvariant /\ [StreamNext]_streamVars =>
    [Gestalt!Next \/ CapacityAsserts]_(Gestalt!vars)
<1> SUFFICES ASSUME StreamInvariant, [StreamNext]_streamVars
             PROVE  Gestalt!Next \/ CapacityAsserts \/ UNCHANGED Gestalt!vars
  OBVIOUS
<1>1. CASE UNCHANGED streamVars
  BY <1>1 DEF streamVars, vars, gestalt, locals, calleeVars, Gestalt!vars, Gestalt!gestalt,
    Gestalt!locals, FinishedTables
<1>2. CASE Elsewhere(Next)
  <2>1. CASE UNCHANGED streamVars
    BY <2>1, <1>1
  <2>2. CASE step = "called" /\ step' = "called" /\ Next
    <3>1. /\ FinishedTables = streaming_sublocation_tables
          /\ FinishedTables' = streaming_sublocation_tables'
      BY <2>2 DEF FinishedTables
    <3> QED BY <1>2, <2>2, <3>1, ElsewhereSeen DEF Elsewhere
  <2> QED BY <1>2, <2>1, <2>2, NotUnderWay
<1>3. CASE AddTable \/ AskCapacity \/ AppendRow \/ AppendRowToNull \/ SortRows \/ SumRow
  BY <1>3, MakingUnseen
<1>4. CASE ReturnNothing
  BY <1>4, NothingSeen DEF Gestalt!Next, Gestalt!CallStep
<1>5. CASE AddTableAsserts \/ AppendRowAsserts
  BY <1>5, AssertsSeen DEF Gestalt!Next, Gestalt!CallStep
<1>6. CASE GiveBackTable
  BY <1>6, GiveBackSeen DEF Gestalt!Next, Gestalt!CallStep
<1>7. CASE ReturnTable
  BY <1>7, ReturnSeen DEF Gestalt!Next, Gestalt!CallStep
<1>8. CASE ReturnedIndexAsserts
  BY <1>8, RefusalSeen DEF Gestalt!Next, Gestalt!CallStep
<1> QED BY <1>1, <1>2, <1>3, <1>4, <1>5, <1>6, <1>7, <1>8 DEF StreamNext, CalleeStep

\* What ResourceGestalt takes for one step is what the function does statement by
\* statement, whatever procedures write, in blocks and words of any size.
THEOREM GestaltImplemented == StreamSpec => ImplementsGestalt
BY GestaltInitially, StreamInvariantInitially, StreamInvariantKept, GestaltStep, PTL
DEF StreamSpec, ImplementsGestalt

-------------------------------------------------------------------------------
(* Both refinements together.                                                *)

\* All that is proved about ResourceGestalt, of the tables but for the one in the making.
Seen == INSTANCE ResourceGestaltProofs WITH streaming_sublocation_tables <- FinishedTables

\* The two instances of ResourceGestalt have the same operators ...
LEMMA SameSeen ==
  /\ \A path : Seen!FirstSharedFile(path) = Gestalt!FirstSharedFile(path)
  /\ \A identifier :
       Seen!FirstCodecDefinition(identifier) = Gestalt!FirstCodecDefinition(identifier)
  /\ Seen!WithFilledTable = Gestalt!WithFilledTable
  /\ \A tables : Seen!WithoutLastTable(tables) = Gestalt!WithoutLastTable(tables)
  /\ \A tables : Seen!TableIndex(tables) = Gestalt!TableIndex(tables)
  /\ \A tables : Seen!CallerAccepts(tables) = Gestalt!CallerAccepts(tables)
  /\ \A tables : Seen!TableHasNoBytes(tables) = Gestalt!TableHasNoBytes(tables)
  /\ Seen!NoStreamingTable = Gestalt!NoStreamingTable
  /\ Seen!NullFileLocation = Gestalt!NullFileLocation
  /\ \A path, offset : Seen!SharedFile(path, offset) = Gestalt!SharedFile(path, offset)
<1>1. \A path : Seen!FirstSharedFile(path) = Gestalt!FirstSharedFile(path)
  BY DEF Gestalt!FirstSharedFile, Seen!FirstSharedFile, Gestalt!SelectInSeq, Seen!SelectInSeq,
    Gestalt!Min, Seen!Min
<1>2. \A identifier :
        Seen!FirstCodecDefinition(identifier) = Gestalt!FirstCodecDefinition(identifier)
  BY DEF Gestalt!FirstCodecDefinition, Seen!FirstCodecDefinition, Gestalt!SelectInSeq,
    Seen!SelectInSeq, Gestalt!Min, Seen!Min
<1>3. Seen!WithFilledTable = Gestalt!WithFilledTable
  BY DEF Gestalt!WithFilledTable, Seen!WithFilledTable, Gestalt!SublocationTable,
    Seen!SublocationTable, Gestalt!SortedSublocations, Seen!SortedSublocations,
    Gestalt!TotalMemorySize, Seen!TotalMemorySize, Gestalt!IsSorted, Seen!IsSorted,
    Gestalt!Bijection, Seen!Bijection, Gestalt!Injection, Seen!Injection, Gestalt!Surjection,
    Seen!Surjection, Gestalt!IsInjective, Seen!IsInjective, Gestalt!FoldLeft, Seen!FoldLeft,
    Gestalt!MapThenFoldSet, Seen!MapThenFoldSet, Gestalt!Max, Seen!Max, Gestalt!Unsigned,
    Seen!Unsigned, Gestalt!answer, Seen!answer
<1>4. /\ \A tables : Seen!WithoutLastTable(tables) = Gestalt!WithoutLastTable(tables)
      /\ \A tables : Seen!TableIndex(tables) = Gestalt!TableIndex(tables)
      /\ \A tables : Seen!CallerAccepts(tables) = Gestalt!CallerAccepts(tables)
      /\ \A tables : Seen!TableHasNoBytes(tables) = Gestalt!TableHasNoBytes(tables)
      /\ Seen!NoStreamingTable = Gestalt!NoStreamingTable
      /\ Seen!NullFileLocation = Gestalt!NullFileLocation
      /\ \A path, offset : Seen!SharedFile(path, offset) = Gestalt!SharedFile(path, offset)
  BY DEF Gestalt!WithoutLastTable, Seen!WithoutLastTable, Gestalt!TableIndex, Seen!TableIndex,
    Gestalt!LastIndex, Seen!LastIndex, Gestalt!Unsigned, Seen!Unsigned, Gestalt!CallerAccepts,
    Seen!CallerAccepts, Gestalt!TableHasNoBytes, Seen!TableHasNoBytes,
    Gestalt!CallersTableIndex, Seen!CallersTableIndex, Gestalt!ValidIndex, Seen!ValidIndex,
    Gestalt!RowAt, Seen!RowAt, Gestalt!Signed, Seen!Signed, Gestalt!NONE, Seen!NONE,
    Gestalt!NoStreamingTable, Seen!NoStreamingTable, Gestalt!NullFileLocation,
    Seen!NullFileLocation, Gestalt!SharedFile, Seen!SharedFile
<1> QED BY <1>1, <1>2, <1>3, <1>4

\* ... and the same steps.
LEMMA SeenIsGestalt ==
  /\ Gestalt!Init => Seen!Init
  /\ UNCHANGED Gestalt!vars => UNCHANGED Seen!vars
  /\ Gestalt!Next => Seen!Next
<1> USE SameSeen DEF Gestalt!gestalt, Seen!gestalt, Gestalt!locals, Seen!locals, Gestalt!answer,
      Seen!answer, Gestalt!Abort, Seen!Abort, Gestalt!Return, Seen!Return, Gestalt!Signed,
      Seen!Signed, Gestalt!Unsigned, Seen!Unsigned, Gestalt!ValidIndex, Seen!ValidIndex,
      Gestalt!RowAt, Seen!RowAt, Gestalt!LastIndex, Seen!LastIndex, Gestalt!NONE, Seen!NONE,
      Gestalt!CountReference, Seen!CountReference
<1>1. Gestalt!DescribeFails => Seen!DescribeFails
  BY DEF Gestalt!DescribeFails, Seen!DescribeFails
<1>2. Gestalt!FindCachedSharedFile => Seen!FindCachedSharedFile
  BY DEF Gestalt!FindCachedSharedFile, Seen!FindCachedSharedFile, Gestalt!UseSharedFile,
    Seen!UseSharedFile
<1>3. Gestalt!AppendSharedFile => Seen!AppendSharedFile
  BY DEF Gestalt!AppendSharedFile, Seen!AppendSharedFile, Gestalt!UseSharedFile,
    Seen!UseSharedFile, Gestalt!RememberSharedFile, Seen!RememberSharedFile,
    Gestalt!NewSharedFileAsked, Seen!NewSharedFileAsked
<1>4. Gestalt!FindOwnSharedFile => Seen!FindOwnSharedFile
  BY DEF Gestalt!FindOwnSharedFile, Seen!FindOwnSharedFile, Gestalt!UseSharedFile,
    Seen!UseSharedFile, Gestalt!RememberSharedFile, Seen!RememberSharedFile,
    Gestalt!NewSharedFileAsked, Seen!NewSharedFileAsked
<1>5. Gestalt!SharedFileAsserts => Seen!SharedFileAsserts
  BY DEF Gestalt!SharedFileAsserts, Seen!SharedFileAsserts, Gestalt!NewSharedFileAsked,
    Seen!NewSharedFileAsked
<1>6. Gestalt!FindCodecDefinition => Seen!FindCodecDefinition
  BY DEF Gestalt!FindCodecDefinition, Seen!FindCodecDefinition, Gestalt!UseCodecDefinition,
    Seen!UseCodecDefinition
<1>7. Gestalt!AppendCodecDefinition => Seen!AppendCodecDefinition
  BY DEF Gestalt!AppendCodecDefinition, Seen!AppendCodecDefinition,
    Gestalt!UseCodecDefinition, Seen!UseCodecDefinition, Gestalt!NewCodecAsked,
    Seen!NewCodecAsked
<1>8. Gestalt!CodecDefinitionAsserts => Seen!CodecDefinitionAsserts
  BY DEF Gestalt!CodecDefinitionAsserts, Seen!CodecDefinitionAsserts, Gestalt!NewCodecAsked,
    Seen!NewCodecAsked
<1>9. Gestalt!NotStreamed => Seen!NotStreamed
  BY DEF Gestalt!NotStreamed, Seen!NotStreamed, Gestalt!UseStreamingTable,
    Seen!UseStreamingTable
<1>10. Gestalt!DropEmptyStreamingTable => Seen!DropEmptyStreamingTable
  BY DEF Gestalt!DropEmptyStreamingTable, Seen!DropEmptyStreamingTable,
    Gestalt!UseStreamingTable, Seen!UseStreamingTable, Gestalt!NewTableAsked,
    Seen!NewTableAsked, Gestalt!SublocationTable, Seen!SublocationTable
<1>11. Gestalt!AppendStreamingTable => Seen!AppendStreamingTable
  BY DEF Gestalt!AppendStreamingTable, Seen!AppendStreamingTable, Gestalt!UseStreamingTable,
    Seen!UseStreamingTable, Gestalt!NewFilledTableAsked, Seen!NewFilledTableAsked,
    Gestalt!NewTableAsked, Seen!NewTableAsked
<1>12. Gestalt!StreamingTableAsserts => Seen!StreamingTableAsserts
  BY DEF Gestalt!StreamingTableAsserts, Seen!StreamingTableAsserts
<1>13. Gestalt!TableIndexAsserts => Seen!TableIndexAsserts
  BY DEF Gestalt!TableIndexAsserts, Seen!TableIndexAsserts, Gestalt!NewFilledTableAsked,
    Seen!NewFilledTableAsked, Gestalt!NewTableAsked, Seen!NewTableAsked
<1>14. Gestalt!AppendFileLocation => Seen!AppendFileLocation
  BY DEF Gestalt!AppendFileLocation, Seen!AppendFileLocation, Gestalt!UseFileLocation,
    Seen!UseFileLocation
<1>15. Gestalt!ReuseNullFileLocation => Seen!ReuseNullFileLocation
  BY DEF Gestalt!ReuseNullFileLocation, Seen!ReuseNullFileLocation, Gestalt!UseFileLocation,
    Seen!UseFileLocation
<1>16. Gestalt!FileLocationAsserts => Seen!FileLocationAsserts
  BY DEF Gestalt!FileLocationAsserts, Seen!FileLocationAsserts
<1>17. Gestalt!AssignLocation => Seen!AssignLocation
  BY DEF Gestalt!AssignLocation, Seen!AssignLocation
<1>18. Gestalt!AssignLocationAsserts => Seen!AssignLocationAsserts
  BY DEF Gestalt!AssignLocationAsserts, Seen!AssignLocationAsserts
<1>19. Gestalt!CallStep => Seen!CallStep
  BY <1>1, <1>2, <1>3, <1>4, <1>5, <1>6, <1>7, <1>8, <1>9, <1>10, <1>11, <1>12,
    <1>13, <1>14, <1>15, <1>16, <1>17, <1>18
  DEF Gestalt!CallStep, Seen!CallStep
<1>20. \A r : Gestalt!BeginCall(r) => Seen!BeginCall(r)
  BY DEF Gestalt!BeginCall, Seen!BeginCall
<1>21. \A r : Gestalt!BeginCallAsserts(r) => Seen!BeginCallAsserts(r)
  BY DEF Gestalt!BeginCallAsserts, Seen!BeginCallAsserts
<1>22. Gestalt!Finished => Seen!Finished
  BY DEF Gestalt!Finished, Seen!Finished, Gestalt!vars, Seen!vars
<1> QED BY <1>19, <1>20, <1>21, <1>22
  DEF Gestalt!Init, Seen!Init, Gestalt!Next, Seen!Next, Gestalt!vars, Seen!vars

\* The assumptions about the constants do not speak of tables.
LEMMA SeenAssumptions ==
  /\ Seen!IsFiniteSet(Resources)
  /\ Answers \subseteq Seen!Answer
  /\ \A given \in Answers :
       \A rows \in Seen!SortedSublocations(given.sublocations) :
         Seen!SumOfSizes(rows) \in 0 .. LongModulus - 1
<1>1. Answers \subseteq Seen!Answer
  BY AnswersAssumption DEF Seen!Answer, Answer, Seen!StreamingSublocation, StreamingSublocation
<1>2. \A rows : Seen!SortedSublocations(rows) = SortedSublocations(rows)
  BY DEF Seen!SortedSublocations, SortedSublocations, Seen!IsSorted, IsSorted,
    Seen!Bijection, Bijection, Seen!Injection, Injection, Seen!Surjection, Surjection,
    Seen!IsInjective, IsInjective
<1>3. \A rows : Seen!SumOfSizes(rows) = SumOfSizes(rows)
  BY DEF Seen!SumOfSizes, SumOfSizes, Seen!FoldLeft, FoldLeft, Seen!MapThenFoldSet,
    MapThenFoldSet, Seen!Max, Max
<1>4. Seen!IsFiniteSet(Resources)
  BY ResourcesAssumption DEF Seen!IsFiniteSet, IsFiniteSet
<1> QED BY <1>1, <1>2, <1>3, <1>4, SizesDoNotWrap

\* What is proved of the steps of ResourceGestalt and the promise.
LEMMA SeenPromise ==
  /\ Seen!Init => Seen!PromiseInvariant /\ Seen!Promise!Init
  /\ Seen!PromiseInvariant /\ [Seen!Next]_(Seen!vars) =>
       Seen!PromiseInvariant' /\ [Seen!Promise!Next]_(Seen!Promise!vars)
  /\ Seen!PromiseInvariant /\ Seen!Abort =>
       Seen!PromiseInvariant' /\ UNCHANGED Seen!Promise!vars
<1> USE SeenAssumptions, ResourcesAssumption, LocationIndexesDistinct, LocationIndexesAreShort,
      FilesAssumption, CapacitiesAssumption, ShortsAssumption
<1>1. Seen!Init => Seen!PromiseInvariant /\ Seen!Promise!Init
  BY Seen!InitPromise
<1>2. Seen!PromiseInvariant /\ [Seen!Next]_(Seen!vars) => Seen!PromiseInvariant'
  BY Seen!NextPromiseInvariant
<1>3. Seen!PromiseInvariant /\ [Seen!Next]_(Seen!vars) =>
        [Seen!Promise!Next]_(Seen!Promise!vars)
  BY Seen!StepKeepsPromise
<1>4. Seen!PromiseInvariant /\ Seen!Abort =>
        Seen!PromiseInvariant' /\ UNCHANGED Seen!Promise!vars
  BY Seen!AbortKeepsPromise
<1> QED BY <1>1, <1>2, <1>3, <1>4

\* Seen past the table in the making, a failed assert on a definition is any failed assert.
LEMMA CapacityAssertsSeen == CapacityAsserts => Seen!Abort
<1>1. CapacityAsserts => Gestalt!Abort
  BY AbortSeen DEF CapacityAsserts
<1>2. Gestalt!Abort => Seen!Abort
  BY DEF Gestalt!Abort, Seen!Abort, Gestalt!gestalt, Seen!gestalt, Gestalt!locals, Seen!locals
<1> QED BY <1>1, <1>2

\* So each statement, seen by a reader, is a step of the promise or changes nothing.
LEMMA StatementKeepsPromise ==
  StreamInvariant /\ Seen!PromiseInvariant /\ [StreamNext]_streamVars =>
    Seen!PromiseInvariant' /\ [Seen!Promise!Next]_(Seen!Promise!vars)
<1> SUFFICES ASSUME StreamInvariant, Seen!PromiseInvariant, [StreamNext]_streamVars
             PROVE  Seen!PromiseInvariant' /\ [Seen!Promise!Next]_(Seen!Promise!vars)
  OBVIOUS
<1>1. CASE CapacityAsserts
  BY <1>1, CapacityAssertsSeen, SeenPromise
<1>2. CASE [Seen!Next]_(Seen!vars)
  BY <1>2, SeenPromise
<1> QED BY <1>1, <1>2, GestaltStep, SeenIsGestalt

\* Whatever procedures write, statement by statement, a reader who does not look at the
\* table in the making finds every resource as its datum handler described it.
THEOREM StreamedAsPromised == StreamSpec => Seen!KeepsLocationPromise
<1>1. StreamInit => Seen!PromiseInvariant /\ Seen!Promise!Init
  BY GestaltInitially, SeenIsGestalt, SeenPromise
<1> QED BY <1>1, StreamInvariantInitially, StreamInvariantKept, StatementKeepsPromise, PTL
  DEF StreamSpec, Seen!KeepsLocationPromise, Seen!Promise!Spec
=================================================================================
