------------------------- MODULE ResourceGestaltProofs -------------------------
(***************************************************************************)
(* Proofs about ResourceGestalt, for every set of resources, every answer  *)
(* of the datum handlers and every size of the tag blocks: its invariants, *)
(* and that it keeps LocationPromise, each of its steps, seen through the  *)
(* walk of a reader of the map, giving a resource the location it was      *)
(* promised, refusing it, or changing nothing.                             *)
(***************************************************************************)
EXTENDS ResourceGestaltRefinement, CseriesProofs, FiniteSetTheorems

-------------------------------------------------------------------------------
(* The total of a streaming table.                                           *)

\* The loop over the sorted rows, in 32 bits.
LEMMA TotalSteps ==
  ASSUME NEW rows \in Seq(StreamingSublocation)
  PROVE  \E a \in [0 .. Len(rows) -> Nat] :
           /\ a[0] = 0
           /\ \A k \in 0 .. Len(rows) - 1 :
                a[k + 1] = Unsigned(a[k] + rows[k + 1].memory_size, LongModulus)
           /\ a[Len(rows)] = TotalMemorySize(rows)
<1> DEFINE n == Len(rows)
           V == Nat
           zero == 0
           Step(v, i) == Unsigned(v + rows[i].memory_size, LongModulus)
           F == [p \in (1 .. n) \X V |-> Step(p[2], p[1])]
           Fold(f) == f = [s \in SUBSET (1 .. n) |->
                           IF s = {} THEN zero ELSE Step(f[s \ {Max(s)}], Max(s))]
           iter == CHOOSE f : Fold(f)
<1>1. n \in Nat /\ DOMAIN rows = 1 .. n /\ \A i \in 1 .. n : rows[i].memory_size \in Int
  <2>1. \A i \in 1 .. Len(rows) : rows[i] \in StreamingSublocation
    OBVIOUS
  <2> QED BY <2>1 DEF StreamingSublocation
<1>2. TotalMemorySize(rows) = iter[1 .. n]
  <2>1. TotalMemorySize(rows) = iter[DOMAIN rows]
    BY <1>1 DEF TotalMemorySize, FoldLeft, MapThenFoldSet
  <2> QED BY <2>1, <1>1
<1>3. F \in FoldFunctions(n, V) /\ zero \in V
  <2>1. ASSUME NEW v \in V, NEW i \in 1 .. n PROVE Step(v, i) \in V
    <3>1. v + rows[i].memory_size \in Int
      BY <1>1
    <3> QED BY <3>1, CastTypes, CapacitiesAssumption
  <2> HIDE DEF Step, V
  <2>2. zero \in V
    BY DEF V
  <2> QED BY <2>1, <2>2 DEF FoldFunctions
<1>4. \A v \in V, i \in 1 .. n : F[<<i, v>>] = Step(v, i)
  OBVIOUS
<1> HIDE DEF n, Step, F, iter, V, zero
<1>5. \A s \in SUBSET (1 .. n) : s # {} => Max(s) \in 1 .. n /\ s \ {Max(s)} \in SUBSET (1 .. n)
  BY <1>1, MaxIsElement
<1>6. \E g : Fold(g)
  <2> HIDE DEF Fold
  <2>1. PICK g : IsFold(g, n, V, zero, F)
    BY <1>1, <1>3, FoldExists
  <2>2. \A s \in SUBSET (1 .. n) :
          g[s] = IF s = {} THEN zero ELSE Step(g[s \ {Max(s)}], Max(s))
    <3>1. \A s \in SUBSET (1 .. n) : s # {} => g[s \ {Max(s)}] \in V
      BY <1>5, <2>1 DEF IsFold
    <3> QED BY <1>4, <1>5, <2>1, <3>1 DEF IsFold
  <2>3. Fold(g)
    BY <2>1, <2>2 DEF Fold, IsFold
  <2> QED BY <2>3
<1>7. Fold(iter)
  <2> HIDE DEF Fold
  <2> QED BY <1>6 DEF iter
<1>8. FoldsAsLongAsIn(iter, n, V, zero, F)
  BY <1>4, <1>5, <1>7 DEF FoldsAsLongAsIn
<1> HIDE DEF Fold
<1>9. PICK a : IsRunOfFold(a, n, V, zero, F) /\ a[n] = iter[1 .. n]
  BY <1>1, <1>3, <1>8, FoldSteps
<1>10. ASSUME NEW k \in 0 .. n - 1 PROVE a[k + 1] = Step(a[k], k + 1)
  <2>1. k + 1 \in 1 .. n /\ k \in 0 .. n
    BY <1>1
  <2> QED BY <1>4, <1>9, <2>1 DEF IsRunOfFold
<1> QED BY <1>2, <1>9, <1>10 DEF n, Step, V, zero, IsRunOfFold

\* The same of the plain sum.
LEMMA SumSteps ==
  ASSUME NEW rows \in Seq(StreamingSublocation)
  PROVE  \E a \in [0 .. Len(rows) -> Int] :
           /\ a[0] = 0
           /\ \A k \in 0 .. Len(rows) - 1 : a[k + 1] = a[k] + rows[k + 1].memory_size
           /\ a[Len(rows)] = SumOfSizes(rows)
<1> DEFINE n == Len(rows)
           V == Int
           zero == 0
           Step(v, i) == v + rows[i].memory_size
           F == [p \in (1 .. n) \X V |-> Step(p[2], p[1])]
           Fold(f) == f = [s \in SUBSET (1 .. n) |->
                           IF s = {} THEN zero ELSE Step(f[s \ {Max(s)}], Max(s))]
           iter == CHOOSE f : Fold(f)
<1>1. n \in Nat /\ DOMAIN rows = 1 .. n /\ \A i \in 1 .. n : rows[i].memory_size \in Int
  <2>1. \A i \in 1 .. Len(rows) : rows[i] \in StreamingSublocation
    OBVIOUS
  <2> QED BY <2>1 DEF StreamingSublocation
<1>2. SumOfSizes(rows) = iter[1 .. n]
  <2>1. SumOfSizes(rows) = iter[DOMAIN rows]
    BY <1>1 DEF SumOfSizes, FoldLeft, MapThenFoldSet
  <2> QED BY <2>1, <1>1
<1>3. F \in FoldFunctions(n, V) /\ zero \in V
  <2>1. \A v \in V, i \in 1 .. n : Step(v, i) \in V
    BY <1>1
  <2> HIDE DEF Step, V
  <2>2. zero \in V
    BY DEF V
  <2> QED BY <2>1, <2>2 DEF FoldFunctions
<1>4. \A v \in V, i \in 1 .. n : F[<<i, v>>] = Step(v, i)
  OBVIOUS
<1> HIDE DEF n, Step, F, iter, V, zero
<1>5. \A s \in SUBSET (1 .. n) : s # {} => Max(s) \in 1 .. n /\ s \ {Max(s)} \in SUBSET (1 .. n)
  BY <1>1, MaxIsElement
<1>6. \E g : Fold(g)
  <2> HIDE DEF Fold
  <2>1. PICK g : IsFold(g, n, V, zero, F)
    BY <1>1, <1>3, FoldExists
  <2>2. \A s \in SUBSET (1 .. n) :
          g[s] = IF s = {} THEN zero ELSE Step(g[s \ {Max(s)}], Max(s))
    <3>1. \A s \in SUBSET (1 .. n) : s # {} => g[s \ {Max(s)}] \in V
      BY <1>5, <2>1 DEF IsFold
    <3> QED BY <1>4, <1>5, <2>1, <3>1 DEF IsFold
  <2>3. Fold(g)
    BY <2>1, <2>2 DEF Fold, IsFold
  <2> QED BY <2>3
<1>7. Fold(iter)
  <2> HIDE DEF Fold
  <2> QED BY <1>6 DEF iter
<1>8. FoldsAsLongAsIn(iter, n, V, zero, F)
  BY <1>4, <1>5, <1>7 DEF FoldsAsLongAsIn
<1> HIDE DEF Fold
<1>9. PICK a : IsRunOfFold(a, n, V, zero, F) /\ a[n] = iter[1 .. n]
  BY <1>1, <1>3, <1>8, FoldSteps
<1>10. ASSUME NEW k \in 0 .. n - 1 PROVE a[k + 1] = Step(a[k], k + 1)
  <2>1. k + 1 \in 1 .. n /\ k \in 0 .. n
    BY <1>1
  <2> QED BY <1>4, <1>9, <2>1 DEF IsRunOfFold
<1> QED BY <1>2, <1>9, <1>10 DEF n, Step, V, zero, IsRunOfFold

\* The total of a streaming table is what 32 bits keep of the sum of its sizes, for
\* any number of rows.
THEOREM TotalIsRemainder ==
  ASSUME NEW rows \in Seq(StreamingSublocation)
  PROVE  /\ SumOfSizes(rows) \in Int
         /\ TotalMemorySize(rows) = Unsigned(SumOfSizes(rows), LongModulus)
         /\ TotalMemorySize(rows) \in 0 .. LongModulus - 1
<1> DEFINE n == Len(rows)
<1>1. n \in Nat /\ LongModulus \in Nat \ {0} /\ \A i \in 1 .. n : rows[i].memory_size \in Int
  <2>1. \A i \in 1 .. n : rows[i] \in StreamingSublocation
    OBVIOUS
  <2> QED BY <2>1, CapacitiesAssumption DEF StreamingSublocation
<1>2. PICK a \in [0 .. n -> Nat] :
        /\ a[0] = 0
        /\ \A k \in 0 .. n - 1 : a[k + 1] = Unsigned(a[k] + rows[k + 1].memory_size, LongModulus)
        /\ a[n] = TotalMemorySize(rows)
  BY TotalSteps
<1>3. PICK b \in [0 .. n -> Int] :
        /\ b[0] = 0
        /\ \A k \in 0 .. n - 1 : b[k + 1] = b[k] + rows[k + 1].memory_size
        /\ b[n] = SumOfSizes(rows)
  BY SumSteps
<1> HIDE DEF n
<1> DEFINE Good == {k \in 0 .. n : a[k] = Unsigned(b[k], LongModulus)}
<1>4. 0 \in Good
  <2>1. Unsigned(0, LongModulus) = 0
    BY <1>1 DEF Unsigned
  <2> QED BY <1>1, <1>2, <1>3, <2>1
<1>5. ASSUME NEW k \in 0 .. n - 1, k \in Good PROVE k + 1 \in Good
  <2>1. k \in 0 .. n /\ k + 1 \in 0 .. n /\ k + 1 \in 1 .. n
    BY <1>1
  <2>2. a[k] = Unsigned(b[k], LongModulus) /\ b[k] \in Int /\ rows[k + 1].memory_size \in Int
    BY <1>1, <1>3, <1>5, <2>1
  <2>3. Unsigned(Unsigned(b[k], LongModulus) + rows[k + 1].memory_size, LongModulus) =
          Unsigned(b[k] + rows[k + 1].memory_size, LongModulus)
    BY <1>1, <2>2, SumModulo
  <2> QED BY <1>2, <1>3, <2>1, <2>2, <2>3
<1>6. n \in Good
  <2> HIDE DEF Good
  <2>1. n \in 0 .. n
    BY <1>1
  <2> QED BY <1>1, <1>4, <1>5, <2>1, AllUpTo
<1>7. b[n] \in Int /\ a[n] = Unsigned(b[n], LongModulus)
  BY <1>1, <1>3, <1>6
<1>8. Unsigned(b[n], LongModulus) \in 0 .. LongModulus - 1
  BY <1>1, <1>7, CastTypes
<1> QED BY <1>2, <1>3, <1>7, <1>8

-------------------------------------------------------------------------------
(* The operators of the steps.                                               *)

\* Sorting keeps the type and the number of the rows, and orders them.
LEMMA SortedSublocationsOrdered ==
  ASSUME NEW rows \in Seq(StreamingSublocation), NEW sorted \in SortedSublocations(rows)
  PROVE  /\ sorted \in Seq(StreamingSublocation)
         /\ Len(sorted) = Len(rows)
         /\ \A j, k \in DOMAIN sorted :
              j < k => sorted[j].memory_offset <= sorted[k].memory_offset
<1>1. PICK p \in Bijection(DOMAIN rows, DOMAIN rows) : sorted = [i \in DOMAIN rows |-> rows[p[i]]]
  BY DEF SortedSublocations
<1>2. DOMAIN rows = 1 .. Len(rows) /\ Len(rows) \in Nat
  OBVIOUS
<1>3. p \in [1 .. Len(rows) -> 1 .. Len(rows)]
  BY <1>1, <1>2 DEF Bijection, Injection
<1>4. sorted = [i \in 1 .. Len(rows) |-> rows[p[i]]]
  BY <1>1, <1>2
<1>5. \A i \in 1 .. Len(rows) : rows[p[i]] \in StreamingSublocation
  BY <1>3
<1>6. sorted \in Seq(StreamingSublocation) /\ Len(sorted) = Len(rows)
  BY <1>2, <1>4, <1>5
<1>7. IsSorted(sorted, LAMBDA a, b : a.memory_offset <= b.memory_offset)
  BY DEF SortedSublocations
<1>8. \A j, k \in 1 .. Len(sorted) :
        j < k => sorted[j].memory_offset <= sorted[k].memory_offset
  BY <1>7 DEF IsSorted
<1> QED BY <1>6, <1>8

\* Giving back the table just added leaves the tables there were.
LEMMA AddedTableGivenBack ==
  ASSUME NEW T, NEW tables \in Seq(T), NEW table \in T
  PROVE  WithoutLastTable(Append(tables, table)) = tables
<1>1. /\ Len(Append(tables, table)) = Len(tables) + 1
      /\ Append(tables, table) \in Seq(T)
      /\ \A i \in 1 .. Len(tables) : Append(tables, table)[i] = tables[i]
  BY AppendProperties
<1>2. /\ Len(tables) \in Nat
      /\ \A i \in 1 .. Len(tables) : Append(tables, table)[i] \in T
  BY <1>1, LenProperties, ElementOfSeq
<1>3. /\ SubSeq(Append(tables, table), 1, Len(tables)) \in Seq(T)
      /\ Len(SubSeq(Append(tables, table), 1, Len(tables))) = Len(tables)
      /\ \A i \in 1 .. Len(tables) :
           SubSeq(Append(tables, table), 1, Len(tables))[i] = Append(tables, table)[i]
  BY <1>2, SubSeqProperties
<1>4. SubSeq(Append(tables, table), 1, Len(tables)) = tables
  BY <1>1, <1>2, <1>3, SeqEqual
<1> QED BY <1>1, <1>2, <1>4 DEF WithoutLastTable

\* A search answers NONE or the index of a row that matches.
LEMMA FirstSharedFileFound ==
  ASSUME NEW path, shared_files \in Seq(SharedFileRow)
  PROVE  /\ FirstSharedFile(path) \in Int
         /\ NoneOrValid(FirstSharedFile(path), shared_files)
         /\ FirstSharedFile(path) # NONE =>
              RowAt(shared_files, FirstSharedFile(path)).file_name = path
<1> DEFINE I == {i \in 1 .. Len(shared_files) : shared_files[i].file_name = path}
<1>1. FirstSharedFile(path) = (IF I # {} THEN Min(I) ELSE 0) - 1
  BY DEF FirstSharedFile, SelectInSeq
<1>2. Len(shared_files) \in Nat /\ I \in SUBSET Nat
  OBVIOUS
<1>3. I # {} => Min(I) \in I
  <2> HIDE DEF I
  <2> QED BY <1>2, MinIsElement
<1>4. CASE I = {}
  BY <1>1, <1>4 DEF NoneOrValid, NONE
<1>5. CASE I # {}
  <2>1. /\ Min(I) \in 1 .. Len(shared_files)
        /\ shared_files[Min(I)].file_name = path
        /\ FirstSharedFile(path) = Min(I) - 1
    BY <1>1, <1>3, <1>5
  <2> HIDE DEF I
  <2> QED BY <1>2, <2>1 DEF NoneOrValid, ValidIndex, RowAt, NONE
<1> QED BY <1>4, <1>5

\* The same of a search for a codec; and one that answers NONE missed no row.
LEMMA FirstCodecDefinitionFound ==
  ASSUME NEW identifier, codec_definitions \in Seq(Codecs)
  PROVE  /\ FirstCodecDefinition(identifier) \in Int
         /\ NoneOrValid(FirstCodecDefinition(identifier), codec_definitions)
         /\ FirstCodecDefinition(identifier) # NONE =>
              RowAt(codec_definitions, FirstCodecDefinition(identifier)) = identifier
         /\ FirstCodecDefinition(identifier) = NONE =>
              \A i \in DOMAIN codec_definitions : codec_definitions[i] # identifier
<1> DEFINE I == {i \in 1 .. Len(codec_definitions) : codec_definitions[i] = identifier}
<1>1. FirstCodecDefinition(identifier) = (IF I # {} THEN Min(I) ELSE 0) - 1
  BY DEF FirstCodecDefinition, SelectInSeq
<1>2. Len(codec_definitions) \in Nat /\ I \in SUBSET Nat
  OBVIOUS
<1>3. I # {} => Min(I) \in I
  <2> HIDE DEF I
  <2> QED BY <1>2, MinIsElement
<1>4. CASE I = {}
  BY <1>1, <1>4 DEF NoneOrValid, NONE
<1>5. CASE I # {}
  <2>1. /\ Min(I) \in 1 .. Len(codec_definitions)
        /\ codec_definitions[Min(I)] = identifier
        /\ FirstCodecDefinition(identifier) = Min(I) - 1
    BY <1>1, <1>3, <1>5
  <2> HIDE DEF I
  <2> QED BY <1>2, <2>1 DEF NoneOrValid, ValidIndex, RowAt, NONE
<1> QED BY <1>4, <1>5

\* Any table a call may add is a streaming table, and is added last.
LEMMA FilledTableType ==
  ASSUME TypeOK, current \in Resources, NEW tables \in WithFilledTable
  PROVE  \E table \in StreamingTable :
           /\ tables = Append(streaming_sublocation_tables, table)
           /\ Len(table.stream_locations) = Len(answer.sublocations)
           /\ \A j, k \in DOMAIN table.stream_locations :
                j < k => table.stream_locations[j].memory_offset <=
                           table.stream_locations[k].memory_offset
<1>1. answer \in Answers /\ answer.sublocations \in Seq(StreamingSublocation)
  BY AnswersAssumption DEF TypeOK, answer, Answer
<1>2. PICK sorted \in SortedSublocations(answer.sublocations) :
        tables = Append(streaming_sublocation_tables,
                        SublocationTable(sorted, TotalMemorySize(sorted)))
  BY DEF WithFilledTable
<1>3. /\ sorted \in Seq(StreamingSublocation)
      /\ Len(sorted) = Len(answer.sublocations)
      /\ \A j, k \in DOMAIN sorted : j < k => sorted[j].memory_offset <= sorted[k].memory_offset
  BY <1>1, <1>2, SortedSublocationsOrdered
<1>4. TotalMemorySize(sorted) \in 0 .. LongModulus - 1
  BY <1>3, TotalIsRemainder
<1>5. SublocationTable(sorted, TotalMemorySize(sorted)) \in StreamingTable
  BY <1>3, <1>4 DEF SublocationTable, StreamingTable
<1> QED BY <1>2, <1>3, <1>5 DEF SublocationTable

\* The row made for a file is a shared file row.
LEMMA SharedFileType ==
  ASSUME NEW file \in Files
  PROVE  SharedFile(IoConfig[file].path, IoConfig[file].io_offset) \in SharedFileRow
<1>1. IoConfig[file].io_offset \in Int
  BY FilesAssumption
<1>2. Signed(IoConfig[file].io_offset, ShortModulus) \in Int
  BY <1>1, CastTypes, CapacitiesAssumption
<1>3. IoConfig[file].path \in Paths
  BY DEF Paths
<1> QED BY <1>2, <1>3 DEF SharedFile, SharedFileRow

\* Only an operation of a call in progress changes anything but who is called.
LEMMA CallInProgress ==
  ASSUME TypeOK, CallStep
  PROVE  pc \notin {"idle", "aborted"} /\ current \in Resources /\ answer \in Answer
<1>1. pc \notin {"idle", "aborted"}
  BY DEF CallStep, DescribeFails, FindCachedSharedFile, AppendSharedFile,
     FindOwnSharedFile, SharedFileAsserts, NewSharedFileAsked, FindCodecDefinition,
     AppendCodecDefinition, CodecDefinitionAsserts, NewCodecAsked, NotStreamed,
     DropEmptyStreamingTable, AppendStreamingTable, StreamingTableAsserts,
     TableIndexAsserts, NewFilledTableAsked, NewTableAsked, AppendFileLocation,
     ReuseNullFileLocation, FileLocationAsserts, AssignLocation, AssignLocationAsserts
<1>2. current \in Resources
  BY <1>1 DEF TypeOK
<1> QED BY <1>1, <1>2, AnswersAssumption DEF answer, TypeOK

-------------------------------------------------------------------------------
(* Type correctness.                                                         *)

\* The null location is a location.
LEMMA NullLocationType == NullFileLocation \in FileLocation
BY CapacitiesAssumption DEF NullFileLocation, FileLocation, NONE

\* A gestalt as the native code leaves it, and no call begun, has its types.
LEMMA InitTypeOK == Init => TypeOK
<1> SUFFICES ASSUME Init PROVE TypeOK
  OBVIOUS
<1> USE DEF Init
<1>1. answers \in [Resources -> Answers]
  OBVIOUS
<1>2. shared_files \in Seq(SharedFileRow)
  <2>1. Signed(0, ShortModulus) \in Int
    BY CastTypes, CapacitiesAssumption
  <2>2. SharedFile(OwnPath, 0) \in SharedFileRow
    BY <2>1 DEF SharedFile, SharedFileRow, Paths
  <2>3. <<SharedFile(OwnPath, 0)>> \in Seq(SharedFileRow) /\ << >> \in Seq(SharedFileRow)
    BY <2>2
  <2>4. shared_files \in {<< >>, <<SharedFile(OwnPath, 0)>>}
    OBVIOUS
  <2> QED BY <2>3, <2>4, Zenon
<1>3. codec_definitions \in Seq(Codecs) /\ streaming_sublocation_tables \in Seq(StreamingTable)
  OBVIOUS
<1>4. NullFileLocation \in FileLocation
  BY NullLocationType
<1>5. file_locations \in Seq(FileLocation)
  <2>1. <<NullFileLocation>> \in Seq(FileLocation) /\ << >> \in Seq(FileLocation)
    BY <1>4
  <2>2. file_locations \in {<< >>, <<NullFileLocation>>}
    OBVIOUS
  <2> QED BY <2>1, <2>2, Zenon
<1>6. default_locations \in [0 .. DefaultLocationCount - 1 -> Int]
  BY DEF NONE
<1>7. /\ DOMAIN m_shared_file_index_cache \subseteq Files
      /\ m_shared_file_index_cache \in [DOMAIN m_shared_file_index_cache -> Int]
  OBVIOUS
<1>8. has_pageable_data \in [Resources -> BOOLEAN]
  BY <1>1, AnswersAssumption DEF Answer
<1>9. /\ result \in [Resources -> {"pending", "true", "false"}]
      /\ pc \in Operations /\ pc = "idle"
      /\ current = NoResource /\ NoResource \notin Resources
      /\ pageable_location \in FileLocation
      /\ pageable_location_index \in Int
  BY <1>4, ResourcesAssumption DEF Operations, NONE
<1> QED BY <1>1, <1>2, <1>3, <1>5, <1>6, <1>7, <1>8, <1>9 DEF TypeOK

\* Every operation of a call keeps the types: the rows it appends are rows, what
\* it narrows is a number, and the call it returns from was pending.
LEMMA NextTypeOK == TypeOK /\ [Next]_vars => TypeOK'
<1> SUFFICES ASSUME TypeOK, [Next]_vars PROVE TypeOK'
  OBVIOUS
<1> USE DEF TypeOK, Operations
<1>1. CASE UNCHANGED vars
  BY <1>1 DEF vars, gestalt, locals
<1>2. ASSUME NEW r \in Resources, BeginCall(r) PROVE TypeOK'
  BY <1>2 DEF BeginCall, gestalt
<1>3. ASSUME NEW r \in Resources, BeginCallAsserts(r) PROVE TypeOK'
  BY <1>3 DEF BeginCallAsserts, Abort, gestalt, locals
<1>4. ASSUME CallStep PROVE TypeOK'
  <2>1. current \in Resources /\ answer \in Answer
    BY <1>4, CallInProgress
  <2>2. NullFileLocation \in FileLocation
    BY NullLocationType
  <2>3. ASSUME NEW value \in {"true", "false"}, Return(value)
        PROVE  /\ result' \in [Resources -> {"pending", "true", "false"}]
               /\ pc' = "idle" /\ current' = NoResource /\ NoResource \notin Resources
               /\ pageable_location' \in FileLocation
               /\ pageable_location_index' \in Int
    <3>1. result' = [result EXCEPT ![current] = value]
      BY <2>3 DEF Return
    <3>2. result' \in [Resources -> {"pending", "true", "false"}]
      BY <2>3, <3>1
    <3>3. /\ pc' = "idle" /\ current' = NoResource
          /\ pageable_location' = NullFileLocation
          /\ pageable_location_index' = -1
      BY <2>3 DEF Return, NONE
    <3> QED BY <2>2, <3>2, <3>3, ResourcesAssumption
  <2>4. CASE DescribeFails
    BY <2>3, <2>4 DEF DescribeFails, gestalt
  <2>5. ASSUME NEW index \in Int, UseSharedFile(index),
               shared_files' \in Seq(SharedFileRow),
               DOMAIN m_shared_file_index_cache' \subseteq Files,
               m_shared_file_index_cache' \in [DOMAIN m_shared_file_index_cache' -> Int]
        PROVE  TypeOK'
    <3>1. Signed(index, ShortModulus) \in Int
      BY CastTypes, CapacitiesAssumption
    <3>2. pageable_location' \in FileLocation
      BY <2>1, <2>5, <3>1 DEF UseSharedFile, FileLocation, Answer
    <3> QED BY <2>1, <2>5, <3>2 DEF UseSharedFile
  <2>6. CASE FindCachedSharedFile
    <3>1. m_shared_file_index_cache[answer.file_index] \in Int
      BY <2>6 DEF FindCachedSharedFile
    <3> QED BY <2>5, <2>6, <3>1 DEF FindCachedSharedFile
  <2>7. ASSUME NEW index \in Int, RememberSharedFile(index)
        PROVE  /\ DOMAIN m_shared_file_index_cache' \subseteq Files
               /\ m_shared_file_index_cache' \in [DOMAIN m_shared_file_index_cache' -> Int]
    BY <2>1, <2>7 DEF RememberSharedFile, Answer
  <2>8. CASE AppendSharedFile
    <3> DEFINE config == IoConfig[answer.file_index]
    <3>1. SharedFile(config.path, config.io_offset) \in SharedFileRow
      BY <2>1, SharedFileType DEF Answer
    <3>2. shared_files' \in Seq(SharedFileRow) /\ LastIndex(shared_files') \in Int
      BY <2>8, <3>1 DEF AppendSharedFile, LastIndex
    <3> QED BY <2>5, <2>7, <2>8, <3>2 DEF AppendSharedFile
  <2>9. CASE FindOwnSharedFile
    <3>1. FirstSharedFile(IoConfig[answer.file_index].path) \in Int
      BY FirstSharedFileFound
    <3> QED BY <2>5, <2>7, <2>9, <3>1 DEF FindOwnSharedFile
  <2>10. ASSUME Abort PROVE TypeOK'
    BY <2>10 DEF Abort, gestalt, locals
  <2>11. ASSUME NEW index \in Int, UseCodecDefinition(index),
                codec_definitions' \in Seq(Codecs)
         PROVE  TypeOK'
    <3>1. Signed(index, CharModulus) \in Int
      BY CastTypes, CapacitiesAssumption
    <3>2. pageable_location' \in FileLocation
      BY <2>1, <2>11, <3>1 DEF UseCodecDefinition, FileLocation, Answer
    <3> QED BY <2>1, <2>11, <3>2 DEF UseCodecDefinition
  <2>12. CASE FindCodecDefinition
    <3>1. NONE \in Int /\ FirstCodecDefinition(answer.codec) \in Int
      BY FirstCodecDefinitionFound DEF NONE
    <3> QED BY <2>11, <2>12, <3>1 DEF FindCodecDefinition
  <2>13. CASE AppendCodecDefinition
    <3>1. answer.codec \in Codecs
      BY <2>1, <2>13 DEF AppendCodecDefinition, NewCodecAsked, Answer
    <3>2. codec_definitions' \in Seq(Codecs) /\ LastIndex(codec_definitions') \in Int
      BY <2>13, <3>1 DEF AppendCodecDefinition, LastIndex
    <3> QED BY <2>11, <2>13, <3>2 DEF AppendCodecDefinition
  <2>14. ASSUME NEW index \in Int, UseStreamingTable(index),
                streaming_sublocation_tables' \in Seq(StreamingTable),
                has_pageable_data' \in [Resources -> BOOLEAN]
         PROVE  TypeOK'
    <3>1. Signed(index, ShortModulus) \in Int
      BY CastTypes, CapacitiesAssumption
    <3>2. pageable_location' \in FileLocation
      BY <2>14, <3>1 DEF UseStreamingTable, FileLocation
    <3> QED BY <2>1, <2>14, <3>2 DEF UseStreamingTable
  <2>15. NoStreamingTable \in Int
    BY CastTypes, CapacitiesAssumption DEF NoStreamingTable, NONE
  <2>16. CASE NotStreamed
    BY <2>14, <2>15, <2>16 DEF NotStreamed
  <2>17. CASE DropEmptyStreamingTable
    <3>1. SublocationTable(<< >>, 0) \in StreamingTable
      BY CapacitiesAssumption DEF SublocationTable, StreamingTable
    <3>2. streaming_sublocation_tables' = streaming_sublocation_tables
      BY <2>17, <3>1, AddedTableGivenBack DEF DropEmptyStreamingTable
    <3> QED BY <2>14, <2>15, <2>17, <3>2 DEF DropEmptyStreamingTable
  <2>18. CASE AppendStreamingTable
    <3>1. PICK tables \in WithFilledTable :
            /\ streaming_sublocation_tables' = tables
            /\ has_pageable_data' =
                 [has_pageable_data EXCEPT ![current] = @ /\ ~TableHasNoBytes(tables)]
            /\ UseStreamingTable(TableIndex(tables))
      BY <2>18 DEF AppendStreamingTable
    <3>2. tables \in Seq(StreamingTable)
      <4>1. PICK table \in StreamingTable : tables = Append(streaming_sublocation_tables, table)
        BY <2>1, <3>1, FilledTableType
      <4> QED BY <4>1, AppendProperties
    <3>3. TableIndex(tables) \in Int
      BY <3>2, CastTypes, CapacitiesAssumption DEF TableIndex, LastIndex
    <3>4. has_pageable_data' \in [Resources -> BOOLEAN]
      BY <3>1
    <3> QED BY <2>14, <3>1, <3>2, <3>3, <3>4
  <2>19. CASE TableIndexAsserts
    <3>1. PICK tables \in WithFilledTable : streaming_sublocation_tables' = tables
      BY <2>19 DEF TableIndexAsserts
    <3>2. tables \in Seq(StreamingTable)
      <4>1. PICK table \in StreamingTable : tables = Append(streaming_sublocation_tables, table)
        BY <2>1, <3>1, FilledTableType
      <4> QED BY <4>1, AppendProperties
    <3> QED BY <2>19, <3>1, <3>2 DEF TableIndexAsserts, locals
  <2>20. ASSUME NEW index \in Int, UseFileLocation(index),
                file_locations' \in Seq(FileLocation)
         PROVE  TypeOK'
    BY <2>1, <2>20 DEF UseFileLocation
  <2>21. ASSUME NEW locations \in Seq(FileLocation), NEW index, ValidIndex(index, locations)
         PROVE  CountReference(locations, index) \in Seq(FileLocation)
    <3>1. index + 1 \in 1 .. Len(locations)
      BY <2>21 DEF ValidIndex
    <3>2. locations[index + 1] \in FileLocation
      BY <3>1
    <3>3. Unsigned(locations[index + 1].resource_reference_count + 1, ShortModulus)
            \in 0 .. ShortModulus - 1
      <4>1. locations[index + 1].resource_reference_count + 1 \in Int
        BY <3>2 DEF FileLocation
      <4> QED BY <4>1, CastTypes, CapacitiesAssumption
    <3>4. [locations[index + 1] EXCEPT !.resource_reference_count =
             Unsigned(locations[index + 1].resource_reference_count + 1, ShortModulus)]
            \in FileLocation
      BY <3>2, <3>3 DEF FileLocation
    <3> QED BY <3>1, <3>4, ExceptSeq DEF CountReference
  <2>22. CASE AppendFileLocation
    <3> DEFINE locations == Append(file_locations, pageable_location)
    <3>1. locations \in Seq(FileLocation) /\ ValidIndex(LastIndex(locations), locations)
          /\ LastIndex(locations) \in Int
      BY AppendedRow DEF ValidIndex
    <3> HIDE DEF locations
    <3>2. CountReference(locations, LastIndex(locations)) \in Seq(FileLocation)
      BY <2>21, <3>1
    <3> QED BY <2>20, <2>22, <3>1, <3>2 DEF AppendFileLocation, locations
  <2>23. CASE ReuseNullFileLocation
    BY <2>20, <2>21, <2>23 DEF ReuseNullFileLocation
  <2>24. CASE AssignLocation
    <3>1. Signed(pageable_location_index, ShortModulus) \in Int
      BY CastTypes, CapacitiesAssumption
    <3> QED BY <2>1, <2>3, <2>24, <3>1 DEF AssignLocation
  <2> QED
    BY <1>4, <2>4, <2>6, <2>8, <2>9, <2>10, <2>12, <2>13, <2>16, <2>17, <2>18, <2>19,
       <2>22, <2>23, <2>24
    DEF CallStep, SharedFileAsserts, CodecDefinitionAsserts, StreamingTableAsserts,
        FileLocationAsserts, AssignLocationAsserts
<1> QED
  BY <1>1, <1>2, <1>3, <1>4 DEF Next, Finished

\* Type correctness, for every constant that meets the assumptions.
THEOREM TypeCorrect == Spec => []TypeOK
BY InitTypeOK, NextTypeOK, PTL DEF Spec

-------------------------------------------------------------------------------
(* What has been handed out stays.                                           *)

\* The table a call adds and gives back leaves no trace.
LEMMA DropChangesNoTable ==
  ASSUME TypeOK, DropEmptyStreamingTable
  PROVE  streaming_sublocation_tables' = streaming_sublocation_tables
<1>1. SublocationTable(<< >>, 0) \in StreamingTable
  BY CapacitiesAssumption DEF SublocationTable, StreamingTable
<1> QED BY <1>1, AddedTableGivenBack DEF DropEmptyStreamingTable, TypeOK

\* Counting a reference changes that count and nothing else.
LEMMA CountReferenceRow ==
  ASSUME NEW locations \in Seq(FileLocation), NEW index, ValidIndex(index, locations)
  PROVE  /\ CountReference(locations, index) \in Seq(FileLocation)
         /\ DOMAIN CountReference(locations, index) = DOMAIN locations
         /\ Len(CountReference(locations, index)) = Len(locations)
         /\ \A i \in DOMAIN locations \ {index + 1} :
              CountReference(locations, index)[i] = locations[i]
         /\ index + 1 \in DOMAIN locations
         /\ locations[index + 1].resource_reference_count \in 0 .. ShortModulus - 1
         /\ Unsigned(locations[index + 1].resource_reference_count + 1, ShortModulus)
              \in 0 .. ShortModulus - 1
         /\ CountReference(locations, index)[index + 1] =
              [locations[index + 1] EXCEPT !.resource_reference_count =
                 Unsigned(locations[index + 1].resource_reference_count + 1, ShortModulus)]
<1>1. index + 1 \in 1 .. Len(locations)
  BY DEF ValidIndex
<1>2. locations[index + 1] \in FileLocation
  BY <1>1
<1>3. locations[index + 1].resource_reference_count + 1 \in Int
  BY <1>2 DEF FileLocation
<1>4. Unsigned(locations[index + 1].resource_reference_count + 1, ShortModulus)
        \in 0 .. ShortModulus - 1
  BY <1>3, CastTypes, CapacitiesAssumption
<1> DEFINE row == [locations[index + 1] EXCEPT !.resource_reference_count =
                     Unsigned(locations[index + 1].resource_reference_count + 1, ShortModulus)]
<1>5. row \in FileLocation
  BY <1>2, <1>4 DEF FileLocation
<1>6. CountReference(locations, index) = [locations EXCEPT ![index + 1] = row]
  BY DEF CountReference
<1>7. locations[index + 1].resource_reference_count \in 0 .. ShortModulus - 1
  BY <1>2 DEF FileLocation
<1>8. /\ CountReference(locations, index) \in Seq(FileLocation)
      /\ DOMAIN CountReference(locations, index) = DOMAIN locations
      /\ Len(CountReference(locations, index)) = Len(locations)
      /\ \A i \in DOMAIN locations \ {index + 1} :
           CountReference(locations, index)[i] = locations[i]
      /\ CountReference(locations, index)[index + 1] = row
  <2> HIDE DEF row
  <2> QED BY <1>1, <1>5, <1>6, ExceptSeq
<1> QED BY <1>1, <1>4, <1>7, <1>8

\* No step moves or rewrites a row, a cached index or an assignment.
LEMMA StepKeepsRows ==
  TypeOK /\ [Next]_vars =>
    /\ RowsStay(shared_files)
    /\ RowsStay(codec_definitions)
    /\ RowsStay(streaming_sublocation_tables)
    /\ LocationsStay
    /\ CacheStays
    /\ AssignmentsStay
<1> SUFFICES ASSUME TypeOK, [Next]_vars
             PROVE  /\ RowsStay(shared_files)
                    /\ RowsStay(codec_definitions)
                    /\ RowsStay(streaming_sublocation_tables)
                    /\ LocationsStay
                    /\ CacheStays
                    /\ AssignmentsStay
  OBVIOUS
<1>1. UNCHANGED shared_files => RowsStay(shared_files)
  BY DEF RowsStay
<1>2. UNCHANGED codec_definitions => RowsStay(codec_definitions)
  BY DEF RowsStay
<1>3. UNCHANGED streaming_sublocation_tables => RowsStay(streaming_sublocation_tables)
  BY DEF RowsStay
<1>4. ASSUME UNCHANGED file_locations PROVE LocationsStay
  <2>1. ASSUME NEW i \in DOMAIN file_locations
        PROVE  \E count \in 0 .. ShortModulus - 1 :
                 file_locations[i] = [file_locations[i] EXCEPT !.resource_reference_count = count]
    <3>1. file_locations[i] \in FileLocation
      BY <2>1 DEF TypeOK
    <3>2. /\ file_locations[i].resource_reference_count \in 0 .. ShortModulus - 1
          /\ file_locations[i] = [file_locations[i] EXCEPT !.resource_reference_count =
                                    file_locations[i].resource_reference_count]
      BY <3>1 DEF FileLocation
    <3> QED BY <3>2
  <2> QED BY <1>4, <2>1 DEF LocationsStay
<1>5. UNCHANGED m_shared_file_index_cache => CacheStays
  BY DEF CacheStays
<1>6. UNCHANGED <<result, default_locations>> => AssignmentsStay
  BY DEF AssignmentsStay, LocatedAt
<1>7. CASE UNCHANGED vars
  BY <1>1, <1>2, <1>3, <1>4, <1>5, <1>6, <1>7 DEF vars, gestalt
<1>8. CASE \E r \in Resources : BeginCall(r) \/ BeginCallAsserts(r)
  BY <1>1, <1>2, <1>3, <1>4, <1>5, <1>6, <1>8 DEF BeginCall, BeginCallAsserts, Abort, gestalt
<1>9. CASE CallStep
  <2>1. pc \notin {"idle", "aborted"} /\ current \in Resources /\ answer \in Answer
    BY <1>9, CallInProgress
  <2>2. ASSUME NEW value, UNCHANGED default_locations,
               result' = [result EXCEPT ![current] = value]
        PROVE  AssignmentsStay
    BY <2>1, <2>2 DEF AssignmentsStay, LocatedAt, TypeOK
  <2>3. ASSUME NEW T, NEW table \in Seq(T), NEW row \in T,
               NEW i \in DOMAIN table
        PROVE  i \in DOMAIN Append(table, row) /\ Append(table, row)[i] = table[i]
    BY <2>3, AppendedRow
  <2>4. CASE DescribeFails
    BY <1>1, <1>2, <1>3, <1>4, <1>5, <2>2, <2>4 DEF DescribeFails, Return, gestalt
  <2>5. CASE Abort
    BY <1>1, <1>2, <1>3, <1>4, <1>5, <1>6, <2>5 DEF Abort, gestalt
  <2>6. CASE FindCachedSharedFile
    BY <1>1, <1>2, <1>3, <1>4, <1>5, <1>6, <2>6 DEF FindCachedSharedFile, UseSharedFile
  <2>7. ASSUME NEW index, RememberSharedFile(index),
               answer.file_index \notin DOMAIN m_shared_file_index_cache
        PROVE  CacheStays
    BY <2>7 DEF RememberSharedFile, CacheStays
  <2>8. CASE AppendSharedFile
    <3> DEFINE config == IoConfig[answer.file_index]
    <3>1. SharedFile(config.path, config.io_offset) \in SharedFileRow
      BY <2>1, SharedFileType DEF Answer
    <3>2. RowsStay(shared_files)
      BY <2>3, <2>8, <3>1 DEF AppendSharedFile, RowsStay, TypeOK
    <3>3. CacheStays
      BY <2>7, <2>8 DEF AppendSharedFile, NewSharedFileAsked
    <3> QED BY <1>2, <1>3, <1>4, <1>6, <2>8, <3>2, <3>3 DEF AppendSharedFile, UseSharedFile
  <2>9. CASE FindOwnSharedFile
    <3>1. CacheStays
      BY <2>7, <2>9 DEF FindOwnSharedFile, NewSharedFileAsked
    <3> QED BY <1>1, <1>2, <1>3, <1>4, <1>6, <2>9, <3>1 DEF FindOwnSharedFile, UseSharedFile
  <2>10. CASE FindCodecDefinition
    BY <1>1, <1>2, <1>3, <1>4, <1>5, <1>6, <2>10 DEF FindCodecDefinition, UseCodecDefinition
  <2>11. CASE AppendCodecDefinition
    <3>1. answer.codec \in Codecs
      BY <2>1, <2>11 DEF AppendCodecDefinition, NewCodecAsked, Answer
    <3>2. RowsStay(codec_definitions)
      BY <2>3, <2>11, <3>1 DEF AppendCodecDefinition, RowsStay, TypeOK
    <3> QED BY <1>1, <1>3, <1>4, <1>5, <1>6, <2>11, <3>2
        DEF AppendCodecDefinition, UseCodecDefinition
  <2>12. CASE NotStreamed
    BY <1>1, <1>2, <1>3, <1>4, <1>5, <1>6, <2>12 DEF NotStreamed, UseStreamingTable
  <2>13. CASE DropEmptyStreamingTable
    <3>1. UNCHANGED streaming_sublocation_tables
      BY <2>13, DropChangesNoTable
    <3> QED BY <1>1, <1>2, <1>3, <1>4, <1>5, <1>6, <2>13, <3>1
        DEF DropEmptyStreamingTable, UseStreamingTable
  <2>14. ASSUME NEW tables \in WithFilledTable, streaming_sublocation_tables' = tables
         PROVE  RowsStay(streaming_sublocation_tables)
    <3>1. PICK table \in StreamingTable : tables = Append(streaming_sublocation_tables, table)
      BY <2>1, <2>14, FilledTableType
    <3> QED BY <2>3, <2>14, <3>1 DEF RowsStay, TypeOK
  <2>15. CASE AppendStreamingTable
    <3>1. RowsStay(streaming_sublocation_tables)
      BY <2>14, <2>15 DEF AppendStreamingTable
    <3> QED BY <1>1, <1>2, <1>4, <1>5, <1>6, <2>15, <3>1
        DEF AppendStreamingTable, UseStreamingTable
  <2>16. CASE TableIndexAsserts
    <3>1. RowsStay(streaming_sublocation_tables)
      BY <2>14, <2>16 DEF TableIndexAsserts
    <3> QED BY <1>1, <1>2, <1>4, <1>5, <1>6, <2>16, <3>1 DEF TableIndexAsserts
  <2>17. ASSUME NEW locations \in Seq(FileLocation), NEW index, ValidIndex(index, locations),
                file_locations' = CountReference(locations, index),
                \A i \in DOMAIN file_locations :
                  i \in DOMAIN locations /\ locations[i] = file_locations[i]
         PROVE  LocationsStay
    <3> DEFINE counted == CountReference(locations, index)
    <3>2. /\ DOMAIN counted = DOMAIN locations
          /\ \A i \in DOMAIN locations \ {index + 1} : counted[i] = locations[i]
          /\ \E count \in 0 .. ShortModulus - 1 : counted[index + 1] =
               [locations[index + 1] EXCEPT !.resource_reference_count = count]
      <4>1. /\ DOMAIN counted = DOMAIN locations
            /\ \A i \in DOMAIN locations \ {index + 1} : counted[i] = locations[i]
            /\ Unsigned(locations[index + 1].resource_reference_count + 1, ShortModulus)
                 \in 0 .. ShortModulus - 1
            /\ counted[index + 1] = [locations[index + 1] EXCEPT !.resource_reference_count =
                 Unsigned(locations[index + 1].resource_reference_count + 1, ShortModulus)]
        BY <2>17, CountReferenceRow
      <4> HIDE DEF counted
      <4> QED BY <4>1
    <3>3. file_locations' = counted
      BY <2>17
    <3> HIDE DEF counted
    <3>1. ASSUME NEW i \in DOMAIN file_locations
          PROVE  /\ i \in DOMAIN file_locations'
                 /\ \E count \in 0 .. ShortModulus - 1 : file_locations'[i] =
                      [file_locations[i] EXCEPT !.resource_reference_count = count]
      <4>1. i \in DOMAIN locations /\ locations[i] = file_locations[i]
        BY <2>17, <3>1
      <4>2. CASE i = index + 1
        BY <3>2, <3>3, <4>1, <4>2
      <4>3. CASE i # index + 1
        <5>1. file_locations'[i] = file_locations[i] /\ i \in DOMAIN file_locations'
          BY <3>2, <3>3, <4>1, <4>3
        <5>2. file_locations[i] \in FileLocation
          BY <3>1 DEF TypeOK
        <5>3. /\ file_locations[i].resource_reference_count \in 0 .. ShortModulus - 1
              /\ file_locations[i] = [file_locations[i] EXCEPT !.resource_reference_count =
                                        file_locations[i].resource_reference_count]
          BY <5>2 DEF FileLocation
        <5> QED BY <5>1, <5>3
      <4> QED BY <4>2, <4>3
    <3> QED BY <3>1 DEF LocationsStay
  <2>18. CASE AppendFileLocation
    <3> DEFINE locations == Append(file_locations, pageable_location)
    <3>1. /\ locations \in Seq(FileLocation)
          /\ ValidIndex(LastIndex(locations), locations)
          /\ \A i \in DOMAIN file_locations :
               i \in DOMAIN locations /\ locations[i] = file_locations[i]
      BY AppendedRow DEF TypeOK
    <3>2. file_locations' = CountReference(locations, LastIndex(locations))
      BY <2>18 DEF AppendFileLocation
    <3> HIDE DEF locations
    <3>3. LocationsStay
      BY <2>17, <3>1, <3>2
    <3> QED BY <1>1, <1>2, <1>3, <1>5, <1>6, <2>18, <3>3 DEF AppendFileLocation, UseFileLocation
  <2>19. CASE ReuseNullFileLocation
    <3>1. LocationsStay
      BY <2>17, <2>19 DEF ReuseNullFileLocation, TypeOK
    <3> QED BY <1>1, <1>2, <1>3, <1>5, <1>6, <2>19, <3>1
        DEF ReuseNullFileLocation, UseFileLocation
  <2>20. CASE AssignLocation
    <3>1. \A r \in Resources \ {current} : LocationIndex[r] # LocationIndex[current]
      BY <2>1, LocationIndexesDistinct
    <3>2. ASSUME NEW r \in Resources, result[r] # "pending"
          PROVE  result'[r] = result[r] /\ LocatedAt(r)' = LocatedAt(r)
      <4>1. r # current
        BY <2>1, <3>2 DEF TypeOK
      <4>2. LocationIndex[r] # LocationIndex[current]
        BY <3>1, <4>1
      <4>3. result'[r] = result[r]
        BY <2>20, <4>1 DEF AssignLocation, Return, TypeOK
      <4>4. default_locations'[LocationIndex[r]] = default_locations[LocationIndex[r]]
        BY <2>20, <4>2 DEF AssignLocation, TypeOK
      <4> QED BY <4>3, <4>4 DEF LocatedAt
    <3>3. AssignmentsStay
      BY <3>2 DEF AssignmentsStay
    <3> QED BY <1>1, <1>2, <1>3, <1>4, <1>5, <2>20, <3>3 DEF AssignLocation
  <2> QED
    BY <1>9, <2>4, <2>5, <2>6, <2>8, <2>9, <2>10, <2>11, <2>12, <2>13, <2>15, <2>16,
       <2>18, <2>19, <2>20
    DEF CallStep, SharedFileAsserts, CodecDefinitionAsserts, StreamingTableAsserts,
        FileLocationAsserts, AssignLocationAsserts
<1> QED BY <1>7, <1>8, <1>9 DEF Next, Finished

\* What has been handed out stays, for every constant that meets the
\* assumptions: no later call moves or rewrites a row an earlier one was given.
THEOREM HandedOutRowsKept == Spec => HandedOutRowsStay
<1>1. TypeOK /\ [Next]_vars =>
        [/\ RowsStay(shared_files)
         /\ RowsStay(codec_definitions)
         /\ RowsStay(streaming_sublocation_tables)
         /\ LocationsStay
         /\ CacheStays
         /\ AssignmentsStay]_vars
  BY StepKeepsRows
<1> QED BY <1>1, TypeCorrect, PTL DEF Spec, HandedOutRowsStay

-------------------------------------------------------------------------------
(* No index dangles.                                                         *)

\* IndexesResolve is not inductive as it stands.  That the narrowed index of
\* a row is still that row's index needs the blocks to be within their
\* capacities, and that the index a call assigns is one it was given needs the
\* local to be NONE before, and only before, the location is added.
IndexInvariant ==
  /\ TypeOK
  /\ IndexesResolve
  /\ Len(shared_files) <= MaxSharedFiles
  /\ Len(codec_definitions) <= MaxCodecs
  /\ Len(file_locations) <= MaxFileLocations
  /\ pc = "assign_location" => pageable_location_index # NONE
  /\ pc \notin {"assign_location", "aborted"} => pageable_location_index = NONE

\* An index into a table is one into any longer table.
LEMMA LongerTable ==
  ASSUME NEW T, NEW table \in Seq(T), NEW longer \in Seq(T),
         \A i \in DOMAIN table : i \in DOMAIN longer /\ longer[i] = table[i]
  PROVE  /\ Len(table) <= Len(longer)
         /\ \A index : ValidIndex(index, table) =>
              ValidIndex(index, longer) /\ RowAt(longer, index) = RowAt(table, index)
         /\ \A index : NoneOrValid(index, table) => NoneOrValid(index, longer)
<1>1. /\ Len(table) \in Nat /\ DOMAIN table = 1 .. Len(table)
      /\ Len(longer) \in Nat /\ DOMAIN longer = 1 .. Len(longer)
  BY LenProperties
<1>2. Len(table) <= Len(longer)
  BY <1>1
<1>3. ASSUME NEW index, ValidIndex(index, table)
      PROVE  ValidIndex(index, longer) /\ RowAt(longer, index) = RowAt(table, index)
  <2>1. index \in 0 .. Len(table) - 1 /\ index + 1 \in DOMAIN table
    BY <1>1, <1>3 DEF ValidIndex
  <2> QED BY <1>1, <1>2, <2>1 DEF ValidIndex, RowAt
<1> QED BY <1>2, <1>3 DEF NoneOrValid

\* Narrowing keeps an optional index into a table the type is wide enough for.
LEMMA NarrowedIndex ==
  ASSUME NEW modulus \in Nat \ {0, 1}, NEW max \in Nat, 2 * max <= modulus,
         NEW T, NEW table \in Seq(T), Len(table) <= max,
         NEW index, NoneOrValid(index, table)
  PROVE  Signed(index, modulus) = index
<1>1. CASE index = NONE
  BY <1>1, SignedKeeps
<1>2. CASE ValidIndex(index, table)
  <2>1. index \in Nat /\ 2 * index < modulus
    BY <1>2 DEF ValidIndex
  <2> QED BY <2>1, SignedKeeps
<1> QED BY <1>1, <1>2 DEF NoneOrValid

\* At first the only index is the NONE of each field.
LEMMA InitIndexInvariant == Init => IndexInvariant
<1> SUFFICES ASSUME Init PROVE IndexInvariant
  OBVIOUS
<1>1. TypeOK
  BY InitTypeOK
<1>2. \A location : location = NullFileLocation => NamesRows(location)
  BY DEF NullFileLocation, NamesRows, NoneOrValid
<1>3. /\ \A i \in DOMAIN file_locations : NamesRows(file_locations[i])
      /\ Len(file_locations) <= 1
  <2>1. CASE file_locations = << >>
    BY <2>1
  <2>2. CASE file_locations = <<NullFileLocation>>
    BY <1>2, <2>2
  <2> QED BY <2>1, <2>2 DEF Init
<1>4. Len(shared_files) <= 1
  <2>1. CASE shared_files = << >>
    BY <2>1
  <2>2. CASE shared_files = <<SharedFile(OwnPath, 0)>>
    BY <2>2
  <2> QED BY <2>1, <2>2 DEF Init
<1>5. Len(codec_definitions) = 0 /\ pc = "idle" /\ pageable_location_index = NONE
  BY DEF Init
<1>6. \A r \in Resources : result[r] # "true"
  BY DEF Init
<1>7. m_shared_file_index_cache = << >> /\ DOMAIN m_shared_file_index_cache = {}
  BY DEF Init
<1>8. NamesRows(pageable_location) /\ NoneOrValid(pageable_location_index, file_locations)
  BY <1>2 DEF Init, NoneOrValid
<1>9. IndexesResolve
  BY <1>3, <1>6, <1>7, <1>8 DEF IndexesResolve
<1>10. Len(shared_files) <= MaxSharedFiles /\ Len(file_locations) <= MaxFileLocations
       /\ Len(codec_definitions) <= MaxCodecs
  BY <1>1, <1>3, <1>4, <1>5, CapacitiesAssumption DEF TypeOK
<1> QED BY <1>1, <1>5, <1>9, <1>10 DEF IndexInvariant

\* An operation that stores an index either found the row or just appended it,
\* and narrowing it keeps it; one that appends a row leaves the others in place.
LEMMA NextIndexInvariant == IndexInvariant /\ [Next]_vars => IndexInvariant'
<1> SUFFICES ASSUME IndexInvariant, [Next]_vars PROVE IndexInvariant'
  OBVIOUS
<1>1. TypeOK /\ TypeOK'
  BY NextTypeOK DEF IndexInvariant
<1>2. /\ RowsStay(shared_files) /\ RowsStay(codec_definitions)
      /\ RowsStay(streaming_sublocation_tables)
      /\ LocationsStay /\ AssignmentsStay
  BY StepKeepsRows DEF IndexInvariant
<1>3. /\ \A index : NoneOrValid(index, shared_files) => NoneOrValid(index, shared_files')
      /\ \A index : NoneOrValid(index, codec_definitions) => NoneOrValid(index, codec_definitions')
      /\ \A index : NoneOrValid(index, streaming_sublocation_tables) =>
           NoneOrValid(index, streaming_sublocation_tables')
  BY <1>1, <1>2, LongerTable DEF TypeOK, RowsStay
<1>4. /\ Len(file_locations) <= Len(file_locations')
      /\ \A index : ValidIndex(index, file_locations) => ValidIndex(index, file_locations')
      /\ \A index : NoneOrValid(index, file_locations) => NoneOrValid(index, file_locations')
  <2>1. /\ Len(file_locations) \in Nat /\ DOMAIN file_locations = 1 .. Len(file_locations)
        /\ Len(file_locations') \in Nat /\ DOMAIN file_locations' = 1 .. Len(file_locations')
    BY <1>1 DEF TypeOK
  <2>2. Len(file_locations) <= Len(file_locations')
    BY <1>2, <2>1 DEF LocationsStay
  <2> QED BY <2>1, <2>2 DEF ValidIndex, NoneOrValid
<1> DEFINE NamesRowsNext(location) ==
      /\ NoneOrValid(location.codec_index, codec_definitions')
      /\ NoneOrValid(location.shared_file_index, shared_files')
      /\ NoneOrValid(location.streaming_sublocation_table_index, streaming_sublocation_tables')
<1>5. \A location : NamesRows(location) => NamesRowsNext(location)
  BY <1>3 DEF NamesRows
<1> DEFINE FileRows      == \A i \in DOMAIN file_locations' : NamesRowsNext(file_locations'[i])
           Local         == NamesRowsNext(pageable_location')
           LocalIndex    == /\ NoneOrValid(pageable_location_index', file_locations')
                            /\ pc' = "assign_location" => pageable_location_index' # NONE
                            /\ pc' \notin {"assign_location", "aborted"} =>
                                 pageable_location_index' = NONE
           Cached        == \A file \in DOMAIN m_shared_file_index_cache' :
                              NoneOrValid(m_shared_file_index_cache'[file], shared_files')
           Assigned      == \A r \in Resources : result'[r] = "true" =>
                              /\ LocationIndex[r] \in DOMAIN default_locations'
                              /\ ValidIndex(default_locations'[LocationIndex[r]], file_locations')
           Bounds        == /\ Len(shared_files') <= MaxSharedFiles
                            /\ Len(codec_definitions') <= MaxCodecs
                            /\ Len(file_locations') <= MaxFileLocations
<1>6. SUFFICES FileRows /\ Local /\ LocalIndex /\ Cached /\ Assigned /\ Bounds
  BY <1>1, <1>6 DEF IndexInvariant, IndexesResolve, NamesRows, LocatedAt
<1>7. /\ \A i \in DOMAIN file_locations : NamesRows(file_locations[i])
      /\ NamesRows(pageable_location)
      /\ NoneOrValid(pageable_location_index, file_locations)
      /\ \A file \in DOMAIN m_shared_file_index_cache :
           NoneOrValid(m_shared_file_index_cache[file], shared_files)
      /\ \A r \in Resources : result[r] = "true" =>
           /\ LocationIndex[r] \in DOMAIN default_locations
           /\ ValidIndex(default_locations[LocationIndex[r]], file_locations)
      /\ Len(shared_files) <= MaxSharedFiles
      /\ Len(codec_definitions) <= MaxCodecs
      /\ Len(file_locations) <= MaxFileLocations
      /\ pc = "assign_location" => pageable_location_index # NONE
      /\ pc \notin {"assign_location", "aborted"} => pageable_location_index = NONE
  BY DEF IndexInvariant, IndexesResolve, LocatedAt
<1>8. ASSUME NEW i \in DOMAIN file_locations PROVE NamesRowsNext(file_locations'[i])
  <2>1. PICK count \in 0 .. ShortModulus - 1 :
          file_locations'[i] = [file_locations[i] EXCEPT !.resource_reference_count = count]
    BY <1>2, <1>8 DEF LocationsStay
  <2>2. file_locations[i] \in FileLocation
    BY <1>1, <1>8 DEF TypeOK
  <2>3. /\ file_locations'[i].codec_index = file_locations[i].codec_index
        /\ file_locations'[i].shared_file_index = file_locations[i].shared_file_index
        /\ file_locations'[i].streaming_sublocation_table_index =
             file_locations[i].streaming_sublocation_table_index
    BY <2>1, <2>2 DEF FileLocation
  <2>4. NamesRowsNext(file_locations[i])
    BY <1>5, <1>7, <1>8
  <2> QED BY <2>3, <2>4
<1>9. DOMAIN file_locations' = DOMAIN file_locations => FileRows
  BY <1>8
<1>10. UNCHANGED pageable_location => Local
  BY <1>5, <1>7
<1>11. UNCHANGED m_shared_file_index_cache => Cached
  BY <1>3, <1>7
<1>12. (\A r \in Resources : result'[r] = "true" => result[r] = "true") => Assigned
  <2> SUFFICES ASSUME NEW r \in Resources, result[r] = "true"
               PROVE  /\ LocationIndex[r] \in DOMAIN default_locations'
                      /\ ValidIndex(default_locations'[LocationIndex[r]], file_locations')
    OBVIOUS
  <2>1. default_locations'[LocationIndex[r]] = default_locations[LocationIndex[r]]
    BY <1>2 DEF AssignmentsStay, LocatedAt
  <2> QED BY <1>1, <1>4, <1>7, <2>1 DEF TypeOK
<1>13. CASE UNCHANGED vars
  BY <1>4, <1>7, <1>9, <1>10, <1>11, <1>12, <1>13 DEF vars, gestalt, locals
<1>14. CASE \E r \in Resources : BeginCall(r) \/ BeginCallAsserts(r)
  <2>1. UNCHANGED <<gestalt, m_shared_file_index_cache, result, pageable_location,
                    pageable_location_index>>
    BY <1>14 DEF BeginCall, BeginCallAsserts, Abort, locals
  <2>2. pc = "idle" /\ pc' # "assign_location"
    BY <1>14 DEF BeginCall, BeginCallAsserts, Abort
  <2> QED BY <1>4, <1>7, <1>9, <1>10, <1>11, <1>12, <2>1, <2>2 DEF gestalt
<1>15. CASE CallStep
  <2> USE DEF gestalt
  <2>1. pc \notin {"idle", "aborted"} /\ current \in Resources /\ answer \in Answer
    BY <1>1, <1>15, CallInProgress
  <2>2. NamesRowsNext(NullFileLocation)
    BY DEF NullFileLocation, NoneOrValid
  <2>3. CASE DescribeFails
    <3>1. \A r \in Resources : result'[r] = "true" => result[r] = "true"
      BY <1>1, <2>1, <2>3 DEF DescribeFails, Return, TypeOK
    <3>2. Local /\ LocalIndex
      BY <2>2, <2>3 DEF DescribeFails, Return, NoneOrValid
    <3>3. UNCHANGED <<gestalt, m_shared_file_index_cache>>
      BY <2>3 DEF DescribeFails
    <3> QED BY <1>7, <1>9, <1>11, <1>12, <3>1, <3>2, <3>3
  <2>4. CASE Abort
    BY <1>4, <1>7, <1>9, <1>10, <1>11, <1>12, <2>4 DEF Abort, locals
  <2>5. ASSUME NEW index, NoneOrValid(index, shared_files'),
               Len(shared_files') <= MaxSharedFiles, pc = "describe", UseSharedFile(index)
        PROVE  Local /\ LocalIndex /\ Assigned /\ FileRows /\ Bounds
    <3>1. Signed(index, ShortModulus) = index
      BY <1>1, <2>5, NarrowedIndex, CapacitiesAssumption DEF TypeOK
    <3>2. pageable_location' = [pageable_location EXCEPT !.shared_file_index = index,
                                                         !.memory_size = answer.memory_size]
      BY <2>5, <3>1 DEF UseSharedFile
    <3>3. /\ pageable_location'.codec_index = pageable_location.codec_index
          /\ pageable_location'.shared_file_index = index
          /\ pageable_location'.streaming_sublocation_table_index =
               pageable_location.streaming_sublocation_table_index
      BY <1>1, <3>2 DEF TypeOK, FileLocation
    <3>4. Local
      BY <1>3, <1>7, <2>5, <3>3 DEF NamesRows
    <3>5. UNCHANGED <<codec_definitions, file_locations, result, pageable_location_index>>
          /\ pc' = "codec_definition"
      BY <2>5 DEF UseSharedFile
    <3>6. LocalIndex
      BY <1>7, <2>5, <3>5 DEF NoneOrValid
    <3> QED BY <1>7, <1>9, <1>12, <2>5, <3>4, <3>5, <3>6
  <2>6. CASE FindCachedSharedFile
    <3>1. NoneOrValid(m_shared_file_index_cache[answer.file_index], shared_files')
      BY <1>3, <1>7, <2>6 DEF FindCachedSharedFile
    <3> QED BY <1>7, <1>11, <2>5, <2>6, <3>1 DEF FindCachedSharedFile
  <2>7. ASSUME NEW index, NoneOrValid(index, shared_files'), RememberSharedFile(index)
        PROVE  Cached
    BY <1>3, <1>7, <2>7 DEF RememberSharedFile
  <2>8. CASE AppendSharedFile
    <3>1. shared_files' = Append(shared_files, SharedFile(IoConfig[answer.file_index].path,
                                                          IoConfig[answer.file_index].io_offset))
      BY <2>8 DEF AppendSharedFile
    <3>2. SharedFile(IoConfig[answer.file_index].path, IoConfig[answer.file_index].io_offset)
            \in SharedFileRow
      BY <2>1, SharedFileType DEF Answer
    <3>3. ValidIndex(LastIndex(shared_files'), shared_files')
          /\ Len(shared_files') = Len(shared_files) + 1
      BY <1>1, <3>1, <3>2, AppendedRow DEF TypeOK
    <3>4. Len(shared_files') <= MaxSharedFiles
      BY <1>1, <2>8, <3>3, CapacitiesAssumption DEF AppendSharedFile, TypeOK
    <3> QED BY <2>5, <2>7, <2>8, <3>3, <3>4 DEF AppendSharedFile, NewSharedFileAsked, NoneOrValid
  <2>9. CASE FindOwnSharedFile
    <3>1. NoneOrValid(FirstSharedFile(IoConfig[answer.file_index].path), shared_files)
      BY <1>1, FirstSharedFileFound DEF TypeOK
    <3> QED BY <1>3, <1>7, <2>5, <2>7, <2>9, <3>1 DEF FindOwnSharedFile, NewSharedFileAsked
  <2>10. ASSUME NEW index, NoneOrValid(index, codec_definitions'),
                Len(codec_definitions') <= MaxCodecs, pc = "codec_definition",
                UseCodecDefinition(index)
         PROVE  Local /\ LocalIndex /\ Cached /\ Assigned /\ FileRows /\ Bounds
    <3>1. Signed(index, CharModulus) = index
      BY <1>1, <2>10, NarrowedIndex, CapacitiesAssumption DEF TypeOK
    <3>2. pageable_location' = [pageable_location EXCEPT !.codec_index = index,
                                                         !.checksums_valid = answer.has_checksum]
      BY <2>10, <3>1 DEF UseCodecDefinition
    <3>3. /\ pageable_location'.codec_index = index
          /\ pageable_location'.shared_file_index = pageable_location.shared_file_index
          /\ pageable_location'.streaming_sublocation_table_index =
               pageable_location.streaming_sublocation_table_index
      BY <1>1, <3>2 DEF TypeOK, FileLocation
    <3>4. Local
      BY <1>3, <1>7, <2>10, <3>3 DEF NamesRows
    <3>5. UNCHANGED <<shared_files, file_locations, m_shared_file_index_cache, result,
                      pageable_location_index>> /\ pc' = "streaming_sublocations"
      BY <2>10 DEF UseCodecDefinition
    <3>6. LocalIndex
      BY <1>7, <2>10, <3>5 DEF NoneOrValid
    <3> QED BY <1>7, <1>9, <1>11, <1>12, <2>10, <3>4, <3>5, <3>6
  <2>11. CASE FindCodecDefinition
    <3>1. /\ NoneOrValid(NONE, codec_definitions')
          /\ NoneOrValid(FirstCodecDefinition(answer.codec), codec_definitions')
      BY <1>1, <1>3, FirstCodecDefinitionFound DEF TypeOK, NoneOrValid
    <3> QED BY <1>7, <2>10, <2>11, <3>1 DEF FindCodecDefinition
  <2>12. CASE AppendCodecDefinition
    <3>1. answer.codec \in Codecs
      BY <2>1, <2>12 DEF AppendCodecDefinition, NewCodecAsked, Answer
    <3>2. ValidIndex(LastIndex(codec_definitions'), codec_definitions')
          /\ Len(codec_definitions') = Len(codec_definitions) + 1
      BY <1>1, <2>12, <3>1, AppendedRow DEF TypeOK, AppendCodecDefinition
    <3>3. Len(codec_definitions') <= MaxCodecs
      BY <1>1, <2>12, <3>2, CapacitiesAssumption DEF AppendCodecDefinition, TypeOK
    <3> QED BY <2>10, <2>12, <3>2, <3>3 DEF AppendCodecDefinition, NewCodecAsked, NoneOrValid
  <2>13. ASSUME NEW index,
                NoneOrValid(Signed(index, ShortModulus), streaming_sublocation_tables'),
                pc = "streaming_sublocations", UseStreamingTable(index)
         PROVE  Local /\ LocalIndex /\ Cached /\ Assigned /\ FileRows /\ Bounds
    <3>1. pageable_location' = [pageable_location EXCEPT
            !.streaming_sublocation_table_index = Signed(index, ShortModulus)]
      BY <2>13 DEF UseStreamingTable
    <3>2. /\ pageable_location'.codec_index = pageable_location.codec_index
          /\ pageable_location'.shared_file_index = pageable_location.shared_file_index
          /\ pageable_location'.streaming_sublocation_table_index = Signed(index, ShortModulus)
      BY <1>1, <3>1 DEF TypeOK, FileLocation
    <3>3. Local
      BY <1>3, <1>7, <2>13, <3>2 DEF NamesRows
    <3>4. UNCHANGED <<shared_files, codec_definitions, file_locations,
                      m_shared_file_index_cache, result, pageable_location_index>>
          /\ pc' = "add_file_location"
      BY <2>13 DEF UseStreamingTable
    <3>5. LocalIndex
      BY <1>7, <2>13, <3>4 DEF NoneOrValid
    <3> QED BY <1>7, <1>9, <1>11, <1>12, <3>3, <3>4, <3>5
  <2>14. NoneOrValid(Signed(NoStreamingTable, ShortModulus), streaming_sublocation_tables')
    BY NoneSurvivesBothCasts, CapacitiesAssumption DEF NoStreamingTable, NoneOrValid
  <2>15. CASE NotStreamed
    BY <2>13, <2>14, <2>15 DEF NotStreamed
  <2>16. CASE DropEmptyStreamingTable
    BY <2>13, <2>14, <2>16 DEF DropEmptyStreamingTable, NewTableAsked
  <2>17. CASE AppendStreamingTable
    BY <2>13, <2>17 DEF AppendStreamingTable, NewFilledTableAsked, NewTableAsked,
       CallerAccepts, CallersTableIndex, NoneOrValid
  <2>18. CASE TableIndexAsserts
    BY <1>4, <1>7, <1>9, <1>10, <1>11, <1>12, <2>18 DEF TableIndexAsserts, locals
  <2>19. ASSUME NEW index, ValidIndex(index, file_locations'), UseFileLocation(index)
         PROVE  Local /\ LocalIndex /\ Cached /\ Assigned
    <3>1. index # NONE
      BY <2>19 DEF ValidIndex, NONE
    <3> QED BY <1>10, <1>11, <1>12, <2>19, <3>1 DEF UseFileLocation, NoneOrValid
  <2>20. CASE AppendFileLocation
    <3> DEFINE locations == Append(file_locations, pageable_location)
    <3>1. /\ locations \in Seq(FileLocation)
          /\ Len(locations) = Len(file_locations) + 1
          /\ LastIndex(locations) = Len(file_locations)
          /\ ValidIndex(LastIndex(locations), locations)
          /\ RowAt(locations, LastIndex(locations)) = pageable_location
          /\ pageable_location \in FileLocation
          /\ Len(file_locations) \in Nat
          /\ DOMAIN file_locations = 1 .. Len(file_locations)
      BY <1>1, AppendedRow DEF TypeOK
    <3>2. file_locations' = CountReference(locations, LastIndex(locations))
          /\ UseFileLocation(LastIndex(locations))
          /\ Len(file_locations) < MaxFileLocations
      BY <2>20 DEF AppendFileLocation
    <3> HIDE DEF locations
    <3>3. /\ Len(file_locations') = Len(locations)
          /\ DOMAIN file_locations' = DOMAIN locations
          /\ file_locations'[Len(locations)] =
               [pageable_location EXCEPT !.resource_reference_count =
                  Unsigned(pageable_location.resource_reference_count + 1, ShortModulus)]
      BY <3>1, <3>2, CountReferenceRow DEF RowAt
    <3>4. /\ file_locations'[Len(locations)].codec_index = pageable_location.codec_index
          /\ file_locations'[Len(locations)].shared_file_index =
               pageable_location.shared_file_index
          /\ file_locations'[Len(locations)].streaming_sublocation_table_index =
               pageable_location.streaming_sublocation_table_index
      BY <3>1, <3>3 DEF FileLocation
    <3>5. NamesRowsNext(file_locations'[Len(locations)])
      BY <1>5, <1>7, <3>4
    <3>6. DOMAIN file_locations' = DOMAIN file_locations \cup {Len(locations)}
      BY <3>1, <3>3
    <3>7. FileRows
      BY <1>8, <3>5, <3>6
    <3>8. ValidIndex(LastIndex(locations), file_locations')
      BY <3>1, <3>3 DEF ValidIndex
    <3>9. Local /\ LocalIndex /\ Cached /\ Assigned
      BY <2>19, <3>2, <3>8
    <3>10. UNCHANGED <<shared_files, codec_definitions>>
      BY <3>2 DEF UseFileLocation
    <3>11. Bounds
      BY <1>7, <3>1, <3>2, <3>3, <3>10, CapacitiesAssumption
    <3> QED BY <3>7, <3>9, <3>11
  <2>21. CASE ReuseNullFileLocation
    <3>1. /\ file_locations' = CountReference(file_locations, 0)
          /\ ValidIndex(0, file_locations)
          /\ UseFileLocation(0)
      BY <2>21 DEF ReuseNullFileLocation
    <3>2. /\ Len(file_locations') = Len(file_locations)
          /\ DOMAIN file_locations' = DOMAIN file_locations
      BY <1>1, <3>1, CountReferenceRow DEF TypeOK
    <3>3. FileRows
      BY <1>9, <3>2
    <3>4. Local /\ LocalIndex /\ Cached /\ Assigned
      BY <1>4, <2>19, <3>1
    <3>5. UNCHANGED <<shared_files, codec_definitions>>
      BY <3>1 DEF UseFileLocation
    <3> QED BY <1>7, <3>2, <3>3, <3>4, <3>5
  <2>22. CASE AssignLocation
    <3>1. UNCHANGED <<shared_files, codec_definitions, streaming_sublocation_tables,
                      file_locations, m_shared_file_index_cache>>
      BY <2>22 DEF AssignLocation
    <3>2. Local /\ LocalIndex
      BY <2>2, <2>22 DEF AssignLocation, Return, NoneOrValid
    <3>3. ValidIndex(pageable_location_index, file_locations)
      BY <1>7, <2>22 DEF AssignLocation, NoneOrValid
    <3>4. Signed(pageable_location_index, ShortModulus) = pageable_location_index
      BY <1>1, <1>7, <3>3, NarrowedIndex, CapacitiesAssumption DEF TypeOK, NoneOrValid
    <3>5. /\ LocationIndex[current] \in DOMAIN default_locations
          /\ default_locations' = [default_locations EXCEPT
               ![LocationIndex[current]] = pageable_location_index]
          /\ result' = [result EXCEPT ![current] = "true"]
      BY <2>22, <3>4 DEF AssignLocation, Return
    <3>6. ASSUME NEW r \in Resources, result'[r] = "true"
          PROVE  /\ LocationIndex[r] \in DOMAIN default_locations'
                 /\ ValidIndex(default_locations'[LocationIndex[r]], file_locations')
      <4>1. CASE r = current
        BY <1>1, <3>1, <3>3, <3>5, <4>1 DEF TypeOK
      <4>2. CASE r # current
        <5>1. result[r] = "true"
          BY <1>1, <3>5, <3>6, <4>2 DEF TypeOK
        <5>2. default_locations'[LocationIndex[r]] = default_locations[LocationIndex[r]]
          BY <1>2, <5>1 DEF AssignmentsStay, LocatedAt
        <5> QED BY <1>1, <1>7, <3>1, <5>1, <5>2 DEF TypeOK
      <4> QED BY <4>1, <4>2
    <3> QED BY <1>7, <1>9, <1>11, <3>1, <3>2, <3>6
  <2> QED
    BY <1>15, <2>3, <2>4, <2>6, <2>8, <2>9, <2>11, <2>12, <2>15, <2>16, <2>17, <2>18,
       <2>20, <2>21, <2>22
    DEF CallStep, SharedFileAsserts, CodecDefinitionAsserts, StreamingTableAsserts,
        FileLocationAsserts, AssignLocationAsserts
<1> QED BY <1>13, <1>14, <1>15 DEF Next, Finished

\* No index dangles, for every constant that meets the assumptions.
THEOREM IndexesAlwaysResolve == Spec => []IndexesResolve
<1>1. IndexInvariant => IndexesResolve
  BY DEF IndexInvariant
<1> QED BY <1>1, InitIndexInvariant, NextIndexInvariant, PTL DEF Spec

-------------------------------------------------------------------------------
(* What the tables hold.                                                     *)

\* A codec gets a row only when the search for it has missed no row.
LEMMA NextCodecDefinitionsDistinct ==
  TypeOK /\ CodecDefinitionsDistinct /\ [Next]_vars => CodecDefinitionsDistinct'
<1> SUFFICES ASSUME TypeOK, CodecDefinitionsDistinct, [Next]_vars
             PROVE  CodecDefinitionsDistinct'
  OBVIOUS
<1>1. CASE UNCHANGED codec_definitions
  BY <1>1 DEF CodecDefinitionsDistinct
<1>2. CASE AppendCodecDefinition
  <2>1. CallStep
    BY <1>2 DEF CallStep
  <2>2. answer.codec \in Codecs
    BY <1>2, <2>1, CallInProgress DEF AppendCodecDefinition, NewCodecAsked, Answer
  <2>3. \A i \in DOMAIN codec_definitions : codec_definitions[i] # answer.codec
    BY <1>2, FirstCodecDefinitionFound DEF AppendCodecDefinition, NewCodecAsked, TypeOK
  <2>4. /\ codec_definitions \in Seq(Codecs)
        /\ codec_definitions' = Append(codec_definitions, answer.codec)
    BY <1>2 DEF AppendCodecDefinition, TypeOK
  <2>5. /\ DOMAIN codec_definitions' = DOMAIN codec_definitions \cup {Len(codec_definitions) + 1}
        /\ \A i \in DOMAIN codec_definitions : codec_definitions'[i] = codec_definitions[i]
        /\ codec_definitions'[Len(codec_definitions) + 1] = answer.codec
    BY <2>2, <2>4
  <2> QED BY <2>3, <2>5 DEF CodecDefinitionsDistinct
<1> QED
  BY <1>1, <1>2
  DEF Next, vars, gestalt, BeginCall, BeginCallAsserts, Abort, Finished, CallStep, DescribeFails,
      FindCachedSharedFile, AppendSharedFile, FindOwnSharedFile, SharedFileAsserts,
      UseSharedFile, FindCodecDefinition, CodecDefinitionAsserts, NotStreamed,
      DropEmptyStreamingTable, AppendStreamingTable, StreamingTableAsserts, TableIndexAsserts,
      UseStreamingTable, AppendFileLocation, ReuseNullFileLocation, FileLocationAsserts,
      UseFileLocation, AssignLocation, AssignLocationAsserts

\* A codec identifier has one definition, for every constant that meets the
\* assumptions.
THEOREM CodecsDefinedOnce == Spec => []CodecDefinitionsDistinct
<1>1. Init => CodecDefinitionsDistinct
  BY DEF Init, CodecDefinitionsDistinct
<1> QED BY <1>1, NextCodecDefinitionsDistinct, TypeCorrect, PTL DEF Spec

\* Of the steps that touch the streaming tables, one adds a table and gives it
\* back, the others add one that has rows and is sorted.
LEMMA NextStreamingTablesSorted ==
  TypeOK /\ StreamingTablesSorted /\ [Next]_vars => StreamingTablesSorted'
<1> SUFFICES ASSUME TypeOK, StreamingTablesSorted, [Next]_vars
             PROVE  StreamingTablesSorted'
  OBVIOUS
<1>1. CASE UNCHANGED streaming_sublocation_tables
  BY <1>1 DEF StreamingTablesSorted
<1>2. ASSUME NEW tables \in WithFilledTable, NewFilledTableAsked, CallStep,
             streaming_sublocation_tables' = tables
      PROVE  StreamingTablesSorted'
  <2>1. current \in Resources /\ answer \in Answer
    BY <1>2, CallInProgress
  <2>2. PICK table \in StreamingTable :
          /\ tables = Append(streaming_sublocation_tables, table)
          /\ Len(table.stream_locations) = Len(answer.sublocations)
          /\ \A j, k \in DOMAIN table.stream_locations :
               j < k => table.stream_locations[j].memory_offset <=
                          table.stream_locations[k].memory_offset
    BY <2>1, <1>2, FilledTableType
  <2>3. table.stream_locations # << >>
    BY <1>2, <2>1, <2>2 DEF NewFilledTableAsked, Answer, StreamingTable
  <2>4. /\ DOMAIN tables =
             DOMAIN streaming_sublocation_tables \cup {Len(streaming_sublocation_tables) + 1}
        /\ \A i \in DOMAIN streaming_sublocation_tables :
             tables[i] = streaming_sublocation_tables[i]
        /\ tables[Len(streaming_sublocation_tables) + 1] = table
    BY <2>2 DEF TypeOK
  <2> HIDE DEF WithFilledTable
  <2> QED BY <1>2, <2>2, <2>3, <2>4 DEF StreamingTablesSorted
<1>3. CASE DropEmptyStreamingTable
  BY <1>1, <1>3, DropChangesNoTable
<1>4. CASE AppendStreamingTable
  BY <1>2, <1>4 DEF AppendStreamingTable, CallStep
<1>5. CASE TableIndexAsserts
  BY <1>2, <1>5 DEF TableIndexAsserts, CallStep
<1> QED
  BY <1>1, <1>3, <1>4, <1>5
  DEF Next, vars, gestalt, BeginCall, BeginCallAsserts, Abort, Finished, CallStep, DescribeFails,
      FindCachedSharedFile, AppendSharedFile, FindOwnSharedFile, SharedFileAsserts,
      UseSharedFile, FindCodecDefinition, AppendCodecDefinition, CodecDefinitionAsserts,
      UseCodecDefinition, NotStreamed, StreamingTableAsserts, AppendFileLocation,
      ReuseNullFileLocation, FileLocationAsserts, UseFileLocation, AssignLocation,
      AssignLocationAsserts

\* No table is left empty or out of order, for every constant that meets the
\* assumptions.
THEOREM TablesStaySorted == Spec => []StreamingTablesSorted
<1>1. Init => StreamingTablesSorted
  BY DEF Init, StreamingTablesSorted
<1> QED BY <1>1, NextStreamingTablesSorted, TypeCorrect, PTL DEF Spec

\* Rows of other paths do not disturb a search.
LEMMA SearchSkipsOthers ==
  ASSUME shared_files \in Seq(SharedFileRow), NEW path, NEW row \in SharedFileRow,
         row.file_name # path, shared_files' = Append(shared_files, row)
  PROVE  FirstSharedFile(path)' = FirstSharedFile(path)
<1> DEFINE I == {i \in 1 .. Len(shared_files) : shared_files[i].file_name = path}
           J == {i \in 1 .. Len(shared_files') : shared_files'[i].file_name = path}
<1>1. I = J
  <2>1. /\ Len(shared_files) \in Nat
        /\ Len(shared_files') = Len(shared_files) + 1
        /\ \A i \in 1 .. Len(shared_files) : shared_files'[i] = shared_files[i]
        /\ shared_files'[Len(shared_files) + 1] = row
    OBVIOUS
  <2> QED BY <2>1
<1>2. FirstSharedFile(path) = (IF I # {} THEN Min(I) ELSE 0) - 1
  BY DEF FirstSharedFile, SelectInSeq
<1>3. FirstSharedFile(path)' = (IF J # {} THEN Min(J) ELSE 0) - 1
  BY DEF FirstSharedFile, SelectInSeq
<1> HIDE DEF I, J
<1> QED BY <1>1, <1>2, <1>3

\* Nor does a step that leaves the rows alone.
LEMMA SearchRepeated ==
  ASSUME NEW path, UNCHANGED shared_files
  PROVE  FirstSharedFile(path)' = FirstSharedFile(path)
<1> DEFINE I == {i \in 1 .. Len(shared_files) : shared_files[i].file_name = path}
           J == {i \in 1 .. Len(shared_files') : shared_files'[i].file_name = path}
<1>1. I = J
  OBVIOUS
<1>2. FirstSharedFile(path) = (IF I # {} THEN Min(I) ELSE 0) - 1
  BY DEF FirstSharedFile, SelectInSeq
<1>3. FirstSharedFile(path)' = (IF J # {} THEN Min(J) ELSE 0) - 1
  BY DEF FirstSharedFile, SelectInSeq
<1> HIDE DEF I, J
<1> QED BY <1>1, <1>2, <1>3

\* An index the cache gives for a file of its own is that of a row made for that
\* file; the row of the path of the map can be found only by a search.
LEMMA NextSharedFileCacheCoherent ==
  IndexInvariant /\ SharedFileCacheCoherent /\ [Next]_vars => SharedFileCacheCoherent'
<1> SUFFICES ASSUME IndexInvariant, SharedFileCacheCoherent, [Next]_vars
             PROVE  SharedFileCacheCoherent'
  OBVIOUS
<1> DEFINE cache == m_shared_file_index_cache
<1>1. TypeOK /\ IndexesResolve
  BY DEF IndexInvariant
<1>2. CASE UNCHANGED <<shared_files, m_shared_file_index_cache>>
  <2>1. FirstSharedFile(OwnPath)' = FirstSharedFile(OwnPath)
    BY <1>2, SearchRepeated
  <2> QED BY <1>2, <2>1 DEF SharedFileCacheCoherent
<1>3. ASSUME CallStep, NewSharedFileAsked, NEW index, RememberSharedFile(index)
      PROVE  /\ answer.file_index \in Files
             /\ IoConfig[answer.file_index].path \in Paths
             /\ DOMAIN cache' = DOMAIN cache \cup {answer.file_index}
             /\ cache'[answer.file_index] = index
             /\ \A file \in DOMAIN cache : file # answer.file_index /\ cache'[file] = cache[file]
  <2>1. answer \in Answer
    BY <1>1, <1>3, CallInProgress
  <2> QED BY <1>3, <2>1 DEF NewSharedFileAsked, RememberSharedFile, Answer, Paths
<1>4. \A file \in DOMAIN cache : NoneOrValid(cache[file], shared_files)
  BY <1>1 DEF IndexesResolve
<1>5. CASE AppendSharedFile
  <2> DEFINE asked  == answer.file_index
             config == IoConfig[asked]
             row    == SharedFile(config.path, config.io_offset)
  <2>1. /\ shared_files \in Seq(SharedFileRow)
        /\ shared_files' = Append(shared_files, row)
        /\ config.path # OwnPath
        /\ RememberSharedFile(LastIndex(shared_files'))
        /\ NewSharedFileAsked /\ CallStep
    BY <1>1, <1>5 DEF AppendSharedFile, TypeOK, CallStep
  <2>2. row \in SharedFileRow
    BY <1>3, <2>1, SharedFileType
  <2>3. FirstSharedFile(OwnPath)' = FirstSharedFile(OwnPath)
    BY <2>1, <2>2, SearchSkipsOthers DEF SharedFile
  <2>4. /\ LastIndex(shared_files') = Len(shared_files)
        /\ ValidIndex(LastIndex(shared_files'), shared_files')
        /\ RowAt(shared_files', LastIndex(shared_files')) = row
        /\ \A index : ValidIndex(index, shared_files) =>
             /\ ValidIndex(index, shared_files')
             /\ RowAt(shared_files', index) = RowAt(shared_files, index)
    BY <2>1, <2>2, AppendedRow
  <2>5. \A file \in DOMAIN cache : cache[file] # LastIndex(shared_files')
    BY <1>4, <2>1, <2>4 DEF NoneOrValid, ValidIndex, NONE
  <2>6. /\ DOMAIN cache' = DOMAIN cache \cup {asked}
        /\ cache'[asked] = LastIndex(shared_files')
        /\ \A file \in DOMAIN cache : file # asked /\ cache'[file] = cache[file]
    BY <1>3, <2>1
  <2> HIDE DEF asked, row
  <2>7. ASSUME NEW file \in DOMAIN cache', IoConfig[file].path = OwnPath
        PROVE  cache'[file] = FirstSharedFile(OwnPath)'
    <3>1. file \in DOMAIN cache
      BY <2>1, <2>6, <2>7
    <3> QED BY <2>3, <2>6, <2>7, <3>1 DEF SharedFileCacheCoherent
  <2>8. ASSUME NEW file \in DOMAIN cache', IoConfig[file].path # OwnPath
        PROVE  /\ ValidIndex(cache'[file], shared_files')
               /\ RowAt(shared_files', cache'[file]) =
                    SharedFile(IoConfig[file].path, IoConfig[file].io_offset)
               /\ \A other \in DOMAIN cache' \ {file} : cache'[other] # cache'[file]
    <3>1. CASE file = asked
      BY <2>4, <2>5, <2>6, <3>1 DEF row
    <3>2. CASE file # asked
      <4>1. file \in DOMAIN cache
        BY <2>6, <2>8, <3>2
      <4>2. /\ ValidIndex(cache[file], shared_files)
            /\ RowAt(shared_files, cache[file]) =
                 SharedFile(IoConfig[file].path, IoConfig[file].io_offset)
            /\ \A other \in DOMAIN cache \ {file} : cache[other] # cache[file]
        BY <2>8, <4>1 DEF SharedFileCacheCoherent
      <4> QED BY <2>4, <2>5, <2>6, <4>1, <4>2
    <3> QED BY <3>1, <3>2
  <2> QED BY <2>7, <2>8 DEF SharedFileCacheCoherent
<1>6. CASE FindOwnSharedFile
  <2> DEFINE asked == answer.file_index
             found == FirstSharedFile(OwnPath)
  <2>1. /\ shared_files \in Seq(SharedFileRow)
        /\ shared_files' = shared_files
        /\ IoConfig[asked].path = OwnPath
        /\ RememberSharedFile(found)
        /\ NewSharedFileAsked /\ CallStep
    BY <1>1, <1>6 DEF FindOwnSharedFile, TypeOK, CallStep
  <2>2. found # NONE => RowAt(shared_files, found).file_name = OwnPath
    BY <2>1, FirstSharedFileFound
  <2>3. FirstSharedFile(OwnPath)' = found
    BY <2>1, SearchRepeated
  <2>4. /\ DOMAIN cache' = DOMAIN cache \cup {asked}
        /\ cache'[asked] = found
        /\ \A file \in DOMAIN cache : file # asked /\ cache'[file] = cache[file]
    BY <1>3, <2>1
  <2> HIDE DEF asked, found
  <2>5. ASSUME NEW file \in DOMAIN cache', IoConfig[file].path = OwnPath
        PROVE  cache'[file] = found
    BY <2>4, <2>5 DEF SharedFileCacheCoherent, found
  <2>6. ASSUME NEW file \in DOMAIN cache', IoConfig[file].path # OwnPath
        PROVE  /\ ValidIndex(cache'[file], shared_files)
               /\ RowAt(shared_files, cache'[file]) =
                    SharedFile(IoConfig[file].path, IoConfig[file].io_offset)
               /\ \A other \in DOMAIN cache' \ {file} : cache'[other] # cache'[file]
    <3>1. file \in DOMAIN cache
      BY <2>1, <2>4, <2>6
    <3>2. /\ ValidIndex(cache[file], shared_files)
          /\ RowAt(shared_files, cache[file]) =
               SharedFile(IoConfig[file].path, IoConfig[file].io_offset)
          /\ \A other \in DOMAIN cache \ {file} : cache[other] # cache[file]
      BY <2>6, <3>1 DEF SharedFileCacheCoherent
    <3>3. RowAt(shared_files, cache[file]).file_name # OwnPath
      BY <2>6, <3>2 DEF SharedFile
    <3>4. cache[file] # NONE
      BY <3>2 DEF ValidIndex, NONE
    <3>5. cache[file] # found
      BY <2>2, <3>3, <3>4
    <3> QED BY <2>4, <3>1, <3>2, <3>5
  <2> QED BY <2>1, <2>3, <2>5, <2>6 DEF SharedFileCacheCoherent
<1> QED
  BY <1>2, <1>5, <1>6
  DEF Next, vars, gestalt, BeginCall, BeginCallAsserts, Abort, Finished, CallStep, DescribeFails,
      FindCachedSharedFile, SharedFileAsserts, FindCodecDefinition, AppendCodecDefinition,
      UseCodecDefinition, CodecDefinitionAsserts, NotStreamed, DropEmptyStreamingTable,
      AppendStreamingTable, StreamingTableAsserts, TableIndexAsserts, UseStreamingTable,
      AppendFileLocation, ReuseNullFileLocation, FileLocationAsserts, UseFileLocation,
      AssignLocation, AssignLocationAsserts

\* What the cache remembers stays true, for every constant that meets the
\* assumptions.
THEOREM SharedFileCacheStaysCoherent == Spec => []SharedFileCacheCoherent
<1>1. Init => SharedFileCacheCoherent
  BY DEF Init, SharedFileCacheCoherent
<1>2. IndexInvariant /\ [Next]_vars => IndexInvariant'
  BY NextIndexInvariant
<1> QED
  BY <1>1, <1>2, InitIndexInvariant, NextSharedFileCacheCoherent, PTL DEF Spec

-------------------------------------------------------------------------------
(* Who shares a streaming table.                                             *)

\* The second half of LocationsExclusive.
TablesExclusive ==
  \A i, j \in DOMAIN file_locations :
    /\ file_locations[i].streaming_sublocation_table_index # NONE
    /\ file_locations[i].streaming_sublocation_table_index =
         file_locations[j].streaming_sublocation_table_index
    => i = j

\* The resources that may have been given a table.
Tabled ==
  {r \in Resources :
     \/ result[r] # "pending"
     \/ r = current /\ pc \in {"add_file_location", "assign_location", "aborted"}}

TablesCounted == Len(streaming_sublocation_tables) <= Cardinality(Tabled)

\* A call has no table before it asks for one, and the table it then has is in
\* no row until its own row is added.
TableFresh ==
  /\ pc \in {"idle", "describe", "codec_definition", "streaming_sublocations"} =>
       pageable_location.streaming_sublocation_table_index = NONE
  /\ pc = "add_file_location" =>
       \/ pageable_location.streaming_sublocation_table_index = NONE
       \/ \A i \in DOMAIN file_locations :
            file_locations[i].streaming_sublocation_table_index #
              pageable_location.streaming_sublocation_table_index

\* TablesExclusive is not inductive: that a table is new is not enough, its index
\* must be new too, and the two casts could give a table past the 2^16th the index
\* of another.  There are no more tables than resources that asked for one, and
\* no more resources than location indexes, which are shorts.
TableInvariant ==
  /\ IndexInvariant
  /\ TablesCounted
  /\ TableFresh
  /\ TablesExclusive

\* Every resource has a short of its own.
LEMMA FewResources == Cardinality(Resources) <= ShortModulus
<1> DEFINE index == [r \in Resources |-> IF LocationIndex[r] >= 0
                                         THEN LocationIndex[r]
                                         ELSE LocationIndex[r] + ShortModulus]
<1>1. \A r \in Resources :
        /\ LocationIndex[r] \in Int
        /\ -ShortModulus <= 2 * LocationIndex[r] /\ 2 * LocationIndex[r] < ShortModulus
  BY ResourcesAssumption, LocationIndexesAreShort, CapacitiesAssumption
<1>2. ShortModulus \in Nat \ {0, 1}
  BY CapacitiesAssumption
<1>3. index \in [Resources -> 0 .. ShortModulus - 1]
  BY <1>1, <1>2
<1>4. ASSUME NEW r \in Resources, NEW s \in Resources, index[r] = index[s]
      PROVE  r = s
  <2>1. LocationIndex[r] = LocationIndex[s]
    BY <1>1, <1>2, <1>4
  <2> QED BY <2>1, LocationIndexesDistinct
<1>5. index \in Injection(Resources, 0 .. ShortModulus - 1)
  BY <1>3, <1>4 DEF Injection, IsInjective
<1>6. IsFiniteSet(0 .. ShortModulus - 1) /\ Cardinality(0 .. ShortModulus - 1) = ShortModulus
  BY <1>2, FS_Interval
<1> HIDE DEF index
<1> QED BY <1>5, <1>6, FS_Injection

\* A call is counted among those with a table before it adds one, and stays so.
LEMMA NextTablesCounted == TypeOK /\ TablesCounted /\ [Next]_vars => TablesCounted'
<1> SUFFICES ASSUME TypeOK, TablesCounted, [Next]_vars PROVE TablesCounted'
  OBVIOUS
<1> DEFINE tables == streaming_sublocation_tables
<1>1. /\ IsFiniteSet(Tabled) /\ IsFiniteSet(Tabled')
      /\ Cardinality(Tabled) \in Nat /\ Cardinality(Tabled') \in Nat
  <2>1. Tabled \in SUBSET Resources /\ Tabled' \in SUBSET Resources
    BY DEF Tabled
  <2>2. IsFiniteSet(Tabled) /\ IsFiniteSet(Tabled')
    BY <2>1, FS_Subset, ResourcesAssumption
  <2> QED BY <2>2, FS_CardinalityType
<1>2. Tabled \subseteq Tabled'
  <2> SUFFICES ASSUME NEW r \in Tabled PROVE r \in Tabled'
    OBVIOUS
  <2>1. r \in Resources
    BY DEF Tabled
  <2>2. CASE result[r] # "pending"
    BY <2>1, <2>2, StepKeepsRows DEF AssignmentsStay, Tabled
  <2>3. CASE r = current /\ pc \in {"add_file_location", "assign_location", "aborted"}
    <3>1. CASE current' = current /\ pc' \in {"add_file_location", "assign_location", "aborted"}
      BY <2>1, <2>3, <3>1 DEF Tabled
    <3>2. CASE AssignLocation
      BY <2>1, <2>3, <3>2 DEF AssignLocation, Return, Tabled, TypeOK
    <3> QED
      BY <2>3, <3>1, <3>2
      DEF Next, vars, locals, BeginCall, BeginCallAsserts, Abort, Finished, CallStep,
          DescribeFails, FindCachedSharedFile, AppendSharedFile, FindOwnSharedFile,
          NewSharedFileAsked, SharedFileAsserts, FindCodecDefinition, AppendCodecDefinition,
          NewCodecAsked, CodecDefinitionAsserts, NotStreamed, DropEmptyStreamingTable,
          AppendStreamingTable, StreamingTableAsserts, TableIndexAsserts, NewFilledTableAsked,
          NewTableAsked, AppendFileLocation, ReuseNullFileLocation, FileLocationAsserts,
          UseFileLocation, AssignLocationAsserts
  <2> QED BY <2>2, <2>3 DEF Tabled
<1>3. CASE Len(tables') = Len(tables)
  <2>1. Cardinality(Tabled) <= Cardinality(Tabled')
    BY <1>1, <1>2, FS_Subset
  <2> QED BY <1>1, <1>3, <2>1 DEF TablesCounted, TypeOK
<1>4. ASSUME NEW added \in WithFilledTable, tables' = added, NewFilledTableAsked, CallStep,
             current' = current, pc' \in {"add_file_location", "aborted"}
      PROVE  TablesCounted'
  <2>1. current \in Resources /\ result[current] = "pending" /\ pc = "streaming_sublocations"
    BY <1>4, CallInProgress DEF TypeOK, NewFilledTableAsked, NewTableAsked
  <2>2. current \notin Tabled /\ current \in Tabled'
    BY <1>4, <2>1 DEF Tabled
  <2>3. PICK table \in StreamingTable : added = Append(tables, table)
    BY <1>4, <2>1, FilledTableType
  <2>4. Len(tables') = Len(tables) + 1 /\ Len(tables) \in Nat
    BY <1>4, <2>3 DEF TypeOK
  <2>5. /\ IsFiniteSet(Tabled \cup {current})
        /\ Cardinality(Tabled \cup {current}) = Cardinality(Tabled) + 1
    BY <1>1, <2>2, FS_AddElement
  <2>6. Cardinality(Tabled \cup {current}) <= Cardinality(Tabled')
    BY <1>1, <1>2, <2>2, <2>5, FS_Subset
  <2> QED BY <1>1, <2>4, <2>5, <2>6 DEF TablesCounted
<1>5. CASE DropEmptyStreamingTable
  BY <1>3, <1>5, DropChangesNoTable
<1>6. CASE AppendStreamingTable
  BY <1>4, <1>6 DEF AppendStreamingTable, UseStreamingTable, CallStep
<1>7. CASE TableIndexAsserts
  BY <1>4, <1>7 DEF TableIndexAsserts, CallStep, locals
<1> QED
  BY <1>3, <1>5, <1>6, <1>7
  DEF Next, vars, gestalt, BeginCall, BeginCallAsserts, Abort, Finished, CallStep, DescribeFails,
      FindCachedSharedFile, AppendSharedFile, FindOwnSharedFile, SharedFileAsserts,
      UseSharedFile, FindCodecDefinition, AppendCodecDefinition, CodecDefinitionAsserts,
      UseCodecDefinition, NotStreamed, StreamingTableAsserts, AppendFileLocation,
      ReuseNullFileLocation, FileLocationAsserts, UseFileLocation, AssignLocation,
      AssignLocationAsserts

\* The index the caller makes of that of a table just added is NONE or refused,
\* or it is the index of that table.
LEMMA AddedTableIndex ==
  ASSUME TypeOK, TablesCounted, [Next]_vars, AppendStreamingTable
  PROVE  \/ pageable_location'.streaming_sublocation_table_index = NONE
         \/ pageable_location'.streaming_sublocation_table_index = Len(streaming_sublocation_tables)
<1> DEFINE tables == streaming_sublocation_tables
<1>1. PICK added \in WithFilledTable :
        /\ CallerAccepts(added)
        /\ tables' = added
        /\ UseStreamingTable(TableIndex(added))
  BY DEF AppendStreamingTable
<1>2. CallStep
  BY DEF CallStep
<1>3. PICK table \in StreamingTable : added = Append(tables, table)
  BY <1>2, CallInProgress, FilledTableType
<1>4. Len(added) = Len(tables) + 1 /\ Len(tables) \in Nat
  BY <1>3 DEF TypeOK
<1>5. Len(added) <= ShortModulus
  <2>1. Len(added) <= Cardinality(Tabled')
    BY <1>1, NextTablesCounted DEF TablesCounted
  <2>2. Tabled' \in SUBSET Resources
    BY DEF Tabled
  <2>3. /\ Cardinality(Tabled') <= Cardinality(Resources)
        /\ IsFiniteSet(Tabled')
    BY <2>2, FS_Subset, ResourcesAssumption
  <2>4. Cardinality(Tabled') \in Nat /\ Cardinality(Resources) \in Nat /\ ShortModulus \in Nat
    BY <2>3, FS_CardinalityType, ResourcesAssumption, CapacitiesAssumption
  <2> QED BY <1>4, <2>1, <2>3, <2>4, FewResources
<1>6. ShortModulus \in Nat \ {0, 1}
  BY CapacitiesAssumption
<1>7. TableIndex(added) = Len(tables)
  BY <1>4, <1>5, <1>6 DEF TableIndex, LastIndex, Unsigned
<1>8. \/ CallersTableIndex(added) = Len(tables)
      \/ CallersTableIndex(added) = Len(tables) - ShortModulus
  BY <1>4, <1>5, <1>6, <1>7 DEF CallersTableIndex, Signed
<1>9. CallersTableIndex(added) # NONE => CallersTableIndex(added) = Len(tables)
  BY <1>1, <1>4, <1>5, <1>6, <1>8 DEF CallerAccepts, ValidIndex
<1>10. pageable_location'.streaming_sublocation_table_index = CallersTableIndex(added)
  BY <1>1, <1>7 DEF UseStreamingTable, CallersTableIndex, TypeOK, FileLocation
<1> QED BY <1>9, <1>10

\* A row keeps what it says of its location.
LEMMA RowsKeepTables ==
  ASSUME TypeOK, [Next]_vars, NEW i \in DOMAIN file_locations
  PROVE  /\ i \in DOMAIN file_locations'
         /\ file_locations'[i].streaming_sublocation_table_index =
              file_locations[i].streaming_sublocation_table_index
         /\ file_locations'[i].memory_size = file_locations[i].memory_size
<1>1. PICK count \in 0 .. ShortModulus - 1 :
        /\ i \in DOMAIN file_locations'
        /\ file_locations'[i] = [file_locations[i] EXCEPT !.resource_reference_count = count]
  BY StepKeepsRows DEF LocationsStay
<1>2. file_locations[i] \in FileLocation
  BY DEF TypeOK
<1> QED BY <1>1, <1>2 DEF FileLocation

\* What AppendFileLocation makes of the rows.
LEMMA AppendedLocation ==
  ASSUME TypeOK, AppendFileLocation
  PROVE  /\ Len(file_locations) \in Nat
         /\ DOMAIN file_locations = 1 .. Len(file_locations)
         /\ DOMAIN file_locations' = DOMAIN file_locations \cup {Len(file_locations) + 1}
         /\ \A i \in DOMAIN file_locations : file_locations'[i] = file_locations[i]
         /\ file_locations'[Len(file_locations) + 1] =
              [pageable_location EXCEPT !.resource_reference_count =
                 Unsigned(pageable_location.resource_reference_count + 1, ShortModulus)]
         /\ pageable_location_index' = Len(file_locations)
<1> DEFINE locations == Append(file_locations, pageable_location)
<1>1. /\ locations \in Seq(FileLocation)
      /\ Len(locations) = Len(file_locations) + 1
      /\ LastIndex(locations) = Len(file_locations)
      /\ ValidIndex(LastIndex(locations), locations)
      /\ RowAt(locations, LastIndex(locations)) = pageable_location
      /\ \A i \in DOMAIN file_locations : i \in DOMAIN locations /\ locations[i] = file_locations[i]
      /\ Len(file_locations) \in Nat
      /\ DOMAIN file_locations = 1 .. Len(file_locations)
      /\ DOMAIN locations = 1 .. Len(locations)
  BY AppendedRow DEF TypeOK
<1>2. /\ file_locations' = CountReference(locations, LastIndex(locations))
      /\ pageable_location_index' = LastIndex(locations)
  BY DEF AppendFileLocation, UseFileLocation
<1> HIDE DEF locations
<1>3. /\ DOMAIN file_locations' = DOMAIN locations
      /\ \A i \in DOMAIN locations \ {LastIndex(locations) + 1} : file_locations'[i] = locations[i]
      /\ file_locations'[LastIndex(locations) + 1] =
           [locations[LastIndex(locations) + 1] EXCEPT !.resource_reference_count = Unsigned(
              locations[LastIndex(locations) + 1].resource_reference_count + 1, ShortModulus)]
  BY <1>1, <1>2, CountReferenceRow
<1> QED BY <1>1, <1>2, <1>3 DEF RowAt

\* The table of a call is new when it is added, and still when its row is.
LEMMA NextTableInvariant == TableInvariant /\ [Next]_vars => TableInvariant'
<1> SUFFICES ASSUME TableInvariant, [Next]_vars PROVE TableInvariant'
  OBVIOUS
<1>1. /\ TypeOK /\ IndexInvariant /\ IndexInvariant'
      /\ TablesCounted /\ TablesCounted'
  BY NextIndexInvariant, NextTablesCounted DEF TableInvariant, IndexInvariant
<1>2. TableFresh /\ TablesExclusive
  BY DEF TableInvariant
<1>3. \A i \in DOMAIN file_locations :
        /\ i \in DOMAIN file_locations'
        /\ file_locations'[i].streaming_sublocation_table_index =
             file_locations[i].streaming_sublocation_table_index
  BY <1>1, RowsKeepTables
<1> SUFFICES TableFresh' /\ TablesExclusive'
  BY <1>1 DEF TableInvariant
<1>4. ASSUME DOMAIN file_locations' = DOMAIN file_locations PROVE TablesExclusive'
  BY <1>2, <1>3, <1>4 DEF TablesExclusive
<1>5. pageable_location \in FileLocation
  BY <1>1 DEF TypeOK
<1>6. CASE AppendFileLocation
  <2> DEFINE new == Len(file_locations) + 1
  <2>1. /\ DOMAIN file_locations' = DOMAIN file_locations \cup {new}
        /\ file_locations'[new].streaming_sublocation_table_index =
             pageable_location.streaming_sublocation_table_index
    BY <1>1, <1>5, <1>6, AppendedLocation DEF FileLocation
  <2>2. pc = "add_file_location" /\ pc' = "assign_location"
    BY <1>6 DEF AppendFileLocation, UseFileLocation
  <2>3. \/ pageable_location.streaming_sublocation_table_index = NONE
        \/ \A i \in DOMAIN file_locations :
             file_locations[i].streaming_sublocation_table_index #
               pageable_location.streaming_sublocation_table_index
    BY <1>2, <2>2 DEF TableFresh
  <2> HIDE DEF new
  <2>4. TablesExclusive'
    BY <1>2, <1>3, <2>1, <2>3 DEF TablesExclusive
  <2> QED BY <2>2, <2>4 DEF TableFresh
<1>7. CASE AppendStreamingTable
  <2>1. UNCHANGED file_locations /\ pc' = "add_file_location"
    BY <1>7 DEF AppendStreamingTable, UseStreamingTable
  <2>2. \A i \in DOMAIN file_locations :
          NoneOrValid(file_locations[i].streaming_sublocation_table_index,
                      streaming_sublocation_tables)
    BY <1>1 DEF IndexInvariant, IndexesResolve, NamesRows
  <2>3. \A i \in DOMAIN file_locations :
          file_locations[i].streaming_sublocation_table_index # Len(streaming_sublocation_tables)
    BY <1>1, <2>2 DEF NoneOrValid, ValidIndex, TypeOK, NONE
  <2>4. \/ pageable_location'.streaming_sublocation_table_index = NONE
        \/ pageable_location'.streaming_sublocation_table_index = Len(streaming_sublocation_tables)
    BY <1>1, <1>7, AddedTableIndex
  <2>5. TableFresh'
    BY <2>1, <2>3, <2>4 DEF TableFresh
  <2> QED BY <1>4, <2>1, <2>5
<1>8. ASSUME UseStreamingTable(NoStreamingTable) PROVE TableFresh' /\ TablesExclusive'
  <2>1. UNCHANGED file_locations /\ pc' = "add_file_location"
    BY <1>8 DEF UseStreamingTable
  <2>2. pageable_location'.streaming_sublocation_table_index = NONE
    BY <1>5, <1>8, NoneSurvivesBothCasts, CapacitiesAssumption
    DEF UseStreamingTable, NoStreamingTable, FileLocation
  <2> QED BY <1>4, <2>1, <2>2 DEF TableFresh
<1>9. CASE ReuseNullFileLocation
  <2>1. DOMAIN file_locations' = DOMAIN file_locations
    BY <1>1, <1>9, CountReferenceRow DEF ReuseNullFileLocation, TypeOK
  <2>2. pc' = "assign_location"
    BY <1>9 DEF ReuseNullFileLocation, UseFileLocation
  <2> QED BY <1>4, <2>1, <2>2 DEF TableFresh
<1>10. ASSUME UNCHANGED file_locations,
              \/ pc' = "aborted"
              \/ UNCHANGED <<pc, pageable_location>>
              \/ pc' = "idle" /\ pageable_location' = NullFileLocation
              \/ /\ pc \in {"idle", "describe", "codec_definition"}
                 /\ pageable_location'.streaming_sublocation_table_index =
                      pageable_location.streaming_sublocation_table_index
       PROVE  TableFresh' /\ TablesExclusive'
  <2>1. TableFresh'
    BY <1>2, <1>10 DEF TableFresh, NullFileLocation
  <2> QED BY <1>4, <1>10, <2>1
<1>11. CASE UNCHANGED vars
  BY <1>10, <1>11 DEF vars, gestalt, locals
<1>12. CASE \E r \in Resources : BeginCall(r) \/ BeginCallAsserts(r)
  BY <1>10, <1>12 DEF BeginCall, BeginCallAsserts, Abort, gestalt, locals
<1>13. CASE Abort \/ TableIndexAsserts
  BY <1>10, <1>13 DEF Abort, TableIndexAsserts, gestalt
<1>14. CASE DescribeFails \/ AssignLocation
  BY <1>10, <1>14 DEF DescribeFails, AssignLocation, Return, gestalt
<1>15. CASE FindCachedSharedFile \/ AppendSharedFile \/ FindOwnSharedFile
  BY <1>5, <1>10, <1>15
  DEF FindCachedSharedFile, AppendSharedFile, FindOwnSharedFile, NewSharedFileAsked,
      UseSharedFile, FileLocation
<1>16. CASE FindCodecDefinition \/ AppendCodecDefinition
  BY <1>5, <1>10, <1>16
  DEF FindCodecDefinition, AppendCodecDefinition, NewCodecAsked, UseCodecDefinition,
      FileLocation
<1>17. CASE NotStreamed \/ DropEmptyStreamingTable
  BY <1>8, <1>17 DEF NotStreamed, DropEmptyStreamingTable
<1> QED
  BY <1>6, <1>7, <1>9, <1>11, <1>12, <1>13, <1>14, <1>15, <1>16, <1>17
  DEF Next, CallStep, Finished, SharedFileAsserts, CodecDefinitionAsserts,
      StreamingTableAsserts, FileLocationAsserts, AssignLocationAsserts

\* At first there is no table, and no row that names one.
LEMMA InitTableInvariant == Init => TableInvariant
<1> SUFFICES ASSUME Init PROVE TableInvariant
  OBVIOUS
<1>1. IndexInvariant
  BY InitIndexInvariant
<1>2. TablesCounted
  <2>1. Tabled \in SUBSET Resources
    BY DEF Tabled
  <2>2. Cardinality(Tabled) \in Nat
    BY <2>1, FS_Subset, FS_CardinalityType, ResourcesAssumption
  <2> QED BY <2>2 DEF TablesCounted, Init
<1>3. TableFresh
  BY DEF TableFresh, Init, NullFileLocation
<1>4. TablesExclusive
  <2>1. CASE file_locations = << >>
    BY <2>1 DEF TablesExclusive
  <2>2. CASE file_locations = <<NullFileLocation>>
    BY <2>2 DEF TablesExclusive
  <2> QED BY <2>1, <2>2 DEF Init
<1> QED BY <1>1, <1>2, <1>3, <1>4 DEF TableInvariant

-------------------------------------------------------------------------------
(* Who holds a location.                                                     *)

\* The first half of LocationsExclusive.
BytesExclusive ==
  \A i \in DOMAIN file_locations : file_locations[i].memory_size # 0 =>
    \A r, s \in Holders(i - 1) : r = s

\* ReferenceCountsExact is not inductive: the row a call appends starts to count at
\* what its local says, which is 0 throughout.  That a call is not yet a holder of
\* the row it counts itself on is in IndexInvariant, and so is that the index it
\* stores is, in 16 bits, the one it was given.
HolderInvariant ==
  /\ IndexInvariant
  /\ pageable_location.resource_reference_count = 0
  /\ ReferenceCountsExact
  /\ BytesExclusive

\* Holders are resources, of which there are finitely many.
LEMMA HoldersFinite ==
  ASSUME NEW index
  PROVE  IsFiniteSet(Holders(index)) /\ Cardinality(Holders(index)) \in Nat
<1>1. Holders(index) \in SUBSET Resources
  BY DEF Holders
<1>2. IsFiniteSet(Holders(index))
  BY <1>1, FS_Subset, ResourcesAssumption
<1> QED BY <1>2, FS_CardinalityType

\* Only the step that adds a location to a call changes who holds one: the step
\* that stores the index makes its holder an owner.
LEMMA HoldersKept ==
  ASSUME IndexInvariant, [Next]_vars, ~AppendFileLocation, ~ReuseNullFileLocation,
         NEW index \in Nat
  PROVE  Holders(index)' = Holders(index)
<1>1. /\ TypeOK
      /\ pc \notin {"assign_location", "aborted"} => pageable_location_index = NONE
  BY DEF IndexInvariant
<1>2. CASE UNCHANGED <<result, default_locations, current, pageable_location_index>>
  BY <1>2 DEF Holders, LocatedAt
<1>3. CASE \E r \in Resources : BeginCall(r) \/ BeginCallAsserts(r)
  <2>1. UNCHANGED <<result, default_locations, pageable_location_index>> /\ pc = "idle"
    BY <1>3 DEF BeginCall, BeginCallAsserts, Abort, gestalt, locals
  <2>2. pageable_location_index = NONE /\ index # NONE
    BY <1>1, <2>1 DEF NONE
  <2> QED BY <2>1, <2>2 DEF Holders, LocatedAt
<1>4. CASE DescribeFails
  <2>1. /\ pageable_location_index = NONE /\ index # NONE
        /\ current \in Resources /\ result[current] = "pending"
    BY <1>1, <1>4 DEF DescribeFails, NONE, TypeOK
  <2>2. /\ result' = [result EXCEPT ![current] = "false"]
        /\ pageable_location_index' = NONE
        /\ UNCHANGED default_locations
    BY <1>4 DEF DescribeFails, Return, gestalt
  <2>3. \A r \in Resources : result'[r] = "true" <=> result[r] = "true"
    BY <1>1, <2>1, <2>2 DEF TypeOK
  <2> QED BY <2>1, <2>2, <2>3 DEF Holders, LocatedAt
<1>5. CASE AssignLocation
  <2>1. CallStep
    BY <1>5 DEF CallStep
  <2>2. current \in Resources /\ result[current] = "pending"
    BY <1>1, <2>1, CallInProgress DEF TypeOK
  <2>3. /\ NoneOrValid(pageable_location_index, file_locations)
        /\ file_locations \in Seq(FileLocation)
        /\ Len(file_locations) <= MaxFileLocations
    BY DEF IndexInvariant, IndexesResolve, TypeOK
  <2>4. Signed(pageable_location_index, ShortModulus) = pageable_location_index
    BY <2>3, NarrowedIndex, CapacitiesAssumption
  <2>5. /\ LocationIndex[current] \in DOMAIN default_locations
        /\ default_locations' = [default_locations EXCEPT
             ![LocationIndex[current]] = pageable_location_index]
        /\ result' = [result EXCEPT ![current] = "true"]
        /\ current' = NoResource
    BY <1>5, <2>4 DEF AssignLocation, Return
  <2>6. ASSUME NEW r \in Resources
        PROVE  r \in Holders(index)' <=> r \in Holders(index)
    <3>1. r # current'
      BY <2>5, ResourcesAssumption
    <3>2. CASE r = current
      <4>1. result'[r] = "true" /\ LocatedAt(r)' = pageable_location_index
        BY <1>1, <2>2, <2>5, <3>2 DEF LocatedAt, TypeOK
      <4> QED BY <2>2, <3>1, <3>2, <4>1 DEF Holders
    <3>3. CASE r # current
      <4>1. LocationIndex[r] # LocationIndex[current]
        BY <2>2, <3>3, LocationIndexesDistinct
      <4>2. result'[r] = result[r] /\ LocatedAt(r)' = LocatedAt(r)
        BY <1>1, <2>5, <3>3, <4>1 DEF LocatedAt, TypeOK
      <4> QED BY <3>1, <3>3, <4>2 DEF Holders
    <3> QED BY <3>2, <3>3
  <2>7. Holders(index)' \subseteq Resources /\ Holders(index) \subseteq Resources
    BY DEF Holders
  <2> QED BY <2>6, <2>7
<1> QED
  BY <1>2, <1>3, <1>4, <1>5
  DEF Next, vars, gestalt, locals, Abort, Finished, CallStep, FindCachedSharedFile,
      AppendSharedFile, FindOwnSharedFile, UseSharedFile, SharedFileAsserts,
      FindCodecDefinition, AppendCodecDefinition, UseCodecDefinition, CodecDefinitionAsserts,
      NotStreamed, DropEmptyStreamingTable, AppendStreamingTable, UseStreamingTable,
      StreamingTableAsserts, TableIndexAsserts, FileLocationAsserts, AssignLocationAsserts

\* A call that is given an index becomes a holder of that location and of no other.
LEMMA HolderAdded ==
  ASSUME IndexInvariant, pc = "add_file_location", NEW given, UseFileLocation(given),
         NEW index \in Nat
  PROVE  /\ current \in Resources /\ current \notin Holders(index)
         /\ Holders(index)' = IF index = given THEN Holders(index) \cup {current}
                                               ELSE Holders(index)
<1>1. /\ current \in Resources /\ result[current] = "pending"
      /\ pageable_location_index = NONE
  BY DEF IndexInvariant, TypeOK
<1>2. index # NONE
  BY DEF NONE
<1>3. current \notin Holders(index)
  BY <1>1, <1>2 DEF Holders
<1>4. UNCHANGED <<result, default_locations, current>> /\ pageable_location_index' = given
  BY DEF UseFileLocation
<1>5. Holders(index)' =
        {r \in Resources : \/ result[r] = "true" /\ LocatedAt(r) = index
                           \/ r = current /\ given = index}
  BY <1>4 DEF Holders, LocatedAt
<1>6. Holders(index) = {r \in Resources : result[r] = "true" /\ LocatedAt(r) = index}
  BY <1>1, <1>2 DEF Holders
<1> QED BY <1>1, <1>3, <1>5, <1>6

\* The location a call builds counts nobody.
LEMMA NextLocalUncounted ==
  TypeOK /\ pageable_location.resource_reference_count = 0 /\ [Next]_vars =>
    pageable_location'.resource_reference_count = 0
<1> SUFFICES ASSUME TypeOK, pageable_location.resource_reference_count = 0, [Next]_vars
             PROVE  pageable_location'.resource_reference_count = 0
  OBVIOUS
<1>1. pageable_location \in FileLocation
  BY DEF TypeOK
<1>2. CASE UNCHANGED pageable_location \/ pageable_location' = NullFileLocation
  BY <1>2 DEF NullFileLocation
<1>3. CASE \E index : UseSharedFile(index) \/ UseCodecDefinition(index) \/ UseStreamingTable(index)
  BY <1>1, <1>3 DEF UseSharedFile, UseCodecDefinition, UseStreamingTable, FileLocation
<1> QED
  BY <1>2, <1>3
  DEF Next, vars, locals, BeginCall, BeginCallAsserts, Abort, Finished, CallStep, DescribeFails,
      Return, FindCachedSharedFile, AppendSharedFile, FindOwnSharedFile, SharedFileAsserts,
      FindCodecDefinition, AppendCodecDefinition, CodecDefinitionAsserts,
      NotStreamed, DropEmptyStreamingTable, AppendStreamingTable,
      StreamingTableAsserts, TableIndexAsserts, AppendFileLocation, ReuseNullFileLocation,
      FileLocationAsserts, UseFileLocation, AssignLocation, AssignLocationAsserts

\* Nobody holds a row that is not there yet.
LEMMA NoHolderBeforeRow ==
  ASSUME IndexInvariant, pc = "add_file_location"
  PROVE  Holders(Len(file_locations)) = {}
<1>1. /\ pageable_location_index = NONE
      /\ \A r \in Resources : result[r] = "true" => ValidIndex(LocatedAt(r), file_locations)
      /\ Len(file_locations) \in Nat
  BY DEF IndexInvariant, IndexesResolve, TypeOK
<1>2. \A r \in Resources : r \notin Holders(Len(file_locations))
  BY <1>1 DEF Holders, ValidIndex, NONE
<1> QED BY <1>2 DEF Holders

\* A row that is added is held by its call, which it counts; one that is reused has
\* no bytes, and counts one holder more.
LEMMA NextHolderInvariant == HolderInvariant /\ [Next]_vars => HolderInvariant'
<1> SUFFICES ASSUME HolderInvariant, [Next]_vars PROVE HolderInvariant'
  OBVIOUS
<1>1. /\ TypeOK /\ IndexInvariant /\ IndexInvariant'
      /\ pageable_location.resource_reference_count = 0
      /\ pageable_location'.resource_reference_count = 0
      /\ pageable_location \in FileLocation
  BY NextIndexInvariant, NextLocalUncounted DEF HolderInvariant, IndexInvariant, TypeOK
<1>2. ReferenceCountsExact /\ BytesExclusive
  BY DEF HolderInvariant
<1>3. ShortModulus \in Nat \ {0}
  BY CapacitiesAssumption
<1>4. \A i \in DOMAIN file_locations : i - 1 \in Nat
  BY <1>1 DEF TypeOK
<1> SUFFICES ReferenceCountsExact' /\ BytesExclusive'
  BY <1>1 DEF HolderInvariant
<1>5. CASE AppendFileLocation
  <2>0. PICK new \in Nat : new = Len(file_locations)
    BY <1>1 DEF TypeOK
  <2>1. /\ new \in Nat
        /\ DOMAIN file_locations = 1 .. new
        /\ DOMAIN file_locations' = DOMAIN file_locations \cup {new + 1}
        /\ \A i \in DOMAIN file_locations : file_locations'[i] = file_locations[i]
        /\ file_locations'[new + 1].resource_reference_count = Unsigned(1, ShortModulus)
    BY <1>1, <1>5, <2>0, AppendedLocation DEF FileLocation
  <2>2. pc = "add_file_location" /\ UseFileLocation(new)
    <3>1. LastIndex(Append(file_locations, pageable_location)) = new
      BY <1>1, <2>0, AppendedRow DEF TypeOK
    <3> QED BY <1>5, <3>1 DEF AppendFileLocation
  <2>3. Holders(new)' = {current}
    <3>1. Holders(new) = {}
      BY <1>1, <2>0, <2>2, NoHolderBeforeRow
    <3> QED BY <1>1, <2>2, <3>1, HolderAdded
  <2>4. ASSUME NEW i \in DOMAIN file_locations PROVE Holders(i - 1)' = Holders(i - 1)
    <3>1. i - 1 \in Nat /\ i - 1 # new
      BY <2>1, <2>4
    <3> QED BY <1>1, <2>2, <3>1, HolderAdded
  <2>5. (new + 1) - 1 = new
    BY <2>1
  <2>6. Cardinality({current}) = 1
    BY FS_Singleton
  <2>7. ReferenceCountsExact'
    <3>1. ASSUME NEW i \in DOMAIN file_locations'
          PROVE  file_locations'[i].resource_reference_count =
                   Unsigned(Cardinality(Holders(i - 1)'), ShortModulus)
      <4>1. CASE i \in DOMAIN file_locations
        BY <1>2, <2>1, <2>4, <4>1 DEF ReferenceCountsExact
      <4>2. CASE i = new + 1
        BY <2>1, <2>3, <2>5, <2>6, <4>2
      <4> QED BY <2>1, <4>1, <4>2
    <3> QED BY <3>1 DEF ReferenceCountsExact
  <2>8. BytesExclusive'
    <3>1. ASSUME NEW i \in DOMAIN file_locations', file_locations'[i].memory_size # 0,
                 NEW r \in Holders(i - 1)', NEW s \in Holders(i - 1)'
          PROVE  r = s
      <4>1. CASE i \in DOMAIN file_locations
        BY <1>2, <2>1, <2>4, <3>1, <4>1 DEF BytesExclusive
      <4>2. CASE i = new + 1
        BY <2>3, <2>5, <3>1, <4>2
      <4> QED BY <2>1, <4>1, <4>2
    <3> QED BY <3>1 DEF BytesExclusive
  <2> QED BY <2>7, <2>8
<1>6. CASE ReuseNullFileLocation
  <2>1. /\ pc = "add_file_location" /\ UseFileLocation(0)
        /\ ValidIndex(0, file_locations)
        /\ file_locations[1].memory_size = 0
        /\ file_locations' = CountReference(file_locations, 0)
        /\ file_locations \in Seq(FileLocation)
    BY <1>1, <1>6 DEF ReuseNullFileLocation, RowAt, TypeOK
  <2>2. /\ DOMAIN file_locations' = DOMAIN file_locations
        /\ \A i \in DOMAIN file_locations \ {1} : file_locations'[i] = file_locations[i]
        /\ 1 \in DOMAIN file_locations
        /\ file_locations'[1] =
             [file_locations[1] EXCEPT !.resource_reference_count =
                Unsigned(file_locations[1].resource_reference_count + 1, ShortModulus)]
    BY <2>1, CountReferenceRow
  <2>3. file_locations[1] \in FileLocation
    BY <2>1, <2>2
  <2>4. /\ file_locations'[1].memory_size = 0
        /\ file_locations'[1].resource_reference_count =
             Unsigned(file_locations[1].resource_reference_count + 1, ShortModulus)
    BY <2>1, <2>2, <2>3 DEF FileLocation
  <2>5. ASSUME NEW i \in DOMAIN file_locations \ {1}
        PROVE  /\ file_locations'[i] = file_locations[i]
               /\ Holders(i - 1)' = Holders(i - 1)
    <3>1. i - 1 \in Nat /\ i - 1 # 0
      BY <1>4, <2>1, <2>5
    <3> QED BY <1>1, <2>1, <2>2, <2>5, <3>1, HolderAdded
  <2>6. /\ Holders(0)' = Holders(0) \cup {current} /\ current \notin Holders(0)
    BY <1>1, <2>1, HolderAdded
  <2>7. Cardinality(Holders(0)') = Cardinality(Holders(0)) + 1
        /\ Cardinality(Holders(0)) \in Nat
    BY <2>6, HoldersFinite, FS_AddElement
  <2>8. file_locations[1].resource_reference_count =
          Unsigned(Cardinality(Holders(0)), ShortModulus)
    BY <1>2, <2>2 DEF ReferenceCountsExact
  <2>9. file_locations'[1].resource_reference_count =
          Unsigned(Cardinality(Holders(0)'), ShortModulus)
    BY <1>3, <2>4, <2>7, <2>8, CountModulo
  <2>10. ReferenceCountsExact'
    <3>1. ASSUME NEW i \in DOMAIN file_locations'
          PROVE  file_locations'[i].resource_reference_count =
                   Unsigned(Cardinality(Holders(i - 1)'), ShortModulus)
      <4>1. CASE i = 1
        BY <2>9, <4>1
      <4>2. CASE i # 1
        BY <1>2, <2>2, <2>5, <4>2, <3>1 DEF ReferenceCountsExact
      <4> QED BY <4>1, <4>2
    <3> QED BY <3>1 DEF ReferenceCountsExact
  <2>11. BytesExclusive'
    <3>1. ASSUME NEW i \in DOMAIN file_locations', file_locations'[i].memory_size # 0,
                 NEW r \in Holders(i - 1)', NEW s \in Holders(i - 1)'
          PROVE  r = s
      <4>1. i \in DOMAIN file_locations \ {1}
        BY <2>2, <2>4, <3>1
      <4> QED BY <1>2, <2>5, <3>1, <4>1 DEF BytesExclusive
    <3> QED BY <3>1 DEF BytesExclusive
  <2> QED BY <2>10, <2>11
<1>7. CASE ~AppendFileLocation /\ ~ReuseNullFileLocation
  <2>1. UNCHANGED file_locations
    BY <1>7
    DEF Next, vars, gestalt, BeginCall, BeginCallAsserts, Abort, Finished, CallStep,
        DescribeFails, FindCachedSharedFile, AppendSharedFile, FindOwnSharedFile,
        UseSharedFile, SharedFileAsserts, FindCodecDefinition, AppendCodecDefinition,
        UseCodecDefinition, CodecDefinitionAsserts, NotStreamed, DropEmptyStreamingTable,
        AppendStreamingTable, UseStreamingTable, StreamingTableAsserts, TableIndexAsserts,
        FileLocationAsserts, AssignLocation, AssignLocationAsserts
  <2>2. \A i \in DOMAIN file_locations : Holders(i - 1)' = Holders(i - 1)
    BY <1>1, <1>4, <1>7, HoldersKept
  <2> QED BY <1>2, <2>1, <2>2 DEF ReferenceCountsExact, BytesExclusive
<1> QED BY <1>5, <1>6, <1>7

\* At first nobody holds a location, and none counts a holder.
LEMMA InitHolderInvariant == Init => HolderInvariant
<1> SUFFICES ASSUME Init PROVE HolderInvariant
  OBVIOUS
<1>1. IndexInvariant
  BY InitIndexInvariant
<1>2. pageable_location.resource_reference_count = 0
  BY DEF Init, NullFileLocation
<1>3. /\ \A i \in DOMAIN file_locations : file_locations[i].resource_reference_count = 0
      /\ \A i \in DOMAIN file_locations : i = 1
  <2>1. CASE file_locations = << >>
    BY <2>1
  <2>2. CASE file_locations = <<NullFileLocation>>
    BY <2>2 DEF NullFileLocation
  <2> QED BY <2>1, <2>2 DEF Init
<1>4. Holders(0) = {}
  BY DEF Init, Holders, NONE
<1>5. Cardinality(Holders(0)) = 0 /\ Unsigned(0, ShortModulus) = 0
  BY <1>4, FS_EmptySet, CapacitiesAssumption DEF Unsigned
<1>6. ReferenceCountsExact
  BY <1>3, <1>5 DEF ReferenceCountsExact
<1>7. BytesExclusive
  BY <1>3, <1>4 DEF BytesExclusive
<1> QED BY <1>1, <1>2, <1>6, <1>7 DEF HolderInvariant

\* Every count is the number of holders, for every constant that meets the
\* assumptions.
THEOREM ReferenceCountsStayExact == Spec => []ReferenceCountsExact
<1>1. HolderInvariant => ReferenceCountsExact
  BY DEF HolderInvariant
<1> QED BY <1>1, InitHolderInvariant, NextHolderInvariant, PTL DEF Spec

\* No two resources share bytes, and no two locations a table, for every constant
\* that meets the assumptions.
THEOREM LocationsStayExclusive == Spec => []LocationsExclusive
<1>1. TableInvariant /\ HolderInvariant => LocationsExclusive
  BY DEF TableInvariant, HolderInvariant, LocationsExclusive, TablesExclusive, BytesExclusive
<1> QED
  BY <1>1, InitTableInvariant, NextTableInvariant, InitHolderInvariant, NextHolderInvariant, PTL
  DEF Spec

-------------------------------------------------------------------------------
(* What a reader finds.                                                      *)

\* The library operators of the promise are those of the code's specification.
LEMMA SameOperators ==
  /\ \A S : Promise!Cardinality(S) = Cardinality(S)
  /\ \A rows : Promise!Bytes(rows) = SumOfSizes(rows)
<1>1. \A S : Promise!Cardinality(S) = Cardinality(S)
  BY DEF Cardinality, Promise!Cardinality
<1>2. \A rows : Promise!Bytes(rows) = SumOfSizes(rows)
  BY DEF Promise!Bytes, SumOfSizes, FoldLeft, Promise!FoldLeft, MapThenFoldSet,
      Promise!MapThenFoldSet, Max, Promise!Max
<1> QED BY <1>1, <1>2

\* Sorting keeps each row as often as it was emitted, so that what is stored is
\* one of the orders the promise admits.
LEMMA SortedIsOrdered ==
  ASSUME NEW rows \in Seq(StreamingSublocation), NEW sorted \in SortedSublocations(rows)
  PROVE  sorted \in Promise!Ordered(rows)
<1>1. PICK p \in Bijection(DOMAIN rows, DOMAIN rows) : sorted = [i \in DOMAIN rows |-> rows[p[i]]]
  BY DEF SortedSublocations
<1>2. /\ p \in [DOMAIN rows -> DOMAIN rows]
      /\ \A i, j \in DOMAIN rows : p[i] = p[j] => i = j
      /\ \A j \in DOMAIN rows : \E i \in DOMAIN rows : p[i] = j
  BY DEF Bijection, Injection, Surjection, IsInjective
<1>3. sorted \in [DOMAIN rows -> Promise!ToSet(rows)]
  BY <1>1, <1>2 DEF Promise!ToSet
<1>4. \A i, j \in DOMAIN sorted : i < j => sorted[i].memory_offset <= sorted[j].memory_offset
  BY SortedSublocationsOrdered
<1>5. ASSUME NEW row \in Promise!ToSet(rows)
      PROVE  Cardinality({i \in DOMAIN sorted : sorted[i] = row}) =
             Cardinality({i \in DOMAIN rows : rows[i] = row})
  <2> DEFINE S == {i \in DOMAIN rows : rows[p[i]] = row}
             T == {i \in DOMAIN rows : rows[i] = row}
             f == [i \in S |-> p[i]]
  <2>1. /\ {i \in DOMAIN sorted : sorted[i] = row} = S
        /\ {i \in DOMAIN rows : rows[i] = row} = T
    BY <1>1, <1>2
  <2>2. f \in [S -> T]
    BY <1>2
  <2>3. \A i, j \in S : f[i] = f[j] => i = j
    BY <1>2
  <2>4. \A j \in T : \E i \in S : f[i] = j
    BY <1>2
  <2>5. f \in Bijection(S, T)
    <3> HIDE DEF S, T, f
    <3> QED BY <2>2, <2>3, <2>4 DEF Bijection, Injection, Surjection, IsInjective
  <2>6. IsFiniteSet(S)
    <3>1. DOMAIN rows = 1 .. Len(rows) /\ Len(rows) \in Nat
      OBVIOUS
    <3>2. IsFiniteSet(DOMAIN rows) /\ S \subseteq DOMAIN rows
      BY <3>1, FS_Interval
    <3> QED BY <3>2, FS_Subset
  <2>7. Cardinality(T) = Cardinality(S)
    <3> HIDE DEF S, T, f
    <3> QED BY <2>5, <2>6, FS_Bijection DEF ExistsBijection
  <2> HIDE DEF S, T
  <2> QED BY <2>1, <2>7
<1> QED BY <1>3, <1>4, <1>5, SameOperators DEF Promise!Ordered

\* What a reader finds through a row does not depend on how often it is counted.
LEMMA ReadWithoutCount ==
  ASSUME NEW row \in FileLocation, NEW count, NEW has_pages
  PROVE  ReadFrom([row EXCEPT !.resource_reference_count = count], has_pages) =
         ReadFrom(row, has_pages)
BY DEF FileLocation, ReadFrom, PathOf, CodecOf, TableOf

\* Nor on the rows that are added later to the tables it names.
LEMMA ReadFromKept ==
  ASSUME IndexInvariant, [Next]_vars, NEW row, NamesRows(row), NEW has_pages
  PROVE  /\ PathOf(row)' = PathOf(row)
         /\ CodecOf(row)' = CodecOf(row)
         /\ ReadFrom(row, has_pages)' = ReadFrom(row, has_pages)
<1>1. TypeOK /\ TypeOK'
  BY NextTypeOK DEF IndexInvariant
<1>2. /\ RowsStay(shared_files)
      /\ RowsStay(codec_definitions)
      /\ RowsStay(streaming_sublocation_tables)
  BY <1>1, StepKeepsRows
<1>3. \A index : ValidIndex(index, shared_files) =>
        RowAt(shared_files', index) = RowAt(shared_files, index)
  <2>1. /\ shared_files \in Seq(SharedFileRow) /\ shared_files' \in Seq(SharedFileRow)
        /\ \A i \in DOMAIN shared_files :
             i \in DOMAIN shared_files' /\ shared_files'[i] = shared_files[i]
    BY <1>1, <1>2 DEF RowsStay, TypeOK
  <2> QED BY <2>1, LongerTable
<1>4. \A index : ValidIndex(index, codec_definitions) =>
        RowAt(codec_definitions', index) = RowAt(codec_definitions, index)
  <2>1. /\ codec_definitions \in Seq(Codecs) /\ codec_definitions' \in Seq(Codecs)
        /\ \A i \in DOMAIN codec_definitions :
             i \in DOMAIN codec_definitions' /\ codec_definitions'[i] = codec_definitions[i]
    BY <1>1, <1>2 DEF RowsStay, TypeOK
  <2> QED BY <2>1, LongerTable
<1>5. \A index : ValidIndex(index, streaming_sublocation_tables) =>
        RowAt(streaming_sublocation_tables', index) = RowAt(streaming_sublocation_tables, index)
  <2>1. /\ streaming_sublocation_tables \in Seq(StreamingTable)
        /\ streaming_sublocation_tables' \in Seq(StreamingTable)
        /\ \A i \in DOMAIN streaming_sublocation_tables :
             /\ i \in DOMAIN streaming_sublocation_tables'
             /\ streaming_sublocation_tables'[i] = streaming_sublocation_tables[i]
    BY <1>1, <1>2 DEF RowsStay, TypeOK
  <2> QED BY <2>1, LongerTable
<1>6. /\ PathOf(row)' = PathOf(row)
      /\ CodecOf(row)' = CodecOf(row)
      /\ TableOf(row)' = TableOf(row)
  BY <1>3, <1>4, <1>5 DEF NamesRows, NoneOrValid, PathOf, CodecOf, TableOf
<1> QED BY <1>6 DEF ReadFrom

-------------------------------------------------------------------------------
(* What a call has made of its promise.                                      *)

\* No table is ever lost for want of an index.
TablesShort == pc # "aborted" => 2 * Len(streaming_sublocation_tables) <= ShortModulus

\* The flag of a resource is touched only by the streaming table of its own call.
FlagsPending ==
  \A r \in Resources :
    result[r] = "pending" =>
      \/ has_pageable_data[r] = answers[r].any_pageable_data
      \/ r = current /\ pc \in {"add_file_location", "assign_location", "aborted"}

\* What the local says at each operation, and at last the row, is what the datum
\* handler answered.
CallPromise ==
  /\ pc \in {"describe", "codec_definition", "streaming_sublocations"} => answer.any_pageable_data
  /\ pc \in {"codec_definition", "streaming_sublocations", "add_file_location", "assign_location"}
       => (answer.any_pageable_data => answer.describes)
  /\ pc \in {"idle", "describe"} => pageable_location.memory_size = 0
  /\ pc \in {"codec_definition", "streaming_sublocations"} =>
       /\ pageable_location.memory_size = answer.memory_size
       /\ PathOf(pageable_location) = IoConfig[answer.file_index].path
  /\ pc = "streaming_sublocations" =>
       /\ pageable_location.checksums_valid = answer.has_checksum
       /\ CodecOf(pageable_location) = answer.codec
  /\ pc = "add_file_location" =>
       ReadFrom(pageable_location, has_pageable_data[current]) \in Promise!Promised(answer)
  /\ pc = "assign_location" =>
       ReadFrom(RowAt(file_locations, pageable_location_index), has_pageable_data[current])
         \in Promise!Promised(answer)

\* That a step keeps the promise needs the state of the call before it: a location
\* is assigned at the end of a call, from what its operations stored one by one.
PromiseInvariant ==
  /\ IndexInvariant
  /\ SharedFileCacheCoherent
  /\ TablesShort
  /\ FlagsPending
  /\ CallPromise

\* A table whose index the caller accepts is named by that index.
LEMMA AcceptedTableIndex ==
  ASSUME TypeOK, TablesShort, NEW tables \in WithFilledTable, pc = "streaming_sublocations",
         CallerAccepts(tables)
  PROVE  /\ CallersTableIndex(tables) = Len(streaming_sublocation_tables)
         /\ CallersTableIndex(tables) # NONE
         /\ 2 * Len(tables) <= ShortModulus
<1>1. PICK table \in StreamingTable : tables = Append(streaming_sublocation_tables, table)
  BY FilledTableType DEF TypeOK
<1>2. Len(tables) = Len(streaming_sublocation_tables) + 1
      /\ Len(streaming_sublocation_tables) \in Nat
  BY <1>1 DEF TypeOK
<1>3. PICK half \in Nat : ShortModulus = 2 * half /\ half > 1
  BY ShortsAssumption, CapacitiesAssumption
<1>4. Len(streaming_sublocation_tables) <= half
  BY <1>2, <1>3 DEF TablesShort
<1>5. TableIndex(tables) = Len(streaming_sublocation_tables)
  BY <1>2, <1>3, <1>4 DEF TableIndex, LastIndex, Unsigned
<1>6. CallersTableIndex(tables) =
        IF Len(streaming_sublocation_tables) < half
        THEN Len(streaming_sublocation_tables) ELSE -half
  BY <1>2, <1>3, <1>4, <1>5 DEF CallersTableIndex, Signed
<1>7. Len(streaming_sublocation_tables) < half
  BY <1>2, <1>3, <1>4, <1>6 DEF CallerAccepts, ValidIndex, NONE
<1> QED BY <1>2, <1>3, <1>6, <1>7 DEF NONE

\* There are at most as many tables as indexes for them.
LEMMA NextTablesShort == TypeOK /\ TablesShort /\ [Next]_vars => TablesShort'
<1> SUFFICES ASSUME TypeOK, TablesShort, [Next]_vars PROVE TablesShort'
  OBVIOUS
<1>1. CASE AppendStreamingTable
  <2>1. PICK tables \in WithFilledTable :
          CallerAccepts(tables) /\ streaming_sublocation_tables' = tables
    BY <1>1 DEF AppendStreamingTable
  <2>2. pc = "streaming_sublocations"
    BY <1>1 DEF AppendStreamingTable, NewFilledTableAsked, NewTableAsked
  <2> QED BY <2>1, <2>2, AcceptedTableIndex DEF TablesShort
<1>2. CASE DropEmptyStreamingTable
  <2>1. pc # "aborted"
    BY <1>2 DEF DropEmptyStreamingTable, NewTableAsked
  <2> QED BY <1>2, <2>1, DropChangesNoTable DEF TablesShort
<1>3. CASE TableIndexAsserts
  BY <1>3 DEF TableIndexAsserts, TablesShort
<1>4. ASSUME streaming_sublocation_tables' = streaming_sublocation_tables,
             pc = "aborted" => pc' = "aborted"
      PROVE  TablesShort'
  BY <1>4 DEF TablesShort
<1> QED
  BY <1>1, <1>2, <1>3, <1>4
  DEF Next, vars, gestalt, BeginCall, BeginCallAsserts, Abort, Finished, CallStep, DescribeFails,
      FindCachedSharedFile, AppendSharedFile, FindOwnSharedFile, SharedFileAsserts,
      NewSharedFileAsked, UseSharedFile, FindCodecDefinition, AppendCodecDefinition,
      CodecDefinitionAsserts, NewCodecAsked, UseCodecDefinition, NotStreamed,
      StreamingTableAsserts, AppendFileLocation, ReuseNullFileLocation, FileLocationAsserts,
      UseFileLocation, AssignLocation, AssignLocationAsserts

\* Only a streaming table changes a flag, and only that of the resource asked about.
LEMMA FlagsKept ==
  ASSUME TypeOK, [Next]_vars
  PROVE  /\ answers' = answers
         /\ has_pageable_data' = has_pageable_data \/ AppendStreamingTable
         /\ \A r \in Resources : r # current => has_pageable_data'[r] = has_pageable_data[r]
<1>1. CASE AppendStreamingTable
  BY <1>1 DEF AppendStreamingTable, UseStreamingTable, TypeOK
<1>2. CASE ~AppendStreamingTable
  <2>1. answers' = answers /\ has_pageable_data' = has_pageable_data
    BY <1>2
    DEF Next, vars, gestalt, BeginCall, BeginCallAsserts, Abort, Finished, CallStep, DescribeFails,
        FindCachedSharedFile, AppendSharedFile, FindOwnSharedFile, SharedFileAsserts,
        NewSharedFileAsked, UseSharedFile, FindCodecDefinition, AppendCodecDefinition,
        CodecDefinitionAsserts, NewCodecAsked, UseCodecDefinition, UseStreamingTable, NotStreamed,
        DropEmptyStreamingTable, TableIndexAsserts, StreamingTableAsserts, AppendFileLocation,
        ReuseNullFileLocation, FileLocationAsserts, UseFileLocation, AssignLocation,
        AssignLocationAsserts
  <2> QED BY <2>1
<1> QED BY <1>1, <1>2

\* The resource asked about keeps its flag until its streaming table is made.
LEMMA NextFlagsPending == TypeOK /\ FlagsPending /\ [Next]_vars => FlagsPending'
<1> SUFFICES ASSUME TypeOK, FlagsPending, [Next]_vars, NEW r \in Resources,
                    result'[r] = "pending"
             PROVE  \/ has_pageable_data'[r] = answers'[r].any_pageable_data
                    \/ r = current' /\ pc' \in {"add_file_location", "assign_location", "aborted"}
  BY DEF FlagsPending
<1>1. result[r] = "pending"
  BY StepKeepsRows DEF AssignmentsStay
<1>2. CASE r # current
  BY <1>1, <1>2, FlagsKept DEF FlagsPending
<1>3. CASE r = current
  <2>1. current # NoResource /\ pc # "idle"
    BY <1>3, ResourcesAssumption DEF TypeOK
  <2>2. CASE DescribeFails \/ AssignLocation
    BY <1>3, <2>2 DEF DescribeFails, AssignLocation, Return, TypeOK
  <2>3. \/ UNCHANGED vars
        \/ DescribeFails \/ AssignLocation
        \/ /\ current' = current
           /\ pc' \in {"add_file_location", "assign_location", "aborted"}
        \/ /\ has_pageable_data' = has_pageable_data
           /\ pc \in {"describe", "codec_definition"}
    BY <2>1
    DEF Next, vars, gestalt, locals, BeginCall, BeginCallAsserts, Abort, Finished, CallStep,
        FindCachedSharedFile, AppendSharedFile, FindOwnSharedFile, SharedFileAsserts,
        NewSharedFileAsked, UseSharedFile, FindCodecDefinition, AppendCodecDefinition,
        CodecDefinitionAsserts, NewCodecAsked, UseCodecDefinition, UseStreamingTable, NotStreamed,
        DropEmptyStreamingTable, AppendStreamingTable, TableIndexAsserts, StreamingTableAsserts,
        AppendFileLocation, ReuseNullFileLocation, FileLocationAsserts, UseFileLocation,
        AssignLocationAsserts
  <2>4. answers' = answers
    BY FlagsKept
  <2>5. CASE UNCHANGED vars
    BY <1>1, <2>5 DEF vars, gestalt, locals, FlagsPending
  <2> QED BY <1>1, <1>3, <2>2, <2>3, <2>4, <2>5 DEF FlagsPending
<1> QED BY <1>2, <1>3

-------------------------------------------------------------------------------
(* What each operation of a call adds to the promise.                        *)

\* The index get_or_create_shared_file_index answers leads a reader to the path.
LEMMA SharedFileNamed ==
  ASSUME IndexInvariant, [Next]_vars, NEW index, NEW path, UseSharedFile(index),
         NoneOrValid(index, shared_files'),
         index = NONE => path = OwnPath,
         index # NONE => RowAt(shared_files', index).file_name = path
  PROVE  /\ pageable_location'.memory_size = answer.memory_size
         /\ PathOf(pageable_location)' = path
<1>1. TypeOK /\ IndexInvariant'
  BY NextIndexInvariant DEF IndexInvariant
<1>2. Signed(index, ShortModulus) = index
  BY <1>1, NarrowedIndex, CapacitiesAssumption DEF IndexInvariant, TypeOK
<1>3. /\ pageable_location'.memory_size = answer.memory_size
      /\ pageable_location'.shared_file_index = index
  BY <1>1, <1>2 DEF UseSharedFile, TypeOK, FileLocation
<1> QED BY <1>3 DEF PathOf

\* A file asked for before, a file that gets a row, and the map's own file.
LEMMA SharedFilePromised ==
  ASSUME IndexInvariant, SharedFileCacheCoherent, [Next]_vars,
         FindCachedSharedFile \/ AppendSharedFile \/ FindOwnSharedFile
  PROVE  /\ pageable_location'.memory_size = answer.memory_size
         /\ PathOf(pageable_location)' = IoConfig[answer.file_index].path
<1>1. TypeOK /\ IndexesResolve /\ current \in Resources /\ answer \in Answer
  <2>1. CallStep
    BY DEF CallStep
  <2> QED BY <2>1, CallInProgress DEF IndexInvariant
<1>2. answer.file_index \in Files
  BY <1>1 DEF Answer
<1>3. PICK path : path = IoConfig[answer.file_index].path
  OBVIOUS
<1>4. CASE FindCachedSharedFile
  <2>1. PICK index : index = m_shared_file_index_cache[answer.file_index]
    OBVIOUS
  <2>2. /\ UseSharedFile(index)
        /\ shared_files' = shared_files
        /\ answer.file_index \in DOMAIN m_shared_file_index_cache
    BY <1>4, <2>1 DEF FindCachedSharedFile
  <2>3. NoneOrValid(index, shared_files')
    BY <1>1, <2>1, <2>2 DEF IndexesResolve
  <2>4. CASE path = OwnPath
    <3>1. index = FirstSharedFile(OwnPath)
      BY <1>3, <2>1, <2>2, <2>4 DEF SharedFileCacheCoherent
    <3>2. index # NONE => RowAt(shared_files', index).file_name = path
      BY <1>1, <2>2, <2>4, <3>1, FirstSharedFileFound DEF TypeOK
    <3> QED BY <1>3, <2>2, <2>3, <2>4, <3>2, SharedFileNamed
  <2>5. CASE path # OwnPath
    <3>1. /\ ValidIndex(index, shared_files)
          /\ RowAt(shared_files, index).file_name = path
      BY <1>3, <2>1, <2>2, <2>5 DEF SharedFileCacheCoherent, SharedFile
    <3>2. index # NONE
      BY <3>1 DEF ValidIndex, NONE
    <3> QED BY <1>3, <2>2, <2>3, <3>1, <3>2, SharedFileNamed
  <2> QED BY <2>4, <2>5
<1>5. CASE AppendSharedFile
  <2>1. PICK index : index = Len(shared_files)
    OBVIOUS
  <2>2. PICK row \in SharedFileRow : row = SharedFile(path, IoConfig[answer.file_index].io_offset)
    BY <1>2, <1>3, SharedFileType
  <2>3. /\ shared_files' = Append(shared_files, row)
        /\ UseSharedFile(LastIndex(shared_files'))
    BY <1>3, <1>5, <2>2 DEF AppendSharedFile
  <2>4. /\ LastIndex(shared_files') = index
        /\ ValidIndex(index, shared_files')
        /\ RowAt(shared_files', index) = row
    BY <1>1, <2>1, <2>3, AppendedRow DEF TypeOK
  <2>5. index # NONE /\ NoneOrValid(index, shared_files')
    BY <2>4 DEF ValidIndex, NONE, NoneOrValid
  <2>6. RowAt(shared_files', index).file_name = path
    BY <2>2, <2>4 DEF SharedFile
  <2>7. /\ pageable_location'.memory_size = answer.memory_size
        /\ PathOf(pageable_location)' = path
    BY <2>3, <2>4, <2>5, <2>6, SharedFileNamed
  <2> QED BY <1>3, <2>7
<1>6. CASE FindOwnSharedFile
  <2>1. PICK index : index = FirstSharedFile(path)
    OBVIOUS
  <2>2. /\ UseSharedFile(index)
        /\ path = OwnPath
        /\ shared_files' = shared_files
    BY <1>3, <1>6, <2>1 DEF FindOwnSharedFile
  <2>3. /\ NoneOrValid(index, shared_files')
        /\ index # NONE => RowAt(shared_files', index).file_name = path
    BY <1>1, <2>1, <2>2, FirstSharedFileFound DEF TypeOK
  <2> QED BY <1>3, <2>2, <2>3, SharedFileNamed
<1> QED BY <1>4, <1>5, <1>6

\* The index get_or_create_codec_definition_index answers leads to the codec, and
\* what the call knew of the location already is kept.
LEMMA CodecNamed ==
  ASSUME IndexInvariant, [Next]_vars, NEW index, UseCodecDefinition(index),
         NoneOrValid(index, codec_definitions'),
         index = NONE => answer.codec = NoCodec,
         index # NONE => RowAt(codec_definitions', index) = answer.codec
  PROVE  /\ pageable_location'.memory_size = pageable_location.memory_size
         /\ pageable_location'.checksums_valid = answer.has_checksum
         /\ PathOf(pageable_location)' = PathOf(pageable_location)
         /\ CodecOf(pageable_location)' = answer.codec
<1>1. TypeOK /\ IndexInvariant' /\ shared_files' = shared_files
  BY NextIndexInvariant DEF IndexInvariant, UseCodecDefinition
<1>2. Signed(index, CharModulus) = index
  BY <1>1, NarrowedIndex, CapacitiesAssumption DEF IndexInvariant, TypeOK
<1>3. /\ pageable_location'.memory_size = pageable_location.memory_size
      /\ pageable_location'.shared_file_index = pageable_location.shared_file_index
      /\ pageable_location'.checksums_valid = answer.has_checksum
      /\ pageable_location'.codec_index = index
  BY <1>1, <1>2 DEF UseCodecDefinition, TypeOK, FileLocation
<1> QED BY <1>1, <1>3 DEF PathOf, CodecOf

\* No codec, one that has a row, and one that gets one.
LEMMA CodecPromised ==
  ASSUME IndexInvariant, [Next]_vars, FindCodecDefinition \/ AppendCodecDefinition
  PROVE  /\ pageable_location'.memory_size = pageable_location.memory_size
         /\ pageable_location'.checksums_valid = answer.has_checksum
         /\ PathOf(pageable_location)' = PathOf(pageable_location)
         /\ CodecOf(pageable_location)' = answer.codec
<1>1. TypeOK /\ answer \in Answer
  <2>1. CallStep
    BY DEF CallStep
  <2> QED BY <2>1, CallInProgress DEF IndexInvariant
<1>2. CASE FindCodecDefinition
  <2>1. codec_definitions' = codec_definitions
    BY <1>2 DEF FindCodecDefinition
  <2>2. CASE answer.codec = NoCodec /\ UseCodecDefinition(NONE)
    <3>1. NoneOrValid(NONE, codec_definitions')
      BY DEF NoneOrValid
    <3> QED BY <2>2, <3>1, CodecNamed
  <2>3. CASE /\ FirstCodecDefinition(answer.codec) # NONE
             /\ UseCodecDefinition(FirstCodecDefinition(answer.codec))
    <3>1. PICK index : index = FirstCodecDefinition(answer.codec)
      OBVIOUS
    <3>2. /\ NoneOrValid(index, codec_definitions)
          /\ RowAt(codec_definitions, index) = answer.codec
      BY <1>1, <2>3, <3>1, FirstCodecDefinitionFound DEF TypeOK
    <3> QED BY <2>1, <2>3, <3>1, <3>2, CodecNamed
  <2> QED BY <1>2, <2>2, <2>3 DEF FindCodecDefinition
<1>3. CASE AppendCodecDefinition
  <2>1. PICK index : index = Len(codec_definitions)
    OBVIOUS
  <2>2. PICK codec \in Codecs : codec = answer.codec
    BY <1>1, <1>3 DEF AppendCodecDefinition, NewCodecAsked, Answer
  <2>3. /\ codec_definitions' = Append(codec_definitions, codec)
        /\ UseCodecDefinition(LastIndex(codec_definitions'))
    BY <1>3, <2>2 DEF AppendCodecDefinition
  <2>4. /\ LastIndex(codec_definitions') = index
        /\ ValidIndex(index, codec_definitions')
        /\ RowAt(codec_definitions', index) = codec
    BY <1>1, <2>1, <2>3, AppendedRow DEF TypeOK
  <2>5. index # NONE /\ NoneOrValid(index, codec_definitions')
    BY <2>4 DEF ValidIndex, NONE, NoneOrValid
  <2> QED BY <2>2, <2>3, <2>4, <2>5, CodecNamed
<1> QED BY <1>2, <1>3

\* The location a call has built once it knows what is streamed is one of those
\* promised: it has its path, codec and size from the operations before.
LEMMA StreamedPromised ==
  ASSUME IndexInvariant, CallPromise, pc = "streaming_sublocations", [Next]_vars,
         NEW index, UseStreamingTable(index), current \in Resources,
         NEW parts \in Promise!StreamedParts(answer), NEW table,
         TableOf(pageable_location)' = table,
         table.stream_locations = parts.sublocations,
         table.total_memory_size = parts.bytes,
         has_pageable_data'[current] = Promise!HasPages(answer, parts)
  PROVE  ReadFrom(pageable_location, has_pageable_data[current])' \in Promise!Promised(answer)
<1>1. /\ pageable_location \in FileLocation /\ pageable_location' \in FileLocation
      /\ current' = current
      /\ shared_files' = shared_files
      /\ codec_definitions' = codec_definitions
  BY NextTypeOK DEF IndexInvariant, TypeOK, UseStreamingTable
<1>2. /\ answer.any_pageable_data
      /\ pageable_location.memory_size = answer.memory_size
      /\ pageable_location.checksums_valid = answer.has_checksum
      /\ PathOf(pageable_location) = IoConfig[answer.file_index].path
      /\ CodecOf(pageable_location) = answer.codec
  BY DEF CallPromise
<1>3. /\ pageable_location'.memory_size = pageable_location.memory_size
      /\ pageable_location'.checksums_valid = pageable_location.checksums_valid
      /\ pageable_location'.shared_file_index = pageable_location.shared_file_index
      /\ pageable_location'.codec_index = pageable_location.codec_index
  BY <1>1 DEF UseStreamingTable, FileLocation
<1>4. /\ PathOf(pageable_location)' = PathOf(pageable_location)
      /\ CodecOf(pageable_location)' = CodecOf(pageable_location)
  BY <1>1, <1>3 DEF PathOf, CodecOf
<1>5. CASE answer.memory_size = 0
  <2>1. ReadFrom(pageable_location, has_pageable_data[current])' =
          Promise!NullLocation(answer, parts)
    BY <1>1, <1>2, <1>3, <1>5 DEF ReadFrom, Promise!NullLocation
  <2> QED BY <1>5, <2>1 DEF Promise!Promised
<1>6. CASE answer.memory_size # 0
  <2>1. ReadFrom(pageable_location, has_pageable_data[current])' =
          Promise!PagedLocation(answer, parts)
    BY <1>1, <1>2, <1>3, <1>4, <1>6 DEF ReadFrom, Promise!PagedLocation
  <2> QED BY <1>2, <1>6, <2>1 DEF Promise!Promised
<1> QED BY <1>5, <1>6

\* Nothing to stream, nothing emitted, and a table of its own.
LEMMA StreamingPromised ==
  ASSUME IndexInvariant, TablesShort, FlagsPending, CallPromise, [Next]_vars,
         NotStreamed \/ DropEmptyStreamingTable \/ AppendStreamingTable
  PROVE  ReadFrom(pageable_location, has_pageable_data[current])' \in Promise!Promised(answer)
<1>1. TypeOK /\ TypeOK' /\ current \in Resources /\ answer \in Answers /\ answer \in Answer
  <2>1. CallStep
    BY DEF CallStep
  <2>2. TypeOK /\ current \in Resources
    BY <2>1, CallInProgress DEF IndexInvariant
  <2> QED BY <2>2, AnswersAssumption, NextTypeOK DEF TypeOK, answer
<1>2. pc = "streaming_sublocations"
  BY DEF NotStreamed, DropEmptyStreamingTable, AppendStreamingTable, NewFilledTableAsked,
     NewTableAsked
<1>3. answer.any_pageable_data /\ has_pageable_data[current] = TRUE
  <2>1. answer.any_pageable_data
    BY <1>2 DEF CallPromise
  <2>2. has_pageable_data[current] = answers[current].any_pageable_data
    BY <1>1, <1>2 DEF FlagsPending, TypeOK
  <2>3. answers[current].any_pageable_data \in BOOLEAN
    BY <1>1 DEF answer, Answer
  <2> QED BY <2>1, <2>2, <2>3 DEF answer
<1>4. CASE NotStreamed \/ DropEmptyStreamingTable
  <2>1. /\ ~Promise!Streams(answer)
        /\ UseStreamingTable(NoStreamingTable)
        /\ has_pageable_data' = has_pageable_data
    BY <1>4 DEF NotStreamed, DropEmptyStreamingTable, Promise!Streams
  <2>2. PICK index : index = NoStreamingTable
    OBVIOUS
  <2>3. Signed(index, ShortModulus) = NONE
    BY <2>2, NoneSurvivesBothCasts, CapacitiesAssumption DEF NoStreamingTable
  <2>4. pageable_location'.streaming_sublocation_table_index = NONE
    BY <1>1, <2>1, <2>2, <2>3 DEF UseStreamingTable, TypeOK, FileLocation
  <2> DEFINE parts == [sublocations |-> << >>, bytes |-> 0]
  <2>5. TableOf(pageable_location)' = SublocationTable(<< >>, 0)
    BY <2>4 DEF TableOf
  <2>6. parts \in Promise!StreamedParts(answer)
    BY <2>1 DEF Promise!StreamedParts
  <2>7. has_pageable_data'[current] = Promise!HasPages(answer, parts)
    BY <1>3, <2>1 DEF Promise!HasPages
  <2>8. /\ SublocationTable(<< >>, 0).stream_locations = parts.sublocations
        /\ SublocationTable(<< >>, 0).total_memory_size = parts.bytes
    BY DEF SublocationTable
  <2> HIDE DEF parts
  <2> QED BY <1>1, <1>2, <2>1, <2>2, <2>5, <2>6, <2>7, <2>8, StreamedPromised
<1>5. CASE AppendStreamingTable
  <2>1. PICK tables \in WithFilledTable :
          /\ CallerAccepts(tables)
          /\ streaming_sublocation_tables' = tables
          /\ has_pageable_data' =
               [has_pageable_data EXCEPT ![current] = @ /\ ~TableHasNoBytes(tables)]
          /\ UseStreamingTable(TableIndex(tables))
    BY <1>5 DEF AppendStreamingTable
  <2>2. PICK sorted \in SortedSublocations(answer.sublocations) :
          tables = Append(streaming_sublocation_tables,
                          SublocationTable(sorted, TotalMemorySize(sorted)))
    BY <2>1 DEF WithFilledTable
  <2> DEFINE table == SublocationTable(sorted, TotalMemorySize(sorted))
             parts == [sublocations |-> sorted, bytes |-> TotalMemorySize(sorted)]
  <2>3. answer.sublocations \in Seq(StreamingSublocation) /\ answer.sublocations # << >>
    BY <1>1, <1>5 DEF Answer, AppendStreamingTable, NewFilledTableAsked
  <2>4. Promise!Streams(answer)
    BY <1>3, <1>5, <2>3
    DEF AppendStreamingTable, NewFilledTableAsked, NewTableAsked, Promise!Streams
  <2>5. sorted \in Promise!Ordered(answer.sublocations)
    BY <2>3, SortedIsOrdered
  <2>6. TotalMemorySize(sorted) = Promise!Bytes(sorted)
    <3>1. sorted \in Seq(StreamingSublocation)
      BY <2>3, SortedSublocationsOrdered
    <3>2. SumOfSizes(sorted) \in 0 .. LongModulus - 1
      BY <1>1, <3>1, TotalIsRemainder, SizesDoNotWrap, CapacitiesAssumption
    <3>3. Unsigned(SumOfSizes(sorted), LongModulus) = SumOfSizes(sorted)
      BY <3>2, CapacitiesAssumption, SMT DEF Unsigned
    <3> QED BY <3>1, <3>3, TotalIsRemainder, SameOperators
  <2>7. parts \in Promise!StreamedParts(answer)
    BY <2>4, <2>5, <2>6 DEF Promise!StreamedParts
  <2>8. table \in StreamingTable
    <3>1. /\ sorted \in Seq(StreamingSublocation)
          /\ TotalMemorySize(sorted) \in 0 .. LongModulus - 1
      BY <2>3, SortedSublocationsOrdered, TotalIsRemainder
    <3> QED BY <3>1 DEF SublocationTable, StreamingTable
  <2>9. /\ CallersTableIndex(tables) = Len(streaming_sublocation_tables)
        /\ CallersTableIndex(tables) # NONE
    BY <1>1, <1>2, <2>1, AcceptedTableIndex
  <2>10. RowAt(tables, CallersTableIndex(tables)) = table
    <3>1. streaming_sublocation_tables \in Seq(StreamingTable)
      BY <1>1 DEF TypeOK
    <3> HIDE DEF table
    <3>2. /\ LastIndex(tables) = Len(streaming_sublocation_tables)
          /\ RowAt(tables, LastIndex(tables)) = table
      BY <2>2, <2>8, <3>1, AppendedRow DEF table
    <3> QED BY <2>9, <3>2
  <2>11. pageable_location'.streaming_sublocation_table_index = CallersTableIndex(tables)
    BY <1>1, <2>1 DEF UseStreamingTable, CallersTableIndex, TypeOK, FileLocation
  <2>12. TableOf(pageable_location)' = table
    BY <2>1, <2>9, <2>10, <2>11 DEF TableOf
  <2>13. /\ table.stream_locations = parts.sublocations
         /\ table.total_memory_size = parts.bytes
    BY DEF SublocationTable
  <2>14. has_pageable_data'[current] = Promise!HasPages(answer, parts)
    <3>1. TableHasNoBytes(tables) <=> table.total_memory_size = 0
      BY <2>9, <2>10 DEF TableHasNoBytes
    <3>2. has_pageable_data'[current] = (has_pageable_data[current] /\ ~TableHasNoBytes(tables))
      BY <1>1, <2>1 DEF TypeOK
    <3>3. Promise!HasPages(answer, parts) = ~(parts.bytes = 0)
      BY <1>3, <2>4 DEF Promise!HasPages
    <3> HIDE DEF table, parts
    <3> QED BY <1>3, <2>13, <3>1, <3>2, <3>3
  <2>15. PICK index : index = TableIndex(tables)
    OBVIOUS
  <2> HIDE DEF table, parts
  <2> QED
    BY <1>1, <1>2, <2>1, <2>7, <2>12, <2>13, <2>14, <2>15, StreamedPromised
<1> QED BY <1>4, <1>5

\* A resource without pageable data is promised the null location.
LEMMA UnpagedPromised ==
  ASSUME NEW asked \in Answers, ~asked.any_pageable_data, NEW row, row.memory_size = 0
  PROVE  ReadFrom(row, FALSE) \in Promise!Promised(asked)
<1> DEFINE parts == [sublocations |-> << >>, bytes |-> 0]
<1>1. parts \in Promise!StreamedParts(asked) /\ ~Promise!HasPages(asked, parts)
  BY DEF Promise!StreamedParts, Promise!Streams, Promise!HasPages
<1>2. Promise!HasPages(asked, parts) = FALSE
  BY <1>1 DEF Promise!HasPages
<1>3. Promise!NullLocation(asked, parts) = ReadFrom(row, FALSE)
  BY <1>2 DEF Promise!NullLocation, ReadFrom
<1> HIDE DEF parts
<1> QED BY <1>1, <1>3 DEF Promise!Promised

\* The row a call appends reads as the location it has built; so does the row
\* without bytes it reuses.
LEMMA AddedLocationPromised ==
  ASSUME IndexInvariant, CallPromise, [Next]_vars, AppendFileLocation \/ ReuseNullFileLocation
  PROVE  ReadFrom(RowAt(file_locations, pageable_location_index), has_pageable_data[current])'
           \in Promise!Promised(answer)
<1>1. TypeOK /\ TypeOK' /\ IndexesResolve
  BY NextTypeOK DEF IndexInvariant
<1>2. /\ current' = current
      /\ has_pageable_data' = has_pageable_data
      /\ ReadFrom(pageable_location, has_pageable_data[current]) \in Promise!Promised(answer)
  BY DEF AppendFileLocation, ReuseNullFileLocation, UseFileLocation, CallPromise
<1>3. PICK row \in FileLocation : row = pageable_location
  BY <1>1 DEF TypeOK
<1>4. PICK has_pages : has_pages = has_pageable_data[current]
  OBVIOUS
<1>5. CASE AppendFileLocation
  <2>1. PICK count : RowAt(file_locations', pageable_location_index') =
                       [row EXCEPT !.resource_reference_count = count]
    <3>1. /\ pageable_location_index' = Len(file_locations)
          /\ file_locations'[Len(file_locations) + 1] =
               [pageable_location EXCEPT !.resource_reference_count =
                  Unsigned(pageable_location.resource_reference_count + 1, ShortModulus)]
      BY <1>1, <1>5, AppendedLocation
    <3> QED BY <1>3, <3>1 DEF RowAt
  <2>2. PICK added : added = [row EXCEPT !.resource_reference_count = count]
    OBVIOUS
  <2>3. /\ ReadFrom(added, has_pages) = ReadFrom(row, has_pages)
        /\ added.shared_file_index = row.shared_file_index
        /\ added.codec_index = row.codec_index
        /\ added.streaming_sublocation_table_index = row.streaming_sublocation_table_index
    BY <2>2, ReadWithoutCount DEF FileLocation
  <2>4. NamesRows(added)
    BY <1>1, <1>3, <2>3 DEF IndexesResolve, NamesRows
  <2>5. ReadFrom(added, has_pages)' = ReadFrom(added, has_pages)
    BY <2>4, ReadFromKept
  <2> QED BY <1>2, <1>3, <1>4, <2>1, <2>2, <2>3, <2>5
<1>6. CASE ReuseNullFileLocation
  <2>1. /\ pageable_location.memory_size = 0
        /\ pageable_location_index' = 0
        /\ ValidIndex(0, file_locations)
        /\ file_locations[1].memory_size = 0
    BY <1>6 DEF ReuseNullFileLocation, UseFileLocation, RowAt
  <2>2. 1 \in DOMAIN file_locations
    BY <1>1, <2>1 DEF ValidIndex, TypeOK
  <2>3. RowAt(file_locations', pageable_location_index').memory_size = 0
    BY <1>1, <2>1, <2>2, RowsKeepTables DEF RowAt
  <2>4. ReadFrom(pageable_location, has_pageable_data[current]) =
          [status |-> "null", has_pages |-> has_pages]
    BY <1>4, <2>1 DEF ReadFrom
  <2>5. ReadFrom(RowAt(file_locations, pageable_location_index), has_pageable_data[current])' =
          [status |-> "null", has_pages |-> has_pages]
    BY <1>2, <1>4, <2>3 DEF ReadFrom
  <2> QED BY <1>2, <2>4, <2>5
<1> QED BY <1>5, <1>6

\* Each operation of a call keeps the promise on its way.
LEMMA NextCallPromise == PromiseInvariant /\ [Next]_vars => CallPromise'
<1> SUFFICES ASSUME PromiseInvariant, [Next]_vars PROVE CallPromise'
  OBVIOUS
<1>1. /\ IndexInvariant /\ SharedFileCacheCoherent /\ TablesShort /\ FlagsPending /\ CallPromise
      /\ TypeOK
      /\ answers' = answers
  BY FlagsKept DEF PromiseInvariant, IndexInvariant
<1>2. ASSUME NEW r \in Resources, BeginCall(r)
      PROVE  CallPromise'
  <2>1. /\ pc = "idle" /\ current' = r /\ result[r] = "pending"
        /\ pc' = IF answers[r].any_pageable_data THEN "describe" ELSE "add_file_location"
        /\ pageable_location' = pageable_location
        /\ has_pageable_data' = has_pageable_data
    BY <1>2 DEF BeginCall
  <2>2. pageable_location.memory_size = 0
    BY <1>1, <2>1 DEF CallPromise
  <2>3. answer' = answers[r]
    BY <1>1, <2>1 DEF answer
  <2>4. CASE answers[r].any_pageable_data
    BY <2>1, <2>2, <2>3, <2>4 DEF CallPromise
  <2>5. CASE ~answers[r].any_pageable_data
    <3>1. answers[r] \in Answers /\ answers[r].any_pageable_data \in BOOLEAN
      BY <1>1, AnswersAssumption DEF TypeOK, Answer
    <3>2. has_pageable_data[r] = FALSE
      BY <1>1, <2>1, <2>5, <3>1 DEF FlagsPending
    <3>3. PICK row : row = pageable_location
      OBVIOUS
    <3>4. ReadFrom(row, FALSE) \in Promise!Promised(answers[r])
      BY <2>2, <2>5, <3>1, <3>3, UnpagedPromised
    <3>5. ReadFrom(pageable_location, has_pageable_data[current])' = ReadFrom(row, FALSE)
      BY <2>1, <2>2, <3>2, <3>3 DEF ReadFrom
    <3> QED BY <2>1, <2>3, <2>5, <3>4, <3>5 DEF CallPromise
  <2> QED BY <2>4, <2>5
<1>3. CASE FindCachedSharedFile \/ AppendSharedFile \/ FindOwnSharedFile
  <2>1. /\ pc = "describe" /\ pc' = "codec_definition" /\ answer.describes /\ current' = current
    BY <1>3 DEF FindCachedSharedFile, AppendSharedFile, FindOwnSharedFile, NewSharedFileAsked,
                UseSharedFile
  <2>2. answer' = answer
    BY <1>1, <2>1 DEF answer
  <2> QED BY <1>1, <1>3, <2>1, <2>2, SharedFilePromised DEF CallPromise
<1>4. CASE FindCodecDefinition \/ AppendCodecDefinition
  <2>1. pc = "codec_definition" /\ pc' = "streaming_sublocations" /\ current' = current
    BY <1>4 DEF FindCodecDefinition, AppendCodecDefinition, NewCodecAsked, UseCodecDefinition
  <2>2. answer' = answer
    BY <1>1, <2>1 DEF answer
  <2> QED BY <1>1, <1>4, <2>1, <2>2, CodecPromised DEF CallPromise
<1>5. CASE NotStreamed \/ DropEmptyStreamingTable \/ AppendStreamingTable
  <2>1. pc = "streaming_sublocations" /\ pc' = "add_file_location" /\ current' = current
    BY <1>5 DEF NotStreamed, DropEmptyStreamingTable, AppendStreamingTable, NewFilledTableAsked,
                NewTableAsked, UseStreamingTable
  <2>2. answer' = answer
    BY <1>1, <2>1 DEF answer
  <2> QED BY <1>1, <1>5, <2>1, <2>2, StreamingPromised DEF CallPromise
<1>6. CASE AppendFileLocation \/ ReuseNullFileLocation
  <2>1. pc = "add_file_location" /\ pc' = "assign_location" /\ current' = current
    BY <1>6 DEF AppendFileLocation, ReuseNullFileLocation, UseFileLocation
  <2>2. answer' = answer
    BY <1>1, <2>1 DEF answer
  <2> QED BY <1>1, <1>6, <2>1, <2>2, AddedLocationPromised DEF CallPromise
<1>7. CASE pc' = "aborted"
  BY <1>7 DEF CallPromise
<1>8. CASE DescribeFails \/ AssignLocation
  <2>1. pc' = "idle" /\ pageable_location'.memory_size = 0
    BY <1>8 DEF DescribeFails, AssignLocation, Return, NullFileLocation
  <2> QED BY <2>1 DEF CallPromise
<1>9. CASE UNCHANGED vars
  BY <1>1, <1>9
  DEF vars, gestalt, locals, CallPromise, answer, PathOf, CodecOf, TableOf, ReadFrom
<1> QED
  BY <1>2, <1>3, <1>4, <1>5, <1>6, <1>7, <1>8, <1>9
  DEF Next, CallStep, Finished, BeginCallAsserts, Abort, SharedFileAsserts, CodecDefinitionAsserts,
      StreamingTableAsserts, TableIndexAsserts, FileLocationAsserts, AssignLocationAsserts

-------------------------------------------------------------------------------
(* Each step keeps the promise.                                              *)

\* What a reader finds for a resource whose call has returned stays as it is.
LEMMA LocationKept ==
  ASSUME IndexInvariant, [Next]_vars, NEW r \in Resources, result[r] # "pending"
  PROVE  LocationOf(r)' = LocationOf(r)
<1>1. TypeOK /\ IndexesResolve
  BY DEF IndexInvariant
<1>2. result'[r] = result[r] /\ LocatedAt(r)' = LocatedAt(r)
  BY <1>1, StepKeepsRows DEF AssignmentsStay
<1>3. CASE result[r] = "false"
  BY <1>2, <1>3 DEF LocationOf
<1>4. CASE result[r] # "false"
  <2>1. result[r] = "true" /\ r # current
    BY <1>1, <1>4 DEF TypeOK
  <2>2. PICK has_pages : has_pages = has_pageable_data[r]
    OBVIOUS
  <2>3. has_pageable_data'[r] = has_pages
    BY <1>1, <2>1, <2>2, FlagsKept
  <2>4. PICK index : index = LocatedAt(r)
    OBVIOUS
  <2>5. index + 1 \in DOMAIN file_locations
    BY <1>1, <2>1, <2>4 DEF IndexesResolve, ValidIndex, TypeOK
  <2>6. PICK row \in FileLocation : row = file_locations[index + 1]
    BY <1>1, <2>5 DEF TypeOK
  <2>7. PICK count : file_locations'[index + 1] = [row EXCEPT !.resource_reference_count = count]
    BY <1>1, <2>5, <2>6, StepKeepsRows DEF LocationsStay
  <2>8. PICK kept : kept = file_locations'[index + 1]
    OBVIOUS
  <2>9. /\ ReadFrom(kept, has_pages) = ReadFrom(row, has_pages)
        /\ kept.shared_file_index = row.shared_file_index
        /\ kept.codec_index = row.codec_index
        /\ kept.streaming_sublocation_table_index = row.streaming_sublocation_table_index
    BY <2>7, <2>8, ReadWithoutCount DEF FileLocation
  <2>10. NamesRows(kept)
    BY <1>1, <2>5, <2>6, <2>9 DEF IndexesResolve, NamesRows
  <2>11. ReadFrom(kept, has_pages)' = ReadFrom(kept, has_pages)
    BY <2>10, ReadFromKept
  <2>12. /\ LocationOf(r) = ReadFrom(row, has_pages)
         /\ LocationOf(r)' = ReadFrom(kept, has_pages)'
    BY <1>2, <2>1, <2>2, <2>3, <2>4, <2>6, <2>8 DEF LocationOf, Found, RowAt
  <2> QED BY <2>9, <2>11, <2>12
<1> QED BY <1>3, <1>4

\* The end of a call locates its resource where the call has built its row.
LEMMA AssignedPromised ==
  ASSUME IndexInvariant, CallPromise, [Next]_vars, AssignLocation
  PROVE  /\ LocationOf(current) = Promise!Pending
         /\ ~answer.any_pageable_data \/ answer.describes
         /\ \E l \in Promise!Promised(answer) :
              \A r \in Resources : LocationOf(r)' = IF r = current THEN l ELSE LocationOf(r)
<1>1. TypeOK /\ IndexesResolve /\ current \in Resources /\ pc = "assign_location"
  BY DEF IndexInvariant, TypeOK, AssignLocation
<1>2. result[current] = "pending"
  BY <1>1 DEF TypeOK
<1>3. PICK l \in Promise!Promised(answer) :
        l = ReadFrom(RowAt(file_locations, pageable_location_index), has_pageable_data[current])
  BY <1>1 DEF CallPromise
<1>4. PICK called : called = current
  OBVIOUS
<1>5. /\ result' = [result EXCEPT ![called] = "true"]
      /\ default_locations' = [default_locations EXCEPT
           ![LocationIndex[called]] = Signed(pageable_location_index, ShortModulus)]
      /\ LocationIndex[called] \in DOMAIN default_locations
      /\ has_pageable_data' = has_pageable_data
      /\ shared_files' = shared_files
      /\ codec_definitions' = codec_definitions
      /\ streaming_sublocation_tables' = streaming_sublocation_tables
      /\ file_locations' = file_locations
  BY <1>4 DEF AssignLocation, Return
<1>6. Signed(pageable_location_index, ShortModulus) = pageable_location_index
  <2>1. /\ file_locations \in Seq(FileLocation)
        /\ Len(file_locations) <= MaxFileLocations
        /\ NoneOrValid(pageable_location_index, file_locations)
    BY <1>1 DEF IndexInvariant, TypeOK, IndexesResolve
  <2>2. PICK index : index = pageable_location_index
    OBVIOUS
  <2> QED BY <2>1, <2>2, NarrowedIndex, CapacitiesAssumption
<1>7. LocatedAt(called)' = pageable_location_index
  BY <1>1, <1>5, <1>6 DEF LocatedAt, TypeOK
<1>8. LocationOf(called)' = l
  <2>1. PICK row : row = RowAt(file_locations, pageable_location_index)
    OBVIOUS
  <2>2. PICK has_pages : has_pages = has_pageable_data[called]
    OBVIOUS
  <2>3. ReadFrom(row, has_pages)' = ReadFrom(row, has_pages)
    BY <1>5 DEF ReadFrom, PathOf, CodecOf, TableOf
  <2>4. result'[called] = "true"
    BY <1>1, <1>4, <1>5 DEF TypeOK
  <2>5. LocationOf(called)' = ReadFrom(row, has_pages)'
    BY <1>5, <1>7, <2>1, <2>2, <2>4 DEF LocationOf, Found
  <2> QED BY <1>3, <1>4, <2>1, <2>2, <2>3, <2>5
<1>9. ASSUME NEW r \in Resources, r # current
      PROVE  LocationOf(r)' = LocationOf(r)
  <2>1. CASE result[r] = "pending"
    BY <1>1, <1>4, <1>5, <1>9, <2>1 DEF LocationOf, TypeOK
  <2>2. CASE result[r] # "pending"
    BY <2>2, LocationKept
  <2> QED BY <2>1, <2>2
<1>10. ~answer.any_pageable_data \/ answer.describes
  BY <1>1 DEF CallPromise
<1>11. LocationOf(current) = Promise!Pending
  BY <1>2 DEF LocationOf, Promise!Pending
<1>12. \A r \in Resources : LocationOf(r)' = IF r = current THEN l ELSE LocationOf(r)
  BY <1>4, <1>8, <1>9
<1> QED BY <1>10, <1>11, <1>12

\* A call that returns false refuses its resource.
LEMMA RefusedPromised ==
  ASSUME IndexInvariant, CallPromise, [Next]_vars, DescribeFails
  PROVE  /\ current \in Resources
         /\ LocationOf(current) = Promise!Pending
         /\ answer.any_pageable_data /\ ~answer.describes
         /\ \A r \in Resources :
              LocationOf(r)' = IF r = current THEN Promise!Refused ELSE LocationOf(r)
<1>1. TypeOK /\ current \in Resources /\ pc = "describe"
  BY DEF IndexInvariant, TypeOK, DescribeFails
<1>2. result[current] = "pending" /\ answer.any_pageable_data /\ ~answer.describes
  BY <1>1 DEF TypeOK, CallPromise, DescribeFails
<1>3. result' = [result EXCEPT ![current] = "false"]
  BY DEF DescribeFails, Return
<1>4. ASSUME NEW r \in Resources
      PROVE  LocationOf(r)' = IF r = current THEN Promise!Refused ELSE LocationOf(r)
  <2>1. CASE r = current
    BY <1>1, <1>3, <2>1 DEF LocationOf, Promise!Refused, TypeOK
  <2>2. CASE r # current /\ result[r] = "pending"
    BY <1>1, <1>3, <2>2 DEF LocationOf, TypeOK
  <2>3. CASE result[r] # "pending"
    BY <1>2, <2>3, LocationKept
  <2> QED BY <2>1, <2>2, <2>3
<1> QED BY <1>1, <1>2, <1>4 DEF LocationOf, Promise!Pending

\* No other step changes what a reader finds.
LEMMA OthersPromiseNothing ==
  ASSUME IndexInvariant, [Next]_vars, ~AssignLocation, ~DescribeFails, NEW r \in Resources
  PROVE  LocationOf(r)' = LocationOf(r)
<1>1. result' = result
  BY DEF Next, vars, gestalt, BeginCall, BeginCallAsserts, Abort, Finished, CallStep,
        FindCachedSharedFile, AppendSharedFile, FindOwnSharedFile, SharedFileAsserts,
        NewSharedFileAsked, UseSharedFile, FindCodecDefinition, AppendCodecDefinition,
        CodecDefinitionAsserts, NewCodecAsked, UseCodecDefinition, UseStreamingTable, NotStreamed,
        DropEmptyStreamingTable, AppendStreamingTable, TableIndexAsserts, StreamingTableAsserts,
        AppendFileLocation, ReuseNullFileLocation, FileLocationAsserts, UseFileLocation,
        AssignLocationAsserts
<1>2. CASE result[r] = "pending"
  BY <1>1, <1>2 DEF LocationOf
<1>3. CASE result[r] # "pending"
  BY <1>3, LocationKept
<1> QED BY <1>2, <1>3

\* Seen by a reader, a step is one of the promise or changes nothing.
LEMMA StepKeepsPromise ==
  PromiseInvariant /\ [Next]_vars => [Promise!Next]_(Promise!vars)
<1> SUFFICES ASSUME PromiseInvariant, [Next]_vars PROVE [Promise!Next]_(Promise!vars)
  OBVIOUS
<1>1. IndexInvariant /\ CallPromise /\ TypeOK /\ answers' = answers
  BY FlagsKept DEF PromiseInvariant, IndexInvariant
<1>2. CASE AssignLocation
  <2>1. PICK called \in Resources : called = current
    BY <1>1, <1>2 DEF TypeOK, AssignLocation
  <2>2. /\ LocationOf(called) = Promise!Pending
        /\ ~answers[called].any_pageable_data \/ answers[called].describes
        /\ \E l \in Promise!Promised(answers[called]) :
             \A r \in Resources : LocationOf(r)' = IF r = called THEN l ELSE LocationOf(r)
    BY <1>1, <1>2, <2>1, AssignedPromised DEF answer
  <2>3. Promise!Locate(called)
    BY <1>1, <2>1, <2>2 DEF Promise!Locate
  <2> QED BY <2>1, <2>3 DEF Promise!Next
<1>3. CASE DescribeFails
  <2>1. PICK called \in Resources : called = current
    BY <1>1, <1>3, RefusedPromised
  <2>2. /\ LocationOf(called) = Promise!Pending
        /\ answers[called].any_pageable_data /\ ~answers[called].describes
        /\ \A r \in Resources :
             LocationOf(r)' = IF r = called THEN Promise!Refused ELSE LocationOf(r)
    BY <1>1, <1>3, <2>1, RefusedPromised DEF answer
  <2>3. Promise!Refuse(called)
    BY <1>1, <2>1, <2>2 DEF Promise!Refuse
  <2> QED BY <2>1, <2>3 DEF Promise!Next
<1>4. CASE ~AssignLocation /\ ~DescribeFails
  <2>1. \A r \in Resources : LocationOf(r)' = LocationOf(r)
    BY <1>1, <1>4, OthersPromiseNothing
  <2> QED BY <1>1, <2>1 DEF Promise!vars
<1> QED BY <1>2, <1>3, <1>4

\* At first every resource is pending, and no promise has been made.
LEMMA InitPromise == Init => PromiseInvariant /\ Promise!Init
<1> SUFFICES ASSUME Init PROVE PromiseInvariant /\ Promise!Init
  OBVIOUS
<1>1. IndexInvariant /\ TypeOK
  BY InitIndexInvariant DEF IndexInvariant
<1>2. SharedFileCacheCoherent
  BY DEF Init, SharedFileCacheCoherent
<1>3. TablesShort
  <2>1. Len(streaming_sublocation_tables) = 0
    BY DEF Init
  <2> QED BY <2>1, CapacitiesAssumption DEF TablesShort
<1>4. FlagsPending
  BY DEF Init, FlagsPending
<1>5. CallPromise
  BY DEF Init, CallPromise, NullFileLocation
<1>6. \A r \in Resources : LocationOf(r) = Promise!Pending
  BY DEF Init, LocationOf, Promise!Pending
<1>7. answers \in [Resources -> Answers]
  BY DEF Init
<1>8. Promise!Init
  BY <1>6, <1>7 DEF Promise!Init
<1> QED BY <1>1, <1>2, <1>3, <1>4, <1>5, <1>8 DEF PromiseInvariant

\* Each step of a call carries the promise on ...
LEMMA NextPromiseInvariant == PromiseInvariant /\ [Next]_vars => PromiseInvariant'
BY NextIndexInvariant, NextSharedFileCacheCoherent, NextTablesShort, NextFlagsPending,
   NextCallPromise
DEF PromiseInvariant, IndexInvariant

\* A failed assert, wherever it is, breaks no promise and keeps none.
LEMMA AbortKeepsPromise ==
  PromiseInvariant /\ Abort => PromiseInvariant' /\ UNCHANGED Promise!vars
<1> SUFFICES ASSUME PromiseInvariant, Abort PROVE PromiseInvariant' /\ UNCHANGED Promise!vars
  OBVIOUS
<1>1. /\ pc' = "aborted"
      /\ UNCHANGED <<answers, gestalt, m_shared_file_index_cache, has_pageable_data, result,
                     locals>>
  BY DEF Abort
<1>2. TypeOK'
  BY <1>1 DEF PromiseInvariant, IndexInvariant, TypeOK, gestalt, locals, Operations
<1>3. IndexInvariant'
  <2>1. IndexesResolve'
    BY <1>1 DEF PromiseInvariant, IndexInvariant, gestalt, locals, IndexesResolve, LocatedAt,
      NamesRows
  <2> QED BY <1>1, <1>2, <2>1 DEF PromiseInvariant, IndexInvariant, gestalt, locals
<1>4. SharedFileCacheCoherent'
  <2>1. \A path : FirstSharedFile(path)' = FirstSharedFile(path)
    BY <1>1 DEF gestalt, FirstSharedFile, SelectInSeq
  <2> QED BY <1>1, <2>1 DEF PromiseInvariant, gestalt, SharedFileCacheCoherent
<1>5. TablesShort' /\ FlagsPending' /\ CallPromise'
  BY <1>1 DEF PromiseInvariant, gestalt, locals, TablesShort, FlagsPending, CallPromise
<1>6. \A r \in Resources : LocationOf(r)' = LocationOf(r)
  BY <1>1 DEF gestalt, LocationOf, Found, LocatedAt, ReadFrom, PathOf, CodecOf, TableOf
<1>7. UNCHANGED Promise!vars
  BY <1>1, <1>6 DEF Promise!vars
<1> QED BY <1>3, <1>4, <1>5, <1>7 DEF PromiseInvariant

\* ... and the steps of a reader's view are those of the promise: every resource of the
\* finished map is found as its datum handler described it, for every constant that meets
\* the assumptions.
THEOREM LocationPromiseKept == Spec => KeepsLocationPromise
<1>1. Init => PromiseInvariant /\ Promise!Init
  BY InitPromise
<1>2. PromiseInvariant /\ [Next]_vars => [Promise!Next]_(Promise!vars)
  BY StepKeepsPromise
<1> QED BY <1>1, <1>2, NextPromiseInvariant, PTL DEF Spec, KeepsLocationPromise, Promise!Spec
===============================================================================
