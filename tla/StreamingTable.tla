----------------------------- MODULE StreamingTable -----------------------------
(***************************************************************************)
(* build_resource_streaming_sublocation_table, which ResourceGestalt takes *)
(* as one step, statement by statement: a table is added to the block, the *)
(* native procedure of the resource definition writes rows to it through   *)
(* one output stream and others to a null stream, and what was written is  *)
(* given back if empty, or else sorted and summed.                         *)
(*                                                                         *)
(* The procedure is native code: it may ask the stream for room or not,    *)
(* for any number of rows, and mind the answer or not.                     *)
(***************************************************************************)
EXTENDS ResourceGestalt

CONSTANTS
  Emissions,  \* what procedures write, row by row, with the stream of each
  Definitions \* the definition index of the stream_locations of a new table

\* What a procedure may write to its two streams.
ASSUME EmissionsAssumption ==
  Emissions \subseteq Seq([stream : {"primary", "null"}, row : StreamingSublocation])

\* A block without a definition entry, and with one that was not resolved.
NoDefinition == 0
Unresolved   == NONE

VARIABLES
  definition,
  emissions,   \* what the procedure of each resource writes: never changes
  step,        \* what the function does next
  emitted,     \* how many rows the procedure has written
  granted,     \* for how many more the stream has said there is room
  place        \* i of the loop that sums

calleeVars == <<definition, emissions, step, emitted, granted, place>>
streamVars == <<vars, calleeVars>>

\* The rows of an emission that go to a stream, in order.
WrittenTo(stream, rows) ==
  FoldLeft(LAMBDA written, e : IF e.stream = stream THEN Append(written, e.row) ELSE written,
           << >>, rows)

\* The answers of ResourceGestalt say what reaches the table.
StreamInit ==
  /\ Init
  /\ definition \in Definitions
  /\ emissions \in {chosen \in [Resources -> Emissions] :
       \A r \in Resources : answers[r].sublocations = WrittenTo("primary", chosen[r])}
  /\ step = "called"
  /\ emitted = 0
  /\ granted = 0
  /\ place = 0

-------------------------------------------------------------------------------
(* The function.                                                             *)

emission == emissions[current]

\* new_row, by which the function knows its table.
NewRow == Last(streaming_sublocation_tables)

StoreNewRow(table) ==
  streaming_sublocation_tables' =
    [streaming_sublocation_tables EXCEPT ![Len(streaming_sublocation_tables)] = table]

AtStep(name) ==
  /\ pc = "streaming_sublocations"
  /\ step = name

\* Everything but the table that is being built, and the place in the function.
OthersUnchanged ==
  /\ UNCHANGED <<answers, shared_files, codec_definitions, file_locations, default_locations,
                 m_shared_file_index_cache, has_pageable_data, result, pc, locals>>
  /\ UNCHANGED <<definition, emissions>>

ReturnNothing ==
  /\ AtStep("called")
  /\ NotStreamed
  /\ UNCHANGED calleeVars

\* The ASSERT of streamed(), ASSERT(owner_tag_index != -1), and the one on the index
\* of the new table.
AddTableAsserts ==
  /\ AtStep("called")
  /\ \/ ~answer.structured
     \/ /\ answer.streams
        /\ ~answer.has_owner \/ Len(streaming_sublocation_tables) >= MaxTables
  /\ Abort
  /\ UNCHANGED calleeVars

AddTable ==
  /\ AtStep("called")
  /\ answer.structured
  /\ answer.streams
  /\ answer.has_owner
  /\ Len(streaming_sublocation_tables) < MaxTables
  /\ streaming_sublocation_tables' =
       Append(streaming_sublocation_tables, SublocationTable(<< >>, 0))
  /\ step' = "emit"
  /\ emitted' = 0
  /\ granted' = 0
  /\ UNCHANGED place
  /\ OthersUnchanged

\* Mutant: the rows there are already are not counted.
MutantIgnoresCount(element_count) ==
  definition = NoDefinition \/ element_count <= MaxSublocations

\* streaming_output_capacity_allows_adding: without an entry no maximum is known.
CapacityAllowsAdding(element_count) ==
  \/ definition = NoDefinition
  \/ Len(NewRow.stream_locations) + element_count <= MaxSublocations

AskCapacity ==
  /\ AtStep("emit")
  /\ definition # Unresolved
  /\ granted = 0
  /\ \E element_count \in 1 .. MaxSublocations :
       granted' = IF CapacityAllowsAdding(element_count) THEN element_count ELSE 0
  /\ UNCHANGED <<streaming_sublocation_tables, step, emitted, place>>
  /\ OthersUnchanged

\* ASSERT(false): asked of a block whose definition was not resolved.
CapacityAsserts ==
  /\ AtStep("emit")
  /\ definition = Unresolved
  /\ Abort
  /\ UNCHANGED calleeVars

Writes(stream) ==
  /\ AtStep("emit")
  /\ emitted < Len(emission)
  /\ emission[emitted + 1].stream = stream

\* streaming_output_append_row_from_qword of the output stream.
AppendRow ==
  /\ Writes("primary")
  /\ Len(NewRow.stream_locations) < MaxSublocations
  /\ StoreNewRow([NewRow EXCEPT !.stream_locations = Append(@, emission[emitted + 1].row)])
  /\ emitted' = emitted + 1
  /\ granted' = IF granted = 0 THEN 0 ELSE granted - 1
  /\ UNCHANGED <<step, place>>
  /\ OthersUnchanged

\* ... the block is full: ASSERT(VALID_INDEX(new_index, count)).
AppendRowAsserts ==
  /\ Writes("primary")
  /\ Len(NewRow.stream_locations) >= MaxSublocations
  /\ Abort
  /\ UNCHANGED calleeVars

\* Mutant: the second stream is an output stream of the same block.
MutantSecondStreamStores ==
  /\ Writes("null")
  /\ StoreNewRow([NewRow EXCEPT !.stream_locations = Append(@, emission[emitted + 1].row)])
  /\ emitted' = emitted + 1
  /\ UNCHANGED <<step, granted, place>>
  /\ OthersUnchanged

\* ... of the null stream, which keeps nothing and always has room.
AppendRowToNull ==
  /\ Writes("null")
  /\ emitted' = emitted + 1
  /\ UNCHANGED <<streaming_sublocation_tables, step, granted, place>>
  /\ OthersUnchanged

ProcedureReturned ==
  /\ AtStep("emit")
  /\ emitted = Len(emission)

\* Nothing was written: the block is resized to what it was.
GiveBackTable ==
  /\ ProcedureReturned
  /\ NewRow.stream_locations = << >>
  /\ streaming_sublocation_tables' = WithoutLastTable(streaming_sublocation_tables)
  /\ UseStreamingTable(NoStreamingTable)
  /\ step' = "called"
  /\ granted' = 0
  /\ UNCHANGED <<has_pageable_data, definition, emissions, emitted, place>>

\* Mutant: i is left where the last table left it.
MutantPlaceKept ==
  /\ ProcedureReturned
  /\ NewRow.stream_locations # << >>
  /\ \E sorted \in SortedSublocations(NewRow.stream_locations) :
       StoreNewRow(SublocationTable(sorted, 0))
  /\ step' = "sum"
  /\ granted' = 0
  /\ UNCHANGED <<emitted, place>>
  /\ OthersUnchanged

\* std::sort, and total_memory_size = 0.
SortRows ==
  /\ ProcedureReturned
  /\ NewRow.stream_locations # << >>
  /\ \E sorted \in SortedSublocations(NewRow.stream_locations) :
       StoreNewRow(SublocationTable(sorted, 0))
  /\ step' = "sum"
  /\ place' = 0
  /\ granted' = 0
  /\ UNCHANGED emitted
  /\ OthersUnchanged

Summed == place >= Len(NewRow.stream_locations)

\* Mutant: a row without bytes is passed over before i is counted.
MutantNotCounted ==
  LET size == RowAt(NewRow.stream_locations, place).memory_size
  IN  /\ AtStep("sum")
      /\ ~Summed
      /\ StoreNewRow([NewRow EXCEPT !.total_memory_size = Unsigned(@ + size, LongModulus)])
      /\ place' = IF size = 0 THEN place ELSE place + 1
      /\ UNCHANGED <<step, emitted, granted>>
      /\ OthersUnchanged

SumRow ==
  /\ AtStep("sum")
  /\ ~Summed
  /\ StoreNewRow([NewRow EXCEPT !.total_memory_size =
       Unsigned(@ + RowAt(NewRow.stream_locations, place).memory_size, LongModulus)])
  /\ place' = place + 1
  /\ UNCHANGED <<step, emitted, granted>>
  /\ OthersUnchanged

\* The function returns; the caller clears the flag of a table without bytes.
ReturnTable ==
  /\ AtStep("sum")
  /\ Summed
  /\ CallerAccepts(streaming_sublocation_tables)
  /\ has_pageable_data' = [has_pageable_data EXCEPT
       ![current] = @ /\ ~TableHasNoBytes(streaming_sublocation_tables)]
  /\ UseStreamingTable(TableIndex(streaming_sublocation_tables))
  /\ step' = "called"
  /\ UNCHANGED <<streaming_sublocation_tables, definition, emissions, emitted, granted, place>>

\* The VALID_INDEX assert of the caller.
ReturnedIndexAsserts ==
  /\ AtStep("sum")
  /\ Summed
  /\ ~CallerAccepts(streaming_sublocation_tables)
  /\ Abort
  /\ step' = "called"
  /\ UNCHANGED <<definition, emissions, emitted, granted, place>>

CalleeStep ==
  \/ ReturnNothing \/ AddTableAsserts \/ AddTable
  \/ AskCapacity \/ CapacityAsserts
  \/ AppendRow \/ AppendRowAsserts \/ AppendRowToNull
  \/ GiveBackTable \/ SortRows \/ SumRow
  \/ ReturnTable \/ ReturnedIndexAsserts

-------------------------------------------------------------------------------

Elsewhere(action) ==
  /\ pc # "streaming_sublocations"
  /\ action
  /\ UNCHANGED calleeVars

StreamNext == CalleeStep \/ Elsewhere(Next)

\* As in ResourceGestalt; the native procedure is taken to return.
StreamSpec ==
  /\ StreamInit /\ [][StreamNext]_streamVars
  /\ WF_streamVars(CalleeStep) /\ WF_streamVars(Elsewhere(CallStep))

-------------------------------------------------------------------------------
(* Properties.                                                               *)

\* Every variable of the function has its type; a table is in the making only while
\* the function runs, and what is counted of it is there.
StreamTypeOK ==
  /\ definition \in Definitions
  /\ emissions \in [Resources -> Emissions]
  /\ step \in {"called", "emit", "sum"}
  /\ pc \notin {"streaming_sublocations", "aborted"} => step = "called"
  /\ step # "called" => streaming_sublocation_tables # << >>
  /\ emitted \in Nat /\ granted \in 0 .. MaxSublocations /\ place \in Nat
  /\ step = "emit" => emitted <= Len(emission)
  /\ step = "sum" => place <= Len(NewRow.stream_locations)

\* The tables that have been finished: the one in the making is nobody's yet.
FinishedTables ==
  IF step = "called" THEN streaming_sublocation_tables
  ELSE WithoutLastTable(streaming_sublocation_tables)

Gestalt == INSTANCE ResourceGestalt WITH streaming_sublocation_tables <- FinishedTables

\* The function does what ResourceGestalt takes for its one step: a table of exactly
\* the rows written to the output stream, in order and with their total, or none,
\* or a failed assert; and until it returns nothing of the table is to be seen, nor
\* ever of a row written to the null stream.  Only the assert on an unresolved
\* definition is not part of ResourceGestalt.
ImplementsGestalt ==
  /\ Gestalt!Init
  /\ [][Gestalt!Next \/ CapacityAsserts]_(Gestalt!vars)

\* A procedure that was told there is room for so many rows gets to store them:
\* neither the stream nor the block refuses one.  (A block without a definition
\* entry promises room for any number, and is not spoken of.)
GrantedRowsStored ==
  [][granted > 0 /\ definition # NoDefinition => pc' # "aborted"]_streamVars
=============================================================================
