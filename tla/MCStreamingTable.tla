---------------------------- MODULE MCStreamingTable ----------------------------
(***************************************************************************)
(* Three resources whose procedures write up to three rows, with room for  *)
(* two, and one to the null stream among them; in shorts of two bits the   *)
(* third table has an index that the caller refuses.                       *)
(***************************************************************************)
EXTENDS StreamingTable

CONSTANTS own

MCIoConfig == <<[path |-> own, io_offset |-> 0]>>

MCLocationIndex == <<0, 1, -2>>

MCDefinitions == {Unresolved, NoDefinition, 1}

Row(offset, size) == [memory_offset |-> offset, memory_size |-> size]

Plain ==
  [any_pageable_data |-> TRUE, describes |-> TRUE, file_index |-> 1, codec |-> NoCodec,
   memory_size |-> 1, has_checksum |-> FALSE, structured |-> TRUE, streams |-> FALSE,
   has_owner |-> TRUE, sublocations |-> << >>]

Streamed(rows) == [Plain EXCEPT !.streams = TRUE, !.sublocations = rows]

Emit(stream, row) == [stream |-> stream, row |-> row]

\* A row without bytes, rows out of order, rows of equal offset of which one has a
\* negative size, one row too many, and nothing but a row that is thrown away.
MCEmissions ==
  {<<Emit("null", Row(1, 1))>>,
   <<Emit("primary", Row(0, 0))>>,
   <<Emit("primary", Row(2, 1)), Emit("null", Row(1, 1)), Emit("primary", Row(0, 2))>>,
   <<Emit("primary", Row(1, -1)), Emit("primary", Row(1, 4))>>,
   <<Emit("primary", Row(2, 1)), Emit("primary", Row(1, 1)), Emit("primary", Row(0, 1))>>}

MCAnswers ==
  {Plain, [Plain EXCEPT !.structured = FALSE], [Streamed(<< >>) EXCEPT !.has_owner = FALSE]} \cup
  {Streamed(WrittenTo("primary", rows)) : rows \in MCEmissions}
=============================================================================
