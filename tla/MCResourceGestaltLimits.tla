------------------------ MODULE MCResourceGestaltLimits ------------------------
(***************************************************************************)
(* A map that runs into every limit: blocks of one, two or three rows,     *)
(* 2-bit shorts of which a third streaming table has no index, a resource  *)
(* without a default_locations row and one whose row does not exist.       *)
(***************************************************************************)
EXTENDS ResourceGestaltRefinement

CONSTANTS shared, dlc, own, lzx, mp3

MCIoConfig ==
  <<[path |-> shared, io_offset |-> 1],
    [path |-> dlc,    io_offset |-> 0],
    [path |-> dlc,    io_offset |-> 2],
    [path |-> own,    io_offset |-> 3]>>

MCLocationIndex == <<0, 1, -2, NONE>>

Row(offset, size) == [memory_offset |-> offset, memory_size |-> size]

Plain ==
  [any_pageable_data |-> TRUE, describes |-> TRUE, file_index |-> 1, codec |-> lzx,
   memory_size |-> 1, has_checksum |-> TRUE, structured |-> TRUE, streams |-> FALSE,
   has_owner |-> TRUE, sublocations |-> << >>]

Streamed == [Plain EXCEPT !.streams = TRUE, !.sublocations = <<Row(0, 1)>>]

MCAnswers ==
  {[Plain EXCEPT !.any_pageable_data = FALSE],
   [Plain EXCEPT !.file_index = 2, !.codec = mp3],
   [Plain EXCEPT !.file_index = 3, !.codec = NoCodec],
   [Plain EXCEPT !.file_index = 4],
   Streamed,
   [Streamed EXCEPT !.has_owner = FALSE],
   [Plain EXCEPT !.structured = FALSE],
   [Streamed EXCEPT !.sublocations = <<Row(0, 1), Row(1, 0)>>],
   [Streamed EXCEPT !.memory_size = 0]}
=============================================================================
