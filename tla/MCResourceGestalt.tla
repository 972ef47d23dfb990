--------------------------- MODULE MCResourceGestalt ---------------------------
(* A small map: three resources, four files of which two have one path. *)
EXTENDS ResourceGestaltRefinement

CONSTANTS shared, dlc, own, lzx, mp3

MCIoConfig ==
  <<[path |-> shared, io_offset |-> 1],
    [path |-> dlc,    io_offset |-> 9],   \* does not fit the narrowed offset
    [path |-> dlc,    io_offset |-> 0],
    [path |-> own,    io_offset |-> 0]>>

MCLocationIndex == [r \in 0 .. 2 |-> r]

Row(offset, size) == [memory_offset |-> offset, memory_size |-> size]

Plain ==
  [any_pageable_data |-> TRUE, describes |-> TRUE, file_index |-> 1, codec |-> lzx,
   memory_size |-> 2, has_checksum |-> TRUE, structured |-> TRUE, streams |-> FALSE,
   has_owner |-> TRUE, sublocations |-> << >>]

Streamed(rows) == [Plain EXCEPT !.streams = TRUE, !.sublocations = rows, !.has_checksum = FALSE]

MCAnswers ==
  {[Plain EXCEPT !.any_pageable_data = FALSE],
   [Plain EXCEPT !.describes = FALSE],
   Plain,
   [Streamed(<<Row(2, 1), Row(0, 2)>>) EXCEPT !.file_index = 2, !.memory_size = 3],
   [Streamed(<<Row(1, 1), Row(1, 2), Row(0, 0)>>) EXCEPT !.file_index = 3, !.codec = mp3],
   [Streamed(<<Row(1, 0), Row(0, 0)>>) EXCEPT !.file_index = 4, !.codec = NoCodec],
   [Streamed(<<Row(0, 2)>>) EXCEPT !.memory_size = 0, !.codec = mp3],
   [Streamed(<< >>) EXCEPT !.file_index = 4]}
=============================================================================
