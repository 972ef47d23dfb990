----------------------- MODULE ResourceGestaltRefinement -----------------------
(***************************************************************************)
(* ResourceGestalt keeps LocationPromise.  The mapping is the walk a       *)
(* reader of the finished map makes: default_locations row, file_location  *)
(* row, then the shared file, codec and streaming table rows it names.     *)
(***************************************************************************)
EXTENDS ResourceGestalt

\* A short has as many negative values as others, and more than one of them: the
\* tables whose index is a negative short are refused before one is that reads as
\* NONE, whose resource would lose it.
ASSUME ShortsAssumption == \E half \in 2 .. ShortModulus : ShortModulus = 2 * half

\* A location without a shared file row lies in the map's own file.
PathOf(row) ==
  IF row.shared_file_index = NONE
  THEN OwnPath
  ELSE RowAt(shared_files, row.shared_file_index).file_name

CodecOf(row) ==
  IF row.codec_index = NONE
  THEN NoCodec
  ELSE RowAt(codec_definitions, row.codec_index)

TableOf(row) ==
  IF row.streaming_sublocation_table_index = NONE
  THEN SublocationTable(<< >>, 0)
  ELSE RowAt(streaming_sublocation_tables, row.streaming_sublocation_table_index)

ReadFrom(row, has_pages) ==
  IF row.memory_size = 0
  THEN [status |-> "null", has_pages |-> has_pages]
  ELSE [status       |-> "paged",
        has_pages    |-> has_pages,
        path         |-> PathOf(row),
        codec        |-> CodecOf(row),
        memory_size  |-> row.memory_size,
        checksummed  |-> row.checksums_valid,
        sublocations |-> TableOf(row).stream_locations,
        bytes        |-> TableOf(row).total_memory_size]

Found(r) == ReadFrom(RowAt(file_locations, LocatedAt(r)), has_pageable_data[r])

LocationOf(r) ==
  IF result[r] = "pending" THEN [status |-> "pending"]
  ELSE IF result[r] = "false" THEN [status |-> "refused"]
  ELSE Found(r)

Promise == INSTANCE LocationPromise WITH location <- [r \in Resources |-> LocationOf(r)]

\* Every resource of the finished map is found where, and as, its datum handler
\* described it, however the tables grew before and after its call; one without
\* a description is refused, and none changes once it has been assigned.
KeepsLocationPromise == Promise!Spec
=============================================================================
