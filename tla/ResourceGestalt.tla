---------------------------- MODULE ResourceGestalt ----------------------------
(***************************************************************************)
(* How the re-implemented part of the cache file builder fills the 'zone'  *)
(* tag (the resource gestalt): one call of                                 *)
(* build_and_assign_pageable_resource_location for each resource of the    *)
(* map, each of which looks up or appends rows of four tables that later   *)
(* calls share, appends or reuses a file_location row and stores its index *)
(* in the resource's default_locations row.                                *)
(*                                                                         *)
(* The calls come one at a time from tool.exe, in an order the hooked code *)
(* does not choose.  Inside a call each operation is one step, so the      *)
(* tables are seen half-way through a call as well.  Indexes count from 0, *)
(* as in the code, while TLA+ sequences count from 1: see RowAt.           *)
(*                                                                         *)
(* The gestalt the caller passes and the 'zone' tag that                   *)
(* get_or_create_shared_file_index looks up are one object.  Asserts are   *)
(* enabled, as in the Debug build test.ps1 builds: a failed one ends the   *)
(* process.                                                                *)
(***************************************************************************)
EXTENDS Cseries, FiniteSets, SequencesExt

CONSTANTS
  Resources,            \* the resources the caller asks about
  NoResource,           \* current when no call is being made
  LocationIndex,        \* resource_data->location_index of each resource
  DefaultLocationCount, \* rows the caller gave default_locations
  Files,                \* the values of indirect_file.file_index: the cache keys
  IoConfig,             \* the path and io_offset of each of those files
  OwnPath,              \* what the writer's build_path answers
  Codecs,               \* 16-byte codec identifiers
  NoCodec,              \* a null codec pointer
  Answers,              \* what a datum handler may answer about one resource
  MaxSharedFiles,       \* capacities of the tag blocks, where
  MaxCodecs,            \*   tag_block_add_element starts to return NONE
  MaxTables,
  MaxSublocations,      \* of the stream_locations of one table
  MaxFileLocations,
  CharModulus,          \* 2^8, 2^16 and 2^32
  ShortModulus,
  LongModulus

Paths == {IoConfig[file].path : file \in Files} \cup {OwnPath}

StreamingSublocation == [memory_offset : Int, memory_size : Int]

\* All a call asks about its resource: the virtual calls of the datum handler,
\* the streamed() flag and the streaming procedure of the resource definition.
Answer ==
  [any_pageable_data : BOOLEAN,
   describes         : BOOLEAN,          \* describe_resource_cache_location
   file_index        : Files,
   codec             : Codecs \cup {NoCodec},
   memory_size       : Nat,
   has_checksum      : BOOLEAN,          \* try_to_get_pageable_checksum
   structured        : BOOLEAN,          \* resource_struct_definition is not null
   streams           : BOOLEAN,          \* streamed() and a vtable procedure
   has_owner         : BOOLEAN,          \* owner_tag_index is not -1
   sublocations      : Seq(StreamingSublocation)]  \* what the procedure emits

VARIABLES
  answers,                      \* the answers about each resource: never change
  shared_files,                 \* the tag blocks of the gestalt
  codec_definitions,
  streaming_sublocation_tables,
  file_locations,
  default_locations,            \* pageable_file_location_index of each row
  m_shared_file_index_cache,    \* the std::map of the builder's context
  has_pageable_data,            \* the flag of that name of each resource
  result,                       \* what the call about each resource returned
  pc,                           \* the operation the current call makes next
  current,                      \* and the locals of that call
  pageable_location,
  pageable_location_index

gestalt == <<shared_files, codec_definitions, streaming_sublocation_tables,
             file_locations, default_locations>>
locals  == <<current, pageable_location, pageable_location_index>>
vars    == <<answers, gestalt, m_shared_file_index_cache, has_pageable_data,
             result, pc, locals>>

-------------------------------------------------------------------------------
(* Rows.                                                                     *)

SharedFile(path, io_offset) ==
  [file_name |-> path,
   global_location_index_offset |-> Signed(io_offset, ShortModulus)]

\* A value-initialised local, after the stores of NONE.
NullFileLocation ==
  [codec_index |-> NONE,
   shared_file_index |-> NONE,
   streaming_sublocation_table_index |-> NONE,
   memory_size |-> 0,
   checksums_valid |-> FALSE,
   resource_reference_count |-> 0]

SublocationTable(rows, total) ==
  [stream_locations |-> rows, total_memory_size |-> total]

-------------------------------------------------------------------------------
(* The streaming table of one resource.                                      *)

\* Mutant: the rows are left as they were emitted.
MutantUnsorted(rows) == {rows}

\* std::sort by memory_offset is not stable: rows of equal offset may come out
\* in any order.
SortedSublocations(rows) ==
  {sorted \in {[i \in DOMAIN rows |-> rows[p[i]]] : p \in Bijection(DOMAIN rows, DOMAIN rows)} :
     IsSorted(sorted, LAMBDA a, b : a.memory_offset <= b.memory_offset)}

\* The unsigned 32-bit sum of the loop over the sorted rows.
TotalMemorySize(rows) ==
  FoldLeft(LAMBDA total, row : Unsigned(total + row.memory_size, LongModulus),
           0, rows)

\* Mutant: tag_block_resize(tables_block, tables_block->count - 2).
MutantResizedByTwo(tables) == SubSeq(tables, 1, Len(tables) - 2)

\* The block after the table just added has been given back.
WithoutLastTable(tables) == SubSeq(tables, 1, Len(tables) - 1)

-------------------------------------------------------------------------------
(* What the constants are assumed to be.                                     *)

ASSUME ResourcesAssumption ==
  /\ NoResource \notin Resources
  /\ IsFiniteSet(Resources)
  /\ DefaultLocationCount \in Nat
  /\ LocationIndex \in [Resources -> Int]

\* Every resource has a default_locations row of its own.
ASSUME LocationIndexesDistinct ==
  \A r, s \in Resources : LocationIndex[r] = LocationIndex[s] => r = s

\* resource_data->location_index is a short.
ASSUME LocationIndexesAreShort ==
  \A r \in Resources : 2 * LocationIndex[r] \in -ShortModulus .. ShortModulus - 1

ASSUME FilesAssumption ==
  /\ \A file \in Files : IoConfig[file].io_offset \in Nat
  /\ NoCodec \notin Codecs

ASSUME AnswersAssumption == Answers \subseteq Answer

SumOfSizes(rows) == FoldLeft(LAMBDA sum, row : sum + row.memory_size, 0, rows)

\* The emitted sizes are those of parts of one resource, whose own size is a
\* 32-bit number.  Only KeepsLocationPromise rests on this.
ASSUME SizesDoNotWrap ==
  \A answer \in Answers :
    \A rows \in SortedSublocations(answer.sublocations) :
      SumOfSizes(rows) \in 0 .. LongModulus - 1

\* The tag blocks hold no more rows than the index fields can name: 127 codecs
\* (k_maximum_cache_file_codecs) in a char, 7 shared files
\* (k_maximum_cache_file_shared_files) in a short.  The streaming tables need
\* no such bound, the code checks their index itself.
ASSUME CapacitiesAssumption ==
  /\ CharModulus \in Nat \ {0, 1}
  /\ ShortModulus \in Nat \ {0, 1}
  /\ LongModulus \in Nat \ {0}
  /\ MaxSharedFiles \in Nat \ {0} /\ 2 * MaxSharedFiles <= ShortModulus
  /\ MaxCodecs \in Nat /\ 2 * MaxCodecs <= CharModulus
  /\ MaxTables \in Nat /\ MaxSublocations \in Nat
  /\ MaxFileLocations \in Nat \ {0} /\ 2 * MaxFileLocations <= ShortModulus

-------------------------------------------------------------------------------
\* The native code may have left a row for the map's own file and the null
\* file_location in the gestalt, or neither.
Init ==
  /\ answers \in [Resources -> Answers]
  /\ shared_files \in {<< >>, <<SharedFile(OwnPath, 0)>>}
  /\ codec_definitions = << >>
  /\ streaming_sublocation_tables = << >>
  /\ file_locations \in {<< >>, <<NullFileLocation>>}
  /\ default_locations = [i \in 0 .. DefaultLocationCount - 1 |-> NONE]
  /\ m_shared_file_index_cache = << >>
  /\ has_pageable_data = [r \in Resources |-> answers[r].any_pageable_data]
  /\ result = [r \in Resources |-> "pending"]
  /\ pc = "idle"
  /\ current = NoResource
  /\ pageable_location = NullFileLocation
  /\ pageable_location_index = NONE

-------------------------------------------------------------------------------
(* The steps of a call.                                                      *)

answer == answers[current]

\* A failed ASSERT: the process is gone, and with it the map being built.
Abort ==
  /\ pc' = "aborted"
  /\ UNCHANGED <<answers, gestalt, m_shared_file_index_cache, has_pageable_data, result, locals>>

\* The call returns: its locals go out of scope.
Return(value) ==
  /\ result' = [result EXCEPT ![current] = value]
  /\ pc' = "idle"
  /\ current' = NoResource
  /\ pageable_location' = NullFileLocation
  /\ pageable_location_index' = NONE

BeginCall(r) ==
  /\ pc = "idle"
  /\ result[r] = "pending"
  /\ LocationIndex[r] # NONE
  /\ current' = r
  /\ pc' = IF answers[r].any_pageable_data THEN "describe" ELSE "add_file_location"
  /\ UNCHANGED <<answers, gestalt, m_shared_file_index_cache, has_pageable_data, result,
                 pageable_location, pageable_location_index>>

\* ASSERT(resource_data->location_index != NONE).
BeginCallAsserts(r) ==
  /\ pc = "idle"
  /\ result[r] = "pending"
  /\ LocationIndex[r] = NONE
  /\ Abort

\* Mutant: the failure is noted but the call does not return.
MutantNoEarlyReturn ==
  /\ pc = "describe"
  /\ ~answer.describes
  /\ result' = [result EXCEPT ![current] = "false"]
  /\ pc' = "add_file_location"
  /\ UNCHANGED <<answers, gestalt, m_shared_file_index_cache, has_pageable_data, locals>>

\* describe_resource_cache_location has no location: return false.
DescribeFails ==
  /\ pc = "describe"
  /\ ~answer.describes
  /\ Return("false")
  /\ UNCHANGED <<answers, gestalt, m_shared_file_index_cache, has_pageable_data>>

\* The caller keeps the index it is given as an int16, and asks for the
\* memory size.
UseSharedFile(index) ==
  /\ pageable_location' = [pageable_location EXCEPT
       !.shared_file_index = Signed(index, ShortModulus),
       !.memory_size = answer.memory_size]
  /\ pc' = "codec_definition"
  /\ UNCHANGED <<answers, codec_definitions, streaming_sublocation_tables, file_locations,
                 default_locations, has_pageable_data, result, current,
                 pageable_location_index>>

\* Mutant: a cached file is taken to have the newest row.
MutantNewestRow ==
  /\ pc = "describe"
  /\ answer.describes
  /\ answer.file_index \in DOMAIN m_shared_file_index_cache
  /\ UseSharedFile(LastIndex(shared_files))
  /\ UNCHANGED <<shared_files, m_shared_file_index_cache>>

\* get_or_create_shared_file_index: the file was asked for before.
FindCachedSharedFile ==
  /\ pc = "describe"
  /\ answer.describes
  /\ answer.file_index \in DOMAIN m_shared_file_index_cache
  /\ UseSharedFile(m_shared_file_index_cache[answer.file_index])
  /\ UNCHANGED <<shared_files, m_shared_file_index_cache>>

RememberSharedFile(index) ==
  m_shared_file_index_cache' =
    [file \in DOMAIN m_shared_file_index_cache \cup {answer.file_index} |->
       IF file = answer.file_index THEN index ELSE m_shared_file_index_cache[file]]

NewSharedFileAsked ==
  /\ pc = "describe"
  /\ answer.describes
  /\ answer.file_index \notin DOMAIN m_shared_file_index_cache

\* The row of that path, or NONE.
FirstSharedFile(path) ==
  SelectInSeq(shared_files, LAMBDA file : file.file_name = path) - 1

\* Mutant: rows are shared by path, as codec rows are by identifier.
MutantSharedByPath ==
  LET config == IoConfig[answer.file_index]
      found  == FirstSharedFile(config.path)
  IN  /\ NewSharedFileAsked
      /\ config.path # OwnPath
      /\ Len(shared_files) < MaxSharedFiles
      /\ shared_files' = IF found # NONE THEN shared_files
                         ELSE Append(shared_files, SharedFile(config.path, config.io_offset))
      /\ RememberSharedFile(IF found # NONE THEN found ELSE Len(shared_files))
      /\ UseSharedFile(IF found # NONE THEN found ELSE Len(shared_files))

\* ... a file other than the map's own gets a row, even if its path has one.
AppendSharedFile ==
  LET config == IoConfig[answer.file_index]
  IN  /\ NewSharedFileAsked
      /\ config.path # OwnPath
      /\ Len(shared_files) < MaxSharedFiles
      /\ shared_files' = Append(shared_files, SharedFile(config.path, config.io_offset))
      /\ RememberSharedFile(LastIndex(shared_files'))
      /\ UseSharedFile(LastIndex(shared_files'))

\* ... the map's own file is only looked up, and may have no row.
FindOwnSharedFile ==
  LET index == FirstSharedFile(IoConfig[answer.file_index].path)
  IN  /\ NewSharedFileAsked
      /\ IoConfig[answer.file_index].path = OwnPath
      /\ IoConfig[answer.file_index].io_offset = 0
      /\ RememberSharedFile(index)
      /\ UseSharedFile(index)
      /\ UNCHANGED shared_files

\* ... assert(VALID_INDEX(new_index, ...)) and assert(io_config->io_offset == 0).
SharedFileAsserts ==
  /\ NewSharedFileAsked
  /\ IF IoConfig[answer.file_index].path # OwnPath
     THEN Len(shared_files) >= MaxSharedFiles
     ELSE IoConfig[answer.file_index].io_offset # 0
  /\ Abort

\* The caller keeps the index, and asks for the checksum.
UseCodecDefinition(index) ==
  /\ pageable_location' = [pageable_location EXCEPT
       !.codec_index = Signed(index, CharModulus),
       !.checksums_valid = answer.has_checksum]
  /\ pc' = "streaming_sublocations"
  /\ UNCHANGED <<answers, shared_files, streaming_sublocation_tables, file_locations,
                 default_locations, m_shared_file_index_cache, has_pageable_data,
                 result, current, pageable_location_index>>

\* Mutant: the rows are never searched.
MutantNeverFound(identifier) == NONE

\* The row of that codec, or NONE.
FirstCodecDefinition(identifier) ==
  SelectInSeq(codec_definitions, LAMBDA codec : codec = identifier) - 1

\* get_or_create_codec_definition_index: no codec, or one that has a row.
FindCodecDefinition ==
  /\ pc = "codec_definition"
  /\ \/ /\ answer.codec = NoCodec
        /\ UseCodecDefinition(NONE)
     \/ /\ answer.codec # NoCodec
        /\ FirstCodecDefinition(answer.codec) # NONE
        /\ UseCodecDefinition(FirstCodecDefinition(answer.codec))
  /\ UNCHANGED codec_definitions

NewCodecAsked ==
  /\ pc = "codec_definition"
  /\ answer.codec # NoCodec
  /\ FirstCodecDefinition(answer.codec) = NONE

\* Mutant: a full block answers with its last row.
MutantLastCodec ==
  /\ NewCodecAsked
  /\ codec_definitions' = IF Len(codec_definitions) < MaxCodecs
                          THEN Append(codec_definitions, answer.codec)
                          ELSE codec_definitions
  /\ UseCodecDefinition(LastIndex(codec_definitions'))

\* ... a new codec gets a row.
AppendCodecDefinition ==
  /\ NewCodecAsked
  /\ Len(codec_definitions) < MaxCodecs
  /\ codec_definitions' = Append(codec_definitions, answer.codec)
  /\ UseCodecDefinition(LastIndex(codec_definitions'))

CodecDefinitionAsserts ==
  /\ NewCodecAsked
  /\ Len(codec_definitions) >= MaxCodecs
  /\ Abort

\* The caller keeps the index as an int16.
UseStreamingTable(index) ==
  /\ pageable_location' = [pageable_location EXCEPT
       !.streaming_sublocation_table_index = Signed(index, ShortModulus)]
  /\ pc' = "add_file_location"
  /\ UNCHANGED <<answers, shared_files, codec_definitions, file_locations, default_locations,
                 m_shared_file_index_cache, result, current, pageable_location_index>>

NoStreamingTable == Unsigned(NONE, ShortModulus)

\* build_resource_streaming_sublocation_table: nothing to stream.
NotStreamed ==
  /\ pc = "streaming_sublocations"
  /\ answer.structured
  /\ ~answer.streams
  /\ UseStreamingTable(NoStreamingTable)
  /\ UNCHANGED <<streaming_sublocation_tables, has_pageable_data>>

NewTableAsked ==
  /\ pc = "streaming_sublocations"
  /\ answer.structured
  /\ answer.streams
  /\ answer.has_owner
  /\ Len(streaming_sublocation_tables) < MaxTables
  /\ Len(answer.sublocations) <= MaxSublocations

\* ... a table is added, but the procedure emits nothing: it is removed.
DropEmptyStreamingTable ==
  /\ NewTableAsked
  /\ answer.sublocations = << >>
  /\ streaming_sublocation_tables' =
       WithoutLastTable(Append(streaming_sublocation_tables, SublocationTable(<< >>, 0)))
  /\ UseStreamingTable(NoStreamingTable)
  /\ UNCHANGED has_pageable_data

\* The index of the last table as an uns16.
TableIndex(tables) == Unsigned(LastIndex(tables), ShortModulus)

\* Mutant: the index is checked before it is narrowed.
MutantCheckedUnsigned(tables) == TableIndex(tables)

\* ... and as the int16 the caller makes of it.
CallersTableIndex(tables) == Signed(TableIndex(tables), ShortModulus)

\* The tables once one with the emitted rows is added, sorted and summed.
WithFilledTable ==
  {Append(streaming_sublocation_tables, SublocationTable(sorted, TotalMemorySize(sorted))) :
     sorted \in SortedSublocations(answer.sublocations)}

NewFilledTableAsked == NewTableAsked /\ answer.sublocations # << >>

\* An index that reads as 0xFFFF is taken for none, any other is asserted.
CallerAccepts(tables) ==
  CallersTableIndex(tables) # NONE => ValidIndex(CallersTableIndex(tables), tables)

TableHasNoBytes(tables) ==
  /\ CallersTableIndex(tables) # NONE
  /\ RowAt(tables, CallersTableIndex(tables)).total_memory_size = 0

\* ... a table is added, filled and sorted; the caller clears the flag of a
\* resource whose table has no bytes.
AppendStreamingTable ==
  /\ NewFilledTableAsked
  /\ \E tables \in WithFilledTable :
       /\ CallerAccepts(tables)
       /\ streaming_sublocation_tables' = tables
       /\ has_pageable_data' =
            [has_pageable_data EXCEPT ![current] = @ /\ ~TableHasNoBytes(tables)]
       /\ UseStreamingTable(TableIndex(tables))

\* The asserts on the struct of the definition, in streamed(), on the owner and on
\* the new table, in the callee, and on the new row of that table, in the output
\* stream the procedure writes to.
StreamingTableAsserts ==
  /\ pc = "streaming_sublocations"
  /\ \/ ~answer.structured
     \/ /\ answer.streams
        /\ \/ ~answer.has_owner
           \/ Len(streaming_sublocation_tables) >= MaxTables
           \/ Len(answer.sublocations) > MaxSublocations
  /\ Abort

\* The VALID_INDEX assert of the caller: the table is filled, but its narrowed
\* index is not that of a row.
TableIndexAsserts ==
  /\ NewFilledTableAsked
  /\ \E tables \in WithFilledTable :
       /\ ~CallerAccepts(tables)
       /\ streaming_sublocation_tables' = tables
  /\ pc' = "aborted"
  /\ UNCHANGED <<answers, shared_files, codec_definitions, file_locations, default_locations,
                 m_shared_file_index_cache, has_pageable_data, result, locals>>

\* add_or_get_file_location, its index kept by the caller.
UseFileLocation(index) ==
  /\ pageable_location_index' = index
  /\ pc' = "assign_location"
  /\ UNCHANGED <<answers, shared_files, codec_definitions, streaming_sublocation_tables,
                 default_locations, m_shared_file_index_cache, has_pageable_data,
                 result, current, pageable_location>>

\* Mutant: the row is overwritten with the local as it is counted.
MutantOverwrites(locations, index) ==
  [locations EXCEPT ![index + 1] =
     [pageable_location EXCEPT !.resource_reference_count =
        Unsigned(locations[index + 1].resource_reference_count + 1, ShortModulus)]]

\* ++resource_reference_count, an unsigned short.
CountReference(locations, index) ==
  [locations EXCEPT ![index + 1].resource_reference_count = Unsigned(@ + 1, ShortModulus)]

\* Mutant: an equal row is reused, as the comment in the header may be read.
MutantReusesEqualRow ==
  LET equal == {i \in DOMAIN file_locations :
                  [file_locations[i] EXCEPT !.resource_reference_count = 0] = pageable_location}
  IN  /\ pc = "add_file_location"
      /\ pageable_location.memory_size # 0
      /\ Len(file_locations) < MaxFileLocations
      /\ IF equal = {}
         THEN /\ file_locations' = CountReference(Append(file_locations, pageable_location),
                                                  Len(file_locations))
              /\ UseFileLocation(Len(file_locations))
         ELSE \E i \in equal : /\ file_locations' = CountReference(file_locations, i - 1)
                               /\ UseFileLocation(i - 1)

\* A location with bytes gets a row of its own.
AppendFileLocation ==
  LET locations == Append(file_locations, pageable_location)
  IN  /\ pc = "add_file_location"
      /\ pageable_location.memory_size # 0
      /\ Len(file_locations) < MaxFileLocations
      /\ file_locations' = CountReference(locations, LastIndex(locations))
      /\ UseFileLocation(LastIndex(locations))

\* Mutant: only appended rows are counted.
MutantUncounted ==
  /\ pc = "add_file_location"
  /\ pageable_location.memory_size = 0
  /\ ValidIndex(0, file_locations)
  /\ RowAt(file_locations, 0).memory_size = 0
  /\ UseFileLocation(0)
  /\ UNCHANGED file_locations

\* One without bytes shares row 0, whatever else was found out about it.
ReuseNullFileLocation ==
  /\ pc = "add_file_location"
  /\ pageable_location.memory_size = 0
  /\ ValidIndex(0, file_locations)
  /\ RowAt(file_locations, 0).memory_size = 0
  /\ file_locations' = CountReference(file_locations, 0)
  /\ UseFileLocation(0)

\* The asserts on the new row, and on row 0 being there and having no bytes.
FileLocationAsserts ==
  /\ pc = "add_file_location"
  /\ IF pageable_location.memory_size # 0
     THEN Len(file_locations) >= MaxFileLocations
     ELSE ValidIndex(0, file_locations) => RowAt(file_locations, 0).memory_size # 0
  /\ Abort

\* The last statements of build_and_assign_pageable_resource_location.
AssignLocation ==
  /\ pc = "assign_location"
  /\ LocationIndex[current] \in DOMAIN default_locations
  /\ default_locations' = [default_locations EXCEPT
       ![LocationIndex[current]] = Signed(pageable_location_index, ShortModulus)]
  /\ Return("true")
  /\ UNCHANGED <<answers, shared_files, codec_definitions, streaming_sublocation_tables,
                 file_locations, m_shared_file_index_cache, has_pageable_data>>

\* ASSERT(VALID_INDEX(resource_data->location_index, ...)), made this late.
AssignLocationAsserts ==
  /\ pc = "assign_location"
  /\ LocationIndex[current] \notin DOMAIN default_locations
  /\ Abort

-------------------------------------------------------------------------------

CallStep ==
  \/ DescribeFails
  \/ FindCachedSharedFile
  \/ AppendSharedFile
  \/ FindOwnSharedFile
  \/ SharedFileAsserts
  \/ FindCodecDefinition
  \/ AppendCodecDefinition
  \/ CodecDefinitionAsserts
  \/ NotStreamed
  \/ DropEmptyStreamingTable
  \/ AppendStreamingTable
  \/ StreamingTableAsserts
  \/ TableIndexAsserts
  \/ AppendFileLocation
  \/ ReuseNullFileLocation
  \/ FileLocationAsserts
  \/ AssignLocation
  \/ AssignLocationAsserts

\* The caller has asked about every resource, or is gone.
Finished ==
  /\ pc = "aborted" \/ (pc = "idle" /\ \A r \in Resources : result[r] # "pending")
  /\ UNCHANGED vars

Next ==
  \/ \E r \in Resources : BeginCall(r) \/ BeginCallAsserts(r)
  \/ CallStep
  \/ Finished

\* A call runs on one thread and waits for nothing, so each of its steps is
\* taken; whether another call follows is the caller's affair.
Spec == Init /\ [][Next]_vars /\ WF_vars(CallStep)

-------------------------------------------------------------------------------
(* Properties.                                                               *)

FileLocation ==
  [codec_index : Int,
   shared_file_index : Int,
   streaming_sublocation_table_index : Int,
   memory_size : Nat,
   checksums_valid : BOOLEAN,
   resource_reference_count : 0 .. ShortModulus - 1]

SharedFileRow == [file_name : Paths, global_location_index_offset : Int]

StreamingTable ==
  [stream_locations : Seq(StreamingSublocation), total_memory_size : 0 .. LongModulus - 1]

Operations ==
  {"idle", "describe", "codec_definition", "streaming_sublocations",
   "add_file_location", "assign_location", "aborted"}

\* Every variable has its type, and a call in progress is one about a resource
\* that has no result yet.
TypeOK ==
  /\ answers \in [Resources -> Answers]
  /\ shared_files \in Seq(SharedFileRow)
  /\ codec_definitions \in Seq(Codecs)
  /\ streaming_sublocation_tables \in Seq(StreamingTable)
  /\ file_locations \in Seq(FileLocation)
  /\ default_locations \in [0 .. DefaultLocationCount - 1 -> Int]
  /\ DOMAIN m_shared_file_index_cache \subseteq Files
  /\ m_shared_file_index_cache \in [DOMAIN m_shared_file_index_cache -> Int]
  /\ has_pageable_data \in [Resources -> BOOLEAN]
  /\ result \in [Resources -> {"pending", "true", "false"}]
  /\ pc \in Operations
  /\ current \in Resources \cup {NoResource}
  /\ current \in Resources => result[current] = "pending"
  /\ pc \notin {"idle", "aborted"} => current \in Resources
  /\ pc = "idle" => current = NoResource
  /\ pageable_location \in FileLocation
  /\ pageable_location_index \in Int

NoneOrValid(index, table) == index = NONE \/ ValidIndex(index, table)

\* The indexes a file_location carries, narrowed to 8 and 16 bits on their way,
\* are those of rows that exist.
NamesRows(location) ==
  /\ NoneOrValid(location.codec_index, codec_definitions)
  /\ NoneOrValid(location.shared_file_index, shared_files)
  /\ NoneOrValid(location.streaming_sublocation_table_index, streaming_sublocation_tables)

LocatedAt(r) == default_locations[LocationIndex[r]]

\* No index dangles: not in a file_location, in the location being built, in
\* the cache of shared files, nor in the default_locations row of a resource
\* the caller was told is located.
IndexesResolve ==
  /\ \A i \in DOMAIN file_locations : NamesRows(file_locations[i])
  /\ NamesRows(pageable_location)
  /\ NoneOrValid(pageable_location_index, file_locations)
  /\ \A file \in DOMAIN m_shared_file_index_cache :
       NoneOrValid(m_shared_file_index_cache[file], shared_files)
  /\ \A r \in Resources : result[r] = "true" =>
       /\ LocationIndex[r] \in DOMAIN default_locations
       /\ ValidIndex(LocatedAt(r), file_locations)

\* The resources that hold the file_location of an index: those located there,
\* and the one whose call has been given the index but has not stored it yet.
Holders(index) ==
  {r \in Resources : \/ result[r] = "true" /\ LocatedAt(r) = index
                     \/ r = current /\ pageable_location_index = index}

\* resource_reference_count is the number of resources that hold the row, in
\* 16 bits: no call forgets to count itself, counts twice, or counts on a row
\* other than the one its resource ends up with.
ReferenceCountsExact ==
  \A i \in DOMAIN file_locations :
    file_locations[i].resource_reference_count =
      Unsigned(Cardinality(Holders(i - 1)), ShortModulus)

\* Only the null location is shared: two resources never end up with the same
\* bytes, and no streaming table belongs to two locations.
LocationsExclusive ==
  /\ \A i \in DOMAIN file_locations : file_locations[i].memory_size # 0 =>
       \A r, s \in Holders(i - 1) : r = s
  /\ \A i, j \in DOMAIN file_locations :
       /\ file_locations[i].streaming_sublocation_table_index # NONE
       /\ file_locations[i].streaming_sublocation_table_index =
            file_locations[j].streaming_sublocation_table_index
       => i = j

\* A codec identifier has one definition, whatever resources use it.
CodecDefinitionsDistinct ==
  \A i, j \in DOMAIN codec_definitions : codec_definitions[i] = codec_definitions[j] => i = j

\* What the cache remembers of a file is still what the gestalt says of it: the
\* row made from its path and offset, which is no other file's row; or for the
\* map's own file the row a search would find now.
SharedFileCacheCoherent ==
  \A file \in DOMAIN m_shared_file_index_cache :
    LET index == m_shared_file_index_cache[file]
        config == IoConfig[file]
    IN  IF config.path = OwnPath
        THEN index = FirstSharedFile(OwnPath)
        ELSE /\ ValidIndex(index, shared_files)
             /\ RowAt(shared_files, index) = SharedFile(config.path, config.io_offset)
             /\ \A other \in DOMAIN m_shared_file_index_cache \ {file} :
                  m_shared_file_index_cache[other] # index

\* No streaming table is left empty or out of order, not even when a call gives
\* back the one it added.
StreamingTablesSorted ==
  \A i \in DOMAIN streaming_sublocation_tables :
    LET rows == streaming_sublocation_tables[i].stream_locations
    IN  /\ rows # << >>
        /\ \A j, k \in DOMAIN rows : j < k => rows[j].memory_offset <= rows[k].memory_offset

RowsStay(table) == \A i \in DOMAIN table : i \in DOMAIN table' /\ table'[i] = table[i]

LocationsStay ==
  \A i \in DOMAIN file_locations :
    /\ i \in DOMAIN file_locations'
    /\ \E count \in 0 .. ShortModulus - 1 :
         file_locations'[i] = [file_locations[i] EXCEPT !.resource_reference_count = count]

CacheStays ==
  \A file \in DOMAIN m_shared_file_index_cache :
    /\ file \in DOMAIN m_shared_file_index_cache'
    /\ m_shared_file_index_cache'[file] = m_shared_file_index_cache[file]

AssignmentsStay ==
  \A r \in Resources : result[r] # "pending" =>
    result'[r] = result[r] /\ LocatedAt(r)' = LocatedAt(r)

\* What has been handed out is never disturbed: a step may add rows to a table
\* and count a reference, but every row stays where and as it is, and so do
\* what the cache remembers and what a resource was assigned.
HandedOutRowsStay ==
  [][/\ RowsStay(shared_files)
     /\ RowsStay(codec_definitions)
     /\ RowsStay(streaming_sublocation_tables)
     /\ LocationsStay
     /\ CacheStays
     /\ AssignmentsStay]_vars

\* A call that has begun returns to its caller, or fails an assert.
EveryCallReturns == pc # "idle" ~> pc \in {"idle", "aborted"}
=============================================================================
