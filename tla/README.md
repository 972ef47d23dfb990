# A verification project for ManagedMountain

ManagedMountain re-implements parts of `tool.exe`, the map builder of the Halo 3
Editing Kit. `tool_launcher.exe` starts the tool, injects `tool_hook.dll`, and
the DLL replaces functions of the tool's cache file builder by its own. This
directory models that program in TLA+, checks the models with TLC and proves
with TLAPS, for every size of the constants, each safety property that TLC checks.

    tlc -config MCResourceGestalt.cfg MCResourceGestalt.tla    (each run below)
    tlapm ResourceGestaltProofs.tla                            (each module with proofs)

Paths below are relative to `src/`; `manager.cpp` stands for
`src/source/cache/cache_file_builder_tag_resource_manager.cpp`.

## 1. The system

| component | state | operations | talks to |
|---|---|---|---|
| launcher, `launcher/main.cpp` | step it has reached, `remote_buffer`, its exit code | start the tool with the arguments forwarded, `InjectDll`, resume, wait, terminate | the tool's process through Windows |
| hook DLL, `hookdll/*.cpp` | `g_original_create_file_w`, the jump in `CreateFileW` | `DllMain`, `InstallAll`, `RemoveAll`, `DetourCreateFileW` | hook registry, logging; runs under the loader lock |
| hook registry and patches, `source/memory/module.cpp` | four arrays of modifications and their counts; the image of the tool; `m_orig` of each hook | constructors register, `apply_all_hooks`, `apply_all_patches`, `HOOK_INVOKE` | Detours |
| logging, `common/logging.cpp` | `g_log_mutex`, `g_log_handle`, `g_session_name` | `Initialize`, `Log`, `Shutdown` | every thread of the tool |
| resource gestalt, `manager.cpp` 136-502 | the tables of the `zone` tag; the map of shared file indexes | `build_and_assign_pageable_resource_location` and its four helpers | the native builder calls it once per resource; datum handlers answer it |
| zone manifests, `manager.cpp` 504-790 | the block of zone manifests, `in_out_used_resources` | `build_zone_manifest_resource_usage`, `add_resource_usage_to_zone_manifest` | bit vectors, tag blocks, the native data iterator |
| containers, `source/memory` | bits in the words of a tag block | `resize_in_bits`, `set`, `test`, `clear`, `set_all`, `bit_vector_not_and` | |
| tag files, `source/tag_files` | none of their own | `tag_block_add_element`, `tag_block_resize`, predicates on resource definitions | native functions |
| streaming output stream, `tag_resource_streaming_output_stream.cpp` | the rows written so far | whether there is room, one row per sublocation; a null stream that keeps nothing | the native procedure writes to it, into the streaming table being built |
| pointer compression, `port_64.cpp` | `m_stored` | `SetPtr`, `GetPtr`, two equalities, the conversions | |
| end-to-end test, `tests/main.cpp` | files on disk | launcher and tool runs, XML comparison | launcher, and `tool.exe` directly |

What is hard in each, and what makes it correct:

* **Resource gestalt.** A long sequence of calls over tables that all share,
  with indexes narrowed to 8 and 16 bits, tables of limited size, a row appended
  and given back, a cache of indexes, and asserts after half of the work. It is
  correct when the finished map locates every resource where its handler
  described it, when no index dangles, when counts and exclusivity hold, and when
  what has been handed out stays.
* **Streaming output stream.** A table that is in the gestalt while native code fills
  it through one stream and throws rows away through another, asking for room or not.
  Correct when nothing but the finished table is ever seen, and when room that was
  promised is there.
* **Zone manifests.** Bit vectors that round up to words, hold stale words after a resize
  and ignore indexes outside them, resizes that fail unnoticed, handles whose upper half is
  a salt. Correct when a row with room for them says of every resource and owner what the
  builder's manifest said, and when the caller gets back exactly the resources that no row
  accounts for.
* **Launcher and hook DLL.** Two processes, the thread that loads the DLL and the
  tool's own threads; a moment between each Detours commit and the store of the
  trampoline; the loader lock and the log mutex; failures of every call. Correct
  when nothing is left behind on any path, when no thread meets a half-installed
  hook, and when the launcher returns with the tool, with the tool's exit code.
* **Hook registry.** Modifications that overlap, that are reverted without having been
  applied, or that are one too many; a refusal by Windows between two of them;
  a buffer allocated before its size is known. Correct when applying puts every
  modification in place whichever constructor ran first, when reverting restores
  the image, and when nothing is stored outside the arrays.
* **End-to-end test.** Four files that outlive a run, any step of which may fail, and
  command lines composed and taken apart twice on their way to the tool.  Correct
  when a passed test has compared the tag that lies in `cache_builder`, and nothing older
  than what this run has built, and when the tool was asked what the test means.
* **Pointers and bit vectors.** Pure functions at the edges of their widths. Correct
  when what is stored comes back, for every value: these are proved, not checked.

`PROJECT.json` lists every hazard at its line with the properties that cover it.

## 2. The modules

| module | models |
|---|---|
| `Cseries` | `NONE`, `VALID_INDEX`, the narrowing casts |
| `ResourceGestalt` | one call of `build_and_assign_pageable_resource_location` after the other |
| `LocationPromise` | what those calls promise, without any table |
| `ResourceGestaltRefinement` | the first implements the second |
| `StreamingTable` | `build_resource_streaming_sublocation_table` statement by statement, with the two streams |
| `CseriesProofs`, `ResourceGestaltProofs`, `InjectionProofs`, `HookRegistryProofs`, `ZoneManifestProofs`, `TestPipelineProofs` | lemmas and theorems about the modules they name; `ResourceGestaltProofs` also about `ResourceGestaltRefinement`, `ZoneManifestProofs` about `BitVector`, `TestPipelineProofs` about `CommandLine` |
| `StreamingTableProofs` | that `StreamingTable` implements `ResourceGestalt`, and through it keeps `LocationPromise` |
| `BitVector` | `c_tag_block_bit_vector` and the bits of any vector |
| `ZoneManifest` | `build_zone_manifest_resource_usage` with the function it calls |
| `Injection` | one launch: launcher, remote thread, threads of the tool |
| `HookRegistry` | registering, applying and reverting all modifications of the image |
| `Pointer32` | `ptr32_void_t`, with the proofs about it |
| `CommandLine` | how arguments become a command line and arguments again |
| `TestPipeline` | the end-to-end test from its first check to its exit code |
| `MC*` | instances for TLC |

### ResourceGestalt

`answers` is chosen once: what the datum handler, the `streamed()` flag and the
streaming procedure will say about each resource. A call is `BeginCall`, then one
step per operation (`pc` names the next one), then `AssignLocation` or an early
return; the caller picks the resources in any order. Each lookup has one action
per outcome: found in the cache, found in the table, appended, assert failed. An
assert is an action of its own that leads to `pc = "aborted"` from which nothing
continues: the model is of the Debug build (`CMakeSettings.json`), where `ASSERT`
is `assert`. One of them is of `streamed()`, of a definition without a
`resource_struct_definition` (`structured`).

The tables are sequences; an index of the code counts from 0, and `RowAt` is the
only place that knows. `tag_block_add_element` answers `NONE` at the capacity.
The narrowings are `Signed` and `Unsigned` of a modulus, so that an index that
does not fit comes out as another one, or as a negative one, as in C++. The sort
of the sublocations answers any ascending order, since `std::sort` is not stable.

Left out: file offsets, byte sizes other than `memory_size`, the bytes of
checksums, `io_offset` beyond the one a shared file row keeps. No branch depends
on them.

### StreamingTable

Refines the one step `AppendStreamingTable` (or `DropEmptyStreamingTable`, or an assert)
of `ResourceGestalt`. The native procedure is modelled by what it may do with the two
streams it is passed: ask `streaming_output_capacity_allows_adding` for any number of
rows, mind the answer or not, and write the rows of its `emission`, each to one of the
streams, in order. The block it writes to is the last table, with a capacity
(`MaxSublocations`) and a `definition` that may be absent (no maximum is known) or
unresolved (`ASSERT(false)`). What is summed row by row is compared with the fold of
`ResourceGestalt`. `Gestalt` is the refinement mapping: a table in the making does not
count. The rest of a call runs as `ResourceGestalt` has it (`Elsewhere`).

### LocationPromise

`LocationPromise` has one step per resource: it is located as its handler
described it, or refused. The refinement mapping is the walk a reader of the
finished map makes, from the `default_locations` row through the file location to
the rows it names; it is what ties the tables together, for any wrong index
anywhere in them changes what the reader finds.

### ZoneManifest and BitVector

A step is a loop of the code or an assert. `BitVector` keeps a vector as its number
of words and the set of its bits; `Resized` lets the words it adds hold zeros or
ones, and stays as it is where the block has no room. How many resources and tag
instances there are is chosen at the start, so that the block of words has room for
both vectors, for one or for none. Handles are numbers whose index is the lower part.
`bit_vector_not_and` and the data iterator are native code, modelled by their use here.
`resource_owner_index` and `child_tag` are shorts that are assigned an `uns16`: `Short`
narrows it, so that an index in the upper half of 16 bits is negative in the row
(`Keeps` says when it can be read back). The asserts on a definition, that it is not
`NONE` and has a `resource_struct_definition`, are one action.
The three members of a manifest that nobody in `src/` writes, and its name, are left
out. `SetAll` and `ClearAll` are of vectors that end inside a word, as `c_wrapped_flags`
may: nothing in `src/` calls them on one yet, so they are proved about and not run.

### Injection

The launcher is a process of eleven actions, `InjectDll` call by call. The remote thread is
another: `LoadLibraryW`, then `DllMain` with one step between any two operations that a
thread of the tool can see: naming the session, opening the log, each attach, each store of
an original, each line logged. The threads of the tool call `CreateFileW`, call hooked
functions, and exit, as they like. A hooked function stands for
`build_cache_file_add_tag_resources` and its like: it logs, calls its original, logs again,
and may fail an assert: `ASSERT` is the assert of C, which ends the process by `abort`,
without a line of log, the loader lock or a word to the DLL, where a thread that calls
`exit` goes through all of them. A line is composed first, from the name of the session and
outside the mutex, then waits for the mutex and is written, by the remote thread in
`DllMain` as by the others. Windows may refuse every call whose result the code looks at. Of
Windows itself the model takes: a thread in `DllMain` holds the loader lock, threads that
start or end the process wait for it, ending the process ends its other threads first,
wherever they are. That is why a thread that was logging may leave `g_log_mutex` locked for
`Shutdown`; `Detach` lets the exit code be any other then.

### HookRegistry

One action registers a modification (its constructor), one applies or reverts one
address of one modification: `place` is the loop variable of `apply_all_hooks` and
`apply_all_patches`, and of the loop in `c_data_patch_array::apply`. `memory` holds,
for every byte of a small image, who wrote it last; `originals` what a modification
has saved. The DLL may declare any of `Modifications`, whose constructors run in
any order, in an image at its preferred base or moved. `Overwrite` is the two
`VirtualProtect` around the copy, of which the first or the last may be refused.

A call, a detour or a patch whose address comes out as 0 or as the marker `0xFEFEFEFE`
(`Unset`) is passed over by both loops (`Skip`), whatever it was declared with.

The addresses of an array are taken as they are (`module.cpp:319` ignores
`remove_base` and the base of the image). Once a modification was stored outside its
array nothing more is said (`Sound`). The buffer of a `c_data_patch` has 0 bytes,
because `m_byte_count` (`module.h:144`) is initialised after `m_bytes_original`
(`module.cpp:238`): saving to it overruns the heap, so that a patch may revert to
anything (`Held`) and the next use of the heap may crash (`HeapCrashes`). What else
the overrun may damage is left out. What happens while other threads run is in
`Injection`.

### TestPipeline

`Step` has one action for each step of `wmain` and one for its failure. A tag stands
for what the tool exports of it; a text is the sequence of its lines. A tool that
exits with 0 may have created nothing: the test checks that the files are there, but
only the XML it has removed before, so that a build which writes nothing leaves the tag
of an earlier one to be compared. A tool that fails may have written its file all the
same. The comparison is a loop of one action per line.

The paths of launcher, tool and XML have blanks or not, and `tool_argv` is what the tool
was last started with: of the build, what comes through the command line of the test,
the arguments of the launcher and the command line of the launcher (`BuildArguments`);
of the export, what the test writes itself. In `CommandLine` an argument is the sequence
of its words, and a command line one of pieces, quoted or not: `CommandLineToArgv` takes
a quoted piece for one argument and each word of another for one. Quotes inside
arguments are left out, none of the arguments of the test has any.
`MCLauncherArguments` starts the launcher with any arguments for the tool.

## 3. The runs

| run | states | bounds | what it shows |
|---|---|---|---|
| `gestalt` | 152320 | 3 resources, 8 answers, 4 files of which two share a path, 2 codecs, room in every table | tables consistent, promise kept |
| `gestalt_limits` | 609237 | 4 resources, tables of 1 to 3 rows, a table for one sublocation, 2-bit shorts, two bad location indexes, an answer without an owner and one without a struct | no wrong index or location gets past the asserts of full tables and narrowed indexes, nor past a failed one |
| `streaming_table` | 449472 | 3 resources, 5 procedures that write up to 3 rows of which one may go to the null stream, room for 2, the definition there, absent or unresolved, 2-bit shorts | the function is the one step of `ResourceGestalt`, room promised is there, every call returns |
| `injection` | 13139 | 2 hooks, 2 threads that log, with and without a debugger, 3 exit codes, a handle whose lower half is 0 | nothing is left behind, originals lead to native code, nobody logs into a log that is not ready; a suspended start protects the tool's threads, and the launcher sees the tool through |
| `zone_manifest` | 86292 | up to 3 manifests for 2 rows, 3 or 7 resources and 5, 7 or 8 tag instances in up to 3 words of 2 bits, 7 nodes, 3 tags, indexes of 3 bits and shorts of as many, lists of resources and of cleared ones | rows with room say what the builder said, the others nothing else |
| `hook_registry` | 239982 | any of 5 modifications (a call, a detour, two patches, an array of two addresses), an image of 9 bytes in 3 pages at its base or moved to two others, in one of which an address is the marker and another is not mapped | applying puts them in place, reverting restores the image |
| `test_pipeline` | 142872 | texts of up to 3 lines of 2 kinds, 2 stale ones, 3 exit codes, 3 paths with blanks or without | the tool is asked what the test means, and a verdict is exact and about this run's build, if it built anything |
| `injection_comment` | | as `injection` | finding 1 |
| `zone_manifest_comment` | | as `zone_manifest` | finding 2 |
| `hook_registry_limit` | | arrays of one modification | finding 3 |
| `test_pipeline_message` | | as `test_pipeline` | finding 4 |
| `launcher_arguments` | | up to 3 arguments of up to 2 words | finding 5 |

Why these bounds are enough. In *gestalt* two resources suffice for one call to disturb what
another left; the third lets a disturbance come between a store and its use, and lets a row
be appended, given back and appended again. The answers cover every branch: no pageable
data, no description, plain, streamed in and out of order with equal offsets, streamed but
empty, sizes that sum to 0, a size of 0 with tables, no codec, the map's own file, and two
files of one path. The small widths make every narrowing bite within a few rows; the sums of
`LongModulus` do not wrap, an assumption on the answers (sizes are parts of a 32-bit size).
In *streaming_table* the procedures write no row, one without bytes, rows out of order, rows
of equal offset and one row too many; the third table is the first whose index does not fit
a short of two bits. In *injection* hooks are independent but for their order, so two
suffice for "one before and one after"; two threads suffice for one that waits or is killed
and one that goes on. In *zone_manifest* three resources and five tags in words of two bits
leave a bit over, seven of either have no room, and of eight tags there are no nodes; one
handle is another's index under another salt, one index lies outside every vector, and one
tag and two of the children have indexes that are negative as shorts. In *hook_registry*
every kind meets every other in the order of the loops, the detour and a patch overlap
across a page boundary, and refusals fall on any of the addresses. In *test_pipeline* three
lines let either file end before, with and after the other, in empty lines or not; each path
has blanks independently of the others, as below "Program Files (x86)", where `test.ps1:29`
looks for the kit.

**Fairness.** `ResourceGestalt` and `ZoneManifest`: weak fairness of the steps of
a call, since a call is sequential code that waits for nothing; whether another
call comes is the caller's affair. `StreamingTable`: the same, of the function and of
the rest of the call; with it the native procedure is taken to return, as it must for
the builder to go on at all (`granted` keeps it from asking for room forever).
`Injection`: weak fairness of the launcher, of the remote thread, of a process that has
begun to exit, and of the write of a thread that holds the log mutex, each of which
Windows schedules; none of what else the tool's own threads do, so no liveness property
depends on the tool ever exiting. As the mutex is not fair, `InjectionSettles` allows
for threads that log forever. `HookRegistry` and `TestPipeline` are sequential and have
safety properties only: they assume none.

Deadlock is checked in every run but `launcher_arguments`, whose one step is its last:
`Finished` is the only way to stop.

**Where properties hold only in part.** `NeverHalfInstalled`, `ExitCodeReported` and
`ToolNotInterrupted` speak of a start without a debugger. With one the code creates the
tool running, by intention: its threads may then meet a half-installed hook, and a
failed injection terminates a tool that was at work. `ExitCodeReported` holds for a
tool that exited by itself; the codes 1, 2 and 3 of the launcher cannot be told from
those of a tool. `GrantedRowsStored` does not speak of a block without a definition
entry, which promises room for any number of rows. `ImageRestored` does
not speak of bytes that a data patch or two modifications cover, and
`RevertGetsThrough` not of a heap that a patch has overrun, so that nothing is claimed of
what `module.cpp:238` does to a patch; both speak only of
what was applied, since `DllMain` also reverts what never was (`module.cpp:267`) and no
source says to what end. `ResourcesRecorded` and `OwnersRecorded` do not ask a vector whose
block had no room for the bits it lost. `VerdictAboutThisBuild` lets a build that exits
with 0 and writes nothing pass with the tag of an earlier one.

### Findings

1. `hookdll/dllmain.cpp:16-17` says that "the launcher resumes the tool only after
   hooks are committed". `DllMain` returns `TRUE` when the log cannot be opened
   (line 20) and when `InstallAll` fails (line 29), so `LoadLibraryW` succeeds and
   the launcher resumes a tool without hooks.
2. `manager.cpp:504` says that `build_zone_manifest_resource_usage` "returns a
   bitvector of used resources". It takes the used ones out of the bit vector it
   is passed: what is left are those it did not use.
3. `module.cpp:137` (and 196, 240, 292) asserts `VALID_COUNT(count, 4096)` before it
   stores at `array[count]`. `cseries/cseries.h:15` defines `VALID_COUNT` as `<`, which
   would keep the store inside; `cseries/cseries_macros.h:183`, included later,
   redefines it as `<=`, and count 4096 passes.
4. `tests/main.cpp:202` prints "XML files are identical." of files that differ in empty
   lines at the end: a line behind the end is compared as an empty one (lines
   184-185).
5. `launcher/main.cpp:20-34` joins the arguments for the tool with blanks and quotes none,
   so that one with a blank in it reaches the tool as two and an empty one not at all;
   the usage (line 217) says "[arguments passed to tool...]". The test passes no such
   argument through the launcher: `ToolAskedAsMeant` holds.

## 4. The proofs

Each theorem holds for all constants that meet the named assumptions of its module; the
run of that module shows the same of a small instance. Where a property is not inductive,
the invariant that is was first checked by TLC on the instance of the run.

Loops that the models take as one step are folds, and what a fold computes takes an
induction. `CseriesProofs` has what it rests on: a set of numbers that has 0 and with each
number the next has all of them (`AllUpTo`, from the least element that it lacks), so that
a fold over a sequence has a value after each of its elements, each from the one before
(`FoldExists`, `FoldSteps`). The lemmas that end in `Steps` say so of the folds of the
modules, and the facts about them are then proved element by element.

### Resource gestalt (`ResourceGestaltProofs`)

* `TypeCorrect`: `Spec => []TypeOK`.
* `HandedOutRowsKept`: `Spec => HandedOutRowsStay`. No step moves or rewrites a row,
  a cached index or an assignment. It needs `TypeOK` and the lemma that the table
  a call adds and gives back leaves no trace (`AddedTableGivenBack`).
* `IndexesAlwaysResolve`: `Spec => []IndexesResolve`. The inductive invariant is
  `IndexInvariant`: `IndexesResolve` alone is not inductive, because that a narrowed
  index is the index of its row depends on how many rows there are. It adds
  `TypeOK`, that the blocks of shared files, codecs and locations stay within
  their capacities, and that the last step has an index to store. `LongerTable`
  says that appending leaves indexes valid, `NarrowedIndex` that an index of a
  table no longer than half the modulus survives its cast; streaming tables have
  no such bound, and there the assert of the caller is what the proof uses.
* `CodecsDefinedOnce` and `TablesStaySorted`, each inductive by itself with `TypeOK`:
  a row is appended only after the search failed, a table enters the gestalt sorted.
* `SharedFileCacheStaysCoherent`: with `IndexInvariant`, because a cached index must
  still be valid for what it says to mean anything, and since appending a row cannot
  change which row is the first of a path (`LeastElement` of `CseriesProofs`).
* `ReferenceCountsStayExact`: not inductive, since the row a call appends starts to count
  at what the local says. `HolderInvariant` adds that this is 0 throughout, and
  `IndexInvariant` which row a call holds that has not stored its index yet; that the
  step which stores it makes another holder of nobody needs `LocationIndexesDistinct`.
* `LocationsStayExclusive`: that two resources share only the null location is part of
  `HolderInvariant`. That no streaming table belongs to two locations takes an invariant
  of its own (`TableInvariant`): a new table has a new place in the block, but its index is
  cast to 16 bits twice, and nothing bounds the block. A table past the 2^16th would have
  the index of another. There are no more tables than resources that asked for one
  (`TablesCounted`), and no more resources than location indexes, which are shorts
  (`FewResources`).
* `TotalIsRemainder`: the total of a streaming table is the remainder of the plain sum of
  its sizes, for any number of rows; so that, by `SizesDoNotWrap`, it is 0 only if
  there are no bytes.

### The promise (`ResourceGestaltProofs`)

`LocationPromiseKept`: `Spec => KeepsLocationPromise`. Every step of `ResourceGestalt` is,
under the mapping of `ResourceGestaltRefinement`, a step of `LocationPromise` or none: the
assignment at the end of a call locates one resource as its handler described it, a call
that returns early refuses it, and no other step changes what a reader of the map finds.
The inductive invariant is `PromiseInvariant`: `IndexInvariant` and
`SharedFileCacheCoherent`; that there are no more tables than non-negative shorts unless the
call is aborted (`TablesShort`, with `ShortsAssumption`: the assert of the caller stops the
first index that is negative, before one reads as `NONE`); that a resource not yet called
still has the flag its handler gave (`FlagsPending`); and for the call under way, that
what a reader would find through `pageable_location`, as far as it is filled in, is what
`LocationPromise` allows (`CallPromise`). The resources whose calls are over are
covered by `RowsStay`: a row that was handed out says the same in the longer tables.

### Streaming tables (`StreamingTableProofs`)

`GestaltImplemented`: `StreamSpec => ImplementsGestalt`. Under the mapping `Gestalt`, which does
not see the table in the making, each statement of `build_resource_streaming_sublocation_table`
is a stutter until it returns, and then the one step of `ResourceGestalt` that adds the table,
adds none or fails its assert; every other step of a call is the same step. It holds for
any procedures, whatever they write to either stream and ask in between, and blocks of any
size; only `CapacityAsserts`, which `ResourceGestalt` does not have, is added. The inductive
invariant is `StreamInvariant`: that the answers are what the procedures write
(`EmissionsFixed`), and that the last table holds what has been written so far, or that
sorted, with the sum so far, and was added where there was room for it (`TableInMaking`).
That an assert on the last row is justified, though the procedure has more to write, is
`WrittenGrows`: what has reached a stream is not taken back.

`StreamedAsPromised` is both refinements as one theorem: with each statement of the function a
step of its own, whatever the procedures write, a reader who walks the finished tables finds
every resource as its handler described it. It applies all that is proved of `ResourceGestalt`
to the tables without the one in the making (the instance `Seen` of `ResourceGestaltProofs`);
`CapacityAsserts`, the step `ResourceGestalt` does not have, is covered by
`AbortKeepsPromise`: an assert that fails at any point of a call leaves the promise kept.

`StreamTypeCorrect` follows, and `GrantedRowsAlwaysStored`, by `RoomGranted`: of the room that
was granted as much is left as rows are to come.

### Zone manifests (`ZoneManifestProofs`)

For manifests, tags, lists, words and blocks of any number and size:

* `TypeCorrect`, `ResourcesAlwaysRecorded`, `OwnersAlwaysRecorded`, `HierarchyAlwaysRecorded`,
  `AlwaysStruckExactly` and the action property `DoneRowsFinal`. The properties speak of the
  rows that are done only. The inductive invariant, `ZoneInvariant`, adds the row that the
  loop is at (`RowInProgress`): after each step what the steps so far have recorded of
  it, and that no step takes back what another has recorded. `RecordKeeps` to `StrikeKeeps`
  have one proof per step.
* The steps are folds. `SetIndexesExact`, `SetBitsExact` and `ResetBitsExact` say which bits the
  loops over handles, resources and cleared ones leave set; `VisitTagsExact` that each tag
  is at its own index when the data iterator has passed all of them, which needs
  `TagIndexesDistinct`. That every index comes back from the short it is kept in, also
  from a negative one, is `SignedIsReadBack` of `CseriesProofs`.
* Of `BitVector`: `SetAllExact`, that `set_all` sets the bits below the count and no other, also
  of a vector that ends inside a word; `ClearLeavesNothing`; and `SetIsTested`, that setting or
  resetting an index changes what `test` says of it, if the vector has it, and of no other.
  They rest on `WordsBelow`: the first words are the bits below their number of bits, no
  more and no less. `ResizedAndCleared` is that the stale words of a resized vector are
  gone before they are read, whether or not the block had room.

### The test (`TestPipelineProofs`)

* `VerdictAlwaysAboutThisBuild`, `ToolAlwaysAskedAsMeant` and the action property
  `VerdictAlwaysExact`, for any paths, texts of any length and any exit codes. The inductive
  invariant is `PipelineInvariant`: where the tag of this run is at each step, if the build
  has written one, and that nothing but the tag in `cache_builder` is where it will be
  looked for (`BuildFollowed`); that no difference is
  counted exactly as long as the lines seen so far are the same (`DifferencesCounted`).
* What the tool is asked takes the command line apart again. `EachPieceAnArgument`: a line of
  pieces that are quoted or single words comes back as its pieces, for any number of
  them, and so does what the launcher makes of it (`BuildAskedAsMeant`).
* `SingleWordsForwarded`: the launcher passes on any number of arguments as they were if each is
  one word. It is the other side of finding 5.

### Injection (`InjectionProofs`)

* `TypeCorrect`; `ToolNeverLeftBehind`, `PathAlwaysFreedInTime`, `ExitCodeAlwaysReported` and
  the action property `ToolNeverInterrupted`. Their inductive invariant,
  `LauncherInvariant`, says where the tool and the remote thread can be at each step of
  the launcher: that it waits for a remote thread as long as there is one, that the buffer
  is there exactly from its allocation to the wait, and that a tool that was started
  suspended stays so until the launcher resumes it.
* `OriginalsAlwaysReachNative`, `LogAlwaysReady`, `HooksNeverSeenHalfInstalled`, for any
  number of hooks and threads. Their inductive invariant is `HookInvariant`: what the remote
  thread has done when it reaches a step of `DllMain` (`RemoteProgress`), that a thread is
  in a function of the DLL only through a jump made after the log was opened
  (`DetoursAfterLog`), and that an ended process has no threads (`ThreadsEnd`). What a
  thread may meet is decided by the order of the steps of `DllMain`, which none of the
  three properties mentions.

### Hook registry (`HookRegistryProofs`)

For any set of modifications, any order of the constructors, any addresses that overlap or
not, and any image:

* `TypeCorrect`. The inductive invariant is `RegistryInvariant`, which adds to `TypeOK` that
  buffers hold what may be written to memory, and that nothing is in memory before the
  first apply.
* `ProtectionAlwaysKept`, from the same; the action property `RevertAlwaysGetsThrough`, by
  `ArraysSaved`: after an apply every array has a snapshot for each place passed, since it
  saves before it writes and whether or not it may write.
* `ModificationsAlwaysInPlace`, by `InPlace`: half-way through the loops a byte is that of the
  last modification they have reached it for. `TargetIsMeant` is the arithmetic of
  `normalize_hook_target_rva`: it finds the address a declaration means in an image that
  was moved.
* `ImageAlwaysRestored`, by two invariants. `UncoveredOriginal`: what no place covers is never
  written. `SoleRestorable`: of a byte that one place covers, the buffer of that place
  holds the original from the moment the apply has been there, and of a detour as long
  as it is attached; and the byte is the original or else there is something to revert it
  with. It needs that no modification is in the order twice (`OrderInjective`), as
  another turn would save the jump for the original.

### Assumptions

Of `ResourceGestalt`: a finite set of resources, each with a `default_locations` row of its
own (`LocationIndexesDistinct`), whose indexes are shorts (`LocationIndexesAreShort`: the
type of `location_index`); capacities small enough for the signed narrowings of codecs,
shared files and locations (the native blocks' limits); `io_offset`s that are natural
numbers; and answers of their type (`AnswersAssumption`). `SizesDoNotWrap`: the sizes of a
resource's sublocations, which are `int`s, add up to no negative number and to less than
2^32, being those of parts of one resource, whose own size is a 32-bit number. Only
`LocationPromiseKept` uses it. `ShortsAssumption` of `ResourceGestaltRefinement` is that a
short has as many negative values as others, and more than one. `EmissionsAssumption` of
`StreamingTable` is the type of what procedures write.

Of `ZoneManifest`: types, that the bits the caller passes are within its vector
(`ZoneAssumption`), and that the data iterator yields each tag once (`TagIndexesDistinct`).
`InjectionAssumption` keeps the names of threads, hooks and nobody apart. Of
`HookRegistry`: each modification has addresses and bytes (`HookAssumption`), and the offset of
an address from the preferred base, which the code keeps in 32 bits, has no more of them
(`OffsetsAssumption`: the DLL declares addresses of the tool's image, and a PE image is
smaller than 2^32 bytes). Of `TestPipeline`: a text is a sequence of lines, the codes that
mean something are apart from the others (`TextsAssumption`), and a path is not empty
(`PathsAssumption`: an empty one would be no word of a command line).

`CseriesProofs` holds the facts about casts, remainders, least elements and folds.

### Pointers (`Pointer32`)

For every base, widths and place of the empty string that meet
`Layout`: `CompressedExpands` and `ExpandedCompresses`, that compressing and expanding
undo each other, and from these `SetIsGot` and `EqualitiesAgree`, that a stored pointer is
what comes back and that both equalities are that of pointers. They except what the
asserts of `CompressPtr` admit by mistake (`Mistakable`): the very base of the tag
memory, which `BaseBecomesNull` shows to come back as the null pointer, and the last
four bytes in reach, whose number is that of the empty string; and numbers that reach
round to address 0 or to the empty string (`Unmistaken`).

### Model-checked only

All liveness (`EveryCallReturns`, `CallReturns`, `InjectionSettles`, `ToolExitNoticed`) and the
absence of deadlock, which take fairness and `ENABLED` and are beyond the prover. So are the
properties that the findings refute. Every other property of a run is the subject of a
theorem.

## 5. What is not modelled, and the plan

Done, in this order: `ResourceGestalt`, `LocationPromise` and the refinement, their
proofs, `Injection`, `BitVector` and `ZoneManifest`, `HookRegistry`, `TestPipeline`,
`Pointer32`; then `StreamingTable`, the logging in `Injection`, the blocks without room in
`ZoneManifest`, `CommandLine`; then the proofs of the safety properties of `ResourceGestalt`, of
both refinements, of `Injection`, `HookRegistry`, `ZoneManifest` and `TestPipeline`. To come:

1. as lemmas of `InjectionProofs`, that a thread that holds the log mutex can always write and
   leave it, and of `ResourceGestaltProofs` and `ZoneManifestProofs` that each step of a call
   brings it closer to its end: the safety half of the liveness properties.

Left out for good:

* file offsets, `io_offset` and the sizes no branch reads (`manager.cpp:241`);
* the wrappers in `tag_files` and `memory/array.cpp`, each of which calls the native
  function: the models use a tag block with a capacity and an iterator instead;
* `validate_vtable`, `ResolveTargetByPattern`, `ResolveTargetByRva`, `buffer_as_byte_string`
  and `patch_pointer`, which nothing in `src/` calls;
* `static_arrays.h` and the array interfaces of `wrapped_arrays.h`, which but for a string
  of fixed size and a count are declared and not defined; the layouts of native structures;
  string and time formatting; build files. None of these has control of its own.
