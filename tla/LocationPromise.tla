---------------------------- MODULE LocationPromise ----------------------------
(***************************************************************************)
(* What the pageable-location code of the cache file builder promises its  *)
(* caller, without the tables it keeps: in one step a resource is given    *)
(* the location its datum handler described, or is refused, and whatever   *)
(* happens to the other resources afterwards that location stays as it is. *)
(* How a reader of the finished map finds the location through the tables  *)
(* is the refinement mapping of ResourceGestaltRefinement.                 *)
(***************************************************************************)
EXTENDS Integers, FiniteSets, Sequences, SequencesExt

CONSTANTS Resources, Answers, IoConfig, NoCodec

VARIABLES
  answers,   \* what the handler says about each resource
  location   \* what a reader finds for each resource

vars == <<answers, location>>

Pending == [status |-> "pending"]
Refused == [status |-> "refused"]

Bytes(sublocations) ==
  FoldLeft(LAMBDA sum, row : sum + row.memory_size, 0, sublocations)

\* The same rows, each as often, in ascending order of their offset.
Ordered(sublocations) ==
  {s \in [DOMAIN sublocations -> ToSet(sublocations)] :
     /\ \A i, j \in DOMAIN s : i < j => s[i].memory_offset <= s[j].memory_offset
     /\ \A row \in ToSet(sublocations) :
          Cardinality({i \in DOMAIN s : s[i] = row}) =
          Cardinality({i \in DOMAIN sublocations : sublocations[i] = row})}

Streams(answer) ==
  answer.any_pageable_data /\ answer.streams /\ answer.sublocations # << >>

\* What may be streamed of a resource, and the total a reader finds with it.
StreamedParts(answer) ==
  IF Streams(answer)
  THEN {[sublocations |-> s, bytes |-> Bytes(s)] : s \in Ordered(answer.sublocations)}
  ELSE {[sublocations |-> << >>, bytes |-> 0]}

\* The flag a reader trusts before it looks for pages: off only when there are
\* none, or none with bytes.
HasPages(answer, parts) ==
  answer.any_pageable_data /\ (Streams(answer) => parts.bytes # 0)

\* A resource without pageable bytes gets the null location.
NullLocation(answer, parts) ==
  [status |-> "null", has_pages |-> HasPages(answer, parts)]

PagedLocation(answer, parts) ==
  [status       |-> "paged",
   has_pages    |-> HasPages(answer, parts),
   path         |-> IoConfig[answer.file_index].path,
   codec        |-> answer.codec,
   memory_size  |-> answer.memory_size,
   checksummed  |-> answer.has_checksum,
   sublocations |-> parts.sublocations,
   bytes        |-> parts.bytes]

Promised(answer) ==
  {IF answer.any_pageable_data /\ answer.memory_size # 0
   THEN PagedLocation(answer, parts)
   ELSE NullLocation(answer, parts) : parts \in StreamedParts(answer)}

Init ==
  /\ answers \in [Resources -> Answers]
  /\ location = [r \in Resources |-> Pending]

Locate(r) ==
  /\ location[r] = Pending
  /\ \/ ~answers[r].any_pageable_data
     \/ answers[r].describes
  /\ \E l \in Promised(answers[r]) : location' = [location EXCEPT ![r] = l]
  /\ UNCHANGED answers

Refuse(r) ==
  /\ location[r] = Pending
  /\ answers[r].any_pageable_data
  /\ ~answers[r].describes
  /\ location' = [location EXCEPT ![r] = Refused]
  /\ UNCHANGED answers

Next == \E r \in Resources : Locate(r) \/ Refuse(r)

Spec == Init /\ [][Next]_vars
=============================================================================
