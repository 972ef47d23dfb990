----------------------------- MODULE MCZoneManifest -----------------------------
(***************************************************************************)
(* Up to two manifests, and one too many.  Words have two bits, so three   *)
(* resources and five tags leave a bit over, while seven need a word more  *)
(* than a block has, and for eight tags there are no nodes either.  Handle *)
(* 9 is index 1 under another salt; index 5 is outside every vector of     *)
(* resources, index 7 outside every vector.  Of the three-bit indexes a    *)
(* short holds -4 .. 3, so tag 4 has a negative one.                       *)
(***************************************************************************)
EXTENDS ZoneManifest

MCTags == <<0, 9, 4>>

Item(handle, definition) == [handle |-> handle, empty |-> FALSE, definition |-> definition]
EmptyItem == [handle |-> 2, empty |-> TRUE, definition |-> "invalid"]

Lists ==
  {<< >>,
   <<Item(0, "immediate"), Item(1, "streamed")>>,
   <<Item(9, "immediate"), EmptyItem, Item(1, "streamed"), Item(5, "streamed")>>,
   <<Item(3, "streamed"), Item(2, "null"), Item(0, "streamed")>>,
   <<Item(0, "immediate"), Item(2, "invalid")>>,
   <<Item(0, "immediate"), Item(2, "structless")>>}

ClearedLists == {<< >>, <<Item(1, "null"), EmptyItem>>, <<Item(8, "streamed"), Item(5, "null")>>}

Children ==
  {[t \in Range(MCTags) |-> << >>],
   [t \in Range(MCTags) |-> IF t = 9 THEN <<4, 0>> ELSE IF t = 4 THEN <<7>> ELSE << >>]}

TooManyChildren == [t \in Range(MCTags) |-> <<0, 0, 0>>]

Owned ==
  {<<list, cleared, children>> :
     list \in Lists, cleared \in ClearedLists, children \in Children}
  \cup {<<<< >>, << >>, TooManyChildren>>}

BuilderManifests ==
  {[tag_resources |-> o[1], cleared_resources |-> o[2], attachments |-> o[3],
    active_resource_owners    |-> IF o[1] = << >> THEN << >> ELSE <<9, 0>>,
    top_level_resource_owners |-> IF o[2] = << >> THEN <<5, 7>> ELSE <<4>>] : o \in Owned}

MCBuilderArrays ==
  {<< >>}
  \cup {<<m>> : m \in BuilderManifests}
  \cup {<<m, n>> : m \in BuilderManifests, n \in {b \in BuilderManifests : b.attachments[9] = << >>}}
  \cup {<<m, m, m>> : m \in BuilderManifests}

MCUsedResources ==
  {[bit_count |-> 4, bits |-> 0 .. 3],
   [bit_count |-> 6, bits |-> {1, 3, 5}],
   [bit_count |-> 3, bits |-> 0 .. 2]}     \* not a whole number of words
=============================================================================
