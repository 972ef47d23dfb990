------------------------------ MODULE ZoneManifest ------------------------------
(***************************************************************************)
(* build_zone_manifest_resource_usage: for each manifest of the builder,   *)
(* add_resource_usage_to_zone_manifest fills a row of a block of the zone  *)
(* tag - which resources the zone requires or streams, which tags own      *)
(* them, and the hierarchy of attachments - and the resources of the row   *)
(* are struck from the bit vector the caller passed in and reads           *)
(* afterwards.  A step is a loop or an assert of the code.                 *)
(***************************************************************************)
EXTENDS Cseries, BitVector, SequencesExt

CONSTANTS
  BuilderArrays,             \* the builder_manifests_array: sequences of manifests
  UsedResources,             \* what in_out_used_resources may be at first
  ResourcesCounts,           \* ... and its other arguments
  MaximumTagInstancesCounts,
  Tags,                      \* the handles the data iterator yields, in its order
  IndexModulus,              \* 2^16: a handle is a salt and an index
  MaxManifests, MaxNodes, MaxChildren \* capacities of the tag blocks

Index(handle) == Unsigned(handle, IndexModulus)

\* What tag_resources and cleared_resources list.  definition is "null" for the
\* compressed pointer 0, "invalid" for NONE, and "structless" for a definition without
\* a resource_struct_definition.
Definitions == {"null", "invalid", "structless", "immediate", "streamed"}

TagResource == [handle : Nat, empty : BOOLEAN, definition : Definitions]

BuilderManifest ==
  [tag_resources             : Seq(TagResource),
   cleared_resources         : Seq(TagResource),
   active_resource_owners    : Seq(Nat),
   top_level_resource_owners : Seq(Nat),
   attachments               : [Range(Tags) -> Seq(0 .. IndexModulus - 1)]]

ASSUME ZoneAssumption ==
  /\ IndexModulus \in Nat \ {0}
  /\ ResourcesCounts \subseteq Nat /\ MaximumTagInstancesCounts \subseteq Nat
  /\ {MaxManifests, MaxNodes, MaxChildren} \subseteq Nat
  /\ Tags \in Seq(Nat)
  /\ BuilderArrays \subseteq Seq(BuilderManifest)
  /\ \A used \in UsedResources :
       used.bit_count \in Nat /\ used.bits \subseteq 0 .. used.bit_count - 1

\* The data iterator yields each tag once.
ASSUME TagIndexesDistinct ==
  \A i, j \in DOMAIN Tags : Index(Tags[i]) = Index(Tags[j]) => i = j

VARIABLES
  builder_manifests,     \* the arguments: never change
  resources_count,
  maximum_tag_instances_count,
  asked,                 \* in_out_used_resources as it was passed
  in_out_used_resources, \* its bits
  manifests,             \* the tag block
  manifest_index,        \* builder_manifest_index, counted from 1
  pc

arguments == <<builder_manifests, resources_count, maximum_tag_instances_count, asked>>
vars == <<arguments, in_out_used_resources, manifests, manifest_index, pc>>

\* An uns16 as a short of the zone tag keeps it: resource_owner_index, child_tag.
Short(index) == Signed(index, IndexModulus)

VisitNode(owner, children) ==
  [resource_owner_index |-> Short(owner), child_node_indices |-> children]

NewManifest ==
  [required  |-> NoBits, optional |-> NoBits, streamed |-> NoBits,
   active    |-> NoBits, top_level |-> NoBits,
   hierarchy |-> << >>]

Init ==
  /\ builder_manifests \in BuilderArrays
  /\ resources_count \in ResourcesCounts
  /\ maximum_tag_instances_count \in MaximumTagInstancesCounts
  /\ asked \in UsedResources
  /\ in_out_used_resources = asked.bits
  /\ manifests = << >>
  /\ manifest_index = 1
  /\ pc = "resize_manifests"

builder == builder_manifests[manifest_index]

Abort ==
  /\ pc' = "aborted"
  /\ UNCHANGED <<arguments, in_out_used_resources, manifests, manifest_index>>

\* Mutant: zone_manifests is not indexed.
MutantFillsFirst(manifest, next) ==
  /\ manifests' = [manifests EXCEPT ![1] = manifest]
  /\ pc' = next
  /\ UNCHANGED <<arguments, in_out_used_resources, manifest_index>>

\* A step of add_resource_usage_to_zone_manifest changes its own row only.
FillManifest(manifest, next) ==
  /\ manifests' = [manifests EXCEPT ![manifest_index] = manifest]
  /\ pc' = next
  /\ UNCHANGED <<arguments, in_out_used_resources, manifest_index>>

\* The head of the loop of build_zone_manifest_resource_usage.
NextManifest(index) ==
  pc' = IF index <= Len(builder_manifests) THEN "record_resources" ELSE "returned"

-------------------------------------------------------------------------------

ResizeManifests ==
  /\ pc = "resize_manifests"
  /\ Len(builder_manifests) <= MaxManifests
  /\ manifests' = [i \in DOMAIN builder_manifests |-> NewManifest]
  /\ NextManifest(1)
  /\ UNCHANGED <<arguments, in_out_used_resources, manifest_index>>

\* The block has no room: the resize fails unnoticed, the VALID_INDEX in the
\* loop does not.
ManifestIndexAsserts ==
  /\ pc = "resize_manifests"
  /\ Len(builder_manifests) > MaxManifests
  /\ Abort

\* The definitions each predicate is true of; optional() is true of none.
Required == {"immediate"}
Streamed == {"streamed"}
Optional == {}

\* A resource the loop over tag_resources does not skip.
Counts(resource) == ~resource.empty /\ resource.definition # "null"

\* The loop over one list of resources, for one of the bit vectors.
SetBits(vector, resources, definitions) ==
  FoldLeft(LAMBDA v, r : IF Counts(r) /\ r.definition \in definitions
                         THEN SetBit(v, Index(r.handle)) ELSE v,
           vector, resources)

InvalidDefinition ==
  \E i \in DOMAIN builder.tag_resources :
    /\ ~builder.tag_resources[i].empty
    /\ builder.tag_resources[i].definition \in {"invalid", "structless"}

\* Mutant: the vectors are resized but not cleared.
MutantNotCleared ==
  /\ pc = "record_resources"
  /\ ~InvalidDefinition
  /\ \E vector \in Resized(NoBits, resources_count) :
       LET manifest == manifests[manifest_index] IN
       FillManifest([manifest EXCEPT
                       !.required = SetBits(vector, builder.tag_resources, Required),
                       !.optional = SetBits(vector, builder.tag_resources, Optional),
                       !.streamed = SetBits(vector, builder.tag_resources, Streamed)],
                    "clear_resources")

RecordTagResources ==
  /\ pc = "record_resources"
  /\ ~InvalidDefinition
  /\ LET manifest == manifests[manifest_index] IN
     \E required \in Resized(manifest.required, resources_count),
        optional \in Resized(manifest.optional, resources_count),
        streamed \in Resized(manifest.streamed, resources_count) :
       FillManifest(
         [manifest EXCEPT
            !.required = SetBits(Cleared(required), builder.tag_resources, Required),
            !.optional = SetBits(Cleared(optional), builder.tag_resources, Optional),
            !.streamed = SetBits(Cleared(streamed), builder.tag_resources, Streamed)],
         "clear_resources")

\* ASSERT(definition_compressed != NONE), and in each of the predicates
\* ASSERT(resource_struct_definition != nullptr).
DefinitionAsserts ==
  /\ pc = "record_resources"
  /\ InvalidDefinition
  /\ Abort

ResetBits(vector, resources) ==
  FoldLeft(LAMBDA v, r : IF r.empty THEN v ELSE ResetBit(v, Index(r.handle)), vector, resources)

ClearResources ==
  /\ pc = "clear_resources"
  /\ FillManifest([manifests[manifest_index] EXCEPT
                     !.required = ResetBits(@, builder.cleared_resources),
                     !.optional = ResetBits(@, builder.cleared_resources),
                     !.streamed = ResetBits(@, builder.cleared_resources)],
                  "record_owners")

SetIndexes(vector, handles) ==
  FoldLeft(LAMBDA v, handle : SetBit(v, Index(handle)), vector, handles)

RecordOwners ==
  /\ pc = "record_owners"
  /\ LET manifest == manifests[manifest_index] IN
     \E active    \in Resized(manifest.active, maximum_tag_instances_count),
        top_level \in Resized(manifest.top_level, maximum_tag_instances_count) :
       FillManifest(
         [manifest EXCEPT
            !.active    = SetIndexes(Cleared(active), builder.active_resource_owners),
            !.top_level = SetIndexes(Cleared(top_level), builder.top_level_resource_owners)],
         "build_hierarchy")

\* The visitation_hierarchy after its resize: as many nodes as there may be
\* tags, or none if the block has no room for them.
NodeCount == IF maximum_tag_instances_count <= MaxNodes THEN maximum_tag_instances_count ELSE 0

\* A node for the tag, or a block of children, that is not there.
HierarchyBroken ==
  \E i \in DOMAIN Tags :
    \/ Index(Tags[i]) >= NodeCount
    \/ Len(builder.attachments[Tags[i]]) > MaxChildren

\* Mutant: the children are looked up by the index of the tag.
MutantFoundByIndex(handle) ==
  IF Index(handle) \in DOMAIN builder.attachments
  THEN builder.attachments[Index(handle)] ELSE << >>

\* equal_range in the multimap, by the whole handle.
Attachments(handle) == builder.attachments[handle]

\* The rows added to child_node_indices.
Links(handle) == [k \in DOMAIN Attachments(handle) |-> Short(Attachments(handle)[k])]

\* A node for each tag the iterator yields.
VisitTags(nodes) ==
  FoldLeft(LAMBDA visited, handle :
             [visited EXCEPT ![Index(handle) + 1] =
                VisitNode(Index(handle), @.child_node_indices \o Links(handle))],
           nodes, Tags)

BuildHierarchy ==
  /\ pc = "build_hierarchy"
  /\ ~HierarchyBroken
  /\ FillManifest([manifests[manifest_index] EXCEPT
                     !.hierarchy = VisitTags([i \in 1 .. NodeCount |-> VisitNode(0, << >>)])],
                  "strike_resources")

HierarchyAsserts ==
  /\ pc = "build_hierarchy"
  /\ HierarchyBroken
  /\ Abort

TooFewUsedResources == asked.bit_count < BitCount(manifests[manifest_index].required)

\* Mutant: the streamed resources are left in.
MutantStrikesRequired ==
  /\ pc = "strike_resources"
  /\ ~TooFewUsedResources
  /\ LET manifest == manifests[manifest_index] IN
     in_out_used_resources' =
       NotAnd(manifest.optional, NotAnd(manifest.required, in_out_used_resources))
  /\ manifest_index' = manifest_index + 1
  /\ NextManifest(manifest_index')
  /\ UNCHANGED <<arguments, manifests>>

\* Mutant: the manifest is not advanced.
MutantSameManifest ==
  /\ pc = "strike_resources"
  /\ ~TooFewUsedResources
  /\ NextManifest(manifest_index)
  /\ UNCHANGED <<arguments, in_out_used_resources, manifests, manifest_index>>

\* The three bit_vector_not_and of build_zone_manifest_resource_usage.
StrikeResources ==
  /\ pc = "strike_resources"
  /\ ~TooFewUsedResources
  /\ LET manifest == manifests[manifest_index] IN
     in_out_used_resources' =
       NotAnd(manifest.streamed,
              NotAnd(manifest.optional, NotAnd(manifest.required, in_out_used_resources)))
  /\ manifest_index' = manifest_index + 1
  /\ NextManifest(manifest_index')
  /\ UNCHANGED <<arguments, manifests>>

BitCountAsserts ==
  /\ pc = "strike_resources"
  /\ TooFewUsedResources
  /\ Abort

CallStep ==
  \/ ResizeManifests \/ ManifestIndexAsserts
  \/ RecordTagResources \/ DefinitionAsserts \/ ClearResources
  \/ RecordOwners
  \/ BuildHierarchy \/ HierarchyAsserts
  \/ StrikeResources \/ BitCountAsserts

Finished == pc \in {"returned", "aborted"} /\ UNCHANGED vars

Next == CallStep \/ Finished

\* The call runs on one thread and waits for nothing.
Spec == Init /\ [][Next]_vars /\ WF_vars(CallStep)

-------------------------------------------------------------------------------
(* Properties.                                                               *)

IsVector(vector) ==
  /\ DOMAIN vector = {"words", "bits"}
  /\ vector.words \in 0 .. MaxWords
  /\ vector.bits \subseteq 0 .. BitCount(vector) - 1

\* Every variable has its type, and no vector has a bit outside its words.
TypeOK ==
  /\ builder_manifests \in BuilderArrays
  /\ resources_count \in ResourcesCounts
  /\ maximum_tag_instances_count \in MaximumTagInstancesCounts
  /\ in_out_used_resources \subseteq 0 .. asked.bit_count - 1
  /\ \A i \in DOMAIN manifests :
       /\ \A field \in {"required", "optional", "streamed", "active", "top_level"} :
            IsVector(manifests[i][field])
       /\ Len(manifests[i].hierarchy) \in {0, NodeCount}
  /\ manifest_index \in 1 .. Len(builder_manifests) + 1
  /\ pc \in {"resize_manifests", "record_resources", "clear_resources", "record_owners",
             "build_hierarchy", "strike_resources", "returned", "aborted"}

\* The manifests whose resources have been struck.
Done == {i \in DOMAIN manifests : i < manifest_index}

Listed(resources, definitions) ==
  {Index(r.handle) : r \in {q \in Range(resources) : ~q.empty /\ q.definition \in definitions}}

\* A vector of so many bits, if its block has room for them, has each of those
\* indexes set; and none but those, though it may have a few bits more.
Records(vector, indexes, bit_count) ==
  /\ vector.bits \subseteq indexes
  /\ bit_count <= WordBits * MaxWords => indexes \cap 0 .. bit_count - 1 \subseteq vector.bits

\* A row of the zone tag says of each resource what the builder's manifest says,
\* whatever the words held before: it is required, or streamed, if it is listed
\* so and is not among the cleared ones under any handle.
ResourcesRecorded ==
  \A i \in Done :
    LET from    == builder_manifests[i]
        cleared == Listed(from.cleared_resources, Definitions)
        Wanted(definition) == Listed(from.tag_resources, {definition}) \ cleared
    IN  /\ Records(manifests[i].required, Wanted("immediate"), resources_count)
        /\ Records(manifests[i].streamed, Wanted("streamed"), resources_count)
        /\ manifests[i].optional.bits = {}

\* The owners of a row are those of the builder's manifest, each of both kinds
\* in its own vector, up to the last tag there may be.
OwnersRecorded ==
  \A i \in Done :
    LET from == builder_manifests[i]
        Indexes(handles) == {Index(h) : h \in Range(handles)}
    IN  /\ Records(manifests[i].active, Indexes(from.active_resource_owners),
                   maximum_tag_instances_count)
        /\ Records(manifests[i].top_level, Indexes(from.top_level_resource_owners),
                   maximum_tag_instances_count)

\* A short keeps an index if it has its 16 bits; one from 2^15 on is negative.
Keeps(short, index) ==
  /\ 2 * short \in -IndexModulus .. IndexModulus - 1
  /\ Unsigned(short, IndexModulus) = index

\* The hierarchy of a row has each tag at its own index, with the children the
\* builder attached to that very handle, once each and in their order: in shorts from
\* which every index, also one from 2^15 on, comes back when it is read as an uns16.
HierarchyRecorded ==
  \A i \in Done, j \in DOMAIN Tags :
    LET node     == manifests[i].hierarchy[Index(Tags[j]) + 1]
        children == builder_manifests[i].attachments[Tags[j]]
    IN  /\ Keeps(node.resource_owner_index, Index(Tags[j]))
        /\ Len(node.child_node_indices) = Len(children)
        /\ \A k \in DOMAIN children : Keeps(node.child_node_indices[k], children[k])

UsedBy(i) == manifests[i].required.bits \cup manifests[i].streamed.bits

\* What the caller reads afterwards: the resources it asked about that no row
\* so far requires or streams, no matter how the rows overlap.
StruckExactly ==
  in_out_used_resources = asked.bits \ UNION {UsedBy(i) : i \in Done}

\* A row is not touched once its resources have been struck.
RowsFinal == [][\A i \in Done : manifests'[i] = manifests[i]]_vars

\* The call returns, or fails an assert.
CallReturns == <>(pc \in {"returned", "aborted"})

\* "returns a bitvector of used resources", says the comment on
\* build_zone_manifest_resource_usage: afterwards a resource it used is in it.
ReturnsUsedResources ==
  pc = "returned" =>
    UNION {UsedBy(i) : i \in Done} \cap asked.bits \subseteq in_out_used_resources
=============================================================================
