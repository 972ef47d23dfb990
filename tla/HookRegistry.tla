------------------------------ MODULE HookRegistry ------------------------------
(***************************************************************************)
(* The modifications of the image of tool.exe: calls that are redirected,  *)
(* functions that are detoured, bytes that are patched at one address or   *)
(* at several.  Each is a static object of the DLL whose constructor       *)
(* registers it; DllMain applies all that are registered, kind after kind, *)
(* and reverts them in the same order.  All of this is one thread; what a  *)
(* tool that is running meets meanwhile is a matter of Injection.  The DLL *)
(* declares any of Modifications.                                          *)
(*                                                                         *)
(* A byte of memory holds "original" or the modification that wrote it     *)
(* last.  Static constructors of one program run in an order the sources   *)
(* do not choose.                                                          *)
(***************************************************************************)
EXTENDS Integers, FiniteSets, SequencesExt

CONSTANTS
  Modifications,
  Kind,           \* "call", "detour", "patch" or "array"
  Addresses,      \* what its declaration gives: several only for an array
  ByteCount,      \* how many bytes it writes at each
  Processes,      \* where the image is loaded, and what else can be read
  PreferredBase,  \* k_pe64_default
  LongModulus,    \* 2^32
  Marker,         \* 0xFEFEFEFE
  PageSize,
  k_maximum_individual_modification_count

Kinds == <<"call", "detour", "patch", "array">>

ASSUME HookAssumption ==
  /\ Kind \in [Modifications -> Range(Kinds)]
  /\ Addresses \in [Modifications -> Seq(Nat) \ {<< >>}]
  /\ \A m \in Modifications : Kind[m] # "array" => Len(Addresses[m]) = 1
  /\ ByteCount \in [Modifications -> Nat \ {0}]
  /\ \A process \in Processes : process.base \in Nat /\ process.mapped \subseteq Nat
  /\ PreferredBase \in Nat /\ Marker \in Nat
  /\ LongModulus \in Nat \ {0} /\ PageSize \in Nat \ {0}
  /\ k_maximum_individual_modification_count \in Nat

\* What HOOK_DECLARE names is an address of the image at its preferred base, or the
\* offset of one, and an image of that format is smaller than 2^32 bytes.
ASSUME OffsetsAssumption ==
  \A m \in Modifications : Kind[m] # "array" =>
    LET va == Addresses[m][1]
    IN  (IF va >= PreferredBase THEN va - PreferredBase ELSE va) < LongModulus

VARIABLES
  windows_refuses, \* VirtualProtect and Detours may fail
  global_module,   \* where the image is
  registered,      \* of each kind, in the order of the constructors
  memory,
  protection,      \* of each page
  originals,       \* what each modification keeps to revert with, by address
  place,           \* the modification, and the address of it, that is next
  applied,         \* apply_all_hooks(false) was reached
  pc

vars == <<windows_refuses, global_module, registered, memory, protection, originals, place, applied, pc>>

\* A buffer that was never allocated, or a trampoline that does not exist.
Null == << >>

\* call_instruction{}.
Zeros(m) == [offset \in 0 .. ByteCount[m] - 1 |-> "zero"]

\* Members are initialised in the order of their declaration, m_bytes_original of
\* c_data_patch before m_byte_count, which a static object has as 0 until then:
\* the buffer has no bytes, and what is read from it lies behind it on the heap.
BehindBuffer(m) == [offset \in 0 .. ByteCount[m] - 1 |-> "heap"]

InitialOriginal(m) ==
  CASE Kind[m] = "call"               -> Zeros(m)
    [] Kind[m] = "patch"              -> BehindBuffer(m)
    [] Kind[m] \in {"detour", "array"} -> Null

Mapped == DOMAIN memory

Pages == {address \div PageSize : address \in Mapped}

Init ==
  /\ windows_refuses \in BOOLEAN
  /\ \E process \in Processes :
       /\ global_module = process.base
       /\ memory = [address \in process.mapped |-> "original"]
  /\ registered = [kind \in Range(Kinds) |-> << >>]
  /\ protection = [page \in Pages |-> "initial"]
  /\ originals = [m \in Modifications |-> [i \in DOMAIN Addresses[m] |-> InitialOriginal(m)]]
  /\ place = <<1, 1>>
  /\ applied = FALSE
  /\ pc = "load"

-------------------------------------------------------------------------------
(* The constructors.                                                         *)

Count(kind) == Len(registered[kind])

\* VALID_COUNT of cseries_macros.h, which redefines the one of cseries.h.
ValidCount(count, maximum) == 0 <= count /\ count <= maximum

Register(m) ==
  /\ pc = "load"
  /\ m \notin Range(registered[Kind[m]])
  /\ IF ValidCount(Count(Kind[m]), k_maximum_individual_modification_count)
     THEN /\ registered' = [registered EXCEPT ![Kind[m]] = Append(@, m)]
          /\ UNCHANGED pc
     ELSE /\ pc' = "aborted"
          /\ UNCHANGED registered
  /\ UNCHANGED <<windows_refuses, global_module, memory, protection, originals, place, applied>>

\* The loops of apply_all_hooks and of apply_all_patches, one after the other.
Order ==
  registered["call"] \o registered["detour"] \o registered["patch"] \o registered["array"]

\* A pointer that was stored behind the array has overwritten another global:
\* nothing more is said of such a program.
Sound == \A kind \in Range(Kinds) : Count(kind) <= k_maximum_individual_modification_count

InstallAll ==
  /\ pc = "load" /\ Sound
  /\ pc' = "apply"
  /\ applied' = TRUE
  /\ UNCHANGED <<windows_refuses, global_module, registered, memory, protection, originals, place>>

\* The log or the hook of CreateFileW failed: DllMain never applies anything.
InstallFails ==
  /\ pc = "load" /\ Sound
  /\ pc' = "installed"
  /\ UNCHANGED <<windows_refuses, global_module, registered, memory, protection, originals, place, applied>>

-------------------------------------------------------------------------------
(* The place the loops have reached.                                         *)

Current == Order[place[1]]

\* Mutant: the address of the preferred image is taken for an offset.
MutantRva(va) == va % LongModulus

\* normalize_hook_target_rva; every declaration leaves remove_base true.
Rva(va) == (IF va >= PreferredBase THEN va - PreferredBase ELSE va) % LongModulus

\* The addresses of an array are taken as they are.
Target(m, i) ==
  IF Kind[m] = "array" THEN Addresses[m][i] ELSE global_module + Rva(Addresses[m][i])

\* A null pointer or the marker of an address that is not set; an array compares
\* its addresses with neither.
Unset(m, i) == Kind[m] # "array" /\ Target(m, i) \in {0, Marker}

\* What is written: nothing at an address that is not set.
Bytes(m, i) ==
  IF Unset(m, i) THEN {} ELSE Target(m, i) .. Target(m, i) + ByteCount[m] - 1

Readable(m, i) == Bytes(m, i) \subseteq Mapped

More == place[1] <= Len(Order)

\* Mutant: one address too many.
MutantNextPlace ==
  place' = IF place[2] <= Len(Addresses[Current]) THEN <<place[1], place[2] + 1>>
           ELSE <<place[1] + 1, 1>>

NextPlace ==
  place' = IF place[2] < Len(Addresses[Current]) THEN <<place[1], place[2] + 1>>
           ELSE <<place[1] + 1, 1>>

\* The bytes at the place, as a buffer holds them.
Snapshot(m, i) == [offset \in 0 .. ByteCount[m] - 1 |-> memory[Target(m, i) + offset]]

\* csmemcpy of a buffer to the place.
Written(m, i, Buffer) ==
  [address \in Mapped |->
     IF address \in Bytes(m, i) THEN Buffer[address - Target(m, i)] ELSE memory[address]]

\* A patch has copied what was there behind a buffer without bytes.
Overrun == \E m \in Modifications : Kind[m] = "patch" /\ originals[m][1] # BehindBuffer(m)

\* What a modification finds when it reverts: whoever owns the heap behind the
\* buffer of a patch may have written there since.
Held(m, i) ==
  IF Kind[m] # "patch" THEN {originals[m][i]}
  ELSE {buffer \in [0 .. ByteCount[m] - 1 -> Range(originals[m][i]) \cup {"heap"}] :
          \A offset \in DOMAIN buffer : buffer[offset] \in {originals[m][i][offset], "heap"}}

Patch(m) == [offset \in 0 .. ByteCount[m] - 1 |-> m]

PagesOf(m, i) == {address \div PageSize : address \in Bytes(m, i)}

\* VirtualProtect gives all the pages one protection, and reports that of the
\* first.
Protected(m, i, as) ==
  [page \in Pages |-> IF page \in PagesOf(m, i) THEN as ELSE protection[page]]

\* Mutant: the second VirtualProtect is forgotten.
MutantStaysWritable(m, i, Buffer) ==
  /\ memory' = Written(m, i, Buffer)
  /\ protection' = Protected(m, i, "writable")

\* VirtualProtect, csmemcpy, VirtualProtect: the first or the last is refused,
\* or neither.
Overwrite(m, i, Buffer) ==
  \/ /\ memory' = Written(m, i, Buffer)
     /\ protection' = Protected(m, i, protection[Target(m, i) \div PageSize])
  \/ /\ windows_refuses
     /\ memory' = Written(m, i, Buffer)
     /\ protection' = Protected(m, i, "writable")
  \/ /\ windows_refuses
     /\ UNCHANGED <<memory, protection>>

-------------------------------------------------------------------------------
(* apply(false), and what apply(true) has in common with it.                 *)

\* The early returns of apply.
Skip ==
  /\ pc \in {"apply", "revert"} /\ More
  /\ Unset(Current, place[2])
  /\ NextPlace
  /\ UNCHANGED <<windows_refuses, global_module, registered, memory, protection, originals, applied, pc>>

\* Mutant: what was there is saved after it was overwritten.
MutantSavesLate ==
  /\ pc = "apply" /\ More
  /\ Kind[Current] # "detour"
  /\ ~Unset(Current, place[2]) /\ Readable(Current, place[2])
  /\ originals' = [originals EXCEPT ![Current][place[2]] = Patch(Current)]
  /\ Overwrite(Current, place[2], Patch(Current))
  /\ NextPlace
  /\ UNCHANGED <<windows_refuses, global_module, registered, applied, pc>>

\* Mutant: what was there is saved only once the place is writable.
MutantSavesIfWritable ==
  /\ pc = "apply" /\ More
  /\ Kind[Current] # "detour"
  /\ ~Unset(Current, place[2]) /\ Readable(Current, place[2])
  /\ \/ /\ originals' = [originals EXCEPT ![Current][place[2]] = Snapshot(Current, place[2])]
        /\ Overwrite(Current, place[2], Patch(Current))
     \/ /\ windows_refuses
        /\ UNCHANGED <<originals, memory, protection>>
  /\ NextPlace
  /\ UNCHANGED <<windows_refuses, global_module, registered, applied, pc>>

\* c_hook_call, c_data_patch, and a turn of the loop of c_data_patch_array: the
\* bytes are saved whether or not they are then overwritten.
ApplyPatch ==
  /\ pc = "apply" /\ More
  /\ Kind[Current] # "detour"
  /\ ~Unset(Current, place[2]) /\ Readable(Current, place[2])
  /\ originals' = [originals EXCEPT ![Current][place[2]] = Snapshot(Current, place[2])]
  /\ Overwrite(Current, place[2], Patch(Current))
  /\ NextPlace
  /\ UNCHANGED <<windows_refuses, global_module, registered, applied, pc>>

\* The bytes at the address cannot be read: an access violation.
ApplyCrashes ==
  /\ pc = "apply" /\ More
  /\ ~Readable(Current, place[2])
  /\ pc' = "crashed"
  /\ UNCHANGED <<windows_refuses, global_module, registered, memory, protection, originals, place, applied>>

\* c_hook: the trampoline keeps the bytes the jump replaces.
ApplyDetour ==
  /\ pc = "apply" /\ More
  /\ Kind[Current] = "detour"
  /\ ~Unset(Current, place[2]) /\ Readable(Current, place[2])
  /\ \/ /\ originals' = [originals EXCEPT ![Current][place[2]] = Snapshot(Current, place[2])]
        /\ memory' = Written(Current, place[2], Patch(Current))
     \/ /\ windows_refuses
        /\ UNCHANGED <<originals, memory>>
  /\ NextPlace
  /\ UNCHANGED <<windows_refuses, global_module, registered, protection, applied, pc>>

\* An array or Detours uses the heap that a patch has overrun.
HeapCrashes ==
  /\ \/ pc = "apply" /\ More /\ Kind[Current] = "array"
     \/ pc = "revert" /\ More /\ Kind[Current] = "detour" /\ ~Unset(Current, place[2])
  /\ Overrun
  /\ pc' = "crashed"
  /\ UNCHANGED <<windows_refuses, global_module, registered, memory, protection, originals, place, applied>>

Installed ==
  /\ pc = "apply" /\ ~More
  /\ pc' = "installed"
  /\ UNCHANGED <<windows_refuses, global_module, registered, memory, protection, originals, place, applied>>

-------------------------------------------------------------------------------
(* apply(true)                                                               *)

RemoveAll ==
  /\ pc = "installed"
  /\ pc' = "revert"
  /\ place' = <<1, 1>>
  /\ UNCHANGED <<windows_refuses, global_module, registered, memory, protection, originals, applied>>

RevertPatch ==
  /\ pc = "revert" /\ More
  /\ Kind[Current] # "detour"
  /\ ~Unset(Current, place[2]) /\ Readable(Current, place[2])
  /\ originals[Current][place[2]] # Null
  /\ \E original \in Held(Current, place[2]) : Overwrite(Current, place[2], original)
  /\ NextPlace
  /\ UNCHANGED <<windows_refuses, global_module, registered, originals, applied, pc>>

\* VirtualProtect refuses an address that is not mapped.
RevertUnmapped ==
  /\ pc = "revert" /\ More
  /\ Kind[Current] # "detour"
  /\ ~Readable(Current, place[2])
  /\ NextPlace
  /\ UNCHANGED <<windows_refuses, global_module, registered, memory, protection, originals, applied, pc>>

\* csmemcpy from a snapshot that an array never took.
RevertCrashes ==
  /\ pc = "revert" /\ More
  /\ Readable(Current, place[2])
  /\ Kind[Current] = "array"
  /\ originals[Current][place[2]] = Null
  /\ pc' = "crashed"
  /\ UNCHANGED <<windows_refuses, global_module, registered, memory, protection, originals, place, applied>>

\* DetourDetach finds no trampoline for what was never attached.
RevertDetour ==
  /\ pc = "revert" /\ More
  /\ Kind[Current] = "detour"
  /\ ~Unset(Current, place[2])
  /\ LET trampoline == originals[Current][place[2]] IN
     \/ /\ trampoline # Null
        /\ originals' = [originals EXCEPT ![Current][place[2]] = Null]
        /\ memory' = Written(Current, place[2], trampoline)
     \/ /\ trampoline = Null \/ windows_refuses
        /\ UNCHANGED <<originals, memory>>
  /\ NextPlace
  /\ UNCHANGED <<windows_refuses, global_module, registered, protection, applied, pc>>

Removed ==
  /\ pc = "revert" /\ ~More
  /\ pc' = "removed"
  /\ UNCHANGED <<windows_refuses, global_module, registered, memory, protection, originals, place, applied>>

Finished ==
  /\ pc \in {"removed", "crashed", "aborted"} \/ ~Sound
  /\ UNCHANGED vars

Next ==
  \/ \E m \in Modifications : Register(m)
  \/ InstallAll \/ InstallFails
  \/ Skip \/ ApplyPatch \/ ApplyCrashes \/ ApplyDetour \/ HeapCrashes \/ Installed
  \/ RemoveAll
  \/ RevertPatch \/ RevertUnmapped \/ RevertCrashes \/ RevertDetour \/ Removed
  \/ Finished

Spec == Init /\ [][Next]_vars

-------------------------------------------------------------------------------
(* Properties.                                                               *)

\* Every variable has its type, and a buffer to revert with has a value for
\* each byte of its place.
TypeOK ==
  /\ windows_refuses \in BOOLEAN
  /\ \E process \in Processes : process.base = global_module /\ process.mapped = DOMAIN memory
  /\ Range(memory) \subseteq Modifications \cup {"original", "zero", "heap"}
  /\ \A kind \in Range(Kinds) :
       /\ IsInjective(registered[kind])
       /\ \A m \in Range(registered[kind]) : Kind[m] = kind
  /\ protection \in [Pages -> {"initial", "writable"}]
  /\ \A m \in Modifications : \A i \in DOMAIN Addresses[m] :
       originals[m][i] = Null \/ DOMAIN originals[m][i] = 0 .. ByteCount[m] - 1
  /\ place \in (1 .. Len(Order) + 1) \X Nat
  /\ More => place[2] \in DOMAIN Addresses[Current]
  /\ applied \in BOOLEAN
  /\ pc \in {"load", "apply", "installed", "revert", "removed", "crashed", "aborted"}

\* The address a declaration means, in an image that was moved.
Meant(m, i) ==
  LET va == Addresses[m][i]
  IN  IF Kind[m] = "array" THEN va
      ELSE IF va >= PreferredBase THEN va + (global_module - PreferredBase)
      ELSE global_module + va

\* The places that cover an address: a modification and which of its addresses,
\* unless that is no address.
Covering(address) ==
  {c \in UNION {{m} \X DOMAIN Addresses[m] : m \in Range(Order)} :
     /\ Kind[c[1]] = "array" \/ Meant(c[1], c[2]) \notin {0, Marker}
     /\ address \in Meant(c[1], c[2]) .. Meant(c[1], c[2]) + ByteCount[c[1]] - 1}

\* Whichever constructor ran first and wherever the image is loaded, after
\* apply_all_hooks and apply_all_patches a byte is that of the last modification
\* whose place covers it, or as it was.
ModificationsInPlace ==
  pc = "installed" /\ applied /\ ~windows_refuses =>
    \A address \in Mapped :
      IF Covering(address) = {}
      THEN memory[address] = "original"
      ELSE \E k \in DOMAIN Order :
             /\ memory[address] = Order[k]
             /\ k = Max({l \in DOMAIN Order : \E c \in Covering(address) : c[1] = Order[l]})

\* Reverting what was applied restores the image: every byte that no two places
\* and no data patch cover is what it was before the DLL came, unless Windows
\* refused to have it put back.  (Of two places that overlap the one applied first
\* is reverted first, and the bytes of it that the second saved are what remains.
\* What a patch has saved is not its own.)
ImageRestored ==
  pc = "removed" /\ applied =>
    \A address \in Mapped :
      /\ Cardinality(Covering(address)) <= 1
      /\ \A c \in Covering(address) : Kind[c[1]] # "patch"
      =>
      \/ memory[address] = "original"
      \/ windows_refuses /\ \E c \in Covering(address) : memory[address] = c[1]

\* No page is left with another protection than it had, unless Windows refused.
ProtectionKept ==
  ~windows_refuses => \A page \in Pages : protection[page] = "initial"

\* RemoveAll gets through whatever Windows refused to InstallAll, unless a patch
\* has overrun the heap: after an apply there is something to revert with at
\* every place.
RevertGetsThrough ==
  [][pc = "revert" /\ applied /\ ~Overrun => pc' # "crashed"]_vars

\* ASSERT(VALID_COUNT(count, k_maximum_individual_modification_count)) is there
\* to keep the store behind it inside the array.
StoresInside == Sound
=============================================================================
