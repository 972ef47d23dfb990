------------------------------- MODULE Pointer32 -------------------------------
(***************************************************************************)
(* ptr32_void_t: a pointer in 32 bits, as the number of four-byte units    *)
(* from the base of the tag memory.  Two values of the 32 bits mean        *)
(* something else, the null pointer and the empty string.                  *)
(*                                                                         *)
(* A pointer is its address, and an address is below QuadModulus.          *)
(***************************************************************************)
EXTENDS CseriesProofs

CONSTANTS
  VirtualBase,  \* virtual_to_physical_base_offset()
  EmptyString,  \* g_ptr32EmptyString
  LongModulus,  \* 2^32
  QuadModulus   \* 2^64

Pointers == 0 .. QuadModulus - 1

Null == 0

Offset(ptr) == Unsigned(ptr - VirtualBase, QuadModulus)

\* The asserts of CompressPtr.
Compressible(ptr) ==
  ptr \notin {Null, EmptyString} =>
    /\ Offset(ptr) % 4 = 0
    /\ Offset(ptr) \div 4 <= LongModulus - 1

CompressPtr(ptr) ==
  CASE ptr = Null        -> 0
    [] ptr = EmptyString -> Unsigned(NONE, LongModulus)
    [] OTHER             -> Unsigned(Offset(ptr) \div 4, LongModulus)

ExpandPtr(value) ==
  CASE value = 0                           -> Null
    [] value = Unsigned(NONE, LongModulus) -> EmptyString
    [] OTHER                               -> Unsigned(VirtualBase + 4 * value, QuadModulus)

(* What the class does with the value it stores.                             *)

\* m_stored
StoredValues == 0 .. LongModulus - 1

SetPtr(ptr) == CompressPtr(ptr)

GetPtr(stored) == ExpandPtr(stored)

\* Every conversion to a pointer or to a number.
Converted(stored) == GetPtr(stored)

IsEqual(stored, ptr) == GetPtr(stored) = ptr

\* operator== of two values.
SameStored(stored, other) == stored = other

\* ptr32_t, the typed pointer, adds nothing to what it stores.
Assign(ptr) == SetPtr(ptr)

-------------------------------------------------------------------------------

\* What the widths and the places of the tag memory and of the empty string have
\* in every process.
Layout ==
  /\ LongModulus \in Nat /\ LongModulus > 1
  /\ QuadModulus \in Nat /\ QuadModulus >= 4 * LongModulus
  /\ VirtualBase \in Pointers \ {Null}
  /\ EmptyString \in Pointers \ {Null}

\* Adding what was taken off modulo QuadModulus gives the pointer again.
LEMMA OffsetAddsUp ==
  ASSUME Layout, NEW ptr \in Pointers
  PROVE  /\ Offset(ptr) \in Nat
         /\ Unsigned(VirtualBase + Offset(ptr), QuadModulus) = ptr
<1> QuadModulus \in Nat \ {0} /\ VirtualBase \in Nat /\ VirtualBase < QuadModulus
    /\ ptr \in Nat /\ ptr < QuadModulus
  BY DEF Layout, Pointers
<1>1. CASE ptr >= VirtualBase
  <2>1. Offset(ptr) = ptr - VirtualBase
    BY <1>1, SMT DEF Offset, Unsigned
  <2> QED BY <1>1, <2>1, SMT DEF Unsigned
<1>2. CASE ptr < VirtualBase
  <2>1. Offset(ptr) = ptr - VirtualBase + QuadModulus
    BY <1>2, SMT DEF Offset, Unsigned
  <2> QED BY <1>2, <2>1, SMT DEF Unsigned
<1> QED BY <1>1, <1>2

\* The two places the asserts admit though their number means something else: the
\* very base of the tag memory, and the last four bytes that 32 bits reach.
Mistakable(ptr) ==
  ptr \notin {Null, EmptyString} /\ Offset(ptr) \div 4 \in {0, LongModulus - 1}

\* A pointer that the asserts of CompressPtr admit comes back from its 32 bits,
\* unless it is one of those two places.
THEOREM CompressedExpands ==
  ASSUME Layout, NEW ptr \in Pointers, Compressible(ptr), ~Mistakable(ptr)
  PROVE  ExpandPtr(CompressPtr(ptr)) = ptr
<1> DEFINE last == Unsigned(NONE, LongModulus)
<1>0. last = LongModulus - 1
  BY SMT DEF Layout, Unsigned, NONE
<1>1. CASE ptr = Null
  <2>1. ptr # EmptyString /\ last # 0
    BY <1>0, <1>1, SMT DEF Layout
  <2>2. CompressPtr(ptr) = 0
    BY <1>1, <2>1 DEF CompressPtr
  <2> QED BY <1>1, <2>1, <2>2 DEF ExpandPtr
<1>2. CASE ptr = EmptyString
  <2>1. ptr # Null /\ last # 0
    BY <1>0, <1>2, SMT DEF Layout
  <2>2. CompressPtr(ptr) = last
    BY <1>2, <2>1 DEF CompressPtr
  <2> QED BY <1>2, <2>1, <2>2 DEF ExpandPtr
<1>3. CASE ptr \notin {Null, EmptyString}
  <2> DEFINE value == Offset(ptr) \div 4
  <2>1. Offset(ptr) \in Nat /\ Unsigned(VirtualBase + Offset(ptr), QuadModulus) = ptr
    BY OffsetAddsUp
  <2>2. Offset(ptr) % 4 = 0 /\ value <= LongModulus - 1 /\ value \notin {0, last}
    BY <1>0, <1>3 DEF Compressible, Mistakable
  <2>3. value \in 0 .. LongModulus - 1 /\ 4 * value = Offset(ptr)
    BY <2>1, <2>2, SMT
  <2>4. CompressPtr(ptr) = value
    <3>1. Unsigned(value, LongModulus) = value
      BY <2>3, SMT DEF Layout, Unsigned
    <3> QED BY <1>3, <3>1 DEF CompressPtr
  <2>5. ExpandPtr(value) = Unsigned(VirtualBase + 4 * value, QuadModulus)
    BY <2>2 DEF ExpandPtr
  <2> QED BY <2>1, <2>3, <2>4, <2>5
<1> QED BY <1>1, <1>2, <1>3

\* Neither null nor the empty string, though the tag memory reaches round to one.
Unmistaken(value) ==
  value \notin {0, LongModulus - 1} => ExpandPtr(value) \notin {Null, EmptyString}

\* The 32 bits of a pointer that was expanded from them are the same again, unless
\* the tag memory reaches round to address 0 or to the empty string.
THEOREM ExpandedCompresses ==
  ASSUME Layout, NEW value \in StoredValues, Unmistaken(value)
  PROVE  Compressible(ExpandPtr(value)) /\ CompressPtr(ExpandPtr(value)) = value
<1> USE DEF StoredValues, Unmistaken
<1> DEFINE last == Unsigned(NONE, LongModulus)
<1>0. last = LongModulus - 1 /\ last # 0
  BY SMT DEF Layout, Unsigned, NONE
<1>1. CASE value = 0
  <2>1. ExpandPtr(value) = Null /\ EmptyString # Null
    BY <1>0, <1>1 DEF ExpandPtr, Layout
  <2> QED BY <1>1, <2>1 DEF CompressPtr, Compressible
<1>2. CASE value = last
  <2>1. ExpandPtr(value) = EmptyString /\ EmptyString # Null
    BY <1>0, <1>2 DEF ExpandPtr, Layout
  <2> QED BY <1>2, <2>1 DEF CompressPtr, Compressible
<1>3. CASE value \notin {0, last}
  <2> DEFINE ptr == ExpandPtr(value)
  <2>1. ptr = Unsigned(VirtualBase + 4 * value, QuadModulus) /\ ptr \notin {Null, EmptyString}
    BY <1>0, <1>3 DEF ExpandPtr
  <2>2. Offset(ptr) = 4 * value
    <3>1. /\ QuadModulus \in Nat /\ VirtualBase \in Nat /\ VirtualBase < QuadModulus
          /\ 4 * value \in Nat /\ 4 * value < QuadModulus
      BY SMT DEF Layout, Pointers
    <3>2. CASE VirtualBase + 4 * value < QuadModulus
      <4>1. ptr = VirtualBase + 4 * value
        BY <2>1, <3>1, <3>2, SMT DEF Unsigned
      <4> HIDE DEF ptr
      <4> QED BY <3>1, <4>1, SMT DEF Offset, Unsigned
    <3>3. CASE VirtualBase + 4 * value >= QuadModulus
      <4>1. ptr = VirtualBase + 4 * value - QuadModulus
        BY <2>1, <3>1, <3>3, SMT DEF Unsigned
      <4> HIDE DEF ptr
      <4> QED BY <3>1, <4>1, SMT DEF Offset, Unsigned
    <3> QED BY <3>1, <3>2, <3>3, SMT
  <2>3. Offset(ptr) % 4 = 0 /\ Offset(ptr) \div 4 = value
    BY <2>2, SMT
  <2>4. Unsigned(value, LongModulus) = value
    BY SMT DEF Layout, Unsigned
  <2> QED BY <2>1, <2>3, <2>4, SMT DEF CompressPtr, Compressible
<1> QED BY <1>1, <1>2, <1>3

\* A pointer that is set is got again, whichever way it is asked for, and no other
\* pointer has its 32 bits.
THEOREM SetIsGot ==
  ASSUME Layout, NEW ptr \in Pointers, Compressible(ptr), ~Mistakable(ptr),
         NEW other \in Pointers, Compressible(other), ~Mistakable(other)
  PROVE  /\ Converted(SetPtr(ptr)) = ptr
         /\ IsEqual(SetPtr(ptr), ptr)
         /\ SameStored(SetPtr(ptr), SetPtr(other)) => ptr = other
<1>1. ExpandPtr(CompressPtr(ptr)) = ptr
  BY CompressedExpands
<1>2. ExpandPtr(CompressPtr(other)) = other
  BY CompressedExpands
<1> QED BY <1>1, <1>2 DEF Converted, SetPtr, GetPtr, IsEqual, SameStored

\* operator==, which compares the 32 bits, and IsEqual, which compares pointers,
\* agree.
THEOREM EqualitiesAgree ==
  ASSUME Layout, NEW stored \in StoredValues, Unmistaken(stored),
         NEW other \in StoredValues, Unmistaken(other)
  PROVE  SameStored(stored, other) <=> IsEqual(stored, GetPtr(other))
<1>1. CompressPtr(ExpandPtr(stored)) = stored
  BY ExpandedCompresses
<1>2. CompressPtr(ExpandPtr(other)) = other
  BY ExpandedCompresses
<1> QED BY <1>1, <1>2 DEF SameStored, IsEqual, GetPtr

\* What the asserts let through: a pointer to the base of the tag memory is
\* compressed without complaint, and is got back as the null pointer.
THEOREM BaseBecomesNull ==
  ASSUME Layout, VirtualBase # EmptyString
  PROVE  Compressible(VirtualBase) /\ GetPtr(SetPtr(VirtualBase)) = Null
<1>1. VirtualBase # Null /\ VirtualBase \in Nat /\ QuadModulus \in Nat \ {0}
  BY DEF Layout, Pointers
<1>2. Offset(VirtualBase) = 0
  BY <1>1, SMT DEF Offset, Unsigned, Layout
<1>3. Compressible(VirtualBase)
  BY <1>2, SMT DEF Compressible, Layout
<1>4. CompressPtr(VirtualBase) = 0
  <2>1. Unsigned(Offset(VirtualBase) \div 4, LongModulus) = 0
    BY <1>2, SMT DEF Unsigned, Layout
  <2> QED BY <1>1, <2>1 DEF CompressPtr
<1>5. ExpandPtr(0) = Null
  <2>1. Unsigned(NONE, LongModulus) # 0
    BY SMT DEF Layout, Unsigned, NONE
  <2> QED BY <2>1 DEF ExpandPtr
<1> QED BY <1>3, <1>4, <1>5 DEF GetPtr, SetPtr
=============================================================================
