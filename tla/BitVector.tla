------------------------------- MODULE BitVector -------------------------------
(***************************************************************************)
(* The bit vectors of the zone tag: c_tag_block_bit_vector keeps its bits  *)
(* in a tag block of words, so it has room for a whole number of words,    *)
(* and c_bit_vector_operator_interface ignores what lies outside.  A       *)
(* vector is its number of words and the set of the indexes that are set.  *)
(***************************************************************************)
EXTENDS Integers

CONSTANTS
  WordBits, \* 32
  MaxWords  \* capacity of the tag block

ASSUME WordsAssumption == WordBits \in Nat \ {0} /\ MaxWords \in Nat

NoBits == [words |-> 0, bits |-> {}]

BitCount(vector) == WordBits * vector.words

\* Mutant: whole words only.
MutantRoundedDown(bit_count) == bit_count \div WordBits

WordsFor(bit_count) == (bit_count + WordBits - 1) \div WordBits

\* resize_in_bits: what is in the words it adds is the block's business, and a
\* block that has no room for them stays as it is.
Resized(vector, bit_count) ==
  LET words == WordsFor(bit_count)
      kept  == {i \in vector.bits : i < WordBits * words}
      added == BitCount(vector) .. WordBits * words - 1
  IN  IF words > MaxWords
      THEN {vector}
      ELSE {[words |-> words, bits |-> kept \cup junk] : junk \in {{}, added}}

Cleared(vector) == [vector EXCEPT !.bits = {}]

\* verify_index, of an index that is not negative: every caller passes an uns16.
VerifyIndex(vector, index) == index < BitCount(vector)

\* Mutant: no verify_index.
MutantUnchecked(vector, index) == [vector EXCEPT !.bits = @ \cup {index}]

SetBit(vector, index) ==
  IF VerifyIndex(vector, index) THEN [vector EXCEPT !.bits = @ \cup {index}] ELSE vector

ResetBit(vector, index) ==
  IF VerifyIndex(vector, index) THEN [vector EXCEPT !.bits = @ \ {index}] ELSE vector

\* test
TestBit(vector, index) == VerifyIndex(vector, index) /\ index \in vector.bits

\* The bits of a word.
Word(w) == {WordBits * w + b : b \in 0 .. WordBits - 1}

\* set_all, word by word, and then the bits that are left over; of a vector that
\* may end inside a word, like c_wrapped_flags.
SetAll(bits, bit_count) ==
  LET full_words == bit_count \div WordBits
      rem        == bit_count % WordBits
  IN  bits \cup (UNION {Word(w) : w \in 0 .. full_words - 1})
           \cup {WordBits * full_words + b : b \in 0 .. rem - 1}

\* clear of such a vector: every word it has a part of.
ClearAll(bits, bit_count) == bits \ (UNION {Word(w) : w \in 0 .. WordsFor(bit_count) - 1})

\* bit_vector_not_and(mask, accumulator), in place.
NotAnd(mask, accumulator) == accumulator \ mask.bits
=============================================================================
