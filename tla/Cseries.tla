------------------------------- MODULE Cseries -------------------------------
(***************************************************************************)
(* The conversions and checks the resource code takes from cseries and     *)
(* from C++ itself.  A width is given by its modulus, 2^8, 2^16 or 2^32 in *)
(* the program and less in an instance for TLC.                            *)
(***************************************************************************)
EXTENDS Integers, Sequences

\* The "no index" sentinel.
NONE == -1

\* VALID_INDEX of a table: indexes count from 0.
ValidIndex(index, table) == index \in 0 .. Len(table) - 1

\* The row of a table at an index counted from 0.
RowAt(table, index) == table[index + 1]

\* The index counted from 0 of the row appended last.
LastIndex(table) == Len(table) - 1

\* static_cast to the unsigned type of that width.
Unsigned(value, modulus) == value % modulus

\* static_cast to the signed type of that width: two's complement.
Signed(value, modulus) ==
  LET bits == value % modulus
  IN IF 2 * bits < modulus THEN bits ELSE bits - modulus
=============================================================================
