------------------------------- MODULE Leb128 -------------------------------
(***************************************************************************)
(* Reading and writing the variable length integers of a wasm module, as   *)
(* u_leb128.h and reader.cxx do.  A byte has Group payload bits below its  *)
(* continuation bit (7 in the code); Word and Long are the widths of       *)
(* UINT32 and INT64.  A byte is a number below 2 * Mark.                   *)
(*                                                                         *)
(* The operand starts at the head of the byte sequence s; what follows it  *)
(* belongs to the next instruction.                                        *)
(***************************************************************************)
EXTENDS Integers, Sequences, FiniteSetsExt

CONSTANTS Group, Word, Long

\* As in the code (64 = 9 * 7 + 1), one bit is left for the last byte of a
\* long: the special case decodeSLEB128 makes of it is then a real one.
ASSUME LebAssumption ==
  /\ {Group, Word, Long} \subseteq Nat \ {0}
  /\ Long % Group = 1

Mark == 2 ^ Group

Slice(b) == b % Mark

\* The two's complement reading of the lowest w bits of x.
Signed(x, w) == ((x + 2 ^ (w - 1)) % 2 ^ w) - 2 ^ (w - 1)

Unsigned(x, w) == x % 2 ^ w

-----------------------------------------------------------------------------
(* Reading *)

\* The loop runs to the first byte without continuation bit.
Read_opr_size_leb128(s) ==
  CHOOSE n \in 1 .. Len(s) : s[n] < Mark /\ \A i \in 1 .. n - 1 : s[i] >= Mark

\* Each slice is a UINT32 when it is shifted, whatever the width of the result.
Read_leb128(s) ==
  MapThenSumSet(LAMBDA i : (Slice(s[i]) * 2 ^ (Group * (i - 1))) % 2 ^ Word,
                1 .. Read_opr_size_leb128(s))

\* Sign extension happens only if the last shift left bits to fill; a slice at
\* the last bit may only repeat the sign.  The callers pass no error pointer,
\* so a number that is too big is read as 0.
decodeSLEB128(s) ==
  LET n == Read_opr_size_leb128(s)
      value == MapThenSumSet(LAMBDA i : Slice(s[i]) * 2 ^ (Group * (i - 1)), 1 .. n)
      tooBig == \E i \in 1 .. n : /\ Group * (i - 1) = Long - 1
                                  /\ Slice(s[i]) \notin {0, Mark - 1}
      extend == Group * n < Long /\ Slice(s[n]) >= Mark \div 2
  IN IF tooBig THEN 0
     ELSE Signed(value - (IF extend THEN 2 ^ (Group * n) ELSE 0), Long)

-----------------------------------------------------------------------------
(* Writing *)

\* The byte sequence of n groups of v, continuation bits on all but the last.
Groups(v, n) ==
  [i \in 1 .. n |-> ((v \div 2 ^ (Group * (i - 1))) % Mark) + (IF i < n THEN Mark ELSE 0)]

\* More: the bits above the group are not all equal to its top bit.
encodeSLEB128(v, PadTo) ==
  LET rest(n) == v \div 2 ^ (Group * n)
      top(n) == (v \div 2 ^ (Group * n - 1)) % 2
      more(n) == ~ \/ rest(n) = 0 /\ top(n) = 0
                   \/ rest(n) = -1 /\ top(n) = 1
      count == CHOOSE n \in 1 .. Long : ~more(n) /\ \A i \in 1 .. n - 1 : more(i)
  IN Groups(v, Max({count, PadTo}))

encodeULEB128(v, PadTo) ==
  LET count == CHOOSE n \in 1 .. Long : /\ v < 2 ^ (Group * n)
                                        /\ n > 1 => v >= 2 ^ (Group * (n - 1))
  IN Groups(v, Max({count, PadTo}))
=============================================================================
