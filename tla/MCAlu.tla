------------------------------- MODULE MCAlu --------------------------------
(***************************************************************************)
(* Words of 8 and longs of 16 bits, bytes of 5 payload bits, memory cells  *)
(* of 2 bits.  The constants are the ends of the ranges and their          *)
(* neighbours, and addresses in and around the memory.                     *)
(***************************************************************************)
EXTENDS Alu

High == 9             \* needs the long form of a memory access
Edge == 2 ^ RegS      \* the first that does not fit into a short form

MCRegisters == {0, 1, Edge, High}

Const32 == {0, 1, 6, 127, 128, 255}
Const64 == {0, 1, 255, 256, 2 ^ 15 - 1, 2 ^ 15, 2 ^ 16 - 1}

\* Shortest encodings in register 0, padded ones in register 1.
ConstInsts ==
  { Inst("const", "i32", rd, 0, 0, encodeSLEB128(Signed(v, Word), 2 * rd)) :
      rd \in {0, 1}, v \in Const32 } \cup
  { Inst("const", "i64", rd, 0, 0, encodeSLEB128(Signed(v, Long), 4 * rd)) :
      rd \in {0, 1}, v \in Const64 }

MovInsts == { Inst("mov", "i32", High, 0, 0, <<>>), Inst("mov", "i32", Edge, 0, 0, <<>>),
              Inst("mov", "i64", 0, 1, 0, <<>>) }

OpInsts == { Inst(op, ty, 1, 0, 1, <<>>) : op \in BinOps \cup CmpOps \cup {"eqz"}, ty \in Types }

ConvInsts == { Inst("wrap", "i32", 0, 1, 0, <<>>), Inst("extend", "i64", 1, 0, 0, <<>>),
               Inst("extend_u", "i64", 1, 0, 0, <<>>) }

Sizes(ty) == IF ty = "i32" THEN {1, 2, 4} ELSE {1, 2, 4, 8}

Offsets == {0, 1, 3, 6, 11, 15, 20}

\* Operands are padded where the base is the high register.
AccessInsts ==
  UNION { { Access(op, ty, size, sx, 1, rs, IF rs = 0 THEN <<0>> ELSE <<Mark, 0>>,
                   encodeULEB128(o, IF rs = 0 THEN 0 ELSE 2)) :
              op \in {"load", "store"}, size \in Sizes(ty), sx \in BOOLEAN,
              rs \in {0, Edge, High}, o \in Offsets } : ty \in Types }

MCInsts ==
  ConstInsts \cup MovInsts \cup OpInsts \cup ConvInsts \cup
  { i \in AccessInsts : i.op = "store" => ~i.sx }

\* Every cell differs from its neighbours.
MCMemImage == [a \in 0 .. MemSize - 1 |-> (a * a + a \div 3) % 4]
=============================================================================
