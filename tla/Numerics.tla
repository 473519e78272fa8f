------------------------------ MODULE Numerics ------------------------------
(***************************************************************************)
(* What the numeric and memory instructions of WebAssembly compute: the    *)
(* reference for module Alu.  Nothing here models code of the repository;  *)
(* it is the part of the specification that src/tests/spec exercises.      *)
(* Values are the unsigned numbers of Word or Long bits, the memory is a   *)
(* sequence of cells of Cell bits (a byte in the specification), little    *)
(* endian, and a program works on the operands it was given: registers     *)
(* stand for the places of the operand stack and the locals.               *)
(***************************************************************************)
EXTENDS Leb128

CONSTANTS MemSize   \* cells of memory

ASSUME NumericsAssumption ==
  /\ Word % 4 = 0 /\ Long = 2 * Word
  /\ MemSize \in 1 .. 2 ^ (Word - 1)

Cell == Word \div 4

Width == [i32 |-> Word, i64 |-> Long]

BinOps == {"add", "sub", "mul", "div", "div_u", "rem", "rem_u", "and", "or", "xor",
           "shl", "shr", "shr_u", "rotl", "rotr"}
CmpOps == {"eq", "ne", "lt", "lt_u", "gt", "gt_u", "le", "le_u", "ge", "ge_u"}

\* An instruction: what it does, on which registers, with which immediate
\* (the bytes of the operand); the bytes of the alignment, the size in cells
\* and the sign of a memory access.
Inst(op, ty, rd, rs, rt, imm) ==
  [op |-> op, ty |-> ty, rd |-> rd, rs |-> rs, rt |-> rt, imm |-> imm,
   align |-> <<>>, size |-> 0, sx |-> FALSE]

Access(op, ty, size, sx, rd, rs, align, imm) ==
  [Inst(op, ty, rd, rs, 0, imm) EXCEPT !.align = align, !.size = size, !.sx = sx]

\* The integer an operand of n bytes stands for.
Number(s, signed) ==
  LET n == Len(s)
      u == MapThenSumSet(LAMBDA i : Slice(s[i]) * 2 ^ (Group * (i - 1)), 1 .. n)
  IN IF signed /\ 2 * Slice(s[n]) >= Mark THEN u - 2 ^ (Group * n) ELSE u

Quotient(a, b) ==
  LET abs(x) == IF x < 0 THEN -x ELSE x
      q == abs(a) \div abs(b)
  IN IF (a < 0) # (b < 0) THEN -q ELSE q

\* The bits of x, the lowest being 0.
BitSet(x, w) == {k \in 0 .. w - 1 : (x \div 2 ^ k) % 2 = 1}
FromBits(B) == MapThenSumSet(LAMBDA k : 2 ^ k, B)

BinTraps(op, w, a, b) ==
  \/ op \in {"div", "div_u", "rem", "rem_u"} /\ b = 0
  \/ op = "div" /\ a = 2 ^ (w - 1) /\ b = 2 ^ w - 1

BinValue(op, w, a, b) ==
  LET s(x) == Signed(x, w)
      A == BitSet(a, w)
      B == BitSet(b, w)
      k == b % w
  IN CASE op = "add" -> (a + b) % 2 ^ w
       [] op = "sub" -> (a - b) % 2 ^ w
       [] op = "mul" -> (s(a) * s(b)) % 2 ^ w
       [] op = "div" -> Quotient(s(a), s(b)) % 2 ^ w
       [] op = "div_u" -> a \div b
       [] op = "rem" -> (s(a) - s(b) * Quotient(s(a), s(b))) % 2 ^ w
       [] op = "rem_u" -> a % b
       [] op = "and" -> FromBits(A \cap B)
       [] op = "or" -> FromBits(A \cup B)
       [] op = "xor" -> FromBits((A \cup B) \ (A \cap B))
       [] op = "shl" -> FromBits({x \in 0 .. w - 1 : x - k \in A})
       [] op = "shr_u" -> FromBits({x \in 0 .. w - 1 : x + k \in A})
       [] op = "shr" -> FromBits({x \in 0 .. w - 1 : (IF x + k < w THEN x + k ELSE w - 1) \in A})
       [] op = "rotl" -> FromBits({x \in 0 .. w - 1 : (x - k) % w \in A})
       [] op = "rotr" -> FromBits({x \in 0 .. w - 1 : (x + k) % w \in A})

CmpValue(op, w, a, b) ==
  LET s(x) == Signed(x, w)
      holds == CASE op = "eq" -> a = b
                 [] op = "ne" -> a # b
                 [] op = "lt" -> s(a) < s(b)
                 [] op = "lt_u" -> a < b
                 [] op = "gt" -> s(a) > s(b)
                 [] op = "gt_u" -> a > b
                 [] op = "le" -> s(a) <= s(b)
                 [] op = "le_u" -> a <= b
                 [] op = "ge" -> s(a) >= s(b)
                 [] op = "ge_u" -> a >= b
  IN IF holds THEN 1 ELSE 0

\* size cells at address a, as a number; and the cells of a number.
Cells(mem, a, size) == MapThenSumSet(LAMBDA k : mem[a + k] * 2 ^ (Cell * k), 0 .. size - 1)
Stored(mem, a, size, v) ==
  [x \in DOMAIN mem |-> IF x \in a .. a + size - 1
                        THEN (v \div 2 ^ (Cell * (x - a))) % 2 ^ Cell ELSE mem[x]]

EffectiveAddress(m, i) == m.r["i32"][i.rs] + Number(i.imm, FALSE)
InBounds(m, i) == EffectiveAddress(m, i) + i.size <= MemSize

\* The state after instruction i: registers, memory, and its length in the byte code.
Meaning(m, i) ==
  LET w == Width[i.ty]
      r == m.r[i.ty]
      next == [m EXCEPT !.len = 1 + Len(i.align) + Len(i.imm)]
      set(ty, v) == [next EXCEPT !.r[ty][i.rd] = v]
      trap == [next EXCEPT !.trap = "trap"]
  IN CASE i.op = "const" -> set(i.ty, Number(i.imm, TRUE) % 2 ^ w)
       [] i.op = "mov" -> set(i.ty, r[i.rs])
       [] i.op \in BinOps -> IF BinTraps(i.op, w, r[i.rs], r[i.rt]) THEN trap
                             ELSE set(i.ty, BinValue(i.op, w, r[i.rs], r[i.rt]))
       [] i.op \in CmpOps -> set("i32", CmpValue(i.op, w, r[i.rs], r[i.rt]))
       [] i.op = "eqz" -> set("i32", IF r[i.rs] = 0 THEN 1 ELSE 0)
       [] i.op = "wrap" -> set("i32", m.r["i64"][i.rs] % 2 ^ Word)
       [] i.op = "extend" -> set("i64", Signed(m.r["i32"][i.rs], Word) % 2 ^ Long)
       [] i.op = "extend_u" -> set("i64", m.r["i32"][i.rs])
       [] i.op = "load" ->
            IF ~InBounds(m, i) THEN trap
            ELSE LET v == Cells(m.mem, EffectiveAddress(m, i), i.size)
                 IN set(i.ty, IF i.sx THEN Signed(v, Cell * i.size) % 2 ^ w ELSE v)
       [] i.op = "store" ->
            IF ~InBounds(m, i) THEN trap
            ELSE [next EXCEPT !.mem = Stored(@, EffectiveAddress(m, i), i.size, r[i.rd])]
=============================================================================
