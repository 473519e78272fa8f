-------------------------------- MODULE Alu ---------------------------------
(***************************************************************************)
(* One instruction on its way from the bytes of a wasm function to the     *)
(* registers of the machine: the reader takes its operands from the byte   *)
(* code, the converter chooses the form of the instruction, U_INST_UTIL    *)
(* packs it into the fields of its addressing mode, Expand_code unpacks    *)
(* them again, and a handler of exec_unit_func.h computes.  Word is the    *)
(* width of INT32, Long that of INT64; the widths of the fields are        *)
(* constants.  Registers hold signed numbers, as the INT32 and INT64 files *)
(* of the machine do.                                                      *)
(*                                                                         *)
(* Which register an operand is in is the business of module Converter;    *)
(* here any choice is allowed.  Beside the machine m runs the reference    *)
(* want (module Numerics).                                                 *)
(***************************************************************************)
EXTENDS Numerics, Bitwise, SequencesExt

CONSTANTS
  Insts,       \* the instructions a program consists of
  MaxInsts,    \* bound on the length of a program
  Tails,       \* first bytes of a next instruction
  Registers,   \* registers a program uses
  Rtemp,       \* the register the converter takes for addresses
  MemImage,    \* initial contents of the memory
  RegS, RegL,  \* bits of a register field of a short and of a long form
  RegMax,      \* log2(REG_S_MAX + 1)
  ImmS, ImmM,  \* bits of an immediate of a short and of a long form
  Builds,      \* the builds: with and without UWASM_MEM_CHECK
  Unusual      \* the unusual cases that may occur, see Usual

VARIABLES
  build,   \* which build executes
  m,       \* the machine: registers, memory, length of the last instruction
  want,    \* the same for the reference
  left     \* instructions that may follow

vars == <<build, m, want, left>>

Types == {"i32", "i64"}
Classes == {"offset", "zerobase", "bounds", "divu", "minrem", "shift64", "rot", "cmp64", "highreg"}

ASSUME AluAssumption ==
  /\ {Rtemp} \cup Registers \subseteq Nat /\ Rtemp \notin Registers
  /\ {RegS, RegL, RegMax, ImmS, ImmM} \subseteq Nat \ {0}
  /\ MemImage \in [0 .. MemSize - 1 -> 0 .. 2 ^ Cell - 1]
  /\ Builds \subseteq {"default", "memcheck"} /\ Unusual \subseteq Classes

REG_S_MAX == 2 ^ RegMax - 1
OFFSET_S_MAX == 2 ^ ImmS - 1
OFFSET_M_MAX == 2 ^ ImmM - 1

-----------------------------------------------------------------------------
(* Reading an instruction from the byte code.  b is the byte code from the *)
(* opcode of the instruction on, which is one byte.                        *)

From(b, k) == SubSeq(b, k, Len(b))

Read_inst_size(i, b) ==
  LET numopr == IF i.op \in {"load", "store"} THEN 2 ELSE IF i.op = "const" THEN 1 ELSE 0
      n1 == IF numopr > 0 THEN Read_opr_size_leb128(From(b, 2)) ELSE 0
      n2 == IF numopr > 1 THEN Read_opr_size_leb128(From(b, 2 + n1)) ELSE 0
  IN 1 + n1 + n2

\* The alignment is skipped.
Read_offset(b) == Read_leb128(From(b, 2 + Read_opr_size_leb128(From(b, 2))))

Read_const_value(b) == decodeSLEB128(From(b, 2))

-----------------------------------------------------------------------------
(* The converter: the instructions emitted for one wasm instruction, each  *)
(* with its addressing mode and the UINT32 contents of its fields.         *)

U(opc, ty, am, c) == [opc |-> opc, ty |-> ty, am |-> am, c |-> c, size |-> 0, sx |-> FALSE]

Add_const_inst(opc, ty, rd, imm) == U(opc, ty, "AM64_R_IMM", <<rd, imm>>)

Const_code(i, b) ==
  LET value == Read_const_value(b)
      low == Unsigned(value, Word)
  IN IF i.ty = "i32" THEN <<Add_const_inst("CONST_L", "i32", i.rd, low)>>
     ELSE <<Add_const_inst("CONST_L", "i64", i.rd, low),
            Add_const_inst("CONST_L_HIGH", "i64", i.rd, Unsigned(value, Long) \div 2 ^ Word)>>

Access_code(i, b) ==
  LET offset == Read_offset(b)
      long == offset > OFFSET_S_MAX \/ i.rs > REG_S_MAX \/ i.rd > REG_S_MAX
      access(am, rs, ofs) ==
        [U(i.op, i.ty, am, <<i.rd, rs, ofs>>) EXCEPT !.size = i.size, !.sx = i.sx]
  IN IF ~long THEN <<access("AM32S_R_R_IMM", i.rs, offset)>>
     ELSE IF offset < OFFSET_M_MAX THEN <<access("AM64_R_R_IMM", i.rs, offset)>>
     ELSE <<Add_const_inst("CONST_L", "i32", Rtemp, offset),
            U("add", "i32", "AM64_R_R_R", <<Rtemp, i.rs, Rtemp>>),
            access("AM64_R_R_IMM", Rtemp, 0)>>

\* Rotations are the only operators with a short form.
Rrr_code(i) ==
  <<U(i.op, i.ty, IF i.op \in {"rotl", "rotr"} THEN "AM32S_R_R_R" ELSE "AM64_R_R_R",
      <<i.rd, i.rs, i.rt>>)>>

Builtins == [extend |-> 1, extend_u |-> 2, wrap |-> 3]

Builtin_code(i) == <<U("BUILTIN", i.ty, "AM64_R_R_IMM", <<i.rd, i.rs, Builtins[i.op]>>)>>

Wasm_to_uwasm(i, b) ==
  CASE i.op = "const" -> Const_code(i, b)
    [] i.op \in {"load", "store"} -> Access_code(i, b)
    [] i.op \in BinOps \cup CmpOps -> Rrr_code(i)
    [] i.op \in DOMAIN Builtins -> Builtin_code(i)
    [] i.op \in {"mov", "eqz"} -> <<U(i.op, i.ty, "AM32_R_R", <<i.rd, i.rs>>)>>

-----------------------------------------------------------------------------
(* Packing into the fields of the addressing mode and unpacking again.     *)

\* Number of register fields, their bits, and the bits of the immediate.
Form ==
  [AM32_R_R      |-> [regs |-> 2, rbits |-> RegL, ibits |-> 0],
   AM32S_R_R_IMM |-> [regs |-> 2, rbits |-> RegS, ibits |-> ImmS],
   AM32S_R_R_R   |-> [regs |-> 3, rbits |-> RegS, ibits |-> 0],
   AM64_R_IMM    |-> [regs |-> 1, rbits |-> RegL, ibits |-> Word],
   AM64_R_R_IMM  |-> [regs |-> 2, rbits |-> RegL, ibits |-> ImmM],
   AM64_R_R_R    |-> [regs |-> 3, rbits |-> RegL, ibits |-> 0]]

\* The bound is one above what the field can hold.
Check_reg(bits, r) == r <= 2 ^ bits

Check_imm(bits, imm) ==
  imm < 2 ^ bits \/ Signed(imm, Word) \in -(2 ^ (bits - 1)) .. 2 ^ (bits - 1) - 1

Init_inst_checks(am, c) ==
  /\ \A k \in 1 .. Form[am].regs : Check_reg(Form[am].rbits, c[k])
  /\ Form[am].ibits > 0 => Check_imm(Form[am].ibits, c[Len(c)])

\* Register fields are unsigned, every immediate field is signed.
Expand(am, c) ==
  [k \in 1 .. Len(c) |-> IF k <= Form[am].regs THEN Unsigned(c[k], Form[am].rbits)
                         ELSE Signed(c[k], Form[am].ibits)]

-----------------------------------------------------------------------------
(* The handlers.  The build is for x86: a shift takes its count modulo the *)
(* width, and a division whose result is not defined stops the process.    *)

Set(s, ty, rd, v) == [s EXCEPT !.r[ty][rd] = Signed(v, Width[ty])]

Stop(s, how) == [s EXCEPT !.trap = how]

Const_l(s, u, e) == Set(s, u.ty, e[1], e[2])

\* Mutant: the bits the sign of the low half left are kept.
Const_l_high_keeps(s, e) ==
  Set(s, "i64", e[1], Unsigned(s.r["i64"][e[1]], Long) | (Unsigned(e[2], Word) * 2 ^ Word))

Const_l_high(s, e) ==
  Set(s, "i64", e[1], Unsigned(s.r["i64"][e[1]], Word) + Unsigned(e[2], Word) * 2 ^ Word)

Divide_faults(w, a, b) == b = 0 \/ (a = -(2 ^ (w - 1)) /\ b = -1)

\* The count of a shift and both operands of a rotation are read from the
\* i32 file, whatever the type of the instruction.
Shift_count(s, u, e) == Unsigned(s.r["i32"][e[3]], Word) % Width[u.ty]

\* A rotation shifts its count, a UINT32 also for i64.
Rotl(n) == ((n * 2 ^ (n % Word)) % 2 ^ Word) | (n \div 2 ^ ((-n) % Word))
Rotr(n) == (n \div 2 ^ (n % Word)) | ((n * 2 ^ ((-n) % Word)) % 2 ^ Word)

Binary(s, u, e) ==
  LET w == Width[u.ty]
      a == s.r[u.ty][e[2]]
      b == s.r[u.ty][e[3]]
      ua == Unsigned(a, w)
      ub == Unsigned(b, w)
      k == Shift_count(s, u, e)
      num_bit == Unsigned(s.r["i32"][e[3]], Word)
      v == CASE u.opc = "add" -> a + b
             [] u.opc = "sub" -> a - b
             [] u.opc = "mul" -> a * b
             [] u.opc \in {"div", "div_u"} -> Quotient(a, b)
             [] u.opc \in {"rem", "rem_u"} -> a - b * Quotient(a, b)
             [] u.opc = "and" -> ua & ub
             [] u.opc = "or" -> ua | ub
             [] u.opc = "xor" -> ua ^^ ub
             [] u.opc = "shl" -> (a * 2 ^ k) % 2 ^ w
             [] u.opc = "shr" -> a \div 2 ^ k
             [] u.opc = "shr_u" -> ua \div 2 ^ k
             [] u.opc = "rotl" -> Rotl(num_bit)
             [] u.opc = "rotr" -> Rotr(num_bit)
  IN IF u.opc \in {"div", "div_u", "rem", "rem_u"} /\ Divide_faults(w, a, b)
     THEN Stop(s, "trap") ELSE Set(s, u.ty, e[1], v)

\* Comparisons leave their result in the file of their operands.
Compare(s, u, e) ==
  LET w == Width[u.ty]
      a == s.r[u.ty][e[2]]
      b == s.r[u.ty][e[3]]
      ua == Unsigned(a, w)
      ub == Unsigned(b, w)
      holds == CASE u.opc = "eq" -> a = b
                 [] u.opc = "ne" -> a # b
                 [] u.opc = "lt" -> a < b
                 [] u.opc = "gt" -> a > b
                 [] u.opc = "le" -> a <= b
                 [] u.opc = "ge" -> a >= b
                 [] u.opc = "lt_u" -> ua < ub
                 [] u.opc = "gt_u" -> ua > ub
                 [] u.opc = "le_u" -> ua <= ub
                 [] u.opc = "ge_u" -> ua >= ub
  IN Set(s, u.ty, e[1], IF holds THEN 1 ELSE 0)

Eqz(s, u, e) == Set(s, u.ty, e[1], IF s.r[u.ty][e[2]] = 0 THEN 1 ELSE 0)

Builtin(s, e) ==
  CASE e[3] = Builtins.wrap -> Set(s, "i32", e[1], s.r["i64"][e[2]])
    [] e[3] = Builtins.extend -> Set(s, "i64", e[1], s.r["i32"][e[2]])
    [] e[3] = Builtins.extend_u -> Set(s, "i64", e[1], Unsigned(s.r["i32"][e[2]], Word))

\* Mutant: the sign decides in every build.
Get_base_addr_signed(ptr_ofs) == IF ptr_ofs > 0 THEN ptr_ofs ELSE MemSize + ptr_ofs

\* Without UWASM_MEM_CHECK what is not positive counts from the end.
Get_base_addr(ptr_ofs) ==
  IF build = "memcheck" \/ ptr_ofs > 0 THEN ptr_ofs ELSE MemSize + ptr_ofs

Base_checked(ptr_ofs) == (IF ptr_ofs < 0 THEN -ptr_ofs ELSE ptr_ofs) < MemSize

\* Only the base is checked; what is behind the memory is not the program's.
Access_memory(s, u, e) ==
  LET ptr_ofs == s.r["i32"][e[2]]
      a == Get_base_addr(ptr_ofs) + e[3]
      v == Cells(s.mem, a, u.size)
  IN IF ~Base_checked(ptr_ofs) THEN Stop(s, "abort")
     ELSE IF a < 0 \/ a + u.size > MemSize THEN Stop(s, "wild")
     ELSE IF u.opc = "load"
          THEN Set(s, u.ty, e[1], IF u.sx THEN Signed(v, Cell * u.size) ELSE v)
     ELSE [s EXCEPT !.mem = Stored(@, a, u.size, s.r[u.ty][e[1]])]

Exec(s, u) ==
  LET e == Expand(u.am, u.c)
  IN IF s.trap # "none" THEN s
     ELSE IF ~Init_inst_checks(u.am, u.c) THEN Stop(s, "abort")
     ELSE CASE u.opc = "CONST_L" -> Const_l(s, u, e)
            [] u.opc = "CONST_L_HIGH" -> Const_l_high(s, e)
            [] u.opc = "BUILTIN" -> Builtin(s, e)
            [] u.opc = "mov" -> Set(s, u.ty, e[1], s.r[u.ty][e[2]])
            [] u.opc = "eqz" -> Eqz(s, u, e)
            [] u.opc \in BinOps -> Binary(s, u, e)
            [] u.opc \in CmpOps -> Compare(s, u, e)
            [] u.opc \in {"load", "store"} -> Access_memory(s, u, e)

Run(s, code) == FoldLeft(Exec, s, code)

-----------------------------------------------------------------------------
(* The cases the code gets right.  Each class of cases it does not get     *)
(* right may be let in by naming it in Unusual.                            *)

Signbit(i, r) == want.r[i.ty][r] >= 2 ^ (Width[i.ty] - 1)

Meets(class, i) ==
  CASE class = "offset" ->
         /\ i.op \in {"load", "store"}
         /\ LET n == Number(i.imm, FALSE)
            IN n \in 2 ^ (ImmS - 1) .. OFFSET_S_MAX \/ n \in 2 ^ (ImmM - 1) .. OFFSET_M_MAX - 1
    [] class = "zerobase" ->
         i.op \in {"load", "store"} /\ build = "default" /\ want.r["i32"][i.rs] = 0
    [] class = "bounds" -> i.op \in {"load", "store"} /\ ~InBounds(want, i)
    [] class = "divu" -> i.op \in {"div_u", "rem_u"} /\ (Signbit(i, i.rs) \/ Signbit(i, i.rt))
    [] class = "minrem" ->
         /\ i.op = "rem" /\ want.r[i.ty][i.rs] = 2 ^ (Width[i.ty] - 1)
         /\ want.r[i.ty][i.rt] = 2 ^ Width[i.ty] - 1
    [] class = "shift64" ->
         /\ i.op \in {"shl", "shr", "shr_u"} /\ i.ty = "i64"
         /\ want.r["i32"][i.rt] % Long # want.r["i64"][i.rt] % Long
    [] class = "rot" -> i.op \in {"rotl", "rotr"}
    [] class = "cmp64" -> i.op \in CmpOps \cup {"eqz"} /\ i.ty = "i64"
    [] class = "highreg" ->
         \/ 2 ^ RegL \in {i.rd, i.rs, i.rt}
         \/ /\ i.op \in {"load", "store"} /\ Number(i.imm, FALSE) <= OFFSET_S_MAX
            /\ \A r \in {i.rd, i.rs} : r <= REG_S_MAX
            /\ \E r \in {i.rd, i.rs} : r >= 2 ^ RegS

Usual(i) == \A class \in Classes \ Unusual : ~Meets(class, i)

-----------------------------------------------------------------------------
Blank == [r |-> [ty \in Types |-> [k \in Registers \cup {Rtemp} |-> 0]],
          mem |-> MemImage, len |-> 0, trap |-> "none"]

Init == /\ build \in Builds
        /\ m = Blank
        /\ want = Blank
        /\ left = MaxInsts

\* The bytes of the instruction, and the next one's first byte.
Bytes(i, tail) == <<0>> \o i.align \o i.imm \o <<tail>>

Step(i) ==
  /\ left > 0
  /\ m.trap = "none" /\ want.trap = "none"
  /\ Usual(i)
  /\ \E tail \in Tails :
       LET b == Bytes(i, tail)
           code == Wasm_to_uwasm(i, b)
       IN m' = [Run(m, code) EXCEPT !.len = Read_inst_size(i, b)]
  /\ want' = Meaning(want, i)
  /\ left' = left - 1
  /\ UNCHANGED build

Of(ops) == {i \in Insts : i.op \in ops}

StepConst   == \E i \in Of({"const"}) : Step(i)
StepMov     == \E i \in Of({"mov"}) : Step(i)
StepBinary  == \E i \in Of(BinOps) : Step(i)
StepCompare == \E i \in Of(CmpOps \cup {"eqz"}) : Step(i)
StepBuiltin == \E i \in Of(DOMAIN Builtins) : Step(i)
StepLoad    == \E i \in Of({"load"}) : Step(i)
StepStore   == \E i \in Of({"store"}) : Step(i)

Next == StepConst \/ StepMov \/ StepBinary \/ StepCompare \/ StepBuiltin \/ StepLoad \/ StepStore

Spec == Init /\ [][Next]_vars

-----------------------------------------------------------------------------
\* Registers hold numbers of the width of their file and memory cells bytes,
\* whatever the handlers computed; nothing is left in a state the converter or
\* the loader refused.
TypeOK ==
  /\ build \in Builds /\ left \in 0 .. MaxInsts
  /\ \A ty \in Types : \A k \in DOMAIN m.r[ty] :
       m.r[ty][k] \in -(2 ^ (Width[ty] - 1)) .. 2 ^ (Width[ty] - 1) - 1
  /\ m.mem \in [0 .. MemSize - 1 -> 0 .. 2 ^ Cell - 1]
  /\ m.trap \in {"none", "trap"}

\* After any program the registers and the memory hold what WebAssembly says,
\* the reader goes on at the next instruction, and the machine has stopped exactly
\* if the program traps: constants survive their way through LEB128, the two
\* 32 bit halves and the fields of an instruction, addresses through the three
\* forms of a memory access, and the handlers compute on signed numbers what
\* is defined on unsigned ones.
Agrees ==
  /\ m.trap = want.trap
  /\ m.len = want.len
  /\ m.trap = "none" =>
       /\ m.mem = want.mem
       /\ \A ty \in Types : \A k \in Registers : Unsigned(m.r[ty][k], Width[ty]) = want.r[ty][k]
=============================================================================
