----------------------------- MODULE Converter -----------------------------
(***************************************************************************)
(* The conversion of one WebAssembly function to register code,            *)
(* src/wasm/converter.cxx.  Build_block_hierarchy reads the instructions   *)
(* and builds the tree of statements; Wasm_to_uwasm then walks over them   *)
(* with a stack that names, for every value on the WebAssembly stack, the  *)
(* register that holds it; a last loop puts in the registers of calls,     *)
(* which depend on how many registers the function needs.                  *)
(*                                                                         *)
(* Every instruction adds exactly one statement behind that of the         *)
(* function, so a statement's id is the number of its instruction.         *)
(***************************************************************************)
EXTENDS Wasm

CONSTANTS
  RET_REG_NUM,     \* registers for return values, in every register file
  OFFSET_M_MAX,    \* from this offset on an address is computed before a load
  REG_FREE_MAX,    \* registers from here on are never freed (126)
  REG_TEMP_MAX,    \* no temporary register from here on (128)
  Alphabets,       \* sets of instructions, each with a bound on the length of
                   \* functions; a function uses instructions of one set
  Fuel,            \* bound on the instructions a run of the function executes
  FuncRes          \* result types of the converted functions

Ops ==
  {"Block", "Loop", "If", "Else", "End", "Br", "BrIf", "BrTable", "Return", "Unreachable", "Nop",
   "Drop", "Const", "Binary", "Compare", "Eqz", "Convert", "Select", "LocalGet", "LocalSet",
   "LocalTee", "GlobalGet", "GlobalSet", "Load", "Store", "MemorySize", "MemoryGrow", "Call",
   "CallIndirect"}

\* An instruction as the reader of the wasm file hands it over.
WellFormed(i) ==
  /\ i.op \in Ops /\ i.ty \in Types \cup {Void}
  /\ i.op \in {"Const", "Binary", "Compare", "Eqz", "Convert", "Select", "Load", "Store"} => i.ty \in Types
  /\ i.op \in {"LocalGet", "LocalSet", "LocalTee"} => i.n[1] \in DOMAIN Vars
  /\ i.op \in {"Br", "BrIf", "BrTable"} => i.n \in Seq(Nat) \ {<<>>}
  /\ i.op \in {"GlobalGet", "GlobalSet", "MemorySize", "MemoryGrow"} => i.ty = "i32"
  /\ i.op \in {"Call", "CallIndirect"} => i.ty \in {CalleeRes, Void}

ASSUME ConverterAssumption ==
  /\ RET_REG_NUM \in Nat \ {0} /\ OFFSET_M_MAX \in Nat
  /\ REG_FREE_MAX \in Nat /\ REG_TEMP_MAX \in Nat /\ Fuel \in Nat
  /\ FuncRes \subseteq Types \cup {Void}
  /\ \A a \in Alphabets : a.len \in Nat \ {0} /\ \A i \in a.insts : WellFormed(i)

VARIABLES
  phase,    \* "read", "convert", "fixup", "done"; "abort": an assertion failed
  alphabet, \* the instructions this function may use
  fres,     \* result type of the function
  valid,    \* the input so far, as WebAssembly validates it
  ins,      \* instructions read
  work,     \* ids of the open blocks; 0 is the function
  graph,    \* WINST_STMT_GRAPH: a statement for every instruction
  at,       \* number of the instruction to convert, ins_cnt
  al,       \* wasm_stack and the register allocator, see below
  code,     \* instructions of the encoder's current function
  labels,   \* its labels: 0 while only requested, else the position
  calls     \* call_insts_pc: where the calls are

vars == <<phase, alphabet, fres, valid, ins, work, graph, at, al, code, labels, calls>>
input == <<alphabet, fres, valid, ins, work>>

-----------------------------------------------------------------------------
(***************************************************************************)
(* Build_block_hierarchy.                                                  *)
(***************************************************************************)
Stmt(i, parent) ==
  [op |-> i.op, parent |-> parent, els |-> 0, res |-> i.ty, reg |-> 0, size |-> 0]

\* A block requests its end label, loops and elses also one for their begin.
Requested(i, id) ==
  (IF i.op \in {"Loop", "Else"} THEN {<<"begin", id>>} ELSE {}) \cup {<<"end", id>>}
Request(ls, names) == [l \in DOMAIN ls \cup names |-> IF l \in DOMAIN ls THEN ls[l] ELSE 0]

Create_new_block(i) ==
  LET id == Len(ins) + 1 IN
  /\ graph' = Append(graph, Stmt(i, Last(work)))
  /\ work' = Append(work, id)
  /\ labels' = Request(labels, Requested(i, id))

\* Else closes the if and becomes its sibling; each knows the other.
Else_block(i) ==
  LET id == Len(ins) + 1
      if == Last(work)
  IN /\ graph[if].op = "If"
     /\ graph' = Append([graph EXCEPT ![if].els = id],
                        [Stmt(i, graph[if].parent) EXCEPT !.els = if, !.res = graph[if].res])
     /\ work' = Append(Front(work), id)
     /\ labels' = Request(labels, Requested(i, id))

Build_block_hierarchy(i) ==
  /\ phase = "read"
  /\ IsValid(valid, i, fres) /\ Usual(valid, i, fres)
  /\ i.op # "End" => Len(ins) + Len(valid.ctl) + (IF Opens(i) THEN 3 ELSE 2) <= alphabet.len
  /\ ins' = Append(ins, i)
  /\ CASE Opens(i) -> Create_new_block(i)
       [] i.op = "Else" -> Else_block(i)
       [] OTHER -> /\ graph' = Append(graph, Stmt(i, Last(work)))
                   /\ work' = IF i.op = "End" THEN Front(work) ELSE work
                   /\ UNCHANGED labels
  /\ IF i.op = "End" /\ valid.ctl = <<>>
     THEN phase' = "convert" /\ UNCHANGED valid
     ELSE phase' = "read" /\ valid' = Validated(valid, i, fres)
  /\ UNCHANGED <<alphabet, fres, at, al, code, calls>>

-----------------------------------------------------------------------------
(***************************************************************************)
(* The stack of registers and their allocation.  al.stk is wasm_stack,     *)
(* al.next REG_ALLOC_HELPER::_next_reg_id, al.size the length of each      *)
(* local_tab, al.io its max_call_param.  al.ok turns FALSE where the code  *)
(* asserts and the assertion fails.                                        *)
(***************************************************************************)
Elem(kind, ty, idx) == [kind |-> kind, ty |-> ty, idx |-> idx]

\* Registers of the parameters and locals: counted in their register file.
LocalReg(x) == RET_REG_NUM + Cardinality({k \in 1 .. x - 1 : Vars[k] = Vars[x]})
LocalNum(ty) == Cardinality({k \in DOMAIN Vars : Vars[k] = ty})

Create_ubh_code ==
  [stk |-> <<>>, ok |-> TRUE, io |-> [ty \in Types |-> 0],
   size |-> [ty \in Types |-> LocalNum(ty)],
   next |-> [ty \in Types |-> RET_REG_NUM + LocalNum(ty)]]

\* The topmost element, as the type the instruction expects; an unreachable
\* value is of any type.
Top(a, ty) ==
  IF a.stk = <<>> THEN Elem("DUMMY", ty, 0)
  ELSE IF Last(a.stk).kind = "UNREACHABLE" /\ ty # Void THEN [Last(a.stk) EXCEPT !.ty = ty]
  ELSE Last(a.stk)

\* Mutant: the register is checked and not given back.
Free_register_keeps(a, e) ==
  IF e.idx >= REG_FREE_MAX THEN a ELSE [a EXCEPT !.ok = @ /\ e.idx = a.next[e.ty] - 1]
Free_register(a, e) ==
  IF e.idx >= REG_FREE_MAX THEN a
  ELSE [a EXCEPT !.next[e.ty] = @ - 1, !.ok = @ /\ e.idx = a.next[e.ty] - 1]

\* Pop_wasm_stk, where ty is the expected type or Void for VALTY_UNKNOWN.
Pop_wasm_stk(a, ty) ==
  LET e == Top(a, ty)
      b == [a EXCEPT !.stk = IF @ = <<>> THEN @ ELSE Front(@),
                     !.ok = @ /\ a.stk # <<>> /\ (ty = Void \/ e.ty = ty)]
  IN IF e.kind = "TEMP" THEN Free_register(b, e) ELSE b

\* Elements for operand types tys, the topmost last, and the state without them.
PopAll(a, tys) ==
  LET n == Len(tys)
      popped[k \in 0 .. n] == IF k = 0 THEN a ELSE Pop_wasm_stk(popped[k - 1], tys[n + 1 - k])
  IN popped[n]
Operands(a, tys) ==
  [k \in DOMAIN tys |-> Top(PopAll(a, SubSeq(tys, k + 1, Len(tys))), tys[k])]

Allocate_register(a, ty) ==
  [a EXCEPT !.next[ty] = @ + 1,
            !.size[ty] = IF a.next[ty] >= @ + RET_REG_NUM THEN @ + 1 ELSE @]
Push(a, e) == [a EXCEPT !.stk = Append(@, e)]
Push_temp_reg(a, ty) ==
  [Push(Allocate_register(a, ty), Elem("TEMP", ty, a.next[ty]))
     EXCEPT !.ok = @ /\ a.next[ty] < REG_TEMP_MAX]

\* A register above all others, allocated and given back before the operands
\* are popped.
Scratch(a) == a.next["i32"]
WithScratch(a) == Pop_wasm_stk(Push_temp_reg(a, "i32"), "i32")

-----------------------------------------------------------------------------
(***************************************************************************)
(* Register code: opcode, type, registers, label, number.                  *)
(***************************************************************************)
NoLabel == <<"none", 0>>
Uinst(op, ty, r, l, k) == [op |-> op, ty |-> ty, r |-> r, l |-> l, k |-> k]
Mov(ty, rd, rs) == Uinst("MOV", ty, <<rd, rs>>, NoLabel, 0)
Jmp(l) == Uinst("JMP", "i32", <<>>, l, 0)
Jcc(op, r, l) == Uinst(op, "i32", <<r>>, l, 0)
Ret == Uinst("RETURN", "i32", <<>>, NoLabel, 0)

Cur == ins[at]
Me == graph[at]
\* Mutant: a label is set behind the next instruction.
Here_late(c) == Len(code) + Len(c) + 2
Here(c) == Len(code) + Len(c) + 1
SetLabels(names, c) == [l \in DOMAIN labels \cup names |-> IF l \in names THEN Here(c) ELSE labels[l]]

\* The end of a turn of the loop: a is the new stack, c what was emitted.
Turn(a, c) ==
  /\ al' = a
  /\ code' = code \o c
  /\ at' = at + 1
  /\ phase' = IF ~a.ok THEN "abort" ELSE IF at = Len(ins) THEN "fixup" ELSE "convert"
  /\ UNCHANGED input

Converting(ops) == phase = "convert" /\ Cur.op \in ops
Quiet == UNCHANGED <<graph, labels, calls>>

\* The block a branch over d levels goes to; 0 is the function itself.
Get_parent_stmt_for_branch(d) ==
  LET up[k \in 0 .. d + 1] ==
        IF k = 0 THEN at ELSE IF up[k - 1] = 0 THEN 0 ELSE graph[up[k - 1]].parent
  IN up[d + 1]

Get_label_id_for_jump(d) ==
  LET t == Get_parent_stmt_for_branch(d) IN
  IF t = 0 THEN NoLabel
  ELSE CASE graph[t].op = "Loop" -> <<"begin", t>>
         [] graph[t].op = "If" /\ graph[t].els # 0 -> <<"begin", graph[t].els>>
         [] OTHER -> <<"end", t>>

\* Add_mov_for_break: the value for block t, left on the stack.  For the
\* function, 0, there is none: the branch is refused, see InFunction.
Add_mov_for_break(a, t) ==
  IF t = 0 \/ graph[t].res = Void \/ a.stk = <<>> THEN <<>>
  ELSE <<Mov(graph[t].res, graph[t].reg, Last(a.stk).idx)>>
Mov_checked(a, t) ==
  [a EXCEPT !.ok = @ /\ (t = 0 \/ graph[t].res = Void \/ a.stk = <<>> \/ Last(a.stk).ty = graph[t].res)]

-----------------------------------------------------------------------------
(***************************************************************************)
(* Wasm_to_uwasm, one action per group of instructions.                    *)
(***************************************************************************)
\* Parameters keep what the caller put there, locals are set to 0.
Init_locals ==
  [k \in 1 .. Len(Vars) - NumParams |->
     Uinst("CONST", Vars[NumParams + k], <<LocalReg(NumParams + k)>>, NoLabel, 0)]

\* A block's result gets a register before anything inside the block does.
OpenBlock(a, id) ==
  LET res == graph[id].res
      els == graph[id].els
      reg == IF res = Void THEN 0 ELSE a.next[res]
  IN graph' = [k \in DOMAIN graph |->
                 IF k = id \/ (k = els /\ els # 0)
                 THEN [graph[k] EXCEPT !.reg = reg, !.size = Len(a.stk)] ELSE graph[k]]
\* Mutant: the register of the result is named and not allocated.
Reserved_not(a, id) == a
Reserved(a, id) == IF graph[id].res = Void THEN a ELSE Allocate_register(a, graph[id].res)

Conv_block ==
  /\ Converting({"Block", "Loop"})
  /\ Turn(Reserved(al, at), <<>>)
  /\ OpenBlock(al, at)
  /\ labels' = IF Cur.op = "Loop" THEN SetLabels({<<"begin", at>>}, <<>>) ELSE labels
  /\ UNCHANGED calls

Conv_if ==
  LET a == Pop_wasm_stk(al, "i32") IN
  /\ Converting({"If"})
  /\ Turn(Reserved(a, at),
          <<Jcc("JEZ", Top(al, "i32").idx,
                IF Me.els # 0 THEN <<"begin", Me.els>> ELSE <<"end", at>>)>>)
  /\ OpenBlock(a, at)
  /\ UNCHANGED <<labels, calls>>

\* The first part's value stays on the stack until the end of the else.
Conv_else ==
  LET c == Append(Add_mov_for_break(al, at), Jmp(<<"end", at>>)) IN
  /\ Converting({"Else"})
  /\ Turn(Mov_checked(al, at), c)
  /\ labels' = SetLabels({<<"begin", at>>}, c)
  /\ UNCHANGED <<graph, calls>>

\* A branch to the function itself is refused.
InFunction(a) == [a EXCEPT !.ok = @ /\ \A d \in Range(Cur.n) : Get_parent_stmt_for_branch(d) # 0]

Conv_br ==
  LET d == Cur.n[1]
      t == Get_parent_stmt_for_branch(d)
  IN /\ Converting({"Br"})
     /\ Turn(InFunction(Mov_checked(al, t)),
             Append(Add_mov_for_break(al, t), Jmp(Get_label_id_for_jump(d))))
     /\ Quiet

Conv_br_if ==
  LET a == Pop_wasm_stk(al, "i32")
      d == Cur.n[1]
      t == Get_parent_stmt_for_branch(d)
  IN /\ Converting({"BrIf"})
     /\ Turn(InFunction(Mov_checked(a, t)),
             Append(Add_mov_for_break(a, t),
                    Jcc("JNZ", Top(al, "i32").idx, Get_label_id_for_jump(d))))
     /\ Quiet

\* The values for all targets of a table, moved beforehand: every depth once,
\* in ascending order (UINTSET).  From depth at on a branch is refused.
Movs_for_targets(a) ==
  FlattenSeq([k \in 1 .. at |->
    IF k - 1 \in Range(Cur.n) THEN Add_mov_for_break(a, Get_parent_stmt_for_branch(k - 1)) ELSE <<>>])

\* One test and one decrement per entry, the last entry taken always.
Conv_br_table ==
  LET tmp == Scratch(al)
      b   == WithScratch(al)
      a   == Pop_wasm_stk(b, "i32")
      ts  == {Get_parent_stmt_for_branch(d) : d \in Range(Cur.n)}
      test(k) == <<Jcc("JEZ", tmp, Get_label_id_for_jump(Cur.n[k])),
                   Uinst("ADDI", "i32", <<tmp, tmp>>, NoLabel, V - 1)>>
  IN /\ Converting({"BrTable"})
     /\ Turn(InFunction([a EXCEPT !.ok = @ /\ \A t \in ts : Mov_checked(a, t).ok]),
             <<Mov("i32", tmp, Top(b, "i32").idx)>> \o Movs_for_targets(a)
             \o FlattenSeq([k \in 1 .. Len(Cur.n) - 1 |-> test(k)])
             \o <<Jmp(Get_label_id_for_jump(Last(Cur.n)))>>)
     /\ Quiet

Conv_drop ==
  /\ Converting({"Drop"})
  /\ Turn(Pop_wasm_stk(al, Void), <<>>)
  /\ Quiet

Conv_nop == Converting({"Nop"}) /\ Turn(al, <<>>) /\ Quiet

\* Nothing is emitted; the stack remembers that what follows is not reached.
Conv_unreachable ==
  /\ Converting({"Unreachable"})
  /\ Turn(Push(al, Elem("UNREACHABLE", "i32", 0)), <<>>)
  /\ Quiet

\* A local on the stack is its own register.
Conv_local_get ==
  LET x == Cur.n[1] IN
  /\ Converting({"LocalGet"})
  /\ Turn(Push(al, Elem("LOCAL", Vars[x], LocalReg(x))), <<>>)
  /\ Quiet

Conv_local_set ==
  LET x == Cur.n[1]
      rs == IF Cur.op = "LocalSet" THEN Top(al, Vars[x]) ELSE Last(al.stk)
  IN /\ Converting({"LocalSet", "LocalTee"})
     /\ Turn(IF Cur.op = "LocalSet" THEN Pop_wasm_stk(al, Vars[x])
             ELSE [al EXCEPT !.ok = @ /\ rs.ty = Vars[x]],
             <<Mov(rs.ty, LocalReg(x), rs.idx)>>)
     /\ Quiet

\* Instructions that pop their operands and push at most one result.  Of a
\* binary operator the second operand gives the type of the first.
Expected(a, i) ==
  CASE i.op \in {"Binary", "Compare"} -> <<Top(a, Void).ty, Void>>
    [] i.op = "Convert" -> <<Void>>
    [] OTHER -> Pops(i)
Conv_op ==
  LET tys == Expected(al, Cur)
      a  == PopAll(al, tys)
      rs == [k \in DOMAIN tys |-> Operands(al, tys)[k].idx]
      push == Pushes(Cur) # <<>>
      rd == IF push THEN <<a.next[Pushes(Cur)[1]]>> ELSE <<>>
  IN /\ Converting({"Const", "Binary", "Compare", "Eqz", "Convert",
                    "GlobalGet", "GlobalSet", "MemorySize", "MemoryGrow"})
     /\ Turn(IF push THEN Push_temp_reg(a, Pushes(Cur)[1]) ELSE a,
             <<Uinst(Cur.op, Cur.ty, rd \o rs, NoLabel,
                     IF Cur.op = "Const" THEN Cur.n[1] ELSE 0)>>)
     /\ Quiet

\* Where an offset does not fit the instruction, the address is computed in
\* a scratch register above the operands.
Addressed(tmp, rs, ofs) ==
  IF ofs < OFFSET_M_MAX THEN <<>>
  ELSE <<Uinst("Const", "i32", <<tmp>>, NoLabel, ofs),
         Uinst("Add", "i32", <<tmp, rs, tmp>>, NoLabel, 0)>>

Conv_load ==
  LET tmp == Scratch(al)
      b   == WithScratch(al)
      a   == Pop_wasm_stk(b, "i32")
      rs  == Top(b, "i32").idx
      ofs == Cur.n[1]
      far == ofs >= OFFSET_M_MAX
  IN /\ Converting({"Load"})
     /\ Turn(Push_temp_reg(a, Cur.ty),
             Append(Addressed(tmp, rs, ofs),
                    Uinst("Load", Cur.ty, <<a.next[Cur.ty], IF far THEN tmp ELSE rs>>, NoLabel,
                          IF far THEN 0 ELSE ofs)))
     /\ Quiet

Conv_store ==
  LET tmp == Scratch(al)
      b   == WithScratch(al)
      rd  == Top(b, Cur.ty).idx
      rs  == Top(Pop_wasm_stk(b, Cur.ty), "i32").idx
      ofs == Cur.n[1]
      far == ofs >= OFFSET_M_MAX
  IN /\ Converting({"Store"})
     /\ Turn(PopAll(b, <<"i32", Cur.ty>>),
             Append(Addressed(tmp, rs, ofs),
                    Uinst("Store", Cur.ty, <<rd, IF far THEN tmp ELSE rs>>, NoLabel,
                          IF far THEN 0 ELSE ofs)))
     /\ Quiet

\* rd may be the register of an operand: which one decides the order.
\* Mutant: the case of rd = rt is forgotten.
Select_code_simple(ty, tmp, rd, bool, rs, rt, l) ==
  IF bool = rd THEN <<Mov("i32", tmp, bool), Mov(ty, rd, rs), Jcc("JEZ", tmp, l), Mov(ty, rd, rt)>>
  ELSE <<Mov(ty, rd, rs), Jcc("JEZ", bool, l), Mov(ty, rd, rt)>>
Select_code(ty, tmp, rd, bool, rs, rt, l) ==
  CASE rd = rt -> <<Jcc("JNZ", bool, l), Mov(ty, rd, rs)>>
    [] rd # rt /\ bool = rd ->
         <<Mov("i32", tmp, bool), Mov(ty, rd, rs), Jcc("JEZ", tmp, l), Mov(ty, rd, rt)>>
    [] OTHER -> <<Mov(ty, rd, rs), Jcc("JEZ", bool, l), Mov(ty, rd, rt)>>

Conv_select ==
  LET tmp  == Scratch(al)
      b    == WithScratch(al)
      b1   == Pop_wasm_stk(b, "i32")
      rs   == Top(b1, Void)
      b2   == Pop_wasm_stk(b1, Void)
      rt   == Top(b2, rs.ty)
      a    == Pop_wasm_stk(b2, rs.ty)
      c    == Select_code(rs.ty, tmp, a.next[rs.ty], Top(b, "i32").idx, rs.idx, rt.idx,
                          <<"select", at>>)
  IN /\ Converting({"Select"})
     /\ Turn(Push_temp_reg(a, rs.ty), c)
     /\ labels' = SetLabels({<<"select", at>>}, c)
     /\ UNCHANGED <<graph, calls>>

\* Arguments are moved in the callee's order to registers that are known only
\* at the end, and so is the result behind the call, if the callee has one.
CountOf(ty) == Cardinality({k \in DOMAIN CalleeParams : CalleeParams[k] = ty})
Conv_call ==
  LET tys == [k \in DOMAIN Pops(Cur) |-> IF k > Len(CalleeParams) THEN "i32" ELSE Void]
      ops == Operands(al, tys)
      a   == PopAll(al, tys)
      b   == [a EXCEPT !.io = [ty \in Types |-> IF @[ty] < CountOf(ty) THEN CountOf(ty) ELSE @[ty]],
                       !.ok = @ /\ \A k \in DOMAIN CalleeParams : ops[k].ty = CalleeParams[k]]
      movs == [k \in DOMAIN CalleeParams |-> Mov(ops[k].ty, 0, ops[k].idx)]
      call == Uinst(Cur.op, "i32", IF Cur.op = "Call" THEN <<>> ELSE <<Last(ops).idx>>, NoLabel,
                    IF Cur.ty = Void THEN 0 ELSE 1)
  IN /\ Converting({"Call", "CallIndirect"})
     /\ Turn(IF Cur.ty = Void THEN b ELSE Push_temp_reg(b, Cur.ty),
             movs \o (IF Cur.ty = Void THEN <<call>>
                      ELSE <<call, Mov(Cur.ty, b.next[Cur.ty], 0)>>))
     /\ calls' = Append(calls, Len(code) + Len(movs) + 1)
     /\ UNCHANGED <<graph, labels>>

Conv_return ==
  /\ Converting({"Return"})
  /\ IF fres = Void THEN Turn(al, <<Ret>>)
     ELSE Turn(Pop_wasm_stk(al, fres), <<Mov(fres, 0, Top(al, fres).idx), Ret>>)
  /\ Quiet

\* The end of block p: Pop_redundant_values and Push_result_to_stack.
Pop_redundant_values(a, p) ==
  IF Len(a.stk) < p.size THEN [a EXCEPT !.ok = FALSE]
  ELSE PopAll(a, [k \in 1 .. Len(a.stk) - p.size |-> Void])
Push_result_to_stack(a, p) ==
  IF p.res = Void THEN a
  ELSE [Push(a, Elem("TEMP", p.res, p.reg)) EXCEPT !.ok = @ /\ p.reg # 0]
Close(a, p) == Push_result_to_stack(Pop_redundant_values(a, p), p)
\* Mutant: the end of an else does not set the end label of its if.
EndLabels_own(id) == {<<"end", id>>}
EndLabels(id) == {<<"end", id>>} \cup (IF graph[id].op = "Else" THEN {<<"end", graph[id].els>>} ELSE {})

IsUnreachable(a) == a.stk # <<>> /\ Last(a.stk).kind = "UNREACHABLE"

Conv_end_block ==
  LET id == Me.parent
      p  == graph[id]
      value == p.res # Void /\ p.op \in {"Block", "Else", "If"}
      c  == IF value THEN <<Mov(p.res, p.reg, Top(al, p.res).idx)>> ELSE <<>>
  IN /\ Converting({"End"}) /\ Me.parent # 0 /\ ~IsUnreachable(al)
     /\ Turn(Close(IF value THEN Pop_wasm_stk(al, p.res) ELSE al, p), c)
     /\ labels' = SetLabels(EndLabels(id), c)
     /\ UNCHANGED <<graph, calls>>

\* Behind unreachable the end of a block is followed by a return.
Conv_end_unreachable ==
  LET id == Me.parent IN
  /\ Converting({"End"}) /\ Me.parent # 0 /\ IsUnreachable(al)
  /\ Turn(Close([al EXCEPT !.stk = Front(@)], graph[id]), <<Ret>>)
  /\ labels' = SetLabels(EndLabels(id), <<>>)
  /\ UNCHANGED <<graph, calls>>

\* The end of the function: a return, unless the stack says it is not reached.
Conv_end_func ==
  LET lost == \E k \in DOMAIN al.stk : al.stk[k].kind = "UNREACHABLE"
      rs   == Top(al, Void)
  IN /\ Converting({"End"}) /\ Me.parent = 0
     /\ CASE fres = Void -> Turn(al, <<Ret>>)
          [] fres # Void /\ lost -> Turn(al, <<>>)
          [] fres # Void /\ ~lost /\ Len(al.stk) = 1 ->
               Turn(Pop_wasm_stk(al, Void), <<Mov(rs.ty, 0, rs.idx), Ret>>)
          [] OTHER -> Turn(al, IF ins[at - 1].op = "Return" THEN <<>> ELSE <<Ret>>)
     /\ Quiet

(***************************************************************************)
(* The loop over call_insts_pc: arguments go behind the registers of the   *)
(* function and the callee's return registers, results come from there.    *)
(* A call's number k is the number of results of the callee.               *)
(***************************************************************************)
LocalTotal(ty) == RET_REG_NUM + al.size[ty]
ParamReg(k) ==
  LocalTotal(CalleeParams[k]) + RET_REG_NUM
  + Cardinality({j \in 1 .. k - 1 : CalleeParams[j] = CalleeParams[k]})
\* Mutant: no room for the return registers of the callee.
Io_params(ty) == al.io[ty]
Io(ty) == al.io[ty] + RET_REG_NUM * 2

FixedUp(j, i) ==
  LET param == {k \in DOMAIN CalleeParams : j - k + Len(CalleeParams) + 1 \in Range(calls)}
  IN CASE param # {} -> [i EXCEPT !.r[1] = ParamReg(CHOOSE k \in param : TRUE)]
       [] param = {} /\ j - 1 \in Range(calls) /\ code[j - 1].k = 1 -> [i EXCEPT !.r[2] = LocalTotal(i.ty)]
       [] OTHER -> i

Fix_up ==
  /\ phase = "fixup"
  /\ phase' = "done"
  /\ code' = [j \in DOMAIN code |-> FixedUp(j, code[j])]
  /\ UNCHANGED <<input, graph, at, al, labels, calls>>

Init ==
  /\ phase = "read"
  /\ alphabet \in Alphabets
  /\ fres \in FuncRes
  /\ valid = StartValid
  /\ ins = <<>> /\ work = <<0>> /\ graph = <<>>
  /\ at = 1 /\ al = Create_ubh_code
  /\ code = Init_locals
  /\ labels = <<>> /\ calls = <<>>

Next ==
  \/ \E i \in alphabet.insts : Build_block_hierarchy(i)
  \/ Conv_block \/ Conv_if \/ Conv_else \/ Conv_br \/ Conv_br_if \/ Conv_br_table
  \/ Conv_drop \/ Conv_nop \/ Conv_unreachable \/ Conv_local_get \/ Conv_local_set
  \/ Conv_op \/ Conv_load \/ Conv_store \/ Conv_select \/ Conv_call \/ Conv_return
  \/ Conv_end_block \/ Conv_end_unreachable \/ Conv_end_func
  \/ Fix_up

Spec == Init /\ [][Next]_vars
-----------------------------------------------------------------------------
(***************************************************************************)
(* What the converted code does: the handlers of exec_unit_func.h.  Each   *)
(* register operand is in the file of its instruction's type, except where *)
(* the handler names another one.                                          *)
(***************************************************************************)
FileOf(i, k) ==
  CASE i.op \in {"Load", "Store"} /\ k = 2 -> "i32"
    [] i.op = "Convert" /\ k = 1 -> Other(i.ty)
    [] OTHER -> i.ty

MaxReg == 40    \* more registers than the bounded functions can name
StartCode(inp) ==
  [pc |-> 1, st |-> "run", res |-> Junk, w |-> World,
   reg |-> [ty \in Types |-> [r \in 0 .. MaxReg |->
              LET x == {k \in 1 .. NumParams : Vars[k] = ty /\ LocalReg(k) = r}
              IN IF x = {} THEN Junk ELSE inp[CHOOSE k \in x : TRUE]]]]

\* A callee reads its parameters behind the return registers of its window,
\* leaves the result in the first one and anything in the others.
CalleeArg(reg, k) ==
  reg[CalleeParams[k]][LocalTotal(CalleeParams[k]) + RET_REG_NUM
                       + Cardinality({j \in 1 .. k - 1 : CalleeParams[j] = CalleeParams[k]})]
AfterCall(reg, x) ==
  [ty \in Types |-> [r \in 0 .. MaxReg |->
     IF r < LocalTotal(ty) THEN reg[ty][r]
     ELSE IF ty = CalleeRes /\ r = LocalTotal(ty) THEN x ELSE Junk]]

CodeStep(s) ==
  LET i == code[s.pc]
      v(k) == s.reg[FileOf(i, k)][i.r[k]]
      t == [s EXCEPT !.pc = @ + 1]
      set(x) == [t EXCEPT !.reg[FileOf(i, 1)][i.r[1]] = x]
      jump(yes) == IF yes THEN [s EXCEPT !.pc = labels[i.l]] ELSE t
      args == [k \in DOMAIN CalleeParams |-> CalleeArg(s.reg, k)]
  IN CASE i.op = "MOV" -> set(v(2))
       [] i.op \in {"CONST", "Const"} -> set(i.k)
       [] i.op = "MemorySize" -> set(1)
       [] i.op \in {"Binary", "Compare", "Add"} -> set(Calc(i.op, v(2), v(3)))
       [] i.op \in {"Convert", "Eqz", "MemoryGrow"} -> set(Calc(i.op, v(2), 0))
       [] i.op = "ADDI" -> set(Calc("Add", v(2), i.k))
       [] i.op = "GlobalGet" -> set(s.w.glob)
       [] i.op = "GlobalSet" -> [t EXCEPT !.w.glob = v(1)]
       [] i.op = "Load" -> set(s.w.mem[Cell(v(2), i.k)])
       [] i.op = "Store" -> [t EXCEPT !.w.mem[Cell(v(2), i.k)] = v(1)]
       [] i.op = "JMP" -> jump(TRUE)
       [] i.op \in {"JEZ", "JNZ"} ->
            IF v(1) = Junk THEN [s EXCEPT !.st = "lost"] ELSE jump((v(1) = 0) = (i.op = "JEZ"))
       [] i.op \in {"Call", "CallIndirect"} ->
            [t EXCEPT !.reg = AfterCall(@, IF i.k = 1 THEN CallValue(args) ELSE Junk),
                      !.w.out = Append(@, IF i.op = "Call" THEN args ELSE Append(args, v(1)))]
       [] i.op = "RETURN" ->
            [s EXCEPT !.st = "done", !.res = IF fres = Void THEN Junk ELSE s.reg[fres][0]]

\* Up to Burst steps, and fuel times as many.
Burst == 6
CodeSteps(s0) ==
  LET run[k \in 0 .. Burst] ==
        IF k = 0 THEN s0
        ELSE LET s == run[k - 1]
             IN CASE s.st # "run" -> s
                  [] s.st = "run" /\ s.pc \in DOMAIN code -> CodeStep(s)
                  [] OTHER -> [s EXCEPT !.st = "lost"]
  IN run[Burst]
CodeRun(inp, fuel) ==
  LET run[k \in 0 .. fuel] ==
        IF k = 0 THEN StartCode(inp)
        ELSE LET s == run[k - 1] IN IF s.st = "run" THEN CodeSteps(s) ELSE s
  IN run[fuel]

-----------------------------------------------------------------------------
\* The types; a failed assertion ends the process and leaves the allocator as it is.
TypeOK ==
  /\ phase \in {"read", "convert", "fixup", "done", "abort"}
  /\ ins \in Seq(alphabet.insts) /\ Len(graph) = Len(ins)
  /\ at \in 1 .. alphabet.len + 1
  /\ phase # "abort" =>
       /\ \A k \in DOMAIN al.stk :
            /\ al.stk[k].kind \in {"TEMP", "LOCAL", "UNREACHABLE"}
            /\ al.stk[k].ty \in Types /\ al.stk[k].idx \in Nat
       /\ al.next \in [Types -> Nat] /\ al.size \in [Types -> Nat] /\ al.io \in [Types -> Nat]
  /\ \A l \in DOMAIN labels : labels[l] \in 0 .. Len(code) + 1

\* The registers that hold a value the code still needs: temporaries on the
\* stack, and the results of blocks whose end has not been converted; the end
\* of an if with an else is that of the else.
EndOfBlock(e, id) ==
  ins[e].op = "End" /\ graph[e].parent # 0 /\ graph[e].parent \in {id, graph[id].els}
OpenBlocks == {id \in 1 .. at - 1 : Opens(ins[id]) /\ \A e \in 1 .. at - 1 : ~EndOfBlock(e, id)}
Temps == {k \in DOMAIN al.stk : al.stk[k].kind = "TEMP"}
Keeping == {id \in OpenBlocks : graph[id].res # Void}

Held == [k \in Temps |-> <<al.stk[k].ty, al.stk[k].idx>>]
Kept == [id \in Keeping |-> <<graph[id].res, graph[id].reg>>]

\* No two values share a register (Allocate_register, Push_temp_reg,
\* Free_register): every temporary and every reserved block result has a
\* register of its own, above the locals and below the next free one, and
\* inside the registers counted for the function (local_tab).
RegistersDistinct ==
  phase = "convert" =>
    /\ IsInjective(Held) /\ IsInjective(Kept)
    /\ Range(Held) \cap Range(Kept) = {}
    /\ \A r \in Range(Held) \cup Range(Kept) :
         /\ RET_REG_NUM + LocalNum(r[1]) <= r[2] /\ r[2] < al.next[r[1]]
         /\ al.next[r[1]] <= LocalTotal(r[1])

\* No assertion of the converter fails on valid code of the usual forms.  On three
\* of the others one does fail: a branch to the label of the function
\* (Get_parent_stmt_for_branch), the end of a block left without its value
\* (Pop_wasm_stk), and an else behind unreachable (Pop_redundant_values).
NeverAborts == phase # "abort"

\* What Expand_code and the machine rely on: every label that was requested is
\* set and stands in front of an instruction, and the last instruction of the
\* function does not go on to the next function.  It does go on where a function
\* with a result ends in unreachable ("trapend" of Unusual).
CodeClosed ==
  phase = "done" =>
    /\ \A l \in DOMAIN labels : labels[l] \in DOMAIN code
    /\ \A j \in DOMAIN code : code[j].l # NoLabel => code[j].l \in DOMAIN labels
    /\ Last(code).op \in {"RETURN", "JMP"}

\* Every register an instruction names is inside the window the machine gives
\* to the function: its own registers and those for calls (Update_ubh_code).
RegistersInWindow ==
  phase = "done" =>
    \A j \in DOMAIN code : \A k \in DOMAIN code[j].r :
      code[j].r[k] < LocalTotal(FileOf(code[j], k)) + Io(FileOf(code[j], k))

\* The converted function computes what the WebAssembly function does: for
\* all arguments for which that one returns, the same result, the same calls
\* with the same arguments and the same effects on memory and globals.  This holds
\* for the usual forms only, see Usual for the others.
SameBehaviour ==
  phase = "done" =>
    \A inp \in [1 .. NumParams -> Value] :
      LET s == WasmRun(ins, inp, Fuel)
          c == CodeRun(inp, Fuel)
      IN s.st = "done" =>
           /\ c.st = "done"
           /\ fres # Void => c.res = s.res
           /\ c.w = s.w
=============================================================================
