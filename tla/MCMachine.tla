----------------------------- MODULE MCMachine ------------------------------
(***************************************************************************)
(* Small modules for the machine: a recursive one that uses every kind of  *)
(* instruction, and one without loops and recursion.                       *)
(***************************************************************************)
EXTENDS Machine, SequencesExt

I(op, arg) == [op |-> op, arg |-> arg]

\* Function 0 has i32 locals only, 1 has i64 and f64 ones, 2 has none at all,
\* 3 is external.  Labels are positions in the function, from 0.
RecCode ==
  << << I("jcc", 0), I("call", 1), I("plain", 0), I("call", 3), I("return", 0) >>,
     << I("plain", 0), I("jcc", 1), I("call", 2), I("jmp", 0), I("return", 0) >>,
     << I("jmp_indirect", 0), I("call_indirect", 0), I("return", 0) >>,
     << >> >>
RecLabels == << <<3>>, <<1, 4>>, <<1, 2>>, << >> >>
RecExterns == {3}

LineCode ==
  << << I("plain", 0), I("jcc", 0), I("call", 1), I("call", 2), I("return", 0) >>,
     << I("call", 3), I("call", 2), I("return", 0) >>,
     << I("jmp_indirect", 0), I("plain", 0), I("jmp", 1), I("return", 0) >>,
     << >> >>
LineLabels == << <<3>>, << >>, <<1, 3>>, << >> >>
LineExterns == {3}

\* The number of instructions before function f.
Before(code, f) == Len(FlattenSeq(SubSeq(code, 1, f)))

Bases(code) == [f \in 0 .. Len(code) - 1 |-> Before(code, f)]

Lasts(code) ==
  [f \in 0 .. Len(code) - 1 |->
     IF code[f + 1] = << >> THEN 0 ELSE Before(code, f + 1) - 1]

Ends(code) == Before(code, Len(code))

\* The expanded table: the code, the unused slot of _end_pc, the BREAK.
Tab(code) ==
  LET flat == FlattenSeq(code) \o << I("plain", 0), I("break", 0) >>
  IN  [pc \in 0 .. Len(flat) - 1 |-> flat[pc + 1]]

Labs(code, labels) ==
  [f \in 0 .. Len(code) - 1 |->
     [l \in 0 .. Len(labels[f + 1]) - 1 |-> Before(code, f) + labels[f + 1][l + 1]]]

RecTable == Tab(RecCode)
RecBase == Bases(RecCode)
RecLast == Lasts(RecCode)
RecEnd == Ends(RecCode)
RecLab == Labs(RecCode, RecLabels)

LineTable == Tab(LineCode)
LineBase == Bases(LineCode)
LineLast == Lasts(LineCode)
LineEnd == Ends(LineCode)
LineLab == Labs(LineCode, LineLabels)

Regs(i32, i64, f32, f64) ==
  [k \in Kinds |-> CASE k = "i32" -> i32 [] k = "i64" -> i64
                     [] k = "f32" -> f32 [] k = "f64" -> f64]

FuncIdx == 0 .. 3
MCLocal ==
  [f \in FuncIdx |-> << Regs(2, 0, 0, 0), Regs(1, 2, 0, 1),
                        Regs(0, 0, 0, 0), Regs(0, 0, 0, 0) >>[f + 1]]
MCRegNum ==
  [f \in FuncIdx |-> << Regs(4, 1, 0, 0), Regs(2, 3, 1, 1),
                        Regs(0, 0, 2, 0), Regs(0, 0, 0, 0) >>[f + 1]]
MCStackSize == [f \in FuncIdx |-> <<3, 0, 2, 0>>[f + 1]]
=============================================================================
