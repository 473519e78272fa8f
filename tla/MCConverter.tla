---------------------------- MODULE MCConverter ----------------------------
(***************************************************************************)
(* Small instances of the converter.                                       *)
(***************************************************************************)
EXTENDS Converter

MCVars == <<"i32", "i64", "i32">>
MCCallee == <<"i64", "i32">>

Get(x) == Inst("LocalGet", "i32", <<x>>)
Set(x) == Inst("LocalSet", "i32", <<x>>)
Tee(x) == Inst("LocalTee", "i32", <<x>>)
Const(ty, c) == Inst("Const", ty, <<c>>)
Plain(op) == Inst(op, Void, <<>>)
Typed(op, ty) == Inst(op, ty, <<>>)
Jump(op, ds) == Inst(op, Void, ds)
End == Plain("End")

\* Nested blocks, branches with and without values.
Control == {Get(1), Const("i32", 2), Set(3), Typed("Block", "i32"), Typed("Loop", Void),
            Typed("If", "i32"), Plain("Else"), End, Jump("BrIf", <<0>>), Jump("Br", <<1>>)}
Ifs     == {Get(1), Get(3), Set(3), Typed("Block", Void), Typed("If", Void), Plain("Else"), End,
            Jump("BrIf", <<1>>), Jump("Br", <<0>>)}
Tables  == {Get(1), Const("i32", 0), Typed("Block", "i32"), Typed("Block", Void), End, Set(3),
            Jump("BrTable", <<1, 0>>), Jump("BrTable", <<0, 1, 1>>), Plain("Return"),
            Plain("Unreachable"), Plain("Nop")}
\* Registers of both types and every order of operands.
Values  == {Get(1), Get(2), Tee(3), Const("i32", 1), Const("i64", 2), Typed("Binary", "i32"),
            Typed("Compare", "i32"), Typed("Convert", "i64"), Typed("Select", "i32"),
            Typed("Select", "i64"), Typed("Drop", "i64"), End}
\* Memory, globals and calls.
Effects == {Get(1), Get(2), Const("i32", 2), Inst("Load", "i64", <<0>>), Inst("Load", "i32", <<2>>),
            Inst("Store", "i64", <<2>>), Inst("Store", "i32", <<1>>), Typed("Call", "i32"),
            Typed("Call", Void), Typed("CallIndirect", "i32"), Typed("GlobalSet", "i32"), Typed("GlobalGet", "i32"),
            Typed("Eqz", "i32"), Typed("MemoryGrow", "i32"), Typed("MemorySize", "i32"), End}
\* Loops that are left after some rounds: adding 0 adds 1 (Calc).
Loops   == {Get(1), Tee(1), Const("i32", 0), Typed("Binary", "i32"), Typed("Loop", Void),
            Jump("BrIf", <<0>>), End}
\* unreachable in blocks with and without a result, in loops and at the end.
Traps   == {Get(1), Typed("Block", "i32"), Typed("Block", Void), Typed("Loop", Void), End,
            Jump("BrIf", <<0>>), Plain("Unreachable"), Plain("Return")}
Within(insts, len) == [insts |-> insts, len |-> len]
MCAlphabets == {Within(Control, 9), Within(Ifs, 10), Within(Tables, 8), Within(Values, 7),
                Within(Effects, 6), Within(Loops, 9), Within(Traps, 9)}
\* Code with ifs that are left by a branch.
ElseAlphabets == {Within({Get(1), Get(3), Set(3), Typed("If", Void), Plain("Else"), End,
                         Jump("Br", <<0>>)}, 9)}
CompareAlphabets == {Within({Const("i32", 1), Get(2), Typed("Eqz", "i64"), Typed("Drop", "i32"), End}, 7)}
\* One for each of the other unusual forms.
LoopAlphabets == {Within({Get(1), Typed("Loop", "i32"), End}, 5)}
BranchAlphabets == {Within({Get(1), Jump("Br", <<0>>), Jump("BrIf", <<1>>), Typed("Block", Void), End}, 6)}
EndAlphabets == {Within({Plain("Unreachable"), End}, 3)}
JoinAlphabets == {Within({Get(1), Get(3), Set(3), Typed("If", Void), Plain("Else"), Typed("Block", Void),
                          Jump("BrIf", <<0>>), Plain("Unreachable"), End}, 9)}
LeftAlphabets == {Within({Get(1), Typed("Block", "i32"), Typed("Block", Void), Jump("Br", <<1>>),
                          Plain("Return"), Typed("Drop", "i32"), End}, 8)}
=============================================================================
