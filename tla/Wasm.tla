-------------------------------- MODULE Wasm --------------------------------
(***************************************************************************)
(* The WebAssembly code a function of a module may consist of, as the      *)
(* converter meets it, and what that code means: the reference against     *)
(* which the converted code is compared.  Nothing in this module models    *)
(* code of the repository; it is the part of the WebAssembly specification *)
(* that src/tests/spec exercises, for functions with two value types.      *)
(* Values are the numbers below V; arithmetic is any function that tells   *)
(* its operands apart.                                                     *)
(***************************************************************************)
EXTENDS Integers, Sequences, FiniteSets, SequencesExt

CONSTANTS
  V,             \* number of values
  Vars,          \* types of the parameters and locals, in order
  NumParams,     \* how many of them are parameters
  CalleeParams,  \* parameter types of the functions that are called
  CalleeRes,     \* the result type of those that have one
  Unusual        \* the unusual forms of code that may occur, see Usual

Types == {"i32", "i64"}
Void == "void"
Value == 0 .. V - 1

ASSUME WasmAssumption ==
  /\ V \in Nat \ {0, 1}
  /\ Vars \in Seq(Types) /\ NumParams \in 0 .. Len(Vars)
  /\ CalleeParams \in Seq(Types) /\ CalleeRes \in Types
  /\ Unusual \subseteq {"elsebr", "loopvalue", "alias", "cmp64", "funcbr", "trapend", "trapjoin",
                         "deadvalue"}

\* An instruction: opcode, type, and its immediates.
Inst(op, ty, n) == [op |-> op, ty |-> ty, n |-> n]

Opens(i) == i.op \in {"Block", "Loop", "If"}
Leaves(i) == i.op \in {"Br", "BrTable", "Return", "Unreachable"}

Other(ty) == CHOOSE t \in Types : t # ty
Result(ty) == IF ty = Void THEN <<>> ELSE <<ty>>

\* Operand types, the topmost last, and result types of the instructions.  A
\* call names the result type of the function it calls.
Pops(i) ==
  CASE i.op \in {"Binary", "Compare"} -> <<i.ty, i.ty>>
    [] i.op \in {"Convert", "Eqz", "Drop"} -> <<i.ty>>
    [] i.op \in {"LocalSet", "LocalTee"} -> <<Vars[i.n[1]]>>
    [] i.op \in {"GlobalSet", "If", "BrIf", "BrTable", "Load", "MemoryGrow"} -> <<"i32">>
    [] i.op = "Store" -> <<"i32", i.ty>>
    [] i.op = "Select" -> <<i.ty, i.ty, "i32">>
    [] i.op = "Call" -> CalleeParams
    [] i.op = "CallIndirect" -> Append(CalleeParams, "i32")
    [] OTHER -> <<>>

Pushes(i) ==
  CASE i.op \in {"Const", "Binary", "Load", "Select"} -> <<i.ty>>
    [] i.op \in {"Compare", "Eqz", "GlobalGet", "MemorySize", "MemoryGrow"} -> <<"i32">>
    [] i.op = "Convert" -> <<Other(i.ty)>>
    [] i.op \in {"LocalGet", "LocalTee"} -> <<Vars[i.n[1]]>>
    [] i.op \in {"Call", "CallIndirect"} -> Result(i.ty)
    [] OTHER -> <<>>

(***************************************************************************)
(* Validation.  v.stk holds the types on the operand stack, each with the  *)
(* local it was read from (or 0); v.ctl the open blocks, outermost first;  *)
(* v.dead is set behind an instruction that never goes on to the next one, *)
(* v.trap if it is unreachable.                                            *)
(***************************************************************************)
Frame(i, base) == [op |-> i.op, res |-> i.ty, base |-> base, hit |-> FALSE]
StartValid == [stk |-> <<>>, ctl |-> <<>>, dead |-> FALSE, trap |-> FALSE]
Entry(ty, loc) == [ty |-> ty, loc |-> loc]
TypesOf(s) == [k \in DOMAIN s |-> s[k].ty]

InnerFrame(v) == Last(v.ctl)
\* The part of the operand stack the innermost open block may use.
Own(v) == IF v.ctl = <<>> THEN v.stk ELSE SubSeq(v.stk, InnerFrame(v).base + 1, Len(v.stk))

\* What a branch to block f takes with it.
LabelTypes(f) == IF f.op = "Loop" THEN <<>> ELSE Result(f.res)
Target(v, d) == v.ctl[Len(v.ctl) - d]
Targets(v, i) == {d \in Range(i.n) : d < Len(v.ctl)}
\* The outermost label is that of the function: a branch to it returns.
ToFunction(v, i) == Len(v.ctl) \in Range(i.n)
HasTop(v, tys) == Len(tys) <= Len(Own(v)) /\ IsSuffix(tys, TypesOf(Own(v)))

\* A frame closes with exactly its results on the stack; behind a branch
\* anything may be there.
Closes(v, res) == v.dead \/ TypesOf(Own(v)) = Result(res)

IsValid(v, i, fres) ==
  CASE i.op = "End" -> Closes(v, IF v.ctl = <<>> THEN fres ELSE InnerFrame(v).res)
                       /\ (v.ctl # <<>> /\ InnerFrame(v).op = "If" => InnerFrame(v).res = Void)
    [] i.op = "Else" -> v.ctl # <<>> /\ InnerFrame(v).op = "If" /\ Closes(v, InnerFrame(v).res)
    [] i.op \in {"Br", "BrIf", "BrTable"} ->
         /\ \A d \in Range(i.n) : d <= Len(v.ctl)
         /\ \A d \in Targets(v, i) : HasTop(v, LabelTypes(Target(v, d)) \o Pops(i))
         /\ ToFunction(v, i) => HasTop(v, Result(fres) \o Pops(i))
    [] i.op = "Return" -> HasTop(v, Result(fres))
    [] OTHER -> HasTop(v, Pops(i))

(***************************************************************************)
(* Code that cannot be reached is left out: behind a branch, a return or   *)
(* unreachable comes the end, or the else, of the block.  Forms of valid   *)
(* code on which the conversion is known to go wrong are left out unless   *)
(* Unusual names them:                                                     *)
(*   elsebr       a branch out of the first part of an if with an else     *)
(*   loopvalue    a loop with a result                                     *)
(*   alias        an assignment to a local that is on the operand stack    *)
(*   cmp64        comparisons of i64 values                                *)
(*   funcbr       a branch to the label of the function                    *)
(*   trapend      unreachable outside all blocks of a function with a      *)
(*                result                                                   *)
(*   trapjoin     unreachable in a block whose end is reached another way: *)
(*                in a part of an if, or behind a branch to the end        *)
(*   deadvalue    a block with a result that is left by a branch or a      *)
(*                return with no such value on the stack                   *)
(***************************************************************************)
ReachedOnly(v, i) == v.dead => i.op \in {"End", "Else"}

Joins(f) == f.op \in {"If", "Else"} \/ (f.op = "Block" /\ f.hit)

Usual(v, i, fres) ==
  /\ ReachedOnly(v, i)
  /\ i.op = "Else" => ~InnerFrame(v).hit \/ "elsebr" \in Unusual
  /\ i.op = "Loop" => i.ty = Void \/ "loopvalue" \in Unusual
  /\ i.op \in {"LocalSet", "LocalTee"} =>
       \/ "alias" \in Unusual
       \/ \A k \in 1 .. Len(v.stk) - 1 : v.stk[k].loc # i.n[1]
  /\ i.op \in {"Compare", "Eqz"} => i.ty = "i32" \/ "cmp64" \in Unusual
  /\ i.op \in {"Br", "BrIf", "BrTable"} => ~ToFunction(v, i) \/ "funcbr" \in Unusual
  /\ i.op = "Unreachable" =>
       IF v.ctl = <<>> THEN fres = Void \/ "trapend" \in Unusual
       ELSE ~Joins(InnerFrame(v)) \/ "trapjoin" \in Unusual
  /\ v.dead /\ ~v.trap /\ v.ctl # <<>> =>
       HasTop(v, Result(InnerFrame(v).res)) \/ "deadvalue" \in Unusual

\* The validator's state behind instruction i.
Hit(v, i) ==
  IF i.op \in {"Br", "BrIf", "BrTable"}
  THEN [k \in DOMAIN v.ctl |-> IF Len(v.ctl) - k \in Range(i.n)
                               THEN [v.ctl[k] EXCEPT !.hit = TRUE] ELSE v.ctl[k]]
  ELSE v.ctl

Pushed(i) ==
  [k \in DOMAIN Pushes(i) |-> Entry(Pushes(i)[k], IF i.op = "LocalGet" THEN i.n[1] ELSE 0)]

Validated(v, i, fres) ==
  LET taken == IF i.op = "Return" THEN Result(fres) ELSE Pops(i)
      below == SubSeq(v.stk, 1, InnerFrame(v).base)
      rest  == SubSeq(v.stk, 1, Len(v.stk) - Len(taken))
  IN CASE i.op = "End" ->
            [stk |-> below \o [k \in DOMAIN Result(InnerFrame(v).res) |-> Entry(InnerFrame(v).res, 0)],
             ctl |-> Front(v.ctl), dead |-> FALSE, trap |-> FALSE]
       [] i.op = "Else" ->
            [stk |-> below, dead |-> FALSE, trap |-> FALSE,
             ctl |-> Append(Front(v.ctl), [InnerFrame(v) EXCEPT !.op = "Else"])]
       [] Opens(i) ->
            [stk |-> rest, ctl |-> Append(v.ctl, Frame(i, Len(rest))), dead |-> FALSE,
             trap |-> FALSE]
       [] i.op = "LocalTee" -> v
       [] OTHER ->
            [stk |-> rest \o Pushed(i), ctl |-> Hit(v, i), dead |-> Leaves(i),
             trap |-> i.op = "Unreachable"]

-----------------------------------------------------------------------------
(***************************************************************************)
(* Meaning.  Arithmetic, shared by this reference and the converted code.  *)
(***************************************************************************)
Junk == V       \* a register or a result nobody has written
Calc(op, a, b) ==
  CASE Junk \in {a, b} -> Junk
    [] op = "Binary"  -> (a + 2 * b + 1) % V
    [] op = "Add"     -> (a + b) % V
    [] op = "Compare" -> IF a < b THEN 1 ELSE 0
    [] op = "Eqz"     -> IF a = 0 THEN 1 ELSE 0
    [] op \in {"Convert", "MemoryGrow"} -> (a + 1) % V
CallValue(args) == Calc("Binary", args[1], args[Len(args)])
Cell(addr, ofs) == IF addr = Junk THEN 0 ELSE (addr + ofs) % V

\* The blocks of a body b, by the numbers of their instructions.
Nest(b, k, j) ==
  Cardinality({x \in k .. j : Opens(b[x])}) - Cardinality({x \in k .. j : b[x].op = "End"})
EndOf(b, k) == CHOOSE j \in k .. Len(b) : Nest(b, k, j) = 0 /\ \A x \in k .. j - 1 : Nest(b, k, x) # 0
ElseOf(b, k) == {j \in k .. EndOf(b, k) : b[j].op = "Else" /\ Nest(b, k, j) = 1}

World == [glob |-> 0, mem |-> [a \in Value |-> a], out |-> <<>>]
StartWasm(inp) ==
  [pc |-> 1, stk |-> <<>>, ctl |-> <<>>, st |-> "run", res |-> Junk, w |-> World,
   loc |-> [k \in DOMAIN Vars |-> IF k <= NumParams THEN inp[k] ELSE 0]]

\* A branch that leaves d blocks and goes to the label of the next one.
Branch(b, s, d) ==
  LET f == s.ctl[Len(s.ctl) - d]
      kept == IF b[f.at].op = "Loop" \/ b[f.at].ty = Void THEN <<>> ELSE <<Last(s.stk)>>
      loop == b[f.at].op = "Loop"
  IN [s EXCEPT !.stk = SubSeq(@, 1, f.h) \o kept,
               !.ctl = SubSeq(@, 1, Len(@) - d - (IF loop THEN 0 ELSE 1)),
               !.pc  = IF loop THEN f.at + 1 ELSE EndOf(b, f.at) + 1]

WasmStep(b, s) ==
  LET i    == b[s.pc]
      args == SubSeq(s.stk, Len(s.stk) - Len(Pops(i)) + 1, Len(s.stk))
      rest == SubSeq(s.stk, 1, Len(s.stk) - Len(Pops(i)))
      t    == [s EXCEPT !.stk = rest, !.pc = @ + 1]
      push(x) == [t EXCEPT !.stk = Append(@, x)]
      back(u) == [u EXCEPT !.st = "done", !.res = IF u.stk = <<>> THEN Junk ELSE Last(u.stk)]
      to(d) == IF d = Len(s.ctl) THEN back(t) ELSE Branch(b, t, d)
      open(pc) == [t EXCEPT !.ctl = Append(@, [at |-> s.pc, h |-> Len(rest)]), !.pc = pc]
  IN CASE i.op = "Const" -> push(i.n[1])
       [] i.op = "MemorySize" -> push(1)
       [] i.op \in {"Binary", "Compare"} -> push(Calc(i.op, args[1], args[2]))
       [] i.op \in {"Convert", "Eqz", "MemoryGrow"} -> push(Calc(i.op, args[1], 0))
       [] i.op = "LocalGet" -> push(s.loc[i.n[1]])
       [] i.op = "LocalSet" -> [t EXCEPT !.loc[i.n[1]] = args[1]]
       [] i.op = "LocalTee" -> [push(args[1]) EXCEPT !.loc[i.n[1]] = args[1]]
       [] i.op = "GlobalGet" -> push(s.w.glob)
       [] i.op = "GlobalSet" -> [t EXCEPT !.w.glob = args[1]]
       [] i.op = "Load" -> push(s.w.mem[Cell(args[1], i.n[1])])
       [] i.op = "Store" -> [t EXCEPT !.w.mem[Cell(args[1], i.n[1])] = args[2]]
       [] i.op = "Select" -> push(IF args[3] # 0 THEN args[1] ELSE args[2])
       [] i.op \in {"Call", "CallIndirect"} ->
            [(IF Pushes(i) = <<>> THEN t ELSE push(CallValue(SubSeq(args, 1, Len(CalleeParams)))))
               EXCEPT !.w.out = Append(@, args)]
       [] i.op \in {"Block", "Loop"} -> open(s.pc + 1)
       [] i.op = "If" -> open(IF args[1] # 0 THEN s.pc + 1
                              ELSE IF ElseOf(b, s.pc) = {} THEN EndOf(b, s.pc)
                              ELSE 1 + CHOOSE j \in ElseOf(b, s.pc) : TRUE)
       [] i.op = "Else" -> [s EXCEPT !.pc = EndOf(b, Last(s.ctl).at)]
       [] i.op = "End" -> IF s.ctl = <<>> THEN back(s) ELSE [t EXCEPT !.ctl = Front(@)]
       [] i.op = "Br" -> to(i.n[1])
       [] i.op = "BrIf" -> IF args[1] # 0 THEN to(i.n[1]) ELSE t
       [] i.op = "BrTable" ->
            to(i.n[IF args[1] + 1 < Len(i.n) THEN args[1] + 1 ELSE Len(i.n)])
       [] i.op = "Return" -> back(s)
       [] i.op = "Unreachable" -> [s EXCEPT !.st = "trap"]
       [] OTHER -> t       \* Drop, Nop

\* The state after at most fuel steps.
WasmRun(b, inp, fuel) ==
  LET run[k \in 0 .. fuel] ==
        IF k = 0 THEN StartWasm(inp)
        ELSE LET s == run[k - 1] IN IF s.st = "run" THEN WasmStep(b, s) ELSE s
  IN run[fuel]
=============================================================================
