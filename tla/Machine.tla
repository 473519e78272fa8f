------------------------------ MODULE Machine ------------------------------
(***************************************************************************)
(* The call and return machinery of UWASM_MACHINE: the register files with *)
(* their sliding windows (REGISTER), the saved contexts (CONTEXT_STACK),   *)
(* the current context (EXEC_CONTEXT) and the interpreter loop.            *)
(*                                                                         *)
(* A loaded module is a set of constants: the expanded instruction table   *)
(* and the per-function tables that U_MODULE caches.  Register and memory  *)
(* contents are abstracted away: a conditional jump may go either way, an  *)
(* indirect one to any label, an indirect call to any function.  What is   *)
(* kept is every pointer the machine computes: program counter, label      *)
(* table, frame pointer of each register file, stack pointer.              *)
(***************************************************************************)
EXTENDS Integers

CONSTANTS
  FuncNum,            \* number of functions of the module
  Externs,            \* functions flagged F_EXTERN or F_NATIVE
  Table,              \* _expanded_table: slot -> [op, arg]
  EndPc,              \* _end_pc: the slot before the BREAK instruction
  FuncBase,           \* _expanded_func_base: function -> first slot
  FuncLast,           \* function -> its last slot
  LabTab,             \* _lab_tab: function -> (label -> slot)
  Local,              \* _fp_shs_tab: function -> (kind -> locals)
  RegNum,             \* _reg_num_tab: function -> (kind -> locals + io)
  StackSize,          \* bytes of stack memory a function takes
  DEFAULT_STACK_SIZE, \* contexts the context stack is created with
  INITIAL_REG_SIZE,   \* registers a register file is created with
  MaxDepth,           \* bound: saved contexts of an explored behaviour
  MaxCount,           \* bound: instructions asked of one Control_start
  Interactive         \* the debugger console drives the machine

Kinds == {"i32", "i64", "f32", "f64"}

Funcs == 0 .. FuncNum - 1

Interns == Funcs \ Externs

Ops == {"plain", "jmp", "jmp_indirect", "jcc", "call", "call_indirect",
        "return", "break"}

\* The slots of function f.
Body(f) == FuncBase[f] .. FuncLast[f]

BreakPc == EndPc + 1

NullPc == -2

NullLab == -1

NullSp == -1

\* Packed counts exceed 0xffff: some register file beside the i32 one has any.
Wide(num) == \E k \in Kinds \ {"i32"} : num[k] # 0

ASSUME SizeAssumption ==
  /\ FuncNum \in Nat \ {0}
  /\ EndPc \in Nat
  /\ DEFAULT_STACK_SIZE \in Nat \ {0}
  /\ INITIAL_REG_SIZE \in Nat
  /\ MaxDepth \in Nat
  /\ MaxCount \in Nat
  /\ Interactive \in BOOLEAN

ASSUME TableAssumption ==
  /\ Externs \subseteq Funcs
  /\ Table \in [0 .. BreakPc -> [op : Ops, arg : Nat]]
  /\ Local \in [Funcs -> [Kinds -> Nat]]
  /\ RegNum \in [Funcs -> [Kinds -> Nat]]
  /\ StackSize \in [Funcs -> Nat]
  /\ FuncBase \in [Funcs -> Nat]
  /\ FuncLast \in [Funcs -> Nat]
  /\ \A f \in Funcs, k \in Kinds : Local[f][k] <= RegNum[f][k]

\* The code is closed: a function leaves its slots only by call and return.
ASSUME CodeAssumption ==
  /\ Table[BreakPc].op = "break"
  /\ \A f \in Interns :
       /\ FuncBase[f] \in Body(f)
       /\ Body(f) \subseteq 0 .. EndPc - 1
       /\ \A l \in DOMAIN LabTab[f] : LabTab[f][l] \in Body(f)
       /\ \A pc \in Body(f) :
            /\ Table[pc].op # "break"
            /\ Table[pc].op \in {"plain", "jcc", "call", "call_indirect"}
                 => pc + 1 \in Body(f)
            /\ Table[pc].op \in {"jmp", "jcc"}
                 => Table[pc].arg \in DOMAIN LabTab[f]
            /\ Table[pc].op = "call" => Table[pc].arg \in Funcs

VARIABLES
  regFp,    \* REGISTER::_fp of each register file
  regSize,  \* REGISTER::_cur_mem_size of each register file
  cur,      \* UWASM_MACHINE::_current
  ctxSta,   \* CONTEXT_STACK::_ctx_sta, with the slot behind its storage
  ctxCap,   \* CONTEXT_STACK::_capacity
  ctxTop,   \* CONTEXT_STACK::_sta_top_idx
  mode,     \* "idle": the host has control, "running", "exited"
  left      \* instructions Control_start still owes, -1 in Exec_start

vars == <<regFp, regSize, cur, ctxSta, ctxCap, ctxTop, mode, left>>

regs == <<regFp, regSize>>

stack == <<ctxSta, ctxCap, ctxTop>>

(***************************************************************************)
(* EXEC_CONTEXT.  sp counts the bytes between the top of memory (_sta_p)   *)
(* and the stack pointer; lab is the function whose label table is in use. *)
(***************************************************************************)
Context == [fp : [Kinds -> Nat], func : Funcs, pc : Int, lab : Int, sp : Int]

BlankContext ==
  [fp |-> [k \in Kinds |-> 0], func |-> 0, pc |-> NullPc,
   lab |-> NullLab, sp |-> NullSp]

Inc_pc(c) == [c EXCEPT !.pc = @ + 1]

\* The context Init_env pushes, whose pc leads to the BREAK instruction.
IsEntry(c) == c.pc = EndPc

(***************************************************************************)
(* CONTEXT_STACK.  ctxSta has one slot more than the vector: the memory    *)
(* right behind its storage, which other allocations may overwrite and     *)
(* which a resize does not copy.                                           *)
(***************************************************************************)
PushCap == IF ctxTop = ctxCap THEN 2 * ctxCap ELSE ctxCap

PushSta ==
  IF ctxTop = ctxCap
    THEN [i \in 0 .. 2 * ctxCap |->
            IF i < ctxCap THEN ctxSta[i] ELSE BlankContext]
    ELSE ctxSta

\* What a slot holds once c was written to it.
Written(i, cap, c) == IF i < cap THEN {c} ELSE {c, BlankContext}

\* Write c to the slot above the top; the caller of Push moves the top.
Push(c) ==
  /\ ctxCap' = PushCap
  /\ \E w \in Written(ctxTop + 1, PushCap, c) :
       ctxSta' = [PushSta EXCEPT ![ctxTop + 1] = w]

\* Mutant: Alloc compares the size with the window alone.
AllocWindowOnly(ks, fp, num) ==
  [k \in Kinds |->
     IF k \in ks /\ regSize[k] < num[k] THEN num[k] * 2 ELSE regSize[k]]

(***************************************************************************)
(* REGISTER::Alloc on the files of the kinds in ks, with frame pointers fp *)
(***************************************************************************)
Alloc(ks, fp, num) ==
  [k \in Kinds |->
     IF k \in ks /\ regSize[k] < fp[k] + num[k]
       THEN (regSize[k] + fp[k] + num[k]) * 2
       ELSE regSize[k]]

NonZero(num) == {k \in Kinds : num[k] # 0}

\* Mutant: the i64 register file is not shifted.
ShiftedNotI64(caller) ==
  [k \in Kinds |-> IF k = "i64" THEN regFp[k] ELSE regFp[k] + Local[caller][k]]

\* REGISTER::Increment by the locals of the calling function.
Shifted(caller) ==
  [k \in Kinds |-> regFp[k] + Local[caller][k]]

\* Mutant: only the i32 frame pointer is recorded in the context.
ShiftedContextI32(caller) == [cur.fp EXCEPT !["i32"] = Shifted(caller)["i32"]]

\* The frame pointers Func_prologue records in the current context.
ShiftedContextFp(caller) ==
  [k \in Kinds |-> IF k = "i32" \/ Local[caller][k] # 0
                     THEN Shifted(caller)[k]
                     ELSE cur.fp[k]]

\* Mutant: Func_epilogue restores the i32 register file only.
RestoredI32(c, fp) == [fp EXCEPT !["i32"] = c.fp["i32"]]

\* The register frame pointers Func_epilogue leaves after restoring c.
Restored(c, fp) ==
  [k \in Kinds |-> IF k = "i32" \/ Wide(Local[c.func]) THEN c.fp[k] ELSE fp[k]]

Allocate_stack(sp, f) == sp + StackSize[f]

(***************************************************************************)
(* The host: UVM_set_func / "func", UVM_execute / "c", "n" and "rc".       *)
(***************************************************************************)
EntryContext(f) ==
  [fp |-> cur.fp, func |-> f, pc |-> EndPc, lab |-> cur.lab, sp |-> cur.sp]

\* Mutant: the stack pointer is not moved back to the top of memory.
Init_env_keeps_sp(f) ==
  /\ mode = "idle"
  /\ Interactive \/ ctxTop = -1
  /\ ctxTop < MaxDepth
  /\ Push(EntryContext(f))
  /\ cur' = [fp |-> cur.fp, func |-> f, pc |-> FuncBase[f], lab |-> f,
             sp |-> Allocate_stack(cur.sp, f)]
  /\ ctxTop' = ctxTop + 1
  /\ regSize' = Alloc(NonZero(RegNum[f]), regFp, RegNum[f])
  /\ UNCHANGED <<regFp, mode, left>>

Init_env(f) ==
  /\ mode = "idle"
  /\ Interactive \/ ctxTop = -1
  /\ ctxTop < MaxDepth
  /\ Push(EntryContext(f))
  /\ cur' = [fp |-> cur.fp, func |-> f, pc |-> FuncBase[f], lab |-> f,
             sp |-> Allocate_stack(0, f)]
  /\ ctxTop' = ctxTop + 1
  /\ regSize' = Alloc(NonZero(RegNum[f]), regFp, RegNum[f])
  /\ UNCHANGED <<regFp, mode, left>>

Exec_start ==
  /\ mode = "idle"
  /\ cur.pc # NullPc
  /\ mode' = "running"
  /\ left' = -1
  /\ UNCHANGED <<regs, cur, stack>>

Control_start(count) ==
  /\ Interactive
  /\ mode = "idle"
  /\ cur.pc # NullPc
  /\ mode' = "running"
  /\ left' = count
  /\ UNCHANGED <<regs, cur, stack>>

(***************************************************************************)
(* One turn of the interpreter loop: the instruction at pc is an op.       *)
(***************************************************************************)
Dispatch(op) ==
  /\ mode = "running"
  /\ Table[cur.pc].op = op
  /\ left' = IF left > 0 THEN left - 1 ELSE left
  /\ mode' = IF left = 1 THEN "idle" ELSE "running"

Operand == Table[cur.pc].arg

\* Every instruction that only works on registers and memory.
Exec_plain ==
  /\ Dispatch("plain")
  /\ cur' = Inc_pc(cur)
  /\ UNCHANGED <<regs, stack>>

\* UNREACH, or an assertion that fails inside an instruction (memory access,
\* heap, memory.grow): the process ends.
Exec_abort ==
  /\ mode = "running"
  /\ Table[cur.pc].op = "plain"
  /\ mode' = "exited"
  /\ UNCHANGED <<regs, cur, stack, left>>

Goto(lab) == cur' = [cur EXCEPT !.pc = LabTab[cur.lab][lab]]

Jmp_am32_ofs ==
  /\ Dispatch("jmp")
  /\ Goto(Operand)
  /\ UNCHANGED <<regs, stack>>

Jmp_indirect_am32_r ==
  /\ Dispatch("jmp_indirect")
  /\ \E lab \in DOMAIN LabTab[cur.lab] : Goto(lab)
  /\ UNCHANGED <<regs, stack>>

\* Jez, Jnz, Jlt and the other conditional jumps.
Jcc_taken ==
  /\ Dispatch("jcc")
  /\ Goto(Operand)
  /\ UNCHANGED <<regs, stack>>

Jcc_not_taken ==
  /\ Dispatch("jcc")
  /\ cur' = Inc_pc(cur)
  /\ UNCHANGED <<regs, stack>>

\* Mutant: the callee runs with the label table of its caller.
Prologue_keeps_lab(callee) ==
  /\ callee \in Interns
  /\ ctxTop < MaxDepth
  /\ Push(cur)
  /\ ctxTop' = ctxTop + 1
  /\ cur' = [fp |-> ShiftedContextFp(cur.func), func |-> callee,
             pc |-> FuncBase[callee], lab |-> cur.lab,
             sp |-> Allocate_stack(cur.sp, callee)]
  /\ regFp' = Shifted(cur.func)
  /\ regSize' = Alloc(NonZero(RegNum[callee]) \cup {"i32"},
                      Shifted(cur.func), RegNum[callee])

\* Func_prologue of a function with a body.
Prologue_intern(callee) ==
  /\ callee \in Interns
  /\ ctxTop < MaxDepth
  /\ Push(cur)
  /\ ctxTop' = ctxTop + 1
  /\ cur' = [fp |-> ShiftedContextFp(cur.func), func |-> callee,
             pc |-> FuncBase[callee], lab |-> callee,
             sp |-> Allocate_stack(cur.sp, callee)]
  /\ regFp' = Shifted(cur.func)
  /\ regSize' = Alloc(NonZero(RegNum[callee]) \cup {"i32"},
                      Shifted(cur.func), RegNum[callee])

\* Func_prologue of an external function: the call runs to its end and
\* Func_epilogue restores the context from the slot just pushed.
Prologue_extern(callee) ==
  /\ callee \in Externs
  /\ ctxTop < MaxDepth
  /\ Push(cur)
  /\ ctxTop' = ctxTop
  /\ cur' = Inc_pc(ctxSta'[ctxTop + 1])
  /\ regFp' = Restored(ctxSta'[ctxTop + 1], Shifted(cur.func))
  /\ UNCHANGED regSize

Func_prologue(callee) == Prologue_intern(callee) \/ Prologue_extern(callee)

Call_am32_ofs == Dispatch("call") /\ Func_prologue(Operand)

Call_indirect_am32_r ==
  Dispatch("call_indirect") /\ \E callee \in Funcs : Func_prologue(callee)

\* An external function that ends the process (proc_exit, trap).
Call_exit ==
  /\ mode = "running"
  /\ \E callee \in Externs :
       \/ Table[cur.pc].op = "call" /\ Operand = callee
       \/ Table[cur.pc].op = "call_indirect"
  /\ mode' = "exited"
  /\ UNCHANGED <<regs, cur, stack, left>>

\* Mutant: the context is popped twice.
Return_pops_twice ==
  /\ Dispatch("return")
  /\ ctxTop >= 0
  /\ cur' = Inc_pc(ctxSta[ctxTop])
  /\ ctxTop' = ctxTop - 2
  /\ regFp' = Restored(ctxSta[ctxTop], regFp)
  /\ UNCHANGED <<regSize, ctxSta, ctxCap>>

\* Mutant: the context is read but not popped.
Return_keeps_top ==
  /\ Dispatch("return")
  /\ ctxTop >= 0
  /\ cur' = Inc_pc(ctxSta[ctxTop])
  /\ ctxTop' = ctxTop
  /\ regFp' = Restored(ctxSta[ctxTop], regFp)
  /\ UNCHANGED <<regSize, ctxSta, ctxCap>>

\* Mutant: the caller is resumed at the call instead of behind it.
Return_to_call ==
  /\ Dispatch("return")
  /\ ctxTop >= 0
  /\ cur' = ctxSta[ctxTop]
  /\ ctxTop' = ctxTop - 1
  /\ regFp' = Restored(ctxSta[ctxTop], regFp)
  /\ UNCHANGED <<regSize, ctxSta, ctxCap>>

\* Func_epilogue, then the Inc_pc at the end of the loop.
Return_am32 ==
  /\ Dispatch("return")
  /\ ctxTop >= 0
  /\ cur' = Inc_pc(ctxSta[ctxTop])
  /\ ctxTop' = ctxTop - 1
  /\ regFp' = Restored(ctxSta[ctxTop], regFp)
  /\ UNCHANGED <<regSize, ctxSta, ctxCap>>

\* BREAK leaves the loop without moving pc.
Break_am32 ==
  /\ mode = "running"
  /\ Table[cur.pc].op = "break"
  /\ mode' = "idle"
  /\ left' = 0
  /\ UNCHANGED <<regs, cur, stack>>

Exited == mode = "exited" /\ UNCHANGED vars

Init ==
  /\ regFp = [k \in Kinds |-> 0]
  /\ regSize = [k \in Kinds |-> INITIAL_REG_SIZE]
  /\ cur = BlankContext
  /\ ctxSta = [i \in 0 .. DEFAULT_STACK_SIZE |-> BlankContext]
  /\ ctxCap = DEFAULT_STACK_SIZE
  /\ ctxTop = -1
  /\ mode = "idle"
  /\ left = 0

Host ==
  \/ \E f \in Interns : Init_env(f)
  \/ Exec_start
  \/ \E count \in 1 .. MaxCount : Control_start(count)

Step ==
  \/ Exec_plain
  \/ Exec_abort
  \/ Jmp_am32_ofs
  \/ Jmp_indirect_am32_r
  \/ Jcc_taken
  \/ Jcc_not_taken
  \/ Call_am32_ofs
  \/ Call_indirect_am32_r
  \/ Call_exit
  \/ Return_am32
  \/ Break_am32

Next == Host \/ Step \/ Exited

Spec == Init /\ [][Next]_vars

\* Once started, the interpreter loop keeps turning.
FairSpec == Spec /\ WF_vars(Step)

-----------------------------------------------------------------------------
(***************************************************************************)
(* Properties.                                                             *)
(***************************************************************************)

\* The machine is inside a function, not at the BREAK slot and not fresh.
InCode == cur.pc \in 0 .. EndPc - 1

\* The saved contexts a call pushed, in contrast to the entry contexts.
Suspended == {d \in 0 .. ctxTop : ~IsEntry(ctxSta[d])}

\* The values every variable ranges over; the context stack never holds more
\* contexts than its storage plus the slot right behind it.
TypeOK ==
  /\ regFp \in [Kinds -> Nat]
  /\ regSize \in [Kinds -> Nat]
  /\ cur \in Context
  /\ ctxCap \in Nat \ {0}
  /\ ctxTop \in -1 .. ctxCap
  /\ ctxSta \in [0 .. ctxCap -> Context]
  /\ mode \in {"idle", "running", "exited"}
  /\ left \in -1 .. MaxCount

\* The frame pointer of every register file is the one of the current context,
\* although Func_epilogue restores the i64, f32 and f64 files only when the
\* caller has locals in one of them.
FpSync == \A k \in Kinds : regFp[k] = cur.fp[k]

\* The whole register window of the running function, and of every function it
\* will return to, lies inside the allocated register files.
WindowsFit ==
  \A k \in Kinds :
    /\ regFp[k] <= regSize[k]
    /\ InCode => regFp[k] + RegNum[cur.func][k] <= regSize[k]
    /\ \A d \in Suspended :
         ctxSta[d].fp[k] + RegNum[ctxSta[d].func][k] <= regSize[k]

\* No register the running function can name is a local of a function that
\* waits for it: windows overlap in the argument area only.
LocalsProtected ==
  \A d \in Suspended, k \in Kinds :
    ctxSta[d].fp[k] + Local[ctxSta[d].func][k] <= regFp[k]

\* Control never leaves the code of the function the context names, the label
\* table in use is that function's, and a saved context stands at a call.
PcInFunction ==
  /\ InCode => /\ cur.func \in Interns
               /\ cur.lab = cur.func
               /\ cur.pc \in Body(cur.func)
               /\ ctxTop >= 0
  /\ ~InCode => cur.pc \in {NullPc, BreakPc}
  /\ \A d \in Suspended :
       /\ ctxSta[d].func \in Interns
       /\ ctxSta[d].lab = ctxSta[d].func
       /\ ctxSta[d].pc \in Body(ctxSta[d].func)
       /\ Table[ctxSta[d].pc].op \in {"call", "call_indirect"}

\* The stack memory of a function starts where that of its caller ends: the
\* regions of the active functions neither overlap nor leave gaps.
RegionAbove(d, c) ==
  c.sp = StackSize[c.func] + (IF IsEntry(ctxSta[d]) THEN 0 ELSE ctxSta[d].sp)

StackRegions ==
  /\ InCode => RegionAbove(ctxTop, cur)
  /\ \A d \in Suspended : RegionAbove(d - 1, ctxSta[d])

\* When a run that nothing interrupted is over, the context stack is empty and
\* every register file is back where it was: runs can follow each other.
NoLeak ==
  ~Interactive /\ cur.pc = BreakPc =>
    ctxTop = -1 /\ \A k \in Kinds : regFp[k] = 0

\* A run of a program without loops and recursion ends: it reaches the BREAK
\* instruction or an external function ends the process.
RunEnds == (mode = "running") ~> (mode # "running")

\* The bottom of the context stack is an entry context, the stack has not
\* outgrown the storage it was created with, and only a machine that Init_env
\* has prepared runs.
StackShape ==
  /\ ctxCap = DEFAULT_STACK_SIZE
  /\ ctxTop <= MaxDepth
  /\ ctxTop >= 0 => IsEntry(ctxSta[0])
  /\ mode # "idle" => cur.pc # NullPc

\* The frame pointers of the context that was current when a was saved.
CalleeFp(a) ==
  IF IsEntry(a) THEN a.fp ELSE [k \in Kinds |-> a.fp[k] + Local[a.func][k]]

\* Each context has the frame pointers its predecessor gave it.
FramesLinked ==
  /\ ctxTop >= 0 => cur.fp = CalleeFp(ctxSta[ctxTop])
  /\ \A d \in 0 .. ctxTop - 1 : ctxSta[d + 1].fp = CalleeFp(ctxSta[d])

\* The locals of a waiting function lie below every later window.
WindowsNested ==
  \A d \in Suspended, k \in Kinds, e \in 0 .. ctxTop :
    d < e => ctxSta[d].fp[k] + Local[ctxSta[d].func][k] <= ctxSta[e].fp[k]

\* The inductive invariant: what a call or a return needs to know of the saved
\* contexts to leave the machine in a state with all the properties above.
IInv ==
  /\ TypeOK
  /\ StackShape
  /\ FramesLinked
  /\ WindowsNested
  /\ FpSync
  /\ WindowsFit
  /\ LocalsProtected
  /\ PcInFunction
  /\ StackRegions

\* Without the debugger only one run is in progress at a time: one entry context
\* at the bottom, which records register files that start at 0.  NoLeak is not
\* inductive without it.
OneRun ==
  ~Interactive =>
    /\ ~InCode => ctxTop = -1
    /\ \A d \in 0 .. ctxTop : IsEntry(ctxSta[d]) => d = 0
    /\ \A k \in Kinds : IF ctxTop = -1 THEN regFp[k] = 0 ELSE ctxSta[0].fp[k] = 0

\* The activations of the run in progress: the contexts saved above the newest
\* entry context, and the current one with the frame pointers of the files.
RunBase ==
  CHOOSE d \in 0 .. ctxTop :
    IsEntry(ctxSta[d]) /\ \A e \in d + 1 .. ctxTop : ~IsEntry(ctxSta[e])

Activations ==
  IF ~InCode THEN << >>
  ELSE [i \in 1 .. ctxTop - RunBase + 1 |->
          IF i = ctxTop - RunBase + 1
            THEN [func |-> cur.func, pc |-> cur.pc, base |-> regFp]
            ELSE LET c == ctxSta[RunBase + i]
                 IN  [func |-> c.func, pc |-> c.pc, base |-> c.fp]]

Abstract == INSTANCE Calls WITH acts <- Activations, status <- mode

\* Context stack, sliding windows, entry contexts and BREAK together do what
\* Calls promises: callers are resumed behind the call, with their windows.
CallsRefined == Abstract!Spec

\* "no space lefted, allocate new space" (exec_unit.h): a context saved by
\* Push is still there when the function it belongs to is returned to.
SavedContextsKept == \A d \in 0 .. ctxTop : ctxSta[d].pc # NullPc
=============================================================================
