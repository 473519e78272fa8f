# A verification project for uwasm-vm

uwasm-vm runs modules in the UBH format: register based code that a converter
produces from WebAssembly. This directory holds TLA+ models of the virtual
machine, the TLC configurations that check them on small instances, and proofs
that the TLA+ proof system (TLAPS) checks.

## The system

| Component | State it keeps | Operations | Modelled in |
|---|---|---|---|
| Interpreter core (`src/interpreter/exec_unit.*`, `exec_unit_op.def`, `exec_unit_func.h`) | four register files with a sliding window each, the current context (pc, label table, frame pointers, stack pointer), the stack of saved contexts | `Init_env`, `Exec_start`, `Control_start`, `Func_prologue`, `Func_epilogue`, one handler per opcode | `Machine`, `Calls` |
| Linear memory (`Init_memory`, `Allocate_stack`, `Grow_memory`, `uwasm_malloc.cxx`, `U_malloc`, `U_free`) | buffer, its size, end of the stack, heap offset and size, the mspace | layout at start, frames, malloc, free, memory.grow, pointer decoding | `Memory` |
| Module loader (`src/ubh`) | section headers, type and register tables, the expanded code and label tables, debug maps | `Load_from_buffer`, `Decode_type_and_cache`, `Fix_up_reloc`, `Expand_code`, `Search_start` | `Expand_code` in `Loader`; sections, types, names, code bodies and the start function in `Image`; memory checks in `Memory` |
| Runtime (`src/runtime/u_runtime.cxx`) | function information per import, name cache | `Init_cache`, `Create_cif`, `Call_sys_call`, `Ffi_call`, the system calls | resolution in `Image`, with the argument registers of native functions, malloc and free in `Memory`, a call as one action of `Machine` |
| Host API and console (`exec_system.cxx`, `main.cxx`) | the one machine of the process, the chosen function, argument registers | `UVM_*`, the console commands | loading in `Image`, running and interrupting in `Machine` |
| Debugger (`exec_debug.*`) | selected frame, breakpoints | frame selection, backtrace, breakpoints | interruption only, in `Machine` |
| Converter (`src/wasm`) | statements, virtual stack, local table, register allocator, label fix-ups | one conversion per wasm instruction | `Wasm` (reference), `Converter`; operands and instruction forms in `Alu`; declarations in `Image` |
| Integer instructions (`exec_unit_func.h`, `u_inst.h`) | registers and memory | pack, expand and execute one instruction | `Numerics` (reference), `Alu` |
| LEB128 (`src/wasm/u_leb128.h`) | none | decode, encode | `Leb128`, used by `Alu` |
| Encoder, string table (`src/encoder`, `src/utilities`) | sections under construction | add entries, write | `StrTab`, `Image` |
| Static linker (`src/static_linker`) | the module and the objects opened | open, link | `Image` |
| Trace, performance counters | counters | record, print | not modelled: nothing depends on them |
| dlmalloc, libffi, wabt, ELFIO, gtest | third party | | external; `Mspace_places` states what the heap relies on |

How they interact: the host loads a module, gives it a buffer (`Init_memory`
copies the data section, expands the code and creates the heap), chooses a
function (`Init_env`) and runs it (`Exec_start`, or `Control_start` from the
console). The interpreter calls the runtime for external functions; the
runtime reads parameters from the register files and hands out heap memory.
The system calls for threads start native functions only, so one thread at a
time runs the machine: the interleavings that matter are those of the program
with the host and the console, which may interrupt a run after any
instruction.

What is hard in this code:

* the machine never stores where a window ends: frame pointers live in the
  register files and in the contexts, are shifted lazily on a call and restored
  lazily on a return, per register file and depending on the function;
* the loop ends only through a BREAK instruction that an artificial entry
  context leads to, and calls, returns and external calls divide the one
  `Inc_pc` between them in three different ways;
* the context stack, the register files and the memory grow in the middle of a
  run;
* pointers have two forms told apart by their sign, and three different bases
  (memory, end of the stack, heap) are added and subtracted in different files;
* sizes are rounded in several places, in pages of 4096 and of 65536 bytes;
* the converter gives stack positions to registers in one pass, reserves the
  registers of block results ahead, and knows the registers of calls only at
  the end;
* an operand passes through LEB128, C++ integers of several widths, bit fields
  of several widths and signs and a handler, each with its own limits;
* what the encoder writes is found again through indices that count entries in
  one place and bytes or bodies in another.

The full list, line by line, with the property for each, is in `PROJECT.json`
under `hazards`.

## The modules

### Machine

One machine and one loaded module. The module is a set of constants: the
expanded instruction table, the first and last slot of every function, the
label tables, and the register counts `U_MODULE` caches (`Local` for
`_fp_shs_tab`, `RegNum` for `_reg_num_tab`). Assumptions state what the loader
and the converter provide: labels lie inside their function, the last
instruction of a function does not fall through, direct calls name functions
of the module.

| Variable | Code |
|---|---|
| `regFp`, `regSize` | `REGISTER::_fp`, `_cur_mem_size`, for each of the four files |
| `cur` | `UWASM_MACHINE::_current` |
| `ctxSta`, `ctxCap`, `ctxTop` | `CONTEXT_STACK`; `ctxSta` has the slot behind the vector's storage, because `Push` writes to it |
| `mode`, `left` | who has control, and what `Control_start` still has to do |

`Init_env`, `Exec_start` and `Control_start` are the host's actions; the
actions of `Step` are one turn of the loop each, with the trailing `Inc_pc`
where the code reaches it. Values in registers and memory are abstracted: a
conditional jump may go either way, an indirect jump to any label of the
function, an indirect call to any function. An instruction whose assertion
fails, and an external function that exits, end the process (`Exec_abort`,
`Call_exit`). `Written` models the undefined behaviour of `Push` at its limit: a
context written behind the storage is there or not.

`Interactive = FALSE` is the embedding API (`UVM_set_func` and `UVM_execute`
alternate), `TRUE` the console, which may interrupt a run, resume it, and start
another function on top.

### Calls

What a program expects: a sequence of activations, each with its function, its
position and the base of its registers. `Machine` is shown to implement it:
`Activations` takes the contexts above the newest entry context together with
the current one and the frame pointers of the files, and `CallsRefined` says
that every step of the machine is then a step of `Calls` or none.

### Memory

The buffer the host passes, as offsets from `_mem_p`. `Init_memory` covers the
checks of `Fix_up_reloc` and `Init_mem_with_data_segs` with their outcomes
(assertion, error code, no memory at all, ready). `Allocate_stack` and
`Func_epilogue` move the stack pointer, `U_malloc` and `U_free` work on the
blocks of the mspace, `Grow_memory` on the buffer, which realloc may move.
The build without `DIRECT_ACC_MEM` and `UWASM_MEM_CHECK` is modelled, and
assertions are on; freeing an address that is no block ends the process, as
dlmalloc's footer checks and assertions do. HEAP_MEM_PERCENT is the fraction
4/5; the rounding of `float` is left out.

### Loader

`U_MODULE::Expand_code`: the code of all functions, words that `U_INST_ITER`
walks over by one or two, becomes one table of expanded instructions, and label
and function tables that counted words get slots of that table. `Count_func` and
`Alloc_tables` are the first pass, `Skip_func`, `Expand_inst` (one turn of the
inner loop) and `End_func` the second, `Add_break` the end. `table` is
`_expanded_table` with each entry named by the function and word it came from, as
`Bind_expand_pc` records it; `originPc`, `labTab` and `funcBase` hold the cells
of `_origin_pc_map`, `_lab_tab` and `_expanded_func_base` that were written, and
`Read` gives `Junk` for any other. Opcodes and operands are left out: only an
instruction's width steers the code. The module read is a constant;
`ModulesAssumption` says that functions with a body consist of whole
instructions and that labels stand in front of one.

### Wasm and Converter

`Wasm` is a reference and models no code: the validation rules and the meaning of
the WebAssembly instructions that the converter handles, over values `0 .. V-1`
and the two integer types. `WasmRun` is the result of a function for given
arguments, its calls, and its effects on memory and globals.

`Converter` is `converter.cxx` for one function. `Build_block_hierarchy` reads one
instruction of any valid function at a time, and the `Conv_` actions are the
cases of the large switch of `Wasm_to_uwasm`, one turn of its loop each; `Fix_up`
is the last loop, over the calls. `WellFormed` is what the reader of the wasm file
guarantees of a single instruction.

| Variable | Code |
|---|---|
| `ins`, `work`, `graph` | the instructions, the stack of open blocks and `WINST_STMT_GRAPH` |
| `al` | `wasm_stack` (`stk`), `REG_ALLOC_HELPER` (`next`), the sizes of `local_tab` (`size`, `io`); `ok` turns FALSE where an assertion fails |
| `code`, `labels` | the current `U_CODE_BODY` |
| `calls` | `call_insts_pc` |

`CodeRun` is what the interpreter does with the result: each register operand is
read from the file its handler names, a call destroys what is behind the
caller's window, and `Junk` is what nobody wrote.

### Numerics, Leb128 and Alu

`Numerics` is the reference: WebAssembly's integer arithmetic on words of `Word`
and `Long` bits and a memory of small cells. `Leb128` is `u_leb128.h`. `Alu`
follows one instruction from its bytes to its effect: the operands as
`WASM_INST` reads them, the form the converter chooses, the fields
`U_INST_UTIL` packs, `Expand_code` unpacks and a handler of `exec_unit_func.h` uses. Registers hold
signed numbers, as `INT32` and `INT64` files do. A `Step` action gives a program its next
instruction, and `Agrees` compares all registers, the memory, traps and the
length of the instruction with the reference. Both builds of the bounds check
(`UWASM_MEM_CHECK`) are there. Floating point is not.

### StrTab and Image

`StrTab` is `U_STR_TAB`: the bytes, the offsets of the entries, and the cache that
holds pointers, here with the generation of the vector they point into. `Image`
takes a module from `wasm-cvt.cc`'s declarations (`Import_func`, `Import_global`,
`Add_global`, `Static_data`, `Create_ubh_code`, `Add_inst`, `Request`,
`Add_label`, `End_func`) through `Write` (sections and headers), `Link`
(`u_slink`, any number of times the bounds allow) to `Load_from_file` or
`UVM_load`, which read the file back and resolve the imports. A file maps offsets
to what was written there. `Builds` are the two treatments of missing imports,
with and without `SKIP_EXTERNAL_FUNCTION`.

### Unusual forms

Modelling the converter, the instructions and the file format showed forms of
input on which the code deviates from its reference. So that the properties can
be checked on everything else, `Converter` (through `Wasm`), `Alu` and `Image` have a constant
`Unusual`: a form occurs only if it is named there. The passing runs set it to
`{}`, so they say nothing of these forms; two runs name one form each and show the
violation. The others can be reproduced in the same way, see "Known deviations".

The forms of `Converter` are all valid WebAssembly, and the specification's tests
contain most of them (`tests/spec/func.wast`, `unreachable.wast`):

| Form | What is left out |
|---|---|
| `elsebr` | a branch out of the first part of an if that has an else |
| `loopvalue` | a loop with a result |
| `alias` | an assignment to a local whose value is on the operand stack |
| `cmp64` | comparisons of i64 values |
| `funcbr` | a branch to the label of the function itself |
| `trapend` | unreachable outside all blocks of a function with a result |
| `trapjoin` | unreachable in a block whose end is also reached another way: in a part of an if, or in a block with a branch to its end |
| `deadvalue` | a block with a result that is left by a branch or a return at a point where the value is not on the stack |

Besides, code that cannot be reached is left out: behind a branch, a return or
unreachable comes the end, or the else, of the block. unreachable itself may stand
in blocks and loops with and without a result, and at the end of functions without
one.

## The runs

| Run | Result | Shows |
|---|---|---|
| `line` | pass | Runs of a program without loops and recursion that follow each other: types, nothing is left on the context stack or in a frame pointer (`NoLeak`), and control comes back (`RunEnds`), under fairness. |
| `debug` | pass | With the console in charge: frame pointers agree (`FpSync`), windows fit (`WindowsFit`), callers' locals cannot be named (`LocalsProtected`), control stays in its function (`PcInFunction`), stack regions are contiguous (`StackRegions`), the inductive invariant holds (`IInv`) and `Calls` is implemented (`CallsRefined`). |
| `layout` | pass | Data, heap and stack are apart in buffers of whole pages (`LayoutFits`), both pointer forms decode to their cell (`PointersDecode`, which compares offsets and does not ask whether realloc has moved the buffer), held blocks are live in modules without global data (`HeldAreLiveAtZero`). |
| `expand` | pass | `Expand_code`: the iterator stays on instructions (`IteratorOnInstruction`), labels and function starts lead to their instruction (`LabelsLand`), neighbouring slots are neighbouring instructions (`NextInstruction`), both passes agree on the sizes (`TablesFit`), and loading ends (`LoadEnds`). |
| `convert` | pass | Functions over seven alphabets of instructions, all that are valid except the forms above: no two values share a register (`RegistersDistinct`), no assertion fails (`NeverAborts`), labels stand in front of instructions and the code does not fall off its end (`CodeClosed`, which is what `Loader` and `Machine` assume), registers are inside the window (`RegistersInWindow`), and for all arguments the register code does what the WebAssembly code does (`SameBehaviour`). |
| `alu` | pass | Programs of three instructions agree with the reference (`Agrees`). |
| `encode` | pass | String tables find their entries (`TabsFind`), function and code indices of the encoder agree (`IndicesAgree`), a loaded module is the one that was converted (`LoadedAgrees`) and imports are resolved to what they name (`CallsResolve`). |
| `deep` | violation | `Push` grows the context stack one push too late (exec_unit.h:125): the context behind the storage is lost. |
| `free` | violation | `U_free` adds the heap offset a second time (u_runtime.cxx:491). Its instance has no memory.grow, no frames and no data segments: the other ways to violate `RegionsKept` are under "Known deviations". |
| `grow` | violation | memory.grow returns the new size in bytes, not the old one in pages (exec_unit.cxx:513, memory_grow.wast:44). |
| `elsebr` | violation | A branch out of the first part of an if with an else goes to the begin of the else (converter.cxx:727). |
| `offset` | violation | Offsets in the upper half of an immediate field are read back as negative numbers. |

Bounds. The machine runs use four functions: one with i32 locals only, one with
i64 and f64 locals, one without locals, one external, so that every branch of
the lazy shifting and restoring is taken and every pair of caller and callee
occurs through the indirect call. `MaxDepth` 3 allows three nested calls above
an entry context, or two interrupted runs on top of each other;
`INITIAL_REG_SIZE` 3 makes each register file grow at the first or the second
call. `MaxCount` 2 stops a run after any instruction, since runs of one and two
instructions can be repeated. In `deep` the storage holds two contexts and five
may be pushed, so that the growth happens once. The memory runs use heap pages
of 5 and memory pages of 10 cells (the rounding argument needs at least 5 cells
per page, as in the code), memory sizes below, at and between multiples of
both, and up to two frames and two blocks. The loader run takes every module of
up to three functions, external or with one of six arrangements of narrow and
wide instructions, so that a wide instruction is first, last and between, and
functions of every length precede each other.

In `convert` a function has two parameters and a local of mixed types and uses
one of seven alphabets: nested blocks and branches with values (9 instructions),
ifs (10), branch tables (8), operators, conversions and select on both types
(7), memory, globals and calls of functions with and without a result (6), loops
that count and are left after some rounds (9), unreachable (9). With 3 values, `Fuel` allows 120 executed
instructions, more than a loop of such a function needs to end or to repeat
itself. `RET_REG_NUM` is 1, as in the default build; `OFFSET_M_MAX` 2 makes both
ways of computing an address occur. The two limits on registers (126 and 128)
keep their values and are not reached; see "Known deviations". In `alu` words
have 8 and longs 16 bits with groups of 5 bits per LEB128 byte, so that the last
byte of an i64 is partial as with 64 and 7; fields of 2 and 4 bits, constants,
offsets and registers at the ends of all ranges, and a third instruction that
uses what two constants or a constant and a move produced. In `encode` two
imports, two globals of two names and two values (or of the same name, which the
converter refuses), two functions with two labels between them and one instruction
each, and a shared object that defines a system call and one of the other
imports; signatures of 13 and 14
types are the two sides of the limit of a packed type, 17 needs a second
number, 0 none; names have different lengths, so that offsets and entries differ.

Runs whose system may rightly stop (a depth bound reached, a process ended, a
memory that cannot be used, a function converted, a program executed, a file
loaded) do not check for deadlock; `line` and `expand`, where it may not, do.

Fairness. `RunEnds` assumes weak fairness of `Step` alone: while the loop has
control nothing in the code makes it wait, so it executes the next instruction.
`LoadEnds` assumes it of the steps of `Expand_code`, which is one call that
nothing interrupts. No fairness is assumed of the host.

## What is proved

The theorems hold for every value of the constants that satisfies the named
assumptions. `PROJECT.json` lists them under `theorems` with the property each
one states; proofs are in modules of their own.

### MachineProofs

For every module that satisfies the assumptions, every number of functions,
registers and instructions, and both kinds of host: `MachineInvariant`
(`Spec => []IInv`), and from it `MachineType` (`TypeOK`), `FramePointersAgree`
(`FpSync`), `RegisterWindows` (`WindowsFit`), `WaitingLocalsSafe`
(`LocalsProtected`), `ControlFlow` (`PcInFunction`), `StackLaidOut`
(`StackRegions`) and `RunsLeaveNothing` (`NoLeak`).

All of them assume `MaxDepth < DEFAULT_STACK_SIZE`, calls nest less deep than
the context stack has storage: beyond it the run `deep` shows the saved
contexts are not safe. None of the safety properties is inductive alone: that a
return restores a consistent machine depends on every saved context. `IInv`
therefore adds `StackShape` (the bottom context is an entry context, the storage
has not grown), `FramesLinked` (a context has the frame pointers its
predecessor gave it: the same for an entry context, shifted by the locals for a
call) and `WindowsNested` (locals of a waiting function lie below all later
windows). `FramesLinked` is what makes the lazy restoring correct: when the
caller has no i64, f32 or f64 locals, the callee's frame pointers are the
caller's, so there is nothing to restore. `EnterInv` shows once that pushing a
context and entering a function keeps all this, and is used for `Init_env` and
for calls; `MoveInv` does the same for steps that only move pc. `NoLeak` needs
`OneRun`: without the console only the bottom context is an entry context, and
it records frame pointers 0.

`CallsImplemented`, at the end of the module: the machine implements `Calls`, under the same assumption.
The refinement mapping takes the activations from the newest entry context on,
so what has to be shown is which context that is before and after a step. A call
appends an activation whose bases are those of the caller shifted by its locals;
a return takes the last one away and must give back exactly the one below it,
which `FramesLinked` and `PcInFunction` of `IInv` say; a start on top of an
interrupted run hides the activations below, and the return to its entry context
ends the run instead of uncovering them. Every other step moves the position of
the last activation or is a stutter.

### MemoryProofs

`LayoutSound` (`LayoutFits`): for every page size of at least 5, every buffer of
whole pages and every data section the heap lies between the data and the end of
the memory, at most a fifth is left to the stack, and memory.grow keeps it so.
The argument is that rounding up yields the least multiple that is not smaller
(`RoundUpLeast`), and the end of the memory is a multiple as well
(`HeapFitsPages`).

`HeapInvariant` (`Spec => []HeapInv`), and from it `MemoryType` (`TypeOK`),
`PointersSound` (`PointersDecode`) and `HeldBlocksLive` (`HeldAreLiveAtZero`).
`HeapInv` adds what the pointer properties need of earlier steps: a saved stack
pointer is not above the end of the memory (`SavedBelowEnd`), what malloc returned
lies in the heap behind its header (`HeldInHeap`, which makes `h.ptr` positive and
so decoded as an offset from the start), and no two pointers held in a module
without global data are equal (`HeldApart`). Without the last one a free of one
pointer could take away the block of another: `HeldAreLiveAtZero` is not inductive
alone.

### LoaderProofs

For every set of well formed modules: `IteratorSound`, `LabelsSound`,
`NextInstructionSound`, `LoaderTypeCorrect` and `TablesLargeEnough` (`TablesFit`).
The inductive invariant adds `Filled` (every instruction the iterator has passed
in the current function has its slot recorded, which is what a label needs when
the function ends) and `LastSlot` (the iterator is right behind the last expanded
instruction, which is what makes neighbours). `AdvanceLemma` is the reason the
iterator can compare for inequality only: going on by the width of an
instruction leads to the next one or exactly to the end. For `TablesFit` the
invariant carries the running totals of the words of the functions (`Totals`, a
witness that grows by one entry with each function counted): the second pass
starts every function at the total the first one had there, and an instruction
needs at least as many words as slots.

### ImageProofs

`AddKeeps`: `U_STR_TAB::Add` keeps the invariant `TabInv` of a string table, also
when the buffer moves and the cache is rebuilt. `TabInv` says that every key of
the cache points into the present buffer and every entry is found; what the proof
has to exclude is that a rebuilt cache lacks an entry because an equal one came
first. `EncoderInvariant` and `StringsFound` (`TabsFind`) carry this through all
operations of the encoder, for any number of names, labels and types. The
assumption that names are not empty is `ImageAssumption`: the empty string in an
empty table is the one case in which `Add` leaves nothing to find.

`FunctionIndices` (`IndicesAgree`) holds for any number of imports and functions,
under two conditions: no two functions of the module have the same name
(`NamesDiffer`: `"dupname" \notin Unusual`, see the known deviations), and the names fit the 16
bits a function has for the offset of its name (`[]SmallNames`; a longer table would
wrap around in `Get_off(...) % UINT16`). `IndicesAgree` alone is not inductive: it
says nothing of the entries of the name table, and `Inner_request_func` decides by
them whether a function is added at all. The invariant `IdxInv` pairs the encoder with
the module: there are numbers `n` and `m` such that both have `n` functions of which
the first `m` are imports, the entries of the name table are the empty name and then
the names of the functions, in their order, and the code bodies are those of the
functions behind the imports. Before the functions are converted `m = n`, and while
one is `m < n`, so that it has the last body. A new name that is found in the table
after all can only be the empty one, for which no function is found and the converter
stops (`NewNameFails`).

### ConverterProofs and CodeProofs

For functions of any length over any set of well formed instructions
(`ConverterAssumption`), any number of registers, and with or without the unusual
forms (unreached code is left out, as in the runs):

* `ConverterInvariant` (`Spec => []ConvInv`) and `RegistersApart`
  (`RegistersDistinct`);
* `CodeInvariant` (`Spec => []CodeInv`) and `ConverterType` (`TypeOK`);
* `CodeIsClosedOrTraps`, under `NoTrapJoins` (`"trapjoin" \notin Unusual`): the code
  is closed, or the function has a result and ends in unreachable (`TrapAtEnd`), for
  which the converter emits no return;
* `CodeIsClosed` (`CodeClosed`), under `NoTrapJoins` and `NoTrapEnds` (`"trapend" \notin
  Unusual`). Without the second the property is false (see Known deviations); with
  unreachable in a block that is reached another way the converter returns at the
  end of the block, and what remains of the code behind it is not what the
  invariant describes.

`ConvInv` has four parts. `InputInv` and `GraphInv`: the statements have the
opcodes that were read, a parent lies before its statement and is a block, an else
and its if name each other, no block ends twice. `WorkInv`: the work stack of
`Build_block_hierarchy` holds the function and, above it, exactly the blocks
without an end, as many as the validator has control frames; so the end of the
function leaves no block open. `AllocInv` is about registers. The allocator
hands out the next register and takes registers back in the order of the stack,
but a block with a result keeps one below the values of the block, and at an else
or an end the values of the part that ends are taken from the stack. So the
invariant cannot speak of the stack alone: the temporaries on the stack are
different from each other, the registers `KeptAt` the present instruction, those
of blocks that have begun and not ended, are different from each other and from
these, and all lie between the locals and the next free register.
`RegistersDistinct` is this read off as two injective functions with disjoint
ranges.

`CodeInv` adds what the end of the conversion needs. A label is set when the
instruction it belongs to is converted (`EmitInv`: the ends of the blocks that
have ended, the begins of the loops and elses that have begun), jumps name labels
that exist, and every block has an end, so after the last instruction none is
unset. That no label stands behind the last instruction, and that this one is a
return, depends on how the function ends: the end of the function is the last
instruction read (`EndInv`), it emits a return unless the instruction before was
one or an unreachable outside all blocks, and unreachable is followed by the end of
its block (`DeadInv`), where its mark is taken from the stack again (`StackInv`). The
clauses of `CodeInv` about unreachable carry `NoTrapJoins` as their condition, and
those about how a function with a result ends `NoTrapEnds`: in an else the mark of
an unreachable stays on the stack, and nothing these clauses say is true there. An aborted conversion (`phase =
"abort"`, a failed assertion) promises nothing: that there is none is the theorem
of `AssertProofs`.

Recursion in these modules is by recursive functions (the flattening of code
sequences, the walk from a statement to the block a branch names). The induction
theorems of the library cannot be instantiated by the installed provers; the
lemmas about these functions argue with a least counterexample instead
(`LeastNat`), which is enough to show that the functions exist and that what they
return is in range.

### AssertProofs

`ConverterNeverAborts` (`NeverAborts`): on valid functions of any length, without
unreached code, no assertion of the converter fails. Two assumptions are stated in
the theorem.

* `PlainForms`: none of the forms `loopvalue`, `funcbr`, `deadvalue` and `trapjoin`
  occurs. On the last three an assertion of the converter does fail
  (`Get_parent_stmt_for_branch`, `Pop_wasm_stk` at the end of the block and
  `Pop_redundant_values` in an else), and loops with a result are not translated
  correctly anyway (see Known deviations); the other forms are included: branches
  out of an if, aliases, comparisons of i64 values, unreachable at the end of a
  function with a result.
* `EnoughRegisters`: for each type, the locals and one register per instruction of
  the longest function stay within `REG_FREE_MAX` and `REG_TEMP_MAX`. This is
  sufficient, not necessary; it stands for "the function does not run out of
  registers", which the code does assert (see the entry for converter.h:295). The
  constants of the run `convert` satisfy both.

`NeverAborts` is far from inductive. Whether a pop of the converter finds a
register of the type it asserts depends on what the validator let pass, and the
two never run side by side: the function is read, and validated, in full before
the conversion starts. `AbortInv` bridges this with a witness `H`, the state of the
validator and the open blocks in front of every instruction that was read
(`Trace`). While the function is read, `H` ends in the present `valid` and `work`
(`Reads`). While it is converted, the stack of the converter, without a mark of
unreachable code, fits the state `H` has for the instruction to be converted
(`Follows`); behind unreachable that mark is there (`MarkInv`), so that the end of the
block takes nothing else for its result. `Fit` has two parts:

* `Lifo`: registers are handed out and given back like a stack. Every allocated
  register belongs to a temporary or to an open block with a result (`NoGap`),
  temporaries and blocks are in the order of their registers (`Ascend`, `Around`,
  `FramesAscend`), and open blocks were begun at rising heights that are still
  there (`Nested`, `OwnElems`). This is what makes `Free_register` find the last
  register that was handed out.
* `Fitted`: within each open block the topmost types on the converter's stack are
  those the validator has there. The stacks need not have the same height: behind
  a branch or in the first part of an if the converter may hold more.

`Twins` adds that an else was entered with the height of its if. Behind `br`,
`return` and `unreachable` the validator of the model admits only the end of the
block or its else, so dead code needs no polymorphic stack; there the end of the
block brings the stack to the height it had before.

The lemmas are in this order: what each operation of the allocator does to `Lifo`
(`LifoFront`, `LifoMore`, `ReserveLifo`, ...), what each move on two sequences of
types does to `Fitted`, what the validator does to its stack (`PlainValid`,
`OpenValid`, `ElseValid`, `EndValid`), that `H` can be continued by what is read next (`TraceRead`), one
lemma per kind of instruction that the conversion keeps `Fit` (those named
`...Turn`), the actions (`OpenAbort`, `BranchAbort`, `SimpleAbort`, `ValueAbort`,
`EndAbort`) and `StepAbort`. It uses the invariants of `ConverterProofs` and
`CodeProofs`.

### WindowProofs

`RegistersStayInWindow` (`RegistersInWindow`): when a function of any length has been
converted, every register its instructions name is inside the window the machine
gives to the function, `local_tab` plus `io_tab` of the file the instruction takes the
register from. It assumes `PlainForms` and `EnoughRegisters` as in `AssertProofs` and
`Compares32`, no comparisons of i64 values (`"cmp64"`): the instructions of these
leave their result in the i64 file, under a number that was counted in the i32 file,
so that without the assumption the property is false (see Known deviations). The
constants of the run `convert` satisfy all three.

The window is known only at the end, when the registers for calls are added and the
moves of the arguments are rewritten to lie behind the registers of the function.
`WindowInv` says for every moment before that what was counted so far:

* `CodeFenced`: every register an emitted instruction names is at most one above the
  count of its file. The files are those of the instruction, not those of the
  stack; that they agree is where the correspondence with the validator is used
  (`Fitted`), operand by operand (`Expects`).
* `RegsFenced`: the same for the registers of the results of blocks, to which
  branches that are not yet converted will move.
* `Low`: elements of the stack that are no temporaries name a local or nothing.
* `CallsOK`: each position that was noted for a call stands between moves of the
  arguments, of the types of the callee, and a move of the result, if the callee
  has one, and `io` has
  room for the arguments. This is what the rewriting at the end needs: it counts
  back from the noted position and takes whatever instruction it finds there.

That the counts only grow (`Grows`) lets what is fenced stay fenced. There is one
lemma per operation of the allocator, one per action (those named `...Window`), and
`StepWindow`, which also uses `ConvInv`, `CodeInv` and `AbortInv`; `FixWindow` is the
rewriting.

### Only model-checked

* `RunEnds`, `LoadEnds`: liveness is out of the prover's reach.
* `SameBehaviour` of `Converter`: it compares two interpreters over `Fuel` steps,
  which is an induction over the run.
* `TypeOK`, `LoadedAgrees` and `CallsResolve` of `Image`: the last
  two compare what was declared with what is read back through encodings of
  fields with limits, sums over sequences of any length among them; `TypeOK` asks for
  bytes also where the length of a type string would not fit two of them.
* `Alu`, `Leb128` and `Numerics`: bit operations, which the prover has no theory
  of.
* The properties of the runs that expect a violation.

## Known deviations

Forms of input on which the code does not do what its reference says, each found
by a run of TLC. "How" gives the constant that makes the property fail.

| Where | What | How |
|---|---|---|
| converter.cxx:727 | a branch out of the first part of an if executes the else | run `elsebr` |
| converter.cxx:1661 | the value of a loop with a result is not moved to its register | `Converter`, `Unusual = {"loopvalue"}`, `Alphabets <- LoopAlphabets`: `SameBehaviour` |
| converter.cxx:1170 | setting a local changes its value already on the stack | `Unusual = {"alias"}`: `SameBehaviour` |
| converter.cxx:108 | a branch to the label of the function itself asserts ("Cannot jump out of function"), valid and tested in func.wast:150-151, 324-325 | `Converter`, `Unusual = {"funcbr"}`, `Alphabets <- BranchAlphabets`: `NeverAborts` |
| converter.cxx:1722-1724 | a function with a result that ends in unreachable gets no RETURN: its code runs on into the next function (unreachable.wast:8-11, 221) | `Unusual = {"trapend"}`, `Alphabets <- EndAlphabets`: `CodeClosed` |
| converter.cxx:1655-1660 | unreachable in a part of an if, or in a block that a branch leaves: the path that skipped it returns at the end of the block, and behind an else an assertion fails (unreachable.wast:105-112, 260-262) | `Unusual = {"trapjoin"}`, `Alphabets <- JoinAlphabets`: `SameBehaviour`, and `NeverAborts` |
| converter.cxx:416 | a block with a result that is left by a branch or a return without that value: its end pops from an empty stack, or a value of another type | `Unusual = {"deadvalue"}`, `Alphabets <- LeftAlphabets`: `NeverAborts` |
| exec_unit_func.h:857 | i64 comparisons leave their result in the i64 file | `Converter`, `Unusual = {"cmp64"}`, `Alphabets <- CompareAlphabets`: `RegistersInWindow`; `Alu`, `Unusual = {"cmp64"}`: `Agrees` |
| converter.h:295 | registers from 126 on are not given back: a function that needs them soon asserts | `REG_FREE_MAX = 4`, `REG_TEMP_MAX = 6`: `NeverAborts` |
| u_inst.h, exec_unit_func.h | offsets in the upper half of a field are negative | run `offset` |
| exec_unit_func.h | base 0 is an address, accesses outside the memory, unsigned division, the remainder of the smallest number and -1, shifts of i64, rotations, registers at the end of a field | `Alu`, `Unusual` one of `zerobase`, `bounds`, `divu`, `minrem`, `shift64`, `rot`, `highreg`: `Agrees` |
| u_encoder.cxx:179 | two functions of the same name | `Image`, `Unusual = {"dupname"}` |
| wasm-cvt.cc:254 | imported globals have no cell | `{"importglobal"}` |
| u_encoder.cxx:136 | 64 bit initial values lose their upper half | `{"wideglobal"}`, `Inits = {5, 9}` with `Word = 8` |
| ubh.h:156 | four and more results | `{"manyrets"}`, `Decls <- MoreDecls` |
| u_module.cxx:673 | an imported function called main is the start function | `{"importmain"}`, `Decls <- MoreDecls` |
| u_runtime.cxx:680 | native functions with parameters of another type than the result, or with parameters and no result: `Ffi_call` takes them from other registers than the converter put them in | `Decls <- MoreDecls` and `NativeArgs` as an invariant |
| u_runtime.cxx:544 | more functions than the section that gives the size of the table has elements | `{"manyimports"}`, `DataHeader = 1`, `DataSizes = {0}` |
| ubh.cxx:280 | data sections of 64 KiB and more | `{"bigdata"}`, `DataSizes = {65536}` |
| u_sld.cxx:91 | linking twice | `{"relink"}`, `MaxLinks = 2`, `Objects <- MoreObjects` |
| exec_system.cxx:126 | imports of a module loaded with `UVM_load` | `{"buffer"}` |
| main.cxx:223 | opening a second file | `{"reload"}`, `MaxModules = 2` |
| exec_unit.cxx:508 | after memory.grow the range check lets pointers pass that lead outside the buffer, or into one that realloc has released | `Memory`, `MemSizes = {30}`, `GrowPages = {1}`: `RegionsKept` |
| exec_unit.cxx:67 | the heap may start below data segments | `DataSections <- SegmentData`: `RegionsKept` |
| exec_unit.h:211 | frames reach into the heap | `StackSizes = {2}`, `MaxFrames = 5`: `RegionsKept` |
| exec_unit.cxx:160 | "set fp to zero" is said and not done: an interrupted run's frame pointers stay | the reason why `debug` has no `NoLeak` |

## Not modelled, and why

* Third party code: wabt's reader, dlmalloc, libffi, ELFIO and gtest are about
  five sixths of the lines of the repository. None of it is the program's own
  logic, and each is used through a few calls, whose effect the models state.
* Code that cannot be reached, behind a branch, a return or unreachable: the
  converter is checked up to the end, or the else, of the block that follows.
* Floating point: its handlers are the operators of C++ on the host.
* System calls for output, input, clocks and threads: pure I/O. The threads run
  native functions only.
* Debugger frames and backtraces only print; the selection of a frame is off by
  one (exec_debug.cxx:24), and no document says what a frame id is. No option
  of the console sets a breakpoint. The counter of argument registers of the
  console (main.cxx:235) is never reset.
* The two bounds on data segments at u_module.cxx:453 and 465 differ at
  equality; `Memory` takes the stricter one, behind which the other is never
  reached. `UVM_get_export_funcs` (exec_system.cxx:142) reads a section that
  the converter never writes.
* The relocation section and the offset conversions of relocated modules: they
  belong to a front end that is not in the repository. The branch of
  `Init_cache` that calls `dlsym` is dead: the only name it takes is a system
  call.
* The stack-check option, `DIRECT_ACC_MEM` and `ENABLE_WASM_RUNTIME`
  (`RET_REG_NUM` 2): off in the default build.
* Tracing, performance counters, printing.

## The plan

What is left to prove: `LoadedAgrees` of `Image`, which needs the offsets of the
sections (sums of sizes) to be different from each other, after `FunctionIndices` the
step that is missing between the converter and the loaded module.
