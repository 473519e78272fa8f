------------------------------- MODULE Memory -------------------------------
(***************************************************************************)
(* The linear memory of a UWASM_MACHINE: the layout Init_memory gives it   *)
(* (global data, heap, stack), the stack frames, the heap that the malloc  *)
(* and free of the runtime hand out, memory.grow, and the two pointer      *)
(* forms of the default build: offsets from the start of the memory are    *)
(* positive, offsets from its end, for the stack, are negative.            *)
(*                                                                         *)
(* The contents of the memory are abstracted away; an address is an offset *)
(* into the buffer that _mem_p points to.  A failing assertion ends the    *)
(* process ("aborted").                                                    *)
(***************************************************************************)
EXTENDS Integers, FiniteSets, Sequences

CONSTANTS
  PAGE_SIZE,      \* 4096: granularity of the heap
  MEM_PAGE_SIZE,  \* 65536: granularity of memory.grow
  HeapHeader,     \* bytes an mspace keeps for itself
  MemSizes,       \* sizes of the buffer the host may pass
  DataSections,   \* data sections a module may have
  StackSizes,     \* bytes of stack memory functions take
  BlockSizes,     \* sizes asked of malloc
  GrowPages,      \* page counts asked of memory.grow
  MaxFrames,      \* bound: nested calls
  MaxBlocks,      \* bound: blocks the program holds
  MaxPages        \* bound: pages the memory may grow to

\* size: bytes of the section; end: end of the last byte it initialises, which
\* for the segments of a wasm module (seg) is not a function of the size;
\* reloc: the module has relocations.
Data == [size : Nat, end : Nat, seg : BOOLEAN, reloc : BOOLEAN]

ASSUME PageAssumption ==
  /\ PAGE_SIZE \in Nat /\ PAGE_SIZE >= 5
  /\ MEM_PAGE_SIZE \in Nat \ {0}
  /\ HeapHeader \in Nat \ {0}
  /\ MaxFrames \in Nat
  /\ MaxBlocks \in Nat
  /\ MaxPages \in Nat

ASSUME InputAssumption ==
  /\ MemSizes \subseteq Nat
  /\ DataSections \subseteq Data
  /\ \A d \in DataSections : ~d.seg => d.end = d.size
  /\ StackSizes \subseteq Nat
  /\ BlockSizes \subseteq Nat \ {0}
  /\ GrowPages \subseteq Nat

VARIABLES
  status,   \* "fresh", "ready", "bare", "failed" or "aborted"
  data,     \* the data section of the loaded module
  memSize,  \* _mem_size
  staP,     \* _sta_p, as an offset from _mem_p
  heaOff,   \* _hea_off
  heaSize,  \* _hea_size
  bufSize,  \* size of the buffer that now holds the memory
  moved,    \* that buffer is not the one _mem_p points to
  sp,       \* _current._sp, as an offset from _mem_p
  saved,    \* stack pointers of the suspended functions
  blocks,   \* blocks in use in the mspace, offsets from _hea_p
  held,     \* pointers malloc returned and the program has not freed
  ret       \* the register the last call or instruction returned in

layout == <<data, memSize, staP, heaOff, heaSize, bufSize, moved>>

vars == <<status, layout, sp, saved, blocks, held, ret>>

NoData == [size |-> 0, end |-> 0, seg |-> FALSE, reloc |-> FALSE]

Block == [at : Nat, size : Nat \ {0}]

Pointer == [ptr : Nat, size : Nat \ {0}]

Init ==
  /\ status = "fresh"
  /\ data = NoData
  /\ memSize = 0
  /\ staP = 0
  /\ heaOff = 0
  /\ heaSize = 0
  /\ bufSize = 0
  /\ moved = FALSE
  /\ sp = 0
  /\ saved = << >>
  /\ blocks = {}
  /\ held = {}
  /\ ret = 0

(***************************************************************************)
(* UWASM_MACHINE::Init_memory                                              *)
(***************************************************************************)
\* Mutant: a size is rounded up even when it is a multiple already.
RoundUpAlways(n) == (n \div PAGE_SIZE + 1) * PAGE_SIZE

RoundUp(n) ==
  IF n % PAGE_SIZE = 0 THEN n ELSE (n \div PAGE_SIZE + 1) * PAGE_SIZE

\* HEAP_MEM_PERCENT of what the data leaves, in whole pages.
HeapSize(size, off) == RoundUp(((size - off) * 4) \div 5)

\* Fix_up_reloc and Init_mem_with_data_segs stop the process.
DataTooBig(size, d) ==
  d.size > 0 /\ IF d.seg THEN d.end >= size ELSE d.size > size

\* Fix_up_reloc reports ERR_NOT_ENOUGH_MEM_BUF.
NoRoomToRelocate(size, d) == d.size > 0 /\ d.reloc /\ d.size >= size

HeapFits(size, d) ==
  /\ RoundUp(d.size) <= size
  /\ HeapSize(size, RoundUp(d.size)) > HeapHeader

InitStatus(size, d) ==
  IF DataTooBig(size, d) THEN "aborted"
  ELSE IF NoRoomToRelocate(size, d) THEN "failed"
  ELSE IF size = 0 THEN "bare"
  ELSE IF HeapFits(size, d) THEN "ready" ELSE "aborted"

Init_memory(size, d) ==
  /\ status = "fresh"
  /\ status' = InitStatus(size, d)
  /\ data' = d
  /\ memSize' = size
  /\ bufSize' = size
  /\ IF status' = "ready"
       THEN /\ staP' = size
            /\ heaOff' = RoundUp(d.size)
            /\ heaSize' = HeapSize(size, heaOff')
            /\ sp' = size
       ELSE UNCHANGED <<staP, heaOff, heaSize, sp>>
  /\ UNCHANGED <<moved, saved, blocks, held, ret>>

(***************************************************************************)
(* Pointers.                                                               *)
(***************************************************************************)
\* Mutant: the address of a stack variable is taken from the memory's start.
Get_ofst_addr_from_start(ofst) == sp + ofst

\* The pointer to the cell ofst bytes above the stack pointer.
Get_ofst_addr(ofst) == sp + ofst - staP

\* The offset from _mem_p that an access through pointer p goes to.
Get_base_addr(p) == IF p > 0 THEN p ELSE staP + p

\* The range check of Get_base_addr.
Passes(p) == (IF p < 0 THEN -p ELSE p) < memSize

(***************************************************************************)
(* Stack frames: Allocate_stack in a call, Func_epilogue in a return.      *)
(***************************************************************************)
\* Mutant: the stack grows upwards.
Allocate_stack_up(n) ==
  /\ status = "ready"
  /\ Len(saved) < MaxFrames
  /\ saved' = Append(saved, sp)
  /\ sp' = sp + n
  /\ UNCHANGED <<status, layout, blocks, held, ret>>

Allocate_stack(n) ==
  /\ status = "ready"
  /\ Len(saved) < MaxFrames
  /\ saved' = Append(saved, sp)
  /\ sp' = sp - n
  /\ UNCHANGED <<status, layout, blocks, held, ret>>

Func_epilogue ==
  /\ status = "ready"
  /\ saved # << >>
  /\ sp' = saved[Len(saved)]
  /\ saved' = SubSeq(saved, 1, Len(saved) - 1)
  /\ UNCHANGED <<status, layout, blocks, held, ret>>

(***************************************************************************)
(* The heap: dlmalloc's mspace puts a block wherever there is room.        *)
(***************************************************************************)
Apart(at1, size1, at2, size2) == at1 + size1 <= at2 \/ at2 + size2 <= at1

Mspace_places(n) ==
  {at \in HeapHeader .. heaSize - n :
     \A b \in blocks : Apart(at, n, b.at, b.size)}

\* Mutant: the mspace is asked for a byte less.
U_malloc_short(n) ==
  /\ status = "ready"
  /\ \E at \in Mspace_places(n - 1) :
       /\ blocks' = blocks \cup {[at |-> at, size |-> n - 1]}
       /\ ret' = heaOff + at
  /\ held' = held \cup {[ptr |-> ret', size |-> n]}
  /\ UNCHANGED <<status, layout, sp, saved>>

U_malloc(n) ==
  /\ status = "ready"
  /\ \E at \in Mspace_places(n) :
       /\ blocks' = blocks \cup {[at |-> at, size |-> n]}
       /\ ret' = heaOff + at
  /\ held' = held \cup {[ptr |-> ret', size |-> n]}
  /\ UNCHANGED <<status, layout, sp, saved>>

\* The heap is used up: dlmalloc asks for more memory and UVM_mmap asserts.
U_malloc_full(n) ==
  /\ status = "ready"
  /\ Mspace_places(n) = {}
  /\ status' = "aborted"
  /\ UNCHANGED <<layout, sp, saved, blocks, held, ret>>

\* The block UVM_heap_free gives back, in offsets from the heap pointer.
U_free(h) ==
  /\ status = "ready"
  /\ LET freed == {b \in blocks : b.at = heaOff + h.ptr}
     IN  /\ blocks' = blocks \ freed
         /\ status' = IF freed = {} THEN "aborted" ELSE "ready"
  /\ held' = held \ {h}
  /\ UNCHANGED <<layout, sp, saved, ret>>

(***************************************************************************)
(* memory.grow.  realloc may fail, extend the buffer, or move it; the      *)
(* pointer it returns is not stored.                                       *)
(***************************************************************************)
GrownSize(n) == (memSize \div MEM_PAGE_SIZE + n) * MEM_PAGE_SIZE

\* Grow_memory sees a size that is no multiple, or a buffer long gone.
Grow_aborts ==
  /\ status = "ready"
  /\ memSize % MEM_PAGE_SIZE # 0 \/ moved
  /\ status' = "aborted"
  /\ UNCHANGED <<layout, sp, saved, blocks, held, ret>>

Grow_fails ==
  /\ status = "ready"
  /\ memSize % MEM_PAGE_SIZE = 0
  /\ ~moved
  /\ ret' = -1
  /\ UNCHANGED <<status, layout, sp, saved, blocks, held>>

Grow_memory(n) ==
  /\ status = "ready"
  /\ memSize % MEM_PAGE_SIZE = 0
  /\ ~moved
  /\ GrownSize(n) <= MaxPages * MEM_PAGE_SIZE
  /\ memSize' = GrownSize(n)
  /\ bufSize' = GrownSize(n)
  /\ moved' \in BOOLEAN
  /\ ret' = GrownSize(n)
  /\ UNCHANGED <<status, data, staP, heaOff, heaSize, sp, saved, blocks, held>>

Next ==
  \/ \E size \in MemSizes, d \in DataSections : Init_memory(size, d)
  \/ \E n \in StackSizes : Allocate_stack(n)
  \/ Func_epilogue
  \/ \E n \in BlockSizes :
       Cardinality(held) < MaxBlocks /\ (U_malloc(n) \/ U_malloc_full(n))
  \/ \E h \in held : U_free(h)
  \/ Grow_aborts
  \/ Grow_fails
  \/ \E n \in GrowPages : Grow_memory(n)

Spec == Init /\ [][Next]_vars

-----------------------------------------------------------------------------
(***************************************************************************)
(* Properties.                                                             *)
(***************************************************************************)

\* The values the variables range over; frames go down from the end of memory.
TypeOK ==
  /\ status \in {"fresh", "ready", "bare", "failed", "aborted"}
  /\ data \in Data
  /\ {memSize, staP, heaOff, heaSize, bufSize} \subseteq Nat
  /\ moved \in BOOLEAN
  /\ sp \in Int /\ sp <= staP
  /\ saved \in Seq(Int) /\ Len(saved) <= MaxFrames
  /\ \A b \in blocks : b \in Block
  /\ \A h \in held : h \in Pointer
  /\ ret \in Int

\* In a buffer of whole pages Init_memory puts the heap between the global data
\* and the end of the memory, and what is left for the stack is at most a fifth.
LayoutFits ==
  status = "ready" /\ staP % PAGE_SIZE = 0 =>
    /\ data.size <= heaOff
    /\ heaOff + heaSize <= staP
    /\ 5 * (staP - heaOff - heaSize) <= staP - heaOff
    /\ staP <= memSize

\* The two forms of pointers never get confused: the pointer to a cell of the
\* running function's frame, and every pointer malloc returned, leads back to
\* the cell it was made for, also after the memory has grown.
PointersDecode ==
  status = "ready" =>
    /\ \A a \in sp .. staP - 1 : Get_base_addr(Get_ofst_addr(a - sp)) = a
    /\ \A h \in held : /\ Get_base_addr(h.ptr) >= heaOff + HeapHeader
                       /\ Get_base_addr(h.ptr) + h.size <= heaOff + heaSize

\* "returned offset is based on heap pointer, need to add heap offset"
\* (u_runtime.cxx, U_malloc): the pointers a program holds designate blocks of
\* the mspace that are in use, whatever else was freed in between.
HeldAreLive ==
  status = "ready" =>
    \A h \in held : \E b \in blocks : h.ptr = heaOff + b.at /\ h.size <= b.size

\* The same for modules without global data, whose heap starts at offset 0.
HeldAreLiveAtZero == heaOff = 0 => HeldAreLive

\* "(assert_return (invoke "grow" (i32.const 2)) (i32.const 1))"
\* (memory_grow.wast): memory.grow returns the size in pages before it, or -1.
GrowReturnsOldPages ==
  [][\A n \in GrowPages :
       Grow_memory(n) => ret' = memSize \div MEM_PAGE_SIZE]_vars

\* A pointer other than null that passes the check of Get_base_addr leads into
\* the buffer of the machine.
AccessInMemory ==
  \A p \in (1 - memSize .. memSize - 1) \ {0} :
    Passes(p) => ~moved /\ Get_base_addr(p) \in 0 .. bufSize - 1

\* "memory are liner, contains 3 separations: global data, heap, stack ...
\* { global data | heap -> (free space) <- stack }" (exec_unit.h): whatever the
\* program called, returned from, allocated, freed and grew, the three stay apart,
\* a pointer it holds designates a block in use, and one that passes the check
\* leads into the memory.
RegionsKept ==
  status = "ready" =>
    /\ HeldAreLive
    /\ data.end <= heaOff
    /\ sp >= heaOff + heaSize
    /\ AccessInMemory
=============================================================================
