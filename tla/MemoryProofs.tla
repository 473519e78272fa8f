---------------------------- MODULE MemoryProofs ----------------------------
(***************************************************************************)
(* The layout Init_memory computes is sound for every page size, every     *)
(* page-aligned buffer and every data section that fits into it; pointers  *)
(* into frames and into the heap lead where they should, however frames    *)
(* and blocks come and go.                                                 *)
(***************************************************************************)
EXTENDS Memory, SequenceTheorems, TLAPS

\* Division by a positive number: quotient and remainder.
LEMMA DivMod ==
  ASSUME NEW n \in Nat, NEW p \in Nat \ {0}
  PROVE  /\ n \div p \in Nat /\ n % p \in 0 .. p - 1
         /\ n = (n \div p) * p + (n % p)
<1> DEFINE q == n \div p
           r == n % p
<1>1. r \in 0 .. p - 1 /\ q \in Nat
  OBVIOUS
<1>2. n \in Int /\ p \in Int /\ p > 0
  OBVIOUS
<1>3. n = q * p + r
  BY <1>2, Z3T(30)
<1> HIDE DEF q, r
<1>4. q \in Nat /\ r \in 0 .. p - 1 /\ n = q * p + r
  BY <1>1, <1>3
<1> QED
  BY <1>4 DEF q, r

\* Multiples of p are a page or more apart.
LEMMA Multiples ==
  ASSUME NEW p \in Nat \ {0}, NEW a \in Int, NEW b \in Int, a * p < b * p
  PROVE  a * p + p <= b * p
<1>1. a < b
  <2>1. ASSUME b <= a PROVE b * p <= a * p
    BY <2>1
  <2> QED
    BY <2>1
<1>2. a + 1 <= b
  BY <1>1
<1>3. (a + 1) * p <= b * p
  BY <1>2
<1> QED
  BY <1>3

\* RoundUp returns the least multiple of the page size that is not below n.
LEMMA RoundUpLeast ==
  ASSUME NEW n \in Nat
  PROVE  /\ RoundUp(n) \in Nat /\ n <= RoundUp(n)
         /\ \E q \in Nat : RoundUp(n) = q * PAGE_SIZE
         /\ \A m \in Nat : n <= m * PAGE_SIZE => RoundUp(n) <= m * PAGE_SIZE
<1> DEFINE q == n \div PAGE_SIZE
           r == n % PAGE_SIZE
<1>1. PAGE_SIZE \in Nat \ {0}
  BY PageAssumption
<1>2. q \in Nat /\ r \in 0 .. PAGE_SIZE - 1 /\ n = q * PAGE_SIZE + r
  BY <1>1, DivMod
<1>3. RoundUp(n) = IF r = 0 THEN n ELSE (q + 1) * PAGE_SIZE
  BY DEF RoundUp
<1> HIDE DEF q, r
<1>4. CASE r = 0
  BY <1>1, <1>2, <1>3, <1>4
<1>5. CASE r # 0
  <2>1. RoundUp(n) = q * PAGE_SIZE + PAGE_SIZE /\ q * PAGE_SIZE \in Nat
    BY <1>1, <1>2, <1>3, <1>5
  <2>2. q * PAGE_SIZE < n
    BY <1>1, <1>2, <1>5, <2>1
  <2>3. ASSUME NEW m \in Nat, n <= m * PAGE_SIZE
        PROVE  RoundUp(n) <= m * PAGE_SIZE
    <3>1. m * PAGE_SIZE \in Nat
      BY <1>1
    <3>2. q * PAGE_SIZE < m * PAGE_SIZE
      BY <1>2, <2>1, <2>2, <2>3, <3>1
    <3> QED
      BY <1>1, <1>2, <2>1, <3>2, Multiples
  <2>4. RoundUp(n) = (q + 1) * PAGE_SIZE /\ q + 1 \in Nat
    BY <1>2, <1>3, <1>5
  <2>5. RoundUp(n) \in Nat /\ n <= RoundUp(n)
    BY <1>1, <1>2, <2>1
  <2> QED
    BY <2>3, <2>4, <2>5
<1> QED
  BY <1>2, <1>4, <1>5

\* A heap of four fifths of q pages, rounded up to pages, fits into them and
\* leaves the stack no more than a fifth.
LEMMA HeapFitsPages ==
  ASSUME NEW q \in Nat
  PROVE  LET rest == q * PAGE_SIZE
             heap == RoundUp((rest * 4) \div 5)
         IN  heap \in Nat /\ heap <= rest /\ 5 * (rest - heap) <= rest
<1> DEFINE rest == q * PAGE_SIZE
           x == (rest * 4) \div 5
           heap == RoundUp(x)
<1>1. PAGE_SIZE \in Nat /\ PAGE_SIZE >= 5 /\ rest \in Nat
  BY PageAssumption
<1> HIDE DEF rest
<1>2. x \in Nat /\ x <= rest /\ rest * 4 <= 5 * x + 4
  BY <1>1
<1> HIDE DEF x
<1>3. /\ heap \in Nat /\ x <= heap /\ heap <= rest
      /\ \E h \in Nat : heap = h * PAGE_SIZE
  BY <1>2, RoundUpLeast DEF rest
<1>4. PICK h \in Nat : heap = h * PAGE_SIZE
  BY <1>3
<1> HIDE DEF heap
<1>5. 5 * (rest - heap) <= rest + 4
  BY <1>1, <1>2, <1>3
<1>6. 4 * rest <= 5 * heap
  <2>1. 4 * rest <= 5 * heap + 4
    BY <1>1, <1>3, <1>5
  <2>2. 4 * rest = (4 * q) * PAGE_SIZE /\ 5 * heap = (5 * h) * PAGE_SIZE
    BY <1>1, <1>4 DEF rest
  <2>3. ASSUME 5 * heap < 4 * rest PROVE FALSE
    <3>1. (5 * h) * PAGE_SIZE + PAGE_SIZE <= (4 * q) * PAGE_SIZE
      BY <1>1, <2>2, <2>3, Multiples
    <3> QED
      BY <1>1, <1>3, <2>1, <2>2, <3>1
  <2> QED
    BY <1>1, <1>3, <2>3
<1>7. heap \in Nat /\ heap <= rest /\ 5 * (rest - heap) <= rest
  BY <1>1, <1>3, <1>6
<1> QED
  BY <1>7 DEF rest, heap, x

\* memory.grow never makes the memory smaller.
LEMMA GrownIsNotLess ==
  ASSUME NEW n \in Nat, memSize \in Nat, memSize % MEM_PAGE_SIZE = 0
  PROVE  GrownSize(n) \in Nat /\ memSize <= GrownSize(n)
<1> DEFINE q == memSize \div MEM_PAGE_SIZE
<1>1. MEM_PAGE_SIZE \in Nat \ {0}
  BY PageAssumption
<1>2. q \in Nat /\ memSize = q * MEM_PAGE_SIZE + (memSize % MEM_PAGE_SIZE)
  BY <1>1, DivMod
<1>3. GrownSize(n) = (q + n) * MEM_PAGE_SIZE
  BY DEF GrownSize
<1> HIDE DEF q
<1>4. (q + n) * MEM_PAGE_SIZE = q * MEM_PAGE_SIZE + n * MEM_PAGE_SIZE
      /\ n * MEM_PAGE_SIZE \in Nat /\ q * MEM_PAGE_SIZE \in Nat
  BY <1>1, <1>2
<1>5. memSize = q * MEM_PAGE_SIZE
  BY <1>2, <1>4
<1> QED
  BY <1>3, <1>4, <1>5

\* The part of the state that LayoutFits is about.
LayoutInv ==
  /\ memSize \in Nat
  /\ staP \in Nat
  /\ LayoutFits

\* Init_memory sets up a sound layout.
LEMMA Init_memoryLayout ==
  ASSUME LayoutInv,
         NEW size \in MemSizes, NEW d \in DataSections, Init_memory(size, d)
  PROVE  LayoutInv'
<1>1. size \in Nat /\ d.size \in Nat
  BY InputAssumption DEF Data
<1>2. memSize' = size /\ data' = d /\ staP' \in Nat
  BY <1>1 DEF Init_memory, LayoutInv
<1>3. CASE status' = "ready" /\ size % PAGE_SIZE = 0
  <2> DEFINE off == RoundUp(d.size)
  <2>1. /\ staP' = size /\ heaOff' = off /\ heaSize' = HeapSize(size, off)
        /\ HeapFits(size, d)
    BY <1>3 DEF Init_memory, InitStatus
  <2>2. off \in Nat /\ d.size <= off /\ off <= size
    BY <1>1, <2>1, RoundUpLeast DEF HeapFits
  <2>3. PICK a \in Nat : off = a * PAGE_SIZE
    BY <1>1, RoundUpLeast
  <2> HIDE DEF off
  <2>4. PAGE_SIZE \in Nat \ {0}
    BY PageAssumption
  <2>5. PICK b \in Nat : size = b * PAGE_SIZE
    <3>1. size \div PAGE_SIZE \in Nat /\ size = (size \div PAGE_SIZE) * PAGE_SIZE + 0
      BY <1>1, <1>3, <2>4, DivMod
    <3>2. (size \div PAGE_SIZE) * PAGE_SIZE \in Nat
      BY <2>4, <3>1
    <3> QED
      BY <3>1, <3>2
  <2>6. b - a \in Nat /\ (b - a) * PAGE_SIZE = size - off
    <3>1. a <= b
      <4>1. ASSUME b < a PROVE FALSE
        <5>1. b * PAGE_SIZE + PAGE_SIZE <= a * PAGE_SIZE
          <6>1. b + 1 <= a
            BY <4>1
          <6>2. (b + 1) * PAGE_SIZE <= a * PAGE_SIZE
            BY <2>4, <6>1
          <6> QED
            BY <2>4, <6>2
        <5> QED
          BY <1>1, <2>2, <2>3, <2>4, <2>5, <5>1
      <4> QED
        BY <4>1
    <3> QED
      BY <2>3, <2>4, <2>5, <3>1
  <2>7. /\ heaSize' \in Nat /\ heaSize' <= size - off
        /\ 5 * (size - off - heaSize') <= size - off
    BY <2>1, <2>6, HeapFitsPages DEF HeapSize
  <2>8. /\ data'.size <= heaOff' /\ heaOff' + heaSize' <= staP'
        /\ 5 * (staP' - heaOff' - heaSize') <= staP' - heaOff'
        /\ staP' <= memSize' /\ memSize' \in Nat
    BY <1>1, <1>2, <2>1, <2>2, <2>7
  <2> QED
    BY <1>2, <2>8 DEF LayoutInv, LayoutFits
<1>4. CASE ~(status' = "ready" /\ size % PAGE_SIZE = 0)
  <2>1. status' = "ready" => staP' = size
    BY DEF Init_memory
  <2> QED
    BY <1>1, <1>2, <1>4, <2>1 DEF LayoutInv, LayoutFits
<1> QED
  BY <1>3, <1>4

\* Nothing after Init_memory disturbs the layout.
LEMMA LayoutKept ==
  ASSUME LayoutInv, [Next]_vars
  PROVE  LayoutInv'
<1>1. ASSUME UNCHANGED layout, status' = "ready" => status = "ready"
      PROVE  LayoutInv'
  BY <1>1 DEF LayoutInv, LayoutFits, layout
<1>2. CASE \E size \in MemSizes, d \in DataSections : Init_memory(size, d)
  BY <1>2, Init_memoryLayout
<1>3. CASE \/ \E n \in StackSizes : Allocate_stack(n)
           \/ Func_epilogue
           \/ \E n \in BlockSizes : U_malloc(n) \/ U_malloc_full(n)
           \/ \E h \in held : U_free(h)
           \/ Grow_aborts
           \/ Grow_fails
           \/ UNCHANGED vars
  BY <1>1, <1>3 DEF Allocate_stack, Func_epilogue, U_malloc, U_malloc_full,
                    U_free, Grow_aborts, Grow_fails, vars
<1>4. ASSUME NEW n \in GrowPages, Grow_memory(n)
      PROVE  LayoutInv'
  <2>1. /\ memSize' = GrownSize(n) /\ memSize % MEM_PAGE_SIZE = 0
        /\ UNCHANGED <<status, data, staP, heaOff, heaSize>>
    BY <1>4 DEF Grow_memory
  <2>2. memSize \in Nat /\ n \in Nat /\ staP \in Nat
    BY InputAssumption DEF LayoutInv
  <2>3. memSize' \in Nat /\ memSize <= memSize'
    BY <2>1, <2>2, GrownIsNotLess
  <2>4. ASSUME status = "ready", staP % PAGE_SIZE = 0
        PROVE  /\ data.size <= heaOff /\ heaOff + heaSize <= staP
               /\ 5 * (staP - heaOff - heaSize) <= staP - heaOff
               /\ staP <= memSize
    BY <2>4 DEF LayoutInv, LayoutFits
  <2> QED
    BY <2>1, <2>2, <2>3, <2>4 DEF LayoutInv, LayoutFits
<1> QED
  BY <1>2, <1>3, <1>4 DEF Next

\* Whatever sizes the pages, the buffer and the data section have: in a buffer
\* of whole pages the heap lies between the data and the end of the memory.
THEOREM LayoutSound == Spec => []LayoutFits
<1>1. Init => LayoutInv
  BY DEF Init, LayoutInv, LayoutFits
<1>2. LayoutInv /\ [Next]_vars => LayoutInv'
  BY LayoutKept
<1>3. LayoutInv => LayoutFits
  BY DEF LayoutInv
<1> QED
  BY <1>1, <1>2, <1>3, PTL DEF Spec
-----------------------------------------------------------------------------
(***************************************************************************)
(* Frames, heap blocks and pointers.                                       *)
(***************************************************************************)

\* Before Init_memory there is neither a frame nor a block.
FreshInv ==
  status = "fresh" => saved = << >> /\ held = {} /\ sp = 0 /\ staP = 0

\* A stack pointer that a return will restore is not above the memory's end.
SavedBelowEnd == \A i \in 1 .. Len(saved) : saved[i] <= staP

\* What malloc returned lies inside the heap, behind its header.
HeldInHeap ==
  \A h \in held : /\ heaOff + HeapHeader <= h.ptr
                  /\ h.ptr + h.size <= heaOff + heaSize

\* Without global data no two pointers the program holds are equal: malloc never
\* returns the start of a block in use.
HeldApart ==
  status = "ready" /\ heaOff = 0 =>
    \A h, g \in held : h.ptr = g.ptr => h = g

\* HeldAreLiveAtZero is not inductive without HeldApart: free takes every block
\* away that starts where it points to.
HeapInv ==
  /\ TypeOK
  /\ FreshInv
  /\ SavedBelowEnd
  /\ HeldInHeap
  /\ HeldApart
  /\ HeldAreLiveAtZero

\* The heap Init_memory reserves has a natural number as its size.
LEMMA HeapSizeNat ==
  ASSUME NEW size \in Nat, NEW off \in Nat, off <= size
  PROVE  HeapSize(size, off) \in Nat
<1>1. (size - off) * 4 \in Nat
  OBVIOUS
<1>2. ((size - off) * 4) \div 5 \in Nat
  BY <1>1
<1> QED
  BY <1>2, RoundUpLeast DEF HeapSize

\* A new memory has no block, and its heap starts behind the global data.
LEMMA Init_memoryHeap ==
  ASSUME HeapInv,
         NEW size \in MemSizes, NEW d \in DataSections, Init_memory(size, d)
  PROVE  HeapInv'
<1>1. size \in Nat /\ d \in Data /\ d.size \in Nat
  BY InputAssumption DEF Data
<1>2. /\ status = "fresh" /\ memSize' = size /\ data' = d /\ bufSize' = size
      /\ UNCHANGED <<moved, saved, blocks, held, ret>>
      /\ status' = InitStatus(size, d)
  BY DEF Init_memory
<1>3. saved = << >> /\ held = {} /\ sp = 0 /\ staP = 0
  BY <1>2 DEF HeapInv, FreshInv
<1>4. status' \in {"ready", "bare", "failed", "aborted"}
  BY <1>2 DEF InitStatus
<1>5. /\ staP' \in Nat /\ heaOff' \in Nat /\ heaSize' \in Nat
      /\ sp' \in Int /\ sp' <= staP'
  <2>1. CASE status' = "ready"
    <3>1. /\ staP' = size /\ heaOff' = RoundUp(d.size) /\ sp' = size
          /\ heaSize' = HeapSize(size, RoundUp(d.size)) /\ RoundUp(d.size) <= size
      BY <1>2, <2>1 DEF Init_memory, InitStatus, HeapFits
    <3>2. RoundUp(d.size) \in Nat
      BY <1>1, RoundUpLeast
    <3> QED
      BY <1>1, <3>1, <3>2, HeapSizeNat
  <2>2. CASE status' # "ready"
    BY <2>2 DEF Init_memory, HeapInv, TypeOK
  <2> QED
    BY <2>1, <2>2
<1>6. TypeOK'
  BY <1>1, <1>2, <1>4, <1>5 DEF HeapInv, TypeOK
<1>7. FreshInv' /\ SavedBelowEnd' /\ HeldInHeap'
  BY <1>2, <1>3, <1>4 DEF FreshInv, SavedBelowEnd, HeldInHeap
<1>8. HeldApart' /\ HeldAreLiveAtZero'
  BY <1>2, <1>3 DEF HeldApart, HeldAreLiveAtZero, HeldAreLive
<1> QED
  BY <1>6, <1>7, <1>8 DEF HeapInv

\* A sequence without its last element.
LEMMA FrontLemma ==
  ASSUME NEW S, NEW s \in Seq(S), s # << >>
  PROVE  /\ SubSeq(s, 1, Len(s) - 1) \in Seq(S)
         /\ Len(SubSeq(s, 1, Len(s) - 1)) = Len(s) - 1
         /\ \A i \in 1 .. Len(s) - 1 : SubSeq(s, 1, Len(s) - 1)[i] = s[i]
<1> DEFINE n == Len(s) - 1
           t == SubSeq(s, 1, n)
<1>1. n \in Nat /\ 1 \in Int /\ n \in Int /\ \A i \in 1 .. n : s[i] \in S
  OBVIOUS
<1> HIDE DEF n
<1>2. /\ t \in Seq(S)
      /\ Len(t) = IF 1 <= n THEN n - 1 + 1 ELSE 0
      /\ \A i \in 1 .. n - 1 + 1 : t[i] = s[1 + i - 1]
  BY <1>1, SubSeqProperties
<1> HIDE DEF t
<1>3. n - 1 + 1 = n /\ \A i \in 1 .. n : 1 + i - 1 = i
  BY <1>1
<1>4. Len(t) = n
  BY <1>1, <1>2, <1>3
<1>5. \A i \in 1 .. n : t[i] = s[i]
  BY <1>2, <1>3
<1> QED
  BY <1>2, <1>4, <1>5 DEF t, n

\* Frames come and go without touching the heap.
LEMMA FramesHeap ==
  ASSUME HeapInv, Func_epilogue \/ \E n \in StackSizes : Allocate_stack(n)
  PROVE  HeapInv'
<1>1. /\ status = "ready" /\ UNCHANGED <<status, layout, blocks, held, ret>>
      /\ staP \in Nat /\ sp \in Int /\ sp <= staP
      /\ saved \in Seq(Int) /\ Len(saved) \in Nat /\ Len(saved) <= MaxFrames
      /\ MaxFrames \in Nat
  BY PageAssumption DEF Func_epilogue, Allocate_stack, HeapInv, TypeOK
<1> DEFINE FramesKept ==
      /\ sp' \in Int /\ sp' <= staP
      /\ saved' \in Seq(Int) /\ Len(saved') <= MaxFrames
      /\ \A i \in 1 .. Len(saved') : saved'[i] <= staP
<1>2. FramesKept
  <2>1. ASSUME NEW n \in StackSizes, Allocate_stack(n)
        PROVE  FramesKept
    <3>1. n \in Nat /\ saved' = Append(saved, sp) /\ sp' = sp - n
          /\ Len(saved) < MaxFrames
      BY <2>1, InputAssumption DEF Allocate_stack
    <3>2. saved' \in Seq(Int) /\ Len(saved') = Len(saved) + 1
          /\ \A i \in 1 .. Len(saved) : saved'[i] = saved[i]
          /\ saved'[Len(saved) + 1] = sp
      BY <1>1, <3>1
    <3>3. \A i \in 1 .. Len(saved') : i = Len(saved) + 1 \/ i \in 1 .. Len(saved)
      BY <1>1, <3>2
    <3> QED
      BY <1>1, <3>1, <3>2, <3>3 DEF HeapInv, SavedBelowEnd
  <2>2. CASE Func_epilogue
    <3>1. /\ saved # << >> /\ sp' = saved[Len(saved)]
          /\ saved' = SubSeq(saved, 1, Len(saved) - 1)
      BY <2>2 DEF Func_epilogue
    <3>2. Len(saved) \in 1 .. Len(saved) /\ Len(saved) - 1 \in Nat
      BY <1>1, <3>1
    <3>3. /\ saved' \in Seq(Int) /\ Len(saved') = Len(saved) - 1
          /\ \A i \in 1 .. Len(saved) - 1 : saved'[i] = saved[i]
      BY <1>1, <3>1, FrontLemma
    <3>4. \A i \in 1 .. Len(saved') : i \in 1 .. Len(saved)
      BY <1>1, <3>3
    <3> QED
      BY <1>1, <3>1, <3>2, <3>3, <3>4 DEF HeapInv, SavedBelowEnd
  <2> QED
    BY <2>1, <2>2
<1>3. TypeOK'
  BY <1>1, <1>2 DEF HeapInv, TypeOK, layout
<1>4. FreshInv' /\ SavedBelowEnd' /\ HeldInHeap'
  BY <1>1, <1>2 DEF HeapInv, FreshInv, SavedBelowEnd, HeldInHeap, layout
<1>5. HeldApart' /\ HeldAreLiveAtZero'
  BY <1>1 DEF HeapInv, HeldApart, HeldAreLiveAtZero, HeldAreLive, layout
<1> QED
  BY <1>3, <1>4, <1>5 DEF HeapInv

\* A block in a place the mspace finds free is none the program holds already.
LEMMA U_mallocHeap ==
  ASSUME HeapInv, NEW n \in BlockSizes, U_malloc(n)
  PROVE  HeapInv'
<1>1. n \in Nat \ {0} /\ HeapHeader \in Nat \ {0}
  BY InputAssumption, PageAssumption
<1>2. PICK at \in Mspace_places(n) :
        blocks' = blocks \cup {[at |-> at, size |-> n]} /\ ret' = heaOff + at
  BY DEF U_malloc
<1>3. /\ held' = held \cup {[ptr |-> heaOff + at, size |-> n]}
      /\ status = "ready" /\ UNCHANGED <<status, layout, sp, saved>>
  BY <1>2 DEF U_malloc
<1>4. /\ heaOff \in Nat /\ heaSize \in Nat
      /\ \A b \in blocks : b.at \in Nat /\ b.size \in Nat \ {0}
      /\ \A h \in held : h.ptr \in Nat /\ h.size \in Nat \ {0}
  BY DEF HeapInv, TypeOK, Block, Pointer
<1>5. /\ at \in Nat /\ HeapHeader <= at /\ at + n <= heaSize
      /\ \A b \in blocks : Apart(at, n, b.at, b.size)
  BY <1>1, <1>4 DEF Mspace_places
<1>6. \A b \in blocks : b.at # at
  BY <1>1, <1>4, <1>5 DEF Apart
<1> DEFINE new == [ptr |-> heaOff + at, size |-> n]
<1>7. /\ new \in Pointer /\ new.ptr = heaOff + at /\ new.size = n
      /\ [at |-> at, size |-> n] \in Block
  BY <1>1, <1>4, <1>5 DEF Pointer, Block
<1>8. TypeOK'
  BY <1>2, <1>3, <1>4, <1>5, <1>7 DEF HeapInv, TypeOK, layout
<1>9. FreshInv' /\ SavedBelowEnd'
  BY <1>3 DEF HeapInv, FreshInv, SavedBelowEnd, layout
<1>10. HeldInHeap'
  <2>1. /\ heaOff + HeapHeader <= new.ptr /\ new.ptr + new.size <= heaOff + heaSize
    BY <1>1, <1>4, <1>5, <1>7
  <2> QED
    BY <1>3, <2>1 DEF HeapInv, HeldInHeap, layout
<1>11. HeldAreLiveAtZero'
  <2> SUFFICES ASSUME heaOff = 0, NEW h \in held'
               PROVE  \E b \in blocks' : h.ptr = heaOff + b.at /\ h.size <= b.size
    BY <1>3 DEF HeldAreLiveAtZero, HeldAreLive, layout
  <2>1. CASE h \in held
    BY <1>2, <1>3, <2>1 DEF HeapInv, HeldAreLiveAtZero, HeldAreLive
  <2>2. CASE h = new
    <3>1. [at |-> at, size |-> n] \in blocks'
      BY <1>2
    <3> QED
      BY <1>1, <1>7, <2>2, <3>1
  <2> QED
    BY <1>3, <2>1, <2>2
<1>12. HeldApart'
  <2>1. ASSUME heaOff = 0, NEW h \in held
        PROVE  h.ptr # new.ptr
    <3>1. PICK b \in blocks : h.ptr = heaOff + b.at
      BY <1>3, <2>1 DEF HeapInv, HeldAreLiveAtZero, HeldAreLive
    <3> QED
      BY <1>4, <1>5, <1>6, <1>7, <2>1, <3>1
  <2> QED
    BY <1>3, <2>1 DEF HeapInv, HeldApart, layout
<1> QED
  BY <1>8, <1>9, <1>10, <1>11, <1>12 DEF HeapInv

\* Without global data, free takes away the block of the pointer it is given and
\* no other one that the program holds.
LEMMA U_freeHeap ==
  ASSUME HeapInv, NEW h \in held, U_free(h)
  PROVE  HeapInv'
<1> DEFINE freed == {b \in blocks : b.at = heaOff + h.ptr}
<1>1. /\ status = "ready" /\ blocks' = blocks \ freed /\ held' = held \ {h}
      /\ UNCHANGED <<layout, sp, saved, ret>>
      /\ status' \in {"ready", "aborted"}
  BY DEF U_free
<1>2. h.ptr \in Nat
  BY DEF HeapInv, TypeOK, Pointer
<1>3. TypeOK'
  BY <1>1 DEF HeapInv, TypeOK, layout
<1>4. FreshInv' /\ SavedBelowEnd' /\ HeldInHeap'
  BY <1>1 DEF HeapInv, FreshInv, SavedBelowEnd, HeldInHeap, layout
<1>5. HeldApart'
  BY <1>1 DEF HeapInv, HeldApart, layout
<1>6. HeldAreLiveAtZero'
  <2> SUFFICES ASSUME heaOff = 0, NEW g \in held \ {h}
               PROVE  \E b \in blocks \ freed : g.ptr = heaOff + b.at /\ g.size <= b.size
    BY <1>1 DEF HeldAreLiveAtZero, HeldAreLive, layout
  <2>1. PICK b \in blocks : g.ptr = heaOff + b.at /\ g.size <= b.size
    BY <1>1 DEF HeapInv, HeldAreLiveAtZero, HeldAreLive
  <2>2. b.at \in Nat /\ g.ptr # h.ptr
    BY <1>1 DEF HeapInv, HeldApart, TypeOK, Block
  <2>3. b \notin freed
    BY <1>2, <2>1, <2>2
  <2> QED
    BY <2>1, <2>3
<1> QED
  BY <1>3, <1>4, <1>5, <1>6 DEF HeapInv

\* Every step keeps the heap invariant.
LEMMA StepHeap ==
  ASSUME HeapInv, [Next]_vars
  PROVE  HeapInv'
<1>1. ASSUME UNCHANGED <<staP, heaOff, heaSize, sp, saved, blocks, held>>,
             TypeOK', status' \in {status, "aborted"}
      PROVE  HeapInv'
  BY <1>1 DEF HeapInv, FreshInv, SavedBelowEnd, HeldInHeap, HeldApart,
              HeldAreLiveAtZero, HeldAreLive
<1>2. CASE \E size \in MemSizes, d \in DataSections : Init_memory(size, d)
  BY <1>2, Init_memoryHeap
<1>3. CASE Func_epilogue \/ \E n \in StackSizes : Allocate_stack(n)
  BY <1>3, FramesHeap
<1>4. CASE \E n \in BlockSizes : U_malloc(n)
  BY <1>4, U_mallocHeap
<1>5. CASE \E h \in held : U_free(h)
  BY <1>5, U_freeHeap
<1>6. CASE \/ \E n \in BlockSizes : U_malloc_full(n)
           \/ Grow_aborts \/ Grow_fails \/ UNCHANGED vars
  <2>1. TypeOK' /\ status' \in {status, "aborted"}
    BY <1>6 DEF U_malloc_full, Grow_aborts, Grow_fails, vars, layout, HeapInv, TypeOK
  <2> QED
    BY <1>1, <1>6, <2>1 DEF U_malloc_full, Grow_aborts, Grow_fails, vars, layout
<1>7. ASSUME NEW n \in GrowPages, Grow_memory(n)
      PROVE  HeapInv'
  <2>1. GrownSize(n) \in Nat
    BY <1>7, InputAssumption, GrownIsNotLess DEF Grow_memory, HeapInv, TypeOK
  <2>2. TypeOK'
    BY <1>7, <2>1 DEF Grow_memory, HeapInv, TypeOK
  <2> QED
    BY <1>1, <1>7, <2>2 DEF Grow_memory
<1> QED
  BY <1>2, <1>3, <1>4, <1>5, <1>6, <1>7 DEF Next

\* Whatever the program calls, allocates, frees and grows, the invariant of
\* frames, blocks and pointers holds.
THEOREM HeapInvariant == Spec => []HeapInv
<1>1. ASSUME Init PROVE HeapInv
  <2>1. NoData \in Data
    BY DEF NoData, Data
  <2>2. saved \in Seq(Int) /\ Len(saved) = 0
    BY <1>1 DEF Init
  <2>3. TypeOK
    <3>1. {memSize, staP, heaOff, heaSize, bufSize} \subseteq Nat
      BY <1>1 DEF Init
    <3>2. moved \in BOOLEAN
      BY <1>1 DEF Init
    <3> QED
      BY <1>1, <2>1, <2>2, <3>1, <3>2, PageAssumption DEF Init, TypeOK
  <2> QED
    BY <1>1, <2>2, <2>3
    DEF Init, HeapInv, FreshInv, SavedBelowEnd, HeldInHeap, HeldApart,
        HeldAreLiveAtZero, HeldAreLive
<1>2. HeapInv /\ [Next]_vars => HeapInv'
  BY StepHeap
<1> QED
  BY <1>1, <1>2, PTL DEF Spec

\* The variables keep their types: no layout has negative sizes, and no return
\* puts the stack pointer above the end of the memory.
THEOREM MemoryType == Spec => []TypeOK
<1>1. HeapInv => TypeOK
  BY DEF HeapInv
<1> QED
  BY <1>1, HeapInvariant, PTL

\* A pointer into a frame, negative, and a pointer malloc returned, positive,
\* decode to the cell they were made for, for every layout and heap.
THEOREM PointersSound == Spec => []PointersDecode
<1>1. HeapInv => PointersDecode
  <2> SUFFICES ASSUME HeapInv PROVE PointersDecode
    OBVIOUS
  <2>1. /\ staP \in Nat /\ sp \in Int /\ heaOff \in Nat /\ heaSize \in Nat
        /\ HeapHeader \in Nat \ {0}
    BY PageAssumption DEF HeapInv, TypeOK
  <2>2. \A a \in sp .. staP - 1 : Get_base_addr(Get_ofst_addr(a - sp)) = a
    BY <2>1 DEF Get_base_addr, Get_ofst_addr
  <2>3. ASSUME NEW h \in held
        PROVE  /\ Get_base_addr(h.ptr) >= heaOff + HeapHeader
               /\ Get_base_addr(h.ptr) + h.size <= heaOff + heaSize
    <3>1. /\ h.ptr \in Nat /\ heaOff + HeapHeader <= h.ptr
          /\ h.ptr + h.size <= heaOff + heaSize
      BY <2>3 DEF HeapInv, TypeOK, Pointer, HeldInHeap
    <3>2. Get_base_addr(h.ptr) = h.ptr
      BY <2>1, <3>1 DEF Get_base_addr
    <3> QED
      BY <2>1, <3>1, <3>2
  <2> QED
    BY <2>2, <2>3 DEF PointersDecode
<1> QED
  BY <1>1, HeapInvariant, PTL

\* In a module without global data every pointer the program holds designates a
\* block in use, in whatever order it allocates and frees.
THEOREM HeldBlocksLive == Spec => []HeldAreLiveAtZero
<1>1. HeapInv => HeldAreLiveAtZero
  BY DEF HeapInv
<1> QED
  BY <1>1, HeapInvariant, PTL
=============================================================================
