--------------------------- MODULE MachineProofs ----------------------------
(***************************************************************************)
(* Proofs about the call machinery, for every module the loader may        *)
(* produce, every size of the tables and any number of calls, as long as   *)
(* the nesting stays below the storage of the context stack.               *)
(***************************************************************************)
EXTENDS Machine, TLAPS, SequenceTheorems

\* The blank context is a context: function 0 exists.
LEMMA BlankIsContext == BlankContext \in Context
  BY SizeAssumption DEF BlankContext, Context, Funcs, NullPc, NullLab, NullSp

\* The machine the constructors leave satisfies the inductive invariant.
LEMMA InitInv == Init => IInv
<1> SUFFICES ASSUME Init PROVE IInv
  OBVIOUS
<1> USE SizeAssumption DEF Init
<1>1. TypeOK
  BY BlankIsContext DEF TypeOK
<1>2. Suspended = {} /\ ~InCode
  BY DEF Suspended, InCode, BlankContext, NullPc
<1>3. StackShape /\ FramesLinked
  BY DEF StackShape, FramesLinked
<1>4. WindowsNested /\ WindowsFit /\ LocalsProtected /\ StackRegions
  BY <1>2 DEF WindowsNested, WindowsFit, LocalsProtected, StackRegions
<1>5. FpSync
  BY DEF FpSync, BlankContext
<1>6. PcInFunction
  BY <1>2 DEF PcInFunction, BlankContext
<1> QED
  BY <1>1, <1>3, <1>4, <1>5, <1>6 DEF IInv

\* A step that moves pc inside the running function, and writes no slot of the
\* context stack up to its top, keeps the invariant.
LEMMA MoveInv ==
  ASSUME IInv, InCode, NEW pc \in Body(cur.func),
         cur' = [cur EXCEPT !.pc = pc],
         regFp' = regFp, regSize' = regSize,
         ctxTop' = ctxTop, ctxCap' = ctxCap,
         ctxSta' \in [0 .. ctxCap -> Context],
         \A d \in 0 .. ctxTop : ctxSta'[d] = ctxSta[d],
         mode' \in {"idle", "running"}, left' \in -1 .. MaxCount
  PROVE  IInv'
<1>1. /\ TypeOK /\ StackShape /\ FramesLinked /\ WindowsNested /\ FpSync
      /\ WindowsFit /\ LocalsProtected /\ PcInFunction /\ StackRegions
  BY DEF IInv
<1>2. /\ cur.func \in Interns /\ pc \in 0 .. EndPc - 1
      /\ cur \in Context /\ ctxTop >= 0 /\ ctxTop \in Int
  BY <1>1, CodeAssumption DEF PcInFunction, TypeOK
<1>3. /\ cur' \in Context /\ cur'.pc = pc /\ cur'.fp = cur.fp
      /\ cur'.func = cur.func /\ cur'.lab = cur.lab /\ cur'.sp = cur.sp
  BY <1>2, SizeAssumption DEF Context
<1>4. InCode' /\ cur'.pc # NullPc
  BY <1>2, <1>3 DEF InCode, NullPc
<1>5. /\ Suspended' = Suspended /\ Suspended \subseteq 0 .. ctxTop
      /\ \A d \in Suspended : ctxSta'[d] = ctxSta[d]
  BY DEF Suspended, IsEntry
<1>6. TypeOK'
  BY <1>1, <1>3 DEF TypeOK
<1>7. ctxTop \in 0 .. ctxTop /\ 0 \in 0 .. ctxTop
  BY <1>2
<1>8. StackShape'
  BY <1>1, <1>4, <1>7 DEF StackShape, IsEntry
<1>9. FramesLinked'
  <2>1. \A d \in 0 .. ctxTop - 1 : d \in 0 .. ctxTop /\ d + 1 \in 0 .. ctxTop
    BY <1>2
  <2>2. \A d \in 0 .. ctxTop : CalleeFp(ctxSta'[d]) = CalleeFp(ctxSta[d])
    OBVIOUS
  <2>3. cur'.fp = CalleeFp(ctxSta'[ctxTop])
    BY <1>1, <1>2, <1>3, <1>7, <2>2 DEF FramesLinked
  <2>4. \A d \in 0 .. ctxTop - 1 : ctxSta'[d + 1].fp = CalleeFp(ctxSta'[d])
    BY <1>1, <2>1, <2>2 DEF FramesLinked
  <2> QED
    BY <2>3, <2>4 DEF FramesLinked, CalleeFp, IsEntry
<1>10. WindowsNested' /\ FpSync'
  BY <1>1, <1>3, <1>5 DEF WindowsNested, FpSync
<1>11. WindowsFit' /\ LocalsProtected'
  BY <1>1, <1>3, <1>4, <1>5 DEF WindowsFit, LocalsProtected
<1>12. PcInFunction'
  BY <1>1, <1>2, <1>3, <1>4, <1>5 DEF PcInFunction
<1>13. StackRegions'
  <2>1. \A d \in Suspended : d # 0 /\ d - 1 \in 0 .. ctxTop
    BY <1>1, <1>2 DEF StackShape, Suspended
  <2> QED
    BY <1>1, <1>3, <1>4, <1>5, <1>7, <2>1
    DEF StackRegions, RegionAbove, IsEntry
<1> QED
  BY <1>6, <1>8, <1>9, <1>10, <1>11, <1>12, <1>13 DEF IInv

\* Push within the storage changes one slot, to the context pushed.
LEMMA PushInStorage ==
  ASSUME TypeOK, NEW c \in Context, Push(c), ctxTop + 1 < ctxCap
  PROVE  /\ ctxCap' = ctxCap
         /\ ctxSta' \in [0 .. ctxCap -> Context]
         /\ ctxSta'[ctxTop + 1] = c
         /\ \A d \in 0 .. ctxTop : ctxSta'[d] = ctxSta[d]
<1>1. PushCap = ctxCap /\ PushSta = ctxSta
  BY DEF PushCap, PushSta, TypeOK
<1>2. ctxSta' = [ctxSta EXCEPT ![ctxTop + 1] = c]
  BY <1>1 DEF Push, Written
<1>3. ctxTop + 1 \in 0 .. ctxCap /\ 0 .. ctxTop \subseteq 0 .. ctxCap
  BY DEF TypeOK
<1> QED
  BY <1>1, <1>2, <1>3 DEF Push, TypeOK

\* Alloc never shrinks a register file and makes room for the window.
LEMMA AllocFits ==
  ASSUME TypeOK, NEW fp \in [Kinds -> Nat], NEW num \in [Kinds -> Nat],
         NEW ks \in SUBSET Kinds, NonZero(num) \subseteq ks,
         \A k \in Kinds : fp[k] <= regSize[k] \/ k \in ks
  PROVE  /\ Alloc(ks, fp, num) \in [Kinds -> Nat]
         /\ \A k \in Kinds : /\ regSize[k] <= Alloc(ks, fp, num)[k]
                             /\ fp[k] + num[k] <= Alloc(ks, fp, num)[k]
<1>1. ASSUME NEW k \in Kinds
      PROVE  /\ regSize[k] \in Nat /\ fp[k] \in Nat /\ num[k] \in Nat
             /\ k \notin ks => num[k] = 0
  BY DEF TypeOK, NonZero
<1>2. ASSUME NEW k \in Kinds
      PROVE  /\ Alloc(ks, fp, num)[k] \in Nat
             /\ regSize[k] <= Alloc(ks, fp, num)[k]
             /\ fp[k] + num[k] <= Alloc(ks, fp, num)[k]
  BY <1>1 DEF Alloc
<1>3. Alloc(ks, fp, num) = [k \in Kinds |-> Alloc(ks, fp, num)[k]]
  BY DEF Alloc
<1> QED
  BY <1>2, <1>3

\* What the locals, window sizes and stack sizes of a function are.
LEMMA FuncTables ==
  ASSUME NEW f \in Funcs
  PROVE  /\ Local[f] \in [Kinds -> Nat]
         /\ RegNum[f] \in [Kinds -> Nat]
         /\ StackSize[f] \in Nat
         /\ FuncBase[f] \in Nat
         /\ \A k \in Kinds : Local[f][k] <= RegNum[f][k]
  BY TableAssumption

\* What the fields of a context are, and the frame pointers of its callee.
LEMMA ContextFacts ==
  ASSUME NEW c \in Context
  PROVE  /\ c.fp \in [Kinds -> Nat] /\ c.func \in Funcs
         /\ c.pc \in Int /\ c.lab \in Int /\ c.sp \in Int
         /\ CalleeFp(c) \in [Kinds -> Nat]
         /\ \A k \in Kinds :
              /\ c.fp[k] <= CalleeFp(c)[k]
              /\ ~IsEntry(c) => CalleeFp(c)[k] = c.fp[k] + Local[c.func][k]
<1>1. /\ c.fp \in [Kinds -> Nat] /\ c.func \in Funcs
      /\ c.pc \in Int /\ c.lab \in Int /\ c.sp \in Int
  BY DEF Context
<1>2. Local[c.func] \in [Kinds -> Nat]
  BY <1>1, FuncTables
<1> QED
  BY <1>1, <1>2 DEF CalleeFp

\* A function is entered: c, an entry context or the context of the caller, is
\* saved, and the new window starts where c says.
LEMMA EnterInv ==
  ASSUME IInv, NEW f \in Interns, NEW c \in Context,
         ctxTop < MaxDepth, ctxTop + 1 < ctxCap,
         IsEntry(c) \/ (InCode /\ c = cur
                          /\ Table[cur.pc].op \in {"call", "call_indirect"}),
         c.fp = cur.fp,
         Push(c), ctxTop' = ctxTop + 1,
         cur' = [fp |-> CalleeFp(c), func |-> f, pc |-> FuncBase[f], lab |-> f,
                 sp |-> StackSize[f] + (IF IsEntry(c) THEN 0 ELSE c.sp)],
         regFp' = CalleeFp(c),
         regSize' \in [Kinds -> Nat],
         \A k \in Kinds : /\ regSize[k] <= regSize'[k]
                          /\ regFp'[k] + RegNum[f][k] <= regSize'[k],
         mode' \in {"idle", "running"}, left' \in -1 .. MaxCount
  PROVE  IInv'
<1>1. /\ TypeOK /\ StackShape /\ FramesLinked /\ WindowsNested /\ FpSync
      /\ WindowsFit /\ LocalsProtected /\ PcInFunction /\ StackRegions
  BY DEF IInv
<1>2. /\ f \in Funcs /\ FuncBase[f] \in Body(f)
      /\ FuncBase[f] \in 0 .. EndPc - 1
      /\ RegNum[f] \in [Kinds -> Nat] /\ StackSize[f] \in Nat
  BY FuncTables, CodeAssumption DEF Interns
<1>3. /\ ctxTop + 1 \in 0 .. ctxCap /\ ctxTop \in -1 .. ctxCap
      /\ ctxTop \in Int /\ ctxCap \in Nat /\ ctxSta \in [0 .. ctxCap -> Context]
  BY <1>1 DEF TypeOK
<1>4. /\ ctxCap' = ctxCap /\ ctxSta' \in [0 .. ctxCap -> Context]
      /\ ctxSta'[ctxTop + 1] = c
      /\ \A d \in 0 .. ctxTop : ctxSta'[d] = ctxSta[d]
  BY <1>1, PushInStorage
<1>5. /\ cur' \in Context /\ cur'.fp = CalleeFp(c) /\ cur'.func = f
      /\ cur'.lab = f /\ cur'.pc = FuncBase[f]
      /\ cur'.sp = StackSize[f] + (IF IsEntry(c) THEN 0 ELSE c.sp)
  <2>1. CalleeFp(c) \in [Kinds -> Nat] /\ c.sp \in Int /\ f \in Int
    BY <1>2, ContextFacts, SizeAssumption DEF Funcs
  <2>2. StackSize[f] + (IF IsEntry(c) THEN 0 ELSE c.sp) \in Int
    BY <1>2, <2>1
  <2>3. FuncBase[f] \in Int
    BY <1>2
  <2> HIDE DEF IsEntry
  <2> QED
    BY <1>2, <2>1, <2>2, <2>3 DEF Context
<1>6. InCode' /\ cur'.pc # NullPc
  BY <1>2, <1>5 DEF InCode, NullPc
<1>7. 0 .. ctxTop' = (0 .. ctxTop) \cup {ctxTop + 1}
  BY <1>3
<1>8. ASSUME NEW d \in Suspended'
      PROVE  \/ d \in Suspended /\ d \in 0 .. ctxTop /\ ctxSta'[d] = ctxSta[d]
             \/ /\ d = ctxTop + 1 /\ ~IsEntry(c) /\ InCode /\ c = cur
                /\ Table[cur.pc].op \in {"call", "call_indirect"}
                /\ ctxSta'[d] = cur
  BY <1>4, <1>7, <1>8 DEF Suspended, IsEntry
<1>9. TypeOK'
  BY <1>1, <1>3, <1>4, <1>5, ContextFacts DEF TypeOK
<1>10. StackShape'
  <2>1. IsEntry(ctxSta'[0])
    <3>1. CASE ctxTop = -1
      BY <1>1, <1>4, <3>1 DEF PcInFunction
    <3>2. CASE ctxTop # -1
      BY <1>1, <1>3, <1>4, <3>2 DEF StackShape
    <3> QED
      BY <3>1, <3>2
  <2> QED
    BY <1>1, <1>3, <1>4, <1>6, <2>1, SizeAssumption DEF StackShape, IsEntry
<1>11. FramesLinked'
  <2>1. cur'.fp = CalleeFp(ctxSta'[ctxTop'])
    BY <1>4, <1>5
  <2>2. ASSUME NEW d \in 0 .. ctxTop
        PROVE  ctxSta'[d + 1].fp = CalleeFp(ctxSta'[d])
    <3>1. CASE d = ctxTop
      BY <1>1, <1>3, <1>4, <3>1 DEF FramesLinked
    <3>2. CASE d # ctxTop
      <4>1. d \in 0 .. ctxTop - 1 /\ d + 1 \in 0 .. ctxTop
        BY <1>3, <3>2
      <4> QED
        BY <1>1, <1>4, <4>1 DEF FramesLinked
    <3> QED
      BY <3>1, <3>2
  <2>3. ctxTop' - 1 = ctxTop
    BY <1>3
  <2> QED
    BY <2>1, <2>2, <2>3 DEF FramesLinked, CalleeFp, IsEntry
<1>12. FpSync'
  BY <1>5 DEF FpSync
<1>13. \A k \in Kinds : regFp[k] = c.fp[k] /\ regFp[k] <= regFp'[k]
  BY <1>1, ContextFacts DEF FpSync
<1>14. LocalsProtected'
  <2> SUFFICES ASSUME NEW d \in Suspended', NEW k \in Kinds
               PROVE  ctxSta'[d].fp[k] + Local[ctxSta'[d].func][k] <= regFp'[k]
    BY DEF LocalsProtected
  <2>1. CASE d \in Suspended /\ d \in 0 .. ctxTop /\ ctxSta'[d] = ctxSta[d]
    <3>1. ctxSta[d].fp[k] + Local[ctxSta[d].func][k] <= regFp[k]
      BY <1>1, <2>1 DEF LocalsProtected
    <3>2. ctxSta[d] \in Context
      BY <1>3, <2>1
    <3>3. /\ ctxSta[d].fp[k] \in Nat /\ Local[ctxSta[d].func][k] \in Nat
          /\ regFp[k] \in Nat /\ regFp'[k] \in Nat
      BY <1>1, <1>9, <3>2, ContextFacts, FuncTables DEF TypeOK
    <3> QED
      BY <1>13, <2>1, <3>1, <3>3
  <2>2. CASE d = ctxTop + 1 /\ ~IsEntry(c) /\ ctxSta'[d] = cur /\ c = cur
    <3>1. regFp'[k] = cur.fp[k] + Local[cur.func][k] /\ regFp'[k] \in Nat
      BY <1>9, <2>2, ContextFacts DEF TypeOK
    <3> QED
      BY <2>2, <3>1
  <2> QED
    BY <1>8, <2>1, <2>2
<1>15. WindowsNested'
  <2> SUFFICES ASSUME NEW d \in Suspended', NEW k \in Kinds,
                      NEW e \in 0 .. ctxTop', d < e
               PROVE  ctxSta'[d].fp[k] + Local[ctxSta'[d].func][k]
                        <= ctxSta'[e].fp[k]
    BY DEF WindowsNested
  <2>1. d \in Suspended /\ d \in 0 .. ctxTop /\ ctxSta'[d] = ctxSta[d]
    BY <1>3, <1>7, <1>8
  <2>2. CASE e = ctxTop + 1
    BY <1>1, <1>4, <1>13, <2>1, <2>2 DEF LocalsProtected
  <2>3. CASE e \in 0 .. ctxTop
    BY <1>1, <1>4, <2>1, <2>3 DEF WindowsNested
  <2> QED
    BY <1>7, <2>2, <2>3
<1>16. WindowsFit'
  <2> SUFFICES ASSUME NEW k \in Kinds
               PROVE  /\ regFp'[k] <= regSize'[k]
                      /\ regFp'[k] + RegNum[cur'.func][k] <= regSize'[k]
                      /\ \A d \in Suspended' :
                           ctxSta'[d].fp[k] + RegNum[ctxSta'[d].func][k]
                             <= regSize'[k]
    BY DEF WindowsFit
  <2>1. regFp'[k] \in Nat /\ RegNum[f][k] \in Nat /\ regSize'[k] \in Nat
        /\ regSize[k] \in Nat
    BY <1>1, <1>2, <1>9 DEF TypeOK
  <2>2. ASSUME NEW d \in Suspended'
        PROVE  ctxSta'[d].fp[k] + RegNum[ctxSta'[d].func][k] <= regSize'[k]
    <3>1. ctxSta'[d].fp[k] + RegNum[ctxSta'[d].func][k] <= regSize[k]
      <4>1. CASE d \in Suspended /\ ctxSta'[d] = ctxSta[d]
        BY <1>1, <4>1 DEF WindowsFit
      <4>2. CASE InCode /\ ctxSta'[d] = cur
        BY <1>1, <4>2 DEF WindowsFit, FpSync
      <4> QED
        BY <1>8, <4>1, <4>2
    <3>2. ctxSta'[d] \in Context
      BY <1>3, <1>4, <1>8
    <3>3. ctxSta'[d].fp[k] \in Nat /\ RegNum[ctxSta'[d].func][k] \in Nat
      BY <3>2, ContextFacts, FuncTables
    <3> QED
      BY <2>1, <3>1, <3>3
  <2> QED
    BY <1>5, <2>1, <2>2
<1>17. PcInFunction'
  <2>1. ASSUME NEW d \in Suspended'
        PROVE  /\ ctxSta'[d].func \in Interns
               /\ ctxSta'[d].lab = ctxSta'[d].func
               /\ ctxSta'[d].pc \in Body(ctxSta'[d].func)
               /\ Table[ctxSta'[d].pc].op \in {"call", "call_indirect"}
    <3>1. CASE d \in Suspended /\ ctxSta'[d] = ctxSta[d]
      BY <1>1, <3>1 DEF PcInFunction
    <3>2. CASE InCode /\ ctxSta'[d] = cur
                 /\ Table[cur.pc].op \in {"call", "call_indirect"}
      BY <1>1, <3>2 DEF PcInFunction
    <3> QED
      BY <1>8, <3>1, <3>2
  <2>2. ctxTop' >= 0
    BY <1>3
  <2> QED
    BY <1>2, <1>5, <1>6, <2>1, <2>2 DEF PcInFunction
<1>18. StackRegions'
  <2>1. RegionAbove(ctxTop, cur)'
    BY <1>4, <1>5 DEF RegionAbove, IsEntry
  <2>2. ASSUME NEW d \in Suspended'
        PROVE  RegionAbove(d - 1, ctxSta[d])'
    <3>1. d - 1 \in 0 .. ctxTop
      <4>1. d # 0
        BY <1>3, <1>10 DEF StackShape, Suspended
      <4> QED
        BY <1>3, <1>8, <4>1
    <3>2. CASE d \in Suspended /\ ctxSta'[d] = ctxSta[d]
      BY <1>1, <1>4, <3>1, <3>2 DEF StackRegions, RegionAbove, IsEntry
    <3>3. CASE d = ctxTop + 1 /\ InCode /\ ctxSta'[d] = cur
      <4>1. d - 1 = ctxTop
        BY <1>3, <3>3
      <4> QED
        BY <1>1, <1>4, <3>1, <3>3, <4>1
        DEF StackRegions, RegionAbove, IsEntry
    <3> QED
      BY <1>8, <3>2, <3>3
  <2> QED
    BY <2>1, <2>2 DEF StackRegions
<1> QED
  BY <1>9, <1>10, <1>11, <1>12, <1>14, <1>15, <1>16, <1>17, <1>18 DEF IInv

\* Init_env keeps the invariant, whatever state the machine was left in.
LEMMA Init_envInv ==
  ASSUME MaxDepth < DEFAULT_STACK_SIZE, IInv, NEW f \in Interns, Init_env(f)
  PROVE  IInv'
<1>1. /\ cur \in Context /\ f \in Funcs /\ TypeOK /\ FpSync /\ WindowsFit
      /\ ctxCap = DEFAULT_STACK_SIZE
  BY DEF IInv, TypeOK, Interns, StackShape
<1>2. /\ Push(EntryContext(f)) /\ ctxTop' = ctxTop + 1 /\ ctxTop < MaxDepth
      /\ regFp' = regFp /\ mode' = mode /\ left' = left /\ mode = "idle"
      /\ regSize' = Alloc(NonZero(RegNum[f]), regFp, RegNum[f])
      /\ cur' = [fp |-> cur.fp, func |-> f, pc |-> FuncBase[f], lab |-> f,
                 sp |-> Allocate_stack(0, f)]
  BY DEF Init_env
<1>3. ctxTop + 1 < ctxCap
  BY <1>1, <1>2, SizeAssumption DEF TypeOK
<1>4. cur.fp \in [Kinds -> Nat] /\ cur.lab \in Int /\ cur.sp \in Int
  BY <1>1, ContextFacts
<1>5. /\ EntryContext(f) \in Context /\ EntryContext(f).fp = cur.fp
      /\ EntryContext(f).pc = EndPc
  BY <1>1, <1>4, SizeAssumption DEF EntryContext, Context
<1>6. CalleeFp(EntryContext(f)) = cur.fp /\ IsEntry(EntryContext(f))
  BY <1>5 DEF CalleeFp, IsEntry
<1>7. regFp = cur.fp /\ regFp \in [Kinds -> Nat]
  BY <1>1, <1>4 DEF FpSync, TypeOK
<1>8. RegNum[f] \in [Kinds -> Nat] /\ StackSize[f] \in Nat
  BY <1>1, FuncTables
<1>9. /\ Alloc(NonZero(RegNum[f]), regFp, RegNum[f]) \in [Kinds -> Nat]
      /\ \A k \in Kinds :
           /\ regSize[k] <= Alloc(NonZero(RegNum[f]), regFp, RegNum[f])[k]
           /\ regFp[k] + RegNum[f][k]
                <= Alloc(NonZero(RegNum[f]), regFp, RegNum[f])[k]
  <2>1. NonZero(RegNum[f]) \in SUBSET Kinds
    BY DEF NonZero
  <2>2. \A k \in Kinds : regFp[k] <= regSize[k]
    BY <1>1 DEF WindowsFit
  <2> QED
    BY <1>1, <1>7, <1>8, <2>1, <2>2, AllocFits
<1>10. cur' = [fp |-> CalleeFp(EntryContext(f)), func |-> f,
               pc |-> FuncBase[f], lab |-> f,
               sp |-> StackSize[f] + (IF IsEntry(EntryContext(f)) THEN 0
                                      ELSE EntryContext(f).sp)]
  BY <1>2, <1>6, <1>8 DEF Allocate_stack
<1>11. mode' \in {"idle", "running"} /\ left' \in -1 .. MaxCount
  BY <1>1, <1>2 DEF TypeOK
<1> QED
  BY <1>2, <1>3, <1>5, <1>6, <1>7, <1>9, <1>10, <1>11, EnterInv

\* An instruction other than BREAK is executed inside a function only.
LEMMA DispatchFacts ==
  ASSUME IInv, NEW op \in Ops \ {"break"}, Dispatch(op)
  PROVE  /\ InCode /\ Table[cur.pc].op = op
         /\ cur.func \in Interns /\ cur.lab = cur.func
         /\ cur.pc \in Body(cur.func) /\ ctxTop >= 0
         /\ mode' \in {"idle", "running"} /\ left' \in -1 .. MaxCount
<1>1. Table[cur.pc].op = op /\ mode = "running"
  BY DEF Dispatch
<1>2. cur.pc # NullPc /\ cur.pc # BreakPc
  BY <1>1, CodeAssumption DEF IInv, StackShape
<1>3. InCode
  BY <1>2 DEF IInv, PcInFunction
<1>4. mode' \in {"idle", "running"} /\ left' \in -1 .. MaxCount
  BY SizeAssumption DEF Dispatch, IInv, TypeOK
<1> QED
  BY <1>1, <1>3, <1>4 DEF IInv, PcInFunction

\* Calling a function with a body keeps the invariant: the files that are not
\* shifted are those in which the caller has no locals.
LEMMA Prologue_internInv ==
  ASSUME MaxDepth < DEFAULT_STACK_SIZE, IInv,
         NEW op \in {"call", "call_indirect"}, Dispatch(op),
         NEW callee, Prologue_intern(callee)
  PROVE  IInv'
<1>1. /\ InCode /\ Table[cur.pc].op = op /\ cur.func \in Interns
      /\ cur.pc \in 0 .. EndPc - 1
      /\ mode' \in {"idle", "running"} /\ left' \in -1 .. MaxCount
  BY DispatchFacts DEF Ops, InCode
<1>2. /\ cur \in Context /\ TypeOK /\ FpSync /\ WindowsFit
      /\ ctxCap = DEFAULT_STACK_SIZE
  BY DEF IInv, TypeOK, StackShape
<1>3. /\ callee \in Interns /\ ctxTop < MaxDepth
      /\ Push(cur) /\ ctxTop' = ctxTop + 1
      /\ cur' = [fp |-> ShiftedContextFp(cur.func), func |-> callee,
                 pc |-> FuncBase[callee], lab |-> callee,
                 sp |-> Allocate_stack(cur.sp, callee)]
      /\ regFp' = Shifted(cur.func)
      /\ regSize' = Alloc(NonZero(RegNum[callee]) \cup {"i32"},
                          Shifted(cur.func), RegNum[callee])
  BY DEF Prologue_intern
<1>4. ctxTop + 1 < ctxCap
  BY <1>2, <1>3, SizeAssumption DEF TypeOK
<1>5. ~IsEntry(cur)
  BY <1>1, SizeAssumption DEF IsEntry
<1>6. /\ Local[cur.func] \in [Kinds -> Nat] /\ RegNum[cur.func] \in [Kinds -> Nat]
      /\ \A k \in Kinds : Local[cur.func][k] <= RegNum[cur.func][k]
      /\ RegNum[callee] \in [Kinds -> Nat] /\ StackSize[callee] \in Nat
      /\ cur.fp \in [Kinds -> Nat] /\ cur.sp \in Int
  BY <1>2, <1>3, FuncTables, ContextFacts DEF Interns
<1>7. regFp = cur.fp
  BY <1>2, <1>6 DEF FpSync, TypeOK
<1>8. /\ Shifted(cur.func) = CalleeFp(cur)
      /\ Shifted(cur.func) \in [Kinds -> Nat]
      /\ \A k \in Kinds : Shifted(cur.func)[k] = regFp[k] + Local[cur.func][k]
  BY <1>5, <1>6, <1>7 DEF Shifted, CalleeFp
<1>9. ShiftedContextFp(cur.func) = CalleeFp(cur)
  <2>1. \A k \in Kinds :
          Local[cur.func][k] = 0 => cur.fp[k] = Shifted(cur.func)[k]
    BY <1>6, <1>7, <1>8
  <2>2. ShiftedContextFp(cur.func) = Shifted(cur.func)
    BY <2>1 DEF ShiftedContextFp, Shifted
  <2> QED
    BY <1>8, <2>2
<1>10. \A k \in Kinds : Shifted(cur.func)[k] <= regSize[k]
  <2> TAKE k \in Kinds
  <2>1. regFp[k] + RegNum[cur.func][k] <= regSize[k]
    BY <1>1, <1>2 DEF WindowsFit
  <2> QED
    BY <1>2, <1>6, <1>8, <2>1 DEF TypeOK
<1>11. /\ regSize' \in [Kinds -> Nat]
       /\ \A k \in Kinds :
            /\ regSize[k] <= regSize'[k]
            /\ Shifted(cur.func)[k] + RegNum[callee][k] <= regSize'[k]
  <2>1. NonZero(RegNum[callee]) \cup {"i32"} \in SUBSET Kinds
    BY DEF NonZero, Kinds
  <2> QED
    BY <1>2, <1>3, <1>6, <1>8, <1>10, <2>1, AllocFits
<1>12. cur' = [fp |-> CalleeFp(cur), func |-> callee,
               pc |-> FuncBase[callee], lab |-> callee,
               sp |-> StackSize[callee] + (IF IsEntry(cur) THEN 0 ELSE cur.sp)]
  <2>1. Allocate_stack(cur.sp, callee)
          = StackSize[callee] + (IF IsEntry(cur) THEN 0 ELSE cur.sp)
    BY <1>5, <1>6 DEF Allocate_stack
  <2> QED
    BY <1>3, <1>9, <2>1
<1>13. regFp' = CalleeFp(cur)
  BY <1>3, <1>8
<1>14. \A k \in Kinds : /\ regSize[k] <= regSize'[k]
                        /\ regFp'[k] + RegNum[callee][k] <= regSize'[k]
  BY <1>3, <1>11
<1> QED
  BY <1>1, <1>2, <1>3, <1>4, <1>11, <1>12, <1>13, <1>14, EnterInv

\* A call of an external function leaves every pointer of the caller as it was:
\* the files that Func_epilogue skips are those Func_prologue did not shift.
LEMMA Prologue_externInv ==
  ASSUME MaxDepth < DEFAULT_STACK_SIZE, IInv,
         NEW op \in {"call", "call_indirect"}, Dispatch(op),
         NEW callee, Prologue_extern(callee)
  PROVE  IInv'
<1>1. /\ InCode /\ Table[cur.pc].op = op /\ cur.func \in Interns
      /\ cur.pc \in Body(cur.func)
      /\ mode' \in {"idle", "running"} /\ left' \in -1 .. MaxCount
  BY DispatchFacts DEF Ops
<1>2. /\ cur \in Context /\ TypeOK /\ FpSync /\ ctxCap = DEFAULT_STACK_SIZE
  BY DEF IInv, TypeOK, StackShape
<1>3. /\ ctxTop < MaxDepth /\ Push(cur) /\ ctxTop' = ctxTop
      /\ cur' = Inc_pc(ctxSta'[ctxTop + 1]) /\ regSize' = regSize
      /\ regFp' = Restored(ctxSta'[ctxTop + 1], Shifted(cur.func))
  BY DEF Prologue_extern
<1>4. ctxTop + 1 < ctxCap
  BY <1>2, <1>3, SizeAssumption DEF TypeOK
<1>5. /\ ctxCap' = ctxCap /\ ctxSta' \in [0 .. ctxCap -> Context]
      /\ ctxSta'[ctxTop + 1] = cur
      /\ \A d \in 0 .. ctxTop : ctxSta'[d] = ctxSta[d]
  BY <1>2, <1>3, <1>4, PushInStorage
<1>6. /\ Local[cur.func] \in [Kinds -> Nat]
      /\ cur.fp \in [Kinds -> Nat] /\ cur.pc \in Int
  BY <1>1, <1>2, FuncTables, ContextFacts DEF Interns
<1>7. regFp = cur.fp
  BY <1>2, <1>6 DEF FpSync, TypeOK
<1>8. regFp' = regFp
  <2>1. \A k \in Kinds : k # "i32" /\ ~Wide(Local[cur.func])
                           => Shifted(cur.func)[k] = cur.fp[k]
    BY <1>6, <1>7 DEF Wide, Shifted
  <2>2. Restored(cur, Shifted(cur.func)) = cur.fp
    BY <1>6, <2>1 DEF Restored
  <2> QED
    BY <1>3, <1>5, <1>7, <2>2
<1>9. cur.pc + 1 \in Body(cur.func) /\ cur' = [cur EXCEPT !.pc = cur.pc + 1]
  BY <1>1, <1>2, <1>3, <1>5, CodeAssumption DEF Inc_pc
<1> QED
  BY <1>1, <1>3, <1>5, <1>8, <1>9, MoveInv

\* A return keeps the invariant: the caller is resumed behind its call with the
\* window it had, or the BREAK instruction is next.
LEMMA ReturnInv ==
  ASSUME IInv, Return_am32
  PROVE  IInv'
<1> DEFINE a == ctxSta[ctxTop]
<1>1. /\ TypeOK /\ StackShape /\ FramesLinked /\ WindowsNested /\ FpSync
      /\ WindowsFit /\ LocalsProtected /\ PcInFunction /\ StackRegions
  BY DEF IInv
<1>2. /\ ctxTop \in 0 .. ctxCap /\ ctxCap \in Nat
      /\ ctxTop \in Nat /\ a \in Context
      /\ ctxTop' = ctxTop - 1 /\ ctxSta' = ctxSta /\ ctxCap' = ctxCap
      /\ regSize' = regSize /\ cur' = Inc_pc(a) /\ regFp' = Restored(a, regFp)
  BY <1>1 DEF Return_am32, TypeOK
<1>3. mode' \in {"idle", "running"} /\ left' \in -1 .. MaxCount
  <2>1. Dispatch("return")
    BY DEF Return_am32
  <2> QED
    BY <2>1, DispatchFacts DEF Ops
<1>4. a.fp \in [Kinds -> Nat] /\ a.func \in Funcs /\ a.pc \in Int /\ a.sp \in Int
  BY <1>2, ContextFacts
<1>5. /\ cur' \in Context /\ cur'.pc = a.pc + 1 /\ cur'.fp = a.fp
      /\ cur'.func = a.func /\ cur'.lab = a.lab /\ cur'.sp = a.sp
  BY <1>2, <1>4 DEF Inc_pc, Context
<1>6. regFp' = a.fp
  <2>1. Local[a.func] \in [Kinds -> Nat]
    BY <1>4, FuncTables
  <2>2. \A k \in Kinds : regFp[k] = CalleeFp(a)[k]
    BY <1>1, <1>2 DEF FramesLinked, FpSync
  <2>3. \A k \in Kinds : k # "i32" /\ ~Wide(Local[a.func]) => regFp[k] = a.fp[k]
    BY <1>4, <2>1, <2>2 DEF Wide, CalleeFp
  <2> QED
    BY <1>2, <1>4, <2>3 DEF Restored
<1>7. Suspended' \subseteq Suspended /\ \A d \in Suspended' : d < ctxTop /\ d \in Int
  BY <1>2 DEF Suspended, IsEntry
<1>8. IsEntry(a) => ~InCode' /\ cur'.pc = BreakPc
  BY <1>5, SizeAssumption DEF IsEntry, InCode, BreakPc
<1>9. ~IsEntry(a) => /\ ctxTop \in Suspended /\ ctxTop # 0
                     /\ a.func \in Interns /\ a.lab = a.func
                     /\ a.pc + 1 \in Body(a.func) /\ InCode'
  <2> SUFFICES ASSUME ~IsEntry(a)
               PROVE  /\ ctxTop \in Suspended /\ ctxTop # 0
                      /\ a.func \in Interns /\ a.lab = a.func
                      /\ a.pc + 1 \in Body(a.func) /\ InCode'
    OBVIOUS
  <2>1. ctxTop \in Suspended /\ ctxTop # 0
    BY <1>1, <1>2 DEF Suspended, StackShape
  <2>2. /\ a.func \in Interns /\ a.lab = a.func /\ a.pc \in Body(a.func)
        /\ Table[a.pc].op \in {"call", "call_indirect"}
    BY <1>1, <2>1 DEF PcInFunction
  <2>3. a.pc + 1 \in Body(a.func) /\ a.pc + 1 \in 0 .. EndPc - 1
    BY <2>2, CodeAssumption
  <2> QED
    BY <1>5, <2>1, <2>2, <2>3 DEF InCode
<1>10. TypeOK'
  BY <1>1, <1>2, <1>3, <1>4, <1>5, <1>6 DEF TypeOK
<1>11. StackShape'
  <2>1. cur'.pc # NullPc
    BY <1>5, <1>8, <1>9, SizeAssumption DEF InCode, NullPc, BreakPc
  <2> QED
    BY <1>1, <1>2, <2>1, SizeAssumption DEF StackShape, IsEntry
<1>12. FramesLinked'
  <2>1. ASSUME ctxTop' >= 0
        PROVE  cur'.fp = CalleeFp(ctxSta[ctxTop - 1])
    <3>1. ctxTop - 1 \in 0 .. ctxTop - 1 /\ (ctxTop - 1) + 1 = ctxTop
      BY <1>2, <2>1
    <3> QED
      BY <1>1, <1>5, <3>1 DEF FramesLinked
  <2>2. \A d \in 0 .. ctxTop' - 1 : ctxSta[d + 1].fp = CalleeFp(ctxSta[d])
    <3>1. \A d \in 0 .. ctxTop' - 1 : d \in 0 .. ctxTop - 1
      BY <1>2
    <3> QED
      BY <1>1, <3>1 DEF FramesLinked
  <2> QED
    BY <1>2, <2>1, <2>2 DEF FramesLinked, CalleeFp, IsEntry
<1>13. WindowsNested'
  <2>1. \A e \in 0 .. ctxTop' : e \in 0 .. ctxTop
    BY <1>2
  <2> QED
    BY <1>1, <1>2, <1>7, <2>1 DEF WindowsNested
<1>14. FpSync'
  BY <1>5, <1>6 DEF FpSync
<1>15. LocalsProtected'
  BY <1>1, <1>2, <1>6, <1>7 DEF WindowsNested, LocalsProtected
<1>16. WindowsFit'
  <2> SUFFICES ASSUME NEW k \in Kinds
               PROVE  /\ regFp'[k] <= regSize'[k]
                      /\ InCode' => regFp'[k] + RegNum[cur'.func][k] <= regSize'[k]
                      /\ \A d \in Suspended' :
                           ctxSta'[d].fp[k] + RegNum[ctxSta'[d].func][k]
                             <= regSize'[k]
    BY DEF WindowsFit
  <2>1. /\ RegNum[a.func][k] \in Nat /\ a.fp[k] \in Nat /\ regFp[k] \in Nat
        /\ regSize[k] \in Nat
    BY <1>1, <1>4, FuncTables DEF TypeOK
  <2>2. CASE IsEntry(a)
    <3>1. regFp'[k] = regFp[k]
      BY <1>1, <1>2, <1>6, <2>2 DEF FramesLinked, FpSync, CalleeFp
    <3> QED
      BY <1>1, <1>2, <1>7, <1>8, <2>2, <3>1 DEF WindowsFit
  <2>3. CASE ~IsEntry(a)
    <3>1. a.fp[k] + RegNum[a.func][k] <= regSize[k]
      BY <1>1, <1>9, <2>3 DEF WindowsFit
    <3>2. \A d \in Suspended' :
            ctxSta'[d].fp[k] + RegNum[ctxSta'[d].func][k] <= regSize'[k]
      BY <1>1, <1>2, <1>7 DEF WindowsFit
    <3> QED
      BY <1>2, <1>5, <1>6, <2>1, <3>1, <3>2
  <2> QED
    BY <2>2, <2>3
<1>17. PcInFunction'
  <2>1. InCode' => /\ cur'.func \in Interns /\ cur'.lab = cur'.func
                   /\ cur'.pc \in Body(cur'.func) /\ ctxTop' >= 0
    BY <1>2, <1>5, <1>8, <1>9
  <2> QED
    BY <1>1, <1>2, <1>7, <1>8, <1>9, <2>1 DEF PcInFunction
<1>18. StackRegions'
  <2>1. InCode' => RegionAbove(ctxTop, cur)'
    BY <1>1, <1>2, <1>5, <1>8, <1>9 DEF StackRegions, RegionAbove
  <2> QED
    BY <1>1, <1>2, <1>7, <2>1 DEF StackRegions, RegionAbove
<1> QED
  BY <1>10, <1>11, <1>12, <1>13, <1>14, <1>15, <1>16, <1>17, <1>18 DEF IInv

\* A step that hands control over, or leaves everything as it is, keeps the
\* invariant.
LEMMA ControlInv ==
  ASSUME IInv, UNCHANGED <<regs, cur, stack>>,
         mode' \in {"idle", "running", "exited"},
         mode' # "idle" => cur.pc # NullPc, left' \in -1 .. MaxCount
  PROVE  IInv'
<1> USE DEF regs, stack
<1>1. Suspended' = Suspended /\ InCode' = InCode
  BY DEF Suspended, InCode, IsEntry
<1>2. TypeOK' /\ StackShape'
  BY DEF IInv, TypeOK, StackShape, IsEntry
<1>3. FramesLinked' /\ WindowsNested' /\ FpSync' /\ LocalsProtected'
  BY <1>1 DEF IInv, FramesLinked, WindowsNested, FpSync, LocalsProtected,
              CalleeFp, IsEntry
<1>4. WindowsFit' /\ PcInFunction' /\ StackRegions'
  BY <1>1 DEF IInv, WindowsFit, PcInFunction, StackRegions, RegionAbove, IsEntry
<1> QED
  BY <1>2, <1>3, <1>4 DEF IInv

\* Every step keeps the invariant.
LEMMA StepInv ==
  ASSUME MaxDepth < DEFAULT_STACK_SIZE, IInv, [Next]_vars
  PROVE  IInv'
<1>1. ASSUME NEW f \in Interns, Init_env(f) PROVE IInv'
  BY <1>1, Init_envInv
<1>2. CASE Exec_start
  BY <1>2, ControlInv, SizeAssumption DEF Exec_start
<1>3. ASSUME NEW count \in 1 .. MaxCount, Control_start(count) PROVE IInv'
  BY <1>3, ControlInv, SizeAssumption DEF Control_start
<1>4. ASSUME NEW op \in Ops \ {"break"}, Dispatch(op), UNCHANGED <<regs, stack>>,
             NEW pc \in Body(cur.func), cur' = [cur EXCEPT !.pc = pc]
      PROVE  IInv'
  <2>1. /\ InCode /\ mode' \in {"idle", "running"} /\ left' \in -1 .. MaxCount
    BY <1>4, DispatchFacts
  <2>2. ctxSta' \in [0 .. ctxCap -> Context]
    BY <1>4 DEF stack, IInv, TypeOK
  <2> QED
    BY <1>4, <2>1, <2>2, MoveInv DEF regs, stack
<1>5. CASE Exec_plain
  <2>1. cur.pc + 1 \in Body(cur.func)
    BY <1>5, DispatchFacts, CodeAssumption DEF Exec_plain, Ops
  <2> QED
    BY <1>4, <1>5, <2>1 DEF Exec_plain, Inc_pc, Ops
<1>6. CASE Jmp_am32_ofs
  <2>1. LabTab[cur.lab][Operand] \in Body(cur.func)
    BY <1>6, DispatchFacts, CodeAssumption DEF Jmp_am32_ofs, Ops, Operand
  <2> QED
    BY <1>4, <1>6, <2>1 DEF Jmp_am32_ofs, Goto, Ops
<1>7. CASE Jmp_indirect_am32_r
  <2>1. PICK lab \in DOMAIN LabTab[cur.lab] : Goto(lab)
    BY <1>7 DEF Jmp_indirect_am32_r
  <2>2. LabTab[cur.lab][lab] \in Body(cur.func)
    BY <1>7, <2>1, DispatchFacts, CodeAssumption DEF Jmp_indirect_am32_r, Ops
  <2> QED
    BY <1>4, <1>7, <2>1, <2>2 DEF Jmp_indirect_am32_r, Goto, Ops
<1>8. CASE Jcc_taken
  <2>1. LabTab[cur.lab][Operand] \in Body(cur.func)
    BY <1>8, DispatchFacts, CodeAssumption DEF Jcc_taken, Ops, Operand
  <2> QED
    BY <1>4, <1>8, <2>1 DEF Jcc_taken, Goto, Ops
<1>9. CASE Jcc_not_taken
  <2>1. cur.pc + 1 \in Body(cur.func)
    BY <1>9, DispatchFacts, CodeAssumption DEF Jcc_not_taken, Ops
  <2> QED
    BY <1>4, <1>9, <2>1 DEF Jcc_not_taken, Inc_pc, Ops
<1>10. CASE Call_am32_ofs
  BY <1>10, Prologue_internInv, Prologue_externInv DEF Call_am32_ofs, Func_prologue
<1>11. CASE Call_indirect_am32_r
  BY <1>11, Prologue_internInv, Prologue_externInv
  DEF Call_indirect_am32_r, Func_prologue
<1>12. CASE Call_exit \/ Exec_abort
  BY <1>12, ControlInv DEF Call_exit, Exec_abort, IInv, StackShape, TypeOK
<1>13. CASE Return_am32
  BY <1>13, ReturnInv
<1>14. CASE Break_am32
  BY <1>14, ControlInv, SizeAssumption DEF Break_am32
<1>15. CASE Exited \/ UNCHANGED vars
  BY <1>15, ControlInv DEF Exited, vars, regs, stack, IInv, StackShape, TypeOK
<1> QED
  BY <1>1, <1>2, <1>3, <1>5, <1>6, <1>7, <1>8, <1>9, <1>10, <1>11, <1>12,
     <1>13, <1>14, <1>15
  DEF Next, Host, Step

\* However the host, the debugger and the program interleave, the machine stays
\* in states that satisfy the inductive invariant, as long as calls nest less
\* deep than the context stack has storage.
THEOREM MachineInvariant ==
  ASSUME MaxDepth < DEFAULT_STACK_SIZE
  PROVE  Spec => []IInv
<1>1. Init => IInv
  BY InitInv
<1>2. IInv /\ [Next]_vars => IInv'
  BY StepInv
<1> QED
  BY <1>1, <1>2, PTL DEF Spec

\* Every variable keeps its type.
THEOREM MachineType ==
  ASSUME MaxDepth < DEFAULT_STACK_SIZE
  PROVE  Spec => []TypeOK
<1>1. IInv => TypeOK
  BY DEF IInv
<1> QED
  BY <1>1, MachineInvariant, PTL

\* In every reachable state the window of the running function and those of its
\* callers are allocated.
THEOREM RegisterWindows ==
  ASSUME MaxDepth < DEFAULT_STACK_SIZE
  PROVE  Spec => []WindowsFit
<1>1. IInv => WindowsFit
  BY DEF IInv
<1> QED
  BY <1>1, MachineInvariant, PTL

\* Func_epilogue, which skips the i64, f32 and f64 files of a caller without
\* locals there, never lets a file and the context disagree on a frame pointer.
THEOREM FramePointersAgree ==
  ASSUME MaxDepth < DEFAULT_STACK_SIZE
  PROVE  Spec => []FpSync
<1>1. IInv => FpSync
  BY DEF IInv
<1> QED
  BY <1>1, MachineInvariant, PTL

\* No function can name a local of a function that waits for it, however deep
\* the calls nest and whichever register files the callers use.
THEOREM WaitingLocalsSafe ==
  ASSUME MaxDepth < DEFAULT_STACK_SIZE
  PROVE  Spec => []LocalsProtected
<1>1. IInv => LocalsProtected
  BY DEF IInv
<1> QED
  BY <1>1, MachineInvariant, PTL

\* Control stays inside the function the current context names, under the label
\* table of that function; a saved context stands at a call.
THEOREM ControlFlow ==
  ASSUME MaxDepth < DEFAULT_STACK_SIZE
  PROVE  Spec => []PcInFunction
<1>1. IInv => PcInFunction
  BY DEF IInv
<1> QED
  BY <1>1, MachineInvariant, PTL

\* Allocate_stack and the stack pointer restored by a return lay the stack
\* memory of the active functions out without overlap and gap.
THEOREM StackLaidOut ==
  ASSUME MaxDepth < DEFAULT_STACK_SIZE
  PROVE  Spec => []StackRegions
<1>1. IInv => StackRegions
  BY DEF IInv
<1> QED
  BY <1>1, MachineInvariant, PTL

\* A step that stays in, or enters, the code of a function and keeps the bottom
\* of the context stack, adding at most a context that is no entry.
LEMMA OneRunKept ==
  ASSUME IInv, OneRun, InCode, InCode',
         ctxTop' \in {ctxTop - 1, ctxTop, ctxTop + 1}, ctxTop' >= 0,
         \A d \in 0 .. ctxTop : ctxSta'[d] = ctxSta[d],
         ctxTop' = ctxTop + 1 => ~IsEntry(ctxSta'[ctxTop'])
  PROVE  OneRun'
<1>1. ctxTop \in Nat /\ ctxTop \in 0 .. ctxTop /\ 0 \in 0 .. ctxTop
  BY DEF IInv, TypeOK, PcInFunction
<1>2. \A d \in 0 .. ctxTop' : d \in 0 .. ctxTop \/ (d = ctxTop' /\ ctxTop' = ctxTop + 1)
  BY <1>1
<1>3. ctxTop' # -1 /\ ctxTop # -1
  BY <1>1
<1> QED
  BY <1>1, <1>2, <1>3 DEF OneRun, IsEntry

\* A call or a jump stays in the code, so the run in progress goes on.
LEMMA CallOneRun ==
  ASSUME MaxDepth < DEFAULT_STACK_SIZE, IInv, OneRun,
         NEW op \in {"call", "call_indirect"}, Dispatch(op),
         NEW callee, Func_prologue(callee)
  PROVE  OneRun'
<1>1. /\ InCode /\ Table[cur.pc].op = op /\ cur.func \in Interns
      /\ cur.pc \in Body(cur.func) /\ cur.pc \in 0 .. EndPc - 1
  BY DispatchFacts DEF Ops, InCode
<1>2. /\ cur \in Context /\ TypeOK /\ ctxCap = DEFAULT_STACK_SIZE
      /\ ctxTop \in Nat /\ ctxTop < MaxDepth /\ Push(cur)
  BY <1>1 DEF IInv, TypeOK, StackShape, PcInFunction,
              Func_prologue, Prologue_intern, Prologue_extern
<1>3. ctxTop + 1 < ctxCap
  BY <1>2, SizeAssumption DEF TypeOK
<1>4. /\ ctxSta'[ctxTop + 1] = cur
      /\ \A d \in 0 .. ctxTop : ctxSta'[d] = ctxSta[d]
  BY <1>2, <1>3, PushInStorage
<1>5. ~IsEntry(cur)
  BY <1>1, SizeAssumption DEF IsEntry
<1>6. CASE Prologue_intern(callee)
  <2>1. InCode'
    BY <1>6, CodeAssumption DEF Prologue_intern, InCode
  <2>2. ctxTop' = ctxTop + 1
    BY <1>6 DEF Prologue_intern
  <2> QED
    BY <1>1, <1>2, <1>4, <1>5, <2>1, <2>2, OneRunKept
<1>7. CASE Prologue_extern(callee)
  <2>1. cur'.pc = cur.pc + 1 /\ ctxTop' = ctxTop
    BY <1>2, <1>4, <1>7 DEF Prologue_extern, Inc_pc, Context
  <2>2. InCode'
    BY <1>1, <2>1, CodeAssumption DEF InCode
  <2>3. ctxTop' # ctxTop + 1
    BY <1>2, <2>1
  <2> QED
    BY <1>1, <1>2, <1>4, <2>1, <2>2, <2>3, OneRunKept
<1> QED
  BY <1>6, <1>7 DEF Func_prologue

\* Init_env starts a run on an empty stack with the register files at 0.
LEMMA Init_envOneRun ==
  ASSUME MaxDepth < DEFAULT_STACK_SIZE, IInv, OneRun, ~Interactive,
         NEW f \in Interns, Init_env(f)
  PROVE  OneRun'
<1>1. ctxTop = -1 /\ ctxTop' = 0 /\ Push(EntryContext(f)) /\ ctxTop < MaxDepth
  BY DEF Init_env
<1>2. /\ TypeOK /\ cur \in Context /\ ctxCap = DEFAULT_STACK_SIZE /\ FpSync
  BY DEF IInv, TypeOK, StackShape
<1>3. f \in Funcs /\ ctxTop + 1 < ctxCap
  BY <1>1, <1>2, SizeAssumption DEF Interns
<1>4. EntryContext(f) \in Context /\ EntryContext(f).fp = cur.fp
  BY <1>2, <1>3, ContextFacts, SizeAssumption DEF EntryContext, Context
<1>5. ctxSta'[0] = EntryContext(f)
  BY <1>1, <1>2, <1>3, <1>4, PushInStorage
<1>6. InCode'
  BY CodeAssumption DEF Init_env, InCode
<1>7. \A k \in Kinds : cur.fp[k] = 0
  BY <1>1, <1>2 DEF OneRun, FpSync
<1> QED
  BY <1>1, <1>4, <1>5, <1>6, <1>7 DEF OneRun

\* A return ends the run exactly when it empties the stack.
LEMMA ReturnOneRun ==
  ASSUME IInv, OneRun, ~Interactive, Return_am32
  PROVE  OneRun'
<1> DEFINE a == ctxSta[ctxTop]
<1>1. /\ ctxTop' = ctxTop - 1 /\ ctxSta' = ctxSta /\ ctxTop \in Nat
      /\ cur' = Inc_pc(a) /\ a \in Context
  BY DEF Return_am32, IInv, TypeOK
<1>2. Dispatch("return")
  BY DEF Return_am32
<1>3. InCode
  BY <1>2, DispatchFacts DEF Ops
<1>4. IInv'
  BY ReturnInv
<1>5. a.pc \in Int /\ cur'.pc = a.pc + 1 /\ cur'.fp = a.fp
  BY <1>1, ContextFacts DEF Inc_pc, Context
<1>6. CASE IsEntry(a)
  <2>1. ctxTop = 0
    BY <1>1, <1>6 DEF OneRun
  <2>2. \A k \in Kinds : regFp'[k] = 0
    BY <1>1, <1>4, <1>5, <2>1 DEF OneRun, IInv, FpSync
  <2> QED
    BY <1>1, <2>1, <2>2 DEF OneRun
<1>7. CASE ~IsEntry(a)
  <2>1. InCode'
    <3>1. cur'.pc # BreakPc
      BY <1>5, <1>7, SizeAssumption DEF IsEntry, BreakPc
    <3>2. ctxTop \in Suspended
      BY <1>1, <1>7 DEF Suspended
    <3>3. a.func \in Interns /\ a.pc \in Body(a.func)
      BY <3>2 DEF IInv, PcInFunction
    <3>4. a.pc \in Nat
      BY <3>3, CodeAssumption
    <3> QED
      BY <1>4, <1>5, <3>1, <3>4 DEF IInv, PcInFunction, NullPc
  <2>2. ctxTop' >= 0
    BY <1>4, <2>1 DEF IInv, PcInFunction
  <2>3. ctxTop' # ctxTop + 1
    BY <1>1
  <2> QED
    BY <1>1, <1>3, <2>1, <2>2, <2>3, OneRunKept
<1> QED
  BY <1>6, <1>7

\* A step of the host without the debugger, or of the program, keeps OneRun.
LEMMA StepOneRun ==
  ASSUME MaxDepth < DEFAULT_STACK_SIZE, IInv, OneRun, [Next]_vars
  PROVE  OneRun'
<1>1. CASE Interactive
  BY <1>1 DEF OneRun
<1>2. CASE ~Interactive
  <2>1. CASE \E f \in Interns : Init_env(f)
    BY <1>2, <2>1, Init_envOneRun
  <2>2. CASE Call_am32_ofs \/ Call_indirect_am32_r
    BY <2>2, CallOneRun DEF Call_am32_ofs, Call_indirect_am32_r
  <2>3. CASE Return_am32
    BY <1>2, <2>3, ReturnOneRun
  <2>4. ASSUME UNCHANGED <<regs, cur, stack>> PROVE OneRun'
    BY <2>4 DEF OneRun, InCode, IsEntry, regs, stack
  <2>5. ASSUME NEW op \in {"plain", "jmp", "jmp_indirect", "jcc"}, Dispatch(op),
               UNCHANGED <<regs, stack>>, NEW pc \in Int,
               cur' = [cur EXCEPT !.pc = pc], pc \in Body(cur.func)
        PROVE  OneRun'
    <3>1. InCode /\ cur.func \in Interns /\ ctxTop \in Nat
      BY <2>5, DispatchFacts DEF Ops, IInv, TypeOK
    <3>2. InCode'
      BY <2>5, <3>1, CodeAssumption DEF InCode, IInv, TypeOK, Context
    <3> QED
      BY <2>5, <3>1, <3>2 DEF OneRun, IsEntry, regs, stack
  <2>6. CASE Exec_plain \/ Jcc_not_taken
    <3>1. cur.pc + 1 \in Body(cur.func) /\ cur.pc + 1 \in Int
      BY <2>6, DispatchFacts, CodeAssumption DEF Exec_plain, Jcc_not_taken, Ops
    <3> QED
      BY <2>5, <2>6, <3>1 DEF Exec_plain, Jcc_not_taken, Inc_pc
  <2>7. CASE Jmp_am32_ofs \/ Jcc_taken
    <3>1. /\ LabTab[cur.lab][Operand] \in Body(cur.func)
          /\ LabTab[cur.lab][Operand] \in Int
      BY <2>7, DispatchFacts, CodeAssumption
      DEF Jmp_am32_ofs, Jcc_taken, Ops, Operand
    <3> QED
      BY <2>5, <2>7, <3>1 DEF Jmp_am32_ofs, Jcc_taken, Goto
  <2>8. CASE Jmp_indirect_am32_r
    <3>1. PICK lab \in DOMAIN LabTab[cur.lab] : Goto(lab)
      BY <2>8 DEF Jmp_indirect_am32_r
    <3>2. /\ LabTab[cur.lab][lab] \in Body(cur.func)
          /\ LabTab[cur.lab][lab] \in Int
      BY <2>8, <3>1, DispatchFacts, CodeAssumption DEF Jmp_indirect_am32_r, Ops
    <3> QED
      BY <2>5, <2>8, <3>1, <3>2 DEF Jmp_indirect_am32_r, Goto
  <2>9. CASE Exec_start \/ (\E count \in 1 .. MaxCount : Control_start(count))
               \/ Call_exit \/ Exec_abort \/ Break_am32 \/ Exited \/ UNCHANGED vars
    BY <2>4, <2>9
    DEF Exec_start, Control_start, Call_exit, Exec_abort, Break_am32, Exited,
        vars, regs, stack
  <2> QED
    BY <2>1, <2>2, <2>3, <2>6, <2>7, <2>8, <2>9 DEF Next, Host, Step
<1> QED
  BY <1>1, <1>2

\* A machine that no debugger drives leaves nothing behind: at the end of every
\* run the context stack is empty and all register files are back at 0.
THEOREM RunsLeaveNothing ==
  ASSUME MaxDepth < DEFAULT_STACK_SIZE
  PROVE  Spec => []NoLeak
<1>1. Init => OneRun
  BY DEF Init, OneRun
<1>2. IInv /\ OneRun /\ [Next]_vars => OneRun'
  BY StepOneRun
<1>3. OneRun => NoLeak
  <2>1. cur.pc = BreakPc => ~InCode
    BY SizeAssumption DEF InCode, BreakPc
  <2> QED
    BY <2>1 DEF OneRun, NoLeak
<1> QED
  BY <1>1, <1>2, <1>3, MachineInvariant, PTL DEF Spec

-----------------------------------------------------------------------------
(***************************************************************************)
(* The machine implements Calls, for every loaded module, every register   *)
(* layout and every interleaving of host, debugger and program: what the   *)
(* context stack holds above the newest entry context, with the current    *)
(* context on top, is the sequence of activations that Calls speaks of.    *)
(*                                                                         *)
(* The inductive invariant above says that frame pointers are              *)
(* restored and that saved contexts stand at calls.  The refinement needs  *)
(* HasBase as well: whenever code is executed there is an entry context,   *)
(* so that the newest one is defined.                                      *)
(***************************************************************************)

\* The context d is the newest entry context.
IsBase(d) ==
  /\ d \in 0 .. ctxTop
  /\ IsEntry(ctxSta[d])
  /\ \A e \in d + 1 .. ctxTop : ~IsEntry(ctxSta[e])

\* Code is executed on behalf of a run only.
HasBase == InCode => \E d : IsBase(d)

Act == [func : Int, pc : Int, base : [Kinds -> Nat]]

\* The activation a context stands for.
ActOf(c) == [func |-> c.func, pc |-> c.pc, base |-> c.fp]

\* The activations of a stack sta whose top slot is top, whose newest entry
\* context is d, under the current context c.
ActsOf(sta, top, d, c) ==
  [i \in 1 .. top - d + 1 |-> ActOf(IF i = top - d + 1 THEN c ELSE sta[d + i])]

-----------------------------------------------------------------------------
(***************************************************************************)
(* The sequence of activations, and what pushing and popping do to it.     *)
(***************************************************************************)

\* The newest entry context is unique, so RunBase finds it.
LEMMA NewestEntry ==
  ASSUME NEW sta, NEW top \in Int, NEW d \in 0 .. top, IsEntry(sta[d]),
         \A e \in d + 1 .. top : ~IsEntry(sta[e])
  PROVE  d = CHOOSE x \in 0 .. top :
               IsEntry(sta[x]) /\ \A e \in x + 1 .. top : ~IsEntry(sta[e])
<1> DEFINE P(x) == IsEntry(sta[x]) /\ \A e \in x + 1 .. top : ~IsEntry(sta[e])
           c == CHOOSE x \in 0 .. top : P(x)
<1>1. P(d)
  OBVIOUS
<1>2. c \in 0 .. top /\ P(c)
  <2> HIDE DEF P
  <2> QED
    BY <1>1
<1>3. ASSUME c < d PROVE FALSE
  <2>1. d \in c + 1 .. top
    BY <1>2, <1>3
  <2> QED
    BY <1>2, <2>1
<1>4. ASSUME d < c PROVE FALSE
  <2>1. c \in d + 1 .. top
    BY <1>2, <1>4
  <2> QED
    BY <1>2, <2>1
<1> HIDE DEF c
<1>5. c = d
  BY <1>2, <1>3, <1>4
<1> QED
  BY <1>5 DEF c

\* The activation of a context.
LEMMA ActFacts ==
  ASSUME NEW c \in Context
  PROVE  /\ ActOf(c) \in Act
         /\ ActOf(c).func = c.func /\ ActOf(c).pc = c.pc /\ ActOf(c).base = c.fp
  BY ContextFacts, SizeAssumption DEF ActOf, Act, Funcs

\* The activations form a sequence that is never empty; the last one is that of
\* the current context.
LEMMA ActsFacts ==
  ASSUME NEW top \in Int, NEW d \in 0 .. top, NEW c \in Context,
         NEW sta, \A e \in 0 .. top : sta[e] \in Context
  PROVE  /\ ActsOf(sta, top, d, c) \in Seq(Act)
         /\ Len(ActsOf(sta, top, d, c)) = top - d + 1
         /\ top - d + 1 \in Nat \ {0}
         /\ ActsOf(sta, top, d, c)[top - d + 1] = ActOf(c)
         /\ \A i \in 1 .. top - d :
              ActsOf(sta, top, d, c)[i] = ActOf(sta[d + i])
<1> DEFINE n == top - d + 1
           s == ActsOf(sta, top, d, c)
<1>1. n \in Nat /\ n # 0
  OBVIOUS
<1>2. \A i \in 1 .. n : i # n => i \in 1 .. top - d /\ d + i \in 0 .. top
  OBVIOUS
<1>3. \A i \in 1 .. n : (IF i = n THEN c ELSE sta[d + i]) \in Context
  BY <1>2
<1>4. \A i \in 1 .. n : ActOf(IF i = n THEN c ELSE sta[d + i]) \in Act
  BY <1>3, ActFacts
<1>5. s = [i \in 1 .. n |-> ActOf(IF i = n THEN c ELSE sta[d + i])]
  BY DEF ActsOf
<1>6. s \in [1 .. n -> Act]
  BY <1>4, <1>5
<1>7. s[n] = ActOf(c)
  BY <1>1, <1>5
<1>8. \A i \in 1 .. top - d : i \in 1 .. n /\ i # n
  OBVIOUS
<1>9. \A i \in 1 .. top - d : s[i] = ActOf(sta[d + i])
  BY <1>5, <1>8
<1> HIDE DEF n, s
<1>10. s \in Seq(Act) /\ Len(s) = n
  BY <1>1, <1>6
<1> QED
  BY <1>1, <1>7, <1>9, <1>10 DEF n, s

\* Right above an entry context there is one activation.
LEMMA ActsSingle ==
  ASSUME NEW d \in Nat, NEW c \in Context,
         NEW sta, \A e \in 0 .. d : sta[e] \in Context
  PROVE  Len(ActsOf(sta, d, d, c)) = 1 /\ ActsOf(sta, d, d, c)[1] = ActOf(c)
<1>1. PICK top \in Nat : top = d
  OBVIOUS
<1>2. top \in Int /\ d \in 0 .. top
  BY <1>1
<1>3. \A e \in 0 .. top : sta[e] \in Context
  BY <1>1
<1>4. /\ Len(ActsOf(sta, top, d, c)) = top - d + 1
      /\ ActsOf(sta, top, d, c)[top - d + 1] = ActOf(c)
  BY ONLY <1>2, <1>3, c \in Context, ActsFacts
<1>5. top - d + 1 = 1
  BY <1>1
<1> QED
  BY <1>1, <1>4, <1>5

\* Saving the current context and going on with c2 appends an activation.
LEMMA ActsPushed ==
  ASSUME NEW top \in Int, NEW d \in 0 .. top,
         NEW c \in Context, NEW c2 \in Context,
         NEW sta, \A e \in 0 .. top : sta[e] \in Context,
         NEW sta2, \A e \in 0 .. top : sta2[e] = sta[e], sta2[top + 1] = c
  PROVE  ActsOf(sta2, top + 1, d, c2) = Append(ActsOf(sta, top, d, c), ActOf(c2))
<1> DEFINE n == top - d + 1
           s == ActsOf(sta, top, d, c)
           t == ActsOf(sta2, top + 1, d, c2)
           u == Append(s, ActOf(c2))
<1>1. /\ s \in Seq(Act) /\ Len(s) = n /\ n \in Nat \ {0} /\ s[n] = ActOf(c)
      /\ \A i \in 1 .. top - d : s[i] = ActOf(sta[d + i])
  BY ONLY top \in Int, d \in 0 .. top, c \in Context,
          \A e \in 0 .. top : sta[e] \in Context, ActsFacts
<1>2. /\ t \in Seq(Act) /\ Len(t) = n + 1 /\ t[n + 1] = ActOf(c2)
      /\ \A i \in 1 .. n : t[i] = ActOf(sta2[d + i])
  <2>1. top + 1 \in Int /\ d \in 0 .. top + 1
    OBVIOUS
  <2>2. \A e \in 0 .. top + 1 : sta2[e] \in Context
    <3> TAKE e \in 0 .. top + 1
    <3>1. e \in 0 .. top \/ e = top + 1
      OBVIOUS
    <3> QED
      BY <3>1
  <2>3. /\ t \in Seq(Act) /\ Len(t) = (top + 1) - d + 1
        /\ t[(top + 1) - d + 1] = ActOf(c2)
        /\ \A i \in 1 .. (top + 1) - d : t[i] = ActOf(sta2[d + i])
    BY ONLY <2>1, <2>2, c2 \in Context, ActsFacts
  <2>4. (top + 1) - d + 1 = n + 1 /\ (top + 1) - d = n
    OBVIOUS
  <2> QED
    BY <2>3, <2>4
<1>3. /\ u \in Seq(Act) /\ Len(u) = n + 1 /\ u[n + 1] = ActOf(c2)
      /\ \A i \in 1 .. n : u[i] = s[i]
  BY <1>1, ActFacts, AppendProperties
<1>4. \A i \in 1 .. n + 1 : t[i] = u[i]
  <2> TAKE i \in 1 .. n + 1
  <2>1. CASE i = n + 1
    BY <2>1, <1>2, <1>3
  <2>2. CASE i = n
    <3>1. i \in 1 .. n /\ d + i = top + 1
      BY <2>2, <1>1
    <3> QED
      BY <2>2, <3>1, <1>1, <1>2, <1>3
  <2>3. CASE i \in 1 .. top - d
    <3>1. i \in 1 .. n /\ d + i \in 0 .. top
      BY <2>3
    <3> QED
      BY <2>3, <3>1, <1>1, <1>2, <1>3
  <2>4. i = n + 1 \/ i = n \/ i \in 1 .. top - d
    OBVIOUS
  <2> QED
    BY <2>1, <2>2, <2>3, <2>4
<1> HIDE DEF s, t, u, n
<1>5. t = u
  BY <1>2, <1>3, <1>4, SeqEqual
<1> QED
  BY <1>5 DEF s, t, u

\* Replacing the current context replaces the last activation.
LEMMA ActsMoved ==
  ASSUME NEW top \in Int, NEW d \in 0 .. top,
         NEW c \in Context, NEW c2 \in Context,
         NEW sta, \A e \in 0 .. top : sta[e] \in Context,
         NEW sta2, \A e \in 0 .. top : sta2[e] = sta[e]
  PROVE  LET s == ActsOf(sta, top, d, c)
         IN  ActsOf(sta2, top, d, c2) = [s EXCEPT ![Len(s)] = ActOf(c2)]
<1> DEFINE n == top - d + 1
           s == ActsOf(sta, top, d, c)
           t == ActsOf(sta2, top, d, c2)
           u == [s EXCEPT ![Len(s)] = ActOf(c2)]
<1>1. /\ s \in Seq(Act) /\ Len(s) = n /\ n \in Nat \ {0}
      /\ \A i \in 1 .. top - d : s[i] = ActOf(sta[d + i])
  BY ActsFacts
<1>2. /\ t \in Seq(Act) /\ Len(t) = n /\ t[n] = ActOf(c2)
      /\ \A i \in 1 .. top - d : t[i] = ActOf(sta2[d + i])
  <2>1. \A e \in 0 .. top : sta2[e] \in Context
    OBVIOUS
  <2> QED
    BY <2>1, ActsFacts
<1>3. /\ u \in Seq(Act) /\ Len(u) = n
      /\ \A i \in 1 .. n : u[i] = IF i = n THEN ActOf(c2) ELSE s[i]
  <2>1. Len(s) \in 1 .. Len(s) /\ ActOf(c2) \in Act
    BY <1>1, ActFacts
  <2> HIDE DEF s
  <2> QED
    BY <1>1, <2>1, ExceptSeq
<1>4. \A i \in 1 .. n : t[i] = u[i]
  <2> TAKE i \in 1 .. n
  <2>1. CASE i = n
    BY <2>1, <1>2, <1>3
  <2>2. CASE i # n
    <3>1. i \in 1 .. top - d /\ d + i \in 0 .. top
      BY <2>2
    <3> QED
      BY <2>2, <3>1, <1>1, <1>2, <1>3
  <2> QED
    BY <2>1, <2>2
<1> HIDE DEF s, t, u, n
<1>5. t = u
  BY <1>2, <1>3, <1>4, SeqEqual
<1> QED
  BY <1>5 DEF s, t, u

\* Popping a context that is no entry drops the last activation.
LEMMA ActsPopped ==
  ASSUME NEW top \in Int, NEW d \in 0 .. top, d < top, NEW c \in Context,
         NEW sta, \A e \in 0 .. top : sta[e] \in Context
  PROVE  LET s == ActsOf(sta, top, d, c)
             rest == SubSeq(s, 1, Len(s) - 1)
         IN  rest = ActsOf(sta, top - 1, d, sta[top]) /\ rest # << >>
<1> DEFINE n == top - d
           s == ActsOf(sta, top, d, c)
           t == ActsOf(sta, top - 1, d, sta[top])
           u == SubSeq(s, 1, Len(s) - 1)
<1>1. /\ s \in Seq(Act) /\ Len(s) = n + 1 /\ n \in Nat \ {0}
      /\ \A i \in 1 .. n : s[i] = ActOf(sta[d + i])
  BY ActsFacts
<1>2. /\ t \in Seq(Act) /\ Len(t) = n /\ t[n] = ActOf(sta[top])
      /\ \A i \in 1 .. n - 1 : t[i] = ActOf(sta[d + i])
  <2>1. /\ top - 1 \in Int /\ d \in 0 .. top - 1 /\ top \in 0 .. top
        /\ \A e \in 0 .. top - 1 : e \in 0 .. top
    OBVIOUS
  <2>2. /\ \A e \in 0 .. top - 1 : sta[e] \in Context
        /\ sta[top] \in Context
    BY <2>1
  <2>3. /\ t \in Seq(Act) /\ Len(t) = (top - 1) - d + 1
        /\ t[(top - 1) - d + 1] = ActOf(sta[top])
        /\ \A i \in 1 .. (top - 1) - d : t[i] = ActOf(sta[d + i])
    BY ONLY <2>1, <2>2, ActsFacts
  <2>4. (top - 1) - d + 1 = n /\ (top - 1) - d = n - 1
    OBVIOUS
  <2> QED
    BY <2>3, <2>4
<1>3. u \in Seq(Act) /\ Len(u) = n /\ \A i \in 1 .. n : u[i] = s[i]
  <2>1. Len(s) - 1 = n /\ n \in Int /\ 1 \in Int /\ \A i \in 1 .. n : s[i] \in Act
    BY <1>1
  <2> HIDE DEF s, n
  <2>2. /\ u \in Seq(Act)
        /\ Len(u) = IF 1 <= n THEN n - 1 + 1 ELSE 0
        /\ \A i \in 1 .. n - 1 + 1 : u[i] = s[1 + i - 1]
    BY <2>1, SubSeqProperties
  <2> HIDE DEF u
  <2>3. n - 1 + 1 = n /\ \A i \in 1 .. n : 1 + i - 1 = i
    BY <1>1
  <2> QED
    BY <1>1, <2>2, <2>3
<1>4. \A i \in 1 .. n : t[i] = u[i]
  <2> TAKE i \in 1 .. n
  <2>1. CASE i = n
    <3>1. d + n = top
      OBVIOUS
    <3> QED
      BY <2>1, <3>1, <1>1, <1>2, <1>3
  <2>2. CASE i # n
    <3>1. i \in 1 .. n - 1
      BY <2>2
    <3> QED
      BY <3>1, <1>1, <1>2, <1>3
  <2> QED
    BY <2>1, <2>2
<1> HIDE DEF s, t, u, n
<1>5. t = u /\ u # << >>
  BY <1>1, <1>2, <1>3, <1>4, SeqEqual
<1> QED
  BY <1>5 DEF s, t, u

-----------------------------------------------------------------------------
(***************************************************************************)
(* The activations of the machine, before and after a step.                *)
(***************************************************************************)

\* What the invariant says of the saved contexts and the register files.
LEMMA StackFacts ==
  ASSUME IInv
  PROVE  /\ ctxTop \in Int /\ cur \in Context /\ regFp = cur.fp
         /\ \A e \in 0 .. ctxTop : ctxSta[e] \in Context
<1>1. /\ ctxTop \in -1 .. ctxCap /\ ctxCap \in Nat /\ cur \in Context
      /\ ctxSta \in [0 .. ctxCap -> Context] /\ regFp \in [Kinds -> Nat]
  BY DEF IInv, TypeOK
<1>2. regFp = cur.fp
  BY <1>1, ContextFacts DEF IInv, FpSync
<1>3. \A e \in 0 .. ctxTop : e \in 0 .. ctxCap
  BY <1>1
<1> QED
  BY <1>1, <1>2, <1>3

\* While code is executed, the refinement mapping is ActsOf.
LEMMA ActivationsNow ==
  ASSUME IInv, InCode, NEW d, IsBase(d)
  PROVE  Activations = ActsOf(ctxSta, ctxTop, d, cur)
<1>1. ctxTop \in Int /\ regFp = cur.fp /\ d \in 0 .. ctxTop
  BY StackFacts DEF IsBase
<1>2. RunBase = d
  BY <1>1, NewestEntry DEF RunBase, IsBase
<1> QED
  BY <1>1, <1>2 DEF Activations, ActsOf, ActOf

\* The same in the state a step leads to.
LEMMA ActivationsNext ==
  ASSUME IInv', InCode', NEW d, IsBase(d)'
  PROVE  Activations' = ActsOf(ctxSta', ctxTop', d, cur')
<1>1. ctxTop' \in Int /\ regFp' = cur'.fp /\ d \in 0 .. ctxTop'
  <2>1. /\ ctxTop' \in Int /\ cur' \in Context /\ regFp' \in [Kinds -> Nat]
        /\ d \in 0 .. ctxTop'
    BY DEF IInv, TypeOK, IsBase
  <2> QED
    BY <2>1, ContextFacts DEF IInv, FpSync
<1>2. RunBase' = d
  BY <1>1, NewestEntry DEF RunBase, IsBase
<1> QED
  BY <1>1, <1>2 DEF Activations, ActsOf, ActOf

\* The last activation is that of the running function.
LEMMA LastActivation ==
  ASSUME IInv, InCode, HasBase
  PROVE  /\ Activations \in Seq(Act) /\ Activations # << >>
         /\ Len(Activations) \in 1 .. Len(Activations)
         /\ Abstract!Last = ActOf(cur)
         /\ Abstract!Last.func = cur.func /\ Abstract!Last.pc = cur.pc
         /\ Abstract!Last.base = cur.fp
<1>1. PICK d : IsBase(d)
  BY DEF HasBase
<1>2. Activations = ActsOf(ctxSta, ctxTop, d, cur)
  BY <1>1, ActivationsNow
<1>3. /\ Activations \in Seq(Act) /\ Len(Activations) = ctxTop - d + 1
      /\ Len(Activations) \in Nat \ {0}
      /\ Activations[ctxTop - d + 1] = ActOf(cur)
  BY <1>1, <1>2, StackFacts, ActsFacts DEF IsBase
<1>4. Abstract!Last = ActOf(cur)
  BY <1>3 DEF Abstract!Last
<1> QED
  BY <1>3, <1>4, StackFacts, ActFacts

\* A step that leaves current context, context stack and register files alone
\* leaves the activations alone.
LEMMA SameActivations ==
  ASSUME UNCHANGED <<regs, cur, stack>>
  PROVE  /\ Activations' = Activations
         /\ HasBase => HasBase'
<1> USE DEF regs, stack
<1>1. InCode' = InCode /\ RunBase' = RunBase
  BY DEF InCode, RunBase, IsEntry
<1>2. \A d : IsBase(d) => IsBase(d)'
  BY DEF IsBase, IsEntry
<1> QED
  BY <1>1, <1>2 DEF Activations, HasBase

\* A step of an instruction that stays in its function moves the last activation.
LEMMA MovedActivation ==
  ASSUME IInv, IInv', InCode, HasBase, NEW pc \in Body(cur.func),
         cur' = [cur EXCEPT !.pc = pc], ctxTop' = ctxTop,
         \A e \in 0 .. ctxTop : ctxSta'[e] = ctxSta[e]
  PROVE  /\ HasBase'
         /\ Activations' = [Activations EXCEPT ![Len(Activations)].pc = pc]
<1>1. PICK d : IsBase(d)
  BY DEF HasBase
<1>2. /\ ctxTop \in Int /\ cur \in Context /\ d \in 0 .. ctxTop
      /\ \A e \in 0 .. ctxTop : ctxSta[e] \in Context
  BY <1>1, StackFacts DEF IsBase
<1>3. cur' \in Context
  BY DEF IInv, TypeOK
<1>4. InCode'
  <2>1. pc \in 0 .. EndPc - 1
    BY CodeAssumption DEF IInv, PcInFunction
  <2> QED
    BY <1>2, <2>1 DEF InCode, Context
<1>5. IsBase(d)'
  <2>1. \A e \in d + 1 .. ctxTop : e \in 0 .. ctxTop
    BY <1>2
  <2> QED
    BY <1>1, <1>2, <2>1 DEF IsBase, IsEntry
<1>6. /\ Activations = ActsOf(ctxSta, ctxTop, d, cur)
      /\ Activations' = ActsOf(ctxSta', ctxTop, d, cur')
  BY <1>1, <1>4, <1>5, ActivationsNow, ActivationsNext
<1>7. Activations' = [Activations EXCEPT ![Len(Activations)] = ActOf(cur')]
  BY <1>2, <1>3, <1>6, ActsMoved
<1>8. Activations[Len(Activations)] = ActOf(cur)
  BY LastActivation DEF Abstract!Last
<1>9. ActOf(cur') = [ActOf(cur) EXCEPT !.pc = pc]
  BY <1>2 DEF ActOf, Context
<1> QED
  BY <1>5, <1>7, <1>8, <1>9 DEF HasBase

-----------------------------------------------------------------------------
(***************************************************************************)
(* Every step of the machine is a step of Calls, or none.                  *)
(***************************************************************************)

\* The functions, kinds and bodies of Calls are those of the machine.
LEMMA SameTables ==
  /\ Abstract!Interns = Interns
  /\ Abstract!Kinds = Kinds
  /\ \A f : Abstract!Body(f) = Body(f)
  BY DEF Abstract!Interns, Abstract!Kinds, Abstract!Body, Interns, Funcs, Kinds, Body

\* An instruction that Dispatch hands to its handler takes a turn of Calls.
LEMMA TurnTaken ==
  ASSUME IInv, HasBase, NEW op \in Ops \ {"break"}, Dispatch(op)
  PROVE  /\ InCode /\ Abstract!Turn
         /\ Table[Abstract!Last.pc].op = op
         /\ Abstract!Last.func = cur.func /\ Abstract!Last.pc = cur.pc
         /\ Abstract!Last.base = cur.fp
<1>1. InCode /\ Table[cur.pc].op = op /\ mode = "running" /\ mode' \in {"idle", "running"}
  BY DispatchFacts DEF Dispatch
<1> QED
  BY <1>1, LastActivation DEF Abstract!Turn

\* Init_env is Enter: the activations left of an interrupted run are hidden by
\* the entry context it pushes.
LEMMA Init_envEnters ==
  ASSUME MaxDepth < DEFAULT_STACK_SIZE, IInv, NEW f \in Interns, Init_env(f)
  PROVE  HasBase' /\ Abstract!Enter(f)
<1>1. IInv'
  BY Init_envInv
<1>2. /\ mode = "idle" /\ mode' = mode /\ ctxTop < MaxDepth
      /\ Push(EntryContext(f)) /\ ctxTop' = ctxTop + 1
      /\ cur'.func = f /\ cur'.pc = FuncBase[f]
  BY DEF Init_env
<1>3. /\ TypeOK /\ cur \in Context /\ ctxCap = DEFAULT_STACK_SIZE
      /\ ctxTop \in Int /\ ctxTop >= -1
  BY DEF IInv, TypeOK, StackShape
<1>4. f \in Funcs /\ ctxTop + 1 < ctxCap
  BY <1>2, <1>3, SizeAssumption DEF Interns
<1>5. EntryContext(f) \in Context /\ IsEntry(EntryContext(f))
  BY <1>3, <1>4, ContextFacts, SizeAssumption DEF EntryContext, Context, IsEntry
<1>6. ctxSta'[ctxTop + 1] = EntryContext(f)
  BY <1>2, <1>3, <1>4, <1>5, PushInStorage
<1>7. PICK d : d = ctxTop + 1
  OBVIOUS
<1>8. InCode'
  BY <1>2, CodeAssumption DEF InCode
<1>9. d = ctxTop' /\ d \in Nat /\ IsBase(d)'
  BY <1>2, <1>3, <1>5, <1>6, <1>7 DEF IsBase, IsEntry
<1>10. Activations' = ActsOf(ctxSta', d, d, cur')
  BY <1>1, <1>8, <1>9, ActivationsNext
<1>11. cur' \in Context /\ \A e \in 0 .. d : ctxSta'[e] \in Context
  <2>1. /\ cur' \in Context /\ d \in 0 .. ctxCap' /\ ctxCap' \in Nat
        /\ ctxSta' \in [0 .. ctxCap' -> Context]
    BY <1>1, <1>9 DEF IInv, TypeOK
  <2>2. \A e \in 0 .. d : e \in 0 .. ctxCap'
    BY <2>1
  <2> QED
    BY <2>1, <2>2
<1>12. Len(Activations') = 1 /\ Activations'[1] = ActOf(cur')
  BY <1>9, <1>10, <1>11, ActsSingle
<1>13. Activations'[1] = Abstract!Activation(f, Activations'[1].base)
  BY <1>2, <1>12 DEF ActOf, Abstract!Activation
<1> QED
  BY <1>2, <1>9, <1>12, <1>13 DEF Abstract!Enter, HasBase

\* An instruction that neither calls nor returns stays inside the activation.
LEMMA MoveStaysInside ==
  ASSUME IInv, IInv', HasBase,
         NEW op \in {"plain", "jmp", "jmp_indirect", "jcc"}, Dispatch(op),
         NEW pc \in Body(cur.func), cur' = [cur EXCEPT !.pc = pc],
         UNCHANGED <<regs, stack>>
  PROVE  HasBase' /\ Abstract!Inside
<1>1. /\ InCode /\ Abstract!Turn /\ Table[Abstract!Last.pc].op = op
      /\ Abstract!Last.func = cur.func
  BY TurnTaken DEF Ops
<1>2. /\ HasBase'
      /\ Activations' = [Activations EXCEPT ![Len(Activations)].pc = pc]
  BY <1>1, MovedActivation DEF stack
<1>3. pc \in Abstract!Body(Abstract!Last.func)
  BY <1>1, SameTables
<1> QED
  BY <1>1, <1>2, <1>3 DEF Abstract!Inside

\* Func_prologue is Call: a function with a body gets an activation of its own,
\* an external one leaves the caller behind its call.
LEMMA PrologueCalls ==
  ASSUME MaxDepth < DEFAULT_STACK_SIZE, IInv, IInv', HasBase,
         NEW op \in {"call", "call_indirect"}, Dispatch(op),
         NEW callee \in Funcs, Func_prologue(callee),
         op = "call" => callee = Operand
  PROVE  HasBase' /\ Abstract!Call(callee)
<1>1. /\ InCode /\ Abstract!Turn /\ Table[Abstract!Last.pc].op = op
      /\ Abstract!Last.func = cur.func /\ Abstract!Last.pc = cur.pc
      /\ Abstract!Last.base = cur.fp
  BY TurnTaken DEF Ops
<1>2. \/ /\ Table[Abstract!Last.pc].op = "call"
         /\ Table[Abstract!Last.pc].arg = callee
      \/ Table[Abstract!Last.pc].op = "call_indirect"
  BY <1>1 DEF Operand
<1>3. /\ cur \in Context /\ TypeOK /\ ctxCap = DEFAULT_STACK_SIZE
      /\ ctxTop \in Nat /\ ctxTop < MaxDepth /\ Push(cur)
      /\ cur.func \in Interns /\ cur.pc \in Body(cur.func)
      /\ cur.pc \in 0 .. EndPc - 1
      /\ \A e \in 0 .. ctxTop : ctxSta[e] \in Context
  <2>1. /\ cur \in Context /\ TypeOK /\ ctxCap = DEFAULT_STACK_SIZE
        /\ ctxTop \in Nat /\ cur.func \in Interns /\ cur.pc \in Body(cur.func)
        /\ cur.pc \in 0 .. EndPc - 1
    BY <1>1 DEF IInv, TypeOK, StackShape, PcInFunction, InCode
  <2>2. ctxTop < MaxDepth /\ Push(cur)
    BY DEF Func_prologue, Prologue_intern, Prologue_extern
  <2> QED
    BY <2>1, <2>2, StackFacts
<1>4. ctxTop + 1 < ctxCap
  BY <1>3, SizeAssumption DEF TypeOK
<1>5. /\ ctxSta'[ctxTop + 1] = cur
      /\ \A e \in 0 .. ctxTop : ctxSta'[e] = ctxSta[e]
  BY <1>3, <1>4, PushInStorage
<1>6. ~IsEntry(cur)
  BY <1>3, SizeAssumption DEF IsEntry
<1>7. CASE Prologue_intern(callee)
  <2>1. /\ ctxTop' = ctxTop + 1 /\ callee \notin Externs /\ callee \in Interns
        /\ cur'.func = callee /\ cur'.pc = FuncBase[callee]
        /\ regFp' = Shifted(cur.func)
    BY <1>7 DEF Prologue_intern, Interns
  <2>2. /\ regFp = cur.fp /\ regFp' = cur'.fp /\ cur' \in Context
    <3>1. cur' \in Context /\ regFp' \in [Kinds -> Nat]
      BY DEF IInv, TypeOK
    <3> QED
      BY <3>1, StackFacts, ContextFacts DEF IInv, FpSync
  <2>3. InCode'
    BY <2>1, CodeAssumption DEF InCode
  <2>4. PICK d : IsBase(d)
    BY <1>1 DEF HasBase
  <2>5. d \in 0 .. ctxTop /\ d \in 0 .. ctxTop' /\ d \in Int
    BY <1>3, <2>1, <2>4 DEF IsBase
  <2>6. IsBase(d)'
    <3>1. IsEntry(ctxSta'[d])
      BY <1>5, <2>4 DEF IsBase
    <3>2. \A e \in d + 1 .. ctxTop' : ~IsEntry(ctxSta'[e])
      <4> TAKE e \in d + 1 .. ctxTop'
      <4>1. CASE e = ctxTop + 1
        BY <4>1, <1>5, <1>6
      <4>2. CASE e \in d + 1 .. ctxTop
        <5>1. e \in 0 .. ctxTop
          BY <4>2, <2>5
        <5> QED
          BY <4>2, <5>1, <1>5, <2>4 DEF IsBase
      <4>3. e = ctxTop + 1 \/ e \in d + 1 .. ctxTop
        BY <1>3, <2>1, <2>5
      <4> QED
        BY <4>1, <4>2, <4>3
    <3> QED
      BY <2>5, <3>1, <3>2 DEF IsBase, IsEntry
  <2>7. /\ Activations = ActsOf(ctxSta, ctxTop, d, cur)
        /\ Activations' = ActsOf(ctxSta', ctxTop + 1, d, cur')
    BY <1>1, <2>1, <2>3, <2>4, <2>6, ActivationsNow, ActivationsNext
  <2>8. Activations' = Append(Activations, ActOf(cur'))
    <3>1. ctxTop \in Int
      BY <1>3
    <3> QED
      BY <1>3, <1>5, <2>2, <2>5, <2>7, <3>1, ActsPushed
  <2>9. ActOf(cur') = Abstract!Activation(callee,
          [k \in Abstract!Kinds |->
             Abstract!Last.base[k] + Local[Abstract!Last.func][k]])
    BY <1>1, <2>1, <2>2, SameTables DEF ActOf, Abstract!Activation, Shifted
  <2> QED
    BY <1>1, <1>2, <2>1, <2>6, <2>8, <2>9 DEF Abstract!Call, HasBase
<1>8. CASE Prologue_extern(callee)
  <2>1. /\ ctxTop' = ctxTop /\ callee \in Externs /\ cur' = Inc_pc(cur)
    BY <1>5, <1>8 DEF Prologue_extern
  <2>2. cur.pc + 1 \in Body(cur.func) /\ cur' = [cur EXCEPT !.pc = cur.pc + 1]
    <3>1. Table[cur.pc].op = op
      BY <1>1
    <3> QED
      BY <1>3, <2>1, <3>1, CodeAssumption DEF Inc_pc
  <2>3. /\ HasBase'
        /\ Activations' = [Activations EXCEPT ![Len(Activations)].pc = cur.pc + 1]
    BY <1>1, <1>5, <2>1, <2>2, MovedActivation
  <2>4. Activations[Len(Activations)].pc = cur.pc
    BY <1>1 DEF Abstract!Last
  <2>5. Activations' = [Activations EXCEPT ![Len(Activations)] = Abstract!Advance(@)]
    BY <2>3, <2>4 DEF Abstract!Advance
  <2> QED
    BY <1>1, <1>2, <2>1, <2>3, <2>5 DEF Abstract!Call
<1> QED
  BY <1>7, <1>8 DEF Func_prologue

\* Return_am32 is Return: the caller goes on behind its call, or, when the entry
\* context is popped, the run has no activation left.
LEMMA ReturnReturns ==
  ASSUME IInv, IInv', HasBase, Return_am32
  PROVE  HasBase' /\ Abstract!Return
<1> DEFINE a == ctxSta[ctxTop]
<1>1. Dispatch("return")
  BY DEF Return_am32
<1>2. InCode /\ Abstract!Turn /\ Table[Abstract!Last.pc].op = "return"
  BY <1>1, TurnTaken DEF Ops
<1>3. /\ ctxTop' = ctxTop - 1 /\ ctxSta' = ctxSta /\ cur' = Inc_pc(a)
      /\ ctxTop >= 0
  BY DEF Return_am32
<1>4. /\ ctxTop \in Int /\ cur \in Context /\ cur' \in Context /\ ctxTop \in 0 .. ctxTop
      /\ \A e \in 0 .. ctxTop : ctxSta[e] \in Context
  BY <1>3, StackFacts DEF IInv, TypeOK
<1>5. a \in Context /\ a.pc \in Int /\ cur'.pc = a.pc + 1
  BY <1>3, <1>4, ContextFacts DEF Inc_pc, Context
<1>6. PICK d : IsBase(d)
  BY <1>2 DEF HasBase
<1>7. d \in 0 .. ctxTop /\ d \in Int
  BY <1>4, <1>6 DEF IsBase
<1>8. Activations = ActsOf(ctxSta, ctxTop, d, cur)
  BY <1>2, <1>6, ActivationsNow
<1> DEFINE rest == SubSeq(Activations, 1, Len(Activations) - 1)
<1>9. CASE d = ctxTop
  <2>1. IsEntry(a)
    BY <1>6, <1>9 DEF IsBase
  <2>2. ~InCode'
    BY <1>5, <2>1, SizeAssumption DEF IsEntry, InCode
  <2>3. Activations' = << >>
    BY <2>2 DEF Activations
  <2>4. Len(Activations) = 1
    <3>1. d \in Nat /\ \A e \in 0 .. d : ctxSta[e] \in Context
      BY <1>4, <1>7, <1>9
    <3>2. Activations = ActsOf(ctxSta, d, d, cur)
      BY <1>8, <1>9
    <3> QED
      BY <1>4, <3>1, <3>2, ActsSingle
  <2>5. rest = << >>
    <3>1. Len(Activations) - 1 \in Int /\ Len(Activations) - 1 < 1 /\ 1 \in Int
      BY <2>4
    <3> QED
      BY <3>1, SubSeqEmpty
  <2> QED
    BY <1>2, <2>2, <2>3, <2>5 DEF Abstract!Return, HasBase
<1>10. CASE d # ctxTop
  <2>1. d < ctxTop /\ d \in 0 .. ctxTop - 1 /\ ctxTop \in d + 1 .. ctxTop
    BY <1>4, <1>7, <1>10
  <2>2. ~IsEntry(a)
    BY <1>6, <2>1 DEF IsBase
  <2>3. a.func \in Interns /\ a.pc + 1 \in Body(a.func)
    <3>1. ctxTop \in Suspended
      BY <1>4, <2>2 DEF Suspended
    <3> QED
      BY <3>1, CodeAssumption DEF IInv, PcInFunction
  <2>4. InCode'
    BY <1>5, <2>3, CodeAssumption DEF InCode
  <2>5. IsBase(d)'
    <3>1. \A e \in d + 1 .. ctxTop - 1 : e \in d + 1 .. ctxTop
      BY <1>4, <1>7
    <3> QED
      BY <1>3, <1>6, <2>1, <3>1 DEF IsBase, IsEntry
  <2>6. Activations' = ActsOf(ctxSta, ctxTop - 1, d, cur')
    BY <1>3, <2>4, <2>5, ActivationsNext
  <2>7. rest = ActsOf(ctxSta, ctxTop - 1, d, a) /\ rest # << >>
    BY <1>4, <1>7, <1>8, <2>1, ActsPopped
  <2> HIDE DEF rest
  <2>8. /\ ctxTop - 1 \in Int
        /\ \A e \in 0 .. ctxTop - 1 : ctxSta[e] \in Context
    BY <1>4
  <2>9. Activations' = [rest EXCEPT ![Len(rest)] = ActOf(cur')]
    <3>1. PICK top \in Int : top = ctxTop - 1
      BY <2>8
    <3>2. /\ d \in 0 .. top /\ \A e \in 0 .. top : ctxSta[e] \in Context
          /\ rest = ActsOf(ctxSta, top, d, a)
          /\ Activations' = ActsOf(ctxSta, top, d, cur')
      BY <2>1, <2>6, <2>7, <2>8, <3>1
    <3> HIDE DEF a
    <3> QED
      BY ONLY <1>4, <1>5, <3>2, ActsMoved
  <2>10. rest[Len(rest)] = ActOf(a)
    <3>1. /\ Len(rest) = (ctxTop - 1) - d + 1
          /\ rest[(ctxTop - 1) - d + 1] = ActOf(a)
      BY <1>5, <2>1, <2>7, <2>8, ActsFacts
    <3> QED
      BY <3>1
  <2>11. ActOf(cur') = Abstract!Advance(ActOf(a))
    BY <1>3, <1>5 DEF ActOf, Abstract!Advance, Inc_pc, Context
  <2>12. Activations' = [rest EXCEPT ![Len(rest)] = Abstract!Advance(@)]
    BY <2>9, <2>10, <2>11
  <2> QED
    BY <1>2, <2>5, <2>7, <2>12 DEF Abstract!Return, HasBase, rest
<1> QED
  BY <1>9, <1>10

\* Every step of the machine is a step of Calls or leaves its variables alone.
LEMMA StepRefines ==
  ASSUME MaxDepth < DEFAULT_STACK_SIZE, IInv, HasBase, [Next]_vars
  PROVE  HasBase' /\ [Abstract!Next]_<<Activations, mode>>
<1>1. IInv'
  BY StepInv
<1>2. ASSUME NEW f \in Interns, Init_env(f)
      PROVE  HasBase' /\ Abstract!Next
  BY <1>2, Init_envEnters, SameTables DEF Abstract!Next
<1>3. CASE Exec_start \/ \E count \in 1 .. MaxCount : Control_start(count)
  <2>1. /\ UNCHANGED <<regs, cur, stack>> /\ mode = "idle" /\ mode' = "running"
    BY <1>3 DEF Exec_start, Control_start
  <2> QED
    BY <2>1, SameActivations DEF Abstract!Next, Abstract!Resume
<1>4. ASSUME NEW op \in {"plain", "jmp", "jmp_indirect", "jcc"}, Dispatch(op),
             UNCHANGED <<regs, stack>>,
             NEW pc \in Body(cur.func), cur' = [cur EXCEPT !.pc = pc]
      PROVE  HasBase' /\ Abstract!Next
  BY <1>1, <1>4, MoveStaysInside DEF Abstract!Next
<1>5. CASE Exec_plain \/ Jcc_not_taken
  <2>1. cur.pc + 1 \in Body(cur.func)
    BY <1>5, DispatchFacts, CodeAssumption DEF Exec_plain, Jcc_not_taken, Ops
  <2> QED
    BY <1>4, <1>5, <2>1 DEF Exec_plain, Jcc_not_taken, Inc_pc
<1>6. CASE Jmp_am32_ofs \/ Jcc_taken
  <2>1. LabTab[cur.lab][Operand] \in Body(cur.func)
    BY <1>6, DispatchFacts, CodeAssumption DEF Jmp_am32_ofs, Jcc_taken, Ops, Operand
  <2> QED
    BY <1>4, <1>6, <2>1 DEF Jmp_am32_ofs, Jcc_taken, Goto
<1>7. CASE Jmp_indirect_am32_r
  <2>1. PICK lab \in DOMAIN LabTab[cur.lab] : Goto(lab)
    BY <1>7 DEF Jmp_indirect_am32_r
  <2>2. LabTab[cur.lab][lab] \in Body(cur.func)
    BY <1>7, <2>1, DispatchFacts, CodeAssumption DEF Jmp_indirect_am32_r, Ops
  <2> QED
    BY <1>4, <1>7, <2>1, <2>2 DEF Jmp_indirect_am32_r, Goto
<1>8. ASSUME NEW op \in {"call", "call_indirect"}, Dispatch(op),
             NEW callee \in Funcs, Func_prologue(callee),
             op = "call" => callee = Operand
      PROVE  HasBase' /\ Abstract!Next
  BY <1>1, <1>8, PrologueCalls DEF Abstract!Next, Funcs
<1>9. CASE Call_am32_ofs
  <2>1. Dispatch("call") /\ Func_prologue(Operand)
    BY <1>9 DEF Call_am32_ofs
  <2>2. Operand \in Funcs
    BY <2>1, DispatchFacts, CodeAssumption DEF Ops, Operand
  <2> QED
    BY <1>8, <2>1, <2>2
<1>10. CASE Call_indirect_am32_r
  BY <1>8, <1>10 DEF Call_indirect_am32_r
<1>11. CASE Call_exit \/ Exec_abort
  <2>1. /\ UNCHANGED <<regs, cur, stack>> /\ mode = "running" /\ mode' = "exited"
    BY <1>11 DEF Call_exit, Exec_abort
  <2> QED
    BY <2>1, SameActivations DEF Abstract!Next, Abstract!Exit
<1>12. CASE Return_am32
  BY <1>1, <1>12, ReturnReturns DEF Abstract!Next
<1>13. CASE Break_am32
  <2>1. /\ UNCHANGED <<regs, cur, stack>> /\ mode = "running" /\ mode' = "idle"
        /\ Table[cur.pc].op = "break"
    BY <1>13 DEF Break_am32
  <2>2. ~InCode
    BY <2>1, CodeAssumption DEF IInv, PcInFunction
  <2>3. Activations = << >>
    BY <2>2 DEF Activations
  <2> QED
    BY <2>1, <2>3, SameActivations DEF Abstract!Next, Abstract!Finish
<1>14. CASE Exited \/ UNCHANGED vars
  <2>1. UNCHANGED <<regs, cur, stack>> /\ mode' = mode
    BY <1>14 DEF Exited, vars, regs, stack
  <2> QED
    BY <2>1, SameActivations
<1> QED
  BY <1>2, <1>3, <1>5, <1>6, <1>7, <1>9, <1>10, <1>11, <1>12, <1>13, <1>14
  DEF Next, Host, Step

\* The machine implements Calls: whatever the module, the register layout and
\* the interleaving of host, debugger and program, a call starts an activation
\* right behind the caller's locals and a return resumes the caller behind the
\* call with its window, as long as calls nest less deep than the context stack
\* has storage.
THEOREM CallsImplemented ==
  ASSUME MaxDepth < DEFAULT_STACK_SIZE
  PROVE  Spec => CallsRefined
<1>1. Init => Abstract!Init /\ HasBase
  <2> SUFFICES ASSUME Init PROVE Abstract!Init /\ HasBase
    OBVIOUS
  <2>1. ~InCode
    BY DEF Init, InCode, BlankContext, NullPc
  <2> QED
    BY <2>1 DEF Init, Abstract!Init, Activations, HasBase
<1>2. IInv /\ HasBase /\ [Next]_vars => HasBase'
  BY StepRefines
<1>3. IInv /\ HasBase /\ [Next]_vars => [Abstract!Next]_<<Activations, mode>>
  BY StepRefines
<1> QED
  BY <1>1, <1>2, <1>3, MachineInvariant, PTL DEF Spec, CallsRefined, Abstract!Spec
=============================================================================
