---------------------------- MODULE AssertProofs ----------------------------
(***************************************************************************)
(* No assertion of the converter fails: NeverAborts of Converter, for      *)
(* functions of any length that the registers of a file suffice for and    *)
(* that have no loop with a result.                                        *)
(*                                                                         *)
(* The parts: registers are given back in the order opposite to that of    *)
(* their allocation (Lifo); the types on the converter's stack are those   *)
(* of the validator (Fitted); the open blocks of the validator are the     *)
(* statements the reader has open, in front of every instruction (Trace);  *)
(* each instruction of the conversion keeps all that (the lemmas named     *)
(* Turn); the actions, and the theorem.                                    *)
(***************************************************************************)
EXTENDS CodeProofs

-----------------------------------------------------------------------------
(* The allocator.  fs are the blocks that are open, outermost first: type  *)
(* and register of the result and the height of the stack at their begin.  *)

Regs == [kind : {"TEMP", "LOCAL"}, ty : Types, idx : Nat]

Frames == [res : Types \cup {Void}, reg : Nat, size : Nat]

TempAt(a, k, ty, r) == a.stk[k].kind = "TEMP" /\ a.stk[k].ty = ty /\ a.stk[k].idx = r

\* Every register that is allocated belongs to a temporary or to a block.
NoGap(a, fs) ==
  \A ty \in Types, r \in Nat : InUse(a, ty, r) =>
    \/ \E k \in 1 .. Len(a.stk) : TempAt(a, k, ty, r)
    \/ \E j \in 1 .. Len(fs) : fs[j].res = ty /\ fs[j].reg = r

\* Temporaries are in the order of their registers,
Ascend(a) ==
  \A j, k \in 1 .. Len(a.stk) :
    /\ a.stk[j].kind = "TEMP" /\ a.stk[k].kind = "TEMP" /\ a.stk[j].ty = a.stk[k].ty /\ j < k
    => a.stk[j].idx < a.stk[k].idx

\* and so are the blocks, and both to each other.
Around(a, fs) ==
  \A j \in 1 .. Len(fs), k \in 1 .. Len(a.stk) :
    a.stk[k].kind = "TEMP" /\ a.stk[k].ty = fs[j].res =>
      /\ k <= fs[j].size => a.stk[k].idx < fs[j].reg
      /\ k > fs[j].size => fs[j].reg < a.stk[k].idx

\* A block finds at least what those around it found.
Nested(fs) == \A i, j \in 1 .. Len(fs) : i < j => fs[i].size <= fs[j].size

FramesAscend(fs) ==
  \A i, j \in 1 .. Len(fs) : fs[i].res = fs[j].res /\ fs[i].res # Void /\ i < j => fs[i].reg < fs[j].reg

Used(a, fs) ==
  /\ \A k \in 1 .. Len(a.stk) : a.stk[k].kind = "TEMP" => InUse(a, a.stk[k].ty, a.stk[k].idx)
  /\ \A j \in 1 .. Len(fs) : fs[j].res # Void => InUse(a, fs[j].res, fs[j].reg)

\* The topmost n elements are above what the open blocks found.
OwnElems(a, fs, n) == n <= Len(a.stk) /\ \A j \in 1 .. Len(fs) : fs[j].size <= Len(a.stk) - n

\* At most m registers above the locals are allocated.
AtMost(a, m) == \A ty \in Types : Base(ty) <= a.next[ty] /\ a.next[ty] <= Base(ty) + m

LifoTyped(a, fs) ==
  /\ IsAl(a) /\ a.ok = TRUE /\ a.stk \in Seq(Regs) /\ a.next \in [Types -> Nat]
  /\ fs \in Seq(Frames)

Lifo(a, fs, m) ==
  /\ LifoTyped(a, fs) /\ AtMost(a, m)
  /\ NoGap(a, fs) /\ Ascend(a) /\ Around(a, fs) /\ FramesAscend(fs) /\ Used(a, fs)
  /\ OwnElems(a, fs, 0) /\ Nested(fs)

\* There are registers for m more than the locals.
Room(m) == \A ty \in Types : Base(ty) + m <= REG_FREE_MAX /\ Base(ty) + m <= REG_TEMP_MAX

-----------------------------------------------------------------------------
\* The types of the allocator's parts.
LEMMA RegFields ==
  ASSUME NEW s \in Seq(Regs), NEW k \in 1 .. Len(s)
  PROVE  s[k] \in Regs /\ s[k].kind \in {"TEMP", "LOCAL"} /\ s[k].ty \in Types /\ s[k].idx \in Nat
<1>1. s[k] \in Regs
  BY ElementOfSeq
<1> QED
  BY <1>1 DEF Regs

\* The parts of an open block.
LEMMA FrameFields ==
  ASSUME NEW fs \in Seq(Frames), NEW j \in 1 .. Len(fs)
  PROVE  fs[j].res \in Types \cup {Void} /\ fs[j].reg \in Nat /\ fs[j].size \in Nat
<1>1. fs[j] \in Frames
  BY ElementOfSeq
<1> QED
  BY <1>1 DEF Frames

\* A temporary on the top has the register allocated last.
LEMMA TopIsLast ==
  ASSUME NEW a, NEW fs, NEW m \in Nat, Lifo(a, fs, m), OwnElems(a, fs, 1),
         NEW n, n = Len(a.stk), NEW e, e = a.stk[n], e.kind = "TEMP"
  PROVE  e.ty \in Types /\ e.idx \in Nat /\ e.idx = a.next[e.ty] - 1 /\ e.idx < Base(e.ty) + m
<1>1. /\ a.stk \in Seq(Regs) /\ a.next \in [Types -> Nat] /\ fs \in Seq(Frames)
  BY DEF Lifo, LifoTyped
<1>2. n \in Nat /\ 1 <= n /\ n \in 1 .. n
  BY <1>1 DEF OwnElems
<1>3. e.ty \in Types /\ e.idx \in Nat
  BY <1>1, <1>2, RegFields
<1>4. PICK x \in Nat : x = a.next[e.ty]
  BY <1>1, <1>3
<1>5. Base(e.ty) \in Nat /\ Base(e.ty) <= e.idx /\ e.idx < x /\ x <= Base(e.ty) + m
  BY <1>2, <1>3, <1>4, BaseNat DEF Lifo, Used, InUse, AtMost
<1>6. ASSUME e.idx # x - 1 PROVE FALSE
  <2>1. PICK r \in Nat : r = x - 1 /\ e.idx < r
    <3>1. x - 1 \in Nat /\ e.idx < x - 1
      BY <1>3, <1>5, <1>6
    <3> QED
      BY ONLY <3>1
  <2>2. InUse(a, e.ty, r)
    BY ONLY <2>1, <1>3, <1>4, <1>5, r \in Nat, x \in Nat DEF InUse
  <2>3. \/ \E k \in 1 .. Len(a.stk) : TempAt(a, k, e.ty, r)
        \/ \E j \in 1 .. Len(fs) : fs[j].res = e.ty /\ fs[j].reg = r
    BY ONLY <2>2, <1>3, Lifo(a, fs, m), r \in Nat DEF Lifo, NoGap
  <2>4. ASSUME NEW k \in 1 .. Len(a.stk), TempAt(a, k, e.ty, r) PROVE FALSE
    <3>1. k = n \/ k < n
      BY <2>4, <1>2
    <3>2. k < n => a.stk[k].idx < e.idx
      BY ONLY <2>4, <1>2, Lifo(a, fs, m), n = Len(a.stk), e = a.stk[n], e.kind = "TEMP"
      DEF Lifo, Ascend, TempAt
    <3> QED
      BY <3>1, <3>2, <2>1, <2>4, <1>3 DEF TempAt
  <2>5. ASSUME NEW j \in 1 .. Len(fs), fs[j].res = e.ty, fs[j].reg = r PROVE FALSE
    <3>1. fs[j].size \in Nat /\ fs[j].size <= n - 1
      BY <1>1, FrameFields DEF OwnElems
    <3>2. n > fs[j].size
      BY <3>1, <1>2
    <3>3. fs[j].reg < e.idx
      BY ONLY <3>2, <2>5, <1>2, Lifo(a, fs, m), n = Len(a.stk), e = a.stk[n], e.kind = "TEMP"
      DEF Lifo, Around
    <3> QED
      BY <3>3, <2>1, <2>5, <1>3
  <2> QED
    BY <2>3, <2>4, <2>5
<1> QED
  BY <1>3, <1>4, <1>5, <1>6

\* Without its topmost element, and that one's register given back.
LEMMA LifoFront ==
  ASSUME NEW a, NEW fs, NEW m \in Nat, Lifo(a, fs, m), OwnElems(a, fs, 1),
         NEW e, e = Last(a.stk), NEW b, IsAl(b), b.ok = TRUE, b.stk = Front(a.stk),
         e.kind = "TEMP" => b.next = [a.next EXCEPT ![e.ty] = @ - 1],
         e.kind # "TEMP" => b.next = a.next
  PROVE  Lifo(b, fs, m)
<1>1. /\ a.stk \in Seq(Regs) /\ a.next \in [Types -> Nat] /\ fs \in Seq(Frames) /\ a.stk # << >>
  <2>1. a.stk \in Seq(Regs) /\ a.next \in [Types -> Nat] /\ fs \in Seq(Frames)
    BY DEF Lifo, LifoTyped
  <2>2. a.stk # << >>
    BY <2>1 DEF OwnElems
  <2> QED
    BY <2>1, <2>2
<1>2. PICK n \in Nat : /\ n = Len(a.stk) /\ n # 0 /\ n \in 1 .. n /\ e = a.stk[n] /\ e \in Regs
                       /\ b.stk \in Seq(Regs) /\ Len(b.stk) = n - 1
                       /\ \A k \in 1 .. n - 1 : b.stk[k] = a.stk[k]
  <2>1. /\ Front(a.stk) \in Seq(Regs) /\ Len(a.stk) \in Nat \ {0} /\ Len(Front(a.stk)) = Len(a.stk) - 1
        /\ \A k \in 1 .. Len(a.stk) - 1 : Front(a.stk)[k] = a.stk[k]
        /\ Last(a.stk) = a.stk[Len(a.stk)] /\ Last(a.stk) \in Regs
    BY ONLY <1>1, FrontOf
  <2>2. PICK n \in Nat : n = Len(a.stk) /\ n # 0
    BY ONLY <2>1
  <2>3. n \in 1 .. n
    BY ONLY <2>2
  <2> QED
    BY ONLY <2>1, <2>2, <2>3, e = Last(a.stk), b.stk = Front(a.stk)
<1>3. /\ \A k \in 1 .. n - 1 : k \in 1 .. n /\ k # n /\ k < n
      /\ \A k \in 1 .. n : k # n => k \in 1 .. n - 1
  OBVIOUS
<1>4. e.ty \in Types /\ e.idx \in Nat
  BY <1>2 DEF Regs
<1>5. e.kind = "TEMP" => /\ e.idx = a.next[e.ty] - 1
                         /\ b.next = [a.next EXCEPT ![e.ty] = e.idx]
  <2>1. e.kind = "TEMP" => e.idx = a.next[e.ty] - 1
    BY <1>2, TopIsLast
  <2> QED
    BY <2>1, <1>1, <1>4
<1>6. b.next \in [Types -> Nat]
  BY <1>1, <1>4, <1>5
<1>7. \A ty \in Types : b.next[ty] = IF e.kind = "TEMP" /\ ty = e.ty THEN e.idx ELSE a.next[ty]
  BY <1>1, <1>4, <1>5
<1>8. LifoTyped(b, fs)
  BY <1>1, <1>2, <1>6 DEF LifoTyped
<1>9. AtMost(b, m)
  <2>1. \A ty \in Types : /\ Base(ty) \in Nat /\ a.next[ty] \in Nat
                          /\ Base(ty) <= a.next[ty] /\ a.next[ty] <= Base(ty) + m
    BY <1>1, BaseNat DEF Lifo, AtMost
  <2>2. e.kind = "TEMP" => Base(e.ty) <= e.idx
    BY <1>2 DEF Lifo, Used, InUse
  <2> QED
    BY ONLY <2>1, <2>2, <1>4, <1>5, <1>7, m \in Nat DEF AtMost
<1>10. NoGap(b, fs)
  <2> SUFFICES ASSUME NEW ty \in Types, NEW r \in Nat, InUse(b, ty, r)
               PROVE  \/ \E k \in 1 .. Len(b.stk) : TempAt(b, k, ty, r)
                      \/ \E j \in 1 .. Len(fs) : fs[j].res = ty /\ fs[j].reg = r
    BY DEF NoGap
  <2>1. InUse(a, ty, r) /\ (e.kind = "TEMP" /\ ty = e.ty => r # e.idx)
    BY <1>1, <1>4, <1>5, <1>7 DEF InUse
  <2>2. \/ \E k \in 1 .. n : TempAt(a, k, ty, r)
        \/ \E j \in 1 .. Len(fs) : fs[j].res = ty /\ fs[j].reg = r
    BY ONLY <2>1, <1>2, Lifo(a, fs, m), ty \in Types, r \in Nat DEF Lifo, NoGap
  <2>3. ASSUME NEW k \in 1 .. n, TempAt(a, k, ty, r) PROVE k \in 1 .. n - 1 /\ TempAt(b, k, ty, r)
    <3>1. k # n
      BY ONLY <2>1, <2>3, <1>2 DEF TempAt
    <3>2. k \in 1 .. n - 1
      BY ONLY <3>1, <1>3, <2>3
    <3> QED
      BY ONLY <3>2, <2>3, <1>2 DEF TempAt
  <2> QED
    BY ONLY <2>2, <2>3, <1>2
<1>11. Ascend(b)
  BY ONLY <1>2, <1>3, Lifo(a, fs, m) DEF Lifo, Ascend
<1>12. Around(b, fs)
  BY ONLY <1>2, <1>3, Lifo(a, fs, m) DEF Lifo, Around
<1>13. Used(b, fs)
  <2>1. ASSUME NEW k \in 1 .. n - 1, b.stk[k].kind = "TEMP" PROVE InUse(b, b.stk[k].ty, b.stk[k].idx)
    <3>1. /\ b.stk[k] = a.stk[k] /\ k \in 1 .. n /\ k < n
      BY ONLY <2>1, <1>2, <1>3
    <3>2. InUse(a, a.stk[k].ty, a.stk[k].idx) /\ a.stk[k].ty \in Types
      BY <3>1, <2>1, <1>1, <1>2, RegFields DEF Lifo, Used
    <3>3. e.kind = "TEMP" /\ a.stk[k].ty = e.ty => a.stk[k].idx < e.idx
      BY ONLY <3>1, <2>1, <1>2, Lifo(a, fs, m) DEF Lifo, Ascend
    <3> QED
      BY ONLY <3>1, <3>2, <3>3, <1>7 DEF InUse
  <2>2. ASSUME NEW j \in 1 .. Len(fs), fs[j].res # Void PROVE InUse(b, fs[j].res, fs[j].reg)
    <3>1. fs[j].res \in Types /\ fs[j].size \in Nat /\ fs[j].size <= n - 1
      BY <2>2, <1>1, <1>2, FrameFields DEF OwnElems
    <3>2. InUse(a, fs[j].res, fs[j].reg)
      BY ONLY <2>2, Lifo(a, fs, m) DEF Lifo, Used
    <3>3. n > fs[j].size
      BY ONLY <3>1, n \in Nat
    <3>4. e.kind = "TEMP" /\ fs[j].res = e.ty => fs[j].reg < e.idx
      BY ONLY <3>3, <2>2, <1>2, Lifo(a, fs, m) DEF Lifo, Around
    <3> QED
      BY ONLY <3>1, <3>2, <3>4, <1>7 DEF InUse
  <2> QED
    BY ONLY <2>1, <2>2, <1>2 DEF Used
<1>14. OwnElems(b, fs, 0)
  BY <1>1, <1>2, FrameFields DEF OwnElems
<1> QED
  BY ONLY <1>8, <1>9, <1>10, <1>11, <1>12, <1>13, <1>14, Lifo(a, fs, m) DEF Lifo

\* What popping leaves.
Popped(a, fs, m, ty, b) ==
  /\ Lifo(b, fs, m) /\ b.stk = Front(a.stk) /\ Top(a, ty) = Last(a.stk)
  /\ Last(a.stk).kind = "TEMP" => b.next = [a.next EXCEPT ![Last(a.stk).ty] = @ - 1]

\* An element of the own part of the stack is popped: no assertion of
\* Pop_wasm_stk and Free_register fails.
LEMMA PopLifo ==
  ASSUME NEW a, NEW fs, NEW m \in Nat, Room(m), Lifo(a, fs, m), OwnElems(a, fs, 1),
         NEW ty, ty = Void \/ ty = Last(a.stk).ty, NEW b, b = Pop_wasm_stk(a, ty)
  PROVE  Popped(a, fs, m, ty, b)
<1>1. IsAl(a) /\ a.ok = TRUE /\ a.stk \in Seq(Regs) /\ a.next \in [Types -> Nat]
  BY DEF Lifo, LifoTyped
<1>2. a.stk # << >>
  BY <1>1 DEF OwnElems
<1>3. PICK e : e = Last(a.stk)
  OBVIOUS
<1>4. PICK n \in Nat : n = Len(a.stk) /\ n # 0 /\ e = a.stk[n] /\ e \in Regs
  BY <1>1, <1>2, <1>3, FrontOf
<1>5. e.kind \in {"TEMP", "LOCAL"} /\ e.ty \in Types /\ e.idx \in Nat
  BY <1>4 DEF Regs
<1>6. Top(a, ty) = e
  BY <1>2, <1>3, <1>5 DEF Top
<1>7. PICK s : s = Front(a.stk)
  OBVIOUS
<1>8. PICK c : c = [a EXCEPT !.stk = s, !.ok = TRUE]
  OBVIOUS
<1>9. IsAl(c) /\ c.stk = s /\ c.ok = TRUE /\ c.next = a.next
  BY <1>1, <1>8 DEF IsAl
<1>10. [a EXCEPT !.stk = IF @ = << >> THEN @ ELSE Front(@),
                 !.ok = @ /\ a.stk # << >> /\ (ty = Void \/ e.ty = ty)] = c
  BY <1>1, <1>2, <1>3, <1>7, <1>8
<1>11. b = IF e.kind = "TEMP" THEN Free_register(c, e) ELSE c
  BY <1>6, <1>10 DEF Pop_wasm_stk
<1>12. CASE e.kind # "TEMP"
  <2>1. b = c
    BY <1>11, <1>12
  <2>2. Lifo(b, fs, m)
    BY ONLY <2>1, <1>3, <1>7, <1>9, <1>12, Lifo(a, fs, m), OwnElems(a, fs, 1), m \in Nat, LifoFront
  <2> QED
    BY ONLY <2>1, <2>2, <1>3, <1>6, <1>7, <1>9, <1>12 DEF Popped
<1>13. CASE e.kind = "TEMP"
  <2>1. e.idx = a.next[e.ty] - 1 /\ e.idx < Base(e.ty) + m
    BY ONLY <1>4, <1>13, Lifo(a, fs, m), OwnElems(a, fs, 1), m \in Nat, TopIsLast
  <2>2. ~(e.idx >= REG_FREE_MAX)
    BY <2>1, <1>5, BaseNat, ConverterAssumption DEF Room
  <2>3. b = [c EXCEPT !.next[e.ty] = @ - 1, !.ok = @ /\ e.idx = c.next[e.ty] - 1]
    BY ONLY <2>2, <1>11, <1>13 DEF Free_register
  <2>4. PICK x : x = [a.next EXCEPT ![e.ty] = @ - 1]
    OBVIOUS
  <2>5. b = [c EXCEPT !.next = x, !.ok = TRUE]
    BY ONLY <2>1, <2>3, <2>4, <1>9 DEF IsAl
  <2>6. IsAl(b) /\ b.ok = TRUE /\ b.stk = s /\ b.next = x
    BY ONLY <2>5, <1>9 DEF IsAl
  <2>7. Lifo(b, fs, m)
    BY ONLY <2>4, <2>6, <1>3, <1>7, <1>13, Lifo(a, fs, m), OwnElems(a, fs, 1), m \in Nat, LifoFront
  <2> QED
    BY ONLY <2>4, <2>6, <2>7, <1>3, <1>6, <1>7 DEF Popped
<1> QED
  BY <1>12, <1>13

\* The lower n elements of s.
Lower(s, n, t) == IsSeq(t) /\ Len(t) = n /\ \A k \in 1 .. n : t[k] = s[k]

\* The topmost elements of s have the types tys, where those are given.
Matches(s, tys) ==
  \A k \in 1 .. Len(tys) : tys[k] = Void \/ tys[k] = s[Len(s) - Len(tys) + k].ty

Taken(a, fs, m, n, c) == Lifo(c, fs, m) /\ Lower(a.stk, Len(a.stk) - n, c.stk)

\* Any number of elements of the own part of the stack is popped.
LEMMA PopAllLifo ==
  ASSUME NEW a, NEW fs, NEW m \in Nat, Room(m), Lifo(a, fs, m), NEW tys, IsSeq(tys),
         OwnElems(a, fs, Len(tys)), Matches(a.stk, tys), NEW c, c = PopAll(a, tys)
  PROVE  Taken(a, fs, m, Len(tys), c)
<1>1. PICK n \in Nat : n = Len(tys)
  BY DEF IsSeq
<1>2. PICK f : /\ f = [k \in 0 .. n |-> IF k = 0 THEN a ELSE Pop_wasm_stk(f[k - 1], tys[n + 1 - k])]
               /\ c = f[n]
  <2>1. PopAll(a, tys) = (CHOOSE f : PopFcn(f, a, tys, n, n))[n]
    BY <1>1 DEF PopAll, PopFcn
  <2>2. \E f : PopFcn(f, a, tys, n, n)
    BY PopAllExists
  <2>3. PICK f : PopFcn(f, a, tys, n, n) /\ c = f[n]
    BY <2>1, <2>2
  <2> QED
    BY <2>3 DEF PopFcn
<1>3. PICK p \in Nat : p = Len(a.stk) /\ n <= p /\ a.stk \in Seq(Regs) /\ fs \in Seq(Frames)
  BY <1>1 DEF OwnElems, Lifo, LifoTyped
<1>4. \A j \in 1 .. Len(fs) : fs[j].size \in Nat /\ fs[j].size <= p - n
  BY <1>1, <1>3, FrameFields DEF OwnElems
<1> DEFINE Q(k) == Taken(a, fs, m, k, f[k])
           T == {k \in 0 .. n : ~Q(k)}
<1>5. Q(0)
  <2>1. f[0] = a /\ p - 0 = p
    BY <1>2
  <2> QED
    BY <2>1, <1>3 DEF Taken, Lower, IsSeq
<1>6. ASSUME NEW k \in 0 .. n, k # n, Q(k) PROVE Q(k + 1)
  <2>1. f[k + 1] = Pop_wasm_stk(f[k], tys[n - k])
    <3>1. k + 1 \in 0 .. n /\ k + 1 # 0 /\ (k + 1) - 1 = k /\ (n + 1) - (k + 1) = n - k
      BY <1>6
    <3> QED
      BY <3>1, <1>2
  <2>2. PICK q \in Nat : q = p - k /\ q # 0 /\ q \in 1 .. q /\ p - (k + 1) = q - 1
    <3>1. p - k \in Nat /\ p - k # 0 /\ p - (k + 1) = p - k - 1
      BY <1>3, <1>6
    <3>2. \A q \in Nat : q # 0 => q \in 1 .. q
      OBVIOUS
    <3> QED
      BY ONLY <3>1, <3>2
  <2>3. Lifo(f[k], fs, m) /\ Len(f[k].stk) = q /\ \A i \in 1 .. q : f[k].stk[i] = a.stk[i]
    BY <2>2, <1>3, <1>6 DEF Taken, Lower
  <2>4. f[k].stk \in Seq(Regs) /\ f[k].stk # << >>
    BY <2>2, <2>3 DEF Lifo, LifoTyped
  <2>5. OwnElems(f[k], fs, 1)
    <3>1. 1 <= q /\ p - n <= q - 1
      BY ONLY <2>2, <1>3, k \in 0 .. n, k # n, n \in Nat, p \in Nat, q \in Nat
    <3>2. \A j \in 1 .. Len(fs) : fs[j].size <= q - 1
      BY ONLY <3>1, <1>4, n \in Nat, p \in Nat, q \in Nat
    <3>3. Len(f[k].stk) = q
      BY ONLY <2>3
    <3> QED
      BY ONLY <3>1, <3>2, <3>3 DEF OwnElems
  <2>6. Last(f[k].stk) = a.stk[q]
    BY <2>2, <2>3 DEF Last
  <2>7. tys[n - k] = Void \/ tys[n - k] = Last(f[k].stk).ty
    <3>1. n - k \in 1 .. n /\ p - n + (n - k) = q
      BY <1>3, <1>6, <2>2
    <3>2. tys[n - k] = Void \/ tys[n - k] = a.stk[p - n + (n - k)].ty
      BY ONLY <3>1, <1>1, <1>3, Matches(a.stk, tys) DEF Matches
    <3> QED
      BY ONLY <3>1, <3>2, <2>6
  <2>8. PICK ty : ty = tys[n - k]
    OBVIOUS
  <2>9. Popped(f[k], fs, m, ty, f[k + 1])
    BY ONLY <2>1, <2>3, <2>5, <2>7, <2>8, Room(m), m \in Nat, PopLifo
  <2>10. /\ f[k + 1].stk \in Seq(Regs) /\ Len(f[k + 1].stk) = q - 1
         /\ \A i \in 1 .. q - 1 : f[k + 1].stk[i] = f[k].stk[i]
    <3>1. f[k + 1].stk = Front(f[k].stk)
      BY ONLY <2>9 DEF Popped
    <3>2. PICK s : s = f[k].stk
      OBVIOUS
    <3>3. s \in Seq(Regs) /\ s # << >>
      BY ONLY <3>2, <2>4
    <3>4. /\ Front(s) \in Seq(Regs) /\ Len(Front(s)) = Len(s) - 1
          /\ \A i \in 1 .. Len(s) - 1 : Front(s)[i] = s[i]
      BY ONLY <3>3, FrontOf
    <3> QED
      BY ONLY <3>1, <3>2, <3>4, <2>3
  <2>11. \A i \in 1 .. q - 1 : f[k + 1].stk[i] = a.stk[i]
    BY ONLY <2>2, <2>3, <2>10
  <2> QED
    BY ONLY <2>2, <2>9, <2>10, <2>11, <1>3 DEF Taken, Lower, Popped, IsSeq
<1>7. T = {}
  <2> SUFFICES ASSUME T # {} PROVE FALSE
    OBVIOUS
  <2>1. T \subseteq Nat
    OBVIOUS
  <2>2. PICK k \in T : \A y \in T : k <= y
    <3> HIDE DEF T
    <3> QED
      BY <2>1, LeastNat
  <2> HIDE DEF Q
  <2>3. k \in 0 .. n /\ ~Q(k) /\ k # 0
    BY <2>2, <1>5
  <2>4. k - 1 \in 0 .. n /\ k - 1 \notin T /\ k - 1 # n /\ (k - 1) + 1 = k
    BY <2>2, <2>3
  <2>5. Q((k - 1) + 1)
    BY <2>4, <1>6
  <2> QED
    BY <2>3, <2>4, <2>5
<1>8. Q(n)
  <2> HIDE DEF Q
  <2> QED
    BY <1>7
<1> QED
  BY ONLY <1>1, <1>2, <1>8

-----------------------------------------------------------------------------
\* One more register is in use.
More(a, ty, b) ==
  /\ IsAl(b) /\ b.ok = TRUE
  /\ b.next = [a.next EXCEPT ![ty] = @ + 1]

\* A temporary above the others of its type is put on the stack.
LEMMA AscendMore ==
  ASSUME NEW a, NEW b, Ascend(a), NEW n \in Nat, Len(a.stk) = n, Len(b.stk) = n + 1, NEW e, b.stk[n + 1] = e,
         \A k \in 1 .. n : b.stk[k] = a.stk[k],
         \A k \in 1 .. n : a.stk[k].kind = "TEMP" /\ a.stk[k].ty = e.ty => a.stk[k].idx < e.idx
  PROVE  Ascend(b)
<1> SUFFICES ASSUME NEW j \in 1 .. n + 1, NEW k \in 1 .. n + 1, b.stk[j].kind = "TEMP", b.stk[k].kind = "TEMP",
                    b.stk[j].ty = b.stk[k].ty, j < k
             PROVE  b.stk[j].idx < b.stk[k].idx
  BY DEF Ascend
<1>1. j \in 1 .. n /\ (k = n + 1 \/ k \in 1 .. n)
  BY ONLY j \in 1 .. n + 1, k \in 1 .. n + 1, j < k, n \in Nat
<1>2. b.stk[j] = a.stk[j]
  BY ONLY <1>1, \A i \in 1 .. n : b.stk[i] = a.stk[i]
<1>3. CASE k = n + 1
  <2>1. b.stk[k] = e
    BY ONLY <1>3, b.stk[n + 1] = e
  <2>2. a.stk[j].kind = "TEMP" /\ a.stk[j].ty = e.ty
    BY ONLY <2>1, <1>2, b.stk[j].kind = "TEMP", b.stk[j].ty = b.stk[k].ty
  <2>3. a.stk[j].idx < e.idx
    BY ONLY <2>2, <1>1, \A i \in 1 .. n : a.stk[i].kind = "TEMP" /\ a.stk[i].ty = e.ty => a.stk[i].idx < e.idx
  <2> QED
    BY ONLY <2>1, <2>3, <1>2
<1>4. CASE k \in 1 .. n
  <2>1. b.stk[k] = a.stk[k]
    BY ONLY <1>4, \A i \in 1 .. n : b.stk[i] = a.stk[i]
  <2> QED
    BY ONLY <2>1, <1>1, <1>2, <1>4, Ascend(a), Len(a.stk) = n, b.stk[j].kind = "TEMP", b.stk[k].kind = "TEMP",
            b.stk[j].ty = b.stk[k].ty, j < k DEF Ascend
<1> QED
  BY <1>1, <1>3, <1>4

\* A register is allocated, and put on the stack or kept for a block.
LEMMA LifoMore ==
  ASSUME NEW a, NEW fs, NEW m \in Nat, Lifo(a, fs, m), NEW ty \in Types, NEW b, More(a, ty, b),
         NEW x, x = a.next[ty], NEW gs, b.stk \in Seq(Regs), gs \in Seq(Frames),
         \/ gs = fs /\ b.stk = Append(a.stk, Elem("TEMP", ty, x))
         \/ b.stk = a.stk /\ gs = Append(fs, [res |-> ty, reg |-> x, size |-> Len(a.stk)])
  PROVE  Lifo(b, gs, m + 1)
<1>1. /\ a.stk \in Seq(Regs) /\ a.next \in [Types -> Nat] /\ fs \in Seq(Frames)
  BY DEF Lifo, LifoTyped
<1>2. PICK n \in Nat, l \in Nat : n = Len(a.stk) /\ l = Len(fs)
  BY <1>1
<1>3. x \in Nat /\ b.next \in [Types -> Nat]
      /\ \A t \in Types : b.next[t] = IF t = ty THEN x + 1 ELSE a.next[t]
  BY <1>1 DEF More
<1>4. LifoTyped(b, gs)
  BY <1>3 DEF More, LifoTyped
<1>5. AtMost(b, m + 1)
  <2>1. \A t \in Types : /\ Base(t) \in Nat /\ a.next[t] \in Nat
                         /\ Base(t) <= a.next[t] /\ a.next[t] <= Base(t) + m
    BY <1>1, BaseNat DEF Lifo, AtMost
  <2> QED
    BY ONLY <2>1, <1>3, x = a.next[ty], ty \in Types, m \in Nat DEF AtMost
<1>6. /\ \A k \in 1 .. n : a.stk[k].kind = "TEMP" /\ a.stk[k].ty = ty => a.stk[k].idx < x
      /\ \A j \in 1 .. l : fs[j].res = ty => fs[j].reg < x
      /\ \A k \in 1 .. n : a.stk[k].ty \in Types /\ a.stk[k].idx \in Nat
      /\ \A j \in 1 .. l : fs[j].reg \in Nat /\ fs[j].size \in Nat /\ fs[j].res \in Types \cup {Void}
  <2>1. ty # Void
    BY DEF Types, Void
  <2>2. /\ \A k \in 1 .. n : a.stk[k].kind = "TEMP" /\ a.stk[k].ty = ty => a.stk[k].idx < x
        /\ \A j \in 1 .. l : fs[j].res = ty => fs[j].reg < x
    BY ONLY <2>1, <1>2, Lifo(a, fs, m), x = a.next[ty] DEF Lifo, Used, InUse
  <2> QED
    BY <2>2, <1>1, <1>2, RegFields, FrameFields
<1>8. /\ \A t \in Types : a.next[t] \in Nat /\ b.next[t] \in Nat /\ a.next[t] <= b.next[t]
      /\ Base(ty) <= x /\ x < b.next[ty]
  <2>1. Base(ty) <= x
    BY DEF Lifo, AtMost
  <2> QED
    BY ONLY <2>1, <1>1, <1>3, x = a.next[ty], ty \in Types
<1>9. \A j \in 1 .. l : fs[j].size <= n
  BY <1>2 DEF Lifo, OwnElems
<1>7. CASE gs = fs /\ b.stk = Append(a.stk, Elem("TEMP", ty, x))
  <2>1. PICK e : e = Elem("TEMP", ty, x) /\ e.kind = "TEMP" /\ e.ty = ty /\ e.idx = x
    BY DEF Elem
  <2>2. /\ Len(b.stk) = n + 1 /\ b.stk[n + 1] = e
        /\ \A k \in 1 .. n : b.stk[k] = a.stk[k]
    BY <2>1, <1>1, <1>2, <1>7, AppendProperties
  <2>3. /\ \A k \in 1 .. n + 1 : (k \in 1 .. n /\ k < n + 1) \/ k = n + 1
        /\ \A k \in 1 .. n : k \in 1 .. n + 1
        /\ n + 1 \in 1 .. n + 1 /\ ~(n + 1 < n + 1)
        /\ \A k \in 1 .. n : ~(n + 1 < k)
    OBVIOUS
  <2>4. ASSUME NEW t \in Types, NEW r \in Nat, InUse(b, t, r)
        PROVE  \/ \E k \in 1 .. n + 1 : TempAt(b, k, t, r)
               \/ \E j \in 1 .. l : fs[j].res = t /\ fs[j].reg = r
    <3>1. CASE t = ty /\ r = x
      BY ONLY <3>1, <2>1, <2>2, <2>3 DEF TempAt
    <3>2. CASE ~(t = ty /\ r = x)
      <4>1. InUse(a, t, r)
        BY <3>2, <2>4, <1>1, <1>3 DEF InUse
      <4>2. \/ \E k \in 1 .. n : TempAt(a, k, t, r)
            \/ \E j \in 1 .. l : fs[j].res = t /\ fs[j].reg = r
        BY ONLY <4>1, <1>2, Lifo(a, fs, m), t \in Types, r \in Nat DEF Lifo, NoGap
      <4> QED
        BY ONLY <4>2, <2>2, <2>3 DEF TempAt
    <3> QED
      BY <3>1, <3>2
  <2>5. NoGap(b, gs)
    <3>1. Len(b.stk) = n + 1 /\ Len(fs) = l /\ gs = fs
      BY ONLY <2>2, <1>2, <1>7
    <3>2. ASSUME NEW t \in Types, NEW r \in Nat, InUse(b, t, r)
          PROVE  \/ \E k \in 1 .. Len(b.stk) : TempAt(b, k, t, r)
                 \/ \E j \in 1 .. Len(gs) : gs[j].res = t /\ gs[j].reg = r
      BY ONLY <2>4, <3>1, <3>2
    <3> QED
      BY ONLY <3>2 DEF NoGap
  <2>6. Ascend(b)
    <3>1. Ascend(a) /\ Len(a.stk) = n
      BY ONLY <1>2, Lifo(a, fs, m) DEF Lifo
    <3>2. \A k \in 1 .. n : a.stk[k].kind = "TEMP" /\ a.stk[k].ty = e.ty => a.stk[k].idx < e.idx
      BY ONLY <2>1, <1>6
    <3> QED
      BY ONLY <3>1, <3>2, <2>2, n \in Nat, AscendMore
  <2>7. Around(b, gs)
    <3>1. ASSUME NEW j \in 1 .. l, NEW k \in 1 .. n + 1, b.stk[k].kind = "TEMP", b.stk[k].ty = fs[j].res
          PROVE  /\ k <= fs[j].size => b.stk[k].idx < fs[j].reg
                 /\ k > fs[j].size => fs[j].reg < b.stk[k].idx
      <4>1. CASE k = n + 1
        <5>1. fs[j].size <= n /\ fs[j].size \in Nat
          BY <3>1, <1>6, <1>9
        <5>2. ~(k <= fs[j].size)
          BY <4>1, <5>1
        <5> QED
          BY ONLY <5>2, <4>1, <3>1, <2>1, <2>2, <1>6
      <4>2. CASE k # n + 1
        BY ONLY <4>2, <3>1, <2>2, <2>3, <1>2, Lifo(a, fs, m) DEF Lifo, Around
      <4> QED
        BY <4>1, <4>2
    <3> QED
      BY ONLY <3>1, <2>2, <1>2, <1>7 DEF Around
  <2>8. Used(b, gs)
    <3>1. ASSUME NEW k \in 1 .. n + 1, b.stk[k].kind = "TEMP" PROVE InUse(b, b.stk[k].ty, b.stk[k].idx)
      <4>1. CASE k = n + 1
        BY ONLY <4>1, <2>1, <2>2, <1>3, <1>8, ty \in Types DEF InUse
      <4>2. CASE k # n + 1
        <5>1. k \in 1 .. n /\ b.stk[k] = a.stk[k]
          BY ONLY <4>2, <3>1, <2>2, <2>3
        <5>2. InUse(a, a.stk[k].ty, a.stk[k].idx)
          BY ONLY <5>1, <3>1, <1>2, Lifo(a, fs, m) DEF Lifo, Used
        <5> QED
          BY ONLY <5>1, <5>2, <1>6, <1>8 DEF InUse
      <4> QED
        BY <4>1, <4>2
    <3>2. ASSUME NEW j \in 1 .. l, fs[j].res # Void PROVE InUse(b, fs[j].res, fs[j].reg)
      <4>1. InUse(a, fs[j].res, fs[j].reg)
        BY ONLY <3>2, <1>2, Lifo(a, fs, m) DEF Lifo, Used
      <4> QED
        BY ONLY <4>1, <3>2, <1>6, <1>8 DEF InUse
    <3> QED
      BY ONLY <3>1, <3>2, <2>2, <1>2, <1>7 DEF Used
  <2>9. OwnElems(b, gs, 0)
    <3>1. \A j \in 1 .. l : fs[j].size <= n + 1 - 0
      BY <1>6, <1>9
    <3> QED
      BY ONLY <3>1, <2>2, <1>2, <1>7, n \in Nat DEF OwnElems
  <2>10. FramesAscend(gs) /\ Nested(gs)
    BY <1>7 DEF Lifo
  <2> QED
    BY ONLY <2>5, <2>6, <2>7, <2>8, <2>9, <2>10, <1>4, <1>5 DEF Lifo
<1>10. CASE b.stk = a.stk /\ gs = Append(fs, [res |-> ty, reg |-> x, size |-> Len(a.stk)])
  <2>11. PICK e : e = [res |-> ty, reg |-> x, size |-> n]
    OBVIOUS
  <2>1. e = [res |-> ty, reg |-> x, size |-> n] /\ e.res = ty /\ e.reg = x /\ e.size = n
    BY <2>11
  <2>2. /\ Len(gs) = l + 1 /\ gs[l + 1] = e
        /\ \A j \in 1 .. l : gs[j] = fs[j]
    BY <2>1, <1>1, <1>2, <1>10, AppendProperties
  <2>3. /\ \A j \in 1 .. l + 1 : (j \in 1 .. l /\ j < l + 1) \/ j = l + 1
        /\ \A j \in 1 .. l : j \in 1 .. l + 1
        /\ l + 1 \in 1 .. l + 1 /\ ~(l + 1 < l + 1)
        /\ \A j \in 1 .. l : ~(l + 1 < j)
        /\ \A k \in 1 .. n : k <= n /\ ~(k > n)
    OBVIOUS
  <2>4. ASSUME NEW t \in Types, NEW r \in Nat, InUse(b, t, r)
        PROVE  \/ \E k \in 1 .. n : TempAt(b, k, t, r)
               \/ \E j \in 1 .. l + 1 : gs[j].res = t /\ gs[j].reg = r
    <3>1. CASE t = ty /\ r = x
      BY ONLY <3>1, <2>1, <2>2, <2>3
    <3>2. CASE ~(t = ty /\ r = x)
      <4>1. InUse(a, t, r)
        BY <3>2, <2>4, <1>1, <1>3 DEF InUse
      <4>2. \/ \E k \in 1 .. n : TempAt(a, k, t, r)
            \/ \E j \in 1 .. l : fs[j].res = t /\ fs[j].reg = r
        BY ONLY <4>1, <1>2, Lifo(a, fs, m), t \in Types, r \in Nat DEF Lifo, NoGap
      <4> QED
        BY ONLY <4>2, <2>2, <2>3, <1>10 DEF TempAt
    <3> QED
      BY <3>1, <3>2
  <2>5. NoGap(b, gs)
    BY ONLY <2>2, <2>4, <1>2, <1>10 DEF NoGap
  <2>6. Ascend(b)
    BY ONLY <1>10, Lifo(a, fs, m) DEF Lifo, Ascend
  <2>7. Around(b, gs)
    BY ONLY <2>1, <2>2, <2>3, <1>2, <1>6, <1>10, Lifo(a, fs, m) DEF Lifo, Around
  <2>8. FramesAscend(gs)
    <3>1. \A i, j \in 1 .. l : fs[i].res = fs[j].res /\ fs[i].res # Void /\ i < j => fs[i].reg < fs[j].reg
      BY ONLY <1>2, Lifo(a, fs, m) DEF Lifo, FramesAscend
    <3> SUFFICES ASSUME NEW i \in 1 .. l + 1, NEW j \in 1 .. l + 1, gs[i].res = gs[j].res,
                        gs[i].res # Void, i < j
                 PROVE  gs[i].reg < gs[j].reg
      BY <2>2 DEF FramesAscend
    <3>2. i \in 1 .. l /\ gs[i] = fs[i]
      BY ONLY <2>2, <2>3, i \in 1 .. l + 1, j \in 1 .. l + 1, i < j, l \in Nat
    <3>3. CASE j = l + 1
      BY ONLY <3>2, <3>3, <2>1, <2>2, <1>6, gs[i].res = gs[j].res
    <3>4. CASE j # l + 1
      <4>1. j \in 1 .. l /\ gs[j] = fs[j]
        BY ONLY <3>4, <2>2, <2>3, j \in 1 .. l + 1
      <4> QED
        BY ONLY <4>1, <3>1, <3>2, gs[i].res = gs[j].res, gs[i].res # Void, i < j
    <3> QED
      BY <3>3, <3>4
  <2>9. Used(b, gs)
    <3>1. ASSUME NEW k \in 1 .. n, b.stk[k].kind = "TEMP" PROVE InUse(b, b.stk[k].ty, b.stk[k].idx)
      <4>1. InUse(a, a.stk[k].ty, a.stk[k].idx)
        BY ONLY <3>1, <1>2, <1>10, Lifo(a, fs, m) DEF Lifo, Used
      <4> QED
        BY ONLY <4>1, <3>1, <1>6, <1>8, <1>10 DEF InUse
    <3>2. ASSUME NEW j \in 1 .. l + 1, gs[j].res # Void PROVE InUse(b, gs[j].res, gs[j].reg)
      <4>1. CASE j = l + 1
        BY ONLY <4>1, <2>1, <2>2, <1>3, <1>8, ty \in Types DEF InUse
      <4>2. CASE j # l + 1
        <5>1. j \in 1 .. l /\ gs[j] = fs[j]
          BY ONLY <4>2, <3>2, <2>2, <2>3
        <5>2. InUse(a, fs[j].res, fs[j].reg)
          BY ONLY <5>1, <3>2, <1>2, Lifo(a, fs, m) DEF Lifo, Used
        <5> QED
          BY ONLY <5>1, <5>2, <3>2, <1>6, <1>8 DEF InUse
      <4> QED
        BY <4>1, <4>2
    <3> QED
      BY ONLY <3>1, <3>2, <2>2, <1>2, <1>10 DEF Used
  <2>10. OwnElems(b, gs, 0)
    <3>1. \A j \in 1 .. l + 1 : gs[j].size <= n - 0
      BY <2>1, <2>2, <2>3, <1>6, <1>9
    <3> QED
      BY ONLY <3>1, <2>2, <1>2, <1>10, n \in Nat DEF OwnElems
  <2>12. Nested(gs)
    <3>1. \A i, j \in 1 .. l : i < j => fs[i].size <= fs[j].size
      BY ONLY <1>2, Lifo(a, fs, m) DEF Lifo, Nested
    <3> QED
      BY ONLY <3>1, <2>1, <2>2, <2>3, <1>9 DEF Nested
  <2> QED
    BY ONLY <2>5, <2>6, <2>7, <2>8, <2>9, <2>10, <2>12, <1>4, <1>5 DEF Lifo
<1> QED
  BY <1>7, <1>10

\* A temporary is pushed: there is a register for it.
LEMMA PushTempLifo ==
  ASSUME NEW a, NEW fs, NEW m \in Nat, Room(m + 1), Lifo(a, fs, m), NEW ty \in Types,
         NEW b, b = Push_temp_reg(a, ty), NEW e, e = Elem("TEMP", ty, a.next[ty])
  PROVE  /\ Lifo(b, fs, m + 1) /\ b.stk = Append(a.stk, e)
         /\ b.next = [a.next EXCEPT ![ty] = @ + 1]
<1>1. IsAl(a) /\ a.ok = TRUE /\ a.stk \in Seq(Regs) /\ a.next \in [Types -> Nat] /\ fs \in Seq(Frames)
  BY DEF Lifo, LifoTyped
<1>2. a.next[ty] < REG_TEMP_MAX
  <2>1. a.next[ty] \in Nat /\ Base(ty) \in Nat /\ REG_TEMP_MAX \in Nat
    BY <1>1, BaseNat, ConverterAssumption
  <2>2. a.next[ty] <= Base(ty) + m
    BY DEF Lifo, AtMost
  <2>3. Base(ty) + (m + 1) <= REG_TEMP_MAX
    BY DEF Room
  <2> QED
    BY ONLY <2>1, <2>2, <2>3, m \in Nat
<1>3. PICK x : x = [a.next EXCEPT ![ty] = @ + 1]
  OBVIOUS
<1>4. PICK z : z = [a.size EXCEPT ![ty] = IF a.next[ty] >= @ + RET_REG_NUM THEN @ + 1 ELSE @]
  OBVIOUS
<1>5. PICK s : s = Append(a.stk, e)
  OBVIOUS
<1>6. PICK c : c = Allocate_register(a, ty)
  OBVIOUS
<1>7. c = [a EXCEPT !.next = x, !.size = z]
  BY ONLY <1>1, <1>3, <1>4, <1>6 DEF Allocate_register, IsAl
<1>8. IsAl(c) /\ c.next = x /\ c.ok = TRUE /\ c.stk = a.stk
  BY ONLY <1>1, <1>7 DEF IsAl
<1>9. PICK d : d = [c EXCEPT !.stk = s]
  OBVIOUS
<1>10. IsAl(d) /\ d.next = x /\ d.ok = TRUE /\ d.stk = s
  BY ONLY <1>8, <1>9 DEF IsAl
<1>11. Push(c, e) = d
  BY ONLY <1>5, <1>8, <1>9 DEF Push
<1>12. b = [d EXCEPT !.ok = @ /\ a.next[ty] < REG_TEMP_MAX]
  BY ONLY <1>6, <1>11, b = Push_temp_reg(a, ty), e = Elem("TEMP", ty, a.next[ty]) DEF Push_temp_reg
<1>13. IsAl(b) /\ b.next = x /\ b.ok = TRUE /\ b.stk = s
  BY ONLY <1>2, <1>10, <1>12 DEF IsAl
<1>14. More(a, ty, b)
  BY ONLY <1>3, <1>13 DEF More
<1>15. e \in Regs
  BY <1>1 DEF Elem, Regs
<1>16. b.stk \in Seq(Regs)
  BY <1>1, <1>5, <1>13, <1>15, AppendProperties
<1>17. PICK y : y = a.next[ty]
  OBVIOUS
<1>18. b.stk = Append(a.stk, Elem("TEMP", ty, y))
  BY ONLY <1>5, <1>13, <1>17, e = Elem("TEMP", ty, a.next[ty])
<1>19. Lifo(b, fs, m + 1)
  BY ONLY <1>1, <1>14, <1>16, <1>17, <1>18, Lifo(a, fs, m), m \in Nat, ty \in Types, LifoMore
<1> QED
  BY ONLY <1>3, <1>5, <1>13, <1>19

\* A bound is raised.
LEMMA LifoLater ==
  ASSUME NEW a, NEW fs, NEW m \in Nat, Lifo(a, fs, m)
  PROVE  Lifo(a, fs, m + 1)
<1>1. \A ty \in Types : a.next[ty] \in Nat /\ Base(ty) \in Nat
  BY BaseNat DEF Lifo, LifoTyped
<1>2. AtMost(a, m) => AtMost(a, m + 1)
  BY ONLY <1>1, m \in Nat DEF AtMost
<1> QED
  BY <1>2 DEF Lifo

\* An element that is no temporary is pushed.
LEMMA PushLocalLifo ==
  ASSUME NEW a, NEW fs, NEW m \in Nat, Lifo(a, fs, m), NEW e \in Regs, e.kind # "TEMP",
         NEW b, b = Push(a, e)
  PROVE  Lifo(b, fs, m) /\ b.stk = Append(a.stk, e)
<1>1. IsAl(a) /\ a.ok = TRUE /\ a.stk \in Seq(Regs) /\ a.next \in [Types -> Nat] /\ fs \in Seq(Frames)
  BY DEF Lifo, LifoTyped
<1>2. IsAl(b) /\ b.ok = TRUE /\ b.stk = Append(a.stk, e) /\ b.next = a.next
  BY <1>1 DEF Push, IsAl
<1>3. PICK n \in Nat : /\ n = Len(a.stk) /\ b.stk \in Seq(Regs) /\ Len(b.stk) = n + 1 /\ b.stk[n + 1] = e
                       /\ \A k \in 1 .. n : b.stk[k] = a.stk[k]
  <2>1. /\ Append(a.stk, e) \in Seq(Regs) /\ Len(Append(a.stk, e)) = Len(a.stk) + 1
        /\ Append(a.stk, e)[Len(a.stk) + 1] = e
        /\ \A k \in 1 .. Len(a.stk) : Append(a.stk, e)[k] = a.stk[k]
    BY ONLY <1>1, e \in Regs, AppendProperties
  <2>2. Len(a.stk) \in Nat
    BY <1>1
  <2> QED
    BY ONLY <2>1, <2>2, <1>2
<1>4. /\ \A k \in 1 .. n + 1 : k \in 1 .. n \/ k = n + 1
      /\ \A k \in 1 .. n : k \in 1 .. n + 1
  OBVIOUS
<1>5. LifoTyped(b, fs) /\ AtMost(b, m)
  BY <1>1, <1>2, <1>3 DEF Lifo, LifoTyped, AtMost
<1>6. NoGap(b, fs)
  BY ONLY <1>2, <1>3, <1>4, Lifo(a, fs, m) DEF Lifo, NoGap, TempAt, InUse
<1>7. Ascend(b)
  BY ONLY <1>3, <1>4, Lifo(a, fs, m), e.kind # "TEMP" DEF Lifo, Ascend
<1>8. Around(b, fs)
  BY ONLY <1>3, <1>4, Lifo(a, fs, m), e.kind # "TEMP" DEF Lifo, Around
<1>9. Used(b, fs)
  BY ONLY <1>2, <1>3, <1>4, Lifo(a, fs, m), e.kind # "TEMP" DEF Lifo, Used, InUse
<1>10. OwnElems(b, fs, 0)
  <2>1. \A j \in 1 .. Len(fs) : fs[j].size \in Nat /\ fs[j].size <= n - 0
    BY <1>1, <1>3, FrameFields DEF Lifo, OwnElems
  <2> QED
    BY ONLY <2>1, <1>3, n \in Nat DEF OwnElems
<1> QED
  BY ONLY <1>2, <1>5, <1>6, <1>7, <1>8, <1>9, <1>10, Lifo(a, fs, m) DEF Lifo

\* b is a with a register x for a result of type res, and gs are the blocks.
Reserves(a, fs, res, x, b, gs) ==
  /\ b = IF res = Void THEN a ELSE Allocate_register(a, res)
  /\ x = (IF res = Void THEN 0 ELSE a.next[res])
  /\ gs = Append(fs, [res |-> res, reg |-> x, size |-> Len(a.stk)])

\* A block is entered: its result gets a register.
LEMMA ReserveLifo ==
  ASSUME NEW a, NEW fs, NEW m \in Nat, Lifo(a, fs, m), NEW res \in Types \cup {Void},
         NEW b, NEW x, NEW gs, Reserves(a, fs, res, x, b, gs)
  PROVE  Lifo(b, gs, m + 1) /\ b.stk = a.stk
<1>0. /\ b = IF res = Void THEN a ELSE Allocate_register(a, res)
      /\ x = (IF res = Void THEN 0 ELSE a.next[res])
      /\ gs = Append(fs, [res |-> res, reg |-> x, size |-> Len(a.stk)])
  BY DEF Reserves
<1> USE <1>0
<1>1. IsAl(a) /\ a.ok = TRUE /\ a.stk \in Seq(Regs) /\ a.next \in [Types -> Nat] /\ fs \in Seq(Frames)
  BY DEF Lifo, LifoTyped
<1>2. PICK n \in Nat, l \in Nat : n = Len(a.stk) /\ l = Len(fs)
  BY <1>1
<1>3. PICK f : f = [res |-> res, reg |-> x, size |-> n]
  OBVIOUS
<1>4. f \in Frames /\ f.res = res /\ f.size = n
  BY <1>1, <1>3 DEF Frames
<1>5. /\ gs \in Seq(Frames) /\ Len(gs) = l + 1 /\ gs[l + 1] = f
      /\ \A j \in 1 .. l : gs[j] = fs[j]
  BY <1>1, <1>2, <1>3, <1>4, AppendProperties
<1>6. CASE res = Void
  <2>1. b = a
    BY <1>6
  <2>2. /\ \A j \in 1 .. l + 1 : j \in 1 .. l \/ j = l + 1
        /\ \A j \in 1 .. l : j \in 1 .. l + 1
    OBVIOUS
  <2>3. f.res = Void /\ Void \notin Types
    BY <1>4, <1>6 DEF Types, Void
  <2>4. \A k \in 1 .. n : a.stk[k].ty \in Types
    BY <1>1, <1>2, RegFields
  <2>5. NoGap(a, gs)
    BY ONLY <2>2, <2>3, <1>2, <1>5, Lifo(a, fs, m) DEF Lifo, NoGap
  <2>6. Around(a, gs)
    BY ONLY <2>2, <2>3, <2>4, <1>2, <1>5, Lifo(a, fs, m) DEF Lifo, Around
  <2>7. FramesAscend(gs)
    BY ONLY <2>2, <2>3, <1>2, <1>5, Lifo(a, fs, m) DEF Lifo, FramesAscend
  <2>8. Used(a, gs)
    BY ONLY <2>2, <2>3, <1>2, <1>5, Lifo(a, fs, m) DEF Lifo, Used
  <2>9. OwnElems(a, gs, 0)
    <3>1. \A j \in 1 .. l : fs[j].size <= n - 0
      BY <1>2 DEF Lifo, OwnElems
    <3> QED
      BY ONLY <3>1, <2>2, <1>2, <1>4, <1>5, n \in Nat DEF OwnElems
  <2>11. Nested(gs)
    <3>1. \A i, j \in 1 .. l : i < j => fs[i].size <= fs[j].size
      BY ONLY <1>2, Lifo(a, fs, m) DEF Lifo, Nested
    <3>2. /\ \A j \in 1 .. l : fs[j].size <= n
          /\ \A j \in 1 .. l + 1 : ~(l + 1 < j)
      BY <1>2 DEF Lifo, OwnElems
    <3> QED
      BY ONLY <3>1, <3>2, <2>2, <1>4, <1>5 DEF Nested
  <2>10. Lifo(a, gs, m)
    BY ONLY <2>5, <2>6, <2>7, <2>8, <2>9, <2>11, <1>5, Lifo(a, fs, m) DEF Lifo, LifoTyped
  <2> QED
    BY ONLY <2>1, <2>10, m \in Nat, LifoLater
<1>7. CASE res # Void
  <2>1. res \in Types /\ b = Allocate_register(a, res) /\ x = a.next[res]
    BY <1>7
  <2>2. PICK y : y = [a.next EXCEPT ![res] = @ + 1]
    OBVIOUS
  <2>3. PICK z : z = [a.size EXCEPT ![res] = IF a.next[res] >= @ + RET_REG_NUM THEN @ + 1 ELSE @]
    OBVIOUS
  <2>4. b = [a EXCEPT !.next = y, !.size = z]
    BY ONLY <1>1, <2>1, <2>2, <2>3 DEF Allocate_register, IsAl
  <2>5. IsAl(b) /\ b.next = y /\ b.ok = TRUE /\ b.stk = a.stk
    BY ONLY <1>1, <2>4 DEF IsAl
  <2>6. More(a, res, b)
    BY ONLY <2>2, <2>5 DEF More
  <2>7. Lifo(b, gs, m + 1)
    BY ONLY <2>1, <2>5, <2>6, <1>1, <1>5, Lifo(a, fs, m), m \in Nat, LifoMore,
            gs = Append(fs, [res |-> res, reg |-> x, size |-> Len(a.stk)])
  <2> QED
    BY ONLY <2>5, <2>7
<1> QED
  BY <1>6, <1>7

\* Only the stack and the next registers count.
LEMMA LifoSame ==
  ASSUME NEW a, NEW fs, NEW m, Lifo(a, fs, m), NEW b, IsAl(b), b.ok = TRUE, b.stk = a.stk, b.next = a.next
  PROVE  Lifo(b, fs, m)
BY DEF Lifo, LifoTyped, AtMost, NoGap, TempAt, InUse, Ascend, Around, Used, OwnElems

\* A sequence gets one more element and loses it.
LEMMA FrontAppend ==
  ASSUME NEW S, NEW s \in Seq(S), NEW e \in S
  PROVE  Front(Append(s, e)) = s /\ Last(Append(s, e)) = e /\ Append(s, e) # << >>
<1>1. PICK t : t = Append(s, e)
  OBVIOUS
<1>2. PICK n \in Nat : n = Len(s)
  OBVIOUS
<1>3. t \in Seq(S) /\ Len(t) = n + 1 /\ t[n + 1] = e /\ \A k \in 1 .. n : t[k] = s[k]
  BY <1>1, <1>2, AppendProperties
<1>4. t # << >>
  BY <1>2, <1>3
<1>5. /\ Front(t) \in Seq(S) /\ Len(Front(t)) = Len(t) - 1
      /\ \A k \in 1 .. Len(t) - 1 : Front(t)[k] = t[k]
      /\ Last(t) = t[Len(t)]
  BY ONLY <1>3, <1>4, FrontOf
<1>6. Len(Front(t)) = n /\ \A k \in 1 .. n : Front(t)[k] = s[k]
  BY <1>2, <1>3, <1>5
<1>7. Front(t) = s
  BY ONLY <1>2, <1>5, <1>6, s \in Seq(S), SeqEqual
<1> QED
  BY ONLY <1>1, <1>2, <1>3, <1>4, <1>5, <1>7

\* A scratch register leaves the stack as it is.
LEMMA ScratchLifo ==
  ASSUME NEW a, NEW fs, NEW m \in Nat, Room(m + 1), Lifo(a, fs, m), NEW b, b = WithScratch(a)
  PROVE  Lifo(b, fs, m) /\ b.stk = a.stk
<1>1. a.stk \in Seq(Regs) /\ a.next \in [Types -> Nat] /\ fs \in Seq(Frames)
  BY DEF Lifo, LifoTyped
<1>2. PICK e : e = Elem("TEMP", "i32", a.next["i32"])
  OBVIOUS
<1>3. "i32" \in Types /\ e \in Regs /\ e.kind = "TEMP" /\ e.ty = "i32"
  BY <1>1, <1>2 DEF Elem, Regs, Types
<1>4. PICK c : c = Push_temp_reg(a, "i32")
  OBVIOUS
<1>5. Lifo(c, fs, m + 1) /\ c.stk = Append(a.stk, e) /\ c.next = [a.next EXCEPT !["i32"] = @ + 1]
  BY ONLY <1>2, <1>3, <1>4, Room(m + 1), Lifo(a, fs, m), m \in Nat, PushTempLifo
<1>6. Front(c.stk) = a.stk /\ Last(c.stk) = e
  BY ONLY <1>1, <1>3, <1>5, FrontAppend
<1>7. OwnElems(c, fs, 1)
  <2>1. Len(a.stk) \in Nat /\ Len(c.stk) = Len(a.stk) + 1
    BY <1>1, <1>3, <1>5, AppendProperties
  <2>2. \A j \in 1 .. Len(fs) : fs[j].size <= Len(a.stk) - 0
    BY DEF Lifo, OwnElems
  <2> QED
    BY ONLY <2>1, <2>2 DEF OwnElems
<1>8. PICK d : d = Pop_wasm_stk(c, "i32")
  OBVIOUS
<1>9. Popped(c, fs, m + 1, "i32", d)
  <2>1. "i32" = Last(c.stk).ty /\ m + 1 \in Nat
    BY <1>3, <1>6
  <2> QED
    BY ONLY <2>1, <1>5, <1>7, <1>8, Room(m + 1), PopLifo
<1>10. /\ Lifo(d, fs, m + 1) /\ d.stk = a.stk
       /\ d.next = [c.next EXCEPT !["i32"] = @ - 1]
  BY ONLY <1>3, <1>6, <1>9 DEF Popped
<1>11. d.next = a.next
  BY <1>1, <1>3, <1>5, <1>10
<1>12. Lifo(d, fs, m)
  BY ONLY <1>10, <1>11, Lifo(a, fs, m), LifoSame DEF Lifo, LifoTyped
<1>13. b = d
  BY <1>4, <1>8 DEF WithScratch
<1> QED
  BY ONLY <1>10, <1>12, <1>13

\* The end of block f: what is above the height at its begin has been popped,
\* and its result, if it has one, is pushed in the register kept for it.
LEMMA DropFrame ==
  ASSUME NEW a, NEW fs, NEW m \in Nat, Lifo(a, fs, m), fs # << >>, NEW f, f = Last(fs),
         Len(a.stk) = f.size, NEW b, IsAl(b), b.ok = TRUE, b.next = a.next,
         b.stk = IF f.res = Void THEN a.stk ELSE Append(a.stk, Elem("TEMP", f.res, f.reg))
  PROVE  Lifo(b, Front(fs), m)
<1>1. a.stk \in Seq(Regs) /\ a.next \in [Types -> Nat] /\ fs \in Seq(Frames)
  BY DEF Lifo, LifoTyped
<1>2. PICK gs : gs = Front(fs)
  OBVIOUS
<1>3. PICK l \in Nat : /\ l = Len(fs) /\ l # 0 /\ l \in 1 .. l /\ f = fs[l] /\ f \in Frames
                       /\ gs \in Seq(Frames) /\ Len(gs) = l - 1
                       /\ \A j \in 1 .. l - 1 : gs[j] = fs[j]
  <2>1. /\ Front(fs) \in Seq(Frames) /\ Len(fs) \in Nat \ {0} /\ Len(Front(fs)) = Len(fs) - 1
        /\ \A j \in 1 .. Len(fs) - 1 : Front(fs)[j] = fs[j]
        /\ Last(fs) = fs[Len(fs)] /\ Last(fs) \in Frames
    BY ONLY <1>1, fs # << >>, FrontOf
  <2>2. \A l \in Nat \ {0} : l \in 1 .. l
    OBVIOUS
  <2> QED
    BY ONLY <2>1, <2>2, <1>2, f = Last(fs)
<1>4. /\ \A j \in 1 .. l - 1 : j \in 1 .. l /\ j < l
      /\ \A j \in 1 .. l : j # l => j \in 1 .. l - 1
  OBVIOUS
<1>5. PICK n \in Nat : n = Len(a.stk) /\ n = f.size
  BY <1>1
<1>6. f.res \in Types \cup {Void} /\ f.reg \in Nat
  BY <1>3 DEF Frames
<1>7. FramesAscend(gs)
  BY ONLY <1>3, <1>4, Lifo(a, fs, m) DEF Lifo, FramesAscend
<1>8. Nested(gs) /\ \A j \in 1 .. l - 1 : fs[j].size <= n /\ fs[j].size \in Nat
  <2>1. \A i, j \in 1 .. l : i < j => fs[i].size <= fs[j].size
    BY ONLY <1>3, Lifo(a, fs, m) DEF Lifo, Nested
  <2>2. \A j \in 1 .. l : fs[j].size \in Nat
    BY <1>1, <1>3, FrameFields
  <2> QED
    BY ONLY <2>1, <2>2, <1>3, <1>4, <1>5 DEF Nested
<1>9. AtMost(b, m)
  BY DEF Lifo, AtMost
<1>10. CASE f.res = Void
  <2>1. b.stk = a.stk /\ Void \notin Types
    BY <1>10 DEF Types, Void
  <2>2. NoGap(b, gs)
    <3> SUFFICES ASSUME NEW t \in Types, NEW r \in Nat, InUse(b, t, r)
                 PROVE  \/ \E k \in 1 .. n : TempAt(b, k, t, r)
                        \/ \E j \in 1 .. l - 1 : gs[j].res = t /\ gs[j].reg = r
      BY <2>1, <1>3, <1>5 DEF NoGap
    <3>1. InUse(a, t, r)
      BY ONLY InUse(b, t, r), b.next = a.next DEF InUse
    <3>2. \/ \E k \in 1 .. n : TempAt(a, k, t, r)
          \/ \E j \in 1 .. l : fs[j].res = t /\ fs[j].reg = r
      BY ONLY <3>1, <1>3, <1>5, Lifo(a, fs, m), t \in Types, r \in Nat DEF Lifo, NoGap
    <3>3. f.res # t
      BY ONLY <2>1, <1>10, t \in Types
    <3> QED
      BY ONLY <3>2, <3>3, <2>1, <1>3, <1>4 DEF TempAt
  <2>3. Ascend(b)
    BY ONLY <2>1, Lifo(a, fs, m) DEF Lifo, Ascend
  <2>4. Around(b, gs)
    BY ONLY <2>1, <1>3, <1>4, Lifo(a, fs, m) DEF Lifo, Around
  <2>5. Used(b, gs)
    BY ONLY <2>1, <1>3, <1>4, Lifo(a, fs, m), b.next = a.next DEF Lifo, Used, InUse
  <2>6. OwnElems(b, gs, 0)
    BY ONLY <2>1, <1>3, <1>5, <1>8, n \in Nat DEF OwnElems
  <2>7. LifoTyped(b, gs)
    BY <2>1, <1>1, <1>3 DEF LifoTyped
  <2> QED
    BY ONLY <2>2, <2>3, <2>4, <2>5, <2>6, <2>7, <1>2, <1>7, <1>8, <1>9 DEF Lifo
<1>11. CASE f.res # Void
  <2>1. PICK e : e = Elem("TEMP", f.res, f.reg)
    OBVIOUS
  <2>2. e \in Regs /\ e.kind = "TEMP" /\ e.ty = f.res /\ e.idx = f.reg /\ f.res \in Types
    BY <2>1, <1>6, <1>11 DEF Elem, Regs
  <2>3. b.stk = Append(a.stk, e)
    BY <2>1, <1>11
  <2>4. /\ b.stk \in Seq(Regs) /\ Len(b.stk) = n + 1 /\ b.stk[n + 1] = e
        /\ \A k \in 1 .. n : b.stk[k] = a.stk[k]
    <3>1. /\ Append(a.stk, e) \in Seq(Regs) /\ Len(Append(a.stk, e)) = Len(a.stk) + 1
          /\ Append(a.stk, e)[Len(a.stk) + 1] = e
          /\ \A k \in 1 .. Len(a.stk) : Append(a.stk, e)[k] = a.stk[k]
      BY ONLY <2>2, <1>1, AppendProperties
    <3> QED
      BY ONLY <3>1, <2>3, <1>5
  <2>5. /\ \A k \in 1 .. n + 1 : (k \in 1 .. n /\ k < n + 1) \/ k = n + 1
        /\ \A k \in 1 .. n : k \in 1 .. n + 1 /\ k <= n
        /\ n + 1 \in 1 .. n + 1 /\ ~(n + 1 < n + 1)
        /\ \A k \in 1 .. n : ~(n + 1 < k)
    OBVIOUS
  <2>6. /\ \A k \in 1 .. n : a.stk[k].kind = "TEMP" /\ a.stk[k].ty = f.res => a.stk[k].idx < f.reg
        /\ \A j \in 1 .. l - 1 : fs[j].res = f.res => fs[j].reg < f.reg
        /\ InUse(a, f.res, f.reg)
    <3>1. \A k \in 1 .. n : a.stk[k].kind = "TEMP" /\ a.stk[k].ty = f.res => a.stk[k].idx < f.reg
      BY ONLY <2>5, <1>3, <1>5, Lifo(a, fs, m) DEF Lifo, Around
    <3>2. \A j \in 1 .. l - 1 : fs[j].res = f.res => fs[j].reg < f.reg
      BY ONLY <1>3, <1>4, <1>11, Lifo(a, fs, m) DEF Lifo, FramesAscend
    <3>3. InUse(a, f.res, f.reg)
      BY ONLY <1>3, <1>11, Lifo(a, fs, m) DEF Lifo, Used
    <3> QED
      BY <3>1, <3>2, <3>3
  <2>7. ASSUME NEW t \in Types, NEW r \in Nat, InUse(b, t, r)
        PROVE  \/ \E k \in 1 .. n + 1 : TempAt(b, k, t, r)
               \/ \E j \in 1 .. l - 1 : fs[j].res = t /\ fs[j].reg = r
    <3>1. InUse(a, t, r)
      BY ONLY <2>7, b.next = a.next DEF InUse
    <3>2. \/ \E k \in 1 .. n : TempAt(a, k, t, r)
          \/ \E j \in 1 .. l : fs[j].res = t /\ fs[j].reg = r
      BY ONLY <3>1, <1>3, <1>5, Lifo(a, fs, m), t \in Types, r \in Nat DEF Lifo, NoGap
    <3>3. ASSUME NEW k \in 1 .. n, TempAt(a, k, t, r) PROVE k \in 1 .. n + 1 /\ TempAt(b, k, t, r)
      BY ONLY <3>3, <2>4, <2>5 DEF TempAt
    <3>4. f.res = t /\ f.reg = r => TempAt(b, n + 1, t, r)
      BY ONLY <2>2, <2>4 DEF TempAt
    <3> QED
      BY ONLY <3>2, <3>3, <3>4, <2>5, <1>3, <1>4
  <2>8. NoGap(b, gs)
    <3>1. Len(b.stk) = n + 1 /\ Len(gs) = l - 1 /\ \A j \in 1 .. l - 1 : gs[j] = fs[j]
      BY ONLY <2>4, <1>3
    <3>2. ASSUME NEW t \in Types, NEW r \in Nat, InUse(b, t, r)
          PROVE  \/ \E k \in 1 .. Len(b.stk) : TempAt(b, k, t, r)
                 \/ \E j \in 1 .. Len(gs) : gs[j].res = t /\ gs[j].reg = r
      BY ONLY <2>7, <3>1, <3>2
    <3> QED
      BY ONLY <3>2 DEF NoGap
  <2>9. Ascend(b)
    <3>1. Ascend(a) /\ Len(a.stk) = n
      BY ONLY <1>5, Lifo(a, fs, m) DEF Lifo
    <3>2. \A k \in 1 .. n : a.stk[k].kind = "TEMP" /\ a.stk[k].ty = e.ty => a.stk[k].idx < e.idx
      BY ONLY <2>2, <2>6
    <3> QED
      BY ONLY <3>1, <3>2, <2>4, n \in Nat, AscendMore
  <2>10. Around(b, gs)
    <3> SUFFICES ASSUME NEW j \in 1 .. l - 1, NEW k \in 1 .. n + 1, b.stk[k].kind = "TEMP",
                        b.stk[k].ty = fs[j].res
                 PROVE  /\ k <= fs[j].size => b.stk[k].idx < fs[j].reg
                        /\ k > fs[j].size => fs[j].reg < b.stk[k].idx
      BY <2>4, <1>3 DEF Around
    <3>1. CASE k = n + 1
      <4>1. ~(k <= fs[j].size)
        BY <3>1, <1>8
      <4> QED
        BY ONLY <4>1, <3>1, <2>2, <2>4, <2>6, b.stk[k].ty = fs[j].res
    <3>2. CASE k # n + 1
      <4>1. k \in 1 .. n /\ b.stk[k] = a.stk[k] /\ j \in 1 .. l
        BY ONLY <3>2, <2>4, <2>5, <1>4
      <4> QED
        BY ONLY <4>1, <1>3, <1>5, Lifo(a, fs, m), b.stk[k].kind = "TEMP", b.stk[k].ty = fs[j].res
        DEF Lifo, Around
    <3> QED
      BY <3>1, <3>2
  <2>11. Used(b, gs)
    <3>1. /\ \A k \in 1 .. n : a.stk[k].kind = "TEMP" => InUse(a, a.stk[k].ty, a.stk[k].idx)
          /\ \A j \in 1 .. l : fs[j].res # Void => InUse(a, fs[j].res, fs[j].reg)
      BY ONLY <1>3, <1>5, Lifo(a, fs, m) DEF Lifo, Used
    <3>2. \A t, r : InUse(a, t, r) => InUse(b, t, r)
      BY ONLY b.next = a.next DEF InUse
    <3>3. ASSUME NEW k \in 1 .. n + 1, b.stk[k].kind = "TEMP" PROVE InUse(b, b.stk[k].ty, b.stk[k].idx)
      <4>1. CASE k = n + 1
        BY ONLY <4>1, <3>2, <2>2, <2>4, <2>6
      <4>2. CASE k \in 1 .. n
        BY ONLY <4>2, <3>1, <3>2, <3>3, <2>4
      <4> QED
        BY ONLY <4>1, <4>2, <2>5
    <3>4. ASSUME NEW j \in 1 .. Len(gs), gs[j].res # Void PROVE InUse(b, gs[j].res, gs[j].reg)
      <4>1. j \in 1 .. l /\ gs[j] = fs[j]
        BY ONLY <1>3, <1>4, j \in 1 .. Len(gs)
      <4> QED
        BY ONLY <4>1, <3>1, <3>2, <3>4
    <3> QED
      BY ONLY <3>3, <3>4, <2>4 DEF Used
  <2>12. OwnElems(b, gs, 0)
    <3>1. \A j \in 1 .. l - 1 : gs[j].size <= (n + 1) - 0
      BY ONLY <1>3, <1>8, n \in Nat
    <3>2. 0 <= n + 1
      BY ONLY n \in Nat
    <3> QED
      BY ONLY <3>1, <3>2, <2>4, <1>3 DEF OwnElems
  <2>13. LifoTyped(b, gs)
    BY <2>4, <1>1, <1>3 DEF LifoTyped
  <2> QED
    BY ONLY <2>8, <2>9, <2>10, <2>11, <2>12, <2>13, <1>2, <1>7, <1>8, <1>9 DEF Lifo
<1> QED
  BY <1>10, <1>11

\* What the end of a block leaves on the stack: what the block found, and its result.
Closed(a, f, c) ==
  IF f.res = Void THEN Lower(a.stk, f.size, c.stk)
  ELSE \E s \in Seq(Regs) : Lower(a.stk, f.size, s) /\ c.stk = Append(s, Elem("TEMP", f.res, f.reg))

\* Pop_redundant_values and Push_result_to_stack: no assertion fails.
LEMMA CloseLifo ==
  ASSUME NEW a, NEW fs, NEW m \in Nat, Room(m), Lifo(a, fs, m), fs # << >>, NEW f, f = Last(fs),
         NEW p, p.size = f.size, p.res = f.res, p.reg = f.reg, NEW b, b = Close(a, p)
  PROVE  Lifo(b, Front(fs), m) /\ Closed(a, f, b)
<1>1. IsAl(a) /\ a.stk \in Seq(Regs) /\ fs \in Seq(Frames)
  BY DEF Lifo, LifoTyped
<1>2. PICK l \in Nat : l = Len(fs) /\ l # 0 /\ l \in 1 .. l /\ f = fs[l] /\ f \in Frames
  <2>1. Len(fs) \in Nat \ {0} /\ Last(fs) = fs[Len(fs)] /\ Last(fs) \in Frames
    BY ONLY <1>1, fs # << >>, FrontOf
  <2>2. \A l \in Nat \ {0} : l \in 1 .. l
    OBVIOUS
  <2> QED
    BY ONLY <2>1, <2>2, f = Last(fs)
<1>3. PICK n \in Nat : n = Len(a.stk) /\ f.size <= n /\ f.size \in Nat
  <2>1. Len(a.stk) \in Nat /\ f.size \in Nat
    BY <1>1, <1>2 DEF Frames
  <2>2. f.size <= Len(a.stk) - 0
    BY ONLY <1>2, Lifo(a, fs, m) DEF Lifo, OwnElems
  <2> QED
    BY ONLY <2>1, <2>2
<1>4. PICK d \in Nat : d = n - f.size
  BY <1>3
<1>5. PICK tys : tys = [k \in 1 .. d |-> Void]
  OBVIOUS
<1>6. IsSeq(tys) /\ Len(tys) = d /\ \A k \in 1 .. d : tys[k] = Void
  <2>1. tys \in Seq({Void})
    BY <1>5
  <2> QED
    BY <2>1, <1>5 DEF IsSeq
<1>7. OwnElems(a, fs, d)
  <2>1. \A j \in 1 .. l : fs[j].size <= f.size
    <3>1. \A i, j \in 1 .. l : i < j => fs[i].size <= fs[j].size
      BY ONLY <1>2, Lifo(a, fs, m) DEF Lifo, Nested
    <3>2. \A j \in 1 .. l : j = l \/ j < l
      OBVIOUS
    <3> QED
      BY ONLY <3>1, <3>2, <1>2, <1>3
  <2> QED
    BY ONLY <2>1, <1>2, <1>3, <1>4, d \in Nat, n \in Nat DEF OwnElems
<1>8. Matches(a.stk, tys)
  BY ONLY <1>6 DEF Matches
<1>9. PICK c : c = PopAll(a, tys)
  OBVIOUS
<1>10. Taken(a, fs, m, d, c)
  <2>1. Taken(a, fs, m, Len(tys), c)
    <3>1. OwnElems(a, fs, Len(tys))
      BY ONLY <1>6, <1>7
    <3> QED
      BY ONLY <3>1, <1>6, <1>8, <1>9, Room(m), Lifo(a, fs, m), m \in Nat, PopAllLifo
  <2> QED
    BY ONLY <2>1, <1>6
<1>11. Lifo(c, fs, m) /\ Lower(a.stk, f.size, c.stk) /\ Len(c.stk) = f.size
  <2>1. n - d = f.size
    BY ONLY <1>3, <1>4, n \in Nat, d \in Nat
  <2> QED
    BY ONLY <2>1, <1>3, <1>10 DEF Taken, Lower
<1>12. Pop_redundant_values(a, p) = c
  <2>1. ~(Len(a.stk) < p.size)
    BY ONLY <1>3, n \in Nat, p.size = f.size
  <2>2. Len(a.stk) - p.size = d
    BY ONLY <1>3, <1>4, p.size = f.size
  <2> QED
    BY ONLY <2>1, <2>2, <1>5, <1>9 DEF Pop_redundant_values
<1>13. b = Push_result_to_stack(c, p)
  BY ONLY <1>12, b = Close(a, p) DEF Close
<1>14. IsAl(c) /\ c.ok = TRUE /\ c.stk \in Seq(Regs)
  BY ONLY <1>11 DEF Lifo, LifoTyped
<1>15. CASE f.res = Void
  <2>1. b = c
    BY ONLY <1>13, <1>15, p.res = f.res DEF Push_result_to_stack
  <2>2. Lifo(b, Front(fs), m)
    BY ONLY <2>1, <1>11, <1>14, <1>15, fs # << >>, f = Last(fs), m \in Nat, DropFrame
  <2> QED
    BY ONLY <2>1, <2>2, <1>11, <1>15 DEF Closed
<1>16. CASE f.res # Void
  <2>1. PICK e : e = Elem("TEMP", f.res, f.reg)
    OBVIOUS
  <2>2. f.reg # 0
    <3>1. InUse(c, f.res, f.reg)
      BY ONLY <1>2, <1>11, <1>16 DEF Lifo, Used
    <3>2. f.res \in Types /\ f.reg \in Nat
      BY <1>2, <1>16 DEF Frames
    <3>3. Base(f.res) \in Nat /\ Base(f.res) # 0
      BY <3>2, BaseNat, ConverterAssumption DEF Base
    <3> QED
      BY ONLY <3>1, <3>2, <3>3 DEF InUse
  <2>3. PICK s : s = Append(c.stk, e)
    OBVIOUS
  <2>4. PICK x : x = [c EXCEPT !.stk = s]
    OBVIOUS
  <2>5. IsAl(x) /\ x.stk = s /\ x.ok = TRUE /\ x.next = c.next
    BY ONLY <2>4, <1>14 DEF IsAl
  <2>6. Push(c, e) = x
    BY ONLY <2>3, <2>4 DEF Push
  <2>7. b = [x EXCEPT !.ok = @ /\ f.reg # 0]
    BY ONLY <2>1, <2>6, <1>13, <1>16, p.res = f.res, p.reg = f.reg DEF Push_result_to_stack
  <2>8. IsAl(b) /\ b.stk = s /\ b.ok = TRUE /\ b.next = c.next
    BY ONLY <2>2, <2>5, <2>7 DEF IsAl
  <2>9. b.stk = IF f.res = Void THEN c.stk ELSE Append(c.stk, Elem("TEMP", f.res, f.reg))
    BY ONLY <2>1, <2>3, <2>8, <1>16
  <2>10. Lifo(b, Front(fs), m)
    BY ONLY <2>8, <2>9, <1>11, fs # << >>, f = Last(fs), m \in Nat, DropFrame
  <2> QED
    BY ONLY <2>9, <2>10, <1>11, <1>14, <1>16 DEF Closed
<1> QED
  BY <1>15, <1>16

-----------------------------------------------------------------------------
(* The types.  ts are the types on the validator's stack, bs the heights   *)
(* of that stack at the begin of the open blocks.  Within each block the   *)
(* topmost types of the converter's stack are those of the validator; only *)
(* the first part of an if leaves something below them.                    *)

Seg(s, ts, lo, hi, vlo, vhi) ==
  /\ lo <= hi /\ vlo <= vhi /\ vhi - vlo <= hi - lo
  /\ \A i \in Nat : i < vhi - vlo => s[hi - i].ty = ts[vhi - i]

\* Where block j begins; 0 is the function.
Lo(fs, j) == IF j = 0 THEN 0 ELSE fs[j].size
VLo(bs, j) == IF j = 0 THEN 0 ELSE bs[j]

Levels(s, ts, bs, fs) ==
  \A j \in 1 .. Len(fs) : Seg(s, ts, Lo(fs, j - 1), fs[j].size, VLo(bs, j - 1), bs[j])

Fitted(s, ts, bs, fs) ==
  /\ Len(bs) = Len(fs)
  /\ Seg(s, ts, Lo(fs, Len(fs)), Len(s), VLo(bs, Len(bs)), Len(ts))
  /\ Levels(s, ts, bs, fs)

\* The heights are in order, and none is above n.
Rising(bs, n) ==
  /\ bs \in Seq(Nat)
  /\ \A j \in 1 .. Len(bs) : bs[j] <= n
  /\ \A i, j \in 1 .. Len(bs) : i < j => bs[i] <= bs[j]

\* The same for the converter's stack.
Heights(fs, n) == fs \in Seq(Frames) /\ Nested(fs) /\ \A j \in 1 .. Len(fs) : fs[j].size <= n

\* Lifo has what is needed here of the blocks.
LEMMA LifoHeights ==
  ASSUME NEW a, NEW fs, NEW m, Lifo(a, fs, m)
  PROVE  Heights(fs, Len(a.stk)) /\ a.stk \in Seq(Regs) /\ Len(a.stk) \in Nat
<1>1. a.stk \in Seq(Regs) /\ fs \in Seq(Frames) /\ Nested(fs)
  BY DEF Lifo, LifoTyped
<1>2. \A j \in 1 .. Len(fs) : fs[j].size <= Len(a.stk) - 0
  BY DEF Lifo, OwnElems
<1> QED
  BY <1>1, <1>2 DEF Heights

\* Nothing above the begin of the innermost block matters to those around it.
LEMMA LevelsKeep ==
  ASSUME NEW s, NEW ts, NEW bs, NEW fs, Levels(s, ts, bs, fs), Len(bs) = Len(fs), fs \in Seq(Frames),
         bs \in Seq(Nat), NEW p \in Nat, NEW q \in Nat, NEW s2, NEW ts2,
         \A j \in 1 .. Len(fs) : fs[j].size <= p /\ bs[j] <= q,
         \A k \in 1 .. p : s2[k] = s[k], \A k \in 1 .. q : ts2[k] = ts[k]
  PROVE  Levels(s2, ts2, bs, fs)
<1>1. PICK l \in Nat : l = Len(fs) /\ l = Len(bs)
  OBVIOUS
<1> SUFFICES ASSUME NEW j \in 1 .. l
             PROVE  Seg(s2, ts2, Lo(fs, j - 1), fs[j].size, VLo(bs, j - 1), bs[j])
  BY <1>1 DEF Levels
<1>2. Seg(s, ts, Lo(fs, j - 1), fs[j].size, VLo(bs, j - 1), bs[j])
  BY <1>1 DEF Levels
<1>3. PICK lo \in Nat, hi \in Nat, vlo \in Nat, vhi \in Nat :
        lo = Lo(fs, j - 1) /\ hi = fs[j].size /\ vlo = VLo(bs, j - 1) /\ vhi = bs[j]
  <2>1. j - 1 = 0 \/ j - 1 \in 1 .. l
    BY <1>1
  <2>2. \A k \in 1 .. l : fs[k].size \in Nat /\ bs[k] \in Nat
    BY <1>1, FrameFields, ElementOfSeq
  <2>3. Lo(fs, j - 1) \in Nat /\ VLo(bs, j - 1) \in Nat
    BY <2>1, <2>2 DEF Lo, VLo
  <2> QED
    BY <2>2, <2>3
<1>4. hi <= p /\ vhi <= q
  BY <1>1, <1>3
<1>5. Seg(s, ts, lo, hi, vlo, vhi)
  BY ONLY <1>2, <1>3
<1>6. \A i \in Nat : i < vhi - vlo => s2[hi - i].ty = ts2[vhi - i]
  <2> SUFFICES ASSUME NEW i \in Nat, i < vhi - vlo PROVE s2[hi - i].ty = ts2[vhi - i]
    OBVIOUS
  <2>1. lo <= hi /\ vlo <= vhi /\ vhi - vlo <= hi - lo /\ s[hi - i].ty = ts[vhi - i]
    BY <1>5 DEF Seg
  <2>2. hi - i \in 1 .. p /\ vhi - i \in 1 .. q
    BY <2>1, <1>4
  <2> QED
    BY ONLY <2>1, <2>2, \A k \in 1 .. p : s2[k] = s[k], \A k \in 1 .. q : ts2[k] = ts[k]
<1>7. Seg(s2, ts2, lo, hi, vlo, vhi)
  BY ONLY <1>5, <1>6 DEF Seg
<1> QED
  BY ONLY <1>3, <1>7

\* The numbers a comparison of the two stacks is about.
LEMMA FitNumbers ==
  ASSUME NEW s, IsSeq(s), NEW ts, IsSeq(ts), NEW bs, NEW fs, Fitted(s, ts, bs, fs), Heights(fs, Len(s)),
         Rising(bs, Len(ts)), NEW l, l = Len(fs), NEW lo, lo = Lo(fs, l), NEW vlo, vlo = VLo(bs, l)
  PROVE  /\ l \in Nat /\ l = Len(bs) /\ lo \in Nat /\ vlo \in Nat /\ Len(s) \in Nat /\ Len(ts) \in Nat
         /\ lo <= Len(s) /\ vlo <= Len(ts) /\ Len(ts) - vlo <= Len(s) - lo
         /\ \A i \in Nat : i < Len(ts) - vlo => s[Len(s) - i].ty = ts[Len(ts) - i]
         /\ \A j \in 1 .. l : /\ fs[j].size \in Nat /\ bs[j] \in Nat
                              /\ fs[j].size <= lo /\ bs[j] <= vlo
<1>1. /\ l \in Nat /\ l = Len(bs) /\ Len(s) \in Nat /\ Len(ts) \in Nat
      /\ bs \in Seq(Nat) /\ fs \in Seq(Frames)
  BY DEF IsSeq, Fitted, Heights, Rising
<1>2. \A j \in 1 .. l : fs[j].size \in Nat /\ bs[j] \in Nat
  BY <1>1, FrameFields, ElementOfSeq
<1>3. l # 0 => l \in 1 .. l
  BY <1>1
<1>4. lo \in Nat /\ vlo \in Nat
  BY <1>2, <1>3 DEF Lo, VLo
<1>5. \A j \in 1 .. l : fs[j].size <= lo /\ bs[j] <= vlo
  <2> SUFFICES ASSUME NEW j \in 1 .. l PROVE fs[j].size <= lo /\ bs[j] <= vlo
    OBVIOUS
  <2>1. l # 0 /\ (j = l \/ j < l)
    BY <1>1
  <2>2. lo = fs[l].size /\ vlo = bs[l]
    BY <2>1 DEF Lo, VLo
  <2>3. j < l => fs[j].size <= fs[l].size /\ bs[j] <= bs[l]
    BY <2>1, <1>1, <1>3 DEF Heights, Nested, Rising
  <2> QED
    BY <2>1, <2>2, <2>3, <1>2, <1>3
<1>6. Seg(s, ts, lo, Len(s), vlo, Len(ts))
  BY <1>1 DEF Fitted
<1> QED
  BY <1>1, <1>2, <1>4, <1>5, <1>6 DEF Seg

\* The topmost n types, which belong to the innermost block.
LEMMA FitTop ==
  ASSUME NEW s, IsSeq(s), NEW ts, IsSeq(ts), NEW bs, NEW fs, Fitted(s, ts, bs, fs), Heights(fs, Len(s)),
         Rising(bs, Len(ts)), NEW n \in Nat, n <= Len(ts) - VLo(bs, Len(bs))
  PROVE  /\ n <= Len(s) /\ \A j \in 1 .. Len(fs) : fs[j].size <= Len(s) - n
         /\ \A k \in 1 .. n : s[Len(s) - n + k].ty = ts[Len(ts) - n + k]
<1>1. PICK l, lo, vlo : l = Len(fs) /\ lo = Lo(fs, l) /\ vlo = VLo(bs, l)
  OBVIOUS
<1>2. /\ l \in Nat /\ l = Len(bs) /\ lo \in Nat /\ vlo \in Nat /\ Len(s) \in Nat /\ Len(ts) \in Nat
      /\ lo <= Len(s) /\ vlo <= Len(ts) /\ Len(ts) - vlo <= Len(s) - lo
      /\ \A i \in Nat : i < Len(ts) - vlo => s[Len(s) - i].ty = ts[Len(ts) - i]
      /\ \A j \in 1 .. l : /\ fs[j].size \in Nat /\ bs[j] \in Nat
                           /\ fs[j].size <= lo /\ bs[j] <= vlo
  BY ONLY <1>1, FitNumbers, IsSeq(s), IsSeq(ts), Fitted(s, ts, bs, fs), Heights(fs, Len(s)), Rising(bs, Len(ts))
<1>3. n <= Len(ts) - vlo
  BY <1>1, <1>2
<1>4. PICK p \in Nat, q \in Nat : p = Len(s) /\ q = Len(ts)
  BY <1>2
<1>5. n <= p /\ \A j \in 1 .. l : fs[j].size <= p - n
  BY ONLY <1>2, <1>3, <1>4, n \in Nat, p \in Nat, q \in Nat
<1>6. ASSUME NEW k \in 1 .. n PROVE s[p - n + k].ty = ts[q - n + k]
  <2>1. PICK i \in Nat : i = n - k
    BY <1>6
  <2>2. i < q - vlo /\ p - i = p - n + k /\ q - i = q - n + k
    BY <2>1, <1>2, <1>3, <1>4
  <2>3. s[p - i].ty = ts[q - i]
    BY ONLY <2>2, <1>2, <1>4, i \in Nat
  <2> QED
    BY ONLY <2>2, <2>3
<1> QED
  BY ONLY <1>1, <1>4, <1>5, <1>6

\* Both stacks lose n elements of the innermost block.
LEMMA FitLower ==
  ASSUME NEW s, IsSeq(s), NEW ts, IsSeq(ts), NEW bs, NEW fs, Fitted(s, ts, bs, fs), Heights(fs, Len(s)),
         Rising(bs, Len(ts)), NEW n \in Nat, n <= Len(ts) - VLo(bs, Len(bs)),
         NEW s2, Lower(s, Len(s) - n, s2), NEW ts2, Lower(ts, Len(ts) - n, ts2)
  PROVE  Fitted(s2, ts2, bs, fs) /\ Rising(bs, Len(ts2))
<1>1. PICK l, lo, vlo : l = Len(fs) /\ lo = Lo(fs, l) /\ vlo = VLo(bs, l)
  OBVIOUS
<1>2. /\ l \in Nat /\ l = Len(bs) /\ lo \in Nat /\ vlo \in Nat /\ Len(s) \in Nat /\ Len(ts) \in Nat
      /\ lo <= Len(s) /\ vlo <= Len(ts) /\ Len(ts) - vlo <= Len(s) - lo
      /\ \A i \in Nat : i < Len(ts) - vlo => s[Len(s) - i].ty = ts[Len(ts) - i]
      /\ \A j \in 1 .. l : /\ fs[j].size \in Nat /\ bs[j] \in Nat
                           /\ fs[j].size <= lo /\ bs[j] <= vlo
  BY ONLY <1>1, FitNumbers, IsSeq(s), IsSeq(ts), Fitted(s, ts, bs, fs), Heights(fs, Len(s)), Rising(bs, Len(ts))
<1>3. n <= Len(ts) - vlo
  BY <1>1, <1>2
<1>4. PICK p \in Nat, q \in Nat : p = Len(s) - n /\ q = Len(ts) - n
  <2>1. Len(s) - n \in Nat /\ Len(ts) - n \in Nat
    BY ONLY <1>2, <1>3, n \in Nat
  <2> QED
    BY ONLY <2>1
<1>5. lo <= p /\ vlo <= q /\ q - vlo <= p - lo
  BY ONLY <1>2, <1>3, <1>4, n \in Nat
<1>6. /\ Len(s2) = p /\ \A k \in 1 .. p : s2[k] = s[k]
      /\ Len(ts2) = q /\ \A k \in 1 .. q : ts2[k] = ts[k]
  BY ONLY <1>4, Lower(s, Len(s) - n, s2), Lower(ts, Len(ts) - n, ts2) DEF Lower
<1>7. ASSUME NEW i \in Nat, i < q - vlo PROVE s2[p - i].ty = ts2[q - i]
  <2>1. i + n \in Nat /\ i + n < Len(ts) - vlo /\ Len(s) - (i + n) = p - i /\ Len(ts) - (i + n) = q - i
    BY ONLY <1>2, <1>4, <1>7, n \in Nat
  <2>2. s[Len(s) - (i + n)].ty = ts[Len(ts) - (i + n)]
    BY ONLY <2>1, <1>2
  <2>3. p - i \in 1 .. p /\ q - i \in 1 .. q
    BY ONLY <1>2, <1>5, <1>7, p \in Nat, q \in Nat
  <2> QED
    BY ONLY <2>1, <2>2, <2>3, <1>6
<1>8. Seg(s2, ts2, lo, p, vlo, q)
  BY ONLY <1>5, <1>7 DEF Seg
<1>9. Levels(s2, ts2, bs, fs)
  <2>1. \A j \in 1 .. Len(fs) : fs[j].size <= p /\ bs[j] <= q
    <3>1. ASSUME NEW j \in 1 .. l PROVE fs[j].size <= p /\ bs[j] <= q
      BY ONLY <3>1, <1>2, <1>5, p \in Nat, q \in Nat
    <3> QED
      BY ONLY <3>1, <1>1
  <2>2. Levels(s, ts, bs, fs) /\ Len(bs) = Len(fs) /\ fs \in Seq(Frames) /\ bs \in Seq(Nat)
    BY DEF Fitted, Heights, Rising
  <2> QED
    BY ONLY <2>1, <2>2, <1>6, p \in Nat, q \in Nat, LevelsKeep
<1>10. Rising(bs, q)
  <2>1. \A j \in 1 .. Len(bs) : bs[j] <= q
    BY ONLY <1>2, <1>5, q \in Nat
  <2> QED
    BY <2>1 DEF Rising
<1> QED
  BY ONLY <1>1, <1>2, <1>6, <1>8, <1>9, <1>10 DEF Fitted

\* Both get one element more.
LEMMA FitPush ==
  ASSUME NEW s, NEW S, s \in Seq(S), NEW ts, ts \in Seq(Types), NEW bs, NEW fs, Fitted(s, ts, bs, fs),
         Heights(fs, Len(s)), Rising(bs, Len(ts)), NEW e \in S, NEW ty \in Types, e.ty = ty,
         NEW s2, s2 = Append(s, e), NEW ts2, ts2 = Append(ts, ty)
  PROVE  Fitted(s2, ts2, bs, fs) /\ Rising(bs, Len(ts2))
<1>1. PICK l, lo, vlo : l = Len(fs) /\ lo = Lo(fs, l) /\ vlo = VLo(bs, l)
  OBVIOUS
<1>2. /\ l \in Nat /\ l = Len(bs) /\ lo \in Nat /\ vlo \in Nat /\ Len(s) \in Nat /\ Len(ts) \in Nat
      /\ lo <= Len(s) /\ vlo <= Len(ts) /\ Len(ts) - vlo <= Len(s) - lo
      /\ \A i \in Nat : i < Len(ts) - vlo => s[Len(s) - i].ty = ts[Len(ts) - i]
      /\ \A j \in 1 .. l : /\ fs[j].size \in Nat /\ bs[j] \in Nat
                           /\ fs[j].size <= lo /\ bs[j] <= vlo
  <2>1. IsSeq(s) /\ IsSeq(ts)
    BY DEF IsSeq
  <2> QED
    BY ONLY <2>1, <1>1, FitNumbers, Fitted(s, ts, bs, fs), Heights(fs, Len(s)), Rising(bs, Len(ts))
<1>3. PICK p \in Nat, q \in Nat : p = Len(s) /\ q = Len(ts)
  BY <1>2
<1>4. /\ Len(s2) = p + 1 /\ s2[p + 1] = e /\ \A k \in 1 .. p : s2[k] = s[k]
      /\ Len(ts2) = q + 1 /\ ts2[q + 1] = ty /\ \A k \in 1 .. q : ts2[k] = ts[k]
  <2>1. /\ Len(Append(s, e)) = Len(s) + 1 /\ Append(s, e)[Len(s) + 1] = e
        /\ \A k \in 1 .. Len(s) : Append(s, e)[k] = s[k]
    BY ONLY s \in Seq(S), e \in S, AppendProperties
  <2>2. /\ Len(Append(ts, ty)) = Len(ts) + 1 /\ Append(ts, ty)[Len(ts) + 1] = ty
        /\ \A k \in 1 .. Len(ts) : Append(ts, ty)[k] = ts[k]
    BY ONLY ts \in Seq(Types), ty \in Types, AppendProperties
  <2> QED
    BY ONLY <2>1, <2>2, <1>3, s2 = Append(s, e), ts2 = Append(ts, ty)
<1>5. ASSUME NEW i \in Nat, i < (q + 1) - vlo PROVE s2[(p + 1) - i].ty = ts2[(q + 1) - i]
  <2>1. CASE i = 0
    BY <2>1, <1>4
  <2>2. CASE i # 0
    <3>1. i - 1 \in Nat /\ i - 1 < q - vlo /\ p - (i - 1) = (p + 1) - i /\ q - (i - 1) = (q + 1) - i
      BY <2>2, <1>2, <1>5
    <3>2. s[p - (i - 1)].ty = ts[q - (i - 1)]
      BY ONLY <3>1, <1>2, <1>3
    <3>3. (p + 1) - i \in 1 .. p /\ (q + 1) - i \in 1 .. q
      BY ONLY <2>2, <1>2, <1>3, <1>5, p \in Nat, q \in Nat
    <3> QED
      BY ONLY <3>1, <3>2, <3>3, <1>4
  <2> QED
    BY <2>1, <2>2
<1>6. Seg(s2, ts2, lo, p + 1, vlo, q + 1)
  <2>1. lo <= p + 1 /\ vlo <= q + 1 /\ (q + 1) - vlo <= (p + 1) - lo
    BY ONLY <1>2, <1>3, p \in Nat, q \in Nat
  <2> QED
    BY ONLY <2>1, <1>5 DEF Seg
<1>7. Levels(s2, ts2, bs, fs)
  <2>1. \A j \in 1 .. Len(fs) : fs[j].size <= p /\ bs[j] <= q
    <3>1. ASSUME NEW j \in 1 .. l PROVE fs[j].size <= p /\ bs[j] <= q
      BY ONLY <3>1, <1>2, <1>3, p \in Nat, q \in Nat
    <3> QED
      BY ONLY <3>1, <1>1
  <2>2. Levels(s, ts, bs, fs) /\ Len(bs) = Len(fs) /\ fs \in Seq(Frames) /\ bs \in Seq(Nat)
    BY DEF Fitted, Heights, Rising
  <2> QED
    BY ONLY <2>1, <2>2, <1>4, p \in Nat, q \in Nat, LevelsKeep
<1>8. Rising(bs, q + 1)
  <2>1. ASSUME NEW j \in 1 .. l PROVE bs[j] <= q + 1
    BY ONLY <2>1, <1>2, <1>3, q \in Nat
  <2> QED
    BY <2>1, <1>2 DEF Rising
<1> QED
  BY ONLY <1>1, <1>2, <1>4, <1>6, <1>7, <1>8 DEF Fitted

\* A block begins.
LEMMA FitOpen ==
  ASSUME NEW s, IsSeq(s), NEW ts, IsSeq(ts), NEW bs, NEW fs, Fitted(s, ts, bs, fs), Heights(fs, Len(s)),
         Rising(bs, Len(ts)), NEW f \in Frames, f.size = Len(s),
         NEW gs, gs = Append(fs, f), NEW cs, cs = Append(bs, Len(ts))
  PROVE  Fitted(s, ts, cs, gs) /\ Rising(cs, Len(ts))
<1>1. PICK l, lo, vlo : l = Len(fs) /\ lo = Lo(fs, l) /\ vlo = VLo(bs, l)
  OBVIOUS
<1>2. /\ l \in Nat /\ l = Len(bs) /\ lo \in Nat /\ vlo \in Nat /\ Len(s) \in Nat /\ Len(ts) \in Nat
      /\ lo <= Len(s) /\ vlo <= Len(ts) /\ Len(ts) - vlo <= Len(s) - lo
      /\ \A i \in Nat : i < Len(ts) - vlo => s[Len(s) - i].ty = ts[Len(ts) - i]
      /\ \A j \in 1 .. l : /\ fs[j].size \in Nat /\ bs[j] \in Nat
                           /\ fs[j].size <= lo /\ bs[j] <= vlo
  BY ONLY <1>1, FitNumbers, IsSeq(s), IsSeq(ts), Fitted(s, ts, bs, fs), Heights(fs, Len(s)), Rising(bs, Len(ts))
<1>3. bs \in Seq(Nat) /\ fs \in Seq(Frames)
  BY DEF Heights, Rising
<1>4. /\ Len(gs) = l + 1 /\ gs[l + 1] = f /\ \A j \in 1 .. l : gs[j] = fs[j]
      /\ cs \in Seq(Nat) /\ Len(cs) = l + 1 /\ cs[l + 1] = Len(ts) /\ \A j \in 1 .. l : cs[j] = bs[j]
  <2>1. /\ Len(Append(fs, f)) = Len(fs) + 1 /\ Append(fs, f)[Len(fs) + 1] = f
        /\ \A j \in 1 .. Len(fs) : Append(fs, f)[j] = fs[j]
    BY ONLY <1>3, f \in Frames, AppendProperties
  <2>2. /\ Append(bs, Len(ts)) \in Seq(Nat) /\ Len(Append(bs, Len(ts))) = Len(bs) + 1
        /\ Append(bs, Len(ts))[Len(bs) + 1] = Len(ts)
        /\ \A j \in 1 .. Len(bs) : Append(bs, Len(ts))[j] = bs[j]
    BY ONLY <1>2, <1>3, AppendProperties
  <2> QED
    BY ONLY <2>1, <2>2, <1>1, <1>2, gs = Append(fs, f), cs = Append(bs, Len(ts))
<1>5. /\ \A j \in 1 .. l + 1 : j \in 1 .. l \/ j = l + 1
      /\ \A j \in 1 .. l : j - 1 = 0 \/ j - 1 \in 1 .. l
      /\ (l + 1) - 1 = l /\ l + 1 # 0 /\ (l # 0 => l \in 1 .. l)
  BY <1>2
<1>6. Levels(s, ts, cs, gs)
  <2> SUFFICES ASSUME NEW j \in 1 .. l + 1
               PROVE  Seg(s, ts, Lo(gs, j - 1), gs[j].size, VLo(cs, j - 1), cs[j])
    BY <1>4 DEF Levels
  <2>1. CASE j = l + 1
    <3>1. Lo(gs, l) = lo /\ VLo(cs, l) = vlo
      BY ONLY <1>1, <1>4, <1>5 DEF Lo, VLo
    <3>2. Seg(s, ts, lo, Len(s), vlo, Len(ts))
      BY ONLY <1>1, <1>2, Fitted(s, ts, bs, fs) DEF Fitted
    <3> QED
      BY ONLY <3>1, <3>2, <2>1, <1>4, <1>5, f.size = Len(s)
  <2>2. CASE j \in 1 .. l
    <3>1. Lo(gs, j - 1) = Lo(fs, j - 1) /\ VLo(cs, j - 1) = VLo(bs, j - 1)
      BY ONLY <2>2, <1>4, <1>5 DEF Lo, VLo
    <3>2. Seg(s, ts, Lo(fs, j - 1), fs[j].size, VLo(bs, j - 1), bs[j])
      BY ONLY <2>2, <1>1, Fitted(s, ts, bs, fs) DEF Fitted, Levels
    <3> QED
      BY ONLY <3>1, <3>2, <2>2, <1>4
  <2> QED
    BY ONLY <2>1, <2>2, <1>5
<1>7. Seg(s, ts, Lo(gs, l + 1), Len(s), VLo(cs, l + 1), Len(ts))
  <2>1. Lo(gs, l + 1) = Len(s) /\ VLo(cs, l + 1) = Len(ts)
    BY ONLY <1>4, <1>5, f.size = Len(s) DEF Lo, VLo
  <2>2. Seg(s, ts, Len(s), Len(s), Len(ts), Len(ts))
    BY ONLY <1>2 DEF Seg
  <2> QED
    BY ONLY <2>1, <2>2
<1>8. Rising(cs, Len(ts))
  <2>1. ASSUME NEW j \in 1 .. l + 1 PROVE cs[j] <= Len(ts)
    BY ONLY <2>1, <1>2, <1>4, <1>5
  <2>2. ASSUME NEW i \in 1 .. l + 1, NEW j \in 1 .. l + 1, i < j PROVE cs[i] <= cs[j]
    <3>1. i \in 1 .. l
      BY ONLY <2>2, <1>2
    <3>2. CASE j \in 1 .. l
      <4>1. bs[i] <= bs[j]
        BY ONLY <3>1, <3>2, <2>2, <1>2, Rising(bs, Len(ts)) DEF Rising
      <4> QED
        BY ONLY <4>1, <3>1, <3>2, <1>4
    <3>3. CASE j = l + 1
      BY ONLY <3>1, <3>3, <2>1, <2>2, <1>4
    <3> QED
      BY ONLY <3>2, <3>3, <2>2, <1>5
  <2> QED
    BY ONLY <2>1, <2>2, <1>4 DEF Rising
<1> QED
  BY ONLY <1>4, <1>6, <1>7, <1>8 DEF Fitted

\* The second part of an if begins: the validator forgets the first part.
LEMMA FitElse ==
  ASSUME NEW s, IsSeq(s), NEW ts, IsSeq(ts), NEW bs, NEW fs, Fitted(s, ts, bs, fs), Heights(fs, Len(s)),
         Rising(bs, Len(ts)), NEW l, l = Len(bs), l # 0, NEW ts2, Lower(ts, bs[l], ts2)
  PROVE  Fitted(s, ts2, bs, fs) /\ Rising(bs, Len(ts2))
<1>1. PICK lo, vlo : lo = Lo(fs, l) /\ vlo = VLo(bs, l) /\ l = Len(fs) /\ vlo = bs[l]
  BY DEF Fitted, VLo
<1>2. /\ l \in Nat /\ l = Len(bs) /\ lo \in Nat /\ vlo \in Nat /\ Len(s) \in Nat /\ Len(ts) \in Nat
      /\ lo <= Len(s) /\ vlo <= Len(ts) /\ Len(ts) - vlo <= Len(s) - lo
      /\ \A i \in Nat : i < Len(ts) - vlo => s[Len(s) - i].ty = ts[Len(ts) - i]
      /\ \A j \in 1 .. l : /\ fs[j].size \in Nat /\ bs[j] \in Nat
                           /\ fs[j].size <= lo /\ bs[j] <= vlo
  BY ONLY <1>1, FitNumbers, IsSeq(s), IsSeq(ts), Fitted(s, ts, bs, fs), Heights(fs, Len(s)), Rising(bs, Len(ts))
<1>3. Len(ts2) = vlo /\ \A k \in 1 .. vlo : ts2[k] = ts[k]
  BY ONLY <1>1, Lower(ts, bs[l], ts2) DEF Lower
<1>4. Seg(s, ts2, lo, Len(s), vlo, vlo)
  BY ONLY <1>2 DEF Seg
<1>5. Levels(s, ts2, bs, fs)
  <2>1. \A j \in 1 .. Len(fs) : fs[j].size <= Len(s) /\ bs[j] <= vlo
    <3>1. ASSUME NEW j \in 1 .. l PROVE fs[j].size <= Len(s) /\ bs[j] <= vlo
      BY ONLY <3>1, <1>2
    <3> QED
      BY ONLY <3>1, <1>1
  <2>2. Levels(s, ts, bs, fs) /\ Len(bs) = Len(fs) /\ fs \in Seq(Frames) /\ bs \in Seq(Nat)
    BY DEF Fitted, Heights, Rising
  <2>3. \A k \in 1 .. Len(s) : s[k] = s[k]
    OBVIOUS
  <2> QED
    BY ONLY <2>1, <2>2, <2>3, <1>2, <1>3, LevelsKeep
<1>6. Rising(bs, vlo)
  BY <1>2 DEF Rising
<1> QED
  BY ONLY <1>1, <1>2, <1>3, <1>4, <1>5, <1>6 DEF Fitted

\* A block ends: both stacks are as at its begin.
LEMMA FitEnd ==
  ASSUME NEW s, IsSeq(s), NEW ts, IsSeq(ts), NEW bs, NEW fs, Fitted(s, ts, bs, fs), Heights(fs, Len(s)),
         Rising(bs, Len(ts)), NEW l, l = Len(bs), l # 0, NEW s2, Lower(s, fs[l].size, s2),
         NEW ts2, Lower(ts, bs[l], ts2), NEW gs, gs = Front(fs), NEW cs, cs = Front(bs)
  PROVE  Fitted(s2, ts2, cs, gs) /\ Rising(cs, Len(ts2))
<1>1. PICK lo, vlo : lo = Lo(fs, l) /\ vlo = VLo(bs, l) /\ l = Len(fs) /\ vlo = bs[l] /\ lo = fs[l].size
  BY DEF Fitted, Lo, VLo
<1>2. /\ l \in Nat /\ l = Len(bs) /\ lo \in Nat /\ vlo \in Nat /\ Len(s) \in Nat /\ Len(ts) \in Nat
      /\ lo <= Len(s) /\ vlo <= Len(ts) /\ Len(ts) - vlo <= Len(s) - lo
      /\ \A i \in Nat : i < Len(ts) - vlo => s[Len(s) - i].ty = ts[Len(ts) - i]
      /\ \A j \in 1 .. l : /\ fs[j].size \in Nat /\ bs[j] \in Nat
                           /\ fs[j].size <= lo /\ bs[j] <= vlo
  BY ONLY <1>1, FitNumbers, IsSeq(s), IsSeq(ts), Fitted(s, ts, bs, fs), Heights(fs, Len(s)), Rising(bs, Len(ts))
<1>3. /\ Len(ts2) = vlo /\ \A k \in 1 .. vlo : ts2[k] = ts[k]
      /\ Len(s2) = lo /\ \A k \in 1 .. lo : s2[k] = s[k]
  BY ONLY <1>1, Lower(ts, bs[l], ts2), Lower(s, fs[l].size, s2) DEF Lower
<1>4. Levels(s2, ts2, bs, fs)
  <2>1. \A j \in 1 .. Len(fs) : fs[j].size <= lo /\ bs[j] <= vlo
    BY ONLY <1>1, <1>2
  <2>2. Levels(s, ts, bs, fs) /\ Len(bs) = Len(fs) /\ fs \in Seq(Frames) /\ bs \in Seq(Nat)
    BY DEF Fitted, Heights, Rising
  <2>3. lo \in Nat /\ vlo \in Nat
    BY ONLY <1>2
  <2>4. (\A k \in 1 .. lo : s2[k] = s[k]) /\ \A k \in 1 .. vlo : ts2[k] = ts[k]
    BY ONLY <1>3
  <2> QED
    BY ONLY <2>1, <2>2, <2>3, <2>4, LevelsKeep
<1>5a. l - 1 \in Nat /\ (l - 1) + 1 = l
  BY ONLY <1>2, l # 0
<1>5. PICK n \in Nat : n = l - 1 /\ n + 1 = l
  BY ONLY <1>5a
<1>6. /\ Len(gs) = n /\ \A j \in 1 .. n : gs[j] = fs[j]
      /\ cs \in Seq(Nat) /\ Len(cs) = n /\ \A j \in 1 .. n : cs[j] = bs[j]
  <2>1. bs \in Seq(Nat) /\ fs \in Seq(Frames) /\ bs # << >> /\ fs # << >>
    BY <1>1, <1>2 DEF Heights, Rising
  <2>2. Len(Front(fs)) = Len(fs) - 1 /\ \A j \in 1 .. Len(fs) - 1 : Front(fs)[j] = fs[j]
    BY ONLY <2>1, FrontOf
  <2>3. /\ Front(bs) \in Seq(Nat) /\ Len(Front(bs)) = Len(bs) - 1
        /\ \A j \in 1 .. Len(bs) - 1 : Front(bs)[j] = bs[j]
    BY ONLY <2>1, FrontOf
  <2> QED
    BY ONLY <2>2, <2>3, <1>1, <1>2, <1>5, gs = Front(fs), cs = Front(bs)
<1>7. /\ \A j \in 1 .. n : j \in 1 .. l /\ (j - 1 = 0 \/ j - 1 \in 1 .. n)
      /\ n = 0 \/ n \in 1 .. n
      /\ l \in 1 .. l /\ l - 1 = n
  BY ONLY <1>5, n \in Nat
<1>8. Levels(s2, ts2, cs, gs)
  <2> SUFFICES ASSUME NEW j \in 1 .. n
               PROVE  Seg(s2, ts2, Lo(gs, j - 1), gs[j].size, VLo(cs, j - 1), cs[j])
    BY <1>6 DEF Levels
  <2>1. Lo(gs, j - 1) = Lo(fs, j - 1) /\ VLo(cs, j - 1) = VLo(bs, j - 1)
    BY ONLY <1>6, <1>7, j \in 1 .. n DEF Lo, VLo
  <2>2. Seg(s2, ts2, Lo(fs, j - 1), fs[j].size, VLo(bs, j - 1), bs[j])
    BY ONLY <1>1, <1>4, <1>7, j \in 1 .. n DEF Levels
  <2> QED
    BY ONLY <2>1, <2>2, <1>6, j \in 1 .. n
<1>9. Seg(s2, ts2, Lo(gs, n), lo, VLo(cs, n), vlo)
  <2>1. Seg(s2, ts2, Lo(fs, l - 1), fs[l].size, VLo(bs, l - 1), bs[l])
    BY ONLY <1>1, <1>4, <1>7 DEF Levels
  <2>2. Lo(gs, n) = Lo(fs, n) /\ VLo(cs, n) = VLo(bs, n)
    BY ONLY <1>6, <1>7 DEF Lo, VLo
  <2> QED
    BY ONLY <2>1, <2>2, <1>1, <1>7
<1>10. Rising(cs, vlo)
  <2>1. \A i, j \in 1 .. l : i < j => bs[i] <= bs[j]
    BY ONLY <1>2, Rising(bs, Len(ts)) DEF Rising
  <2> QED
    BY ONLY <2>1, <1>2, <1>6, <1>7 DEF Rising
<1> QED
  BY ONLY <1>3, <1>6, <1>8, <1>9, <1>10 DEF Fitted

-----------------------------------------------------------------------------
(* The validator.                                                          *)

VElems == [ty : Types, loc : Nat]
VFrames == [op : BlockOps, res : Types \cup {Void}, base : Nat, hit : BOOLEAN]

Bases(c) == [j \in DOMAIN c |-> c[j].base]

VTyped(v) ==
  /\ v.stk \in Seq(VElems) /\ v.ctl \in Seq(VFrames)
  /\ Rising(Bases(v.ctl), Len(v.stk))
  /\ \A j \in 1 .. Len(v.ctl) : v.ctl[j].op = "Loop" => v.ctl[j].res = Void

\* A sequence of the parts of another one.
LEMMA MapSeq ==
  ASSUME NEW s, NEW S, s \in Seq(S), NEW t, NEW T, t = [k \in DOMAIN s |-> t[k]],
         \A k \in 1 .. Len(s) : t[k] \in T
  PROVE  t \in Seq(T) /\ Len(t) = Len(s) /\ Len(s) \in Nat
<1>1. PICK n \in Nat : n = Len(s) /\ DOMAIN s = 1 .. n
  OBVIOUS
<1>2. t = [k \in 1 .. n |-> t[k]]
  BY ONLY <1>1, t = [k \in DOMAIN s |-> t[k]]
<1>3. t \in [1 .. n -> T]
  BY ONLY <1>1, <1>2, \A k \in 1 .. Len(s) : t[k] \in T
<1>4. t \in Seq(T) /\ Len(t) = n
  BY ONLY <1>3, n \in Nat
<1> QED
  BY ONLY <1>1, <1>4, n \in Nat

\* The types on the operand stack.
LEMMA TypesAre ==
  ASSUME NEW s, s \in Seq(VElems), NEW t, t = TypesOf(s)
  PROVE  /\ t \in Seq(Types) /\ Len(t) = Len(s) /\ Len(s) \in Nat
         /\ \A k \in 1 .. Len(s) : t[k] = s[k].ty /\ t[k] \in Types
<1>1. t = [k \in DOMAIN s |-> s[k].ty] /\ DOMAIN s = 1 .. Len(s)
  BY DEF TypesOf
<1>2. \A k \in 1 .. Len(s) : t[k] = s[k].ty
  BY ONLY <1>1
<1>3. \A k \in 1 .. Len(s) : s[k] \in VElems
  BY ElementOfSeq
<1>4. \A k \in 1 .. Len(s) : t[k] \in Types
  BY ONLY <1>2, <1>3 DEF VElems
<1>5. t = [k \in DOMAIN s |-> t[k]]
  BY ONLY <1>1
<1> QED
  BY <1>2, <1>4, <1>5, MapSeq

\* The heights of the control frames.
LEMMA BasesAre ==
  ASSUME NEW c, c \in Seq(VFrames), NEW t, t = Bases(c)
  PROVE  /\ t \in Seq(Nat) /\ Len(t) = Len(c) /\ Len(c) \in Nat
         /\ \A k \in 1 .. Len(c) : t[k] = c[k].base
<1>1. t = [k \in DOMAIN c |-> c[k].base] /\ DOMAIN c = 1 .. Len(c)
  BY DEF Bases
<1>2. \A k \in 1 .. Len(c) : t[k] = c[k].base
  BY ONLY <1>1
<1>3. \A k \in 1 .. Len(c) : c[k] \in VFrames
  BY ElementOfSeq
<1>4. \A k \in 1 .. Len(c) : t[k] \in Nat
  BY ONLY <1>2, <1>3 DEF VFrames
<1>5. t = [k \in DOMAIN c |-> t[k]]
  BY ONLY <1>1
<1> QED
  BY <1>2, <1>4, <1>5, MapSeq

\* What it means to be a suffix.
LEMMA SuffixTop ==
  ASSUME NEW s, IsSeq(s), NEW t, IsSeq(t), IsSuffix(s, t)
  PROVE  Len(s) <= Len(t) /\ \A k \in 1 .. Len(s) : t[Len(t) - Len(s) + k] = s[k]
<1>1. PICK n \in Nat, m \in Nat : n = Len(s) /\ m = Len(t)
  BY DEF IsSeq
<1>2. PICK rs, rt : /\ rs = [i \in 1 .. n |-> s[(n - i) + 1]]
                    /\ rt = [i \in 1 .. m |-> t[(m - i) + 1]]
  OBVIOUS
<1>3. IsPrefix(rs, rt)
  BY <1>1, <1>2 DEF IsSuffix, Reverse
<1>4. Len(rs) = n /\ Len(rt) = m
  BY ONLY <1>2, n \in Nat, m \in Nat
<1>5. n <= m /\ SubSeq(rs, 1, n) = SubSeq(rt, 1, n)
  BY ONLY <1>3, <1>4 DEF IsPrefix
<1>6. ASSUME NEW k \in 1 .. n PROVE t[m - n + k] = s[k]
  <2>1. PICK i \in 1 .. n : i = n - k + 1
    OBVIOUS
  <2>2. /\ i \in 1 .. m /\ (n - i) + 1 = k /\ (m - i) + 1 = m - n + k
    BY <1>5, <2>1
  <2>3. rs[i] = s[k] /\ rt[i] = t[m - n + k]
    BY ONLY <1>2, <2>2, i \in 1 .. n
  <2>4. /\ \A j \in 1 .. n : rs[j] \in {rs[x] : x \in 1 .. n}
        /\ \A j \in 1 .. n : rt[j] \in {rt[x] : x \in 1 .. n}
    OBVIOUS
  <2>5. /\ \A j \in 1 .. n - 1 + 1 : SubSeq(rs, 1, n)[j] = rs[1 + j - 1]
        /\ \A j \in 1 .. n - 1 + 1 : SubSeq(rt, 1, n)[j] = rt[1 + j - 1]
    <3>1. 1 \in Int /\ n \in Int
      OBVIOUS
    <3> QED
      BY ONLY <2>4, <3>1, SubSeqProperties
  <2>6. i \in 1 .. n - 1 + 1 /\ 1 + i - 1 = i
    OBVIOUS
  <2> QED
    BY ONLY <2>3, <2>5, <2>6, <1>5
<1> QED
  BY ONLY <1>1, <1>5, <1>6

\* The lower part of a sequence.
LEMMA LowerSub ==
  ASSUME NEW S, NEW s \in Seq(S), NEW n \in Nat, n <= Len(s), NEW t, t = SubSeq(s, 1, n)
  PROVE  t \in Seq(S) /\ Lower(s, n, t)
<1>1. \A i \in 1 .. n : s[i] \in S
  BY ElementOfSeq
<1>2. 1 \in Int /\ n \in Int
  OBVIOUS
<1>3. /\ SubSeq(s, 1, n) \in Seq(S)
      /\ Len(SubSeq(s, 1, n)) = IF 1 <= n THEN n - 1 + 1 ELSE 0
      /\ \A i \in 1 .. n - 1 + 1 : SubSeq(s, 1, n)[i] = s[1 + i - 1]
  BY ONLY <1>1, <1>2, SubSeqProperties
<1>4. (IF 1 <= n THEN n - 1 + 1 ELSE 0) = n /\ n - 1 + 1 = n
  OBVIOUS
<1>5. \A i \in 1 .. n : 1 + i - 1 = i
  OBVIOUS
<1>6. Len(t) = n /\ \A i \in 1 .. n : t[i] = s[i]
  BY ONLY <1>3, <1>4, <1>5, t = SubSeq(s, 1, n)
<1> QED
  BY ONLY <1>3, <1>6, t = SubSeq(s, 1, n) DEF Lower, IsSeq

\* The types of the lower part.
LEMMA LowerTypes ==
  ASSUME NEW s, s \in Seq(VElems), NEW n \in Nat, n <= Len(s), NEW t, t \in Seq(VElems), Lower(s, n, t),
         NEW ts, ts = TypesOf(s), NEW us, us = TypesOf(t)
  PROVE  Lower(ts, n, us)
<1>1. Len(ts) = Len(s) /\ Len(s) \in Nat /\ \A k \in 1 .. Len(s) : ts[k] = s[k].ty
  BY TypesAre
<1>2. us \in Seq(Types) /\ Len(us) = Len(t) /\ \A k \in 1 .. Len(t) : us[k] = t[k].ty
  BY TypesAre
<1>3. Len(t) = n /\ \A k \in 1 .. n : t[k] = s[k]
  BY DEF Lower
<1>4. \A k \in 1 .. n : k \in 1 .. Len(s)
  BY <1>1
<1>5. \A k \in 1 .. n : us[k] = ts[k]
  BY ONLY <1>1, <1>2, <1>3, <1>4
<1> QED
  BY ONLY <1>2, <1>3, <1>5 DEF Lower, IsSeq

\* The types a valid instruction finds on top are inside its block.
Above(ts, bs, tys) ==
  /\ Len(tys) \in Nat /\ VLo(bs, Len(bs)) \in Nat /\ Len(tys) <= Len(ts) - VLo(bs, Len(bs))
  /\ \A k \in 1 .. Len(tys) : ts[Len(ts) - Len(tys) + k] = tys[k]

\* The operands the validator checks for are such types.
LEMMA TopAbove ==
  ASSUME NEW v, VTyped(v), NEW tys, IsSeq(tys), HasTop(v, tys),
         NEW ts, ts = TypesOf(v.stk), NEW bs, bs = Bases(v.ctl)
  PROVE  Above(ts, bs, tys)
<1>1. /\ v.stk \in Seq(VElems) /\ v.ctl \in Seq(VFrames) /\ Rising(bs, Len(v.stk))
  BY DEF VTyped
<1>2. PICK l \in Nat : l = Len(v.ctl) /\ Len(bs) = l /\ \A k \in 1 .. l : bs[k] = v.ctl[k].base
  BY ONLY <1>1, bs = Bases(v.ctl), BasesAre
<1>3. PICK m \in Nat : m = Len(v.stk) /\ Len(ts) = m /\ \A k \in 1 .. m : ts[k] = v.stk[k].ty
  BY ONLY <1>1, ts = TypesOf(v.stk), TypesAre
<1>4. PICK vlo \in Nat : vlo = VLo(bs, l) /\ vlo <= m
  <2>1. l = 0 \/ l \in 1 .. l
    OBVIOUS
  <2>2. l # 0 => bs[l] \in Nat /\ bs[l] <= m
    BY <1>1, <1>2, <1>3, <2>1, ElementOfSeq DEF Rising
  <2>3. VLo(bs, l) \in Nat /\ VLo(bs, l) <= m
    BY <2>2, <1>3 DEF VLo
  <2> QED
    BY ONLY <2>3
<1>5. PICK n \in Nat : n = Len(tys)
  BY DEF IsSeq
<1>6. PICK o : o = Own(v) /\ o \in Seq(VElems) /\ Len(o) = m - vlo /\ \A k \in 1 .. m - vlo : o[k] = v.stk[vlo + k]
  <2>1. CASE l = 0
    <3>0. Len(v.ctl) = 0 /\ vlo = 0
      BY ONLY <2>1, <1>2, <1>4 DEF VLo
    <3>1. v.ctl = << >> /\ vlo = 0
      BY ONLY <3>0, <1>1, EmptySeq
    <3>2. Own(v) = v.stk
      BY <3>1 DEF Own
    <3>3. m - vlo = m /\ \A k \in 1 .. m : vlo + k = k
      BY <3>1
    <3> QED
      BY ONLY <3>2, <3>3, <1>1, <1>3
  <2>2. CASE l # 0
    <3>1. v.ctl # << >> /\ l \in 1 .. l
      BY <2>2, <1>1, <1>2, EmptySeq
    <3>2. Own(v) = SubSeq(v.stk, vlo + 1, m)
      <4>1. vlo = v.ctl[Len(v.ctl)].base
        BY ONLY <3>1, <2>2, <1>2, <1>4 DEF VLo
      <4>2. Own(v) = SubSeq(v.stk, v.ctl[Len(v.ctl)].base + 1, Len(v.stk))
        BY ONLY <3>1 DEF Own, InnerFrame, Last
      <4> QED
        BY ONLY <4>1, <4>2, <1>3
    <3>3. \A i \in vlo + 1 .. m : v.stk[i] \in VElems
      BY <1>1, <1>3, ElementOfSeq
    <3>4. vlo + 1 \in Int /\ m \in Int
      OBVIOUS
    <3>5. /\ SubSeq(v.stk, vlo + 1, m) \in Seq(VElems)
          /\ Len(SubSeq(v.stk, vlo + 1, m)) = IF vlo + 1 <= m THEN m - (vlo + 1) + 1 ELSE 0
          /\ \A i \in 1 .. m - (vlo + 1) + 1 : SubSeq(v.stk, vlo + 1, m)[i] = v.stk[(vlo + 1) + i - 1]
      BY ONLY <3>3, <3>4, SubSeqProperties
    <3>6. /\ (IF vlo + 1 <= m THEN m - (vlo + 1) + 1 ELSE 0) = m - vlo
          /\ m - (vlo + 1) + 1 = m - vlo
      BY ONLY <1>4, vlo \in Nat, m \in Nat
    <3>7. \A i \in 1 .. m - vlo : (vlo + 1) + i - 1 = vlo + i
      BY ONLY vlo \in Nat, m \in Nat
    <3> QED
      BY ONLY <3>2, <3>5, <3>6, <3>7
  <2> QED
    BY <2>1, <2>2
<1>7. PICK os : os = TypesOf(o) /\ IsSeq(os) /\ Len(os) = m - vlo /\ \A k \in 1 .. m - vlo : os[k] = ts[vlo + k]
  <2>1. /\ TypesOf(o) \in Seq(Types) /\ Len(TypesOf(o)) = Len(o)
        /\ \A k \in 1 .. Len(o) : TypesOf(o)[k] = o[k].ty
    BY ONLY <1>6, TypesAre
  <2>2. \A k \in 1 .. m - vlo : vlo + k \in 1 .. m
    BY <1>4
  <2>3. \A k \in 1 .. m - vlo : TypesOf(o)[k] = ts[vlo + k]
    BY ONLY <2>1, <2>2, <1>3, <1>6
  <2> QED
    BY ONLY <2>1, <2>3, <1>6 DEF IsSeq
<1>8. IsSuffix(tys, os)
  BY ONLY <1>6, <1>7, HasTop(v, tys) DEF HasTop
<1>9. n <= m - vlo /\ \A k \in 1 .. n : os[m - vlo - n + k] = tys[k]
  <2>1. Len(tys) <= Len(os) /\ \A k \in 1 .. Len(tys) : os[Len(os) - Len(tys) + k] = tys[k]
    BY ONLY <1>7, <1>8, IsSeq(tys), SuffixTop
  <2> QED
    BY ONLY <2>1, <1>5, <1>7
<1>10. ASSUME NEW k \in 1 .. n PROVE ts[m - n + k] = tys[k]
  <2>1. m - vlo - n + k \in 1 .. m - vlo /\ vlo + (m - vlo - n + k) = m - n + k
    BY ONLY <1>9, k \in 1 .. n, n \in Nat, m \in Nat, vlo \in Nat
  <2> QED
    BY ONLY <2>1, <1>9, <1>7, k \in 1 .. n
<1> QED
  BY ONLY <1>2, <1>3, <1>4, <1>5, <1>9, <1>10, n \in Nat, vlo \in Nat DEF Above

\* A part of what is found on top.
LEMMA AboveTail ==
  ASSUME NEW ts, IsSeq(ts), NEW bs, NEW p, IsSeq(p), NEW q, IsSeq(q), Above(ts, bs, p \o q)
  PROVE  Above(ts, bs, q)
<1>1. PICK n \in Nat, m \in Nat, l \in Nat : n = Len(p) /\ m = Len(q) /\ l = Len(ts)
  BY DEF IsSeq
<1>2. Len(p \o q) = n + m /\ \A j \in 1 .. m : (p \o q)[n + j] = q[j]
  BY ONLY <1>1, IsSeq(p), IsSeq(q), ConcatSeq
<1>3. PICK vlo : vlo = VLo(bs, Len(bs))
  OBVIOUS
<1>4. /\ n + m <= l - vlo /\ vlo \in Nat
      /\ \A k \in 1 .. n + m : ts[l - (n + m) + k] = (p \o q)[k]
  BY ONLY <1>1, <1>2, <1>3, Above(ts, bs, p \o q) DEF Above
<1>5. ASSUME NEW k \in 1 .. m PROVE ts[l - m + k] = q[k]
  <2>1. n + k \in 1 .. n + m /\ l - (n + m) + (n + k) = l - m + k
    OBVIOUS
  <2> QED
    BY ONLY <2>1, <1>2, <1>4, k \in 1 .. m
<1>6. m <= l - vlo
  BY ONLY <1>4, n \in Nat, m \in Nat, l \in Nat
<1> QED
  BY ONLY <1>1, <1>3, <1>4, <1>5, <1>6, m \in Nat DEF Above

\* What instruction i takes from the operand stack.
Consumed(i, f) == IF i.op = "Return" THEN Result(f) ELSE Pops(i)

\* Sequences that are written out.
LEMMA ShortSeqs ==
  /\ IsSeq(<< >>) /\ \A x : IsSeq(<<x>>) /\ Len(<<x>>) = 1 /\ <<x>>[1] = x
  /\ \A x, y : IsSeq(<<x, y>>)
  /\ \A ty : IsSeq(Result(ty))
<1>1. IsSeq(<< >>)
  <2>1. << >> \in Seq({})
    OBVIOUS
  <2> QED
    BY ONLY <2>1 DEF IsSeq
<1>2. ASSUME NEW x PROVE IsSeq(<<x>>) /\ Len(<<x>>) = 1 /\ <<x>>[1] = x
  <2>1. <<x>> \in Seq({x}) /\ Len(<<x>>) = 1 /\ <<x>>[1] = x
    OBVIOUS
  <2> QED
    BY ONLY <2>1 DEF IsSeq
<1>3. ASSUME NEW x, NEW y PROVE IsSeq(<<x, y>>)
  <2>1. <<x, y>> \in Seq({x, y})
    OBVIOUS
  <2> QED
    BY ONLY <2>1 DEF IsSeq
<1>4. ASSUME NEW ty PROVE IsSeq(Result(ty))
  BY ONLY <1>1, <1>2 DEF Result
<1> QED
  BY ONLY <1>1, <1>2, <1>3, <1>4

\* The operands of a valid instruction are on the operand stack.
LEMMA ConsumedAbove ==
  ASSUME NEW v, VTyped(v), NEW i, WellFormed(i), NEW f, IsValid(v, i, f), i.op \notin {"End", "Else"},
         NEW ts, ts = TypesOf(v.stk), NEW bs, bs = Bases(v.ctl)
  PROVE  Above(ts, bs, Consumed(i, f)) /\ IsSeq(Consumed(i, f))
<1>1. IsSeq(Pops(i)) /\ IsSeq(Result(f))
  BY PopsPushes, ShortSeqs
<1>2. CASE i.op = "Return"
  <2>1. HasTop(v, Result(f))
    BY <1>2 DEF IsValid
  <2>2. Above(ts, bs, Result(f))
    BY ONLY <2>1, <1>1, VTyped(v), ts = TypesOf(v.stk), bs = Bases(v.ctl), TopAbove
  <2> QED
    BY ONLY <2>2, <1>1, <1>2 DEF Consumed
<1>3. CASE i.op \in {"Br", "BrIf", "BrTable"}
  <2>1. /\ \A d \in Range(i.n) : d <= Len(v.ctl)
        /\ \A d \in Targets(v, i) : HasTop(v, LabelTypes(Target(v, d)) \o Pops(i))
        /\ ToFunction(v, i) => HasTop(v, Result(f) \o Pops(i))
    BY ONLY <1>3, IsValid(v, i, f) DEF IsValid
  <2>2. i.n \in Seq(Nat) /\ i.n # << >>
    BY <1>3 DEF WellFormed
  <2>3. 1 \in DOMAIN i.n
    BY ONLY <2>2, EmptySeq
  <2>4. PICK d : d = i.n[1] /\ d \in Range(i.n) /\ d \in Nat
    <3>1. i.n[1] \in Nat
      BY ONLY <2>2, <2>3
    <3> QED
      BY ONLY <2>3, <3>1 DEF Range
  <2>5. d \in Targets(v, i) \/ ToFunction(v, i)
    <3>1. Len(v.ctl) \in Nat
      BY LenProperties DEF VTyped
    <3>2. d < Len(v.ctl) \/ d = Len(v.ctl)
      BY ONLY <3>1, <2>1, <2>4
    <3> QED
      BY ONLY <3>2, <2>4 DEF Targets, ToFunction
  <2>6. PICK p : IsSeq(p) /\ HasTop(v, p \o Pops(i))
    <3>1. IsSeq(LabelTypes(Target(v, d)))
      BY ShortSeqs DEF LabelTypes
    <3> QED
      BY ONLY <3>1, <2>1, <2>5, <1>1
  <2>7. IsSeq(p \o Pops(i))
    BY ONLY <2>6, <1>1, ConcatSeq
  <2>8. HasTop(v, p \o Pops(i))
    BY ONLY <2>6
  <2>9. Above(ts, bs, p \o Pops(i))
    BY ONLY <2>7, <2>8, VTyped(v), ts = TypesOf(v.stk), bs = Bases(v.ctl), TopAbove
  <2>10. IsSeq(ts)
    <3>1. ts \in Seq(Types)
      BY TypesAre DEF VTyped
    <3> QED
      BY ONLY <3>1 DEF IsSeq
  <2>11. Above(ts, bs, Pops(i))
    BY ONLY <2>6, <2>9, <2>10, <1>1, AboveTail
  <2> QED
    BY ONLY <2>11, <1>1, <1>3 DEF Consumed
<1>4. CASE i.op \notin {"Return", "Br", "BrIf", "BrTable"}
  <2>1. HasTop(v, Pops(i))
    BY ONLY <1>4, IsValid(v, i, f), i.op \notin {"End", "Else"} DEF IsValid
  <2>2. Above(ts, bs, Pops(i))
    BY ONLY <2>1, <1>1, VTyped(v), ts = TypesOf(v.stk), bs = Bases(v.ctl), TopAbove
  <2> QED
    BY ONLY <2>2, <1>1, <1>4 DEF Consumed
<1> QED
  BY <1>2, <1>3, <1>4

-----------------------------------------------------------------------------
\* The heights are still in order when operands are taken or results added.
LEMMA RisingLess ==
  ASSUME NEW bs, NEW m \in Nat, Rising(bs, m), NEW n \in Nat, n <= m - VLo(bs, Len(bs)), NEW k \in Nat, k >= m - n
  PROVE  Rising(bs, k)
<1>1. bs \in Seq(Nat) /\ Len(bs) \in Nat /\ \A j \in 1 .. Len(bs) : bs[j] \in Nat
  BY ElementOfSeq DEF Rising
<1>2. ASSUME NEW j \in 1 .. Len(bs) PROVE bs[j] <= k
  <2>1. Len(bs) \in 1 .. Len(bs) /\ Len(bs) # 0 /\ (j = Len(bs) \/ j < Len(bs))
    BY <1>1
  <2>2. bs[j] <= bs[Len(bs)]
    BY <2>1, <1>1 DEF Rising
  <2>3. VLo(bs, Len(bs)) = bs[Len(bs)]
    BY <2>1 DEF VLo
  <2> QED
    BY <2>1, <2>2, <2>3, <1>1
<1> QED
  BY ONLY <1>2, Rising(bs, m) DEF Rising

\* n types are taken and ps, at most one, put there.
Shifted(ts, n, ps, us) ==
  \E rs \in Seq(Types) :
    /\ Lower(ts, Len(ts) - n, rs)
    /\ us = IF ps = << >> THEN rs ELSE Append(rs, ps[1])

\* An instruction pushes at most one value.
LEMMA PushesOne ==
  ASSUME NEW i
  PROVE  Pushes(i) = << >> \/ \E ty : Pushes(i) = <<ty>>
BY DEF Pushes, Result

\* One more type.
LEMMA TypesAppend ==
  ASSUME NEW r, r \in Seq(VElems), NEW e \in VElems
  PROVE  TypesOf(Append(r, e)) = Append(TypesOf(r), e.ty) /\ Append(r, e) \in Seq(VElems)
<1>1. PICK q : q = Append(r, e) /\ q \in Seq(VElems) /\ Len(q) = Len(r) + 1 /\ q[Len(r) + 1] = e
               /\ \A k \in 1 .. Len(r) : q[k] = r[k]
  <2>1. /\ Append(r, e) \in Seq(VElems) /\ Len(Append(r, e)) = Len(r) + 1 /\ Append(r, e)[Len(r) + 1] = e
        /\ \A k \in 1 .. Len(r) : Append(r, e)[k] = r[k]
    BY ONLY r \in Seq(VElems), e \in VElems, AppendProperties
  <2> QED
    BY ONLY <2>1
<1>2. PICK n \in Nat : n = Len(r)
  OBVIOUS
<1>3. PICK rs : rs = TypesOf(r) /\ rs \in Seq(Types) /\ Len(rs) = n /\ \A k \in 1 .. n : rs[k] = r[k].ty
  BY ONLY <1>2, r \in Seq(VElems), TypesAre
<1>4. PICK qs : qs = TypesOf(q) /\ qs \in Seq(Types) /\ Len(qs) = n + 1 /\ \A k \in 1 .. n + 1 : qs[k] = q[k].ty
  <2>1. /\ TypesOf(q) \in Seq(Types) /\ Len(TypesOf(q)) = Len(q)
        /\ \A k \in 1 .. Len(q) : TypesOf(q)[k] = q[k].ty
    BY ONLY <1>1, TypesAre
  <2> QED
    BY ONLY <2>1, <1>1, <1>2
<1>5. e.ty \in Types
  BY DEF VElems
<1>6. PICK ps : /\ ps = Append(rs, e.ty) /\ ps \in Seq(Types) /\ Len(ps) = n + 1 /\ ps[n + 1] = e.ty
                /\ \A k \in 1 .. n : ps[k] = rs[k]
  <2>1. /\ Append(rs, e.ty) \in Seq(Types) /\ Len(Append(rs, e.ty)) = Len(rs) + 1
        /\ Append(rs, e.ty)[Len(rs) + 1] = e.ty
        /\ \A k \in 1 .. Len(rs) : Append(rs, e.ty)[k] = rs[k]
    BY ONLY <1>3, <1>5, AppendProperties
  <2> QED
    BY ONLY <2>1, <1>3
<1>7. \A k \in 1 .. n + 1 : k \in 1 .. n \/ k = n + 1
  BY <1>2
<1>8. \A k \in 1 .. n + 1 : ps[k] = qs[k]
  BY ONLY <1>1, <1>2, <1>3, <1>4, <1>6, <1>7
<1>9. ps = qs
  BY ONLY <1>4, <1>6, <1>8, SeqEqual
<1> QED
  BY ONLY <1>1, <1>3, <1>4, <1>6, <1>9

SameFrames(c, d) ==
  Len(d) = Len(c) /\ \A j \in 1 .. Len(c) : d[j].op = c[j].op /\ d[j].res = c[j].res

\* A branch marks frames and changes nothing else.
LEMMA HitFrames ==
  ASSUME NEW v, v.ctl \in Seq(VFrames), NEW i, NEW c, c = Hit(v, i)
  PROVE  c \in Seq(VFrames) /\ SameFrames(v.ctl, c) /\ Bases(c) = Bases(v.ctl)
<1>1. CASE i.op \notin {"Br", "BrIf", "BrTable"}
  <2>1. c = v.ctl
    BY <1>1 DEF Hit
  <2> QED
    BY <2>1 DEF SameFrames
<1>2. CASE i.op \in {"Br", "BrIf", "BrTable"}
  <2>1. PICK p : p = v.ctl /\ p \in Seq(VFrames)
    OBVIOUS
  <2>2. PICK l \in Nat : l = Len(p) /\ DOMAIN p = 1 .. l
    BY <2>1
  <2>3. c = [k \in 1 .. l |-> IF Len(p) - k \in Range(i.n) THEN [p[k] EXCEPT !.hit = TRUE] ELSE p[k]]
    BY <1>2, <2>1, <2>2 DEF Hit
  <2>4. ASSUME NEW k \in 1 .. l
        PROVE  c[k] \in VFrames /\ c[k].op = p[k].op /\ c[k].res = p[k].res /\ c[k].base = p[k].base
    <3>1. p[k] \in VFrames
      BY <2>1, <2>2, ElementOfSeq
    <3>2. PICK q : q = [p[k] EXCEPT !.hit = TRUE]
      OBVIOUS
    <3>3. q \in VFrames /\ q.op = p[k].op /\ q.res = p[k].res /\ q.base = p[k].base
      BY ONLY <3>1, <3>2 DEF VFrames
    <3>4. c[k] = q \/ c[k] = p[k]
      BY ONLY <2>3, <3>2, k \in 1 .. l
    <3> QED
      BY ONLY <3>1, <3>3, <3>4
  <2>5. c = [k \in DOMAIN p |-> c[k]]
    BY ONLY <2>2, <2>3
  <2>6. c \in Seq(VFrames) /\ Len(c) = Len(p)
    BY ONLY <2>1, <2>2, <2>4, <2>5, MapSeq
  <2>7. SameFrames(p, c)
    BY ONLY <2>2, <2>4, <2>6 DEF SameFrames
  <2>8. DOMAIN c = 1 .. l
    BY ONLY <2>3
  <2>9. Bases(c) = [k \in 1 .. l |-> c[k].base] /\ Bases(p) = [k \in 1 .. l |-> p[k].base]
    BY ONLY <2>2, <2>8 DEF Bases
  <2>10. Bases(c) = Bases(p)
    BY ONLY <2>4, <2>9
  <2> QED
    BY ONLY <2>1, <2>6, <2>7, <2>10
<1> QED
  BY <1>1, <1>2

Plain(i) == i.op \notin {"End", "Else", "LocalTee"} /\ ~Opens(i)

\* An instruction inside of a block.
PlainNext(v, i, f, u) ==
  /\ VTyped(u) /\ SameFrames(v.ctl, u.ctl) /\ Bases(u.ctl) = Bases(v.ctl)
  /\ Shifted(TypesOf(v.stk), Len(Consumed(i, f)), Pushes(i), TypesOf(u.stk))

\* Every instruction that neither begins nor ends a block is one of those.
LEMMA PlainValid ==
  ASSUME NEW v, VTyped(v), NEW i, WellFormed(i), NEW f, IsValid(v, i, f), Plain(i),
         NEW u, u = Validated(v, i, f)
  PROVE  PlainNext(v, i, f, u)
<1>1. PICK s, ts, bs : s = v.stk /\ ts = TypesOf(s) /\ bs = Bases(v.ctl)
  OBVIOUS
<1>2. s \in Seq(VElems) /\ v.ctl \in Seq(VFrames) /\ Rising(bs, Len(s))
      /\ \A j \in 1 .. Len(v.ctl) : v.ctl[j].op = "Loop" => v.ctl[j].res = Void
  BY <1>1 DEF VTyped
<1>3. PICK m \in Nat : m = Len(s) /\ Len(ts) = m
  BY ONLY <1>1, <1>2, TypesAre
<1>4. PICK n \in Nat : n = Len(Consumed(i, f)) /\ n <= m - VLo(bs, Len(bs)) /\ VLo(bs, Len(bs)) \in Nat
  <2>1. i.op \notin {"End", "Else"}
    BY DEF Plain
  <2>2. Above(ts, bs, Consumed(i, f))
    BY ONLY <2>1, <1>1, VTyped(v), WellFormed(i), IsValid(v, i, f), ConsumedAbove
  <2> QED
    BY ONLY <2>2, <1>3 DEF Above
<1>5. PICK h \in Nat : h = m - n /\ h <= m
  <2>1. m - n \in Nat /\ m - n <= m
    BY <1>4
  <2> QED
    BY ONLY <2>1
<1>6. PICK r : r = SubSeq(s, 1, h) /\ r \in Seq(VElems) /\ Lower(s, h, r)
  BY ONLY <1>2, <1>3, <1>5, LowerSub
<1>7. u = [stk |-> r \o Pushed(i), ctl |-> Hit(v, i), dead |-> Leaves(i), trap |-> i.op = "Unreachable"]
  <2>1. r = SubSeq(v.stk, 1, Len(v.stk) - Len(Consumed(i, f)))
    BY ONLY <1>1, <1>3, <1>4, <1>5, <1>6
  <2>2. u = [stk |-> SubSeq(v.stk, 1, Len(v.stk) - Len(Consumed(i, f))) \o Pushed(i),
             ctl |-> Hit(v, i), dead |-> Leaves(i), trap |-> i.op = "Unreachable"]
    BY DEF Plain, Validated, Consumed
  <2> QED
    BY ONLY <2>1, <2>2
<1>8. u.stk = r \o Pushed(i) /\ u.ctl = Hit(v, i)
  BY ONLY <1>7
<1>9. u.ctl \in Seq(VFrames) /\ SameFrames(v.ctl, u.ctl) /\ Bases(u.ctl) = bs
  BY ONLY <1>1, <1>2, <1>8, HitFrames
<1>10. PICK rs : rs = TypesOf(r) /\ Lower(ts, h, rs) /\ rs \in Seq(Types)
  <2>1. Lower(ts, h, TypesOf(r))
    BY ONLY <1>1, <1>2, <1>3, <1>5, <1>6, LowerTypes
  <2>2. TypesOf(r) \in Seq(Types)
    BY ONLY <1>6, TypesAre
  <2> QED
    BY ONLY <2>1, <2>2
<1>11. Len(r) = h
  BY ONLY <1>6 DEF Lower
<1>12. /\ u.stk \in Seq(VElems) /\ Len(u.stk) >= h /\ Len(u.stk) \in Nat
       /\ TypesOf(u.stk) = IF Pushes(i) = << >> THEN rs ELSE Append(rs, Pushes(i)[1])
  <2>1. CASE Pushes(i) = << >>
    <3>1. DOMAIN Pushes(i) = {}
      BY <2>1
    <3>2. Pushed(i) = [k \in {} |-> Entry(Pushes(i)[k], IF i.op = "LocalGet" THEN i.n[1] ELSE 0)]
      BY ONLY <3>1 DEF Pushed
    <3>3. Pushed(i) = << >>
      BY ONLY <3>2
    <3>4. u.stk = r
      BY ONLY <1>6, <1>8, <3>3, ConcatEmptySeq
    <3>5. h >= h
      BY ONLY h \in Nat
    <3> QED
      BY ONLY <3>4, <3>5, <2>1, <1>6, <1>10, <1>11, h \in Nat
  <2>2. CASE Pushes(i) # << >>
    <3>1. PICK ty : Pushes(i) = <<ty>>
      BY <2>2, PushesOne
    <3>2. ty \in Types
      BY <3>1, <2>2, PopsPushes
    <3>3. PICK e : e = Entry(ty, IF i.op = "LocalGet" THEN i.n[1] ELSE 0)
      OBVIOUS
    <3>4. i.op = "LocalGet" => i.n[1] \in Nat
      BY WasmAssumption DEF WellFormed
    <3>5. e \in VElems /\ e.ty = ty
      BY ONLY <3>2, <3>3, <3>4 DEF Entry, VElems
    <3>6. Pushed(i) = <<e>>
      <4>1. DOMAIN Pushes(i) = {1} /\ Pushes(i)[1] = ty
        BY ONLY <3>1
      <4>2. Pushed(i) = [k \in {1} |-> Entry(Pushes(i)[k], IF i.op = "LocalGet" THEN i.n[1] ELSE 0)]
        BY ONLY <4>1 DEF Pushed
      <4>3. Pushed(i) = [k \in {1} |-> e]
        BY ONLY <4>1, <4>2, <3>3
      <4>4. <<e>> = [k \in {1} |-> e]
        OBVIOUS
      <4> QED
        BY ONLY <4>3, <4>4
    <3>7. u.stk = Append(r, e)
      <4>1. Append(r, e) = r \o <<e>>
        BY ONLY <1>6, AppendIs DEF IsSeq
      <4> QED
        BY ONLY <4>1, <3>6, <1>8
    <3>8. u.stk \in Seq(VElems) /\ TypesOf(u.stk) = Append(rs, ty)
      BY ONLY <3>5, <3>7, <1>6, <1>10, TypesAppend
    <3>9. Len(u.stk) = h + 1
      <4>1. Len(Append(r, e)) = Len(r) + 1
        BY ONLY <1>6, <3>5, AppendProperties
      <4> QED
        BY ONLY <4>1, <3>7, <1>11
    <3>10. h + 1 >= h /\ h + 1 \in Nat
      BY ONLY h \in Nat
    <3>11. Pushes(i)[1] = ty
      BY ONLY <3>1
    <3> QED
      BY ONLY <3>8, <3>9, <3>10, <3>11, <2>2
  <2> QED
    BY <2>1, <2>2
<1>13. Rising(bs, Len(u.stk))
  <2>1. Len(u.stk) >= m - n
    BY ONLY <1>5, <1>12
  <2> QED
    BY ONLY <2>1, <1>2, <1>3, <1>4, <1>12, m \in Nat, n \in Nat, RisingLess
<1>14. VTyped(u)
  BY ONLY <1>2, <1>9, <1>12, <1>13 DEF VTyped, SameFrames
<1>15. Shifted(ts, n, Pushes(i), TypesOf(u.stk))
  BY ONLY <1>3, <1>5, <1>10, <1>12 DEF Shifted
<1> QED
  BY ONLY <1>1, <1>4, <1>9, <1>14, <1>15 DEF PlainNext

\* One more control frame.
LEMMA BasesAppend ==
  ASSUME NEW c, c \in Seq(VFrames), NEW e \in VFrames
  PROVE  Bases(Append(c, e)) = Append(Bases(c), e.base) /\ Append(c, e) \in Seq(VFrames)
<1>1. /\ Append(c, e) \in Seq(VFrames) /\ Len(Append(c, e)) = Len(c) + 1 /\ Append(c, e)[Len(c) + 1] = e
      /\ \A k \in 1 .. Len(c) : Append(c, e)[k] = c[k]
  BY ONLY c \in Seq(VFrames), e \in VFrames, AppendProperties
<1>2. PICK q : q = Append(c, e)
  OBVIOUS
<1>3. PICK n \in Nat : n = Len(c)
  OBVIOUS
<1>4. PICK bs : bs = Bases(c) /\ bs \in Seq(Nat) /\ Len(bs) = n /\ \A k \in 1 .. n : bs[k] = c[k].base
  BY ONLY <1>3, c \in Seq(VFrames), BasesAre
<1>5. /\ Bases(q) \in Seq(Nat) /\ Len(Bases(q)) = n + 1 /\ \A k \in 1 .. n + 1 : Bases(q)[k] = q[k].base
  <2>1. /\ Bases(q) \in Seq(Nat) /\ Len(Bases(q)) = Len(q) /\ \A k \in 1 .. Len(q) : Bases(q)[k] = q[k].base
    BY ONLY <1>1, <1>2, BasesAre
  <2> QED
    BY ONLY <2>1, <1>1, <1>2, <1>3
<1>6. e.base \in Nat
  BY DEF VFrames
<1>7. /\ Append(bs, e.base) \in Seq(Nat) /\ Len(Append(bs, e.base)) = n + 1
      /\ Append(bs, e.base)[n + 1] = e.base
      /\ \A k \in 1 .. n : Append(bs, e.base)[k] = bs[k]
  BY ONLY <1>4, <1>6, AppendProperties
<1>8. \A k \in 1 .. n + 1 : k \in 1 .. n \/ k = n + 1
  BY <1>3
<1>9. \A k \in 1 .. n + 1 : Append(bs, e.base)[k] = Bases(q)[k]
  BY ONLY <1>1, <1>2, <1>3, <1>4, <1>5, <1>7, <1>8
<1>10. Append(bs, e.base) = Bases(q)
  BY ONLY <1>5, <1>7, <1>9, SeqEqual
<1> QED
  BY ONLY <1>1, <1>2, <1>4, <1>10

\* One control frame fewer.
LEMMA BasesFront ==
  ASSUME NEW c, c \in Seq(VFrames), c # << >>
  PROVE  Bases(Front(c)) = Front(Bases(c)) /\ Bases(c) # << >> /\ Front(c) \in Seq(VFrames)
<1>1. /\ Front(c) \in Seq(VFrames) /\ Len(c) \in Nat \ {0} /\ Len(Front(c)) = Len(c) - 1
      /\ \A k \in 1 .. Len(c) - 1 : Front(c)[k] = c[k]
  BY ONLY c \in Seq(VFrames), c # << >>, FrontOf
<1>2. PICK bs : bs = Bases(c) /\ bs \in Seq(Nat) /\ Len(bs) = Len(c) /\ \A k \in 1 .. Len(c) : bs[k] = c[k].base
  BY ONLY c \in Seq(VFrames), BasesAre
<1>3. bs # << >>
  BY <1>1, <1>2, EmptySeq
<1>4. Front(bs) \in Seq(Nat) /\ Len(Front(bs)) = Len(bs) - 1 /\ \A k \in 1 .. Len(bs) - 1 : Front(bs)[k] = bs[k]
  BY ONLY <1>2, <1>3, FrontOf
<1>5. /\ Bases(Front(c)) \in Seq(Nat) /\ Len(Bases(Front(c))) = Len(Front(c))
      /\ \A k \in 1 .. Len(Front(c)) : Bases(Front(c))[k] = Front(c)[k].base
  BY ONLY <1>1, BasesAre
<1>6. \A k \in 1 .. Len(c) - 1 : k \in 1 .. Len(c)
  BY <1>1
<1>7. \A k \in 1 .. Len(Bases(Front(c))) : Bases(Front(c))[k] = Front(bs)[k]
  BY ONLY <1>1, <1>2, <1>4, <1>5, <1>6
<1>8. Bases(Front(c)) = Front(bs)
  BY ONLY <1>1, <1>2, <1>4, <1>5, <1>7, SeqEqual
<1> QED
  BY ONLY <1>1, <1>2, <1>3, <1>8

\* What the validator has inside of VTyped.
LEMMA VParts ==
  ASSUME NEW v, VTyped(v), NEW ts, ts = TypesOf(v.stk), NEW bs, bs = Bases(v.ctl)
  PROVE  /\ v.stk \in Seq(VElems) /\ v.ctl \in Seq(VFrames) /\ Len(v.stk) \in Nat /\ Len(v.ctl) \in Nat
         /\ ts \in Seq(Types) /\ Len(ts) = Len(v.stk) /\ Rising(bs, Len(ts))
         /\ Len(bs) = Len(v.ctl) /\ \A j \in 1 .. Len(v.ctl) : bs[j] = v.ctl[j].base /\ bs[j] \in Nat
                                      /\ v.ctl[j] \in VFrames /\ bs[j] <= Len(v.stk)
         /\ \A j \in 1 .. Len(v.ctl) : v.ctl[j].op = "Loop" => v.ctl[j].res = Void
<1>1. /\ v.stk \in Seq(VElems) /\ v.ctl \in Seq(VFrames) /\ Rising(bs, Len(v.stk))
      /\ \A j \in 1 .. Len(v.ctl) : v.ctl[j].op = "Loop" => v.ctl[j].res = Void
  BY DEF VTyped
<1>2. ts \in Seq(Types) /\ Len(ts) = Len(v.stk) /\ Len(v.stk) \in Nat
  BY ONLY <1>1, ts = TypesOf(v.stk), TypesAre
<1>3. Len(bs) = Len(v.ctl) /\ Len(v.ctl) \in Nat /\ \A j \in 1 .. Len(v.ctl) : bs[j] = v.ctl[j].base
  BY ONLY <1>1, bs = Bases(v.ctl), BasesAre
<1>4. \A j \in 1 .. Len(v.ctl) : bs[j] \in Nat /\ bs[j] <= Len(v.stk)
  BY <1>1, <1>3, ElementOfSeq DEF Rising
<1>5. \A j \in 1 .. Len(v.ctl) : v.ctl[j] \in VFrames
  BY <1>1, ElementOfSeq
<1> QED
  BY ONLY <1>1, <1>2, <1>3, <1>4, <1>5

\* A block begins.
OpenNext(v, i, u) ==
  \E us \in Seq(Types) :
    /\ VTyped(u) /\ us = TypesOf(u.stk)
    /\ Lower(TypesOf(v.stk), Len(TypesOf(v.stk)) - Len(Pops(i)), us)
    /\ Bases(u.ctl) = Append(Bases(v.ctl), Len(us))
    /\ u.ctl = Append(v.ctl, Frame(i, Len(us)))

\* What the validator does at block, loop and if.
LEMMA OpenValid ==
  ASSUME NEW v, VTyped(v), NEW i, WellFormed(i), NEW f, IsValid(v, i, f), Opens(i),
         i.op = "Loop" => i.ty = Void, NEW u, u = Validated(v, i, f)
  PROVE  OpenNext(v, i, u)
<1>1. PICK s, ts, bs : s = v.stk /\ ts = TypesOf(s) /\ bs = Bases(v.ctl)
  OBVIOUS
<1>2. /\ s \in Seq(VElems) /\ v.ctl \in Seq(VFrames) /\ Rising(bs, Len(s)) /\ Len(ts) = Len(s)
      /\ bs \in Seq(Nat) /\ Len(bs) = Len(v.ctl) /\ Len(v.ctl) \in Nat
      /\ \A j \in 1 .. Len(v.ctl) : v.ctl[j].op = "Loop" => v.ctl[j].res = Void
  <2>1. v.ctl \in Seq(VFrames)
    BY DEF VTyped
  <2>2. bs \in Seq(Nat)
    BY ONLY <2>1, <1>1, BasesAre
  <2> QED
    BY ONLY <2>1, <2>2, <1>1, VTyped(v), VParts
<1>3. PICK m \in Nat : m = Len(s)
  BY <1>2
<1>4. PICK n \in Nat : n = Len(Pops(i)) /\ n <= m - VLo(bs, Len(bs)) /\ VLo(bs, Len(bs)) \in Nat
  <2>1. i.op \notin {"End", "Else"} /\ Consumed(i, f) = Pops(i)
    BY DEF Opens, Consumed
  <2>2. Above(ts, bs, Consumed(i, f))
    BY ONLY <2>1, <1>1, VTyped(v), WellFormed(i), IsValid(v, i, f), ConsumedAbove
  <2> QED
    BY ONLY <2>1, <2>2, <1>2, <1>3 DEF Above
<1>5. PICK h \in Nat : h = m - n /\ h <= m
  <2>1. m - n \in Nat /\ m - n <= m
    BY <1>4
  <2> QED
    BY ONLY <2>1
<1>6. PICK r : r = SubSeq(s, 1, h) /\ r \in Seq(VElems) /\ Lower(s, h, r)
  BY ONLY <1>2, <1>3, <1>5, LowerSub
<1>7. Len(r) = h
  BY ONLY <1>6 DEF Lower
<1>8. PICK e : e = Frame(i, h)
  OBVIOUS
<1>9. u.stk = r /\ u.ctl = Append(v.ctl, e)
  <2>1. r = SubSeq(v.stk, 1, Len(v.stk) - Len(Pops(i)))
    BY ONLY <1>1, <1>3, <1>4, <1>5, <1>6
  <2>2. /\ u.stk = SubSeq(v.stk, 1, Len(v.stk) - Len(Pops(i)))
        /\ u.ctl = Append(v.ctl, Frame(i, Len(SubSeq(v.stk, 1, Len(v.stk) - Len(Pops(i))))))
    BY DEF Opens, Validated
  <2> QED
    BY ONLY <2>1, <2>2, <1>7, <1>8
<1>10. e \in VFrames /\ e.base = h /\ e.op = i.op /\ e.res = i.ty
  BY <1>8 DEF Frame, VFrames, Opens, BlockOps, WellFormed
<1>11. Bases(u.ctl) = Append(bs, h) /\ u.ctl \in Seq(VFrames)
  BY ONLY <1>1, <1>2, <1>9, <1>10, BasesAppend
<1>12. PICK us : us = TypesOf(r) /\ us \in Seq(Types) /\ Len(us) = h /\ Lower(ts, h, us)
  <2>1. Lower(ts, h, TypesOf(r))
    BY ONLY <1>1, <1>2, <1>3, <1>5, <1>6, LowerTypes
  <2>2. TypesOf(r) \in Seq(Types) /\ Len(TypesOf(r)) = Len(r)
    BY ONLY <1>6, TypesAre
  <2> QED
    BY ONLY <2>1, <2>2, <1>7
<1>13. Rising(bs, h)
  <2>1. h >= m - n
    BY ONLY <1>5, h \in Nat
  <2> QED
    BY ONLY <2>1, <1>2, <1>3, <1>4, h \in Nat, m \in Nat, n \in Nat, RisingLess
<1>14. Rising(Append(bs, h), h)
  <2>1. PICK l \in Nat : l = Len(bs)
    BY <1>2
  <2>2. /\ Append(bs, h) \in Seq(Nat) /\ Len(Append(bs, h)) = l + 1
        /\ Append(bs, h)[l + 1] = h
        /\ \A k \in 1 .. l : Append(bs, h)[k] = bs[k]
    BY ONLY <2>1, <1>2, h \in Nat, AppendProperties
  <2>3. /\ \A k \in 1 .. l + 1 : k \in 1 .. l \/ k = l + 1
        /\ \A j, k \in 1 .. l + 1 : j < k => j \in 1 .. l
        /\ h <= h
    BY ONLY l \in Nat, h \in Nat
  <2>4. /\ \A j \in 1 .. l : bs[j] <= h
        /\ \A j, k \in 1 .. l : j < k => bs[j] <= bs[k]
    BY ONLY <1>13, <2>1 DEF Rising
  <2>5. \A k \in 1 .. l + 1 : Append(bs, h)[k] <= h
    BY ONLY <2>2, <2>3, <2>4
  <2>6. \A j, k \in 1 .. l + 1 : j < k => Append(bs, h)[j] <= Append(bs, h)[k]
    BY ONLY <2>2, <2>3, <2>4
  <2> QED
    BY ONLY <2>2, <2>5, <2>6 DEF Rising
<1>15. \A j \in 1 .. Len(u.ctl) : u.ctl[j].op = "Loop" => u.ctl[j].res = Void
  <2>1. PICK l \in Nat : l = Len(v.ctl)
    BY <1>2
  <2>2. /\ Len(Append(v.ctl, e)) = l + 1 /\ Append(v.ctl, e)[l + 1] = e
        /\ \A k \in 1 .. l : Append(v.ctl, e)[k] = v.ctl[k]
    BY ONLY <2>1, <1>2, <1>10, AppendProperties
  <2>3. \A k \in 1 .. l + 1 : k \in 1 .. l \/ k = l + 1
    BY ONLY l \in Nat
  <2> QED
    BY ONLY <2>1, <2>2, <2>3, <1>2, <1>9, <1>10, i.op = "Loop" => i.ty = Void
<1>16. VTyped(u)
  BY ONLY <1>6, <1>7, <1>9, <1>11, <1>14, <1>15 DEF VTyped
<1> QED
  <2>1. Lower(TypesOf(v.stk), Len(TypesOf(v.stk)) - Len(Pops(i)), us)
    BY ONLY <1>1, <1>2, <1>3, <1>4, <1>5, <1>12
  <2> QED
    BY ONLY <2>1, <1>1, <1>8, <1>9, <1>11, <1>12, <1>16 DEF OpenNext

\* The second part of an if begins.
ElseNext(v, u) ==
  /\ VTyped(u) /\ Bases(u.ctl) = Bases(v.ctl) /\ Len(u.ctl) = Len(v.ctl)
  /\ Lower(TypesOf(v.stk), Bases(v.ctl)[Len(v.ctl)], TypesOf(u.stk))
  /\ \A j \in 1 .. Len(v.ctl) : u.ctl[j].res = v.ctl[j].res
  /\ \A j \in 1 .. Len(v.ctl) : u.ctl[j].op = IF j = Len(v.ctl) THEN "Else" ELSE v.ctl[j].op

\* What the validator does at else.
LEMMA ElseValid ==
  ASSUME NEW v, VTyped(v), NEW i, i.op = "Else", NEW f, v.ctl # << >>, NEW u, u = Validated(v, i, f)
  PROVE  ElseNext(v, u)
<1>1. PICK s, c, ts, bs : s = v.stk /\ c = v.ctl /\ ts = TypesOf(s) /\ bs = Bases(c)
  OBVIOUS
<1>2. /\ s \in Seq(VElems) /\ c \in Seq(VFrames) /\ Rising(bs, Len(ts)) /\ Len(ts) = Len(s)
      /\ Len(s) \in Nat /\ Len(bs) = Len(c) /\ ts \in Seq(Types)
      /\ \A j \in 1 .. Len(c) : bs[j] = c[j].base /\ bs[j] \in Nat
                                      /\ c[j] \in VFrames /\ bs[j] <= Len(s)
      /\ \A j \in 1 .. Len(c) : c[j].op = "Loop" => c[j].res = Void
  BY ONLY <1>1, VTyped(v), VParts
<1>3. PICK l \in Nat : l = Len(c) /\ l # 0 /\ l \in 1 .. l
  <2>1. Len(c) \in Nat \ {0}
    BY ONLY <1>1, <1>2, v.ctl # << >>, FrontOf
  <2> QED
    BY <2>1
<1>4. PICK h \in Nat : h = bs[l] /\ h = c[l].base /\ h <= Len(s)
  BY ONLY <1>2, <1>3
<1>5. PICK r : r = SubSeq(s, 1, h) /\ r \in Seq(VElems) /\ Lower(s, h, r) /\ Len(r) = h
  <2>1. SubSeq(s, 1, h) \in Seq(VElems) /\ Lower(s, h, SubSeq(s, 1, h))
    BY ONLY <1>2, <1>4, h \in Nat, LowerSub
  <2>2. Len(SubSeq(s, 1, h)) = h
    BY ONLY <2>1 DEF Lower
  <2> QED
    BY ONLY <2>1, <2>2
<1>6. PICK e : e = [c[l] EXCEPT !.op = "Else"]
  OBVIOUS
<1>7. e \in VFrames /\ e.op = "Else" /\ e.res = c[l].res /\ e.base = c[l].base
  BY ONLY <1>2, <1>3, <1>6 DEF VFrames, BlockOps
<1>8. u.stk = r /\ u.ctl = Append(Front(c), e)
  <2>1. /\ u.stk = SubSeq(v.stk, 1, Last(v.ctl).base)
        /\ u.ctl = Append(Front(v.ctl), [Last(v.ctl) EXCEPT !.op = "Else"])
    BY DEF Validated, Opens, InnerFrame
  <2>2. Last(v.ctl) = c[l]
    BY ONLY <1>1, <1>3 DEF Last
  <2> QED
    BY ONLY <2>1, <2>2, <1>1, <1>4, <1>5, <1>6
<1>9. PICK d : d = Front(c) /\ d \in Seq(VFrames) /\ Len(d) = l - 1 /\ \A k \in 1 .. l - 1 : d[k] = c[k]
  <2>1. Front(c) \in Seq(VFrames) /\ Len(Front(c)) = Len(c) - 1 /\ \A k \in 1 .. Len(c) - 1 : Front(c)[k] = c[k]
    BY ONLY <1>1, <1>2, v.ctl # << >>, FrontOf
  <2> QED
    BY ONLY <2>1, <1>3
<1>10. PICK n \in Nat : n = l - 1 /\ n + 1 = l
  <2>1. l - 1 \in Nat /\ (l - 1) + 1 = l
    BY ONLY <1>3, l \in Nat
  <2> QED
    BY ONLY <2>1
<1>11. /\ u.ctl \in Seq(VFrames) /\ Len(u.ctl) = l /\ u.ctl[l] = e /\ \A k \in 1 .. n : u.ctl[k] = c[k]
  <2>1. /\ Append(d, e) \in Seq(VFrames) /\ Len(Append(d, e)) = Len(d) + 1 /\ Append(d, e)[Len(d) + 1] = e
        /\ \A k \in 1 .. Len(d) : Append(d, e)[k] = d[k]
    BY ONLY <1>7, <1>9, AppendProperties
  <2> QED
    BY ONLY <2>1, <1>8, <1>9, <1>10
<1>12. \A k \in 1 .. l : k \in 1 .. n \/ k = l
  BY ONLY <1>10, n \in Nat
<1>13. \A k \in 1 .. n : k # l
  BY ONLY <1>10, n \in Nat
<1>14. /\ \A k \in 1 .. l : u.ctl[k].base = c[k].base /\ u.ctl[k].res = c[k].res
       /\ \A k \in 1 .. l : u.ctl[k].op = IF k = l THEN "Else" ELSE c[k].op
  BY ONLY <1>7, <1>11, <1>12, <1>13
<1>15. Bases(u.ctl) = bs
  <2>1. DOMAIN u.ctl = 1 .. l /\ DOMAIN c = 1 .. l
    BY ONLY <1>2, <1>3, <1>11, LenProperties
  <2>2. Bases(u.ctl) = [k \in 1 .. l |-> u.ctl[k].base] /\ bs = [k \in 1 .. l |-> c[k].base]
    BY ONLY <2>1, <1>1 DEF Bases
  <2> QED
    BY ONLY <2>2, <1>14
<1>16. PICK us : us = TypesOf(r) /\ us \in Seq(Types) /\ Lower(ts, h, us) /\ IsSeq(ts) /\ IsSeq(us)
  <2>1. Lower(ts, h, TypesOf(r))
    BY ONLY <1>1, <1>2, <1>4, <1>5, LowerTypes
  <2>2. TypesOf(r) \in Seq(Types) /\ Len(TypesOf(r)) = Len(r)
    BY ONLY <1>5, TypesAre
  <2> QED
    BY ONLY <2>1, <2>2, <1>2 DEF IsSeq
<1>17. Rising(bs, h)
  <2>1. PICK m \in Nat : m = Len(ts) /\ h <= m
    BY ONLY <1>2, <1>4
  <2>2. VLo(bs, Len(bs)) = h
    BY ONLY <1>2, <1>3, <1>4 DEF VLo
  <2>3a. m - h \in Nat
    BY ONLY <2>1, m \in Nat, h \in Nat
  <2>3. PICK x \in Nat : x = m - h
    BY ONLY <2>3a
  <2>4. x <= m - VLo(bs, Len(bs)) /\ h >= m - x
    BY <2>1, <2>2, <2>3
  <2> QED
    BY ONLY <2>1, <2>4, <1>2, h \in Nat, x \in Nat, m \in Nat, RisingLess
<1>18. VTyped(u)
  BY ONLY <1>2, <1>3, <1>5, <1>8, <1>11, <1>14, <1>15, <1>17 DEF VTyped
<1> QED
  BY ONLY <1>1, <1>3, <1>4, <1>8, <1>11, <1>14, <1>15, <1>16, <1>18 DEF ElseNext

\* A block ends.
EndNext(v, u) ==
  \E rs \in Seq(Types), res \in Types \cup {Void} :
    /\ VTyped(u) /\ u.ctl = Front(v.ctl) /\ Bases(u.ctl) = Front(Bases(v.ctl))
    /\ res = v.ctl[Len(v.ctl)].res
    /\ Lower(TypesOf(v.stk), Bases(v.ctl)[Len(v.ctl)], rs)
    /\ TypesOf(u.stk) = IF res = Void THEN rs ELSE Append(rs, res)

\* What the validator does at the end of a block.
LEMMA EndValid ==
  ASSUME NEW v, VTyped(v), NEW i, i.op = "End", NEW f, v.ctl # << >>, NEW u, u = Validated(v, i, f)
  PROVE  EndNext(v, u)
<1>1. PICK s, c, ts, bs : s = v.stk /\ c = v.ctl /\ ts = TypesOf(s) /\ bs = Bases(c)
  OBVIOUS
<1>2. /\ s \in Seq(VElems) /\ c \in Seq(VFrames) /\ Rising(bs, Len(ts)) /\ Len(ts) = Len(s)
      /\ Len(s) \in Nat /\ Len(bs) = Len(c) /\ ts \in Seq(Types)
      /\ \A j \in 1 .. Len(c) : bs[j] = c[j].base /\ bs[j] \in Nat
                                      /\ c[j] \in VFrames /\ bs[j] <= Len(s)
      /\ \A j \in 1 .. Len(c) : c[j].op = "Loop" => c[j].res = Void
  BY ONLY <1>1, VTyped(v), VParts
<1>3. PICK l \in Nat : l = Len(c) /\ l # 0 /\ l \in 1 .. l
  <2>1. Len(c) \in Nat \ {0}
    BY ONLY <1>1, <1>2, v.ctl # << >>, FrontOf
  <2> QED
    BY <2>1
<1>4. PICK h \in Nat : h = bs[l] /\ h = c[l].base /\ h <= Len(s)
  BY ONLY <1>2, <1>3
<1>5. PICK r : r = SubSeq(s, 1, h) /\ r \in Seq(VElems) /\ Lower(s, h, r) /\ Len(r) = h
  <2>1. SubSeq(s, 1, h) \in Seq(VElems) /\ Lower(s, h, SubSeq(s, 1, h))
    BY ONLY <1>2, <1>4, h \in Nat, LowerSub
  <2>2. Len(SubSeq(s, 1, h)) = h
    BY ONLY <2>1 DEF Lower
  <2> QED
    BY ONLY <2>1, <2>2
<1>6. PICK res \in Types \cup {Void} : res = c[l].res
  BY ONLY <1>2, <1>3 DEF VFrames
<1>7. PICK p : p = [k \in DOMAIN Result(res) |-> Entry(res, 0)]
  OBVIOUS
<1>8. u.stk = r \o p /\ u.ctl = Front(c)
  <2>1. /\ u.stk = SubSeq(v.stk, 1, Last(v.ctl).base)
                   \o [k \in DOMAIN Result(Last(v.ctl).res) |-> Entry(Last(v.ctl).res, 0)]
        /\ u.ctl = Front(v.ctl)
    BY DEF Validated, Opens, InnerFrame
  <2>2. Last(v.ctl) = c[l]
    BY ONLY <1>1, <1>3 DEF Last
  <2> QED
    BY ONLY <2>1, <2>2, <1>1, <1>4, <1>5, <1>6, <1>7
<1>9. PICK rs : rs = TypesOf(r) /\ rs \in Seq(Types) /\ Lower(ts, h, rs)
  <2>1. Lower(ts, h, TypesOf(r))
    BY ONLY <1>1, <1>2, <1>4, <1>5, LowerTypes
  <2>2. TypesOf(r) \in Seq(Types) /\ Len(TypesOf(r)) = Len(r)
    BY ONLY <1>5, TypesAre
  <2> QED
    BY ONLY <2>1, <2>2
<1>10. /\ u.stk \in Seq(VElems) /\ Len(u.stk) \in Nat /\ Len(u.stk) >= h
       /\ TypesOf(u.stk) = IF res = Void THEN rs ELSE Append(rs, res)
  <2>1. CASE res = Void
    <3>1. DOMAIN Result(res) = {}
      BY <2>1 DEF Result
    <3>2. p = [k \in {} |-> Entry(res, 0)]
      BY ONLY <3>1, <1>7
    <3>3. p = << >>
      BY ONLY <3>2
    <3>4. u.stk = r
      BY ONLY <1>5, <1>8, <3>3, ConcatEmptySeq
    <3>5. h >= h
      BY ONLY h \in Nat
    <3> QED
      BY ONLY <3>4, <3>5, <2>1, <1>5, <1>9, h \in Nat
  <2>2. CASE res # Void
    <3>1. DOMAIN Result(res) = {1}
      BY <2>2 DEF Result
    <3>2. PICK e : e = Entry(res, 0)
      OBVIOUS
    <3>3. e \in VElems /\ e.ty = res
      BY ONLY <2>2, <3>2, res \in Types \cup {Void} DEF Entry, VElems
    <3>4. p = [k \in {1} |-> e]
      BY ONLY <3>1, <3>2, <1>7
    <3>5. <<e>> = [k \in {1} |-> e]
      OBVIOUS
    <3>6. u.stk = Append(r, e)
      <4>1. Append(r, e) = r \o <<e>>
        BY ONLY <1>5, AppendIs DEF IsSeq
      <4> QED
        BY ONLY <4>1, <3>4, <3>5, <1>8
    <3>7. u.stk \in Seq(VElems) /\ TypesOf(u.stk) = Append(rs, res)
      BY ONLY <3>3, <3>6, <1>5, <1>9, TypesAppend
    <3>8. Len(u.stk) = h + 1
      <4>1. Len(Append(r, e)) = Len(r) + 1
        BY ONLY <1>5, <3>3, AppendProperties
      <4> QED
        BY ONLY <4>1, <3>6, <1>5
    <3>9. h + 1 >= h /\ h + 1 \in Nat
      BY ONLY h \in Nat
    <3> QED
      BY ONLY <3>7, <3>8, <3>9, <2>2
  <2> QED
    BY <2>1, <2>2
<1>11. Bases(u.ctl) = Front(bs) /\ u.ctl \in Seq(VFrames) /\ bs # << >>
  BY ONLY <1>1, <1>2, <1>8, v.ctl # << >>, BasesFront
<1>12. PICK n \in Nat : n = l - 1 /\ n + 1 = l
  <2>1. l - 1 \in Nat /\ (l - 1) + 1 = l
    BY ONLY <1>3, l \in Nat
  <2> QED
    BY ONLY <2>1
<1>13. /\ Front(bs) \in Seq(Nat) /\ Len(Front(bs)) = n /\ \A k \in 1 .. n : Front(bs)[k] = bs[k]
       /\ Len(Front(c)) = n /\ \A k \in 1 .. n : Front(c)[k] = c[k]
  <2>1. bs \in Seq(Nat)
    BY ONLY <1>2 DEF Rising
  <2>2. Front(bs) \in Seq(Nat) /\ Len(Front(bs)) = Len(bs) - 1 /\ \A k \in 1 .. Len(bs) - 1 : Front(bs)[k] = bs[k]
    BY ONLY <2>1, <1>11, FrontOf
  <2>3. Len(Front(c)) = Len(c) - 1 /\ \A k \in 1 .. Len(c) - 1 : Front(c)[k] = c[k]
    BY ONLY <1>1, <1>2, v.ctl # << >>, FrontOf
  <2> QED
    BY ONLY <2>2, <2>3, <1>2, <1>3, <1>12
<1>14. \A k \in 1 .. n : k \in 1 .. l /\ k < l
  BY ONLY <1>12, n \in Nat
<1>15. Rising(Front(bs), Len(u.stk))
  <2>1. \A j, k \in 1 .. l : j < k => bs[j] <= bs[k]
    BY ONLY <1>2, <1>3 DEF Rising
  <2>2. \A k \in 1 .. n : bs[k] \in Nat /\ bs[k] <= h
    BY ONLY <2>1, <1>2, <1>3, <1>4, <1>14
  <2>3. \A k \in 1 .. n : bs[k] <= Len(u.stk)
    BY ONLY <2>2, <1>10, h \in Nat
  <2> QED
    BY ONLY <2>1, <2>3, <1>13, <1>14 DEF Rising
<1>16. VTyped(u)
  <2>1. \A j \in 1 .. Len(u.ctl) : u.ctl[j].op = "Loop" => u.ctl[j].res = Void
    BY ONLY <1>2, <1>3, <1>8, <1>13, <1>14
  <2> QED
    BY ONLY <2>1, <1>10, <1>11, <1>15 DEF VTyped
<1> QED
  BY ONLY <1>1, <1>3, <1>4, <1>6, <1>8, <1>9, <1>10, <1>11, <1>16, rs \in Seq(Types) DEF EndNext

-----------------------------------------------------------------------------
(* The converter's stack beside the validator's.                           *)

Fit(v, fs, a, m) == Lifo(a, fs, m) /\ Fitted(a.stk, TypesOf(v.stk), Bases(v.ctl), fs)

\* Their parts.
LEMMA FitParts ==
  ASSUME NEW v, VTyped(v), NEW fs, NEW a, NEW m, Fit(v, fs, a, m), NEW s, s = a.stk,
         NEW ts, ts = TypesOf(v.stk), NEW bs, bs = Bases(v.ctl)
  PROVE  /\ s \in Seq(Regs) /\ IsSeq(s) /\ Len(s) \in Nat /\ ts \in Seq(Types) /\ IsSeq(ts) /\ Len(ts) \in Nat
         /\ Fitted(s, ts, bs, fs) /\ Heights(fs, Len(s)) /\ Rising(bs, Len(ts))
         /\ Lifo(a, fs, m)
<1>1. Lifo(a, fs, m) /\ Fitted(s, ts, bs, fs)
  BY DEF Fit
<1>2. Heights(fs, Len(s)) /\ s \in Seq(Regs) /\ Len(s) \in Nat
  BY ONLY <1>1, s = a.stk, LifoHeights
<1>3. ts \in Seq(Types) /\ Rising(bs, Len(ts)) /\ Len(ts) \in Nat
  BY ONLY VTyped(v), ts = TypesOf(v.stk), bs = Bases(v.ctl), VParts
<1> QED
  BY ONLY <1>1, <1>2, <1>3 DEF IsSeq

\* What the validator finds on top of its stack the converter finds, too.
OnTop(a, fs, tys) ==
  /\ Len(tys) \in Nat /\ OwnElems(a, fs, Len(tys)) /\ Len(a.stk) \in Nat
  /\ \A k \in 1 .. Len(tys) : a.stk[Len(a.stk) - Len(tys) + k].ty = tys[k]

\* So the pops of the converter find the types they assert.
LEMMA AboveOnTop ==
  ASSUME NEW v, VTyped(v), NEW fs, NEW a, NEW m, Fit(v, fs, a, m),
         NEW tys, Above(TypesOf(v.stk), Bases(v.ctl), tys)
  PROVE  OnTop(a, fs, tys)
<1>1. PICK s, ts, bs, n : s = a.stk /\ ts = TypesOf(v.stk) /\ bs = Bases(v.ctl) /\ n = Len(tys)
  OBVIOUS
<1>2. /\ IsSeq(s) /\ Len(s) \in Nat /\ IsSeq(ts) /\ Len(ts) \in Nat /\ Fitted(s, ts, bs, fs)
      /\ Heights(fs, Len(s)) /\ Rising(bs, Len(ts))
  BY ONLY <1>1, VTyped(v), Fit(v, fs, a, m), FitParts
<1>3. /\ n \in Nat /\ n <= Len(ts) - VLo(bs, Len(bs)) /\ \A k \in 1 .. n : ts[Len(ts) - n + k] = tys[k]
  <2>1. Above(ts, bs, tys)
    BY ONLY <1>1, Above(TypesOf(v.stk), Bases(v.ctl), tys)
  <2>2. /\ Len(tys) \in Nat /\ Len(tys) <= Len(ts) - VLo(bs, Len(bs))
        /\ \A k \in 1 .. Len(tys) : ts[Len(ts) - Len(tys) + k] = tys[k]
    BY ONLY <2>1 DEF Above
  <2>3. n = Len(tys)
    BY ONLY <1>1
  <2> QED
    BY ONLY <2>2, <2>3
<1>4. /\ n <= Len(s) /\ \A j \in 1 .. Len(fs) : fs[j].size <= Len(s) - n
      /\ \A k \in 1 .. n : s[Len(s) - n + k].ty = ts[Len(ts) - n + k]
  <2>1. n \in Nat /\ n <= Len(ts) - VLo(bs, Len(bs))
    BY ONLY <1>3
  <2>2. n <= Len(s)
    BY ONLY <1>2, <2>1, FitTop
  <2>3. \A j \in 1 .. Len(fs) : fs[j].size <= Len(s) - n
    BY ONLY <1>2, <2>1, FitTop
  <2>4. \A k \in 1 .. n : s[Len(s) - n + k].ty = ts[Len(ts) - n + k]
    BY ONLY <1>2, <2>1, FitTop
  <2> QED
    BY ONLY <2>2, <2>3, <2>4
<1> QED
  BY ONLY <1>1, <1>2, <1>3, <1>4 DEF OnTop, OwnElems

\* n elements are taken from the stack and ps, at most one, put there.
Changed(s, n, ps, t) ==
  \E c \in Seq(Regs) :
    /\ Lower(s, Len(s) - n, c)
    /\ IF ps = << >> THEN t = c ELSE \E e \in Regs : e.ty = ps[1] /\ t = Append(c, e)

\* An instruction inside of a block.
LEMMA StepPlain ==
  ASSUME NEW v, VTyped(v), NEW fs, NEW a, NEW m, Fit(v, fs, a, m), NEW i, WellFormed(i), NEW f, NEW u,
         PlainNext(v, i, f, u), Above(TypesOf(v.stk), Bases(v.ctl), Consumed(i, f)),
         NEW b, NEW q, Lifo(b, fs, q), Changed(a.stk, Len(Consumed(i, f)), Pushes(i), b.stk)
  PROVE  Fit(u, fs, b, q)
<1>1. PICK s, ts, bs, n, ps : /\ s = a.stk /\ ts = TypesOf(v.stk) /\ bs = Bases(v.ctl)
                              /\ n = Len(Consumed(i, f)) /\ ps = Pushes(i)
  OBVIOUS
<1>2. /\ IsSeq(s) /\ Len(s) \in Nat /\ IsSeq(ts) /\ Len(ts) \in Nat /\ Fitted(s, ts, bs, fs)
      /\ Heights(fs, Len(s)) /\ Rising(bs, Len(ts))
  BY ONLY <1>1, VTyped(v), Fit(v, fs, a, m), FitParts
<1>3. n \in Nat /\ n <= Len(ts) - VLo(bs, Len(bs))
  BY ONLY <1>1, Above(TypesOf(v.stk), Bases(v.ctl), Consumed(i, f)) DEF Above
<1>4. Bases(u.ctl) = bs /\ Shifted(ts, n, ps, TypesOf(u.stk))
  BY ONLY <1>1, PlainNext(v, i, f, u) DEF PlainNext
<1>5. PICK rs \in Seq(Types) :
        Lower(ts, Len(ts) - n, rs) /\ TypesOf(u.stk) = IF ps = << >> THEN rs ELSE Append(rs, ps[1])
  BY ONLY <1>4 DEF Shifted
<1>6. PICK c \in Seq(Regs) :
        /\ Lower(s, Len(s) - n, c)
        /\ IF ps = << >> THEN b.stk = c ELSE \E e \in Regs : e.ty = ps[1] /\ b.stk = Append(c, e)
  BY ONLY <1>1, Changed(a.stk, Len(Consumed(i, f)), Pushes(i), b.stk) DEF Changed
<1>7. Fitted(c, rs, bs, fs) /\ Rising(bs, Len(rs))
  BY ONLY <1>2, <1>3, <1>5, <1>6, FitLower
<1>8. Heights(fs, Len(c))
  <2>1. \A j \in 1 .. Len(fs) : fs[j].size <= Len(s) - n
    BY ONLY <1>2, <1>3, FitTop
  <2>2. Len(c) = Len(s) - n
    BY ONLY <1>6 DEF Lower
  <2> QED
    BY ONLY <2>1, <2>2, <1>2 DEF Heights
<1>9. CASE ps = << >>
  <2>1. Fitted(b.stk, TypesOf(u.stk), Bases(u.ctl), fs)
    BY ONLY <1>4, <1>5, <1>6, <1>7, <1>9
  <2> QED
    BY ONLY <2>1, Lifo(b, fs, q) DEF Fit
<1>10. CASE ps # << >>
  <2>1. PICK ty \in Types : ty = ps[1]
    BY <1>1, <1>10, PopsPushes
  <2>2. PICK e \in Regs : e.ty = ty /\ b.stk = Append(c, e)
    BY ONLY <2>1, <1>6, <1>10
  <2>3. TypesOf(u.stk) = Append(rs, ty)
    BY ONLY <2>1, <1>5, <1>10
  <2>4. Fitted(b.stk, TypesOf(u.stk), bs, fs)
    BY ONLY <2>2, <2>3, <1>7, <1>8, c \in Seq(Regs), rs \in Seq(Types), e \in Regs, ty \in Types, FitPush
  <2> QED
    BY ONLY <2>4, <1>4, Lifo(b, fs, q) DEF Fit
<1> QED
  BY <1>9, <1>10

\* A block begins.
LEMMA StepOpen ==
  ASSUME NEW v, VTyped(v), NEW fs, NEW a, NEW m, Fit(v, fs, a, m), NEW i, NEW u,
         OpenNext(v, i, u), Above(TypesOf(v.stk), Bases(v.ctl), Pops(i)),
         NEW f \in Frames, NEW gs, gs = Append(fs, f), NEW b, NEW q, Lifo(b, gs, q), f.size = Len(b.stk),
         Lower(a.stk, Len(a.stk) - Len(Pops(i)), b.stk)
  PROVE  Fit(u, gs, b, q)
<1>1. PICK s, ts, bs, n : s = a.stk /\ ts = TypesOf(v.stk) /\ bs = Bases(v.ctl) /\ n = Len(Pops(i))
  OBVIOUS
<1>2. /\ IsSeq(s) /\ Len(s) \in Nat /\ IsSeq(ts) /\ Len(ts) \in Nat /\ Fitted(s, ts, bs, fs)
      /\ Heights(fs, Len(s)) /\ Rising(bs, Len(ts))
  BY ONLY <1>1, VTyped(v), Fit(v, fs, a, m), FitParts
<1>3. n \in Nat /\ n <= Len(ts) - VLo(bs, Len(bs))
  BY ONLY <1>1, Above(TypesOf(v.stk), Bases(v.ctl), Pops(i)) DEF Above
<1>4. PICK us \in Seq(Types) : /\ us = TypesOf(u.stk) /\ Lower(ts, Len(ts) - n, us)
                               /\ Bases(u.ctl) = Append(bs, Len(us))
  BY ONLY <1>1, OpenNext(v, i, u) DEF OpenNext
<1>5. PICK c : c = b.stk /\ Lower(s, Len(s) - n, c) /\ IsSeq(c) /\ IsSeq(us)
  BY ONLY <1>1, Lower(a.stk, Len(a.stk) - Len(Pops(i)), b.stk), us \in Seq(Types) DEF Lower, IsSeq
<1>6. Fitted(c, us, bs, fs) /\ Rising(bs, Len(us))
  BY ONLY <1>2, <1>3, <1>4, <1>5, FitLower
<1>7. Heights(fs, Len(c))
  <2>1. \A j \in 1 .. Len(fs) : fs[j].size <= Len(s) - n
    BY ONLY <1>2, <1>3, FitTop
  <2>2. Len(c) = Len(s) - n
    BY ONLY <1>5 DEF Lower
  <2> QED
    BY ONLY <2>1, <2>2, <1>2 DEF Heights
<1>8. Fitted(c, us, Append(bs, Len(us)), gs)
  BY ONLY <1>5, <1>6, <1>7, f \in Frames, f.size = Len(b.stk), gs = Append(fs, f), FitOpen
<1> QED
  BY ONLY <1>4, <1>5, <1>8, Lifo(b, gs, q) DEF Fit

\* The second part of an if begins.
LEMMA StepElse ==
  ASSUME NEW v, VTyped(v), NEW fs, NEW a, NEW m, Fit(v, fs, a, m), NEW u, ElseNext(v, u), v.ctl # << >>,
         NEW b, NEW q, Lifo(b, fs, q), b.stk = a.stk
  PROVE  Fit(u, fs, b, q)
<1>1. PICK s, ts, bs, us : s = a.stk /\ ts = TypesOf(v.stk) /\ bs = Bases(v.ctl) /\ us = TypesOf(u.stk)
  OBVIOUS
<1>2. /\ IsSeq(s) /\ IsSeq(ts) /\ Fitted(s, ts, bs, fs) /\ Heights(fs, Len(s)) /\ Rising(bs, Len(ts))
  BY ONLY <1>1, VTyped(v), Fit(v, fs, a, m), FitParts
<1>3. v.ctl \in Seq(VFrames) /\ Len(bs) = Len(v.ctl)
  BY ONLY <1>1, VTyped(v), VParts
<1>4. PICK l : l = Len(bs) /\ l # 0
  BY <1>3, EmptySeq
<1>5. Lower(ts, bs[l], us) /\ Bases(u.ctl) = bs
  BY ONLY <1>1, <1>3, <1>4, ElseNext(v, u) DEF ElseNext
<1>6. Fitted(s, us, bs, fs)
  BY ONLY <1>2, <1>4, <1>5, FitElse
<1> QED
  BY ONLY <1>1, <1>5, <1>6, b.stk = a.stk, Lifo(b, fs, q) DEF Fit

\* The stack behind the end of block f.
Ended(s, f, t) ==
  \E c \in Seq(Regs) :
    Lower(s, f.size, c) /\ t = IF f.res = Void THEN c ELSE Append(c, Elem("TEMP", f.res, f.reg))

\* A block ends.
LEMMA StepEnd ==
  ASSUME NEW v, VTyped(v), NEW fs, NEW a, NEW m, Fit(v, fs, a, m), NEW u, EndNext(v, u), v.ctl # << >>,
         NEW f, f = fs[Len(fs)], f.res = v.ctl[Len(v.ctl)].res,
         NEW gs, gs = Front(fs), NEW b, NEW q, Lifo(b, gs, q), Ended(a.stk, f, b.stk)
  PROVE  Fit(u, gs, b, q)
<1>1. PICK s, ts, bs : s = a.stk /\ ts = TypesOf(v.stk) /\ bs = Bases(v.ctl)
  OBVIOUS
<1>2. /\ IsSeq(s) /\ IsSeq(ts) /\ Fitted(s, ts, bs, fs) /\ Heights(fs, Len(s)) /\ Rising(bs, Len(ts))
  BY ONLY <1>1, VTyped(v), Fit(v, fs, a, m), FitParts
<1>3. v.ctl \in Seq(VFrames) /\ Len(bs) = Len(v.ctl)
  BY ONLY <1>1, VTyped(v), VParts
<1>4. PICK l : l = Len(bs) /\ l # 0 /\ l = Len(fs) /\ fs \in Seq(Frames)
  BY <1>2, <1>3, EmptySeq DEF Fitted, Heights
<1>5. PICK rs \in Seq(Types), res \in Types \cup {Void} :
        /\ Bases(u.ctl) = Front(bs) /\ res = f.res /\ Lower(ts, bs[l], rs)
        /\ TypesOf(u.stk) = IF res = Void THEN rs ELSE Append(rs, res)
  BY ONLY <1>1, <1>3, <1>4, EndNext(v, u), f.res = v.ctl[Len(v.ctl)].res DEF EndNext
<1>6. PICK c \in Seq(Regs) :
        Lower(s, f.size, c) /\ b.stk = IF f.res = Void THEN c ELSE Append(c, Elem("TEMP", f.res, f.reg))
  BY ONLY <1>1, Ended(a.stk, f, b.stk) DEF Ended
<1>7. Lower(s, fs[l].size, c)
  BY ONLY <1>4, <1>6, f = fs[Len(fs)]
<1>8. PICK cs : cs = Front(bs)
  OBVIOUS
<1>9. Fitted(c, rs, cs, gs) /\ Rising(cs, Len(rs))
  BY ONLY <1>2, <1>4, <1>5, <1>7, <1>8, gs = Front(fs), FitEnd
<1>10. CASE res = Void
  <2>1. Fitted(b.stk, TypesOf(u.stk), Bases(u.ctl), gs)
    BY ONLY <1>5, <1>6, <1>8, <1>9, <1>10
  <2> QED
    BY ONLY <2>1, Lifo(b, gs, q) DEF Fit
<1>11. CASE res # Void
  <2>1. PICK ty \in Types : ty = res
    BY <1>11
  <2>2. l \in 1 .. Len(fs)
    BY <1>4
  <2>3. PICK e \in Regs : e = Elem("TEMP", f.res, f.reg) /\ e.ty = ty
    <3>1. f.reg \in Nat
      BY <1>4, <2>2, FrameFields
    <3>2. Elem("TEMP", f.res, f.reg) \in Regs /\ Elem("TEMP", f.res, f.reg).ty = ty
      BY <3>1, <2>1, <1>5 DEF Elem, Regs
    <3> QED
      BY ONLY <3>2
  <2>4. Heights(gs, Len(c))
    <3>1. fs # << >> /\ Nested(fs) /\ Len(fs) \in Nat
      BY <1>2, <1>4, EmptySeq DEF Heights
    <3>2. gs \in Seq(Frames) /\ Len(gs) = l - 1 /\ \A k \in 1 .. l - 1 : gs[k] = fs[k]
      BY ONLY <3>1, <1>4, gs = Front(fs), FrontOf
    <3>3. \A k \in 1 .. l - 1 : k \in 1 .. Len(fs) /\ l \in 1 .. Len(fs) /\ k < l
      BY ONLY <3>1, <1>4
    <3>4. Len(c) = fs[l].size
      BY ONLY <1>7 DEF Lower
    <3>5. Nested(gs) /\ \A k \in 1 .. l - 1 : gs[k].size <= Len(c)
      BY ONLY <3>1, <3>2, <3>3, <3>4 DEF Nested
    <3> QED
      BY ONLY <3>2, <3>5 DEF Heights
  <2>5. b.stk = Append(c, e) /\ TypesOf(u.stk) = Append(rs, ty)
    BY ONLY <2>1, <2>3, <1>5, <1>6, <1>11
  <2>6. Fitted(b.stk, TypesOf(u.stk), cs, gs)
    BY ONLY <2>3, <2>4, <2>5, <1>9, c \in Seq(Regs), rs \in Seq(Types), e \in Regs, ty \in Types, FitPush
  <2> QED
    BY ONLY <2>6, <1>5, <1>8, Lifo(b, gs, q) DEF Fit
<1> QED
  BY <1>10, <1>11

-----------------------------------------------------------------------------
(* The statements beside the validator.  w are the open blocks as in work. *)

\* Behind instruction i, number k.
Moved(w, i, k) ==
  CASE Opens(i) -> Append(w, k)
    [] i.op = "Else" -> Append(Front(w), k)
    [] i.op = "End" -> Front(w)
    [] OTHER -> w

Inside(v, w, g, k) ==
  \A j \in 1 .. Len(v.ctl) :
    /\ w[j + 1] \in 1 .. k - 1 /\ g[w[j + 1]].parent = w[j]
    /\ g[w[j + 1]].op = v.ctl[j].op /\ g[w[j + 1]].res = v.ctl[j].res

\* The validator and the open blocks in front of instruction k.
Settled(v, w, g, k) ==
  /\ VTyped(v) /\ w \in Seq(Nat) /\ Len(w) = Len(v.ctl) + 1 /\ w[1] = 0
  /\ Inside(v, w, g, k) /\ (v.trap => v.dead)

\* The statement of instruction i, number k.
StmtAt(w, g, i, k) ==
  /\ g[k].op = i.op
  /\ i.op = "Else" =>
       g[k].els = Last(w) /\ g[k].parent = g[Last(w)].parent /\ g[k].res = g[Last(w)].res
  /\ i.op # "Else" => g[k].parent = Last(w)
  /\ Opens(i) => g[k].res = i.ty

Right(v, w, g, i, f, k) == IsValid(v, i, f) /\ Usual(v, i, f) /\ StmtAt(w, g, i, k)

\* Functions without the forms on which assertions of the converter fail: a
\* loop with a result, a branch to the function's label, a block left without
\* its value, unreachable where the end of its block is reached another way.
PlainForms == Unusual \cap {"loopvalue", "funcbr", "deadvalue", "trapjoin"} = {}

\* The parts of Settled.
LEMMA SettledParts ==
  ASSUME NEW v, NEW w, NEW g, NEW k, Settled(v, w, g, k)
  PROVE  /\ VTyped(v) /\ v.ctl \in Seq(VFrames) /\ Len(v.ctl) \in Nat
         /\ w \in Seq(Nat) /\ w # << >> /\ Len(w) = Len(v.ctl) + 1 /\ w[1] = 0
         /\ Last(w) = w[Len(v.ctl) + 1] /\ (v.ctl = << >> <=> Len(v.ctl) = 0)
         /\ Inside(v, w, g, k)
<1>1. VTyped(v) /\ w \in Seq(Nat) /\ Len(w) = Len(v.ctl) + 1 /\ w[1] = 0 /\ Inside(v, w, g, k)
  BY DEF Settled
<1>2. v.ctl \in Seq(VFrames)
  BY ONLY <1>1 DEF VTyped
<1>3. Len(v.ctl) \in Nat /\ (v.ctl = << >> <=> Len(v.ctl) = 0)
  BY ONLY <1>2, EmptySeq
<1>4. w # << >>
  BY <1>1, <1>3, EmptySeq
<1>5. Last(w) = w[Len(v.ctl) + 1]
  BY ONLY <1>1 DEF Last
<1> QED
  BY ONLY <1>1, <1>2, <1>3, <1>4, <1>5

\* Loops have no results.
LEMMA LoopIsVoid ==
  ASSUME NEW v, NEW i, NEW f, Usual(v, i, f), PlainForms
  PROVE  i.op = "Loop" => i.ty = Void
BY DEF Usual, PlainForms

\* The open blocks follow the validator.
LEMMA SettledNext ==
  ASSUME NEW v, NEW w, NEW g, NEW k \in Nat, k # 0, Settled(v, w, g, k), NEW i, WellFormed(i), NEW f,
         Right(v, w, g, i, f, k), PlainForms, ~(i.op = "End" /\ v.ctl = << >>),
         NEW u, u = Validated(v, i, f), NEW x, x = Moved(w, i, k)
  PROVE  Settled(u, x, g, k + 1)
<1>1. /\ VTyped(v) /\ v.ctl \in Seq(VFrames) /\ Len(v.ctl) \in Nat
      /\ w \in Seq(Nat) /\ w # << >> /\ Len(w) = Len(v.ctl) + 1 /\ w[1] = 0
      /\ Last(w) = w[Len(v.ctl) + 1] /\ (v.ctl = << >> <=> Len(v.ctl) = 0)
      /\ Inside(v, w, g, k)
  BY ONLY Settled(v, w, g, k), SettledParts
<1>2. IsValid(v, i, f) /\ Usual(v, i, f) /\ StmtAt(w, g, i, k)
  BY DEF Right
<1>0. u.trap => u.dead
  <2>1. v.trap => v.dead
    BY DEF Settled
  <2>2. CASE i.op \in {"End", "Else"} \/ Opens(i)
    <3>1. u.trap = FALSE
      BY ONLY <2>2, u = Validated(v, i, f) DEF Validated, Opens
    <3> QED
      BY ONLY <3>1
  <2>3. CASE i.op = "LocalTee"
    BY ONLY <2>1, <2>3, u = Validated(v, i, f) DEF Validated, Opens
  <2>4. CASE Plain(i)
    <3>1. u.trap = (i.op = "Unreachable") /\ u.dead = Leaves(i)
      BY ONLY <2>4, u = Validated(v, i, f) DEF Validated, Plain
    <3> QED
      BY ONLY <3>1 DEF Leaves
  <2> QED
    BY ONLY <2>2, <2>3, <2>4 DEF Plain
<1>3. PICK l \in Nat : l = Len(v.ctl)
  BY ONLY <1>1
<1>4. /\ \A y \in 1 .. k - 1 : y \in 1 .. (k + 1) - 1
      /\ k \in 1 .. (k + 1) - 1
  BY ONLY k \in Nat, k # 0
<1>5. \A j \in 1 .. l :
    /\ w[j + 1] \in 1 .. (k + 1) - 1 /\ g[w[j + 1]].parent = w[j]
    /\ g[w[j + 1]].op = v.ctl[j].op /\ g[w[j + 1]].res = v.ctl[j].res
  BY ONLY <1>1, <1>3, <1>4 DEF Inside
<1>6. CASE Plain(i)
  <2>1. PlainNext(v, i, f, u)
    BY ONLY <1>1, <1>2, <1>6, WellFormed(i), u = Validated(v, i, f), PlainValid
  <2>2. VTyped(u) /\ SameFrames(v.ctl, u.ctl)
    BY ONLY <2>1 DEF PlainNext
  <2>3. x = w
    BY ONLY <1>6, x = Moved(w, i, k) DEF Plain, Moved
  <2> QED
    BY ONLY <1>0, <2>2, <2>3, <1>1, <1>3, <1>5 DEF Settled, Inside, SameFrames
<1>7. CASE i.op = "LocalTee"
  <2>1. u = v /\ x = w
    BY ONLY <1>7, u = Validated(v, i, f), x = Moved(w, i, k) DEF Validated, Moved, Opens
  <2> QED
    BY ONLY <1>0, <2>1, <1>1, <1>3, <1>5 DEF Settled, Inside
<1>8. CASE Opens(i)
  <2>1. i.op = "Loop" => i.ty = Void
    BY ONLY <1>2, PlainForms, LoopIsVoid
  <2>2. OpenNext(v, i, u)
    BY ONLY <2>1, <1>1, <1>2, <1>8, WellFormed(i), u = Validated(v, i, f), OpenValid
  <2>3. PICK us : VTyped(u) /\ u.ctl = Append(v.ctl, Frame(i, Len(us))) /\ us \in Seq(Types)
    BY ONLY <2>2 DEF OpenNext
  <2>4. PICK e : e = Frame(i, Len(us))
    OBVIOUS
  <2>5. e.op = i.op /\ e.res = i.ty /\ e \in VFrames
    <3>1. Len(us) \in Nat
      BY ONLY <2>3
    <3> QED
      BY <3>1, <2>4, <1>8 DEF Frame, VFrames, Opens, BlockOps, WellFormed
  <2>6. Len(u.ctl) = l + 1 /\ u.ctl[l + 1] = e /\ \A j \in 1 .. l : u.ctl[j] = v.ctl[j]
    <3>1. /\ Len(Append(v.ctl, e)) = Len(v.ctl) + 1 /\ Append(v.ctl, e)[Len(v.ctl) + 1] = e
          /\ \A j \in 1 .. Len(v.ctl) : Append(v.ctl, e)[j] = v.ctl[j]
      BY ONLY <2>5, <1>1, AppendProperties
    <3> QED
      BY ONLY <3>1, <2>3, <2>4, <1>3
  <2>7. /\ x \in Seq(Nat) /\ Len(x) = (l + 1) + 1 /\ x[(l + 1) + 1] = k
        /\ \A j \in 1 .. l + 1 : x[j] = w[j]
    <3>1. /\ Append(w, k) \in Seq(Nat) /\ Len(Append(w, k)) = Len(w) + 1 /\ Append(w, k)[Len(w) + 1] = k
          /\ \A j \in 1 .. Len(w) : Append(w, k)[j] = w[j]
      BY ONLY <1>1, k \in Nat, AppendProperties
    <3>2. x = Append(w, k)
      BY ONLY <1>8, x = Moved(w, i, k) DEF Moved, Opens
    <3>3. Len(w) = l + 1
      BY ONLY <1>1, <1>3
    <3> QED
      BY ONLY <3>1, <3>2, <3>3
  <2>8. g[k].op = i.op /\ g[k].parent = w[l + 1] /\ g[k].res = i.ty
    BY ONLY <1>1, <1>2, <1>3, <1>8 DEF StmtAt, Opens
  <2>9. \A j \in 1 .. l + 1 : j = l + 1 \/ (j \in 1 .. l /\ j + 1 \in 1 .. l + 1)
    BY ONLY l \in Nat
  <2>10. l + 1 \in 1 .. l + 1 /\ 1 \in 1 .. l + 1
    BY ONLY l \in Nat
  <2>11. Inside(u, x, g, k + 1)
    <3> SUFFICES ASSUME NEW j \in 1 .. l + 1
                 PROVE  /\ x[j + 1] \in 1 .. (k + 1) - 1 /\ g[x[j + 1]].parent = x[j]
                        /\ g[x[j + 1]].op = u.ctl[j].op /\ g[x[j + 1]].res = u.ctl[j].res
      BY <2>6 DEF Inside
    <3>1. CASE j = l + 1
      BY ONLY <3>1, <2>5, <2>6, <2>7, <2>8, <2>10, <1>4
    <3>2. CASE j \in 1 .. l /\ j + 1 \in 1 .. l + 1
      BY ONLY <3>2, <2>6, <2>7, <1>5, j \in 1 .. l + 1
    <3> QED
      BY ONLY <3>1, <3>2, <2>9, j \in 1 .. l + 1
  <2> QED
    BY ONLY <1>0, <2>3, <2>6, <2>7, <2>10, <2>11, <1>1 DEF Settled
<1>9. CASE i.op = "Else"
  <2>1. v.ctl # << >>
    BY ONLY <1>2, <1>9 DEF IsValid
  <2>2. ElseNext(v, u)
    BY ONLY <2>1, <1>1, <1>9, u = Validated(v, i, f), ElseValid
  <2>3. /\ VTyped(u) /\ Len(u.ctl) = l /\ \A j \in 1 .. l : u.ctl[j].res = v.ctl[j].res
        /\ \A j \in 1 .. l : u.ctl[j].op = IF j = l THEN "Else" ELSE v.ctl[j].op
    BY ONLY <2>2, <1>3 DEF ElseNext
  <2>4. PICK n \in Nat : l = n + 1 /\ n = l - 1
    <3>1. l - 1 \in Nat /\ l = (l - 1) + 1
      BY ONLY <2>1, <1>1, <1>3
    <3> QED
      BY ONLY <3>1
  <2>5. x = Append(Front(w), k)
    BY ONLY <1>9, x = Moved(w, i, k) DEF Moved, Opens
  <2>6. /\ Front(w) \in Seq(Nat) /\ Len(Front(w)) = l /\ \A j \in 1 .. l : Front(w)[j] = w[j]
    <3>1. Front(w) \in Seq(Nat) /\ Len(Front(w)) = Len(w) - 1 /\ \A j \in 1 .. Len(w) - 1 : Front(w)[j] = w[j]
      BY ONLY <1>1, FrontOf
    <3>2. Len(w) - 1 = l
      BY ONLY <1>1, <1>3
    <3> QED
      BY ONLY <3>1, <3>2
  <2>7. /\ x \in Seq(Nat) /\ Len(x) = l + 1 /\ x[l + 1] = k /\ \A j \in 1 .. l : x[j] = w[j]
    <3>1. PICK y : y = Front(w)
      OBVIOUS
    <3>2. /\ Append(y, k) \in Seq(Nat) /\ Len(Append(y, k)) = Len(y) + 1 /\ Append(y, k)[Len(y) + 1] = k
          /\ \A j \in 1 .. Len(y) : Append(y, k)[j] = y[j]
      BY ONLY <3>1, <2>6, k \in Nat, AppendProperties
    <3> QED
      BY ONLY <3>1, <3>2, <2>5, <2>6
  <2>8. g[k].op = "Else" /\ g[k].parent = g[w[l + 1]].parent /\ g[k].res = g[w[l + 1]].res
    BY ONLY <1>1, <1>2, <1>3, <1>9 DEF StmtAt
  <2>9. \A j \in 1 .. l : j = l \/ (j \in 1 .. n /\ j + 1 \in 1 .. l /\ j # l)
    BY ONLY <2>4, n \in Nat
  <2>10. l \in 1 .. l /\ 1 \in 1 .. l
    BY ONLY <2>4, n \in Nat
  <2>11. g[k].parent = w[l] /\ g[k].res = v.ctl[l].res
    BY ONLY <2>8, <2>10, <1>5
  <2>12. Inside(u, x, g, k + 1)
    <3> SUFFICES ASSUME NEW j \in 1 .. l
                 PROVE  /\ x[j + 1] \in 1 .. (k + 1) - 1 /\ g[x[j + 1]].parent = x[j]
                        /\ g[x[j + 1]].op = u.ctl[j].op /\ g[x[j + 1]].res = u.ctl[j].res
      BY <2>3 DEF Inside
    <3>1. CASE j = l
      BY ONLY <3>1, <2>3, <2>7, <2>8, <2>10, <2>11, <1>4
    <3>2. CASE j \in 1 .. n /\ j + 1 \in 1 .. l /\ j # l
      BY ONLY <3>2, <2>3, <2>7, <1>5, j \in 1 .. l
    <3> QED
      BY ONLY <3>1, <3>2, <2>9, j \in 1 .. l
  <2> QED
    BY ONLY <1>0, <2>3, <2>7, <2>10, <2>12, <1>1 DEF Settled
<1>10. CASE i.op = "End"
  <2>1. v.ctl # << >>
    BY <1>10
  <2>2. EndNext(v, u)
    BY ONLY <2>1, <1>1, <1>10, u = Validated(v, i, f), EndValid
  <2>3. VTyped(u) /\ u.ctl = Front(v.ctl)
    BY ONLY <2>2 DEF EndNext
  <2>4. PICK n \in Nat : l = n + 1 /\ n = l - 1
    <3>1. l - 1 \in Nat /\ l = (l - 1) + 1
      BY ONLY <2>1, <1>1, <1>3
    <3> QED
      BY ONLY <3>1
  <2>5. x = Front(w)
    BY ONLY <1>10, x = Moved(w, i, k) DEF Moved, Opens
  <2>6. /\ x \in Seq(Nat) /\ Len(x) = l /\ \A j \in 1 .. l : x[j] = w[j]
    <3>1. Front(w) \in Seq(Nat) /\ Len(Front(w)) = Len(w) - 1 /\ \A j \in 1 .. Len(w) - 1 : Front(w)[j] = w[j]
      BY ONLY <1>1, FrontOf
    <3>2. Len(w) - 1 = l
      BY ONLY <1>1, <1>3
    <3> QED
      BY ONLY <3>1, <3>2, <2>5
  <2>7. Len(u.ctl) = n /\ \A j \in 1 .. n : u.ctl[j] = v.ctl[j]
    <3>1. Len(Front(v.ctl)) = Len(v.ctl) - 1 /\ \A j \in 1 .. Len(v.ctl) - 1 : Front(v.ctl)[j] = v.ctl[j]
      BY ONLY <2>1, <1>1, FrontOf
    <3> QED
      BY ONLY <3>1, <2>3, <2>4, <1>3
  <2>8. \A j \in 1 .. n : j \in 1 .. l /\ j + 1 \in 1 .. l
    BY ONLY <2>4, n \in Nat
  <2>9. 1 \in 1 .. l
    BY ONLY <2>4, n \in Nat
  <2>10. Inside(u, x, g, k + 1)
    BY ONLY <2>6, <2>7, <2>8, <1>5 DEF Inside
  <2> QED
    BY ONLY <1>0, <2>3, <2>4, <2>6, <2>7, <2>9, <2>10, <1>1 DEF Settled
<1> QED
  BY <1>6, <1>7, <1>8, <1>9, <1>10 DEF Plain

-----------------------------------------------------------------------------
(* The open blocks as the allocator sees them.                             *)

Proj(s) == [res |-> s.res, reg |-> s.reg, size |-> s.size]

FS(g, w) == [j \in 1 .. Len(w) - 1 |-> Proj(g[w[j + 1]])]

\* What they consist of.
FrameList(v, w, g, fs) ==
  /\ fs \in Seq(Frames) /\ Len(fs) = Len(v.ctl)
  /\ \A j \in 1 .. Len(v.ctl) : fs[j] = Proj(g[w[j + 1]]) /\ fs[j].res = v.ctl[j].res

\* The frames of the allocator are those of the validator.
LEMMA FSAre ==
  ASSUME NEW v, NEW w, NEW g, NEW k, Settled(v, w, g, k), g \in Seq(Stmts), k \in 1 .. Len(g) + 1,
         NEW fs, fs = FS(g, w)
  PROVE  FrameList(v, w, g, fs)
<1>1. /\ Len(v.ctl) \in Nat /\ Len(w) = Len(v.ctl) + 1 /\ Inside(v, w, g, k)
  BY ONLY Settled(v, w, g, k), SettledParts
<1>2. PICK l \in Nat : l = Len(v.ctl) /\ Len(w) - 1 = l
  <2>1. Len(w) - 1 = Len(v.ctl)
    BY ONLY <1>1
  <2> QED
    BY ONLY <2>1, <1>1
<1>3. fs = [j \in 1 .. l |-> Proj(g[w[j + 1]])]
  BY ONLY <1>2, fs = FS(g, w) DEF FS
<1>4. ASSUME NEW j \in 1 .. l
      PROVE  fs[j] \in Frames /\ fs[j] = Proj(g[w[j + 1]]) /\ fs[j].res = v.ctl[j].res
  <2>1. w[j + 1] \in 1 .. k - 1 /\ g[w[j + 1]].res = v.ctl[j].res
    BY ONLY <1>1, <1>2, j \in 1 .. l DEF Inside
  <2>2. w[j + 1] \in 1 .. Len(g)
    <3>1. Len(g) \in Nat
      BY LenProperties
    <3> QED
      BY ONLY <3>1, <2>1, k \in 1 .. Len(g) + 1
  <2>3. PICK q : q = g[w[j + 1]] /\ q.res \in Types \cup {Void} /\ q.reg \in Nat /\ q.size \in Nat
    BY ONLY <2>2, g \in Seq(Stmts), StmtFields
  <2>4. Proj(q) \in Frames /\ Proj(q).res = q.res
    BY ONLY <2>3 DEF Proj, Frames
  <2>5. fs[j] = Proj(q)
    BY ONLY <1>3, <2>3, j \in 1 .. l
  <2> QED
    BY ONLY <2>1, <2>3, <2>4, <2>5
<1>5. fs \in [1 .. l -> Frames]
  BY ONLY <1>3, <1>4
<1>6. fs \in Seq(Frames) /\ Len(fs) = l
  BY ONLY <1>5, l \in Nat
<1> QED
  BY ONLY <1>2, <1>4, <1>6 DEF FrameList

\* Registers of other statements do not matter.
LEMMA FSKept ==
  ASSUME NEW v, NEW w, NEW g, NEW k, Settled(v, w, g, k), NEW h,
         \A j \in 1 .. k - 1 : Proj(h[j]) = Proj(g[j])
  PROVE  FS(h, w) = FS(g, w)
<1>1. /\ Len(v.ctl) \in Nat /\ Len(w) = Len(v.ctl) + 1 /\ Inside(v, w, g, k)
  BY ONLY Settled(v, w, g, k), SettledParts
<1>2. PICK l \in Nat : l = Len(v.ctl) /\ Len(w) - 1 = l
  <2>1. Len(w) - 1 = Len(v.ctl)
    BY ONLY <1>1
  <2> QED
    BY ONLY <2>1, <1>1
<1>3. \A j \in 1 .. l : Proj(h[w[j + 1]]) = Proj(g[w[j + 1]])
  BY ONLY <1>1, <1>2, \A j \in 1 .. k - 1 : Proj(h[j]) = Proj(g[j]) DEF Inside
<1>4. FS(h, w) = [j \in 1 .. l |-> Proj(h[w[j + 1]])] /\ FS(g, w) = [j \in 1 .. l |-> Proj(g[w[j + 1]])]
  BY ONLY <1>2 DEF FS
<1> QED
  BY ONLY <1>3, <1>4

\* A block begins.
LEMMA FSOpen ==
  ASSUME NEW v, NEW w, NEW g, NEW k \in Nat, Settled(v, w, g, k), g \in Seq(Stmts), k \in 1 .. Len(g) + 1, NEW h,
         \A j \in 1 .. k - 1 : Proj(h[j]) = Proj(g[j]), NEW f \in Frames, f = Proj(h[k])
  PROVE  FS(h, Append(w, k)) = Append(FS(g, w), f)
<1>1. /\ Len(v.ctl) \in Nat /\ w \in Seq(Nat) /\ Len(w) = Len(v.ctl) + 1
  BY ONLY Settled(v, w, g, k), SettledParts
<1>2. PICK l \in Nat : l = Len(v.ctl) /\ Len(w) = l + 1
  BY ONLY <1>1
<1>3. PICK fs : fs = FS(g, w) /\ fs = FS(h, w)
  BY ONLY Settled(v, w, g, k), \A j \in 1 .. k - 1 : Proj(h[j]) = Proj(g[j]), FSKept
<1>4. fs \in Seq(Frames) /\ Len(fs) = l
  <2>1. fs = FS(g, w)
    BY ONLY <1>3
  <2>2. FrameList(v, w, g, fs)
    BY ONLY <2>1, Settled(v, w, g, k), g \in Seq(Stmts), k \in 1 .. Len(g) + 1, FSAre
  <2> QED
    BY ONLY <2>2, <1>2 DEF FrameList
<1>5. PICK x : x = Append(w, k) /\ Len(x) = (l + 1) + 1 /\ x[(l + 1) + 1] = k /\ \A j \in 1 .. l + 1 : x[j] = w[j]
  <2>1. /\ Append(w, k) \in Seq(Nat) /\ Len(Append(w, k)) = Len(w) + 1 /\ Append(w, k)[Len(w) + 1] = k
        /\ \A j \in 1 .. Len(w) : Append(w, k)[j] = w[j]
    BY ONLY <1>1, k \in Nat, AppendProperties
  <2> QED
    BY ONLY <2>1, <1>2
<1>6. PICK gs : /\ gs = Append(fs, f) /\ gs \in Seq(Frames) /\ Len(gs) = l + 1 /\ gs[l + 1] = f
                /\ \A j \in 1 .. l : gs[j] = fs[j]
  <2>1. /\ Append(fs, f) \in Seq(Frames) /\ Len(Append(fs, f)) = Len(fs) + 1 /\ Append(fs, f)[Len(fs) + 1] = f
        /\ \A j \in 1 .. Len(fs) : Append(fs, f)[j] = fs[j]
    BY ONLY <1>4, f \in Frames, AppendProperties
  <2> QED
    BY ONLY <2>1, <1>4
<1>7. gs = [j \in 1 .. l + 1 |-> gs[j]]
  <2>1. gs \in [1 .. Len(gs) -> Frames]
    BY ONLY <1>6, LenProperties
  <2> QED
    BY ONLY <2>1, <1>6
<1>8. fs = [j \in 1 .. l |-> Proj(h[w[j + 1]])]
  <2>1. Len(w) - 1 = l
    BY ONLY <1>2, l \in Nat
  <2> QED
    BY ONLY <2>1, <1>3 DEF FS
<1>9. FS(h, x) = [j \in 1 .. l + 1 |-> Proj(h[x[j + 1]])]
  <2>1. Len(x) - 1 = l + 1
    BY ONLY <1>5, l \in Nat
  <2> QED
    BY ONLY <2>1 DEF FS
<1>10. ASSUME NEW j \in 1 .. l + 1 PROVE gs[j] = Proj(h[x[j + 1]])
  <2>1. CASE j = l + 1
    BY ONLY <2>1, <1>5, <1>6, f = Proj(h[k])
  <2>2. CASE j \in 1 .. l
    <3>1. j + 1 \in 1 .. l + 1
      BY ONLY <2>2, l \in Nat
    <3> QED
      BY ONLY <3>1, <2>2, <1>5, <1>6, <1>8
  <2>3. j = l + 1 \/ j \in 1 .. l
    BY ONLY j \in 1 .. l + 1, l \in Nat
  <2> QED
    BY ONLY <2>1, <2>2, <2>3
<1> QED
  BY ONLY <1>3, <1>5, <1>6, <1>7, <1>9, <1>10

\* A block ends.
LEMMA FSEnd ==
  ASSUME NEW v, NEW w, NEW g, NEW k \in Nat, Settled(v, w, g, k), g \in Seq(Stmts), k \in 1 .. Len(g) + 1,
         v.ctl # << >>
  PROVE  FS(g, Front(w)) = Front(FS(g, w)) /\ FS(g, w) # << >>
<1>1. /\ Len(v.ctl) \in Nat /\ w \in Seq(Nat) /\ Len(w) = Len(v.ctl) + 1 /\ w # << >> /\ Len(v.ctl) # 0
  BY ONLY Settled(v, w, g, k), v.ctl # << >>, SettledParts
<1>2. PICK l \in Nat : l = Len(v.ctl) /\ Len(w) = l + 1 /\ Len(w) - 1 = l /\ l # 0
  <2>1. Len(w) - 1 = Len(v.ctl)
    BY ONLY <1>1
  <2> QED
    BY ONLY <1>1, <2>1
<1>3. PICK n \in Nat : n = l - 1
  <2>1. l - 1 \in Nat
    BY ONLY <1>2, l \in Nat
  <2> QED
    BY ONLY <2>1
<1>4. PICK fs : fs = FS(g, w)
  OBVIOUS
<1>5. fs \in Seq(Frames) /\ Len(fs) = l
  BY ONLY <1>2, <1>4, Settled(v, w, g, k), g \in Seq(Stmts), k \in 1 .. Len(g) + 1, FSAre DEF FrameList
<1>6. fs # << >>
  BY <1>2, <1>5, EmptySeq
<1>7. /\ Front(fs) \in Seq(Frames) /\ Len(Front(fs)) = n /\ \A j \in 1 .. n : Front(fs)[j] = fs[j]
  <2>1. /\ Front(fs) \in Seq(Frames) /\ Len(Front(fs)) = Len(fs) - 1
        /\ \A j \in 1 .. Len(fs) - 1 : Front(fs)[j] = fs[j]
    BY ONLY <1>5, <1>6, FrontOf
  <2> QED
    BY ONLY <2>1, <1>3, <1>5
<1>8. PICK x : x = Front(w) /\ Len(x) = l /\ \A j \in 1 .. l : x[j] = w[j]
  <2>1. /\ Front(w) \in Seq(Nat) /\ Len(Front(w)) = Len(w) - 1
        /\ \A j \in 1 .. Len(w) - 1 : Front(w)[j] = w[j]
    BY ONLY <1>1, FrontOf
  <2> QED
    BY ONLY <2>1, <1>2
<1>9. FS(g, x) = [j \in 1 .. n |-> Proj(g[x[j + 1]])] /\ fs = [j \in 1 .. l |-> Proj(g[w[j + 1]])]
  BY ONLY <1>2, <1>3, <1>4, <1>8 DEF FS
<1>10. \A j \in 1 .. n : j \in 1 .. l /\ j + 1 \in 1 .. l
  BY ONLY <1>3, n \in Nat, l \in Nat
<1>11. ASSUME NEW j \in 1 .. n PROVE Front(fs)[j] = Proj(g[x[j + 1]])
  <2>1. j \in 1 .. l /\ j + 1 \in 1 .. l
    BY ONLY <1>10, j \in 1 .. n
  <2>2. Front(fs)[j] = fs[j] /\ x[j + 1] = w[j + 1]
    BY ONLY <1>7, <1>8, <2>1, j \in 1 .. n
  <2>3. fs[j] = Proj(g[w[j + 1]])
    BY ONLY <1>9, <2>1
  <2> QED
    BY ONLY <2>2, <2>3
<1>12. Front(fs) = [j \in 1 .. n |-> Front(fs)[j]]
  <2>1. Front(fs) \in [1 .. Len(Front(fs)) -> Frames]
    BY ONLY <1>7, LenProperties
  <2> QED
    BY ONLY <2>1, <1>7
<1>13. Front(fs) = FS(g, x)
  BY ONLY <1>9, <1>11, <1>12
<1> QED
  BY ONLY <1>4, <1>6, <1>8, <1>13

\* The second part of an if takes the place of the first.
LEMMA FSElse ==
  ASSUME NEW v, NEW w, NEW g, NEW k \in Nat, Settled(v, w, g, k), v.ctl # << >>, Proj(g[k]) = Proj(g[Last(w)])
  PROVE  FS(g, Append(Front(w), k)) = FS(g, w)
<1>1. /\ Len(v.ctl) \in Nat /\ w \in Seq(Nat) /\ Len(w) = Len(v.ctl) + 1 /\ w # << >> /\ Len(v.ctl) # 0
      /\ Last(w) = w[Len(v.ctl) + 1]
  BY ONLY Settled(v, w, g, k), v.ctl # << >>, SettledParts
<1>2. PICK l \in Nat : l = Len(v.ctl) /\ Len(w) = l + 1 /\ Len(w) - 1 = l /\ l # 0
  <2>1. Len(w) - 1 = Len(v.ctl)
    BY ONLY <1>1
  <2> QED
    BY ONLY <1>1, <2>1
<1>3. PICK y : y = Front(w) /\ y \in Seq(Nat) /\ Len(y) = l /\ \A j \in 1 .. l : y[j] = w[j]
  <2>1. /\ Front(w) \in Seq(Nat) /\ Len(Front(w)) = Len(w) - 1
        /\ \A j \in 1 .. Len(w) - 1 : Front(w)[j] = w[j]
    BY ONLY <1>1, FrontOf
  <2> QED
    BY ONLY <2>1, <1>2
<1>4. PICK x : x = Append(y, k) /\ Len(x) = l + 1 /\ x[l + 1] = k /\ \A j \in 1 .. l : x[j] = w[j]
  <2>1. /\ Append(y, k) \in Seq(Nat) /\ Len(Append(y, k)) = Len(y) + 1 /\ Append(y, k)[Len(y) + 1] = k
        /\ \A j \in 1 .. Len(y) : Append(y, k)[j] = y[j]
    BY ONLY <1>3, k \in Nat, AppendProperties
  <2>2. PICK x : x = Append(y, k)
    OBVIOUS
  <2>3. Len(x) = l + 1 /\ x[l + 1] = k /\ \A j \in 1 .. l : x[j] = y[j]
    BY ONLY <2>1, <2>2, <1>3
  <2>4. \A j \in 1 .. l : x[j] = w[j]
    BY ONLY <2>3, <1>3
  <2> QED
    BY ONLY <2>2, <2>3, <2>4
<1>5. FS(g, x) = [j \in 1 .. l |-> Proj(g[x[j + 1]])] /\ FS(g, w) = [j \in 1 .. l |-> Proj(g[w[j + 1]])]
  <2>1. Len(x) - 1 = l
    BY ONLY <1>4, l \in Nat
  <2> QED
    BY ONLY <2>1, <1>2 DEF FS
<1>6. ASSUME NEW j \in 1 .. l PROVE Proj(g[x[j + 1]]) = Proj(g[w[j + 1]])
  <2>1. CASE j = l
    BY ONLY <2>1, <1>1, <1>2, <1>4, Proj(g[k]) = Proj(g[Last(w)])
  <2>2. CASE j # l
    <3>1. j + 1 \in 1 .. l
      BY ONLY <2>2, j \in 1 .. l, l \in Nat
    <3> QED
      BY ONLY <3>1, <1>4
  <2> QED
    BY <2>1, <2>2
<1> QED
  BY ONLY <1>3, <1>4, <1>5, <1>6

-----------------------------------------------------------------------------
(* The validator and the open blocks in front of every instruction.        *)

\* The statements of the first n instructions, except for what an else adds to its if.
Agree(g, h, n) ==
  \A k \in 1 .. n :
    /\ h[k].op = g[k].op /\ h[k].parent = g[k].parent /\ h[k].res = g[k].res
    /\ g[k].op # "If" => h[k].els = g[k].els

\* H[k] is what was in front of instruction k of s, for k up to N.
Trace(H, g, s, f, N) ==
  /\ H[1].v = StartValid /\ H[1].w = <<0>>
  /\ \A k \in 1 .. N : Settled(H[k].v, H[k].w, g, k)
  /\ \A k \in 1 .. Len(s) : Right(H[k].v, H[k].w, g, s[k], f, k)
  /\ \A k \in 1 .. N - 1 : /\ H[k + 1].v = Validated(H[k].v, s[k], f)
                           /\ H[k + 1].w = Moved(H[k].w, s[k], k)

\* What is read later does not matter.
LEMMA SettledKept ==
  ASSUME NEW v, NEW w, NEW g, NEW h, NEW n \in Nat, Agree(g, h, n), NEW k \in 1 .. n + 1, Settled(v, w, g, k)
  PROVE  Settled(v, w, h, k)
<1>1. \A y \in 1 .. k - 1 : y \in 1 .. n
  OBVIOUS
<1>2. Inside(v, w, g, k)
  BY DEF Settled
<1>3. Inside(v, w, h, k)
  BY ONLY <1>1, <1>2, Agree(g, h, n) DEF Inside, Agree
<1> QED
  BY ONLY <1>3, Settled(v, w, g, k) DEF Settled

\* The innermost open block is one of the statements so far.
LEMMA InnerBlock ==
  ASSUME NEW v, NEW w, NEW g, NEW k, Settled(v, w, g, k), v.ctl # << >>
  PROVE  /\ Last(w) \in 1 .. k - 1 /\ g[Last(w)].op = InnerFrame(v).op /\ g[Last(w)].res = InnerFrame(v).res
         /\ InnerFrame(v) = v.ctl[Len(v.ctl)] /\ InnerFrame(v) \in VFrames
<1>1. /\ v.ctl \in Seq(VFrames) /\ Len(v.ctl) \in Nat /\ Last(w) = w[Len(v.ctl) + 1] /\ Len(v.ctl) # 0
      /\ Inside(v, w, g, k)
  BY ONLY Settled(v, w, g, k), v.ctl # << >>, SettledParts
<1>2. Len(v.ctl) \in 1 .. Len(v.ctl)
  BY ONLY <1>1
<1>3. InnerFrame(v) = v.ctl[Len(v.ctl)]
  BY DEF InnerFrame, Last
<1>4. v.ctl[Len(v.ctl)] \in VFrames
  BY ONLY <1>1, <1>2, ElementOfSeq
<1> QED
  BY ONLY <1>1, <1>2, <1>3, <1>4 DEF Inside

\* The statement of an instruction stays what it is.
LEMMA RightKept ==
  ASSUME NEW v, NEW w, NEW g, NEW h, NEW n \in Nat, Agree(g, h, n), NEW k \in 1 .. n, Settled(v, w, g, k),
         NEW i, NEW f, Right(v, w, g, i, f, k)
  PROVE  Right(v, w, h, i, f, k)
<1>1. IsValid(v, i, f) /\ Usual(v, i, f) /\ StmtAt(w, g, i, k)
  BY DEF Right
<1>2. /\ h[k].op = g[k].op /\ h[k].parent = g[k].parent /\ h[k].res = g[k].res
      /\ g[k].op # "If" => h[k].els = g[k].els
  BY DEF Agree
<1>3. CASE i.op = "Else"
  <2>1. v.ctl # << >>
    BY ONLY <1>1, <1>3 DEF IsValid
  <2>2. Last(w) \in 1 .. k - 1
    BY ONLY <2>1, Settled(v, w, g, k), InnerBlock
  <2>3. Last(w) \in 1 .. n
    BY ONLY <2>2, k \in 1 .. n, n \in Nat
  <2>4. h[Last(w)].parent = g[Last(w)].parent /\ h[Last(w)].res = g[Last(w)].res
    BY ONLY <2>3, Agree(g, h, n) DEF Agree
  <2>5. StmtAt(w, h, i, k)
    BY ONLY <2>4, <1>1, <1>2, <1>3 DEF StmtAt, Opens
  <2> QED
    BY ONLY <2>5, <1>1 DEF Right
<1>4. CASE i.op # "Else"
  <2>1. StmtAt(w, h, i, k)
    BY ONLY <1>1, <1>2, <1>4 DEF StmtAt
  <2> QED
    BY ONLY <2>1, <1>1 DEF Right
<1> QED
  BY ONLY <1>3, <1>4

\* A trace is that of any statements that agree.
LEMMA TraceKept ==
  ASSUME NEW H, NEW g, NEW h, NEW s, NEW f, NEW n \in Nat, n = Len(s), Agree(g, h, n), NEW N \in {n, n + 1},
         Trace(H, g, s, f, N)
  PROVE  Trace(H, h, s, f, N)
<1>1. \A k \in 1 .. N : Settled(H[k].v, H[k].w, h, k)
  <2> TAKE k \in 1 .. N
  <2>1. Settled(H[k].v, H[k].w, g, k)
    BY ONLY Trace(H, g, s, f, N), k \in 1 .. N DEF Trace
  <2>2. k \in 1 .. n + 1
    BY ONLY N \in {n, n + 1}, k \in 1 .. N, n \in Nat
  <2> QED
    BY ONLY <2>1, <2>2, n \in Nat, Agree(g, h, n), SettledKept
<1>2. \A k \in 1 .. Len(s) : Right(H[k].v, H[k].w, h, s[k], f, k)
  <2> TAKE k \in 1 .. Len(s)
  <2>1. Right(H[k].v, H[k].w, g, s[k], f, k) /\ \A y \in 1 .. N : Settled(H[y].v, H[y].w, g, y)
    BY ONLY Trace(H, g, s, f, N), k \in 1 .. Len(s) DEF Trace
  <2>2. k \in 1 .. n /\ k \in 1 .. N
    BY ONLY N \in {n, n + 1}, k \in 1 .. Len(s), n = Len(s), n \in Nat
  <2>3. Settled(H[k].v, H[k].w, g, k)
    BY ONLY <2>1, <2>2
  <2> QED
    BY ONLY <2>1, <2>2, <2>3, n \in Nat, Agree(g, h, n), RightKept
<1> QED
  BY ONLY <1>1, <1>2, Trace(H, g, s, f, N) DEF Trace

\* An instruction is read: its statement is added to g.
LEMMA HierarchyIs ==
  ASSUME NEW g, NEW w, NEW i, NEW h, NEW x, Hierarchy(g, w, i, h, x), GraphOK(g), WorkOK(w, g),
         WellFormed(i), i.op = "Else" => Len(w) # 1, NEW n, n = Len(g)
  PROVE  Agree(g, h, n) /\ StmtAt(w, h, i, n + 1) /\ x = Moved(w, i, n + 1)
<1>1. n \in Nat /\ g \in Seq(Stmts)
  BY DEF GraphOK
<1>2. PICK l \in 0 .. n : l = Last(w) /\ (Len(w) # 1 => Unended(g, l)) /\ l \in Nat
  <2>1. Last(w) \in 0 .. n /\ (Len(w) # 1 => Unended(g, Last(w)))
    BY <1>1, WorkLast
  <2>2. \A y \in 0 .. n : y \in Nat
    BY <1>1
  <2> QED
    BY ONLY <2>1, <2>2
<1>3. x = Moved(w, i, n + 1)
  BY ONLY Hierarchy(g, w, i, h, x), n = Len(g) DEF Hierarchy, Moved, Opens
<1>4. CASE i.op # "Else"
  <2>1. PICK s : s \in Stmts /\ s = Stmt(i, l) /\ s.parent = l /\ s.op = i.op /\ s.res = i.ty
    BY <1>2, StmtGood
  <2>2. h = Append(g, s)
    BY <2>1, <1>2, <1>4 DEF Hierarchy, Opens
  <2>3. h[n + 1] = s /\ \A k \in 1 .. n : h[k] = g[k]
    BY <1>1, <2>1, <2>2, AppendProperties
  <2>4. Agree(g, h, n)
    BY ONLY <2>3 DEF Agree
  <2>5. StmtAt(w, h, i, n + 1)
    BY ONLY <2>1, <2>3, <1>2, <1>4 DEF StmtAt
  <2> QED
    BY ONLY <2>4, <2>5, <1>3
<1>5. CASE i.op = "Else"
  <2>1. PICK s : /\ s = [Stmt(i, g[l].parent) EXCEPT !.els = l, !.res = g[l].res]
                 /\ h = Append([g EXCEPT ![l].els = Len(g) + 1], s) /\ g[l].op = "If"
    BY <1>2, <1>5 DEF Hierarchy, Opens
  <2>2. l \in 1 .. n /\ g[l] \in Stmts
    BY <1>1, <1>2, <1>5, StmtFields DEF Unended
  <2>3. s.op = i.op /\ s.els = l /\ s.parent = g[l].parent /\ s.res = g[l].res
    BY ONLY <2>1 DEF Stmt
  <2>4. PICK d : d = [g[l] EXCEPT !.els = n + 1]
    OBVIOUS
  <2>5. d.parent = g[l].parent /\ d.op = g[l].op /\ d.res = g[l].res
    BY <2>2, <2>4 DEF Stmts
  <2>6. PICK e : e = [g EXCEPT ![l].els = Len(g) + 1]
    OBVIOUS
  <2>7. e = [g EXCEPT ![l] = d]
    BY <2>4, <2>6, <1>1
  <2>8. DOMAIN g = 1 .. n
    BY <1>1
  <2>9. e = [k \in 1 .. n |-> IF k = l THEN d ELSE g[k]]
    BY ONLY <2>7, <2>8
  <2>10. IsSeq(e) /\ Len(e) = n
    <3>1. e = [k \in 1 .. n |-> e[k]]
      BY ONLY <2>9
    <3>2. [k \in 1 .. n |-> e[k]] \in Seq({e[k] : k \in 1 .. n}) /\ Len([k \in 1 .. n |-> e[k]]) = n
      BY ONLY <1>1
    <3> QED
      BY ONLY <3>1, <3>2 DEF IsSeq
  <2>11. (\A k \in 1 .. n : h[k] = e[k]) /\ h[n + 1] = s
    <3>1. h = e \o <<s>> /\ IsSeq(<<s>>) /\ Len(<<s>>) = 1 /\ <<s>>[1] = s
      <4>1. <<s>> \in Seq({s})
        OBVIOUS
      <4> QED
        BY <4>1, <2>1, <2>6, <2>10, AppendIs DEF IsSeq
    <3>2. PICK q : q = <<s>>
      OBVIOUS
    <3>3. \A k \in 1 .. Len(e) : (e \o q)[k] = e[k]
      BY ONLY <3>1, <3>2, <2>10, ConcatSeq
    <3>4. \A k \in 1 .. Len(q) : (e \o q)[Len(e) + k] = q[k]
      BY ONLY <3>1, <3>2, <2>10, ConcatSeq
    <3>5. 1 \in 1 .. Len(q)
      BY <3>1, <3>2
    <3> QED
      BY ONLY <3>1, <3>2, <3>3, <3>4, <3>5, <2>10
  <2>12. Agree(g, h, n)
    BY ONLY <2>1, <2>5, <2>9, <2>11 DEF Agree
  <2>13. h[l].parent = g[l].parent /\ h[l].res = g[l].res
    BY ONLY <2>2, <2>12 DEF Agree
  <2>14. StmtAt(w, h, i, n + 1)
    BY ONLY <2>3, <2>11, <2>13, <1>2, <1>5 DEF StmtAt, Opens
  <2> QED
    BY ONLY <2>12, <2>14, <1>3
<1> QED
  BY ONLY <1>4, <1>5

\* The trace behind instruction i, number n + 1.
ReadOn(H, h, r, f, n, i) ==
  /\ Trace(H, h, r, f, n + 1)
  /\ ~(i.op = "End" /\ H[n + 1].v.ctl = << >>) =>
       \E G : /\ Trace(G, h, r, f, n + 2) /\ G[n + 2].v = Validated(H[n + 1].v, i, f)
              /\ G[n + 2].w = Moved(H[n + 1].w, i, n + 1)

\* One more instruction is read.
LEMMA TraceRead ==
  ASSUME NEW H, NEW g, NEW s, IsSeq(s), NEW f, NEW n \in Nat, n = Len(s), Trace(H, g, s, f, n + 1), NEW h, Agree(g, h, n),
         NEW i, WellFormed(i), Right(H[n + 1].v, H[n + 1].w, h, i, f, n + 1), PlainForms,
         NEW r, Len(r) = n + 1, r[n + 1] = i, \A k \in 1 .. n : r[k] = s[k]
  PROVE  ReadOn(H, h, r, f, n, i)
<1>1. Trace(H, h, s, f, n + 1)
  BY n + 1 \in {n, n + 1}, TraceKept
<1>2. \A k \in 1 .. n + 1 : k \in 1 .. n \/ k = n + 1
  OBVIOUS
<1>3. Trace(H, h, r, f, n + 1)
  <2>1. \A k \in 1 .. n : Right(H[k].v, H[k].w, h, s[k], f, k)
    BY ONLY <1>1, n = Len(s) DEF Trace
  <2>2. \A k \in 1 .. n + 1 : Right(H[k].v, H[k].w, h, r[k], f, k)
    BY ONLY <2>1, <1>2, Right(H[n + 1].v, H[n + 1].w, h, i, f, n + 1), r[n + 1] = i,
            \A k \in 1 .. n : r[k] = s[k]
  <2>3. (n + 1) - 1 = n
    OBVIOUS
  <2> QED
    BY ONLY <2>2, <2>3, <1>1, Len(r) = n + 1, \A k \in 1 .. n : r[k] = s[k] DEF Trace
<1>4. ASSUME ~(i.op = "End" /\ H[n + 1].v.ctl = << >>)
      PROVE  \E G : /\ Trace(G, h, r, f, n + 2) /\ G[n + 2].v = Validated(H[n + 1].v, i, f)
                    /\ G[n + 2].w = Moved(H[n + 1].w, i, n + 1)
  <2>1. PICK v, w : v = H[n + 1].v /\ w = H[n + 1].w
    OBVIOUS
  <2>2. PICK u, x : u = Validated(v, i, f) /\ x = Moved(w, i, n + 1)
    OBVIOUS
  <2>3. n + 1 \in 1 .. n + 1 /\ n + 1 \in Nat /\ n + 1 # 0 /\ (n + 1) + 1 = n + 2 /\ n + 2 \in 1 .. n + 2
        /\ n + 2 # n + 1 /\ 1 \in 1 .. n + 1 /\ (n + 2) - 1 = n + 1
    OBVIOUS
  <2>4. Settled(v, w, h, n + 1)
    BY ONLY <2>1, <2>3, <1>1 DEF Trace
  <2>5. Right(v, w, h, i, f, n + 1) /\ ~(i.op = "End" /\ v.ctl = << >>)
    BY <2>1, <1>4
  <2>6. Settled(u, x, h, (n + 1) + 1)
    BY ONLY <2>2, <2>3, <2>4, <2>5, WellFormed(i), PlainForms, SettledNext
  <2>7. PICK G : G = [k \in 1 .. n + 2 |-> IF k = n + 2 THEN [v |-> u, w |-> x] ELSE H[k]]
    OBVIOUS
  <2>8. /\ G[n + 2].v = u /\ G[n + 2].w = x
        /\ \A k \in 1 .. n + 1 : G[k] = H[k]
    <3>1. G[n + 2] = [v |-> u, w |-> x]
      BY ONLY <2>3, <2>7
    <3>2. \A k \in 1 .. n + 1 : k \in 1 .. n + 2 /\ k # n + 2
      OBVIOUS
    <3>3. \A k \in 1 .. n + 1 : G[k] = H[k]
      BY ONLY <2>7, <3>2
    <3> QED
      BY ONLY <3>1, <3>3
  <2>9. \A k \in 1 .. n + 2 : k \in 1 .. n + 1 \/ k = n + 2
    OBVIOUS
  <2>10. \A k \in 1 .. n + 2 : Settled(G[k].v, G[k].w, h, k)
    <3>1. \A k \in 1 .. n + 1 : Settled(H[k].v, H[k].w, h, k)
      BY ONLY <1>1 DEF Trace
    <3> QED
      BY ONLY <3>1, <2>3, <2>6, <2>8, <2>9
  <2>11. \A k \in 1 .. Len(r) : Right(G[k].v, G[k].w, h, r[k], f, k)
    BY ONLY <1>3, <2>8, Len(r) = n + 1 DEF Trace
  <2>12. \A k \in 1 .. (n + 2) - 1 : /\ G[k + 1].v = Validated(G[k].v, r[k], f)
                                     /\ G[k + 1].w = Moved(G[k].w, r[k], k)
    <3>1. (n + 1) - 1 = n
      OBVIOUS
    <3>2. \A k \in 1 .. n : H[k + 1].v = Validated(H[k].v, r[k], f) /\ H[k + 1].w = Moved(H[k].w, r[k], k)
      BY ONLY <3>1, <1>3 DEF Trace
    <3>3. \A k \in 1 .. n : k \in 1 .. n + 1 /\ k + 1 \in 1 .. n + 1
      OBVIOUS
    <3>4. \A k \in 1 .. n : G[k + 1].v = Validated(G[k].v, r[k], f) /\ G[k + 1].w = Moved(G[k].w, r[k], k)
      BY ONLY <3>2, <3>3, <2>8
    <3>5. /\ G[(n + 1) + 1].v = Validated(G[n + 1].v, r[n + 1], f)
          /\ G[(n + 1) + 1].w = Moved(G[n + 1].w, r[n + 1], n + 1)
      BY ONLY <2>1, <2>2, <2>3, <2>8, r[n + 1] = i
    <3> QED
      BY ONLY <3>4, <3>5, <1>2, <2>3
  <2>13. G[1].v = StartValid /\ G[1].w = <<0>>
    BY ONLY <1>1, <2>3, <2>8 DEF Trace
  <2>14. Trace(G, h, r, f, n + 2)
    BY ONLY <2>10, <2>11, <2>12, <2>13 DEF Trace
  <2> QED
    BY ONLY <2>1, <2>2, <2>8, <2>14
<1> QED
  BY ONLY <1>3, <1>4 DEF ReadOn

\* A function of which nothing has been read.
LEMMA TraceStart ==
  ASSUME NEW g, NEW f
  PROVE  \E H : Trace(H, g, << >>, f, 1) /\ H[1].v = StartValid /\ H[1].w = <<0>>
<1>1. PICK H : H = [k \in 1 .. 1 |-> [v |-> StartValid, w |-> <<0>>]]
  OBVIOUS
<1>2. H[1].v = StartValid /\ H[1].w = <<0>>
  BY ONLY <1>1
<1>3. Len(<< >>) = 0 /\ 1 .. 0 = {} /\ (\A k \in 1 .. 1 : k = 1) /\ 1 .. 1 - 1 = {}
  OBVIOUS
<1>4. Settled(StartValid, <<0>>, g, 1)
  <2>1. /\ StartValid.stk = << >> /\ StartValid.ctl = << >>
    BY DEF StartValid
  <2>2. Bases(<< >>) = << >>
    BY DEF Bases
  <2>3. Rising(<< >>, 0) /\ << >> \in Seq(VElems) /\ << >> \in Seq(VFrames)
    BY <1>3 DEF Rising
  <2>4. VTyped(StartValid)
    BY ONLY <2>1, <2>2, <2>3, <1>3 DEF VTyped
  <2>5. <<0>> \in Seq(Nat) /\ Len(<<0>>) = 0 + 1 /\ <<0>>[1] = 0
    OBVIOUS
  <2>6. Inside(StartValid, <<0>>, g, 1)
    BY ONLY <2>1, <1>3 DEF Inside
  <2> QED
    BY ONLY <2>1, <2>4, <2>5, <2>6, <1>3 DEF Settled, StartValid
<1>5. Trace(H, g, << >>, f, 1)
  BY ONLY <1>2, <1>3, <1>4 DEF Trace
<1> QED
  BY ONLY <1>2, <1>5

-----------------------------------------------------------------------------
(* The invariant.                                                          *)

\* Without the mark that what follows is not reached.
Unmarked(a) == IF IsUnreachable(a) THEN [a EXCEPT !.stk = Front(@)] ELSE a

\* An if and its else found the same stack.
Twins(g, t) ==
  \A k \in 1 .. t - 1 : g[k].op = "If" /\ g[k].els # 0 => g[g[k].els].size = g[k].size

\* What was read is valid, and valid and work belong to it.
Reads(g, s, f, v, w) ==
  \E H : Trace(H, g, s, f, Len(s) + 1) /\ H[Len(s) + 1].v = v /\ H[Len(s) + 1].w = w

\* The converter's stack fits to the validator in front of instruction t.
Follows(g, s, f, t, x) ==
  \E H : Trace(H, g, s, f, Len(s)) /\ Fit(H[t].v, FS(g, H[t].w), Unmarked(x), t - 1)

\* Behind unreachable the stack is marked.
MarkInv == phase = "convert" /\ at # 1 /\ ins[at - 1].op = "Unreachable" => IsUnreachable(al)

FollowInv ==
  /\ phase # "abort"
  /\ phase = "read" => Reads(graph, ins, fres, valid, work)
  /\ phase = "convert" => Follows(graph, ins, fres, at, al) /\ Twins(graph, at)

\* No assertion failed so far, and why none will.
AbortInv == FollowInv /\ MarkInv

\* The registers of a file suffice for functions of the lengths considered.
EnoughRegisters == \A A \in Alphabets : Room(A.len)

\* Init establishes it.
LEMMA InitAbort == Init => AbortInv
<1> SUFFICES ASSUME Init PROVE AbortInv
  OBVIOUS
<1>1. ins = << >> /\ work = <<0>> /\ phase = "read" /\ valid = StartValid
  BY DEF Init
<1>2. PICK g, f : g = graph /\ f = fres
  OBVIOUS
<1>3. PICK H : Trace(H, g, << >>, f, 1) /\ H[1].v = StartValid /\ H[1].w = <<0>>
  BY ONLY TraceStart
<1>4. Len(<< >>) + 1 = 1
  OBVIOUS
<1>5. Reads(g, << >>, f, StartValid, <<0>>)
  BY ONLY <1>3, <1>4 DEF Reads
<1> QED
  BY ONLY <1>1, <1>2, <1>5 DEF AbortInv, FollowInv, MarkInv

\* The stack of a function that begins.
LEMMA FitStart ==
  ASSUME NEW g
  PROVE  Fit(StartValid, FS(g, <<0>>), Unmarked(Create_ubh_code), 0)
<1>1. PICK a : a = Create_ubh_code
  OBVIOUS
<1>2. /\ a.stk = << >> /\ a.ok = TRUE /\ IsAl(a) /\ a.next = [ty \in Types |-> Base(ty)]
  BY ONLY <1>1 DEF Create_ubh_code, IsAl, Base
<1>3. Unmarked(a) = a
  BY ONLY <1>2 DEF Unmarked, IsUnreachable
<1>4. Len(<<0>>) - 1 = 0 /\ 1 .. 0 = {} /\ Len(<< >>) = 0
  OBVIOUS
<1>5. FS(g, <<0>>) = << >>
  <2>1. FS(g, <<0>>) = [j \in {} |-> Proj(g[<<0>>[j + 1]])]
    BY ONLY <1>4 DEF FS
  <2>2. FS(g, <<0>>) \in [1 .. 0 -> {}]
    BY ONLY <2>1, <1>4
  <2>3. FS(g, <<0>>) \in Seq({}) /\ Len(FS(g, <<0>>)) = 0
    BY ONLY <2>2
  <2> QED
    BY ONLY <2>3, EmptySeq
<1>6. TypesOf(StartValid.stk) = << >> /\ Bases(StartValid.ctl) = << >>
  BY DEF TypesOf, Bases, StartValid
<1>7. \A ty \in Types : Base(ty) \in Nat /\ a.next[ty] = Base(ty)
  BY <1>2, BaseNat
<1>8. Lifo(a, << >>, 0)
  <2>1. a.next \in [Types -> Nat] /\ a.stk \in Seq(Regs) /\ << >> \in Seq(Frames)
    <3>1. a.next \in [Types -> Nat]
      BY ONLY <1>2, <1>7
    <3> QED
      BY <3>1, <1>2
  <2>2. LifoTyped(a, << >>)
    BY ONLY <2>1, <1>2 DEF LifoTyped
  <2>3. AtMost(a, 0)
    BY <1>7 DEF AtMost
  <2>4. NoGap(a, << >>)
    BY <1>7 DEF NoGap, InUse
  <2>5. Ascend(a) /\ Around(a, << >>) /\ FramesAscend(<< >>) /\ Used(a, << >>) /\ Nested(<< >>)
    BY ONLY <1>2, <1>4 DEF Ascend, Around, FramesAscend, Used, Nested
  <2>6. OwnElems(a, << >>, 0)
    BY <1>2, <1>4 DEF OwnElems
  <2> QED
    BY ONLY <2>2, <2>3, <2>4, <2>5, <2>6 DEF Lifo
<1>9. Fitted(<< >>, << >>, << >>, << >>)
  <2>1. Seg(<< >>, << >>, 0, 0, 0, 0)
    BY DEF Seg
  <2>2. Lo(<< >>, 0) = 0 /\ VLo(<< >>, 0) = 0
    BY DEF Lo, VLo
  <2> QED
    BY ONLY <2>1, <2>2, <1>4 DEF Fitted, Levels
<1> QED
  BY ONLY <1>1, <1>2, <1>3, <1>5, <1>6, <1>8, <1>9 DEF Fit

-----------------------------------------------------------------------------
(* The steps.                                                              *)

\* An instruction is read.
LEMMA ReadAbort ==
  ASSUME PlainForms, ConvInv, AbortInv, NEW i \in alphabet.insts, Build_block_hierarchy(i)
  PROVE  FollowInv'
<1>1. /\ phase = "read" /\ ins' = Append(ins, i) /\ UNCHANGED <<alphabet, fres, at, al>>
      /\ phase' \in {"convert", "read"}
      /\ phase' = "convert" <=> (i.op = "End" /\ valid.ctl = << >>)
      /\ phase' = "read" => valid' = Validated(valid, i, fres)
      /\ IsValid(valid, i, fres) /\ Usual(valid, i, fres)
  BY DEF Build_block_hierarchy
<1>2. /\ alphabet \in Alphabets /\ ins \in Seq(alphabet.insts)
      /\ Len(graph) = Len(ins) /\ GraphOK(graph)
      /\ WorkOK(work, graph) /\ IsSeq(valid.ctl) /\ Len(work) = Len(valid.ctl) + 1
      /\ at = 1 /\ al = Create_ubh_code
  BY <1>1 DEF ConvInv, InputInv, GraphInv, WorkInv
<1>3. Reads(graph, ins, fres, valid, work)
  BY <1>1 DEF AbortInv, FollowInv
<1>4. PICK g, w, v, s, f : g = graph /\ w = work /\ v = valid /\ s = ins /\ f = fres
  OBVIOUS
<1>5. PICK h, x, u, r : h = graph' /\ x = work' /\ u = valid' /\ r = ins'
  OBVIOUS
<1>6. PICK n \in Nat : n = Len(s) /\ n = Len(g) /\ IsSeq(s)
  BY <1>2, <1>4 DEF IsSeq
<1>7. Len(r) = n + 1 /\ r[n + 1] = i /\ \A k \in 1 .. n : r[k] = s[k]
  BY <1>1, <1>2, <1>4, <1>5, <1>6, AppendProperties
<1>8. WellFormed(i)
  BY <1>2, ConverterAssumption
<1>9. i.op = "Else" => Len(w) # 1
  <2>1. i.op = "Else" => v.ctl # << >>
    BY <1>1, <1>4 DEF IsValid
  <2>2. PICK S : v.ctl \in Seq(S)
    BY <1>2, <1>4 DEF IsSeq
  <2>3. v.ctl # << >> => Len(v.ctl) \in Nat \ {0}
    BY <2>2, EmptySeq
  <2>4. Len(w) = Len(v.ctl) + 1
    BY ONLY <1>2, <1>4
  <2> QED
    BY ONLY <2>1, <2>3, <2>4
<1>10. Hierarchy(g, w, i, h, x)
  <2> SUFFICES Hierarchy(graph, work, i, graph', work')
    BY <1>4, <1>5
  <2>1. Len(ins) + 1 = Len(graph) + 1
    BY <1>2
  <2>2. CASE Opens(i)
    <3>1. Create_new_block(i)
      BY <2>2 DEF Build_block_hierarchy, Opens
    <3> QED
      BY <3>1, <2>1, <2>2 DEF Hierarchy, Create_new_block, Opens
  <2>3. CASE i.op = "Else"
    <3>1. Else_block(i) /\ ~Opens(i)
      BY <2>3 DEF Build_block_hierarchy, Opens
    <3> QED
      BY <3>1, <2>1, <2>3 DEF Hierarchy, Else_block
  <2>4. CASE i.op # "Else" /\ ~Opens(i)
    BY <2>4 DEF Build_block_hierarchy, Hierarchy
  <2> QED
    BY <2>2, <2>3, <2>4
<1>11. GraphOK(g) /\ WorkOK(w, g)
  BY <1>2, <1>4
<1>12. Agree(g, h, n) /\ StmtAt(w, h, i, n + 1) /\ x = Moved(w, i, n + 1)
  BY ONLY <1>6, <1>8, <1>9, <1>10, <1>11, HierarchyIs
<1>13. PICK H : Trace(H, g, s, f, n + 1) /\ H[n + 1].v = v /\ H[n + 1].w = w
  BY ONLY <1>3, <1>4, <1>6 DEF Reads
<1>14. Right(H[n + 1].v, H[n + 1].w, h, i, f, n + 1)
  <2>1. IsValid(v, i, f) /\ Usual(v, i, f)
    BY ONLY <1>1, <1>4
  <2> QED
    BY ONLY <2>1, <1>12, <1>13 DEF Right
<1>15. /\ Trace(H, h, r, f, n + 1)
       /\ ~(i.op = "End" /\ H[n + 1].v.ctl = << >>) =>
            \E G : /\ Trace(G, h, r, f, n + 2) /\ G[n + 2].v = Validated(H[n + 1].v, i, f)
                   /\ G[n + 2].w = Moved(H[n + 1].w, i, n + 1)
  <2>1. ReadOn(H, h, r, f, n, i)
    BY ONLY <1>6, <1>7, <1>8, <1>12, <1>13, <1>14, PlainForms, TraceRead
  <2> QED
    BY ONLY <2>1 DEF ReadOn
<1>16. f = fres'
  BY <1>1, <1>4
<1>17. CASE i.op = "End" /\ valid.ctl = << >>
  <2>1. phase' = "convert" /\ at' = 1 /\ al' = Create_ubh_code
    BY <1>1, <1>2, <1>17
  <2>2. H[1].v = StartValid /\ H[1].w = <<0>>
    BY ONLY <1>15 DEF Trace
  <2>3. Fit(H[1].v, FS(h, H[1].w), Unmarked(Create_ubh_code), 1 - 1)
    <3>1. 1 - 1 = 0
      OBVIOUS
    <3> QED
      BY ONLY <3>1, <2>2, FitStart
  <2>4. Follows(h, r, f, 1, Create_ubh_code)
    BY ONLY <2>3, <1>7, <1>15 DEF Follows
  <2>5. Twins(h, 1)
    BY DEF Twins
  <2> QED
    BY <2>1, <2>4, <2>5, <1>5, <1>16 DEF AbortInv, FollowInv
<1>18. CASE ~(i.op = "End" /\ valid.ctl = << >>)
  <2>1. phase' = "read" /\ u = Validated(v, i, f)
    BY <1>1, <1>4, <1>5, <1>18
  <2>2. ~(i.op = "End" /\ H[n + 1].v.ctl = << >>)
    BY <1>4, <1>13, <1>18
  <2>3. PICK G : /\ Trace(G, h, r, f, n + 2) /\ G[n + 2].v = Validated(H[n + 1].v, i, f)
                 /\ G[n + 2].w = Moved(H[n + 1].w, i, n + 1)
    BY ONLY <2>2, <1>15
  <2>4. Len(r) + 1 = n + 2
    BY ONLY <1>7, n \in Nat
  <2>5. Reads(h, r, f, u, x)
    BY ONLY <2>1, <2>3, <2>4, <1>12, <1>13 DEF Reads
  <2> QED
    BY <2>1, <2>5, <1>5, <1>16 DEF AbortInv, FollowInv
<1> QED
  BY <1>17, <1>18

\* What a turn of the loop starts with, at instruction i.
Situation(v, w, g, i, f, t, x) ==
  /\ Settled(v, w, g, t) /\ Right(v, w, g, i, f, t)
  /\ Fit(v, FS(g, w), Unmarked(x), t - 1) /\ Twins(g, t) /\ SameReg(g, t)
  /\ t \in Nat \ {0} /\ t \in 1 .. Len(g) /\ GraphOK(g)
  /\ WellFormed(i) /\ f \in Types \cup {Void} /\ Room(t) /\ PlainForms
  /\ i.op # "End" => ~IsUnreachable(x)
  /\ v.trap => IsUnreachable(x)

\* What it has to leave; behind the end of the function nothing follows.
Continues(v, w, g, i, f, t, h, a) ==
  /\ a.ok = TRUE /\ Agree(g, h, Len(g)) /\ Twins(h, t + 1)
  /\ \/ i.op = "End" /\ v.ctl = << >>
     \/ Fit(Validated(v, i, f), FS(h, Moved(w, i, t)), Unmarked(a), t)

\* What the invariant says in front of an instruction.
LEMMA SitExists ==
  ASSUME PlainForms, EnoughRegisters, ConvInv, CodeInv, AbortInv, phase = "convert",
         NEW g, NEW s, NEW f, NEW t, NEW x, NEW i, g = graph, s = ins, f = fres, t = at, x = al, i = Cur
  PROVE  \E H : Trace(H, g, s, f, Len(s)) /\ Situation(H[t].v, H[t].w, g, i, f, t, x)
<1>1. g = graph /\ s = ins /\ f = fres /\ t = at /\ x = al /\ i = Cur
  OBVIOUS
<1>2. /\ GraphOK(g) /\ t \in 1 .. Len(g) /\ t \in Nat /\ g[t].op = i.op /\ SameReg(g, t)
      /\ WellFormed(i) /\ Len(s) = Len(g) /\ f \in Types \cup {Void}
  BY <1>1, TurnStart
<1>3. Follows(g, s, f, t, x) /\ Twins(g, t)
  BY <1>1 DEF AbortInv, FollowInv
<1>4. PICK n \in Nat : n = Len(s) /\ n = Len(g) /\ t \in 1 .. n
  BY ONLY <1>2 DEF GraphOK
<1>5. PICK H : Trace(H, g, s, f, n) /\ Fit(H[t].v, FS(g, H[t].w), Unmarked(x), t - 1)
  BY ONLY <1>3, <1>4 DEF Follows
<1>6. PICK v, w : v = H[t].v /\ w = H[t].w
  OBVIOUS
<1>7. i = s[t]
  BY <1>1 DEF Cur
<1>8. Settled(v, w, g, t) /\ Right(v, w, g, i, f, t)
  BY ONLY <1>4, <1>5, <1>6, <1>7 DEF Trace
<1>9. Room(t)
  <2>1. PICK m : m = alphabet.len
    OBVIOUS
  <2>2. alphabet \in Alphabets /\ Len(ins) <= alphabet.len
    BY DEF ConvInv, InputInv, CodeInv, SizeInv
  <2>3. Room(m) /\ m \in Nat
    BY <2>1, <2>2, ConverterAssumption DEF EnoughRegisters
  <2>4. n <= m
    BY ONLY <1>1, <1>4, <2>1, <2>2
  <2>5. t \in Nat /\ t <= m
    BY ONLY <1>4, <2>3, <2>4
  <2>6. \A ty \in Types : Base(ty) \in Nat
    BY BaseNat
  <2>7. REG_FREE_MAX \in Nat /\ REG_TEMP_MAX \in Nat
    BY ConverterAssumption
  <2> QED
    BY ONLY <2>3, <2>5, <2>6, <2>7 DEF Room
<1>10. i.op # "End" => ~IsUnreachable(x)
  <2>1. i.op # "End" => Clean(x)
    BY <1>1, StartClean DEF PlainForms, NoTrapJoins
  <2>2. IsSeq(x.stk)
    BY <1>1 DEF ConvInv, AllocInv, AlGood
  <2>3. Clean(x) => ~IsUnreachable(x)
    <3> SUFFICES ASSUME Clean(x), x.stk # << >>, Last(x.stk).kind = "UNREACHABLE" PROVE FALSE
      BY DEF IsUnreachable
    <3>1. PICK S : x.stk \in Seq(S)
      BY <2>2 DEF IsSeq
    <3>2. Len(x.stk) \in Nat \ {0}
      BY <3>1, EmptySeq
    <3>3. Len(x.stk) \in 1 .. Len(x.stk)
      BY ONLY <3>2
    <3> QED
      BY <3>3 DEF Clean, Last
  <2> QED
    BY ONLY <2>1, <2>3
<1>12. v.trap => IsUnreachable(x)
  <2> SUFFICES ASSUME v.trap PROVE IsUnreachable(x)
    OBVIOUS
  <2>1. t # 1
    BY ONLY <1>5, <1>6, v.trap DEF Trace, StartValid
  <2>2. PICK k : k = t - 1 /\ k \in 1 .. n - 1 /\ k \in 1 .. n /\ k + 1 = t
    <3>1. t - 1 \in 1 .. n - 1 /\ t - 1 \in 1 .. n /\ (t - 1) + 1 = t
      BY ONLY <2>1, <1>4
    <3> QED
      BY ONLY <3>1
  <2>3. PICK u, j : u = H[k].v /\ j = s[k]
    OBVIOUS
  <2>4. /\ v = Validated(u, j, f) /\ (u.trap => u.dead)
        /\ Usual(u, j, f)
    BY ONLY <2>2, <2>3, <1>4, <1>5, <1>6 DEF Trace, Settled, Right
  <2>5. j.op = "LocalTee" => ~u.trap
    BY ONLY <2>4 DEF Usual, ReachedOnly
  <2>6. j.op = "Unreachable"
    BY ONLY <2>4, <2>5, v.trap DEF Validated
  <2> QED
    BY <2>1, <2>2, <2>3, <2>6, <1>1 DEF AbortInv, MarkInv
<1>11. Situation(v, w, g, i, f, t, x)
  <2>1. t \in Nat \ {0}
    BY ONLY <1>4
  <2>2. Fit(v, FS(g, w), Unmarked(x), t - 1)
    BY ONLY <1>5, <1>6
  <2> QED
    BY ONLY <2>1, <2>2, <1>2, <1>3, <1>8, <1>9, <1>10, <1>12, PlainForms DEF Situation
<1> QED
  BY ONLY <1>4, <1>5, <1>6, <1>11

\* A turn of the loop.
LEMMA TurnAbort ==
  ASSUME PlainForms, EnoughRegisters, ConvInv, CodeInv, AbortInv, phase = "convert",
         NEW a, NEW c, Turn(a, c), NEW h, h = graph',
         \A v, w : Situation(v, w, graph, Cur, fres, at, al) => Continues(v, w, graph, Cur, fres, at, h, a)
  PROVE  FollowInv'
<1>1. PICK g, s, f, t, x, i : g = graph /\ s = ins /\ f = fres /\ t = at /\ x = al /\ i = Cur
  OBVIOUS
<1>2. GraphOK(g) /\ t \in 1 .. Len(g) /\ Len(s) = Len(g)
  BY <1>1, TurnStart
<1>4. PICK n \in Nat : n = Len(s) /\ n = Len(g) /\ t \in 1 .. n
  BY ONLY <1>2 DEF GraphOK
<1>5. PICK H : Trace(H, g, s, f, n) /\ Situation(H[t].v, H[t].w, g, i, f, t, x)
  BY ONLY <1>1, <1>4, PlainForms, EnoughRegisters, ConvInv, CodeInv, AbortInv, phase = "convert", SitExists
<1>6. PICK v, w : v = H[t].v /\ w = H[t].w
  OBVIOUS
<1>7. i = s[t]
  BY <1>1 DEF Cur
<1>8. Settled(v, w, g, t) /\ Right(v, w, g, i, f, t)
  BY ONLY <1>5, <1>6 DEF Situation
<1>11. Situation(v, w, g, i, f, t, x)
  BY ONLY <1>5, <1>6
<1>12. Continues(v, w, g, i, f, t, h, a)
  BY <1>1, <1>11
<1>13. /\ a.ok = TRUE /\ Agree(g, h, n) /\ Twins(h, t + 1)
       /\ (i.op = "End" /\ v.ctl = << >>) \/ Fit(Validated(v, i, f), FS(h, Moved(w, i, t)), Unmarked(a), t)
  BY ONLY <1>12, <1>4 DEF Continues
<1>14. /\ al' = a /\ at' = t + 1 /\ ins' = s /\ fres' = f
       /\ phase' = IF t = n THEN "fixup" ELSE "convert"
  BY <1>1, <1>4, <1>13 DEF Turn, input
<1>15. CASE t = n
  BY <1>14, <1>15 DEF AbortInv, FollowInv
<1>16. CASE t # n
  <2>1. t \in 1 .. n - 1 /\ (t + 1) - 1 = t
    BY ONLY <1>4, <1>16
  <2>2. ~(i.op = "End" /\ v.ctl = << >>)
    <3> SUFFICES ASSUME i.op = "End", v.ctl = << >> PROVE FALSE
      OBVIOUS
    <3>1. Last(w) = w[Len(v.ctl) + 1] /\ w[1] = 0 /\ Len(v.ctl) = 0
      BY ONLY <1>8, v.ctl = << >>, SettledParts
    <3>2. Last(w) = 0
      <4>1. Len(v.ctl) + 1 = 1
        BY ONLY <3>1
      <4> QED
        BY ONLY <3>1, <4>1
    <3>3. g[t].parent = 0
      BY ONLY <3>2, <1>8, i.op = "End" DEF Right, StmtAt
    <3>4. \A k \in 1 .. Len(ins) : ins[k].op = "End" /\ graph[k].parent = 0 => k = Len(ins)
      BY DEF CodeInv, EndInv
    <3>5. s[t].op = "End"
      BY ONLY <1>7, i.op = "End"
    <3> QED
      BY ONLY <3>3, <3>4, <3>5, <1>1, <1>4, <1>16
  <2>3. Trace(H, h, s, f, n)
    BY ONLY <1>4, <1>5, <1>13, TraceKept
  <2>4. H[t + 1].v = Validated(v, i, f) /\ H[t + 1].w = Moved(w, i, t)
    BY ONLY <2>1, <1>5, <1>6, <1>7 DEF Trace
  <2>5. Fit(H[t + 1].v, FS(h, H[t + 1].w), Unmarked(a), (t + 1) - 1)
    BY ONLY <2>1, <2>2, <2>4, <1>13
  <2>6. Follows(h, s, f, t + 1, a)
    BY ONLY <2>3, <2>5, <1>4 DEF Follows
  <2> QED
    BY <2>6, <1>13, <1>14, <1>16 DEF AbortInv, FollowInv
<1> QED
  BY <1>15, <1>16

-----------------------------------------------------------------------------
(* Instructions inside of a block.                                         *)

\* A stack without a mark.
LEMMA LifoUnmarked ==
  ASSUME NEW a, NEW fs, NEW m, Lifo(a, fs, m)
  PROVE  Unmarked(a) = a /\ a.ok = TRUE /\ ~IsUnreachable(a)
<1>1. a.ok = TRUE /\ a.stk \in Seq(Regs)
  BY DEF Lifo, LifoTyped
<1>2. ~IsUnreachable(a)
  <2> SUFFICES ASSUME a.stk # << >>, Last(a.stk).kind = "UNREACHABLE" PROVE FALSE
    BY DEF IsUnreachable
  <2>1. Len(a.stk) \in Nat \ {0}
    BY <1>1, EmptySeq
  <2>2. Len(a.stk) \in 1 .. Len(a.stk)
    BY ONLY <2>1
  <2>3. a.stk[Len(a.stk)].kind \in {"TEMP", "LOCAL"}
    BY ONLY <2>2, <1>1, RegFields
  <2> QED
    BY <2>3 DEF Last
<1> QED
  BY ONLY <1>1, <1>2 DEF Unmarked

\* Statements agree with themselves.
LEMMA AgreeSelf ==
  ASSUME NEW g, NEW n
  PROVE  Agree(g, g, n)
BY DEF Agree

\* An instruction that does not begin an if.
LEMMA TwinsNext ==
  ASSUME NEW g, NEW t \in Nat, Twins(g, t), g[t].op # "If"
  PROVE  Twins(g, t + 1)
<1>1. \A k \in 1 .. (t + 1) - 1 : k \in 1 .. t - 1 \/ k = t
  OBVIOUS
<1> QED
  BY ONLY <1>1, Twins(g, t), g[t].op # "If" DEF Twins

\* The allocator in front of an instruction, with m registers in use at most.
Ready(v, w, g, i, t, y, fs, m) ==
  /\ VTyped(v) /\ FrameList(v, w, g, fs) /\ Fit(v, fs, y, m) /\ Lifo(y, fs, m)
  /\ m \in Nat /\ t = m + 1 /\ Room(m) /\ Room(m + 1)
  /\ g \in Seq(Stmts) /\ t \in Nat /\ t \in 1 .. Len(g) + 1 /\ StmtOK(g, t) /\ g[t].op = i.op

\* What the situation at an instruction consists of.
LEMMA SitReady ==
  ASSUME NEW v, NEW w, NEW g, NEW i, NEW f, NEW t, NEW x, Situation(v, w, g, i, f, t, x),
         NEW y, y = Unmarked(x), NEW fs, fs = FS(g, w)
  PROVE  \E m : Ready(v, w, g, i, t, y, fs, m)
<1>1. /\ Settled(v, w, g, t) /\ Right(v, w, g, i, f, t) /\ Fit(v, fs, y, t - 1)
      /\ t \in Nat \ {0} /\ t \in 1 .. Len(g) /\ GraphOK(g) /\ Room(t)
  BY DEF Situation
<1>2. PICK m \in Nat : m = t - 1 /\ t = m + 1
  <2>1. t - 1 \in Nat /\ t = (t - 1) + 1
    BY ONLY <1>1
  <2> QED
    BY ONLY <2>1
<1>3. VTyped(v)
  BY ONLY <1>1 DEF Settled
<1>4. g \in Seq(Stmts) /\ StmtOK(g, t)
  BY ONLY <1>1 DEF GraphOK
<1>5. t \in Nat /\ t \in 1 .. Len(g) + 1
  <2>1. Len(g) \in Nat
    BY ONLY <1>4, LenProperties
  <2> QED
    BY ONLY <2>1, <1>1
<1>6. FrameList(v, w, g, fs)
  BY ONLY <1>1, <1>4, <1>5, fs = FS(g, w), FSAre
<1>7. Fit(v, fs, y, m) /\ Lifo(y, fs, m)
  BY ONLY <1>1, <1>2 DEF Fit
<1>8. Room(m) /\ Room(m + 1)
  <2>1. \A ty \in Types : Base(ty) \in Nat
    BY BaseNat
  <2>2. REG_FREE_MAX \in Nat /\ REG_TEMP_MAX \in Nat
    BY ConverterAssumption
  <2>3. Room(m + 1)
    BY ONLY <1>1, <1>2
  <2>4. Room(m)
    BY ONLY <2>1, <2>2, <2>3, m \in Nat DEF Room
  <2> QED
    BY ONLY <2>3, <2>4
<1>9. g[t].op = i.op
  BY ONLY <1>1 DEF Right, StmtAt
<1> QED
  BY ONLY <1>2, <1>3, <1>4, <1>5, <1>6, <1>7, <1>8, <1>9, m \in Nat DEF Ready

\* The operands of an instruction are on the converter's stack.
LEMMA OperandsOnTop ==
  ASSUME NEW v, NEW w, NEW g, NEW i, NEW f, NEW t, NEW x, Situation(v, w, g, i, f, t, x),
         i.op \notin {"End", "Else"}, NEW fs, fs = FS(g, w)
  PROVE  /\ OnTop(x, fs, Consumed(i, f)) /\ IsSeq(Consumed(i, f)) /\ Unmarked(x) = x
         /\ Above(TypesOf(v.stk), Bases(v.ctl), Consumed(i, f))
<1>1. /\ Right(v, w, g, i, f, t) /\ WellFormed(i) /\ ~IsUnreachable(x)
  BY DEF Situation
<1>2. PICK y : y = Unmarked(x) /\ y = x
  BY ONLY <1>1 DEF Unmarked
<1>3. PICK m : Ready(v, w, g, i, t, y, fs, m)
  BY ONLY <1>2, Situation(v, w, g, i, f, t, x), fs = FS(g, w), SitReady
<1>4. VTyped(v) /\ Fit(v, fs, y, m)
  BY ONLY <1>3 DEF Ready
<1>5. IsValid(v, i, f)
  BY ONLY <1>1 DEF Right
<1>6. PICK ts, bs : ts = TypesOf(v.stk) /\ bs = Bases(v.ctl)
  OBVIOUS
<1>7. Above(ts, bs, Consumed(i, f)) /\ IsSeq(Consumed(i, f))
  BY ONLY <1>1, <1>4, <1>5, <1>6, i.op \notin {"End", "Else"}, ConsumedAbove
<1>8. OnTop(y, fs, Consumed(i, f))
  BY ONLY <1>4, <1>6, <1>7, AboveOnTop
<1> QED
  BY ONLY <1>2, <1>6, <1>7, <1>8

\* An instruction inside of a block leaves what is needed.
LEMMA PlainTurn ==
  ASSUME NEW v, NEW w, NEW g, NEW i, NEW f, NEW t, NEW x, Situation(v, w, g, i, f, t, x), Plain(i),
         NEW fs, fs = FS(g, w), NEW a, Lifo(a, fs, t),
         Changed(x.stk, Len(Consumed(i, f)), Pushes(i), a.stk)
  PROVE  Continues(v, w, g, i, f, t, g, a)
<1>1. i.op \notin {"End", "Else"} /\ i.op # "If"
  BY DEF Plain, Opens
<1>2. /\ Right(v, w, g, i, f, t) /\ WellFormed(i) /\ Twins(g, t) /\ t \in Nat
  BY DEF Situation
<1>3. /\ Unmarked(x) = x /\ Above(TypesOf(v.stk), Bases(v.ctl), Consumed(i, f))
  BY ONLY <1>1, Situation(v, w, g, i, f, t, x), fs = FS(g, w), OperandsOnTop
<1>4. PICK m : Ready(v, w, g, i, t, x, fs, m)
  BY ONLY <1>3, Situation(v, w, g, i, f, t, x), fs = FS(g, w), SitReady
<1>5. VTyped(v) /\ Fit(v, fs, x, m) /\ g[t].op = i.op
  BY ONLY <1>4 DEF Ready
<1>6. PICK u : u = Validated(v, i, f)
  OBVIOUS
<1>7. PlainNext(v, i, f, u)
  <2>1. IsValid(v, i, f)
    BY ONLY <1>2 DEF Right
  <2> QED
    BY ONLY <2>1, <1>2, <1>5, <1>6, Plain(i), PlainValid
<1>8. Fit(u, fs, a, t)
  BY ONLY <1>2, <1>3, <1>5, <1>7, Lifo(a, fs, t), Changed(x.stk, Len(Consumed(i, f)), Pushes(i), a.stk),
          StepPlain
<1>9. Moved(w, i, t) = w
  BY DEF Moved, Plain
<1>10. Unmarked(a) = a /\ a.ok = TRUE
  BY ONLY Lifo(a, fs, t), LifoUnmarked
<1>11. Twins(g, t + 1)
  BY ONLY <1>1, <1>2, <1>5, TwinsNext
<1>12. Agree(g, g, Len(g))
  BY ONLY AgreeSelf
<1> QED
  BY ONLY <1>6, <1>8, <1>9, <1>10, <1>11, <1>12, fs = FS(g, w) DEF Continues

\* Without its operands the stack gets the result.
LEMMA ResultTurn ==
  ASSUME NEW v, NEW w, NEW g, NEW i, NEW f, NEW t, NEW x, Situation(v, w, g, i, f, t, x), Plain(i),
         NEW fs, fs = FS(g, w), NEW m \in Nat, t = m + 1, NEW c, Lifo(c, fs, m),
         Lower(x.stk, Len(x.stk) - Len(Consumed(i, f)), c.stk),
         NEW a, a = IF Pushes(i) # << >> THEN Push_temp_reg(c, Pushes(i)[1]) ELSE c
  PROVE  Continues(v, w, g, i, f, t, g, a)
<1>1. WellFormed(i) /\ t \in Nat \ {0} /\ Room(t)
  BY DEF Situation
<1>2. Room(m + 1)
  BY ONLY <1>1, t = m + 1
<1>3. c.stk \in Seq(Regs)
  BY DEF Lifo, LifoTyped
<1>4. CASE Pushes(i) # << >>
  <2>1. PICK ty \in Types : ty = Pushes(i)[1]
    <3>1. Pushes(i)[1] \in Types
      BY ONLY <1>1, <1>4, PopsPushes
    <3> QED
      BY ONLY <3>1
  <2>2. PICK e : e = Elem("TEMP", ty, c.next[ty])
    OBVIOUS
  <2>3. a = Push_temp_reg(c, ty)
    BY <1>4, <2>1
  <2>4. Lifo(a, fs, m + 1) /\ a.stk = Append(c.stk, e)
    <3>1. Lifo(a, fs, m + 1)
      BY ONLY <1>2, <2>2, <2>3, m \in Nat, Lifo(c, fs, m), ty \in Types, PushTempLifo
    <3>2. a.stk = Append(c.stk, e)
      BY ONLY <2>2, <2>3 DEF Push_temp_reg, Push, Allocate_register
    <3> QED
      BY ONLY <3>1, <3>2
  <2>5. e \in Regs /\ e.ty = ty
    <3>1. c.next[ty] \in Nat
      <4>1. c.next \in [Types -> Nat]
        BY DEF Lifo, LifoTyped
      <4> QED
        BY ONLY <4>1, ty \in Types
    <3> QED
      BY ONLY <3>1, <2>2, ty \in Types DEF Elem, Regs
  <2>6. Changed(x.stk, Len(Consumed(i, f)), Pushes(i), a.stk)
    BY ONLY <1>3, <1>4, <2>1, <2>4, <2>5, Lower(x.stk, Len(x.stk) - Len(Consumed(i, f)), c.stk) DEF Changed
  <2>7. Lifo(a, fs, t)
    BY ONLY <2>4, t = m + 1
  <2> QED
    BY ONLY <2>6, <2>7, Situation(v, w, g, i, f, t, x), Plain(i), fs = FS(g, w), PlainTurn
<1>5. CASE Pushes(i) = << >>
  <2>1. a = c
    BY <1>5
  <2>2. Lifo(c, fs, t)
    BY ONLY m \in Nat, Lifo(c, fs, m), t = m + 1, LifoLater
  <2>3. Changed(x.stk, Len(Consumed(i, f)), Pushes(i), a.stk)
    BY ONLY <1>3, <1>5, <2>1, Lower(x.stk, Len(x.stk) - Len(Consumed(i, f)), c.stk) DEF Changed
  <2> QED
    BY ONLY <2>1, <2>2, <2>3, Situation(v, w, g, i, f, t, x), Plain(i), fs = FS(g, w), PlainTurn
<1> QED
  BY <1>4, <1>5

\* Operands are popped and the result pushed.
LEMMA ValueTurn ==
  ASSUME NEW v, NEW w, NEW g, NEW i, NEW f, NEW t, NEW x, Situation(v, w, g, i, f, t, x), Plain(i),
         NEW fs, fs = FS(g, w), NEW m \in Nat, t = m + 1, NEW b, Lifo(b, fs, m), b.stk = x.stk,
         NEW tys, IsSeq(tys), Len(tys) = Len(Consumed(i, f)),
         \A k \in 1 .. Len(tys) : tys[k] = Void \/ tys[k] = Consumed(i, f)[k],
         NEW c, c = PopAll(b, tys), NEW a, a = IF Pushes(i) # << >> THEN Push_temp_reg(c, Pushes(i)[1]) ELSE c
  PROVE  Continues(v, w, g, i, f, t, g, a)
<1>1. OnTop(x, fs, Consumed(i, f))
  <2>1. i.op \notin {"End", "Else"}
    BY DEF Plain
  <2> QED
    BY ONLY <2>1, Situation(v, w, g, i, f, t, x), fs = FS(g, w), OperandsOnTop
<1>2. PICK n : n = Len(tys) /\ n = Len(Consumed(i, f))
  OBVIOUS
<1>3. /\ n \in Nat /\ OwnElems(x, fs, n)
      /\ \A k \in 1 .. n : x.stk[Len(x.stk) - n + k].ty = Consumed(i, f)[k]
  BY ONLY <1>1, <1>2 DEF OnTop
<1>4. OwnElems(b, fs, Len(tys))
  BY ONLY <1>2, <1>3, b.stk = x.stk DEF OwnElems
<1>5. Matches(b.stk, tys)
  BY ONLY <1>2, <1>3, b.stk = x.stk, \A k \in 1 .. Len(tys) : tys[k] = Void \/ tys[k] = Consumed(i, f)[k] DEF Matches
<1>6. Room(m)
  <2>1. PICK y : y = Unmarked(x)
    OBVIOUS
  <2>2. PICK k : Ready(v, w, g, i, t, y, fs, k)
    BY ONLY <2>1, Situation(v, w, g, i, f, t, x), fs = FS(g, w), SitReady
  <2>3. k \in Nat /\ t = k + 1 /\ Room(k)
    BY ONLY <2>2 DEF Ready
  <2>4. k = m
    BY ONLY <2>3, m \in Nat, t = m + 1
  <2> QED
    BY ONLY <2>3, <2>4
<1>7. Taken(b, fs, m, Len(tys), c)
  BY ONLY <1>4, <1>5, <1>6, m \in Nat, Lifo(b, fs, m), IsSeq(tys), c = PopAll(b, tys), PopAllLifo
<1>8. Lifo(c, fs, m) /\ Lower(x.stk, Len(x.stk) - Len(Consumed(i, f)), c.stk)
  BY ONLY <1>7, b.stk = x.stk, Len(tys) = Len(Consumed(i, f)) DEF Taken
<1> QED
  BY ONLY <1>8, Situation(v, w, g, i, f, t, x), Plain(i), fs = FS(g, w), m \in Nat, t = m + 1,
          a = IF Pushes(i) # << >> THEN Push_temp_reg(c, Pushes(i)[1]) ELSE c, ResultTurn

\* The stack before an instruction that is no end of a block.
LEMMA SitStack ==
  ASSUME NEW v, NEW w, NEW g, NEW i, NEW f, NEW t, NEW x, Situation(v, w, g, i, f, t, x), i.op # "End",
         NEW fs, fs = FS(g, w)
  PROVE  \E m \in Nat : t = m + 1 /\ Lifo(x, fs, m) /\ Room(m) /\ Room(m + 1)
<1>1. PICK y : y = Unmarked(x) /\ y = x
  BY ONLY Situation(v, w, g, i, f, t, x), i.op # "End" DEF Situation, Unmarked
<1>2. PICK m : Ready(v, w, g, i, t, y, fs, m)
  BY ONLY <1>1, Situation(v, w, g, i, f, t, x), fs = FS(g, w), SitReady
<1>3. m \in Nat /\ t = m + 1 /\ Lifo(x, fs, m) /\ Room(m) /\ Room(m + 1)
  BY ONLY <1>1, <1>2 DEF Ready
<1> QED
  BY ONLY <1>3

\* Pops in detail, for operands of given or of any type.
LEMMA PopNext ==
  ASSUME NEW a, NEW fs, NEW m \in Nat, Room(m), Lifo(a, fs, m), NEW n \in Nat, OwnElems(a, fs, n + 1),
         NEW ty, ty = Void \/ ty = a.stk[Len(a.stk)].ty, NEW b, b = Pop_wasm_stk(a, ty), NEW l, l = Len(a.stk)
  PROVE  /\ Lifo(b, fs, m) /\ OwnElems(b, fs, n) /\ Lower(a.stk, l - 1, b.stk)
         /\ Len(b.stk) = l - 1 /\ l \in Nat \ {0} /\ Top(a, ty) = a.stk[l] /\ a.stk[l].ty \in Types
<1>1. a.stk \in Seq(Regs) /\ fs \in Seq(Frames)
  BY DEF Lifo, LifoTyped
<1>2. l \in Nat /\ n + 1 <= l /\ \A j \in 1 .. Len(fs) : fs[j].size <= l - (n + 1)
  BY ONLY <1>1, OwnElems(a, fs, n + 1), l = Len(a.stk), LenProperties DEF OwnElems
<1>3. l \in Nat \ {0} /\ l \in 1 .. l
  BY ONLY <1>2, n \in Nat
<1>4. a.stk # << >> /\ Last(a.stk) = a.stk[l]
  <2>1. Last(a.stk) = a.stk[l]
    BY DEF Last
  <2> QED
    BY ONLY <2>1, <1>1, <1>3, l = Len(a.stk), EmptySeq
<1>5. a.stk[l].ty \in Types
  BY ONLY <1>1, <1>3, l = Len(a.stk), RegFields
<1>6. \A j \in 1 .. Len(fs) : fs[j].size \in Nat
  BY ONLY <1>1, FrameFields
<1>7. OwnElems(a, fs, 1)
  <2>1. 1 <= l /\ \A j \in 1 .. Len(fs) : fs[j].size <= l - 1
    BY ONLY <1>2, <1>6, n \in Nat
  <2> QED
    BY ONLY <2>1, l = Len(a.stk) DEF OwnElems
<1>8. Popped(a, fs, m, ty, b)
  <2>1. ty = Void \/ ty = Last(a.stk).ty
    BY <1>4
  <2> QED
    BY ONLY <2>1, <1>7, m \in Nat, Room(m), Lifo(a, fs, m), b = Pop_wasm_stk(a, ty), PopLifo
<1>9. Lifo(b, fs, m) /\ b.stk = Front(a.stk) /\ Top(a, ty) = a.stk[l]
  BY ONLY <1>4, <1>8 DEF Popped
<1>10. Front(a.stk) \in Seq(Regs) /\ Len(Front(a.stk)) = l - 1 /\ \A k \in 1 .. l - 1 : Front(a.stk)[k] = a.stk[k]
  BY ONLY <1>1, <1>4, l = Len(a.stk), FrontOf
<1>11. Lower(a.stk, l - 1, b.stk) /\ Len(b.stk) = l - 1
  BY ONLY <1>9, <1>10 DEF Lower, IsSeq
<1>12. OwnElems(b, fs, n)
  <2>1. n <= l - 1 /\ \A j \in 1 .. Len(fs) : fs[j].size <= (l - 1) - n
    BY ONLY <1>2, <1>6, n \in Nat
  <2> QED
    BY ONLY <2>1, <1>11 DEF OwnElems
<1> QED
  BY ONLY <1>3, <1>5, <1>9, <1>11, <1>12

\* The lower part of a lower part.
LEMMA LowerLower ==
  ASSUME NEW s, NEW k \in Nat, NEW n \in Nat, n <= k, NEW c, Lower(s, k, c), NEW d, Lower(c, n, d)
  PROVE  Lower(s, n, d)
<1>1. \A j \in 1 .. n : j \in 1 .. k
  OBVIOUS
<1> QED
  BY ONLY <1>1, Lower(s, k, c), Lower(c, n, d) DEF Lower

\* The operands of an operator are of the types it pops.
LEMMA ExpectedTypes ==
  ASSUME NEW v, NEW w, NEW g, NEW i, NEW f, NEW t, NEW x, Situation(v, w, g, i, f, t, x),
         i.op \in {"Const", "Binary", "Compare", "Eqz", "Convert", "GlobalGet", "GlobalSet", "MemorySize",
                   "MemoryGrow"},
         NEW tys, tys = Expected(x, i)
  PROVE  /\ IsSeq(tys) /\ Len(tys) = Len(Consumed(i, f))
         /\ \A k \in 1 .. Len(tys) : tys[k] = Void \/ tys[k] = Consumed(i, f)[k]
         /\ Consumed(i, f) = Pops(i) /\ Plain(i) /\ i.op \notin {"End", "Else"}
<1>1. PICK fs : fs = FS(g, w)
  OBVIOUS
<1>2. Plain(i) /\ i.op # "End" /\ i.op \notin {"End", "Else"} /\ i.op # "Return"
  BY DEF Plain, Opens
<1>3. PICK m \in Nat : t = m + 1 /\ Lifo(x, fs, m)
  BY ONLY <1>1, <1>2, Situation(v, w, g, i, f, t, x), SitStack
<1>4. OnTop(x, fs, Consumed(i, f)) /\ IsSeq(Consumed(i, f))
  BY ONLY <1>1, <1>2, Situation(v, w, g, i, f, t, x), OperandsOnTop
<1>5. Consumed(i, f) = Pops(i)
  BY ONLY <1>2 DEF Consumed
<1>6. tys = Expected(x, i)
  OBVIOUS
<1>7. /\ IsSeq(tys) /\ Len(tys) = Len(Consumed(i, f))
      /\ \A k \in 1 .. Len(tys) : tys[k] = Void \/ tys[k] = Consumed(i, f)[k]
  <2>1. CASE i.op \in {"Binary", "Compare"}
    <3>1. PICK y : y = Top(x, Void).ty /\ tys = <<y, Void>>
      BY ONLY <1>6, <2>1 DEF Expected
    <3>2. Consumed(i, f) = <<i.ty, i.ty>>
      BY ONLY <1>5, <2>1 DEF Pops
    <3>3. PICK l : l = Len(x.stk)
      OBVIOUS
    <3>4. l \in Nat /\ OwnElems(x, fs, 2) /\ \A k \in 1 .. 2 : x.stk[l - 2 + k].ty = <<i.ty, i.ty>>[k]
      <4>1. Len(<<i.ty, i.ty>>) = 2
        OBVIOUS
      <4> QED
        BY ONLY <4>1, <3>2, <3>3, <1>4 DEF OnTop
    <3>5. 2 <= l /\ l - 2 + 2 = l /\ 2 \in 1 .. 2
      BY ONLY <3>3, <3>4 DEF OwnElems
    <3>6. x.stk[l].ty = i.ty
      <4>1. x.stk[l - 2 + 2].ty = <<i.ty, i.ty>>[2]
        BY ONLY <3>4, <3>5
      <4>2. <<i.ty, i.ty>>[2] = i.ty
        OBVIOUS
      <4> QED
        BY ONLY <4>1, <4>2, <3>5
    <3>7. x.stk # << >>
      BY <3>3, <3>5
    <3>8. y = i.ty
      BY ONLY <3>1, <3>3, <3>6, <3>7 DEF Top, Last, Void
    <3>9. /\ Len(<<y, Void>>) = 2 /\ Len(<<i.ty, i.ty>>) = 2 /\ <<y, Void>>[1] = y /\ <<y, Void>>[2] = Void
          /\ <<i.ty, i.ty>>[1] = i.ty /\ \A k \in 1 .. 2 : k = 1 \/ k = 2
      OBVIOUS
    <3> QED
      BY ONLY <3>1, <3>2, <3>8, <3>9, ShortSeqs
  <2>2. CASE i.op = "Convert"
    <3>1. tys = <<Void>> /\ Consumed(i, f) = <<i.ty>>
      BY ONLY <1>5, <1>6, <2>2 DEF Expected, Pops
    <3>2. \A k \in 1 .. 1 : k = 1
      OBVIOUS
    <3> QED
      BY ONLY <3>1, <3>2, ShortSeqs
  <2>3. CASE i.op \notin {"Binary", "Compare", "Convert"}
    <3>1. tys = Pops(i)
      BY ONLY <1>6, <2>3 DEF Expected
    <3> QED
      BY ONLY <3>1, <1>4, <1>5
  <2> QED
    BY <2>1, <2>2, <2>3
<1> QED
  BY ONLY <1>2, <1>5, <1>7

\* Instructions that pop their operands and push at most one result (Conv_op).
LEMMA OpTurn ==
  ASSUME NEW v, NEW w, NEW g, NEW i, NEW f, NEW t, NEW x, Situation(v, w, g, i, f, t, x),
         i.op \in {"Const", "Binary", "Compare", "Eqz", "Convert", "GlobalGet", "GlobalSet", "MemorySize",
                   "MemoryGrow"},
         NEW c, c = PopAll(x, Expected(x, i)),
         NEW a, a = IF Pushes(i) # << >> THEN Push_temp_reg(c, Pushes(i)[1]) ELSE c
  PROVE  Continues(v, w, g, i, f, t, g, a)
<1>1. PICK fs, tys : fs = FS(g, w) /\ tys = Expected(x, i)
  OBVIOUS
<1>2. Plain(i) /\ i.op # "End" /\ i.op \notin {"End", "Else"} /\ i.op # "Return"
  BY DEF Plain, Opens
<1>3. PICK m \in Nat : t = m + 1 /\ Lifo(x, fs, m)
  BY ONLY <1>1, <1>2, Situation(v, w, g, i, f, t, x), SitStack
<1>6. tys = Expected(x, i)
  BY ONLY <1>1
<1>7. /\ IsSeq(tys) /\ Len(tys) = Len(Consumed(i, f))
      /\ \A k \in 1 .. Len(tys) : tys[k] = Void \/ tys[k] = Consumed(i, f)[k]
  BY <1>1, ExpectedTypes
<1> QED
  BY ONLY <1>1, <1>2, <1>3, <1>6, <1>7, Situation(v, w, g, i, f, t, x), c = PopAll(x, Expected(x, i)), m \in Nat,
          a = IF Pushes(i) # << >> THEN Push_temp_reg(c, Pushes(i)[1]) ELSE c, ValueTurn

\* Store: both operands are popped behind the scratch register.
LEMMA StoreTurn ==
  ASSUME NEW v, NEW w, NEW g, NEW i, NEW f, NEW t, NEW x, Situation(v, w, g, i, f, t, x), i.op = "Store",
         NEW b, b = WithScratch(x), NEW a, a = PopAll(b, <<"i32", i.ty>>)
  PROVE  Continues(v, w, g, i, f, t, g, a)
<1>1. PICK fs : fs = FS(g, w)
  OBVIOUS
<1>2. Plain(i) /\ i.op # "End" /\ i.op \notin {"End", "Else"}
  BY DEF Plain, Opens
<1>3. PICK m \in Nat : t = m + 1 /\ Lifo(x, fs, m) /\ Room(m + 1)
  BY ONLY <1>1, <1>2, Situation(v, w, g, i, f, t, x), SitStack
<1>4. Lifo(b, fs, m) /\ b.stk = x.stk
  BY ONLY <1>3, m \in Nat, b = WithScratch(x), ScratchLifo
<1>5. Consumed(i, f) = <<"i32", i.ty>> /\ Pushes(i) = << >>
  BY DEF Consumed, Pops, Pushes
<1>6. PICK tys : tys = <<"i32", i.ty>> /\ IsSeq(tys)
  BY ONLY ShortSeqs
<1>7. a = PopAll(b, tys) /\ tys = Consumed(i, f)
  BY ONLY <1>5, <1>6, a = PopAll(b, <<"i32", i.ty>>)
<1>8. a = IF Pushes(i) # << >> THEN Push_temp_reg(a, Pushes(i)[1]) ELSE a
  BY ONLY <1>5
<1>9. Len(tys) = Len(Consumed(i, f)) /\ \A k \in 1 .. Len(tys) : tys[k] = Void \/ tys[k] = Consumed(i, f)[k]
  BY ONLY <1>7
<1> QED
  BY ONLY <1>1, <1>2, <1>3, <1>4, <1>6, <1>7, <1>8, <1>9, Situation(v, w, g, i, f, t, x), m \in Nat, ValueTurn

\* Load: the address is popped behind the scratch register.
LEMMA LoadTurn ==
  ASSUME NEW v, NEW w, NEW g, NEW i, NEW f, NEW t, NEW x, Situation(v, w, g, i, f, t, x), i.op = "Load",
         NEW b, b = WithScratch(x), NEW c, c = Pop_wasm_stk(b, "i32"), NEW a, a = Push_temp_reg(c, i.ty)
  PROVE  Continues(v, w, g, i, f, t, g, a)
<1>1. PICK fs : fs = FS(g, w)
  OBVIOUS
<1>2. Plain(i) /\ i.op # "End" /\ i.op \notin {"End", "Else"}
  BY DEF Plain, Opens
<1>3. PICK m \in Nat : t = m + 1 /\ Lifo(x, fs, m) /\ Room(m + 1) /\ Room(m)
  BY ONLY <1>1, <1>2, Situation(v, w, g, i, f, t, x), SitStack
<1>4. Lifo(b, fs, m) /\ b.stk = x.stk
  BY ONLY <1>3, m \in Nat, b = WithScratch(x), ScratchLifo
<1>5. Consumed(i, f) = <<"i32">> /\ Pushes(i) = <<i.ty>>
  BY DEF Consumed, Pops, Pushes
<1>6. OnTop(x, fs, <<"i32">>)
  BY ONLY <1>1, <1>2, <1>5, Situation(v, w, g, i, f, t, x), OperandsOnTop
<1>7. PICK l : l = Len(b.stk)
  OBVIOUS
<1>8. Len(<<"i32">>) = 1 /\ <<"i32">>[1] = "i32" /\ 1 \in 1 .. 1 /\ 0 \in Nat /\ 0 + 1 = 1
  OBVIOUS
<1>9. OwnElems(b, fs, 0 + 1) /\ l \in Nat /\ b.stk[l - 1 + 1].ty = "i32"
  <2>1. OwnElems(x, fs, 1) /\ l \in Nat /\ b.stk[l - 1 + 1].ty = "i32"
    BY ONLY <1>4, <1>6, <1>7, <1>8 DEF OnTop
  <2> QED
    BY ONLY <2>1, <1>4, <1>8 DEF OwnElems
<1>10. b.stk[Len(b.stk)].ty = "i32"
  <2>1. l - 1 + 1 = l
    BY ONLY <1>9
  <2> QED
    BY ONLY <2>1, <1>7, <1>9
<1>11. Lifo(c, fs, m) /\ Lower(b.stk, l - 1, c.stk)
  BY ONLY <1>3, <1>4, <1>7, <1>8, <1>9, <1>10, m \in Nat, c = Pop_wasm_stk(b, "i32"), PopNext
<1>12. Lower(x.stk, Len(x.stk) - Len(Consumed(i, f)), c.stk)
  BY ONLY <1>4, <1>5, <1>7, <1>8, <1>11
<1>13. a = IF Pushes(i) # << >> THEN Push_temp_reg(c, Pushes(i)[1]) ELSE c
  <2>1. <<i.ty>> # << >> /\ <<i.ty>>[1] = i.ty
    OBVIOUS
  <2> QED
    BY ONLY <2>1, <1>5, a = Push_temp_reg(c, i.ty)
<1> QED
  BY ONLY <1>1, <1>2, <1>3, <1>11, <1>12, <1>13, Situation(v, w, g, i, f, t, x), m \in Nat, ResultTurn

\* Select: three operands, of which the second gives the type of the first.
LEMMA SelectTurn ==
  ASSUME NEW v, NEW w, NEW g, NEW i, NEW f, NEW t, NEW x, Situation(v, w, g, i, f, t, x), i.op = "Select",
         NEW b, b = WithScratch(x), NEW c, c = Pop_wasm_stk(b, "i32"), NEW e, e = Top(c, Void),
         NEW d, d = Pop_wasm_stk(c, Void), NEW p, p = Pop_wasm_stk(d, e.ty), NEW a, a = Push_temp_reg(p, e.ty)
  PROVE  Continues(v, w, g, i, f, t, g, a)
<1>1. PICK fs : fs = FS(g, w)
  OBVIOUS
<1>2. Plain(i) /\ i.op # "End" /\ i.op \notin {"End", "Else"}
  BY DEF Plain, Opens
<1>3. PICK m \in Nat : t = m + 1 /\ Lifo(x, fs, m) /\ Room(m + 1) /\ Room(m)
  BY ONLY <1>1, <1>2, Situation(v, w, g, i, f, t, x), SitStack
<1>4. Lifo(b, fs, m) /\ b.stk = x.stk
  BY ONLY <1>3, m \in Nat, b = WithScratch(x), ScratchLifo
<1>5. PICK q : q = <<i.ty, i.ty, "i32">>
  OBVIOUS
<1>6. Consumed(i, f) = q /\ Pushes(i) = <<i.ty>>
  BY <1>5 DEF Consumed, Pops, Pushes
<1>7. Len(q) = 3 /\ q[1] = i.ty /\ q[2] = i.ty /\ q[3] = "i32"
  BY ONLY <1>5
<1>8. OnTop(x, fs, q)
  BY ONLY <1>1, <1>2, <1>6, Situation(v, w, g, i, f, t, x), OperandsOnTop
<1>9. PICK s : s = b.stk
  OBVIOUS
<1>10. PICK l \in Nat : /\ l = Len(s) /\ OwnElems(b, fs, 2 + 1) /\ 3 <= l
                        /\ s[l].ty = "i32" /\ s[l - 1].ty = i.ty /\ s[l - 2].ty = i.ty
  <2>1. /\ Len(s) \in Nat /\ OwnElems(x, fs, 3) /\ \A k \in 1 .. 3 : s[Len(s) - 3 + k].ty = q[k]
    BY ONLY <1>4, <1>7, <1>8, <1>9 DEF OnTop
  <2>2. 1 \in 1 .. 3 /\ 2 \in 1 .. 3 /\ 3 \in 1 .. 3 /\ 2 + 1 = 3
    OBVIOUS
  <2>3. Len(s) - 3 + 3 = Len(s) /\ Len(s) - 3 + 2 = Len(s) - 1 /\ Len(s) - 3 + 1 = Len(s) - 2
    BY ONLY <2>1
  <2>4. OwnElems(b, fs, 2 + 1) /\ 3 <= Len(s)
    BY ONLY <2>1, <2>2, <1>4, <1>9 DEF OwnElems
  <2>5. s[Len(s)].ty = "i32" /\ s[Len(s) - 1].ty = i.ty /\ s[Len(s) - 2].ty = i.ty
    BY ONLY <2>1, <2>2, <2>3, <1>7
  <2> QED
    BY ONLY <2>1, <2>4, <2>5
<1>11. 2 \in Nat /\ 1 \in Nat /\ 0 \in Nat /\ 1 + 1 = 2 /\ 0 + 1 = 1
  OBVIOUS
<1>12. Lifo(c, fs, m) /\ OwnElems(c, fs, 1 + 1) /\ Lower(s, l - 1, c.stk) /\ Len(c.stk) = l - 1
  <2>1. PICK ty, n : ty = "i32" /\ n = 2
    OBVIOUS
  <2>2. n \in Nat /\ n = 1 + 1 /\ OwnElems(b, fs, n + 1)
    BY ONLY <2>1, <1>10
  <2>3. ty = Void \/ ty = b.stk[Len(b.stk)].ty
    BY ONLY <2>1, <1>9, <1>10
  <2>4. c = Pop_wasm_stk(b, ty)
    BY ONLY <2>1, c = Pop_wasm_stk(b, "i32")
  <2>5. Room(m) /\ Lifo(b, fs, m)
    BY ONLY <1>3, <1>4
  <2>6. l = Len(b.stk) /\ s = b.stk
    BY ONLY <1>9, <1>10
  <2>7. Lifo(c, fs, m) /\ OwnElems(c, fs, n) /\ Lower(b.stk, l - 1, c.stk) /\ Len(c.stk) = l - 1
    BY ONLY <2>2, <2>3, <2>4, <2>5, <2>6, m \in Nat, PopNext
  <2> QED
    BY ONLY <2>2, <2>6, <2>7
<1>13. PICK k \in Nat : k = l - 1 /\ k \in 1 .. l - 1 /\ k - 1 \in 1 .. l - 1 /\ k - 1 = l - 2 /\ k - 1 \in Nat
                        /\ k - 1 \in 1 .. k - 1 /\ k - 1 <= l - 1
  <2>1. l - 1 \in Nat /\ l - 1 \in 1 .. l - 1 /\ (l - 1) - 1 \in 1 .. l - 1 /\ (l - 1) - 1 = l - 2
        /\ (l - 1) - 1 \in Nat /\ (l - 1) - 1 \in 1 .. (l - 1) - 1 /\ (l - 1) - 1 <= l - 1
    BY ONLY <1>10, l \in Nat
  <2> QED
    BY ONLY <2>1
<1>14. c.stk[k] = s[k] /\ c.stk[k - 1] = s[k - 1] /\ Len(c.stk) = k
  BY ONLY <1>12, <1>13 DEF Lower
<1>15. /\ Lifo(d, fs, m) /\ OwnElems(d, fs, 0 + 1) /\ Lower(c.stk, k - 1, d.stk) /\ Len(d.stk) = k - 1
       /\ e = c.stk[k] /\ e.ty \in Types
  <2>1. Void = Void \/ Void = c.stk[Len(c.stk)].ty
    OBVIOUS
  <2>2. k = Len(c.stk) /\ OwnElems(c, fs, 1 + 1)
    BY ONLY <1>12, <1>14
  <2>3. Lifo(d, fs, m) /\ OwnElems(d, fs, 1)
    BY ONLY <2>1, <2>2, <1>3, <1>11, <1>12, m \in Nat, d = Pop_wasm_stk(c, Void), PopNext
  <2>4. Lower(c.stk, k - 1, d.stk) /\ Len(d.stk) = k - 1
    <3>1. Lower(c.stk, k - 1, d.stk)
      BY ONLY <2>1, <2>2, <1>3, <1>11, <1>12, m \in Nat, d = Pop_wasm_stk(c, Void), PopNext
    <3> QED
      BY ONLY <3>1 DEF Lower
  <2>5. Top(c, Void) = c.stk[k] /\ c.stk[k].ty \in Types
    BY ONLY <2>1, <2>2, <1>3, <1>11, <1>12, m \in Nat, d = Pop_wasm_stk(c, Void), PopNext
  <2> QED
    BY ONLY <2>3, <2>4, <2>5, <1>11, e = Top(c, Void)
<1>16. e.ty = i.ty
  BY ONLY <1>10, <1>13, <1>14, <1>15
<1>17. PICK j \in Nat : j = k - 1 /\ j = Len(d.stk) /\ d.stk[j].ty = i.ty
  <2>1. d.stk[k - 1] = c.stk[k - 1]
    BY ONLY <1>13, <1>15 DEF Lower
  <2>2. d.stk[k - 1].ty = i.ty
    BY ONLY <2>1, <1>10, <1>13, <1>14
  <2> QED
    BY ONLY <2>2, <1>13, <1>15
<1>18. Lifo(p, fs, m) /\ Lower(d.stk, j - 1, p.stk) /\ j - 1 \in Nat
  <2>1. e.ty = Void \/ e.ty = d.stk[Len(d.stk)].ty
    BY ONLY <1>16, <1>17
  <2>2. Lifo(p, fs, m) /\ Lower(d.stk, j - 1, p.stk)
    BY ONLY <2>1, <1>3, <1>11, <1>15, <1>17, m \in Nat, p = Pop_wasm_stk(d, e.ty), PopNext
  <2>3. j - 1 \in Nat
    BY ONLY <1>10, <1>13, <1>17, l \in Nat
  <2> QED
    BY ONLY <2>2, <2>3
<1>19. Lower(x.stk, Len(x.stk) - Len(Consumed(i, f)), p.stk)
  <2>1. Lower(c.stk, j, d.stk) /\ Lower(s, k, c.stk) /\ j <= k
    BY ONLY <1>12, <1>13, <1>15, <1>17
  <2>2. Lower(s, j, d.stk)
    BY ONLY <2>1, k \in Nat, j \in Nat, LowerLower
  <2>3. j - 1 <= j
    BY ONLY j \in Nat
  <2>4. Lower(s, j - 1, p.stk)
    BY ONLY <2>2, <2>3, <1>18, j \in Nat, LowerLower
  <2>5. j - 1 = l - 3
    BY ONLY <1>13, <1>17, l \in Nat
  <2> QED
    BY ONLY <2>4, <2>5, <1>4, <1>6, <1>7, <1>9, <1>10
<1>20. a = IF Pushes(i) # << >> THEN Push_temp_reg(p, Pushes(i)[1]) ELSE p
  <2>1. <<i.ty>> # << >> /\ <<i.ty>>[1] = i.ty
    OBVIOUS
  <2> QED
    BY ONLY <2>1, <1>6, <1>16, a = Push_temp_reg(p, e.ty)
<1> QED
  BY ONLY <1>1, <1>2, <1>3, <1>18, <1>19, <1>20, Situation(v, w, g, i, f, t, x), m \in Nat, ResultTurn

\* A condition that holds changes nothing.
LEMMA OkSame ==
  ASSUME NEW a, NEW fs, NEW m, Lifo(a, fs, m), NEW P, P = TRUE, NEW b, b = [a EXCEPT !.ok = @ /\ P]
  PROVE  b = a
<1>1. IsAl(a) /\ a.ok = TRUE
  BY DEF Lifo, LifoTyped
<1>2. b = [a EXCEPT !.ok = TRUE]
  BY <1>1
<1>3. a = [z \in {"stk", "ok", "io", "size", "next"} |-> a[z]]
  BY ONLY <1>1 DEF IsAl
<1> QED
  BY ONLY <1>1, <1>2, <1>3

\* An instruction without operands and results leaves the stack as it is.
LEMMA KeepTurn ==
  ASSUME NEW v, NEW w, NEW g, NEW i, NEW f, NEW t, NEW x, Situation(v, w, g, i, f, t, x), Plain(i),
         Consumed(i, f) = << >>, Pushes(i) = << >>
  PROVE  Continues(v, w, g, i, f, t, g, x)
<1>1. PICK fs : fs = FS(g, w)
  OBVIOUS
<1>2. i.op # "End"
  BY DEF Plain
<1>3. PICK m \in Nat : t = m + 1 /\ Lifo(x, fs, m)
  BY ONLY <1>1, <1>2, Situation(v, w, g, i, f, t, x), SitStack
<1>4. x.stk \in Seq(Regs)
  BY ONLY <1>3 DEF Lifo, LifoTyped
<1>5. Len(x.stk) - Len(<< >>) = Len(x.stk)
  <2>1. Len(x.stk) \in Nat
    BY ONLY <1>4, LenProperties
  <2>2. Len(<< >>) = 0
    OBVIOUS
  <2> QED
    BY ONLY <2>1, <2>2
<1>6. Lower(x.stk, Len(x.stk), x.stk)
  BY ONLY <1>4 DEF Lower, IsSeq
<1>7. Lower(x.stk, Len(x.stk) - Len(Consumed(i, f)), x.stk)
  BY ONLY <1>5, <1>6, Consumed(i, f) = << >>
<1>8. x = IF Pushes(i) # << >> THEN Push_temp_reg(x, Pushes(i)[1]) ELSE x
  BY ONLY Pushes(i) = << >>
<1> QED
  BY ONLY <1>1, <1>3, <1>7, <1>8, Situation(v, w, g, i, f, t, x), Plain(i), m \in Nat, ResultTurn

\* The only operand is popped.
LEMMA OnePop ==
  ASSUME NEW v, NEW w, NEW g, NEW i, NEW f, NEW t, NEW x, Situation(v, w, g, i, f, t, x),
         i.op \notin {"End", "Else"}, NEW ty, Consumed(i, f) = <<ty>>, NEW fs, fs = FS(g, w),
         NEW m \in Nat, t = m + 1, NEW b, Lifo(b, fs, m), b.stk = x.stk,
         NEW p, p = Void \/ p = ty, NEW c, c = Pop_wasm_stk(b, p)
  PROVE  Lifo(c, fs, m) /\ Lower(x.stk, Len(x.stk) - 1, c.stk) /\ x.stk[Len(x.stk)].ty = ty /\ x.stk # << >>
<1>1. OnTop(x, fs, <<ty>>)
  BY ONLY Situation(v, w, g, i, f, t, x), i.op \notin {"End", "Else"}, Consumed(i, f) = <<ty>>, fs = FS(g, w),
          OperandsOnTop
<1>2. PICK l : l = Len(b.stk)
  OBVIOUS
<1>3. Len(<<ty>>) = 1 /\ <<ty>>[1] = ty /\ 1 \in 1 .. 1 /\ 0 \in Nat /\ 0 + 1 = 1
  OBVIOUS
<1>4. OwnElems(x, fs, 1) /\ l \in Nat /\ b.stk[l - 1 + 1].ty = ty
  BY ONLY <1>1, <1>2, <1>3, b.stk = x.stk DEF OnTop
<1>5. OwnElems(b, fs, 0 + 1) /\ 1 <= l
  BY ONLY <1>2, <1>3, <1>4, b.stk = x.stk DEF OwnElems
<1>6. b.stk[Len(b.stk)].ty = ty
  <2>1. l - 1 + 1 = l
    BY ONLY <1>4
  <2> QED
    BY ONLY <2>1, <1>2, <1>4
<1>7. p = Void \/ p = b.stk[Len(b.stk)].ty
  BY ONLY <1>6, p = Void \/ p = ty
<1>8. Room(m)
  <2>1. PICK y : y = Unmarked(x)
    OBVIOUS
  <2>2. PICK k : Ready(v, w, g, i, t, y, fs, k)
    BY ONLY <2>1, Situation(v, w, g, i, f, t, x), fs = FS(g, w), SitReady
  <2>3. k \in Nat /\ t = k + 1 /\ Room(k)
    BY ONLY <2>2 DEF Ready
  <2>4. k = m
    BY ONLY <2>3, m \in Nat, t = m + 1
  <2> QED
    BY ONLY <2>3, <2>4
<1>9. Lifo(c, fs, m) /\ Lower(b.stk, l - 1, c.stk)
  BY ONLY <1>2, <1>3, <1>5, <1>7, <1>8, m \in Nat, Lifo(b, fs, m), c = Pop_wasm_stk(b, p), PopNext
<1>10. x.stk # << >>
  BY <1>2, <1>5
<1> QED
  BY ONLY <1>2, <1>6, <1>9, <1>10, b.stk = x.stk

\* One operand and no result.
LEMMA DropTurn ==
  ASSUME NEW v, NEW w, NEW g, NEW i, NEW f, NEW t, NEW x, Situation(v, w, g, i, f, t, x), Plain(i),
         NEW ty, Consumed(i, f) = <<ty>>, Pushes(i) = << >>,
         NEW p, p = Void \/ p = ty, NEW a, a = Pop_wasm_stk(x, p)
  PROVE  Continues(v, w, g, i, f, t, g, a)
<1>1. PICK fs : fs = FS(g, w)
  OBVIOUS
<1>2. i.op # "End" /\ i.op \notin {"End", "Else"}
  BY DEF Plain
<1>3. PICK m \in Nat : t = m + 1 /\ Lifo(x, fs, m)
  BY ONLY <1>1, <1>2, Situation(v, w, g, i, f, t, x), SitStack
<1>4. PICK b : b = x /\ Lifo(b, fs, m) /\ b.stk = x.stk
  BY ONLY <1>3
<1>5. a = Pop_wasm_stk(b, p)
  BY ONLY <1>4, a = Pop_wasm_stk(x, p)
<1>6. Lifo(a, fs, m) /\ Lower(x.stk, Len(x.stk) - 1, a.stk)
  BY ONLY <1>1, <1>2, <1>3, <1>4, <1>5, Situation(v, w, g, i, f, t, x), Consumed(i, f) = <<ty>>, m \in Nat,
          p = Void \/ p = ty, OnePop
<1>7. Len(Consumed(i, f)) = 1
  BY ONLY Consumed(i, f) = <<ty>>
<1>8. Lower(x.stk, Len(x.stk) - Len(Consumed(i, f)), a.stk)
  BY ONLY <1>6, <1>7
<1>9. a = IF Pushes(i) # << >> THEN Push_temp_reg(a, Pushes(i)[1]) ELSE a
  BY ONLY Pushes(i) = << >>
<1> QED
  BY ONLY <1>1, <1>3, <1>6, <1>8, <1>9, Situation(v, w, g, i, f, t, x), Plain(i), m \in Nat, ResultTurn

\* A local is put on the stack.
LEMMA GetTurn ==
  ASSUME NEW v, NEW w, NEW g, NEW i, NEW f, NEW t, NEW x, Situation(v, w, g, i, f, t, x), i.op = "LocalGet",
         NEW a, a = Push(x, Elem("LOCAL", Vars[i.n[1]], LocalReg(i.n[1])))
  PROVE  Continues(v, w, g, i, f, t, g, a)
<1>1. PICK fs : fs = FS(g, w)
  OBVIOUS
<1>2. i.op # "End" /\ Plain(i)
  BY DEF Plain, Opens
<1>3. PICK m \in Nat : t = m + 1 /\ Lifo(x, fs, m)
  BY ONLY <1>1, <1>2, Situation(v, w, g, i, f, t, x), SitStack
<1>4. PICK e : e = Elem("LOCAL", Vars[i.n[1]], LocalReg(i.n[1]))
  OBVIOUS
<1>5. e \in Regs /\ e.kind # "TEMP" /\ e.ty = Vars[i.n[1]]
  <2>1. Vars[i.n[1]] \in Types /\ LocalReg(i.n[1]) \in Nat
    BY LocalRegNat DEF Situation, WellFormed
  <2> QED
    BY <2>1, <1>4 DEF Elem, Regs
<1>6. a = Push(x, e)
  BY ONLY <1>4, a = Push(x, Elem("LOCAL", Vars[i.n[1]], LocalReg(i.n[1])))
<1>7. Lifo(a, fs, m) /\ a.stk = Append(x.stk, e)
  BY ONLY <1>3, <1>5, <1>6, m \in Nat, PushLocalLifo
<1>8. Lifo(a, fs, t)
  BY ONLY <1>3, <1>7, m \in Nat, LifoLater
<1>9. Consumed(i, f) = << >> /\ Pushes(i) = <<e.ty>>
  BY <1>5 DEF Consumed, Pops, Pushes
<1>10. x.stk \in Seq(Regs)
  BY ONLY <1>3 DEF Lifo, LifoTyped
<1>11. Lower(x.stk, Len(x.stk) - Len(<< >>), x.stk)
  <2>1. Len(x.stk) \in Nat
    BY ONLY <1>10, LenProperties
  <2>2. Len(<< >>) = 0
    OBVIOUS
  <2>3. Len(x.stk) - Len(<< >>) = Len(x.stk)
    BY ONLY <2>1, <2>2
  <2> QED
    BY ONLY <2>3, <1>10 DEF Lower, IsSeq
<1>12. Changed(x.stk, Len(Consumed(i, f)), Pushes(i), a.stk)
  <2>1. <<e.ty>> # << >> /\ <<e.ty>>[1] = e.ty
    OBVIOUS
  <2> QED
    BY ONLY <2>1, <1>5, <1>7, <1>9, <1>10, <1>11 DEF Changed
<1> QED
  BY ONLY <1>1, <1>2, <1>8, <1>12, Situation(v, w, g, i, f, t, x), PlainTurn

\* A local is set and its value stays on the stack.
LEMMA TeeTurn ==
  ASSUME NEW v, NEW w, NEW g, NEW i, NEW f, NEW t, NEW x, Situation(v, w, g, i, f, t, x), i.op = "LocalTee",
         NEW a, a = [x EXCEPT !.ok = @ /\ Last(x.stk).ty = Vars[i.n[1]]]
  PROVE  Continues(v, w, g, i, f, t, g, a)
<1>1. PICK fs : fs = FS(g, w)
  OBVIOUS
<1>2. i.op # "End" /\ i.op \notin {"End", "Else"}
  OBVIOUS
<1>3. PICK m : Ready(v, w, g, i, t, x, fs, m)
  <2>1. Unmarked(x) = x
    BY ONLY <1>1, <1>2, Situation(v, w, g, i, f, t, x), OperandsOnTop
  <2> QED
    BY ONLY <2>1, <1>1, Situation(v, w, g, i, f, t, x), SitReady
<1>4. m \in Nat /\ t = m + 1 /\ Lifo(x, fs, m) /\ Fit(v, fs, x, m) /\ g[t].op = i.op
  BY ONLY <1>3 DEF Ready
<1>5. PICK ty : ty = Vars[i.n[1]]
  OBVIOUS
<1>6. Consumed(i, f) = <<ty>>
  BY <1>5 DEF Consumed, Pops
<1>7. PICK c : c = Pop_wasm_stk(x, Void)
  OBVIOUS
<1>8. x.stk[Len(x.stk)].ty = ty
  BY ONLY <1>1, <1>2, <1>4, <1>6, <1>7, Situation(v, w, g, i, f, t, x), OnePop
<1>9. a = x
  <2>1. (Last(x.stk).ty = Vars[i.n[1]]) = TRUE
    BY <1>5, <1>8 DEF Last
  <2> QED
    BY ONLY <2>1, <1>4, a = [x EXCEPT !.ok = @ /\ Last(x.stk).ty = Vars[i.n[1]]], OkSame
<1>10. Validated(v, i, f) = v /\ Moved(w, i, t) = w
  BY DEF Validated, Moved, Opens
<1>11. Fit(v, fs, x, t)
  <2>1. Lifo(x, fs, t)
    BY ONLY <1>4, LifoLater
  <2> QED
    BY ONLY <2>1, <1>4 DEF Fit
<1>12. Unmarked(x) = x /\ x.ok = TRUE
  BY ONLY <1>4, LifoUnmarked
<1>13. Twins(g, t + 1)
  <2>1. Twins(g, t) /\ t \in Nat /\ g[t].op # "If"
    BY <1>4 DEF Situation
  <2> QED
    BY ONLY <2>1, TwinsNext
<1>14. Agree(g, g, Len(g))
  BY ONLY AgreeSelf
<1> QED
  BY ONLY <1>1, <1>9, <1>10, <1>11, <1>12, <1>13, <1>14 DEF Continues

\* The mark for what is not reached.
LEMMA MarkTurn ==
  ASSUME NEW v, NEW w, NEW g, NEW i, NEW f, NEW t, NEW x, Situation(v, w, g, i, f, t, x), i.op = "Unreachable",
         NEW a, a = Push(x, Elem("UNREACHABLE", "i32", 0))
  PROVE  Continues(v, w, g, i, f, t, g, a)
<1>1. PICK fs : fs = FS(g, w)
  OBVIOUS
<1>2. i.op # "End" /\ Plain(i)
  BY DEF Plain, Opens
<1>3. PICK m \in Nat : t = m + 1 /\ Lifo(x, fs, m)
  BY ONLY <1>1, <1>2, Situation(v, w, g, i, f, t, x), SitStack
<1>4. Consumed(i, f) = << >> /\ Pushes(i) = << >>
  BY DEF Consumed, Pops, Pushes
<1>5. Continues(v, w, g, i, f, t, g, x)
  BY ONLY <1>2, <1>4, Situation(v, w, g, i, f, t, x), KeepTurn
<1>6. x.stk \in Seq(Regs) /\ IsAl(x) /\ x.ok = TRUE /\ Unmarked(x) = x
  BY ONLY <1>3, LifoUnmarked DEF Lifo, LifoTyped
<1>7. PICK e : e = Elem("UNREACHABLE", "i32", 0) /\ e.kind = "UNREACHABLE"
  BY DEF Elem
<1>8. Front(Append(x.stk, e)) = x.stk /\ Last(Append(x.stk, e)) = e /\ Append(x.stk, e) # << >>
  <2>1. x.stk \in Seq(Regs \cup {e}) /\ e \in Regs \cup {e}
    BY ONLY <1>6
  <2> QED
    BY ONLY <2>1, FrontAppend
<1>9. x = [z \in {"stk", "ok", "io", "size", "next"} |-> x[z]]
  BY ONLY <1>6 DEF IsAl
<1>10. a = [x EXCEPT !.stk = Append(x.stk, e)]
  BY ONLY <1>7, a = Push(x, Elem("UNREACHABLE", "i32", 0)) DEF Push
<1>11. a.stk = Append(x.stk, e) /\ a.ok = TRUE /\ [a EXCEPT !.stk = x.stk] = x
  BY ONLY <1>6, <1>9, <1>10
<1>12. Unmarked(a) = x
  BY ONLY <1>7, <1>8, <1>11 DEF Unmarked, IsUnreachable
<1> QED
  BY ONLY <1>5, <1>6, <1>11, <1>12 DEF Continues

\* An element of the stack.
OnStack(x, e) == \E y \in 1 .. Len(x.stk) : e = x.stk[y]

\* An operand that is taken whatever its type is has the type the validator found.
LEMMA OperandType ==
  ASSUME NEW x, NEW fs, NEW m \in Nat, Room(m), Lifo(x, fs, m), NEW q, OnTop(x, fs, q),
         NEW tys, IsSeq(tys), NEW n \in Nat, n = Len(tys), n = Len(q),
         \A k \in 1 .. n : tys[k] = Void \/ tys[k] = q[k],
         NEW k \in 1 .. n, NEW e, e = Top(PopAll(x, SubSeq(tys, k + 1, Len(tys))), tys[k])
  PROVE  e.ty = q[k] /\ OnStack(x, e)
<1>1. PICK l : l = Len(x.stk)
  OBVIOUS
<1>2. l \in Nat /\ OwnElems(x, fs, n) /\ \A j \in 1 .. n : x.stk[l - n + j].ty = q[j]
  BY ONLY <1>1, OnTop(x, fs, q), n = Len(q) DEF OnTop
<1>3. x.stk \in Seq(Regs) /\ fs \in Seq(Frames)
  BY ONLY Lifo(x, fs, m) DEF Lifo, LifoTyped
<1>4. n <= l /\ \A j \in 1 .. Len(fs) : fs[j].size <= l - n
  BY ONLY <1>1, <1>2 DEF OwnElems
<1>5. PICK p \in Nat : p = n - k /\ p <= n
  <2>1. n - k \in Nat /\ n - k <= n
    BY ONLY n \in Nat, k \in 1 .. n
  <2> QED
    BY ONLY <2>1
<1>6. PICK r : r = SubSeq(tys, k + 1, Len(tys))
  OBVIOUS
<1>7. IsSeq(r) /\ Len(r) = p /\ \A j \in 1 .. p : r[j] = tys[k + j]
  <2>1. PICK S : tys \in Seq(S)
    BY DEF IsSeq
  <2>2. r = SubSeq(tys, k + 1, n)
    BY <1>6
  <2>3. /\ k + 1 \in 1 .. n + 1 /\ k + 1 <= n + 1
    BY ONLY n \in Nat, k \in 1 .. n
  <2>4. \A j \in k + 1 .. n : tys[j] \in S
    BY ONLY <2>1, n = Len(tys), n \in Nat, k \in 1 .. n, ElementOfSeq
  <2>5. r = [j \in 1 .. p |-> tys[k + j]]
    <3>1. 1 + n - (k + 1) = p
      BY ONLY <1>5, n \in Nat, k \in 1 .. n
    <3>2. SubSeq(tys, k + 1, n) = [j \in 1 .. (1 + n - (k + 1)) |-> tys[(k + 1) + j - 1]]
      BY ONLY <2>1, <2>3, n = Len(tys), n \in Nat, k \in 1 .. n
    <3>3. \A j \in 1 .. p : (k + 1) + j - 1 = k + j
      BY ONLY p \in Nat, k \in 1 .. n, n \in Nat
    <3> QED
      BY ONLY <2>2, <3>1, <3>2, <3>3
  <2>6. \A j \in 1 .. p : k + j \in k + 1 .. n
    BY ONLY <1>5, n \in Nat, k \in 1 .. n
  <2>7. r \in [1 .. p -> S]
    BY ONLY <2>4, <2>5, <2>6
  <2>8. r \in Seq(S) /\ Len(r) = p
    BY ONLY <2>7, p \in Nat
  <2>9. \A j \in 1 .. p : r[j] = tys[k + j]
    BY ONLY <2>5
  <2> QED
    BY ONLY <2>8, <2>9 DEF IsSeq
<1>8. OwnElems(x, fs, Len(r))
  <2>1. \A j \in 1 .. Len(fs) : fs[j].size \in Nat
    BY ONLY <1>3, FrameFields
  <2>2. p <= l /\ \A j \in 1 .. Len(fs) : fs[j].size <= l - p
    BY ONLY <2>1, <1>2, <1>4, <1>5, n \in Nat
  <2> QED
    BY ONLY <2>2, <1>1, <1>7 DEF OwnElems
<1>9. Matches(x.stk, r)
  <2>1. ASSUME NEW j \in 1 .. p PROVE r[j] = Void \/ r[j] = x.stk[l - p + j].ty
    <3>1. k + j \in 1 .. n /\ l - n + (k + j) = l - p + j
      BY ONLY <1>2, <1>5, n \in Nat, k \in 1 .. n, j \in 1 .. p
    <3>2. tys[k + j] = Void \/ tys[k + j] = x.stk[l - n + (k + j)].ty
      BY ONLY <3>1, <1>2, \A z \in 1 .. n : tys[z] = Void \/ tys[z] = q[z]
    <3> QED
      BY ONLY <3>1, <3>2, <1>7, j \in 1 .. p
  <2> QED
    BY ONLY <2>1, <1>1, <1>7 DEF Matches
<1>10. PICK c : c = PopAll(x, r)
  OBVIOUS
<1>11. Taken(x, fs, m, Len(r), c)
  BY ONLY <1>7, <1>8, <1>9, <1>10, m \in Nat, Room(m), Lifo(x, fs, m), PopAllLifo
<1>12. Lower(x.stk, l - p, c.stk)
  BY ONLY <1>1, <1>7, <1>11 DEF Taken
<1>13. l - p \in Nat /\ l - p \in 1 .. l - p /\ l - p = l - n + k
  BY ONLY <1>2, <1>4, <1>5, n \in Nat, k \in 1 .. n
<1>14. Len(c.stk) = l - p /\ c.stk[l - p] = x.stk[l - p]
  BY ONLY <1>12, <1>13 DEF Lower
<1>15. c.stk # << >>
  BY <1>13, <1>14
<1>16. e = c.stk[l - p]
  <2>1. Last(c.stk) = c.stk[l - p]
    BY ONLY <1>14 DEF Last
  <2>2. l - p \in 1 .. Len(x.stk)
    BY ONLY <1>1, <1>2, <1>5, <1>13
  <2>3. x.stk[l - p].kind \in {"TEMP", "LOCAL"}
    BY ONLY <2>2, <1>3, RegFields
  <2>4. Last(c.stk).kind # "UNREACHABLE"
    BY ONLY <2>1, <2>3, <1>14
  <2>5. e = Top(c, tys[k])
    BY ONLY <1>6, <1>10, e = Top(PopAll(x, SubSeq(tys, k + 1, Len(tys))), tys[k])
  <2> QED
    BY ONLY <2>1, <2>4, <2>5, <1>15 DEF Top
<1>17. e.ty = q[k]
  BY ONLY <1>2, <1>13, <1>14, <1>16, k \in 1 .. n
<1>18. l - p \in 1 .. Len(x.stk)
  BY ONLY <1>1, <1>2, <1>5, <1>13
<1> QED
  BY ONLY <1>14, <1>16, <1>17, <1>18 DEF OnStack

\* The types a call expects of its arguments, and what it asserts of them.
ArgTypes(i) == [k \in DOMAIN Pops(i) |-> IF k > Len(CalleeParams) THEN "i32" ELSE Void]
ArgsFit(ops) == \A k \in DOMAIN CalleeParams : ops[k].ty = CalleeParams[k]
Checked(c, io, P) == [c EXCEPT !.io = io, !.ok = @ /\ P]

\* Calls: the arguments have the types of the callee's parameters.
LEMMA CallTurn ==
  ASSUME NEW v, NEW w, NEW g, NEW i, NEW f, NEW t, NEW x, Situation(v, w, g, i, f, t, x),
         i.op \in {"Call", "CallIndirect"},
         NEW tys, tys = ArgTypes(i),
         NEW ops, ops = Operands(x, tys), NEW c, c = PopAll(x, tys), NEW io,
         NEW P, P = ArgsFit(ops),
         NEW b, b = Checked(c, io, P),
         NEW a, a = IF i.ty = Void THEN b ELSE Push_temp_reg(b, i.ty)
  PROVE  Continues(v, w, g, i, f, t, g, a)
<1>1. PICK fs : fs = FS(g, w)
  OBVIOUS
<1>2. Plain(i) /\ i.op # "End" /\ i.op \notin {"End", "Else"} /\ i.op # "Return"
  BY DEF Plain, Opens
<1>3. PICK m \in Nat : t = m + 1 /\ Lifo(x, fs, m) /\ Room(m)
  BY ONLY <1>1, <1>2, Situation(v, w, g, i, f, t, x), SitStack
<1>4. PICK q : q = Pops(i) /\ Consumed(i, f) = q
  BY ONLY <1>2 DEF Consumed
<1>5. OnTop(x, fs, q)
  BY ONLY <1>1, <1>2, <1>4, Situation(v, w, g, i, f, t, x), OperandsOnTop
<1>6. CalleeParams \in Seq(Types) /\ CalleeRes \in Types
  BY WasmAssumption
<1>7. PICK l \in Nat : l = Len(CalleeParams) /\ DOMAIN CalleeParams = 1 .. l
  BY ONLY <1>6, LenProperties
<1>8. PICK n \in Nat : /\ n = Len(q) /\ DOMAIN q = 1 .. n /\ l <= n
                       /\ \A k \in 1 .. l : q[k] = CalleeParams[k]
                       /\ \A k \in 1 .. n : k > l => q[k] = "i32"
  <2>1. CASE i.op = "Call"
    <3>1. q = CalleeParams
      BY ONLY <1>4, <2>1 DEF Pops
    <3>2. \A k \in 1 .. l : ~(k > l)
      OBVIOUS
    <3> QED
      BY <3>1, <3>2, <1>7
  <2>2. CASE i.op = "CallIndirect"
    <3>1. q = Append(CalleeParams, "i32")
      BY ONLY <1>4, <2>2 DEF Pops
    <3>2. "i32" \in Types
      BY DEF Types
    <3>3. /\ Append(CalleeParams, "i32") \in Seq(Types) /\ Len(Append(CalleeParams, "i32")) = Len(CalleeParams) + 1
          /\ Append(CalleeParams, "i32")[Len(CalleeParams) + 1] = "i32"
          /\ \A k \in 1 .. Len(CalleeParams) : Append(CalleeParams, "i32")[k] = CalleeParams[k]
      BY ONLY <3>2, <1>6, AppendProperties
    <3>4. q \in Seq(Types) /\ Len(q) = l + 1 /\ q[l + 1] = "i32" /\ \A k \in 1 .. l : q[k] = CalleeParams[k]
      BY ONLY <3>1, <3>3, <1>7
    <3>5. DOMAIN q = 1 .. l + 1
      BY ONLY <3>4, LenProperties
    <3>6. l + 1 \in Nat /\ l <= l + 1 /\ \A k \in 1 .. l + 1 : k > l => k = l + 1
      OBVIOUS
    <3> QED
      BY ONLY <3>4, <3>5, <3>6
  <2> QED
    BY <2>1, <2>2
<1>9. tys = [k \in 1 .. n |-> IF k > l THEN "i32" ELSE Void]
  BY ONLY <1>4, <1>7, <1>8, tys = ArgTypes(i) DEF ArgTypes
<1>10. IsSeq(tys) /\ Len(tys) = n
  <2>1. tys \in [1 .. n -> {"i32", Void}]
    BY ONLY <1>9
  <2>2. tys \in Seq({"i32", Void}) /\ Len(tys) = n
    BY ONLY <2>1, n \in Nat
  <2> QED
    BY ONLY <2>2 DEF IsSeq
<1>11. \A k \in 1 .. n : tys[k] = Void \/ tys[k] = q[k]
  BY ONLY <1>8, <1>9
<1>12. \A k \in DOMAIN CalleeParams : ops[k].ty = CalleeParams[k]
  <2> SUFFICES ASSUME NEW k \in 1 .. l PROVE ops[k].ty = CalleeParams[k]
    BY <1>7
  <2>1. k \in 1 .. n /\ ~(k > l)
    BY ONLY <1>8, k \in 1 .. l, l \in Nat, n \in Nat
  <2>2. tys[k] = Void
    BY ONLY <2>1, <1>9
  <2>3. Top(PopAll(x, SubSeq(tys, k + 1, Len(tys))), tys[k]).ty = q[k]
    BY ONLY <2>1, <2>2, <1>3, <1>5, <1>8, <1>10, <1>11, m \in Nat, n \in Nat, OperandType
  <2>4. DOMAIN tys = 1 .. n
    BY ONLY <1>9
  <2>5. ops[k] = Top(PopAll(x, SubSeq(tys, k + 1, Len(tys))), tys[k])
    BY ONLY <2>1, <2>4, ops = Operands(x, tys) DEF Operands
  <2> QED
    BY ONLY <2>3, <2>5, <1>8, k \in 1 .. l
<1>13. Taken(x, fs, m, Len(tys), c)
  <2>1. OwnElems(x, fs, Len(tys)) /\ \A k \in 1 .. Len(tys) : tys[k] = Void \/ tys[k] = x.stk[Len(x.stk) - Len(tys) + k].ty
    BY ONLY <1>5, <1>8, <1>10, <1>11 DEF OnTop
  <2>2. Matches(x.stk, tys)
    BY ONLY <2>1 DEF Matches
  <2> QED
    BY ONLY <2>1, <2>2, <1>3, <1>10, m \in Nat, c = PopAll(x, tys), PopAllLifo
<1>14. Lifo(c, fs, m) /\ Lower(x.stk, Len(x.stk) - n, c.stk)
  BY ONLY <1>10, <1>13 DEF Taken
<1>15. Lifo(b, fs, m) /\ b.stk = c.stk
  <2>1. IsAl(c) /\ c.ok = TRUE
    BY ONLY <1>14 DEF Lifo, LifoTyped
  <2>2. c = [z \in {"stk", "ok", "io", "size", "next"} |-> c[z]]
    BY ONLY <2>1 DEF IsAl
  <2>3. b = [c EXCEPT !.io = io, !.ok = TRUE]
    <3>1. P = TRUE
      BY ONLY <1>12, P = ArgsFit(ops) DEF ArgsFit
    <3> QED
      BY ONLY <2>1, <3>1, b = Checked(c, io, P) DEF Checked
  <2>4. b.ok = TRUE /\ b.stk = c.stk /\ b.next = c.next
    BY ONLY <2>2, <2>3
  <2>5. IsAl(b)
    BY ONLY <2>2, <2>3 DEF IsAl
  <2> QED
    BY ONLY <2>4, <2>5, <1>14, LifoSame
<1>16. Lower(x.stk, Len(x.stk) - Len(Consumed(i, f)), b.stk)
  BY ONLY <1>4, <1>8, <1>14, <1>15
<1>17. a = IF Pushes(i) # << >> THEN Push_temp_reg(b, Pushes(i)[1]) ELSE b
  <2>1. Pushes(i) = IF i.ty = Void THEN << >> ELSE <<i.ty>>
    BY DEF Pushes, Result
  <2>2. <<i.ty>> # << >> /\ <<i.ty>>[1] = i.ty
    OBVIOUS
  <2> QED
    BY ONLY <2>1, <2>2, a = IF i.ty = Void THEN b ELSE Push_temp_reg(b, i.ty)
<1> QED
  BY ONLY <1>1, <1>2, <1>3, <1>15, <1>16, <1>17, Situation(v, w, g, i, f, t, x), m \in Nat, ResultTurn

-----------------------------------------------------------------------------
(* Branches.                                                               *)

\* A branch over d levels goes to the open block d levels further out.
LEMMA UpWalk ==
  ASSUME NEW g, g = graph, NEW t, t = at, t \in Nat \ {0}, NEW v, NEW w, Settled(v, w, g, t),
         g[t].parent = Last(w), NEW d \in Nat, d < Len(v.ctl), NEW x, x = Get_parent_stmt_for_branch(d)
  PROVE  x = w[Len(v.ctl) + 1 - d]
<1>1. /\ Len(v.ctl) \in Nat /\ Last(w) = w[Len(v.ctl) + 1] /\ Inside(v, w, g, t)
  BY ONLY Settled(v, w, g, t), SettledParts
<1>2. PICK l \in Nat : l = Len(v.ctl)
  BY ONLY <1>1
<1>3. PICK e \in Nat : e = d + 1 /\ e # 0 /\ e <= l
  <2>1. d + 1 \in Nat /\ d + 1 # 0 /\ d + 1 <= l
    BY ONLY <1>2, d \in Nat, d < Len(v.ctl)
  <2> QED
    BY ONLY <2>1
<1>4. PICK f : f = CHOOSE z : UpFcn(z, g, t, e)
  OBVIOUS
<1>5. x = f[e]
  BY <1>3, <1>4 DEF Get_parent_stmt_for_branch, UpFcn
<1>6. UpFcn(f, g, t, e)
  BY <1>4, UpExists
<1>7. f = [k \in 0 .. e |-> IF k = 0 THEN t ELSE IF f[k - 1] = 0 THEN 0 ELSE g[f[k - 1]].parent]
  BY <1>6 DEF UpFcn
<1>8. \A j \in 1 .. l : w[j + 1] \in 1 .. t - 1 /\ g[w[j + 1]].parent = w[j]
  BY ONLY <1>1, <1>2 DEF Inside
<1> DEFINE T == {k \in 1 .. e : f[k] # w[l + 2 - k]}
<1>9. T = {}
  <2> SUFFICES ASSUME T # {} PROVE FALSE
    OBVIOUS
  <2>1. T \subseteq Nat
    OBVIOUS
  <2>2. PICK k \in T : \A y \in T : k <= y
    BY <2>1, LeastNat
  <2>3. k \in 1 .. e /\ f[k] # w[l + 2 - k] /\ k \in Nat
    OBVIOUS
  <2>4. CASE k = 1
    <3>1. 1 \in 0 .. e /\ 0 \in 0 .. e /\ 1 # 0 /\ 1 - 1 = 0 /\ l + 2 - 1 = l + 1
      BY ONLY <1>2, <1>3, e \in Nat, l \in Nat
    <3>2. f[0] = t
      BY ONLY <1>7, <3>1
    <3>3. f[1] = IF f[0] = 0 THEN 0 ELSE g[f[0]].parent
      BY ONLY <1>7, <3>1
    <3>4. f[1] = w[l + 1]
      BY ONLY <3>2, <3>3, <1>1, <1>2, t \in Nat \ {0}, g[t].parent = Last(w)
    <3> QED
      BY ONLY <3>1, <3>4, <2>3, <2>4
  <2>5. CASE k # 1
    <3>1. k - 1 \in 1 .. e /\ ~(k <= k - 1) /\ k \in 0 .. e /\ k # 0
      BY ONLY <2>3, <2>5, e \in Nat
    <3>2. k - 1 \notin T
      BY ONLY <2>2, <3>1
    <3>3. f[k - 1] = w[l + 2 - (k - 1)]
      BY ONLY <3>1, <3>2
    <3>4. l + 2 - k \in 1 .. l /\ l + 2 - (k - 1) = l + 2 - k + 1
      BY ONLY <2>3, <2>5, <1>3, l \in Nat, e \in Nat
    <3>5. w[l + 2 - k + 1] \in 1 .. t - 1 /\ g[w[l + 2 - k + 1]].parent = w[l + 2 - k]
      BY ONLY <3>4, <1>8
    <3>6. f[k - 1] # 0 /\ g[f[k - 1]].parent = w[l + 2 - k]
      BY ONLY <3>3, <3>4, <3>5, t \in Nat \ {0}
    <3>7. f[k] = IF f[k - 1] = 0 THEN 0 ELSE g[f[k - 1]].parent
      BY ONLY <1>7, <3>1
    <3> QED
      BY ONLY <3>6, <3>7, <2>3
  <2> QED
    BY ONLY <2>4, <2>5
<1>10. e \in 1 .. e
  BY ONLY <1>3, e \in Nat
<1>11. f[e] = w[l + 2 - e]
  BY ONLY <1>9, <1>10
<1>12. l + 2 - e = l + 1 - d
  BY ONLY <1>3, l \in Nat, d \in Nat
<1> QED
  BY ONLY <1>2, <1>5, <1>11, <1>12

\* A branch stays in the function, and the value it takes along has the type of its block.
Landing(g, c, y) == y # 0 /\ (g[y].res = Void \/ c.stk = << >> \/ Last(c.stk).ty = g[y].res)

\* The target of a branch, behind its operands.
LEMMA BranchLands ==
  ASSUME NEW v, NEW w, NEW g, NEW i, NEW f, NEW t, NEW x, Situation(v, w, g, i, f, t, x),
         i.op \in {"Br", "BrIf", "BrTable"}, NEW c,
         Lower(x.stk, Len(x.stk) - Len(Pops(i)), c.stk),
         NEW d \in Range(i.n), NEW y, y = w[Len(v.ctl) + 1 - d], d < Len(v.ctl), d \in Nat
  PROVE  Landing(g, c, y)
<1>1. PICK fs : fs = FS(g, w)
  OBVIOUS
<1>2. PICK m : Ready(v, w, g, i, t, x, fs, m)
  <2>1. i.op \notin {"End", "Else"}
    OBVIOUS
  <2>2. Unmarked(x) = x
    BY ONLY <1>1, <2>1, Situation(v, w, g, i, f, t, x), OperandsOnTop
  <2> QED
    BY ONLY <2>2, <1>1, Situation(v, w, g, i, f, t, x), SitReady
<1>3. VTyped(v) /\ Fit(v, fs, x, m) /\ Lifo(x, fs, m)
  BY ONLY <1>2 DEF Ready
<1>4. Settled(v, w, g, t) /\ IsValid(v, i, f) /\ t \in Nat
  BY DEF Situation, Right
<1>5. Len(v.ctl) \in Nat /\ Inside(v, w, g, t)
  BY ONLY <1>4, SettledParts
<1>6. PICK j \in Nat : j = Len(v.ctl) - d /\ j \in 1 .. Len(v.ctl) /\ j + 1 = Len(v.ctl) + 1 - d
  <2>1. /\ Len(v.ctl) - d \in Nat /\ Len(v.ctl) - d \in 1 .. Len(v.ctl)
        /\ Len(v.ctl) - d + 1 = Len(v.ctl) + 1 - d
    BY ONLY <1>5, d < Len(v.ctl), d \in Nat
  <2> QED
    BY ONLY <2>1
<1>7. PICK r : r = v.ctl[j]
  OBVIOUS
<1>8. y \in 1 .. t - 1 /\ g[y].res = r.res
  BY ONLY <1>5, <1>6, <1>7, y = w[Len(v.ctl) + 1 - d] DEF Inside
<1>9. r.op = "Loop" => r.res = Void
  BY ONLY <1>3, <1>6, <1>7 DEF VTyped
<1>10. HasTop(v, LabelTypes(r) \o Pops(i))
  <2>1. d \in Targets(v, i)
    BY ONLY d \in Range(i.n), d < Len(v.ctl) DEF Targets
  <2>2. r = Target(v, d)
    BY ONLY <1>6, <1>7 DEF Target
  <2>3. \A z \in Targets(v, i) : HasTop(v, LabelTypes(Target(v, z)) \o Pops(i))
    BY <1>4 DEF IsValid
  <2> QED
    BY ONLY <2>1, <2>2, <2>3
<1>11. CASE r.res = Void
  <2>1. g[y].res = Void
    BY ONLY <1>8, <1>11
  <2>2. y # 0
    BY ONLY <1>8, <1>4
  <2> QED
    BY ONLY <2>1, <2>2 DEF Landing
<1>12. CASE r.res # Void
  <2>1. LabelTypes(r) = <<r.res>>
    BY ONLY <1>9, <1>12 DEF LabelTypes, Result
  <2>2. Pops(i) = << >> \/ Pops(i) = <<"i32">>
    BY DEF Pops
  <2>3. PICK n \in Nat : n = Len(Pops(i)) /\ Len(<<r.res>> \o Pops(i)) = n + 1
                         /\ (<<r.res>> \o Pops(i))[1] = r.res /\ IsSeq(<<r.res>> \o Pops(i))
    <3>1. IsSeq(<<r.res>>) /\ Len(<<r.res>>) = 1 /\ <<r.res>>[1] = r.res
      BY ONLY ShortSeqs
    <3>2. IsSeq(Pops(i))
      BY ONLY <2>2, ShortSeqs
    <3>3. /\ IsSeq(<<r.res>> \o Pops(i)) /\ Len(Pops(i)) \in Nat
          /\ Len(<<r.res>> \o Pops(i)) = Len(<<r.res>>) + Len(Pops(i))
          /\ \A z \in 1 .. Len(<<r.res>>) : (<<r.res>> \o Pops(i))[z] = <<r.res>>[z]
      BY ONLY <3>1, <3>2, ConcatSeq
    <3>4. 1 \in 1 .. 1 /\ 1 + Len(Pops(i)) = Len(Pops(i)) + 1
      BY ONLY <3>3
    <3> QED
      BY ONLY <3>1, <3>3, <3>4
  <2>4. PICK q : q = <<r.res>> \o Pops(i)
    OBVIOUS
  <2>5. Len(q) = n + 1 /\ q[1] = r.res /\ IsSeq(q) /\ HasTop(v, q)
    BY ONLY <2>1, <2>3, <2>4, <1>10
  <2>6. Above(TypesOf(v.stk), Bases(v.ctl), q)
    BY ONLY <2>5, <1>3, TopAbove
  <2>7. OnTop(x, fs, q)
    BY ONLY <2>6, <1>3, AboveOnTop
  <2>8. PICK l : l = Len(x.stk)
    OBVIOUS
  <2>9. /\ l \in Nat /\ OwnElems(x, fs, n + 1) /\ \A k \in 1 .. n + 1 : x.stk[l - (n + 1) + k].ty = q[k]
    BY ONLY <2>5, <2>7, <2>8 DEF OnTop
  <2>10. n + 1 <= l
    BY ONLY <2>8, <2>9 DEF OwnElems
  <2>11. l - (n + 1) + 1 = l - n /\ 1 \in 1 .. n + 1 /\ l - n \in 1 .. l - n
    BY ONLY <2>9, <2>10, n \in Nat
  <2>12. x.stk[l - n].ty = r.res
    BY ONLY <2>5, <2>9, <2>11
  <2>13. Len(c.stk) = l - n /\ c.stk[l - n] = x.stk[l - n]
    BY ONLY <2>3, <2>8, <2>11, Lower(x.stk, Len(x.stk) - Len(Pops(i)), c.stk) DEF Lower
  <2>14. Last(c.stk).ty = r.res
    BY ONLY <2>12, <2>13 DEF Last
  <2>15. y # 0
    BY ONLY <1>8, <1>4
  <2> QED
    BY ONLY <2>14, <2>15, <1>8 DEF Landing
<1> QED
  BY ONLY <1>11, <1>12

\* The tests in front of a branch change nothing.
LEMMA BranchPasses ==
  ASSUME NEW v, NEW w, NEW g, NEW i, NEW f, NEW t, NEW x, Situation(v, w, g, i, f, t, x),
         i.op \in {"Br", "BrIf", "BrTable"}, g = graph, t = at, NEW c,
         Lower(x.stk, Len(x.stk) - Len(Pops(i)), c.stk)
  PROVE  \A d \in Range(i.n) : Landing(g, c, Get_parent_stmt_for_branch(d))
<1> SUFFICES ASSUME NEW d \in Range(i.n) PROVE Landing(g, c, Get_parent_stmt_for_branch(d))
  OBVIOUS
<1>1. Settled(v, w, g, t) /\ IsValid(v, i, f) /\ t \in Nat \ {0} /\ StmtAt(w, g, i, t) /\ WellFormed(i)
  BY DEF Situation, Right
<1>2. g[t].parent = Last(w)
  BY <1>1 DEF StmtAt
<1>3. d \in Nat
  <2>1. i.n \in Seq(Nat)
    BY <1>1 DEF WellFormed
  <2> QED
    BY <2>1 DEF Range
<1>4. d < Len(v.ctl)
  <2>1. d <= Len(v.ctl)
    BY <1>1 DEF IsValid
  <2>2. ~ToFunction(v, i)
    BY DEF Situation, Right, Usual, PlainForms
  <2>3. d # Len(v.ctl)
    BY ONLY <2>2, d \in Range(i.n) DEF ToFunction
  <2>4. Len(v.ctl) \in Nat
    BY ONLY <1>1, SettledParts
  <2> QED
    BY ONLY <2>1, <2>3, <2>4, <1>3
<1>5. PICK y : y = Get_parent_stmt_for_branch(d)
  OBVIOUS
<1>6. y = w[Len(v.ctl) + 1 - d]
  BY ONLY <1>1, <1>2, <1>3, <1>4, <1>5, g = graph, t = at, UpWalk
<1>7. Landing(g, c, y)
  BY ONLY <1>3, <1>4, <1>6, Situation(v, w, g, i, f, t, x), i.op \in {"Br", "BrIf", "BrTable"},
          Lower(x.stk, Len(x.stk) - Len(Pops(i)), c.stk), d \in Range(i.n), BranchLands
<1> QED
  BY ONLY <1>5, <1>7

\* The assertions in front of a jump hold.
LEMMA ChecksPass ==
  ASSUME NEW g, g = graph, NEW i, i = Cur, NEW c, NEW fs, NEW m, Lifo(c, fs, m),
         \A d \in Range(i.n) : Landing(g, c, Get_parent_stmt_for_branch(d))
  PROVE  /\ InFunction(c) = c
         /\ \A d \in Range(i.n) : Mov_checked(c, Get_parent_stmt_for_branch(d)) = c
<1>1. InFunction(c) = c
  <2>1. (\A d \in Range(Cur.n) : Get_parent_stmt_for_branch(d) # 0) = TRUE
    BY DEF Landing
  <2>2. PICK P : P = (\A d \in Range(Cur.n) : Get_parent_stmt_for_branch(d) # 0)
    OBVIOUS
  <2>3. InFunction(c) = [c EXCEPT !.ok = @ /\ P]
    BY ONLY <2>2 DEF InFunction
  <2>4. P = TRUE
    BY ONLY <2>1, <2>2
  <2> QED
    BY ONLY <2>3, <2>4, Lifo(c, fs, m), OkSame
<1>2. ASSUME NEW d \in Range(i.n) PROVE Mov_checked(c, Get_parent_stmt_for_branch(d)) = c
  <2>1. PICK y : y = Get_parent_stmt_for_branch(d)
    OBVIOUS
  <2>2. PICK P : P = (y = 0 \/ graph[y].res = Void \/ c.stk = << >> \/ Last(c.stk).ty = graph[y].res)
    OBVIOUS
  <2>3. P = TRUE
    BY <2>1, <2>2 DEF Landing
  <2>4. Mov_checked(c, y) = [c EXCEPT !.ok = @ /\ P]
    BY ONLY <2>2 DEF Mov_checked
  <2>5. Mov_checked(c, y) = c
    BY ONLY <2>3, <2>4, Lifo(c, fs, m), OkSame
  <2> QED
    BY ONLY <2>1, <2>5
<1> QED
  BY ONLY <1>1, <1>2

\* The first target of a branch.
LEMMA FirstTarget ==
  ASSUME NEW i, WellFormed(i), i.op \in {"Br", "BrIf", "BrTable"}
  PROVE  i.n[1] \in Range(i.n)
<1>1. i.n \in Seq(Nat) /\ i.n # << >>
  BY DEF WellFormed
<1>2. DOMAIN i.n = 1 .. Len(i.n) /\ Len(i.n) \in Nat \ {0}
  BY ONLY <1>1, EmptySeq, LenProperties
<1>3. 1 \in DOMAIN i.n
  BY ONLY <1>2
<1> QED
  BY ONLY <1>3 DEF Range

\* Branches without a condition.
LEMMA BrTurn ==
  ASSUME NEW v, NEW w, NEW g, NEW i, NEW f, NEW t, NEW x, Situation(v, w, g, i, f, t, x), i.op = "Br",
         g = graph, t = at, i = Cur, NEW a, a = InFunction(Mov_checked(x, Get_parent_stmt_for_branch(i.n[1])))
  PROVE  Continues(v, w, g, i, f, t, g, a)
<1>1. PICK fs : fs = FS(g, w)
  OBVIOUS
<1>2. i.op # "End" /\ Plain(i) /\ i.op \in {"Br", "BrIf", "BrTable"}
  BY DEF Plain, Opens
<1>3. PICK m \in Nat : t = m + 1 /\ Lifo(x, fs, m)
  BY ONLY <1>1, <1>2, Situation(v, w, g, i, f, t, x), SitStack
<1>4. Consumed(i, f) = << >> /\ Pushes(i) = << >> /\ Pops(i) = << >>
  BY DEF Consumed, Pops, Pushes
<1>5. Lower(x.stk, Len(x.stk) - Len(Pops(i)), x.stk)
  <2>1. x.stk \in Seq(Regs)
    BY ONLY <1>3 DEF Lifo, LifoTyped
  <2>2. Len(x.stk) \in Nat
    BY ONLY <2>1, LenProperties
  <2>3. Len(<< >>) = 0
    OBVIOUS
  <2>4. Len(x.stk) - Len(Pops(i)) = Len(x.stk)
    BY ONLY <2>2, <2>3, <1>4
  <2> QED
    BY ONLY <2>1, <2>4 DEF Lower, IsSeq
<1>6. \A d \in Range(i.n) : Landing(g, x, Get_parent_stmt_for_branch(d))
  BY ONLY <1>2, <1>5, Situation(v, w, g, i, f, t, x), g = graph, t = at, BranchPasses
<1>7. /\ InFunction(x) = x
      /\ \A d \in Range(i.n) : Mov_checked(x, Get_parent_stmt_for_branch(d)) = x
  BY ONLY <1>3, <1>6, g = graph, i = Cur, ChecksPass
<1>8. i.n[1] \in Range(i.n)
  <2>1. WellFormed(i)
    BY DEF Situation
  <2> QED
    BY ONLY <2>1, <1>2, FirstTarget
<1>9. a = x
  BY ONLY <1>7, <1>8, a = InFunction(Mov_checked(x, Get_parent_stmt_for_branch(i.n[1])))
<1>10. Continues(v, w, g, i, f, t, g, x)
  BY ONLY <1>2, <1>4, Situation(v, w, g, i, f, t, x), KeepTurn
<1> QED
  BY ONLY <1>9, <1>10

\* The tests in front of a jump change nothing.
Passes(i, c) ==
  /\ InFunction(c) = c /\ i.n[1] \in Range(i.n) /\ c.ok = TRUE
  /\ \A d \in Range(i.n) : Mov_checked(c, Get_parent_stmt_for_branch(d)) = c

\* Branches with a condition: the operand is popped first.
LEMMA CondTurn ==
  ASSUME NEW v, NEW w, NEW g, NEW i, NEW f, NEW t, NEW x, Situation(v, w, g, i, f, t, x),
         i.op \in {"BrIf", "BrTable"}, g = graph, t = at, i = Cur,
         NEW b, b = x \/ b = WithScratch(x), NEW c, c = Pop_wasm_stk(b, "i32")
  PROVE  Continues(v, w, g, i, f, t, g, c) /\ Passes(i, c)
<1>1. PICK fs : fs = FS(g, w)
  OBVIOUS
<1>2. i.op # "End" /\ Plain(i) /\ i.op \in {"Br", "BrIf", "BrTable"} /\ i.op \notin {"End", "Else"}
  BY DEF Plain, Opens
<1>3. PICK m \in Nat : t = m + 1 /\ Lifo(x, fs, m) /\ Room(m + 1)
  BY ONLY <1>1, <1>2, Situation(v, w, g, i, f, t, x), SitStack
<1>4. Consumed(i, f) = <<"i32">> /\ Pushes(i) = << >> /\ Pops(i) = <<"i32">>
  BY DEF Consumed, Pops, Pushes
<1>5. Lifo(b, fs, m) /\ b.stk = x.stk
  <2>1. CASE b = x
    BY ONLY <2>1, <1>3
  <2>2. CASE b = WithScratch(x)
    BY ONLY <2>2, <1>3, m \in Nat, ScratchLifo
  <2> QED
    BY ONLY <2>1, <2>2, b = x \/ b = WithScratch(x)
<1>6. Lifo(c, fs, m) /\ Lower(x.stk, Len(x.stk) - 1, c.stk)
  <2>1. "i32" = Void \/ "i32" = "i32"
    OBVIOUS
  <2> QED
    BY ONLY <2>1, <1>1, <1>2, <1>3, <1>4, <1>5, Situation(v, w, g, i, f, t, x), m \in Nat,
            c = Pop_wasm_stk(b, "i32"), OnePop
<1>7. Len(<<"i32">>) = 1
  OBVIOUS
<1>8. Lower(x.stk, Len(x.stk) - Len(Pops(i)), c.stk) /\ Lower(x.stk, Len(x.stk) - Len(Consumed(i, f)), c.stk)
  BY ONLY <1>4, <1>6, <1>7
<1>9. \A d \in Range(i.n) : Landing(g, c, Get_parent_stmt_for_branch(d))
  BY ONLY <1>2, <1>8, Situation(v, w, g, i, f, t, x), g = graph, t = at, BranchPasses
<1>10. /\ InFunction(c) = c
       /\ \A d \in Range(i.n) : Mov_checked(c, Get_parent_stmt_for_branch(d)) = c
  BY ONLY <1>6, <1>9, g = graph, i = Cur, ChecksPass
<1>11. i.n[1] \in Range(i.n)
  <2>1. WellFormed(i)
    BY DEF Situation
  <2> QED
    BY ONLY <2>1, <1>2, FirstTarget
<1>12. c = IF Pushes(i) # << >> THEN Push_temp_reg(c, Pushes(i)[1]) ELSE c
  BY ONLY <1>4
<1>13. Continues(v, w, g, i, f, t, g, c)
  BY ONLY <1>1, <1>2, <1>3, <1>6, <1>8, <1>12, Situation(v, w, g, i, f, t, x), m \in Nat, ResultTurn
<1>14. c.ok = TRUE
  BY ONLY <1>6 DEF Lifo, LifoTyped
<1> QED
  BY ONLY <1>10, <1>11, <1>13, <1>14 DEF Passes

\* A branch that is taken or not.
LEMMA BrIfTurn ==
  ASSUME NEW v, NEW w, NEW g, NEW i, NEW f, NEW t, NEW x, Situation(v, w, g, i, f, t, x),
         i.op = "BrIf", g = graph, t = at, i = Cur, NEW c, c = Pop_wasm_stk(x, "i32"),
         NEW a, a = InFunction(Mov_checked(c, Get_parent_stmt_for_branch(i.n[1])))
  PROVE  Continues(v, w, g, i, f, t, g, a)
<1>1. i.op \in {"BrIf", "BrTable"}
  OBVIOUS
<1>2. PICK b : b = x /\ (b = x \/ b = WithScratch(x))
  OBVIOUS
<1>3. c = Pop_wasm_stk(b, "i32")
  BY ONLY <1>2, c = Pop_wasm_stk(x, "i32")
<1>4. Continues(v, w, g, i, f, t, g, c) /\ Passes(i, c)
  BY ONLY <1>1, <1>2, <1>3, Situation(v, w, g, i, f, t, x), g = graph, t = at, i = Cur, CondTurn
<1>5. a = c
  BY ONLY <1>4, a = InFunction(Mov_checked(c, Get_parent_stmt_for_branch(i.n[1]))) DEF Passes
<1> QED
  BY ONLY <1>4, <1>5

\* A branch with a table of targets.
LEMMA BrTableTurn ==
  ASSUME NEW v, NEW w, NEW g, NEW i, NEW f, NEW t, NEW x, Situation(v, w, g, i, f, t, x),
         i.op = "BrTable", g = graph, t = at, i = Cur,
         NEW b, b = WithScratch(x), NEW c, c = Pop_wasm_stk(b, "i32"),
         NEW ts, ts = {Get_parent_stmt_for_branch(d) : d \in Range(i.n)},
         NEW a, a = InFunction([c EXCEPT !.ok = @ /\ \A z \in ts : Mov_checked(c, z).ok])
  PROVE  Continues(v, w, g, i, f, t, g, a)
<1>1. i.op \in {"BrIf", "BrTable"} /\ (b = x \/ b = WithScratch(x))
  OBVIOUS
<1>2. Continues(v, w, g, i, f, t, g, c) /\ Passes(i, c)
  BY ONLY <1>1, Situation(v, w, g, i, f, t, x), g = graph, t = at, i = Cur, b = WithScratch(x),
          c = Pop_wasm_stk(b, "i32"), CondTurn
<1>3. /\ InFunction(c) = c /\ c.ok = TRUE
      /\ \A d \in Range(i.n) : Mov_checked(c, Get_parent_stmt_for_branch(d)) = c
  BY ONLY <1>2 DEF Passes
<1>4. PICK P : P = (\A z \in ts : Mov_checked(c, z).ok)
  OBVIOUS
<1>5. P = TRUE
  <2>1. \A z \in ts : Mov_checked(c, z) = c
    BY ONLY <1>3, ts = {Get_parent_stmt_for_branch(d) : d \in Range(i.n)}
  <2>2. \A z \in ts : Mov_checked(c, z).ok
    BY ONLY <2>1, <1>3
  <2> QED
    BY ONLY <2>2, <1>4
<1>6. [c EXCEPT !.ok = @ /\ P] = c
  <2>1. Unmarked(x) = x
    BY <1>1, OperandsOnTop
  <2>2. PICK fs : fs = FS(g, w)
    OBVIOUS
  <2>3. PICK m \in Nat : t = m + 1 /\ Lifo(x, fs, m) /\ Room(m + 1)
    BY <2>2, SitStack
  <2>4. Lifo(b, fs, m) /\ b.stk = x.stk
    BY ONLY <2>3, m \in Nat, b = WithScratch(x), ScratchLifo
  <2>5. Consumed(i, f) = <<"i32">> /\ i.op \notin {"End", "Else"} /\ ("i32" = Void \/ "i32" = "i32")
    BY DEF Consumed, Pops
  <2>6. Lifo(c, fs, m)
    BY ONLY <2>2, <2>3, <2>4, <2>5, Situation(v, w, g, i, f, t, x), m \in Nat, c = Pop_wasm_stk(b, "i32"), OnePop
  <2> QED
    BY ONLY <2>6, <1>5, OkSame
<1>7. a = InFunction([c EXCEPT !.ok = @ /\ P])
  BY ONLY <1>4, a = InFunction([c EXCEPT !.ok = @ /\ \A z \in ts : Mov_checked(c, z).ok])
<1>8. a = c
  BY ONLY <1>3, <1>6, <1>7
<1> QED
  BY ONLY <1>2, <1>8

-----------------------------------------------------------------------------
(* Blocks.                                                                 *)

\* The statements when block t has got register r and has found a stack of height z.
Entered(g, h, t, r, z) ==
  h = [k \in DOMAIN g |-> IF k = t \/ (k = g[t].els /\ g[t].els # 0)
                          THEN [g[k] EXCEPT !.reg = r, !.size = z] ELSE g[k]]

\* The tree stays as it is, and so do the statements before.
Begun(g, h, t, r, z) ==
  /\ Agree(g, h, Len(g)) /\ \A j \in 1 .. t - 1 : Proj(h[j]) = Proj(g[j])
  /\ Proj(h[t]) = [res |-> g[t].res, reg |-> r, size |-> z]
  /\ Twins(h, t + 1)

\* A block begins.
LEMMA EnteredGraph ==
  ASSUME NEW g, GraphOK(g), NEW t \in 1 .. Len(g), g[t].op \in {"Block", "Loop", "If"}, Twins(g, t),
         NEW r, NEW z, NEW h, Entered(g, h, t, r, z)
  PROVE  Begun(g, h, t, r, z)
<1>1. PICK n \in Nat : n = Len(g) /\ g \in Seq(Stmts) /\ DOMAIN g = 1 .. n /\ t \in 1 .. n
  BY DEF GraphOK
<1>2. PICK e : e = g[t].els
  OBVIOUS
<1>3. h = [k \in 1 .. n |-> IF k = t \/ (k = e /\ e # 0) THEN [g[k] EXCEPT !.reg = r, !.size = z] ELSE g[k]]
  BY ONLY <1>1, <1>2, Entered(g, h, t, r, z) DEF Entered
<1>4. \A k \in 1 .. n : StmtOK(g, k) /\ g[k] \in Stmts
  BY <1>1, StmtFields DEF GraphOK
<1>5. e # 0 => e \in t + 1 .. n /\ g[e].els = t
  <2>1. StmtOK(g, t)
    BY ONLY <1>1, <1>4
  <2> QED
    BY ONLY <2>1, <1>1, <1>2, g[t].op \in {"Block", "Loop", "If"} DEF StmtOK
<1>6. ASSUME NEW k \in 1 .. n, NEW s, s = [g[k] EXCEPT !.reg = r, !.size = z]
      PROVE  /\ s.op = g[k].op /\ s.parent = g[k].parent /\ s.els = g[k].els
             /\ s.res = g[k].res /\ s.reg = r /\ s.size = z
  <2>1. g[k] \in Stmts
    BY ONLY <1>4, k \in 1 .. n
  <2> QED
    BY ONLY <2>1, s = [g[k] EXCEPT !.reg = r, !.size = z] DEF Stmts
<1>7. ASSUME NEW k \in 1 .. n
      PROVE  /\ h[k].op = g[k].op /\ h[k].parent = g[k].parent /\ h[k].els = g[k].els /\ h[k].res = g[k].res
             /\ (k = t \/ (k = e /\ e # 0)) => h[k].reg = r /\ h[k].size = z
             /\ ~(k = t \/ (k = e /\ e # 0)) => h[k] = g[k]
  <2>1. CASE k = t \/ (k = e /\ e # 0)
    <3>1. h[k] = [g[k] EXCEPT !.reg = r, !.size = z]
      BY ONLY <2>1, <1>3, k \in 1 .. n
    <3>2. PICK s : s = h[k]
      OBVIOUS
    <3>3. s = [g[k] EXCEPT !.reg = r, !.size = z]
      BY ONLY <3>1, <3>2
    <3>4. /\ s.op = g[k].op /\ s.parent = g[k].parent /\ s.els = g[k].els
          /\ s.res = g[k].res /\ s.reg = r /\ s.size = z
      BY ONLY <3>3, <1>6, k \in 1 .. n
    <3> QED
      BY ONLY <2>1, <3>2, <3>4
  <2>2. CASE ~(k = t \/ (k = e /\ e # 0))
    <3>1. h[k] = g[k]
      BY ONLY <2>2, <1>3, k \in 1 .. n
    <3> QED
      BY ONLY <2>2, <3>1
  <2> QED
    BY ONLY <2>1, <2>2
<1>8. Agree(g, h, Len(g))
  BY ONLY <1>1, <1>7 DEF Agree
<1>9. \A j \in 1 .. t - 1 : Proj(h[j]) = Proj(g[j]) /\ h[j] = g[j] /\ j \in 1 .. n
  <2> SUFFICES ASSUME NEW j \in 1 .. t - 1 PROVE h[j] = g[j] /\ j \in 1 .. n
    OBVIOUS
  <2>1. j \in 1 .. n /\ j # t /\ ~(j = e /\ e # 0)
    BY ONLY <1>1, <1>5, j \in 1 .. t - 1, n \in Nat
  <2> QED
    BY ONLY <2>1, <1>7
<1>10. Proj(h[t]) = [res |-> g[t].res, reg |-> r, size |-> z]
  BY ONLY <1>1, <1>7 DEF Proj
<1>11. Twins(h, t + 1)
  <2> SUFFICES ASSUME NEW k \in 1 .. (t + 1) - 1, h[k].op = "If", h[k].els # 0
               PROVE  h[h[k].els].size = h[k].size
    BY DEF Twins
  <2>1. k \in 1 .. t - 1 \/ k = t
    BY ONLY <1>1, k \in 1 .. (t + 1) - 1, n \in Nat
  <2>2. CASE k = t
    <3>1. h[t].els = e /\ h[t].size = z
      BY ONLY <1>1, <1>2, <1>7
    <3>2. e # 0 /\ e \in 1 .. n
      BY ONLY <3>1, <2>2, <1>1, <1>5, h[k].els # 0, n \in Nat
    <3>3. h[e].size = z
      BY ONLY <3>2, <1>7
    <3> QED
      BY ONLY <2>2, <3>1, <3>3
  <2>3. CASE k \in 1 .. t - 1
    <3>1. h[k] = g[k] /\ k \in 1 .. n
      BY ONLY <2>3, <1>9
    <3>2. PICK d : d = g[k].els
      OBVIOUS
    <3>3. StmtOK(g, k)
      BY ONLY <3>1, <1>4
    <3>4. d # 0 /\ d \in k + 1 .. n /\ g[d].op = "Else" /\ g[d].els = k
      BY ONLY <3>1, <3>2, <3>3, <1>1, h[k].op = "If", h[k].els # 0 DEF StmtOK
    <3>5. d \in 1 .. n
      BY ONLY <3>1, <3>4, n \in Nat
    <3>6. d # t
      BY ONLY <3>4, g[t].op \in {"Block", "Loop", "If"}
    <3>7. ~(d = e /\ e # 0)
      <4>1. k # t
        BY ONLY <2>3, <1>1, n \in Nat
      <4> QED
        BY ONLY <4>1, <3>4, <1>5
    <3>8. h[d] = g[d]
      BY ONLY <3>5, <3>6, <3>7, <1>7
    <3>9. g[g[k].els].size = g[k].size
      BY ONLY <2>3, <3>1, Twins(g, t), h[k].op = "If", h[k].els # 0 DEF Twins
    <3> QED
      BY ONLY <3>1, <3>2, <3>8, <3>9
  <2> QED
    BY ONLY <2>1, <2>2, <2>3
<1> QED
  BY ONLY <1>8, <1>9, <1>10, <1>11 DEF Begun

\* The turn of a block's first instruction.
LEMMA OpenTurn ==
  ASSUME NEW v, NEW w, NEW g, NEW i, NEW f, NEW t, NEW x, Situation(v, w, g, i, f, t, x), Opens(i),
         NEW fs, fs = FS(g, w), NEW m \in Nat, t = m + 1, NEW c, Lifo(c, fs, m),
         Lower(x.stk, Len(x.stk) - Len(Pops(i)), c.stk),
         NEW r, r = (IF g[t].res = Void THEN 0 ELSE c.next[g[t].res]), NEW h, Entered(g, h, t, r, Len(c.stk)),
         NEW a, a = IF g[t].res = Void THEN c ELSE Allocate_register(c, g[t].res)
  PROVE  Continues(v, w, g, i, f, t, h, a)
<1>1. /\ Settled(v, w, g, t) /\ IsValid(v, i, f) /\ Usual(v, i, f) /\ StmtAt(w, g, i, t) /\ Twins(g, t)
      /\ t \in 1 .. Len(g) /\ GraphOK(g) /\ WellFormed(i) /\ PlainForms
  BY DEF Situation, Right
<1>2. i.op \notin {"End", "Else"} /\ i.op # "Return" /\ i.op # "End" /\ i.op # "Else"
  BY DEF Opens
<1>3. Unmarked(x) = x /\ Above(TypesOf(v.stk), Bases(v.ctl), Consumed(i, f))
  BY ONLY <1>2, Situation(v, w, g, i, f, t, x), fs = FS(g, w), OperandsOnTop
<1>4. PICK k : Ready(v, w, g, i, t, x, fs, k)
  BY ONLY <1>3, Situation(v, w, g, i, f, t, x), fs = FS(g, w), SitReady
<1>5. /\ VTyped(v) /\ Fit(v, fs, x, k) /\ g \in Seq(Stmts) /\ t \in Nat /\ t \in 1 .. Len(g) + 1 /\ g[t].op = i.op
  BY ONLY <1>4 DEF Ready
<1>6. Above(TypesOf(v.stk), Bases(v.ctl), Pops(i))
  BY ONLY <1>2, <1>3 DEF Consumed
<1>7. PICK z : z = Len(c.stk) /\ Entered(g, h, t, r, z)
  OBVIOUS
<1>8. Begun(g, h, t, r, z)
  <2>1. g[t].op \in {"Block", "Loop", "If"}
    BY ONLY <1>5, Opens(i) DEF Opens
  <2> QED
    BY ONLY <2>1, <1>1, <1>7, EnteredGraph
<1>9. PICK q : q = [res |-> g[t].res, reg |-> r, size |-> z]
  OBVIOUS
<1>10. /\ Agree(g, h, Len(g)) /\ \A j \in 1 .. t - 1 : Proj(h[j]) = Proj(g[j])
       /\ q = Proj(h[t]) /\ Twins(h, t + 1)
  BY ONLY <1>8, <1>9 DEF Begun
<1>11. g[t].res \in Types \cup {Void}
  BY ONLY <1>1, <1>5, StmtFields
<1>12. c.stk \in Seq(Regs) /\ c.next \in [Types -> Nat]
  BY ONLY Lifo(c, fs, m) DEF Lifo, LifoTyped
<1>13. q \in Frames /\ q.size = z
  <2>1. r \in Nat
    BY ONLY <1>11, <1>12, r = (IF g[t].res = Void THEN 0 ELSE c.next[g[t].res])
  <2>2. z \in Nat
    BY ONLY <1>7, <1>12, LenProperties
  <2> QED
    BY ONLY <2>1, <2>2, <1>9, <1>11 DEF Frames
<1>14. PICK gs : gs = Append(fs, q)
  OBVIOUS
<1>15. Lifo(a, gs, m + 1) /\ a.stk = c.stk
  <2>1. PICK ty \in Types \cup {Void} : ty = g[t].res
    BY ONLY <1>11
  <2>2. gs = Append(fs, [res |-> ty, reg |-> r, size |-> Len(c.stk)])
    BY ONLY <2>1, <1>7, <1>9, <1>14
  <2>3. r = (IF ty = Void THEN 0 ELSE c.next[ty])
    BY ONLY <2>1, r = (IF g[t].res = Void THEN 0 ELSE c.next[g[t].res])
  <2>4. a = IF ty = Void THEN c ELSE Allocate_register(c, ty)
    BY ONLY <2>1, a = IF g[t].res = Void THEN c ELSE Allocate_register(c, g[t].res)
  <2>5. Reserves(c, fs, ty, r, a, gs)
    BY ONLY <2>2, <2>3, <2>4 DEF Reserves
  <2> QED
    BY ONLY <2>5, Lifo(c, fs, m), m \in Nat, ty \in Types \cup {Void}, ReserveLifo
<1>16. FS(h, Append(w, t)) = gs
  <2>1. FS(h, Append(w, t)) = Append(FS(g, w), q)
    <3>1. Settled(v, w, g, t)
      BY ONLY <1>1
    <3>2. t \in Nat /\ t \in 1 .. Len(g) + 1 /\ g \in Seq(Stmts)
      BY ONLY <1>5
    <3>3. q \in Frames /\ q = Proj(h[t]) /\ \A j \in 1 .. t - 1 : Proj(h[j]) = Proj(g[j])
      BY ONLY <1>10, <1>13
    <3> QED
      BY ONLY <3>1, <3>2, <3>3, FSOpen
  <2> QED
    BY ONLY <2>1, <1>14, fs = FS(g, w)
<1>17. PICK u : u = Validated(v, i, f)
  OBVIOUS
<1>18. OpenNext(v, i, u)
  <2>1. i.op = "Loop" => i.ty = Void
    BY ONLY <1>1, LoopIsVoid
  <2> QED
    BY ONLY <2>1, <1>1, <1>5, <1>17, Opens(i), OpenValid
<1>19. Fit(u, gs, a, m + 1)
  <2>1. q.size = Len(a.stk) /\ Lower(x.stk, Len(x.stk) - Len(Pops(i)), a.stk)
    BY ONLY <1>7, <1>13, <1>15, Lower(x.stk, Len(x.stk) - Len(Pops(i)), c.stk)
  <2> QED
    BY ONLY <2>1, <1>5, <1>6, <1>13, <1>14, <1>15, <1>18, StepOpen
<1>20. Unmarked(a) = a /\ a.ok = TRUE
  BY ONLY <1>15, LifoUnmarked
<1>21. Moved(w, i, t) = Append(w, t)
  BY ONLY Opens(i) DEF Moved, Opens
<1>22. Fit(Validated(v, i, f), FS(h, Moved(w, i, t)), Unmarked(a), t)
  BY ONLY <1>16, <1>17, <1>19, <1>20, <1>21, t = m + 1
<1> QED
  BY ONLY <1>10, <1>20, <1>22 DEF Continues

\* Block and loop.
LEMMA BlockTurn ==
  ASSUME NEW v, NEW w, NEW g, NEW i, NEW f, NEW t, NEW x, Situation(v, w, g, i, f, t, x),
         i.op \in {"Block", "Loop"},
         NEW r, r = (IF g[t].res = Void THEN 0 ELSE x.next[g[t].res]), NEW h, Entered(g, h, t, r, Len(x.stk)),
         NEW a, a = IF g[t].res = Void THEN x ELSE Allocate_register(x, g[t].res)
  PROVE  Continues(v, w, g, i, f, t, h, a)
<1>1. PICK fs : fs = FS(g, w)
  OBVIOUS
<1>2. i.op # "End" /\ Opens(i) /\ Pops(i) = << >>
  BY DEF Opens, Pops
<1>3. PICK m \in Nat : t = m + 1 /\ Lifo(x, fs, m)
  BY ONLY <1>1, <1>2, Situation(v, w, g, i, f, t, x), SitStack
<1>4. Lower(x.stk, Len(x.stk) - Len(Pops(i)), x.stk)
  <2>1. x.stk \in Seq(Regs)
    BY ONLY <1>3 DEF Lifo, LifoTyped
  <2>2. Len(x.stk) \in Nat
    BY ONLY <2>1, LenProperties
  <2>3. Len(<< >>) = 0
    OBVIOUS
  <2>4. Len(x.stk) - Len(Pops(i)) = Len(x.stk)
    BY ONLY <2>2, <2>3, <1>2
  <2> QED
    BY ONLY <2>1, <2>4 DEF Lower, IsSeq
<1> QED
  BY ONLY <1>1, <1>2, <1>3, <1>4, Situation(v, w, g, i, f, t, x), m \in Nat,
          r = (IF g[t].res = Void THEN 0 ELSE x.next[g[t].res]), Entered(g, h, t, r, Len(x.stk)),
          a = IF g[t].res = Void THEN x ELSE Allocate_register(x, g[t].res), OpenTurn

\* If: the condition is popped first.
LEMMA IfTurn ==
  ASSUME NEW v, NEW w, NEW g, NEW i, NEW f, NEW t, NEW x, Situation(v, w, g, i, f, t, x), i.op = "If",
         NEW c, c = Pop_wasm_stk(x, "i32"),
         NEW r, r = (IF g[t].res = Void THEN 0 ELSE c.next[g[t].res]), NEW h, Entered(g, h, t, r, Len(c.stk)),
         NEW a, a = IF g[t].res = Void THEN c ELSE Allocate_register(c, g[t].res)
  PROVE  Continues(v, w, g, i, f, t, h, a)
<1>1. PICK fs : fs = FS(g, w)
  OBVIOUS
<1>2. i.op # "End" /\ Opens(i) /\ Pops(i) = <<"i32">> /\ i.op \notin {"End", "Else"} /\ Consumed(i, f) = <<"i32">>
  BY DEF Opens, Pops, Consumed
<1>3. PICK m \in Nat : t = m + 1 /\ Lifo(x, fs, m)
  BY ONLY <1>1, <1>2, Situation(v, w, g, i, f, t, x), SitStack
<1>4. PICK b : b = x /\ Lifo(b, fs, m) /\ b.stk = x.stk /\ c = Pop_wasm_stk(b, "i32")
  BY ONLY <1>3, c = Pop_wasm_stk(x, "i32")
<1>5. Lifo(c, fs, m) /\ Lower(x.stk, Len(x.stk) - 1, c.stk)
  <2>1. "i32" = Void \/ "i32" = "i32"
    OBVIOUS
  <2> QED
    BY ONLY <2>1, <1>1, <1>2, <1>3, <1>4, Situation(v, w, g, i, f, t, x), m \in Nat, OnePop
<1>6. Len(<<"i32">>) = 1
  OBVIOUS
<1>7. Lower(x.stk, Len(x.stk) - Len(Pops(i)), c.stk)
  BY ONLY <1>2, <1>5, <1>6
<1> QED
  BY ONLY <1>1, <1>2, <1>3, <1>5, <1>7, Situation(v, w, g, i, f, t, x), m \in Nat,
          r = (IF g[t].res = Void THEN 0 ELSE c.next[g[t].res]), Entered(g, h, t, r, Len(c.stk)),
          a = IF g[t].res = Void THEN c ELSE Allocate_register(c, g[t].res), OpenTurn

\* The part of the operand stack that belongs to the innermost block.
LEMMA OwnSeq ==
  ASSUME NEW v, VTyped(v), v.ctl # << >>
  PROVE  Own(v) \in Seq(VElems)
<1>1. v.stk \in Seq(VElems) /\ v.ctl \in Seq(VFrames)
  BY DEF VTyped
<1>2. Len(v.ctl) \in Nat \ {0}
  BY ONLY <1>1, v.ctl # << >>, EmptySeq
<1>3. InnerFrame(v) \in VFrames
  <2>1. Len(v.ctl) \in 1 .. Len(v.ctl)
    BY ONLY <1>2
  <2>2. v.ctl[Len(v.ctl)] \in VFrames
    BY ONLY <2>1, <1>1, ElementOfSeq
  <2> QED
    BY ONLY <2>2 DEF InnerFrame, Last
<1>4. PICK b \in Nat : b = InnerFrame(v).base
  BY ONLY <1>3 DEF VFrames
<1>5. PICK m \in Nat : m = Len(v.stk)
  BY ONLY <1>1, LenProperties
<1>6. \A k \in b + 1 .. m : v.stk[k] \in VElems
  <2>1. \A k \in b + 1 .. m : k \in 1 .. m
    OBVIOUS
  <2>2. \A k \in 1 .. m : v.stk[k] \in VElems
    BY ONLY <1>1, <1>5, ElementOfSeq
  <2> QED
    BY ONLY <2>1, <2>2
<1>7. b + 1 \in Int /\ m \in Int
  OBVIOUS
<1>8. SubSeq(v.stk, b + 1, m) \in Seq(VElems)
  BY ONLY <1>6, <1>7, SubSeqProperties
<1> QED
  BY ONLY <1>4, <1>5, <1>8, v.ctl # << >> DEF Own

\* Where a block or its first part ends its result is on the operand stack.
LEMMA ResultAbove ==
  ASSUME NEW v, VTyped(v), v.ctl # << >>, NEW i, i.op \in {"End", "Else"}, NEW f, IsValid(v, i, f), Usual(v, i, f),
         NEW res, res = InnerFrame(v).res, res # Void, PlainForms, ~v.trap
  PROVE  Above(TypesOf(v.stk), Bases(v.ctl), <<res>>)
<1>1. Closes(v, res)
  BY DEF IsValid
<1>2. v.dead => HasTop(v, <<res>>)
  <2>1. Result(res) = <<res>>
    BY ONLY res # Void DEF Result
  <2>2. "deadvalue" \notin Unusual
    BY DEF PlainForms
  <2> QED
    BY ONLY <2>1, <2>2, Usual(v, i, f), ~v.trap, v.ctl # << >>, res = InnerFrame(v).res DEF Usual
<1>3. IsSeq(<<res>>) /\ Len(<<res>>) = 1
  BY ONLY ShortSeqs
<1>4. TypesOf(Own(v)) = <<res>> => HasTop(v, <<res>>)
  <2> SUFFICES ASSUME TypesOf(Own(v)) = <<res>> PROVE HasTop(v, <<res>>)
    OBVIOUS
  <2>1. Own(v) \in Seq(VElems)
    BY ONLY VTyped(v), v.ctl # << >>, OwnSeq
  <2>2. Len(TypesOf(Own(v))) = Len(Own(v))
    BY ONLY <2>1, TypesAre
  <2>3. Len(<<res>>) <= Len(Own(v))
    BY ONLY <2>2, <1>3, TypesOf(Own(v)) = <<res>>
  <2>4. PICK rs : rs = Reverse(<<res>>)
    OBVIOUS
  <2>5. Len(rs) = 1
    <3>1. rs = [k \in 1 .. 1 |-> <<res>>[(1 - k) + 1]]
      BY ONLY <2>4, <1>3 DEF Reverse
    <3>2. Len([k \in 1 .. 1 |-> <<res>>[(1 - k) + 1]]) = 1
      OBVIOUS
    <3> QED
      BY ONLY <3>1, <3>2
  <2>6. IsPrefix(rs, rs)
    BY ONLY <2>5 DEF IsPrefix
  <2>7. IsSuffix(<<res>>, TypesOf(Own(v)))
    BY ONLY <2>4, <2>6, TypesOf(Own(v)) = <<res>> DEF IsSuffix
  <2> QED
    BY ONLY <2>3, <2>7 DEF HasTop
<1>5. HasTop(v, <<res>>)
  <2>1. Result(res) = <<res>>
    BY ONLY res # Void DEF Result
  <2> QED
    BY ONLY <2>1, <1>1, <1>2, <1>4 DEF Closes
<1> QED
  BY ONLY <1>3, <1>5, VTyped(v), TopAbove

\* So it is on top of the converter's stack.
LEMMA ResultOnTop ==
  ASSUME NEW v, NEW w, NEW g, NEW i, NEW f, NEW t, NEW x, Situation(v, w, g, i, f, t, x),
         i.op \in {"End", "Else"}, v.ctl # << >>, ~IsUnreachable(x), NEW y, y = Unmarked(x), NEW fs, fs = FS(g, w),
         NEW res, res = g[Last(w)].res, res # Void
  PROVE  /\ OwnElems(y, fs, 1) /\ Len(y.stk) \in Nat /\ y.stk[Len(y.stk)].ty = res
<1>1. Settled(v, w, g, t) /\ IsValid(v, i, f) /\ Usual(v, i, f) /\ PlainForms /\ ~v.trap
  BY DEF Situation, Right
<1>2. PICK m : Ready(v, w, g, i, t, y, fs, m)
  BY ONLY Situation(v, w, g, i, f, t, x), y = Unmarked(x), fs = FS(g, w), SitReady
<1>3. VTyped(v) /\ Fit(v, fs, y, m)
  BY ONLY <1>2 DEF Ready
<1>4. res = InnerFrame(v).res
  BY ONLY <1>1, v.ctl # << >>, res = g[Last(w)].res, InnerBlock
<1>5. Above(TypesOf(v.stk), Bases(v.ctl), <<res>>)
  BY ONLY <1>1, <1>3, <1>4, v.ctl # << >>, i.op \in {"End", "Else"}, res # Void, ResultAbove
<1>6. OnTop(y, fs, <<res>>)
  BY ONLY <1>3, <1>5, AboveOnTop
<1>7. Len(<<res>>) = 1 /\ <<res>>[1] = res /\ 1 \in 1 .. 1
  OBVIOUS
<1>8. OwnElems(y, fs, 1) /\ Len(y.stk) \in Nat /\ y.stk[Len(y.stk) - 1 + 1].ty = res
  BY ONLY <1>6, <1>7 DEF OnTop
<1>9. Len(y.stk) - 1 + 1 = Len(y.stk)
  BY ONLY <1>8
<1> QED
  BY ONLY <1>8, <1>9

\* Else: the value of the first part has the type of the if.
LEMMA ElseTurn ==
  ASSUME NEW v, NEW w, NEW g, NEW i, NEW f, NEW t, NEW x, Situation(v, w, g, i, f, t, x), i.op = "Else",
         NEW a, a = [x EXCEPT !.ok = @ /\ (g[t].res = Void \/ x.stk = << >> \/ Last(x.stk).ty = g[t].res)]
  PROVE  Continues(v, w, g, i, f, t, g, a)
<1>1. PICK fs : fs = FS(g, w)
  OBVIOUS
<1>2. /\ Settled(v, w, g, t) /\ IsValid(v, i, f) /\ StmtAt(w, g, i, t) /\ Twins(g, t) /\ SameReg(g, t)
      /\ GraphOK(g) /\ t \in Nat \ {0} /\ t \in 1 .. Len(g) /\ ~IsUnreachable(x)
  BY DEF Situation, Right
<1>3. Unmarked(x) = x
  BY ONLY <1>2 DEF Unmarked
<1>4. PICK m : Ready(v, w, g, i, t, x, fs, m)
  BY ONLY <1>1, <1>3, Situation(v, w, g, i, f, t, x), SitReady
<1>5. /\ VTyped(v) /\ Fit(v, fs, x, m) /\ Lifo(x, fs, m) /\ m \in Nat /\ t = m + 1 /\ StmtOK(g, t)
  BY ONLY <1>4 DEF Ready
<1>6. v.ctl # << >>
  BY <1>2 DEF IsValid
<1>7. g[t].op = "Else" /\ g[t].els = Last(w) /\ g[t].res = g[Last(w)].res
  BY ONLY <1>2, i.op = "Else" DEF StmtAt
<1>8. a = x
  <2>1. PICK P : P = (g[t].res = Void \/ x.stk = << >> \/ Last(x.stk).ty = g[t].res)
    OBVIOUS
  <2>2. P = TRUE
    <3>1. CASE g[t].res = Void
      BY ONLY <2>1, <3>1
    <3>2. CASE g[t].res # Void
      <4>1. PICK res : res = g[Last(w)].res
        OBVIOUS
      <4>2. res # Void
        BY ONLY <3>2, <1>7, <4>1
      <4>3. PICK y : y = Unmarked(x)
        OBVIOUS
      <4>4. i.op \in {"End", "Else"}
        OBVIOUS
      <4>5. y.stk[Len(y.stk)].ty = res
        BY ONLY <4>1, <4>2, <4>3, <4>4, <1>1, <1>2, <1>6, Situation(v, w, g, i, f, t, x), ResultOnTop
      <4> QED
        BY ONLY <2>1, <4>1, <4>3, <4>5, <1>3, <1>7 DEF Last
    <3> QED
      BY ONLY <3>1, <3>2
  <2>3. a = [x EXCEPT !.ok = @ /\ P]
    BY ONLY <2>1, a = [x EXCEPT !.ok = @ /\ (g[t].res = Void \/ x.stk = << >> \/ Last(x.stk).ty = g[t].res)]
  <2> QED
    BY ONLY <2>2, <2>3, <1>5, OkSame
<1>9. PICK u : u = Validated(v, i, f)
  OBVIOUS
<1>10. ElseNext(v, u)
  BY ONLY <1>5, <1>6, <1>9, i.op = "Else", ElseValid
<1>11. Fit(u, fs, x, t)
  <2>1. Lifo(x, fs, t)
    BY ONLY <1>5, LifoLater
  <2> QED
    BY ONLY <2>1, <1>5, <1>6, <1>10, StepElse
<1>12. Proj(g[t]) = Proj(g[Last(w)])
  <2>1. Last(w) \in 1 .. t - 1 /\ g[Last(w)].op = "If" /\ g[Last(w)].els = t
    <3>1. Last(w) \in 1 .. t - 1
      BY ONLY <1>2, <1>6, InnerBlock
    <3> QED
      BY ONLY <3>1, <1>5, <1>7 DEF StmtOK
  <2>2. t # 0
    BY ONLY <1>2
  <2>3. g[t].reg = g[Last(w)].reg
    BY ONLY <2>1, <2>2, <1>2 DEF SameReg
  <2>4. g[t].size = g[Last(w)].size
    BY ONLY <2>1, <2>2, <1>2 DEF Twins
  <2> QED
    BY ONLY <2>3, <2>4, <1>7 DEF Proj
<1>13. Moved(w, i, t) = Append(Front(w), t)
  BY ONLY i.op = "Else" DEF Moved, Opens
<1>14. FS(g, Append(Front(w), t)) = fs
  <2>1. t \in Nat
    BY ONLY <1>2
  <2> QED
    BY ONLY <2>1, <1>1, <1>2, <1>6, <1>12, FSElse
<1>15. Twins(g, t + 1)
  <2>1. t \in Nat /\ g[t].op # "If"
    BY ONLY <1>2, <1>7
  <2> QED
    BY ONLY <2>1, <1>2, TwinsNext
<1>16. Agree(g, g, Len(g)) /\ x.ok = TRUE
  BY ONLY <1>5, AgreeSelf, LifoUnmarked
<1>17. Fit(Validated(v, i, f), FS(g, Moved(w, i, t)), Unmarked(x), t)
  BY ONLY <1>3, <1>9, <1>11, <1>13, <1>14
<1> QED
  BY ONLY <1>8, <1>15, <1>16, <1>17 DEF Continues

\* The end of a block: what the block found and its result are on the stack.
LEMMA CloseTurn ==
  ASSUME NEW v, NEW w, NEW g, NEW i, NEW f, NEW t, NEW x, Situation(v, w, g, i, f, t, x), i.op = "End",
         v.ctl # << >>, NEW y, y = Unmarked(x), NEW fs, fs = FS(g, w), NEW m \in Nat, t = m + 1,
         NEW c, Lifo(c, fs, m), NEW n \in Nat, Lower(y.stk, n, c.stk), NEW p, p = g[g[t].parent], NEW a, a = Close(c, p)
  PROVE  Continues(v, w, g, i, f, t, g, a)
<1>1. /\ Settled(v, w, g, t) /\ StmtAt(w, g, i, t) /\ Twins(g, t) /\ t \in Nat
  BY DEF Situation, Right
<1>2. PICK k : Ready(v, w, g, i, t, y, fs, k)
  BY ONLY Situation(v, w, g, i, f, t, x), y = Unmarked(x), fs = FS(g, w), SitReady
<1>3. /\ VTyped(v) /\ Fit(v, fs, y, k) /\ FrameList(v, w, g, fs) /\ k \in Nat /\ t = k + 1 /\ Room(k)
      /\ g \in Seq(Stmts) /\ t \in 1 .. Len(g) + 1 /\ g[t].op = i.op
  BY ONLY <1>2 DEF Ready
<1>4. Room(m)
  <2>1. k = m
    BY ONLY <1>3, t = m + 1, m \in Nat
  <2> QED
    BY ONLY <2>1, <1>3
<1>5. PICK l \in Nat : l = Len(v.ctl) /\ Last(w) = w[l + 1] /\ l \in 1 .. l
  <2>1. Len(v.ctl) \in Nat /\ Last(w) = w[Len(v.ctl) + 1] /\ (v.ctl = << >> <=> Len(v.ctl) = 0)
    BY ONLY <1>1, SettledParts
  <2>2. Len(v.ctl) \in 1 .. Len(v.ctl)
    BY ONLY <2>1, v.ctl # << >>
  <2> QED
    BY ONLY <2>1, <2>2
<1>6. FS(g, Front(w)) = Front(fs) /\ fs # << >>
  BY ONLY <1>1, <1>3, v.ctl # << >>, fs = FS(g, w), FSEnd
<1>7. PICK q : q = Last(fs)
  OBVIOUS
<1>8. q = fs[Len(fs)] /\ q = Proj(p) /\ q.res = v.ctl[Len(v.ctl)].res
  <2>1. Len(fs) = l /\ fs[l] = Proj(g[w[l + 1]]) /\ fs[l].res = v.ctl[l].res
    BY ONLY <1>3, <1>5 DEF FrameList
  <2>2. g[t].parent = Last(w)
    BY <1>1 DEF StmtAt
  <2> QED
    BY ONLY <2>1, <2>2, <1>5, <1>7, p = g[g[t].parent] DEF Last
<1>9. p.size = q.size /\ p.res = q.res /\ p.reg = q.reg
  BY ONLY <1>8 DEF Proj
<1>10. Lifo(a, Front(fs), m) /\ Closed(c, q, a)
  BY ONLY <1>4, <1>6, <1>7, <1>9, m \in Nat, Lifo(c, fs, m), a = Close(c, p), CloseLifo
<1>11. q.size \in Nat /\ q.size <= n
  <2>1. fs \in Seq(Frames) /\ c.stk \in Seq(Regs)
    BY ONLY Lifo(c, fs, m) DEF Lifo, LifoTyped
  <2>2. Len(fs) = l
    BY ONLY <1>3, <1>5 DEF FrameList
  <2>3. fs[l] \in Frames
    BY ONLY <2>1, <2>2, <1>5, ElementOfSeq
  <2>4. q.size \in Nat
    BY ONLY <2>2, <2>3, <1>8 DEF Frames
  <2>5. q.size <= Len(c.stk) - 0
    BY ONLY <2>2, <1>5, <1>8, Lifo(c, fs, m) DEF Lifo, OwnElems
  <2>6. Len(c.stk) = n
    BY ONLY Lower(y.stk, n, c.stk) DEF Lower
  <2> QED
    BY ONLY <2>4, <2>5, <2>6, n \in Nat
<1>12. Ended(y.stk, q, a.stk)
  <2>1. a.stk \in Seq(Regs)
    BY ONLY <1>10 DEF Lifo, LifoTyped
  <2>2. CASE q.res = Void
    <3>1. Lower(c.stk, q.size, a.stk)
      BY ONLY <2>2, <1>10 DEF Closed
    <3>2. Lower(y.stk, q.size, a.stk)
      BY ONLY <3>1, <1>11, n \in Nat, Lower(y.stk, n, c.stk), LowerLower
    <3> QED
      BY ONLY <2>1, <2>2, <3>2 DEF Ended
  <2>3. CASE q.res # Void
    <3>1. PICK s \in Seq(Regs) : Lower(c.stk, q.size, s) /\ a.stk = Append(s, Elem("TEMP", q.res, q.reg))
      BY ONLY <2>3, <1>10 DEF Closed
    <3>2. Lower(y.stk, q.size, s)
      BY ONLY <3>1, <1>11, n \in Nat, Lower(y.stk, n, c.stk), LowerLower
    <3> QED
      BY ONLY <2>3, <3>1, <3>2, s \in Seq(Regs) DEF Ended
  <2> QED
    BY ONLY <2>2, <2>3
<1>13. PICK u : u = Validated(v, i, f)
  OBVIOUS
<1>14. EndNext(v, u)
  BY ONLY <1>3, <1>13, i.op = "End", v.ctl # << >>, EndValid
<1>15. PICK gs : gs = Front(fs)
  OBVIOUS
<1>16. Lifo(a, gs, t)
  <2>1. Lifo(a, gs, m)
    BY ONLY <1>10, <1>15
  <2>2. Lifo(a, gs, m + 1)
    BY ONLY <2>1, m \in Nat, LifoLater
  <2> QED
    BY ONLY <2>2, t = m + 1
<1>17. Fit(u, gs, a, t)
  BY ONLY <1>3, <1>8, <1>12, <1>14, <1>15, <1>16, v.ctl # << >>, StepEnd
<1>18. Moved(w, i, t) = Front(w)
  BY ONLY i.op = "End" DEF Moved, Opens
<1>19. Unmarked(a) = a /\ a.ok = TRUE
  BY ONLY <1>16, LifoUnmarked
<1>20. Twins(g, t + 1) /\ Agree(g, g, Len(g))
  <2>1. g[t].op # "If"
    BY <1>3
  <2> QED
    BY ONLY <2>1, <1>1, TwinsNext, AgreeSelf
<1>21. Fit(Validated(v, i, f), FS(g, Moved(w, i, t)), Unmarked(a), t)
  BY ONLY <1>6, <1>13, <1>15, <1>17, <1>18, <1>19
<1> QED
  BY ONLY <1>19, <1>20, <1>21 DEF Continues

\* The end of a block whose value is moved to its register, or of a block without one.
LEMMA EndTurn ==
  ASSUME NEW v, NEW w, NEW g, NEW i, NEW f, NEW t, NEW x, Situation(v, w, g, i, f, t, x), i.op = "End",
         v.ctl # << >>, NEW y, y = Unmarked(x), NEW p, p = g[g[t].parent],
         NEW c, c = y \/ (~IsUnreachable(x) /\ p.res # Void /\ c = Pop_wasm_stk(y, p.res)), NEW a, a = Close(c, p)
  PROVE  Continues(v, w, g, i, f, t, g, a)
<1>1. PICK fs : fs = FS(g, w)
  OBVIOUS
<1>2. PICK m : Ready(v, w, g, i, t, y, fs, m)
  BY ONLY <1>1, Situation(v, w, g, i, f, t, x), y = Unmarked(x), SitReady
<1>3. m \in Nat /\ t = m + 1 /\ Room(m) /\ Lifo(y, fs, m)
  BY ONLY <1>2 DEF Ready
<1>4. y.stk \in Seq(Regs)
  BY ONLY <1>3 DEF Lifo, LifoTyped
<1>5. \E n \in Nat : Lifo(c, fs, m) /\ Lower(y.stk, n, c.stk)
  <2>1. CASE c = y
    <3>1. Len(y.stk) \in Nat
      BY ONLY <1>4, LenProperties
    <3>2. Lower(y.stk, Len(y.stk), y.stk)
      BY ONLY <1>4 DEF Lower, IsSeq
    <3> QED
      BY ONLY <2>1, <3>1, <3>2, <1>3
  <2>2. CASE ~IsUnreachable(x) /\ p.res # Void /\ c = Pop_wasm_stk(y, p.res)
    <3>1. g[t].parent = Last(w)
      BY DEF Situation, Right, StmtAt
    <3>2. PICK res : res = g[Last(w)].res
      OBVIOUS
    <3>3. res # Void /\ i.op \in {"End", "Else"} /\ c = Pop_wasm_stk(y, res)
      BY <2>2, <3>1, <3>2
    <3>4. OwnElems(y, fs, 1) /\ Len(y.stk) \in Nat /\ y.stk[Len(y.stk)].ty = res
      BY ONLY <2>2, <3>2, <3>3, <1>1, Situation(v, w, g, i, f, t, x), v.ctl # << >>, y = Unmarked(x), ResultOnTop
    <3>5. PICK l : l = Len(y.stk)
      OBVIOUS
    <3>6. OwnElems(y, fs, 0 + 1) /\ 0 \in Nat /\ (res = Void \/ res = y.stk[Len(y.stk)].ty)
      <4>1. 0 + 1 = 1 /\ 0 \in Nat
        OBVIOUS
      <4> QED
        BY ONLY <3>4, <4>1
    <3>7. Lifo(c, fs, m) /\ Lower(y.stk, l - 1, c.stk) /\ l \in Nat \ {0}
      BY ONLY <3>3, <3>5, <3>6, <1>3, PopNext
    <3>8. l - 1 \in Nat
      BY ONLY <3>7
    <3> QED
      BY ONLY <3>7, <3>8
  <2> QED
    BY ONLY <2>1, <2>2, c = y \/ (~IsUnreachable(x) /\ p.res # Void /\ c = Pop_wasm_stk(y, p.res))
<1>6. PICK n \in Nat : Lifo(c, fs, m) /\ Lower(y.stk, n, c.stk)
  BY ONLY <1>5
<1> QED
  BY ONLY <1>1, <1>3, <1>6, n \in Nat, Situation(v, w, g, i, f, t, x), i.op = "End", v.ctl # << >>,
          y = Unmarked(x), p = g[g[t].parent], a = Close(c, p), CloseTurn

\* The end of the function: at most the result is popped.
LEMMA LastTurn ==
  ASSUME NEW v, NEW w, NEW g, NEW i, NEW f, NEW t, NEW x, Situation(v, w, g, i, f, t, x), i.op = "End",
         v.ctl = << >>, IsSeq(x.stk), NEW a,
         a = x \/ (/\ ~ \E k \in DOMAIN x.stk : x.stk[k].kind = "UNREACHABLE"
                   /\ Len(x.stk) = 1 /\ a = Pop_wasm_stk(x, Void))
  PROVE  Continues(v, w, g, i, f, t, g, a)
<1>1. PICK fs, y : fs = FS(g, w) /\ y = Unmarked(x)
  OBVIOUS
<1>2. PICK m : Ready(v, w, g, i, t, y, fs, m)
  BY ONLY <1>1, Situation(v, w, g, i, f, t, x), SitReady
<1>3. m \in Nat /\ Room(m) /\ Lifo(y, fs, m) /\ FrameList(v, w, g, fs) /\ g[t].op = i.op
  BY ONLY <1>2 DEF Ready
<1>4. a.ok = TRUE
  <2>1. CASE a = x
    <3>1. IsAl(y) /\ y.ok = TRUE
      BY ONLY <1>3 DEF Lifo, LifoTyped
    <3>2. y = x \/ y = [x EXCEPT !.stk = Front(@)]
      BY ONLY <1>1 DEF Unmarked
    <3>3. y = x => x.ok = TRUE
      BY ONLY <3>1
    <3>4. y = [x EXCEPT !.stk = Front(@)] => x.ok = TRUE
      <4> SUFFICES ASSUME y = [x EXCEPT !.stk = Front(@)] PROVE x.ok = TRUE
        OBVIOUS
      <4>1. DOMAIN y = {"stk", "ok", "io", "size", "next"}
        BY ONLY <3>1 DEF IsAl
      <4>2. DOMAIN y = DOMAIN x
        BY ONLY y = [x EXCEPT !.stk = Front(@)]
      <4>3. "ok" \in DOMAIN x
        BY ONLY <4>1, <4>2
      <4>4. y.ok = x.ok
        BY ONLY <4>3, y = [x EXCEPT !.stk = Front(@)]
      <4> QED
        BY ONLY <4>4, <3>1
    <3> QED
      BY ONLY <2>1, <3>2, <3>3, <3>4
  <2>2. CASE /\ ~ \E k \in DOMAIN x.stk : x.stk[k].kind = "UNREACHABLE"
             /\ Len(x.stk) = 1 /\ a = Pop_wasm_stk(x, Void)
    <3>1. 1 \in DOMAIN x.stk
      BY <2>2 DEF IsSeq
    <3>2. x.stk[1].kind # "UNREACHABLE" /\ Last(x.stk) = x.stk[1]
      BY <2>2, <3>1 DEF Last
    <3>3. y = x
      BY ONLY <3>2, <1>1 DEF Unmarked, IsUnreachable
    <3>4. Len(fs) = 0
      <4>1. Len(<< >>) = 0
        OBVIOUS
      <4> QED
        BY ONLY <4>1, <1>3, v.ctl = << >> DEF FrameList
    <3>5. OwnElems(x, fs, 0 + 1)
      <4>1. 0 + 1 = 1 /\ 1 <= 1 /\ \A j \in 1 .. 0 : FALSE
        OBVIOUS
      <4> QED
        BY ONLY <4>1, <3>4, <2>2 DEF OwnElems
    <3>6. PICK l, ty : l = Len(x.stk) /\ ty = Void
      OBVIOUS
    <3>7. a = Pop_wasm_stk(x, ty) /\ 0 \in Nat /\ Lifo(x, fs, m)
      BY <2>2, <3>3, <3>6, <1>3
    <3>8. Lifo(a, fs, m)
      BY ONLY <3>5, <3>6, <3>7, <1>3, PopNext
    <3> QED
      BY ONLY <3>8 DEF Lifo, LifoTyped
  <2> QED
    BY <2>1, <2>2
<1>5. Twins(g, t + 1) /\ Agree(g, g, Len(g))
  <2>1. g[t].op # "If" /\ Twins(g, t) /\ t \in Nat
    BY <1>3 DEF Situation
  <2> QED
    BY ONLY <2>1, TwinsNext, AgreeSelf
<1> QED
  BY ONLY <1>4, <1>5, i.op = "End", v.ctl = << >> DEF Continues

-----------------------------------------------------------------------------
(* The actions.                                                            *)

\* What holds when an instruction is converted.
Converts(g, i, f, t, x) ==
  /\ PlainForms /\ EnoughRegisters /\ ConvInv /\ CodeInv /\ AbortInv /\ phase = "convert"
  /\ g = graph /\ i = Cur /\ f = fres /\ t = at /\ x = al

\* A turn that leaves the statements as they are.
LEMMA QuietAbort ==
  ASSUME NEW g, NEW i, NEW f, NEW t, NEW x, Converts(g, i, f, t, x), NEW a, NEW c, Turn(a, c), UNCHANGED graph,
         \A v, w : Situation(v, w, g, i, f, t, x) => Continues(v, w, g, i, f, t, g, a)
  PROVE  FollowInv'
<1>1. PICK h : h = graph'
  OBVIOUS
<1>2. /\ PlainForms /\ EnoughRegisters /\ ConvInv /\ CodeInv /\ AbortInv /\ phase = "convert"
      /\ g = graph /\ i = Cur /\ f = fres /\ t = at /\ x = al
  BY DEF Converts
<1>3. h = g
  BY <1>1, <1>2
<1>4. \A v, w : Situation(v, w, graph, Cur, fres, at, al) => Continues(v, w, graph, Cur, fres, at, h, a)
  BY ONLY <1>2, <1>3, \A v, w : Situation(v, w, g, i, f, t, x) => Continues(v, w, g, i, f, t, g, a)
<1> QED
  BY ONLY <1>1, <1>2, <1>4, Turn(a, c), TurnAbort

\* A turn that begins a block.
LEMMA GivingAbort ==
  ASSUME NEW g, NEW i, NEW f, NEW t, NEW x, Converts(g, i, f, t, x), NEW a, NEW c, Turn(a, c),
         NEW h, h = graph',
         \A v, w : Situation(v, w, g, i, f, t, x) => Continues(v, w, g, i, f, t, h, a)
  PROVE  FollowInv'
<1>1. /\ PlainForms /\ EnoughRegisters /\ ConvInv /\ CodeInv /\ AbortInv /\ phase = "convert"
      /\ g = graph /\ i = Cur /\ f = fres /\ t = at /\ x = al
  BY DEF Converts
<1>2. \A v, w : Situation(v, w, graph, Cur, fres, at, al) => Continues(v, w, graph, Cur, fres, at, h, a)
  BY ONLY <1>1, \A v, w : Situation(v, w, g, i, f, t, x) => Continues(v, w, g, i, f, t, h, a)
<1> QED
  BY ONLY <1>1, <1>2, Turn(a, c), h = graph', TurnAbort

\* Block, loop and if.
LEMMA OpenAbort ==
  ASSUME NEW g, NEW i, NEW f, NEW t, NEW x, Converts(g, i, f, t, x), Conv_block \/ Conv_if
  PROVE  FollowInv'
<1>1. g = graph /\ i = Cur /\ f = fres /\ t = at /\ x = al
  BY DEF Converts
<1>2. PICK h : h = graph'
  OBVIOUS
<1>3. CASE Conv_block
  <2>1. i.op \in {"Block", "Loop"} /\ Turn(Reserved(x, t), << >>) /\ OpenBlock(x, t)
    BY <1>1, <1>3 DEF Conv_block, Converting
  <2>2. PICK a, r, c : /\ a = Reserved(x, t) /\ c = << >>
                       /\ r = (IF g[t].res = Void THEN 0 ELSE x.next[g[t].res])
    OBVIOUS
  <2>3. a = IF g[t].res = Void THEN x ELSE Allocate_register(x, g[t].res)
    BY ONLY <1>1, <2>2 DEF Reserved
  <2>4. Entered(g, h, t, r, Len(x.stk))
    BY ONLY <1>1, <1>2, <2>1, <2>2 DEF OpenBlock, Entered
  <2>5. ASSUME NEW v, NEW w, Situation(v, w, g, i, f, t, x) PROVE Continues(v, w, g, i, f, t, h, a)
    BY ONLY Situation(v, w, g, i, f, t, x), <2>1, <2>2, <2>3, <2>4, BlockTurn
  <2>6. Turn(a, c)
    BY ONLY <2>1, <2>2
  <2> QED
    BY ONLY <1>2, <2>5, <2>6, Converts(g, i, f, t, x), GivingAbort
<1>4. CASE Conv_if
  <2>1. PICK b : b = Pop_wasm_stk(x, "i32")
    OBVIOUS
  <2>2. i.op = "If" /\ OpenBlock(b, t) /\ \E c : Turn(Reserved(b, t), c)
    BY <1>1, <1>4, <2>1 DEF Conv_if, Converting
  <2>3. PICK c : Turn(Reserved(b, t), c)
    BY ONLY <2>2
  <2>4. PICK a, r : /\ a = Reserved(b, t)
                    /\ r = (IF g[t].res = Void THEN 0 ELSE b.next[g[t].res])
    OBVIOUS
  <2>5. a = IF g[t].res = Void THEN b ELSE Allocate_register(b, g[t].res)
    BY ONLY <1>1, <2>4 DEF Reserved
  <2>6. Entered(g, h, t, r, Len(b.stk))
    BY ONLY <1>1, <1>2, <2>2, <2>4 DEF OpenBlock, Entered
  <2>7. ASSUME NEW v, NEW w, Situation(v, w, g, i, f, t, x) PROVE Continues(v, w, g, i, f, t, h, a)
    BY ONLY Situation(v, w, g, i, f, t, x), <2>1, <2>2, <2>4, <2>5, <2>6, IfTurn
  <2>8. Turn(a, c)
    BY ONLY <2>3, <2>4
  <2> QED
    BY ONLY <1>2, <2>7, <2>8, Converts(g, i, f, t, x), GivingAbort
<1> QED
  BY <1>3, <1>4

\* Else and branches.
LEMMA BranchAbort ==
  ASSUME NEW g, NEW i, NEW f, NEW t, NEW x, Converts(g, i, f, t, x),
         Conv_else \/ Conv_br \/ Conv_br_if \/ Conv_br_table
  PROVE  FollowInv'
<1>1. g = graph /\ i = Cur /\ f = fres /\ t = at /\ x = al
  BY DEF Converts
<1>2. UNCHANGED graph
  BY DEF Conv_else, Conv_br, Conv_br_if, Conv_br_table, Quiet
<1>3. CASE Conv_else
  <2>1. i.op = "Else" /\ \E c : Turn(Mov_checked(x, t), c)
    BY <1>1, <1>3 DEF Conv_else, Converting
  <2>2. PICK a : a = Mov_checked(x, t)
    OBVIOUS
  <2>3. PICK c : Turn(a, c)
    BY ONLY <2>1, <2>2
  <2>4. a = [x EXCEPT !.ok = @ /\ (g[t].res = Void \/ x.stk = << >> \/ Last(x.stk).ty = g[t].res)]
    <3>1. t # 0
      BY <1>1, TurnStart DEF Converts
    <3> QED
      BY ONLY <1>1, <2>2, <3>1 DEF Mov_checked
  <2>5. ASSUME NEW v, NEW w, Situation(v, w, g, i, f, t, x) PROVE Continues(v, w, g, i, f, t, g, a)
    BY ONLY Situation(v, w, g, i, f, t, x), <2>1, <2>4, ElseTurn
  <2> QED
    BY ONLY <1>2, <2>3, <2>5, Converts(g, i, f, t, x), QuietAbort
<1>4. CASE Conv_br
  <2>1. i.op = "Br" /\ \E c : Turn(InFunction(Mov_checked(x, Get_parent_stmt_for_branch(i.n[1]))), c)
    BY <1>1, <1>4 DEF Conv_br, Converting
  <2>2. PICK a : a = InFunction(Mov_checked(x, Get_parent_stmt_for_branch(i.n[1])))
    OBVIOUS
  <2>3. PICK c : Turn(a, c)
    BY ONLY <2>1, <2>2
  <2>4. ASSUME NEW v, NEW w, Situation(v, w, g, i, f, t, x) PROVE Continues(v, w, g, i, f, t, g, a)
    BY ONLY Situation(v, w, g, i, f, t, x), <2>1, <2>2, <1>1, BrTurn
  <2> QED
    BY ONLY <1>2, <2>3, <2>4, Converts(g, i, f, t, x), QuietAbort
<1>5. CASE Conv_br_if
  <2>1. PICK b : b = Pop_wasm_stk(x, "i32")
    OBVIOUS
  <2>2. i.op = "BrIf" /\ \E c : Turn(InFunction(Mov_checked(b, Get_parent_stmt_for_branch(i.n[1]))), c)
    BY <1>1, <1>5, <2>1 DEF Conv_br_if, Converting
  <2>3. PICK a : a = InFunction(Mov_checked(b, Get_parent_stmt_for_branch(i.n[1])))
    OBVIOUS
  <2>4. PICK c : Turn(a, c)
    BY ONLY <2>2, <2>3
  <2>5. ASSUME NEW v, NEW w, Situation(v, w, g, i, f, t, x) PROVE Continues(v, w, g, i, f, t, g, a)
    BY ONLY Situation(v, w, g, i, f, t, x), <2>1, <2>2, <2>3, <1>1, BrIfTurn
  <2> QED
    BY ONLY <1>2, <2>4, <2>5, Converts(g, i, f, t, x), QuietAbort
<1>6. CASE Conv_br_table
  <2>1. PICK b, ts : b = WithScratch(x) /\ ts = {Get_parent_stmt_for_branch(d) : d \in Range(i.n)}
    OBVIOUS
  <2>2. PICK y : y = Pop_wasm_stk(b, "i32")
    OBVIOUS
  <2>3. i.op = "BrTable" /\ \E c : Turn(InFunction([y EXCEPT !.ok = @ /\ \A z \in ts : Mov_checked(y, z).ok]), c)
    BY <1>1, <1>6, <2>1, <2>2 DEF Conv_br_table, Converting
  <2>4. PICK a : a = InFunction([y EXCEPT !.ok = @ /\ \A z \in ts : Mov_checked(y, z).ok])
    OBVIOUS
  <2>5. PICK c : Turn(a, c)
    BY ONLY <2>3, <2>4
  <2>6. ASSUME NEW v, NEW w, Situation(v, w, g, i, f, t, x) PROVE Continues(v, w, g, i, f, t, g, a)
    BY ONLY Situation(v, w, g, i, f, t, x), <2>1, <2>2, <2>3, <2>4, <1>1, BrTableTurn
  <2> QED
    BY ONLY <1>2, <2>5, <2>6, Converts(g, i, f, t, x), QuietAbort
<1> QED
  BY <1>3, <1>4, <1>5, <1>6

\* Instructions that only move values on the stack.
LEMMA SimpleAbort ==
  ASSUME NEW g, NEW i, NEW f, NEW t, NEW x, Converts(g, i, f, t, x),
         Conv_drop \/ Conv_nop \/ Conv_unreachable \/ Conv_local_get \/ Conv_local_set
  PROVE  FollowInv'
<1>1. g = graph /\ i = Cur /\ f = fres /\ t = at /\ x = al
  BY DEF Converts
<1>2. UNCHANGED graph
  BY DEF Conv_drop, Conv_nop, Conv_unreachable, Conv_local_get, Conv_local_set, Quiet
<1>3. CASE Conv_drop
  <2>1. i.op = "Drop" /\ Turn(Pop_wasm_stk(x, Void), << >>)
    BY <1>1, <1>3 DEF Conv_drop, Converting
  <2>2. PICK a, c, p, ty : a = Pop_wasm_stk(x, p) /\ c = << >> /\ p = Void /\ ty = i.ty
    OBVIOUS
  <2>3. Plain(i) /\ Consumed(i, f) = <<ty>> /\ Pushes(i) = << >> /\ (p = Void \/ p = ty) /\ Turn(a, c)
    BY <2>1, <2>2 DEF Plain, Opens, Consumed, Pops, Pushes
  <2>4. ASSUME NEW v, NEW w, Situation(v, w, g, i, f, t, x) PROVE Continues(v, w, g, i, f, t, g, a)
    BY ONLY Situation(v, w, g, i, f, t, x), <2>2, <2>3, DropTurn
  <2> QED
    BY ONLY <1>2, <2>3, <2>4, Converts(g, i, f, t, x), QuietAbort
<1>4. CASE Conv_nop
  <2>1. i.op = "Nop" /\ Turn(x, << >>)
    BY <1>1, <1>4 DEF Conv_nop, Converting
  <2>2. PICK c : Turn(x, c)
    BY ONLY <2>1
  <2>3. Plain(i) /\ Consumed(i, f) = << >> /\ Pushes(i) = << >>
    BY <2>1 DEF Plain, Opens, Consumed, Pops, Pushes
  <2>4. ASSUME NEW v, NEW w, Situation(v, w, g, i, f, t, x) PROVE Continues(v, w, g, i, f, t, g, x)
    BY ONLY Situation(v, w, g, i, f, t, x), <2>3, KeepTurn
  <2> QED
    BY ONLY <1>2, <2>2, <2>4, Converts(g, i, f, t, x), QuietAbort
<1>5. CASE Conv_unreachable
  <2>1. PICK a : a = Push(x, Elem("UNREACHABLE", "i32", 0))
    OBVIOUS
  <2>2. i.op = "Unreachable" /\ \E c : Turn(a, c)
    BY <1>1, <1>5, <2>1 DEF Conv_unreachable, Converting
  <2>3. PICK c : Turn(a, c)
    BY ONLY <2>2
  <2>4. ASSUME NEW v, NEW w, Situation(v, w, g, i, f, t, x) PROVE Continues(v, w, g, i, f, t, g, a)
    BY ONLY Situation(v, w, g, i, f, t, x), <2>1, <2>2, MarkTurn
  <2> QED
    BY ONLY <1>2, <2>3, <2>4, Converts(g, i, f, t, x), QuietAbort
<1>6. CASE Conv_local_get
  <2>1. PICK a : a = Push(x, Elem("LOCAL", Vars[i.n[1]], LocalReg(i.n[1])))
    OBVIOUS
  <2>2. i.op = "LocalGet" /\ \E c : Turn(a, c)
    BY <1>1, <1>6, <2>1 DEF Conv_local_get, Converting
  <2>3. PICK c : Turn(a, c)
    BY ONLY <2>2
  <2>4. ASSUME NEW v, NEW w, Situation(v, w, g, i, f, t, x) PROVE Continues(v, w, g, i, f, t, g, a)
    BY ONLY Situation(v, w, g, i, f, t, x), <2>1, <2>2, GetTurn
  <2> QED
    BY ONLY <1>2, <2>3, <2>4, Converts(g, i, f, t, x), QuietAbort
<1>7. CASE Conv_local_set
  <2>1. i.op \in {"LocalSet", "LocalTee"}
    BY <1>1, <1>7 DEF Conv_local_set, Converting
  <2>2. CASE i.op = "LocalSet"
    <3>1. PICK a, p, ty : a = Pop_wasm_stk(x, p) /\ p = Vars[i.n[1]] /\ ty = Vars[i.n[1]]
      OBVIOUS
    <3>2. \E c : Turn(a, c)
      BY <1>1, <1>7, <2>2, <3>1 DEF Conv_local_set
    <3>3. PICK c : Turn(a, c)
      BY ONLY <3>2
    <3>4. Plain(i) /\ Consumed(i, f) = <<ty>> /\ Pushes(i) = << >> /\ (p = Void \/ p = ty)
      BY <2>2, <3>1 DEF Plain, Opens, Consumed, Pops, Pushes
    <3>5. ASSUME NEW v, NEW w, Situation(v, w, g, i, f, t, x) PROVE Continues(v, w, g, i, f, t, g, a)
      BY ONLY Situation(v, w, g, i, f, t, x), <3>1, <3>4, DropTurn
    <3> QED
      BY ONLY <1>2, <3>3, <3>5, Converts(g, i, f, t, x), QuietAbort
  <2>3. CASE i.op = "LocalTee"
    <3>1. PICK a : a = [x EXCEPT !.ok = @ /\ Last(x.stk).ty = Vars[i.n[1]]]
      OBVIOUS
    <3>2. \E c : Turn(a, c)
      BY <1>1, <1>7, <2>3, <3>1 DEF Conv_local_set
    <3>3. PICK c : Turn(a, c)
      BY ONLY <3>2
    <3>4. ASSUME NEW v, NEW w, Situation(v, w, g, i, f, t, x) PROVE Continues(v, w, g, i, f, t, g, a)
      BY ONLY Situation(v, w, g, i, f, t, x), <2>3, <3>1, TeeTurn
    <3> QED
      BY ONLY <1>2, <3>3, <3>4, Converts(g, i, f, t, x), QuietAbort
  <2> QED
    BY ONLY <2>1, <2>2, <2>3
<1> QED
  BY <1>3, <1>4, <1>5, <1>6, <1>7

\* Operators, loads, stores, select, calls and returns.
LEMMA ValueAbort ==
  ASSUME NEW g, NEW i, NEW f, NEW t, NEW x, Converts(g, i, f, t, x),
         Conv_op \/ Conv_load \/ Conv_store \/ Conv_select \/ Conv_call \/ Conv_return
  PROVE  FollowInv'
<1>1. g = graph /\ i = Cur /\ f = fres /\ t = at /\ x = al
  BY DEF Converts
<1>2. UNCHANGED graph
  BY DEF Conv_op, Conv_load, Conv_store, Conv_select, Conv_call, Conv_return, Quiet
<1>3. CASE Conv_op
  <2>1. PICK b : b = PopAll(x, Expected(x, i))
    OBVIOUS
  <2>2. PICK a : a = IF Pushes(i) # << >> THEN Push_temp_reg(b, Pushes(i)[1]) ELSE b
    OBVIOUS
  <2>3. /\ i.op \in {"Const", "Binary", "Compare", "Eqz", "Convert", "GlobalGet", "GlobalSet", "MemorySize",
                     "MemoryGrow"}
        /\ \E c : Turn(a, c)
    BY <1>1, <1>3, <2>1, <2>2 DEF Conv_op, Converting
  <2>4. PICK c : Turn(a, c)
    BY ONLY <2>3
  <2>5. ASSUME NEW v, NEW w, Situation(v, w, g, i, f, t, x) PROVE Continues(v, w, g, i, f, t, g, a)
    BY ONLY Situation(v, w, g, i, f, t, x), <2>1, <2>2, <2>3, OpTurn
  <2> QED
    BY ONLY <1>2, <2>4, <2>5, Converts(g, i, f, t, x), QuietAbort
<1>4. CASE Conv_load
  <2>1. PICK b : b = WithScratch(x)
    OBVIOUS
  <2>2. PICK y : y = Pop_wasm_stk(b, "i32")
    OBVIOUS
  <2>3. PICK a : a = Push_temp_reg(y, i.ty)
    OBVIOUS
  <2>4. i.op = "Load" /\ \E c : Turn(a, c)
    BY <1>1, <1>4, <2>1, <2>2, <2>3 DEF Conv_load, Converting
  <2>5. PICK c : Turn(a, c)
    BY ONLY <2>4
  <2>6. ASSUME NEW v, NEW w, Situation(v, w, g, i, f, t, x) PROVE Continues(v, w, g, i, f, t, g, a)
    BY ONLY Situation(v, w, g, i, f, t, x), <2>1, <2>2, <2>3, <2>4, LoadTurn
  <2> QED
    BY ONLY <1>2, <2>5, <2>6, Converts(g, i, f, t, x), QuietAbort
<1>5. CASE Conv_store
  <2>1. PICK b : b = WithScratch(x)
    OBVIOUS
  <2>2. PICK a : a = PopAll(b, <<"i32", i.ty>>)
    OBVIOUS
  <2>3. i.op = "Store" /\ \E c : Turn(a, c)
    BY <1>1, <1>5, <2>1, <2>2 DEF Conv_store, Converting
  <2>4. PICK c : Turn(a, c)
    BY ONLY <2>3
  <2>5. ASSUME NEW v, NEW w, Situation(v, w, g, i, f, t, x) PROVE Continues(v, w, g, i, f, t, g, a)
    BY ONLY Situation(v, w, g, i, f, t, x), <2>1, <2>2, <2>3, StoreTurn
  <2> QED
    BY ONLY <1>2, <2>4, <2>5, Converts(g, i, f, t, x), QuietAbort
<1>6. CASE Conv_select
  <2>1. PICK b : b = WithScratch(x)
    OBVIOUS
  <2>2. PICK y : y = Pop_wasm_stk(b, "i32")
    OBVIOUS
  <2>3. PICK e, d : e = Top(y, Void) /\ d = Pop_wasm_stk(y, Void)
    OBVIOUS
  <2>4. PICK p : p = Pop_wasm_stk(d, e.ty)
    OBVIOUS
  <2>5. PICK a : a = Push_temp_reg(p, e.ty)
    OBVIOUS
  <2>6. i.op = "Select" /\ \E c : Turn(a, c)
    BY <1>1, <1>6, <2>1, <2>2, <2>3, <2>4, <2>5 DEF Conv_select, Converting
  <2>7. PICK c : Turn(a, c)
    BY ONLY <2>6
  <2>8. ASSUME NEW v, NEW w, Situation(v, w, g, i, f, t, x) PROVE Continues(v, w, g, i, f, t, g, a)
    BY ONLY Situation(v, w, g, i, f, t, x), <2>1, <2>2, <2>3, <2>4, <2>5, <2>6, SelectTurn
  <2> QED
    BY ONLY <1>2, <2>7, <2>8, Converts(g, i, f, t, x), QuietAbort
<1>7. CASE Conv_call
  <2>1. PICK tys : tys = ArgTypes(i)
    OBVIOUS
  <2>2. PICK ops, y : ops = Operands(x, tys) /\ y = PopAll(x, tys)
    OBVIOUS
  <2>3. PICK io : io = [ty \in Types |-> IF y.io[ty] < CountOf(ty) THEN CountOf(ty) ELSE y.io[ty]]
    OBVIOUS
  <2>4. PICK P : P = ArgsFit(ops)
    OBVIOUS
  <2>5. PICK b : b = Checked(y, io, P)
    OBVIOUS
  <2>6. PICK a : a = IF i.ty = Void THEN b ELSE Push_temp_reg(b, i.ty)
    OBVIOUS
  <2>7. i.op \in {"Call", "CallIndirect"} /\ \E c : Turn(a, c)
    <3>1. i.op \in {"Call", "CallIndirect"}
      BY <1>1, <1>7 DEF Conv_call, Converting
    <3>2. [y EXCEPT !.io = [ty \in Types |-> IF @[ty] < CountOf(ty) THEN CountOf(ty) ELSE @[ty]],
                    !.ok = @ /\ P] = b
      BY ONLY <2>3, <2>5 DEF Checked
    <3>3. \E c : Turn(IF i.ty = Void THEN b ELSE Push_temp_reg(b, i.ty), c)
      BY <1>1, <1>7, <2>1, <2>2, <2>4, <3>2 DEF Conv_call, ArgTypes, ArgsFit
    <3> QED
      BY ONLY <3>1, <3>3, <2>6
  <2>8. PICK c : Turn(a, c)
    BY ONLY <2>7
  <2>9. i.op \in {"Call", "CallIndirect"}
    BY ONLY <2>7
  <2>10. ASSUME NEW v, NEW w, Situation(v, w, g, i, f, t, x) PROVE Continues(v, w, g, i, f, t, g, a)
    BY ONLY Situation(v, w, g, i, f, t, x), <2>1, <2>2, <2>4, <2>5, <2>6, <2>9, CallTurn
  <2> QED
    BY ONLY <1>2, <2>8, <2>10, Converts(g, i, f, t, x), QuietAbort
<1>8. CASE Conv_return
  <2>1. i.op = "Return" /\ Plain(i) /\ Pushes(i) = << >> /\ Consumed(i, f) = Result(f)
    BY <1>1, <1>8 DEF Conv_return, Converting, Plain, Opens, Pushes, Consumed
  <2>2. CASE f = Void
    <3>1. \E c : Turn(x, c)
      BY <1>1, <1>8, <2>2 DEF Conv_return
    <3>2. PICK c : Turn(x, c)
      BY ONLY <3>1
    <3>3. Consumed(i, f) = << >>
      BY ONLY <2>1, <2>2 DEF Result
    <3>4. ASSUME NEW v, NEW w, Situation(v, w, g, i, f, t, x) PROVE Continues(v, w, g, i, f, t, g, x)
      BY ONLY Situation(v, w, g, i, f, t, x), <2>1, <3>3, KeepTurn
    <3> QED
      BY ONLY <1>2, <3>2, <3>4, Converts(g, i, f, t, x), QuietAbort
  <2>3. CASE f # Void
    <3>1. PICK a, p, ty : a = Pop_wasm_stk(x, p) /\ p = f /\ ty = f
      OBVIOUS
    <3>2. \E c : Turn(a, c)
      BY <1>1, <1>8, <2>3, <3>1 DEF Conv_return
    <3>3. PICK c : Turn(a, c)
      BY ONLY <3>2
    <3>4. Plain(i) /\ Consumed(i, f) = <<ty>> /\ Pushes(i) = << >> /\ (p = Void \/ p = ty)
      BY ONLY <2>1, <2>3, <3>1 DEF Result
    <3>5. ASSUME NEW v, NEW w, Situation(v, w, g, i, f, t, x) PROVE Continues(v, w, g, i, f, t, g, a)
      BY ONLY Situation(v, w, g, i, f, t, x), <3>1, <3>4, DropTurn
    <3> QED
      BY ONLY <1>2, <3>3, <3>5, Converts(g, i, f, t, x), QuietAbort
  <2> QED
    BY ONLY <2>2, <2>3
<1> QED
  BY <1>3, <1>4, <1>5, <1>6, <1>7, <1>8

\* The end of the function is the end outside of all blocks.
LEMMA OutsideAll ==
  ASSUME NEW v, NEW w, NEW g, NEW i, NEW f, NEW t, NEW x, Situation(v, w, g, i, f, t, x), i.op = "End"
  PROVE  g[t].parent = 0 <=> v.ctl = << >>
<1>1. Settled(v, w, g, t) /\ StmtAt(w, g, i, t) /\ t \in Nat
  BY DEF Situation, Right
<1>2. g[t].parent = Last(w)
  BY <1>1 DEF StmtAt
<1>3. Last(w) = w[Len(v.ctl) + 1] /\ w[1] = 0
  BY ONLY <1>1, SettledParts
<1>4. v.ctl = << >> => Last(w) = 0
  <2>1. Len(<< >>) + 1 = 1
    OBVIOUS
  <2> QED
    BY ONLY <2>1, <1>3
<1>5. v.ctl # << >> => Last(w) \in 1 .. t - 1
  BY ONLY <1>1, InnerBlock
<1>6. \A z \in 1 .. t - 1 : z # 0
  OBVIOUS
<1> QED
  BY ONLY <1>2, <1>4, <1>5, <1>6

\* The end of a block or of the function.
LEMMA EndAbort ==
  ASSUME NEW g, NEW i, NEW f, NEW t, NEW x, Converts(g, i, f, t, x),
         Conv_end_block \/ Conv_end_unreachable \/ Conv_end_func
  PROVE  FollowInv'
<1>1. g = graph /\ i = Cur /\ f = fres /\ t = at /\ x = al /\ ConvInv /\ phase = "convert"
  BY DEF Converts
<1>2. UNCHANGED graph /\ i.op = "End" /\ Me = g[t]
  BY <1>1 DEF Conv_end_block, Conv_end_unreachable, Conv_end_func, Quiet, Converting, Me
<1>3. IsSeq(x.stk)
  <2>1. AlGood(x, KeptAt(g, t))
    BY ONLY <1>1, TurnStart
  <2> QED
    BY ONLY <2>1 DEF AlGood
<1>4. PICK y, p : y = Unmarked(x) /\ p = g[g[t].parent]
  OBVIOUS
<1>5. CASE Conv_end_block
  <2>1. g[t].parent # 0 /\ ~IsUnreachable(x)
    BY <1>1, <1>2, <1>5 DEF Conv_end_block
  <2>2. y = x
    BY ONLY <2>1, <1>4 DEF Unmarked
  <2>3. PICK b : b = IF p.res # Void /\ p.op \in {"Block", "Else", "If"} THEN Pop_wasm_stk(x, p.res) ELSE x
    OBVIOUS
  <2>4. PICK a : a = Close(b, p)
    OBVIOUS
  <2>5. \E c : Turn(a, c)
    BY <1>1, <1>2, <1>4, <1>5, <2>3, <2>4 DEF Conv_end_block
  <2>6. PICK c : Turn(a, c)
    BY ONLY <2>5
  <2>7. b = y \/ (~IsUnreachable(x) /\ p.res # Void /\ b = Pop_wasm_stk(y, p.res))
    BY ONLY <2>1, <2>2, <2>3
  <2>8. ASSUME NEW v, NEW w, Situation(v, w, g, i, f, t, x) PROVE Continues(v, w, g, i, f, t, g, a)
    <3>1. v.ctl # << >>
      BY ONLY <2>1, <1>2, Situation(v, w, g, i, f, t, x), OutsideAll
    <3> QED
      BY ONLY <3>1, Situation(v, w, g, i, f, t, x), <1>2, <1>4, <2>4, <2>7, EndTurn
  <2> QED
    BY ONLY <1>2, <2>6, <2>8, Converts(g, i, f, t, x), QuietAbort
<1>6. CASE Conv_end_unreachable
  <2>1. g[t].parent # 0 /\ IsUnreachable(x)
    BY <1>1, <1>2, <1>6 DEF Conv_end_unreachable
  <2>2. y = [x EXCEPT !.stk = Front(@)]
    BY ONLY <2>1, <1>4 DEF Unmarked
  <2>3. PICK a, b : a = Close(y, p) /\ b = y
    OBVIOUS
  <2>4. \E c : Turn(a, c)
    BY <1>1, <1>2, <1>4, <1>6, <2>2, <2>3 DEF Conv_end_unreachable
  <2>5. PICK c : Turn(a, c)
    BY ONLY <2>4
  <2>6. a = Close(b, p) /\ (b = y \/ (~IsUnreachable(x) /\ p.res # Void /\ b = Pop_wasm_stk(y, p.res)))
    BY ONLY <2>3
  <2>7. ASSUME NEW v, NEW w, Situation(v, w, g, i, f, t, x) PROVE Continues(v, w, g, i, f, t, g, a)
    <3>1. v.ctl # << >>
      BY ONLY <2>1, <1>2, Situation(v, w, g, i, f, t, x), OutsideAll
    <3> QED
      BY ONLY <3>1, Situation(v, w, g, i, f, t, x), <1>2, <1>4, <2>6, EndTurn
  <2> QED
    BY ONLY <1>2, <2>5, <2>7, Converts(g, i, f, t, x), QuietAbort
<1>7. CASE Conv_end_func
  <2>1. g[t].parent = 0
    BY <1>1, <1>2, <1>7 DEF Conv_end_func
  <2>2. \E a, c : /\ Turn(a, c)
                  /\ a = x \/ (/\ ~ \E k \in DOMAIN x.stk : x.stk[k].kind = "UNREACHABLE"
                               /\ Len(x.stk) = 1 /\ a = Pop_wasm_stk(x, Void))
    <3>1. PICK lost : lost = \E k \in DOMAIN x.stk : x.stk[k].kind = "UNREACHABLE"
      OBVIOUS
    <3>2. \/ \E c : Turn(x, c)
          \/ ~lost /\ Len(x.stk) = 1 /\ \E c : Turn(Pop_wasm_stk(x, Void), c)
      BY <1>1, <1>7, <3>1 DEF Conv_end_func
    <3> QED
      BY ONLY <3>1, <3>2
  <2>3. PICK a, c : /\ Turn(a, c)
                    /\ a = x \/ (/\ ~ \E k \in DOMAIN x.stk : x.stk[k].kind = "UNREACHABLE"
                                 /\ Len(x.stk) = 1 /\ a = Pop_wasm_stk(x, Void))
    BY ONLY <2>2
  <2>4. ASSUME NEW v, NEW w, Situation(v, w, g, i, f, t, x) PROVE Continues(v, w, g, i, f, t, g, a)
    <3>1. v.ctl = << >>
      BY ONLY <2>1, <1>2, Situation(v, w, g, i, f, t, x), OutsideAll
    <3> QED
      BY ONLY <3>1, Situation(v, w, g, i, f, t, x), <1>2, <1>3, <2>3, LastTurn
  <2> QED
    BY ONLY <1>2, <2>3, <2>4, Converts(g, i, f, t, x), QuietAbort
<1> QED
  BY <1>5, <1>6, <1>7

\* Only unreachable leaves the mark that it is there.
LEMMA StepMark ==
  ASSUME ConvInv, MarkInv, [Next]_vars
  PROVE  MarkInv'
<1>1. CASE UNCHANGED vars
  BY <1>1 DEF vars, MarkInv
<1>2. ASSUME NEW i \in alphabet.insts, Build_block_hierarchy(i) PROVE MarkInv'
  <2>1. at' = 1
    BY <1>2 DEF Build_block_hierarchy, ConvInv, WorkInv
  <2> QED
    BY ONLY <2>1 DEF MarkInv
<1>3. CASE Fix_up
  BY <1>3 DEF Fix_up, MarkInv
<1>4. ASSUME NEW a, NEW c, Turn(a, c), phase = "convert", Cur.op = "Unreachable" => IsUnreachable(a)
      PROVE  MarkInv'
  <2>1. at \in Nat
    BY <1>4 DEF ConvInv, InputInv
  <2>2. at' - 1 = at /\ ins' = ins /\ al' = a
    BY <2>1, <1>4 DEF Turn, input
  <2>3. IsUnreachable(al)' <=> IsUnreachable(a)
    BY ONLY <2>2 DEF IsUnreachable
  <2> QED
    BY ONLY <2>2, <2>3, <1>4 DEF MarkInv, Cur
<1>5. CASE Conv_unreachable
  <2>1. PICK a, c : a = Push(al, Elem("UNREACHABLE", "i32", 0)) /\ c = << >>
    OBVIOUS
  <2>2. phase = "convert" /\ Turn(a, c)
    BY <1>5, <2>1 DEF Conv_unreachable, Converting
  <2>3. IsUnreachable(a)
    <3>1. PICK x, e : x = al /\ e = Elem("UNREACHABLE", "i32", 0)
      OBVIOUS
    <3>2. IsAl(x) /\ IsSeq(x.stk) /\ e.kind = "UNREACHABLE"
      BY <3>1, <2>2 DEF ConvInv, AllocInv, AlGood, Elem
    <3>3. PICK S : x.stk \in Seq(S)
      BY ONLY <3>2 DEF IsSeq
    <3>4. x.stk \in Seq(S \cup {e}) /\ e \in S \cup {e}
      BY ONLY <3>3
    <3>5. Last(Append(x.stk, e)) = e /\ Append(x.stk, e) # << >>
      BY ONLY <3>4, FrontAppend
    <3>6. x = [z \in {"stk", "ok", "io", "size", "next"} |-> x[z]]
      BY ONLY <3>2 DEF IsAl
    <3>7. a.stk = Append(x.stk, e)
      BY ONLY <3>1, <3>6, <2>1 DEF Push
    <3> QED
      BY ONLY <3>2, <3>5, <3>7 DEF IsUnreachable
  <2> QED
    BY ONLY <2>2, <2>3, <1>4
<1>6. ASSUME phase = "convert", Cur.op # "Unreachable", \E a, c : Turn(a, c) PROVE MarkInv'
  BY <1>4, <1>6
<1>7. CASE Conv_block \/ Conv_if \/ Conv_else \/ Conv_br \/ Conv_br_if \/ Conv_br_table
  <2>1. phase = "convert" /\ Cur.op # "Unreachable" /\ \E a, c : Turn(a, c)
    BY <1>7 DEF Conv_block, Conv_if, Conv_else, Conv_br, Conv_br_if, Conv_br_table, Converting
  <2> QED
    BY ONLY <2>1, <1>6
<1>8. CASE Conv_drop \/ Conv_nop \/ Conv_local_get \/ Conv_local_set \/ Conv_op \/ Conv_load \/ Conv_store
  <2>1. phase = "convert" /\ Cur.op # "Unreachable" /\ \E a, c : Turn(a, c)
    BY <1>8 DEF Conv_drop, Conv_nop, Conv_local_get, Conv_local_set, Conv_op, Conv_load, Conv_store, Converting
  <2> QED
    BY ONLY <2>1, <1>6
<1>9. CASE Conv_select \/ Conv_call \/ Conv_return \/ Conv_end_block \/ Conv_end_unreachable \/ Conv_end_func
  <2>1. phase = "convert" /\ Cur.op # "Unreachable" /\ \E a, c : Turn(a, c)
    BY <1>9 DEF Conv_select, Conv_call, Conv_return, Conv_end_block, Conv_end_unreachable, Conv_end_func,
                Converting
  <2> QED
    BY ONLY <2>1, <1>6
<1> QED
  BY <1>1, <1>2, <1>3, <1>5, <1>7, <1>8, <1>9 DEF Next

\* Every step.
LEMMA StepFollow ==
  ASSUME PlainForms, EnoughRegisters, ConvInv, CodeInv, AbortInv, [Next]_vars
  PROVE  FollowInv'
<1>1. CASE UNCHANGED vars
  BY <1>1 DEF vars, AbortInv, FollowInv
<1>2. ASSUME NEW i \in alphabet.insts, Build_block_hierarchy(i) PROVE FollowInv'
  BY <1>2, ReadAbort
<1>3. CASE Fix_up
  <2>1. phase' = "done"
    BY <1>3 DEF Fix_up
  <2> QED
    BY ONLY <2>1 DEF AbortInv, FollowInv
<1>4. ASSUME phase = "convert" PROVE \E g, i, f, t, x : Converts(g, i, f, t, x)
  <2>1. PICK g, i, f, t, x : g = graph /\ i = Cur /\ f = fres /\ t = at /\ x = al
    OBVIOUS
  <2>2. Converts(g, i, f, t, x)
    BY <2>1, <1>4 DEF Converts
  <2> QED
    BY ONLY <2>2
<1>5. CASE Conv_block \/ Conv_if
  <2>1. phase = "convert"
    BY <1>5 DEF Conv_block, Conv_if, Converting
  <2> QED
    BY ONLY <2>1, <1>4, <1>5, OpenAbort
<1>6. CASE Conv_else \/ Conv_br \/ Conv_br_if \/ Conv_br_table
  <2>1. phase = "convert"
    BY <1>6 DEF Conv_else, Conv_br, Conv_br_if, Conv_br_table, Converting
  <2> QED
    BY ONLY <2>1, <1>4, <1>6, BranchAbort
<1>7. CASE Conv_drop \/ Conv_nop \/ Conv_unreachable \/ Conv_local_get \/ Conv_local_set
  <2>1. phase = "convert"
    BY <1>7 DEF Conv_drop, Conv_nop, Conv_unreachable, Conv_local_get, Conv_local_set, Converting
  <2> QED
    BY ONLY <2>1, <1>4, <1>7, SimpleAbort
<1>8. CASE Conv_op \/ Conv_load \/ Conv_store \/ Conv_select \/ Conv_call \/ Conv_return
  <2>1. phase = "convert"
    BY <1>8 DEF Conv_op, Conv_load, Conv_store, Conv_select, Conv_call, Conv_return, Converting
  <2> QED
    BY ONLY <2>1, <1>4, <1>8, ValueAbort
<1>9. CASE Conv_end_block \/ Conv_end_unreachable \/ Conv_end_func
  <2>1. phase = "convert"
    BY <1>9 DEF Conv_end_block, Conv_end_unreachable, Conv_end_func, Converting
  <2> QED
    BY ONLY <2>1, <1>4, <1>9, EndAbort
<1> QED
  BY <1>1, <1>2, <1>3, <1>5, <1>6, <1>7, <1>8, <1>9 DEF Next

\* Both together.
LEMMA StepAbort ==
  ASSUME PlainForms, EnoughRegisters, ConvInv, CodeInv, AbortInv, [Next]_vars
  PROVE  AbortInv'
<1>1. FollowInv'
  BY StepFollow
<1>2. MarkInv'
  BY StepMark DEF AbortInv
<1> QED
  BY ONLY <1>1, <1>2 DEF AbortInv

-----------------------------------------------------------------------------
\* The conversion of a valid function without the four forms PlainForms names
\* (each of them makes an assertion fail) never ends with a failed
\* assertion: every Pop_wasm_stk finds an element, of the type the
\* instruction expects; Free_register gets back the last register that was
\* handed out; a temporary register is within the limit; the stack is never
\* lower at the end of a block than at its begin; a branch stays inside the
\* function, and the value it or an else takes along has the block's type.
THEOREM ConverterNeverAborts ==
  ASSUME PlainForms, EnoughRegisters
  PROVE  Spec => []NeverAborts
<1>1. Init => AbortInv
  BY InitAbort
<1>2. ConvInv /\ CodeInv /\ AbortInv /\ [Next]_vars => AbortInv'
  BY StepAbort
<1>3. AbortInv => NeverAborts
  BY DEF AbortInv, FollowInv, NeverAborts
<1> QED
  BY <1>1, <1>2, <1>3, ConverterInvariant, CodeInvariant, PTL DEF Spec

=============================================================================
