-------------------------- MODULE ConverterProofs ---------------------------
(***************************************************************************)
(* The register allocation of the converter is sound for every function:   *)
(* RegistersDistinct of Converter.  The first part is about the allocator  *)
(* and the stack of registers alone, the second about the statements that  *)
(* Build_block_hierarchy makes, the third puts them together.              *)
(***************************************************************************)
EXTENDS Converter, SequenceTheorems, FiniteSetTheorems, WellFoundedInduction, TLAPS

-----------------------------------------------------------------------------
(* The allocator.  K is the set of registers kept for the results of open  *)
(* blocks, each with its type.                                             *)

Elems == [kind : {"TEMP", "LOCAL", "UNREACHABLE"}, ty : Types, idx : Nat]

Base(ty) == RET_REG_NUM + LocalNum(ty)

IsAl(a) == a = [x \in {"stk", "ok", "io", "size", "next"} |-> a[x]]

AlTyped(a) ==
  /\ a.stk \in Seq(Elems)
  /\ a.next \in [Types -> Nat] /\ a.size \in [Types -> Nat] /\ a.io \in [Types -> Nat]

\* The next register is above the locals and at most one above those counted.
NextOK(a) == \A ty \in Types : Base(ty) <= a.next[ty] /\ a.next[ty] <= RET_REG_NUM + a.size[ty]

InUse(a, ty, r) == Base(ty) <= r /\ r < a.next[ty]

TempsOK(a, K) ==
  \A k \in 1 .. Len(a.stk) : a.stk[k].kind = "TEMP" =>
    InUse(a, a.stk[k].ty, a.stk[k].idx) /\ <<a.stk[k].ty, a.stk[k].idx>> \notin K

TempsApart(a) ==
  \A j, k \in 1 .. Len(a.stk) :
    /\ a.stk[j].kind = "TEMP" /\ a.stk[k].kind = "TEMP"
    /\ a.stk[j].ty = a.stk[k].ty /\ a.stk[j].idx = a.stk[k].idx
    => j = k

KeptOK(a, K) == \A r \in K : r \in Types \X Nat /\ InUse(a, r[1], r[2])

AlSound(a, K) ==
  AlTyped(a) /\ NextOK(a) /\ TempsOK(a, K) /\ TempsApart(a) /\ KeptOK(a, K)

IsSeq(s) == \E S : s \in Seq(S)

\* Until an assertion fails.
AlGood(a, K) == IsAl(a) /\ IsSeq(a.stk) /\ (a.ok => AlSound(a, K))

-----------------------------------------------------------------------------
\* A set of natural numbers that is not empty has a least element.
LEMMA LeastNat ==
  ASSUME NEW T, T \subseteq Nat, T # {}
  PROVE  \E x \in T : \A y \in T : x <= y
<1>1. PICK x \in T : \A y \in T : ~ (<<y, x>> \in OpToRel(<, Nat))
  BY NatLessThanWellFounded, WFMin
<1>2. \A y \in T : ~ (y < x)
  BY <1>1 DEF OpToRel
<1>3. \A y \in T : x <= y
  BY <1>2
<1> QED
  BY <1>3

\* How many locals a register file has.
LEMMA BaseNat == \A ty \in Types : LocalNum(ty) \in Nat /\ Base(ty) \in Nat
<1> SUFFICES ASSUME NEW ty \in Types PROVE LocalNum(ty) \in Nat
  BY ConverterAssumption DEF Base
<1>1. DOMAIN Vars = 1 .. Len(Vars) /\ Len(Vars) \in Nat
  BY WasmAssumption
<1>2. IsFiniteSet(1 .. Len(Vars))
  BY <1>1, FS_Interval
<1>3. {k \in DOMAIN Vars : Vars[k] = ty} \subseteq 1 .. Len(Vars)
  BY <1>1
<1>4. IsFiniteSet({k \in DOMAIN Vars : Vars[k] = ty})
  BY <1>2, <1>3, FS_Subset
<1> QED
  BY <1>4, FS_CardinalityType DEF LocalNum

\* What an element of the stack consists of.
LEMMA ElemFields ==
  ASSUME NEW e \in Elems
  PROVE  /\ e.kind \in {"TEMP", "LOCAL", "UNREACHABLE"} /\ e.ty \in Types /\ e.idx \in Nat
BY DEF Elems

\* The stack without its topmost element.
LEMMA FrontOf ==
  ASSUME NEW S, NEW s \in Seq(S), s # << >>
  PROVE  /\ Front(s) \in Seq(S) /\ Len(s) \in Nat \ {0} /\ Len(Front(s)) = Len(s) - 1
         /\ \A k \in 1 .. Len(s) - 1 : Front(s)[k] = s[k]
         /\ Last(s) = s[Len(s)] /\ Last(s) \in S
<1>1. Len(s) \in Nat \ {0}
  BY EmptySeq
<1>2. \A i \in 1 .. Len(s) - 1 : s[i] \in S
  BY ElementOfSeq, <1>1
<1>3. /\ SubSeq(s, 1, Len(s) - 1) \in Seq(S)
      /\ Len(SubSeq(s, 1, Len(s) - 1)) = (IF 1 <= Len(s) - 1 THEN Len(s) - 1 - 1 + 1 ELSE 0)
      /\ \A i \in 1 .. Len(s) - 1 - 1 + 1 : SubSeq(s, 1, Len(s) - 1)[i] = s[1 + i - 1]
  BY <1>1, <1>2, SubSeqProperties
<1>4. PICK n \in Nat : n = Len(s) - 1
  BY <1>1
<1>5. Front(s) = SubSeq(s, 1, n)
  BY <1>4 DEF Front
<1>6. /\ SubSeq(s, 1, n) \in Seq(S) /\ Len(SubSeq(s, 1, n)) = n
      /\ \A i \in 1 .. n : SubSeq(s, 1, n)[i] = s[i]
  BY <1>3, <1>4
<1>7. s[Len(s)] \in S
  BY <1>1, ElementOfSeq
<1> QED
  BY <1>1, <1>4, <1>5, <1>6, <1>7 DEF Last

-----------------------------------------------------------------------------
\* Without the topmost element: what is left is as sound as before.
LEMMA LessStack ==
  ASSUME NEW a, NEW K, AlSound(a, K), a.stk # << >>,
         NEW b, IsAl(b), b.stk = Front(a.stk), b.next = a.next, b.size = a.size, b.io = a.io
  PROVE  AlSound(b, K)
<1>1. /\ b.stk \in Seq(Elems) /\ Len(a.stk) \in Nat \ {0} /\ Len(b.stk) = Len(a.stk) - 1
      /\ \A k \in 1 .. Len(b.stk) : b.stk[k] = a.stk[k] /\ k \in 1 .. Len(a.stk)
  <2>1. a.stk \in Seq(Elems)
    BY DEF AlSound, AlTyped
  <2>2. /\ b.stk \in Seq(Elems) /\ Len(a.stk) \in Nat \ {0} /\ Len(b.stk) = Len(a.stk) - 1
        /\ \A k \in 1 .. Len(a.stk) - 1 : b.stk[k] = a.stk[k]
    BY <2>1, FrontOf
  <2> QED
    BY <2>2
<1>2. AlTyped(b) /\ NextOK(b) /\ KeptOK(b, K)
  BY <1>1 DEF AlSound, AlTyped, NextOK, KeptOK, InUse
<1>3. TempsOK(b, K)
  BY <1>1 DEF AlSound, TempsOK, InUse
<1>4. TempsApart(b)
  BY <1>1 DEF AlSound, TempsApart
<1> QED
  BY <1>2, <1>3, <1>4 DEF AlSound

\* A register that was the last one allocated is given back.
LEMMA GiveBack ==
  ASSUME NEW a, NEW K, AlSound(a, K), a.stk # << >>, Last(a.stk).kind = "TEMP",
         Last(a.stk).idx = a.next[Last(a.stk).ty] - 1,
         NEW b, IsAl(b), b.stk = Front(a.stk), b.size = a.size, b.io = a.io,
         b.next = [a.next EXCEPT ![Last(a.stk).ty] = @ - 1]
  PROVE  AlSound(b, K)
<1>1. /\ b.stk \in Seq(Elems) /\ Len(a.stk) \in Nat \ {0} /\ Len(b.stk) = Len(a.stk) - 1
      /\ \A k \in 1 .. Len(b.stk) : b.stk[k] = a.stk[k]
      /\ Last(a.stk) = a.stk[Len(a.stk)] /\ Last(a.stk) \in Elems
  <2>1. a.stk \in Seq(Elems)
    BY DEF AlSound, AlTyped
  <2>2. /\ b.stk \in Seq(Elems) /\ Len(a.stk) \in Nat \ {0} /\ Len(b.stk) = Len(a.stk) - 1
        /\ \A k \in 1 .. Len(a.stk) - 1 : b.stk[k] = a.stk[k]
        /\ Last(a.stk) = a.stk[Len(a.stk)] /\ Last(a.stk) \in Elems
    BY <2>1, FrontOf
  <2> QED
    BY <2>2
<1>2. PICK n \in Nat : n = Len(b.stk) /\ Len(a.stk) = n + 1
  BY <1>1
<1>3. PICK ty \in Types, r \in Nat : ty = a.stk[n + 1].ty /\ r = a.stk[n + 1].idx
  BY <1>1, <1>2, ElemFields
<1>4. a.stk[n + 1].kind = "TEMP" /\ r = a.next[ty] - 1 /\ a.next \in [Types -> Nat]
  BY <1>1, <1>2, <1>3 DEF AlSound, AlTyped
<1>5. InUse(a, ty, r) /\ <<ty, r>> \notin K
  <2>1. n + 1 \in 1 .. Len(a.stk)
    BY <1>2
  <2> QED
    BY <2>1, <1>3, <1>4 DEF AlSound, TempsOK
<1>6. b.next = [a.next EXCEPT ![ty] = r] /\ b.next \in [Types -> Nat]
  BY <1>1, <1>2, <1>3, <1>4
<1>7. ASSUME NEW u \in Types, NEW x \in Nat, InUse(a, u, x), ~(u = ty /\ x = r)
      PROVE  InUse(b, u, x)
  BY <1>4, <1>6, <1>7, BaseNat DEF InUse
<1>8. AlTyped(b)
  BY <1>1, <1>6 DEF AlSound, AlTyped
<1>9. NextOK(b)
  <2> SUFFICES ASSUME NEW u \in Types
               PROVE  Base(u) <= b.next[u] /\ b.next[u] <= RET_REG_NUM + b.size[u]
    BY DEF NextOK
  <2>1. Base(u) <= a.next[u] /\ a.next[u] <= RET_REG_NUM + b.size[u] /\ b.size[u] \in Nat
        /\ a.next[u] \in Nat
    BY DEF AlSound, NextOK, AlTyped
  <2>2. b.next[u] = IF u = ty THEN r ELSE a.next[u]
    BY <1>4, <1>6
  <2>3. Base(ty) <= r /\ r < a.next[ty] /\ a.next[ty] \in Nat
    BY <1>4, <1>5 DEF InUse
  <2>4. RET_REG_NUM \in Nat /\ Base(u) \in Nat /\ Base(ty) \in Nat
    BY BaseNat, ConverterAssumption
  <2>5. CASE u = ty
    BY <2>1, <2>2, <2>3, <2>4, <2>5
  <2>6. CASE u # ty
    BY <2>1, <2>2, <2>6
  <2> QED
    BY <2>5, <2>6
<1>10. TempsOK(b, K)
  <2> SUFFICES ASSUME NEW k \in 1 .. n, b.stk[k].kind = "TEMP"
               PROVE  InUse(b, b.stk[k].ty, b.stk[k].idx) /\ <<b.stk[k].ty, b.stk[k].idx>> \notin K
    BY <1>2 DEF TempsOK
  <2>1. b.stk[k] = a.stk[k] /\ k \in 1 .. Len(a.stk) /\ k # n + 1 /\ n + 1 \in 1 .. Len(a.stk)
    BY <1>1, <1>2
  <2>2. InUse(a, a.stk[k].ty, a.stk[k].idx) /\ <<a.stk[k].ty, a.stk[k].idx>> \notin K
    BY <2>1 DEF AlSound, TempsOK
  <2>3. ~(a.stk[k].ty = ty /\ a.stk[k].idx = r)
    BY <2>1, <1>3, <1>4 DEF AlSound, TempsApart
  <2>4. a.stk[k].ty \in Types /\ a.stk[k].idx \in Nat
    BY <2>1, ElementOfSeq, ElemFields DEF AlSound, AlTyped
  <2> QED
    BY <2>1, <2>2, <2>3, <2>4, <1>7
<1>11. TempsApart(b)
  <2>1. \A k \in 1 .. Len(b.stk) : b.stk[k] = a.stk[k] /\ k \in 1 .. Len(a.stk)
    BY <1>1, <1>2
  <2> QED
    BY <2>1 DEF AlSound, TempsApart
<1>12. KeptOK(b, K)
  <2> SUFFICES ASSUME NEW x \in K PROVE x \in Types \X Nat /\ InUse(b, x[1], x[2])
    BY DEF KeptOK
  <2>1. x \in Types \X Nat /\ InUse(a, x[1], x[2])
    BY DEF AlSound, KeptOK
  <2>2. ~(x[1] = ty /\ x[2] = r)
    BY <2>1, <1>5
  <2> QED
    BY <2>1, <2>2, <1>7
<1> QED
  BY <1>8, <1>9, <1>10, <1>11, <1>12 DEF AlSound

\* Pop_wasm_stk: the element above the others goes, and with it its register.
LEMMA PopGood ==
  ASSUME NEW a, NEW K, AlGood(a, K), NEW ty, NEW c, c = Pop_wasm_stk(a, ty)
  PROVE  /\ AlGood(c, K)
         /\ c.ok => /\ a.ok /\ a.stk # << >> /\ (ty = Void \/ Top(a, ty).ty = ty)
                    /\ c.stk = Front(a.stk) /\ c.size = a.size /\ c.io = a.io
<1> DEFINE e == Top(a, ty)
           b == [a EXCEPT !.stk = IF @ = << >> THEN @ ELSE Front(@),
                          !.ok = @ /\ a.stk # << >> /\ (ty = Void \/ e.ty = ty)]
<1>1. c = IF e.kind = "TEMP" THEN Free_register(b, e) ELSE b
  BY DEF Pop_wasm_stk
<1>2. /\ IsAl(b) /\ b.next = a.next /\ b.size = a.size /\ b.io = a.io
      /\ b.stk = (IF a.stk = << >> THEN a.stk ELSE Front(a.stk))
      /\ b.ok = (a.ok /\ a.stk # << >> /\ (ty = Void \/ e.ty = ty))
  BY DEF AlGood, IsAl
<1>0. IsSeq(b.stk)
  BY <1>2, FrontOf DEF AlGood, IsSeq
<1>3. CASE e.kind = "TEMP" /\ ~(e.idx >= REG_FREE_MAX)
  <2>1. c = [b EXCEPT !.next[e.ty] = @ - 1, !.ok = @ /\ e.idx = b.next[e.ty] - 1]
    BY <1>1, <1>3 DEF Free_register
  <2>2. /\ IsAl(c) /\ c.size = b.size /\ c.io = b.io /\ c.stk = b.stk
        /\ c.next = [b.next EXCEPT ![e.ty] = @ - 1]
        /\ c.ok = (b.ok /\ e.idx = b.next[e.ty] - 1)
    <3> HIDE DEF b, e
    <3> QED
      BY <2>1, <1>2 DEF IsAl
  <2>3. ASSUME c.ok PROVE AlSound(c, K)
    <3>1. a.ok /\ a.stk # << >> /\ e.idx = a.next[e.ty] - 1
      BY <2>2, <2>3, <1>2
    <3>2. AlSound(a, K)
      BY <3>1 DEF AlGood
    <3>3. Last(a.stk) \in Elems
      BY <3>1, <3>2, FrontOf DEF AlSound, AlTyped
    <3>4. e = Last(a.stk)
      BY <1>3, <3>1, <3>3 DEF Top, Elems
    <3>5. /\ Last(a.stk).kind = "TEMP" /\ Last(a.stk).idx = a.next[Last(a.stk).ty] - 1
          /\ c.stk = Front(a.stk) /\ c.size = a.size /\ c.io = a.io
          /\ c.next = [a.next EXCEPT ![Last(a.stk).ty] = @ - 1]
      BY <3>1, <3>4, <1>2, <1>3, <2>2
    <3> HIDE DEF b, e
    <3> QED
      BY <3>1, <3>2, <3>5, <2>2, GiveBack
  <2> QED
    BY <2>2, <2>3, <1>0, <1>2 DEF AlGood
<1>4. CASE ~(e.kind = "TEMP" /\ ~(e.idx >= REG_FREE_MAX))
  <2>1. c = b
    BY <1>1, <1>4 DEF Free_register
  <2>2. ASSUME b.ok PROVE AlSound(b, K)
    <3>1. a.ok /\ a.stk # << >>
      BY <1>2, <2>2
    <3>2. AlSound(a, K) /\ b.stk = Front(a.stk)
      BY <3>1, <1>2 DEF AlGood
    <3> HIDE DEF b, e
    <3> QED
      BY <3>1, <3>2, <1>2, LessStack
  <2> QED
    BY <2>1, <2>2, <1>0, <1>2 DEF AlGood
<1> QED
  BY <1>3, <1>4

\* Allocate_register: the new register is above all that are in use.
LEMMA AllocateSound ==
  ASSUME NEW a, NEW K, AlSound(a, K), IsAl(a), NEW ty \in Types, NEW b, b = Allocate_register(a, ty)
  PROVE  /\ IsAl(b) /\ b.ok = a.ok /\ b.stk = a.stk /\ b.io = a.io
         /\ b.next = [a.next EXCEPT ![ty] = @ + 1]
         /\ AlSound(b, K) /\ InUse(b, ty, a.next[ty]) /\ <<ty, a.next[ty]>> \notin K
         /\ \A k \in 1 .. Len(a.stk) :
              ~(a.stk[k].kind = "TEMP" /\ a.stk[k].ty = ty /\ a.stk[k].idx = a.next[ty])
         /\ a.next[ty] \in Nat
<1>1. /\ a.stk \in Seq(Elems)
      /\ a.next \in [Types -> Nat] /\ a.size \in [Types -> Nat] /\ a.io \in [Types -> Nat]
  BY DEF AlSound, AlTyped
<1>2. /\ IsAl(b) /\ b.ok = a.ok /\ b.stk = a.stk /\ b.io = a.io
      /\ b.next = [a.next EXCEPT ![ty] = @ + 1]
      /\ b.size = [a.size EXCEPT ![ty] = IF a.next[ty] >= @ + RET_REG_NUM THEN @ + 1 ELSE @]
  BY DEF Allocate_register, IsAl
<1>3. AlTyped(b)
  BY <1>1, <1>2 DEF AlTyped
<1>4. RET_REG_NUM \in Nat /\ \A u \in Types : Base(u) \in Nat /\ Base(u) <= a.next[u]
                              /\ a.next[u] <= RET_REG_NUM + a.size[u]
  BY BaseNat, ConverterAssumption DEF AlSound, NextOK
<1>5. NextOK(b)
  <2> SUFFICES ASSUME NEW u \in Types
               PROVE  Base(u) <= b.next[u] /\ b.next[u] <= RET_REG_NUM + b.size[u]
    BY DEF NextOK
  <2>1. CASE u # ty
    BY <2>1, <1>1, <1>2, <1>4
  <2>2. CASE u = ty
    <3>1. b.next[u] = a.next[u] + 1 /\ a.next[u] \in Nat /\ a.size[u] \in Nat
          /\ b.size[u] = IF a.next[u] >= a.size[u] + RET_REG_NUM THEN a.size[u] + 1 ELSE a.size[u]
      BY <2>2, <1>1, <1>2
    <3> QED
      BY <3>1, <1>4
  <2> QED
    BY <2>1, <2>2
<1>6. ASSUME NEW u \in Types, NEW x \in Nat, InUse(a, u, x) PROVE InUse(b, u, x)
  BY <1>1, <1>2, <1>4, <1>6 DEF InUse
<1>7. \A k \in 1 .. Len(a.stk) : a.stk[k].ty \in Types /\ a.stk[k].idx \in Nat
  BY <1>1, ElementOfSeq, ElemFields
<1>8. TempsOK(b, K) /\ TempsApart(b)
  BY <1>2, <1>6, <1>7 DEF AlSound, TempsOK, TempsApart
<1>9. KeptOK(b, K)
  <2> SUFFICES ASSUME NEW x \in K PROVE x \in Types \X Nat /\ InUse(b, x[1], x[2])
    BY DEF KeptOK
  <2>1. x \in Types \X Nat /\ InUse(a, x[1], x[2])
    BY DEF AlSound, KeptOK
  <2> QED
    BY <2>1, <1>6
<1>10. ~InUse(a, ty, a.next[ty]) /\ InUse(b, ty, a.next[ty]) /\ a.next[ty] \in Nat
  BY <1>1, <1>2, <1>4 DEF InUse
<1>11. <<ty, a.next[ty]>> \notin K
  <2> SUFFICES ASSUME <<ty, a.next[ty]>> \in K PROVE FALSE
    OBVIOUS
  <2>1. InUse(a, <<ty, a.next[ty]>>[1], <<ty, a.next[ty]>>[2])
    BY DEF AlSound, KeptOK
  <2> QED
    BY <2>1, <1>10
<1>12. \A k \in 1 .. Len(a.stk) :
         ~(a.stk[k].kind = "TEMP" /\ a.stk[k].ty = ty /\ a.stk[k].idx = a.next[ty])
  BY <1>10 DEF AlSound, TempsOK
<1> QED
  BY <1>2, <1>3, <1>5, <1>8, <1>9, <1>10, <1>11, <1>12 DEF AlSound

\* One more element, whose register nothing else holds.
LEMMA PushSound ==
  ASSUME NEW a, NEW K, AlSound(a, K), NEW e \in Elems,
         e.kind = "TEMP" =>
           /\ InUse(a, e.ty, e.idx) /\ <<e.ty, e.idx>> \notin K
           /\ \A k \in 1 .. Len(a.stk) :
                ~(a.stk[k].kind = "TEMP" /\ a.stk[k].ty = e.ty /\ a.stk[k].idx = e.idx),
         NEW b, b.stk = Append(a.stk, e), b.next = a.next, b.size = a.size, b.io = a.io
  PROVE  AlSound(b, K)
<1>1. a.stk \in Seq(Elems) /\ Len(a.stk) \in Nat
  BY DEF AlSound, AlTyped
<1>2. /\ b.stk \in Seq(Elems) /\ Len(b.stk) = Len(a.stk) + 1
      /\ \A i \in 1 .. Len(a.stk) : b.stk[i] = a.stk[i]
      /\ b.stk[Len(a.stk) + 1] = e
  BY <1>1, AppendProperties
<1>3. PICK n \in Nat : n = Len(a.stk)
  BY <1>1
<1>4. \A k \in 1 .. n + 1 : k \in 1 .. n \/ k = n + 1
  OBVIOUS
<1>5. AlTyped(b) /\ NextOK(b) /\ KeptOK(b, K)
  BY <1>2 DEF AlSound, AlTyped, NextOK, KeptOK, InUse
<1>6. TempsOK(b, K)
  BY <1>2, <1>3, <1>4 DEF AlSound, TempsOK, InUse
<1>7. TempsApart(b)
  BY <1>2, <1>3, <1>4 DEF AlSound, TempsApart
<1> QED
  BY <1>5, <1>6, <1>7 DEF AlSound

\* A local or an unreachable value needs no register of its own.
LEMMA PushGood ==
  ASSUME NEW a, NEW K, AlGood(a, K), NEW e \in Elems, e.kind # "TEMP", NEW b, b = Push(a, e)
  PROVE  AlGood(b, K) /\ b.ok = a.ok /\ b.stk = Append(a.stk, e)
<1>1. /\ IsAl(b) /\ b.ok = a.ok /\ b.stk = Append(a.stk, e)
      /\ b.next = a.next /\ b.size = a.size /\ b.io = a.io
  BY DEF Push, AlGood, IsAl
<1>2. PICK S : a.stk \in Seq(S)
  BY DEF AlGood, IsSeq
<1>3. a.stk \in Seq(S \cup {e}) /\ e \in S \cup {e}
  BY <1>2
<1>4. IsSeq(b.stk)
  BY <1>1, <1>3, AppendProperties DEF IsSeq
<1>5. a.ok => AlSound(b, K)
  BY <1>1, PushSound DEF AlGood
<1> QED
  BY <1>1, <1>4, <1>5 DEF AlGood

\* Push_temp_reg: a value in a register of its own.
LEMMA PushTempGood ==
  ASSUME NEW a, NEW K, AlGood(a, K), NEW ty \in Types, NEW c, c = Push_temp_reg(a, ty)
  PROVE  AlGood(c, K) /\ (c.ok => a.ok /\ c.stk = Append(a.stk, Elem("TEMP", ty, a.next[ty])))
<1> DEFINE e == Elem("TEMP", ty, a.next[ty])
<1>1. PICK b : b = Allocate_register(a, ty)
  OBVIOUS
<1>2. IsAl(b) /\ b.ok = a.ok /\ b.stk = a.stk /\ b.io = a.io
  BY <1>1 DEF Allocate_register, AlGood, IsAl
<1>3. /\ IsAl(c) /\ c.ok = (a.ok /\ a.next[ty] < REG_TEMP_MAX) /\ c.stk = Append(a.stk, e)
      /\ c.next = b.next /\ c.size = b.size /\ c.io = b.io
  BY <1>1, <1>2 DEF Push_temp_reg, Push, IsAl
<1>4. PICK S : a.stk \in Seq(S)
  BY DEF AlGood, IsSeq
<1>5. a.stk \in Seq(S \cup {e}) /\ e \in S \cup {e}
  BY <1>4
<1>6. IsSeq(c.stk)
  <2> HIDE DEF e
  <2> QED
    BY <1>3, <1>5, AppendProperties DEF IsSeq
<1>7. ASSUME a.ok PROVE AlSound(c, K)
  <2>1. AlSound(a, K) /\ IsAl(a)
    BY <1>7 DEF AlGood
  <2>2. /\ AlSound(b, K) /\ InUse(b, ty, a.next[ty]) /\ <<ty, a.next[ty]>> \notin K
        /\ \A k \in 1 .. Len(a.stk) :
             ~(a.stk[k].kind = "TEMP" /\ a.stk[k].ty = ty /\ a.stk[k].idx = a.next[ty])
        /\ a.next[ty] \in Nat
    BY <2>1, <1>1, AllocateSound
  <2>3. e \in Elems /\ e.kind = "TEMP" /\ e.ty = ty /\ e.idx = a.next[ty]
    BY <2>2 DEF Elem, Elems
  <2> HIDE DEF e
  <2> QED
    BY <2>2, <2>3, <1>2, <1>3, PushSound
<1> QED
  BY <1>3, <1>6, <1>7 DEF AlGood

\* An assertion that touches nothing.
LEMMA CheckGood ==
  ASSUME NEW a, NEW K, AlGood(a, K), NEW P, NEW b, b = [a EXCEPT !.ok = @ /\ P]
  PROVE  /\ AlGood(b, K) /\ (b.ok => a.ok /\ P)
         /\ b.stk = a.stk /\ b.next = a.next /\ b.size = a.size /\ b.io = a.io
<1>1. /\ IsAl(b) /\ b.stk = a.stk /\ b.next = a.next /\ b.size = a.size /\ b.io = a.io
      /\ b.ok = (a.ok /\ P)
  BY DEF AlGood, IsAl
<1>2. AlSound(a, K) => AlSound(b, K)
  BY <1>1 DEF AlSound, AlTyped, NextOK, TempsOK, TempsApart, KeptOK, InUse
<1> QED
  BY <1>1, <1>2 DEF AlGood

-----------------------------------------------------------------------------
PopFcn(f, a, tys, n, m) ==
  f = [k \in 0 .. m |-> IF k = 0 THEN a ELSE Pop_wasm_stk(f[k - 1], tys[n + 1 - k])]

PopsFrom(a, tys, n) == {m \in 0 .. n : \E f : PopFcn(f, a, tys, n, m)}

\* PopAll takes one element after the other: the recursive definition has a solution.
LEMMA PopAllExists ==
  ASSUME NEW a, NEW tys, NEW n \in Nat
  PROVE  \E f : PopFcn(f, a, tys, n, n)
<1> DEFINE T == (0 .. n) \ PopsFrom(a, tys, n)
<1> SUFFICES T = {}
  <2>1. n \in 0 .. n
    OBVIOUS
  <2>2. T = {} => n \in PopsFrom(a, tys, n)
    BY <2>1
  <2> QED
    BY <2>2 DEF PopsFrom
<1> SUFFICES ASSUME T # {} PROVE FALSE
  OBVIOUS
<1>1. T \subseteq Nat
  OBVIOUS
<1>2. PICK m \in T : \A y \in T : m <= y
  <2> HIDE DEF T
  <2> QED
    BY <1>1, LeastNat
<1>3. m # 0
  <2> SUFFICES ASSUME m = 0 PROVE FALSE
    OBVIOUS
  <2>1. PICK f : f = [k \in 0 .. 0 |-> a]
    OBVIOUS
  <2>2. f = [k \in 0 .. 0 |-> IF k = 0 THEN a ELSE Pop_wasm_stk(f[k - 1], tys[n + 1 - k])]
    BY <2>1
  <2> QED
    BY <2>2, <1>2 DEF PopsFrom, PopFcn
<1>4. m - 1 \in 0 .. n /\ m - 1 \notin T /\ m \in 0 .. n
  BY <1>2, <1>3
<1>5. PICK g : g = [k \in 0 .. m - 1 |-> IF k = 0 THEN a ELSE Pop_wasm_stk(g[k - 1], tys[n + 1 - k])]
  BY <1>4 DEF PopsFrom, PopFcn
<1>6. PICK f : f = [k \in 0 .. m |-> IF k = m THEN Pop_wasm_stk(g[m - 1], tys[n + 1 - m]) ELSE g[k]]
  OBVIOUS
<1>7. \A k \in 0 .. m : f[k] = IF k = 0 THEN a ELSE Pop_wasm_stk(f[k - 1], tys[n + 1 - k])
  <2> SUFFICES ASSUME NEW k \in 0 .. m
               PROVE  f[k] = IF k = 0 THEN a ELSE Pop_wasm_stk(f[k - 1], tys[n + 1 - k])
    OBVIOUS
  <2>1. CASE k = m
    <3>1. f[m] = Pop_wasm_stk(g[m - 1], tys[n + 1 - m]) /\ f[m - 1] = g[m - 1]
      BY <1>3, <1>4, <1>6
    <3> QED
      BY <3>1, <2>1, <1>3
  <2>2. CASE k # m /\ k = 0
    BY <2>2, <1>4, <1>5, <1>6
  <2>3. CASE k # m /\ k # 0
    <3>1. f[k] = g[k] /\ f[k - 1] = g[k - 1] /\ k \in 0 .. m - 1
      BY <2>3, <1>4, <1>6
    <3>2. g[k] = Pop_wasm_stk(g[k - 1], tys[n + 1 - k])
      BY <3>1, <2>3, <1>5
    <3> QED
      BY <3>1, <3>2, <2>3
  <2> QED
    BY <2>1, <2>2, <2>3
<1>8. f = [k \in 0 .. m |-> IF k = 0 THEN a ELSE Pop_wasm_stk(f[k - 1], tys[n + 1 - k])]
  BY <1>6, <1>7
<1>9. m \in PopsFrom(a, tys, n)
  BY <1>4, <1>8 DEF PopsFrom, PopFcn
<1> QED
  BY <1>9, <1>2

\* Any number of elements is popped.
LEMMA PopAllGood ==
  ASSUME NEW a, NEW K, AlGood(a, K), NEW tys, IsSeq(tys), NEW c, c = PopAll(a, tys)
  PROVE  /\ AlGood(c, K)
         /\ c.ok => a.ok /\ c.size = a.size /\ c.io = a.io /\ Len(c.stk) = Len(a.stk) - Len(tys)
                    /\ \A k \in 1 .. Len(c.stk) : c.stk[k] = a.stk[k]
<1>1. PICK n \in Nat : n = Len(tys)
  BY DEF IsSeq
<1>2. PICK f : /\ f = [k \in 0 .. n |-> IF k = 0 THEN a ELSE Pop_wasm_stk(f[k - 1], tys[n + 1 - k])]
               /\ c = f[n]
  <2>1. PopAll(a, tys) = (CHOOSE f : PopFcn(f, a, tys, n, n))[n]
    BY <1>1 DEF PopAll, PopFcn
  <2>2. \E f : PopFcn(f, a, tys, n, n)
    BY PopAllExists
  <2>3. PICK f : PopFcn(f, a, tys, n, n) /\ c = f[n]
    BY <2>1, <2>2
  <2> QED
    BY <2>3 DEF PopFcn
<1> DEFINE Q(k) == /\ AlGood(f[k], K)
                   /\ f[k].ok => /\ a.ok /\ f[k].size = a.size /\ f[k].io = a.io
                                 /\ Len(a.stk) \in Nat /\ Len(f[k].stk) = Len(a.stk) - k
                                 /\ \A i \in 1 .. Len(f[k].stk) : f[k].stk[i] = a.stk[i]
           T == {k \in 0 .. n : ~Q(k)}
<1>3. Q(0)
  <2>1. f[0] = a
    BY <1>2
  <2>2. Len(a.stk) \in Nat
    BY DEF AlGood, IsSeq
  <2> QED
    BY <2>1, <2>2
<1>4. ASSUME NEW k \in 0 .. n, k # n, Q(k) PROVE Q(k + 1)
  <2>1. f[k + 1] = Pop_wasm_stk(f[k], tys[n - k])
    <3>1. k + 1 \in 0 .. n /\ k + 1 # 0 /\ k + 1 - 1 = k /\ n + 1 - (k + 1) = n - k
      BY <1>4
    <3> QED
      BY <3>1, <1>2
  <2>2. /\ AlGood(f[k + 1], K)
        /\ f[k + 1].ok => /\ f[k].ok /\ f[k].stk # << >> /\ f[k + 1].stk = Front(f[k].stk)
                          /\ f[k + 1].size = f[k].size /\ f[k + 1].io = f[k].io
    BY <2>1, <1>4, PopGood
  <2>3. ASSUME f[k + 1].ok
        PROVE  /\ Len(f[k + 1].stk) = Len(a.stk) - (k + 1)
               /\ \A i \in 1 .. Len(f[k + 1].stk) : f[k + 1].stk[i] = a.stk[i]
    <3>1. f[k].ok /\ f[k].stk # << >> /\ f[k + 1].stk = Front(f[k].stk)
      BY <2>2, <2>3
    <3>2. PICK S : f[k].stk \in Seq(S)
      BY <1>4 DEF AlGood, IsSeq
    <3>3. /\ Len(f[k].stk) \in Nat \ {0} /\ Len(f[k + 1].stk) = Len(f[k].stk) - 1
          /\ \A i \in 1 .. Len(f[k].stk) - 1 : f[k + 1].stk[i] = f[k].stk[i]
      BY <3>1, <3>2, FrontOf
    <3>4. /\ Len(a.stk) \in Nat /\ Len(f[k].stk) = Len(a.stk) - k
          /\ \A i \in 1 .. Len(f[k].stk) : f[k].stk[i] = a.stk[i]
      BY <3>1, <1>4
    <3>5. PICK p \in Nat, q \in Nat : p = Len(a.stk) /\ q = Len(f[k].stk)
      BY <3>3, <3>4
    <3>6. q = p - k /\ Len(f[k + 1].stk) = q - 1 /\ q # 0
      BY ONLY <3>3, <3>4, <3>5
    <3>7. Len(f[k + 1].stk) = p - (k + 1)
      BY ONLY <3>6, p \in Nat, q \in Nat, k \in 0 .. n, n \in Nat
    <3>8. \A i \in 1 .. q - 1 : f[k + 1].stk[i] = a.stk[i]
      BY ONLY <3>3, <3>4, <3>5
    <3> QED
      BY <3>5, <3>6, <3>7, <3>8
  <2> QED
    BY <2>2, <2>3, <1>4
<1>5. T = {}
  <2> SUFFICES ASSUME T # {} PROVE FALSE
    OBVIOUS
  <2>1. T \subseteq Nat
    OBVIOUS
  <2>2. PICK m \in T : \A y \in T : m <= y
    <3> HIDE DEF T
    <3> QED
      BY <2>1, LeastNat
  <2> HIDE DEF Q
  <2>3. m \in 0 .. n /\ ~Q(m) /\ m # 0
    BY <2>2, <1>3
  <2>4. m - 1 \in 0 .. n /\ m - 1 \notin T /\ m - 1 # n /\ m - 1 + 1 = m
    BY <2>2, <2>3
  <2>5. Q(m - 1)
    BY <2>4
  <2>6. Q(m - 1 + 1)
    BY <2>4, <2>5, <1>4
  <2> QED
    BY <2>3, <2>4, <2>6
<1>6. Q(n)
  <2> HIDE DEF Q
  <2> QED
    BY <1>5
<1> QED
  BY <1>1, <1>2, <1>6

-----------------------------------------------------------------------------
\* The allocator of a new function (REG_ALLOC_HELPER).
LEMMA CreateGood == AlGood(Create_ubh_code, {}) /\ Create_ubh_code.ok
<1>1. PICK a : a = Create_ubh_code
  OBVIOUS
<1>2. /\ IsAl(a) /\ a.ok = TRUE /\ a.stk = << >> /\ a.io = [ty \in Types |-> 0]
      /\ a.size = [ty \in Types |-> LocalNum(ty)]
      /\ a.next = [ty \in Types |-> RET_REG_NUM + LocalNum(ty)]
  BY <1>1 DEF Create_ubh_code, IsAl
<1>3. << >> \in Seq(Elems) /\ Len(<< >>) = 0
  OBVIOUS
<1>4. RET_REG_NUM \in Nat
  BY ConverterAssumption
<1>5. AlTyped(a)
  BY <1>2, <1>3, <1>4, BaseNat DEF AlTyped
<1>6. NextOK(a)
  BY <1>2, <1>4, BaseNat DEF NextOK, Base
<1>7. TempsOK(a, {}) /\ TempsApart(a) /\ KeptOK(a, {})
  BY <1>2, <1>3 DEF TempsOK, TempsApart, KeptOK
<1> QED
  BY <1>1, <1>2, <1>3, <1>5, <1>6, <1>7 DEF AlGood, AlSound, IsSeq

\* A scratch register comes and goes.
LEMMA ScratchGood ==
  ASSUME NEW a, NEW K, AlGood(a, K)
  PROVE  AlGood(WithScratch(a), K)
<1>1. "i32" \in Types
  BY DEF Types
<1>2. AlGood(Push_temp_reg(a, "i32"), K)
  BY <1>1, PushTempGood
<1> QED
  BY <1>2, PopGood DEF WithScratch

\* The register reserved for the result of a block is kept from now on.
LEMMA ReserveGood ==
  ASSUME NEW a, NEW K, AlGood(a, K), NEW ty \in Types, NEW b, b = Allocate_register(a, ty)
  PROVE  /\ AlGood(b, K \cup {<<ty, a.next[ty]>>}) /\ b.ok = a.ok
         /\ a.ok => <<ty, a.next[ty]>> \notin K
<1>1. IsAl(b) /\ b.ok = a.ok /\ b.stk = a.stk
  BY DEF Allocate_register, AlGood, IsAl
<1>2. ASSUME a.ok
      PROVE  AlSound(b, K \cup {<<ty, a.next[ty]>>}) /\ <<ty, a.next[ty]>> \notin K
  <2>1. /\ AlSound(b, K) /\ InUse(b, ty, a.next[ty]) /\ <<ty, a.next[ty]>> \notin K
        /\ \A k \in 1 .. Len(a.stk) :
             ~(a.stk[k].kind = "TEMP" /\ a.stk[k].ty = ty /\ a.stk[k].idx = a.next[ty])
        /\ a.next[ty] \in Nat
    <3>1. AlSound(a, K) /\ IsAl(a)
      BY <1>2 DEF AlGood
    <3> QED
      BY <3>1, AllocateSound
  <2>2. TempsOK(b, K \cup {<<ty, a.next[ty]>>})
    BY <2>1, <1>1 DEF AlSound, TempsOK
  <2>3. KeptOK(b, K \cup {<<ty, a.next[ty]>>})
    <3> SUFFICES ASSUME NEW r \in K \cup {<<ty, a.next[ty]>>}
                 PROVE  r \in Types \X Nat /\ InUse(b, r[1], r[2])
      BY DEF KeptOK
    <3>1. CASE r \in K
      BY <3>1, <2>1 DEF AlSound, KeptOK
    <3>2. CASE r = <<ty, a.next[ty]>>
      BY <3>2, <2>1
    <3> QED
      BY <3>1, <3>2
  <2> QED
    BY <2>1, <2>2, <2>3 DEF AlSound
<1> QED
  BY <1>1, <1>2 DEF AlGood

\* A register that is kept for a block becomes that of a value on the stack.
LEMMA PushKept ==
  ASSUME NEW a, NEW K, AlGood(a, K), NEW ty, NEW r, <<ty, r>> \in K, NEW P,
         NEW b, b = [Push(a, Elem("TEMP", ty, r)) EXCEPT !.ok = @ /\ P]
  PROVE  AlGood(b, K \ {<<ty, r>>}) /\ (b.ok => a.ok)
<1> DEFINE e == Elem("TEMP", ty, r)
           L == K \ {<<ty, r>>}
<1>1. /\ IsAl(b) /\ b.ok = (a.ok /\ P) /\ b.stk = Append(a.stk, e)
      /\ b.next = a.next /\ b.size = a.size /\ b.io = a.io
  BY DEF Push, AlGood, IsAl
<1>2. PICK S : a.stk \in Seq(S)
  BY DEF AlGood, IsSeq
<1>3. a.stk \in Seq(S \cup {e}) /\ e \in S \cup {e}
  BY <1>2
<1>4. IsSeq(b.stk)
  <2> HIDE DEF e
  <2>1. Append(a.stk, e) \in Seq(S \cup {e})
    BY ONLY <1>3, AppendProperties
  <2> QED
    BY ONLY <2>1, <1>1 DEF IsSeq
<1>5. ASSUME a.ok PROVE AlSound(b, L)
  <2>1. AlSound(a, K)
    BY <1>5 DEF AlGood
  <2>2. <<ty, r>> \in Types \X Nat /\ InUse(a, <<ty, r>>[1], <<ty, r>>[2])
    BY <2>1 DEF AlSound, KeptOK
  <2>3. ty \in Types /\ r \in Nat /\ InUse(a, ty, r)
    BY <2>2
  <2>4. AlSound(a, L)
    BY <2>1 DEF AlSound, TempsOK, KeptOK
  <2>5. e \in Elems /\ e.kind = "TEMP" /\ e.ty = ty /\ e.idx = r
    BY <2>3 DEF Elem, Elems
  <2>6. \A k \in 1 .. Len(a.stk) :
          ~(a.stk[k].kind = "TEMP" /\ a.stk[k].ty = ty /\ a.stk[k].idx = r)
    BY <2>1 DEF AlSound, TempsOK
  <2>7. <<ty, r>> \notin L
    OBVIOUS
  <2> HIDE DEF e, L
  <2> QED
    BY <2>3, <2>4, <2>5, <2>6, <2>7, <1>1, PushSound
<1> QED
  BY <1>1, <1>4, <1>5 DEF AlGood

\* The end of a block (Pop_redundant_values, Push_result_to_stack).
LEMMA CloseGood ==
  ASSUME NEW a, NEW K, AlGood(a, K), NEW p, p.size \in Nat,
         p.res # Void => <<p.res, p.reg>> \in K
  PROVE  AlGood(Close(a, p), IF p.res = Void THEN K ELSE K \ {<<p.res, p.reg>>})
<1>1. PICK b : b = Pop_redundant_values(a, p)
  OBVIOUS
<1>2. AlGood(b, K)
  <2>1. CASE Len(a.stk) < p.size
    <3>1. b = [a EXCEPT !.ok = FALSE]
      BY <2>1, <1>1 DEF Pop_redundant_values
    <3>2. IsAl(b) /\ b.ok = FALSE /\ b.stk = a.stk
      BY <3>1 DEF AlGood, IsAl
    <3> QED
      BY <3>2 DEF AlGood
  <2>2. CASE ~(Len(a.stk) < p.size)
    <3>1. Len(a.stk) \in Nat
      BY DEF AlGood, IsSeq
    <3>2. PICK n \in Nat : n = Len(a.stk) - p.size
      BY <3>1, <2>2
    <3>3. PICK tys : tys = [k \in 1 .. n |-> Void]
      OBVIOUS
    <3>4. tys \in Seq({Void})
      BY <3>3
    <3>5. b = PopAll(a, tys)
      BY <1>1, <2>2, <3>2, <3>3 DEF Pop_redundant_values
    <3> QED
      BY <3>4, <3>5, PopAllGood DEF IsSeq
  <2> QED
    BY <2>1, <2>2
<1>3. Close(a, p) = Push_result_to_stack(b, p)
  BY <1>1 DEF Close
<1>4. CASE p.res = Void
  BY <1>2, <1>3, <1>4 DEF Push_result_to_stack
<1>5. CASE p.res # Void
  <2>1. Close(a, p) = [Push(b, Elem("TEMP", p.res, p.reg)) EXCEPT !.ok = @ /\ p.reg # 0]
    BY <1>3, <1>5 DEF Push_result_to_stack
  <2> QED
    BY <2>1, <1>2, <1>5, PushKept
<1> QED
  BY <1>4, <1>5

-----------------------------------------------------------------------------
(* The statements.  Every block has at most one end, and an if with an     *)
(* else has that of the else.                                              *)

BlockOps == {"Block", "Loop", "If", "Else"}

Stmts == [op : Ops, parent : Nat, els : Nat, res : Types \cup {Void}, reg : Nat, size : Nat]

StmtOK(g, k) ==
  /\ g[k].parent \in 0 .. k - 1
  /\ g[k].parent # 0 => g[g[k].parent].op \in BlockOps
  /\ g[k].op = "Else" =>
       /\ g[k].els \in 1 .. k - 1 /\ g[g[k].els].op = "If" /\ g[g[k].els].els = k
       /\ g[g[k].els].res = g[k].res
  /\ g[k].op = "If" /\ g[k].els # 0 =>
       g[k].els \in k + 1 .. Len(g) /\ g[g[k].els].op = "Else" /\ g[g[k].els].els = k
  /\ g[k].op \notin {"If", "Else"} => g[k].els = 0
  /\ g[k].op = "End" /\ g[k].parent # 0 =>
       ~(g[g[k].parent].op = "If" /\ g[g[k].parent].els # 0)

EndsApart(g) ==
  \A e, f \in 1 .. Len(g) :
    g[e].op = "End" /\ g[f].op = "End" /\ g[e].parent # 0 /\ g[e].parent = g[f].parent => e = f

GraphOK(g) == g \in Seq(Stmts) /\ EndsApart(g) /\ \A k \in 1 .. Len(g) : StmtOK(g, k)

\* A block that is still open when the instructions so far have been read.
Unended(g, b) ==
  /\ b \in 1 .. Len(g) /\ g[b].op \in BlockOps /\ ~(g[b].op = "If" /\ g[b].els # 0)
  /\ \A e \in 1 .. Len(g) : ~(g[e].op = "End" /\ g[e].parent = b)

WorkOK(w, g) ==
  /\ w \in Seq(Nat) /\ w # << >> /\ w[1] = 0
  /\ \A k \in 2 .. Len(w) : Unended(g, w[k])
  /\ \A j, k \in 1 .. Len(w) : w[j] = w[k] => j = k
  /\ \A b : Unended(g, b) => \E k \in 2 .. Len(w) : w[k] = b

\* What a statement of the hierarchy consists of.
LEMMA StmtFields ==
  ASSUME NEW g \in Seq(Stmts), NEW k \in 1 .. Len(g)
  PROVE  /\ g[k] \in Stmts /\ g[k].op \in Ops /\ g[k].parent \in Nat /\ g[k].els \in Nat
         /\ g[k].res \in Types \cup {Void} /\ g[k].reg \in Nat /\ g[k].size \in Nat
<1>1. g[k] \in Stmts
  BY ElementOfSeq
<1> QED
  BY <1>1 DEF Stmts

\* A statement that is no else is added behind the others.
Grown(g, s, h) ==
  /\ GraphOK(h) /\ Len(h) = Len(g) + 1
  /\ \A b : Unended(g, b) /\ ~(s.op = "End" /\ s.parent = b) => Unended(h, b)
  /\ s.op \in {"Block", "Loop", "If"} => Unended(h, Len(g) + 1)
  /\ \A b : Unended(h, b) => \/ b = Len(g) + 1 /\ s.op \in {"Block", "Loop", "If"}
                             \/ Unended(g, b) /\ ~(s.op = "End" /\ s.parent = b)

\* A statement is appended: only a block it opens or ends changes.
LEMMA GraphAppend ==
  ASSUME NEW g, GraphOK(g), NEW s \in Stmts, s.op # "Else", s.els = 0,
         s.parent \in 0 .. Len(g), s.parent # 0 => Unended(g, s.parent),
         NEW h, h = Append(g, s)
  PROVE  Grown(g, s, h)
<1>1. PICK n \in Nat : n = Len(g) /\ g \in Seq(Stmts)
  BY DEF GraphOK
<1>2. /\ h \in Seq(Stmts) /\ Len(h) = n + 1
      /\ \A k \in 1 .. n : h[k] = g[k]
      /\ h[n + 1] = s
  BY <1>1, AppendProperties
<1>3. \A k \in 1 .. n : StmtOK(h, k)
  <2> SUFFICES ASSUME NEW k \in 1 .. n PROVE StmtOK(h, k)
    OBVIOUS
  <2>1. StmtOK(g, k) /\ h[k] = g[k]
    BY <1>1, <1>2 DEF GraphOK
  <2>2. g[k].parent \in 0 .. k - 1 /\ (g[k].parent # 0 => h[g[k].parent] = g[g[k].parent])
    BY <2>1, <1>2 DEF StmtOK
  <2>3. g[k].op = "Else" => g[k].els \in 1 .. k - 1 /\ h[g[k].els] = g[g[k].els]
    BY <2>1, <1>2 DEF StmtOK
  <2>4. g[k].op = "If" /\ g[k].els # 0 => /\ g[k].els \in k + 1 .. n /\ h[g[k].els] = g[g[k].els]
                                         /\ g[k].els \in k + 1 .. n + 1
    BY <2>1, <1>1, <1>2 DEF StmtOK
  <2> QED
    BY <2>1, <2>2, <2>3, <2>4, <1>2 DEF StmtOK
<1>4. StmtOK(h, n + 1)
  <2>1. s.parent # 0 => s.parent \in 1 .. n /\ h[s.parent] = g[s.parent]
    BY <1>1, <1>2
  <2>2. s.parent \in 0 .. n + 1 - 1
    BY <1>1
  <2> QED
    BY <2>1, <2>2, <1>2 DEF StmtOK, Unended
<1>5. \A k \in 1 .. n + 1 : k \in 1 .. n \/ k = n + 1
  OBVIOUS
<1>6. EndsApart(h)
  <2> SUFFICES ASSUME NEW e \in 1 .. n + 1, NEW f \in 1 .. n + 1, h[e].op = "End", h[f].op = "End",
                      h[e].parent # 0, h[e].parent = h[f].parent
               PROVE  e = f
    BY <1>2 DEF EndsApart
  <2>1. CASE e \in 1 .. n /\ f \in 1 .. n
    BY <2>1, <1>1, <1>2 DEF GraphOK, EndsApart
  <2>2. CASE e = n + 1 /\ f \in 1 .. n
    BY <2>2, <1>1, <1>2 DEF Unended
  <2>3. CASE f = n + 1 /\ e \in 1 .. n
    BY <2>3, <1>1, <1>2 DEF Unended
  <2> QED
    BY <2>1, <2>2, <2>3, <1>5
<1>7. GraphOK(h)
  BY <1>2, <1>3, <1>4, <1>5, <1>6 DEF GraphOK
<1>8. ASSUME NEW b, Unended(g, b), ~(s.op = "End" /\ s.parent = b)
      PROVE  Unended(h, b)
  <2>1. b \in 1 .. n /\ h[b] = g[b] /\ b \in 1 .. n + 1
    BY <1>8, <1>1, <1>2 DEF Unended
  <2>2. \A e \in 1 .. n + 1 : ~(h[e].op = "End" /\ h[e].parent = b)
    BY <1>1, <1>2, <1>5, <1>8 DEF Unended
  <2> QED
    BY <2>1, <2>2, <1>2, <1>8 DEF Unended
<1>9. ASSUME s.op \in {"Block", "Loop", "If"} PROVE Unended(h, n + 1)
  <2>1. \A e \in 1 .. n : g[e].parent \in 0 .. e - 1
    BY <1>1 DEF GraphOK, StmtOK
  <2>2. \A e \in 1 .. n : h[e].parent # n + 1
    BY <2>1, <1>2
  <2>3. \A e \in 1 .. n + 1 : ~(h[e].op = "End" /\ h[e].parent = n + 1)
    BY <2>2, <1>2, <1>5, <1>9
  <2>4. n + 1 \in 1 .. Len(h)
    BY <1>2
  <2> QED
    BY <2>3, <2>4, <1>2, <1>9 DEF Unended, BlockOps
<1>10. ASSUME NEW b, Unended(h, b), ~(b = n + 1 /\ s.op \in {"Block", "Loop", "If"})
       PROVE  Unended(g, b) /\ ~(s.op = "End" /\ s.parent = b)
  <2>1. b \in 1 .. n + 1 /\ h[b].op \in BlockOps
    BY <1>2, <1>10 DEF Unended
  <2>2. b \in 1 .. n
    BY <2>1, <1>2, <1>5, <1>10 DEF BlockOps
  <2>3. \A e \in 1 .. n : e \in 1 .. n + 1
    BY <1>1
  <2>4. n + 1 \in 1 .. n + 1
    BY <1>1
  <2> QED
    BY <2>2, <2>3, <2>4, <1>1, <1>2, <1>10 DEF Unended
<1> QED
  BY <1>1, <1>2, <1>7, <1>8, <1>9, <1>10 DEF Grown

\* An else takes the place of its if; each knows the other (Build_block_hierarchy).
ElseGrown(g, b, h) ==
  /\ GraphOK(h) /\ Len(h) = Len(g) + 1
  /\ \A c : Unended(g, c) /\ c # b => Unended(h, c)
  /\ Unended(h, Len(g) + 1)
  /\ \A c : Unended(h, c) => c = Len(g) + 1 \/ (Unended(g, c) /\ c # b)

\* An Else is appended: it takes the place of its If among the open blocks.
LEMMA GraphElse ==
  ASSUME NEW g, GraphOK(g), NEW b, Unended(g, b), g[b].op = "If", NEW s \in Stmts, s.op = "Else",
         s.els = b, s.parent = g[b].parent, s.res = g[b].res,
         NEW h, h = Append([g EXCEPT ![b].els = Len(g) + 1], s)
  PROVE  ElseGrown(g, b, h)
<1>1. PICK n \in Nat : n = Len(g) /\ g \in Seq(Stmts)
  BY DEF GraphOK
<1>2. b \in 1 .. n /\ g[b] \in Stmts /\ g[b].els = 0
  BY <1>1, StmtFields DEF Unended
<1>3. PICK d : d = [g[b] EXCEPT !.els = n + 1]
  OBVIOUS
<1>4. /\ d \in Stmts /\ d.els = n + 1 /\ d.op = "If" /\ d.parent = g[b].parent /\ d.res = g[b].res
  <2>1. n + 1 \in Nat
    BY <1>1
  <2>2. d \in Stmts
    BY <2>1, <1>2, <1>3 DEF Stmts
  <2>3. d.els = n + 1 /\ d.op = g[b].op /\ d.parent = g[b].parent /\ d.res = g[b].res
    BY <1>2, <1>3 DEF Stmts
  <2> QED
    BY <2>2, <2>3
<1>5. PICK f : f = [g EXCEPT ![b].els = Len(g) + 1]
  OBVIOUS
<1>6. f = [g EXCEPT ![b] = d]
  BY <1>1, <1>3, <1>5
<1>7. /\ f \in Seq(Stmts) /\ Len(f) = n /\ f[b] = d
      /\ \A k \in 1 .. n : k # b => f[k] = g[k]
  BY <1>1, <1>2, <1>4, <1>6, ExceptSeq
<1>8. /\ h \in Seq(Stmts) /\ Len(h) = n + 1
      /\ \A k \in 1 .. n : h[k] = f[k]
      /\ h[n + 1] = s
  BY <1>5, <1>7, AppendProperties
<1>9. /\ h[b] = d /\ \A k \in 1 .. n : k # b => h[k] = g[k]
  BY <1>2, <1>7, <1>8
<1>10. \A k \in 1 .. n : h[k].op = g[k].op /\ h[k].parent = g[k].parent /\ h[k].res = g[k].res
  BY <1>4, <1>9
<1>11. \A k \in 1 .. n : StmtOK(g, k)
  BY <1>1 DEF GraphOK
<1>12. ASSUME NEW k \in 1 .. n, k # b PROVE StmtOK(h, k)
  <2>1. StmtOK(g, k) /\ h[k] = g[k]
    BY <1>9, <1>11, <1>12
  <2>2. g[k].parent \in 0 .. k - 1 /\ (g[k].parent # 0 => g[k].parent \in 1 .. n)
    BY <2>1 DEF StmtOK
  <2>3. g[k].op = "Else" => g[k].els \in 1 .. n /\ g[k].els # b
    BY <2>1, <1>2 DEF StmtOK
  <2>4. g[k].op = "If" /\ g[k].els # 0 => g[k].els \in k + 1 .. n /\ g[k].els \in 1 .. n /\ g[k].els # b
    BY <2>1, <1>1 DEF StmtOK
  <2>5. ~(g[k].op = "End" /\ g[k].parent = b)
    BY <1>1 DEF Unended
  <2>6. g[k].parent # 0 /\ g[k].parent # b => h[g[k].parent] = g[g[k].parent]
    BY <2>2, <1>9
  <2>7. g[k].op = "Else" => h[g[k].els] = g[g[k].els]
    BY <2>3, <1>9
  <2>8. g[k].op = "If" /\ g[k].els # 0 => h[g[k].els] = g[g[k].els] /\ g[k].els \in k + 1 .. n + 1
    <3>1. n + 1 \in Nat /\ \A x \in k + 1 .. n : x \in k + 1 .. n + 1
      BY <1>1
    <3>2. \A x \in 1 .. n : x # b => h[x] = g[x]
      BY <1>9
    <3> QED
      BY ONLY <2>4, <3>1, <3>2
  <2>9. g[k].parent # 0 => h[g[k].parent].op = g[g[k].parent].op
    BY <2>2, <1>10
  <2> QED
    BY <2>1, <2>2, <2>5, <2>6, <2>7, <2>8, <2>9, <1>8 DEF StmtOK
<1>13. StmtOK(h, b)
  <2>1. StmtOK(g, b)
    BY <1>2, <1>11
  <2>2. d.parent \in 0 .. b - 1 /\ (d.parent # 0 => d.parent \in 1 .. n /\ g[d.parent].op \in BlockOps)
    BY <2>1, <1>2, <1>4 DEF StmtOK
  <2>3. d.parent # 0 => h[d.parent].op \in BlockOps
    BY <2>2, <1>10
  <2>4. n + 1 \in b + 1 .. Len(h)
    BY <1>2, <1>8
  <2> QED
    BY <2>2, <2>3, <2>4, <1>4, <1>8, <1>9 DEF StmtOK
<1>14. StmtOK(h, n + 1)
  <2>1. StmtOK(g, b)
    BY <1>2, <1>11
  <2>2. s.parent \in 0 .. b - 1 /\ (s.parent # 0 => s.parent \in 1 .. n /\ g[s.parent].op \in BlockOps)
    BY <2>1, <1>2 DEF StmtOK
  <2>3. s.parent # 0 => h[s.parent].op \in BlockOps
    BY <2>2, <1>10
  <2>4. b \in 1 .. n + 1 - 1 /\ s.parent \in 0 .. n + 1 - 1
    BY <2>2, <1>2
  <2> QED
    BY <2>3, <2>4, <1>4, <1>8, <1>9 DEF StmtOK
<1>15. \A k \in 1 .. n + 1 : k \in 1 .. n \/ k = n + 1
  OBVIOUS
<1>16. EndsApart(h)
  <2> SUFFICES ASSUME NEW e \in 1 .. n + 1, NEW x \in 1 .. n + 1, h[e].op = "End", h[x].op = "End",
                      h[e].parent # 0, h[e].parent = h[x].parent
               PROVE  e = x
    BY <1>8 DEF EndsApart
  <2>1. e \in 1 .. n /\ x \in 1 .. n
    BY <1>8, <1>15
  <2> QED
    BY <2>1, <1>1, <1>10 DEF GraphOK, EndsApart
<1>17. GraphOK(h)
  BY <1>8, <1>12, <1>13, <1>14, <1>15, <1>16 DEF GraphOK
<1>18. ASSUME NEW c, Unended(g, c), c # b PROVE Unended(h, c)
  <2>1. c \in 1 .. n /\ h[c] = g[c] /\ c \in 1 .. n + 1
    BY <1>18, <1>1, <1>9 DEF Unended
  <2>2. \A e \in 1 .. n + 1 : ~(h[e].op = "End" /\ h[e].parent = c)
    BY <1>1, <1>8, <1>10, <1>15, <1>18 DEF Unended
  <2> QED
    BY <2>1, <2>2, <1>8, <1>18 DEF Unended
<1>19. Unended(h, n + 1)
  <2>1. \A e \in 1 .. n : h[e].parent \in 0 .. e - 1
    BY <1>10, <1>11 DEF StmtOK
  <2>2. ASSUME NEW e \in 1 .. n PROVE h[e].parent # n + 1
    <3>1. \A x \in 0 .. e - 1 : x # n + 1
      BY <1>1
    <3> QED
      BY ONLY <2>1, <3>1, <2>2
  <2>3. \A e \in 1 .. n + 1 : ~(h[e].op = "End" /\ h[e].parent = n + 1)
    BY <2>2, <1>8, <1>15
  <2>4. n + 1 \in 1 .. Len(h)
    BY <1>8
  <2> QED
    BY <2>3, <2>4, <1>8 DEF Unended, BlockOps
<1>20. ASSUME NEW c, Unended(h, c), c # n + 1 PROVE Unended(g, c) /\ c # b
  <2>1. c \in 1 .. n + 1 /\ c \in 1 .. n
    BY <1>8, <1>15, <1>20 DEF Unended
  <2>2. c # b
    <3>1. h[b].op = "If" /\ h[b].els = n + 1
      BY <1>4, <1>9
    <3>2. n + 1 # 0
      BY <1>1
    <3> QED
      BY <3>1, <3>2, <1>20 DEF Unended
  <2>3. \A e \in 1 .. n : e \in 1 .. n + 1
    BY <1>1
  <2> QED
    BY <2>1, <2>2, <2>3, <1>1, <1>8, <1>9, <1>10, <1>20 DEF Unended
<1>21. \A c : Unended(h, c) => c = n + 1 \/ (Unended(g, c) /\ c # b)
  BY ONLY <1>20
<1>22. \A c : Unended(g, c) /\ c # b => Unended(h, c)
  BY ONLY <1>18
<1> QED
  BY ONLY <1>1, <1>8, <1>17, <1>19, <1>21, <1>22 DEF ElseGrown

-----------------------------------------------------------------------------
\* The open blocks: work holds them all, the function first.
LEMMA WorkLast ==
  ASSUME NEW w, NEW g, GraphOK(g), WorkOK(w, g)
  PROVE  /\ Len(w) \in Nat \ {0} /\ Last(w) = w[Len(w)]
         /\ Last(w) \in 0 .. Len(g) /\ (Last(w) # 0 => Unended(g, Last(w)))
         /\ Len(w) = 1 => Last(w) = 0
         /\ Len(w) # 1 => Unended(g, Last(w))
<1>1. w \in Seq(Nat) /\ w # << >> /\ w[1] = 0 /\ \A k \in 2 .. Len(w) : Unended(g, w[k])
  BY DEF WorkOK
<1>2. PICK m \in Nat \ {0} : m = Len(w)
  BY <1>1, FrontOf
<1>3. Last(w) = w[m]
  BY <1>2 DEF Last
<1>4. Len(g) \in Nat
  BY DEF GraphOK
<1>5. CASE m = 1
  BY <1>1, <1>2, <1>3, <1>4, <1>5
<1>6. CASE m # 1
  <2>1. m \in 2 .. Len(w)
    BY <1>2, <1>6
  <2>2. Unended(g, w[m])
    BY <2>1, <1>1
  <2>3. w[m] \in 1 .. Len(g)
    BY <2>2 DEF Unended
  <2> QED
    BY <2>2, <2>3, <1>2, <1>3, <1>4, <1>6
<1> QED
  BY <1>5, <1>6

\* The work stack depends on which blocks are open only.
LEMMA WorkStays ==
  ASSUME NEW w, NEW g, NEW h, WorkOK(w, g), \A b : Unended(g, b) <=> Unended(h, b)
  PROVE  WorkOK(w, h)
BY DEF WorkOK

\* A block is opened: it is the innermost one now.
LEMMA WorkOpens ==
  ASSUME NEW w, NEW g, NEW h, GraphOK(g), WorkOK(w, g), NEW d \in Nat, Unended(h, d), ~Unended(g, d), d # 0,
         \A b : Unended(g, b) => Unended(h, b),
         \A b : Unended(h, b) => b = d \/ Unended(g, b),
         NEW x, x = Append(w, d)
  PROVE  WorkOK(x, h) /\ Len(x) = Len(w) + 1
<1>1. /\ w \in Seq(Nat) /\ w # << >> /\ w[1] = 0 /\ \A k \in 2 .. Len(w) : Unended(g, w[k])
      /\ \A j, k \in 1 .. Len(w) : w[j] = w[k] => j = k
      /\ \A b : Unended(g, b) => \E k \in 2 .. Len(w) : w[k] = b
  BY DEF WorkOK
<1>2. PICK m \in Nat \ {0} : m = Len(w)
  BY <1>1, FrontOf
<1>3. /\ x \in Seq(Nat) /\ Len(x) = m + 1 /\ x[m + 1] = d
      /\ \A k \in 1 .. m : x[k] = w[k]
  BY <1>1, <1>2, AppendProperties
<1>4. /\ \A k \in 1 .. m + 1 : k \in 1 .. m \/ k = m + 1
      /\ \A k \in 2 .. m + 1 : k \in 2 .. m \/ k = m + 1
      /\ \A k \in 2 .. m : k \in 1 .. m /\ k \in 2 .. m + 1
      /\ m + 1 \in 2 .. m + 1 /\ 1 \in 1 .. m
      /\ \A k \in 1 .. m : k = 1 \/ k \in 2 .. m
  BY <1>2
<1>5. \A k \in 1 .. m : w[k] # d
  BY <1>1, <1>2, <1>4
<1>6. \A k \in 2 .. m + 1 : Unended(h, x[k])
  BY <1>1, <1>2, <1>3, <1>4
<1>7. \A j, k \in 1 .. m + 1 : x[j] = x[k] => j = k
  BY <1>1, <1>2, <1>3, <1>4, <1>5
<1>8. \A b : Unended(h, b) => \E k \in 2 .. m + 1 : x[k] = b
  BY <1>1, <1>2, <1>3, <1>4
<1>9. x # << >> /\ x[1] = 0
  BY <1>1, <1>2, <1>3, <1>4
<1> QED
  BY ONLY <1>2, <1>3, <1>6, <1>7, <1>8, <1>9 DEF WorkOK

\* The innermost block ends.
LEMMA WorkEnds ==
  ASSUME NEW w, NEW g, NEW h, GraphOK(g), WorkOK(w, g), Len(w) # 1,
         \A b : Unended(g, b) /\ b # Last(w) => Unended(h, b),
         \A b : Unended(h, b) => Unended(g, b) /\ b # Last(w),
         NEW x, x = Front(w)
  PROVE  WorkOK(x, h) /\ Len(x) = Len(w) - 1
<1>1. /\ w \in Seq(Nat) /\ w # << >> /\ w[1] = 0 /\ \A k \in 2 .. Len(w) : Unended(g, w[k])
      /\ \A j, k \in 1 .. Len(w) : w[j] = w[k] => j = k
      /\ \A b : Unended(g, b) => \E k \in 2 .. Len(w) : w[k] = b
  BY DEF WorkOK
<1>2. Len(w) \in Nat \ {0}
  BY <1>1, FrontOf
<1>3. PICK m \in Nat \ {0} : Len(w) = m + 1
  <2>1. \A l \in Nat \ {0} : l # 1 => l - 1 \in Nat \ {0} /\ l = (l - 1) + 1
    OBVIOUS
  <2> QED
    BY <2>1, <1>2
<1>4. /\ x \in Seq(Nat) /\ Len(x) = m /\ Last(w) = w[m + 1]
      /\ \A k \in 1 .. m : x[k] = w[k]
  <2>1. /\ x \in Seq(Nat) /\ Len(x) = Len(w) - 1
        /\ \A k \in 1 .. Len(w) - 1 : x[k] = w[k]
        /\ Last(w) = w[Len(w)]
    BY <1>1, FrontOf
  <2>2. m + 1 - 1 = m
    BY <1>3
  <2> QED
    BY ONLY <2>1, <2>2, <1>3
<1>5. /\ \A k \in 1 .. m + 1 : k \in 1 .. m \/ k = m + 1
      /\ \A k \in 2 .. m + 1 : k \in 2 .. m \/ k = m + 1
      /\ \A k \in 2 .. m : k \in 1 .. m /\ k \in 2 .. m + 1
      /\ m + 1 \in 1 .. m + 1 /\ 1 \in 1 .. m
      /\ \A k \in 1 .. m : k # m + 1 /\ k \in 1 .. m + 1
  BY <1>3
<1>6. \A k \in 1 .. m : w[k] # Last(w)
  BY <1>1, <1>3, <1>4, <1>5
<1>7. \A k \in 2 .. m : Unended(h, x[k])
  BY <1>1, <1>3, <1>4, <1>5, <1>6
<1>8. \A j, k \in 1 .. m : x[j] = x[k] => j = k
  BY <1>1, <1>3, <1>4, <1>5
<1>9. \A b : Unended(h, b) => \E k \in 2 .. m : x[k] = b
  BY <1>1, <1>3, <1>4, <1>5
<1>10. x # << >> /\ x[1] = 0
  BY <1>1, <1>3, <1>4, <1>5
<1> QED
  BY <1>3, <1>4, <1>7, <1>8, <1>9, <1>10 DEF WorkOK


-----------------------------------------------------------------------------
(* Build_block_hierarchy.                                                  *)

\* Of the blocks the validator has open.
Deeper(i) == IF Opens(i) THEN 1 ELSE IF i.op = "End" THEN -1 ELSE 0

\* The validator has one control frame more for every block opened and one
\* fewer for every block ended.
LEMMA CtlLen ==
  ASSUME NEW v, NEW i, NEW f, IsSeq(v.ctl), i.op \in {"End", "Else"} => v.ctl # << >>,
         NEW u, u = Validated(v, i, f)
  PROVE  IsSeq(u.ctl) /\ Len(u.ctl) = Len(v.ctl) + Deeper(i)
<1>1. PICK S : v.ctl \in Seq(S)
  BY DEF IsSeq
<1>2. Len(v.ctl) \in Nat
  BY <1>1
<1>3. CASE i.op = "End"
  <2>1. u.ctl = Front(v.ctl)
    BY <1>3 DEF Validated, Opens
  <2>2. Deeper(i) = -1
    BY <1>3 DEF Deeper, Opens
  <2>3. Front(v.ctl) \in Seq(S) /\ Len(Front(v.ctl)) = Len(v.ctl) - 1
    BY <1>1, <1>3, FrontOf
  <2> QED
    BY <2>1, <2>2, <2>3, <1>2 DEF IsSeq
<1>4. CASE i.op = "Else"
  <2>1. PICK e : u.ctl = Append(Front(v.ctl), e)
    BY <1>4 DEF Validated, Opens
  <2>2. Deeper(i) = 0
    BY <1>4 DEF Deeper, Opens
  <2>3. /\ Front(v.ctl) \in Seq(S) /\ Len(Front(v.ctl)) = Len(v.ctl) - 1
        /\ Len(v.ctl) \in Nat \ {0}
    BY <1>1, <1>4, FrontOf
  <2>4. Front(v.ctl) \in Seq(S \cup {e})
    BY <2>3
  <2>5. u.ctl \in Seq(S \cup {e}) /\ Len(u.ctl) = Len(Front(v.ctl)) + 1
    BY <2>1, <2>4, AppendProperties
  <2> QED
    BY <2>2, <2>3, <2>5 DEF IsSeq
<1>5. CASE Opens(i)
  <2>1. PICK e : u.ctl = Append(v.ctl, e)
    BY <1>5 DEF Validated, Opens
  <2>2. Deeper(i) = 1
    BY <1>5 DEF Deeper
  <2>3. v.ctl \in Seq(S \cup {e})
    BY <1>1
  <2>4. u.ctl \in Seq(S \cup {e}) /\ Len(u.ctl) = Len(v.ctl) + 1
    BY <2>1, <2>3, AppendProperties
  <2> QED
    BY <2>2, <2>4 DEF IsSeq
<1>6. CASE i.op \notin {"End", "Else"} /\ ~Opens(i)
  <2>1. u.ctl = v.ctl \/ u.ctl = Hit(v, i)
    BY <1>6 DEF Validated
  <2>2. Hit(v, i) = v.ctl \/ \E q : Hit(v, i) = [k \in DOMAIN v.ctl |-> q[k]]
    <3>1. CASE i.op \in {"Br", "BrIf", "BrTable"}
      <4>1. PICK q : q = [k \in DOMAIN v.ctl |-> IF Len(v.ctl) - k \in Range(i.n)
                                                THEN [v.ctl[k] EXCEPT !.hit = TRUE] ELSE v.ctl[k]]
        OBVIOUS
      <4>2. Hit(v, i) = q
        BY <3>1, <4>1 DEF Hit
      <4> QED
        BY <4>1, <4>2
    <3>2. CASE i.op \notin {"Br", "BrIf", "BrTable"}
      BY <3>2 DEF Hit
    <3> QED
      BY <3>1, <3>2
  <2>3. Deeper(i) = 0
    BY <1>6 DEF Deeper
  <2>4. ASSUME NEW q, u.ctl = [k \in DOMAIN v.ctl |-> q[k]]
        PROVE  IsSeq(u.ctl) /\ Len(u.ctl) = Len(v.ctl)
    <3>1. PICK n \in Nat : DOMAIN v.ctl = 1 .. n /\ n = Len(v.ctl)
      BY <1>1, <1>2
    <3>2. u.ctl = [k \in 1 .. n |-> q[k]]
      BY <2>4, <3>1
    <3>3. u.ctl \in Seq({q[k] : k \in 1 .. n}) /\ Len(u.ctl) = n
      BY <3>2
    <3> QED
      BY <3>1, <3>3 DEF IsSeq
  <2> QED
    BY <2>1, <2>2, <2>3, <2>4, <1>2
<1> QED
  BY <1>3, <1>4, <1>5, <1>6

\* The statement of a well-formed instruction.
LEMMA StmtGood ==
  ASSUME NEW i, WellFormed(i), NEW p \in Nat
  PROVE  /\ Stmt(i, p) \in Stmts /\ Stmt(i, p).op = i.op /\ Stmt(i, p).parent = p
         /\ Stmt(i, p).els = 0 /\ Stmt(i, p).res = i.ty
BY DEF WellFormed, Stmt, Stmts

\* What an instruction does to the statements and to the open blocks.
Hierarchy(g, w, i, h, x) ==
  CASE Opens(i) -> h = Append(g, Stmt(i, Last(w))) /\ x = Append(w, Len(g) + 1)
    [] i.op = "Else" ->
         /\ g[Last(w)].op = "If"
         /\ h = Append([g EXCEPT ![Last(w)].els = Len(g) + 1],
                       [Stmt(i, g[Last(w)].parent) EXCEPT !.els = Last(w), !.res = g[Last(w)].res])
         /\ x = Append(Front(w), Len(g) + 1)
    [] OTHER -> h = Append(g, Stmt(i, Last(w))) /\ x = IF i.op = "End" THEN Front(w) ELSE w

\* Build_block_hierarchy takes one instruction: the statements stay well formed
\* and the work stack holds the blocks that have no end yet.
LEMMA HierarchyStep ==
  ASSUME NEW g, NEW w, NEW i, NEW h, NEW x, Hierarchy(g, w, i, h, x), GraphOK(g), WorkOK(w, g),
         WellFormed(i), i.op = "Else" => Len(w) # 1
  PROVE  /\ GraphOK(h) /\ Len(h) = Len(g) + 1 /\ h[Len(g) + 1].op = i.op
         /\ \A k \in 1 .. Len(g) : h[k].op = g[k].op
         /\ i.op = "End" /\ Len(w) = 1 => \A b : ~Unended(h, b)
         /\ ~(i.op = "End" /\ Len(w) = 1) => WorkOK(x, h) /\ Len(x) = Len(w) + Deeper(i)
<1>1. PICK n \in Nat : n = Len(g) /\ g \in Seq(Stmts)
  BY DEF GraphOK
<1>2. PICK m \in Nat \ {0} : m = Len(w)
  BY WorkLast
<1>3. PICK l \in 0 .. n : /\ l = Last(w) /\ (l # 0 => Unended(g, l)) /\ (m = 1 => l = 0)
                         /\ (m # 1 => Unended(g, l)) /\ l \in Nat
  <2>1. /\ Last(w) \in 0 .. n /\ (Last(w) # 0 => Unended(g, Last(w)))
        /\ m = 1 => Last(w) = 0
        /\ m # 1 => Unended(g, Last(w))
    BY WorkLast, <1>1, <1>2
  <2>2. \A l \in 0 .. n : l \in Nat
    BY <1>1
  <2> QED
    BY ONLY <2>1, <2>2
<1>4. ~Unended(g, 0) /\ ~Unended(g, n + 1) /\ n + 1 # 0 /\ n + 1 \in Nat
  BY <1>1 DEF Unended
<1>5. CASE i.op # "Else"
  <2>1. PICK s : /\ s \in Stmts /\ s = Stmt(i, l) /\ s.op = i.op /\ s.parent = l /\ s.els = 0
    BY <1>3, StmtGood
  <2>2. /\ h = Append(g, s)
        /\ x = IF Opens(i) THEN Append(w, n + 1) ELSE IF i.op = "End" THEN Front(w) ELSE w
    BY <2>1, <1>1, <1>3, <1>5 DEF Hierarchy, Opens
  <2>3. /\ GraphOK(h) /\ Len(h) = n + 1
        /\ \A b : Unended(g, b) /\ ~(s.op = "End" /\ l = b) => Unended(h, b)
        /\ s.op \in {"Block", "Loop", "If"} => Unended(h, n + 1)
        /\ \A b : Unended(h, b) => \/ b = n + 1 /\ s.op \in {"Block", "Loop", "If"}
                                   \/ Unended(g, b) /\ ~(s.op = "End" /\ l = b)
    <3>1. s.parent \in 0 .. Len(g) /\ (s.parent # 0 => Unended(g, s.parent)) /\ s.op # "Else"
      BY <1>1, <1>3, <1>5, <2>1
    <3>2. s \in Stmts /\ s.els = 0 /\ h = Append(g, s)
      BY <2>1, <2>2
    <3>3. Grown(g, s, h)
      BY ONLY <3>1, <3>2, GraphOK(g), GraphAppend
    <3> QED
      BY ONLY <3>3, <2>1, <1>1 DEF Grown
  <2>4. h[n + 1] = s /\ \A k \in 1 .. n : h[k] = g[k]
    BY <1>1, <2>1, <2>2, AppendProperties
  <2>5. CASE Opens(i)
    <3>1. s.op \in {"Block", "Loop", "If"} /\ s.op # "End" /\ Deeper(i) = 1
      BY <2>1, <2>5 DEF Opens, Deeper
    <3>2. \A b : Unended(g, b) => Unended(h, b)
      BY <2>3, <3>1
    <3>3. \A b : Unended(h, b) => b = n + 1 \/ Unended(g, b)
      BY <2>3
    <3>4. WorkOK(x, h) /\ Len(x) = m + 1
      BY <3>1, <3>2, <3>3, <2>2, <2>3, <2>5, <1>2, <1>4, WorkOpens
    <3> QED
      BY ONLY <3>1, <3>4, <2>1, <2>3, <2>4, <1>1, <1>2
  <2>6. CASE i.op = "End"
    <3>1. ~Opens(i) /\ Deeper(i) = -1 /\ s.op = "End"
      BY <2>1, <2>6 DEF Opens, Deeper
    <3>2. \A b : Unended(g, b) /\ b # l => Unended(h, b)
      BY <2>3
    <3>3. \A b : Unended(h, b) => Unended(g, b) /\ b # l
      BY <2>3, <3>1
    <3>4. ASSUME m # 1 PROVE WorkOK(x, h) /\ Len(x) = m - 1
      <4>1. x = Front(w) /\ Len(w) # 1
        BY <3>1, <3>4, <2>2, <2>6, <1>2
      <4>2. /\ \A b : Unended(g, b) /\ b # Last(w) => Unended(h, b)
            /\ \A b : Unended(h, b) => Unended(g, b) /\ b # Last(w)
        BY ONLY <3>2, <3>3, <1>3
      <4>3. WorkOK(x, h) /\ Len(x) = Len(w) - 1
        BY <4>1, <4>2, WorkEnds
      <4> QED
        BY ONLY <4>3, <1>2
    <3>5. ASSUME m = 1 PROVE \A b : ~Unended(h, b)
      <4>1. Len(w) = 1
        BY ONLY <3>5, <1>2
      <4>2. \A b : ~Unended(g, b)
        <5>1. \A k \in 2 .. 1 : FALSE
          OBVIOUS
        <5>2. \A b : Unended(g, b) => \E k \in 2 .. Len(w) : w[k] = b
          BY DEF WorkOK
        <5> QED
          BY ONLY <5>1, <5>2, <4>1
      <4> QED
        BY <4>2, <3>3
    <3>6. m - 1 = m + (-1)
      BY <1>2
    <3> QED
      BY ONLY <3>1, <3>4, <3>5, <3>6, <2>1, <2>3, <2>4, <2>6, <1>1, <1>2
  <2>7. CASE ~Opens(i) /\ i.op # "End"
    <3>1. s.op \notin {"Block", "Loop", "If"} /\ s.op # "End" /\ Deeper(i) = 0 /\ x = w
      BY <2>1, <2>2, <2>7 DEF Opens, Deeper
    <3>2. \A b : Unended(g, b) <=> Unended(h, b)
      BY <2>3, <3>1
    <3>3. WorkOK(x, h)
      BY <3>1, <3>2, WorkStays
    <3>4. m + 0 = m
      BY <1>2
    <3> QED
      BY ONLY <3>1, <3>3, <3>4, <2>1, <2>3, <2>4, <2>7, <1>1, <1>2
  <2> QED
    BY ONLY <2>5, <2>6, <2>7
<1>6. CASE i.op = "Else"
  <2>1. /\ g[l].op = "If" /\ x = Append(Front(w), n + 1) /\ ~Opens(i) /\ Deeper(i) = 0 /\ Unended(g, l)
        /\ h = Append([g EXCEPT ![l].els = Len(g) + 1], [Stmt(i, g[l].parent) EXCEPT !.els = l, !.res = g[l].res])
    BY <1>1, <1>2, <1>3, <1>6 DEF Hierarchy, Opens, Deeper
  <2>2. l \in 1 .. n /\ g[l].parent \in Nat /\ g[l].res \in Types \cup {Void} /\ g[l] \in Stmts
    BY <2>1, <1>1, StmtFields DEF Unended
  <2>3. PICK t : t \in Stmts /\ t = Stmt(i, g[l].parent) /\ t.op = "Else" /\ t.parent = g[l].parent
    BY <2>2, <1>6, StmtGood
  <2>4. PICK s : s = [t EXCEPT !.els = l, !.res = g[l].res]
    OBVIOUS
  <2>5. s \in Stmts /\ s.op = "Else" /\ s.parent = g[l].parent /\ s.els = l /\ s.res = g[l].res
    BY <2>2, <2>3, <2>4, <1>3 DEF Stmts
  <2>6. h = Append([g EXCEPT ![l].els = Len(g) + 1], s)
    BY <2>1, <2>3, <2>4
  <2>7. /\ GraphOK(h) /\ Len(h) = n + 1 /\ Unended(h, n + 1)
        /\ \A c : Unended(g, c) /\ c # l => Unended(h, c)
        /\ \A c : Unended(h, c) => c = n + 1 \/ (Unended(g, c) /\ c # l)
    <3>1. Unended(g, l) /\ g[l].op = "If"
      BY <2>1
    <3>2. ElseGrown(g, l, h)
      BY ONLY <3>1, <2>5, <2>6, GraphOK(g), GraphElse
    <3> QED
      BY ONLY <3>2, <1>1 DEF ElseGrown
  <2>8. h[n + 1].op = "Else" /\ \A k \in 1 .. n : h[k].op = g[k].op
    <3>1. PICK d : d = [g[l] EXCEPT !.els = n + 1] /\ d \in Stmts /\ d.op = g[l].op
      <4>1. PICK d : d = [g[l] EXCEPT !.els = n + 1]
        OBVIOUS
      <4>2. d \in Stmts
        BY <4>1, <2>2, <1>4 DEF Stmts
      <4>3. d.op = g[l].op
        BY <4>1, <2>2 DEF Stmts
      <4> QED
        BY <4>1, <4>2, <4>3
    <3>2. PICK f : f = [g EXCEPT ![l].els = Len(g) + 1]
      OBVIOUS
    <3>3. f = [g EXCEPT ![l] = d]
      BY <3>1, <3>2, <1>1
    <3>4. /\ f \in Seq(Stmts) /\ Len(f) = n /\ f[l] = d
          /\ \A k \in 1 .. n : k # l => f[k] = g[k]
      BY <3>1, <3>3, <2>2, <1>1, ExceptSeq
    <3>5. h[n + 1] = s /\ \A k \in 1 .. n : h[k] = f[k]
      BY <3>2, <3>4, <2>5, <2>6, AppendProperties
    <3>6. \A k \in 1 .. n : h[k].op = g[k].op
      BY ONLY <3>1, <3>4, <3>5
    <3> QED
      BY ONLY <3>5, <3>6, <2>5
  <2>9. WorkOK(x, h) /\ Len(x) = m
    <3> DEFINE U(b) == Unended(g, b) /\ b # l
    <3>1. PICK y : y = Front(w)
      OBVIOUS
    <3>2. /\ y \in Seq(Nat) /\ Len(y) = m - 1 /\ m - 1 \in Nat \ {0}
          /\ \A k \in 1 .. m - 1 : y[k] = w[k]
      <4>1. w \in Seq(Nat) /\ w # << >>
        BY DEF WorkOK
      <4>2. m # 1
        BY <1>2, <1>6
      <4>3. \A z \in Nat \ {0} : z # 1 => z - 1 \in Nat \ {0}
        OBVIOUS
      <4>4. m - 1 \in Nat \ {0}
        BY ONLY <4>2, <4>3, <1>2
      <4>5. /\ y \in Seq(Nat) /\ Len(y) = Len(w) - 1
            /\ \A k \in 1 .. Len(w) - 1 : y[k] = w[k]
        BY <4>1, <3>1, FrontOf
      <4> QED
        BY ONLY <4>4, <4>5, <1>2
    <3>3. PICK r \in Nat \ {0} : m = r + 1 /\ Len(y) = r /\ \A k \in 1 .. r : y[k] = w[k]
      BY <3>2
    <3>4. /\ x \in Seq(Nat) /\ Len(x) = r + 1 /\ x[r + 1] = n + 1
          /\ \A k \in 1 .. r : x[k] = w[k]
      BY <3>1, <3>2, <3>3, <2>1, <1>4, AppendProperties
    <3>5. /\ w \in Seq(Nat) /\ w[1] = 0 /\ \A k \in 2 .. r + 1 : Unended(g, w[k])
          /\ \A j, k \in 1 .. r + 1 : w[j] = w[k] => j = k
          /\ \A b : Unended(g, b) => \E k \in 2 .. r + 1 : w[k] = b
      BY <3>3, <1>2 DEF WorkOK
    <3>6. /\ \A k \in 1 .. r + 1 : k \in 1 .. r \/ k = r + 1
          /\ \A k \in 2 .. r + 1 : k \in 2 .. r \/ k = r + 1
          /\ \A k \in 2 .. r : k \in 1 .. r /\ k \in 2 .. r + 1
          /\ r + 1 \in 1 .. r + 1 /\ 1 \in 1 .. r /\ r + 1 \in 2 .. r + 1
          /\ \A k \in 1 .. r : k # r + 1 /\ k \in 1 .. r + 1
          /\ \A k \in 1 .. r : k = 1 \/ k \in 2 .. r
      BY <3>3
    <3>7. w[r + 1] = l
      BY <1>2, <1>3, <3>3 DEF Last
    <3>8. \A k \in 1 .. r : w[k] # l /\ w[k] # n + 1
      <4>1. \A k \in 1 .. r : w[k] # l
        BY ONLY <3>5, <3>6, <3>7
      <4>2. \A k \in 1 .. r : w[k] # n + 1
        BY ONLY <3>5, <3>6, <1>4
      <4> QED
        BY <4>1, <4>2
    <3>9. ASSUME NEW k \in 2 .. r + 1 PROVE Unended(h, x[k])
      <4>1. CASE k \in 2 .. r
        <5>1. k \in 1 .. r /\ k \in 2 .. r + 1
          BY ONLY <3>6, <4>1
        <5>2. x[k] = w[k] /\ w[k] # l /\ Unended(g, w[k])
          BY ONLY <5>1, <3>4, <3>5, <3>8
        <5> QED
          BY ONLY <5>2, <2>7
      <4>2. CASE k = r + 1
        BY ONLY <4>2, <3>4, <2>7
      <4> QED
        BY ONLY <3>9, <4>1, <4>2, <3>6
    <3>10. \A j, k \in 1 .. r + 1 : x[j] = x[k] => j = k
      BY <3>4, <3>5, <3>6, <3>8
    <3>11. \A b : Unended(h, b) => \E k \in 2 .. r + 1 : x[k] = b
      BY <3>4, <3>5, <3>6, <3>7, <2>7
    <3>12. x # << >> /\ x[1] = 0
      BY <3>3, <3>4, <3>5, <3>6
    <3> QED
      BY ONLY <3>3, <3>4, <3>9, <3>10, <3>11, <3>12 DEF WorkOK
  <2>10. m + 0 = m
    BY <1>2
  <2> QED
    BY ONLY <2>1, <2>7, <2>8, <2>9, <2>10, <1>1, <1>2, <1>6
<1> QED
  BY ONLY <1>5, <1>6

-----------------------------------------------------------------------------
(* The blocks that are open when instruction t is converted, and what they *)
(* keep for their results.                                                 *)

Openers == {"Block", "Loop", "If"}

EndsBlock(g, e, b) == g[e].op = "End" /\ g[e].parent # 0 /\ g[e].parent \in {b, g[b].els}

OpenAt(g, t) == {b \in 1 .. t - 1 : g[b].op \in Openers /\ \A e \in 1 .. t - 1 : ~EndsBlock(g, e, b)}

KeepAt(g, t) == {b \in OpenAt(g, t) : g[b].res # Void}

KeptAt(g, t) == {<<g[b].res, g[b].reg>> : b \in KeepAt(g, t)}

KeptApart(g, t) ==
  \A b, c \in KeepAt(g, t) : g[b].res = g[c].res /\ g[b].reg = g[c].reg => b = c

\* An if and its else have the same register.
SameReg(g, t) ==
  \A k \in 1 .. t - 1 : g[k].op = "If" /\ g[k].els # 0 => g[g[k].els].reg = g[k].reg

\* Before anything is converted.
LEMMA NothingOpen ==
  ASSUME NEW g
  PROVE  KeptAt(g, 1) = {} /\ KeptApart(g, 1) /\ SameReg(g, 1)
<1>1. \A k \in 1 .. 1 - 1 : FALSE
  OBVIOUS
<1>2. KeepAt(g, 1) = {}
  BY <1>1 DEF KeepAt, OpenAt
<1> QED
  BY <1>1, <1>2 DEF KeptAt, KeptApart, SameReg

\* An instruction that neither opens nor ends a block.
LEMMA KeepOther ==
  ASSUME NEW g, NEW t \in Nat, g[t].op \notin Openers, g[t].op = "End" => g[t].parent = 0
  PROVE  /\ KeptAt(g, t + 1) = KeptAt(g, t)
         /\ KeptApart(g, t) => KeptApart(g, t + 1)
         /\ SameReg(g, t) => SameReg(g, t + 1)
<1>1. /\ \A k \in 1 .. t + 1 - 1 : k \in 1 .. t - 1 \/ k = t
      /\ \A k \in 1 .. t - 1 : k \in 1 .. t + 1 - 1
  OBVIOUS
<1>2. \A b : ~EndsBlock(g, t, b)
  BY DEF EndsBlock
<1>3. OpenAt(g, t + 1) = OpenAt(g, t)
  BY ONLY <1>1, <1>2, g[t].op \notin Openers DEF OpenAt
<1>4. KeepAt(g, t + 1) = KeepAt(g, t)
  BY <1>3 DEF KeepAt
<1>5. SameReg(g, t) => SameReg(g, t + 1)
  BY ONLY <1>1, g[t].op \notin Openers DEF SameReg, Openers
<1> QED
  BY <1>4, <1>5 DEF KeptAt, KeptApart

\* The register of block t is r: that of its else too, and no other changes.
Given(g, h, t, r, z) ==
  /\ h \in Seq(Stmts) /\ Len(h) = Len(g)
  /\ \A k \in 1 .. Len(g) : /\ h[k].op = g[k].op /\ h[k].parent = g[k].parent
                            /\ h[k].els = g[k].els /\ h[k].res = g[k].res
                            /\ (k = t \/ (k = g[t].els /\ g[t].els # 0)) => h[k].reg = r /\ h[k].size = z
                            /\ ~(k = t \/ (k = g[t].els /\ g[t].els # 0)) => h[k] = g[k]

\* A block with a result is entered: its register is kept from now on.
LEMMA KeepOpens ==
  ASSUME NEW g, GraphOK(g), NEW t \in 1 .. Len(g), g[t].op \in Openers,
         NEW h, NEW r, NEW z, Given(g, h, t, r, z), KeptApart(g, t), SameReg(g, t)
  PROVE  /\ KeptAt(h, t + 1) = IF g[t].res = Void THEN KeptAt(g, t) ELSE KeptAt(g, t) \cup {<<g[t].res, r>>}
         /\ (g[t].res # Void => <<g[t].res, r>> \notin KeptAt(g, t)) => KeptApart(h, t + 1)
         /\ SameReg(h, t + 1)
<1>1. PICK n \in Nat : n = Len(g) /\ g \in Seq(Stmts) /\ t \in 1 .. n /\ t \in Nat
  BY DEF GraphOK
<1>2. /\ \A k \in 1 .. t + 1 - 1 : k \in 1 .. t - 1 \/ k = t
      /\ \A k \in 1 .. t - 1 : k \in 1 .. t + 1 - 1 /\ k \in 1 .. n /\ k # t
      /\ t \in 1 .. t + 1 - 1
  BY <1>1
<1>3. \A k \in 1 .. n : StmtOK(g, k)
  BY <1>1 DEF GraphOK
<1>4. g[t].op # "End" /\ g[t].op # "Else"
  BY DEF Openers
<1>5. \A k \in 1 .. n : /\ h[k].op = g[k].op /\ h[k].parent = g[k].parent
                        /\ h[k].els = g[k].els /\ h[k].res = g[k].res
  BY <1>1 DEF Given
<1>6. \A e, b \in 1 .. n : EndsBlock(h, e, b) <=> EndsBlock(g, e, b)
  BY ONLY <1>5 DEF EndsBlock
<1>7. g[t].els # 0 => g[t].els \in t + 1 .. n /\ g[t].op = "If" /\ g[g[t].els].els = t
  BY <1>1, <1>3, <1>4 DEF StmtOK
<1>8. \A e \in 1 .. t : ~EndsBlock(g, e, t)
  <2> SUFFICES ASSUME NEW e \in 1 .. t, EndsBlock(g, e, t) PROVE FALSE
    OBVIOUS
  <2>1. e \in 1 .. n /\ e \in Nat
    BY <1>1
  <2>2. StmtOK(g, e) /\ e # t
    BY <2>1, <1>3, <1>4 DEF EndsBlock
  <2>3. g[e].parent \in 0 .. e - 1 /\ (g[e].parent = t \/ (g[e].parent = g[t].els /\ g[t].els # 0))
    BY <2>2 DEF StmtOK, EndsBlock
  <2>4. \A x \in 0 .. e - 1 : x # t /\ x \notin t + 1 .. n
    BY <2>1, <1>1
  <2> QED
    BY ONLY <2>3, <2>4, <1>7
<1>9. \A b : ~EndsBlock(g, t, b)
  BY <1>4 DEF EndsBlock
<1>10. OpenAt(h, t + 1) = OpenAt(g, t) \cup {t}
  <2>1. ASSUME NEW b \in OpenAt(h, t + 1), b # t PROVE b \in OpenAt(g, t)
    <3>1. b \in 1 .. t - 1 /\ b \in 1 .. n /\ h[b].op \in Openers
      BY ONLY <2>1, <1>2 DEF OpenAt
    <3>2. \A e \in 1 .. t - 1 : ~EndsBlock(h, e, b) /\ e \in 1 .. n
      BY ONLY <2>1, <1>2 DEF OpenAt
    <3>3. \A e \in 1 .. t - 1 : ~EndsBlock(g, e, b)
      BY ONLY <3>1, <3>2, <1>6
    <3> QED
      BY ONLY <3>1, <3>3, <1>5 DEF OpenAt
  <2>2. ASSUME NEW b \in OpenAt(g, t) PROVE b \in OpenAt(h, t + 1)
    <3>1. b \in 1 .. t - 1 /\ b \in 1 .. n /\ g[b].op \in Openers /\ b \in 1 .. t + 1 - 1
      BY ONLY <2>2, <1>2 DEF OpenAt
    <3>2. \A e \in 1 .. t + 1 - 1 : ~EndsBlock(g, e, b) /\ e \in 1 .. n
      BY ONLY <2>2, <1>1, <1>2, <1>9 DEF OpenAt
    <3>3. \A e \in 1 .. t + 1 - 1 : ~EndsBlock(h, e, b)
      BY ONLY <3>1, <3>2, <1>6
    <3> QED
      BY ONLY <3>1, <3>3, <1>5 DEF OpenAt
  <2>3. t \in OpenAt(h, t + 1)
    <3>1. \A e \in 1 .. t + 1 - 1 : ~EndsBlock(g, e, t) /\ e \in 1 .. n
      BY ONLY <1>1, <1>2, <1>8
    <3>2. \A e \in 1 .. t + 1 - 1 : ~EndsBlock(h, e, t)
      BY ONLY <3>1, <1>1, <1>6
    <3>3. h[t].op \in Openers
      BY <1>1, <1>5
    <3> QED
      BY ONLY <3>2, <3>3, <1>2 DEF OpenAt
  <2> QED
    BY <2>1, <2>2, <2>3
<1>11. KeepAt(h, t + 1) = IF g[t].res = Void THEN KeepAt(g, t) ELSE KeepAt(g, t) \cup {t}
  <2>1. \A b \in OpenAt(g, t) : b \in 1 .. n
    BY ONLY <1>2 DEF OpenAt
  <2> QED
    BY ONLY <2>1, <1>1, <1>5, <1>10 DEF KeepAt
<1>12. ASSUME NEW b \in KeepAt(g, t) PROVE b \in 1 .. n /\ h[b] = g[b] /\ b # t
  <2>1. b \in 1 .. t - 1 /\ b \in 1 .. n /\ b # t
    BY <1>2, <1>12 DEF KeepAt, OpenAt
  <2>2. \A x \in t + 1 .. n : x # b
    BY <2>1, <1>1
  <2> QED
    BY <2>1, <2>2, <1>1, <1>7 DEF Given
<1>13. h[t].reg = r /\ h[t].res = g[t].res
  BY <1>1 DEF Given
<1>14. KeptAt(h, t + 1) = IF g[t].res = Void THEN KeptAt(g, t) ELSE KeptAt(g, t) \cup {<<g[t].res, r>>}
  BY ONLY <1>11, <1>12, <1>13 DEF KeptAt
<1>15. ASSUME g[t].res # Void => <<g[t].res, r>> \notin KeptAt(g, t) PROVE KeptApart(h, t + 1)
  <2>1. \A b \in KeepAt(g, t) : <<g[b].res, g[b].reg>> \in KeptAt(g, t)
    BY ONLY DEF KeptAt
  <2>2. \A b \in KeepAt(g, t) : g[t].res # Void => <<g[b].res, g[b].reg>> # <<g[t].res, r>>
    BY ONLY <2>1, <1>15
  <2>3. \A b \in KeepAt(g, t) : g[t].res # Void => ~(g[b].res = g[t].res /\ g[b].reg = r)
    BY ONLY <2>2
  <2> QED
    BY ONLY <2>3, <1>11, <1>12, <1>13, KeptApart(g, t) DEF KeptApart
<1>16. SameReg(h, t + 1)
  <2> SUFFICES ASSUME NEW k \in 1 .. t + 1 - 1, h[k].op = "If", h[k].els # 0
               PROVE  h[h[k].els].reg = h[k].reg
    BY DEF SameReg
  <2>1. CASE k = t
    <3>1. h[t].els = g[t].els /\ g[t].els # 0 /\ g[t].els \in 1 .. n
      <4>1. h[t].els = g[t].els /\ g[t].els # 0
        BY <2>1, <1>1, <1>5
      <4>2. \A x \in t + 1 .. n : x \in 1 .. n
        BY <1>1
      <4> QED
        BY ONLY <4>1, <4>2, <1>7
    <3>2. h[g[t].els].reg = r
      BY ONLY <3>1, <1>1, Given(g, h, t, r, z) DEF Given
    <3> QED
      BY ONLY <3>1, <3>2, <2>1, <1>13
  <2>2. CASE k \in 1 .. t - 1
    <3>1. k \in 1 .. n /\ k # t /\ g[k].op = "If" /\ g[k].els # 0 /\ h[k].els = g[k].els
      BY <2>2, <1>2, <1>5
    <3>2. /\ g[k].els \in k + 1 .. n /\ g[g[k].els].op = "Else" /\ g[g[k].els].els = k
      BY ONLY <3>1, <1>1, <1>3 DEF StmtOK
    <3>3. g[k].els # t /\ ~(g[k].els = g[t].els /\ g[t].els # 0) /\ ~(k = g[t].els /\ g[t].els # 0)
      <4>1. g[k].els # t
        BY ONLY <3>2, <1>4
      <4>2. g[k].els = g[t].els /\ g[t].els # 0 => k = t
        BY ONLY <3>2, <1>7
      <4>3. \A x \in t + 1 .. n : x # k
        BY <2>2, <1>1
      <4> QED
        BY ONLY <4>1, <4>2, <4>3, <3>1, <1>7
    <3>4. g[k].els \in 1 .. n
      <4>1. \A x \in k + 1 .. n : x \in 1 .. n
        BY <3>1
      <4> QED
        BY ONLY <4>1, <3>2
    <3>5. h[k] = g[k] /\ h[g[k].els] = g[g[k].els]
      BY ONLY <3>1, <3>3, <3>4, <1>1, Given(g, h, t, r, z) DEF Given
    <3>6. g[g[k].els].reg = g[k].reg
      BY ONLY <2>2, <3>1, SameReg(g, t) DEF SameReg
    <3> QED
      BY ONLY <3>5, <3>6
  <2> QED
    BY <2>1, <2>2, <1>2
<1> QED
  BY ONLY <1>14, <1>15, <1>16

\* The end of a block, or of the else of an if: that block, and no other.
BlockEnded(g, t, p) ==
  /\ g[p].res # Void => <<g[p].res, g[p].reg>> \in KeptAt(g, t)
  /\ KeptAt(g, t + 1) = IF g[p].res = Void THEN KeptAt(g, t)
                        ELSE KeptAt(g, t) \ {<<g[p].res, g[p].reg>>}
  /\ KeptApart(g, t + 1) /\ SameReg(g, t + 1)

\* A block ends: its register is not kept any longer, all others are.
LEMMA KeepEnds ==
  ASSUME NEW g, GraphOK(g), NEW t \in 1 .. Len(g), g[t].op = "End",
         NEW p, p = g[t].parent, p # 0, KeptApart(g, t), SameReg(g, t)
  PROVE  BlockEnded(g, t, p)
<1>1. PICK n \in Nat : n = Len(g) /\ g \in Seq(Stmts) /\ t \in 1 .. n /\ t \in Nat
  BY DEF GraphOK
<1>2. /\ \A k \in 1 .. t + 1 - 1 : k \in 1 .. t - 1 \/ k = t
      /\ \A k \in 1 .. t - 1 : k \in 1 .. t + 1 - 1 /\ k \in 1 .. n /\ k # t
      /\ t \in 1 .. t + 1 - 1
  BY <1>1
<1>3. \A k \in 1 .. n : StmtOK(g, k)
  BY <1>1 DEF GraphOK
<1>4. /\ p \in 0 .. t - 1 /\ g[p].op \in BlockOps
      /\ ~(g[p].op = "If" /\ g[p].els # 0)
  BY <1>1, <1>3 DEF StmtOK
<1>5. p \in 1 .. t - 1 /\ p \in 1 .. n
  BY <1>1, <1>4
<1>6. PICK j \in 1 .. t - 1 : /\ j \in 1 .. n /\ g[j].op \in Openers
                             /\ g[j].res = g[p].res /\ g[j].reg = g[p].reg
                             /\ \/ g[p].op # "Else" /\ j = p /\ g[j].els = 0
                                \/ g[p].op = "Else" /\ j = g[p].els /\ g[j].op = "If" /\ g[j].els = p
  <2>1. CASE g[p].op # "Else"
    <3>1. g[p].els = 0
      BY ONLY <2>1, <1>3, <1>4, <1>5 DEF StmtOK, BlockOps
    <3> QED
      BY ONLY <2>1, <3>1, <1>4, <1>5 DEF BlockOps, Openers
  <2>2. CASE g[p].op = "Else"
    <3>1. /\ g[p].els \in 1 .. p - 1 /\ g[g[p].els].op = "If" /\ g[g[p].els].els = p
          /\ g[g[p].els].res = g[p].res
      BY ONLY <2>2, <1>3, <1>5 DEF StmtOK
    <3>2. \A x \in 1 .. p - 1 : x \in 1 .. t - 1 /\ x \in 1 .. n
      BY <1>1, <1>5
    <3>3. g[g[g[p].els].els].reg = g[g[p].els].reg
      BY <3>1, <3>2, p # 0 DEF SameReg
    <3> QED
      BY ONLY <3>1, <3>2, <3>3, <2>2 DEF Openers
  <2> QED
    BY <2>1, <2>2
<1>7. \A e, f \in 1 .. n :
        g[e].op = "End" /\ g[f].op = "End" /\ g[e].parent # 0 /\ g[e].parent = g[f].parent => e = f
  BY <1>1 DEF GraphOK, EndsApart
<1>8. \A e \in 1 .. t - 1 : ~EndsBlock(g, e, j)
  <2> SUFFICES ASSUME NEW e \in 1 .. t - 1, EndsBlock(g, e, j) PROVE FALSE
    OBVIOUS
  <2>1. e \in 1 .. n /\ e # t
    BY <1>2
  <2>2. g[e].op = "End" /\ g[e].parent # 0 /\ g[e].parent \in {j, g[j].els} /\ g[e].parent # p
    BY <2>1, <1>1, <1>7 DEF EndsBlock
  <2>3. g[e].parent = j /\ g[j].op = "If" /\ g[j].els # 0
    BY ONLY <2>2, <1>6, p # 0
  <2> QED
    BY ONLY <2>1, <2>2, <2>3, <1>3 DEF StmtOK
<1>9. EndsBlock(g, t, j)
  BY ONLY <1>6, g[t].op = "End", p = g[t].parent, p # 0 DEF EndsBlock
<1>10. ASSUME NEW b \in 1 .. t - 1, g[b].op \in Openers, EndsBlock(g, t, b) PROVE b = j
  <2>1. p \in {b, g[b].els} /\ b \in 1 .. n
    BY <1>2, <1>10 DEF EndsBlock
  <2>2. CASE p = b
    BY ONLY <2>2, <1>6, <1>10 DEF Openers
  <2>3. CASE p = g[b].els
    <3>1. StmtOK(g, b)
      BY <2>1, <1>3
    <3>2. g[b].op = "If" /\ g[p].op = "Else" /\ g[p].els = b
      BY ONLY <3>1, <2>3, <1>10, p # 0 DEF StmtOK, Openers
    <3> QED
      BY ONLY <3>2, <1>6
  <2> QED
    BY ONLY <2>1, <2>2, <2>3
<1>11. OpenAt(g, t + 1) = OpenAt(g, t) \ {j} /\ j \in OpenAt(g, t)
  <2>1. j \in OpenAt(g, t)
    BY ONLY <1>6, <1>8 DEF OpenAt
  <2>2. ASSUME NEW b \in OpenAt(g, t + 1) PROVE b \in OpenAt(g, t) /\ b # j
    <3>1. b \in 1 .. t - 1 \/ b = t
      BY ONLY <2>2, <1>2 DEF OpenAt
    <3>2. b # t
      BY ONLY <2>2, g[t].op = "End" DEF OpenAt, Openers
    <3>3. b # j
      BY ONLY <2>2, <1>2, <1>9 DEF OpenAt
    <3> QED
      BY ONLY <2>2, <3>1, <3>2, <3>3, <1>2 DEF OpenAt
  <2>3. ASSUME NEW b \in OpenAt(g, t), b # j PROVE b \in OpenAt(g, t + 1)
    <3>1. b \in 1 .. t - 1 /\ g[b].op \in Openers /\ \A e \in 1 .. t - 1 : ~EndsBlock(g, e, b)
      BY ONLY <2>3 DEF OpenAt
    <3>2. ~EndsBlock(g, t, b)
      BY ONLY <3>1, <2>3, <1>10
    <3> QED
      BY ONLY <3>1, <3>2, <1>2 DEF OpenAt
  <2> QED
    BY ONLY <2>1, <2>2, <2>3
<1>12. KeepAt(g, t + 1) = KeepAt(g, t) \ {j} /\ (g[p].res # Void => j \in KeepAt(g, t))
  BY ONLY <1>6, <1>11 DEF KeepAt
<1>13. g[p].res # Void => <<g[p].res, g[p].reg>> \in KeptAt(g, t)
  BY ONLY <1>6, <1>12 DEF KeptAt
<1>14. KeptAt(g, t + 1) = IF g[p].res = Void THEN KeptAt(g, t)
                         ELSE KeptAt(g, t) \ {<<g[p].res, g[p].reg>>}
  <2>1. CASE g[p].res = Void
    <3>1. j \notin KeepAt(g, t)
      BY <2>1, <1>6 DEF KeepAt
    <3> QED
      BY ONLY <2>1, <3>1, <1>12 DEF KeptAt
  <2>2. CASE g[p].res # Void
    <3>1. \A b \in KeepAt(g, t) : b # j => ~(g[b].res = g[j].res /\ g[b].reg = g[j].reg)
      BY <2>2, <1>12 DEF KeptApart
    <3>2. \A b \in KeepAt(g, t) : b # j => <<g[b].res, g[b].reg>> # <<g[p].res, g[p].reg>>
      BY ONLY <3>1, <1>6
    <3> QED
      BY ONLY <2>2, <3>2, <1>6, <1>12 DEF KeptAt
  <2> QED
    BY <2>1, <2>2
<1>15. KeptApart(g, t + 1)
  BY <1>12 DEF KeptApart
<1>16. SameReg(g, t + 1)
  BY ONLY <1>2, g[t].op = "End", SameReg(g, t) DEF SameReg
<1> QED
  BY ONLY <1>13, <1>14, <1>15, <1>16 DEF BlockEnded

-----------------------------------------------------------------------------
(* The invariant: the statements say what was read, and the registers are  *)
(* allocated for what is on the stack and for the open blocks.             *)

InputInv ==
  /\ phase \in {"read", "convert", "fixup", "done", "abort"}
  /\ alphabet \in Alphabets /\ fres \in FuncRes /\ ins \in Seq(alphabet.insts)
  /\ graph \in Seq(Stmts) \/ phase = "abort"
  /\ Len(graph) = Len(ins)
  /\ at \in 1 .. Len(ins) + 1 /\ (phase = "convert" => at \in 1 .. Len(ins))

GraphInv ==
  phase # "abort" => GraphOK(graph) /\ \A k \in 1 .. Len(ins) : graph[k].op = ins[k].op

WorkInv ==
  /\ phase = "read" =>
       /\ WorkOK(work, graph) /\ IsSeq(valid.ctl) /\ Len(work) = Len(valid.ctl) + 1
       /\ at = 1 /\ al = Create_ubh_code
  /\ phase \notin {"read", "abort"} => \A b : ~Unended(graph, b)

AllocInv ==
  phase # "abort" =>
    /\ al.ok /\ AlGood(al, KeptAt(graph, at))
    /\ KeptApart(graph, at) /\ SameReg(graph, at)

ConvInv == InputInv /\ GraphInv /\ WorkInv /\ AllocInv

\* Every instruction that was read is well formed.
LEMMA InstWellFormed ==
  ASSUME NEW A \in Alphabets, NEW s \in Seq(A.insts), NEW k \in 1 .. Len(s)
  PROVE  WellFormed(s[k])
<1>1. s[k] \in A.insts
  BY ElementOfSeq
<1> QED
  BY <1>1, ConverterAssumption

\* A function whose instructions are still to be read.
LEMMA InitConv == Init => ConvInv
<1> SUFFICES ASSUME Init PROVE ConvInv
  OBVIOUS
<1>1. /\ ins = << >> /\ graph = << >> /\ work = <<0>> /\ at = 1 /\ al = Create_ubh_code
      /\ phase = "read" /\ alphabet \in Alphabets /\ fres \in FuncRes /\ valid = StartValid
  BY DEF Init
<1>2. /\ << >> \in Seq(alphabet.insts) /\ << >> \in Seq(Stmts) /\ Len(<< >>) = 0
      /\ 1 .. 0 = {} /\ 1 \in 1 .. 0 + 1
  OBVIOUS
<1>3. InputInv
  BY <1>1, <1>2 DEF InputInv
<1>4. GraphInv
  BY <1>1, <1>2 DEF GraphInv, GraphOK, EndsApart
<1>5. WorkInv
  <2>1. \A b : ~Unended(graph, b)
    BY <1>1, <1>2 DEF Unended
  <2>2. <<0>> \in Seq(Nat) /\ Len(<<0>>) = 1 /\ <<0>> # << >> /\ <<0>>[1] = 0 /\ 2 .. 1 = {}
    OBVIOUS
  <2>3. \A j, k \in 1 .. 1 : j = k
    OBVIOUS
  <2>4. WorkOK(work, graph)
    BY <1>1, <2>1, <2>2, <2>3 DEF WorkOK
  <2>5. valid.ctl = << >> /\ IsSeq(<< >>) /\ Len(<< >>) + 1 = 1
    BY <1>1, <1>2 DEF StartValid, IsSeq
  <2> QED
    BY <1>1, <2>2, <2>4, <2>5 DEF WorkInv
<1>6. AllocInv
  BY <1>1, NothingOpen, CreateGood DEF AllocInv
<1> QED
  BY <1>3, <1>4, <1>5, <1>6 DEF ConvInv

\* An instruction is read (Build_block_hierarchy).
LEMMA ReadKeeps ==
  ASSUME ConvInv, NEW i \in alphabet.insts, Build_block_hierarchy(i)
  PROVE  ConvInv'
<1>1. /\ phase = "read" /\ ins' = Append(ins, i) /\ UNCHANGED <<alphabet, fres, at, al>>
      /\ phase' \in {"convert", "read"}
      /\ phase' = "convert" <=> (i.op = "End" /\ valid.ctl = << >>)
      /\ phase' = "read" => valid' = Validated(valid, i, fres)
      /\ IsValid(valid, i, fres)
  BY DEF Build_block_hierarchy
<1>2. /\ alphabet \in Alphabets /\ fres \in FuncRes /\ ins \in Seq(alphabet.insts)
      /\ Len(graph) = Len(ins) /\ GraphOK(graph) /\ \A k \in 1 .. Len(ins) : graph[k].op = ins[k].op
      /\ WorkOK(work, graph) /\ IsSeq(valid.ctl) /\ Len(work) = Len(valid.ctl) + 1
      /\ at = 1 /\ al = Create_ubh_code
  BY <1>1 DEF ConvInv, InputInv, GraphInv, WorkInv
<1>3. PICK n \in Nat : n = Len(ins) /\ n = Len(graph)
  BY <1>2
<1>4. /\ ins' \in Seq(alphabet.insts) /\ Len(ins') = n + 1 /\ ins'[n + 1] = i
      /\ \A k \in 1 .. n : ins'[k] = ins[k]
  BY <1>1, <1>2, <1>3, AppendProperties
<1>5. PICK m \in Nat : m = Len(valid.ctl) /\ (m = 0 <=> valid.ctl = << >>) /\ Len(work) = m + 1
  <2>1. PICK S : valid.ctl \in Seq(S)
    BY <1>2 DEF IsSeq
  <2>2. Len(valid.ctl) \in Nat /\ (Len(valid.ctl) = 0 <=> valid.ctl = << >>)
    BY <2>1, EmptySeq
  <2> QED
    BY <2>2, <1>2
<1>6. WellFormed(i)
  BY <1>2, ConverterAssumption
<1>7. i.op = "Else" => valid.ctl # << >>
  BY <1>1 DEF IsValid
<1>8. Hierarchy(graph, work, i, graph', work')
  <2>1. Len(ins) + 1 = Len(graph) + 1
    BY <1>3
  <2>2. CASE Opens(i)
    <3>1. Create_new_block(i)
      BY <2>2 DEF Build_block_hierarchy, Opens
    <3> QED
      BY <3>1, <2>1, <2>2 DEF Hierarchy, Create_new_block, Opens
  <2>3. CASE i.op = "Else"
    <3>1. Else_block(i) /\ ~Opens(i)
      BY <2>3 DEF Build_block_hierarchy, Opens
    <3> QED
      BY <3>1, <2>1, <2>3 DEF Hierarchy, Else_block
  <2>4. CASE i.op # "Else" /\ ~Opens(i)
    BY <2>4 DEF Build_block_hierarchy, Hierarchy
  <2> QED
    BY <2>2, <2>3, <2>4
<1>9. PICK g : g = graph
  OBVIOUS
<1>10. PICK w : w = work
  OBVIOUS
<1>11. PICK h : h = graph'
  OBVIOUS
<1>12. PICK x : x = work'
  OBVIOUS
<1>13. Len(w) # 1 <=> m # 0
  <2>1. Len(w) = m + 1
    BY ONLY <1>5, <1>10
  <2>2. m + 1 # 1 <=> m # 0
    OBVIOUS
  <2> QED
    BY ONLY <2>1, <2>2
<1>14. /\ GraphOK(h) /\ Len(h) = n + 1 /\ h[n + 1].op = i.op
       /\ \A k \in 1 .. n : h[k].op = g[k].op
       /\ i.op = "End" /\ Len(w) = 1 => \A b : ~Unended(h, b)
       /\ ~(i.op = "End" /\ Len(w) = 1) => WorkOK(x, h) /\ Len(x) = Len(w) + Deeper(i)
  <2>1. Hierarchy(g, w, i, h, x) /\ GraphOK(g) /\ WorkOK(w, g) /\ (i.op = "Else" => Len(w) # 1)
    BY <1>2, <1>5, <1>7, <1>8, <1>9, <1>10, <1>11, <1>12, <1>13
  <2>2. /\ GraphOK(h) /\ Len(h) = Len(g) + 1 /\ h[Len(g) + 1].op = i.op
        /\ \A k \in 1 .. Len(g) : h[k].op = g[k].op
        /\ i.op = "End" /\ Len(w) = 1 => \A b : ~Unended(h, b)
        /\ ~(i.op = "End" /\ Len(w) = 1) => WorkOK(x, h) /\ Len(x) = Len(w) + Deeper(i)
    BY ONLY <2>1, <1>6, HierarchyStep
  <2>3. Len(g) = n
    BY <1>3, <1>9
  <2> QED
    BY ONLY <2>2, <2>3
<1>15. n + 1 \in Nat /\ at' = 1 /\ 1 \in 1 .. n + 1 /\ 1 \in 1 .. n + 1 + 1
  BY <1>1, <1>2
<1>16. InputInv'
  <2>1. h \in Seq(Stmts)
    BY <1>14 DEF GraphOK
  <2> QED
    BY <2>1, <1>1, <1>2, <1>4, <1>11, <1>14, <1>15 DEF InputInv
<1>17. GraphInv'
  <2>1. \A k \in 1 .. n + 1 : k \in 1 .. n \/ k = n + 1
    OBVIOUS
  <2>2. \A k \in 1 .. n + 1 : h[k].op = ins'[k].op
    BY ONLY <2>1, <1>2, <1>3, <1>4, <1>9, <1>14
  <2> QED
    BY <2>2, <1>4, <1>11, <1>14 DEF GraphInv
<1>18. WorkInv'
  <2>1. CASE i.op = "End" /\ valid.ctl = << >>
    <3>1. \A b : ~Unended(h, b)
      BY <2>1, <1>5, <1>13, <1>14
    <3> QED
      BY <3>1, <2>1, <1>1, <1>11 DEF WorkInv
  <2>2. CASE ~(i.op = "End" /\ valid.ctl = << >>)
    <3>1. WorkOK(x, h) /\ Len(x) = Len(w) + Deeper(i)
      BY <2>2, <1>5, <1>13, <1>14
    <3>2. i.op \in {"End", "Else"} => valid.ctl # << >>
      BY <2>2, <1>7
    <3>3. PICK v : v = valid
      OBVIOUS
    <3>4. PICK u : u = valid'
      OBVIOUS
    <3>5. PICK f : f = fres
      OBVIOUS
    <3>6. u = Validated(v, i, f) /\ phase' = "read"
      BY <2>2, <3>3, <3>4, <3>5, <1>1
    <3>7. IsSeq(u.ctl) /\ Len(u.ctl) = Len(v.ctl) + Deeper(i)
      <4>1. IsSeq(v.ctl) /\ (i.op \in {"End", "Else"} => v.ctl # << >>)
        BY <3>2, <3>3, <1>2
      <4> QED
        BY ONLY <4>1, <3>6, CtlLen
    <3>8. Len(x) = Len(u.ctl) + 1
      <4>1. Deeper(i) \in Int
        BY DEF Deeper
      <4>2. Len(w) = m + 1 /\ Len(v.ctl) = m
        BY <1>5, <1>10, <3>3
      <4> QED
        BY ONLY <4>1, <4>2, <3>1, <3>7
    <3> QED
      BY <3>1, <3>4, <3>6, <3>7, <3>8, <1>1, <1>2, <1>11, <1>12, <1>15 DEF WorkInv
  <2> QED
    BY <2>1, <2>2
<1>19. AllocInv'
  <2>1. KeptAt(h, 1) = {} /\ KeptApart(h, 1) /\ SameReg(h, 1)
    BY NothingOpen
  <2>2. al' = Create_ubh_code
    BY <1>1, <1>2
  <2> QED
    BY <2>1, <2>2, <1>11, <1>15, CreateGood DEF AllocInv
<1> QED
  BY <1>16, <1>17, <1>18, <1>19 DEF ConvInv

-----------------------------------------------------------------------------
(* Wasm_to_uwasm.                                                          *)

\* The end of a turn, whatever it did.
LEMMA TurnKeeps ==
  ASSUME ConvInv, phase = "convert", NEW a, NEW c, Turn(a, c), NEW h, h = graph', Len(h) = Len(graph),
         a.ok => /\ GraphOK(h) /\ \A k \in 1 .. Len(graph) : h[k].op = graph[k].op
                 /\ \A b : ~Unended(h, b)
                 /\ AlGood(a, KeptAt(h, at + 1)) /\ KeptApart(h, at + 1) /\ SameReg(h, at + 1)
  PROVE  ConvInv'
<1>1. /\ al' = a /\ at' = at + 1
      /\ phase' = IF ~a.ok THEN "abort" ELSE IF at = Len(ins) THEN "fixup" ELSE "convert"
      /\ UNCHANGED <<alphabet, fres, valid, ins, work>>
  BY DEF Turn, input
<1>2. /\ alphabet \in Alphabets /\ fres \in FuncRes /\ ins \in Seq(alphabet.insts)
      /\ Len(graph) = Len(ins) /\ \A k \in 1 .. Len(ins) : graph[k].op = ins[k].op
      /\ at \in 1 .. Len(ins)
  BY DEF ConvInv, InputInv, GraphInv
<1>3. PICK n \in Nat : n = Len(ins)
  BY <1>2
<1>4. /\ at + 1 \in 1 .. n + 1 /\ (at # n => at + 1 \in 1 .. n)
  BY <1>2, <1>3
<1>5. InputInv'
  <2>1. h \in Seq(Stmts) \/ phase' = "abort"
    BY <1>1 DEF GraphOK
  <2>2. at' \in 1 .. Len(ins') + 1 /\ (phase' = "convert" => at' \in 1 .. Len(ins'))
    BY <1>1, <1>3, <1>4
  <2>3. phase' \in {"read", "convert", "fixup", "done", "abort"} /\ Len(h) = Len(ins')
    BY <1>1, <1>2
  <2> QED
    BY <2>1, <2>2, <2>3, <1>1, <1>2 DEF InputInv
<1>6. GraphInv'
  <2>1. CASE a.ok
    <3>1. GraphOK(h) /\ \A k \in 1 .. Len(ins) : h[k].op = ins[k].op
      BY <2>1, <1>2
    <3> QED
      BY <3>1, <1>1 DEF GraphInv
  <2>2. CASE ~a.ok
    BY <2>2, <1>1 DEF GraphInv
  <2> QED
    BY <2>1, <2>2
<1>7. WorkInv'
  BY <1>1 DEF WorkInv
<1>8. AllocInv'
  <2>1. CASE a.ok
    BY <2>1, <1>1 DEF AllocInv
  <2>2. CASE ~a.ok
    BY <2>2, <1>1 DEF AllocInv
  <2> QED
    BY <2>1, <2>2
<1> QED
  BY <1>5, <1>6, <1>7, <1>8 DEF ConvInv

\* What a turn starts from.
LEMMA TurnStart ==
  ASSUME ConvInv, phase = "convert", NEW g, g = graph, NEW t, t = at, NEW x, x = al
  PROVE  /\ GraphOK(g) /\ t \in 1 .. Len(g) /\ t \in Nat /\ g[t].op = Cur.op /\ Me = g[t]
         /\ x.ok /\ AlGood(x, KeptAt(g, t)) /\ KeptApart(g, t) /\ SameReg(g, t)
         /\ \A b : ~Unended(g, b)
         /\ WellFormed(Cur) /\ Len(ins) = Len(g) /\ fres \in Types \cup {Void}
<1>1. /\ GraphOK(g) /\ t \in 1 .. Len(g) /\ Len(g) \in Nat /\ Len(ins) = Len(g)
      /\ \A k \in 1 .. Len(ins) : g[k].op = ins[k].op
      /\ alphabet \in Alphabets /\ ins \in Seq(alphabet.insts) /\ fres \in FuncRes
  BY DEF ConvInv, InputInv, GraphInv, GraphOK
<1>2. g[t].op = Cur.op /\ Me = g[t] /\ t \in Nat
  BY <1>1 DEF Cur, Me
<1>3. WellFormed(Cur)
  BY <1>1, InstWellFormed DEF Cur
<1>4. fres \in Types \cup {Void}
  BY <1>1, ConverterAssumption
<1> QED
  BY <1>1, <1>2, <1>3, <1>4 DEF ConvInv, AllocInv, WorkInv

\* A turn that neither opens nor ends a block.
LEMMA TurnOther ==
  ASSUME ConvInv, phase = "convert", Cur.op \notin Openers, Cur.op = "End" => Me.parent = 0,
         NEW a, NEW c, Turn(a, c), graph' = graph, a.ok => AlGood(a, KeptAt(graph, at))
  PROVE  ConvInv'
<1>1. PICK g : g = graph
  OBVIOUS
<1>2. PICK t : t = at
  OBVIOUS
<1>3. /\ GraphOK(g) /\ t \in Nat /\ g[t].op = Cur.op /\ Me = g[t]
      /\ KeptApart(g, t) /\ SameReg(g, t)
      /\ \A b : ~Unended(g, b)
  BY <1>1, <1>2, TurnStart
<1>4. KeptAt(g, t + 1) = KeptAt(g, t) /\ KeptApart(g, t + 1) /\ SameReg(g, t + 1)
  BY <1>3, KeepOther
<1>5. g = graph' /\ Len(g) = Len(graph)
  BY <1>1
<1>6. a.ok => AlGood(a, KeptAt(g, t + 1))
  BY <1>1, <1>2, <1>4
<1> QED
  BY <1>1, <1>2, <1>3, <1>4, <1>5, <1>6, TurnKeeps

\* Blocks without a value, branches and other instructions that only check.
LEMMA CheckedKeeps ==
  ASSUME ConvInv, Conv_else \/ Conv_br \/ Conv_br_if \/ Conv_br_table
  PROVE  ConvInv'
<1>1. /\ phase = "convert" /\ graph' = graph /\ Cur.op \notin Openers /\ Cur.op # "End"
  BY DEF Conv_else, Conv_br, Conv_br_if, Conv_br_table, Converting, Openers, Quiet
<1>2. PICK K : K = KeptAt(graph, at)
  OBVIOUS
<1>3. PICK x : x = al /\ AlGood(x, K)
  BY <1>1, <1>2, TurnStart
<1>4. ASSUME NEW y, AlGood(y, K), NEW t PROVE AlGood(Mov_checked(y, t), K)
  <2>1. PICK P : P = (t = 0 \/ graph[t].res = Void \/ y.stk = << >> \/ Last(y.stk).ty = graph[t].res)
    OBVIOUS
  <2>2. PICK b : b = [y EXCEPT !.ok = @ /\ P]
    OBVIOUS
  <2>3. AlGood(b, K)
    BY <2>2, <1>4, CheckGood
  <2> QED
    BY <2>1, <2>2, <2>3 DEF Mov_checked
<1>5. ASSUME NEW y, AlGood(y, K) PROVE AlGood(InFunction(y), K)
  <2>1. PICK P : P = (\A d \in Range(Cur.n) : Get_parent_stmt_for_branch(d) # 0)
    OBVIOUS
  <2>2. PICK b : b = [y EXCEPT !.ok = @ /\ P]
    OBVIOUS
  <2>3. AlGood(b, K)
    BY <2>2, <1>5, CheckGood
  <2> QED
    BY <2>1, <2>2, <2>3 DEF InFunction
<1>6. \E a, c : Turn(a, c) /\ AlGood(a, K)
  <2>1. CASE Conv_else
    <3>1. PICK t : t = at
      OBVIOUS
    <3>2. \E c : Turn(Mov_checked(x, t), c)
      BY <2>1, <3>1, <1>3 DEF Conv_else
    <3> QED
      BY <3>2, <1>3, <1>4
  <2>2. CASE Conv_br
    <3>1. PICK t : t = Get_parent_stmt_for_branch(Cur.n[1])
      OBVIOUS
    <3>2. \E c : Turn(InFunction(Mov_checked(x, t)), c)
      BY <2>2, <3>1, <1>3 DEF Conv_br
    <3>3. PICK y : y = Mov_checked(x, t)
      OBVIOUS
    <3>4. AlGood(y, K)
      BY <3>3, <1>3, <1>4
    <3> QED
      BY <3>2, <3>3, <3>4, <1>5
  <2>3. CASE Conv_br_if
    <3>1. PICK t : t = Get_parent_stmt_for_branch(Cur.n[1])
      OBVIOUS
    <3>2. PICK z : z = Pop_wasm_stk(x, "i32")
      OBVIOUS
    <3>3. \E c : Turn(InFunction(Mov_checked(z, t)), c)
      BY <2>3, <3>1, <3>2, <1>3 DEF Conv_br_if
    <3>4. AlGood(z, K)
      BY <3>2, <1>3, PopGood
    <3>5. PICK y : y = Mov_checked(z, t)
      OBVIOUS
    <3>6. AlGood(y, K)
      BY <3>4, <3>5, <1>4
    <3> QED
      BY <3>3, <3>5, <3>6, <1>5
  <2>4. CASE Conv_br_table
    <3>1. PICK b : b = WithScratch(x)
      OBVIOUS
    <3>2. PICK z : z = Pop_wasm_stk(b, "i32")
      OBVIOUS
    <3>3. PICK P : P = (\A t \in {Get_parent_stmt_for_branch(d) : d \in Range(Cur.n)} : Mov_checked(z, t).ok)
      OBVIOUS
    <3>4. PICK y : y = [z EXCEPT !.ok = @ /\ P]
      OBVIOUS
    <3>5. \E c : Turn(InFunction(y), c)
      BY <2>4, <3>1, <3>2, <3>3, <3>4, <1>3 DEF Conv_br_table
    <3>6. AlGood(b, K)
      BY <3>1, <1>3, ScratchGood
    <3>7. AlGood(z, K)
      BY <3>2, <3>6, PopGood
    <3>8. AlGood(y, K)
      BY <3>4, <3>7, CheckGood
    <3> QED
      BY <3>5, <3>8, <1>5
  <2> QED
    BY <2>1, <2>2, <2>3, <2>4
<1>7. PICK a, c : Turn(a, c) /\ AlGood(a, K)
  BY <1>6
<1> QED
  BY <1>1, <1>2, <1>7, TurnOther

\* The register of a parameter or local.
LEMMA LocalRegNat ==
  ASSUME NEW x \in DOMAIN Vars
  PROVE  Vars[x] \in Types /\ LocalReg(x) \in Nat
<1>1. DOMAIN Vars = 1 .. Len(Vars) /\ Len(Vars) \in Nat /\ Vars \in Seq(Types)
  BY WasmAssumption
<1>2. Vars[x] \in Types
  BY <1>1, ElementOfSeq
<1>3. IsFiniteSet(1 .. Len(Vars))
  BY <1>1, FS_Interval
<1>4. {k \in 1 .. x - 1 : Vars[k] = Vars[x]} \subseteq 1 .. Len(Vars)
  BY <1>1
<1>5. IsFiniteSet({k \in 1 .. x - 1 : Vars[k] = Vars[x]})
  BY <1>3, <1>4, FS_Subset
<1>6. Cardinality({k \in 1 .. x - 1 : Vars[k] = Vars[x]}) \in Nat
  BY <1>5, FS_CardinalityType
<1> QED
  BY <1>2, <1>6, ConverterAssumption DEF LocalReg

\* Instructions that pop at most one value and push none, or push no temporary.
LEMMA PlainKeeps ==
  ASSUME ConvInv,
         Conv_drop \/ Conv_nop \/ Conv_unreachable \/ Conv_local_get \/ Conv_local_set \/ Conv_return
         \/ Conv_end_func
  PROVE  ConvInv'
<1>1. /\ phase = "convert" /\ graph' = graph /\ Cur.op \notin Openers
      /\ Cur.op = "End" => Me.parent = 0
  BY DEF Conv_drop, Conv_nop, Conv_unreachable, Conv_local_get, Conv_local_set, Conv_return,
         Conv_end_func, Converting, Openers, Quiet
<1>2. PICK K : K = KeptAt(graph, at)
  OBVIOUS
<1>3. PICK x : x = al /\ AlGood(x, K)
  BY <1>1, <1>2, TurnStart
<1>4. WellFormed(Cur)
  BY <1>1, TurnStart
<1>5. \A ty : AlGood(Pop_wasm_stk(x, ty), K)
  BY <1>3, PopGood
<1>6. \E a, c : Turn(a, c) /\ AlGood(a, K)
  <2>1. CASE Conv_drop
    BY <2>1, <1>3, <1>5 DEF Conv_drop
  <2>2. CASE Conv_nop
    BY <2>2, <1>3 DEF Conv_nop
  <2>3. CASE Conv_unreachable
    <3>1. PICK e : e = Elem("UNREACHABLE", "i32", 0)
      OBVIOUS
    <3>2. e \in Elems /\ e.kind # "TEMP"
      BY <3>1 DEF Elem, Elems, Types
    <3>3. AlGood(Push(x, e), K)
      BY <3>2, <1>3, PushGood
    <3> QED
      BY <3>1, <3>3, <2>3, <1>3 DEF Conv_unreachable
  <2>4. CASE Conv_local_get
    <3>1. PICK i : i = Cur.n[1] /\ i \in DOMAIN Vars
      <4>1. Cur.op = "LocalGet"
        BY <2>4 DEF Conv_local_get, Converting
      <4> QED
        BY <4>1, <1>4 DEF WellFormed
    <3>2. PICK e : e = Elem("LOCAL", Vars[i], LocalReg(i))
      OBVIOUS
    <3>3. e \in Elems /\ e.kind # "TEMP"
      BY <3>1, <3>2, LocalRegNat DEF Elem, Elems
    <3>4. AlGood(Push(x, e), K)
      BY <3>3, <1>3, PushGood
    <3> QED
      BY <3>1, <3>2, <3>4, <2>4, <1>3 DEF Conv_local_get
  <2>5. CASE Conv_local_set
    <3>1. PICK ty : ty = Vars[Cur.n[1]]
      OBVIOUS
    <3>2. PICK P : P = (Last(x.stk).ty = ty)
      OBVIOUS
    <3>3. PICK y : y = [x EXCEPT !.ok = @ /\ P]
      OBVIOUS
    <3>4. AlGood(y, K)
      BY <3>3, <1>3, CheckGood
    <3>5. CASE Cur.op = "LocalSet"
      <4>1. \E c : Turn(Pop_wasm_stk(x, ty), c)
        BY <2>5, <3>1, <3>5, <1>3 DEF Conv_local_set
      <4> QED
        BY <4>1, <1>5
    <3>6. CASE Cur.op # "LocalSet"
      <4>1. \E c : Turn(y, c)
        BY <2>5, <3>1, <3>2, <3>3, <3>6, <1>3 DEF Conv_local_set
      <4> QED
        BY <4>1, <3>4
    <3> QED
      BY <3>5, <3>6
  <2>6. CASE Conv_return
    <3>1. \E c : Turn(x, c) \/ Turn(Pop_wasm_stk(x, fres), c)
      BY <2>6, <1>3 DEF Conv_return
    <3>2. PICK ty : ty = fres
      OBVIOUS
    <3> QED
      BY <3>1, <3>2, <1>3, <1>5
  <2>7. CASE Conv_end_func
    <3>1. \E c : Turn(x, c) \/ Turn(Pop_wasm_stk(x, Void), c)
      BY <2>7, <1>3 DEF Conv_end_func
    <3> QED
      BY <3>1, <1>3, <1>5
  <2> QED
    BY <2>1, <2>2, <2>3, <2>4, <2>5, <2>6, <2>7
<1>7. PICK a, c : Turn(a, c) /\ AlGood(a, K)
  BY <1>6
<1> QED
  BY <1>1, <1>2, <1>7, TurnOther

\* What an instruction pops and pushes.
LEMMA PopsPushes ==
  ASSUME NEW i, WellFormed(i)
  PROVE  /\ IsSeq(Pops(i)) /\ (Pushes(i) # << >> => Pushes(i)[1] \in Types)
<1>1. i.op \in {"LocalSet", "LocalTee", "LocalGet"} => Vars[i.n[1]] \in Types
  BY LocalRegNat DEF WellFormed
<1>2. i.op \in {"Const", "Binary", "Compare", "Eqz", "Convert", "Select", "Load", "Store"} => i.ty \in Types
  BY DEF WellFormed
<1>3. Other(i.ty) \in Types
  <2>1. \E t \in Types : t # i.ty
    BY DEF Types
  <2> QED
    BY <2>1 DEF Other
<1>4. "i32" \in Types /\ CalleeRes \in Types /\ CalleeParams \in Seq(Types)
  BY WasmAssumption DEF Types
<1>5. Pushes(i) # << >> => Pushes(i)[1] \in Types
  <2>1. CASE i.op \in {"Call", "CallIndirect"}
    <3>1. Pushes(i) = Result(i.ty) /\ i.ty \in {CalleeRes, Void}
      BY <2>1 DEF Pushes, WellFormed
    <3> QED
      BY <3>1, <1>4 DEF Result
  <2>2. CASE i.op \notin {"Call", "CallIndirect"}
    BY <2>2, <1>1, <1>2, <1>3, <1>4 DEF Pushes
  <2> QED
    BY <2>1, <2>2
<1>6. \A u, v, w : IsSeq(<<u>>) /\ IsSeq(<<u, v>>) /\ IsSeq(<<u, v, w>>)
  <2> SUFFICES ASSUME NEW u, NEW v, NEW w PROVE IsSeq(<<u>>) /\ IsSeq(<<u, v>>) /\ IsSeq(<<u, v, w>>)
    OBVIOUS
  <2>1. <<u>> \in Seq({u, v, w}) /\ <<u, v>> \in Seq({u, v, w}) /\ <<u, v, w>> \in Seq({u, v, w})
    OBVIOUS
  <2> QED
    BY <2>1 DEF IsSeq
<1>7. IsSeq(<< >>) /\ IsSeq(CalleeParams) /\ IsSeq(Append(CalleeParams, "i32"))
  <2>1. << >> \in Seq(Types) /\ Append(CalleeParams, "i32") \in Seq(Types)
    BY <1>4, AppendProperties
  <2> QED
    BY <2>1, <1>4 DEF IsSeq
<1>8. IsSeq(Pops(i))
  BY <1>6, <1>7 DEF Pops
<1> QED
  BY <1>5, <1>8

\* The callee's parameters are counted; nothing else changes.
LEMMA IoGood ==
  ASSUME NEW a, NEW K, AlGood(a, K), NEW q, a.ok => q \in [Types -> Nat], NEW P,
         NEW b, b = [a EXCEPT !.io = q, !.ok = @ /\ P]
  PROVE  AlGood(b, K) /\ b.next = a.next /\ (b.ok => a.ok)
<1>1. /\ IsAl(b) /\ b.stk = a.stk /\ b.next = a.next /\ b.size = a.size /\ b.io = q
      /\ b.ok = (a.ok /\ P)
  BY DEF AlGood, IsAl
<1>2. ASSUME AlSound(a, K), a.ok PROVE AlSound(b, K)
  BY <1>1, <1>2 DEF AlSound, AlTyped, NextOK, TempsOK, TempsApart, KeptOK, InUse
<1> QED
  BY <1>1, <1>2 DEF AlGood

\* A temporary of whatever type: sound if the assertions hold.
LEMMA PushAnyGood ==
  ASSUME NEW a, NEW K, AlGood(a, K), NEW ty, a.ok => ty \in Types, NEW c, c = Push_temp_reg(a, ty), c.ok
  PROVE  AlGood(c, K)
<1>1. a.ok
  BY DEF Push_temp_reg, Push, Allocate_register, AlGood, IsAl
<1> QED
  BY <1>1, PushTempGood

\* Instructions with a result in a temporary register.
LEMMA ValueKeeps ==
  ASSUME ConvInv, Conv_op \/ Conv_load \/ Conv_store \/ Conv_select \/ Conv_call
  PROVE  ConvInv'
<1>1. /\ phase = "convert" /\ graph' = graph /\ Cur.op \notin Openers /\ Cur.op # "End"
  BY DEF Conv_op, Conv_load, Conv_store, Conv_select, Conv_call, Converting, Openers, Quiet
<1>2. PICK K : K = KeptAt(graph, at)
  OBVIOUS
<1>3. PICK x : x = al /\ AlGood(x, K)
  BY <1>1, <1>2, TurnStart
<1>4. PICK i : i = Cur /\ WellFormed(i)
  BY <1>1, TurnStart
<1>5. PICK s : s = WithScratch(x) /\ AlGood(s, K)
  BY <1>3, ScratchGood
<1>6. "i32" \in Types /\ CalleeRes \in Types
  BY WasmAssumption DEF Types
<1>7. \E a, c : Turn(a, c) /\ (a.ok => AlGood(a, K))
  <2>1. CASE Conv_op
    <3>1. PICK tys : tys = Expected(x, i) /\ IsSeq(tys)
      <4>1. \A u, v : IsSeq(<<u, v>>) /\ IsSeq(<<u>>)
        <5> SUFFICES ASSUME NEW u, NEW v PROVE IsSeq(<<u, v>>) /\ IsSeq(<<u>>)
          OBVIOUS
        <5>1. <<u>> \in Seq({u, v}) /\ <<u, v>> \in Seq({u, v})
          OBVIOUS
        <5> QED
          BY <5>1 DEF IsSeq
      <4>2. IsSeq(Pops(i))
        BY <1>4, PopsPushes
      <4> QED
        BY <4>1, <4>2 DEF Expected
    <3>2. PICK y : y = PopAll(x, tys) /\ AlGood(y, K)
      BY <3>1, <1>3, PopAllGood
    <3>3. \E c : Turn(IF Pushes(i) # << >> THEN Push_temp_reg(y, Pushes(i)[1]) ELSE y, c)
      BY <2>1, <3>1, <3>2, <1>3, <1>4 DEF Conv_op
    <3>4. CASE Pushes(i) # << >>
      <4>1. Pushes(i)[1] \in Types
        BY <3>4, <1>4, PopsPushes
      <4>2. AlGood(Push_temp_reg(y, Pushes(i)[1]), K)
        BY <4>1, <3>2, PushTempGood
      <4> QED
        BY <4>2, <3>3, <3>4
    <3>5. CASE Pushes(i) = << >>
      BY <3>2, <3>3, <3>5
    <3> QED
      BY <3>4, <3>5
  <2>2. CASE Conv_load
    <3>1. PICK y : y = Pop_wasm_stk(s, "i32") /\ AlGood(y, K)
      BY <1>5, PopGood
    <3>2. i.ty \in Types
      BY <2>2, <1>4 DEF Conv_load, Converting, WellFormed
    <3>3. AlGood(Push_temp_reg(y, i.ty), K)
      BY <3>1, <3>2, PushTempGood
    <3>4. \E c : Turn(Push_temp_reg(y, i.ty), c)
      BY <2>2, <3>1, <1>3, <1>4, <1>5 DEF Conv_load
    <3> QED
      BY <3>3, <3>4
  <2>3. CASE Conv_store
    <3>1. PICK tys : tys = <<"i32", i.ty>> /\ IsSeq(tys)
      <4>1. <<"i32", i.ty>> \in Seq({"i32", i.ty})
        OBVIOUS
      <4> QED
        BY <4>1 DEF IsSeq
    <3>2. AlGood(PopAll(s, tys), K)
      BY <3>1, <1>5, PopAllGood
    <3>3. \E c : Turn(PopAll(s, tys), c)
      BY <2>3, <3>1, <1>3, <1>4, <1>5 DEF Conv_store
    <3> QED
      BY <3>2, <3>3
  <2>4. CASE Conv_select
    <3>1. PICK b : b = Pop_wasm_stk(s, "i32") /\ AlGood(b, K)
      BY <1>5, PopGood
    <3>2. PICK r : r = Top(b, Void).ty
      OBVIOUS
    <3>3. PICK d : d = Pop_wasm_stk(b, Void)
      OBVIOUS
    <3>4. AlGood(d, K) /\ (d.ok => b.ok /\ b.stk # << >>)
      BY <3>1, <3>3, PopGood
    <3>5. PICK y : y = Pop_wasm_stk(d, r)
      OBVIOUS
    <3>6. AlGood(y, K) /\ (y.ok => d.ok)
      BY <3>4, <3>5, PopGood
    <3>7. ASSUME y.ok PROVE r \in Types
      <4>1. b.ok /\ b.stk # << >>
        BY <3>4, <3>6, <3>7
      <4>2. b.stk \in Seq(Elems)
        BY <4>1, <3>1 DEF AlGood, AlSound, AlTyped
      <4>3. Last(b.stk) \in Elems
        BY <4>1, <4>2, FrontOf
      <4>4. Top(b, Void) = Last(b.stk)
        BY <4>1 DEF Top
      <4> QED
        BY <4>3, <4>4, <3>2, ElemFields
    <3>8. \E c : Turn(Push_temp_reg(y, r), c)
      BY <2>4, <3>1, <3>2, <3>3, <3>5, <1>3, <1>5 DEF Conv_select
    <3>9. PICK z : z = Push_temp_reg(y, r)
      OBVIOUS
    <3>10. z.ok => AlGood(z, K)
      BY <3>6, <3>7, <3>9, PushAnyGood
    <3> QED
      BY <3>8, <3>9, <3>10
  <2>5. CASE Conv_call
    <3>1. PICK tys : tys = [k \in DOMAIN Pops(i) |-> IF k > Len(CalleeParams) THEN "i32" ELSE Void]
      OBVIOUS
    <3>2. IsSeq(tys)
      <4>1. PICK S : Pops(i) \in Seq(S)
        BY <1>4, PopsPushes DEF IsSeq
      <4>2. DOMAIN Pops(i) = 1 .. Len(Pops(i)) /\ Len(Pops(i)) \in Nat
        BY <4>1
      <4>3. tys \in Seq({"i32", Void})
        BY <4>2, <3>1
      <4> QED
        BY <4>3 DEF IsSeq
    <3>3. PICK y : y = PopAll(x, tys) /\ AlGood(y, K)
      BY <3>2, <1>3, PopAllGood
    <3>4. PICK q : q = [ty \in Types |-> IF y.io[ty] < CountOf(ty) THEN CountOf(ty) ELSE y.io[ty]]
      OBVIOUS
    <3>5. y.ok => q \in [Types -> Nat]
      <4>1. \A ty \in Types : CountOf(ty) \in Nat
        <5> SUFFICES ASSUME NEW ty \in Types PROVE CountOf(ty) \in Nat
          OBVIOUS
        <5>1. DOMAIN CalleeParams = 1 .. Len(CalleeParams) /\ Len(CalleeParams) \in Nat
          BY WasmAssumption
        <5>2. IsFiniteSet(1 .. Len(CalleeParams))
          BY <5>1, FS_Interval
        <5>3. {k \in DOMAIN CalleeParams : CalleeParams[k] = ty} \subseteq 1 .. Len(CalleeParams)
          BY <5>1
        <5>4. IsFiniteSet({k \in DOMAIN CalleeParams : CalleeParams[k] = ty})
          BY <5>2, <5>3, FS_Subset
        <5> QED
          BY <5>4, FS_CardinalityType DEF CountOf
      <4>2. y.ok => y.io \in [Types -> Nat]
        BY <3>3 DEF AlGood, AlSound, AlTyped
      <4> QED
        BY <4>1, <4>2, <3>4
    <3>6. PICK P : P = (\A k \in DOMAIN CalleeParams : Operands(x, tys)[k].ty = CalleeParams[k])
      OBVIOUS
    <3>7. PICK b : b = [y EXCEPT !.io = q, !.ok = @ /\ P]
      OBVIOUS
    <3>8. AlGood(b, K)
      BY <3>3, <3>5, <3>7, IoGood
    <3>9. [y EXCEPT !.io = [ty \in Types |-> IF @[ty] < CountOf(ty) THEN CountOf(ty) ELSE @[ty]],
                    !.ok = @ /\ P] = b
      BY <3>4, <3>7
    <3>10. \E c : Turn(IF i.ty = Void THEN b ELSE Push_temp_reg(b, i.ty), c)
      BY <2>5, <3>1, <3>3, <3>6, <3>9, <1>3, <1>4 DEF Conv_call
    <3>11. i.ty # Void => i.ty \in Types
      BY <2>5, <1>4, <1>6 DEF Conv_call, Converting, WellFormed
    <3>12. i.ty # Void => AlGood(Push_temp_reg(b, i.ty), K)
      BY <3>8, <3>11, PushTempGood
    <3> QED
      BY <3>8, <3>10, <3>12
  <2> QED
    BY <2>1, <2>2, <2>3, <2>4, <2>5
<1>8. PICK a, c : Turn(a, c) /\ (a.ok => AlGood(a, K))
  BY <1>7
<1> QED
  BY <1>1, <1>2, <1>8, TurnOther

\* Registers given to statements leave the tree as it is.
LEMMA GivenGraph ==
  ASSUME NEW g, GraphOK(g), NEW h, NEW t, NEW r, NEW z, Given(g, h, t, r, z)
  PROVE  GraphOK(h) /\ \A b : Unended(h, b) => Unended(g, b)
<1>1. PICK n \in Nat : /\ n = Len(g) /\ n = Len(h) /\ g \in Seq(Stmts) /\ h \in Seq(Stmts)
  BY DEF GraphOK, Given
<1>2. \A k \in 1 .. n : /\ h[k].op = g[k].op /\ h[k].parent = g[k].parent
                        /\ h[k].els = g[k].els /\ h[k].res = g[k].res
  BY <1>1 DEF Given
<1>3. ASSUME NEW k \in 1 .. n PROVE StmtOK(h, k)
  <2>1. StmtOK(g, k)
    BY <1>1 DEF GraphOK
  <2>2. \A x \in 0 .. k - 1 : x # 0 => x \in 1 .. n
    OBVIOUS
  <2>3. /\ g[k].parent \in 0 .. k - 1
        /\ g[k].parent # 0 => g[k].parent \in 1 .. n
        /\ g[k].op = "Else" => g[k].els \in 1 .. k - 1 /\ g[k].els \in 1 .. n
        /\ g[k].op = "If" /\ g[k].els # 0 => g[k].els \in k + 1 .. n /\ g[k].els \in 1 .. n
    <3>1. \A x \in k + 1 .. n : x \in 1 .. n
      OBVIOUS
    <3>2. \A x \in 1 .. k - 1 : x \in 1 .. n
      OBVIOUS
    <3> QED
      BY ONLY <3>1, <3>2, <2>1, <2>2, <1>1 DEF StmtOK
  <2> QED
    BY ONLY <2>1, <2>3, <1>1, <1>2, <1>3 DEF StmtOK
<1>4. EndsApart(h)
  BY ONLY <1>1, <1>2, GraphOK(g) DEF GraphOK, EndsApart
<1>5. GraphOK(h)
  BY ONLY <1>1, <1>3, <1>4 DEF GraphOK
<1>6. \A b : Unended(h, b) => Unended(g, b)
  BY ONLY <1>1, <1>2 DEF Unended
<1> QED
  BY <1>5, <1>6

\* Block, loop and if: the result gets a register of its own.
LEMMA OpenKeeps ==
  ASSUME ConvInv, phase = "convert", Cur.op \in Openers, NEW a, AlGood(a, KeptAt(graph, at)),
         NEW c, Turn(Reserved(a, at), c), OpenBlock(a, at)
  PROVE  ConvInv'
<1>1. PICK g : g = graph
  OBVIOUS
<1>2. PICK t : t = at
  OBVIOUS
<1>3. PICK h : h = graph'
  OBVIOUS
<1>4. PICK K : K = KeptAt(g, t)
  OBVIOUS
<1>5. /\ GraphOK(g) /\ t \in 1 .. Len(g) /\ g[t].op \in Openers
      /\ AlGood(a, K) /\ KeptApart(g, t) /\ SameReg(g, t)
      /\ \A b : ~Unended(g, b)
  BY <1>1, <1>2, <1>4, TurnStart
<1>6. PICK n \in Nat : n = Len(g) /\ g \in Seq(Stmts) /\ t \in 1 .. n
  BY <1>5 DEF GraphOK
<1>7. PICK r : r = IF g[t].res = Void THEN 0 ELSE a.next[g[t].res]
  OBVIOUS
<1>8. PICK z : z = Len(a.stk)
  OBVIOUS
<1>9. h = [k \in 1 .. n |-> IF k = t \/ (k = g[t].els /\ g[t].els # 0)
                            THEN [g[k] EXCEPT !.reg = r, !.size = z] ELSE g[k]]
  <2>1. DOMAIN g = 1 .. n
    BY <1>6
  <2>2. h = [k \in DOMAIN g |-> IF k = t \/ (k = g[t].els /\ g[t].els # 0)
                                THEN [g[k] EXCEPT !.reg = r, !.size = z] ELSE g[k]]
    BY ONLY OpenBlock(a, at), <1>1, <1>2, <1>3, <1>7, <1>8 DEF OpenBlock
  <2> QED
    BY ONLY <2>1, <2>2
<1>10. h = [k \in 1 .. n |-> h[k]] /\ Len(h) = n
  <2>1. h = [k \in 1 .. n |-> h[k]]
    BY ONLY <1>9
  <2>2. Len([k \in 1 .. n |-> h[k]]) = n
    OBVIOUS
  <2> QED
    BY ONLY <2>1, <2>2
<1>11. PICK y : y = Reserved(a, at)
  OBVIOUS
<1>12. y = IF g[t].res = Void THEN a ELSE Allocate_register(a, g[t].res)
  BY <1>1, <1>2, <1>11 DEF Reserved
<1>13. g[t].res \in Types \cup {Void}
  BY <1>6, StmtFields
<1>14. /\ AlGood(y, IF g[t].res = Void THEN K ELSE K \cup {<<g[t].res, r>>}) /\ y.ok = a.ok
       /\ a.ok /\ g[t].res # Void => <<g[t].res, r>> \notin K
  <2>1. CASE g[t].res = Void
    BY <2>1, <1>5, <1>12
  <2>2. CASE g[t].res # Void
    <3>1. g[t].res \in Types /\ r = a.next[g[t].res] /\ y = Allocate_register(a, g[t].res)
      BY <2>2, <1>7, <1>12, <1>13
    <3> QED
      BY <2>2, <3>1, <1>5, ReserveGood
  <2> QED
    BY <2>1, <2>2
<1>15. ASSUME y.ok
       PROVE  /\ GraphOK(h) /\ \A k \in 1 .. Len(graph) : h[k].op = graph[k].op
              /\ \A b : ~Unended(h, b)
              /\ AlGood(y, KeptAt(h, t + 1)) /\ KeptApart(h, t + 1) /\ SameReg(h, t + 1)
  <2>1. a.ok
    BY <1>14, <1>15
  <2>2. AlTyped(a)
    BY <2>1, <1>5 DEF AlGood, AlSound
  <2>3. r \in Nat /\ z \in Nat
    BY <2>2, <1>7, <1>8, <1>13 DEF AlTyped
  <2>4. ASSUME NEW k \in 1 .. n, NEW s, s = [g[k] EXCEPT !.reg = r, !.size = z]
        PROVE  /\ s \in Stmts /\ s.op = g[k].op /\ s.parent = g[k].parent /\ s.els = g[k].els
               /\ s.res = g[k].res /\ s.reg = r /\ s.size = z
    <3>1. g[k] \in Stmts
      BY <1>6, StmtFields
    <3>2. s \in Stmts
      BY <3>1, <2>3, <2>4 DEF Stmts
    <3> QED
      BY <3>1, <3>2, <2>4 DEF Stmts
  <2>5. Given(g, h, t, r, z)
    <3>1. ASSUME NEW k \in 1 .. n
          PROVE  /\ h[k] \in Stmts /\ h[k].op = g[k].op /\ h[k].parent = g[k].parent
                 /\ h[k].els = g[k].els /\ h[k].res = g[k].res
                 /\ (k = t \/ (k = g[t].els /\ g[t].els # 0)) => h[k].reg = r /\ h[k].size = z
                 /\ ~(k = t \/ (k = g[t].els /\ g[t].els # 0)) => h[k] = g[k]
      <4>1. CASE k = t \/ (k = g[t].els /\ g[t].els # 0)
        <5>1. h[k] = [g[k] EXCEPT !.reg = r, !.size = z]
          BY ONLY <3>1, <4>1, <1>9
        <5>2. PICK s : s = h[k]
          OBVIOUS
        <5>3. /\ s \in Stmts /\ s.op = g[k].op /\ s.parent = g[k].parent /\ s.els = g[k].els
              /\ s.res = g[k].res /\ s.reg = r /\ s.size = z
          BY <5>1, <5>2, <2>4
        <5> QED
          BY ONLY <5>2, <5>3, <4>1
      <4>2. CASE ~(k = t \/ (k = g[t].els /\ g[t].els # 0))
        <5>1. h[k] = g[k]
          BY ONLY <3>1, <4>2, <1>9
        <5>2. g[k] \in Stmts
          BY <1>6, StmtFields
        <5> QED
          BY ONLY <5>1, <5>2, <4>2
      <4> QED
        BY <4>1, <4>2
    <3>2. h \in Seq(Stmts)
      <4>1. \A k \in 1 .. n : h[k] \in Stmts
        BY ONLY <3>1
      <4>2. [k \in 1 .. n |-> h[k]] \in Seq(Stmts)
        BY ONLY <4>1, n \in Nat
      <4> QED
        BY ONLY <4>2, <1>10
    <3> QED
      BY ONLY <3>1, <3>2, <1>6, <1>10 DEF Given
  <2>6. GraphOK(h) /\ \A b : ~Unended(h, b)
    BY <2>5, <1>5, GivenGraph
  <2>7. /\ KeptAt(h, t + 1) = IF g[t].res = Void THEN K ELSE K \cup {<<g[t].res, r>>}
        /\ KeptApart(h, t + 1) /\ SameReg(h, t + 1)
    <3>1. g[t].res # Void => <<g[t].res, r>> \notin KeptAt(g, t)
      BY <2>1, <1>4, <1>14
    <3>2. /\ KeptAt(h, t + 1) = IF g[t].res = Void THEN KeptAt(g, t) ELSE KeptAt(g, t) \cup {<<g[t].res, r>>}
          /\ (g[t].res # Void => <<g[t].res, r>> \notin KeptAt(g, t)) => KeptApart(h, t + 1)
          /\ SameReg(h, t + 1)
      BY ONLY <2>5, <1>5, KeepOpens
    <3> QED
      BY ONLY <3>1, <3>2, <1>4
  <2>8. \A k \in 1 .. Len(graph) : h[k].op = graph[k].op
    BY <2>5, <1>1 DEF Given
  <2> QED
    BY ONLY <2>6, <2>7, <2>8, <1>14
<1>16. Turn(y, c) /\ Len(h) = Len(graph)
  BY <1>1, <1>6, <1>10, <1>11
<1> QED
  BY <1>2, <1>3, <1>15, <1>16, TurnKeeps

\* The end of a block: its result's register is that of the value now.
LEMMA EndKeeps ==
  ASSUME ConvInv, Conv_end_block \/ Conv_end_unreachable
  PROVE  ConvInv'
<1>1. /\ phase = "convert" /\ graph' = graph /\ Cur.op = "End" /\ Me.parent # 0
  BY DEF Conv_end_block, Conv_end_unreachable, Converting
<1>2. PICK g : g = graph
  OBVIOUS
<1>3. PICK t : t = at
  OBVIOUS
<1>4. PICK K : K = KeptAt(g, t)
  OBVIOUS
<1>5. PICK x : x = al
  OBVIOUS
<1>6. /\ GraphOK(g) /\ t \in 1 .. Len(g) /\ g[t].op = "End" /\ Me = g[t]
      /\ AlGood(x, K) /\ x.ok /\ KeptApart(g, t) /\ SameReg(g, t)
      /\ \A b : ~Unended(g, b)
  BY <1>1, <1>2, <1>3, <1>4, <1>5, TurnStart
<1>7. PICK p : p = g[t].parent /\ p # 0
  BY <1>1, <1>6
<1>8. PICK q : q = g[p]
  OBVIOUS
<1>9. /\ q.res # Void => <<q.res, q.reg>> \in K
      /\ KeptAt(g, t + 1) = IF q.res = Void THEN K ELSE K \ {<<q.res, q.reg>>}
      /\ KeptApart(g, t + 1) /\ SameReg(g, t + 1)
  <2>1. BlockEnded(g, t, p)
    BY ONLY <1>6, <1>7, KeepEnds
  <2> QED
    BY ONLY <2>1, <1>4, <1>8 DEF BlockEnded
<1>10. q.size \in Nat
  <2>1. g \in Seq(Stmts) /\ StmtOK(g, t) /\ Len(g) \in Nat
    BY <1>6 DEF GraphOK
  <2>2. p \in 0 .. t - 1
    BY <2>1, <1>7 DEF StmtOK
  <2>3. p \in 1 .. Len(g)
    BY <2>1, <2>2, <1>6, <1>7
  <2> QED
    BY <2>1, <2>3, <1>8, StmtFields
<1>11. \E y, c : AlGood(y, K) /\ Turn(Close(y, q), c)
  <2>1. CASE Conv_end_block
    <3>1. PICK y : y = Pop_wasm_stk(x, q.res) /\ AlGood(y, K)
      BY <1>6, PopGood
    <3>2. \E c : Turn(Close(y, q), c) \/ Turn(Close(x, q), c)
      BY <2>1, <3>1, <1>2, <1>5, <1>6, <1>7, <1>8 DEF Conv_end_block
    <3> QED
      BY <3>1, <3>2, <1>6
  <2>2. CASE Conv_end_unreachable
    <3>1. PICK y : y = [x EXCEPT !.stk = Front(@)]
      OBVIOUS
    <3>2. x.stk # << >>
      BY <2>2, <1>5 DEF Conv_end_unreachable, IsUnreachable
    <3>3. \E c : Turn(Close(y, q), c)
      BY <2>2, <3>1, <1>2, <1>5, <1>6, <1>7, <1>8 DEF Conv_end_unreachable
    <3>4. /\ IsAl(y) /\ y.stk = Front(x.stk) /\ y.next = x.next /\ y.size = x.size /\ y.io = x.io
      BY <3>1, <1>6 DEF AlGood, IsAl
    <3>5. AlSound(x, K)
      BY <1>6 DEF AlGood
    <3>6. AlSound(y, K)
      BY <3>2, <3>4, <3>5, LessStack
    <3>7. AlGood(y, K)
      BY <3>4, <3>6 DEF AlGood, AlSound, AlTyped, IsSeq
    <3> QED
      BY <3>3, <3>7
  <2> QED
    BY <2>1, <2>2, <1>1
<1>12. PICK y, c : AlGood(y, K) /\ Turn(Close(y, q), c)
  BY <1>11
<1>13. PICK a : a = Close(y, q)
  OBVIOUS
<1>14. AlGood(a, KeptAt(g, t + 1))
  BY <1>9, <1>10, <1>12, <1>13, CloseGood
<1>15. g = graph' /\ Len(g) = Len(graph) /\ Turn(a, c) /\ \A k \in 1 .. Len(graph) : g[k].op = graph[k].op
  BY <1>1, <1>2, <1>12, <1>13
<1> QED
  BY <1>1, <1>3, <1>6, <1>9, <1>14, <1>15, TurnKeeps

\* The end of the conversion: the registers of calls are put in.
LEMMA FixKeeps ==
  ASSUME ConvInv, Fix_up
  PROVE  ConvInv'
<1>1. /\ phase = "fixup" /\ phase' = "done"
      /\ UNCHANGED <<alphabet, fres, valid, ins, work, graph, at, al>>
  BY DEF Fix_up, input
<1>2. InputInv'
  BY <1>1 DEF ConvInv, InputInv
<1>3. GraphInv'
  BY <1>1 DEF ConvInv, GraphInv
<1>4. WorkInv'
  BY <1>1 DEF ConvInv, WorkInv
<1>5. AllocInv'
  BY <1>1 DEF ConvInv, AllocInv
<1> QED
  BY <1>2, <1>3, <1>4, <1>5 DEF ConvInv

\* Every step of the specification.
LEMMA StepConv == ConvInv /\ [Next]_vars => ConvInv'
<1> SUFFICES ASSUME ConvInv, [Next]_vars PROVE ConvInv'
  OBVIOUS
<1>1. ASSUME NEW i \in alphabet.insts, Build_block_hierarchy(i) PROVE ConvInv'
  BY <1>1, ReadKeeps
<1>2. CASE Conv_block \/ Conv_if
  <2>1. phase = "convert" /\ Cur.op \in Openers
    BY <1>2 DEF Conv_block, Conv_if, Converting, Openers
  <2>2. PICK x : x = al /\ AlGood(x, KeptAt(graph, at))
    BY <2>1, TurnStart
  <2>3. PICK K : K = KeptAt(graph, at)
    OBVIOUS
  <2>4. PICK y : y = Pop_wasm_stk(x, "i32") /\ AlGood(y, K)
    BY <2>2, <2>3, PopGood
  <2>5. \E a, c : AlGood(a, K) /\ Turn(Reserved(a, at), c) /\ OpenBlock(a, at)
    <3>1. CASE Conv_block
      <4>1. \E c : Turn(Reserved(x, at), c) /\ OpenBlock(x, at)
        BY <3>1, <2>2 DEF Conv_block
      <4> QED
        BY <4>1, <2>2, <2>3
    <3>2. CASE Conv_if
      <4>1. \E c : Turn(Reserved(y, at), c) /\ OpenBlock(y, at)
        BY <3>2, <2>2, <2>4 DEF Conv_if
      <4> QED
        BY <4>1, <2>4
    <3> QED
      BY <3>1, <3>2, <1>2
  <2>6. PICK a, c : AlGood(a, K) /\ Turn(Reserved(a, at), c) /\ OpenBlock(a, at)
    BY <2>5
  <2> QED
    BY <2>1, <2>3, <2>6, OpenKeeps
<1>3. CASE UNCHANGED vars
  <2>1. InputInv' /\ GraphInv'
    BY <1>3 DEF ConvInv, InputInv, GraphInv, vars
  <2>2. WorkInv' /\ AllocInv'
    BY <1>3 DEF ConvInv, WorkInv, AllocInv, vars
  <2> QED
    BY <2>1, <2>2 DEF ConvInv
<1> QED
  BY <1>1, <1>2, <1>3, CheckedKeeps, PlainKeeps, ValueKeeps, EndKeeps, FixKeeps DEF Next

-----------------------------------------------------------------------------
\* The statements, the open blocks and the register allocation of every
\* function, at every point of its conversion.
THEOREM ConverterInvariant == Spec => []ConvInv
BY InitConv, StepConv, PTL DEF Spec

\* RegistersDistinct is what the invariant says of the stack and the blocks.
LEMMA ConvDistinct == ConvInv => RegistersDistinct
<1> SUFFICES ASSUME ConvInv, phase = "convert"
             PROVE  /\ IsInjective(Held) /\ IsInjective(Kept)
                    /\ Range(Held) \cap Range(Kept) = {}
                    /\ \A r \in Range(Held) \cup Range(Kept) :
                         /\ RET_REG_NUM + LocalNum(r[1]) <= r[2] /\ r[2] < al.next[r[1]]
                         /\ al.next[r[1]] <= LocalTotal(r[1])
  BY DEF RegistersDistinct
<1>1. PICK g : g = graph
  OBVIOUS
<1>2. PICK t : t = at
  OBVIOUS
<1>3. PICK x : x = al
  OBVIOUS
<1>4. PICK K : K = KeptAt(g, t)
  OBVIOUS
<1>5. /\ GraphOK(g) /\ t \in 1 .. Len(g) /\ AlSound(x, K) /\ KeptApart(g, t) /\ Len(ins) = Len(g)
  BY <1>1, <1>2, <1>3, <1>4, TurnStart DEF AlGood
<1>6. \A k \in 1 .. Len(g) : g[k].op = ins[k].op
  BY <1>1, <1>5 DEF ConvInv, GraphInv
<1>7. Keeping = KeepAt(g, t)
  <2>1. Len(g) \in Nat
    BY <1>5 DEF GraphOK
  <2>2. \A k \in 1 .. t - 1 : k \in 1 .. Len(g)
    BY <2>1, <1>5
  <2>3. \A k \in 1 .. t - 1 : Opens(ins[k]) <=> g[k].op \in Openers
    BY <2>2, <1>6 DEF Opens, Openers
  <2>4. \A e, b \in 1 .. t - 1 : EndOfBlock(e, b) <=> EndsBlock(g, e, b)
    BY <2>2, <1>1, <1>6 DEF EndOfBlock, EndsBlock
  <2>5. OpenBlocks = OpenAt(g, t)
    BY <2>3, <2>4, <1>2 DEF OpenBlocks, OpenAt
  <2> QED
    BY <2>5, <1>1 DEF Keeping, KeepAt
<1>8. x.stk \in Seq(Elems) /\ DOMAIN x.stk = 1 .. Len(x.stk)
  BY <1>5 DEF AlSound, AlTyped
<1>9. Temps = {k \in 1 .. Len(x.stk) : x.stk[k].kind = "TEMP"}
  BY <1>3, <1>8 DEF Temps
<1>10. Held = [k \in Temps |-> <<x.stk[k].ty, x.stk[k].idx>>]
  BY <1>3 DEF Held
<1>11. Kept = [b \in KeepAt(g, t) |-> <<g[b].res, g[b].reg>>]
  BY <1>1, <1>7 DEF Kept
<1>12. IsInjective(Held)
  <2>1. \A j, k \in Temps : x.stk[j].ty = x.stk[k].ty /\ x.stk[j].idx = x.stk[k].idx => j = k
    BY <1>5, <1>9 DEF AlSound, TempsApart
  <2>2. \A j, k \in Temps : Held[j] = Held[k] => j = k
    BY ONLY <2>1, <1>10
  <2> QED
    BY ONLY <2>2, <1>10 DEF IsInjective
<1>13. IsInjective(Kept)
  <2>1. \A b, c \in KeepAt(g, t) : Kept[b] = Kept[c] => b = c
    BY ONLY <1>5, <1>11 DEF KeptApart
  <2> QED
    BY ONLY <2>1, <1>11 DEF IsInjective
<1>14. Range(Kept) = K
  BY ONLY <1>4, <1>11 DEF Range, KeptAt
<1>15. Range(Held) = {<<x.stk[k].ty, x.stk[k].idx>> : k \in Temps}
  BY ONLY <1>10 DEF Range
<1>16. Range(Held) \cap Range(Kept) = {}
  <2>1. \A k \in Temps : <<x.stk[k].ty, x.stk[k].idx>> \notin K
    BY <1>5, <1>9 DEF AlSound, TempsOK
  <2> QED
    BY ONLY <2>1, <1>14, <1>15
<1>17. ASSUME NEW r \in Range(Held) \cup Range(Kept)
       PROVE  r[1] \in Types /\ InUse(x, r[1], r[2])
  <2>1. CASE r \in Range(Held)
    <3>1. PICK k \in Temps : r = <<x.stk[k].ty, x.stk[k].idx>>
      BY ONLY <2>1, <1>15
    <3>2. r[1] = x.stk[k].ty /\ r[2] = x.stk[k].idx
      BY ONLY <3>1
    <3>3. x.stk[k] \in Elems
      BY <1>8, <1>9, ElementOfSeq
    <3>4. x.stk[k].ty \in Types /\ InUse(x, x.stk[k].ty, x.stk[k].idx)
      BY <3>3, <1>5, <1>9, ElemFields DEF AlSound, TempsOK
    <3> QED
      BY ONLY <3>2, <3>4
  <2>2. CASE r \in Range(Kept)
    <3>1. r \in Types \X Nat /\ InUse(x, r[1], r[2])
      BY <2>2, <1>5, <1>14 DEF AlSound, KeptOK
    <3> QED
      BY <3>1
  <2> QED
    BY <2>1, <2>2, <1>17
<1>18. ASSUME NEW r \in Range(Held) \cup Range(Kept)
       PROVE  /\ RET_REG_NUM + LocalNum(r[1]) <= r[2] /\ r[2] < al.next[r[1]]
              /\ al.next[r[1]] <= LocalTotal(r[1])
  <2>1. r[1] \in Types /\ InUse(x, r[1], r[2])
    BY <1>17, <1>18
  <2>2. x.next[r[1]] <= RET_REG_NUM + x.size[r[1]]
    BY <2>1, <1>5 DEF AlSound, NextOK
  <2> QED
    BY <2>1, <2>2, <1>3 DEF InUse, Base, LocalTotal
<1> QED
  BY <1>12, <1>13, <1>16, <1>18

\* No two values share a register, in the conversion of any function: what
\* Allocate_register and Free_register promise.
THEOREM RegistersApart == Spec => []RegistersDistinct
BY ConverterInvariant, ConvDistinct, PTL

=============================================================================
