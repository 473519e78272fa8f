---------------------------- MODULE WindowProofs ----------------------------
(***************************************************************************)
(* Every register an instruction names is inside the window of its         *)
(* function: RegistersInWindow of Converter, for functions of any length   *)
(* that the registers of a file suffice for, without loops that have a     *)
(* result and without comparisons of 64-bit values.                        *)
(*                                                                         *)
(* The parts: what the operations of the allocator count (Counts, Grows);  *)
(* the code they emit names only registers that were counted (Fenced); the *)
(* invariant (WindowInv); one lemma per action (those named Window), the   *)
(* rewriting of the arguments of calls at the end, and the theorem.        *)
(***************************************************************************)
EXTENDS AssertProofs

-----------------------------------------------------------------------------
(* Registers inside the window: what an instruction names is below the     *)
(* registers counted for the function.                                     *)

\* A register of file ty, at most one above those counted.
Counts(a, ty, r) == ty \in Types /\ r \in Nat /\ r <= RET_REG_NUM + a.size[ty]

\* The elements of the stack that are no temporaries.
LowElem(e) ==
  (e.kind = "LOCAL" => e.idx <= Base(e.ty)) /\ (e.kind = "UNREACHABLE" => e.idx = 0)

Low(a) == \A k \in 1 .. Len(a.stk) : LowElem(a.stk[k])

LowGood(a, K) == AlGood(a, K) /\ (a.ok => Low(a))

SizesTyped(a) == a.size \in [Types -> Nat] /\ a.io \in [Types -> Nat]

\* What was counted stays counted.
Grows(a, b) ==
  b.ok => /\ a.ok /\ SizesTyped(a) /\ SizesTyped(b)
          /\ \A ty \in Types : a.size[ty] <= b.size[ty] /\ a.io[ty] <= b.io[ty]

\* The sizes of an allocator without a failed assertion.
LEMMA GoodSizes ==
  ASSUME NEW a, NEW K, AlGood(a, K), a.ok
  PROVE  /\ SizesTyped(a) /\ a.stk \in Seq(Elems) /\ a.next \in [Types -> Nat]
         /\ \A ty \in Types : Base(ty) <= a.next[ty] /\ a.next[ty] <= RET_REG_NUM + a.size[ty]
BY DEF AlGood, AlSound, AlTyped, NextOK, SizesTyped

\* Growth in two steps.
LEMMA GrowsOn ==
  ASSUME NEW a, NEW b, NEW c, Grows(a, b), Grows(b, c)
  PROVE  Grows(a, c)
<1> SUFFICES ASSUME c.ok PROVE Grows(a, c)
  BY DEF Grows
<1>1. /\ b.ok /\ a.ok /\ SizesTyped(a) /\ SizesTyped(b) /\ SizesTyped(c)
      /\ \A ty \in Types : a.size[ty] <= b.size[ty] /\ a.io[ty] <= b.io[ty]
      /\ \A ty \in Types : b.size[ty] <= c.size[ty] /\ b.io[ty] <= c.io[ty]
  BY DEF Grows
<1>2. \A ty \in Types : /\ a.size[ty] \in Nat /\ b.size[ty] \in Nat /\ c.size[ty] \in Nat
                        /\ a.io[ty] \in Nat /\ b.io[ty] \in Nat /\ c.io[ty] \in Nat
  BY ONLY <1>1 DEF SizesTyped
<1>3. \A ty \in Types : a.size[ty] <= c.size[ty] /\ a.io[ty] <= c.io[ty]
  BY ONLY <1>1, <1>2
<1> QED
  BY ONLY <1>1, <1>3 DEF Grows

\* The same sizes.
LEMMA GrowsSame ==
  ASSUME NEW a, NEW K, AlGood(a, K), NEW b, b.ok => a.ok /\ b.size = a.size /\ b.io = a.io
  PROVE  Grows(a, b)
<1> SUFFICES ASSUME b.ok PROVE Grows(a, b)
  BY DEF Grows
<1>1. a.ok /\ b.size = a.size /\ b.io = a.io /\ SizesTyped(a)
  BY GoodSizes
<1>2. SizesTyped(b)
  BY ONLY <1>1 DEF SizesTyped
<1>3. \A ty \in Types : a.size[ty] \in Nat /\ a.io[ty] \in Nat
  BY ONLY <1>1 DEF SizesTyped
<1> QED
  BY ONLY <1>1, <1>2, <1>3 DEF Grows

\* A register that was counted.
LEMMA CountsOn ==
  ASSUME NEW a, NEW b, Grows(a, b), b.ok, NEW ty, NEW r, Counts(a, ty, r)
  PROVE  Counts(b, ty, r)
<1>1. /\ SizesTyped(a) /\ SizesTyped(b) /\ ty \in Types /\ r \in Nat /\ r <= RET_REG_NUM + a.size[ty]
      /\ a.size[ty] <= b.size[ty]
  BY DEF Grows, Counts
<1>2. a.size[ty] \in Nat /\ b.size[ty] \in Nat /\ RET_REG_NUM \in Nat
  BY <1>1, ConverterAssumption DEF SizesTyped
<1>3. r <= RET_REG_NUM + b.size[ty]
  BY ONLY <1>1, <1>2
<1> QED
  BY ONLY <1>1, <1>3 DEF Counts

\* The register that is allocated next, and the first return register.
LEMMA CountsNext ==
  ASSUME NEW a, NEW K, AlGood(a, K), a.ok, NEW ty \in Types
  PROVE  Counts(a, ty, a.next[ty]) /\ Counts(a, ty, 0)
<1>1. a.next[ty] \in Nat /\ a.size[ty] \in Nat /\ a.next[ty] <= RET_REG_NUM + a.size[ty]
  BY GoodSizes DEF SizesTyped
<1>2. RET_REG_NUM \in Nat
  BY ConverterAssumption
<1> QED
  BY ONLY <1>1, <1>2, ty \in Types DEF Counts

\* A parameter or local.
LEMMA LocalCounts ==
  ASSUME NEW a, NEW K, AlGood(a, K), a.ok, NEW ty \in Types, NEW r \in Nat, r <= Base(ty)
  PROVE  Counts(a, ty, r)
<1>1. a.next[ty] \in Nat /\ a.size[ty] \in Nat /\ Base(ty) <= a.next[ty] /\ a.next[ty] <= RET_REG_NUM + a.size[ty]
  BY GoodSizes DEF SizesTyped
<1>2. RET_REG_NUM \in Nat /\ Base(ty) \in Nat
  BY ConverterAssumption, BaseNat
<1> QED
  BY ONLY <1>1, <1>2, ty \in Types, r \in Nat, r <= Base(ty) DEF Counts

\* The register of a local is below the first temporary.
LEMMA LocalBelow ==
  ASSUME NEW x \in DOMAIN Vars
  PROVE  Vars[x] \in Types /\ LocalReg(x) \in Nat /\ LocalReg(x) <= Base(Vars[x])
<1>1. Vars[x] \in Types /\ LocalReg(x) \in Nat
  BY LocalRegNat
<1>2. DOMAIN Vars = 1 .. Len(Vars) /\ Len(Vars) \in Nat
  BY WasmAssumption
<1>3. PICK S, T : S = {k \in 1 .. x - 1 : Vars[k] = Vars[x]} /\ T = {k \in DOMAIN Vars : Vars[k] = Vars[x]}
  OBVIOUS
<1>4. S \subseteq T /\ T \subseteq 1 .. Len(Vars)
  BY <1>2, <1>3
<1>5. IsFiniteSet(T)
  <2>1. IsFiniteSet(1 .. Len(Vars))
    BY <1>2, FS_Interval
  <2> QED
    BY <2>1, <1>4, FS_Subset
<1>6. Cardinality(S) \in Nat /\ Cardinality(T) \in Nat /\ Cardinality(S) <= Cardinality(T)
  BY <1>4, <1>5, FS_Subset, FS_CardinalityType
<1>7. RET_REG_NUM \in Nat
  BY ConverterAssumption
<1>8. LocalReg(x) = RET_REG_NUM + Cardinality(S) /\ Base(Vars[x]) = RET_REG_NUM + Cardinality(T)
  BY <1>3 DEF LocalReg, Base, LocalNum
<1>9. LocalReg(x) <= Base(Vars[x])
  BY ONLY <1>6, <1>7, <1>8
<1> QED
  BY ONLY <1>1, <1>9

\* Every element of the stack has a register that was counted.
LEMMA CountsElem ==
  ASSUME NEW a, NEW K, LowGood(a, K), a.ok, NEW k \in 1 .. Len(a.stk)
  PROVE  /\ Counts(a, a.stk[k].ty, a.stk[k].idx)
         /\ a.stk[k].kind = "UNREACHABLE" => a.stk[k].idx = 0
<1>1. PICK e : e = a.stk[k]
  OBVIOUS
<1>2. AlGood(a, K) /\ Low(a)
  BY DEF LowGood
<1>3. a.stk \in Seq(Elems)
  BY <1>2, GoodSizes
<1>4. e \in Elems
  BY <1>1, <1>3, ElementOfSeq
<1>5. e.kind \in {"TEMP", "LOCAL", "UNREACHABLE"} /\ e.ty \in Types /\ e.idx \in Nat
  BY <1>4 DEF Elems
<1>6. CASE e.kind = "TEMP"
  <2>1. e.idx < a.next[e.ty]
    BY <1>1, <1>2, <1>6 DEF AlGood, AlSound, TempsOK, InUse
  <2>2. a.next[e.ty] \in Nat /\ a.size[e.ty] \in Nat /\ a.next[e.ty] <= RET_REG_NUM + a.size[e.ty]
    BY <1>2, <1>5, GoodSizes DEF SizesTyped
  <2>3. RET_REG_NUM \in Nat
    BY ConverterAssumption
  <2>4. Counts(a, e.ty, e.idx)
    BY ONLY <2>1, <2>2, <2>3, <1>5 DEF Counts
  <2> QED
    BY ONLY <2>4, <1>1, <1>6
<1>7. CASE e.kind = "LOCAL"
  <2>1. e.idx <= Base(e.ty)
    BY <1>1, <1>2, <1>7 DEF Low, LowElem
  <2>2. Counts(a, e.ty, e.idx)
    BY <2>1, <1>2, <1>5, LocalCounts
  <2> QED
    BY ONLY <2>2, <1>1, <1>7
<1>8. CASE e.kind = "UNREACHABLE"
  <2>1. e.idx = 0
    BY <1>1, <1>2, <1>8 DEF Low, LowElem
  <2>2. Counts(a, e.ty, e.idx)
    BY <2>1, <1>2, <1>5, CountsNext
  <2> QED
    BY ONLY <2>1, <2>2, <1>1
<1> QED
  BY <1>5, <1>6, <1>7, <1>8

\* The topmost element, as it is popped.
LEMMA CountsTop ==
  ASSUME NEW a, NEW K, LowGood(a, K), NEW ty, ty \in Types \cup {Void}, NEW c, c = Pop_wasm_stk(a, ty), c.ok,
         NEW e, e = Top(a, ty)
  PROVE  Counts(a, e.ty, e.idx) /\ (ty # Void => e.ty = ty)
<1>1. AlGood(a, K)
  BY DEF LowGood
<1>2. a.ok /\ a.stk # << >> /\ (ty = Void \/ e.ty = ty)
  BY <1>1, PopGood
<1>3. a.stk \in Seq(Elems)
  BY <1>1, <1>2, GoodSizes
<1>4. PICK n \in Nat : n = Len(a.stk) /\ n \in 1 .. n /\ Last(a.stk) = a.stk[n] /\ Last(a.stk) \in Elems
  <2>1. Len(a.stk) \in Nat \ {0} /\ Last(a.stk) = a.stk[Len(a.stk)] /\ Last(a.stk) \in Elems
    BY <1>2, <1>3, FrontOf
  <2> QED
    BY ONLY <2>1
<1>5. PICK z : z = Last(a.stk)
  OBVIOUS
<1>6. Counts(a, z.ty, z.idx) /\ (z.kind = "UNREACHABLE" => z.idx = 0)
  BY <1>2, <1>4, <1>5, CountsElem
<1>7. CASE z.kind = "UNREACHABLE" /\ ty # Void
  <2>1. e = [z EXCEPT !.ty = ty]
    BY ONLY <1>2, <1>5, <1>7, e = Top(a, ty) DEF Top
  <2>2. z \in Elems
    BY ONLY <1>4, <1>5
  <2>3. e.ty = ty /\ e.idx = z.idx
    BY ONLY <2>1, <2>2 DEF Elems
  <2>4. ty \in Types
    BY <1>7
  <2>5. Counts(a, ty, 0)
    BY <2>4, <1>1, <1>2, CountsNext
  <2> QED
    BY ONLY <2>3, <2>5, <1>6, <1>7
<1>8. CASE ~(z.kind = "UNREACHABLE" /\ ty # Void)
  <2>1. e = z
    BY ONLY <1>2, <1>5, <1>8, e = Top(a, ty) DEF Top
  <2> QED
    BY ONLY <2>1, <1>2, <1>6
<1> QED
  BY ONLY <1>7, <1>8

-----------------------------------------------------------------------------
(* The operations of the allocator.                                        *)

\* One more element on the stack.
LEMMA LowAppend ==
  ASSUME NEW a, IsSeq(a.stk), Low(a), NEW e, LowElem(e), NEW b, b.stk = Append(a.stk, e)
  PROVE  Low(b)
<1>1. PICK s, r : s = a.stk /\ r = b.stk
  OBVIOUS
<1>2. PICK S : s \in Seq(S)
  BY <1>1 DEF IsSeq
<1>3. s \in Seq(S \cup {e}) /\ e \in S \cup {e}
  BY <1>2
<1>4. PICK m \in Nat : m = Len(s) /\ Len(r) = m + 1 /\ r[m + 1] = e /\ \A j \in 1 .. m : r[j] = s[j]
  <2>1. r = Append(s, e)
    BY <1>1
  <2>2. /\ Len(s) \in Nat /\ Len(Append(s, e)) = Len(s) + 1 /\ Append(s, e)[Len(s) + 1] = e
        /\ \A j \in 1 .. Len(s) : Append(s, e)[j] = s[j]
    BY ONLY <1>3, AppendProperties, LenProperties
  <2> QED
    BY ONLY <2>1, <2>2
<1>5. \A j \in 1 .. m + 1 : j \in 1 .. m \/ j = m + 1
  OBVIOUS
<1>6. \A j \in 1 .. m : LowElem(s[j])
  BY ONLY <1>1, <1>4, Low(a) DEF Low
<1>7. \A j \in 1 .. Len(r) : LowElem(r[j])
  BY ONLY <1>4, <1>5, <1>6, LowElem(e)
<1> QED
  BY ONLY <1>1, <1>7 DEF Low

\* The lower part of the stack.
LEMMA LowPart ==
  ASSUME NEW a, Low(a), NEW n, n = Len(a.stk), n \in Nat, NEW b, NEW m, m = Len(b.stk), m \in Nat, m <= n,
         \A k \in 1 .. m : b.stk[k] = a.stk[k]
  PROVE  Low(b)
<1>1. \A k \in 1 .. m : k \in 1 .. n
  OBVIOUS
<1> QED
  BY ONLY <1>1, Low(a), n = Len(a.stk), m = Len(b.stk), \A k \in 1 .. m : b.stk[k] = a.stk[k] DEF Low

\* The operands of an instruction are popped.
LEMMA LowPopAll ==
  ASSUME NEW a, NEW K, LowGood(a, K), NEW tys, IsSeq(tys), NEW c, c = PopAll(a, tys)
  PROVE  LowGood(c, K) /\ Grows(a, c)
<1>1. AlGood(a, K)
  BY DEF LowGood
<1>2. /\ AlGood(c, K)
      /\ c.ok => /\ a.ok /\ c.size = a.size /\ c.io = a.io /\ Len(c.stk) = Len(a.stk) - Len(tys)
                 /\ \A k \in 1 .. Len(c.stk) : c.stk[k] = a.stk[k]
  BY <1>1, PopAllGood
<1>3. ASSUME c.ok PROVE Low(c)
  <2>1. PICK n, m, l : n = Len(a.stk) /\ m = Len(c.stk) /\ l = Len(tys)
    OBVIOUS
  <2>2. n \in Nat /\ m \in Nat /\ l \in Nat
    BY <2>1, <1>1, <1>2 DEF AlGood, IsSeq
  <2>3. m = n - l /\ Low(a) /\ \A k \in 1 .. m : c.stk[k] = a.stk[k]
    BY <2>1, <1>2, <1>3 DEF LowGood
  <2>4. m <= n
    BY ONLY <2>2, <2>3
  <2> QED
    BY ONLY <2>1, <2>2, <2>3, <2>4, LowPart
<1>4. Grows(a, c)
  BY <1>1, <1>2, GrowsSame
<1> QED
  BY <1>2, <1>3, <1>4 DEF LowGood

\* One operand is popped.
LEMMA LowPop ==
  ASSUME NEW a, NEW K, LowGood(a, K), NEW ty, NEW c, c = Pop_wasm_stk(a, ty)
  PROVE  LowGood(c, K) /\ Grows(a, c)
<1>1. AlGood(a, K)
  BY DEF LowGood
<1>2. /\ AlGood(c, K)
      /\ c.ok => a.ok /\ a.stk # << >> /\ c.stk = Front(a.stk) /\ c.size = a.size /\ c.io = a.io
  BY <1>1, PopGood
<1>3. ASSUME c.ok PROVE Low(c)
  <2>1. a.ok /\ a.stk # << >> /\ c.stk = Front(a.stk) /\ Low(a)
    BY <1>2, <1>3 DEF LowGood
  <2>2. a.stk \in Seq(Elems)
    BY <2>1, <1>1, GoodSizes
  <2>3. PICK n, m : n = Len(a.stk) /\ m = Len(c.stk)
    OBVIOUS
  <2>4. n \in Nat \ {0} /\ m = n - 1 /\ \A k \in 1 .. n - 1 : c.stk[k] = a.stk[k]
    BY <2>1, <2>2, <2>3, FrontOf
  <2>5. n \in Nat /\ m \in Nat /\ m <= n /\ \A k \in 1 .. m : c.stk[k] = a.stk[k]
    BY ONLY <2>4
  <2> QED
    BY ONLY <2>1, <2>3, <2>5, LowPart
<1>4. Grows(a, c)
  BY <1>1, <1>2, GrowsSame
<1> QED
  BY <1>2, <1>3, <1>4 DEF LowGood

\* Allocate_register counts the register it hands out.
LEMMA AllocateGrows ==
  ASSUME NEW a, NEW K, AlGood(a, K), NEW ty \in Types, NEW b, b = Allocate_register(a, ty)
  PROVE  Grows(a, b) /\ b.ok = a.ok /\ b.stk = a.stk
<1>1. /\ b.ok = a.ok /\ b.stk = a.stk /\ b.io = a.io
      /\ b.size = [a.size EXCEPT ![ty] = IF a.next[ty] >= @ + RET_REG_NUM THEN @ + 1 ELSE @]
  BY DEF Allocate_register, AlGood, IsAl
<1>2. ASSUME b.ok PROVE Grows(a, b)
  <2>1. a.ok /\ SizesTyped(a)
    BY <1>1, <1>2, GoodSizes
  <2>2. a.size \in [Types -> Nat] /\ a.io \in [Types -> Nat]
    BY ONLY <2>1 DEF SizesTyped
  <2>3. PICK p : p = (a.next[ty] >= a.size[ty] + RET_REG_NUM)
    OBVIOUS
  <2>4. b.size = [a.size EXCEPT ![ty] = IF p THEN a.size[ty] + 1 ELSE a.size[ty]]
    BY ONLY <1>1, <2>3
  <2>5. b.size \in [Types -> Nat] /\ \A u \in Types : a.size[u] <= b.size[u] /\ a.io[u] <= a.io[u]
    BY ONLY <2>2, <2>4, ty \in Types
  <2>6. SizesTyped(b)
    BY ONLY <2>2, <2>5, <1>1 DEF SizesTyped
  <2> QED
    BY ONLY <2>1, <2>5, <2>6, <1>1 DEF Grows
<1>3. Grows(a, b)
  BY <1>2 DEF Grows
<1> QED
  BY <1>1, <1>3

\* A temporary is pushed.
LEMMA LowPushTemp ==
  ASSUME NEW a, NEW K, LowGood(a, K), NEW ty \in Types, NEW c, c = Push_temp_reg(a, ty)
  PROVE  LowGood(c, K) /\ Grows(a, c)
<1>1. AlGood(a, K)
  BY DEF LowGood
<1>2. AlGood(c, K) /\ (c.ok => a.ok /\ c.stk = Append(a.stk, Elem("TEMP", ty, a.next[ty])))
  BY <1>1, PushTempGood
<1>3. ASSUME c.ok PROVE Low(c)
  <2>1. PICK e : e = Elem("TEMP", ty, a.next[ty])
    OBVIOUS
  <2>2. LowElem(e)
    BY <2>1 DEF Elem, LowElem
  <2>3. Low(a) /\ IsSeq(a.stk) /\ c.stk = Append(a.stk, e)
    BY <2>1, <1>1, <1>2, <1>3 DEF LowGood, AlGood
  <2> QED
    BY <2>2, <2>3, LowAppend
<1>4. PICK b : b = Allocate_register(a, ty)
  OBVIOUS
<1>5. Grows(a, b) /\ b.ok = a.ok
  BY <1>1, <1>4, AllocateGrows
<1>6. c.size = b.size /\ c.io = b.io
  <2>1. IsAl(b)
    BY <1>1, <1>4 DEF Allocate_register, AlGood, IsAl
  <2> QED
    BY <2>1, <1>4 DEF Push_temp_reg, Push, IsAl
<1>7. Grows(a, c)
  <2>1. c.ok => b.ok
    BY <1>2, <1>5
  <2> QED
    BY ONLY <2>1, <1>5, <1>6 DEF Grows, SizesTyped
<1> QED
  BY <1>2, <1>3, <1>7 DEF LowGood

\* A temporary of a type that is known once nothing failed.
LEMMA LowPushAny ==
  ASSUME NEW a, NEW K, LowGood(a, K), NEW ty, a.ok => ty \in Types, NEW c, c = Push_temp_reg(a, ty), c.ok
  PROVE  a.ok /\ LowGood(c, K) /\ Grows(a, c)
<1>1. a.ok
  BY DEF Push_temp_reg, Push, Allocate_register, LowGood, AlGood, IsAl
<1> QED
  BY <1>1, LowPushTemp

\* The scratch register is given back at once.
LEMMA LowScratch ==
  ASSUME NEW a, NEW K, LowGood(a, K), NEW b, b = WithScratch(a)
  PROVE  LowGood(b, K) /\ Grows(a, b)
<1>1. PICK c : c = Push_temp_reg(a, "i32")
  OBVIOUS
<1>2. LowGood(c, K) /\ Grows(a, c)
  <2>1. "i32" \in Types
    BY DEF Types
  <2> QED
    BY <2>1, <1>1, LowPushTemp
<1>3. b = Pop_wasm_stk(c, "i32")
  BY <1>1 DEF WithScratch
<1>4. LowGood(b, K) /\ Grows(c, b)
  BY <1>2, <1>3, LowPop
<1> QED
  BY <1>2, <1>4, GrowsOn

\* An assertion that may fail.
LEMMA LowCheck ==
  ASSUME NEW a, NEW K, LowGood(a, K), NEW P, NEW b, b = [a EXCEPT !.ok = @ /\ P]
  PROVE  LowGood(b, K) /\ Grows(a, b) /\ (b.ok => P)
<1>1. AlGood(a, K)
  BY DEF LowGood
<1>2. b.ok = (a.ok /\ P) /\ b.stk = a.stk /\ b.size = a.size /\ b.io = a.io
  BY <1>1 DEF AlGood, IsAl
<1>3. AlGood(b, K)
  BY <1>1, CheckGood
<1>4. b.ok => Low(b)
  BY <1>2 DEF LowGood, Low
<1>5. Grows(a, b)
  BY <1>1, <1>2, GrowsSame
<1> QED
  BY <1>2, <1>3, <1>4, <1>5 DEF LowGood

\* The callee's parameters are counted.
LEMMA LowIo ==
  ASSUME NEW a, NEW K, LowGood(a, K), NEW q, a.ok => q \in [Types -> Nat] /\ \A ty \in Types : a.io[ty] <= q[ty],
         NEW P, NEW b, b = Checked(a, q, P)
  PROVE  LowGood(b, K) /\ Grows(a, b) /\ (b.ok => P) /\ b.io = q
<1>1. AlGood(a, K) /\ b = [a EXCEPT !.io = q, !.ok = @ /\ P]
  BY DEF LowGood, Checked
<1>2. b.ok = (a.ok /\ P) /\ b.stk = a.stk /\ b.size = a.size /\ b.io = q
  BY <1>1 DEF AlGood, IsAl
<1>3. AlGood(b, K)
  BY <1>1, IoGood
<1>4. b.ok => Low(b)
  BY <1>2 DEF LowGood, Low
<1>5. ASSUME b.ok PROVE Grows(a, b)
  <2>1. a.ok /\ SizesTyped(a) /\ q \in [Types -> Nat] /\ \A ty \in Types : a.io[ty] <= q[ty]
    BY <1>1, <1>2, <1>5, GoodSizes
  <2>2. SizesTyped(b) /\ \A ty \in Types : a.size[ty] <= b.size[ty]
    BY ONLY <2>1, <1>2 DEF SizesTyped
  <2> QED
    BY ONLY <2>1, <2>2, <1>2 DEF Grows
<1>6. Grows(a, b)
  BY <1>5 DEF Grows
<1> QED
  BY <1>2, <1>3, <1>4, <1>6 DEF LowGood

\* A local or a mark is put on the stack.
LEMMA LowPush ==
  ASSUME NEW a, NEW K, LowGood(a, K), NEW e \in Elems, e.kind # "TEMP", LowElem(e), NEW b, b = Push(a, e)
  PROVE  LowGood(b, K) /\ Grows(a, b)
<1>1. AlGood(a, K) /\ IsSeq(a.stk)
  BY DEF LowGood, AlGood
<1>2. AlGood(b, K)
  BY <1>1, PushGood
<1>3. b.ok = a.ok /\ b.stk = Append(a.stk, e) /\ b.size = a.size /\ b.io = a.io
  BY <1>1 DEF Push, AlGood, IsAl
<1>4. a.ok => Low(b)
  BY <1>1, <1>3, LowAppend DEF LowGood
<1>5. Grows(a, b)
  BY <1>1, <1>3, GrowsSame
<1> QED
  BY <1>2, <1>3, <1>4, <1>5 DEF LowGood

\* A register is reserved for the result of a block.
LEMMA LowReserved ==
  ASSUME NEW a, NEW K, LowGood(a, K), NEW t, graph[t].res \in Types \cup {Void}, NEW b, b = Reserved(a, t)
  PROVE  (b.ok => Low(b)) /\ Grows(a, b)
<1>1. AlGood(a, K)
  BY DEF LowGood
<1>2. PICK ty : ty = graph[t].res
  OBVIOUS
<1>3. CASE ty = Void
  <2>1. b = a
    BY <1>2, <1>3 DEF Reserved
  <2> QED
    BY <2>1, <1>1, GrowsSame DEF LowGood
<1>4. CASE ty # Void
  <2>1. ty \in Types /\ b = Allocate_register(a, ty)
    BY <1>2, <1>4 DEF Reserved
  <2>2. Grows(a, b) /\ b.ok = a.ok /\ b.stk = a.stk
    BY <2>1, <1>1, AllocateGrows
  <2> QED
    BY <2>2 DEF LowGood, Low
<1> QED
  BY <1>3, <1>4

\* The end of a block.
LEMMA LowClose ==
  ASSUME NEW a, NEW K, LowGood(a, K), NEW p, p.size \in Nat, NEW b, b = Close(a, p)
  PROVE  (b.ok => Low(b)) /\ Grows(a, b)
<1>1. PICK d : d = Pop_redundant_values(a, p)
  OBVIOUS
<1>2. LowGood(d, K) /\ Grows(a, d)
  <2>1. CASE Len(a.stk) < p.size
    <3>1. d = [a EXCEPT !.ok = FALSE]
      BY <2>1, <1>1 DEF Pop_redundant_values
    <3>2. IsAl(d) /\ d.ok = FALSE /\ d.stk = a.stk
      BY <3>1 DEF LowGood, AlGood, IsAl
    <3>3. Grows(a, d)
      BY ONLY <3>2 DEF Grows
    <3>4. AlGood(d, K)
      BY <3>2 DEF LowGood, AlGood
    <3> QED
      BY <3>2, <3>3, <3>4 DEF LowGood
  <2>2. CASE ~(Len(a.stk) < p.size)
    <3>1. Len(a.stk) \in Nat
      BY DEF LowGood, AlGood, IsSeq
    <3>2. PICK n \in Nat : n = Len(a.stk) - p.size
      BY <3>1, <2>2
    <3>3. PICK tys : tys = [k \in 1 .. n |-> Void]
      OBVIOUS
    <3>4. tys \in Seq({Void})
      BY <3>3
    <3>5. d = PopAll(a, tys)
      BY <1>1, <2>2, <3>2, <3>3 DEF Pop_redundant_values
    <3> QED
      BY <3>4, <3>5, LowPopAll DEF IsSeq
  <2> QED
    BY <2>1, <2>2
<1>3. b = Push_result_to_stack(d, p)
  BY <1>1 DEF Close
<1>4. CASE p.res = Void
  <2>1. b = d
    BY <1>3, <1>4 DEF Push_result_to_stack
  <2> QED
    BY ONLY <2>1, <1>2 DEF LowGood
<1>5. CASE p.res # Void
  <2>1. PICK e : e = Elem("TEMP", p.res, p.reg)
    OBVIOUS
  <2>2. LowElem(e)
    BY <2>1 DEF Elem, LowElem
  <2>3. b = [Push(d, e) EXCEPT !.ok = @ /\ p.reg # 0]
    BY <2>1, <1>3, <1>5 DEF Push_result_to_stack
  <2>4. IsAl(d) /\ IsSeq(d.stk) /\ AlGood(d, K)
    BY <1>2 DEF LowGood, AlGood
  <2>5. b.stk = Append(d.stk, e) /\ (b.ok => d.ok) /\ b.size = d.size /\ b.io = d.io
    BY <2>3, <2>4 DEF Push, IsAl
  <2>6. b.ok => Low(b)
    BY <2>2, <2>4, <2>5, <1>2, LowAppend DEF LowGood
  <2>7. Grows(d, b)
    BY <2>4, <2>5, GrowsSame
  <2> QED
    BY <2>6, <2>7, <1>2, GrowsOn
<1> QED
  BY <1>4, <1>5

-----------------------------------------------------------------------------
(* Register code.                                                          *)

\* Every register an instruction names was counted in its file.
Fenced(i, a) == \A k \in DOMAIN i.r : Counts(a, FileOf(i, k), i.r[k])

CodeFenced(c, a) == IsSeq(c) /\ \A j \in 1 .. Len(c) : Fenced(c[j], a)

\* Registers counted earlier.
LEMMA CodeOn ==
  ASSUME NEW a, NEW b, Grows(a, b), b.ok, NEW c, CodeFenced(c, a)
  PROVE  CodeFenced(c, b)
<1>1. ASSUME NEW j \in 1 .. Len(c) PROVE Fenced(c[j], b)
  <2>1. Fenced(c[j], a)
    BY <1>1 DEF CodeFenced
  <2>2. ASSUME NEW k \in DOMAIN c[j].r PROVE Counts(b, FileOf(c[j], k), c[j].r[k])
    <3>1. Counts(a, FileOf(c[j], k), c[j].r[k])
      BY <2>1, <2>2 DEF Fenced
    <3> QED
      BY ONLY <3>1, Grows(a, b), b.ok, CountsOn
  <2> QED
    BY ONLY <2>2 DEF Fenced
<1> QED
  BY <1>1 DEF CodeFenced

\* Two parts.
LEMMA FencedConcat ==
  ASSUME NEW a, NEW c, NEW d, CodeFenced(c, a), CodeFenced(d, a)
  PROVE  CodeFenced(c \o d, a)
<1>1. IsSeq(c) /\ IsSeq(d)
  BY DEF CodeFenced
<1>2. PICK m \in Nat : m = Len(c)
  BY <1>1, ConcatSeq
<1>3. PICK n \in Nat : n = Len(d)
  BY <1>1, ConcatSeq
<1>4. /\ IsSeq(c \o d) /\ Len(c \o d) = m + n
      /\ \A j \in 1 .. m : (c \o d)[j] = c[j]
      /\ \A j \in 1 .. m + n : j \notin 1 .. m => j - m \in 1 .. n /\ (c \o d)[j] = d[j - m]
  BY <1>1, <1>2, <1>3, ConcatSeq
<1>5. (\A j \in 1 .. m : Fenced(c[j], a)) /\ (\A j \in 1 .. n : Fenced(d[j], a))
  BY <1>2, <1>3 DEF CodeFenced
<1>6. \A j \in 1 .. m + n : Fenced((c \o d)[j], a)
  BY ONLY <1>4, <1>5
<1> QED
  BY ONLY <1>4, <1>6 DEF CodeFenced

\* No code, one instruction, and one more.
LEMMA FencedFew ==
  ASSUME NEW a
  PROVE  /\ CodeFenced(<< >>, a)
         /\ \A i : Fenced(i, a) => CodeFenced(<<i>>, a)
<1>1. << >> \in Seq({}) /\ \A j \in 1 .. Len(<< >>) : FALSE
  OBVIOUS
<1>2. CodeFenced(<< >>, a)
  BY ONLY <1>1 DEF CodeFenced, IsSeq
<1>3. ASSUME NEW i, Fenced(i, a) PROVE CodeFenced(<<i>>, a)
  <2>1. <<i>> \in Seq({i}) /\ Len(<<i>>) = 1 /\ <<i>>[1] = i /\ \A j \in 1 .. 1 : j = 1
    OBVIOUS
  <2> QED
    BY ONLY <2>1, <1>3 DEF CodeFenced, IsSeq
<1> QED
  BY ONLY <1>2, <1>3

\* Two to four instructions.
LEMMA FencedList ==
  ASSUME NEW a
  PROVE  /\ \A i, j : Fenced(i, a) /\ Fenced(j, a) => CodeFenced(<<i, j>>, a)
         /\ \A i, j, k : Fenced(i, a) /\ Fenced(j, a) /\ Fenced(k, a) => CodeFenced(<<i, j, k>>, a)
         /\ \A i, j, k, m : Fenced(i, a) /\ Fenced(j, a) /\ Fenced(k, a) /\ Fenced(m, a)
                              => CodeFenced(<<i, j, k, m>>, a)
<1>1. ASSUME NEW i, NEW j, Fenced(i, a), Fenced(j, a) PROVE CodeFenced(<<i, j>>, a)
  <2>1. /\ <<i, j>> \in Seq({i, j}) /\ Len(<<i, j>>) = 2 /\ <<i, j>>[1] = i /\ <<i, j>>[2] = j
        /\ \A n \in 1 .. 2 : n = 1 \/ n = 2
    OBVIOUS
  <2> QED
    BY ONLY <2>1, <1>1 DEF CodeFenced, IsSeq
<1>2. ASSUME NEW i, NEW j, NEW k, Fenced(i, a), Fenced(j, a), Fenced(k, a) PROVE CodeFenced(<<i, j, k>>, a)
  <2>1. /\ <<i, j, k>> \in Seq({i, j, k}) /\ Len(<<i, j, k>>) = 3
        /\ <<i, j, k>>[1] = i /\ <<i, j, k>>[2] = j /\ <<i, j, k>>[3] = k
        /\ \A n \in 1 .. 3 : n = 1 \/ n = 2 \/ n = 3
    OBVIOUS
  <2> QED
    BY ONLY <2>1, <1>2 DEF CodeFenced, IsSeq
<1>3. ASSUME NEW i, NEW j, NEW k, NEW m, Fenced(i, a), Fenced(j, a), Fenced(k, a), Fenced(m, a)
      PROVE  CodeFenced(<<i, j, k, m>>, a)
  <2>1. /\ <<i, j, k, m>> \in Seq({i, j, k, m}) /\ Len(<<i, j, k, m>>) = 4
        /\ <<i, j, k, m>>[1] = i /\ <<i, j, k, m>>[2] = j /\ <<i, j, k, m>>[3] = k /\ <<i, j, k, m>>[4] = m
        /\ \A n \in 1 .. 4 : n = 1 \/ n = 2 \/ n = 3 \/ n = 4
    OBVIOUS
  <2> QED
    BY ONLY <2>1, <1>3 DEF CodeFenced, IsSeq
<1> QED
  BY ONLY <1>1, <1>2, <1>3

\* One more instruction.
LEMMA FencedAppend ==
  ASSUME NEW a, NEW c, CodeFenced(c, a), NEW i, Fenced(i, a)
  PROVE  CodeFenced(Append(c, i), a)
<1>1. Append(c, i) = c \o <<i>>
  BY AppendIs DEF CodeFenced
<1>2. CodeFenced(<<i>>, a)
  BY FencedFew
<1> QED
  BY <1>1, <1>2, FencedConcat

\* By the number of registers.
LEMMA FencedRegs ==
  ASSUME NEW a, NEW i
  PROVE  /\ i.r = << >> => Fenced(i, a)
         /\ \A x : i.r = <<x>> /\ Counts(a, FileOf(i, 1), x) => Fenced(i, a)
         /\ \A x, y : i.r = <<x, y>> /\ Counts(a, FileOf(i, 1), x) /\ Counts(a, FileOf(i, 2), y) => Fenced(i, a)
         /\ \A x, y, z :
              /\ i.r = <<x, y, z>> /\ Counts(a, FileOf(i, 1), x) /\ Counts(a, FileOf(i, 2), y)
              /\ Counts(a, FileOf(i, 3), z)
              => Fenced(i, a)
<1>1. i.r = << >> => Fenced(i, a)
  <2>1. \A k \in DOMAIN << >> : FALSE
    OBVIOUS
  <2> QED
    BY ONLY <2>1 DEF Fenced
<1>2. ASSUME NEW x, i.r = <<x>>, Counts(a, FileOf(i, 1), x) PROVE Fenced(i, a)
  <2>1. <<x>>[1] = x /\ \A k \in DOMAIN <<x>> : k = 1
    OBVIOUS
  <2> QED
    BY ONLY <2>1, <1>2 DEF Fenced
<1>3. ASSUME NEW x, NEW y, i.r = <<x, y>>, Counts(a, FileOf(i, 1), x), Counts(a, FileOf(i, 2), y)
      PROVE  Fenced(i, a)
  <2>1. <<x, y>>[1] = x /\ <<x, y>>[2] = y /\ \A k \in DOMAIN <<x, y>> : k = 1 \/ k = 2
    OBVIOUS
  <2> QED
    BY ONLY <2>1, <1>3 DEF Fenced
<1>4. ASSUME NEW x, NEW y, NEW z, i.r = <<x, y, z>>, Counts(a, FileOf(i, 1), x), Counts(a, FileOf(i, 2), y),
             Counts(a, FileOf(i, 3), z)
      PROVE  Fenced(i, a)
  <2>1. /\ <<x, y, z>>[1] = x /\ <<x, y, z>>[2] = y /\ <<x, y, z>>[3] = z
        /\ \A k \in DOMAIN <<x, y, z>> : k = 1 \/ k = 2 \/ k = 3
    OBVIOUS
  <2> QED
    BY ONLY <2>1, <1>4 DEF Fenced
<1> QED
  BY ONLY <1>1, <1>2, <1>3, <1>4

\* Instructions whose registers are all in the file of their type.
LEMMA UinstFenced ==
  ASSUME NEW a, NEW op, op \notin {"Load", "Store", "Convert"}, NEW ty, NEW l, NEW n
  PROVE  /\ Fenced(Uinst(op, ty, << >>, l, n), a)
         /\ \A x : Counts(a, ty, x) => Fenced(Uinst(op, ty, <<x>>, l, n), a)
         /\ \A x, y : Counts(a, ty, x) /\ Counts(a, ty, y) => Fenced(Uinst(op, ty, <<x, y>>, l, n), a)
         /\ \A x, y, z : Counts(a, ty, x) /\ Counts(a, ty, y) /\ Counts(a, ty, z)
                          => Fenced(Uinst(op, ty, <<x, y, z>>, l, n), a)
<1>1. ASSUME NEW r PROVE Uinst(op, ty, r, l, n).r = r /\ \A k : FileOf(Uinst(op, ty, r, l, n), k) = ty
  <2>1. Uinst(op, ty, r, l, n).r = r /\ Uinst(op, ty, r, l, n).op = op /\ Uinst(op, ty, r, l, n).ty = ty
    BY DEF Uinst
  <2> QED
    BY ONLY <2>1, op \notin {"Load", "Store", "Convert"} DEF FileOf
<1>2. Fenced(Uinst(op, ty, << >>, l, n), a)
  BY ONLY <1>1, FencedRegs
<1>3. ASSUME NEW x, Counts(a, ty, x) PROVE Fenced(Uinst(op, ty, <<x>>, l, n), a)
  BY ONLY <1>1, <1>3, FencedRegs
<1>4. ASSUME NEW x, NEW y, Counts(a, ty, x), Counts(a, ty, y) PROVE Fenced(Uinst(op, ty, <<x, y>>, l, n), a)
  BY ONLY <1>1, <1>4, FencedRegs
<1>5. ASSUME NEW x, NEW y, NEW z, Counts(a, ty, x), Counts(a, ty, y), Counts(a, ty, z)
      PROVE  Fenced(Uinst(op, ty, <<x, y, z>>, l, n), a)
  BY ONLY <1>1, <1>5, FencedRegs
<1> QED
  BY ONLY <1>2, <1>3, <1>4, <1>5

\* The forms the converter writes most.
LEMMA FormsFenced ==
  ASSUME NEW a
  PROVE  /\ Fenced(Ret, a)
         /\ \A l : Fenced(Jmp(l), a)
         /\ \A l, x : Counts(a, "i32", x) => Fenced(Jcc("JEZ", x, l), a) /\ Fenced(Jcc("JNZ", x, l), a)
         /\ \A ty, x, y : Counts(a, ty, x) /\ Counts(a, ty, y) => Fenced(Mov(ty, x, y), a)
<1>1. \A l : Fenced(Jmp(l), a)
  BY UinstFenced DEF Jmp
<1>2. Fenced(Ret, a)
  BY UinstFenced DEF Ret
<1>3. \A l, x : Counts(a, "i32", x) => Fenced(Jcc("JEZ", x, l), a) /\ Fenced(Jcc("JNZ", x, l), a)
  BY UinstFenced DEF Jcc
<1>4. \A ty, x, y : Counts(a, ty, x) /\ Counts(a, ty, y) => Fenced(Mov(ty, x, y), a)
  BY UinstFenced DEF Mov
<1> QED
  BY ONLY <1>1, <1>2, <1>3, <1>4

\* Loads, stores and conversions, which name registers of two files.
LEMMA TwoFilesFenced ==
  ASSUME NEW a, NEW ty, NEW l, NEW n, NEW x, NEW y
  PROVE  /\ Counts(a, ty, x) /\ Counts(a, "i32", y) =>
              Fenced(Uinst("Load", ty, <<x, y>>, l, n), a) /\ Fenced(Uinst("Store", ty, <<x, y>>, l, n), a)
         /\ Counts(a, Other(ty), x) /\ Counts(a, ty, y) => Fenced(Uinst("Convert", ty, <<x, y>>, l, n), a)
<1>1. ASSUME NEW op PROVE /\ Uinst(op, ty, <<x, y>>, l, n).r = <<x, y>>
                          /\ Uinst(op, ty, <<x, y>>, l, n).op = op /\ Uinst(op, ty, <<x, y>>, l, n).ty = ty
  BY DEF Uinst
<1>2. ASSUME NEW op \in {"Load", "Store"}, NEW i, i = Uinst(op, ty, <<x, y>>, l, n)
      PROVE  FileOf(i, 1) = ty /\ FileOf(i, 2) = "i32" /\ i.r = <<x, y>>
  BY ONLY <1>1, <1>2 DEF FileOf
<1>3. ASSUME NEW i, i = Uinst("Convert", ty, <<x, y>>, l, n)
      PROVE  FileOf(i, 1) = Other(ty) /\ FileOf(i, 2) = ty /\ i.r = <<x, y>>
  BY ONLY <1>1, <1>3 DEF FileOf
<1>4. ASSUME Counts(a, ty, x), Counts(a, "i32", y), NEW op \in {"Load", "Store"}
      PROVE  Fenced(Uinst(op, ty, <<x, y>>, l, n), a)
  BY ONLY <1>2, <1>4, FencedRegs
<1>5. ASSUME Counts(a, Other(ty), x), Counts(a, ty, y) PROVE Fenced(Uinst("Convert", ty, <<x, y>>, l, n), a)
  BY ONLY <1>3, <1>5, FencedRegs
<1> QED
  BY ONLY <1>4, <1>5

\* Sequences of code one behind the other.
LEMMA FlatFenced ==
  ASSUME NEW a, NEW s, IsSeq(s), \A k \in 1 .. Len(s) : CodeFenced(s[k], a)
  PROVE  CodeFenced(FlattenSeq(s), a)
<1>1. PICK n \in Nat : n = Len(s)
  BY DEF IsSeq
<1>2. CASE n = 0
  <2>1. s = << >>
    BY <1>1, <1>2, EmptySeq DEF IsSeq
  <2>2. FlattenSeq(s) = << >>
    BY <2>1, <1>1, <1>2 DEF FlattenSeq
  <2> QED
    BY <2>2, FencedFew
<1>3. CASE n # 0
  <2>1. PICK f : f = CHOOSE z : FlatFcn(z, s, n)
    OBVIOUS
  <2>2. FlattenSeq(s) = f[n]
    BY <2>1, <1>1, <1>3 DEF FlattenSeq, FlatFcn
  <2>3. FlatFcn(f, s, n)
    BY <2>1, FlatExists
  <2>4. f = [i \in 1 .. n |-> IF i = 1 THEN s[i] ELSE f[i - 1] \o s[i]]
    BY <2>3 DEF FlatFcn
  <2> DEFINE T == {m \in 1 .. n : ~CodeFenced(f[m], a)}
  <2>5. T = {}
    <3> SUFFICES ASSUME T # {} PROVE FALSE
      OBVIOUS
    <3>1. T \subseteq Nat
      OBVIOUS
    <3>2. PICK m \in T : \A y \in T : m <= y
      BY <3>1, LeastNat
    <3>3. m \in 1 .. n /\ ~CodeFenced(f[m], a) /\ CodeFenced(s[m], a)
      BY <1>1
    <3>4. CASE m = 1
      <4>1. f[m] = s[m]
        BY ONLY <2>4, <3>3, <3>4
      <4> QED
        BY ONLY <4>1, <3>3
    <3>5. CASE m # 1
      <4>1. m - 1 \in 1 .. n /\ ~(m <= m - 1)
        BY <3>3, <3>5
      <4>2. CodeFenced(f[m - 1], a)
        BY <4>1, <3>2
      <4>3. f[m] = f[m - 1] \o s[m]
        BY ONLY <2>4, <3>3, <3>5
      <4> QED
        BY ONLY <4>2, <4>3, <3>3, FencedConcat
    <3> QED
      BY <3>4, <3>5
  <2>6. n \in 1 .. n
    BY <1>3
  <2> QED
    BY <2>2, <2>5, <2>6
<1> QED
  BY <1>2, <1>3

-----------------------------------------------------------------------------
(* The invariant.                                                          *)

\* The registers of the results of blocks.
RegsFenced(g, a) == \A k \in 1 .. Len(g) : g[k].res # Void => Counts(a, g[k].res, g[k].reg)

\* A call at p stands between the moves of its arguments and that of its
\* result, if it has one.
CallOK(c, p, a) ==
  /\ p \in Len(CalleeParams) + 1 .. Len(c)
  /\ c[p].k = 1 => p + 1 \in 1 .. Len(c) /\ c[p + 1].op = "MOV"
  /\ \A k \in 1 .. Len(CalleeParams) :
       /\ c[p - Len(CalleeParams) - 1 + k].op = "MOV"
       /\ c[p - Len(CalleeParams) - 1 + k].ty = CalleeParams[k]
  /\ \A ty \in Types : CountOf(ty) <= a.io[ty]

CallsOK(c, ps, a) == IsSeq(ps) /\ \A n \in 1 .. Len(ps) : CallOK(c, ps[n], a)

Window(c, g, ps, a) == Low(a) /\ CodeFenced(c, a) /\ RegsFenced(g, a) /\ CallsOK(c, ps, a)

WindowInv ==
  /\ phase \notin {"abort", "done"} => Window(code, graph, calls, al)
  /\ RegistersInWindow

\* The registers of results stay counted.
LEMMA RegsOn ==
  ASSUME NEW a, NEW b, Grows(a, b), b.ok, NEW g, RegsFenced(g, a)
  PROVE  RegsFenced(g, b)
<1>1. ASSUME NEW k \in 1 .. Len(g), g[k].res # Void PROVE Counts(b, g[k].res, g[k].reg)
  <2>1. PICK ty, r : ty = g[k].res /\ r = g[k].reg
    OBVIOUS
  <2>2. Counts(a, ty, r)
    BY ONLY <2>1, <1>1, RegsFenced(g, a) DEF RegsFenced
  <2>3. Counts(b, ty, r)
    BY ONLY <2>2, Grows(a, b), b.ok, CountsOn
  <2> QED
    BY ONLY <2>1, <2>3
<1> QED
  BY ONLY <1>1 DEF RegsFenced

\* Calls stay where they are when code is added.
LEMMA CallOn ==
  ASSUME NEW a, NEW b, Grows(a, b), b.ok, NEW c, IsSeq(c), NEW d, IsSeq(d), NEW p, CallOK(c, p, a)
  PROVE  CallOK(c \o d, p, b)
<1>1. PICK m \in Nat : m = Len(c)
  BY DEF IsSeq
<1>2. PICK l \in Nat : l = Len(CalleeParams)
  BY WasmAssumption
<1>3. PICK n \in Nat : n = Len(d)
  BY DEF IsSeq
<1>4. Len(c \o d) = m + n /\ \A j \in 1 .. m : (c \o d)[j] = c[j]
  BY ONLY <1>1, <1>3, IsSeq(c), IsSeq(d), ConcatSeq
<1>5. /\ p \in l + 1 .. m /\ (c[p].k = 1 => p + 1 \in 1 .. m /\ c[p + 1].op = "MOV")
      /\ \A k \in 1 .. l : c[p - l - 1 + k].op = "MOV" /\ c[p - l - 1 + k].ty = CalleeParams[k]
      /\ \A ty \in Types : CountOf(ty) <= a.io[ty]
  BY ONLY <1>1, <1>2, CallOK(c, p, a) DEF CallOK
<1>6. /\ p \in l + 1 .. m + n /\ p \in 1 .. m /\ (p + 1 \in 1 .. m => p + 1 \in 1 .. m + n)
      /\ \A k \in 1 .. l : p - l - 1 + k \in 1 .. m
  BY ONLY <1>5, m \in Nat, l \in Nat, n \in Nat
<1>7. /\ (c \o d)[p].k = 1 => p + 1 \in 1 .. m + n /\ (c \o d)[p + 1].op = "MOV"
      /\ \A k \in 1 .. l : (c \o d)[p - l - 1 + k].op = "MOV" /\ (c \o d)[p - l - 1 + k].ty = CalleeParams[k]
  BY ONLY <1>4, <1>5, <1>6
<1>8. \A ty \in Types : CountOf(ty) <= b.io[ty]
  <2>1. ASSUME NEW ty \in Types PROVE CountOf(ty) \in Nat
    <3>1. PICK S : S = {k \in 1 .. l : CalleeParams[k] = ty}
      OBVIOUS
    <3>2. S \subseteq 1 .. l
      BY ONLY <3>1
    <3>3. IsFiniteSet(1 .. l)
      BY FS_Interval
    <3>4. Cardinality(S) \in Nat
      BY ONLY <3>2, <3>3, FS_Subset, FS_CardinalityType
    <3>5. DOMAIN CalleeParams = 1 .. l
      BY <1>2, WasmAssumption
    <3>6. CountOf(ty) = Cardinality(S)
      BY ONLY <3>1, <3>5 DEF CountOf
    <3> QED
      BY ONLY <3>4, <3>6
  <2>2. SizesTyped(a) /\ SizesTyped(b) /\ \A ty \in Types : a.io[ty] <= b.io[ty]
    BY ONLY Grows(a, b), b.ok DEF Grows
  <2>3. \A ty \in Types : a.io[ty] \in Nat /\ b.io[ty] \in Nat
    BY ONLY <2>2 DEF SizesTyped
  <2> QED
    BY ONLY <2>1, <2>2, <2>3, <1>5
<1> QED
  BY ONLY <1>2, <1>4, <1>6, <1>7, <1>8 DEF CallOK

\* What a turn emits, x before and a behind it.
Emits(x, a, c) == Grows(x, a) /\ (a.ok => Low(a) /\ CodeFenced(c, a))

\* A turn of the loop.
LEMMA TurnWindow ==
  ASSUME ConvInv, WindowInv, phase = "convert", NEW a, NEW c, Turn(a, c), Emits(al, a, c),
         a.ok => RegsFenced(graph', a), a.ok /\ CodeFenced(c, a) => CallsOK(code \o c, calls', a)
  PROVE  WindowInv'
<1>1. al' = a /\ code' = code \o c /\ phase' = IF ~a.ok THEN "abort" ELSE IF at = Len(ins) THEN "fixup" ELSE "convert"
  BY DEF Turn
<1>2. phase' # "done"
  BY ONLY <1>1
<1>3. RegistersInWindow'
  BY <1>2 DEF RegistersInWindow
<1>4. ASSUME phase' \notin {"abort", "done"} PROVE Window(code', graph', calls', al')
  <2>1. a.ok
    BY ONLY <1>1, <1>4
  <2>2. CodeFenced(code, al) /\ Grows(al, a) /\ CodeFenced(c, a) /\ Low(a)
    BY <2>1 DEF WindowInv, Window, Emits
  <2>3. CodeFenced(code, a)
    BY ONLY <2>1, <2>2, CodeOn
  <2>4. CodeFenced(code \o c, a)
    BY ONLY <2>2, <2>3, FencedConcat
  <2>5. RegsFenced(graph', a) /\ CallsOK(code \o c, calls', a)
    BY <2>1, <2>2
  <2>6. PICK g, ps, d : g = graph' /\ ps = calls' /\ d = code \o c
    OBVIOUS
  <2>7. Window(d, g, ps, a)
    BY ONLY <2>2, <2>4, <2>5, <2>6 DEF Window
  <2> QED
    BY ONLY <2>6, <2>7, <1>1
<1> QED
  BY <1>3, <1>4 DEF WindowInv

\* A turn without a call that does not open a block.
LEMMA QuietWindow ==
  ASSUME ConvInv, WindowInv, phase = "convert", NEW a, NEW c, Turn(a, c), Emits(al, a, c), UNCHANGED <<graph, calls>>
  PROVE  WindowInv'
<1>1. RegsFenced(graph, al) /\ CallsOK(code, calls, al) /\ CodeFenced(code, al) /\ Grows(al, a)
  BY DEF WindowInv, Window, Emits
<1>2. a.ok => RegsFenced(graph', a)
  BY <1>1, RegsOn
<1>3. ASSUME a.ok, CodeFenced(c, a) PROVE CallsOK(code \o c, calls', a)
  <2>1. IsSeq(code) /\ IsSeq(c)
    BY <1>1, <1>3 DEF CodeFenced
  <2>2. IsSeq(calls) /\ \A n \in 1 .. Len(calls) : CallOK(code, calls[n], al)
    BY <1>1 DEF CallsOK
  <2>3. ASSUME NEW n \in 1 .. Len(calls) PROVE CallOK(code \o c, calls[n], a)
    <3>1. CallOK(code, calls[n], al)
      BY ONLY <2>2, <2>3
    <3> QED
      BY ONLY <3>1, <2>1, <1>1, <1>3, CallOn
  <2>4. CallsOK(code \o c, calls, a)
    BY ONLY <2>2, <2>3 DEF CallsOK
  <2> QED
    BY <2>4
<1> QED
  BY <1>2, <1>3, TurnWindow

\* The locals are set to 0 before anything is converted.
LEMMA InitWindow == Init => WindowInv
<1> SUFFICES ASSUME Init PROVE WindowInv
  OBVIOUS
<1>1. /\ phase = "read" /\ graph = << >> /\ al = Create_ubh_code /\ code = Init_locals /\ calls = << >>
  BY DEF Init
<1>2. PICK a : a = Create_ubh_code /\ AlGood(a, {}) /\ a.ok
  BY CreateGood
<1>3. Low(a)
  <2>1. a.stk = << >>
    BY ONLY <1>2 DEF Create_ubh_code
  <2>2. \A k \in 1 .. Len(<< >>) : FALSE
    OBVIOUS
  <2> QED
    BY ONLY <2>1, <2>2 DEF Low
<1>4. CodeFenced(Init_locals, a)
  <2>1. PICK n \in Nat : n = Len(Vars) - NumParams
    BY WasmAssumption
  <2>2. PICK c : c = Init_locals
    OBVIOUS
  <2>3. c = [k \in 1 .. n |-> Uinst("CONST", Vars[NumParams + k], <<LocalReg(NumParams + k)>>, NoLabel, 0)]
    BY ONLY <2>1, <2>2 DEF Init_locals
  <2>4. ASSUME NEW k \in 1 .. n PROVE Fenced(c[k], a)
    <3>1. PICK x : x = NumParams + k
      OBVIOUS
    <3>2. x \in DOMAIN Vars
      BY <3>1, <2>1, <2>4, WasmAssumption
    <3>3. Vars[x] \in Types /\ LocalReg(x) \in Nat /\ LocalReg(x) <= Base(Vars[x])
      BY ONLY <3>2, LocalBelow
    <3>4. Counts(a, Vars[x], LocalReg(x))
      BY ONLY <3>3, <1>2, LocalCounts
    <3>5. Fenced(Uinst("CONST", Vars[x], <<LocalReg(x)>>, NoLabel, 0), a)
      <4>1. "CONST" \notin {"Load", "Store", "Convert"}
        OBVIOUS
      <4> QED
        BY ONLY <4>1, <3>4, UinstFenced
    <3>6. c[k] = Uinst("CONST", Vars[x], <<LocalReg(x)>>, NoLabel, 0)
      BY ONLY <3>1, <2>3, <2>4
    <3> QED
      BY ONLY <3>5, <3>6
  <2>5. c = [k \in 1 .. n |-> c[k]]
    BY ONLY <2>3
  <2>6. [k \in 1 .. n |-> c[k]] \in Seq({c[k] : k \in 1 .. n}) /\ Len([k \in 1 .. n |-> c[k]]) = n
    OBVIOUS
  <2> QED
    BY ONLY <2>2, <2>4, <2>5, <2>6 DEF CodeFenced, IsSeq
<1>5. RegsFenced(<< >>, a) /\ CallsOK(Init_locals, << >>, a)
  <2>1. << >> \in Seq({}) /\ \A k \in 1 .. Len(<< >>) : FALSE
    OBVIOUS
  <2> QED
    BY ONLY <2>1 DEF RegsFenced, CallsOK, IsSeq
<1>6. Window(code, graph, calls, al)
  BY ONLY <1>1, <1>2, <1>3, <1>4, <1>5 DEF Window
<1> QED
  BY <1>1, <1>6 DEF WindowInv, RegistersInWindow

\* A statement that is read has no register yet.
LEMMA HierarchyRegs ==
  ASSUME NEW g, NEW w, NEW i, NEW h, NEW x, Hierarchy(g, w, i, h, x), GraphOK(g), WorkOK(w, g),
         WellFormed(i), i.op = "Else" => Len(w) # 1, NEW n, n = Len(g)
  PROVE  h[n + 1].reg = 0 /\ \A k \in 1 .. n : h[k].reg = g[k].reg
<1>1. n \in Nat /\ g \in Seq(Stmts)
  BY DEF GraphOK
<1>2. PICK l \in 0 .. n : l = Last(w) /\ (Len(w) # 1 => Unended(g, l)) /\ l \in Nat
  <2>1. Last(w) \in 0 .. n /\ (Len(w) # 1 => Unended(g, Last(w)))
    BY <1>1, WorkLast
  <2>2. \A y \in 0 .. n : y \in Nat
    BY <1>1
  <2> QED
    BY ONLY <2>1, <2>2
<1>3. CASE i.op # "Else"
  <2>1. PICK s : s = Stmt(i, l) /\ s \in Stmts
    BY <1>2, StmtGood
  <2>2. h = Append(g, s)
    BY <2>1, <1>2, <1>3 DEF Hierarchy, Opens
  <2>3. s.reg = 0
    BY ONLY <2>1 DEF Stmt
  <2>4. h[n + 1] = s /\ \A k \in 1 .. n : h[k] = g[k]
    BY <1>1, <2>1, <2>2, AppendProperties
  <2> QED
    BY ONLY <2>3, <2>4
<1>4. CASE i.op = "Else"
  <2>1. PICK s : /\ s = [Stmt(i, g[l].parent) EXCEPT !.els = l, !.res = g[l].res]
                 /\ h = Append([g EXCEPT ![l].els = Len(g) + 1], s) /\ g[l].op = "If"
    BY <1>2, <1>4 DEF Hierarchy, Opens
  <2>2. l \in 1 .. n /\ g[l] \in Stmts
    BY <1>1, <1>2, <1>4, StmtFields DEF Unended
  <2>3. s.reg = 0
    BY ONLY <2>1 DEF Stmt
  <2>4. PICK d : d = [g[l] EXCEPT !.els = n + 1]
    OBVIOUS
  <2>5. d.reg = g[l].reg
    BY ONLY <2>2, <2>4 DEF Stmts
  <2>6. PICK e : e = [g EXCEPT ![l].els = Len(g) + 1]
    OBVIOUS
  <2>7. e = [g EXCEPT ![l] = d]
    BY <2>4, <2>6, <1>1
  <2>8. DOMAIN g = 1 .. n
    BY <1>1
  <2>9. e = [k \in 1 .. n |-> IF k = l THEN d ELSE g[k]]
    BY ONLY <2>7, <2>8
  <2>10. IsSeq(e) /\ Len(e) = n
    <3>1. e = [k \in 1 .. n |-> e[k]]
      BY ONLY <2>9
    <3>2. [k \in 1 .. n |-> e[k]] \in Seq({e[k] : k \in 1 .. n}) /\ Len([k \in 1 .. n |-> e[k]]) = n
      BY ONLY <1>1
    <3> QED
      BY ONLY <3>1, <3>2 DEF IsSeq
  <2>11. (\A k \in 1 .. n : h[k] = e[k]) /\ h[n + 1] = s
    <3>1. PICK q : q = <<s>> /\ IsSeq(q) /\ Len(q) = 1 /\ q[1] = s
      <4>1. <<s>> \in Seq({s}) /\ Len(<<s>>) = 1 /\ <<s>>[1] = s
        OBVIOUS
      <4> QED
        BY ONLY <4>1 DEF IsSeq
    <3>2. h = e \o q
      BY <3>1, <2>1, <2>6, <2>10, AppendIs
    <3>3. \A k \in 1 .. Len(e) : (e \o q)[k] = e[k]
      BY ONLY <3>1, <2>10, ConcatSeq
    <3>4. \A k \in 1 .. Len(q) : (e \o q)[Len(e) + k] = q[k]
      BY ONLY <3>1, <2>10, ConcatSeq
    <3>5. 1 \in 1 .. Len(q)
      BY <3>1
    <3> QED
      BY ONLY <3>1, <3>2, <3>3, <3>4, <3>5, <2>10
  <2> QED
    BY ONLY <2>3, <2>5, <2>9, <2>11
<1> QED
  BY <1>3, <1>4

\* An instruction is read.
LEMMA ReadWindow ==
  ASSUME ConvInv, ConvInv', WindowInv, NEW i \in alphabet.insts, Build_block_hierarchy(i)
  PROVE  WindowInv'
<1>1. /\ phase = "read" /\ ins' = Append(ins, i) /\ UNCHANGED <<al, code, calls>>
      /\ phase' \in {"convert", "read"} /\ IsValid(valid, i, fres)
  BY DEF Build_block_hierarchy
<1>2. /\ alphabet \in Alphabets /\ Len(graph) = Len(ins) /\ GraphOK(graph)
      /\ WorkOK(work, graph) /\ IsSeq(valid.ctl) /\ Len(work) = Len(valid.ctl) + 1
  BY <1>1 DEF ConvInv, InputInv, GraphInv, WorkInv
<1>3. PICK g, w, h, x, n : g = graph /\ w = work /\ h = graph' /\ x = work' /\ n = Len(g)
  OBVIOUS
<1>4. WellFormed(i)
  BY <1>2, ConverterAssumption
<1>5. i.op = "Else" => Len(w) # 1
  <2>1. i.op = "Else" => valid.ctl # << >>
    BY <1>1 DEF IsValid
  <2>2. PICK S : valid.ctl \in Seq(S)
    BY <1>2 DEF IsSeq
  <2>3. valid.ctl # << >> => Len(valid.ctl) \in Nat \ {0}
    BY <2>2, EmptySeq
  <2>4. Len(w) = Len(valid.ctl) + 1
    BY ONLY <1>2, <1>3
  <2> QED
    BY ONLY <2>1, <2>3, <2>4
<1>6. Hierarchy(g, w, i, h, x)
  <2> SUFFICES Hierarchy(graph, work, i, graph', work')
    BY <1>3
  <2>1. Len(ins) + 1 = Len(graph) + 1
    BY <1>2
  <2>2. CASE Opens(i)
    <3>1. Create_new_block(i)
      BY <2>2 DEF Build_block_hierarchy, Opens
    <3> QED
      BY <3>1, <2>1, <2>2 DEF Hierarchy, Create_new_block, Opens
  <2>3. CASE i.op = "Else"
    <3>1. Else_block(i) /\ ~Opens(i)
      BY <2>3 DEF Build_block_hierarchy, Opens
    <3> QED
      BY <3>1, <2>1, <2>3 DEF Hierarchy, Else_block
  <2>4. CASE i.op # "Else" /\ ~Opens(i)
    BY <2>4 DEF Build_block_hierarchy, Hierarchy
  <2> QED
    BY <2>2, <2>3, <2>4
<1>7. GraphOK(g) /\ WorkOK(w, g)
  BY ONLY <1>2, <1>3
<1>8. Agree(g, h, n)
  BY ONLY <1>3, <1>4, <1>5, <1>6, <1>7, HierarchyIs
<1>9. h[n + 1].reg = 0 /\ \A k \in 1 .. n : h[k].reg = g[k].reg
  BY ONLY <1>3, <1>4, <1>5, <1>6, <1>7, HierarchyRegs
<1>10. GraphOK(h) /\ Len(h) = n + 1 /\ n \in Nat
  <2>1. GraphOK(h)
    BY <1>1, <1>3 DEF ConvInv, GraphInv
  <2>2. Len(h) = Len(ins') /\ Len(ins') = Len(ins) + 1 /\ Len(ins) \in Nat
    <3>1. Len(graph') = Len(ins')
      BY DEF ConvInv, InputInv
    <3>2. ins \in Seq(alphabet.insts)
      BY DEF ConvInv, InputInv
    <3> QED
      BY <3>1, <3>2, <1>1, <1>3
  <2> QED
    BY ONLY <2>1, <2>2, <1>2, <1>3
<1>11. PICK a : a = al /\ a.ok /\ AlGood(a, KeptAt(graph, at))
  BY <1>1 DEF ConvInv, AllocInv
<1>12. Window(code, g, calls, a)
  BY <1>1, <1>3, <1>11 DEF WindowInv
<1>13. RegsFenced(h, a)
  <2>1. RegsFenced(g, a)
    BY ONLY <1>12 DEF Window
  <2>2. ASSUME NEW k \in 1 .. n + 1, h[k].res # Void PROVE Counts(a, h[k].res, h[k].reg)
    <3>1. CASE k \in 1 .. n
      <4>1. h[k].res = g[k].res /\ h[k].reg = g[k].reg
        BY ONLY <3>1, <1>8, <1>9 DEF Agree
      <4>2. k \in 1 .. Len(g)
        BY ONLY <3>1, <1>3
      <4>3. Counts(a, g[k].res, g[k].reg)
        BY ONLY <2>1, <4>1, <4>2, <2>2 DEF RegsFenced
      <4> QED
        BY ONLY <4>1, <4>3
    <3>2. CASE k \notin 1 .. n
      <4>1. k = n + 1
        BY ONLY <3>2, <2>2, <1>10
      <4>2. h[k].res \in Types \cup {Void}
        BY <1>10, <2>2, StmtFields DEF GraphOK
      <4>3. h[k].res \in Types
        BY ONLY <4>2, <2>2
      <4>4. Counts(a, h[k].res, 0)
        BY ONLY <4>3, <1>11, CountsNext
      <4> QED
        BY ONLY <4>1, <4>4, <1>9
    <3> QED
      BY ONLY <3>1, <3>2
  <2> QED
    BY ONLY <2>2, <1>10 DEF RegsFenced
<1>14. Window(code, h, calls, a)
  BY ONLY <1>12, <1>13 DEF Window
<1>15. Window(code', graph', calls', al')
  BY <1>1, <1>3, <1>11, <1>14
<1> QED
  BY <1>1, <1>15 DEF WindowInv, RegistersInWindow

-----------------------------------------------------------------------------
(* The instructions.                                                       *)

\* The allocator a turn starts with.
LEMMA StartLow ==
  ASSUME ConvInv, WindowInv, phase = "convert", NEW K, K = KeptAt(graph, at), NEW x, x = al
  PROVE  LowGood(x, K) /\ x.ok /\ Grows(x, x) /\ RegsFenced(graph, x)
<1>1. AlGood(x, K) /\ x.ok
  BY TurnStart
<1>2. Low(x) /\ RegsFenced(graph, x)
  BY DEF WindowInv, Window
<1>3. Grows(x, x)
  BY ONLY <1>1, GrowsSame
<1> QED
  BY ONLY <1>1, <1>2, <1>3 DEF LowGood

\* Mov_checked and InFunction only assert.
LEMMA ChecksLow ==
  ASSUME NEW z, NEW K, LowGood(z, K)
  PROVE  /\ \A t : LowGood(Mov_checked(z, t), K) /\ Grows(z, Mov_checked(z, t))
         /\ LowGood(InFunction(z), K) /\ Grows(z, InFunction(z))
         /\ InFunction(z).ok => \A d \in Range(Cur.n) : Get_parent_stmt_for_branch(d) # 0
<1>1. ASSUME NEW t PROVE LowGood(Mov_checked(z, t), K) /\ Grows(z, Mov_checked(z, t))
  <2>1. PICK P : P = (t = 0 \/ graph[t].res = Void \/ z.stk = << >> \/ Last(z.stk).ty = graph[t].res)
    OBVIOUS
  <2>2. PICK b : b = [z EXCEPT !.ok = @ /\ P]
    OBVIOUS
  <2>3. LowGood(b, K) /\ Grows(z, b)
    BY ONLY <2>2, LowGood(z, K), LowCheck
  <2>4. b = Mov_checked(z, t)
    BY <2>1, <2>2 DEF Mov_checked
  <2> QED
    BY ONLY <2>3, <2>4
<1>2. PICK P : P = (\A d \in Range(Cur.n) : Get_parent_stmt_for_branch(d) # 0)
  OBVIOUS
<1>3. PICK b : b = [z EXCEPT !.ok = @ /\ P]
  OBVIOUS
<1>4. LowGood(b, K) /\ Grows(z, b) /\ (b.ok => P)
  BY ONLY <1>3, LowGood(z, K), LowCheck
<1>5. b = InFunction(z)
  BY <1>2, <1>3 DEF InFunction
<1>6. b.ok => \A d \in Range(Cur.n) : Get_parent_stmt_for_branch(d) # 0
  BY ONLY <1>2, <1>4
<1> QED
  BY ONLY <1>1, <1>4, <1>5, <1>6

\* The value for a block goes from a register of its type to that of the result.
LEMMA MovFenced ==
  ASSUME NEW t \in 1 .. Len(graph), NEW x, RegsFenced(graph, x), NEW z, NEW K, LowGood(z, K), Grows(x, z),
         Mov_checked(z, t).ok
  PROVE  z.ok /\ CodeFenced(Add_mov_for_break(z, t), z)
<1>1. PICK ty, r : ty = graph[t].res /\ r = graph[t].reg
  OBVIOUS
<1>0. t # 0
  OBVIOUS
<1>2. z.ok /\ (ty = Void \/ z.stk = << >> \/ Last(z.stk).ty = ty)
  BY <1>0, <1>1 DEF Mov_checked, LowGood, AlGood, IsAl
<1>3. CASE ty = Void \/ z.stk = << >>
  <2>1. Add_mov_for_break(z, t) = << >>
    BY ONLY <1>1, <1>3 DEF Add_mov_for_break
  <2> QED
    BY ONLY <2>1, <1>2, FencedFew
<1>4. CASE ty # Void /\ z.stk # << >>
  <2>1. Add_mov_for_break(z, t) = <<Mov(ty, r, Last(z.stk).idx)>>
    BY ONLY <1>0, <1>1, <1>4 DEF Add_mov_for_break
  <2>2. RegsFenced(graph, z)
    BY ONLY <1>2, RegsFenced(graph, x), Grows(x, z), RegsOn
  <2>3. Counts(z, ty, r)
    BY ONLY <2>2, <1>1, <1>4, t \in 1 .. Len(graph) DEF RegsFenced
  <2>4. z.stk \in Seq(Elems)
    BY ONLY <1>2, LowGood(z, K), GoodSizes DEF LowGood
  <2>5. Len(z.stk) \in Nat \ {0} /\ Last(z.stk) = z.stk[Len(z.stk)]
    BY <2>4, <1>4, FrontOf
  <2>6. PICK n : n = Len(z.stk) /\ n \in 1 .. Len(z.stk)
    BY ONLY <2>5
  <2>7. Counts(z, z.stk[n].ty, z.stk[n].idx)
    BY ONLY <2>6, <1>2, LowGood(z, K), CountsElem
  <2>8. Counts(z, ty, Last(z.stk).idx)
    BY ONLY <2>5, <2>6, <2>7, <1>2, <1>4
  <2>9. Fenced(Mov(ty, r, Last(z.stk).idx), z)
    BY ONLY <2>3, <2>8, FormsFenced
  <2> QED
    BY ONLY <2>1, <2>9, <1>2, FencedFew
<1> QED
  BY ONLY <1>3, <1>4

\* Else, and branches to one block.
LEMMA BranchWindow ==
  ASSUME ConvInv, WindowInv, Conv_else \/ Conv_br \/ Conv_br_if
  PROVE  WindowInv'
<1>1. phase = "convert" /\ UNCHANGED <<graph, calls>>
  BY DEF Conv_else, Conv_br, Conv_br_if, Converting, Quiet
<1>2. PICK K, x, g : K = KeptAt(graph, at) /\ x = al /\ g = graph
  OBVIOUS
<1>3. LowGood(x, K) /\ x.ok /\ Grows(x, x) /\ RegsFenced(graph, x)
  BY <1>1, <1>2, StartLow
<1>4. GraphOK(g) /\ at \in 1 .. Len(g) /\ WellFormed(Cur)
  BY <1>1, <1>2, TurnStart
<1>5. ASSUME NEW z, LowGood(z, K), Grows(x, z), NEW t, NEW i, z.ok => Fenced(i, z), NEW b, b = Mov_checked(z, t),
             NEW a, LowGood(a, K), Grows(b, a), a.ok => t \in 1 .. Len(graph), NEW c, c = Append(Add_mov_for_break(z, t), i)
      PROVE  Emits(x, a, c)
  <2>1. Grows(z, b)
    BY ONLY <1>5, ChecksLow
  <2>2. Grows(z, a)
    BY ONLY <2>1, <1>5, GrowsOn
  <2>3. Grows(x, a)
    BY ONLY <2>2, <1>5, GrowsOn
  <2>4. ASSUME a.ok PROVE CodeFenced(c, a)
    <3>1. b.ok
      BY ONLY <2>4, <1>5 DEF Grows
    <3>2. z.ok /\ CodeFenced(Add_mov_for_break(z, t), z)
      BY ONLY <3>1, <2>4, <1>5, <1>3, MovFenced
    <3>3. CodeFenced(c, z)
      BY ONLY <3>2, <1>5, FencedAppend
    <3> QED
      BY ONLY <3>3, <2>2, <2>4, CodeOn
  <2> QED
    BY ONLY <2>3, <2>4, <1>5 DEF Emits, LowGood
<1>6. CASE Conv_else
  <2>1. PICK t, i, b, c : /\ t = at /\ i = Jmp(<<"end", at>>) /\ b = Mov_checked(x, t)
                          /\ c = Append(Add_mov_for_break(x, t), i)
    OBVIOUS
  <2>2. Turn(b, c)
    BY <1>6, <2>1, <1>2 DEF Conv_else
  <2>3. LowGood(b, K) /\ Fenced(i, x)
    BY ONLY <2>1, <1>3, ChecksLow, FormsFenced
  <2>4. Grows(b, b)
    BY ONLY <2>3, GrowsSame DEF LowGood
  <2>5. t \in 1 .. Len(graph)
    BY ONLY <2>1, <1>2, <1>4
  <2>6. Emits(x, b, c)
    BY ONLY <2>1, <2>3, <2>4, <2>5, <1>3, <1>5
  <2> QED
    BY <2>2, <2>6, <1>1, <1>2, QuietWindow
<1>7. CASE Conv_br \/ Conv_br_if
  <2>1. Cur.n \in Seq(Nat) /\ Cur.n # << >>
    BY <1>4, <1>7 DEF WellFormed, Conv_br, Conv_br_if, Converting
  <2>2. PICK d \in Nat : d = Cur.n[1] /\ d \in Range(Cur.n)
    <3>1. 1 \in 1 .. Len(Cur.n) /\ DOMAIN Cur.n = 1 .. Len(Cur.n)
      BY <2>1, EmptySeq
    <3>2. Cur.n[1] \in Nat
      BY <2>1, <3>1, ElementOfSeq
    <3>3. Cur.n[1] \in Range(Cur.n)
      BY <3>1 DEF Range
    <3> QED
      BY ONLY <3>2, <3>3
  <2>3. PICK t, l : t = Get_parent_stmt_for_branch(d) /\ l = Get_label_id_for_jump(d)
    OBVIOUS
  <2>4. t \in 0 .. Len(g) /\ Len(g) \in Nat
    <3>1. PICK o : o = at /\ o \in 1 .. Len(g)
      BY ONLY <1>4
    <3>2. t \in 0 .. Len(g)
      BY ONLY <3>1, <2>2, <2>3, <1>2, <1>4, BranchTarget
    <3>3. Len(g) \in Nat
      BY ONLY <1>4 DEF GraphOK
    <3> QED
      BY ONLY <3>2, <3>3
  <2>5. ASSUME NEW b, LowGood(b, K), InFunction(b).ok PROVE t \in 1 .. Len(graph)
    <3>1. t # 0
      BY ONLY <2>2, <2>3, <2>5, ChecksLow
    <3> QED
      BY ONLY <3>1, <2>4, <1>2
  <2>6. CASE Conv_br
    <3>1. PICK i, b, c : i = Jmp(l) /\ b = Mov_checked(x, t) /\ c = Append(Add_mov_for_break(x, t), i)
      OBVIOUS
    <3>2. PICK a : a = InFunction(b)
      OBVIOUS
    <3>3. Turn(a, c)
      BY <2>6, <2>2, <2>3, <3>1, <3>2, <1>2 DEF Conv_br
    <3>4. LowGood(b, K) /\ Fenced(i, x)
      BY ONLY <3>1, <1>3, ChecksLow, FormsFenced
    <3>5. LowGood(a, K) /\ Grows(b, a)
      BY ONLY <3>2, <3>4, ChecksLow
    <3>6. a.ok => t \in 1 .. Len(graph)
      BY ONLY <3>2, <3>4, <2>5
    <3>7. Emits(x, a, c)
      BY ONLY <3>1, <3>4, <3>5, <3>6, <1>3, <1>5
    <3> QED
      BY <3>3, <3>7, <1>1, <1>2, QuietWindow
  <2>7. CASE Conv_br_if
    <3>1. PICK z, e : z = Pop_wasm_stk(x, "i32") /\ e = Top(x, "i32")
      OBVIOUS
    <3>2. PICK i, b, c : i = Jcc("JNZ", e.idx, l) /\ b = Mov_checked(z, t) /\ c = Append(Add_mov_for_break(z, t), i)
      OBVIOUS
    <3>3. PICK a : a = InFunction(b)
      OBVIOUS
    <3>4. Turn(a, c)
      BY <2>7, <2>2, <2>3, <3>1, <3>2, <3>3, <1>2 DEF Conv_br_if
    <3>5. LowGood(z, K) /\ Grows(x, z)
      BY ONLY <3>1, <1>3, LowPop
    <3>6. ASSUME z.ok PROVE Fenced(i, z)
      <4>1. "i32" \in Types \cup {Void} /\ "i32" # Void
        BY DEF Types, Void
      <4>2. Counts(x, "i32", e.idx)
        BY ONLY <4>1, <3>1, <3>6, <1>3, CountsTop
      <4>3. Counts(z, "i32", e.idx)
        BY ONLY <4>2, <3>5, <3>6, CountsOn
      <4> QED
        BY ONLY <4>3, <3>2, FormsFenced
    <3>7. LowGood(b, K)
      BY ONLY <3>2, <3>5, ChecksLow
    <3>8. LowGood(a, K) /\ Grows(b, a)
      BY ONLY <3>3, <3>7, ChecksLow
    <3>9. a.ok => t \in 1 .. Len(graph)
      BY ONLY <3>3, <3>7, <2>5
    <3>10. Emits(x, a, c)
      BY ONLY <3>2, <3>5, <3>6, <3>8, <3>9, <1>5
    <3> QED
      BY <3>4, <3>10, <1>1, <1>2, QuietWindow
  <2> QED
    BY ONLY <2>6, <2>7, <1>7
<1> QED
  BY <1>6, <1>7

\* A table of branches: a test and a decrement for every entry.
LEMMA TableWindow ==
  ASSUME ConvInv, WindowInv, Conv_br_table
  PROVE  WindowInv'
<1>1. phase = "convert" /\ UNCHANGED <<graph, calls>> /\ Cur.op = "BrTable"
  BY DEF Conv_br_table, Converting, Quiet
<1>2. PICK K, x, g, C : K = KeptAt(graph, at) /\ x = al /\ g = graph /\ C = at
  OBVIOUS
<1>3. LowGood(x, K) /\ x.ok /\ Grows(x, x) /\ RegsFenced(graph, x)
  BY <1>1, <1>2, StartLow
<1>4. GraphOK(g) /\ C \in 1 .. Len(g) /\ C \in Nat /\ WellFormed(Cur)
  BY <1>1, <1>2, TurnStart
<1>5. PICK w : w = Cur.n /\ w \in Seq(Nat) /\ w # << >>
  BY <1>1, <1>4 DEF WellFormed
<1>6. PICK n \in Nat \ {0} : n = Len(w)
  BY <1>5, EmptySeq
<1>7. PICK tmp, b, ts : /\ tmp = Scratch(x) /\ b = WithScratch(x)
                        /\ ts = {Get_parent_stmt_for_branch(d) : d \in Range(w)}
  OBVIOUS
<1>8. PICK z, e : z = Pop_wasm_stk(b, "i32") /\ e = Top(b, "i32")
  OBVIOUS
<1>9. PICK mv : mv = [k \in 1 .. C |->
        IF k - 1 \in Range(w) THEN Add_mov_for_break(z, Get_parent_stmt_for_branch(k - 1)) ELSE << >>]
  OBVIOUS
<1>10. PICK te : te = [k \in 1 .. n - 1 |-> <<Jcc("JEZ", tmp, Get_label_id_for_jump(w[k])),
                                             Uinst("ADDI", "i32", <<tmp, tmp>>, NoLabel, V - 1)>>]
  OBVIOUS
<1>11. PICK i, j : i = Mov("i32", tmp, e.idx) /\ j = Jmp(Get_label_id_for_jump(Last(w)))
  OBVIOUS
<1>12. PICK P : P = (\A t \in ts : Mov_checked(z, t).ok)
  OBVIOUS
<1>13. PICK y : y = [z EXCEPT !.ok = @ /\ P]
  OBVIOUS
<1>14. PICK a, c : a = InFunction(y) /\ c = <<i>> \o FlattenSeq(mv) \o FlattenSeq(te) \o <<j>>
  OBVIOUS
<1>15. Turn(a, c)
  BY <1>2, <1>5, <1>6, <1>7, <1>8, <1>9, <1>10, <1>11, <1>12, <1>13, <1>14 DEF Conv_br_table, Movs_for_targets
<1>16. LowGood(b, K) /\ Grows(x, b)
  BY ONLY <1>3, <1>7, LowScratch
<1>17. LowGood(z, K) /\ Grows(b, z)
  BY ONLY <1>8, <1>16, LowPop
<1>18. LowGood(y, K) /\ Grows(z, y) /\ (y.ok => P)
  BY ONLY <1>13, <1>17, LowCheck
<1>19. LowGood(a, K) /\ Grows(y, a) /\ (a.ok => \A d \in Range(w) : Get_parent_stmt_for_branch(d) # 0)
  BY ONLY <1>5, <1>14, <1>18, ChecksLow
<1>20. Grows(x, z) /\ Grows(z, a) /\ Grows(x, a)
  <2>1. Grows(x, z)
    BY ONLY <1>16, <1>17, GrowsOn
  <2>2. Grows(z, a)
    BY ONLY <1>18, <1>19, GrowsOn
  <2>3. Grows(x, a)
    BY ONLY <2>1, <2>2, GrowsOn
  <2> QED
    BY ONLY <2>1, <2>2, <2>3
<1>21. ASSUME a.ok PROVE CodeFenced(c, a)
  <2>1. y.ok /\ z.ok
    BY ONLY <1>18, <1>19, <1>21 DEF Grows
  <2>2. Counts(z, "i32", tmp)
    <3>1. "i32" \in Types
      BY DEF Types
    <3>2. Counts(x, "i32", x.next["i32"])
      BY ONLY <3>1, <1>3, CountsNext DEF LowGood
    <3>3. Counts(x, "i32", tmp)
      BY ONLY <3>2, <1>7 DEF Scratch
    <3> QED
      BY ONLY <3>3, <2>1, <1>20, CountsOn
  <2>3. Counts(z, "i32", e.idx)
    <3>1. "i32" \in Types \cup {Void} /\ "i32" # Void
      BY DEF Types, Void
    <3>2. Counts(b, "i32", e.idx)
      BY ONLY <3>1, <2>1, <1>8, <1>16, CountsTop
    <3> QED
      BY ONLY <3>2, <2>1, <1>17, CountsOn
  <2>4. CodeFenced(<<i>>, z) /\ CodeFenced(<<j>>, z)
    BY ONLY <2>2, <2>3, <1>11, FormsFenced, FencedFew
  <2>5. CodeFenced(FlattenSeq(mv), z)
    <3>1. mv = [k \in 1 .. C |-> mv[k]]
      BY ONLY <1>9
    <3>2. [k \in 1 .. C |-> mv[k]] \in Seq({mv[k] : k \in 1 .. C}) /\ Len([k \in 1 .. C |-> mv[k]]) = C
      BY <1>4
    <3>3. IsSeq(mv) /\ Len(mv) = C
      BY ONLY <3>1, <3>2 DEF IsSeq
    <3>4. ASSUME NEW k \in 1 .. C PROVE CodeFenced(mv[k], z)
      <4>1. PICK d \in Nat : d = k - 1
        BY ONLY <3>4, <1>4
      <4>2. PICK t : t = Get_parent_stmt_for_branch(d)
        OBVIOUS
      <4>3. mv[k] = IF d \in Range(w) THEN Add_mov_for_break(z, t) ELSE << >>
        BY ONLY <4>1, <4>2, <3>4, <1>9
      <4>4. CASE d \in Range(w)
        <5>1. t \in ts /\ t # 0
          BY ONLY <4>2, <4>4, <1>7, <1>19, <1>21
        <5>2. Mov_checked(z, t).ok
          BY ONLY <5>1, <2>1, <1>12, <1>18
        <5>3. t \in 0 .. Len(g)
          BY ONLY <4>1, <4>2, <1>2, <1>4, BranchTarget
        <5>4. t \in 1 .. Len(graph)
          <6>1. Len(g) \in Nat
            BY ONLY <1>4 DEF GraphOK
          <6> QED
            BY ONLY <6>1, <5>1, <5>3, <1>2
        <5>5. CodeFenced(Add_mov_for_break(z, t), z)
          BY ONLY <5>2, <5>4, <1>3, <1>17, <1>20, MovFenced
        <5> QED
          BY ONLY <5>5, <4>3, <4>4
      <4>5. CASE d \notin Range(w)
        BY ONLY <4>3, <4>5, FencedFew
      <4> QED
        BY ONLY <4>4, <4>5
    <3> QED
      BY ONLY <3>3, <3>4, FlatFenced
  <2>6. CodeFenced(FlattenSeq(te), z)
    <3>1. PICK m \in Nat : m = n - 1
      BY <1>6
    <3>2. te = [k \in 1 .. m |-> te[k]]
      BY ONLY <3>1, <1>10
    <3>3. [k \in 1 .. m |-> te[k]] \in Seq({te[k] : k \in 1 .. m}) /\ Len([k \in 1 .. m |-> te[k]]) = m
      BY <3>1
    <3>4. IsSeq(te) /\ Len(te) = m
      BY ONLY <3>2, <3>3 DEF IsSeq
    <3>5. PICK q : q = Uinst("ADDI", "i32", <<tmp, tmp>>, NoLabel, V - 1)
      OBVIOUS
    <3>6. Fenced(q, z)
      <4>1. "ADDI" \notin {"Load", "Store", "Convert"}
        OBVIOUS
      <4> QED
        BY ONLY <4>1, <3>5, <2>2, UinstFenced
    <3>7. ASSUME NEW k \in 1 .. m PROVE CodeFenced(te[k], z)
      <4>1. PICK l : l = Get_label_id_for_jump(w[k])
        OBVIOUS
      <4>2. PICK p : p = Jcc("JEZ", tmp, l)
        OBVIOUS
      <4>3. te[k] = <<p, q>>
        BY ONLY <4>1, <4>2, <3>1, <3>5, <3>7, <1>10
      <4>4. Fenced(p, z)
        BY ONLY <4>2, <2>2, FormsFenced
      <4>5. CodeFenced(<<p, q>>, z)
        BY ONLY <4>4, <3>6, FencedList
      <4> QED
        BY ONLY <4>3, <4>5
    <3> QED
      BY ONLY <3>4, <3>7, FlatFenced
  <2>7. PICK c1, c2 : c1 = <<i>> \o FlattenSeq(mv) /\ c2 = c1 \o FlattenSeq(te)
    OBVIOUS
  <2>8. CodeFenced(c1, z)
    BY ONLY <2>4, <2>5, <2>7, FencedConcat
  <2>9. CodeFenced(c2, z)
    BY ONLY <2>6, <2>7, <2>8, FencedConcat
  <2>10. CodeFenced(c2 \o <<j>>, z)
    BY ONLY <2>4, <2>9, FencedConcat
  <2>11. CodeFenced(c, z)
    BY ONLY <2>7, <2>10, <1>14
  <2> QED
    BY ONLY <2>11, <1>20, <1>21, CodeOn
<1>22. Emits(x, a, c)
  BY ONLY <1>19, <1>20, <1>21 DEF Emits, LowGood
<1> QED
  BY <1>15, <1>22, <1>1, <1>2, QuietWindow

\* The turn's place in the validated code.
LEMMA HereSit ==
  ASSUME PlainForms, EnoughRegisters, ConvInv, CodeInv, AbortInv, phase = "convert"
  PROVE  \E v, w : Situation(v, w, graph, Cur, fres, at, al)
<1>1. PICK g, s, f, t, x, i : g = graph /\ s = ins /\ f = fres /\ t = at /\ x = al /\ i = Cur
  OBVIOUS
<1>2. \E H : Trace(H, g, s, f, Len(s)) /\ Situation(H[t].v, H[t].w, g, i, f, t, x)
  BY <1>1, SitExists
<1>3. PICK H : Situation(H[t].v, H[t].w, g, i, f, t, x)
  BY ONLY <1>2
<1> QED
  BY ONLY <1>1, <1>3

\* Instructions that emit at most one move.
LEMMA PlainWindow ==
  ASSUME PlainForms, EnoughRegisters, ConvInv, CodeInv, AbortInv, WindowInv,
         Conv_drop \/ Conv_nop \/ Conv_unreachable \/ Conv_local_get \/ Conv_local_set \/ Conv_return
  PROVE  WindowInv'
<1>1. phase = "convert" /\ UNCHANGED <<graph, calls>>
  BY DEF Conv_drop, Conv_nop, Conv_unreachable, Conv_local_get, Conv_local_set, Conv_return, Converting, Quiet
<1>2. PICK K, x : K = KeptAt(graph, at) /\ x = al
  OBVIOUS
<1>3. LowGood(x, K) /\ x.ok /\ Grows(x, x) /\ AlGood(x, K)
  <2>1. LowGood(x, K) /\ x.ok /\ Grows(x, x)
    BY <1>1, <1>2, StartLow
  <2> QED
    BY ONLY <2>1 DEF LowGood
<1>4. WellFormed(Cur) /\ fres \in Types \cup {Void}
  BY <1>1, TurnStart
<1>5. \A a : CodeFenced(<< >>, a) /\ Fenced(Ret, a) /\ CodeFenced(<<Ret>>, a)
  BY ONLY FencedFew, FormsFenced
<1>6. CASE Conv_drop
  <2>1. PICK a, v : v = Void /\ a = Pop_wasm_stk(x, v)
    OBVIOUS
  <2>2. Turn(a, << >>)
    BY <1>6, <2>1, <1>2 DEF Conv_drop
  <2>3. LowGood(a, K) /\ Grows(x, a)
    BY ONLY <2>1, <1>3, LowPop
  <2>4. Emits(x, a, << >>)
    BY ONLY <2>3, <1>5 DEF Emits, LowGood
  <2> QED
    BY <2>2, <2>4, <1>1, <1>2, QuietWindow
<1>7. CASE Conv_nop
  <2>1. Turn(x, << >>)
    BY <1>7, <1>2 DEF Conv_nop
  <2>2. Emits(x, x, << >>)
    BY ONLY <1>3, <1>5 DEF Emits, LowGood
  <2> QED
    BY <2>1, <2>2, <1>1, <1>2, QuietWindow
<1>8. CASE Conv_unreachable
  <2>1. PICK e : e = Elem("UNREACHABLE", "i32", 0)
    OBVIOUS
  <2>2. PICK a : a = Push(x, e)
    OBVIOUS
  <2>3. Turn(a, << >>)
    BY <1>8, <2>1, <2>2, <1>2 DEF Conv_unreachable
  <2>4. e \in Elems /\ e.kind # "TEMP" /\ LowElem(e)
    BY <2>1 DEF Elem, Elems, LowElem, Types
  <2>5. LowGood(a, K) /\ Grows(x, a)
    BY ONLY <2>2, <2>4, <1>3, LowPush
  <2>6. Emits(x, a, << >>)
    BY ONLY <2>5, <1>5 DEF Emits, LowGood
  <2> QED
    BY <2>3, <2>6, <1>1, <1>2, QuietWindow
<1>9. ASSUME NEW k, k = Cur.n[1], Cur.op \in {"LocalGet", "LocalSet", "LocalTee"}
      PROVE  Vars[k] \in Types /\ LocalReg(k) \in Nat /\ LocalReg(k) <= Base(Vars[k])
  <2>1. k \in DOMAIN Vars
    BY <1>4, <1>9 DEF WellFormed
  <2> QED
    BY ONLY <2>1, LocalBelow
<1>10. CASE Conv_local_get
  <2>1. PICK k, ty, r : k = Cur.n[1] /\ ty = Vars[k] /\ r = LocalReg(k)
    OBVIOUS
  <2>2. PICK e : e = Elem("LOCAL", ty, r)
    OBVIOUS
  <2>3. PICK a : a = Push(x, e)
    OBVIOUS
  <2>4. Turn(a, << >>) /\ Cur.op = "LocalGet"
    BY <1>10, <2>1, <2>2, <2>3, <1>2 DEF Conv_local_get, Converting
  <2>5. ty \in Types /\ r \in Nat /\ r <= Base(ty)
    BY ONLY <2>1, <2>4, <1>9
  <2>6. e \in Elems /\ e.kind # "TEMP" /\ LowElem(e)
    BY <2>2, <2>5 DEF Elem, Elems, LowElem
  <2>7. LowGood(a, K) /\ Grows(x, a)
    BY ONLY <2>3, <2>6, <1>3, LowPush
  <2>8. Emits(x, a, << >>)
    BY ONLY <2>7, <1>5 DEF Emits, LowGood
  <2> QED
    BY <2>4, <2>8, <1>1, <1>2, QuietWindow
<1>11. CASE Conv_local_set
  <2>1. PICK k, ty, r : k = Cur.n[1] /\ ty = Vars[k] /\ r = LocalReg(k)
    OBVIOUS
  <2>2. Cur.op \in {"LocalSet", "LocalTee"}
    BY <1>11 DEF Conv_local_set, Converting
  <2>3. ty \in Types /\ r \in Nat /\ r <= Base(ty)
    BY ONLY <2>1, <2>2, <1>9
  <2>4. ASSUME NEW a, LowGood(a, K), Grows(x, a), NEW e, a.ok => Counts(x, ty, e.idx) /\ e.ty = ty
        PROVE  Emits(x, a, <<Mov(e.ty, r, e.idx)>>)
    <3>1. ASSUME a.ok PROVE CodeFenced(<<Mov(e.ty, r, e.idx)>>, a)
      <4>1. Counts(a, ty, r)
        BY ONLY <3>1, <2>3, <2>4, LocalCounts DEF LowGood
      <4>2. Counts(a, ty, e.idx) /\ e.ty = ty
        BY ONLY <3>1, <2>4, CountsOn
      <4> QED
        BY ONLY <4>1, <4>2, FormsFenced, FencedFew
    <3> QED
      BY ONLY <3>1, <2>4 DEF Emits, LowGood
  <2>5. CASE Cur.op = "LocalSet"
    <3>1. PICK a, e : a = Pop_wasm_stk(x, ty) /\ e = Top(x, ty)
      OBVIOUS
    <3>2. Turn(a, <<Mov(e.ty, r, e.idx)>>)
      BY <1>11, <2>1, <2>5, <3>1, <1>2 DEF Conv_local_set
    <3>3. LowGood(a, K) /\ Grows(x, a)
      BY ONLY <3>1, <1>3, LowPop
    <3>4. a.ok => Counts(x, ty, e.idx) /\ e.ty = ty
      <4>1. ty \in Types \cup {Void} /\ ty # Void
        BY <2>3 DEF Types, Void
      <4> QED
        BY ONLY <4>1, <3>1, <1>3, CountsTop
    <3>5. Emits(x, a, <<Mov(e.ty, r, e.idx)>>)
      BY ONLY <3>3, <3>4, <2>4
    <3> QED
      BY <3>2, <3>5, <1>1, <1>2, QuietWindow
  <2>6. CASE Cur.op # "LocalSet"
    <3>1. PICK e : e = Last(x.stk)
      OBVIOUS
    <3>2. PICK P : P = (e.ty = ty)
      OBVIOUS
    <3>3. PICK a : a = [x EXCEPT !.ok = @ /\ P]
      OBVIOUS
    <3>4. Turn(a, <<Mov(e.ty, r, e.idx)>>)
      BY <1>11, <2>1, <2>6, <3>1, <3>2, <3>3, <1>2 DEF Conv_local_set
    <3>5. LowGood(a, K) /\ Grows(x, a) /\ (a.ok => P)
      BY ONLY <3>3, <1>3, LowCheck
    <3>6. a.ok => Counts(x, ty, e.idx) /\ e.ty = ty
      <4>1. PICK v, w : Situation(v, w, graph, Cur, fres, at, x)
        BY <1>1, <1>2, HereSit
      <4>2. PICK i, g, f, t : i = Cur /\ g = graph /\ f = fres /\ t = at
        OBVIOUS
      <4>3. PICK fs : fs = FS(g, w)
        OBVIOUS
      <4>4. Situation(v, w, g, i, f, t, x) /\ i.op = "LocalTee" /\ i.op # "End" /\ i.op \notin {"End", "Else"}
        BY ONLY <4>1, <4>2, <2>2, <2>6
      <4>5. PICK m \in Nat : t = m + 1 /\ Lifo(x, fs, m)
        BY ONLY <4>3, <4>4, SitStack
      <4>6. Consumed(i, f) = <<ty>>
        BY <4>2, <4>4, <2>1 DEF Consumed, Pops
      <4>7. PICK c : c = Pop_wasm_stk(x, Void)
        OBVIOUS
      <4>8. x.stk # << >> /\ x.stk[Len(x.stk)].ty = ty
        BY ONLY <4>3, <4>4, <4>5, <4>6, <4>7, OnePop
      <4>9. x.stk \in Seq(Elems)
        BY ONLY <1>3, GoodSizes
      <4>10. Len(x.stk) \in Nat \ {0} /\ Last(x.stk) = x.stk[Len(x.stk)]
        BY <4>8, <4>9, FrontOf
      <4>11. PICK n : n = Len(x.stk) /\ n \in 1 .. Len(x.stk)
        BY ONLY <4>10
      <4>12. Counts(x, x.stk[n].ty, x.stk[n].idx)
        BY ONLY <4>11, <1>3, CountsElem
      <4> QED
        BY ONLY <4>8, <4>10, <4>11, <4>12, <3>1
    <3>7. Emits(x, a, <<Mov(e.ty, r, e.idx)>>)
      BY ONLY <3>5, <3>6, <2>4
    <3> QED
      BY <3>4, <3>7, <1>1, <1>2, QuietWindow
  <2> QED
    BY <2>5, <2>6
<1>12. CASE Conv_return
  <2>1. CASE fres = Void
    <3>1. Turn(x, <<Ret>>)
      BY <1>12, <2>1, <1>2 DEF Conv_return
    <3>2. Emits(x, x, <<Ret>>)
      BY ONLY <1>3, <1>5 DEF Emits, LowGood
    <3> QED
      BY <3>1, <3>2, <1>1, <1>2, QuietWindow
  <2>2. CASE fres # Void
    <3>1. PICK ty : ty = fres /\ ty \in Types \cup {Void} /\ ty # Void /\ ty \in Types
      BY <2>2, <1>4
    <3>2. PICK a, e : a = Pop_wasm_stk(x, ty) /\ e = Top(x, ty)
      OBVIOUS
    <3>3. Turn(a, <<Mov(ty, 0, e.idx), Ret>>)
      BY <1>12, <2>2, <3>1, <3>2, <1>2 DEF Conv_return
    <3>4. LowGood(a, K) /\ Grows(x, a)
      BY ONLY <3>2, <1>3, LowPop
    <3>5. ASSUME a.ok PROVE CodeFenced(<<Mov(ty, 0, e.idx), Ret>>, a)
      <4>1. Counts(x, ty, e.idx)
        BY ONLY <3>1, <3>2, <3>5, <1>3, CountsTop
      <4>2. Counts(a, ty, e.idx)
        BY ONLY <4>1, <3>4, <3>5, CountsOn
      <4>3. Counts(a, ty, 0)
        BY ONLY <3>1, <3>4, <3>5, CountsNext DEF LowGood
      <4> QED
        BY ONLY <4>2, <4>3, FormsFenced, FencedList
    <3>6. Emits(x, a, <<Mov(ty, 0, e.idx), Ret>>)
      BY ONLY <3>4, <3>5 DEF Emits, LowGood
    <3> QED
      BY <3>3, <3>6, <1>1, <1>2, QuietWindow
  <2> QED
    BY <2>1, <2>2
<1> QED
  BY <1>6, <1>7, <1>8, <1>10, <1>11, <1>12

\* The end of the function.
LEMMA EndFuncWindow ==
  ASSUME ConvInv, WindowInv, Conv_end_func
  PROVE  WindowInv'
<1>1. phase = "convert" /\ UNCHANGED <<graph, calls>>
  BY DEF Conv_end_func, Converting, Quiet
<1>2. PICK K, x : K = KeptAt(graph, at) /\ x = al
  OBVIOUS
<1>3. LowGood(x, K) /\ x.ok /\ Grows(x, x)
  BY <1>1, <1>2, StartLow
<1>4. CodeFenced(<< >>, x) /\ CodeFenced(<<Ret>>, x)
  BY ONLY FencedFew, FormsFenced
<1>5. Emits(x, x, << >>) /\ Emits(x, x, <<Ret>>)
  BY ONLY <1>3, <1>4 DEF Emits, LowGood
<1>6. PICK e, a : e = Top(x, Void) /\ a = Pop_wasm_stk(x, Void)
  OBVIOUS
<1>7. PICK lost : lost = (\E k \in DOMAIN al.stk : al.stk[k].kind = "UNREACHABLE")
  OBVIOUS
<1>8. \/ Turn(x, << >>) \/ Turn(x, <<Ret>>) \/ Turn(a, <<Mov(e.ty, 0, e.idx), Ret>>)
  <2>1. CASE fres = Void
    BY <2>1, <1>2 DEF Conv_end_func
  <2>2. CASE fres # Void /\ lost
    BY <2>2, <1>2, <1>7 DEF Conv_end_func
  <2>3. CASE fres # Void /\ ~lost /\ Len(al.stk) = 1
    BY <2>3, <1>2, <1>6, <1>7 DEF Conv_end_func
  <2>4. CASE fres # Void /\ ~lost /\ Len(al.stk) # 1
    BY <2>4, <1>2, <1>7 DEF Conv_end_func
  <2> QED
    BY ONLY <2>1, <2>2, <2>3, <2>4
<1>9. Emits(x, a, <<Mov(e.ty, 0, e.idx), Ret>>)
  <2>1. LowGood(a, K) /\ Grows(x, a)
    BY ONLY <1>6, <1>3, LowPop
  <2>2. ASSUME a.ok PROVE CodeFenced(<<Mov(e.ty, 0, e.idx), Ret>>, a)
    <3>1. PICK v : v = Void /\ v \in Types \cup {Void}
      OBVIOUS
    <3>2. Counts(x, e.ty, e.idx)
      BY ONLY <3>1, <1>6, <1>3, <2>2, CountsTop
    <3>3. Counts(a, e.ty, e.idx)
      BY ONLY <3>2, <2>1, <2>2, CountsOn
    <3>4. e.ty \in Types
      BY ONLY <3>2 DEF Counts
    <3>5. Counts(a, e.ty, 0)
      BY ONLY <3>4, <2>1, <2>2, CountsNext DEF LowGood
    <3> QED
      BY ONLY <3>3, <3>5, FormsFenced, FencedList
  <2> QED
    BY ONLY <2>1, <2>2 DEF Emits, LowGood
<1>10. CASE Turn(x, << >>)
  BY <1>1, <1>2, <1>5, <1>10, QuietWindow
<1>11. CASE Turn(x, <<Ret>>)
  BY <1>1, <1>2, <1>5, <1>11, QuietWindow
<1>12. CASE Turn(a, <<Mov(e.ty, 0, e.idx), Ret>>)
  BY <1>1, <1>2, <1>9, <1>12, QuietWindow
<1> QED
  BY ONLY <1>8, <1>10, <1>11, <1>12

\* All calls stay where they are.
LEMMA CallsOn ==
  ASSUME NEW a, NEW b, Grows(a, b), b.ok, NEW c, IsSeq(c), NEW d, IsSeq(d), NEW ps, CallsOK(c, ps, a)
  PROVE  CallsOK(c \o d, ps, b)
<1>1. IsSeq(ps) /\ \A n \in 1 .. Len(ps) : CallOK(c, ps[n], a)
  BY DEF CallsOK
<1>2. ASSUME NEW n \in 1 .. Len(ps) PROVE CallOK(c \o d, ps[n], b)
  <2>1. PICK p : p = ps[n] /\ CallOK(c, p, a)
    BY ONLY <1>1, <1>2
  <2>2. CallOK(c \o d, p, b)
    BY ONLY <2>1, Grows(a, b), b.ok, IsSeq(c), IsSeq(d), CallOn
  <2> QED
    BY ONLY <2>1, <2>2
<1> QED
  BY ONLY <1>1, <1>2 DEF CallsOK

\* The register of the result of a block that begins, and of its else.
LEMMA OpenRegs ==
  ASSUME NEW g, GraphOK(g), NEW t \in 1 .. Len(g), g[t].op \in {"Block", "Loop", "If"}, NEW r, NEW z,
         NEW h, Entered(g, h, t, r, z), NEW a, RegsFenced(g, a), g[t].res # Void => Counts(a, g[t].res, r)
  PROVE  RegsFenced(h, a)
<1>1. PICK n \in Nat : n = Len(g) /\ g \in Seq(Stmts) /\ DOMAIN g = 1 .. n /\ t \in 1 .. n
  BY DEF GraphOK
<1>2. PICK e : e = g[t].els
  OBVIOUS
<1>3. h = [k \in 1 .. n |-> IF k = t \/ (k = e /\ e # 0) THEN [g[k] EXCEPT !.reg = r, !.size = z] ELSE g[k]]
  BY ONLY <1>1, <1>2, Entered(g, h, t, r, z) DEF Entered
<1>4. Len(h) = n
  <2>1. h = [k \in 1 .. n |-> h[k]]
    BY ONLY <1>3
  <2>2. Len([k \in 1 .. n |-> h[k]]) = n
    OBVIOUS
  <2> QED
    BY ONLY <2>1, <2>2
<1>5. ASSUME NEW k \in 1 .. n, h[k].res # Void PROVE Counts(a, h[k].res, h[k].reg)
  <2>1. g[k] \in Stmts
    BY <1>1, <1>5
  <2>2. CASE k = t \/ (k = e /\ e # 0)
    <3>1. h[k] = [g[k] EXCEPT !.reg = r, !.size = z]
      BY ONLY <1>3, <1>5, <2>2
    <3>2. h[k].res = g[k].res /\ h[k].reg = r
      BY ONLY <3>1, <2>1 DEF Stmts
    <3>3. g[k].res = g[t].res
      <4>1. CASE k = t
        BY ONLY <4>1
      <4>2. CASE k # t
        <5>1. k = e /\ e # 0 /\ StmtOK(g, t) /\ StmtOK(g, k)
          BY <2>2, <4>2, <1>1, <1>5 DEF GraphOK
        <5>2. g[t].op = "If" /\ g[k].op = "Else" /\ g[k].els = t
          BY <5>1, <1>2 DEF StmtOK
        <5> QED
          BY ONLY <5>1, <5>2 DEF StmtOK
      <4> QED
        BY <4>1, <4>2
    <3> QED
      BY ONLY <3>2, <3>3, <1>5, g[t].res # Void => Counts(a, g[t].res, r)
  <2>3. CASE ~(k = t \/ (k = e /\ e # 0))
    <3>1. h[k] = g[k]
      BY ONLY <1>3, <1>5, <2>3
    <3> QED
      BY ONLY <3>1, <1>1, <1>5, RegsFenced(g, a) DEF RegsFenced
  <2> QED
    BY ONLY <2>2, <2>3
<1> QED
  BY ONLY <1>4, <1>5 DEF RegsFenced

\* A block begins with the allocator y.
LEMMA BeginWindow ==
  ASSUME ConvInv, WindowInv, phase = "convert", Cur.op \in {"Block", "Loop", "If"},
         NEW y, LowGood(y, KeptAt(graph, at)), Grows(al, y), NEW c, y.ok => CodeFenced(c, y),
         Turn(Reserved(y, at), c), OpenBlock(y, at), UNCHANGED calls
  PROVE  WindowInv'
<1>1. PICK K, g, t, h, a : K = KeptAt(graph, at) /\ g = graph /\ t = at /\ h = graph' /\ a = Reserved(y, at)
  OBVIOUS
<1>2. GraphOK(g) /\ t \in 1 .. Len(g) /\ g[t].op = Cur.op
  BY <1>1, TurnStart
<1>3. g \in Seq(Stmts)
  BY <1>2 DEF GraphOK
<1>4. PICK ty : ty = g[t].res /\ ty \in Types \cup {Void}
  BY <1>2, <1>3, StmtFields
<1>5. (a.ok => Low(a)) /\ Grows(y, a)
  BY <1>1, <1>4, LowReserved
<1>6. Grows(al, a)
  BY ONLY <1>5, Grows(al, y), GrowsOn
<1>7. a.ok => y.ok
  BY ONLY <1>5 DEF Grows
<1>8. ASSUME a.ok PROVE CodeFenced(c, a)
  BY ONLY <1>5, <1>7, <1>8, y.ok => CodeFenced(c, y), CodeOn
<1>9. Emits(al, a, c)
  BY ONLY <1>5, <1>6, <1>8 DEF Emits
<1>10. RegsFenced(g, al) /\ CallsOK(code, calls, al) /\ CodeFenced(code, al)
  BY <1>1 DEF WindowInv, Window
<1>11. ASSUME a.ok PROVE RegsFenced(h, a)
  <2>1. PICK r, z : r = (IF ty = Void THEN 0 ELSE y.next[ty]) /\ z = Len(y.stk)
    OBVIOUS
  <2>2. Entered(g, h, t, r, z)
    BY ONLY OpenBlock(y, at), <2>1, <1>1, <1>4 DEF OpenBlock, Entered
  <2>3. RegsFenced(g, a)
    BY ONLY <1>6, <1>10, <1>11, RegsOn
  <2>4. ASSUME ty # Void PROVE Counts(a, ty, r)
    <3>1. ty \in Types /\ r = y.next[ty] /\ AlGood(y, K)
      BY <2>1, <2>4, <1>1, <1>4 DEF LowGood
    <3>2. Counts(y, ty, r)
      BY ONLY <3>1, <1>7, <1>11, CountsNext
    <3> QED
      BY ONLY <3>2, <1>5, <1>11, CountsOn
  <2>5. g[t].op \in {"Block", "Loop", "If"}
    BY <1>2
  <2>6. g[t].res # Void => Counts(a, g[t].res, r)
    BY ONLY <2>4, <1>4
  <2> QED
    BY ONLY <1>2, <2>2, <2>3, <2>5, <2>6, OpenRegs
<1>12. ASSUME a.ok, CodeFenced(c, a) PROVE CallsOK(code \o c, calls, a)
  <2>1. IsSeq(code) /\ IsSeq(c)
    BY ONLY <1>10, <1>12 DEF CodeFenced
  <2> QED
    BY ONLY <2>1, <1>6, <1>10, <1>12, CallsOn
<1>13. Turn(a, c)
  BY <1>1
<1> QED
  BY <1>1, <1>9, <1>11, <1>12, <1>13, TurnWindow

\* Block, loop and if.
LEMMA OpenWindow ==
  ASSUME ConvInv, WindowInv, Conv_block \/ Conv_if
  PROVE  WindowInv'
<1>1. phase = "convert" /\ Cur.op \in {"Block", "Loop", "If"} /\ UNCHANGED calls
  BY DEF Conv_block, Conv_if, Converting
<1>2. PICK K, x : K = KeptAt(graph, at) /\ x = al
  OBVIOUS
<1>3. LowGood(x, K) /\ x.ok /\ Grows(x, x)
  BY <1>1, <1>2, StartLow
<1>4. CASE Conv_block
  <2>1. Turn(Reserved(x, at), << >>) /\ OpenBlock(x, at)
    BY <1>2, <1>4 DEF Conv_block
  <2>2. CodeFenced(<< >>, x)
    BY ONLY FencedFew
  <2> QED
    BY <2>1, <2>2, <1>1, <1>2, <1>3, BeginWindow
<1>5. CASE Conv_if
  <2>1. PICK y, e, ty : y = Pop_wasm_stk(x, ty) /\ e = Top(x, ty) /\ ty = "i32"
    OBVIOUS
  <2>2. PICK l : Turn(Reserved(y, at), <<Jcc("JEZ", e.idx, l)>>)
    BY <2>1, <1>2, <1>5 DEF Conv_if
  <2>3. OpenBlock(y, at)
    BY <2>1, <1>2, <1>5 DEF Conv_if
  <2>4. LowGood(y, K) /\ Grows(x, y)
    BY ONLY <2>1, <1>3, LowPop
  <2>5. ASSUME y.ok PROVE CodeFenced(<<Jcc("JEZ", e.idx, l)>>, y)
    <3>1. ty \in Types \cup {Void} /\ ty # Void
      BY <2>1 DEF Types, Void
    <3>2. Counts(x, ty, e.idx)
      BY ONLY <3>1, <2>1, <2>5, <1>3, CountsTop
    <3>3. Counts(y, "i32", e.idx)
      BY ONLY <3>2, <2>1, <2>4, <2>5, CountsOn
    <3> QED
      BY ONLY <3>3, FormsFenced, FencedFew
  <2>6. PICK c : c = <<Jcc("JEZ", e.idx, l)>>
    OBVIOUS
  <2> QED
    BY <2>2, <2>3, <2>4, <2>5, <2>6, <1>1, <1>2, BeginWindow
<1> QED
  BY <1>4, <1>5

\* The end of a block.
LEMMA EndWindow ==
  ASSUME ConvInv, WindowInv, Conv_end_block \/ Conv_end_unreachable
  PROVE  WindowInv'
<1>1. phase = "convert" /\ Cur.op = "End" /\ Me.parent # 0 /\ UNCHANGED <<graph, calls>>
  BY DEF Conv_end_block, Conv_end_unreachable, Converting
<1>2. PICK K, x, g, t : K = KeptAt(graph, at) /\ x = al /\ g = graph /\ t = at
  OBVIOUS
<1>3. LowGood(x, K) /\ x.ok /\ Grows(x, x) /\ RegsFenced(g, x)
  BY <1>1, <1>2, StartLow
<1>4. GraphOK(g) /\ t \in 1 .. Len(g) /\ Me = g[t]
  BY <1>1, <1>2, TurnStart
<1>5. PICK p : p = g[t].parent /\ p # 0
  BY <1>1, <1>4
<1>6. p \in 1 .. Len(g) /\ g \in Seq(Stmts)
  <2>1. g \in Seq(Stmts) /\ StmtOK(g, t) /\ Len(g) \in Nat
    BY <1>4 DEF GraphOK
  <2>2. p \in 0 .. t - 1
    BY <2>1, <1>5 DEF StmtOK
  <2> QED
    BY <2>1, <2>2, <1>4, <1>5
<1>7. PICK q : q = g[p]
  OBVIOUS
<1>8. q.size \in Nat /\ q.res \in Types \cup {Void}
  BY <1>6, <1>7, StmtFields
<1>9. q.res # Void => Counts(x, q.res, q.reg)
  BY ONLY <1>3, <1>6, <1>7 DEF RegsFenced
<1>10. \E y, c : LowGood(y, K) /\ Grows(x, y) /\ (y.ok => CodeFenced(c, y)) /\ Turn(Close(y, q), c)
  <2>1. CASE Conv_end_block
    <3>1. PICK y, e : y = Pop_wasm_stk(x, q.res) /\ e = Top(x, q.res)
      OBVIOUS
    <3>2. PICK c : c = <<Mov(q.res, q.reg, e.idx)>>
      OBVIOUS
    <3>3. Turn(Close(x, q), << >>) \/ (q.res # Void /\ Turn(Close(y, q), c))
      BY <2>1, <3>1, <3>2, <1>2, <1>4, <1>5, <1>7 DEF Conv_end_block
    <3>4. CodeFenced(<< >>, x)
      BY ONLY FencedFew
    <3>5. LowGood(y, K) /\ Grows(x, y)
      BY ONLY <3>1, <1>3, LowPop
    <3>6. ASSUME q.res # Void, y.ok PROVE CodeFenced(c, y)
      <4>1. PICK ty : ty = q.res
        OBVIOUS
      <4>2. Counts(x, ty, e.idx)
        BY ONLY <4>1, <3>1, <3>6, <1>3, <1>8, CountsTop
      <4>3. Counts(y, ty, e.idx) /\ Counts(y, ty, q.reg)
        BY ONLY <4>1, <4>2, <3>5, <3>6, <1>9, CountsOn
      <4> QED
        BY ONLY <4>1, <4>3, <3>2, FormsFenced, FencedFew
    <3> QED
      BY ONLY <3>3, <3>4, <3>5, <3>6, <1>3
  <2>2. CASE Conv_end_unreachable
    <3>1. PICK y : y = [x EXCEPT !.stk = Front(@)]
      OBVIOUS
    <3>2. x.stk # << >>
      BY <2>2, <1>2 DEF Conv_end_unreachable, IsUnreachable
    <3>3. Turn(Close(y, q), <<Ret>>)
      BY <2>2, <3>1, <1>2, <1>4, <1>5, <1>7 DEF Conv_end_unreachable
    <3>4. AlGood(x, K)
      BY <1>3 DEF LowGood
    <3>5. /\ IsAl(y) /\ y.stk = Front(x.stk) /\ y.next = x.next /\ y.size = x.size /\ y.io = x.io /\ y.ok = x.ok
      BY <3>1, <3>4 DEF AlGood, IsAl
    <3>6. AlSound(x, K)
      BY <1>3, <3>4 DEF AlGood
    <3>7. AlSound(y, K)
      BY <3>2, <3>5, <3>6, LessStack
    <3>8. AlGood(y, K)
      BY <3>5, <3>7 DEF AlGood, AlSound, AlTyped, IsSeq
    <3>9. x.stk \in Seq(Elems)
      BY <3>6 DEF AlSound, AlTyped
    <3>10. PICK n, m : n = Len(x.stk) /\ m = Len(y.stk)
      OBVIOUS
    <3>11. n \in Nat \ {0} /\ m = n - 1 /\ \A k \in 1 .. n - 1 : y.stk[k] = x.stk[k]
      BY <3>2, <3>5, <3>9, <3>10, FrontOf
    <3>12. n \in Nat /\ m \in Nat /\ m <= n /\ \A k \in 1 .. m : y.stk[k] = x.stk[k]
      BY ONLY <3>11
    <3>13. Low(x)
      BY <1>3 DEF LowGood
    <3>14. Low(y)
      BY ONLY <3>10, <3>12, <3>13, LowPart
    <3>15. Grows(x, y)
      BY ONLY <3>4, <3>5, GrowsSame
    <3>16. LowGood(y, K)
      BY ONLY <3>8, <3>14 DEF LowGood
    <3>17. CodeFenced(<<Ret>>, y)
      BY ONLY FencedFew, FormsFenced
    <3> QED
      BY ONLY <3>3, <3>15, <3>16, <3>17
  <2> QED
    BY <2>1, <2>2
<1>11. PICK y, c : LowGood(y, K) /\ Grows(x, y) /\ (y.ok => CodeFenced(c, y)) /\ Turn(Close(y, q), c)
  BY ONLY <1>10
<1>12. PICK a : a = Close(y, q)
  OBVIOUS
<1>13. (a.ok => Low(a)) /\ Grows(y, a)
  BY ONLY <1>8, <1>11, <1>12, LowClose
<1>14. Grows(x, a) /\ (a.ok => y.ok)
  <2>1. Grows(x, a)
    BY ONLY <1>11, <1>13, GrowsOn
  <2> QED
    BY ONLY <2>1, <1>13 DEF Grows
<1>15. ASSUME a.ok PROVE CodeFenced(c, a)
  BY ONLY <1>11, <1>13, <1>14, <1>15, CodeOn
<1>16. Emits(x, a, c)
  BY ONLY <1>13, <1>14, <1>15 DEF Emits
<1>17. Turn(a, c)
  BY ONLY <1>11, <1>12
<1> QED
  BY <1>1, <1>2, <1>16, <1>17, QuietWindow

\* Two operands, the upper one first.
LEMMA PopTwo ==
  ASSUME NEW a, NEW p, NEW q
  PROVE  PopAll(a, <<p, q>>) = Pop_wasm_stk(Pop_wasm_stk(a, q), p)
<1>1. PICK tys : tys = <<p, q>>
  OBVIOUS
<1>2. PICK n \in Nat : n = 2 /\ n = Len(tys) /\ tys[1] = p /\ tys[2] = q
  BY <1>1
<1>3. PopAll(a, tys) = (CHOOSE f : PopFcn(f, a, tys, n, n))[n]
  BY <1>2 DEF PopAll, PopFcn
<1>4. \E f : PopFcn(f, a, tys, n, n)
  BY PopAllExists
<1>5. PICK f : PopFcn(f, a, tys, n, n) /\ PopAll(a, tys) = f[n]
  BY <1>3, <1>4
<1>6. f = [k \in 0 .. n |-> IF k = 0 THEN a ELSE Pop_wasm_stk(f[k - 1], tys[n + 1 - k])]
  BY <1>5 DEF PopFcn
<1>7. 0 \in 0 .. n /\ 1 \in 0 .. n /\ 2 \in 0 .. n /\ 1 - 1 = 0 /\ 2 - 1 = 1 /\ n + 1 - 1 = 2 /\ n + 1 - 2 = 1
  BY <1>2
<1>8. f[0] = a
  BY ONLY <1>6, <1>7
<1>9. ASSUME NEW k \in 0 .. n, k # 0, NEW j, j = k - 1, NEW ty, ty = tys[n + 1 - k]
      PROVE  f[k] = Pop_wasm_stk(f[j], ty)
  BY ONLY <1>6, <1>9
<1>10. f[1] = Pop_wasm_stk(f[0], q) /\ f[2] = Pop_wasm_stk(f[1], p)
  <2>1. PICK i, j, k : i = 0 /\ j = 1 /\ k = 2 /\ j \in 0 .. n /\ k \in 0 .. n /\ j # 0 /\ k # 0
    BY <1>7
  <2>2. i = j - 1 /\ j = k - 1 /\ q = tys[n + 1 - j] /\ p = tys[n + 1 - k]
    BY ONLY <2>1, <1>2
  <2>3. f[j] = Pop_wasm_stk(f[i], q)
    BY ONLY <2>1, <2>2, <1>9
  <2>4. f[k] = Pop_wasm_stk(f[j], p)
    BY ONLY <2>1, <2>2, <1>9
  <2> QED
    BY ONLY <2>1, <2>3, <2>4
<1> QED
  BY ONLY <1>1, <1>2, <1>5, <1>8, <1>9, <1>10

\* The address of a load or store.
LEMMA AddressedFenced ==
  ASSUME NEW a, NEW tmp, NEW r, Counts(a, "i32", tmp), Counts(a, "i32", r), NEW ofs
  PROVE  CodeFenced(Addressed(tmp, r, ofs), a)
<1>1. PICK p, q : p = Uinst("Const", "i32", <<tmp>>, NoLabel, ofs) /\ q = Uinst("Add", "i32", <<tmp, r, tmp>>, NoLabel, 0)
  OBVIOUS
<1>2. Fenced(p, a)
  BY ONLY <1>1, Counts(a, "i32", tmp), UinstFenced
<1>3. Fenced(q, a)
  BY ONLY <1>1, Counts(a, "i32", tmp), Counts(a, "i32", r), UinstFenced
<1>4. CodeFenced(<<p, q>>, a) /\ CodeFenced(<< >>, a)
  BY ONLY <1>2, <1>3, FencedList, FencedFew
<1>5. Addressed(tmp, r, ofs) = << >> \/ Addressed(tmp, r, ofs) = <<p, q>>
  BY ONLY <1>1 DEF Addressed
<1> QED
  BY ONLY <1>4, <1>5

\* Loads.
LEMMA LoadWindow ==
  ASSUME ConvInv, WindowInv, Conv_load
  PROVE  WindowInv'
<1>1. phase = "convert" /\ Cur.op = "Load" /\ UNCHANGED <<graph, calls>>
  BY DEF Conv_load, Converting, Quiet
<1>2. PICK K, x : K = KeptAt(graph, at) /\ x = al
  OBVIOUS
<1>3. LowGood(x, K) /\ x.ok /\ Grows(x, x)
  BY <1>1, <1>2, StartLow
<1>4. PICK ty, ofs, tmp : ty = Cur.ty /\ ofs = Cur.n[1] /\ tmp = Scratch(x)
  OBVIOUS
<1>5. ty \in Types
  BY <1>1, <1>4, TurnStart DEF WellFormed
<1>6. PICK I : I = "i32" /\ I \in Types /\ I \in Types \cup {Void} /\ I # Void
  BY DEF Types, Void
<1>7. PICK b : b = WithScratch(x)
  OBVIOUS
<1>8. PICK y, r : y = Pop_wasm_stk(b, I) /\ r = Top(b, I).idx
  OBVIOUS
<1>9. PICK a, rd : a = Push_temp_reg(y, ty) /\ rd = y.next[ty]
  OBVIOUS
<1>10. PICK far : far = (ofs >= OFFSET_M_MAX)
  OBVIOUS
<1>11. PICK k, s : k = (IF far THEN 0 ELSE ofs) /\ s = (IF far THEN tmp ELSE r)
  OBVIOUS
<1>12. PICK c : c = Append(Addressed(tmp, r, ofs), Uinst("Load", ty, <<rd, s>>, NoLabel, k))
  OBVIOUS
<1>13. Turn(a, c)
  BY ONLY Conv_load, <1>2, <1>4, <1>6, <1>7, <1>8, <1>9, <1>10, <1>11, <1>12 DEF Conv_load
<1>14. LowGood(b, K) /\ Grows(x, b)
  BY ONLY <1>3, <1>7, LowScratch
<1>15. LowGood(y, K) /\ Grows(b, y)
  BY ONLY <1>8, <1>14, LowPop
<1>16. LowGood(a, K) /\ Grows(y, a)
  BY ONLY <1>5, <1>9, <1>15, LowPushTemp
<1>17. Grows(b, a) /\ Grows(x, a)
  BY ONLY <1>14, <1>15, <1>16, GrowsOn
<1>18. ASSUME a.ok PROVE CodeFenced(c, a)
  <2>1. y.ok
    BY ONLY <1>16, <1>18 DEF Grows
  <2>2. Counts(x, I, tmp)
    BY ONLY <1>3, <1>4, <1>6, CountsNext DEF LowGood, Scratch
  <2>3. Counts(b, I, r)
    BY ONLY <2>1, <1>6, <1>8, <1>14, CountsTop
  <2>4. Counts(y, ty, rd)
    BY ONLY <2>1, <1>5, <1>9, <1>15, CountsNext DEF LowGood
  <2>5. Counts(a, I, tmp) /\ Counts(a, I, r) /\ Counts(a, ty, rd)
    BY ONLY <2>2, <2>3, <2>4, <1>16, <1>17, <1>18, CountsOn
  <2>6. Counts(a, "i32", tmp) /\ Counts(a, "i32", r) /\ Counts(a, "i32", s)
    BY ONLY <2>5, <1>6, <1>11
  <2>7. CodeFenced(Addressed(tmp, r, ofs), a)
    BY ONLY <2>6, AddressedFenced
  <2>8. Fenced(Uinst("Load", ty, <<rd, s>>, NoLabel, k), a)
    BY ONLY <2>5, <2>6, TwoFilesFenced
  <2> QED
    BY ONLY <2>7, <2>8, <1>12, FencedAppend
<1>19. Emits(x, a, c)
  BY ONLY <1>16, <1>17, <1>18 DEF Emits, LowGood
<1> QED
  BY <1>1, <1>2, <1>13, <1>19, QuietWindow

\* Stores.
LEMMA StoreWindow ==
  ASSUME ConvInv, WindowInv, Conv_store
  PROVE  WindowInv'
<1>1. phase = "convert" /\ Cur.op = "Store" /\ UNCHANGED <<graph, calls>>
  BY DEF Conv_store, Converting, Quiet
<1>2. PICK K, x : K = KeptAt(graph, at) /\ x = al
  OBVIOUS
<1>3. LowGood(x, K) /\ x.ok /\ Grows(x, x)
  BY <1>1, <1>2, StartLow
<1>4. PICK ty, ofs, tmp : ty = Cur.ty /\ ofs = Cur.n[1] /\ tmp = Scratch(x)
  OBVIOUS
<1>5. ty \in Types /\ ty \in Types \cup {Void} /\ ty # Void
  <2>1. ty \in Types
    BY <1>1, <1>4, TurnStart DEF WellFormed
  <2> QED
    BY <2>1 DEF Types, Void
<1>6. PICK I : I = "i32" /\ I \in Types /\ I \in Types \cup {Void} /\ I # Void
  BY DEF Types, Void
<1>7. PICK b : b = WithScratch(x)
  OBVIOUS
<1>8. PICK y, rd : y = Pop_wasm_stk(b, ty) /\ rd = Top(b, ty).idx
  OBVIOUS
<1>9. PICK a, r : a = Pop_wasm_stk(y, I) /\ r = Top(y, I).idx
  OBVIOUS
<1>10. PICK far : far = (ofs >= OFFSET_M_MAX)
  OBVIOUS
<1>11. PICK k, s : k = (IF far THEN 0 ELSE ofs) /\ s = (IF far THEN tmp ELSE r)
  OBVIOUS
<1>12. PICK c : c = Append(Addressed(tmp, r, ofs), Uinst("Store", ty, <<rd, s>>, NoLabel, k))
  OBVIOUS
<1>13. Turn(a, c)
  <2>1. PopAll(b, <<I, ty>>) = a
    BY ONLY <1>8, <1>9, PopTwo
  <2>2. Turn(PopAll(b, <<I, ty>>), c)
    BY ONLY Conv_store, <1>2, <1>4, <1>6, <1>7, <1>8, <1>9, <1>10, <1>11, <1>12 DEF Conv_store
  <2> QED
    BY ONLY <2>1, <2>2
<1>14. LowGood(b, K) /\ Grows(x, b)
  BY ONLY <1>3, <1>7, LowScratch
<1>15. LowGood(y, K) /\ Grows(b, y)
  BY ONLY <1>8, <1>14, LowPop
<1>16. LowGood(a, K) /\ Grows(y, a)
  BY ONLY <1>9, <1>15, LowPop
<1>17. Grows(b, a) /\ Grows(x, a)
  BY ONLY <1>14, <1>15, <1>16, GrowsOn
<1>18. ASSUME a.ok PROVE CodeFenced(c, a)
  <2>1. y.ok
    BY ONLY <1>16, <1>18 DEF Grows
  <2>2. Counts(x, I, tmp)
    BY ONLY <1>3, <1>4, <1>6, CountsNext DEF LowGood, Scratch
  <2>3. PICK e : e = Top(b, ty)
    OBVIOUS
  <2>4. Counts(b, ty, rd)
    BY ONLY <2>1, <2>3, <1>5, <1>8, <1>14, CountsTop
  <2>5. PICK z : z = Top(y, I)
    OBVIOUS
  <2>6. Counts(y, I, r)
    BY ONLY <2>5, <1>6, <1>9, <1>15, <1>18, CountsTop
  <2>7. Counts(a, I, tmp) /\ Counts(a, I, r) /\ Counts(a, ty, rd)
    BY ONLY <2>2, <2>4, <2>6, <1>16, <1>17, <1>18, CountsOn
  <2>8. Counts(a, "i32", tmp) /\ Counts(a, "i32", r) /\ Counts(a, "i32", s)
    BY ONLY <2>7, <1>6, <1>11
  <2>9. CodeFenced(Addressed(tmp, r, ofs), a)
    BY ONLY <2>8, AddressedFenced
  <2>10. Fenced(Uinst("Store", ty, <<rd, s>>, NoLabel, k), a)
    BY ONLY <2>7, <2>8, TwoFilesFenced
  <2> QED
    BY ONLY <2>9, <2>10, <1>12, FencedAppend
<1>19. Emits(x, a, c)
  BY ONLY <1>16, <1>17, <1>18 DEF Emits, LowGood
<1> QED
  BY <1>1, <1>2, <1>13, <1>19, QuietWindow

\* The code of select.
LEMMA SelectFenced ==
  ASSUME NEW a, NEW ty, NEW tmp, NEW rd, NEW bool, NEW r, NEW s, NEW l,
         Counts(a, "i32", tmp), Counts(a, "i32", bool), Counts(a, ty, rd), Counts(a, ty, r), Counts(a, ty, s)
  PROVE  CodeFenced(Select_code(ty, tmp, rd, bool, r, s, l), a)
<1>1. PICK i, j, k : i = Mov(ty, rd, r) /\ j = Mov(ty, rd, s) /\ k = Mov("i32", tmp, bool)
  OBVIOUS
<1>2. PICK m, n, o : m = Jcc("JNZ", bool, l) /\ n = Jcc("JEZ", tmp, l) /\ o = Jcc("JEZ", bool, l)
  OBVIOUS
<1>3. Fenced(i, a) /\ Fenced(j, a) /\ Fenced(k, a)
  BY ONLY <1>1, FormsFenced, Counts(a, "i32", tmp), Counts(a, "i32", bool), Counts(a, ty, rd), Counts(a, ty, r), Counts(a, ty, s)
<1>4. Fenced(m, a) /\ Fenced(n, a) /\ Fenced(o, a)
  BY ONLY <1>2, FormsFenced, Counts(a, "i32", tmp), Counts(a, "i32", bool)
<1>5. PICK c : c = Select_code(ty, tmp, rd, bool, r, s, l)
  OBVIOUS
<1>6. c = <<m, i>> \/ c = <<k, i, n, j>> \/ c = <<i, o, j>>
  <2>1. CASE rd = s
    BY ONLY <2>1, <1>1, <1>2, <1>5 DEF Select_code
  <2>2. CASE rd # s /\ bool = rd
    BY ONLY <2>2, <1>1, <1>2, <1>5 DEF Select_code
  <2>3. CASE rd # s /\ bool # rd
    BY ONLY <2>3, <1>1, <1>2, <1>5 DEF Select_code
  <2> QED
    BY ONLY <2>1, <2>2, <2>3
<1>7. CodeFenced(<<m, i>>, a)
  BY ONLY <1>3, <1>4, FencedList
<1>8. CodeFenced(<<k, i, n, j>>, a)
  BY ONLY <1>3, <1>4, FencedList
<1>9. CodeFenced(<<i, o, j>>, a)
  BY ONLY <1>3, <1>4, FencedList
<1> QED
  BY ONLY <1>5, <1>6, <1>7, <1>8, <1>9

\* Select.
LEMMA SelectWindow ==
  ASSUME ConvInv, WindowInv, Conv_select
  PROVE  WindowInv'
<1>1. phase = "convert" /\ UNCHANGED <<graph, calls>>
  BY DEF Conv_select, Converting
<1>2. PICK K, x : K = KeptAt(graph, at) /\ x = al
  OBVIOUS
<1>3. LowGood(x, K) /\ x.ok /\ Grows(x, x)
  BY <1>1, <1>2, StartLow
<1>4. PICK tmp, l : tmp = Scratch(x) /\ l = <<"select", at>>
  OBVIOUS
<1>5. PICK I : I = "i32" /\ I \in Types /\ I \in Types \cup {Void} /\ I # Void
  BY DEF Types, Void
<1>6. PICK b : b = WithScratch(x)
  OBVIOUS
<1>7. PICK y, bool : y = Pop_wasm_stk(b, I) /\ bool = Top(b, I)
  OBVIOUS
<1>8. PICK V0 : V0 = Void /\ V0 \in Types \cup {Void}
  OBVIOUS
<1>9. PICK z, e : z = Pop_wasm_stk(y, V0) /\ e = Top(y, V0)
  OBVIOUS
<1>10. PICK ty : ty = e.ty
  OBVIOUS
<1>11. PICK d, s : d = Pop_wasm_stk(z, ty) /\ s = Top(z, ty)
  OBVIOUS
<1>12. PICK a, rd : a = Push_temp_reg(d, ty) /\ rd = d.next[ty]
  OBVIOUS
<1>13. PICK c : c = Select_code(ty, tmp, rd, bool.idx, e.idx, s.idx, l)
  OBVIOUS
<1>14. Turn(a, c)
  BY ONLY Conv_select, <1>2, <1>4, <1>5, <1>6, <1>7, <1>8, <1>9, <1>10, <1>11, <1>12, <1>13 DEF Conv_select
<1>15. LowGood(b, K) /\ Grows(x, b)
  BY ONLY <1>3, <1>6, LowScratch
<1>16. LowGood(y, K) /\ Grows(b, y)
  BY ONLY <1>7, <1>15, LowPop
<1>17. LowGood(z, K) /\ Grows(y, z)
  BY ONLY <1>9, <1>16, LowPop
<1>18. LowGood(d, K) /\ Grows(z, d)
  BY ONLY <1>11, <1>17, LowPop
<1>19. d.ok => z.ok /\ y.ok /\ b.ok
  BY ONLY <1>16, <1>17, <1>18 DEF Grows
<1>20. z.ok => Counts(y, ty, e.idx)
  BY ONLY <1>8, <1>9, <1>10, <1>16, CountsTop
<1>21. d.ok => ty \in Types
  BY ONLY <1>19, <1>20 DEF Counts
<1>22. ASSUME a.ok PROVE LowGood(a, K) /\ Grows(x, a) /\ CodeFenced(c, a)
  <2>1. d.ok /\ LowGood(a, K) /\ Grows(d, a)
    BY ONLY <1>12, <1>18, <1>21, <1>22, LowPushAny
  <2>2. Grows(z, a)
    BY ONLY <2>1, <1>18, GrowsOn
  <2>3. Grows(y, a)
    BY ONLY <2>2, <1>17, GrowsOn
  <2>4. Grows(b, a)
    BY ONLY <2>3, <1>16, GrowsOn
  <2>5. Grows(x, a)
    BY ONLY <2>4, <1>15, GrowsOn
  <2>6. ty \in Types /\ ty \in Types \cup {Void} /\ ty # Void
    <3>1. ty \in Types
      BY ONLY <2>1, <1>21
    <3> QED
      BY <3>1 DEF Types, Void
  <2>7. Counts(x, I, tmp)
    BY ONLY <1>3, <1>4, <1>5, CountsNext DEF LowGood, Scratch
  <2>8. Counts(b, I, bool.idx)
    BY ONLY <2>1, <1>19, <1>5, <1>7, <1>15, CountsTop
  <2>9. Counts(z, ty, s.idx)
    BY ONLY <2>1, <2>6, <1>11, <1>17, CountsTop
  <2>10. Counts(d, ty, rd)
    BY ONLY <2>1, <2>6, <1>12, <1>18, CountsNext DEF LowGood
  <2>11. Counts(y, ty, e.idx)
    BY ONLY <2>1, <1>19, <1>20
  <2>12. Counts(a, I, tmp) /\ Counts(a, I, bool.idx)
    BY ONLY <2>4, <2>5, <2>7, <2>8, <1>22, CountsOn
  <2>13. Counts(a, ty, s.idx) /\ Counts(a, ty, rd) /\ Counts(a, ty, e.idx)
    BY ONLY <2>1, <2>2, <2>3, <2>9, <2>10, <2>11, <1>22, CountsOn
  <2>14. CodeFenced(c, a)
    BY ONLY <2>12, <2>13, <1>5, <1>13, SelectFenced
  <2> QED
    BY ONLY <2>1, <2>5, <2>14
<1>23. Emits(x, a, c)
  <2>1. Grows(x, a)
    BY ONLY <1>22 DEF Grows
  <2> QED
    BY ONLY <2>1, <1>22 DEF Emits, LowGood
<1> QED
  BY <1>1, <1>2, <1>14, <1>23, QuietWindow

\* Comparisons of 64-bit values are left out.
Compares32 == "cmp64" \notin Unusual

\* The types an instruction asks for are those of its operands, where it asks.
Expects(tys, q) == IsSeq(tys) /\ Len(tys) = Len(q) /\ \A k \in 1 .. Len(tys) : tys[k] = Void \/ tys[k] = q[k]

\* An operand is in a register of its type.
LEMMA OperandCounts ==
  ASSUME NEW v, NEW w, NEW g, NEW i, NEW f, NEW t, NEW x, Situation(v, w, g, i, f, t, x),
         i.op \notin {"End", "Else"}, NEW K, LowGood(x, K), x.ok, NEW q, q = Consumed(i, f),
         NEW tys, Expects(tys, q), NEW k \in 1 .. Len(tys), NEW e, e = Operands(x, tys)[k]
  PROVE  e.ty = q[k] /\ Counts(x, q[k], e.idx)
<1>1. PICK fs : fs = FS(g, w)
  OBVIOUS
<1>2. PICK m \in Nat : Lifo(x, fs, m) /\ Room(m)
  BY ONLY <1>1, Situation(v, w, g, i, f, t, x), i.op \notin {"End", "Else"}, SitStack
<1>3. OnTop(x, fs, q)
  BY ONLY <1>1, q = Consumed(i, f), Situation(v, w, g, i, f, t, x), i.op \notin {"End", "Else"}, OperandsOnTop
<1>4. PICK n \in Nat : n = Len(tys) /\ n = Len(q) /\ k \in 1 .. n /\ DOMAIN tys = 1 .. n /\ IsSeq(tys)
  BY DEF Expects, IsSeq
<1>5. e = Top(PopAll(x, SubSeq(tys, k + 1, Len(tys))), tys[k])
  BY ONLY <1>4, e = Operands(x, tys)[k] DEF Operands
<1>6. \A j \in 1 .. n : tys[j] = Void \/ tys[j] = q[j]
  BY ONLY <1>4, Expects(tys, q) DEF Expects
<1>7. e.ty = q[k]
  BY ONLY <1>2, <1>3, <1>4, <1>5, <1>6, m \in Nat, n \in Nat, OperandType
<1>8. PICK y \in 1 .. Len(x.stk) : e = x.stk[y]
  <2>1. OnStack(x, e)
    BY ONLY <1>2, <1>3, <1>4, <1>5, <1>6, m \in Nat, n \in Nat, OperandType
  <2> QED
    BY ONLY <2>1 DEF OnStack
<1>9. Counts(x, x.stk[y].ty, x.stk[y].idx)
  BY ONLY y \in 1 .. Len(x.stk), LowGood(x, K), x.ok, CountsElem
<1> QED
  BY ONLY <1>7, <1>8, <1>9

\* The files of an operator's registers: its result's, then its operands'.
LEMMA OpFiles ==
  ASSUME NEW i, WellFormed(i), i.op \in {"Compare", "Eqz"} => i.ty = "i32",
         i.op \in {"Const", "Binary", "Compare", "Eqz", "Convert", "GlobalGet", "GlobalSet", "MemorySize",
                   "MemoryGrow"},
         NEW u, u.op = i.op, u.ty = i.ty
  PROVE  /\ Pushes(i) # << >> => /\ FileOf(u, 1) = Pushes(i)[1] /\ Pushes(i)[1] \in Types
                                 /\ \A k \in 1 .. Len(Pops(i)) : FileOf(u, k + 1) = Pops(i)[k]
         /\ Pushes(i) = << >> => \A k \in 1 .. Len(Pops(i)) : FileOf(u, k) = Pops(i)[k]
<1>1. i.ty \in Types \cup {Void} /\ "i32" \in Types
  BY DEF WellFormed, Types
<1>2. CASE i.op = "Const"
  <2>1. Pushes(i) = <<i.ty>> /\ Pops(i) = << >> /\ i.ty \in Types
    BY <1>2 DEF Pushes, Pops, WellFormed
  <2>2. FileOf(u, 1) = i.ty
    BY <1>2 DEF FileOf
  <2> QED
    BY ONLY <2>1, <2>2
<1>3. CASE i.op = "Binary"
  <2>1. Pushes(i) = <<i.ty>> /\ Pops(i) = <<i.ty, i.ty>> /\ i.ty \in Types
    BY <1>3 DEF Pushes, Pops, WellFormed
  <2>2. \A k : FileOf(u, k) = i.ty
    BY <1>3 DEF FileOf
  <2> QED
    BY ONLY <2>1, <2>2
<1>4. CASE i.op = "Compare"
  <2>1. Pushes(i) = <<"i32">> /\ Pops(i) = <<i.ty, i.ty>> /\ i.ty = "i32"
    BY <1>4 DEF Pushes, Pops
  <2>2. \A k : FileOf(u, k) = i.ty
    BY <1>4 DEF FileOf
  <2> QED
    BY ONLY <2>1, <2>2, <1>1
<1>5. CASE i.op = "Eqz"
  <2>1. Pushes(i) = <<"i32">> /\ Pops(i) = <<i.ty>> /\ i.ty = "i32"
    BY <1>5 DEF Pushes, Pops
  <2>2. \A k : FileOf(u, k) = i.ty
    BY <1>5 DEF FileOf
  <2> QED
    BY ONLY <2>1, <2>2, <1>1
<1>6. CASE i.op = "Convert"
  <2>1. Pushes(i) = <<Other(i.ty)>> /\ Pops(i) = <<i.ty>> /\ i.ty \in Types
    BY <1>6 DEF Pushes, Pops, WellFormed
  <2>2. FileOf(u, 1) = Other(i.ty) /\ FileOf(u, 2) = i.ty
    BY <1>6 DEF FileOf
  <2>3. Other(i.ty) \in Types
    BY <2>1 DEF Other, Types
  <2>4. Len(Pops(i)) = 1 /\ Pops(i)[1] = i.ty /\ \A k \in 1 .. 1 : k = 1 /\ k + 1 = 2
    BY ONLY <2>1
  <2> QED
    BY ONLY <2>1, <2>2, <2>3, <2>4
<1>7. CASE i.op \in {"GlobalGet", "MemorySize"}
  <2>1. Pushes(i) = <<"i32">> /\ Pops(i) = << >> /\ i.ty = "i32"
    BY <1>7 DEF Pushes, Pops, WellFormed
  <2>2. \A k : FileOf(u, k) = i.ty
    BY <1>7 DEF FileOf
  <2> QED
    BY ONLY <2>1, <2>2, <1>1
<1>8. CASE i.op = "GlobalSet"
  <2>1. Pushes(i) = << >> /\ Pops(i) = <<"i32">> /\ i.ty = "i32"
    BY <1>8 DEF Pushes, Pops, WellFormed
  <2>2. \A k : FileOf(u, k) = i.ty
    BY <1>8 DEF FileOf
  <2> QED
    BY ONLY <2>1, <2>2
<1>9. CASE i.op = "MemoryGrow"
  <2>1. Pushes(i) = <<"i32">> /\ Pops(i) = <<"i32">> /\ i.ty = "i32"
    BY <1>9 DEF Pushes, Pops, WellFormed
  <2>2. \A k : FileOf(u, k) = i.ty
    BY <1>9 DEF FileOf
  <2> QED
    BY ONLY <2>1, <2>2, <1>1
<1> QED
  BY <1>2, <1>3, <1>4, <1>5, <1>6, <1>7, <1>8, <1>9

\* Operators.
LEMMA OpWindow ==
  ASSUME PlainForms, EnoughRegisters, Compares32, ConvInv, CodeInv, AbortInv, WindowInv, Conv_op
  PROVE  WindowInv'
<1>1. /\ phase = "convert" /\ UNCHANGED <<graph, calls>>
      /\ Cur.op \in {"Const", "Binary", "Compare", "Eqz", "Convert", "GlobalGet", "GlobalSet", "MemorySize",
                     "MemoryGrow"}
  BY DEF Conv_op, Converting, Quiet
<1>2. PICK K, x : K = KeptAt(graph, at) /\ x = al
  OBVIOUS
<1>3. LowGood(x, K) /\ x.ok /\ Grows(x, x)
  BY <1>1, <1>2, StartLow
<1>4. PICK i, g, f, t : i = Cur /\ g = graph /\ f = fres /\ t = at
  OBVIOUS
<1>5. PICK v, w : Situation(v, w, g, i, f, t, x)
  BY <1>1, <1>2, <1>4, HereSit
<1>6. PICK tys : tys = Expected(x, i)
  OBVIOUS
<1>7. PICK q : q = Consumed(i, f)
  OBVIOUS
<1>8. /\ IsSeq(tys) /\ Len(tys) = Len(q) /\ q = Pops(i) /\ i.op \notin {"End", "Else"}
      /\ \A k \in 1 .. Len(tys) : tys[k] = Void \/ tys[k] = q[k]
  BY ONLY <1>1, <1>4, <1>5, <1>6, <1>7, ExpectedTypes
<1>9. PICK n \in Nat : n = Len(tys) /\ n = Len(q) /\ DOMAIN tys = 1 .. n
  BY ONLY <1>8 DEF IsSeq
<1>10. PICK rs : rs = [k \in 1 .. n |-> Operands(x, tys)[k].idx]
  OBVIOUS
<1>11. \A k \in 1 .. n : Counts(x, q[k], rs[k])
  <2> SUFFICES ASSUME NEW k \in 1 .. n PROVE Counts(x, q[k], rs[k])
    OBVIOUS
  <2>1. PICK e : e = Operands(x, tys)[k]
    OBVIOUS
  <2>2. k \in 1 .. Len(tys)
    BY <1>9
  <2>3. Expects(tys, q)
    BY ONLY <1>8 DEF Expects
  <2>4. Counts(x, q[k], e.idx)
    <3>1. i.op \notin {"End", "Else"} /\ x.ok /\ LowGood(x, K)
      BY ONLY <1>3, <1>8
    <3> QED
      BY ONLY <2>1, <2>2, <2>3, <3>1, <1>5, <1>7, OperandCounts
  <2>5. rs[k] = e.idx
    BY ONLY <1>10, <2>1, k \in 1 .. n
  <2> QED
    BY ONLY <2>4, <2>5
<1>12. PICK y, c0 : y = PopAll(x, tys) /\ c0 = (IF i.op = "Const" THEN i.n[1] ELSE 0)
  OBVIOUS
<1>13. PICK rd : rd = IF Pushes(i) # << >> THEN <<y.next[Pushes(i)[1]]>> ELSE << >>
  OBVIOUS
<1>14. PICK a : a = IF Pushes(i) # << >> THEN Push_temp_reg(y, Pushes(i)[1]) ELSE y
  OBVIOUS
<1>15. PICK u : u = Uinst(i.op, i.ty, rd \o rs, NoLabel, c0)
  OBVIOUS
<1>16. Turn(a, <<u>>)
  <2>1. DOMAIN tys = 1 .. n
    BY ONLY <1>9
  <2> QED
    BY ONLY Conv_op, <2>1, <1>2, <1>4, <1>6, <1>10, <1>12, <1>13, <1>14, <1>15 DEF Conv_op
<1>17. LowGood(y, K) /\ Grows(x, y)
  BY ONLY <1>3, <1>8, <1>12, LowPopAll
<1>18. u.op = i.op /\ u.ty = i.ty /\ u.r = rd \o rs
  BY ONLY <1>15 DEF Uinst
<1>19. WellFormed(i) /\ (i.op \in {"Compare", "Eqz"} => i.ty = "i32")
  <2>1. WellFormed(i) /\ Usual(v, i, f)
    BY ONLY <1>5 DEF Situation, Right
  <2> QED
    BY <2>1 DEF Usual, Compares32
<1>20. /\ Pushes(i) # << >> => /\ FileOf(u, 1) = Pushes(i)[1] /\ Pushes(i)[1] \in Types
                               /\ \A k \in 1 .. Len(q) : FileOf(u, k + 1) = q[k]
       /\ Pushes(i) = << >> => \A k \in 1 .. Len(q) : FileOf(u, k) = q[k]
  BY ONLY <1>1, <1>4, <1>8, <1>18, <1>19, OpFiles
<1>21. IsSeq(rs) /\ Len(rs) = n
  <2>1. PICK T : T = {rs[k] : k \in 1 .. n}
    OBVIOUS
  <2>2. rs \in [1 .. n -> T]
    BY ONLY <2>1, <1>10
  <2>3. rs \in Seq(T) /\ Len(rs) = n
    BY ONLY <2>2, n \in Nat
  <2> QED
    BY ONLY <2>3 DEF IsSeq
<1>22. CASE Pushes(i) # << >>
  <2>1. PICK ty, d : ty = Pushes(i)[1] /\ d = y.next[ty]
    OBVIOUS
  <2>2. ty \in Types /\ a = Push_temp_reg(y, ty) /\ rd = <<d>>
    BY ONLY <2>1, <1>13, <1>14, <1>20, <1>22
  <2>3. LowGood(a, K) /\ Grows(y, a)
    BY ONLY <2>2, <1>17, LowPushTemp
  <2>4. Grows(x, a)
    BY ONLY <2>3, <1>17, GrowsOn
  <2>5. ASSUME a.ok PROVE Fenced(u, a)
    <3>1. y.ok
      BY ONLY <2>3, <2>5 DEF Grows
    <3>2. Counts(y, ty, d)
      BY ONLY <3>1, <2>1, <2>2, <1>17, CountsNext DEF LowGood
    <3>3. Counts(a, ty, d)
      BY ONLY <3>2, <2>3, <2>5, CountsOn
    <3>4. \A k \in 1 .. n : Counts(a, q[k], rs[k])
      BY ONLY <1>11, <2>4, <2>5, CountsOn
    <3>5. PICK r : r = <<d>> \o rs
      OBVIOUS
    <3>6. IsSeq(<<d>>) /\ Len(<<d>>) = 1 /\ <<d>>[1] = d
      <4>1. <<d>> \in Seq({d}) /\ Len(<<d>>) = 1 /\ <<d>>[1] = d
        OBVIOUS
      <4> QED
        BY ONLY <4>1 DEF IsSeq
    <3>7. /\ IsSeq(r) /\ Len(r) = 1 + n /\ \A j \in 1 .. 1 : r[j] = <<d>>[j]
          /\ \A j \in 1 .. 1 + n : j \notin 1 .. 1 => j - 1 \in 1 .. n /\ r[j] = rs[j - 1]
      BY ONLY <3>5, <3>6, <1>21, ConcatSeq
    <3>8. DOMAIN r = 1 .. 1 + n
      BY ONLY <3>7 DEF IsSeq
    <3>9. ASSUME NEW j \in 1 .. 1 + n PROVE Counts(a, FileOf(u, j), r[j])
      <4>1. CASE j = 1
        <5>1. r[1] = d
          BY ONLY <3>6, <3>7
        <5>2. FileOf(u, 1) = ty
          BY ONLY <2>1, <1>20, <1>22
        <5> QED
          BY ONLY <4>1, <5>1, <5>2, <3>3
      <4>2. CASE j # 1
        <5>1. PICK k : k \in 1 .. n /\ j = k + 1 /\ r[j] = rs[k]
          BY ONLY <4>2, <3>7, j \in 1 .. 1 + n, n \in Nat
        <5>2. FileOf(u, k + 1) = q[k]
          BY ONLY <5>1, <1>9, <1>20, <1>22
        <5> QED
          BY ONLY <5>1, <5>2, <3>4
      <4> QED
        BY ONLY <4>1, <4>2
    <3>10. u.r = r
      BY ONLY <1>18, <2>2, <3>5
    <3> QED
      BY ONLY <3>8, <3>9, <3>10 DEF Fenced
  <2>6. Emits(x, a, <<u>>)
    <3>1. a.ok => CodeFenced(<<u>>, a)
      BY ONLY <2>5, FencedFew
    <3> QED
      BY ONLY <3>1, <2>3, <2>4 DEF Emits, LowGood
  <2> QED
    BY <2>6, <1>1, <1>2, <1>16, QuietWindow
<1>23. CASE Pushes(i) = << >>
  <2>1. a = y /\ u.r = rs
    <3>1. a = y /\ rd = << >>
      BY ONLY <1>13, <1>14, <1>23
    <3>2. PICK T : rs \in Seq(T)
      BY ONLY <1>21 DEF IsSeq
    <3>3. << >> \o rs = rs
      BY ONLY <3>2
    <3> QED
      BY ONLY <3>1, <3>3, <1>18
  <2>2. ASSUME a.ok PROVE Fenced(u, a)
    <3>1. \A k \in 1 .. n : Counts(a, q[k], rs[k])
      BY ONLY <1>11, <1>17, <2>1, <2>2, CountsOn
    <3>2. DOMAIN rs = 1 .. n
      BY ONLY <1>10
    <3>3. \A k \in 1 .. n : Counts(a, FileOf(u, k), rs[k])
      BY ONLY <3>1, <1>9, <1>20, <1>23
    <3> QED
      BY ONLY <2>1, <3>2, <3>3 DEF Fenced
  <2>3. Emits(x, a, <<u>>)
    <3>1. a.ok => CodeFenced(<<u>>, a)
      BY ONLY <2>2, FencedFew
    <3> QED
      BY ONLY <3>1, <2>1, <1>17 DEF Emits, LowGood
  <2> QED
    BY <2>3, <1>1, <1>2, <1>16, QuietWindow
<1> QED
  BY ONLY <1>22, <1>23

\* The number of parameters in a file.
LEMMA CountNat ==
  ASSUME NEW ty
  PROVE  CountOf(ty) \in Nat
<1>1. PICK l \in Nat : l = Len(CalleeParams) /\ DOMAIN CalleeParams = 1 .. l
  BY WasmAssumption
<1>2. PICK S : S = {k \in 1 .. l : CalleeParams[k] = ty}
  OBVIOUS
<1>3. S \subseteq 1 .. l
  BY ONLY <1>2
<1>4. IsFiniteSet(1 .. l)
  BY FS_Interval
<1>5. Cardinality(S) \in Nat
  BY ONLY <1>3, <1>4, FS_Subset, FS_CardinalityType
<1>6. CountOf(ty) = Cardinality(S)
  BY ONLY <1>1, <1>2 DEF CountOf
<1> QED
  BY ONLY <1>5, <1>6

\* The types of a call's operands.
LEMMA CallTypes ==
  ASSUME NEW i, i.op \in {"Call", "CallIndirect"}, NEW q, q = Pops(i), NEW tys, tys = ArgTypes(i),
         NEW l \in Nat, l = Len(CalleeParams)
  PROVE  /\ Expects(tys, q) /\ \A k \in 1 .. l : k \in 1 .. Len(tys) /\ q[k] = CalleeParams[k]
         /\ i.op = "CallIndirect" => Len(tys) = l + 1 /\ q[l + 1] = "i32"
<1>1. CalleeParams \in Seq(Types) /\ DOMAIN CalleeParams = 1 .. l
  BY WasmAssumption
<1>2. PICK n \in Nat : /\ n = Len(q) /\ DOMAIN q = 1 .. n /\ l <= n
                       /\ \A k \in 1 .. l : q[k] = CalleeParams[k]
                       /\ \A k \in 1 .. n : k > l => q[k] = "i32"
                       /\ i.op = "CallIndirect" => n = l + 1
  <2>1. CASE i.op = "Call"
    <3>1. q = CalleeParams
      BY ONLY <2>1, q = Pops(i) DEF Pops
    <3>2. \A k \in 1 .. l : ~(k > l)
      OBVIOUS
    <3> QED
      BY <3>1, <3>2, <2>1, <1>1
  <2>2. CASE i.op = "CallIndirect"
    <3>1. q = Append(CalleeParams, "i32")
      BY ONLY <2>2, q = Pops(i) DEF Pops
    <3>2. "i32" \in Types
      BY DEF Types
    <3>3. /\ Append(CalleeParams, "i32") \in Seq(Types) /\ Len(Append(CalleeParams, "i32")) = Len(CalleeParams) + 1
          /\ Append(CalleeParams, "i32")[Len(CalleeParams) + 1] = "i32"
          /\ \A k \in 1 .. Len(CalleeParams) : Append(CalleeParams, "i32")[k] = CalleeParams[k]
      BY ONLY <3>2, <1>1, AppendProperties
    <3>4. q \in Seq(Types) /\ Len(q) = l + 1 /\ q[l + 1] = "i32" /\ \A k \in 1 .. l : q[k] = CalleeParams[k]
      BY ONLY <3>1, <3>3, l = Len(CalleeParams)
    <3>5. DOMAIN q = 1 .. l + 1
      BY ONLY <3>4, LenProperties
    <3>6. l + 1 \in Nat /\ l <= l + 1 /\ \A k \in 1 .. l + 1 : k > l => k = l + 1
      OBVIOUS
    <3> QED
      BY ONLY <3>4, <3>5, <3>6
  <2> QED
    BY <2>1, <2>2
<1>3. tys = [k \in 1 .. n |-> IF k > l THEN "i32" ELSE Void]
  BY ONLY <1>2, q = Pops(i), l = Len(CalleeParams), tys = ArgTypes(i) DEF ArgTypes
<1>4. IsSeq(tys) /\ Len(tys) = n
  <2>1. tys \in [1 .. n -> {"i32", Void}]
    BY ONLY <1>3
  <2>2. tys \in Seq({"i32", Void}) /\ Len(tys) = n
    BY ONLY <2>1, n \in Nat
  <2> QED
    BY ONLY <2>2 DEF IsSeq
<1>5. \A k \in 1 .. n : tys[k] = Void \/ tys[k] = q[k]
  BY ONLY <1>2, <1>3
<1>6. Expects(tys, q)
  BY ONLY <1>2, <1>4, <1>5 DEF Expects
<1>7. \A k \in 1 .. l : k \in 1 .. n
  BY ONLY <1>2, n \in Nat, l \in Nat
<1>8. i.op = "CallIndirect" => n = l + 1 /\ q[l + 1] = "i32"
  BY ONLY <1>2, n \in Nat, l \in Nat
<1> QED
  BY ONLY <1>2, <1>4, <1>6, <1>7, <1>8

\* A call with its moves, written behind the code so far.
LEMMA NewCall ==
  ASSUME NEW c, IsSeq(c), NEW l \in Nat, l = Len(CalleeParams), NEW ms, IsSeq(ms), Len(ms) = l,
         \A k \in 1 .. l : ms[k].op = "MOV" /\ ms[k].ty = CalleeParams[k],
         NEW e, IsSeq(e), NEW x \in Nat \ {0}, x = Len(e), e[1].k = 1 => x = 2 /\ e[2].op = "MOV",
         NEW p, p = Len(c) + Len(ms) + 1,
         NEW a, \A ty \in Types : CountOf(ty) <= a.io[ty]
  PROVE  CallOK(c \o (ms \o e), p, a)
<1>1. PICK m \in Nat : m = Len(c) /\ p = m + l + 1
  <2>1. Len(c) \in Nat
    BY ONLY IsSeq(c) DEF IsSeq
  <2> QED
    BY ONLY <2>1, p = Len(c) + Len(ms) + 1, Len(ms) = l
<1>3. PICK d : d = ms \o e
  OBVIOUS
<1>4. IsSeq(d) /\ Len(d) = l + x /\ (\A j \in 1 .. l : d[j] = ms[j]) /\ \A j \in 1 .. x : d[l + j] = e[j]
  <2>1. /\ IsSeq(ms \o e) /\ Len(ms \o e) = Len(ms) + Len(e)
        /\ \A j \in 1 .. Len(ms) : (ms \o e)[j] = ms[j]
        /\ \A j \in 1 .. Len(e) : (ms \o e)[Len(ms) + j] = e[j]
    BY ONLY IsSeq(ms), IsSeq(e), ConcatSeq
  <2> QED
    BY ONLY <2>1, <1>3, x = Len(e), Len(ms) = l
<1>5. Len(c \o d) = m + (l + x) /\ \A j \in 1 .. l + x : (c \o d)[m + j] = d[j]
  BY ONLY <1>1, <1>4, IsSeq(c), ConcatSeq
<1>6. PICK z : z = c \o d
  OBVIOUS
<1>7. p \in l + 1 .. Len(z) /\ p = m + (l + 1) /\ l + 1 \in 1 .. l + x /\ 1 \in 1 .. x
  BY ONLY <1>1, <1>5, <1>6, m \in Nat, l \in Nat, x \in Nat \ {0}
<1>8. z[p].k = 1 => p + 1 \in 1 .. Len(z) /\ z[p + 1].op = "MOV"
  <2>1. z[p] = e[1]
    <3>1. z[m + (l + 1)] = d[l + 1]
      BY ONLY <1>5, <1>6, <1>7
    <3>2. d[l + 1] = e[1]
      BY ONLY <1>4, <1>7
    <3> QED
      BY ONLY <3>1, <3>2, <1>7
  <2> SUFFICES ASSUME e[1].k = 1 PROVE p + 1 \in 1 .. Len(z) /\ z[p + 1].op = "MOV"
    BY <2>1
  <2>2. x = 2 /\ e[2].op = "MOV"
    BY ONLY e[1].k = 1, e[1].k = 1 => x = 2 /\ e[2].op = "MOV"
  <2>3. p + 1 = m + (l + 2) /\ l + 2 \in 1 .. l + x /\ 2 \in 1 .. x /\ p + 1 \in 1 .. m + (l + x)
    BY ONLY <2>2, <1>1, m \in Nat, l \in Nat
  <2>4. z[m + (l + 2)] = d[l + 2] /\ d[l + 2] = e[2]
    BY ONLY <2>3, <1>4, <1>5, <1>6
  <2> QED
    BY ONLY <2>2, <2>3, <2>4, <1>5, <1>6
<1>9. ASSUME NEW k \in 1 .. l PROVE z[p - l - 1 + k].op = "MOV" /\ z[p - l - 1 + k].ty = CalleeParams[k]
  <2>1. p - l - 1 + k = m + k /\ k \in 1 .. l + x
    BY ONLY <1>1, <1>9, m \in Nat, l \in Nat, x \in Nat \ {0}
  <2>2. z[m + k] = ms[k]
    BY ONLY <2>1, <1>4, <1>5, <1>6, <1>9
  <2> QED
    BY ONLY <2>1, <2>2, <1>9, \A j \in 1 .. l : ms[j].op = "MOV" /\ ms[j].ty = CalleeParams[j]
<1>10. CallOK(z, p, a)
  BY ONLY <1>7, <1>8, <1>9, l = Len(CalleeParams), \A ty \in Types : CountOf(ty) <= a.io[ty] DEF CallOK
<1> QED
  BY ONLY <1>10, <1>3, <1>6

\* One more call.
LEMMA MoreCalls ==
  ASSUME NEW c, NEW a, NEW ps, CallsOK(c, ps, a), NEW p, CallOK(c, p, a)
  PROVE  CallsOK(c, Append(ps, p), a)
<1>1. IsSeq(ps) /\ \A n \in 1 .. Len(ps) : CallOK(c, ps[n], a)
  BY DEF CallsOK
<1>2. PICK e : e = <<p>> /\ IsSeq(e) /\ Len(e) = 1 /\ e[1] = p
  <2>1. <<p>> \in Seq({p}) /\ Len(<<p>>) = 1 /\ <<p>>[1] = p
    OBVIOUS
  <2> QED
    BY ONLY <2>1 DEF IsSeq
<1>3. PICK r : r = Append(ps, p) /\ r = ps \o e
  BY ONLY <1>1, <1>2, AppendIs
<1>4. PICK m \in Nat : m = Len(ps)
  BY <1>1 DEF IsSeq
<1>5. /\ IsSeq(r) /\ Len(r) = m + 1 /\ \A j \in 1 .. m : r[j] = ps[j]
      /\ \A j \in 1 .. m + 1 : j \notin 1 .. m => j - m \in 1 .. 1 /\ r[j] = e[j - m]
  BY ONLY <1>1, <1>2, <1>3, <1>4, ConcatSeq
<1>6. ASSUME NEW n \in 1 .. m + 1 PROVE CallOK(c, r[n], a)
  <2>1. CASE n \in 1 .. m
    BY ONLY <2>1, <1>1, <1>4, <1>5
  <2>2. CASE n \notin 1 .. m
    <3>1. r[n] = p
      <4>1. n - m \in 1 .. 1 /\ r[n] = e[n - m]
        BY ONLY <1>5, <1>6, <2>2
      <4>2. n - m = 1
        BY ONLY <4>1
      <4> QED
        BY ONLY <4>1, <4>2, <1>2
    <3> QED
      BY ONLY <3>1, CallOK(c, p, a)
  <2> QED
    BY ONLY <2>1, <2>2
<1> QED
  BY ONLY <1>3, <1>5, <1>6 DEF CallsOK

\* Calls.
LEMMA CallWindow ==
  ASSUME PlainForms, EnoughRegisters, ConvInv, CodeInv, AbortInv, WindowInv, Conv_call
  PROVE  WindowInv'
<1>1. phase = "convert" /\ UNCHANGED graph /\ Cur.op \in {"Call", "CallIndirect"}
  BY DEF Conv_call, Converting
<1>2. PICK K, x : K = KeptAt(graph, at) /\ x = al
  OBVIOUS
<1>3. LowGood(x, K) /\ x.ok /\ Grows(x, x)
  BY <1>1, <1>2, StartLow
<1>4. PICK i, g, f, t : i = Cur /\ g = graph /\ f = fres /\ t = at
  OBVIOUS
<1>5. PICK v, w : Situation(v, w, g, i, f, t, x)
  BY <1>1, <1>2, <1>4, HereSit
<1>6. PICK q : q = Pops(i) /\ q = Consumed(i, f)
  BY <1>1, <1>4 DEF Consumed
<1>7. PICK tys : tys = ArgTypes(i)
  OBVIOUS
<1>8. PICK ops, y : ops = Operands(x, tys) /\ y = PopAll(x, tys)
  OBVIOUS
<1>9. PICK l \in Nat : l = Len(CalleeParams) /\ DOMAIN CalleeParams = 1 .. l
  BY WasmAssumption
<1>10. /\ Expects(tys, q) /\ \A k \in 1 .. l : k \in 1 .. Len(tys) /\ q[k] = CalleeParams[k]
       /\ i.op = "CallIndirect" => Len(tys) = l + 1 /\ q[l + 1] = "i32"
  <2>1. i.op \in {"Call", "CallIndirect"} /\ q = Pops(i)
    BY ONLY <1>1, <1>4, <1>6
  <2> QED
    BY ONLY <2>1, <1>7, <1>9, l \in Nat, CallTypes
<1>11. \A k \in 1 .. Len(tys) : ops[k].ty = q[k] /\ Counts(x, q[k], ops[k].idx)
  <2> SUFFICES ASSUME NEW k \in 1 .. Len(tys) PROVE ops[k].ty = q[k] /\ Counts(x, q[k], ops[k].idx)
    OBVIOUS
  <2>1. PICK e : e = Operands(x, tys)[k] /\ e = ops[k]
    BY ONLY <1>8
  <2>2. i.op \notin {"End", "Else"} /\ x.ok /\ LowGood(x, K) /\ Expects(tys, q)
    BY ONLY <1>1, <1>3, <1>4, <1>10
  <2>3. q = Consumed(i, f)
    BY ONLY <1>6
  <2>4. e = Operands(x, tys)[k]
    BY ONLY <2>1
  <2>5. e.ty = q[k]
    BY ONLY <2>2, <2>3, <2>4, <1>5, k \in 1 .. Len(tys), OperandCounts
  <2>6. Counts(x, q[k], e.idx)
    BY ONLY <2>2, <2>3, <2>4, <1>5, k \in 1 .. Len(tys), OperandCounts
  <2> QED
    BY ONLY <2>1, <2>5, <2>6
<1>12. PICK io : io = [ty \in Types |-> IF y.io[ty] < CountOf(ty) THEN CountOf(ty) ELSE y.io[ty]]
  OBVIOUS
<1>13. PICK P : P = ArgsFit(ops)
  OBVIOUS
<1>14. PICK b : b = Checked(y, io, P)
  OBVIOUS
<1>15. PICK a, ty, rd : a = (IF ty = Void THEN b ELSE Push_temp_reg(b, ty)) /\ ty = i.ty /\ rd = b.next[ty]
  OBVIOUS
<1>16. PICK ms : ms = [k \in 1 .. l |-> Mov(ops[k].ty, 0, ops[k].idx)]
  OBVIOUS
<1>17. PICK u, h : /\ h = IF ty = Void THEN 0 ELSE 1
                   /\ u = Uinst(i.op, "i32", IF i.op = "Call" THEN << >> ELSE <<Last(ops).idx>>, NoLabel, h)
  OBVIOUS
<1>18. PICK r : r = Mov(ty, rd, 0)
  OBVIOUS
<1>19. PICK c, e : c = ms \o e /\ e = IF ty = Void THEN <<u>> ELSE <<u, r>>
  OBVIOUS
<1>20. PICK p : p = Len(code) + Len(ms) + 1
  OBVIOUS
<1>21. Turn(a, c) /\ calls' = Append(calls, p)
  <2>1. [y EXCEPT !.io = [s \in Types |-> IF @[s] < CountOf(s) THEN CountOf(s) ELSE @[s]],
                  !.ok = @ /\ P] = b
    BY ONLY <1>12, <1>14 DEF Checked
  <2>2. DOMAIN CalleeParams = 1 .. l
    BY ONLY <1>9
  <2> QED
    BY ONLY Conv_call, <2>1, <2>2, <1>2, <1>4, <1>7, <1>8, <1>13, <1>15, <1>16, <1>17, <1>18, <1>19, <1>20
       DEF Conv_call, ArgTypes, ArgsFit
<1>22. IsSeq(tys)
  BY ONLY <1>10 DEF Expects
<1>23. LowGood(y, K) /\ Grows(x, y)
  BY ONLY <1>3, <1>8, <1>22, LowPopAll
<1>24. ASSUME y.ok PROVE /\ io \in [Types -> Nat] /\ \A s \in Types : y.io[s] <= io[s]
                         /\ \A s \in Types : CountOf(s) <= io[s]
  <2>1. SizesTyped(y)
    BY ONLY <1>23, <1>24, GoodSizes DEF LowGood
  <2>2. y.io \in [Types -> Nat]
    BY ONLY <2>1 DEF SizesTyped
  <2>3. \A s \in Types : CountOf(s) \in Nat
    BY ONLY CountNat
  <2> QED
    BY ONLY <2>2, <2>3, <1>12
<1>25. LowGood(b, K) /\ Grows(y, b) /\ b.io = io
  <2>1. y.ok => io \in [Types -> Nat] /\ \A s \in Types : y.io[s] <= io[s]
    BY ONLY <1>24
  <2>2. LowGood(b, K)
    BY ONLY <2>1, <1>14, <1>23, LowIo
  <2>3. Grows(y, b)
    BY ONLY <2>1, <1>14, <1>23, LowIo
  <2>4. b.io = io
    BY ONLY <1>14, <1>23 DEF LowGood, AlGood, IsAl, Checked
  <2> QED
    BY ONLY <2>2, <2>3, <2>4
<1>26. ty \in Types \cup {Void}
  <2>1. WellFormed(i)
    BY ONLY <1>5 DEF Situation
  <2> QED
    BY <2>1, <1>1, <1>4, <1>15, WasmAssumption DEF WellFormed
<1>27. LowGood(a, K) /\ Grows(b, a)
  <2>1. CASE ty = Void
    <3>1. Grows(b, b)
      BY ONLY <1>25, GrowsSame DEF LowGood
    <3> QED
      BY ONLY <2>1, <3>1, <1>15, <1>25
  <2>2. CASE ty # Void
    <3>1. ty \in Types /\ a = Push_temp_reg(b, ty)
      BY ONLY <2>2, <1>15, <1>26
    <3> QED
      BY ONLY <3>1, <1>25, LowPushTemp
  <2> QED
    BY ONLY <2>1, <2>2
<1>28. Grows(y, a) /\ Grows(x, a)
  BY ONLY <1>23, <1>25, <1>27, GrowsOn
<1>29. IsSeq(ms) /\ Len(ms) = l
  <2>1. PICK T : T = {ms[k] : k \in 1 .. l}
    OBVIOUS
  <2>2. ms \in [1 .. l -> T]
    BY ONLY <2>1, <1>16
  <2>3. ms \in Seq(T) /\ Len(ms) = l
    BY ONLY <2>2, l \in Nat
  <2> QED
    BY ONLY <2>3 DEF IsSeq
<1>30. ASSUME a.ok PROVE CodeFenced(c, a)
  <2>1. b.ok
    BY ONLY <1>27, <1>30 DEF Grows
  <2>2. \A s \in Types : Counts(a, s, 0)
    BY ONLY <1>27, <1>30, CountsNext DEF LowGood
  <2>3. ty # Void => ty \in Types /\ Counts(b, ty, rd)
    BY ONLY <2>1, <1>15, <1>25, <1>26, CountsNext DEF LowGood
  <2>4. ty # Void => ty \in Types /\ Counts(a, ty, rd)
    BY ONLY <2>3, <1>27, <1>30, CountsOn
  <2>5. \A k \in 1 .. Len(tys) : Counts(a, q[k], ops[k].idx)
    BY ONLY <1>11, <1>28, <1>30, CountsOn
  <2>6. CodeFenced(ms, a)
    <3>1. ASSUME NEW k \in 1 .. l PROVE Fenced(ms[k], a)
      <4>1. PICK s, d : s = q[k] /\ d = ops[k].idx
        OBVIOUS
      <4>2. k \in 1 .. Len(tys)
        BY ONLY <3>1, <1>10
      <4>3. Counts(a, s, d) /\ ops[k].ty = s
        BY ONLY <4>1, <4>2, <2>5, <1>11
      <4>4. ms[k] = Mov(s, 0, d)
        BY ONLY <4>1, <4>3, <3>1, <1>16
      <4>5. s \in Types
        BY ONLY <4>3 DEF Counts
      <4> QED
        BY ONLY <4>3, <4>4, <4>5, <2>2, FormsFenced
    <3> QED
      BY ONLY <3>1, <1>29 DEF CodeFenced
  <2>7. ty # Void => Fenced(r, a)
    BY ONLY <2>2, <2>4, <1>18, FormsFenced
  <2>8. Fenced(u, a)
    <3>1. CASE i.op = "Call"
      <4>1. u = Uinst("Call", "i32", << >>, NoLabel, h)
        BY ONLY <3>1, <1>17
      <4> QED
        BY ONLY <4>1, UinstFenced
    <3>2. CASE i.op # "Call"
      <4>1. i.op = "CallIndirect"
        BY ONLY <3>2, <1>1, <1>4
      <4>2. Len(tys) = l + 1 /\ q[l + 1] = "i32" /\ l + 1 \in 1 .. Len(tys)
        BY ONLY <4>1, <1>10, l \in Nat
      <4>3. Last(ops) = ops[l + 1]
        <5>1. DOMAIN tys = 1 .. l + 1
          BY ONLY <4>2, <1>22 DEF IsSeq
        <5>2. ops = [k \in 1 .. l + 1 |-> Top(PopAll(x, SubSeq(tys, k + 1, Len(tys))), tys[k])]
          BY ONLY <5>1, <1>8 DEF Operands
        <5>3. PICK T : T = {ops[k] : k \in 1 .. l + 1}
          OBVIOUS
        <5>4. ops \in [1 .. l + 1 -> T]
          BY ONLY <5>2, <5>3
        <5>5. Len(ops) = l + 1
          BY ONLY <5>4, l \in Nat
        <5> QED
          BY ONLY <5>5 DEF Last
      <4>4. PICK d : d = ops[l + 1].idx /\ d = Last(ops).idx
        BY ONLY <4>3
      <4>5. Counts(a, "i32", d)
        BY ONLY <4>2, <4>4, <2>5
      <4>6. u = Uinst("CallIndirect", "i32", <<d>>, NoLabel, h)
        BY ONLY <4>1, <4>4, <1>17
      <4> QED
        BY ONLY <4>5, <4>6, UinstFenced
    <3> QED
      BY ONLY <3>1, <3>2
  <2>9. CodeFenced(e, a)
    BY ONLY <2>7, <2>8, <1>19, FencedList, FencedFew
  <2> QED
    BY ONLY <2>6, <2>9, <1>19, FencedConcat
<1>31. Emits(x, a, c)
  BY ONLY <1>27, <1>28, <1>30 DEF Emits, LowGood
<1>32. RegsFenced(graph, x) /\ CallsOK(code, calls, x) /\ CodeFenced(code, x)
  BY <1>1, <1>2 DEF WindowInv, Window
<1>33. ASSUME a.ok PROVE RegsFenced(graph', a)
  <2>1. RegsFenced(graph, a)
    BY ONLY <1>28, <1>32, <1>33, RegsOn
  <2> QED
    BY ONLY <2>1, <1>1
<1>34. ASSUME a.ok, CodeFenced(c, a) PROVE CallsOK(code \o c, calls', a)
  <2>1. IsSeq(code) /\ IsSeq(c)
    BY ONLY <1>32, <1>34 DEF CodeFenced
  <2>2. CallsOK(code \o c, calls, a)
    BY ONLY <2>1, <1>28, <1>32, <1>34, CallsOn
  <2>3. \A s \in Types : CountOf(s) <= a.io[s]
    <3>1. y.ok
      BY ONLY <1>28, <1>34 DEF Grows
    <3>2. \A s \in Types : CountOf(s) <= b.io[s]
      BY ONLY <3>1, <1>24, <1>25
    <3>3. SizesTyped(b) /\ SizesTyped(a) /\ \A s \in Types : b.io[s] <= a.io[s]
      BY ONLY <1>27, <1>34 DEF Grows
    <3>4. \A s \in Types : b.io[s] \in Nat /\ a.io[s] \in Nat
      BY ONLY <3>3 DEF SizesTyped
    <3>5. \A s \in Types : CountOf(s) \in Nat
      BY ONLY CountNat
    <3> QED
      BY ONLY <3>2, <3>3, <3>4, <3>5
  <2>4. ASSUME NEW k \in 1 .. l PROVE ms[k].op = "MOV" /\ ms[k].ty = CalleeParams[k]
    <3>1. ops[k].ty = CalleeParams[k]
      BY ONLY <2>4, <1>10, <1>11
    <3>2. ms[k] = Mov(ops[k].ty, 0, ops[k].idx)
      BY ONLY <2>4, <1>16
    <3>3. ms[k].op = "MOV" /\ ms[k].ty = ops[k].ty
      BY ONLY <3>2 DEF Mov, Uinst
    <3> QED
      BY ONLY <3>1, <3>3
  <2>5. \E n \in Nat \ {0} : n = Len(e) /\ IsSeq(e) /\ (e[1].k = 1 => n = 2 /\ e[2].op = "MOV")
    <3>1. r.op = "MOV" /\ u.k = h
      BY ONLY <1>17, <1>18 DEF Mov, Uinst
    <3>2. CASE ty = Void
      <4>1. e = <<u>> /\ h = 0
        BY ONLY <3>2, <1>17, <1>19
      <4>2. <<u>> \in Seq({u}) /\ Len(<<u>>) = 1 /\ <<u>>[1] = u
        OBVIOUS
      <4>3. IsSeq(e) /\ Len(e) = 1 /\ e[1].k = 0
        BY ONLY <4>1, <4>2, <3>1 DEF IsSeq
      <4> QED
        BY ONLY <4>3
    <3>3. CASE ty # Void
      <4>1. e = <<u, r>>
        BY ONLY <3>3, <1>19
      <4>2. <<u, r>> \in Seq({u, r}) /\ Len(<<u, r>>) = 2 /\ <<u, r>>[2] = r
        OBVIOUS
      <4>3. IsSeq(e) /\ Len(e) = 2 /\ e[2].op = "MOV"
        BY ONLY <4>1, <4>2, <3>1 DEF IsSeq
      <4> QED
        BY ONLY <4>3
    <3> QED
      BY ONLY <3>2, <3>3
  <2>6. CallOK(code \o (ms \o e), p, a)
    BY ONLY <2>1, <2>3, <2>4, <2>5, <1>9, <1>20, <1>29, l \in Nat, NewCall
  <2>7. CallOK(code \o c, p, a)
    BY ONLY <2>6, <1>19
  <2>8. CallsOK(code \o c, Append(calls, p), a)
    BY ONLY <2>2, <2>7, MoreCalls
  <2> QED
    BY ONLY <2>8, <1>21
<1> QED
  BY <1>1, <1>2, <1>21, <1>31, <1>33, <1>34, TurnWindow

-----------------------------------------------------------------------------
(* The registers of calls are put in.                                      *)

\* The registers of an instruction are inside the window.
InWindow(i, a) ==
  \A k \in DOMAIN i.r :
    i.r[k] < (RET_REG_NUM + a.size[FileOf(i, k)]) + (a.io[FileOf(i, k)] + RET_REG_NUM * 2)

\* What was counted, and the registers behind it.
LEMMA WindowHolds ==
  ASSUME NEW a, SizesTyped(a), NEW ty \in Types, NEW r \in Nat,
         r <= RET_REG_NUM + a.size[ty] \/ \E c \in Nat : c <= a.io[ty] /\ r = (RET_REG_NUM + a.size[ty]) + RET_REG_NUM + c
  PROVE  r < (RET_REG_NUM + a.size[ty]) + (a.io[ty] + RET_REG_NUM * 2)
<1>1. PICK s \in Nat : s = a.size[ty]
  BY DEF SizesTyped
<1>2. PICK o \in Nat : o = a.io[ty]
  BY DEF SizesTyped
<1>3. PICK n \in Nat \ {0} : n = RET_REG_NUM
  BY ConverterAssumption
<1>4. r <= n + s \/ \E c \in Nat : c <= o /\ r = (n + s) + n + c
  BY <1>1, <1>2, <1>3
<1>5. r < (n + s) + (o + n * 2)
  BY ONLY <1>4, n \in Nat \ {0}, s \in Nat, o \in Nat, r \in Nat
<1> QED
  BY ONLY <1>1, <1>2, <1>3, <1>5

\* The register of a parameter counts the parameters before it.
LEMMA ParamCount ==
  ASSUME NEW k \in DOMAIN CalleeParams, NEW S, S = {j \in 1 .. k - 1 : CalleeParams[j] = CalleeParams[k]}
  PROVE  Cardinality(S) \in Nat /\ Cardinality(S) <= CountOf(CalleeParams[k])
<1>1. PICK l \in Nat : l = Len(CalleeParams) /\ DOMAIN CalleeParams = 1 .. l
  BY WasmAssumption
<1>2. PICK T : T = {j \in 1 .. l : CalleeParams[j] = CalleeParams[k]}
  OBVIOUS
<1>3. S \subseteq T /\ T \subseteq 1 .. l
  BY <1>1, <1>2
<1>4. IsFiniteSet(T)
  <2>1. IsFiniteSet(1 .. l)
    BY FS_Interval
  <2> QED
    BY ONLY <2>1, <1>3, FS_Subset
<1>5. Cardinality(S) \in Nat /\ Cardinality(S) <= Cardinality(T)
  BY ONLY <1>3, <1>4, FS_Subset, FS_CardinalityType
<1>6. CountOf(CalleeParams[k]) = Cardinality(T)
  BY ONLY <1>1, <1>2 DEF CountOf
<1> QED
  BY ONLY <1>5, <1>6

\* One register of an instruction is replaced.
LEMMA PutInside ==
  ASSUME NEW i, IsInst(i), NEW a, SizesTyped(a), Fenced(i, a), NEW n, NEW x, NEW f, f = [i EXCEPT !.r[n] = x],
         n \in DOMAIN i.r => x < (RET_REG_NUM + a.size[FileOf(i, n)]) + (a.io[FileOf(i, n)] + RET_REG_NUM * 2)
  PROVE  InWindow(f, a)
<1>1. PICK y : y = [i.r EXCEPT ![n] = x]
  OBVIOUS
<1>2. f = [i EXCEPT !.r = y]
  BY <1>1
<1>3. f.r = y /\ f.op = i.op /\ f.ty = i.ty
  BY <1>2 DEF IsInst
<1>4. \A k : FileOf(f, k) = FileOf(i, k)
  BY ONLY <1>3 DEF FileOf
<1>5. DOMAIN y = DOMAIN i.r /\ \A k \in DOMAIN i.r : y[k] = IF k = n THEN x ELSE i.r[k]
  BY ONLY <1>1
<1>6. ASSUME NEW k \in DOMAIN i.r
      PROVE  y[k] < (RET_REG_NUM + a.size[FileOf(i, k)]) + (a.io[FileOf(i, k)] + RET_REG_NUM * 2)
  <2>1. CASE k = n
    BY ONLY <2>1, <1>5, <1>6,
            n \in DOMAIN i.r => x < (RET_REG_NUM + a.size[FileOf(i, n)]) + (a.io[FileOf(i, n)] + RET_REG_NUM * 2)
  <2>2. CASE k # n
    <3>1. PICK ty, r : ty = FileOf(i, k) /\ r = i.r[k]
      OBVIOUS
    <3>2. Counts(a, ty, r)
      BY ONLY <3>1, <1>6, Fenced(i, a) DEF Fenced
    <3>3. ty \in Types /\ r \in Nat /\ r <= RET_REG_NUM + a.size[ty]
      BY ONLY <3>2 DEF Counts
    <3>4. r < (RET_REG_NUM + a.size[ty]) + (a.io[ty] + RET_REG_NUM * 2)
      BY ONLY <3>3, SizesTyped(a), WindowHolds
    <3>5. y[k] = r
      BY ONLY <3>1, <2>2, <1>5, <1>6
    <3> QED
      BY ONLY <3>1, <3>4, <3>5
  <2> QED
    BY ONLY <2>1, <2>2
<1> QED
  BY ONLY <1>3, <1>4, <1>5, <1>6 DEF InWindow

\* An instruction that stays as it is.
LEMMA StaysInside ==
  ASSUME NEW i, NEW a, SizesTyped(a), Fenced(i, a)
  PROVE  InWindow(i, a)
<1>1. ASSUME NEW k \in DOMAIN i.r
      PROVE  i.r[k] < (RET_REG_NUM + a.size[FileOf(i, k)]) + (a.io[FileOf(i, k)] + RET_REG_NUM * 2)
  <2>1. PICK ty, r : ty = FileOf(i, k) /\ r = i.r[k]
    OBVIOUS
  <2>2. Counts(a, ty, r)
    BY ONLY <2>1, <1>1, Fenced(i, a) DEF Fenced
  <2>3. ty \in Types /\ r \in Nat /\ r <= RET_REG_NUM + a.size[ty]
    BY ONLY <2>2 DEF Counts
  <2>4. r < (RET_REG_NUM + a.size[ty]) + (a.io[ty] + RET_REG_NUM * 2)
    BY ONLY <2>3, SizesTyped(a), WindowHolds
  <2> QED
    BY ONLY <2>1, <2>4
<1> QED
  BY ONLY <1>1 DEF InWindow

\* FixedUp.
LEMMA FixedInside ==
  ASSUME NEW a, a = al, SizesTyped(a), NEW c, c = code, IsSeq(c), CallsOK(c, calls, a), NEW j \in 1 .. Len(c),
         NEW i, i = c[j], IsInst(i), Fenced(i, a), NEW f, f = FixedUp(j, i)
  PROVE  InWindow(f, a)
<1>1. PICK l \in Nat : l = Len(CalleeParams) /\ DOMAIN CalleeParams = 1 .. l
  BY WasmAssumption
<1>2. PICK S : S = {k \in 1 .. l : j - k + l + 1 \in Range(calls)}
  OBVIOUS
<1>3. S = {k \in DOMAIN CalleeParams : j - k + Len(CalleeParams) + 1 \in Range(calls)}
  BY ONLY <1>1, <1>2
<1>4. j \in Nat
  BY DEF IsSeq
<1>5. ASSUME NEW p \in Range(calls) PROVE CallOK(c, p, a)
  <2>1. IsSeq(calls) /\ \A n \in 1 .. Len(calls) : CallOK(c, calls[n], a)
    BY DEF CallsOK
  <2>2. DOMAIN calls = 1 .. Len(calls)
    BY ONLY <2>1 DEF IsSeq
  <2>3. PICK n \in DOMAIN calls : p = calls[n]
    BY ONLY <1>5 DEF Range
  <2> QED
    BY ONLY <2>1, <2>2, <2>3, n \in DOMAIN calls
<1>6. CASE S # {}
  <2>1. PICK k : k = (CHOOSE h \in S : TRUE)
    OBVIOUS
  <2>2. k \in S
    BY ONLY <2>1, <1>6
  <2>3. k \in 1 .. l /\ j - k + l + 1 \in Range(calls)
    BY ONLY <2>2, <1>2
  <2>4. PICK x : x = ParamReg(k)
    OBVIOUS
  <2>5. f = [i EXCEPT !.r[1] = x]
    BY ONLY <2>1, <2>4, <1>3, <1>6, f = FixedUp(j, i) DEF FixedUp
  <2>6. PICK p : p = j - k + l + 1 /\ CallOK(c, p, a)
    BY ONLY <2>3, <1>5
  <2>7. p - l - 1 + k = j
    BY ONLY <2>3, <2>6, <1>4, l \in Nat
  <2>8. i.op = "MOV" /\ i.ty = CalleeParams[k] /\ \A ty \in Types : CountOf(ty) <= a.io[ty]
    BY ONLY <2>3, <2>6, <2>7, <1>1, i = c[j] DEF CallOK
  <2>9. PICK ty : ty = CalleeParams[k] /\ ty \in Types /\ k \in DOMAIN CalleeParams
    BY <2>3, <1>1, WasmAssumption
  <2>10. PICK T : T = {h \in 1 .. k - 1 : CalleeParams[h] = CalleeParams[k]}
    OBVIOUS
  <2>11. Cardinality(T) \in Nat /\ Cardinality(T) <= CountOf(ty)
    BY ONLY <2>9, <2>10, ParamCount
  <2>12. PICK m \in Nat : m = Cardinality(T) /\ m <= a.io[ty]
    <3>1. CountOf(ty) \in Nat /\ CountOf(ty) <= a.io[ty]
      BY ONLY <2>8, <2>9, CountNat
    <3>2. a.io[ty] \in Nat
      BY ONLY <2>9, SizesTyped(a) DEF SizesTyped
    <3> QED
      BY ONLY <3>1, <3>2, <2>11
  <2>13. x = (RET_REG_NUM + a.size[ty]) + RET_REG_NUM + m
    BY ONLY <2>4, <2>9, <2>10, <2>12, a = al DEF ParamReg, LocalTotal
  <2>14. x \in Nat
    <3>1. RET_REG_NUM \in Nat /\ a.size[ty] \in Nat
      BY <2>9, ConverterAssumption DEF SizesTyped
    <3> QED
      BY ONLY <3>1, <2>13, m \in Nat
  <2>15. x < (RET_REG_NUM + a.size[ty]) + (a.io[ty] + RET_REG_NUM * 2)
    BY ONLY <2>9, <2>12, <2>13, <2>14, m \in Nat, SizesTyped(a), WindowHolds
  <2>16. PICK n : n = 1
    OBVIOUS
  <2>17. FileOf(i, n) = ty
    BY ONLY <2>8, <2>9 DEF FileOf
  <2>18. f = [i EXCEPT !.r[n] = x]
    BY ONLY <2>5, <2>16
  <2> QED
    BY ONLY <2>15, <2>17, <2>18, IsInst(i), SizesTyped(a), Fenced(i, a), PutInside
<1>7. CASE S = {} /\ j - 1 \in Range(calls) /\ c[j - 1].k = 1
  <2>1. PICK x : x = LocalTotal(i.ty)
    OBVIOUS
  <2>2. PICK n : n = 2
    OBVIOUS
  <2>3. f = [i EXCEPT !.r[n] = x]
    BY ONLY <2>1, <2>2, <1>3, <1>7, c = code, f = FixedUp(j, i) DEF FixedUp
  <2>4. PICK p : p = j - 1 /\ CallOK(c, p, a)
    BY ONLY <1>5, <1>7
  <2>5. p + 1 = j
    BY ONLY <2>4, <1>4
  <2>6. i.op = "MOV"
    BY ONLY <2>4, <2>5, <1>7, i = c[j] DEF CallOK
  <2>7. FileOf(i, n) = i.ty
    BY ONLY <2>6 DEF FileOf
  <2>8. ASSUME n \in DOMAIN i.r
        PROVE  x < (RET_REG_NUM + a.size[FileOf(i, n)]) + (a.io[FileOf(i, n)] + RET_REG_NUM * 2)
    <3>1. PICK ty : ty = i.ty
      OBVIOUS
    <3>2. ty \in Types
      BY ONLY <3>1, <2>7, <2>8, Fenced(i, a) DEF Fenced, Counts
    <3>3. x = RET_REG_NUM + a.size[ty]
      BY ONLY <3>1, <2>1, a = al DEF LocalTotal
    <3>4. RET_REG_NUM \in Nat /\ a.size[ty] \in Nat
      BY <3>2, ConverterAssumption DEF SizesTyped
    <3>5. x \in Nat /\ x <= RET_REG_NUM + a.size[ty]
      BY ONLY <3>3, <3>4
    <3>6. x < (RET_REG_NUM + a.size[ty]) + (a.io[ty] + RET_REG_NUM * 2)
      BY ONLY <3>2, <3>5, SizesTyped(a), WindowHolds
    <3> QED
      BY ONLY <3>1, <3>6, <2>7
  <2> QED
    BY ONLY <2>3, <2>8, IsInst(i), SizesTyped(a), Fenced(i, a), PutInside
<1>8. CASE S = {} /\ ~(j - 1 \in Range(calls) /\ c[j - 1].k = 1)
  <2>1. f = i
    BY ONLY <1>3, <1>8, c = code, f = FixedUp(j, i) DEF FixedUp
  <2> QED
    BY ONLY <2>1, SizesTyped(a), Fenced(i, a), StaysInside
<1> QED
  BY ONLY <1>6, <1>7, <1>8

\* The end of the conversion.
LEMMA FixWindow ==
  ASSUME ConvInv, CodeInv, WindowInv, Fix_up
  PROVE  WindowInv'
<1>1. phase = "fixup" /\ phase' = "done" /\ al' = al /\ code' = [j \in DOMAIN code |-> FixedUp(j, code[j])]
  BY DEF Fix_up
<1>2. PICK a, c, d : a = al /\ c = code /\ d = code'
  OBVIOUS
<1>3. CodeFenced(c, a) /\ CallsOK(c, calls, a)
  BY <1>1, <1>2 DEF WindowInv, Window
<1>4. SizesTyped(a)
  <2>1. a.ok /\ AlGood(a, KeptAt(graph, at))
    BY <1>1, <1>2 DEF ConvInv, AllocInv
  <2> QED
    BY ONLY <2>1, GoodSizes
<1>5. IsSeq(c) /\ \A j \in 1 .. Len(c) : IsInst(c[j])
  <2>1. PICK L : Emitted(c, L)
    BY <1>1, <1>2 DEF CodeInv, EmitInv
  <2> QED
    BY ONLY <2>1 DEF Emitted
<1>6. DOMAIN c = 1 .. Len(c)
  BY ONLY <1>5 DEF IsSeq
<1>7. d = [j \in 1 .. Len(c) |-> FixedUp(j, c[j])]
  BY ONLY <1>1, <1>2, <1>6
<1>8. ASSUME NEW j \in 1 .. Len(c) PROVE InWindow(d[j], a)
  <2>1. PICK i : i = c[j]
    OBVIOUS
  <2>2. PICK f : f = FixedUp(j, i)
    OBVIOUS
  <2>3. IsInst(i) /\ Fenced(i, a)
    BY ONLY <2>1, <1>3, <1>5, <1>8 DEF CodeFenced
  <2>4. InWindow(f, a)
    BY ONLY <2>1, <2>2, <2>3, <1>2, <1>3, <1>4, <1>5, <1>8, FixedInside
  <2>5. d[j] = f
    BY ONLY <2>1, <2>2, <1>7, <1>8
  <2> QED
    BY ONLY <2>4, <2>5
<1>9. DOMAIN d = 1 .. Len(c)
  BY ONLY <1>7
<1>10. \A j \in DOMAIN d : \A k \in DOMAIN d[j].r :
         d[j].r[k] < (RET_REG_NUM + a.size[FileOf(d[j], k)]) + (a.io[FileOf(d[j], k)] + RET_REG_NUM * 2)
  BY ONLY <1>8, <1>9 DEF InWindow
<1>11. RegistersInWindow'
  <2>1. al' = a /\ code' = d
    BY ONLY <1>1, <1>2
  <2> QED
    BY ONLY <2>1, <1>10 DEF RegistersInWindow, LocalTotal, Io
<1> QED
  BY ONLY <1>1, <1>11 DEF WindowInv

\* Every step.
LEMMA StepWindow ==
  ASSUME PlainForms, EnoughRegisters, Compares32, ConvInv, ConvInv', CodeInv, AbortInv, WindowInv, [Next]_vars
  PROVE  WindowInv'
<1>1. CASE UNCHANGED vars
  <2>1. UNCHANGED <<phase, code, graph, calls, al>>
    BY <1>1 DEF vars
  <2>2. RegistersInWindow'
    BY ONLY <2>1, WindowInv DEF WindowInv, RegistersInWindow, LocalTotal, Io
  <2>3. phase' \notin {"abort", "done"} => Window(code', graph', calls', al')
    BY ONLY <2>1, WindowInv DEF WindowInv
  <2> QED
    BY ONLY <2>2, <2>3 DEF WindowInv
<1>2. ASSUME NEW i \in alphabet.insts, Build_block_hierarchy(i) PROVE WindowInv'
  BY <1>2, ReadWindow
<1>3. CASE Conv_block \/ Conv_if
  BY <1>3, OpenWindow
<1>4. CASE Conv_else \/ Conv_br \/ Conv_br_if
  BY <1>4, BranchWindow
<1>5. CASE Conv_br_table
  BY <1>5, TableWindow
<1>6. CASE Conv_drop \/ Conv_nop \/ Conv_unreachable \/ Conv_local_get \/ Conv_local_set \/ Conv_return
  BY <1>6, PlainWindow
<1>7. CASE Conv_op
  BY <1>7, OpWindow
<1>8. CASE Conv_load
  BY <1>8, LoadWindow
<1>9. CASE Conv_store
  BY <1>9, StoreWindow
<1>10. CASE Conv_select
  BY <1>10, SelectWindow
<1>11. CASE Conv_call
  BY <1>11, CallWindow
<1>12. CASE Conv_end_block \/ Conv_end_unreachable
  BY <1>12, EndWindow
<1>13. CASE Conv_end_func
  BY <1>13, EndFuncWindow
<1>14. CASE Fix_up
  BY <1>14, FixWindow
<1> QED
  BY <1>1, <1>2, <1>3, <1>4, <1>5, <1>6, <1>7, <1>8, <1>9, <1>10, <1>11, <1>12, <1>13, <1>14 DEF Next

-----------------------------------------------------------------------------
\* Every register an instruction of a converted function names is inside the
\* window the machine gives to the function: no operand, result, scratch
\* register or argument lies behind what local_tab and io_tab count
\* (Allocate_register, Update_ubh_code and the loop over call_insts_pc).  The
\* functions are those of ConverterNeverAborts, with comparisons of i32 only.
THEOREM RegistersStayInWindow ==
  ASSUME PlainForms, EnoughRegisters, Compares32
  PROVE  Spec => []RegistersInWindow
<1>1. Init => AbortInv /\ WindowInv
  BY InitAbort, InitWindow
<1>2. ConvInv /\ CodeInv /\ AbortInv /\ [Next]_vars => AbortInv'
  BY StepAbort
<1>3. ConvInv /\ ConvInv' /\ CodeInv /\ AbortInv /\ WindowInv /\ [Next]_vars => WindowInv'
  BY StepWindow
<1>4. WindowInv => RegistersInWindow
  BY DEF WindowInv
<1> QED
  BY <1>1, <1>2, <1>3, <1>4, ConverterInvariant, CodeInvariant, PTL DEF Spec
=============================================================================
