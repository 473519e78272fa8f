----------------------------- MODULE CodeProofs -----------------------------
(***************************************************************************)
(* The code the converter emits is closed: CodeClosed of Converter, and    *)
(* the type invariant.  Labels are set when the instruction they belong to *)
(* is converted; every block has an end, so that none is left; and         *)
(* whatever comes last, it is a return, unless the function ends with      *)
(* unreachable.                                                            *)
(***************************************************************************)
EXTENDS ConverterProofs

-----------------------------------------------------------------------------
(* Sequences of register code.                                             *)

IsInst(i) == i = [x \in {"op", "ty", "r", "l", "k"} |-> i[x]]

\* Every label an instruction names is one of L.
Emitted(c, L) ==
  IsSeq(c) /\ \A j \in 1 .. Len(c) : IsInst(c[j]) /\ (c[j].l # NoLabel => c[j].l \in L)

\* An instruction, and one without a label.
LEMMA UinstFields ==
  ASSUME NEW op, NEW ty, NEW r, NEW l, NEW k, NEW i, i = Uinst(op, ty, r, l, k)
  PROVE  IsInst(i) /\ i.op = op /\ i.l = l
BY DEF Uinst, IsInst

\* No code names no label.
LEMMA EmptyEmitted == \A L : Emitted(<< >>, L)
<1>1. << >> \in Seq({}) /\ \A j \in 1 .. Len(<< >>) : FALSE
  OBVIOUS
<1> QED
  BY <1>1 DEF Emitted, IsSeq

\* A turn that emits one instruction.
LEMMA SingleEmitted ==
  ASSUME NEW L, NEW i, IsInst(i), i.l = NoLabel \/ i.l \in L
  PROVE  Emitted(<<i>>, L) /\ Len(<<i>>) = 1 /\ Last(<<i>>) = i
<1>1. <<i>> \in Seq({i}) /\ Len(<<i>>) = 1 /\ <<i>>[1] = i
  OBVIOUS
<1>2. \A j \in 1 .. 1 : j = 1
  OBVIOUS
<1>3. Emitted(<<i>>, L)
  BY <1>1, <1>2 DEF Emitted, IsSeq
<1> QED
  BY <1>1, <1>3 DEF Last

\* Two sequences one behind the other; both have elements of one set.
LEMMA ConcatSeq ==
  ASSUME NEW c, NEW d, IsSeq(c), IsSeq(d)
  PROVE  /\ IsSeq(c \o d) /\ Len(c) \in Nat /\ Len(d) \in Nat /\ Len(c \o d) = Len(c) + Len(d)
         /\ \A j \in 1 .. Len(c) : (c \o d)[j] = c[j]
         /\ \A j \in 1 .. Len(d) : (c \o d)[Len(c) + j] = d[j]
         /\ \A j \in 1 .. Len(c) + Len(d) : j \notin 1 .. Len(c) =>
              j - Len(c) \in 1 .. Len(d) /\ (c \o d)[j] = d[j - Len(c)]
<1>1. PICK S : c \in Seq(S)
  BY DEF IsSeq
<1>2. PICK T : d \in Seq(T)
  BY DEF IsSeq
<1>3. c \in Seq(S \cup T) /\ d \in Seq(S \cup T)
  <2>1. \A k \in 1 .. Len(c) : c[k] \in S \cup T
    BY <1>1, ElementOfSeq
  <2>2. \A k \in 1 .. Len(d) : d[k] \in S \cup T
    BY <1>2, ElementOfSeq
  <2> QED
    BY <2>1, <2>2, <1>1, <1>2
<1>4. PICK m \in Nat : m = Len(c)
  BY <1>3
<1>5. PICK n \in Nat : n = Len(d)
  BY <1>3
<1>6. /\ c \o d \in Seq(S \cup T) /\ Len(c \o d) = m + n
      /\ \A j \in 1 .. m + n : (c \o d)[j] = IF j <= m THEN c[j] ELSE d[j - m]
  BY <1>3, <1>4, <1>5, ConcatProperties
<1>7. /\ \A j \in 1 .. m : j \in 1 .. m + n /\ j <= m
      /\ \A j \in 1 .. n : m + j \in 1 .. m + n /\ ~(m + j <= m) /\ (m + j) - m = j
      /\ \A j \in 1 .. m + n : j \notin 1 .. m => ~(j <= m) /\ j - m \in 1 .. n
  BY <1>4, <1>5
<1>8. IsSeq(c \o d)
  BY <1>6 DEF IsSeq
<1>9. /\ \A j \in 1 .. m : (c \o d)[j] = c[j]
      /\ \A j \in 1 .. n : (c \o d)[m + j] = d[j]
      /\ \A j \in 1 .. m + n : j \notin 1 .. m => j - m \in 1 .. n /\ (c \o d)[j] = d[j - m]
  BY ONLY <1>6, <1>7
<1> QED
  BY ONLY <1>4, <1>5, <1>6, <1>8, <1>9

\* The code of two parts names the labels the parts name.
LEMMA ConcatEmitted ==
  ASSUME NEW L, NEW c, NEW d, Emitted(c, L), Emitted(d, L)
  PROVE  Emitted(c \o d, L)
<1>1. IsSeq(c) /\ IsSeq(d)
  BY DEF Emitted
<1>2. PICK m \in Nat : m = Len(c)
  BY <1>1, ConcatSeq
<1>3. PICK n \in Nat : n = Len(d)
  BY <1>1, ConcatSeq
<1>4. /\ IsSeq(c \o d) /\ Len(c \o d) = m + n
      /\ \A j \in 1 .. m : (c \o d)[j] = c[j]
      /\ \A j \in 1 .. m + n : j \notin 1 .. m => j - m \in 1 .. n /\ (c \o d)[j] = d[j - m]
  BY <1>1, <1>2, <1>3, ConcatSeq
<1>5. /\ \A j \in 1 .. m : IsInst(c[j]) /\ (c[j].l # NoLabel => c[j].l \in L)
      /\ \A j \in 1 .. n : IsInst(d[j]) /\ (d[j].l # NoLabel => d[j].l \in L)
  BY <1>2, <1>3 DEF Emitted
<1>6. ASSUME NEW j \in 1 .. m + n
      PROVE  IsInst((c \o d)[j]) /\ ((c \o d)[j].l # NoLabel => (c \o d)[j].l \in L)
  <2>1. CASE j \in 1 .. m
    BY ONLY <2>1, <1>4, <1>5
  <2>2. CASE j \notin 1 .. m
    BY ONLY <2>2, <1>4, <1>5, <1>6
  <2> QED
    BY <2>1, <2>2
<1> QED
  BY ONLY <1>4, <1>6 DEF Emitted

\* More labels to name.
LEMMA MoreEmitted ==
  ASSUME NEW L, NEW M, NEW c, Emitted(c, L), L \subseteq M
  PROVE  Emitted(c, M)
BY DEF Emitted

\* Append is concatenation with one element.
LEMMA AppendIs ==
  ASSUME NEW c, IsSeq(c), NEW i
  PROVE  Append(c, i) = c \o <<i>>
<1>1. PICK S : c \in Seq(S)
  BY DEF IsSeq
<1>2. c \in Seq(S \cup {i}) /\ i \in S \cup {i}
  <2>1. \A k \in 1 .. Len(c) : c[k] \in S \cup {i}
    BY <1>1, ElementOfSeq
  <2> QED
    BY <2>1, <1>1
<1> QED
  BY <1>2, AppendIsConcat

\* One more instruction behind emitted code.
LEMMA AppendEmitted ==
  ASSUME NEW L, NEW c, Emitted(c, L), NEW i, IsInst(i), i.l = NoLabel \/ i.l \in L
  PROVE  /\ Emitted(Append(c, i), L) /\ Append(c, i) # << >> /\ Last(Append(c, i)) = i
<1>1. IsSeq(c) /\ Append(c, i) = c \o <<i>>
  BY AppendIs DEF Emitted
<1>2. Emitted(<<i>>, L) /\ IsSeq(<<i>>) /\ Len(<<i>>) = 1 /\ <<i>>[1] = i
  BY SingleEmitted DEF Emitted
<1>3. Emitted(Append(c, i), L)
  BY <1>1, <1>2, ConcatEmitted
<1>4. PICK m \in Nat : m = Len(c)
  BY <1>1, <1>2, ConcatSeq
<1>5. Len(Append(c, i)) = m + 1 /\ Append(c, i)[m + 1] = i
  <2>1. /\ Len(c \o <<i>>) = Len(c) + Len(<<i>>)
        /\ \A j \in 1 .. Len(<<i>>) : (c \o <<i>>)[Len(c) + j] = <<i>>[j]
    BY <1>1, <1>2, ConcatSeq
  <2>2. 1 \in 1 .. 1
    OBVIOUS
  <2> QED
    BY ONLY <2>1, <2>2, <1>1, <1>2, <1>4
<1>6. Append(c, i) # << >>
  <2>1. Len(<< >>) = 0 /\ m + 1 # 0
    BY <1>4
  <2> QED
    BY ONLY <2>1, <1>5
<1> QED
  BY <1>3, <1>5, <1>6 DEF Last

-----------------------------------------------------------------------------
(* FlattenSeq is a recursive function: its value is reached step by step.  *)

FlatFcn(f, s, m) == f = [i \in 1 .. m |-> IF i = 1 THEN s[i] ELSE f[i - 1] \o s[i]]

\* The function behind FlattenSeq exists: the least length without one
\* would follow a length that has one.
LEMMA FlatExists ==
  ASSUME NEW s, NEW n \in Nat
  PROVE  \E f : FlatFcn(f, s, n)
<1> DEFINE T == {m \in 0 .. n : ~ \E f : FlatFcn(f, s, m)}
<1> SUFFICES ASSUME T # {} PROVE FALSE
  BY DEF T
<1>1. PICK m \in T : \A y \in T : m <= y
  <2>1. T \subseteq Nat
    OBVIOUS
  <2> QED
    BY <2>1, LeastNat
<1>2. m \in 0 .. n /\ ~ \E f : FlatFcn(f, s, m)
  OBVIOUS
<1>3. m # 0
  <2>1. FlatFcn(<< >>, s, 0)
    BY DEF FlatFcn
  <2> QED
    BY <2>1, <1>2
<1>4. m - 1 \in 0 .. n /\ m - 1 \notin T
  BY <1>1, <1>2, <1>3
<1>5. PICK f : FlatFcn(f, s, m - 1)
  BY <1>4
<1>6. PICK h : h = [i \in 1 .. m |-> IF i = 1 THEN s[i] ELSE f[i - 1] \o s[i]]
  OBVIOUS
<1>7. f = [i \in 1 .. m - 1 |-> IF i = 1 THEN s[i] ELSE f[i - 1] \o s[i]]
  BY <1>5 DEF FlatFcn
<1>8. \A i \in 1 .. m - 1 : f[i] = h[i]
  <2>1. \A i \in 1 .. m - 1 : i \in 1 .. m
    BY <1>2
  <2> QED
    BY ONLY <2>1, <1>6, <1>7
<1>9. \A i \in 1 .. m : i # 1 => i - 1 \in 1 .. m - 1
  BY <1>2
<1>10. h = [i \in 1 .. m |-> IF i = 1 THEN s[i] ELSE h[i - 1] \o s[i]]
  BY ONLY <1>6, <1>8, <1>9
<1>11. FlatFcn(h, s, m)
  BY ONLY <1>10 DEF FlatFcn
<1> QED
  BY <1>2, <1>11

\* Sequences of code one behind the other.
LEMMA FlatEmitted ==
  ASSUME NEW L, NEW s, IsSeq(s), \A k \in 1 .. Len(s) : Emitted(s[k], L)
  PROVE  Emitted(FlattenSeq(s), L)
<1>1. PICK n \in Nat : n = Len(s)
  BY DEF IsSeq
<1>2. CASE n = 0
  <2>1. s = << >>
    BY <1>1, <1>2, EmptySeq DEF IsSeq
  <2>2. FlattenSeq(s) = << >>
    BY <2>1, <1>1, <1>2 DEF FlattenSeq
  <2> QED
    BY <2>2, EmptyEmitted
<1>3. CASE n # 0
  <2>1. PICK f : f = CHOOSE z : FlatFcn(z, s, n)
    OBVIOUS
  <2>2. FlattenSeq(s) = f[n]
    BY <2>1, <1>1, <1>3 DEF FlattenSeq, FlatFcn
  <2>3. FlatFcn(f, s, n)
    BY <2>1, FlatExists
  <2>4. f = [i \in 1 .. n |-> IF i = 1 THEN s[i] ELSE f[i - 1] \o s[i]]
    BY <2>3 DEF FlatFcn
  <2> DEFINE T == {m \in 1 .. n : ~Emitted(f[m], L)}
  <2>5. T = {}
    <3> SUFFICES ASSUME T # {} PROVE FALSE
      OBVIOUS
    <3>1. T \subseteq Nat
      OBVIOUS
    <3>2. PICK m \in T : \A y \in T : m <= y
      BY <3>1, LeastNat
    <3>3. m \in 1 .. n /\ ~Emitted(f[m], L) /\ Emitted(s[m], L)
      BY <1>1
    <3>4. CASE m = 1
      <4>1. f[m] = s[m]
        BY ONLY <2>4, <3>3, <3>4
      <4> QED
        BY ONLY <4>1, <3>3
    <3>5. CASE m # 1
      <4>1. m - 1 \in 1 .. n /\ ~(m <= m - 1)
        BY <3>3, <3>5
      <4>2. Emitted(f[m - 1], L)
        BY <4>1, <3>2
      <4>3. f[m] = f[m - 1] \o s[m]
        BY ONLY <2>4, <3>3, <3>5
      <4> QED
        BY <4>2, <4>3, <3>3, ConcatEmitted
    <3> QED
      BY <3>4, <3>5
  <2>6. n \in 1 .. n
    BY <1>3
  <2> QED
    BY <2>2, <2>5, <2>6
<1> QED
  BY <1>2, <1>3

-----------------------------------------------------------------------------
(* The invariant.                                                          *)

\* Room for the ends of the blocks that are open.
SizeInv ==
  /\ phase = "read" => Len(ins) + Len(valid.ctl) + 1 <= alphabet.len
  /\ Len(ins) <= alphabet.len

LabelInv == IsSeq(code) /\ \A l \in DOMAIN labels : labels[l] \in 0 .. Len(code) + 1

\* Functions without two of the forms the converter gets wrong: unreachable
\* where the end of its block is reached another way, and unreachable
\* outside all blocks of a function with a result.
NoTrapJoins == "trapjoin" \notin Unusual
NoTrapEnds == "trapend" \notin Unusual

\* The function has a result and its last instruction is unreachable.
TrapAtEnd == fres # Void /\ Len(ins) > 1 /\ ins[Len(ins) - 1].op = "Unreachable"

\* The end of the function is its last instruction, and unreachable is
\* followed by the end of its block.
EndInv ==
  phase # "abort" =>
    /\ NoTrapJoins => \A k \in 1 .. Len(ins) - 1 :
         ins[k].op = "Unreachable" =>
           ins[k + 1].op = "End" /\ (NoTrapEnds /\ graph[k + 1].parent = 0 => fres = Void)
    /\ \A k \in 1 .. Len(ins) :
         ins[k].op = "End" /\ graph[k].parent = 0 => k = Len(ins) /\ phase # "read"
    /\ phase # "read" =>
         /\ Len(ins) # 0 /\ ins[Len(ins)].op = "End" /\ graph[Len(ins)].parent = 0
         /\ Len(ins) = 1 => fres = Void

DeadInv ==
  phase = "read" =>
    /\ Len(ins) = 0 => valid = StartValid
    /\ Len(ins) # 0 /\ ins[Len(ins)].op = "Unreachable" =>
         /\ valid.dead
         /\ NoTrapEnds /\ valid.ctl = << >> => fres = Void
         /\ NoTrapJoins /\ valid.ctl # << >> => InnerFrame(valid).op # "If"

\* The labels of blocks: all have an end, loops and elses also a begin.
LabelsOf(g) ==
  {<<"end", k>> : k \in {x \in 1 .. Len(g) : g[x].op \in BlockOps}}
  \cup {<<"begin", k>> : k \in {x \in 1 .. Len(g) : g[x].op \in {"Loop", "Else"}}}

EndedBy(g, t, k) ==
  \E e \in 1 .. t - 1 :
    /\ g[e].op = "End" /\ g[e].parent # 0
    /\ g[e].parent = k \/ (g[k].op = "If" /\ g[e].parent = g[k].els)

\* Whatever was converted has its labels set.
AllSet(g, t, ls) ==
  /\ \A k \in 1 .. Len(g) : g[k].op \in BlockOps /\ EndedBy(g, t, k) => ls[<<"end", k>>] # 0
  /\ \A k \in 1 .. t - 1 : g[k].op \in {"Loop", "Else"} => ls[<<"begin", k>>] # 0
  /\ \A l \in DOMAIN ls : l \in LabelsOf(g) \/ ls[l] # 0

Finished(c, ls) ==
  c # << >> /\ Last(c).op = "RETURN" /\ \A l \in DOMAIN ls : ls[l] <= Len(c)

EmitInv ==
  phase # "abort" =>
    /\ LabelsOf(graph) \subseteq DOMAIN labels
    /\ Emitted(code, DOMAIN labels)
    /\ AllSet(graph, at, labels)
    /\ phase \in {"fixup", "done"} =>
         at = Len(ins) + 1 /\ (NoTrapJoins => TrapAtEnd \/ Finished(code, labels))
    /\ phase = "convert" /\ at # 1 /\ ins[at - 1].op = "Return" => Finished(code, labels)

Clean(a) == \A k \in 1 .. Len(a.stk) : a.stk[k].kind # "UNREACHABLE"

\* What is on the stack as unreachable is on its top, and just put there.
StackInv ==
  NoTrapJoins /\ phase = "convert" =>
    \/ Clean(al)
    \/ /\ at # 1 /\ ins[at - 1].op = "Unreachable"
       /\ al.stk # << >> /\ Last(al.stk).kind = "UNREACHABLE"
       /\ \A k \in 1 .. Len(al.stk) - 1 : al.stk[k].kind # "UNREACHABLE"

CodeInv == SizeInv /\ LabelInv /\ EndInv /\ DeadInv /\ EmitInv /\ StackInv

\* The locals are set to 0 before anything else.
LEMMA InitCode == Init => CodeInv
<1> SUFFICES ASSUME Init PROVE CodeInv
  OBVIOUS
<1>1. /\ ins = << >> /\ graph = << >> /\ at = 1 /\ code = Init_locals /\ labels = << >>
      /\ phase = "read" /\ alphabet \in Alphabets /\ valid = StartValid
  BY DEF Init
<1>2. Len(<< >>) = 0 /\ DOMAIN << >> = {} /\ 1 .. 0 = {} /\ 0 \in Nat /\ 1 .. 1 - 1 = {}
      /\ 1 .. 0 - 1 = {}
  OBVIOUS
<1>3. alphabet.len \in Nat \ {0}
  BY <1>1, ConverterAssumption
<1>4. SizeInv
  <2>1. valid.ctl = << >>
    BY <1>1 DEF StartValid
  <2> QED
    BY <2>1, <1>1, <1>2, <1>3 DEF SizeInv
<1>5. Emitted(code, {})
  <2>1. PICK n \in Nat : n = Len(Vars) - NumParams
    BY WasmAssumption
  <2>2. code = [k \in 1 .. n |->
                  Uinst("CONST", Vars[NumParams + k], <<LocalReg(NumParams + k)>>, NoLabel, 0)]
    BY <2>1, <1>1 DEF Init_locals
  <2>3. \A k \in 1 .. n : IsInst(code[k]) /\ code[k].l = NoLabel
    BY <2>2, UinstFields
  <2>4. code = [k \in 1 .. n |-> code[k]]
    BY ONLY <2>2
  <2>5. [k \in 1 .. n |-> code[k]] \in Seq({code[k] : k \in 1 .. n}) /\ Len([k \in 1 .. n |-> code[k]]) = n
    OBVIOUS
  <2> QED
    BY ONLY <2>3, <2>4, <2>5 DEF Emitted, IsSeq
<1>6. LabelInv
  BY <1>1, <1>2, <1>5 DEF LabelInv, Emitted
<1>7. EndInv
  BY <1>1, <1>2 DEF EndInv
<1>8. DeadInv
  BY <1>1, <1>2 DEF DeadInv
<1>9. EmitInv
  <2>1. LabelsOf(graph) = {}
    BY <1>1, <1>2 DEF LabelsOf
  <2>2. AllSet(graph, at, labels)
    BY <1>1, <1>2 DEF AllSet
  <2> QED
    BY <2>1, <2>2, <1>1, <1>2, <1>5 DEF EmitInv
<1>10. StackInv
  BY <1>1 DEF StackInv
<1> QED
  BY <1>4, <1>6, <1>7, <1>8, <1>9, <1>10 DEF CodeInv

-----------------------------------------------------------------------------
ParentsKept(g, w, i, h) ==
  /\ \A k \in 1 .. Len(g) : h[k].parent = g[k].parent
  /\ i.op = "End" => h[Len(g) + 1].parent = Last(w)

\* Parents stay, and an end has the innermost block as its parent.
LEMMA HierarchyParents ==
  ASSUME NEW g, NEW w, NEW i, NEW h, NEW x, Hierarchy(g, w, i, h, x), GraphOK(g), WorkOK(w, g),
         WellFormed(i), i.op = "Else" => Len(w) # 1
  PROVE  ParentsKept(g, w, i, h)
<1> SUFFICES /\ \A k \in 1 .. Len(g) : h[k].parent = g[k].parent
             /\ i.op = "End" => h[Len(g) + 1].parent = Last(w)
  BY DEF ParentsKept
<1>1. PICK n \in Nat : n = Len(g) /\ g \in Seq(Stmts)
  BY DEF GraphOK
<1>2. PICK l \in 0 .. n : l = Last(w) /\ (Len(w) # 1 => Unended(g, l)) /\ l \in Nat
  <2>1. Last(w) \in 0 .. n /\ (Len(w) # 1 => Unended(g, Last(w)))
    BY <1>1, WorkLast
  <2>2. \A y \in 0 .. n : y \in Nat
    BY <1>1
  <2> QED
    BY ONLY <2>1, <2>2
<1>3. CASE i.op # "Else"
  <2>1. PICK s : s \in Stmts /\ s = Stmt(i, l) /\ s.parent = l
    BY <1>2, StmtGood
  <2>2. h = Append(g, s)
    BY <2>1, <1>2, <1>3 DEF Hierarchy, Opens
  <2>3. h[n + 1] = s /\ \A k \in 1 .. n : h[k] = g[k]
    BY <1>1, <2>1, <2>2, AppendProperties
  <2> QED
    BY ONLY <2>1, <2>3, <1>1, <1>2
<1>4. CASE i.op = "Else"
  <2>1. PICK s : h = Append([g EXCEPT ![l].els = Len(g) + 1], s)
    BY <1>2, <1>4 DEF Hierarchy, Opens
  <2>2. l \in 1 .. n /\ g[l] \in Stmts
    BY <1>1, <1>2, <1>4, StmtFields DEF Unended
  <2>3. PICK d : d = [g[l] EXCEPT !.els = n + 1]
    OBVIOUS
  <2>4. d.parent = g[l].parent
    BY <2>2, <2>3 DEF Stmts
  <2>5. PICK f : f = [g EXCEPT ![l].els = Len(g) + 1]
    OBVIOUS
  <2>6. f = [g EXCEPT ![l] = d]
    BY <2>3, <2>5, <1>1
  <2>7. DOMAIN g = 1 .. n
    BY <1>1
  <2>8. f = [k \in 1 .. n |-> IF k = l THEN d ELSE g[k]]
    BY ONLY <2>6, <2>7
  <2>9. IsSeq(f) /\ Len(f) = n
    <3>1. f = [k \in 1 .. n |-> f[k]]
      BY ONLY <2>8
    <3>2. [k \in 1 .. n |-> f[k]] \in Seq({f[k] : k \in 1 .. n}) /\ Len([k \in 1 .. n |-> f[k]]) = n
      OBVIOUS
    <3> QED
      BY ONLY <3>1, <3>2 DEF IsSeq
  <2>10. \A k \in 1 .. n : h[k] = f[k]
    <3>1. h = f \o <<s>> /\ IsSeq(<<s>>)
      <4>1. <<s>> \in Seq({s})
        OBVIOUS
      <4> QED
        BY <4>1, <2>1, <2>5, <2>9, AppendIs DEF IsSeq
    <3> QED
      BY <3>1, <2>9, ConcatSeq
  <2>11. \A k \in 1 .. n : h[k].parent = g[k].parent
    BY ONLY <2>4, <2>8, <2>10
  <2> QED
    BY ONLY <2>11, <1>1, <1>4
<1> QED
  BY <1>3, <1>4

\* The labels of one more statement.
LEMMA LabelsGrow ==
  ASSUME NEW g, NEW h, NEW n \in Nat, Len(g) = n, Len(h) = n + 1, NEW i, h[n + 1].op = i.op,
         \A k \in 1 .. n : h[k].op = g[k].op
  PROVE  LabelsOf(h) = LabelsOf(g) \cup (IF i.op \in BlockOps THEN Requested(i, n + 1) ELSE {})
<1>1. /\ \A k \in 1 .. n + 1 : k \in 1 .. n \/ k = n + 1
      /\ \A k \in 1 .. n : k \in 1 .. n + 1
      /\ n + 1 \in 1 .. n + 1
  OBVIOUS
<1> DEFINE Bg == {x \in 1 .. n : g[x].op \in BlockOps}
           Bh == {x \in 1 .. n + 1 : h[x].op \in BlockOps}
           Lg == {x \in 1 .. n : g[x].op \in {"Loop", "Else"}}
           Lh == {x \in 1 .. n + 1 : h[x].op \in {"Loop", "Else"}}
<1>2. Bh = Bg \cup (IF i.op \in BlockOps THEN {n + 1} ELSE {})
  BY <1>1
<1>3. Lh = Lg \cup (IF i.op \in {"Loop", "Else"} THEN {n + 1} ELSE {})
  BY <1>1
<1>4. LabelsOf(g) = {<<"end", k>> : k \in Bg} \cup {<<"begin", k>> : k \in Lg}
  BY DEF LabelsOf
<1>5. LabelsOf(h) = {<<"end", k>> : k \in Bh} \cup {<<"begin", k>> : k \in Lh}
  BY DEF LabelsOf
<1> HIDE DEF Bg, Bh, Lg, Lh
<1>6. CASE i.op \in BlockOps
  BY ONLY <1>2, <1>3, <1>4, <1>5, <1>6 DEF Requested
<1>7. CASE i.op \notin BlockOps
  <2>1. i.op \notin {"Loop", "Else"}
    BY <1>7 DEF BlockOps
  <2> QED
    BY ONLY <2>1, <1>2, <1>3, <1>4, <1>5, <1>7
<1> QED
  BY <1>6, <1>7

\* What reading an instruction changes, in one place.
LEMMA ReadFacts ==
  ASSUME ConvInv, NEW i \in alphabet.insts, Build_block_hierarchy(i),
         NEW g, g = graph, NEW h, h = graph', NEW n, n = Len(ins), NEW m, m = Len(valid.ctl)
  PROVE  /\ n \in Nat /\ m \in Nat /\ WellFormed(i) /\ Len(g) = n /\ Len(h) = n + 1
         /\ m = 0 <=> valid.ctl = << >>
         /\ Len(ins') = n + 1 /\ ins'[n + 1] = i /\ \A k \in 1 .. n : ins'[k] = ins[k]
         /\ h[n + 1].op = i.op
         /\ \A k \in 1 .. n : h[k].op = g[k].op /\ h[k].parent = g[k].parent
         /\ i.op = "End" => (h[n + 1].parent = 0 <=> valid.ctl = << >>)
         /\ phase = "read" /\ phase' \in {"read", "convert"}
         /\ phase' = "convert" <=> (i.op = "End" /\ valid.ctl = << >>)
         /\ phase' = "read" => valid' = Validated(valid, i, fres) /\ Len(valid'.ctl) = m + Deeper(i)
         /\ labels' = IF i.op \in BlockOps THEN Request(labels, Requested(i, n + 1)) ELSE labels
         /\ at' = at /\ at = 1 /\ code' = code /\ fres' = fres /\ alphabet' = alphabet
<1>1. /\ phase = "read" /\ ins' = Append(ins, i) /\ UNCHANGED <<alphabet, fres, at, code>>
      /\ phase' \in {"convert", "read"}
      /\ phase' = "convert" <=> (i.op = "End" /\ valid.ctl = << >>)
      /\ phase' = "read" => valid' = Validated(valid, i, fres)
      /\ IsValid(valid, i, fres)
  BY DEF Build_block_hierarchy
<1>2. /\ alphabet \in Alphabets /\ ins \in Seq(alphabet.insts)
      /\ Len(graph) = Len(ins) /\ GraphOK(graph) /\ \A k \in 1 .. Len(ins) : graph[k].op = ins[k].op
      /\ WorkOK(work, graph) /\ IsSeq(valid.ctl) /\ Len(work) = Len(valid.ctl) + 1 /\ at = 1
  BY <1>1 DEF ConvInv, InputInv, GraphInv, WorkInv
<1>3. n \in Nat /\ Len(g) = n
  BY <1>2
<1>4. /\ Len(ins') = n + 1 /\ ins'[n + 1] = i /\ \A k \in 1 .. n : ins'[k] = ins[k]
  BY <1>1, <1>2, <1>3, AppendProperties
<1>5. m \in Nat /\ (m = 0 <=> valid.ctl = << >>)
  <2>1. PICK S : valid.ctl \in Seq(S)
    BY <1>2 DEF IsSeq
  <2> QED
    BY <2>1, EmptySeq
<1>6. WellFormed(i)
  BY <1>2, ConverterAssumption
<1>7. i.op = "Else" => valid.ctl # << >>
  BY <1>1 DEF IsValid
<1>8. /\ Hierarchy(graph, work, i, graph', work')
      /\ labels' = IF i.op \in BlockOps THEN Request(labels, Requested(i, n + 1)) ELSE labels
  <2>1. Len(ins) + 1 = Len(graph) + 1
    BY <1>3
  <2>2. CASE Opens(i)
    <3>1. Create_new_block(i) /\ i.op \in BlockOps
      BY <2>2 DEF Build_block_hierarchy, Opens, BlockOps
    <3> QED
      BY <3>1, <2>1, <2>2 DEF Hierarchy, Create_new_block, Opens
  <2>3. CASE i.op = "Else"
    <3>1. Else_block(i) /\ ~Opens(i) /\ i.op \in BlockOps
      BY <2>3 DEF Build_block_hierarchy, Opens, BlockOps
    <3> QED
      BY <3>1, <2>1, <2>3 DEF Hierarchy, Else_block
  <2>4. CASE i.op # "Else" /\ ~Opens(i)
    <3>1. i.op \notin BlockOps
      BY <2>4 DEF Opens, BlockOps
    <3> QED
      BY <2>4, <3>1 DEF Build_block_hierarchy, Hierarchy
  <2> QED
    BY <2>2, <2>3, <2>4
<1>9. PICK w : w = work
  OBVIOUS
<1>10. PICK x : x = work'
  OBVIOUS
<1>11. Len(w) = m + 1 /\ (Len(w) # 1 <=> m # 0) /\ WorkOK(w, g) /\ GraphOK(g)
  <2>1. Len(w) = m + 1 /\ WorkOK(w, g) /\ GraphOK(g)
    BY <1>2, <1>9
  <2>2. m + 1 # 1 <=> m # 0
    BY <1>5
  <2> QED
    BY ONLY <2>1, <2>2
<1>12. Hierarchy(g, w, i, h, x) /\ (i.op = "Else" => Len(w) # 1)
  BY <1>5, <1>7, <1>8, <1>9, <1>10, <1>11
<1>13. /\ Len(h) = n + 1 /\ h[n + 1].op = i.op
       /\ \A k \in 1 .. n : h[k].op = g[k].op
  <2>1. /\ Len(h) = Len(g) + 1 /\ h[Len(g) + 1].op = i.op
        /\ \A k \in 1 .. Len(g) : h[k].op = g[k].op
    BY ONLY <1>6, <1>11, <1>12, HierarchyStep
  <2> QED
    BY ONLY <2>1, <1>3
<1>14. /\ \A k \in 1 .. n : h[k].parent = g[k].parent
       /\ i.op = "End" => h[n + 1].parent = Last(w)
  <2>1. ParentsKept(g, w, i, h)
    BY ONLY <1>6, <1>11, <1>12, HierarchyParents
  <2> QED
    BY ONLY <2>1, <1>3 DEF ParentsKept
<1>15. Last(w) = 0 <=> valid.ctl = << >>
  <2>1. /\ Len(w) = 1 => Last(w) = 0
        /\ Len(w) # 1 => Unended(g, Last(w))
    BY ONLY <1>11, WorkLast
  <2>2. ~Unended(g, 0)
    BY DEF Unended
  <2> QED
    BY ONLY <2>1, <2>2, <1>5, <1>11
<1>16. phase' = "read" => Len(valid'.ctl) = m + Deeper(i)
  <2> SUFFICES ASSUME phase' = "read" PROVE Len(valid'.ctl) = m + Deeper(i)
    OBVIOUS
  <2>1. PICK v : v = valid
    OBVIOUS
  <2>2. PICK u : u = valid'
    OBVIOUS
  <2>3. PICK f : f = fres
    OBVIOUS
  <2>4. u = Validated(v, i, f) /\ IsSeq(v.ctl) /\ (i.op \in {"End", "Else"} => v.ctl # << >>)
    BY <1>1, <1>2, <1>7, <2>1, <2>2, <2>3
  <2>5. Len(u.ctl) = Len(v.ctl) + Deeper(i)
    BY ONLY <2>4, CtlLen
  <2> QED
    BY ONLY <2>1, <2>2, <2>5, m = Len(valid.ctl)
<1>17. i.op = "End" => (h[n + 1].parent = 0 <=> valid.ctl = << >>)
  BY ONLY <1>14, <1>15
<1> QED
  BY ONLY <1>1, <1>2, <1>3, <1>4, <1>5, <1>6, <1>8, <1>13, <1>14, <1>16, <1>17

\* An instruction is read: unreachable is followed by the end of its block
\* because nothing else may follow it (ReachedOnly).
LEMMA ReadCode ==
  ASSUME ConvInv, CodeInv, NEW i \in alphabet.insts, Build_block_hierarchy(i)
  PROVE  CodeInv'
<1>1. PICK g : g = graph
  OBVIOUS
<1>2. PICK h : h = graph'
  OBVIOUS
<1>3. PICK n : n = Len(ins)
  OBVIOUS
<1>4. PICK m : m = Len(valid.ctl)
  OBVIOUS
<1>5. /\ n \in Nat /\ m \in Nat /\ WellFormed(i) /\ Len(g) = n /\ Len(h) = n + 1
      /\ m = 0 <=> valid.ctl = << >>
      /\ Len(ins') = n + 1 /\ ins'[n + 1] = i /\ \A k \in 1 .. n : ins'[k] = ins[k]
      /\ h[n + 1].op = i.op
      /\ \A k \in 1 .. n : h[k].op = g[k].op /\ h[k].parent = g[k].parent
      /\ i.op = "End" => (h[n + 1].parent = 0 <=> valid.ctl = << >>)
      /\ phase = "read" /\ phase' \in {"read", "convert"}
      /\ phase' = "convert" <=> (i.op = "End" /\ valid.ctl = << >>)
      /\ phase' = "read" => valid' = Validated(valid, i, fres) /\ Len(valid'.ctl) = m + Deeper(i)
      /\ labels' = IF i.op \in BlockOps THEN Request(labels, Requested(i, n + 1)) ELSE labels
      /\ at' = at /\ at = 1 /\ code' = code /\ fres' = fres /\ alphabet' = alphabet
  BY <1>1, <1>2, <1>3, <1>4, ReadFacts
<1>6. /\ IsValid(valid, i, fres) /\ ReachedOnly(valid, i)
      /\ i.op = "Unreachable" =>
           IF valid.ctl = << >> THEN fres = Void \/ "trapend" \in Unusual
           ELSE ~Joins(InnerFrame(valid)) \/ "trapjoin" \in Unusual
      /\ i.op # "End" => n + m + (IF Opens(i) THEN 3 ELSE 2) <= alphabet.len
  BY <1>3, <1>4 DEF Build_block_hierarchy, Usual
<1>7. /\ \A k \in 1 .. n + 1 : k \in 1 .. n \/ k = n + 1
      /\ \A k \in 1 .. n + 1 - 1 : k \in 1 .. n
      /\ n \in Int /\ n + 1 # 0
      /\ \A k \in 1 .. n : k # n => k \in 1 .. n - 1 /\ k + 1 \in 1 .. n
      /\ n # 0 => n \in 1 .. n
  BY <1>5
<1>8. SizeInv'
  <2>1. alphabet.len \in Nat \ {0}
    BY ConverterAssumption DEF ConvInv, InputInv
  <2>2. n + m + 1 <= alphabet.len
    BY <1>3, <1>4, <1>5 DEF CodeInv, SizeInv
  <2>3. n + 1 <= alphabet.len
    BY <2>1, <2>2, <1>5
  <2>4. ASSUME phase' = "read" PROVE n + 1 + (m + Deeper(i)) + 1 <= alphabet.len
    <3>1. CASE Opens(i)
      <4>1. Deeper(i) = 1 /\ n + m + 3 <= alphabet.len
        BY <3>1, <1>6 DEF Deeper, Opens
      <4> QED
        BY ONLY <4>1, <2>1, <1>5
    <3>2. CASE i.op = "End"
      <4>1. Deeper(i) = -1
        BY <3>2 DEF Deeper, Opens
      <4> QED
        BY <4>1, <2>1, <2>2, <1>5
    <3>3. CASE ~Opens(i) /\ i.op # "End"
      <4>1. Deeper(i) = 0 /\ n + m + 2 <= alphabet.len
        BY <3>3, <1>6 DEF Deeper
      <4> QED
        BY <4>1, <2>1, <1>5
    <3> QED
      BY <3>1, <3>2, <3>3
  <2>5. Len(ins') = n + 1 /\ alphabet' = alphabet /\ (phase' = "read" => Len(valid'.ctl) = m + Deeper(i))
    BY <1>5
  <2> QED
    BY <2>3, <2>4, <2>5 DEF SizeInv
<1>9. DOMAIN labels' = DOMAIN labels \cup (IF i.op \in BlockOps THEN Requested(i, n + 1) ELSE {})
  BY <1>5 DEF Request
<1>10. \A l \in DOMAIN labels' : labels'[l] = IF l \in DOMAIN labels THEN labels[l] ELSE 0
  BY <1>5 DEF Request
<1>11. LabelInv'
  <2>1. IsSeq(code) /\ \A l \in DOMAIN labels : labels[l] \in 0 .. Len(code) + 1
    BY DEF CodeInv, LabelInv
  <2>2. Len(code) \in Nat
    BY <2>1 DEF IsSeq
  <2>3. 0 \in 0 .. Len(code) + 1
    BY <2>2
  <2>4. \A l \in DOMAIN labels' : labels'[l] \in 0 .. Len(code) + 1
    BY ONLY <2>1, <2>3, <1>10
  <2> QED
    BY <2>1, <2>4, <1>5 DEF LabelInv
<1>12. NoTrapJoins /\ n # 0 /\ ins[n].op = "Unreachable" =>
         i.op = "End" /\ (NoTrapEnds /\ valid.ctl = << >> => fres = Void)
  <2> SUFFICES ASSUME NoTrapJoins, n # 0, ins[n].op = "Unreachable"
               PROVE  i.op = "End" /\ (NoTrapEnds /\ valid.ctl = << >> => fres = Void)
    OBVIOUS
  <2>1. /\ valid.dead
        /\ NoTrapEnds /\ valid.ctl = << >> => fres = Void
        /\ valid.ctl # << >> => InnerFrame(valid).op # "If"
    BY <1>3, <1>5 DEF CodeInv, DeadInv
  <2>2. i.op \in {"End", "Else"}
    BY <2>1, <1>6 DEF ReachedOnly
  <2>3. i.op # "Else"
    BY <2>1, <1>6 DEF IsValid
  <2> QED
    BY <2>1, <2>2, <2>3
<1>13. EndInv'
  <2>1. /\ NoTrapJoins => \A k \in 1 .. n - 1 :
             ins[k].op = "Unreachable" =>
               ins[k + 1].op = "End" /\ (NoTrapEnds /\ g[k + 1].parent = 0 => fres = Void)
        /\ \A k \in 1 .. n : ~(ins[k].op = "End" /\ g[k].parent = 0)
    BY <1>1, <1>3, <1>5 DEF CodeInv, EndInv
  <2>2. NoTrapJoins => \A k \in 1 .. n : ins'[k].op = "Unreachable" =>
          ins'[k + 1].op = "End" /\ (NoTrapEnds /\ h[k + 1].parent = 0 => fres = Void)
    <3> SUFFICES ASSUME NoTrapJoins, NEW k \in 1 .. n, ins'[k].op = "Unreachable"
                 PROVE  ins'[k + 1].op = "End" /\ (NoTrapEnds /\ h[k + 1].parent = 0 => fres = Void)
      OBVIOUS
    <3>1. CASE k # n
      <4>1. k \in 1 .. n - 1 /\ k + 1 \in 1 .. n
        BY ONLY <3>1, <1>7
      <4>2. ins[k].op = "Unreachable" /\ ins'[k + 1] = ins[k + 1] /\ h[k + 1].parent = g[k + 1].parent
        BY <4>1, <1>5
      <4> QED
        BY ONLY <4>1, <4>2, <2>1, NoTrapJoins
    <3>2. CASE k = n
      <4>1. n # 0 /\ ins[n].op = "Unreachable"
        BY <3>2, <1>5
      <4>2. i.op = "End" /\ (NoTrapEnds /\ valid.ctl = << >> => fres = Void)
        BY ONLY <4>1, <1>12, NoTrapJoins
      <4> QED
        BY <4>2, <3>2, <1>5
    <3> QED
      BY <3>1, <3>2
  <2>3. \A k \in 1 .. n + 1 : ins'[k].op = "End" /\ h[k].parent = 0 => k = n + 1 /\ phase' # "read"
    <3>1. \A k \in 1 .. n : ~(ins'[k].op = "End" /\ h[k].parent = 0)
      BY ONLY <2>1, <1>5
    <3>2. ins'[n + 1].op = "End" /\ h[n + 1].parent = 0 => phase' # "read"
      BY ONLY <1>5
    <3> QED
      BY ONLY <3>1, <3>2, <1>7
  <2>4. phase' # "read" => /\ ins'[n + 1].op = "End" /\ h[n + 1].parent = 0
                           /\ n + 1 = 1 => fres = Void
    <3> SUFFICES ASSUME phase' # "read"
                 PROVE  ins'[n + 1].op = "End" /\ h[n + 1].parent = 0 /\ (n + 1 = 1 => fres = Void)
      OBVIOUS
    <3>1. i.op = "End" /\ valid.ctl = << >>
      BY ONLY <1>5, phase' # "read"
    <3>2. ASSUME n + 1 = 1 PROVE fres = Void
      <4>1. n = 0
        BY <3>2, <1>5
      <4>2. valid = StartValid
        BY <4>1, <1>3, <1>5 DEF CodeInv, DeadInv
      <4>3. Closes(valid, fres)
        BY <3>1, <1>6 DEF IsValid
      <4>4. TypesOf(<< >>) = Result(fres)
        BY <4>2, <4>3 DEF Closes, StartValid, Own
      <4>5. DOMAIN TypesOf(<< >>) = {}
        BY DEF TypesOf
      <4>6. \A f : DOMAIN <<f>> # {}
        OBVIOUS
      <4> QED
        BY <4>4, <4>5, <4>6 DEF Result
    <3> QED
      BY <3>1, <3>2, <1>5
  <2>5. Len(ins') = n + 1 /\ fres' = fres /\ h = graph' /\ 1 .. n + 1 - 1 = 1 .. n /\ n + 1 # 0
    BY <1>2, <1>5
  <2>6. PICK j : j = ins'
    OBVIOUS
  <2>7. Len(j) = n + 1 /\ 1 .. Len(j) - 1 = 1 .. n /\ Len(j) # 0
    BY ONLY <2>5, <2>6, <1>7
  <2>8. /\ NoTrapJoins => \A k \in 1 .. Len(j) - 1 :
             j[k].op = "Unreachable" =>
               j[k + 1].op = "End" /\ (NoTrapEnds /\ h[k + 1].parent = 0 => fres = Void)
        /\ \A k \in 1 .. Len(j) :
             j[k].op = "End" /\ h[k].parent = 0 => k = Len(j) /\ phase' # "read"
        /\ phase' # "read" =>
             /\ Len(j) # 0 /\ j[Len(j)].op = "End" /\ h[Len(j)].parent = 0
             /\ Len(j) = 1 => fres = Void
    BY ONLY <2>2, <2>3, <2>4, <2>6, <2>7
  <2> QED
    BY ONLY <2>5, <2>6, <2>8 DEF EndInv
<1>14. DeadInv'
  <2> SUFFICES ASSUME phase' = "read", i.op = "Unreachable"
               PROVE  /\ valid'.dead
                      /\ NoTrapEnds /\ valid'.ctl = << >> => fres = Void
                      /\ NoTrapJoins /\ valid'.ctl # << >> => InnerFrame(valid').op # "If"
    BY <1>5, <1>7 DEF DeadInv, InnerFrame
  <2>1. valid' = Validated(valid, i, fres)
    BY <1>5
  <2>2. valid'.ctl = Hit(valid, i) /\ valid'.dead = Leaves(i)
    BY <2>1 DEF Validated, Opens
  <2>3. Hit(valid, i) = valid.ctl /\ Leaves(i)
    BY DEF Hit, Leaves
  <2>4. IF valid.ctl = << >> THEN fres = Void \/ ~NoTrapEnds
        ELSE ~Joins(InnerFrame(valid)) \/ ~NoTrapJoins
    BY <1>6 DEF NoTrapEnds, NoTrapJoins
  <2> QED
    BY <2>2, <2>3, <2>4 DEF InnerFrame, Joins
<1>15. EmitInv'
  <2>1. /\ LabelsOf(g) \subseteq DOMAIN labels
        /\ Emitted(code, DOMAIN labels)
        /\ \A l \in DOMAIN labels : l \in LabelsOf(g) \/ labels[l] # 0
    BY <1>1, <1>5 DEF CodeInv, EmitInv, AllSet
  <2>2. LabelsOf(h) = LabelsOf(g) \cup (IF i.op \in BlockOps THEN Requested(i, n + 1) ELSE {})
    BY ONLY <1>5, LabelsGrow
  <2>3. LabelsOf(h) \subseteq DOMAIN labels'
    BY ONLY <2>1, <2>2, <1>9
  <2>4. DOMAIN labels \subseteq DOMAIN labels'
    BY ONLY <1>9
  <2>5. PICK L : L = DOMAIN labels
    OBVIOUS
  <2>6. PICK M : M = DOMAIN labels'
    OBVIOUS
  <2>7. PICK c : c = code
    OBVIOUS
  <2>8. Emitted(c, M)
    BY <2>1, <2>4, <2>5, <2>6, <2>7, MoreEmitted
  <2>9. \A l \in DOMAIN labels' : l \in LabelsOf(h) \/ labels'[l] # 0
    BY ONLY <2>1, <2>2, <1>9, <1>10
  <2>10. 1 .. 1 - 1 = {}
    OBVIOUS
  <2>11. AllSet(h, 1, labels')
    BY ONLY <2>9, <2>10 DEF AllSet, EndedBy
  <2> QED
    BY <2>3, <2>6, <2>7, <2>8, <2>11, <1>2, <1>5 DEF EmitInv
<1>16. StackInv'
  <2>1. al' = al /\ al = Create_ubh_code
    BY <1>5 DEF Build_block_hierarchy, ConvInv, WorkInv
  <2>2. Create_ubh_code.stk = << >>
    BY DEF Create_ubh_code
  <2>3. \A k \in 1 .. Len(<< >>) : FALSE
    OBVIOUS
  <2>4. Clean(Create_ubh_code)
    BY <2>2, <2>3 DEF Clean
  <2> QED
    BY <2>1, <2>4 DEF StackInv
<1> QED
  BY <1>8, <1>11, <1>13, <1>14, <1>15, <1>16 DEF CodeInv

-----------------------------------------------------------------------------
(* A turn of the loop.                                                     *)

\* The labels N are set to x.
Labelled(ls, N, x, ms) ==
  /\ DOMAIN ms = DOMAIN ls \cup N
  /\ \A l \in DOMAIN ms : ms[l] = IF l \in N THEN x ELSE ls[l]

\* What is left of a statement when its registers are forgotten.
SameShape(g, h) ==
  /\ Len(h) = Len(g)
  /\ \A k \in 1 .. Len(g) : h[k].op = g[k].op /\ h[k].parent = g[k].parent /\ h[k].els = g[k].els

EndsOf(g, b) == {<<"end", b>>} \cup (IF g[b].op = "Else" THEN {<<"end", g[b].els>>} ELSE {})

\* The labels that belong to statement t are among N.
OwnLabels(g, t, N) ==
  /\ g[t].op \in {"Loop", "Else"} => <<"begin", t>> \in N
  /\ g[t].op = "End" /\ g[t].parent # 0 => EndsOf(g, g[t].parent) \subseteq N

\* A turn that sets the labels of its statement leaves none behind.
LEMMA AllSetStep ==
  ASSUME NEW g, GraphOK(g), NEW t \in 1 .. Len(g), NEW h, SameShape(g, h),
         NEW ls, LabelsOf(g) \subseteq DOMAIN ls, AllSet(g, t, ls),
         NEW N, NEW x, x # 0, NEW ms, Labelled(ls, N, x, ms), OwnLabels(g, t, N)
  PROVE  LabelsOf(h) \subseteq DOMAIN ms /\ AllSet(h, t + 1, ms)
<1>1. PICK n \in Nat : n = Len(g) /\ n = Len(h) /\ t \in 1 .. n
  BY DEF GraphOK, SameShape
<1>2. \A k \in 1 .. n : h[k].op = g[k].op /\ h[k].parent = g[k].parent /\ h[k].els = g[k].els
  BY <1>1 DEF SameShape
<1>3. LabelsOf(h) = LabelsOf(g)
  <2>1. /\ {k \in 1 .. n : h[k].op \in BlockOps} = {k \in 1 .. n : g[k].op \in BlockOps}
        /\ {k \in 1 .. n : h[k].op \in {"Loop", "Else"}} = {k \in 1 .. n : g[k].op \in {"Loop", "Else"}}
    BY ONLY <1>2
  <2> QED
    BY ONLY <2>1, <1>1 DEF LabelsOf
<1>4. LabelsOf(h) \subseteq DOMAIN ms
  BY <1>3 DEF Labelled
<1>5. \A l \in DOMAIN ms : l \in N => ms[l] # 0
  BY DEF Labelled
<1>6. \A l \in DOMAIN ms : l \in DOMAIN ls /\ ls[l] # 0 => ms[l] # 0
  BY DEF Labelled
<1>7. \A k \in 1 .. t + 1 - 1 : k \in 1 .. t - 1 \/ k = t
  BY <1>1
<1>8. \A k \in 1 .. t - 1 : k \in 1 .. n
  BY <1>1
<1>9. \A k \in 1 .. n : /\ g[k].op \in BlockOps => <<"end", k>> \in LabelsOf(g)
                        /\ g[k].op \in {"Loop", "Else"} => <<"begin", k>> \in LabelsOf(g)
  BY ONLY <1>1 DEF LabelsOf
<1>10. ASSUME NEW k \in 1 .. n, h[k].op \in BlockOps, EndedBy(h, t + 1, k)
       PROVE  ms[<<"end", k>>] # 0
  <2>1. g[k].op \in BlockOps /\ <<"end", k>> \in DOMAIN ms /\ <<"end", k>> \in DOMAIN ls
    BY <1>2, <1>4, <1>3, <1>9, <1>10
  <2>2. PICK e \in 1 .. t + 1 - 1 :
          /\ h[e].op = "End" /\ h[e].parent # 0
          /\ h[e].parent = k \/ (h[k].op = "If" /\ h[e].parent = h[k].els)
    BY ONLY <1>10 DEF EndedBy
  <2>3. e \in 1 .. n /\ (e \in 1 .. t - 1 \/ e = t)
    BY <2>2, <1>1, <1>7
  <2>4. /\ g[e].op = "End" /\ g[e].parent # 0
        /\ g[e].parent = k \/ (g[k].op = "If" /\ g[e].parent = g[k].els)
    BY ONLY <2>2, <2>3, <1>2, <1>10
  <2>5. CASE e \in 1 .. t - 1
    <3>1. EndedBy(g, t, k)
      BY ONLY <2>4, <2>5 DEF EndedBy
    <3>2. ls[<<"end", k>>] # 0
      BY ONLY <3>1, <2>1, <1>1, <1>10, AllSet(g, t, ls) DEF AllSet
    <3> QED
      BY ONLY <3>2, <2>1, <1>6
  <2>6. CASE e = t
    <3>1. EndsOf(g, g[t].parent) \subseteq N
      BY ONLY <2>4, <2>6, OwnLabels(g, t, N) DEF OwnLabels
    <3>2. <<"end", k>> \in EndsOf(g, g[t].parent)
      <4>1. CASE g[t].parent = k
        BY ONLY <4>1 DEF EndsOf
      <4>2. CASE g[k].op = "If" /\ g[t].parent = g[k].els
        <5>1. StmtOK(g, k) /\ g[k].els # 0
          BY <4>2, <2>4, <2>6, <1>1 DEF GraphOK
        <5>2. g[g[t].parent].op = "Else" /\ g[g[t].parent].els = k
          BY ONLY <5>1, <4>2 DEF StmtOK
        <5> QED
          BY ONLY <5>2 DEF EndsOf
      <4> QED
        BY ONLY <4>1, <4>2, <2>4, <2>6
    <3> QED
      BY ONLY <3>1, <3>2, <2>1, <1>5
  <2> QED
    BY ONLY <2>3, <2>5, <2>6
<1>11. ASSUME NEW k \in 1 .. t + 1 - 1, h[k].op \in {"Loop", "Else"}
       PROVE  ms[<<"begin", k>>] # 0
  <2>1. k \in 1 .. n /\ (k \in 1 .. t - 1 \/ k = t)
    BY <1>1, <1>7
  <2>2. /\ g[k].op \in {"Loop", "Else"}
        /\ <<"begin", k>> \in DOMAIN ms /\ <<"begin", k>> \in DOMAIN ls
    BY <2>1, <1>2, <1>3, <1>4, <1>9, <1>11
  <2>3. CASE k \in 1 .. t - 1
    <3>1. ls[<<"begin", k>>] # 0
      BY ONLY <2>2, <2>3, AllSet(g, t, ls) DEF AllSet
    <3> QED
      BY ONLY <3>1, <2>2, <1>6
  <2>4. CASE k = t
    BY ONLY <2>2, <2>4, <1>5, OwnLabels(g, t, N) DEF OwnLabels
  <2> QED
    BY ONLY <2>1, <2>3, <2>4
<1>12. ASSUME NEW l \in DOMAIN ms PROVE l \in LabelsOf(h) \/ ms[l] # 0
  <2>1. CASE l \in N
    BY ONLY <2>1, <1>5, <1>12
  <2>2. CASE l \notin N
    <3>1. l \in DOMAIN ls
      BY ONLY <2>2, <1>12, Labelled(ls, N, x, ms) DEF Labelled
    <3>2. l \in LabelsOf(g) \/ ls[l] # 0
      BY ONLY <3>1, AllSet(g, t, ls) DEF AllSet
    <3> QED
      BY ONLY <3>1, <3>2, <1>3, <1>6, <1>12
  <2> QED
    BY <2>1, <2>2
<1>13. AllSet(h, t + 1, ms)
  BY ONLY <1>1, <1>10, <1>11, <1>12 DEF AllSet
<1> QED
  BY <1>4, <1>13


\* A return behind the last label.
LEMMA ReturnFinishes ==
  ASSUME NEW k, IsSeq(k), NEW ls, \A l \in DOMAIN ls : ls[l] \in 0 .. Len(k) + 1,
         NEW c, IsSeq(c), c # << >>, Last(c).op = "RETURN"
  PROVE  Finished(k \o c, ls)
<1>1. PICK m \in Nat : m = Len(k)
  BY DEF IsSeq
<1>2. PICK n \in Nat \ {0} : n = Len(c)
  <2>1. PICK S : c \in Seq(S)
    BY DEF IsSeq
  <2> QED
    BY <2>1, EmptySeq
<1>3. Len(k \o c) = m + n /\ (k \o c)[m + n] = c[n]
  <2>1. /\ Len(k \o c) = Len(k) + Len(c)
        /\ \A j \in 1 .. Len(c) : (k \o c)[Len(k) + j] = c[j]
    BY ConcatSeq
  <2>2. n \in 1 .. n
    BY <1>2
  <2> QED
    BY ONLY <2>1, <2>2, <1>1, <1>2
<1>4. Last(k \o c).op = "RETURN"
  BY <1>2, <1>3 DEF Last
<1>5. k \o c # << >>
  <2>1. Len(<< >>) = 0 /\ m + n # 0
    BY <1>1, <1>2
  <2> QED
    BY ONLY <2>1, <1>3
<1>6. \A l \in DOMAIN ls : ls[l] <= m + n
  BY <1>1, <1>2
<1> QED
  BY <1>3, <1>4, <1>5, <1>6 DEF Finished

\* What a turn must do for the invariant to stay.
LEMMA TurnCode ==
  ASSUME ConvInv, CodeInv, phase = "convert", NEW a, NEW c, Turn(a, c), IsSeq(c),
         NEW g, g = graph, NEW h, h = graph', SameShape(g, h),
         NEW N, NEW p \in 0 .. Len(c), NEW ls, ls = labels, NEW ms, ms = labels',
         Labelled(ls, N, Len(code) + p + 1, ms),
         a.ok => Emitted(c, DOMAIN ms) /\ OwnLabels(g, at, N),
         a.ok /\ (Cur.op = "Return" \/ at = Len(ins)) =>
           \/ N = {} /\ c # << >> /\ Last(c).op = "RETURN"
           \/ Finished(code', ms)
           \/ Cur.op # "Return" /\ (NoTrapJoins => TrapAtEnd)
  PROVE  SizeInv' /\ LabelInv' /\ EndInv' /\ DeadInv' /\ EmitInv'
<1>1. /\ al' = a /\ code' = code \o c /\ at' = at + 1
      /\ phase' = IF ~a.ok THEN "abort" ELSE IF at = Len(ins) THEN "fixup" ELSE "convert"
      /\ alphabet' = alphabet /\ fres' = fres /\ ins' = ins
  BY DEF Turn, input
<1>2. PICK t : t = at
  OBVIOUS
<1>3. PICK n \in Nat : n = Len(ins) /\ n = Len(g) /\ n = Len(h) /\ t \in 1 .. n /\ t \in Nat /\ GraphOK(g)
  <2>1. GraphOK(g) /\ t \in 1 .. Len(g) /\ t \in Nat /\ Len(ins) = Len(g)
    BY <1>2, TurnStart
  <2> QED
    BY <2>1 DEF GraphOK, SameShape
<1>4. phase' # "read"
  BY <1>1
<1>5. SizeInv'
  BY <1>1, <1>4 DEF CodeInv, SizeInv
<1>6. DeadInv'
  BY <1>4 DEF DeadInv
<1>7. EndInv'
  <2>1. /\ NoTrapJoins => \A k \in 1 .. n - 1 :
             ins[k].op = "Unreachable" =>
               ins[k + 1].op = "End" /\ (NoTrapEnds /\ g[k + 1].parent = 0 => fres = Void)
        /\ \A k \in 1 .. n : ins[k].op = "End" /\ g[k].parent = 0 => k = n
        /\ n # 0 /\ ins[n].op = "End" /\ g[n].parent = 0
        /\ n = 1 => fres = Void
    BY <1>3 DEF CodeInv, EndInv
  <2>2. \A k \in 1 .. n : h[k].parent = g[k].parent
    BY <1>3 DEF SameShape
  <2>3. n \in 1 .. n /\ \A k \in 1 .. n - 1 : k + 1 \in 1 .. n
    BY <1>3
  <2>4. /\ NoTrapJoins => \A k \in 1 .. n - 1 :
             ins[k].op = "Unreachable" =>
               ins[k + 1].op = "End" /\ (NoTrapEnds /\ h[k + 1].parent = 0 => fres = Void)
        /\ \A k \in 1 .. n : ins[k].op = "End" /\ h[k].parent = 0 => k = n
        /\ h[n].parent = 0
    BY ONLY <2>1, <2>2, <2>3
  <2> QED
    BY <2>1, <2>4, <1>1, <1>3, <1>4 DEF EndInv
<1>8. /\ IsSeq(code) /\ \A l \in DOMAIN ls : ls[l] \in 0 .. Len(code) + 1
      /\ LabelsOf(g) \subseteq DOMAIN ls /\ Emitted(code, DOMAIN ls) /\ AllSet(g, t, ls)
  BY <1>2 DEF CodeInv, LabelInv, EmitInv
<1>9. PICK k : k = code
  OBVIOUS
<1>10. PICK m \in Nat : m = Len(k) /\ IsSeq(k)
  BY <1>8, <1>9 DEF IsSeq
<1>11. PICK z \in Nat : z = Len(c)
  BY DEF IsSeq
<1>12. PICK y : y = k \o c
  OBVIOUS
<1>13. IsSeq(y) /\ Len(y) = m + z /\ code' = y
  BY <1>1, <1>9, <1>10, <1>11, <1>12, ConcatSeq
<1>14. /\ \A l \in DOMAIN ms : ms[l] \in 0 .. m + z + 1
       /\ m + p + 1 \in 1 .. m + z + 1 /\ m + p + 1 # 0
  <2>1. /\ m + p + 1 \in 1 .. m + z + 1 /\ m + p + 1 # 0 /\ m + p + 1 \in 0 .. m + z + 1
        /\ \A v \in 0 .. m + 1 : v \in 0 .. m + z + 1
    BY <1>10, <1>11
  <2>2. \A l \in DOMAIN ls : ls[l] \in 0 .. m + 1
    BY <1>8, <1>9, <1>10
  <2>3. Labelled(ls, N, m + p + 1, ms)
    BY <1>9, <1>10
  <2> QED
    BY ONLY <2>1, <2>2, <2>3 DEF Labelled
<1>15. LabelInv'
  <2>1. \A l \in DOMAIN ms : ms[l] \in 0 .. Len(y) + 1
    BY ONLY <1>13, <1>14
  <2> QED
    BY <2>1, <1>13 DEF LabelInv
<1>16. ASSUME a.ok
       PROVE  /\ LabelsOf(h) \subseteq DOMAIN ms /\ Emitted(y, DOMAIN ms) /\ AllSet(h, t + 1, ms)
              /\ Cur.op = "Return" => Finished(y, ms)
              /\ t = n => Finished(y, ms) \/ (NoTrapJoins => TrapAtEnd)
  <2>1. LabelsOf(h) \subseteq DOMAIN ms /\ AllSet(h, t + 1, ms)
    <3>1. OwnLabels(g, t, N) /\ Labelled(ls, N, m + p + 1, ms) /\ t \in 1 .. Len(g)
      BY <1>2, <1>3, <1>9, <1>10, <1>16
    <3> QED
      BY <3>1, <1>3, <1>8, <1>14, AllSetStep
  <2>2. Emitted(y, DOMAIN ms)
    <3>1. DOMAIN ls \subseteq DOMAIN ms
      BY DEF Labelled
    <3>2. PICK L : L = DOMAIN ls
      OBVIOUS
    <3>3. PICK M : M = DOMAIN ms
      OBVIOUS
    <3>4. Emitted(k, M)
      BY <3>1, <3>2, <3>3, <1>8, <1>9, MoreEmitted
    <3>5. Emitted(c, M)
      BY <3>3, <1>16
    <3> QED
      BY <3>3, <3>4, <3>5, <1>12, ConcatEmitted
  <2>3. ASSUME Cur.op = "Return" \/ t = n
        PROVE  Finished(y, ms) \/ (Cur.op # "Return" /\ (NoTrapJoins => TrapAtEnd))
    <3>1. \/ N = {} /\ c # << >> /\ Last(c).op = "RETURN"
          \/ Finished(code', ms)
          \/ Cur.op # "Return" /\ (NoTrapJoins => TrapAtEnd)
      BY <2>3, <1>2, <1>3, <1>16
    <3>2. CASE Finished(code', ms)
      BY <3>2, <1>13
    <3>3. CASE N = {} /\ c # << >> /\ Last(c).op = "RETURN"
      <4>1. \A l \in DOMAIN ms : ms[l] \in 0 .. Len(k) + 1
        BY <3>3, <1>8, <1>9 DEF Labelled
      <4>2. IsSeq(k) /\ IsSeq(c) /\ c # << >> /\ Last(c).op = "RETURN"
        BY <3>3, <1>10
      <4>3. Finished(k \o c, ms)
        BY ONLY <4>1, <4>2, ReturnFinishes
      <4> QED
        BY ONLY <4>3, <1>12
    <3> QED
      BY <3>1, <3>2, <3>3
  <2> QED
    BY <2>1, <2>2, <2>3
<1>17. EmitInv'
  <2> SUFFICES ASSUME phase' # "abort"
               PROVE  /\ LabelsOf(h) \subseteq DOMAIN ms
                      /\ Emitted(y, DOMAIN ms)
                      /\ AllSet(h, t + 1, ms)
                      /\ phase' \in {"fixup", "done"} =>
                           t + 1 = Len(ins) + 1 /\ (NoTrapJoins => TrapAtEnd \/ Finished(y, ms))
                      /\ phase' = "convert" /\ ins[(t + 1) - 1].op = "Return" => Finished(y, ms)
    BY <1>1, <1>2, <1>13 DEF EmitInv, TrapAtEnd
  <2>1. a.ok /\ (phase' \in {"fixup", "done"} => t = n)
    BY <1>1, <1>2, <1>3
  <2>2. (t + 1) - 1 = t /\ ins[t] = Cur
    BY <1>2, <1>3 DEF Cur
  <2> QED
    BY <2>1, <2>2, <1>3, <1>16
<1> QED
  BY <1>5, <1>6, <1>7, <1>15, <1>17


-----------------------------------------------------------------------------
(* Nothing but Conv_unreachable puts an unreachable value on the stack.    *)

CleanGood(a, K) == AlGood(a, K) /\ (a.ok => Clean(a))

\* One more value that is not unreachable.
LEMMA CleanAppend ==
  ASSUME NEW a, IsSeq(a.stk), Clean(a), NEW e, e.kind # "UNREACHABLE", NEW b, b.stk = Append(a.stk, e)
  PROVE  Clean(b)
<1>1. PICK s : s = a.stk
  OBVIOUS
<1>2. PICK r : r = b.stk
  OBVIOUS
<1>3. IsSeq(s) /\ r = s \o <<e>> /\ IsSeq(<<e>>) /\ Len(<<e>>) = 1 /\ <<e>>[1] = e
  <2>1. <<e>> \in Seq({e}) /\ Len(<<e>>) = 1 /\ <<e>>[1] = e
    OBVIOUS
  <2> QED
    BY <2>1, <1>1, <1>2, AppendIs DEF IsSeq
<1>4. PICK m \in Nat : m = Len(s)
  BY <1>3 DEF IsSeq
<1>5. /\ Len(s \o <<e>>) = Len(s) + Len(<<e>>)
      /\ \A j \in 1 .. Len(s) : (s \o <<e>>)[j] = s[j]
      /\ \A j \in 1 .. Len(<<e>>) : (s \o <<e>>)[Len(s) + j] = <<e>>[j]
  BY <1>3, ConcatSeq
<1>6. 1 \in 1 .. 1 /\ \A j \in 1 .. m + 1 : j \in 1 .. m \/ j = m + 1
  BY <1>4
<1>7. Len(r) = m + 1 /\ r[m + 1] = e /\ \A j \in 1 .. m : r[j] = s[j]
  BY ONLY <1>3, <1>4, <1>5, <1>6
<1>8. \A j \in 1 .. m : s[j].kind # "UNREACHABLE"
  BY <1>1, <1>4 DEF Clean
<1>9. \A j \in 1 .. Len(r) : r[j].kind # "UNREACHABLE"
  BY ONLY <1>6, <1>7, <1>8, e.kind # "UNREACHABLE"
<1> QED
  BY <1>2, <1>9 DEF Clean

\* Without the topmost value.
LEMMA CleanFront ==
  ASSUME NEW S, NEW s \in Seq(S), s # << >>, \A k \in 1 .. Len(s) - 1 : s[k].kind # "UNREACHABLE",
         NEW b, b.stk = Front(s)
  PROVE  Clean(b)
<1>1. /\ Len(Front(s)) = Len(s) - 1
      /\ \A k \in 1 .. Len(s) - 1 : Front(s)[k] = s[k]
  BY FrontOf
<1>2. \A k \in 1 .. Len(Front(s)) : Front(s)[k].kind # "UNREACHABLE"
  BY ONLY <1>1, \A k \in 1 .. Len(s) - 1 : s[k].kind # "UNREACHABLE"
<1> QED
  BY ONLY <1>2, b.stk = Front(s) DEF Clean

\* Popping a wasm operand leaves no mark of unreachable code.
LEMMA CleanPop ==
  ASSUME NEW a, NEW K, CleanGood(a, K), NEW ty, NEW c, c = Pop_wasm_stk(a, ty)
  PROVE  CleanGood(c, K)
<1>1. /\ AlGood(a, K) /\ AlGood(c, K)
      /\ c.ok => a.ok /\ a.stk # << >> /\ c.stk = Front(a.stk)
  BY PopGood DEF CleanGood
<1>2. ASSUME c.ok PROVE Clean(c)
  <2>1. a.ok /\ a.stk # << >> /\ c.stk = Front(a.stk) /\ a.stk \in Seq(Elems) /\ Clean(a)
    BY <1>1, <1>2 DEF CleanGood, AlGood, AlSound, AlTyped
  <2>2. \A k \in 1 .. Len(a.stk) - 1 : k \in 1 .. Len(a.stk)
    BY <2>1
  <2>3. \A k \in 1 .. Len(a.stk) - 1 : a.stk[k].kind # "UNREACHABLE"
    BY <2>1, <2>2 DEF Clean
  <2> QED
    BY <2>1, <2>3, CleanFront
<1> QED
  BY <1>1, <1>2 DEF CleanGood

\* So does popping the operands of an instruction or a call.
LEMMA CleanPopAll ==
  ASSUME NEW a, NEW K, CleanGood(a, K), NEW tys, IsSeq(tys), NEW c, c = PopAll(a, tys)
  PROVE  CleanGood(c, K)
<1>1. AlGood(a, K)
  BY DEF CleanGood
<1>2. /\ AlGood(c, K)
      /\ c.ok => /\ a.ok /\ Len(c.stk) = Len(a.stk) - Len(tys)
                 /\ \A k \in 1 .. Len(c.stk) : c.stk[k] = a.stk[k]
  BY <1>1, PopAllGood
<1>3. ASSUME c.ok PROVE Clean(c)
  <2>1. Clean(a) /\ Len(a.stk) \in Nat /\ Len(tys) \in Nat
    <3>1. a.ok /\ a.stk \in Seq(Elems)
      BY <1>1, <1>2, <1>3 DEF AlGood, AlSound, AlTyped
    <3> QED
      BY <3>1 DEF CleanGood, IsSeq
  <2>2. Len(c.stk) = Len(a.stk) - Len(tys) /\ \A k \in 1 .. Len(c.stk) : c.stk[k] = a.stk[k]
    BY <1>2, <1>3
  <2>3. \A k \in 1 .. Len(c.stk) : k \in 1 .. Len(a.stk)
    BY <2>1, <2>2
  <2> QED
    BY <2>1, <2>2, <2>3 DEF Clean
<1> QED
  BY <1>2, <1>3 DEF CleanGood

\* A temporary is pushed: the new element is not a mark.
LEMMA CleanPushTemp ==
  ASSUME NEW a, NEW K, CleanGood(a, K), NEW ty \in Types, NEW c, c = Push_temp_reg(a, ty)
  PROVE  CleanGood(c, K)
<1>1. AlGood(a, K)
  BY DEF CleanGood
<1>2. AlGood(c, K) /\ (c.ok => a.ok /\ c.stk = Append(a.stk, Elem("TEMP", ty, a.next[ty])))
  BY <1>1, PushTempGood
<1>3. ASSUME c.ok PROVE Clean(c)
  <2>1. PICK e : e = Elem("TEMP", ty, a.next[ty])
    OBVIOUS
  <2>2. e.kind # "UNREACHABLE"
    BY <2>1 DEF Elem
  <2>3. Clean(a) /\ IsSeq(a.stk) /\ c.stk = Append(a.stk, e)
    BY <2>1, <1>1, <1>2, <1>3 DEF CleanGood, AlGood
  <2> QED
    BY <2>2, <2>3, CleanAppend
<1> QED
  BY <1>2, <1>3 DEF CleanGood

\* The same stack.
LEMMA CleanSame ==
  ASSUME NEW a, NEW K, CleanGood(a, K), NEW b, b.ok => a.ok, b.stk = a.stk
  PROVE  b.ok => Clean(b)
BY DEF CleanGood, Clean

\* The scratch register is given back at once.
LEMMA CleanScratch ==
  ASSUME NEW a, NEW K, CleanGood(a, K), NEW b, b = WithScratch(a)
  PROVE  CleanGood(b, K)
<1>1. PICK c : c = Push_temp_reg(a, "i32")
  OBVIOUS
<1>2. CleanGood(c, K)
  <2>1. "i32" \in Types
    BY DEF Types
  <2> QED
    BY <2>1, <1>1, CleanPushTemp
<1>3. b = Pop_wasm_stk(c, "i32")
  BY <1>1 DEF WithScratch
<1> QED
  BY <1>2, <1>3, CleanPop

\* The conversion of one instruction, as far as the marks are concerned.
LEMMA TurnStack ==
  ASSUME NEW a, NEW c, Turn(a, c), a.ok => Clean(a)
  PROVE  StackInv'
<1>1. al' = a /\ (phase' = "convert" => a.ok)
  BY DEF Turn
<1>2. phase' = "convert" => Clean(a)
  BY <1>1
<1> QED
  BY <1>1, <1>2 DEF StackInv

\* The stack a turn starts with: an unreachable value is met by the end of
\* its block only, or by that of the function.
LEMMA StartClean ==
  ASSUME ConvInv, CodeInv, phase = "convert", NoTrapJoins
  PROVE  /\ Cur.op # "End" => Clean(al)
         /\ ~IsUnreachable(al) => Clean(al)
         /\ Me.parent = 0 /\ fres # Void => Clean(al) \/ TrapAtEnd
         /\ IsUnreachable(al) => \A k \in 1 .. Len(al.stk) - 1 : al.stk[k].kind # "UNREACHABLE"
<1>1. at \in 1 .. Len(ins) /\ Len(ins) \in Nat /\ IsSeq(al.stk)
  BY DEF ConvInv, InputInv, AllocInv, AlGood
<1>2. CASE Clean(al)
  <2>1. Len(al.stk) \in Nat
    BY <1>1 DEF IsSeq
  <2>2. \A k \in 1 .. Len(al.stk) - 1 : k \in 1 .. Len(al.stk)
    BY <2>1
  <2> QED
    BY <2>2, <1>2 DEF Clean
<1>3. CASE ~Clean(al)
  <2>1. /\ at # 1 /\ ins[at - 1].op = "Unreachable"
        /\ al.stk # << >> /\ Last(al.stk).kind = "UNREACHABLE"
        /\ \A k \in 1 .. Len(al.stk) - 1 : al.stk[k].kind # "UNREACHABLE"
    BY <1>3 DEF CodeInv, StackInv
  <2>2. IsUnreachable(al)
    BY <2>1 DEF IsUnreachable
  <2>3. at - 1 \in 1 .. Len(ins) - 1 /\ (at - 1) + 1 = at
    BY <2>1, <1>1
  <2>4. \A k \in 1 .. Len(ins) - 1 : ins[k].op = "Unreachable" => ins[k + 1].op = "End"
    BY DEF CodeInv, EndInv
  <2>5. ins[at].op = "End"
    <3>1. ins[(at - 1) + 1].op = "End"
      BY ONLY <2>1, <2>3, <2>4
    <3> QED
      BY ONLY <3>1, <2>3
  <2>6. ASSUME Me.parent = 0, fres # Void PROVE TrapAtEnd
    <3>1. at = Len(ins)
      BY <2>5, <2>6, <1>1 DEF CodeInv, EndInv, Me
    <3> QED
      BY <3>1, <2>1, <2>6, <1>1 DEF TrapAtEnd
  <2> QED
    BY <2>1, <2>2, <2>5, <2>6 DEF Cur, Me
<1> QED
  BY <1>2, <1>3

\* An assertion that may fail.
LEMMA CleanCheck ==
  ASSUME NEW a, NEW K, CleanGood(a, K), NEW P, NEW b, b = [a EXCEPT !.ok = @ /\ P]
  PROVE  CleanGood(b, K)
<1>1. AlGood(a, K)
  BY DEF CleanGood
<1>2. AlGood(b, K)
  BY <1>1, CheckGood
<1>3. b.ok = (a.ok /\ P) /\ b.stk = a.stk
  BY <1>1 DEF AlGood, IsAl
<1>4. b.ok => Clean(b)
  BY <1>3, CleanSame
<1> QED
  BY <1>2, <1>4 DEF CleanGood

\* The same with the callee's parameters counted.
LEMMA CleanIo ==
  ASSUME NEW a, NEW K, CleanGood(a, K), NEW q, a.ok => q \in [Types -> Nat], NEW P,
         NEW b, b = [a EXCEPT !.io = q, !.ok = @ /\ P]
  PROVE  CleanGood(b, K)
<1>1. AlGood(a, K)
  BY DEF CleanGood
<1>2. AlGood(b, K)
  BY <1>1, IoGood
<1>3. b.ok = (a.ok /\ P) /\ b.stk = a.stk
  BY <1>1 DEF AlGood, IsAl
<1>4. b.ok => Clean(b)
  BY <1>3, CleanSame
<1> QED
  BY <1>2, <1>4 DEF CleanGood

\* A local is put on the stack.
LEMMA CleanPush ==
  ASSUME NEW a, NEW K, CleanGood(a, K), NEW e \in Elems, e.kind \notin {"TEMP", "UNREACHABLE"},
         NEW b, b = Push(a, e)
  PROVE  CleanGood(b, K)
<1>1. AlGood(b, K) /\ b.ok = a.ok /\ b.stk = Append(a.stk, e) /\ IsSeq(a.stk)
  BY PushGood DEF CleanGood, AlGood
<1>2. a.ok => Clean(b)
  BY <1>1, CleanAppend DEF CleanGood
<1> QED
  BY <1>1, <1>2 DEF CleanGood

\* A temporary of whatever type.
LEMMA CleanPushAny ==
  ASSUME NEW a, NEW K, CleanGood(a, K), NEW ty, a.ok => ty \in Types, NEW c, c = Push_temp_reg(a, ty), c.ok
  PROVE  CleanGood(c, K)
<1>1. a.ok
  BY DEF Push_temp_reg, Push, Allocate_register, CleanGood, AlGood, IsAl
<1> QED
  BY <1>1, CleanPushTemp

\* Else and the branches.
LEMMA CheckedStack ==
  ASSUME ConvInv, CodeInv, NoTrapJoins, Conv_else \/ Conv_br \/ Conv_br_if \/ Conv_br_table
  PROVE  StackInv'
<1>1. /\ phase = "convert" /\ graph' = graph /\ Cur.op \notin Openers /\ Cur.op # "End"
  BY DEF Conv_else, Conv_br, Conv_br_if, Conv_br_table, Converting, Openers, Quiet
<1>2. PICK K : K = KeptAt(graph, at)
  OBVIOUS
<1>3. PICK x : x = al /\ CleanGood(x, K)
  <2>1. AlGood(al, K) /\ Clean(al)
    BY <1>1, <1>2, StartClean, TurnStart
  <2> QED
    BY <2>1 DEF CleanGood
<1>4. ASSUME NEW y, CleanGood(y, K), NEW t PROVE CleanGood(Mov_checked(y, t), K)
  <2>1. PICK P : P = (t = 0 \/ graph[t].res = Void \/ y.stk = << >> \/ Last(y.stk).ty = graph[t].res)
    OBVIOUS
  <2>2. PICK b : b = [y EXCEPT !.ok = @ /\ P]
    OBVIOUS
  <2>3. CleanGood(b, K)
    BY <2>2, <1>4, CleanCheck
  <2> QED
    BY <2>1, <2>2, <2>3 DEF Mov_checked
<1>5. ASSUME NEW y, CleanGood(y, K) PROVE CleanGood(InFunction(y), K)
  <2>1. PICK P : P = (\A d \in Range(Cur.n) : Get_parent_stmt_for_branch(d) # 0)
    OBVIOUS
  <2>2. PICK b : b = [y EXCEPT !.ok = @ /\ P]
    OBVIOUS
  <2>3. CleanGood(b, K)
    BY <2>2, <1>5, CleanCheck
  <2> QED
    BY <2>1, <2>2, <2>3 DEF InFunction
<1>6. \E a, c : Turn(a, c) /\ CleanGood(a, K)
  <2>1. CASE Conv_else
    <3>1. PICK t : t = at
      OBVIOUS
    <3>2. \E c : Turn(Mov_checked(x, t), c)
      BY <2>1, <3>1, <1>3 DEF Conv_else
    <3> QED
      BY <3>2, <1>3, <1>4
  <2>2. CASE Conv_br
    <3>1. PICK t : t = Get_parent_stmt_for_branch(Cur.n[1])
      OBVIOUS
    <3>2. \E c : Turn(InFunction(Mov_checked(x, t)), c)
      BY <2>2, <3>1, <1>3 DEF Conv_br
    <3>3. PICK y : y = Mov_checked(x, t)
      OBVIOUS
    <3>4. CleanGood(y, K)
      BY <3>3, <1>3, <1>4
    <3> QED
      BY <3>2, <3>3, <3>4, <1>5
  <2>3. CASE Conv_br_if
    <3>1. PICK t : t = Get_parent_stmt_for_branch(Cur.n[1])
      OBVIOUS
    <3>2. PICK z : z = Pop_wasm_stk(x, "i32")
      OBVIOUS
    <3>3. \E c : Turn(InFunction(Mov_checked(z, t)), c)
      BY <2>3, <3>1, <3>2, <1>3 DEF Conv_br_if
    <3>4. CleanGood(z, K)
      BY <3>2, <1>3, CleanPop
    <3>5. PICK y : y = Mov_checked(z, t)
      OBVIOUS
    <3>6. CleanGood(y, K)
      BY <3>4, <3>5, <1>4
    <3> QED
      BY <3>3, <3>5, <3>6, <1>5
  <2>4. CASE Conv_br_table
    <3>1. PICK b : b = WithScratch(x)
      OBVIOUS
    <3>2. PICK z : z = Pop_wasm_stk(b, "i32")
      OBVIOUS
    <3>3. PICK P : P = (\A t \in {Get_parent_stmt_for_branch(d) : d \in Range(Cur.n)} : Mov_checked(z, t).ok)
      OBVIOUS
    <3>4. PICK y : y = [z EXCEPT !.ok = @ /\ P]
      OBVIOUS
    <3>5. \E c : Turn(InFunction(y), c)
      BY <2>4, <3>1, <3>2, <3>3, <3>4, <1>3 DEF Conv_br_table
    <3>6. CleanGood(b, K)
      BY <3>1, <1>3, CleanScratch
    <3>7. CleanGood(z, K)
      BY <3>2, <3>6, CleanPop
    <3>8. CleanGood(y, K)
      BY <3>4, <3>7, CleanCheck
    <3> QED
      BY <3>5, <3>8, <1>5
  <2> QED
    BY <2>1, <2>2, <2>3, <2>4
<1>7. PICK a, c : Turn(a, c) /\ CleanGood(a, K)
  BY <1>6
<1> QED
  BY <1>7, TurnStack DEF CleanGood

\* Instructions with a result in a temporary register.
LEMMA ValueStack ==
  ASSUME ConvInv, CodeInv, NoTrapJoins, Conv_op \/ Conv_load \/ Conv_store \/ Conv_select \/ Conv_call
  PROVE  StackInv'
<1>1. /\ phase = "convert" /\ graph' = graph /\ Cur.op \notin Openers /\ Cur.op # "End"
  BY DEF Conv_op, Conv_load, Conv_store, Conv_select, Conv_call, Converting, Openers, Quiet
<1>2. PICK K : K = KeptAt(graph, at)
  OBVIOUS
<1>3. PICK x : x = al /\ CleanGood(x, K)
  <2>1. AlGood(al, K) /\ Clean(al)
    BY <1>1, <1>2, StartClean, TurnStart
  <2> QED
    BY <2>1 DEF CleanGood
<1>4. PICK i : i = Cur /\ WellFormed(i)
  BY <1>1, TurnStart
<1>5. PICK s : s = WithScratch(x) /\ CleanGood(s, K)
  BY <1>3, CleanScratch
<1>6. "i32" \in Types /\ CalleeRes \in Types
  BY WasmAssumption DEF Types
<1>7. \E a, c : Turn(a, c) /\ (a.ok => CleanGood(a, K))
  <2>1. CASE Conv_op
    <3>1. PICK tys : tys = Expected(x, i) /\ IsSeq(tys)
      <4>1. \A u, v : IsSeq(<<u, v>>) /\ IsSeq(<<u>>)
        <5> SUFFICES ASSUME NEW u, NEW v PROVE IsSeq(<<u, v>>) /\ IsSeq(<<u>>)
          OBVIOUS
        <5>1. <<u>> \in Seq({u, v}) /\ <<u, v>> \in Seq({u, v})
          OBVIOUS
        <5> QED
          BY <5>1 DEF IsSeq
      <4>2. IsSeq(Pops(i))
        BY <1>4, PopsPushes
      <4> QED
        BY <4>1, <4>2 DEF Expected
    <3>2. PICK y : y = PopAll(x, tys) /\ CleanGood(y, K)
      BY <3>1, <1>3, CleanPopAll
    <3>3. \E c : Turn(IF Pushes(i) # << >> THEN Push_temp_reg(y, Pushes(i)[1]) ELSE y, c)
      BY <2>1, <3>1, <3>2, <1>3, <1>4 DEF Conv_op
    <3>4. CASE Pushes(i) # << >>
      <4>1. Pushes(i)[1] \in Types
        BY <3>4, <1>4, PopsPushes
      <4>2. CleanGood(Push_temp_reg(y, Pushes(i)[1]), K)
        BY <4>1, <3>2, CleanPushTemp
      <4> QED
        BY <4>2, <3>3, <3>4
    <3>5. CASE Pushes(i) = << >>
      BY <3>2, <3>3, <3>5
    <3> QED
      BY <3>4, <3>5
  <2>2. CASE Conv_load
    <3>1. PICK y : y = Pop_wasm_stk(s, "i32") /\ CleanGood(y, K)
      BY <1>5, CleanPop
    <3>2. i.ty \in Types
      BY <2>2, <1>4 DEF Conv_load, Converting, WellFormed
    <3>3. CleanGood(Push_temp_reg(y, i.ty), K)
      BY <3>1, <3>2, CleanPushTemp
    <3>4. \E c : Turn(Push_temp_reg(y, i.ty), c)
      BY <2>2, <3>1, <1>3, <1>4, <1>5 DEF Conv_load
    <3> QED
      BY <3>3, <3>4
  <2>3. CASE Conv_store
    <3>1. PICK tys : tys = <<"i32", i.ty>> /\ IsSeq(tys)
      <4>1. <<"i32", i.ty>> \in Seq({"i32", i.ty})
        OBVIOUS
      <4> QED
        BY <4>1 DEF IsSeq
    <3>2. CleanGood(PopAll(s, tys), K)
      BY <3>1, <1>5, CleanPopAll
    <3>3. \E c : Turn(PopAll(s, tys), c)
      BY <2>3, <3>1, <1>3, <1>4, <1>5 DEF Conv_store
    <3> QED
      BY <3>2, <3>3
  <2>4. CASE Conv_select
    <3>1. PICK b : b = Pop_wasm_stk(s, "i32") /\ CleanGood(b, K)
      BY <1>5, CleanPop
    <3>2. PICK r : r = Top(b, Void).ty
      OBVIOUS
    <3>3. PICK d : d = Pop_wasm_stk(b, Void)
      OBVIOUS
    <3>4. CleanGood(d, K) /\ (d.ok => b.ok /\ b.stk # << >>)
      BY <3>1, <3>3, CleanPop, PopGood DEF CleanGood
    <3>5. PICK y : y = Pop_wasm_stk(d, r)
      OBVIOUS
    <3>6. CleanGood(y, K) /\ (y.ok => d.ok)
      BY <3>4, <3>5, CleanPop, PopGood DEF CleanGood
    <3>7. ASSUME y.ok PROVE r \in Types
      <4>1. b.ok /\ b.stk # << >>
        BY <3>4, <3>6, <3>7
      <4>2. b.stk \in Seq(Elems)
        BY <4>1, <3>1 DEF CleanGood, AlGood, AlSound, AlTyped
      <4>3. Last(b.stk) \in Elems
        BY <4>1, <4>2, FrontOf
      <4>4. Top(b, Void) = Last(b.stk)
        BY <4>1 DEF Top
      <4> QED
        BY <4>3, <4>4, <3>2, ElemFields
    <3>8. \E c : Turn(Push_temp_reg(y, r), c)
      BY <2>4, <3>1, <3>2, <3>3, <3>5, <1>3, <1>5 DEF Conv_select
    <3>9. PICK z : z = Push_temp_reg(y, r)
      OBVIOUS
    <3>10. z.ok => CleanGood(z, K)
      BY <3>6, <3>7, <3>9, CleanPushAny
    <3> QED
      BY <3>8, <3>9, <3>10
  <2>5. CASE Conv_call
    <3>1. PICK tys : tys = [k \in DOMAIN Pops(i) |-> IF k > Len(CalleeParams) THEN "i32" ELSE Void]
      OBVIOUS
    <3>2. IsSeq(tys)
      <4>1. PICK S : Pops(i) \in Seq(S)
        BY <1>4, PopsPushes DEF IsSeq
      <4>2. DOMAIN Pops(i) = 1 .. Len(Pops(i)) /\ Len(Pops(i)) \in Nat
        BY <4>1
      <4>3. tys \in Seq({"i32", Void})
        BY <4>2, <3>1
      <4> QED
        BY <4>3 DEF IsSeq
    <3>3. PICK y : y = PopAll(x, tys) /\ CleanGood(y, K)
      BY <3>2, <1>3, CleanPopAll
    <3>4. PICK q : q = [ty \in Types |-> IF y.io[ty] < CountOf(ty) THEN CountOf(ty) ELSE y.io[ty]]
      OBVIOUS
    <3>5. y.ok => q \in [Types -> Nat]
      <4>1. \A ty \in Types : CountOf(ty) \in Nat
        <5> SUFFICES ASSUME NEW ty \in Types PROVE CountOf(ty) \in Nat
          OBVIOUS
        <5>1. DOMAIN CalleeParams = 1 .. Len(CalleeParams) /\ Len(CalleeParams) \in Nat
          BY WasmAssumption
        <5>2. IsFiniteSet(1 .. Len(CalleeParams))
          BY <5>1, FS_Interval
        <5>3. {k \in DOMAIN CalleeParams : CalleeParams[k] = ty} \subseteq 1 .. Len(CalleeParams)
          BY <5>1
        <5>4. IsFiniteSet({k \in DOMAIN CalleeParams : CalleeParams[k] = ty})
          BY <5>2, <5>3, FS_Subset
        <5> QED
          BY <5>4, FS_CardinalityType DEF CountOf
      <4>2. y.ok => y.io \in [Types -> Nat]
        BY <3>3 DEF CleanGood, AlGood, AlSound, AlTyped
      <4> QED
        BY <4>1, <4>2, <3>4
    <3>6. PICK P : P = (\A k \in DOMAIN CalleeParams : Operands(x, tys)[k].ty = CalleeParams[k])
      OBVIOUS
    <3>7. PICK b : b = [y EXCEPT !.io = q, !.ok = @ /\ P]
      OBVIOUS
    <3>8. CleanGood(b, K)
      BY <3>3, <3>5, <3>7, CleanIo
    <3>9. [y EXCEPT !.io = [ty \in Types |-> IF @[ty] < CountOf(ty) THEN CountOf(ty) ELSE @[ty]],
                    !.ok = @ /\ P] = b
      BY <3>4, <3>7
    <3>10. \E c : Turn(IF i.ty = Void THEN b ELSE Push_temp_reg(b, i.ty), c)
      BY <2>5, <3>1, <3>3, <3>6, <3>9, <1>3, <1>4 DEF Conv_call
    <3>11. i.ty # Void => i.ty \in Types
      BY <2>5, <1>4, <1>6 DEF Conv_call, Converting, WellFormed
    <3>12. i.ty # Void => CleanGood(Push_temp_reg(b, i.ty), K)
      BY <3>8, <3>11, CleanPushTemp
    <3> QED
      BY <3>8, <3>10, <3>12
  <2> QED
    BY <2>1, <2>2, <2>3, <2>4, <2>5
<1>8. PICK a, c : Turn(a, c) /\ (a.ok => CleanGood(a, K))
  BY <1>7
<1> QED
  BY <1>8, TurnStack DEF CleanGood


\* Instructions that push no temporary.
LEMMA PlainStack ==
  ASSUME ConvInv, CodeInv, NoTrapJoins,
         Conv_drop \/ Conv_nop \/ Conv_local_get \/ Conv_local_set \/ Conv_return
  PROVE  StackInv'
<1>1. phase = "convert" /\ Cur.op # "End"
  BY DEF Conv_drop, Conv_nop, Conv_local_get, Conv_local_set, Conv_return, Converting
<1>2. PICK K : K = KeptAt(graph, at)
  OBVIOUS
<1>3. PICK x : x = al /\ CleanGood(x, K)
  <2>1. AlGood(al, K) /\ Clean(al)
    BY <1>1, <1>2, StartClean, TurnStart
  <2> QED
    BY <2>1 DEF CleanGood
<1>4. WellFormed(Cur)
  BY <1>1, TurnStart
<1>5. \A ty : CleanGood(Pop_wasm_stk(x, ty), K)
  BY <1>3, CleanPop
<1>6. \E a, c : Turn(a, c) /\ CleanGood(a, K)
  <2>1. CASE Conv_drop
    BY <2>1, <1>3, <1>5 DEF Conv_drop
  <2>2. CASE Conv_nop
    BY <2>2, <1>3 DEF Conv_nop
  <2>4. CASE Conv_local_get
    <3>1. PICK i : i = Cur.n[1] /\ i \in DOMAIN Vars
      <4>1. Cur.op = "LocalGet"
        BY <2>4 DEF Conv_local_get, Converting
      <4> QED
        BY <4>1, <1>4 DEF WellFormed
    <3>2. PICK e : e = Elem("LOCAL", Vars[i], LocalReg(i))
      OBVIOUS
    <3>3. e \in Elems /\ e.kind \notin {"TEMP", "UNREACHABLE"}
      BY <3>1, <3>2, LocalRegNat DEF Elem, Elems
    <3>4. CleanGood(Push(x, e), K)
      BY <3>3, <1>3, CleanPush
    <3> QED
      BY <3>1, <3>2, <3>4, <2>4, <1>3 DEF Conv_local_get
  <2>5. CASE Conv_local_set
    <3>1. PICK ty : ty = Vars[Cur.n[1]]
      OBVIOUS
    <3>2. PICK P : P = (Last(x.stk).ty = ty)
      OBVIOUS
    <3>3. PICK y : y = [x EXCEPT !.ok = @ /\ P]
      OBVIOUS
    <3>4. CleanGood(y, K)
      BY <3>3, <1>3, CleanCheck
    <3>5. CASE Cur.op = "LocalSet"
      <4>1. \E c : Turn(Pop_wasm_stk(x, ty), c)
        BY <2>5, <3>1, <3>5, <1>3 DEF Conv_local_set
      <4> QED
        BY <4>1, <1>5
    <3>6. CASE Cur.op # "LocalSet"
      <4>1. \E c : Turn(y, c)
        BY <2>5, <3>1, <3>2, <3>3, <3>6, <1>3 DEF Conv_local_set
      <4> QED
        BY <4>1, <3>4
    <3> QED
      BY <3>5, <3>6
  <2>6. CASE Conv_return
    <3>1. \E c : Turn(x, c) \/ Turn(Pop_wasm_stk(x, fres), c)
      BY <2>6, <1>3 DEF Conv_return
    <3>2. PICK ty : ty = fres
      OBVIOUS
    <3> QED
      BY <3>1, <3>2, <1>3, <1>5
  <2> QED
    BY <2>1, <2>2, <2>4, <2>5, <2>6
<1>7. PICK a, c : Turn(a, c) /\ CleanGood(a, K)
  BY <1>6
<1> QED
  BY <1>7, TurnStack DEF CleanGood

\* Block, loop and if.
LEMMA OpenStack ==
  ASSUME ConvInv, CodeInv, NoTrapJoins, Conv_block \/ Conv_if
  PROVE  StackInv'
<1>1. phase = "convert" /\ Cur.op # "End"
  BY DEF Conv_block, Conv_if, Converting
<1>2. PICK K : K = KeptAt(graph, at)
  OBVIOUS
<1>3. PICK x : x = al /\ CleanGood(x, K)
  <2>1. AlGood(al, K) /\ Clean(al)
    BY <1>1, <1>2, StartClean, TurnStart
  <2> QED
    BY <2>1 DEF CleanGood
<1>4. PICK y : y = Pop_wasm_stk(x, "i32")
  OBVIOUS
<1>5. CleanGood(y, K)
  BY <1>3, <1>4, CleanPop
<1>6. \E a, c : CleanGood(a, K) /\ Turn(Reserved(a, at), c)
  <2>1. CASE Conv_block
    <3>1. \E c : Turn(Reserved(x, at), c)
      BY <2>1, <1>3 DEF Conv_block
    <3> QED
      BY <3>1, <1>3
  <2>2. CASE Conv_if
    <3>1. \E c : Turn(Reserved(y, at), c)
      BY <2>2, <1>3, <1>4 DEF Conv_if
    <3> QED
      BY <3>1, <1>5
  <2> QED
    BY <2>1, <2>2
<1>7. PICK a, c : CleanGood(a, K) /\ Turn(Reserved(a, at), c)
  BY <1>6
<1>8. PICK b : b = Reserved(a, at)
  OBVIOUS
<1>9. b.ok = a.ok /\ b.stk = a.stk
  <2>1. IsAl(a)
    BY <1>7 DEF CleanGood, AlGood
  <2>2. PICK ty : ty = graph[at].res
    OBVIOUS
  <2>3. b = a \/ b = Allocate_register(a, ty)
    BY <1>8, <2>2 DEF Reserved
  <2> QED
    BY <2>1, <2>3 DEF Allocate_register, IsAl
<1>10. b.ok => Clean(b)
  BY <1>7, <1>9 DEF CleanGood, Clean
<1> QED
  BY <1>7, <1>8, <1>10, TurnStack

\* The end of a block leaves the stack as it was, and the result.
LEMMA CleanClose ==
  ASSUME NEW a, NEW K, CleanGood(a, K), NEW p, p.size \in Nat, NEW b, b = Close(a, p)
  PROVE  b.ok => Clean(b)
<1>1. PICK d : d = Pop_redundant_values(a, p)
  OBVIOUS
<1>2. CleanGood(d, K)
  <2>1. CASE Len(a.stk) < p.size
    <3>1. d = [a EXCEPT !.ok = FALSE]
      BY <2>1, <1>1 DEF Pop_redundant_values
    <3>2. IsAl(d) /\ d.ok = FALSE /\ d.stk = a.stk
      BY <3>1 DEF CleanGood, AlGood, IsAl
    <3> QED
      BY <3>2 DEF CleanGood, AlGood
  <2>2. CASE ~(Len(a.stk) < p.size)
    <3>1. Len(a.stk) \in Nat
      BY DEF CleanGood, AlGood, IsSeq
    <3>2. PICK n \in Nat : n = Len(a.stk) - p.size
      BY <3>1, <2>2
    <3>3. PICK tys : tys = [k \in 1 .. n |-> Void]
      OBVIOUS
    <3>4. tys \in Seq({Void})
      BY <3>3
    <3>5. d = PopAll(a, tys)
      BY <1>1, <2>2, <3>2, <3>3 DEF Pop_redundant_values
    <3> QED
      BY <3>4, <3>5, CleanPopAll DEF IsSeq
  <2> QED
    BY <2>1, <2>2
<1>3. b = Push_result_to_stack(d, p)
  BY <1>1 DEF Close
<1>4. CASE p.res = Void
  BY <1>2, <1>3, <1>4 DEF Push_result_to_stack, CleanGood
<1>5. CASE p.res # Void
  <2>1. PICK e : e = Elem("TEMP", p.res, p.reg)
    OBVIOUS
  <2>2. e.kind # "UNREACHABLE"
    BY <2>1 DEF Elem
  <2>3. b = [Push(d, e) EXCEPT !.ok = @ /\ p.reg # 0]
    BY <2>1, <1>3, <1>5 DEF Push_result_to_stack
  <2>4. IsAl(d) /\ IsSeq(d.stk)
    BY <1>2 DEF CleanGood, AlGood
  <2>5. b.stk = Append(d.stk, e) /\ (b.ok => d.ok)
    BY <2>3, <2>4 DEF Push, IsAl
  <2> QED
    BY <2>2, <2>4, <2>5, <1>2, CleanAppend DEF CleanGood
<1> QED
  BY <1>4, <1>5

\* The end of a block: what was unreachable in it is gone.
LEMMA EndStack ==
  ASSUME ConvInv, CodeInv, NoTrapJoins, Conv_end_block \/ Conv_end_unreachable
  PROVE  StackInv'
<1>1. /\ phase = "convert" /\ Cur.op = "End" /\ Me.parent # 0
  BY DEF Conv_end_block, Conv_end_unreachable, Converting
<1>2. PICK g : g = graph
  OBVIOUS
<1>3. PICK t : t = at
  OBVIOUS
<1>4. PICK K : K = KeptAt(g, t)
  OBVIOUS
<1>5. PICK x : x = al
  OBVIOUS
<1>6. /\ GraphOK(g) /\ t \in 1 .. Len(g) /\ Me = g[t] /\ AlGood(x, K) /\ x.ok
  BY <1>1, <1>2, <1>3, <1>4, <1>5, TurnStart
<1>7. PICK p : p = g[t].parent /\ p # 0
  BY <1>1, <1>6
<1>8. PICK q : q = g[p]
  OBVIOUS
<1>9. q.size \in Nat
  <2>1. g \in Seq(Stmts) /\ StmtOK(g, t) /\ Len(g) \in Nat
    BY <1>6 DEF GraphOK
  <2>2. p \in 0 .. t - 1
    BY <2>1, <1>7 DEF StmtOK
  <2>3. p \in 1 .. Len(g)
    BY <2>1, <2>2, <1>6, <1>7
  <2> QED
    BY <2>1, <2>3, <1>8, StmtFields
<1>10. \E y, c : CleanGood(y, K) /\ Turn(Close(y, q), c)
  <2>1. CASE Conv_end_block
    <3>1. ~IsUnreachable(x) /\ Clean(x)
      BY <2>1, <1>1, <1>5, StartClean DEF Conv_end_block
    <3>2. CleanGood(x, K)
      BY <3>1, <1>6 DEF CleanGood
    <3>3. PICK y : y = Pop_wasm_stk(x, q.res) /\ CleanGood(y, K)
      BY <3>2, CleanPop
    <3>4. \E c : Turn(Close(y, q), c) \/ Turn(Close(x, q), c)
      BY <2>1, <3>3, <1>2, <1>5, <1>6, <1>7, <1>8 DEF Conv_end_block
    <3> QED
      BY <3>2, <3>3, <3>4
  <2>2. CASE Conv_end_unreachable
    <3>1. PICK y : y = [x EXCEPT !.stk = Front(@)]
      OBVIOUS
    <3>2. IsUnreachable(x) /\ x.stk # << >>
      BY <2>2, <1>5 DEF Conv_end_unreachable, IsUnreachable
    <3>3. \E c : Turn(Close(y, q), c)
      BY <2>2, <3>1, <1>2, <1>5, <1>6, <1>7, <1>8 DEF Conv_end_unreachable
    <3>4. /\ IsAl(y) /\ y.stk = Front(x.stk) /\ y.next = x.next /\ y.size = x.size /\ y.io = x.io
      BY <3>1, <1>6 DEF AlGood, IsAl
    <3>5. AlSound(x, K)
      BY <1>6 DEF AlGood
    <3>6. AlSound(y, K)
      BY <3>2, <3>4, <3>5, LessStack
    <3>7. AlGood(y, K)
      BY <3>4, <3>6 DEF AlGood, AlSound, AlTyped, IsSeq
    <3>8. x.stk \in Seq(Elems)
      BY <3>5 DEF AlSound, AlTyped
    <3>9. \A k \in 1 .. Len(x.stk) - 1 : x.stk[k].kind # "UNREACHABLE"
      BY <3>2, <1>1, <1>5, StartClean
    <3>10. Clean(y)
      BY <3>2, <3>4, <3>8, <3>9, CleanFront
    <3>11. CleanGood(y, K)
      BY <3>7, <3>10 DEF CleanGood
    <3> QED
      BY <3>3, <3>11
  <2> QED
    BY <2>1, <2>2
<1>11. PICK y, c : CleanGood(y, K) /\ Turn(Close(y, q), c)
  BY <1>10
<1>12. PICK b : b = Close(y, q)
  OBVIOUS
<1>13. b.ok => Clean(b)
  BY <1>9, <1>11, <1>12, CleanClose
<1> QED
  BY <1>11, <1>12, <1>13, TurnStack

\* unreachable marks the top of the stack, and only this.
LEMMA UnreachableStack ==
  ASSUME ConvInv, CodeInv, NoTrapJoins, Conv_unreachable
  PROVE  StackInv'
<1>1. phase = "convert" /\ Cur.op = "Unreachable"
  BY DEF Conv_unreachable, Converting
<1>2. PICK e : e = Elem("UNREACHABLE", "i32", 0) /\ e.kind = "UNREACHABLE"
  <2>1. Elem("UNREACHABLE", "i32", 0).kind = "UNREACHABLE"
    BY DEF Elem
  <2> QED
    BY ONLY <2>1
<1>3. PICK x : x = al
  OBVIOUS
<1>4. PICK a : a = Push(x, e)
  OBVIOUS
<1>5. Turn(a, << >>)
  BY <1>2, <1>3, <1>4 DEF Conv_unreachable
<1>6. al' = a /\ at' = at + 1 /\ ins' = ins
  BY <1>5 DEF Turn, input
<1>7. Clean(x) /\ IsAl(x) /\ IsSeq(x.stk) /\ at \in Nat \ {0}
  <2>1. AlGood(x, KeptAt(graph, at))
    BY <1>1, <1>3, TurnStart
  <2>2. at \in 1 .. Len(ins) /\ Len(ins) \in Nat
    BY <1>1 DEF ConvInv, InputInv
  <2> QED
    BY <2>1, <2>2, <1>1, <1>3, StartClean DEF AlGood
<1>8. PICK s : s = x.stk
  OBVIOUS
<1>9. PICK r : r = a.stk
  OBVIOUS
<1>10. r = s \o <<e>> /\ IsSeq(s)
  BY <1>4, <1>7, <1>8, <1>9, AppendIs DEF Push, IsAl
<1>11. PICK m \in Nat : m = Len(s)
  BY <1>10 DEF IsSeq
<1>12. /\ Len(r) = m + 1 /\ r[m + 1] = e
       /\ \A j \in 1 .. m : r[j] = s[j]
  <2>1. <<e>> \in Seq({e}) /\ Len(<<e>>) = 1 /\ <<e>>[1] = e /\ 1 \in 1 .. 1
    OBVIOUS
  <2>2. IsSeq(<<e>>)
    BY <2>1 DEF IsSeq
  <2>3. /\ Len(s \o <<e>>) = Len(s) + Len(<<e>>)
        /\ \A j \in 1 .. Len(s) : (s \o <<e>>)[j] = s[j]
        /\ \A j \in 1 .. Len(<<e>>) : (s \o <<e>>)[Len(s) + j] = <<e>>[j]
    BY <2>2, <1>10, ConcatSeq
  <2> QED
    BY ONLY <2>1, <2>3, <1>10, <1>11
<1>13. r # << >> /\ Last(r) = e
  <2>1. Len(<< >>) = 0 /\ m + 1 # 0
    BY <1>11
  <2>2. r # << >>
    BY ONLY <2>1, <1>12
  <2> QED
    BY <2>2, <1>12 DEF Last
<1>14. \A k \in 1 .. Len(r) - 1 : r[k].kind # "UNREACHABLE"
  <2>1. Len(r) - 1 = m
    BY <1>11, <1>12
  <2>2. \A k \in 1 .. m : s[k].kind # "UNREACHABLE"
    BY <1>7, <1>8, <1>11 DEF Clean
  <2> QED
    BY ONLY <2>1, <2>2, <1>12
<1>15. at + 1 # 1 /\ ins[(at + 1) - 1].op = "Unreachable"
  <2>1. at + 1 # 1 /\ (at + 1) - 1 = at
    BY <1>7
  <2> QED
    BY <2>1, <1>1 DEF Cur
<1> QED
  BY <1>2, <1>6, <1>9, <1>13, <1>14, <1>15 DEF StackInv


-----------------------------------------------------------------------------
(* What each turn emits.                                                   *)

IsOne(i, L) == IsInst(i) /\ (i.l = NoLabel \/ i.l \in L)

\* The label of an instruction is its fourth argument.
LEMMA UinstOne ==
  ASSUME NEW op, NEW ty, NEW r, NEW l, NEW k, NEW L, l = NoLabel \/ l \in L
  PROVE  IsOne(Uinst(op, ty, r, l, k), L)
<1>1. PICK i : i = Uinst(op, ty, r, l, k)
  OBVIOUS
<1>2. IsInst(i) /\ i.l = l
  BY <1>1, UinstFields
<1> QED
  BY <1>1, <1>2 DEF IsOne

\* One instruction whose label, if any, is one of L.
LEMMA OneEmitted ==
  ASSUME NEW L, NEW i, IsOne(i, L)
  PROVE  Emitted(<<i>>, L) /\ <<i>> # << >> /\ Last(<<i>>) = i
<1>1. Emitted(<<i>>, L) /\ Last(<<i>>) = i
  BY SingleEmitted DEF IsOne
<1>2. Len(<<i>>) = 1 /\ Len(<< >>) = 0
  OBVIOUS
<1> QED
  BY ONLY <1>1, <1>2

\* One more of them behind emitted code.
LEMMA OneMore ==
  ASSUME NEW L, NEW c, Emitted(c, L), NEW i, IsOne(i, L)
  PROVE  Emitted(Append(c, i), L) /\ Append(c, i) # << >> /\ Last(Append(c, i)) = i
BY AppendEmitted DEF IsOne

\* The short sequences the handlers emit in one go.
LEMMA FewEmitted ==
  ASSUME NEW L, NEW i, NEW j, NEW k, NEW m, IsOne(i, L), IsOne(j, L), IsOne(k, L), IsOne(m, L)
  PROVE  /\ Emitted(<<i, j>>, L) /\ Emitted(<<i, j, k>>, L) /\ Emitted(<<i, j, k, m>>, L)
         /\ <<i, j>> # << >> /\ Last(<<i, j>>) = j
<1>1. /\ <<i, j>> = Append(<<i>>, j) /\ <<i, j, k>> = Append(<<i, j>>, k)
      /\ <<i, j, k, m>> = Append(<<i, j, k>>, m)
  OBVIOUS
<1>2. PICK u : u = <<i>>
  OBVIOUS
<1>3. PICK v : v = Append(u, j)
  OBVIOUS
<1>4. PICK w : w = Append(v, k)
  OBVIOUS
<1>5. Emitted(u, L)
  BY <1>2, OneEmitted
<1>6. Emitted(Append(u, j), L) /\ Append(u, j) # << >> /\ Last(Append(u, j)) = j
  BY ONLY <1>5, IsOne(j, L), OneMore
<1>7. Emitted(Append(v, k), L)
  BY ONLY <1>3, <1>6, IsOne(k, L), OneMore
<1>8. Emitted(Append(w, m), L)
  BY ONLY <1>4, <1>7, IsOne(m, L), OneMore
<1>9. v = <<i, j>> /\ w = <<i, j, k>> /\ Append(w, m) = <<i, j, k, m>>
  BY ONLY <1>1, <1>2, <1>3, <1>4
<1>10. Emitted(v, L) /\ v # << >> /\ Last(v) = j /\ Emitted(w, L)
  BY ONLY <1>3, <1>4, <1>6, <1>7
<1> QED
  BY ONLY <1>8, <1>9, <1>10

\* A turn that sets no label and is not the last one.
LEMMA QuietCode ==
  ASSUME ConvInv, CodeInv, phase = "convert", Cur.op \notin {"Loop", "Else", "End", "Return"},
         NEW a, NEW c, Turn(a, c), NEW M, Emitted(c, M), SameShape(graph, graph'), labels' = labels,
         a.ok => Emitted(c, DOMAIN labels)
  PROVE  SizeInv' /\ LabelInv' /\ EndInv' /\ DeadInv' /\ EmitInv'
<1>1. PICK g : g = graph
  OBVIOUS
<1>2. PICK h : h = graph'
  OBVIOUS
<1>3. PICK ls : ls = labels
  OBVIOUS
<1>4. PICK ms : ms = labels'
  OBVIOUS
<1>5. PICK N : N = {}
  OBVIOUS
<1>6. Labelled(ls, N, Len(code) + 0 + 1, ms)
  BY <1>3, <1>4, <1>5 DEF Labelled
<1>7. IsSeq(c) /\ 0 \in 0 .. Len(c)
  BY DEF Emitted, IsSeq
<1>8. OwnLabels(g, at, N)
  <2>1. g[at].op = Cur.op
    BY <1>1, TurnStart
  <2> QED
    BY <2>1 DEF OwnLabels
<1>9. at # Len(ins)
  BY DEF CodeInv, EndInv, Cur
<1>10. SameShape(g, h) /\ (a.ok => Emitted(c, DOMAIN ms))
  BY <1>1, <1>2, <1>4
<1>11. PICK p \in 0 .. Len(c) : p = 0
  BY <1>7
<1>12. Labelled(ls, N, Len(code) + p + 1, ms)
  BY <1>6, <1>11
<1> QED
  BY <1>1, <1>2, <1>3, <1>4, <1>7, <1>8, <1>9, <1>10, <1>12, TurnCode

\* The handlers of instructions that neither set a label nor name one.
LEMMA NoLabelCode ==
  ASSUME ConvInv, CodeInv, phase = "convert", Cur.op \notin {"Loop", "Else", "End", "Return"},
         NEW a, NEW c, Turn(a, c), Emitted(c, {}), graph' = graph, labels' = labels
  PROVE  SizeInv' /\ LabelInv' /\ EndInv' /\ DeadInv' /\ EmitInv'
<1>1. SameShape(graph, graph')
  BY DEF SameShape
<1>2. Emitted(c, DOMAIN labels)
  <2>1. PICK L : L = DOMAIN labels
    OBVIOUS
  <2>2. {} \subseteq L
    OBVIOUS
  <2>3. Emitted(c, L)
    BY <2>2, MoreEmitted
  <2> QED
    BY <2>1, <2>3
<1> QED
  BY <1>1, <1>2, QuietCode

\* Instructions that only move and compute.
LEMMA PlainCode ==
  ASSUME ConvInv, CodeInv,
         Conv_drop \/ Conv_nop \/ Conv_unreachable \/ Conv_local_get \/ Conv_local_set \/ Conv_op
         \/ Conv_load \/ Conv_store \/ Conv_call
  PROVE  SizeInv' /\ LabelInv' /\ EndInv' /\ DeadInv' /\ EmitInv'
<1>1. /\ phase = "convert" /\ graph' = graph /\ labels' = labels
      /\ Cur.op \notin {"Loop", "Else", "End", "Return"}
  BY DEF Conv_drop, Conv_nop, Conv_unreachable, Conv_local_get, Conv_local_set, Conv_op, Conv_load,
         Conv_store, Conv_call, Converting, Quiet
<1>2. Emitted(<< >>, {})
  BY EmptyEmitted
<1>3. \A op, ty, r, k : IsOne(Uinst(op, ty, r, NoLabel, k), {})
  <2> SUFFICES ASSUME NEW op, NEW ty, NEW r, NEW k PROVE IsOne(Uinst(op, ty, r, NoLabel, k), {})
    OBVIOUS
  <2>1. PICK l : l = NoLabel
    OBVIOUS
  <2>2. IsOne(Uinst(op, ty, r, l, k), {})
    BY <2>1, UinstOne
  <2> QED
    BY <2>1, <2>2
<1>4. \A op, ty, r, k : Emitted(<<Uinst(op, ty, r, NoLabel, k)>>, {})
  BY <1>3, OneEmitted
<1>5. \A tmp, rs, ofs : Emitted(Addressed(tmp, rs, ofs), {})
  <2> SUFFICES ASSUME NEW tmp, NEW rs, NEW ofs PROVE Emitted(Addressed(tmp, rs, ofs), {})
    OBVIOUS
  <2>1. PICK i : i = Uinst("Const", "i32", <<tmp>>, NoLabel, ofs)
    OBVIOUS
  <2>2. PICK j : j = Uinst("Add", "i32", <<tmp, rs, tmp>>, NoLabel, 0)
    OBVIOUS
  <2>3. IsOne(i, {}) /\ IsOne(j, {})
    BY <2>1, <2>2, <1>3
  <2>4. Emitted(<<i, j>>, {})
    BY <2>3, FewEmitted
  <2> QED
    BY <2>1, <2>2, <2>4, <1>2 DEF Addressed
<1>6. \E a, c : Turn(a, c) /\ Emitted(c, {})
  <2>1. CASE Conv_drop \/ Conv_nop \/ Conv_unreachable \/ Conv_local_get
    BY <2>1, <1>2 DEF Conv_drop, Conv_nop, Conv_unreachable, Conv_local_get
  <2>2. CASE Conv_local_set
    <3>1. \E a, rs, x : Turn(a, <<Mov(rs.ty, LocalReg(x), rs.idx)>>)
      BY <2>2 DEF Conv_local_set
    <3> QED
      BY <3>1, <1>4 DEF Mov
  <2>3. CASE Conv_op
    <3>1. \E a, op, ty, r, k : Turn(a, <<Uinst(op, ty, r, NoLabel, k)>>)
      BY <2>3 DEF Conv_op
    <3> QED
      BY <3>1, <1>4
  <2>4. CASE Conv_load \/ Conv_store
    <3>1. \E a, tmp, rs, ofs, op, ty, r, k :
            Turn(a, Append(Addressed(tmp, rs, ofs), Uinst(op, ty, r, NoLabel, k)))
      BY <2>4 DEF Conv_load, Conv_store
    <3>2. PICK a, tmp, rs, ofs, op, ty, r, k :
            Turn(a, Append(Addressed(tmp, rs, ofs), Uinst(op, ty, r, NoLabel, k)))
      BY <3>1
    <3>3. PICK c : c = Addressed(tmp, rs, ofs)
      OBVIOUS
    <3>4. PICK i : i = Uinst(op, ty, r, NoLabel, k)
      OBVIOUS
    <3>5. Emitted(c, {}) /\ IsOne(i, {})
      BY <3>3, <3>4, <1>3, <1>5
    <3>6. Emitted(Append(c, i), {})
      BY <3>5, OneMore
    <3> QED
      BY <3>2, <3>3, <3>4, <3>6
  <2>5. CASE Conv_call
    <3>1. \E a, ops, r, n, d, e :
            /\ Turn(a, [k \in DOMAIN CalleeParams |-> Mov(ops[k].ty, 0, ops[k].idx)] \o e)
            /\ \/ e = <<Uinst(Cur.op, "i32", r, NoLabel, n)>>
               \/ e = <<Uinst(Cur.op, "i32", r, NoLabel, n), Mov(Cur.ty, d, 0)>>
      BY <2>5 DEF Conv_call
    <3>2. PICK a, ops, r, n, d, e :
            /\ Turn(a, [k \in DOMAIN CalleeParams |-> Mov(ops[k].ty, 0, ops[k].idx)] \o e)
            /\ \/ e = <<Uinst(Cur.op, "i32", r, NoLabel, n)>>
               \/ e = <<Uinst(Cur.op, "i32", r, NoLabel, n), Mov(Cur.ty, d, 0)>>
      BY <3>1
    <3>3. PICK c : c = [k \in DOMAIN CalleeParams |-> Mov(ops[k].ty, 0, ops[k].idx)]
      OBVIOUS
    <3>4. PICK i : i = Uinst(Cur.op, "i32", r, NoLabel, n)
      OBVIOUS
    <3>5. PICK j : j = Mov(Cur.ty, d, 0)
      OBVIOUS
    <3>6. IsOne(i, {}) /\ IsOne(j, {})
      BY <3>4, <3>5, <1>3 DEF Mov
    <3>7. Emitted(e, {})
      <4>1. Emitted(<<i, j>>, {}) /\ Emitted(<<i>>, {})
        BY <3>6, FewEmitted, OneEmitted
      <4> QED
        BY <4>1, <3>2, <3>4, <3>5
    <3>8. Emitted(c, {})
      <4>1. PICK m \in Nat : DOMAIN CalleeParams = 1 .. m
        BY WasmAssumption
      <4>2. \A k \in 1 .. m : IsOne(c[k], {})
        BY <4>1, <3>3, <1>3 DEF Mov
      <4>3. c = [k \in 1 .. m |-> c[k]]
        BY ONLY <4>1, <3>3
      <4>4. [k \in 1 .. m |-> c[k]] \in Seq({c[k] : k \in 1 .. m}) /\ Len([k \in 1 .. m |-> c[k]]) = m
        OBVIOUS
      <4> QED
        BY ONLY <4>2, <4>3, <4>4 DEF Emitted, IsSeq, IsOne
    <3>9. Emitted(c \o e, {})
      BY <3>7, <3>8, ConcatEmitted
    <3> QED
      BY <3>2, <3>3, <3>9
  <2> QED
    BY <2>1, <2>2, <2>3, <2>4, <2>5
<1>7. PICK a, c : Turn(a, c) /\ Emitted(c, {})
  BY <1>6
<1> QED
  BY <1>1, <1>7, NoLabelCode


-----------------------------------------------------------------------------
(* Branches: Get_parent_stmt_for_branch goes up the tree.                  *)

UpFcn(f, g, t, m) ==
  f = [k \in 0 .. m |-> IF k = 0 THEN t ELSE IF f[k - 1] = 0 THEN 0 ELSE g[f[k - 1]].parent]

\* The walk from a statement towards the function body exists as a function.
LEMMA UpExists ==
  ASSUME NEW g, NEW t, NEW n \in Nat
  PROVE  \E f : UpFcn(f, g, t, n)
<1> DEFINE T == {m \in 0 .. n : ~ \E f : UpFcn(f, g, t, m)}
<1> SUFFICES ASSUME T # {} PROVE FALSE
  BY DEF T
<1>1. PICK m \in T : \A y \in T : m <= y
  <2>1. T \subseteq Nat
    OBVIOUS
  <2> QED
    BY <2>1, LeastNat
<1>2. m \in 0 .. n /\ ~ \E f : UpFcn(f, g, t, m)
  OBVIOUS
<1>3. m # 0
  <2>1. PICK f : f = [k \in 0 .. 0 |-> t]
    OBVIOUS
  <2>2. f = [k \in 0 .. 0 |-> IF k = 0 THEN t ELSE IF f[k - 1] = 0 THEN 0 ELSE g[f[k - 1]].parent]
    BY <2>1
  <2>3. UpFcn(f, g, t, 0)
    BY <2>2 DEF UpFcn
  <2> QED
    BY <2>3, <1>2
<1>4. m - 1 \in 0 .. n /\ m - 1 \notin T
  BY <1>1, <1>2, <1>3
<1>5. PICK f : UpFcn(f, g, t, m - 1)
  BY <1>4
<1>6. PICK h : h = [k \in 0 .. m |-> IF k = 0 THEN t ELSE IF f[k - 1] = 0 THEN 0 ELSE g[f[k - 1]].parent]
  OBVIOUS
<1>7. f = [k \in 0 .. m - 1 |-> IF k = 0 THEN t ELSE IF f[k - 1] = 0 THEN 0 ELSE g[f[k - 1]].parent]
  BY <1>5 DEF UpFcn
<1>8. \A k \in 0 .. m - 1 : f[k] = h[k]
  <2>1. \A k \in 0 .. m - 1 : k \in 0 .. m
    BY <1>2
  <2> QED
    BY ONLY <2>1, <1>6, <1>7
<1>9. \A k \in 0 .. m : k # 0 => k - 1 \in 0 .. m - 1
  BY <1>2
<1>10. h = [k \in 0 .. m |-> IF k = 0 THEN t ELSE IF h[k - 1] = 0 THEN 0 ELSE g[h[k - 1]].parent]
  BY ONLY <1>6, <1>8, <1>9
<1>11. UpFcn(h, g, t, m)
  BY ONLY <1>10 DEF UpFcn
<1> QED
  BY <1>2, <1>11

\* A branch goes to a block, unless it leaves the function.
LEMMA BranchTarget ==
  ASSUME NEW g, g = graph, GraphOK(g), NEW t, t = at, t \in 1 .. Len(g), NEW d \in Nat,
         NEW x, x = Get_parent_stmt_for_branch(d)
  PROVE  x \in 0 .. Len(g) /\ (x # 0 => g[x].op \in BlockOps)
<1>1. PICK n \in Nat : n = Len(g)
  BY DEF GraphOK
<1>2. PICK e \in Nat : e = d + 1 /\ e # 0
  OBVIOUS
<1>3. PICK f : f = CHOOSE z : UpFcn(z, g, t, e)
  OBVIOUS
<1>4. x = f[e]
  BY <1>2, <1>3 DEF Get_parent_stmt_for_branch, UpFcn
<1>5. UpFcn(f, g, t, e)
  BY <1>3, UpExists
<1>6. f = [k \in 0 .. e |-> IF k = 0 THEN t ELSE IF f[k - 1] = 0 THEN 0 ELSE g[f[k - 1]].parent]
  BY <1>5 DEF UpFcn
<1> DEFINE P(v, k) == v \in 0 .. n /\ (k # 0 /\ v # 0 => g[v].op \in BlockOps)
           T == {k \in 0 .. e : ~P(f[k], k)}
<1>7. T = {}
  <2> SUFFICES ASSUME T # {} PROVE FALSE
    OBVIOUS
  <2>1. T \subseteq Nat
    OBVIOUS
  <2>2. PICK k \in T : \A y \in T : k <= y
    BY <2>1, LeastNat
  <2>3. k \in 0 .. e /\ ~P(f[k], k)
    OBVIOUS
  <2>4. CASE k = 0
    <3>1. f[k] = t
      BY ONLY <1>6, <2>3, <2>4
    <3>2. t \in 0 .. n
      BY <1>1
    <3> QED
      BY ONLY <3>1, <3>2, <2>3, <2>4
  <2>5. CASE k # 0
    <3>1. k - 1 \in 0 .. e /\ ~(k <= k - 1)
      BY <2>3, <2>5
    <3>2. k - 1 \notin T
      BY ONLY <2>2, <3>1
    <3>3. PICK v : v = f[k - 1]
      OBVIOUS
    <3>4. v \in 0 .. n
      BY ONLY <3>1, <3>2, <3>3
    <3>5. f[k] = IF v = 0 THEN 0 ELSE g[v].parent
      BY ONLY <1>6, <2>3, <2>5, <3>3
    <3>6. CASE v = 0
      <4>1. f[k] = 0 /\ 0 \in 0 .. n
        BY ONLY <3>4, <3>5, <3>6
      <4> QED
        BY ONLY <4>1, <2>3
    <3>7. CASE v # 0
      <4>1. v \in 1 .. n /\ f[k] = g[v].parent
        BY <3>4, <3>5, <3>7
      <4>2. StmtOK(g, v)
        BY <4>1, <1>1 DEF GraphOK
      <4>3. g[v].parent \in 0 .. v - 1 /\ (g[v].parent # 0 => g[g[v].parent].op \in BlockOps)
        BY ONLY <4>2 DEF StmtOK
      <4>4. \A y \in 0 .. v - 1 : y \in 0 .. n
        BY <4>1
      <4> QED
        BY ONLY <4>1, <4>3, <4>4, <2>3
    <3> QED
      BY <3>6, <3>7
  <2> QED
    BY <2>4, <2>5
<1>8. e \in 0 .. e
  OBVIOUS
<1>9. P(f[e], e)
  BY ONLY <1>7, <1>8
<1> QED
  BY ONLY <1>1, <1>2, <1>4, <1>9

\* The label a branch jumps to was requested for its block.
LEMMA JumpLabel ==
  ASSUME ConvInv, CodeInv, phase = "convert", NEW d \in Nat, Get_parent_stmt_for_branch(d) # 0
  PROVE  Get_label_id_for_jump(d) \in DOMAIN labels
<1>1. PICK g : g = graph
  OBVIOUS
<1>2. PICK t : t = at
  OBVIOUS
<1>3. GraphOK(g) /\ t \in 1 .. Len(g)
  BY <1>1, <1>2, TurnStart
<1>4. PICK n \in Nat : n = Len(g)
  BY <1>3 DEF GraphOK
<1>5. PICK x : x = Get_parent_stmt_for_branch(d)
  OBVIOUS
<1>6. x \in 1 .. n /\ g[x].op \in BlockOps
  <2>1. x \in 0 .. Len(g) /\ (x # 0 => g[x].op \in BlockOps)
    BY <1>1, <1>2, <1>3, <1>5, BranchTarget
  <2> QED
    BY <2>1, <1>4, <1>5
<1>7. Get_label_id_for_jump(d) =
        CASE g[x].op = "Loop" -> <<"begin", x>>
          [] g[x].op = "If" /\ g[x].els # 0 -> <<"begin", g[x].els>>
          [] OTHER -> <<"end", x>>
  BY <1>1, <1>5 DEF Get_label_id_for_jump
<1>8. LabelsOf(g) \subseteq DOMAIN labels
  BY <1>1 DEF CodeInv, EmitInv
<1>9. \A k \in 1 .. n : /\ g[k].op \in BlockOps => <<"end", k>> \in LabelsOf(g)
                        /\ g[k].op \in {"Loop", "Else"} => <<"begin", k>> \in LabelsOf(g)
  BY ONLY <1>4 DEF LabelsOf
<1>10. CASE g[x].op = "Loop"
  BY ONLY <1>6, <1>7, <1>8, <1>9, <1>10
<1>11. CASE g[x].op = "If" /\ g[x].els # 0
  <2>1. StmtOK(g, x)
    BY <1>3, <1>4, <1>6 DEF GraphOK
  <2>2. g[x].els \in x + 1 .. n /\ g[g[x].els].op = "Else"
    BY ONLY <2>1, <1>4, <1>11 DEF StmtOK
  <2>3. g[x].els \in 1 .. n
    BY <2>2, <1>6
  <2>4. Get_label_id_for_jump(d) = <<"begin", g[x].els>>
    BY ONLY <1>7, <1>11
  <2> QED
    BY ONLY <2>2, <2>3, <2>4, <1>8, <1>9
<1>12. CASE g[x].op # "Loop" /\ ~(g[x].op = "If" /\ g[x].els # 0)
  <2>1. Get_label_id_for_jump(d) = <<"end", x>>
    BY ONLY <1>7, <1>12
  <2> QED
    BY ONLY <2>1, <1>6, <1>8, <1>9
<1> QED
  BY <1>10, <1>11, <1>12


\* The value of a block is moved at most.
LEMMA MovEmitted ==
  ASSUME NEW a, NEW t, NEW L
  PROVE  Emitted(Add_mov_for_break(a, t), L)
<1>1. PICK i : i = Mov(graph[t].res, graph[t].reg, Last(a.stk).idx)
  OBVIOUS
<1>2. IsOne(i, L)
  <2>1. PICK l : l = NoLabel
    OBVIOUS
  <2>2. PICK ty : ty = graph[t].res
    OBVIOUS
  <2>3. PICK r : r = <<graph[t].reg, Last(a.stk).idx>>
    OBVIOUS
  <2>4. IsOne(Uinst("MOV", ty, r, l, 0), L)
    BY <2>1, UinstOne
  <2> QED
    BY <2>1, <2>2, <2>3, <2>4, <1>1 DEF Mov
<1>3. Emitted(<<i>>, L) /\ Emitted(<< >>, L)
  BY <1>2, OneEmitted, EmptyEmitted
<1> QED
  BY <1>1, <1>3 DEF Add_mov_for_break

\* A jump with its label.
LEMMA JumpOne ==
  ASSUME NEW l, NEW L, l \in L, NEW op, NEW r
  PROVE  IsOne(Jmp(l), L) /\ IsOne(Jcc(op, r, l), L)
<1>1. PICK s : s = <<r>>
  OBVIOUS
<1>2. PICK e : e = << >>
  OBVIOUS
<1>3. IsOne(Uinst("JMP", "i32", e, l, 0), L) /\ IsOne(Uinst(op, "i32", s, l, 0), L)
  BY UinstOne
<1> QED
  BY <1>1, <1>2, <1>3 DEF Jmp, Jcc

\* The assertion of a branch.
LEMMA InFunctionOk ==
  ASSUME NEW a, NEW K, AlGood(a, K), InFunction(a).ok
  PROVE  \A d \in Range(Cur.n) : Get_parent_stmt_for_branch(d) # 0
BY DEF InFunction, AlGood, IsAl

\* Branches jump to labels that exist.
LEMMA BranchCode ==
  ASSUME ConvInv, CodeInv, Conv_br \/ Conv_br_if
  PROVE  SizeInv' /\ LabelInv' /\ EndInv' /\ DeadInv' /\ EmitInv'
<1>1. /\ phase = "convert" /\ graph' = graph /\ labels' = labels /\ Cur.op \in {"Br", "BrIf"}
  BY DEF Conv_br, Conv_br_if, Converting, Quiet
<1>2. PICK K : K = KeptAt(graph, at)
  OBVIOUS
<1>3. PICK x : x = al
  OBVIOUS
<1>4. AlGood(x, K) /\ WellFormed(Cur)
  BY <1>1, <1>2, <1>3, TurnStart
<1>5. PICK d : d = Cur.n[1]
  OBVIOUS
<1>6. d \in Nat /\ d \in Range(Cur.n)
  <2>1. Cur.n \in Seq(Nat) \ {<< >>}
    BY <1>1, <1>4 DEF WellFormed
  <2>2. 1 \in 1 .. Len(Cur.n) /\ DOMAIN Cur.n = 1 .. Len(Cur.n)
    BY <2>1, EmptySeq
  <2>3. Cur.n[1] \in Nat
    BY <2>1, <2>2, ElementOfSeq
  <2> QED
    BY <2>2, <2>3, <1>5 DEF Range
<1>7. PICK l : l = Get_label_id_for_jump(d)
  OBVIOUS
<1>8. PICK t : t = Get_parent_stmt_for_branch(d)
  OBVIOUS
<1>9. PICK z : z = Pop_wasm_stk(x, "i32")
  OBVIOUS
<1>10. AlGood(z, K)
  BY <1>4, <1>9, PopGood
<1>11. \A y, r : AlGood(y, K) => AlGood(Mov_checked(y, r), K)
  <2> SUFFICES ASSUME NEW y, NEW r, AlGood(y, K) PROVE AlGood(Mov_checked(y, r), K)
    OBVIOUS
  <2>1. PICK P : P = (r = 0 \/ graph[r].res = Void \/ y.stk = << >> \/ Last(y.stk).ty = graph[r].res)
    OBVIOUS
  <2>2. PICK b : b = [y EXCEPT !.ok = @ /\ P]
    OBVIOUS
  <2>3. AlGood(b, K)
    BY <2>2, CheckGood
  <2> QED
    BY <2>1, <2>2, <2>3 DEF Mov_checked
<1>12. \E y, u, i : /\ AlGood(y, K) /\ Turn(InFunction(y), Append(Add_mov_for_break(u, t), i))
                    /\ \A L : l \in L => IsOne(i, L)
  <2>1. CASE Conv_br
    <3>1. Turn(InFunction(Mov_checked(x, t)), Append(Add_mov_for_break(x, t), Jmp(l)))
      BY <2>1, <1>3, <1>5, <1>7, <1>8 DEF Conv_br
    <3>2. \A L : l \in L => IsOne(Jmp(l), L)
      BY JumpOne
    <3> QED
      BY <3>1, <3>2, <1>4, <1>11
  <2>2. CASE Conv_br_if
    <3>1. PICK r : r = Top(x, "i32").idx
      OBVIOUS
    <3>2. Turn(InFunction(Mov_checked(z, t)), Append(Add_mov_for_break(z, t), Jcc("JNZ", r, l)))
      BY <2>2, <3>1, <1>3, <1>5, <1>7, <1>8, <1>9 DEF Conv_br_if
    <3>3. \A L : l \in L => IsOne(Jcc("JNZ", r, l), L)
      BY JumpOne
    <3> QED
      BY <3>2, <3>3, <1>10, <1>11
  <2> QED
    BY <2>1, <2>2
<1>13. PICK y, u, i : /\ AlGood(y, K) /\ Turn(InFunction(y), Append(Add_mov_for_break(u, t), i))
                      /\ \A L : l \in L => IsOne(i, L)
  BY <1>12
<1>14. PICK m : m = Add_mov_for_break(u, t)
  OBVIOUS
<1>15. PICK c : c = Append(m, i)
  OBVIOUS
<1>16. \A L : l \in L => Emitted(c, L)
  <2> SUFFICES ASSUME NEW L, l \in L PROVE Emitted(c, L)
    OBVIOUS
  <2>1. Emitted(m, L)
    BY <1>14, MovEmitted
  <2>2. IsOne(i, L)
    BY <1>13
  <2> QED
    BY <2>1, <2>2, <1>15, OneMore
<1>17. PICK a : a = InFunction(y)
  OBVIOUS
<1>18. ASSUME a.ok PROVE Emitted(c, DOMAIN labels)
  <2>1. t # 0
    BY <1>6, <1>8, <1>13, <1>17, <1>18, InFunctionOk
  <2>2. l \in DOMAIN labels
    BY <2>1, <1>1, <1>6, <1>7, <1>8, JumpLabel
  <2>3. PICK L : L = DOMAIN labels
    OBVIOUS
  <2> QED
    BY <2>2, <2>3, <1>16
<1>19. Emitted(c, {l}) /\ SameShape(graph, graph')
  BY <1>1, <1>16 DEF SameShape
<1>20. Turn(a, c)
  BY <1>13, <1>14, <1>15, <1>17
<1>21. PICK M : M = {l}
  OBVIOUS
<1>22. Cur.op \notin {"Loop", "Else", "End", "Return"}
  BY <1>1
<1> QED
  BY <1>1, <1>18, <1>19, <1>20, <1>21, <1>22, QuietCode


\* The jumps of br_table: one label for each entry.
LEMMA TableCode ==
  ASSUME ConvInv, CodeInv, Conv_br_table
  PROVE  SizeInv' /\ LabelInv' /\ EndInv' /\ DeadInv' /\ EmitInv'
<1>1. /\ phase = "convert" /\ graph' = graph /\ labels' = labels /\ Cur.op = "BrTable"
  BY DEF Conv_br_table, Converting, Quiet
<1>2. PICK K : K = KeptAt(graph, at)
  OBVIOUS
<1>3. PICK x : x = al
  OBVIOUS
<1>4. AlGood(x, K) /\ WellFormed(Cur)
  BY <1>1, <1>2, <1>3, TurnStart
<1>5. PICK w : w = Cur.n
  OBVIOUS
<1>6. w \in Seq(Nat) /\ w # << >>
  BY <1>1, <1>4, <1>5 DEF WellFormed
<1>7. PICK n \in Nat \ {0} : n = Len(w)
  BY <1>6, EmptySeq
<1>8. /\ DOMAIN w = 1 .. n
      /\ \A k \in 1 .. n : w[k] \in Nat
      /\ Range(w) = {w[k] : k \in 1 .. n}
  <2>1. DOMAIN w = 1 .. n
    BY <1>6, <1>7
  <2>2. \A k \in 1 .. n : w[k] \in Nat
    BY <1>6, <1>7, ElementOfSeq
  <2> QED
    BY <2>1, <2>2 DEF Range
<1>9. PICK M : M = {Get_label_id_for_jump(w[k]) : k \in 1 .. n}
  OBVIOUS
<1>10. PICK b : b = WithScratch(x)
  OBVIOUS
<1>11. PICK z : z = Pop_wasm_stk(b, "i32")
  OBVIOUS
<1>12. AlGood(z, K)
  <2>1. AlGood(b, K)
    BY <1>4, <1>10, ScratchGood
  <2> QED
    BY <2>1, <1>11, PopGood
<1>13. PICK ts : ts = {Get_parent_stmt_for_branch(d) : d \in Range(w)}
  OBVIOUS
<1>14. PICK C \in Nat : C = at
  BY <1>1, TurnStart
<1>15. PICK tmp : tmp = Scratch(x)
  OBVIOUS
<1>16. PICK i : i = Mov("i32", tmp, Top(b, "i32").idx)
  OBVIOUS
<1>17. PICK mv : mv = [k \in 1 .. C |->
         IF k - 1 \in Range(w) THEN Add_mov_for_break(z, Get_parent_stmt_for_branch(k - 1)) ELSE << >>]
  OBVIOUS
<1>18. PICK te : te = [k \in 1 .. n - 1 |-> <<Jcc("JEZ", tmp, Get_label_id_for_jump(w[k])),
                                             Uinst("ADDI", "i32", <<tmp, tmp>>, NoLabel, V - 1)>>]
  OBVIOUS
<1>19. PICK j : j = Jmp(Get_label_id_for_jump(Last(w)))
  OBVIOUS
<1>20. PICK P : P = (\A t \in ts : Mov_checked(z, t).ok)
  OBVIOUS
<1>21. PICK y : y = [z EXCEPT !.ok = @ /\ P]
  OBVIOUS
<1>22. PICK c : c = <<i>> \o FlattenSeq(mv) \o FlattenSeq(te) \o <<j>>
  OBVIOUS
<1>23. Turn(InFunction(y), c)
  BY <1>3, <1>5, <1>7, <1>10, <1>11, <1>13, <1>14, <1>15, <1>16, <1>17, <1>18, <1>19, <1>20, <1>21,
     <1>22 DEF Conv_br_table, Movs_for_targets
<1>24. Emitted(<<i>>, M)
  <2>1. PICK l : l = NoLabel
    OBVIOUS
  <2>2. PICK r : r = <<tmp, Top(b, "i32").idx>>
    OBVIOUS
  <2>3. IsOne(Uinst("MOV", "i32", r, l, 0), M)
    BY <2>1, UinstOne
  <2>4. IsOne(i, M)
    BY <2>1, <2>2, <2>3, <1>16 DEF Mov
  <2> QED
    BY <2>4, OneEmitted
<1>25. Emitted(FlattenSeq(mv), M)
  <2>1. mv = [k \in 1 .. C |-> mv[k]]
    BY ONLY <1>17
  <2>2. [k \in 1 .. C |-> mv[k]] \in Seq({mv[k] : k \in 1 .. C}) /\ Len([k \in 1 .. C |-> mv[k]]) = C
    BY <1>14
  <2>3. IsSeq(mv) /\ Len(mv) = C
    BY ONLY <2>1, <2>2 DEF IsSeq
  <2>4. \A k \in 1 .. C : Emitted(mv[k], M)
    <3> SUFFICES ASSUME NEW k \in 1 .. C PROVE Emitted(mv[k], M)
      OBVIOUS
    <3>1. PICK t : t = Get_parent_stmt_for_branch(k - 1)
      OBVIOUS
    <3>2. mv[k] = Add_mov_for_break(z, t) \/ mv[k] = << >>
      BY ONLY <3>1, <1>17, k \in 1 .. C
    <3> QED
      BY <3>2, MovEmitted, EmptyEmitted
  <2> QED
    BY <2>3, <2>4, FlatEmitted
<1>26. \A k \in 1 .. n : Get_label_id_for_jump(w[k]) \in M
  BY <1>9
<1>27. Emitted(FlattenSeq(te), M)
  <2>1. PICK e \in Nat : e = n - 1 /\ \A k \in 1 .. e : k \in 1 .. n
    BY <1>7
  <2>2. te = [k \in 1 .. e |-> te[k]]
    BY ONLY <2>1, <1>18
  <2>3. [k \in 1 .. e |-> te[k]] \in Seq({te[k] : k \in 1 .. e}) /\ Len([k \in 1 .. e |-> te[k]]) = e
    BY <2>1
  <2>4. IsSeq(te) /\ Len(te) = e
    BY ONLY <2>2, <2>3 DEF IsSeq
  <2>5. PICK q : q = Uinst("ADDI", "i32", <<tmp, tmp>>, NoLabel, V - 1)
    OBVIOUS
  <2>6. IsOne(q, M)
    <3>1. PICK l : l = NoLabel
      OBVIOUS
    <3>2. PICK r : r = <<tmp, tmp>>
      OBVIOUS
    <3>3. PICK v : v = V - 1
      OBVIOUS
    <3>4. IsOne(Uinst("ADDI", "i32", r, l, v), M)
      BY <3>1, UinstOne
    <3> QED
      BY <3>1, <3>2, <3>3, <3>4, <2>5
  <2>7. \A k \in 1 .. e : Emitted(te[k], M)
    <3> SUFFICES ASSUME NEW k \in 1 .. e PROVE Emitted(te[k], M)
      OBVIOUS
    <3>1. PICK l : l = Get_label_id_for_jump(w[k])
      OBVIOUS
    <3>2. l \in M
      BY <3>1, <2>1, <1>26
    <3>3. PICK o : o = Jcc("JEZ", tmp, l)
      OBVIOUS
    <3>4. IsOne(o, M)
      BY <3>2, <3>3, JumpOne
    <3>5. te[k] = <<o, q>>
      BY ONLY <3>1, <3>3, <2>1, <2>5, <1>18, k \in 1 .. e
    <3>6. Emitted(<<o, q>>, M)
      BY ONLY <3>4, <2>6, FewEmitted
    <3> QED
      BY ONLY <3>5, <3>6
  <2> QED
    BY <2>4, <2>7, FlatEmitted
<1>28. Emitted(<<j>>, M)
  <2>1. PICK l : l = Get_label_id_for_jump(Last(w))
    OBVIOUS
  <2>2. l \in M
    <3>1. Last(w) = w[n] /\ n \in 1 .. n
      BY <1>7 DEF Last
    <3> QED
      BY <3>1, <2>1, <1>26
  <2>3. IsOne(j, M)
    BY <2>1, <2>2, <1>19, JumpOne
  <2> QED
    BY <2>3, OneEmitted
<1>29. Emitted(c, M)
  <2>1. PICK c1 : c1 = <<i>> \o FlattenSeq(mv)
    OBVIOUS
  <2>2. PICK c2 : c2 = c1 \o FlattenSeq(te)
    OBVIOUS
  <2>3. Emitted(c1, M)
    BY <2>1, <1>24, <1>25, ConcatEmitted
  <2>4. Emitted(c2, M)
    BY <2>2, <2>3, <1>27, ConcatEmitted
  <2>5. Emitted(c2 \o <<j>>, M)
    BY <2>4, <1>28, ConcatEmitted
  <2> QED
    BY <2>1, <2>2, <2>5, <1>22
<1>30. PICK a : a = InFunction(y)
  OBVIOUS
<1>31. ASSUME a.ok PROVE Emitted(c, DOMAIN labels)
  <2>1. AlGood(y, K)
    BY <1>12, <1>21, CheckGood
  <2>2. \A d \in Range(w) : Get_parent_stmt_for_branch(d) # 0
    BY <2>1, <1>5, <1>30, <1>31, InFunctionOk
  <2>3. \A k \in 1 .. n : Get_label_id_for_jump(w[k]) \in DOMAIN labels
    <3> SUFFICES ASSUME NEW k \in 1 .. n PROVE Get_label_id_for_jump(w[k]) \in DOMAIN labels
      OBVIOUS
    <3>1. PICK d : d = w[k]
      OBVIOUS
    <3>2. d \in Nat /\ d \in Range(w)
      BY <3>1, <1>8
    <3> QED
      BY <3>1, <3>2, <2>2, <1>1, JumpLabel
  <2>4. M \subseteq DOMAIN labels
    BY <2>3, <1>9
  <2>5. PICK L : L = DOMAIN labels
    OBVIOUS
  <2>6. Emitted(c, L)
    BY <2>4, <2>5, <1>29, MoreEmitted
  <2> QED
    BY <2>5, <2>6
<1>32. SameShape(graph, graph') /\ Turn(a, c) /\ Cur.op \notin {"Loop", "Else", "End", "Return"}
  BY <1>1, <1>23, <1>30 DEF SameShape
<1> QED
  BY <1>1, <1>29, <1>31, <1>32, QuietCode


-----------------------------------------------------------------------------
(* Blocks.                                                                 *)

\* A block's registers change nothing in the tree.
LEMMA OpenShape ==
  ASSUME ConvInv, phase = "convert", NEW a, OpenBlock(a, at)
  PROVE  SameShape(graph, graph')
<1>1. PICK g : g = graph
  OBVIOUS
<1>2. PICK t : t = at
  OBVIOUS
<1>3. PICK h : h = graph'
  OBVIOUS
<1>4. GraphOK(g)
  BY <1>1, TurnStart
<1>5. PICK n \in Nat : n = Len(g) /\ g \in Seq(Stmts) /\ DOMAIN g = 1 .. n
  BY <1>4 DEF GraphOK
<1>6. PICK r : r = IF g[t].res = Void THEN 0 ELSE a.next[g[t].res]
  OBVIOUS
<1>7. PICK z : z = Len(a.stk)
  OBVIOUS
<1>8. h = [k \in DOMAIN g |-> IF k = t \/ (k = g[t].els /\ g[t].els # 0)
                              THEN [g[k] EXCEPT !.reg = r, !.size = z] ELSE g[k]]
  BY ONLY OpenBlock(a, at), <1>1, <1>2, <1>3, <1>6, <1>7 DEF OpenBlock
<1>9. h = [k \in 1 .. n |-> h[k]]
  BY ONLY <1>5, <1>8
<1>10. Len([k \in 1 .. n |-> h[k]]) = n
  BY <1>5
<1>11. ASSUME NEW k \in 1 .. n
       PROVE  h[k].op = g[k].op /\ h[k].parent = g[k].parent /\ h[k].els = g[k].els
  <2>1. h[k] = g[k] \/ h[k] = [g[k] EXCEPT !.reg = r, !.size = z]
    BY ONLY <1>5, <1>8, <1>11
  <2>2. PICK e : e = [g[k] EXCEPT !.reg = r, !.size = z]
    OBVIOUS
  <2>3. g[k] \in Stmts
    BY <1>5, <1>11, StmtFields
  <2>4. e.op = g[k].op /\ e.parent = g[k].parent /\ e.els = g[k].els
    BY <2>2, <2>3 DEF Stmts
  <2> QED
    BY ONLY <2>1, <2>2, <2>4
<1>12. SameShape(g, h)
  BY ONLY <1>5, <1>9, <1>10, <1>11 DEF SameShape
<1> QED
  BY <1>1, <1>3, <1>12

\* SetLabels, as a relation of the labels before and after.
LEMMA SetIs ==
  ASSUME NEW N, NEW c, NEW ls, ls = labels, NEW ms, ms = SetLabels(N, c)
  PROVE  Labelled(ls, N, Len(code) + Len(c) + 1, ms)
<1>1. ms = [l \in DOMAIN ls \cup N |-> IF l \in N THEN Len(code) + Len(c) + 1 ELSE ls[l]]
  BY DEF SetLabels, Here
<1> QED
  BY ONLY <1>1 DEF Labelled

\* A turn that sets labels behind what it emits, and is not the last one.
LEMMA LabelCode ==
  ASSUME ConvInv, CodeInv, phase = "convert", NEW a, NEW c, Turn(a, c),
         Cur.op # "Return", Cur.op = "End" => Me.parent # 0, SameShape(graph, graph'),
         NEW N, NEW q \in 0 .. Len(c), NEW ms, ms = labels',
         Labelled(labels, N, Len(code) + q + 1, ms),
         IsSeq(c), a.ok => Emitted(c, DOMAIN ms),
         OwnLabels(graph, at, N)
  PROVE  SizeInv' /\ LabelInv' /\ EndInv' /\ DeadInv' /\ EmitInv'
<1>1. PICK g : g = graph
  OBVIOUS
<1>2. PICK h : h = graph'
  OBVIOUS
<1>3. PICK ls : ls = labels
  OBVIOUS
<1>4. at # Len(ins)
  BY DEF CodeInv, EndInv, Cur, Me
<1>5. SameShape(g, h) /\ Labelled(ls, N, Len(code) + q + 1, ms) /\ OwnLabels(g, at, N)
  BY <1>1, <1>2, <1>3
<1> QED
  BY <1>1, <1>2, <1>3, <1>4, <1>5, TurnCode

\* Block, loop and if.
LEMMA OpenCode ==
  ASSUME ConvInv, CodeInv, Conv_block \/ Conv_if
  PROVE  SizeInv' /\ LabelInv' /\ EndInv' /\ DeadInv' /\ EmitInv'
<1>1. phase = "convert" /\ Cur.op \in {"Block", "Loop", "If"}
  BY DEF Conv_block, Conv_if, Converting
<1>2. SameShape(graph, graph')
  BY <1>1, OpenShape DEF Conv_block, Conv_if
<1>3. Emitted(<< >>, {}) /\ Emitted(<< >>, DOMAIN labels) /\ IsSeq(<< >>)
  BY EmptyEmitted DEF Emitted
<1>4. CASE Conv_block /\ Cur.op # "Loop"
  <2>1. labels' = labels /\ \E a : Turn(a, << >>)
    BY <1>4 DEF Conv_block
  <2>2. PICK a : Turn(a, << >>)
    BY <2>1
  <2>3. Cur.op \notin {"Loop", "Else", "End", "Return"}
    BY <1>1, <1>4
  <2>4. PICK c : c = << >>
    OBVIOUS
  <2>5. PICK M : M = {}
    OBVIOUS
  <2>6. Turn(a, c) /\ Emitted(c, M) /\ (a.ok => Emitted(c, DOMAIN labels))
    BY <2>2, <2>4, <2>5, <1>3
  <2> QED
    BY <2>1, <2>3, <2>6, <1>1, <1>2, QuietCode
<1>5. CASE Conv_block /\ Cur.op = "Loop"
  <2>1. PICK N : N = {<<"begin", at>>}
    OBVIOUS
  <2>2. PICK c : c = << >>
    OBVIOUS
  <2>3. PICK ms : ms = labels'
    OBVIOUS
  <2>4. ms = SetLabels(N, c) /\ \E a : Turn(a, c)
    BY <1>5, <2>1, <2>2, <2>3 DEF Conv_block
  <2>5. Labelled(labels, N, Len(code) + Len(c) + 1, ms)
    BY <2>4, SetIs
  <2>6. PICK a : Turn(a, c)
    BY <2>4
  <2>7. PICK q \in 0 .. Len(c) : q = Len(c)
    BY <2>2
  <2>8. OwnLabels(graph, at, N)
    <3>1. graph[at].op = "Loop"
      BY <1>1, <1>5, TurnStart
    <3> QED
      BY <3>1, <2>1 DEF OwnLabels
  <2>9. /\ IsSeq(c) /\ Emitted(c, DOMAIN ms) /\ Cur.op # "Return" /\ Cur.op # "End"
        /\ Labelled(labels, N, Len(code) + q + 1, ms)
    BY <2>2, <2>5, <2>7, <1>3, <1>5, EmptyEmitted
  <2> QED
    BY <2>3, <2>6, <2>8, <2>9, <1>1, <1>2, LabelCode
<1>6. CASE Conv_if
  <2>1. PICK l : l = IF Me.els # 0 THEN <<"begin", Me.els>> ELSE <<"end", at>>
    OBVIOUS
  <2>2. PICK r : r = Top(al, "i32").idx
    OBVIOUS
  <2>3. PICK i : i = Jcc("JEZ", r, l)
    OBVIOUS
  <2>4. PICK c : c = <<i>>
    OBVIOUS
  <2>5. labels' = labels /\ \E a : Turn(a, c)
    BY <1>6, <2>1, <2>2, <2>3, <2>4 DEF Conv_if
  <2>6. PICK a : Turn(a, c)
    BY <2>5
  <2>7. \A L : l \in L => Emitted(c, L)
    <3> SUFFICES ASSUME NEW L, l \in L PROVE Emitted(c, L)
      OBVIOUS
    <3>1. IsOne(i, L)
      BY <2>3, JumpOne
    <3> QED
      BY <3>1, <2>4, OneEmitted
  <2>8. l \in DOMAIN labels
    <3>1. PICK g : g = graph
      OBVIOUS
    <3>2. PICK t : t = at
      OBVIOUS
    <3>3. GraphOK(g) /\ t \in 1 .. Len(g) /\ g[t].op = "If" /\ Me = g[t]
      <4>1. Cur.op = "If"
        BY <1>6 DEF Conv_if, Converting
      <4> QED
        BY <4>1, <3>1, <3>2, <1>1, TurnStart
    <3>4. PICK n \in Nat : n = Len(g)
      BY <3>3 DEF GraphOK
    <3>5. LabelsOf(g) \subseteq DOMAIN labels
      BY <3>1, <1>1 DEF CodeInv, EmitInv
    <3>6. \A k \in 1 .. n : /\ g[k].op \in BlockOps => <<"end", k>> \in LabelsOf(g)
                            /\ g[k].op \in {"Loop", "Else"} => <<"begin", k>> \in LabelsOf(g)
      BY ONLY <3>4 DEF LabelsOf
    <3>7. StmtOK(g, t) /\ "If" \in BlockOps
      BY <3>3 DEF GraphOK, BlockOps
    <3>8. CASE g[t].els # 0
      <4>1. g[t].els \in t + 1 .. n /\ g[g[t].els].op = "Else"
        BY ONLY <3>3, <3>4, <3>7, <3>8 DEF StmtOK
      <4>2. g[t].els \in 1 .. n
        BY <4>1, <3>3, <3>4
      <4>3. l = <<"begin", g[t].els>>
        BY <2>1, <3>3, <3>8
      <4> QED
        BY ONLY <4>1, <4>2, <4>3, <3>5, <3>6
    <3>9. CASE g[t].els = 0
      <4>1. l = <<"end", t>>
        BY <2>1, <3>2, <3>3, <3>9
      <4> QED
        BY ONLY <4>1, <3>3, <3>4, <3>5, <3>6, <3>7
    <3> QED
      BY <3>8, <3>9
  <2>9. PICK M : M = {l}
    OBVIOUS
  <2>10. PICK L : L = DOMAIN labels
    OBVIOUS
  <2>11. Emitted(c, M) /\ Emitted(c, L)
    BY <2>7, <2>8, <2>9, <2>10
  <2>12. Cur.op \notin {"Loop", "Else", "End", "Return"}
    BY <1>6 DEF Conv_if, Converting
  <2> QED
    BY <2>5, <2>6, <2>10, <2>11, <2>12, <1>1, <1>2, QuietCode
<1> QED
  BY <1>4, <1>5, <1>6


\* Else jumps to its end and sets its begin, select sets a label of its own.
LEMMA ElseSelectCode ==
  ASSUME ConvInv, CodeInv, Conv_else \/ Conv_select
  PROVE  SizeInv' /\ LabelInv' /\ EndInv' /\ DeadInv' /\ EmitInv'
<1>1. phase = "convert" /\ Cur.op \in {"Else", "Select"} /\ graph' = graph
  BY DEF Conv_else, Conv_select, Converting
<1>2. PICK ms : ms = labels'
  OBVIOUS
<1>3. PICK g : g = graph
  OBVIOUS
<1>4. PICK t : t = at
  OBVIOUS
<1>5. GraphOK(g) /\ t \in 1 .. Len(g) /\ g[t].op = Cur.op
  BY <1>1, <1>3, <1>4, TurnStart
<1>6. \E a, c, N : /\ Turn(a, c) /\ ms = SetLabels(N, c) /\ OwnLabels(g, t, N)
                   /\ Emitted(c, DOMAIN labels \cup N)
  <2>1. CASE Conv_else
    <3>1. PICK m : m = Add_mov_for_break(al, at)
      OBVIOUS
    <3>2. PICK l : l = <<"end", at>>
      OBVIOUS
    <3>3. PICK i : i = Jmp(l)
      OBVIOUS
    <3>4. PICK c : c = Append(m, i)
      OBVIOUS
    <3>5. PICK N : N = {<<"begin", at>>}
      OBVIOUS
    <3>6. (\E a : Turn(a, c)) /\ ms = SetLabels(N, c)
      BY <2>1, <3>1, <3>2, <3>3, <3>4, <3>5, <1>2 DEF Conv_else
    <3>7. Cur.op = "Else"
      BY <2>1 DEF Conv_else, Converting
    <3>8. OwnLabels(g, t, N)
      BY <3>5, <3>7, <1>4, <1>5 DEF OwnLabels
    <3>9. PICK L : L = DOMAIN labels \cup N
      OBVIOUS
    <3>10. l \in L
      <4>1. LabelsOf(g) \subseteq DOMAIN labels
        BY <1>1, <1>3 DEF CodeInv, EmitInv
      <4>2. g[t].op \in BlockOps
        BY <3>7, <1>5 DEF BlockOps
      <4>3. <<"end", t>> \in LabelsOf(g)
        BY <4>2, <1>5 DEF LabelsOf
      <4> QED
        BY <4>1, <4>3, <3>2, <3>9, <1>4
    <3>11. Emitted(m, L)
      BY <3>1, MovEmitted
    <3>12. IsOne(i, L)
      BY <3>3, <3>10, JumpOne
    <3>13. Emitted(c, L)
      BY <3>4, <3>11, <3>12, OneMore
    <3> QED
      BY <3>6, <3>8, <3>9, <3>13
  <2>2. CASE Conv_select
    <3>1. PICK l : l = <<"select", at>>
      OBVIOUS
    <3>2. PICK N : N = {l}
      OBVIOUS
    <3>3. \E a, ty, tmp, rd, bool, rs, rt :
            /\ Turn(a, Select_code(ty, tmp, rd, bool, rs, rt, l))
            /\ ms = SetLabels(N, Select_code(ty, tmp, rd, bool, rs, rt, l))
      BY <2>2, <3>1, <3>2, <1>2 DEF Conv_select
    <3>4. PICK a, ty, tmp, rd, bool, rs, rt :
            /\ Turn(a, Select_code(ty, tmp, rd, bool, rs, rt, l))
            /\ ms = SetLabels(N, Select_code(ty, tmp, rd, bool, rs, rt, l))
      BY <3>3
    <3>5. PICK c : c = Select_code(ty, tmp, rd, bool, rs, rt, l)
      OBVIOUS
    <3>6. PICK L : L = DOMAIN labels \cup N
      OBVIOUS
    <3>7. l \in L
      BY <3>2, <3>6
    <3>8. \A op, r : IsOne(Jcc(op, r, l), L)
      BY <3>7, JumpOne
    <3>9. \A y, d, r : IsOne(Mov(y, d, r), L)
      <4> SUFFICES ASSUME NEW y, NEW d, NEW r PROVE IsOne(Mov(y, d, r), L)
        OBVIOUS
      <4>1. PICK s : s = <<d, r>>
        OBVIOUS
      <4>2. PICK o : o = NoLabel
        OBVIOUS
      <4>3. IsOne(Uinst("MOV", y, s, o, 0), L)
        BY <4>2, UinstOne
      <4> QED
        BY <4>1, <4>2, <4>3 DEF Mov
    <3>10. Emitted(c, L)
      <4>1. CASE rd = rt
        <5>1. PICK i : i = Jcc("JNZ", bool, l)
          OBVIOUS
        <5>2. PICK j : j = Mov(ty, rd, rs)
          OBVIOUS
        <5>3. IsOne(i, L) /\ IsOne(j, L)
          BY <5>1, <5>2, <3>8, <3>9
        <5>4. Emitted(<<i, j>>, L)
          BY ONLY <5>3, FewEmitted
        <5>5. c = <<i, j>>
          BY <4>1, <5>1, <5>2, <3>5 DEF Select_code
        <5> QED
          BY ONLY <5>4, <5>5
      <4>2. CASE rd # rt /\ bool = rd
        <5>1. PICK i : i = Mov("i32", tmp, bool)
          OBVIOUS
        <5>2. PICK j : j = Mov(ty, rd, rs)
          OBVIOUS
        <5>3. PICK k : k = Jcc("JEZ", tmp, l)
          OBVIOUS
        <5>4. PICK m : m = Mov(ty, rd, rt)
          OBVIOUS
        <5>5. IsOne(i, L) /\ IsOne(j, L) /\ IsOne(k, L) /\ IsOne(m, L)
          BY <5>1, <5>2, <5>3, <5>4, <3>8, <3>9
        <5>6. Emitted(<<i, j, k, m>>, L)
          BY ONLY <5>5, FewEmitted
        <5>7. c = <<i, j, k, m>>
          BY <4>2, <5>1, <5>2, <5>3, <5>4, <3>5 DEF Select_code
        <5> QED
          BY ONLY <5>6, <5>7
      <4>3. CASE rd # rt /\ bool # rd
        <5>1. PICK i : i = Mov(ty, rd, rs)
          OBVIOUS
        <5>2. PICK j : j = Jcc("JEZ", bool, l)
          OBVIOUS
        <5>3. PICK k : k = Mov(ty, rd, rt)
          OBVIOUS
        <5>4. IsOne(i, L) /\ IsOne(j, L) /\ IsOne(k, L)
          BY <5>1, <5>2, <5>3, <3>8, <3>9
        <5>5. Emitted(<<i, j, k>>, L)
          BY ONLY <5>4, FewEmitted
        <5>6. c = <<i, j, k>>
          BY <4>3, <5>1, <5>2, <5>3, <3>5 DEF Select_code
        <5> QED
          BY ONLY <5>5, <5>6
      <4> QED
        BY <4>1, <4>2, <4>3
    <3>11. Cur.op = "Select"
      BY <2>2 DEF Conv_select, Converting
    <3>12. OwnLabels(g, t, N)
      BY <3>11, <1>5 DEF OwnLabels
    <3> QED
      BY <3>4, <3>5, <3>6, <3>10, <3>12
  <2> QED
    BY <2>1, <2>2
<1>7. PICK a, c, N : /\ Turn(a, c) /\ ms = SetLabels(N, c) /\ OwnLabels(g, t, N)
                     /\ Emitted(c, DOMAIN labels \cup N)
  BY <1>6
<1>8. Labelled(labels, N, Len(code) + Len(c) + 1, ms)
  BY <1>7, SetIs
<1>9. IsSeq(c) /\ DOMAIN ms = DOMAIN labels \cup N
  BY <1>7, <1>8 DEF Emitted, Labelled
<1>10. PICK q \in 0 .. Len(c) : q = Len(c)
  BY <1>9 DEF IsSeq
<1>11. Labelled(labels, N, Len(code) + q + 1, ms)
  BY <1>8, <1>10
<1>12. Emitted(c, DOMAIN ms)
  BY <1>7, <1>9
<1>13. SameShape(graph, graph') /\ OwnLabels(graph, at, N) /\ Cur.op # "Return" /\ Cur.op # "End"
  BY <1>1, <1>3, <1>4, <1>7 DEF SameShape
<1> QED
  BY <1>1, <1>2, <1>7, <1>9, <1>11, <1>12, <1>13, LabelCode

\* The end of a block sets the end label, and that of the if for an else.
LEMMA EndCode ==
  ASSUME ConvInv, CodeInv, Conv_end_block \/ Conv_end_unreachable
  PROVE  SizeInv' /\ LabelInv' /\ EndInv' /\ DeadInv' /\ EmitInv'
<1>1. /\ phase = "convert" /\ Cur.op = "End" /\ Me.parent # 0 /\ graph' = graph
  BY DEF Conv_end_block, Conv_end_unreachable, Converting
<1>2. PICK ms : ms = labels'
  OBVIOUS
<1>3. PICK N : N = EndLabels(Me.parent)
  OBVIOUS
<1>4. OwnLabels(graph, at, N)
  <2>1. graph[at].op = "End" /\ N = EndsOf(graph, graph[at].parent)
    BY <1>1, <1>3, TurnStart DEF EndLabels, EndsOf, Me
  <2> QED
    BY <2>1 DEF OwnLabels
<1>5. PICK L : L = DOMAIN labels \cup N
  OBVIOUS
<1>6. \A op, ty, r : IsOne(Uinst(op, ty, r, NoLabel, 0), L)
  <2> SUFFICES ASSUME NEW op, NEW ty, NEW r PROVE IsOne(Uinst(op, ty, r, NoLabel, 0), L)
    OBVIOUS
  <2>1. PICK l : l = NoLabel
    OBVIOUS
  <2>2. IsOne(Uinst(op, ty, r, l, 0), L)
    BY <2>1, UinstOne
  <2> QED
    BY <2>1, <2>2
<1>7. \E a, c, q : /\ Turn(a, c) /\ Emitted(c, L) /\ q \in 0 .. Len(c)
                   /\ Labelled(labels, N, Len(code) + q + 1, ms)
  <2>1. CASE Conv_end_block
    <3>1. \E a, c : /\ Turn(a, c) /\ ms = SetLabels(N, c)
                    /\ c = << >> \/ \E ty, d, r : c = <<Mov(ty, d, r)>>
      BY <2>1, <1>2, <1>3 DEF Conv_end_block
    <3>2. PICK a, c : /\ Turn(a, c) /\ ms = SetLabels(N, c)
                      /\ c = << >> \/ \E ty, d, r : c = <<Mov(ty, d, r)>>
      BY <3>1
    <3>3. Emitted(c, L)
      <4>1. CASE c = << >>
        BY <4>1, EmptyEmitted
      <4>2. CASE \E ty, d, r : c = <<Mov(ty, d, r)>>
        <5>1. PICK ty, d, r : c = <<Mov(ty, d, r)>>
          BY <4>2
        <5>2. PICK i : i = Mov(ty, d, r)
          OBVIOUS
        <5>3. IsOne(i, L)
          BY <5>2, <1>6 DEF Mov
        <5> QED
          BY <5>1, <5>2, <5>3, OneEmitted
      <4> QED
        BY <4>1, <4>2, <3>2
    <3>4. Labelled(labels, N, Len(code) + Len(c) + 1, ms)
      BY <3>2, SetIs
    <3>5. Len(c) \in 0 .. Len(c)
      BY <3>3 DEF Emitted, IsSeq
    <3> QED
      BY <3>2, <3>3, <3>4, <3>5
  <2>2. CASE Conv_end_unreachable
    <3>1. PICK e : e = << >> /\ Len(e) = 0
      OBVIOUS
    <3>2. PICK i : i = Ret
      OBVIOUS
    <3>3. PICK c : c = <<i>>
      OBVIOUS
    <3>4. (\E a : Turn(a, c)) /\ ms = SetLabels(N, e)
      BY <2>2, <3>1, <3>2, <3>3, <1>2, <1>3 DEF Conv_end_unreachable
    <3>5. Labelled(labels, N, Len(code) + Len(e) + 1, ms)
      BY <3>4, SetIs
    <3>6. Labelled(labels, N, Len(code) + 0 + 1, ms)
      BY ONLY <3>1, <3>5
    <3>7. IsOne(i, L)
      BY <3>2, <1>6 DEF Ret
    <3>8. Emitted(c, L)
      BY <3>3, <3>7, OneEmitted
    <3>9. 0 \in 0 .. Len(c)
      BY <3>8 DEF Emitted, IsSeq
    <3> QED
      BY <3>4, <3>6, <3>8, <3>9
  <2> QED
    BY <2>1, <2>2
<1>8. PICK a, c, q : /\ Turn(a, c) /\ Emitted(c, L) /\ q \in 0 .. Len(c)
                     /\ Labelled(labels, N, Len(code) + q + 1, ms)
  BY <1>7
<1>9. IsSeq(c) /\ DOMAIN ms = L
  BY <1>5, <1>8 DEF Emitted, Labelled
<1>10. Emitted(c, DOMAIN ms) /\ SameShape(graph, graph') /\ Cur.op # "Return"
  BY <1>1, <1>8, <1>9 DEF SameShape
<1> QED
  BY <1>1, <1>2, <1>4, <1>8, <1>9, <1>10, LabelCode

\* A return, and the end of the function: what comes last is a return.
LEMMA ReturnCode ==
  ASSUME ConvInv, CodeInv, Conv_return \/ Conv_end_func
  PROVE  SizeInv' /\ LabelInv' /\ EndInv' /\ DeadInv' /\ EmitInv'
<1>1. /\ phase = "convert" /\ Cur.op \in {"Return", "End"} /\ graph' = graph /\ labels' = labels
      /\ Cur.op = "End" => Me.parent = 0
  BY DEF Conv_return, Conv_end_func, Converting, Quiet
<1>2. PICK g : g = graph
  OBVIOUS
<1>3. PICK ls : ls = labels
  OBVIOUS
<1>4. PICK N : N = {}
  OBVIOUS
<1>5. g[at].op = Cur.op /\ Me = g[at]
  BY <1>1, <1>2, TurnStart
<1>6. OwnLabels(g, at, N)
  BY <1>1, <1>5 DEF OwnLabels
<1>7. PICK L : L = DOMAIN labels
  OBVIOUS
<1>8. \A op, ty, r : IsOne(Uinst(op, ty, r, NoLabel, 0), L)
  <2> SUFFICES ASSUME NEW op, NEW ty, NEW r PROVE IsOne(Uinst(op, ty, r, NoLabel, 0), L)
    OBVIOUS
  <2>1. PICK l : l = NoLabel
    OBVIOUS
  <2>2. IsOne(Uinst(op, ty, r, l, 0), L)
    BY <2>1, UinstOne
  <2> QED
    BY <2>1, <2>2
<1>9. IsOne(Ret, L) /\ Ret.op = "RETURN"
  <2>1. Ret.op = "RETURN"
    BY DEF Ret, Uinst
  <2> QED
    BY <2>1, <1>8 DEF Ret
<1>10. PICK rt : rt = Ret
  OBVIOUS
<1>11. Emitted(<<rt>>, L) /\ <<rt>> # << >> /\ Last(<<rt>>).op = "RETURN"
  <2>1. Emitted(<<rt>>, L) /\ <<rt>> # << >> /\ Last(<<rt>>) = rt
    BY <1>9, <1>10, OneEmitted
  <2> QED
    BY <2>1, <1>9, <1>10
<1>12. ASSUME NEW ty, NEW d, NEW r
       PROVE  /\ Emitted(<<Mov(ty, d, r), rt>>, L) /\ <<Mov(ty, d, r), rt>> # << >>
              /\ Last(<<Mov(ty, d, r), rt>>).op = "RETURN"
  <2>1. PICK i : i = Mov(ty, d, r)
    OBVIOUS
  <2>2. IsOne(i, L) /\ IsOne(rt, L)
    BY <2>1, <1>8, <1>9, <1>10 DEF Mov
  <2>3. Emitted(<<i, rt>>, L) /\ <<i, rt>> # << >> /\ Last(<<i, rt>>) = rt
    BY ONLY <2>2, FewEmitted
  <2> QED
    BY <2>1, <2>3, <1>9, <1>10
<1>13. \E a, c : /\ Turn(a, c) /\ Emitted(c, L)
                 /\ \/ c # << >> /\ Last(c).op = "RETURN"
                    \/ c = << >> /\ Finished(code, labels)
                    \/ Cur.op # "Return" /\ (NoTrapJoins => TrapAtEnd)
  <2>1. CASE Conv_return
    <3>1. \/ Turn(al, <<rt>>)
          \/ \E a, ty, d, r : Turn(a, <<Mov(ty, d, r), rt>>)
      BY <2>1, <1>10 DEF Conv_return
    <3> QED
      BY <3>1, <1>11, <1>12
  <2>2. CASE Conv_end_func
    <3>1. Me.parent = 0
      BY <2>2 DEF Conv_end_func
    <3>2. NoTrapJoins /\ fres # Void => Clean(al) \/ TrapAtEnd
      BY <3>1, <1>1, StartClean
    <3>3. NoTrapJoins /\ ~TrapAtEnd /\ fres # Void => ~ \E k \in DOMAIN al.stk : al.stk[k].kind = "UNREACHABLE"
      <4>1. IsSeq(al.stk)
        BY <1>1, TurnStart DEF AlGood
      <4>2. DOMAIN al.stk = 1 .. Len(al.stk)
        BY <4>1 DEF IsSeq
      <4> QED
        BY <3>2, <4>2 DEF Clean
    <3>4. \/ Turn(al, <<rt>>)
          \/ \E a, ty, d, r : Turn(a, <<Mov(ty, d, r), rt>>)
          \/ fres # Void /\ ins[at - 1].op = "Return" /\ Turn(al, << >>)
          \/ (NoTrapJoins => TrapAtEnd) /\ Turn(al, << >>)
      BY <2>2, <3>3, <1>10 DEF Conv_end_func
    <3>5. CASE fres # Void /\ ins[at - 1].op = "Return" /\ Turn(al, << >>)
      <4>1. at = Len(ins) /\ (Len(ins) = 1 => fres = Void)
        <5>1. Cur.op = "End"
          BY <2>2 DEF Conv_end_func, Converting
        <5>2. at \in 1 .. Len(ins)
          BY <1>1 DEF ConvInv, InputInv
        <5> QED
          BY <5>1, <5>2, <3>1, <1>1 DEF CodeInv, EndInv, Cur, Me
      <4>2. at # 1
        BY <4>1, <3>5
      <4>3. Finished(code, labels)
        BY <4>2, <3>5, <1>1 DEF CodeInv, EmitInv
      <4> QED
        BY <4>3, <3>5, EmptyEmitted
    <3>6. CASE (NoTrapJoins => TrapAtEnd) /\ Turn(al, << >>)
      <4>1. Cur.op # "Return"
        BY <2>2 DEF Conv_end_func, Converting
      <4> QED
        BY <4>1, <3>6, EmptyEmitted
    <3> QED
      BY <3>4, <3>5, <3>6, <1>11, <1>12
  <2> QED
    BY <2>1, <2>2
<1>14. PICK a, c : /\ Turn(a, c) /\ Emitted(c, L)
                   /\ \/ c # << >> /\ Last(c).op = "RETURN"
                      \/ c = << >> /\ Finished(code, labels)
                      \/ Cur.op # "Return" /\ (NoTrapJoins => TrapAtEnd)
  BY <1>13
<1>15. c = << >> /\ Finished(code, labels) => Finished(code', labels)
  <2> SUFFICES ASSUME c = << >>, Finished(code, labels) PROVE Finished(code', labels)
    OBVIOUS
  <2>1. code' = code \o << >>
    BY <1>14 DEF Turn
  <2>2. PICK S : code \in Seq(S)
    BY DEF CodeInv, LabelInv, IsSeq
  <2>3. code \o << >> = code
    BY <2>2, ConcatEmptySeq
  <2> QED
    BY <2>1, <2>3
<1>16. IsSeq(c) /\ Len(c) \in Nat
  BY <1>14 DEF Emitted, IsSeq
<1>17. PICK p \in 0 .. Len(c) : p = 0
  BY <1>16
<1>18. Labelled(ls, N, Len(code) + p + 1, ls)
  BY <1>4 DEF Labelled
<1>19. \/ N = {} /\ c # << >> /\ Last(c).op = "RETURN"
       \/ Finished(code', ls)
       \/ Cur.op # "Return" /\ (NoTrapJoins => TrapAtEnd)
  BY <1>3, <1>4, <1>14, <1>15
<1>20. SameShape(g, g) /\ g = graph' /\ ls = labels' /\ Emitted(c, DOMAIN ls)
  BY <1>1, <1>2, <1>3, <1>7, <1>14 DEF SameShape
<1> QED
  BY <1>1, <1>2, <1>3, <1>6, <1>14, <1>16, <1>18, <1>19, <1>20, TurnCode


-----------------------------------------------------------------------------
\* The registers of calls are put in: opcodes and labels stay.
LEMMA FixedInst ==
  ASSUME NEW j, NEW i, IsInst(i), NEW f, f = FixedUp(j, i)
  PROVE  IsInst(f) /\ f.op = i.op /\ f.l = i.l
<1>1. \A n, x, e : e = [i EXCEPT !.r[n] = x] => IsInst(e) /\ e.op = i.op /\ e.l = i.l
  <2> SUFFICES ASSUME NEW n, NEW x, NEW e, e = [i EXCEPT !.r[n] = x]
               PROVE  IsInst(e) /\ e.op = i.op /\ e.l = i.l
    OBVIOUS
  <2>1. PICK y : y = [i.r EXCEPT ![n] = x]
    OBVIOUS
  <2>2. e = [i EXCEPT !.r = y]
    BY <2>1
  <2> QED
    BY <2>2 DEF IsInst
<1>2. f = i \/ \E n, x : f = [i EXCEPT !.r[n] = x]
  BY DEF FixedUp
<1>3. CASE f = i
  BY <1>3
<1>4. CASE \E n, x : f = [i EXCEPT !.r[n] = x]
  <2>1. PICK n, x : f = [i EXCEPT !.r[n] = x]
    BY <1>4
  <2> QED
    BY ONLY <1>1, <2>1, Zenon
<1> QED
  BY <1>2, <1>3, <1>4

\* The end of the conversion.
LEMMA FixCode ==
  ASSUME ConvInv, CodeInv, Fix_up
  PROVE  CodeInv'
<1>1. /\ phase = "fixup" /\ phase' = "done"
      /\ UNCHANGED <<alphabet, fres, valid, ins, work, graph, at, al, labels>>
      /\ code' = [j \in DOMAIN code |-> FixedUp(j, code[j])]
  BY DEF Fix_up, input
<1>2. PICK k : k = code
  OBVIOUS
<1>3. PICK y : y = code'
  OBVIOUS
<1>4. PICK n \in Nat : n = Len(k) /\ DOMAIN k = 1 .. n
  BY <1>2 DEF CodeInv, LabelInv, IsSeq
<1>5. y = [j \in 1 .. n |-> FixedUp(j, k[j])]
  BY <1>1, <1>2, <1>3, <1>4
<1>6. IsSeq(y) /\ Len(y) = n
  <2>1. y = [j \in 1 .. n |-> y[j]]
    BY ONLY <1>5
  <2>2. [j \in 1 .. n |-> y[j]] \in Seq({y[j] : j \in 1 .. n}) /\ Len([j \in 1 .. n |-> y[j]]) = n
    BY <1>4
  <2> QED
    BY ONLY <2>1, <2>2 DEF IsSeq
<1>7. PICK L : L = DOMAIN labels
  OBVIOUS
<1>8. /\ Emitted(k, L) /\ (NoTrapJoins => TrapAtEnd \/ Finished(k, labels))
      /\ LabelsOf(graph) \subseteq DOMAIN labels /\ AllSet(graph, at, labels) /\ at = Len(ins) + 1
  BY <1>1, <1>2, <1>7 DEF CodeInv, EmitInv
<1>9. \A j \in 1 .. n : IsInst(y[j]) /\ y[j].op = k[j].op /\ y[j].l = k[j].l
  <2> SUFFICES ASSUME NEW j \in 1 .. n PROVE IsInst(y[j]) /\ y[j].op = k[j].op /\ y[j].l = k[j].l
    OBVIOUS
  <2>1. PICK i : i = k[j]
    OBVIOUS
  <2>2. IsInst(i)
    BY <2>1, <1>4, <1>8 DEF Emitted
  <2>3. PICK f : f = FixedUp(j, i)
    OBVIOUS
  <2>4. IsInst(f) /\ f.op = i.op /\ f.l = i.l
    BY <2>2, <2>3, FixedInst
  <2>5. y[j] = f
    BY ONLY <2>1, <2>3, <1>5, j \in 1 .. n
  <2> QED
    BY ONLY <2>1, <2>4, <2>5
<1>10. Emitted(y, L)
  BY <1>4, <1>6, <1>8, <1>9 DEF Emitted
<1>11. ASSUME Finished(k, labels) PROVE Finished(y, labels)
  <2>1. k # << >> /\ Last(k).op = "RETURN" /\ \A l \in DOMAIN labels : labels[l] <= n
    BY <1>4, <1>11 DEF Finished
  <2>2. n # 0
    BY <2>1, <1>4, <1>8, EmptySeq DEF Emitted, IsSeq
  <2>3. n \in 1 .. n /\ Last(k) = k[n] /\ Last(y) = y[n]
    BY <2>2, <1>4, <1>6 DEF Last
  <2>4. y # << >>
    <3>1. Len(<< >>) = 0
      OBVIOUS
    <3> QED
      BY ONLY <3>1, <2>2, <1>6
  <2> QED
    BY <2>1, <2>3, <2>4, <1>6, <1>9 DEF Finished
<1>12. SizeInv'
  BY <1>1 DEF CodeInv, SizeInv
<1>13. LabelInv'
  <2>1. \A l \in DOMAIN labels : labels[l] \in 0 .. n + 1
    BY <1>2, <1>4 DEF CodeInv, LabelInv
  <2> QED
    BY <2>1, <1>1, <1>3, <1>6 DEF LabelInv
<1>14. EndInv'
  BY <1>1 DEF CodeInv, EndInv
<1>15. DeadInv' /\ StackInv'
  BY <1>1 DEF DeadInv, StackInv
<1>16. EmitInv'
  <2>1. PICK g : g = graph
    OBVIOUS
  <2>2. PICK ls : ls = labels
    OBVIOUS
  <2>3. /\ LabelsOf(g) \subseteq DOMAIN ls /\ Emitted(y, DOMAIN ls) /\ AllSet(g, at, ls)
        /\ NoTrapJoins => TrapAtEnd \/ Finished(y, ls)
    BY <2>1, <2>2, <1>7, <1>8, <1>10, <1>11
  <2>4. g = graph' /\ ls = labels' /\ at' = at /\ ins' = ins
    BY <2>1, <2>2, <1>1
  <2> QED
    BY <2>3, <2>4, <1>1, <1>3, <1>8 DEF EmitInv, TrapAtEnd
<1> QED
  BY <1>12, <1>13, <1>14, <1>15, <1>16 DEF CodeInv

\* The end of the function is the last turn: the stack is not looked at again.
LEMMA LastStack ==
  ASSUME ConvInv, CodeInv, Conv_end_func
  PROVE  StackInv'
<1>1. phase = "convert" /\ Cur.op = "End" /\ Me.parent = 0 /\ \E a, c : Turn(a, c)
  BY DEF Conv_end_func, Converting
<1>2. at = Len(ins)
  BY <1>1 DEF ConvInv, InputInv, CodeInv, EndInv, Cur, Me
<1>3. phase' # "convert"
  BY <1>1, <1>2 DEF Turn
<1> QED
  BY <1>3 DEF StackInv

\* Nothing is said of the marks where the ends of blocks are joined.
LEMMA AnyStack == ~NoTrapJoins => StackInv'
BY DEF StackInv

\* Every step of the specification.
LEMMA StepCode == ConvInv /\ CodeInv /\ [Next]_vars => CodeInv'
<1> SUFFICES ASSUME ConvInv, CodeInv, [Next]_vars PROVE CodeInv'
  OBVIOUS
<1>1. ASSUME NEW i \in alphabet.insts, Build_block_hierarchy(i) PROVE CodeInv'
  BY <1>1, ReadCode
<1>2. CASE Conv_block \/ Conv_if
  BY <1>2, OpenCode, OpenStack, AnyStack DEF CodeInv
<1>3. CASE Conv_else \/ Conv_br \/ Conv_br_if \/ Conv_br_table
  <2>1. StackInv'
    BY <1>3, CheckedStack, AnyStack
  <2>2. SizeInv' /\ LabelInv' /\ EndInv' /\ DeadInv' /\ EmitInv'
    BY <1>3, ElseSelectCode, BranchCode, TableCode
  <2> QED
    BY <2>1, <2>2 DEF CodeInv
<1>4. CASE Conv_drop \/ Conv_nop \/ Conv_local_get \/ Conv_local_set \/ Conv_return
  <2>1. StackInv'
    BY <1>4, PlainStack, AnyStack
  <2>2. SizeInv' /\ LabelInv' /\ EndInv' /\ DeadInv' /\ EmitInv'
    BY <1>4, PlainCode, ReturnCode
  <2> QED
    BY <2>1, <2>2 DEF CodeInv
<1>5. CASE Conv_op \/ Conv_load \/ Conv_store \/ Conv_select \/ Conv_call
  <2>1. StackInv'
    BY <1>5, ValueStack, AnyStack
  <2>2. SizeInv' /\ LabelInv' /\ EndInv' /\ DeadInv' /\ EmitInv'
    BY <1>5, PlainCode, ElseSelectCode
  <2> QED
    BY <2>1, <2>2 DEF CodeInv
<1>6. CASE Conv_unreachable \/ Conv_end_func
  <2>1. StackInv'
    BY <1>6, UnreachableStack, LastStack, AnyStack
  <2>2. SizeInv' /\ LabelInv' /\ EndInv' /\ DeadInv' /\ EmitInv'
    BY <1>6, PlainCode, ReturnCode
  <2> QED
    BY <2>1, <2>2 DEF CodeInv
<1>7. CASE Conv_end_block \/ Conv_end_unreachable
  BY <1>7, EndCode, EndStack, AnyStack DEF CodeInv
<1>8. CASE Fix_up
  BY <1>8, FixCode
<1>9. CASE UNCHANGED vars
  <2>1. SizeInv' /\ LabelInv' /\ EndInv' /\ DeadInv'
    BY <1>9 DEF CodeInv, SizeInv, LabelInv, EndInv, DeadInv, vars
  <2>2. EmitInv' /\ StackInv'
    BY <1>9 DEF CodeInv, EmitInv, StackInv, TrapAtEnd, vars
  <2> QED
    BY <2>1, <2>2 DEF CodeInv
<1> QED
  BY <1>1, <1>2, <1>3, <1>4, <1>5, <1>6, <1>7, <1>8, <1>9 DEF Next

\* The code, its labels and the marks of unreachable code, at every point of
\* the conversion of every function, the unusual forms included; what is
\* said of unreachable names the forms it depends on.
THEOREM CodeInvariant == Spec => []CodeInv
<1>1. Init => CodeInv
  BY InitCode
<1>2. ConvInv /\ CodeInv /\ [Next]_vars => CodeInv'
  BY StepCode
<1> QED
  BY <1>1, <1>2, ConverterInvariant, PTL DEF Spec

-----------------------------------------------------------------------------
\* TypeOK is part of the two invariants.
LEMMA InvType == ConvInv /\ CodeInv => TypeOK
<1> SUFFICES ASSUME ConvInv, CodeInv PROVE TypeOK
  OBVIOUS
<1>1. /\ phase \in {"read", "convert", "fixup", "done", "abort"}
      /\ ins \in Seq(alphabet.insts) /\ Len(graph) = Len(ins)
      /\ at \in 1 .. Len(ins) + 1 /\ alphabet \in Alphabets
  BY DEF ConvInv, InputInv
<1>2. at \in 1 .. alphabet.len + 1
  <2>1. Len(ins) <= alphabet.len /\ Len(ins) \in Nat /\ alphabet.len \in Nat
    BY <1>1, ConverterAssumption DEF CodeInv, SizeInv
  <2> QED
    BY <2>1, <1>1
<1>3. \A l \in DOMAIN labels : labels[l] \in 0 .. Len(code) + 1
  BY DEF CodeInv, LabelInv
<1>4. ASSUME phase # "abort"
      PROVE  /\ \A k \in DOMAIN al.stk :
                  /\ al.stk[k].kind \in {"TEMP", "LOCAL", "UNREACHABLE"}
                  /\ al.stk[k].ty \in Types /\ al.stk[k].idx \in Nat
             /\ al.next \in [Types -> Nat] /\ al.size \in [Types -> Nat] /\ al.io \in [Types -> Nat]
  <2>1. AlTyped(al)
    BY <1>4 DEF ConvInv, AllocInv, AlGood, AlSound
  <2>2. PICK s : s = al.stk
    OBVIOUS
  <2>3. s \in Seq(Elems) /\ DOMAIN s = 1 .. Len(s)
    BY <2>1, <2>2 DEF AlTyped
  <2>4. \A k \in DOMAIN s : s[k] \in Elems
    BY <2>3, ElementOfSeq
  <2>5. \A k \in DOMAIN s : /\ s[k].kind \in {"TEMP", "LOCAL", "UNREACHABLE"}
                            /\ s[k].ty \in Types /\ s[k].idx \in Nat
    BY <2>4, ElemFields
  <2> QED
    BY <2>1, <2>2, <2>5 DEF AlTyped
<1> QED
  BY <1>1, <1>2, <1>3, <1>4 DEF TypeOK

\* The type invariant of the conversion of every function.
THEOREM ConverterType == Spec => []TypeOK
BY ConverterInvariant, CodeInvariant, InvType, PTL

\* Every block has an end, so every label is set; none stands behind the
\* return that comes last.
LEMMA InvClosed == NoTrapJoins /\ ConvInv /\ CodeInv => TrapAtEnd \/ CodeClosed
<1> SUFFICES ASSUME NoTrapJoins, ConvInv, CodeInv, phase = "done", ~TrapAtEnd
             PROVE  /\ \A l \in DOMAIN labels : labels[l] \in DOMAIN code
                    /\ \A j \in DOMAIN code : code[j].l # NoLabel => code[j].l \in DOMAIN labels
                    /\ Last(code).op \in {"RETURN", "JMP"}
  BY DEF CodeClosed
<1>1. PICK g : g = graph
  OBVIOUS
<1>2. PICK n \in Nat : n = Len(g)
  BY <1>1 DEF ConvInv, GraphInv, GraphOK
<1>3. /\ GraphOK(g) /\ at = n + 1 /\ \A b : ~Unended(g, b)
      /\ AllSet(g, n + 1, labels) /\ Emitted(code, DOMAIN labels) /\ Finished(code, labels)
  BY <1>1, <1>2 DEF ConvInv, InputInv, GraphInv, WorkInv, CodeInv, EmitInv
<1>4. PICK m \in Nat : m = Len(code) /\ DOMAIN code = 1 .. m
  BY <1>3 DEF Emitted, IsSeq
<1>5. ASSUME NEW k \in 1 .. n, g[k].op \in BlockOps PROVE EndedBy(g, n + 1, k)
  <2>1. ASSUME NEW b \in 1 .. n, g[b].op \in BlockOps, ~(g[b].op = "If" /\ g[b].els # 0)
        PROVE  \E e \in 1 .. n + 1 - 1 : g[e].op = "End" /\ g[e].parent = b /\ g[e].parent # 0
    <3>1. ~Unended(g, b)
      BY <1>3
    <3>2. PICK e \in 1 .. n : g[e].op = "End" /\ g[e].parent = b
      BY <3>1, <2>1, <1>2 DEF Unended
    <3> QED
      BY <3>2, <2>1
  <2>2. CASE ~(g[k].op = "If" /\ g[k].els # 0)
    BY <2>1, <2>2, <1>5 DEF EndedBy
  <2>3. CASE g[k].op = "If" /\ g[k].els # 0
    <3>1. StmtOK(g, k)
      BY <1>2, <1>3 DEF GraphOK
    <3>2. PICK b : b = g[k].els /\ b \in k + 1 .. n /\ g[b].op = "Else"
      BY ONLY <3>1, <2>3, <1>2 DEF StmtOK
    <3>3. b \in 1 .. n /\ g[b].op \in BlockOps
      BY <3>2 DEF BlockOps
    <3>4. PICK e \in 1 .. n + 1 - 1 : g[e].op = "End" /\ g[e].parent = b /\ g[e].parent # 0
      BY <3>2, <3>3, <2>1
    <3> QED
      BY <3>2, <3>4, <2>3 DEF EndedBy
  <2> QED
    BY <2>2, <2>3
<1>6. ASSUME NEW l \in DOMAIN labels PROVE labels[l] # 0
  <2>1. CASE l \in LabelsOf(g)
    <3>1. \/ \E k \in 1 .. n : l = <<"end", k>> /\ g[k].op \in BlockOps
          \/ \E k \in 1 .. n : l = <<"begin", k>> /\ g[k].op \in {"Loop", "Else"}
      BY ONLY <2>1, <1>2 DEF LabelsOf
    <3>2. CASE \E k \in 1 .. n : l = <<"end", k>> /\ g[k].op \in BlockOps
      BY ONLY <3>2, <1>2, <1>3, <1>5 DEF AllSet
    <3>3. CASE \E k \in 1 .. n : l = <<"begin", k>> /\ g[k].op \in {"Loop", "Else"}
      <4>1. \A k \in 1 .. n : k \in 1 .. n + 1 - 1
        BY <1>2
      <4> QED
        BY ONLY <4>1, <3>3, <1>3 DEF AllSet
    <3> QED
      BY <3>1, <3>2, <3>3
  <2>2. CASE l \notin LabelsOf(g)
    BY ONLY <2>2, <1>3, <1>6 DEF AllSet
  <2> QED
    BY <2>1, <2>2
<1>7. \A l \in DOMAIN labels : labels[l] \in 0 .. m + 1 /\ labels[l] <= m
  BY <1>3, <1>4 DEF CodeInv, LabelInv, Finished
<1>8. \A l \in DOMAIN labels : labels[l] \in 1 .. m
  BY <1>4, <1>6, <1>7
<1>9. \A j \in 1 .. m : code[j].l # NoLabel => code[j].l \in DOMAIN labels
  BY <1>3, <1>4 DEF Emitted
<1>10. Last(code).op = "RETURN"
  BY <1>3 DEF Finished
<1> QED
  BY <1>4, <1>8, <1>9, <1>10

\* unreachable is the last instruction in front of the end of a function
\* with a result only where that form is admitted.
LEMMA NoTrapAtEnd == NoTrapJoins /\ NoTrapEnds /\ ConvInv /\ CodeInv /\ phase = "done" => ~TrapAtEnd
<1> SUFFICES ASSUME NoTrapJoins, NoTrapEnds, ConvInv, CodeInv, phase = "done", TrapAtEnd PROVE FALSE
  OBVIOUS
<1>1. Len(ins) \in Nat /\ Len(ins) > 1 /\ fres # Void /\ ins[Len(ins) - 1].op = "Unreachable"
  BY DEF ConvInv, InputInv, TrapAtEnd
<1>2. Len(ins) - 1 \in 1 .. Len(ins) - 1 /\ (Len(ins) - 1) + 1 = Len(ins)
  BY <1>1
<1>3. /\ \A k \in 1 .. Len(ins) - 1 : ins[k].op = "Unreachable" => (graph[k + 1].parent = 0 => fres = Void)
      /\ graph[Len(ins)].parent = 0
  BY DEF CodeInv, EndInv
<1>4. graph[(Len(ins) - 1) + 1].parent = 0 => fres = Void
  BY ONLY <1>1, <1>2, <1>3
<1> QED
  BY ONLY <1>1, <1>2, <1>3, <1>4

\* The code of every converted function is closed: every label is set and
\* stands in front of an instruction, every jump names one of them, and
\* the last instruction does not go on to the next function.  The exception
\* is the function with a result that ends with unreachable (Wasm_to_uwasm
\* puts no return there), whatever else it contains, except unreachable where
\* the end of its block is reached another way.
THEOREM CodeIsClosedOrTraps == NoTrapJoins => (Spec => [](TrapAtEnd \/ CodeClosed))
<1> SUFFICES ASSUME NoTrapJoins PROVE Spec => [](TrapAtEnd \/ CodeClosed)
  OBVIOUS
<1>1. ConvInv /\ CodeInv => TrapAtEnd \/ CodeClosed
  BY InvClosed
<1> QED
  BY <1>1, ConverterInvariant, CodeInvariant, PTL

\* Without that function, that is where unreachable stands outside all blocks
\* only in functions without a result, the code is closed.
THEOREM CodeIsClosed == NoTrapJoins /\ NoTrapEnds => (Spec => []CodeClosed)
<1> SUFFICES ASSUME NoTrapJoins, NoTrapEnds PROVE Spec => []CodeClosed
  OBVIOUS
<1>1. ConvInv /\ CodeInv => CodeClosed
  BY InvClosed, NoTrapAtEnd DEF CodeClosed
<1> QED
  BY <1>1, ConverterInvariant, CodeInvariant, PTL
=============================================================================
