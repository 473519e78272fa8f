---------------------------- MODULE LoaderProofs ----------------------------
(***************************************************************************)
(* For every set of modules: the iterator of Expand_code stays on          *)
(* instructions, labels and function starts lead to the instruction they   *)
(* stood for, and the expanded table has the order of the code.            *)
(*                                                                         *)
(* The invariants are not inductive alone.  That a label finds its slot    *)
(* when the function ends needs Filled: every instruction the iterator has *)
(* passed is recorded.  That it still finds it later needs only that the   *)
(* table grows at its end.  NextInstruction needs LastSlot: the iterator   *)
(* stands right behind the last expanded instruction.                      *)
(***************************************************************************)
EXTENDS Loader, TLAPS

\* Whatever Load may leave in mod is a well formed module.
ModuleInv ==
  /\ mod \in Seq(Function)
  /\ mod \in Modules \cup {<< >>}
  /\ \A i \in DOMAIN mod : ~mod[i].extern => WellFormed(mod[i])

\* The variables other than the tables' contents.
BaseInv ==
  /\ phase \in {"file", "count", "expand", "done"}
  /\ fn \in 0 .. Len(mod)
  /\ pos \in Nat /\ codeSz \in Nat /\ codeBase \in Nat
  /\ endPc \in Nat \cup {Junk}
  /\ table \in Seq([func : Nat, off : Nat])
  /\ \A w \in DOMAIN originPc : w \in Nat /\ originPc[w] \in Nat

\* The second loop is in the body of a function.
InBody == phase = "expand" /\ fn < Len(mod) /\ ~Cur.extern

PosInv ==
  /\ ~InBody => pos = 0
  /\ InBody => pos = Len(Cur.code) \/ StartsAt(Cur.code, pos)

\* Every instruction passed in the current function has its slot recorded.
Filled ==
  InBody =>
    \A o \in 0 .. pos - 1 :
      StartsAt(Cur.code, o) =>
        codeBase + o \in DOMAIN originPc /\ SlotIs(table, originPc[codeBase + o], fn, o)

\* Before the second loop there is no slot; in it, the slots belong to functions
\* it has reached, and the iterator is right behind the last one.
LastSlot ==
  /\ phase \in {"file", "count"} => table = << >>
  /\ phase = "file" => fn = 0
  /\ phase = "done" => fn = Len(mod)
  /\ \A n \in 1 .. Len(table) : table[n].func < fn \/ (table[n].func = fn /\ pos > 0)
  /\ pos > 0 =>
       /\ Len(table) > 0
       /\ table[Len(table)].func = fn
       /\ table[Len(table)].off + Width(Cur.code, table[Len(table)].off) = pos

DomInv == DOMAIN funcBase = Finished /\ DOMAIN labTab = Finished

IInv ==
  /\ ModuleInv /\ BaseInv /\ PosInv /\ Filled /\ LastSlot /\ DomInv
  /\ LabelsLand /\ NextInstruction

-----------------------------------------------------------------------------
(***************************************************************************)
(* Going on by the width of an instruction.                                *)
(***************************************************************************)

\* U_INST_ITER::operator++ leads from an instruction of a well formed function to
\* the next one or to the end, and no instruction starts in between.
LEMMA AdvanceLemma ==
  ASSUME NEW f \in Function, WellFormed(f),
         NEW o \in Nat, StartsAt(f.code, o)
  PROVE  /\ o + Width(f.code, o) \in Nat
         /\ Width(f.code, o) \in {1, 2}
         /\ o + Width(f.code, o) <= Len(f.code)
         /\ o + Width(f.code, o) = Len(f.code) \/ StartsAt(f.code, o + Width(f.code, o))
         /\ \A p \in o + 1 .. o + Width(f.code, o) - 1 : ~StartsAt(f.code, p)
<1> DEFINE c == f.code
<1>1. c \in Seq(Words) /\ Len(c) \in Nat /\ o < Len(c) /\ c[o + 1] # "data"
  BY DEF Function, StartsAt
<1>2. \A k \in 1 .. Len(c) :
        /\ c[k] \in Words
        /\ c[k] = "w64" => k < Len(c) /\ c[k + 1] = "data"
        /\ c[k] = "data" => k > 1 /\ c[k - 1] = "w64"
  BY <1>1 DEF WellFormed
<1> HIDE DEF c
<1>3. CASE c[o + 1] = "w64"
  <2>1. Width(c, o) = 2 /\ o + 1 < Len(c) /\ c[o + 2] = "data"
    <3>1. o + 1 \in 1 .. Len(c)
      BY <1>1
    <3>2. o + 1 + 1 = o + 2
      OBVIOUS
    <3> QED
      BY <3>1, <3>2, <1>2, <1>3 DEF Width
  <2>2. ASSUME o + 2 < Len(c)
        PROVE  c[o + 3] # "data"
    <3>1. o + 3 \in 1 .. Len(c) /\ (o + 3) - 1 = o + 2
      BY <1>1, <2>2
    <3> QED
      BY <3>1, <1>2, <2>1
  <2> QED
    BY <2>1, <2>2, <1>1 DEF StartsAt, c
<1>4. CASE c[o + 1] # "w64"
  <2>1. Width(c, o) = 1
    BY <1>4 DEF Width
  <2>2. ASSUME o + 1 < Len(c)
        PROVE  c[o + 2] # "data"
    <3>1. o + 2 \in 1 .. Len(c) /\ (o + 2) - 1 = o + 1
      BY <1>1, <2>2
    <3> QED
      BY <3>1, <1>2, <1>4
  <2> QED
    BY <2>1, <2>2, <1>1 DEF StartsAt, c
<1> QED
  BY <1>3, <1>4

\* The function the loops are at, when there is one.
LEMMA CurLemma ==
  ASSUME IInv, fn < Len(mod)
  PROVE  /\ fn \in Nat /\ fn + 1 \in DOMAIN mod
         /\ Cur \in Function
         /\ Cur.code \in Seq(Words) /\ Len(Cur.code) \in Nat
         /\ ~Cur.extern => WellFormed(Cur)
<1>1. fn + 1 \in DOMAIN mod /\ fn \in Nat
  BY DEF IInv, ModuleInv, BaseInv
<1>2. Cur \in Function /\ (~Cur.extern => WellFormed(Cur))
  BY <1>1 DEF IInv, ModuleInv, Cur
<1>3. Cur.code \in Seq(Words)
  BY <1>2 DEF Function
<1> QED
  BY <1>1, <1>2, <1>3

\* The iterator of a function that is about to be read is on an instruction.
LEMMA FirstLemma ==
  ASSUME NEW f \in Function, WellFormed(f)
  PROVE  StartsAt(f.code, 0)
<1>1. f.code \in Seq(Words)
  BY DEF Function
<1> QED
  BY <1>1 DEF WellFormed, StartsAt

-----------------------------------------------------------------------------
(***************************************************************************)
(* The invariant holds initially and under every action.                   *)
(***************************************************************************)

\* Nothing is expanded before a module is loaded.
LEMMA InitInv == Init => IInv
<1> SUFFICES ASSUME Init PROVE IInv
  OBVIOUS
<1> USE DEF Init
<1>1. ModuleInv
  BY DEF ModuleInv
<1>2. BaseInv
  BY DEF BaseInv, Junk, Empty
<1>3. PosInv /\ Filled
  BY DEF PosInv, Filled, InBody
<1>4. Finished = {}
  BY DEF Finished
<1>5. LastSlot /\ NextInstruction
  BY DEF LastSlot, NextInstruction
<1>6. DomInv /\ LabelsLand
  BY <1>4 DEF DomInv, LabelsLand, Empty
<1> QED
  BY <1>1, <1>2, <1>3, <1>5, <1>6 DEF IInv

\* The steps that only move the loops: the tables stay and no body is left.
LEMMA LoadInv ==
  ASSUME IInv, NEW m \in Modules, Load(m)
  PROVE  IInv'
<1>1. ModuleInv'
  BY ModulesAssumption DEF Load, ModuleInv
<1>2. fn = 0 /\ table = << >> /\ pos = 0
  BY DEF IInv, Load, LastSlot, PosInv, InBody
<1>3. BaseInv'
  BY <1>1, <1>2 DEF IInv, BaseInv, Load, tables, ModuleInv
<1>4. PosInv' /\ Filled'
  BY <1>2 DEF PosInv, Filled, InBody, Load
<1>5. Finished = {} /\ Finished' = {}
  BY DEF Finished, Load
<1>6. LastSlot' /\ NextInstruction'
  BY <1>2 DEF LastSlot, NextInstruction, Load, tables
<1>7. DomInv' /\ LabelsLand'
  BY <1>5 DEF IInv, DomInv, LabelsLand, Load, tables
<1> QED
  BY <1>1, <1>3, <1>4, <1>6, <1>7 DEF IInv

\* Counting the instructions and allocating the tables write no table entry.
LEMMA CountInv ==
  ASSUME IInv, Count_func \/ Alloc_tables
  PROVE  IInv'
<1> USE DEF Count_func, Alloc_tables
<1>1. ModuleInv'
  BY DEF ModuleInv, IInv
<1>2. table = << >> /\ pos = 0 /\ fn \in Nat /\ Len(mod) \in Nat
  BY DEF IInv, LastSlot, PosInv, InBody, BaseInv, ModuleInv
<1>3. codeSz' \in Nat
  BY CurLemma DEF IInv, BaseInv
<1>4. BaseInv'
  <2>1. fn' \in 0 .. Len(mod)'
    BY <1>2
  <2>2. UNCHANGED <<pos, codeBase, originPc, table, endPc>>
    BY DEF tables
  <2>3. phase' \in {"file", "count", "expand", "done"}
    OBVIOUS
  <2> QED
    BY <2>1, <2>2, <2>3, <1>3 DEF IInv, BaseInv
<1>5. Finished = {} /\ Finished' = {}
  BY <1>2 DEF Finished
<1>6. PosInv' /\ Filled'
  <2>1. pos' = 0 /\ originPc' = originPc
    BY <1>2 DEF tables
  <2>2. ASSUME InBody' PROVE StartsAt(Cur.code, 0)'
    <3>1. fn' \in Nat /\ fn' + 1 \in DOMAIN mod'
      BY <1>1, <1>4, <2>2 DEF InBody, BaseInv, ModuleInv
    <3>2. Cur' \in Function /\ WellFormed(Cur')
      BY <3>1, <1>1, <2>2 DEF InBody, ModuleInv, Cur
    <3> QED
      BY <3>2, FirstLemma
  <2> QED
    BY <2>1, <2>2 DEF PosInv, Filled
<1>7. LastSlot' /\ NextInstruction'
  BY <1>2 DEF LastSlot, NextInstruction, tables
<1>8. DomInv' /\ LabelsLand'
  BY <1>5 DEF IInv, DomInv, LabelsLand, tables
<1> QED
  BY <1>1, <1>4, <1>6, <1>7, <1>8 DEF IInv

\* A slot names a function and a word, by number.
LEMMA SlotLemma ==
  ASSUME BaseInv, NEW n \in 1 .. Len(table)
  PROVE  table[n].func \in Nat /\ table[n].off \in Nat
<1> DEFINE Slots == [func : Nat, off : Nat]
<1>1. table \in Seq(Slots)
  BY DEF BaseInv
<1> HIDE DEF Slots
<1>2. table[n] \in Slots
  BY <1>1
<1> QED
  BY <1>2 DEF Slots

\* A function of another module adds nothing.
LEMMA SkipInv ==
  ASSUME IInv, Skip_func
  PROVE  IInv'
<1> USE DEF Skip_func
<1>1. ModuleInv'
  BY DEF ModuleInv, IInv
<1>2. pos = 0 /\ fn \in Nat /\ Len(mod) \in Nat /\ fn + 1 \in DOMAIN mod
  BY CurLemma DEF IInv, PosInv, InBody, ModuleInv
<1>3. UNCHANGED <<pos, codeSz, codeBase, originPc, table, funcBase, labTab, endPc>>
  BY DEF tables
<1>4. BaseInv'
  BY <1>2, <1>3 DEF IInv, BaseInv
<1>5. Finished' = Finished
  <2>1. \A f \in 0 .. Len(mod) - 1 : f < fn + 1 <=> (f < fn \/ f = fn)
    BY <1>2
  <2> QED
    BY <2>1, <1>2 DEF Finished, Cur
<1>6. PosInv' /\ Filled'
  <2>1. ASSUME InBody' PROVE StartsAt(Cur.code, 0)'
    <3>1. fn' \in Nat /\ fn' + 1 \in DOMAIN mod'
      BY <1>1, <1>4, <2>1 DEF InBody, BaseInv, ModuleInv
    <3>2. Cur' \in Function /\ WellFormed(Cur')
      BY <3>1, <1>1, <2>1 DEF InBody, ModuleInv, Cur
    <3> QED
      BY <3>2, FirstLemma
  <2> QED
    BY <2>1, <1>2, <1>3 DEF PosInv, Filled
<1>7. \A n \in 1 .. Len(table) :
        table[n].func \in Nat /\ table[n].func < fn /\ table[n].func < fn + 1
  BY <1>2, SlotLemma DEF IInv, LastSlot
<1>8. LastSlot'
  BY <1>2, <1>3, <1>7 DEF LastSlot
<1>9. NextInstruction'
  <2>1. \A n \in 1 .. Len(table) : table[n].func # fn /\ table[n].func # fn + 1
    BY <1>7, <1>2
  <2> QED
    BY <2>1, <1>3 DEF IInv, NextInstruction
<1>10. DomInv' /\ LabelsLand'
  BY <1>3, <1>5 DEF IInv, DomInv, LabelsLand
<1> QED
  BY <1>1, <1>4, <1>6, <1>8, <1>9, <1>10 DEF IInv

\* A slot written once is never written again.
LEMMA AppendLemma ==
  ASSUME BaseInv, NEW f \in Nat, NEW o \in Nat,
         table' = Append(table, [func |-> f, off |-> o])
  PROVE  /\ table' \in Seq([func : Nat, off : Nat])
         /\ Len(table') = Len(table) + 1 /\ Len(table) \in Nat
         /\ \A n \in 1 .. Len(table) : table'[n] = table[n]
         /\ table'[Len(table) + 1] = [func |-> f, off |-> o]
         /\ \A n, g, p : SlotIs(table, n, g, p) => SlotIs(table', n, g, p)
         /\ SlotIs(table', Len(table), f, o)
<1>1. /\ table \in Seq([func : Nat, off : Nat])
      /\ [func |-> f, off |-> o] \in [func : Nat, off : Nat]
  BY DEF BaseInv
<1>2. /\ table' \in Seq([func : Nat, off : Nat])
      /\ Len(table') = Len(table) + 1 /\ Len(table) \in Nat
      /\ \A n \in 1 .. Len(table) : table'[n] = table[n]
      /\ table'[Len(table) + 1] = [func |-> f, off |-> o]
  BY <1>1
<1>3. \A n, g, p : SlotIs(table, n, g, p) => SlotIs(table', n, g, p)
  BY <1>2 DEF SlotIs
<1>4. SlotIs(table', Len(table), f, o)
  BY <1>2 DEF SlotIs
<1> QED
  BY <1>2, <1>3, <1>4

\* One turn of the inner loop: the instruction at pos gets the next slot, and
\* the iterator moves to the next instruction or to the end.
LEMMA ExpandInv ==
  ASSUME IInv, Expand_inst
  PROVE  IInv'
<1> USE DEF Expand_inst
<1>1. ModuleInv'
  BY DEF ModuleInv, IInv
<1>2. /\ InBody /\ InBody' /\ UNCHANGED <<Cur, Finished>>
      /\ StartsAt(Cur.code, pos) /\ pos \in Nat /\ codeBase \in Nat
  BY DEF IInv, BaseInv, PosInv, InBody, Cur, Finished
<1>3. fn \in Nat /\ fn + 1 \in DOMAIN mod /\ Cur \in Function /\ WellFormed(Cur)
  BY CurLemma
<1>4. /\ table' \in Seq([func : Nat, off : Nat])
      /\ Len(table') = Len(table) + 1 /\ Len(table) \in Nat
      /\ \A n \in 1 .. Len(table) : table'[n] = table[n]
      /\ table'[Len(table) + 1] = [func |-> fn, off |-> pos]
      /\ \A n, g, p : SlotIs(table, n, g, p) => SlotIs(table', n, g, p)
      /\ SlotIs(table', Len(table), fn, pos)
  BY <1>2, <1>3, AppendLemma DEF IInv
<1>5. /\ pos' \in Nat /\ pos' > pos /\ pos' <= Len(Cur.code)
      /\ pos' = Len(Cur.code) \/ StartsAt(Cur.code, pos')
      /\ \A p \in pos + 1 .. pos' - 1 : ~StartsAt(Cur.code, p)
  <2>1. /\ pos + Width(Cur.code, pos) \in Nat
        /\ Width(Cur.code, pos) \in {1, 2}
        /\ pos + Width(Cur.code, pos) <= Len(Cur.code)
        /\ pos + Width(Cur.code, pos) = Len(Cur.code)
             \/ StartsAt(Cur.code, pos + Width(Cur.code, pos))
        /\ \A p \in pos + 1 .. pos + Width(Cur.code, pos) - 1 : ~StartsAt(Cur.code, p)
    BY <1>2, <1>3, AdvanceLemma
  <2> QED
    BY <2>1, <1>2
<1>6. /\ \A w \in DOMAIN originPc : w # codeBase + pos =>
            w \in DOMAIN originPc' /\ originPc'[w] = originPc[w]
      /\ codeBase + pos \in DOMAIN originPc'
      /\ originPc'[codeBase + pos] = Len(table)
      /\ \A w \in DOMAIN originPc' : w = codeBase + pos \/ w \in DOMAIN originPc
  BY DEF Write
<1>7. BaseInv'
  <2>1. \A w \in DOMAIN originPc' : w \in Nat /\ originPc'[w] \in Nat
    <3> TAKE w \in DOMAIN originPc'
    <3>1. CASE w = codeBase + pos
      BY <3>1, <1>2, <1>4, <1>6
    <3>2. CASE w # codeBase + pos
      BY <3>2, <1>6 DEF IInv, BaseInv
    <3> QED
      BY <3>1, <3>2
  <2> QED
    BY <2>1, <1>4, <1>5 DEF IInv, BaseInv
<1>8. PosInv'
  BY <1>2, <1>5 DEF PosInv
<1>9. Filled'
  <2> SUFFICES ASSUME NEW o \in 0 .. pos' - 1, StartsAt(Cur.code, o)
               PROVE  /\ codeBase + o \in DOMAIN originPc'
                      /\ SlotIs(table', originPc'[codeBase + o], fn, o)
    BY <1>2 DEF Filled
  <2>1. CASE o = pos
    BY <2>1, <1>4, <1>6
  <2>2. CASE o # pos
    <3>1. o \in 0 .. pos - 1
      BY <2>2, <1>2, <1>5
    <3>2. codeBase + o \in DOMAIN originPc /\ SlotIs(table, originPc[codeBase + o], fn, o)
      BY <3>1, <1>2 DEF IInv, Filled
    <3>3. codeBase + o # codeBase + pos
      BY <3>1, <1>2
    <3>4. codeBase + o \in DOMAIN originPc' /\ originPc'[codeBase + o] = originPc[codeBase + o]
      BY <3>2, <3>3, <1>6
    <3>5. SlotIs(table', originPc[codeBase + o], fn, o)
      BY <3>2, <1>4
    <3> QED
      BY <3>4, <3>5
  <2> QED
    BY <2>1, <2>2
<1>10. LastSlot'
  <2>1. \A n \in 1 .. Len(table') :
          table'[n].func < fn \/ (table'[n].func = fn /\ pos' > 0)
    <3> TAKE n \in 1 .. Len(table')
    <3>1. CASE n = Len(table) + 1
      BY <3>1, <1>2, <1>4, <1>5
    <3>2. CASE n # Len(table) + 1
      <4>1. n \in 1 .. Len(table)
        BY <3>2, <1>4
      <4> QED
        BY <4>1, <1>2, <1>4, <1>5 DEF IInv, LastSlot
    <3> QED
      BY <3>1, <3>2
  <2>2. /\ Len(table') > 0
        /\ table'[Len(table')].func = fn
        /\ table'[Len(table')].off + Width(Cur.code, table'[Len(table')].off) = pos'
    BY <1>4
  <2> QED
    BY <2>1, <2>2, <1>2 DEF LastSlot, InBody
<1>11. NextInstruction'
  <2> SUFFICES ASSUME NEW n \in 1 .. Len(table')
               PROVE  LET f == table'[n].func
                          o == table'[n].off
                          c == mod[f + 1].code
                      IN  /\ f + 1 \in DOMAIN mod /\ ~mod[f + 1].extern /\ StartsAt(c, o)
                          /\ o + Width(c, o) < Len(c) /\ (n < Len(table') \/ f # fn) =>
                               /\ n < Len(table')
                               /\ table'[n + 1] = [func |-> f, off |-> o + Width(c, o)]
    BY DEF NextInstruction
  <2>1. CASE n = Len(table) + 1
    BY <2>1, <1>2, <1>3, <1>4 DEF Cur, InBody
  <2>2. CASE n \in 1 .. Len(table) - 1
    <3>1. n + 1 \in 1 .. Len(table) /\ n \in 1 .. Len(table)
      BY <2>2, <1>4
    <3>2. table'[n] = table[n] /\ table'[n + 1] = table[n + 1] /\ n < Len(table) /\ n < Len(table')
      BY <3>1, <2>2, <1>4
    <3> QED
      BY <3>1, <3>2 DEF IInv, NextInstruction
  <2>3. CASE n = Len(table)
    <3>1. n \in 1 .. Len(table) /\ table'[n] = table[n] /\ table'[n + 1].func = fn
          /\ table'[n + 1].off = pos
      BY <2>3, <1>4
    <3>2. CASE pos > 0
      <4>1. table[n].func = fn /\ table[n].off + Width(Cur.code, table[n].off) = pos
        BY <3>2, <2>3 DEF IInv, LastSlot
      <4> QED
        BY <4>1, <3>1, <2>3, <1>4 DEF IInv, NextInstruction, Cur
    <3>3. CASE pos = 0
      <4>1. table[n].func # fn
        BY <3>1, <3>3, <1>3, SlotLemma DEF IInv, LastSlot
      <4> DEFINE c == mod[table[n].func + 1].code
      <4>2. /\ table[n].func + 1 \in DOMAIN mod /\ ~mod[table[n].func + 1].extern
            /\ StartsAt(c, table[n].off)
            /\ table[n].off + Width(c, table[n].off) < Len(c) => n < Len(table)
        BY <4>1, <3>1 DEF IInv, NextInstruction
      <4>3. ~(n < Len(table))
        BY <2>3, <1>4
      <4> HIDE DEF c
      <4>4. ~(table[n].off + Width(c, table[n].off) < Len(c))
        BY <4>2, <4>3
      <4> QED
        BY <4>2, <4>4, <3>1 DEF c
    <3> QED
      BY <3>2, <3>3, <1>2
  <2>4. n = Len(table) + 1 \/ n \in 1 .. Len(table) - 1 \/ n = Len(table)
    BY <1>4
  <2> QED
    BY <2>1, <2>2, <2>3, <2>4
<1>12. DomInv'
  BY <1>2 DEF IInv, DomInv
<1>13. LabelsLand'
  BY <1>2, <1>4 DEF IInv, LabelsLand
<1> QED
  BY <1>1, <1>7, <1>8, <1>9, <1>10, <1>11, <1>12, <1>13 DEF IInv

\* The end of a function: all its instructions are recorded, so its labels and
\* its start are read from cells that were written.
LEMMA EndInv ==
  ASSUME IInv, End_func
  PROVE  IInv'
<1> USE DEF End_func
<1>1. ModuleInv'
  BY DEF ModuleInv, IInv
<1>2. /\ InBody /\ pos = Len(Cur.code) /\ codeBase \in Nat
      /\ UNCHANGED <<mod, codeSz, originPc, table, endPc>>
  BY DEF IInv, BaseInv, InBody
<1>3. /\ fn \in Nat /\ fn + 1 \in DOMAIN mod /\ Cur \in Function /\ WellFormed(Cur)
      /\ Len(mod) \in Nat /\ Len(Cur.code) \in Nat
  BY CurLemma DEF IInv, ModuleInv
<1>4. BaseInv'
  BY <1>2, <1>3 DEF IInv, BaseInv
<1>5. Finished' = Finished \cup {fn} /\ fn \notin Finished
  <2>1. fn \in 0 .. Len(mod) - 1
    BY <1>3
  <2>2. \A f \in 0 .. Len(mod) - 1 : f < fn + 1 <=> (f < fn \/ f = fn)
    BY <1>3
  <2> QED
    BY <2>1, <2>2, <1>2, <1>3 DEF Finished, Cur, InBody
<1>6. PosInv' /\ Filled'
  <2>1. ASSUME InBody' PROVE StartsAt(Cur.code, 0)'
    <3>1. fn' \in Nat /\ fn' + 1 \in DOMAIN mod'
      BY <1>1, <1>4, <2>1 DEF InBody, BaseInv, ModuleInv
    <3>2. Cur' \in Function /\ WellFormed(Cur')
      BY <3>1, <1>1, <2>1 DEF InBody, ModuleInv, Cur
    <3> QED
      BY <3>2, FirstLemma
  <2> QED
    BY <2>1 DEF PosInv, Filled
<1>7. \A n \in 1 .. Len(table) :
        table[n].func \in Nat /\ table[n].func < fn + 1 /\ (table[n].func < fn \/ table[n].func = fn)
  BY <1>3, SlotLemma DEF IInv, LastSlot
<1>8. LastSlot'
  BY <1>2, <1>7 DEF LastSlot, InBody
<1>9. NextInstruction'
  <2> SUFFICES ASSUME NEW n \in 1 .. Len(table)
               PROVE  LET f == table[n].func
                          o == table[n].off
                          c == mod[f + 1].code
                      IN  /\ f + 1 \in DOMAIN mod /\ ~mod[f + 1].extern /\ StartsAt(c, o)
                          /\ o + Width(c, o) < Len(c) =>
                               /\ n < Len(table)
                               /\ table[n + 1] = [func |-> f, off |-> o + Width(c, o)]
    BY <1>2 DEF NextInstruction
  <2>1. CASE n < Len(table) \/ table[n].func # fn
    BY <2>1 DEF IInv, NextInstruction
  <2>2. CASE n = Len(table) /\ table[n].func = fn
    <3>1. pos > 0
      BY <2>2, <1>3 DEF IInv, LastSlot
    <3>2. table[n].off + Width(Cur.code, table[n].off) = Len(Cur.code)
      BY <3>1, <2>2, <1>2 DEF IInv, LastSlot
    <3> QED
      BY <3>2, <2>2, <1>3 DEF IInv, NextInstruction, Cur
  <2> QED
    BY <2>1, <2>2, <1>4 DEF BaseInv
<1>10. DomInv'
  BY <1>5 DEF IInv, DomInv, Write
<1>11. /\ funcBase'[fn] = Read(originPc, codeBase)
       /\ labTab'[fn] = [l \in DOMAIN Cur.labs |-> Read(originPc, codeBase + Cur.labs[l])]
       /\ \A f \in Finished : funcBase'[f] = funcBase[f] /\ labTab'[f] = labTab[f]
  BY <1>5 DEF IInv, DomInv, Write
<1>12. ASSUME NEW o \in Nat, StartsAt(Cur.code, o)
       PROVE  SlotIs(table, Read(originPc, codeBase + o), fn, o)
  <2>1. o \in 0 .. pos - 1
    BY <1>2, <1>3, <1>12 DEF StartsAt
  <2> QED
    BY <2>1, <1>2, <1>12 DEF IInv, Filled, Read
<1>13. SlotIs(table, Read(originPc, codeBase), fn, 0)
  <2>1. StartsAt(Cur.code, 0)
    BY <1>3, FirstLemma
  <2>2. codeBase + 0 = codeBase
    BY <1>2
  <2> QED
    BY <2>1, <2>2, <1>12
<1>14. \A l \in DOMAIN Cur.labs : SlotIs(table, Read(originPc, codeBase + Cur.labs[l]), fn, Cur.labs[l])
  <2> TAKE l \in DOMAIN Cur.labs
  <2>1. Cur.labs[l] \in Nat /\ StartsAt(Cur.code, Cur.labs[l])
    BY <1>3 DEF Function, WellFormed
  <2> QED
    BY <2>1, <1>12
<1>15. LabelsLand'
  <2> SUFFICES ASSUME NEW f \in Finished'
               PROVE  /\ f \in DOMAIN funcBase' /\ SlotIs(table, funcBase'[f], f, 0)
                      /\ f \in DOMAIN labTab'
                      /\ DOMAIN labTab'[f] = DOMAIN mod[f + 1].labs
                      /\ \A l \in DOMAIN labTab'[f] : SlotIs(table, labTab'[f][l], f, mod[f + 1].labs[l])
    BY <1>2 DEF LabelsLand, SlotIs
  <2>1. f \in DOMAIN funcBase' /\ f \in DOMAIN labTab'
    BY <1>10 DEF DomInv
  <2>2. CASE f \in Finished
    BY <2>1, <2>2, <1>11 DEF IInv, LabelsLand
  <2>3. CASE f = fn
    BY <2>1, <2>3, <1>11, <1>13, <1>14 DEF Cur
  <2> QED
    BY <2>2, <2>3, <1>5
<1> QED
  BY <1>1, <1>4, <1>6, <1>8, <1>9, <1>10, <1>15 DEF IInv

\* The last step leaves the tables as they are.
LEMMA BreakInv ==
  ASSUME IInv, Add_break
  PROVE  IInv'
<1> USE DEF Add_break
<1>1. ModuleInv'
  BY DEF ModuleInv, IInv
<1>2. /\ ~InBody /\ ~InBody' /\ pos = 0 /\ Len(table) \in Nat
      /\ UNCHANGED <<mod, fn, pos, codeSz, codeBase, originPc, table, funcBase, labTab>>
  BY DEF IInv, InBody, PosInv, BaseInv
<1>3. BaseInv'
  BY <1>2 DEF IInv, BaseInv
<1>4. PosInv' /\ Filled'
  BY <1>2 DEF PosInv, Filled
<1>5. Finished' = Finished
  BY DEF Finished, IInv, ModuleInv
<1>6. LastSlot' /\ NextInstruction'
  BY <1>2 DEF IInv, LastSlot, NextInstruction
<1>7. DomInv' /\ LabelsLand'
  BY <1>2, <1>5 DEF IInv, DomInv, LabelsLand, SlotIs
<1> QED
  BY <1>1, <1>3, <1>4, <1>6, <1>7 DEF IInv

\* A step that changes nothing.
LEMMA StutterInv ==
  ASSUME IInv, UNCHANGED vars
  PROVE  IInv'
<1>1. UNCHANGED <<Cur, InBody, Finished>>
  BY DEF vars, Cur, InBody, Finished
<1>2. ModuleInv' /\ BaseInv' /\ DomInv'
  BY <1>1 DEF vars, IInv, ModuleInv, BaseInv, DomInv
<1>3. PosInv' /\ Filled' /\ LastSlot'
  BY <1>1 DEF vars, IInv, PosInv, Filled, LastSlot, SlotIs
<1>4. LabelsLand' /\ NextInstruction'
  BY <1>1 DEF vars, IInv, LabelsLand, NextInstruction, SlotIs
<1> QED
  BY <1>2, <1>3, <1>4 DEF IInv

\* Every step of the specification keeps the invariant.
LEMMA StepInv == IInv /\ [Next]_vars => IInv'
<1> SUFFICES ASSUME IInv, [Next]_vars PROVE IInv'
  OBVIOUS
<1>1. CASE \E m \in Modules : Load(m)
  BY <1>1, LoadInv
<1>2. CASE Count_func \/ Alloc_tables
  BY <1>2, CountInv
<1>3. CASE Skip_func
  BY <1>3, SkipInv
<1>4. CASE Expand_inst
  BY <1>4, ExpandInv
<1>5. CASE End_func
  BY <1>5, EndInv
<1>6. CASE Add_break
  BY <1>6, BreakInv
<1>7. CASE Done \/ UNCHANGED vars
  BY <1>7, StutterInv DEF Done
<1> QED
  BY <1>1, <1>2, <1>3, <1>4, <1>5, <1>6, <1>7 DEF Next, Expand_code

-----------------------------------------------------------------------------
(***************************************************************************)
(* The theorems.                                                           *)
(***************************************************************************)

\* The invariant holds in every reachable state.
THEOREM IInvHolds == Spec => []IInv
  BY InitInv, StepInv, PTL DEF Spec

\* No cell of the tables Expand_code builds is read from an unwritten cell.
THEOREM LoaderTypeCorrect == Spec => []TypeOK
<1>1. IInv => TypeOK
  <2> SUFFICES ASSUME IInv PROVE TypeOK
    OBVIOUS
  <2>1. ASSUME NEW f \in Finished
        PROVE  /\ f \in Nat /\ funcBase[f] \in Nat
               /\ \A l \in DOMAIN labTab[f] : labTab[f][l] \in Nat
    <3>1. f \in Nat
      BY <2>1 DEF Finished, IInv, ModuleInv
    <3>2. \A n, o : SlotIs(table, n, f, o) => n \in Nat
      BY DEF SlotIs, IInv, BaseInv
    <3> QED
      BY <3>1, <3>2 DEF IInv, LabelsLand
  <2> QED
    BY <2>1 DEF IInv, ModuleInv, BaseInv, DomInv, TypeOK
<1> QED
  BY <1>1, IInvHolds, PTL

\* The iterator of Expand_code is at an instruction or at the end of the code.
THEOREM IteratorSound == Spec => []IteratorOnInstruction
<1>1. IInv => IteratorOnInstruction
  BY DEF IInv, PosInv, InBody, IteratorOnInstruction
<1> QED
  BY <1>1, IInvHolds, PTL

\* Labels and function starts lead to the expanded form of their instruction.
THEOREM LabelsSound == Spec => []LabelsLand
<1>1. IInv => LabelsLand
  BY DEF IInv
<1> QED
  BY <1>1, IInvHolds, PTL

\* The expanded table has the order of the code of every function.
THEOREM NextInstructionSound == Spec => []NextInstruction
<1>1. IInv => NextInstruction
  BY DEF IInv
<1> QED
  BY <1>1, IInvHolds, PTL
-----------------------------------------------------------------------------
(***************************************************************************)
(* The size of the tables.  Both loops add the sizes of the functions up   *)
(* from the first one, so one function g of running totals describes both: *)
(* codeSz is its last value, codeBase its value at fn.                     *)
(***************************************************************************)

\* The number of words function f has in the tables.
FuncSize(f) == IF mod[f + 1].extern THEN 0 ELSE Len(mod[f + 1].code)

\* g is the running total of the sizes of the first n functions.
Totals(g, n) ==
  /\ g \in [0 .. n -> Nat]
  /\ g[0] = 0
  /\ \A f \in 0 .. n - 1 : g[f + 1] = g[f] + FuncSize(f)
  /\ \A i, j \in 0 .. n : i <= j => g[i] <= g[j]

SizeInv ==
  /\ phase \in {"file", "count"} => codeBase = 0
  /\ phase = "file" => codeSz = 0
  /\ phase = "count" => \E g : Totals(g, fn) /\ codeSz = g[fn]
  /\ phase \in {"expand", "done"} =>
       \E g : Totals(g, Len(mod)) /\ codeSz = g[Len(mod)] /\ codeBase = g[fn]
  /\ Len(table) <= codeBase + pos
  /\ \A w \in DOMAIN originPc : w < codeBase + pos
  /\ phase = "done" => endPc = Len(table)

\* The first loop extends the running total by one function.
LEMMA CountSizes ==
  ASSUME IInv, SizeInv, Count_func
  PROVE  SizeInv'
<1>1. /\ fn \in Nat /\ Len(mod) \in Nat /\ codeSz \in Nat /\ fn < Len(mod)
      /\ phase = "count" /\ phase' = "count" /\ fn' = fn + 1
      /\ UNCHANGED <<mod, pos, codeBase, originPc, table, endPc>>
  BY DEF Count_func, tables, IInv, BaseInv, ModuleInv
<1>2. FuncSize(fn) \in Nat /\ codeSz' = codeSz + FuncSize(fn)
  <2>1. Len(Cur.code) \in Nat
    BY <1>1, CurLemma
  <2> QED
    BY <1>1, <2>1 DEF Count_func, FuncSize, Cur
<1>3. PICK g : Totals(g, fn) /\ codeSz = g[fn]
  BY <1>1 DEF SizeInv
<1>0. PICK h : h = [i \in 0 .. fn + 1 |-> IF i = fn + 1 THEN codeSz' ELSE g[i]]
  OBVIOUS
<1>4. /\ g \in [0 .. fn -> Nat] /\ g[0] = 0
      /\ \A f \in 0 .. fn - 1 : g[f + 1] = g[f] + FuncSize(f)
      /\ \A i, j \in 0 .. fn : i <= j => g[i] <= g[j]
  BY <1>3 DEF Totals
<1>5. \A i \in 0 .. fn : /\ i \in 0 .. fn + 1 /\ i # fn + 1 /\ h[i] = g[i]
                         /\ g[i] \in Nat /\ g[i] <= codeSz
  BY <1>0, <1>1, <1>3, <1>4
<1>6. h[fn + 1] = codeSz + FuncSize(fn) /\ h[fn + 1] \in Nat
  BY <1>0, <1>1, <1>2
<1>7. \A i \in 0 .. fn + 1 : i = fn + 1 \/ i \in 0 .. fn
  BY <1>1
<1>8. h \in [0 .. fn + 1 -> Nat] /\ 0 \in 0 .. fn
  BY <1>0, <1>1, <1>4, <1>5, <1>6, <1>7
<1>9. \A f \in 0 .. fn : h[f + 1] = h[f] + FuncSize(f)
  <2> TAKE f \in 0 .. fn
  <2>1. CASE f = fn
    BY <2>1, <1>3, <1>5, <1>6
  <2>2. CASE f # fn
    <3>1. f \in 0 .. fn - 1 /\ f + 1 \in 0 .. fn
      BY <2>2, <1>1
    <3> QED
      BY <3>1, <1>4, <1>5
  <2> QED
    BY <2>1, <2>2
<1>10. \A i, j \in 0 .. fn + 1 : i <= j => h[i] <= h[j]
  <2> SUFFICES ASSUME NEW i \in 0 .. fn + 1, NEW j \in 0 .. fn + 1, i <= j
               PROVE  h[i] <= h[j]
    OBVIOUS
  <2>1. CASE j = fn + 1 /\ i = fn + 1
    BY <2>1, <1>6
  <2>2. CASE j = fn + 1 /\ i \in 0 .. fn
    BY <2>2, <1>1, <1>2, <1>5, <1>6
  <2>3. CASE j \in 0 .. fn /\ i \in 0 .. fn
    BY <2>3, <1>4, <1>5
  <2>4. j \in 0 .. fn => i \in 0 .. fn
    BY <1>1
  <2> QED
    BY <2>1, <2>2, <2>3, <2>4, <1>7
<1>11. Totals(h, fn + 1)
  <2>1. (fn + 1) - 1 = fn
    BY <1>1
  <2> QED
    BY <2>1, <1>4, <1>5, <1>8, <1>9, <1>10 DEF Totals
<1>12. Totals(h, fn)'
  BY <1>1, <1>11 DEF Totals, FuncSize
<1>13. codeSz' = h[fn']
  BY <1>1, <1>2, <1>6
<1> QED
  BY <1>1, <1>12, <1>13 DEF SizeInv

\* A step of the second loop, or one that leaves the tables alone, keeps the
\* running totals.
LEMMA TotalsKept ==
  ASSUME mod' = mod, NEW g, NEW n
  PROVE  Totals(g, n)' <=> Totals(g, n)
  BY DEF Totals, FuncSize

\* Every step keeps the sizes in agreement.
LEMMA StepSizes == IInv /\ SizeInv /\ [Next]_vars => SizeInv'
<1> SUFFICES ASSUME IInv, SizeInv, [Next]_vars PROVE SizeInv'
  OBVIOUS
<1>1. /\ pos \in Nat /\ codeBase \in Nat /\ fn \in 0 .. Len(mod) /\ Len(mod) \in Nat
      /\ Len(table) \in Nat /\ \A w \in DOMAIN originPc : w \in Nat
  BY DEF IInv, BaseInv, ModuleInv
<1>2. ASSUME NEW m \in Modules, Load(m) PROVE SizeInv'
  <2>1. fn = 0 /\ codeSz = 0 /\ codeBase = 0
    BY <1>2 DEF Load, IInv, LastSlot, SizeInv
  <2> DEFINE g == [i \in 0 .. 0 |-> 0]
  <2>2. Totals(g, 0)'
    BY DEF Totals
  <2>3. g[0] = 0
    OBVIOUS
  <2> HIDE DEF g
  <2> QED
    BY <2>1, <2>2, <2>3, <1>2 DEF Load, tables, SizeInv
<1>3. CASE Count_func
  BY <1>3, CountSizes
<1>4. CASE Alloc_tables
  <2>1. PICK g : Totals(g, Len(mod)) /\ codeSz = g[Len(mod)]
    BY <1>4 DEF Alloc_tables, SizeInv
  <2>2. Totals(g, Len(mod))' /\ codeSz' = g[Len(mod')] /\ codeBase' = g[fn']
    BY <1>4, <2>1, TotalsKept DEF Alloc_tables, SizeInv, Totals
  <2> QED
    BY <1>4, <2>2 DEF Alloc_tables, tables, SizeInv
<1>5. ASSUME phase = "expand", mod' = mod, codeSz' = codeSz
      PROVE  \E g : /\ Totals(g, Len(mod)) /\ Totals(g, Len(mod))'
                    /\ codeSz' = g[Len(mod')] /\ codeBase = g[fn]
  <2>1. PICK g : Totals(g, Len(mod)) /\ codeSz = g[Len(mod)] /\ codeBase = g[fn]
    BY <1>5 DEF SizeInv
  <2> QED
    BY <1>5, <2>1, TotalsKept
<1>6. ASSUME phase = "expand", fn < Len(mod), NEW g, Totals(g, Len(mod))
      PROVE  g[fn + 1] = g[fn] + FuncSize(fn) /\ fn \in Nat
  <2>1. fn \in 0 .. Len(mod) - 1
    BY <1>1, <1>6
  <2> QED
    BY <1>1, <1>6, <2>1 DEF Totals
<1>7. CASE Skip_func
  <2>1. PICK g : /\ Totals(g, Len(mod)) /\ Totals(g, Len(mod))'
                 /\ codeSz' = g[Len(mod')] /\ codeBase = g[fn]
    BY <1>5, <1>7 DEF Skip_func
  <2>2. codeBase' = g[fn']
    BY <1>1, <1>6, <1>7, <2>1 DEF Skip_func, FuncSize, Cur
  <2> QED
    BY <1>7, <2>1, <2>2 DEF Skip_func, tables, SizeInv
<1>8. CASE Expand_inst
  <2>1. PICK g : /\ Totals(g, Len(mod)) /\ Totals(g, Len(mod))'
                 /\ codeSz' = g[Len(mod')] /\ codeBase = g[fn]
    BY <1>5, <1>8 DEF Expand_inst
  <2>2. pos' \in Nat /\ pos' >= pos + 1
    BY <1>1, <1>8 DEF Expand_inst, Width
  <2>3. Len(table') = Len(table) + 1
    BY <1>1, <1>8 DEF Expand_inst, IInv, BaseInv
  <2>4. \A w \in DOMAIN originPc' : w = codeBase + pos \/ w \in DOMAIN originPc
    BY <1>8 DEF Expand_inst, Write
  <2>5. Len(table') <= codeBase + pos'
    BY <1>1, <2>2, <2>3 DEF SizeInv
  <2>6. \A w \in DOMAIN originPc' : w < codeBase + pos'
    <3> TAKE w \in DOMAIN originPc'
    <3>1. w \in Nat /\ w <= codeBase + pos
      BY <1>1, <2>4 DEF SizeInv
    <3> QED
      BY <1>1, <2>2, <3>1
  <2> QED
    BY <1>8, <2>1, <2>5, <2>6 DEF Expand_inst, SizeInv
<1>9. CASE End_func
  <2>1. PICK g : /\ Totals(g, Len(mod)) /\ Totals(g, Len(mod))'
                 /\ codeSz' = g[Len(mod')] /\ codeBase = g[fn]
    BY <1>5, <1>9 DEF End_func
  <2>2. codeBase' = g[fn']
    BY <1>1, <1>6, <1>9, <2>1 DEF End_func, FuncSize, Cur
  <2>3. codeBase' + pos' = codeBase + pos
    BY <1>1, <1>9 DEF End_func
  <2> QED
    BY <1>9, <2>1, <2>2, <2>3 DEF End_func, SizeInv
<1>10. CASE Add_break
  <2>1. PICK g : /\ Totals(g, Len(mod)) /\ Totals(g, Len(mod))'
                 /\ codeSz' = g[Len(mod')] /\ codeBase = g[fn]
    BY <1>5, <1>10 DEF Add_break
  <2> QED
    BY <1>10, <2>1 DEF Add_break, SizeInv
<1>11. CASE Done \/ UNCHANGED vars
  <2>1. UNCHANGED vars
    BY <1>11 DEF Done
  <2>2. \A g, n : Totals(g, n)' <=> Totals(g, n)
    BY <2>1, TotalsKept DEF vars
  <2> QED
    BY <2>1, <2>2 DEF vars, SizeInv
<1> QED
  BY <1>2, <1>3, <1>4, <1>7, <1>8, <1>9, <1>10, <1>11 DEF Next, Expand_code

\* The tables are as large as the loops that fill them need, however many
\* functions there are and whichever of them are external.
THEOREM TablesLargeEnough == Spec => []TablesFit
<1>1. Init => SizeInv
  BY DEF Init, SizeInv, Empty
<1>2. IInv /\ SizeInv => TablesFit
  <2> SUFFICES ASSUME IInv, SizeInv, phase \in {"expand", "done"}
               PROVE  /\ Len(table) <= codeSz
                      /\ \A w \in DOMAIN originPc : w < codeSz
                      /\ codeBase + pos <= codeSz
                      /\ phase = "done" => endPc + 1 < codeSz + 2
    BY DEF TablesFit
  <2>1. /\ pos \in Nat /\ codeBase \in Nat /\ codeSz \in Nat
        /\ fn \in 0 .. Len(mod) /\ Len(mod) \in Nat
        /\ Len(table) \in Nat /\ \A w \in DOMAIN originPc : w \in Nat
    BY DEF IInv, BaseInv, ModuleInv
  <2>2. PICK g : Totals(g, Len(mod)) /\ codeSz = g[Len(mod)] /\ codeBase = g[fn]
    BY DEF SizeInv
  <2>3. codeBase + pos <= codeSz
    <3>1. CASE InBody
      <4>1. fn \in 0 .. Len(mod) - 1 /\ fn + 1 \in 0 .. Len(mod)
            /\ Len(mod) \in 0 .. Len(mod)
        BY <3>1, <2>1 DEF InBody
      <4>2. g[fn + 1] = codeBase + Len(Cur.code) /\ g[fn + 1] <= codeSz
        BY <3>1, <2>1, <2>2, <4>1 DEF Totals, FuncSize, InBody, Cur
      <4>3. Len(Cur.code) \in Nat /\ pos <= Len(Cur.code)
        BY <3>1, <2>1, CurLemma DEF IInv, PosInv, InBody, StartsAt
      <4> QED
        BY <2>1, <4>2, <4>3
    <3>2. CASE ~InBody
      <4>1. pos = 0 /\ Len(mod) \in 0 .. Len(mod)
        BY <3>2, <2>1 DEF IInv, PosInv
      <4> QED
        BY <4>1, <2>1, <2>2 DEF Totals
    <3> QED
      BY <3>1, <3>2
  <2> QED
    BY <2>1, <2>3 DEF SizeInv
<1> QED
  BY <1>1, <1>2, StepSizes, IInvHolds, PTL DEF Spec
=============================================================================
