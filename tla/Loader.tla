------------------------------- MODULE Loader -------------------------------
(***************************************************************************)
(* U_MODULE::Expand_code: the code of every function, a sequence of 32 bit *)
(* words in which an instruction takes one word or two, becomes one table  *)
(* of expanded instructions; labels and function starts, which count       *)
(* words, become slots of that table.                                      *)
(*                                                                         *)
(* A word is "w32" or "w64" where an instruction of that width starts and  *)
(* "data" where it goes on.  An expanded instruction is named by the       *)
(* function and the word it was read from, as Bind_expand_pc records it.   *)
(***************************************************************************)
EXTENDS Integers, Sequences

CONSTANT Modules   \* the modules that may be loaded

Words == {"w32", "w64", "data"}

\* A function of the module file; labs are word offsets into its code.
Function == [extern : BOOLEAN, code : Seq(Words), labs : Seq(Nat)]

\* An instruction starts at word o of code c.
StartsAt(c, o) == o < Len(c) /\ c[o + 1] # "data"

Width(c, o) == IF c[o + 1] = "w64" THEN 2 ELSE 1

\* What U_CODE_BODY writes: whole instructions.  Labels stand in front of one:
\* Set_label would also take the end of the code, but functions end with a return.
WellFormed(f) ==
  /\ f.code # << >> /\ f.code[1] # "data"
  /\ \A k \in 1 .. Len(f.code) :
       /\ f.code[k] = "w64" => k < Len(f.code) /\ f.code[k + 1] = "data"
       /\ f.code[k] = "data" => k > 1 /\ f.code[k - 1] = "w64"
  /\ \A l \in DOMAIN f.labs : StartsAt(f.code, f.labs[l])

ASSUME ModulesAssumption ==
  \A m \in Modules :
    /\ m \in Seq(Function)
    /\ \A i \in DOMAIN m : ~m[i].extern => WellFormed(m[i])

VARIABLES
  phase,     \* "file", "count", "expand" or "done"
  mod,       \* the loaded module
  fn,        \* the function a loop is at, from 0
  pos,       \* the word the iterator is at, from the start of the function
  codeSz,    \* number of words of all functions
  codeBase,  \* code_base_idx: number of words of the functions before fn
  originPc,  \* the cells of _origin_pc_map written so far: word -> slot
  table,     \* _expanded_table so far, slot 0 first
  funcBase,  \* the cells of _expanded_func_base written so far
  labTab,    \* the cells of _lab_tab written so far
  endPc      \* _end_pc

vars == <<phase, mod, fn, pos, codeSz, codeBase, originPc, table, funcBase,
          labTab, endPc>>

tables == <<originPc, table, funcBase, labTab, endPc>>

Empty == [x \in {} |-> 0]

\* What a cell nobody has written holds.
Junk == -1

Read(map, i) == IF i \in DOMAIN map THEN map[i] ELSE Junk

Cur == mod[fn + 1]

Init ==
  /\ phase = "file"
  /\ mod = << >>
  /\ fn = 0 /\ pos = 0 /\ codeSz = 0 /\ codeBase = 0
  /\ originPc = Empty
  /\ table = << >>
  /\ funcBase = Empty
  /\ labTab = Empty
  /\ endPc = Junk

Load(m) ==
  /\ phase = "file"
  /\ phase' = "count"
  /\ mod' = m
  /\ UNCHANGED <<fn, pos, codeSz, codeBase, tables>>

\* Mutant: the size of the last function only.
Count_func_last_only ==
  /\ phase = "count"
  /\ fn < Len(mod)
  /\ codeSz' = IF Cur.extern THEN codeSz ELSE Len(Cur.code)
  /\ fn' = fn + 1
  /\ UNCHANGED <<phase, mod, pos, codeBase, tables>>

\* Go through 1: the size of the tables.
Count_func ==
  /\ phase = "count"
  /\ fn < Len(mod)
  /\ codeSz' = IF Cur.extern THEN codeSz ELSE codeSz + Len(Cur.code)
  /\ fn' = fn + 1
  /\ UNCHANGED <<phase, mod, pos, codeBase, tables>>

Alloc_tables ==
  /\ phase = "count"
  /\ fn = Len(mod)
  /\ phase' = "expand"
  /\ fn' = 0
  /\ UNCHANGED <<mod, pos, codeSz, codeBase, tables>>

\* Mutant: the loop does not go on from an external function.
Skip_func_stays ==
  /\ phase = "expand"
  /\ fn < Len(mod)
  /\ Cur.extern
  /\ fn' = fn
  /\ UNCHANGED <<phase, mod, pos, codeSz, codeBase, tables>>

\* Go through 2: fill the tables.
Skip_func ==
  /\ phase = "expand"
  /\ fn < Len(mod)
  /\ Cur.extern
  /\ fn' = fn + 1
  /\ UNCHANGED <<phase, mod, pos, codeSz, codeBase, tables>>

Write(map, i, v) ==
  [x \in DOMAIN map \cup {i} |-> IF x = i THEN v ELSE map[x]]

\* Mutant: the iterator goes on word by word.
Expand_inst_by_word ==
  /\ phase = "expand"
  /\ fn < Len(mod)
  /\ ~Cur.extern
  /\ pos # Len(Cur.code)
  /\ originPc' = Write(originPc, codeBase + pos, Len(table))
  /\ table' = Append(table, [func |-> fn, off |-> pos])
  /\ pos' = pos + 1
  /\ UNCHANGED <<phase, mod, fn, codeSz, codeBase, funcBase, labTab, endPc>>

\* Mutant: words are counted from the start of the function.
Expand_inst_no_base ==
  /\ phase = "expand"
  /\ fn < Len(mod)
  /\ ~Cur.extern
  /\ pos # Len(Cur.code)
  /\ originPc' = Write(originPc, pos, Len(table))
  /\ table' = Append(table, [func |-> fn, off |-> pos])
  /\ pos' = pos + Width(Cur.code, pos)
  /\ UNCHANGED <<phase, mod, fn, codeSz, codeBase, funcBase, labTab, endPc>>

Expand_inst ==
  /\ phase = "expand"
  /\ fn < Len(mod)
  /\ ~Cur.extern
  /\ pos # Len(Cur.code)
  /\ originPc' = Write(originPc, codeBase + pos, Len(table))
  /\ table' = Append(table, [func |-> fn, off |-> pos])
  /\ pos' = pos + Width(Cur.code, pos)
  /\ UNCHANGED <<phase, mod, fn, codeSz, codeBase, funcBase, labTab, endPc>>

\* The label table and the start of the function, once its words are known.
End_func ==
  /\ phase = "expand"
  /\ fn < Len(mod)
  /\ ~Cur.extern
  /\ pos = Len(Cur.code)
  /\ labTab' = Write(labTab, fn,
       [l \in DOMAIN Cur.labs |-> Read(originPc, codeBase + Cur.labs[l])])
  /\ funcBase' = Write(funcBase, fn, Read(originPc, codeBase))
  /\ codeBase' = codeBase + Len(Cur.code)
  /\ pos' = 0
  /\ fn' = fn + 1
  /\ UNCHANGED <<phase, mod, codeSz, originPc, table, endPc>>

\* The unused slot _end_pc points to, and the BREAK instruction behind it.
Add_break ==
  /\ phase = "expand"
  /\ fn = Len(mod)
  /\ endPc' = Len(table)
  /\ phase' = "done"
  /\ UNCHANGED <<mod, fn, pos, codeSz, codeBase, originPc, table, funcBase, labTab>>

Done == phase = "done" /\ UNCHANGED vars

Expand_code ==
  \/ Count_func
  \/ Alloc_tables
  \/ Skip_func
  \/ Expand_inst
  \/ End_func
  \/ Add_break

Next == (\E m \in Modules : Load(m)) \/ Expand_code \/ Done

Spec == Init /\ [][Next]_vars

\* Expand_code is one call that nothing interrupts.
FairSpec == Spec /\ WF_vars(Expand_code)

-----------------------------------------------------------------------------
(***************************************************************************)
(* Properties.                                                             *)
(***************************************************************************)

\* The functions with a body that the second loop has finished.
Finished ==
  {f \in 0 .. Len(mod) - 1 :
     /\ ~mod[f + 1].extern
     /\ phase = "done" \/ (phase = "expand" /\ f < fn)}

\* Slot n of table t is the instruction at word o of function f.
SlotIs(t, n, f, o) == n \in 0 .. Len(t) - 1 /\ t[n + 1] = [func |-> f, off |-> o]

\* The values of the variables: no cell of the tables holds what was in memory
\* before, since it is read from a cell of _origin_pc_map that was written.
TypeOK ==
  /\ phase \in {"file", "count", "expand", "done"}
  /\ mod \in Modules \cup {<< >>}
  /\ fn \in 0 .. Len(mod)
  /\ pos \in Nat
  /\ codeSz \in Nat
  /\ codeBase \in Nat
  /\ \A w \in DOMAIN originPc : w \in Nat /\ originPc[w] \in Nat
  /\ table \in Seq([func : Nat, off : Nat])
  /\ \A f \in DOMAIN funcBase : f \in Nat /\ funcBase[f] \in Nat
  /\ \A f \in DOMAIN labTab : \A l \in DOMAIN labTab[f] : labTab[f][l] \in Nat
  /\ endPc \in Nat \cup {Junk}

\* The loop of U_INST_ITER, which compares for inequality only, never takes the
\* second word of an instruction for a first one and never passes the end.
IteratorOnInstruction ==
  /\ pos # 0 => phase = "expand" /\ fn < Len(mod) /\ ~Cur.extern
  /\ pos # 0 => pos = Len(Cur.code) \/ StartsAt(Cur.code, pos)

\* A label leads to the expanded form of the very instruction it was set in
\* front of, and a function starts at the expanded form of its first one.
LabelsLand ==
  \A f \in Finished :
    /\ f \in DOMAIN funcBase /\ SlotIs(table, funcBase[f], f, 0)
    /\ f \in DOMAIN labTab
    /\ DOMAIN labTab[f] = DOMAIN mod[f + 1].labs
    /\ \A l \in DOMAIN labTab[f] : SlotIs(table, labTab[f][l], f, mod[f + 1].labs[l])

\* Behind an expanded instruction stands the one that follows it in the code of
\* its function: Inc_pc is the same as going on by the width of an instruction.
NextInstruction ==
  \A n \in 1 .. Len(table) :
    LET f == table[n].func
        o == table[n].off
        c == mod[f + 1].code
    IN  /\ f + 1 \in DOMAIN mod /\ ~mod[f + 1].extern /\ StartsAt(c, o)
        /\ o + Width(c, o) < Len(c) /\ (n < Len(table) \/ f # fn) =>
             n < Len(table) /\ table[n + 1] = [func |-> f, off |-> o + Width(c, o)]

\* No table is written past the size computed by the first loop, the BREAK slot
\* included.
TablesFit ==
  phase \in {"expand", "done"} =>
    /\ Len(table) <= codeSz
    /\ \A w \in DOMAIN originPc : w < codeSz
    /\ codeBase + pos <= codeSz
    /\ phase = "done" => endPc + 1 < codeSz + 2

\* Loading ends, whatever instructions the functions have.
LoadEnds == (phase = "count") ~> (phase = "done")
=============================================================================
