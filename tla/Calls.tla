------------------------------- MODULE Calls --------------------------------
(***************************************************************************)
(* What calling and returning promises to a program: the activations of a  *)
(* run form a sequence, only the last one executes, it stays inside its    *)
(* function, a call starts a fresh activation whose registers begin right  *)
(* behind the caller's locals, and a return resumes the caller behind the  *)
(* call with the caller's registers.  There is no context stack, no entry  *)
(* context and no BREAK instruction here.                                  *)
(***************************************************************************)
EXTENDS Integers, Sequences

CONSTANTS FuncNum, Externs, Table, FuncBase, FuncLast, Local

VARIABLES
  acts,    \* the activations of the current run, the executing one last
  status   \* "idle", "running" or "exited"

Kinds == {"i32", "i64", "f32", "f64"}

Interns == (0 .. FuncNum - 1) \ Externs

Body(f) == FuncBase[f] .. FuncLast[f]

Last == acts[Len(acts)]

Advance(act) == [act EXCEPT !.pc = @ + 1]

Activation(f, base) == [func |-> f, pc |-> FuncBase[f], base |-> base]

Init ==
  /\ acts = << >>
  /\ status = "idle"

\* The host starts a run, with registers wherever they are free; whatever was
\* left of an earlier run is forgotten.
Enter(f) ==
  /\ status = "idle"
  /\ Len(acts') = 1
  /\ acts'[1] = Activation(f, acts'[1].base)
  /\ UNCHANGED status

Resume ==
  /\ status = "idle"
  /\ status' = "running"
  /\ UNCHANGED acts

\* After any instruction the host may have the control back.
Turn ==
  /\ status = "running"
  /\ acts # << >>
  /\ status' \in {"running", "idle"}

\* An instruction that neither calls nor returns.
Inside ==
  /\ Turn
  /\ Table[Last.pc].op \notin {"call", "call_indirect", "return"}
  /\ \E pc \in Body(Last.func) :
       acts' = [acts EXCEPT ![Len(acts)].pc = pc]

Call(f) ==
  /\ Turn
  /\ \/ Table[Last.pc].op = "call" /\ Table[Last.pc].arg = f
     \/ Table[Last.pc].op = "call_indirect"
  /\ IF f \in Externs
       THEN acts' = [acts EXCEPT ![Len(acts)] = Advance(@)]
       ELSE acts' = Append(acts, Activation(f,
                      [k \in Kinds |-> Last.base[k] + Local[Last.func][k]]))

Return ==
  /\ Turn
  /\ Table[Last.pc].op = "return"
  /\ acts' = LET rest == SubSeq(acts, 1, Len(acts) - 1)
             IN  IF rest = << >> THEN << >>
                 ELSE [rest EXCEPT ![Len(rest)] = Advance(@)]

\* The run is over: its first activation has returned.
Finish ==
  /\ status = "running"
  /\ acts = << >>
  /\ status' = "idle"
  /\ UNCHANGED acts

Exit ==
  /\ status = "running"
  /\ status' = "exited"
  /\ UNCHANGED acts

Next ==
  \/ \E f \in Interns : Enter(f)
  \/ Resume
  \/ Inside
  \/ \E f \in 0 .. FuncNum - 1 : Call(f)
  \/ Return
  \/ Finish
  \/ Exit

Spec == Init /\ [][Next]_<<acts, status>>
=============================================================================
