------------------------------ MODULE MCLoader ------------------------------
(***************************************************************************)
(* All modules of at most MaxFuncs functions with the code below.          *)
(***************************************************************************)
EXTENDS Loader, SequencesExt

CONSTANT MaxFuncs

\* One to four words in every arrangement of narrow and wide instructions.
Codes ==
  {<<"w32">>, <<"w32", "w32">>, <<"w64", "data">>, <<"w32", "w64", "data">>,
   <<"w64", "data", "w32">>, <<"w64", "data", "w64", "data">>}

\* No label, one at each instruction, the last one first.
LabelsOf(c) ==
  {<< >>} \cup
  {SetToSortSeq({o \in 0 .. Len(c) - 1 : StartsAt(c, o)}, >)}

MCFunctions ==
  {[extern |-> TRUE, code |-> << >>, labs |-> << >>]} \cup
  UNION {{[extern |-> FALSE, code |-> c, labs |-> ls] : ls \in LabelsOf(c)} : c \in Codes}

MCModules == SeqOf(MCFunctions, MaxFuncs)
=============================================================================
