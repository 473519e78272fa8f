------------------------------ MODULE MCMemory ------------------------------
(***************************************************************************)
(* Small memories: a heap page of five cells, a memory page of ten.        *)
(***************************************************************************)
EXTENDS Memory

Section(size, end, seg, reloc) ==
  [size |-> size, end |-> end, seg |-> seg, reloc |-> reloc]

\* No global data, a page and a half of it, a whole page, and relocations.
PlainData ==
  {NoData, Section(7, 7, FALSE, FALSE), Section(5, 5, FALSE, TRUE)}

\* The segments of a wasm module: four bytes, the last of them at 11.
SegmentData == {Section(4, 12, TRUE, FALSE)}

AllData == PlainData \cup SegmentData
=============================================================================
