------------------------------ MODULE MCImage -------------------------------
(***************************************************************************)
(* Names of different lengths, so that entries and offsets differ, and     *)
(* signatures on both sides of the limits of a packed type.                *)
(***************************************************************************)
EXTENDS Image

MCMain == <<3, 0>>
MCSys == {<<1, 0>>}
MCNames == {<<1, 0>>, <<1, 2, 0>>, <<2, 0>>, MCMain}
MCGlobals == {<<4, 5, 0>>, <<6, 0>>}

MCLabels == {<<7, 0>>, <<7, 8, 9, 0>>}

Types(n) == [k \in 1 .. n |-> (k * k + k \div 3) % 4]

\* Of 13, 14, 0 and 17 types.
MCDecls ==
  {<<<<1, 0>>, <<<<3>>, Types(12)>>>>, <<<<1, 2, 0>>, <<<<1>>, [k \in 1 .. 13 |-> 1]>>>>,
   <<<<2, 0>>, <<<< >>, << >>>>>>, <<MCMain, <<<<2, 0, 3>>, Types(14)>>>>}

MCObjects == {{<<1, 0>>, <<1, 2, 0>>}}

\* Also a function with four results, a main that can be imported and a native
\* function with arguments of another type than its result.
MoreDecls ==
  MCDecls \cup {<<<<2, 0>>, <<<<1, 2, 3, 1>>, <<1>>>>>>, <<MCMain, <<<< >>, << >>>>>>,
                 <<<<1, 2, 0>>, <<<<2>>, <<2, 1>>>>>>}

\* A second shared object.
MoreObjects == MCObjects \cup {{<<2, 0>>}}
=============================================================================
