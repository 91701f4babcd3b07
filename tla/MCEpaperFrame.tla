--------------------------- MODULE MCEpaperFrame ---------------------------
(***************************************************************************)
(* Instances of EpaperFrame: three byte columns, the last one unaligned,   *)
(* and two rows, with the acknowledgement in one corner.  The layouts      *)
(* differ in one body byte, in two opposite ones, in the acknowledgement's *)
(* rectangle and in the tail.                                              *)
(***************************************************************************)
EXTENDS EpaperFrame

Corner == {<<0, 0>>}
Ink(S) == [c \in Cells |-> IF c \in S THEN "black" ELSE "white"]
FewLayouts ==
  {Ink({}), Ink({<<1, 1>>}), Ink({<<0, 0>>, <<0, 1>>}),
   Ink({<<0, 1>>, <<1, 0>>}), Ink({<<2, 1>>})}
============================================================================
