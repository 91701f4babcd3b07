-------------------------- MODULE MCDisplayWake --------------------------
(***************************************************************************)
(* Instances of DisplayWake for TLC.  An e-paper update either succeeds or *)
(* fails before the panel took it; an acknowledgement write either         *)
(* succeeds, never reaches the Scale, or reaches it and its response is    *)
(* lost.                                                                   *)
(***************************************************************************)
EXTENDS DisplayWake

DrawsSucceed == {[ok |-> TRUE, shown |-> TRUE]}
DrawsFailClean == DrawsSucceed \cup {[ok |-> FALSE, shown |-> FALSE]}

AcksSucceedOrFail == {[ok |-> TRUE, seen |-> TRUE], [ok |-> FALSE, seen |-> FALSE]}
AcksMayBeLost == AcksSucceedOrFail \cup {[ok |-> FALSE, seen |-> TRUE]}
=============================================================================
