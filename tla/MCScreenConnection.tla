-------------------------- MODULE MCScreenConnection --------------------------
(***************************************************************************)
(* Instances of ScreenConnection: one slot beside a paired other one, a    *)
(* frame queue of two places, three moves of users and two faults.         *)
(***************************************************************************)
EXTENDS ScreenConnection
=============================================================================
