--------------------------- MODULE MCDisplayUpdate ---------------------------
(***************************************************************************)
(* Instances of DisplayUpdate: the factory's image and two to offer, one   *)
(* reconnect, two attempts to download, four moves of the Scale and four   *)
(* faults.                                                                 *)
(***************************************************************************)
EXTENDS DisplayUpdate
=============================================================================
