---------------------------- MODULE MCScaleFetch ----------------------------
(***************************************************************************)
(* Instances of ScaleFetch: two Scales, a firmware with and one without    *)
(* command acknowledgements.                                               *)
(***************************************************************************)
EXTENDS ScaleFetch
============================================================================
