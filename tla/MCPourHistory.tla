--------------------------- MODULE MCPourHistory ---------------------------
(***************************************************************************)
(* Three slots, so that two pours are kept and the third save is the last  *)
(* one that finds a free slot; the fourth replaces the oldest pour, or the *)
(* third does when a save failed. A pour has two rows or three, MaxRows is *)
(* what the longest needs. Three faults are a failed save, a power failure *)
(* and a slot or partition that the boot after it cannot use.              *)
(***************************************************************************)
EXTENDS PourHistory
============================================================================
