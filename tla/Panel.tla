------------------------------- MODULE Panel -------------------------------
(***************************************************************************)
(* What the e-paper display promises its caller: a picture that is drawn   *)
(* successfully is on the panel, whole and without the touch               *)
(* acknowledgement; one that is not drawn leaves the old picture or, when  *)
(* the failure came late, the new one.  DisplayWake draws through this     *)
(* interface and EpaperFrame implements it.                                *)
(***************************************************************************)
CONSTANT Pictures    \* what may be drawn

VARIABLES
  picture,   \* the picture on the panel
  badge,     \* the touch acknowledgement is drawn over it
  done       \* the call that last returned ESP_OK, "failed" for an error

vars == <<picture, badge, done>>

TypeOK ==
  /\ picture \in Pictures /\ badge \in BOOLEAN
  /\ done \in {"none", "failed", "drawn", "badge", "cleared"}

Init == picture \in Pictures /\ badge = FALSE /\ done = "none"

Took(p) == picture' = p /\ badge' = FALSE

Draw(p) ==
  \/ Took(p) /\ done' \in {"drawn", "failed"}
  \/ done' = "failed" /\ UNCHANGED <<picture, badge>>

ShowBadge ==
  /\ UNCHANGED picture
  /\ \/ badge' = TRUE /\ done' \in {"badge", "failed"}
     \/ badge' = badge /\ done' = "failed"

ClearBadge ==
  /\ UNCHANGED picture
  /\ \/ badge' = FALSE /\ done' \in {"cleared", "failed"}
     \/ badge' = badge /\ done' = "failed"

Next == (\E p \in Pictures : Draw(p)) \/ ShowBadge \/ ClearBadge

Spec == Init /\ [][Next]_vars
============================================================================
