------------------------------ MODULE Recorder ------------------------------
(***************************************************************************)
(* The record of a pour, as the controller and the pour history see it:    *)
(* one is opened with every pour, collects it until the tap is shut, is    *)
(* then saved, and only then may the next one be opened.  A power failure  *)
(* loses it.  PourControl and PourHistory both implement it, each making   *)
(* the moves that the other one takes for granted.                         *)
(***************************************************************************)
VARIABLE record    \* "none", "open" or "saving"

RecordInit == record = "none"

BeginRecord == record = "none" /\ record' = "open"
CloseRecord == record = "open" /\ record' = "saving"
SaveRecord  == record = "saving" /\ record' = "none"
LoseRecord  == record' = "none"

RecordNext == BeginRecord \/ CloseRecord \/ SaveRecord \/ LoseRecord

RecordSpec == RecordInit /\ [][RecordNext]_record
=============================================================================
