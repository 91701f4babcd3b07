--------------------------------- MODULE Tap ---------------------------------
(***************************************************************************)
(* What the pour controller promises, seen from outside: who has the tap,  *)
(* how long it has run, whether it is locked or being updated, and what    *)
(* becomes of the record of the pour.  Ticks, the queue, the button and    *)
(* the sensor are how PourControl keeps it.                                *)
(***************************************************************************)
EXTENDS Naturals, Recorder

CONSTANT Limit    \* ticks a pour may last

VARIABLES
  flow,       \* what the servo is open for: "local" or "web" pour, "test", "none"
  ran,        \* ticks this pour has lasted
  locked,     \* the PIN lock
  updating    \* a firmware upload is under way

vars == <<flow, ran, locked, updating, record>>

Pours == {"local", "web"}

Init ==
  /\ flow = "none" /\ ran = 0 /\ locked \in BOOLEAN /\ updating = FALSE /\ RecordInit

\* A pour starts with a record of its own; a locked tap obeys the web page only.
Open(who) ==
  /\ flow = "none" /\ ~updating /\ (who = "local" => ~locked)
  /\ flow' = who /\ ran' = 0 /\ BeginRecord
  /\ UNCHANGED <<locked, updating>>

\* It gets another tick only below its limit, and not once the tap is locked.
Run ==
  /\ flow \in Pours /\ ran + 1 < Limit /\ ~updating /\ (flow = "local" => ~locked)
  /\ ran' = ran + 1
  /\ UNCHANGED <<flow, locked, updating, record>>

\* The record of a pour is closed when the tap is shut, or by the same tick's end.
Recorded == CloseRecord \/ UNCHANGED record

\* A servo test, or another one, waits for the record too.
Test ==
  /\ flow \in {"none", "test"} /\ ~updating /\ record # "saving"
  /\ flow' = "test" /\ ran' = 0 /\ Recorded
  /\ UNCHANGED <<locked, updating>>

Shut == flow' = "none" /\ ran' = 0 /\ Recorded /\ UNCHANGED <<locked, updating>>

\* The lock falls and opens, and the record is saved, at any time.
Lock  == locked' \in BOOLEAN /\ UNCHANGED <<flow, ran, updating, record>>
Saved == SaveRecord /\ UNCHANGED <<flow, ran, locked, updating>>

\* An upload begins with nothing running and nothing to save, or it has failed.
Update ==
  /\ flow = "none" /\ (updating \/ record = "none")
  /\ updating' = ~updating /\ UNCHANGED <<flow, ran, locked, record>>

Reset ==
  /\ flow' = "none" /\ ran' = 0 /\ locked' \in BOOLEAN /\ updating' = FALSE
  /\ LoseRecord

Next ==
  \/ \E who \in Pours : Open(who)
  \/ Run \/ Test \/ Shut \/ Lock \/ Saved \/ Update \/ Reset

Spec == Init /\ [][Next]_vars
=============================================================================
