------------------------- MODULE DisplayWakeTypes -------------------------
(***************************************************************************)
(* Type correctness of DisplayWake for every value of its constants: one   *)
(* lemma per action, with one step per group of variables the action       *)
(* changes.  The solver behind SMT and Zenon divide the work badly when a  *)
(* goal mixes arithmetic, records and Booleans, so such goals are split.   *)
(***************************************************************************)
EXTENDS DisplayWake, TLAPS

(* The initial values and the pictures have their types. *)
LEMMA NoRetainedType == NoRetained \in RetainedType
  BY WakeAssumption DEF NoRetained, RetainedType
\* The empty state and command have their types.
LEMMA NoStateType == NoState \in StateType
  BY WakeAssumption DEF NoState, StateType, CmdKinds
\* The empty state and command have their types.
LEMMA NoCmdType == NoCmd \in CommandType
  BY WakeAssumption DEF NoCmd, CommandType, CmdKinds
\* Message screens are screens.
LEMMA MessageScreen == \A k \in MessageKinds : Message(k) \in Screens
  BY DEF Screens, Message
\* Keg pictures are screens.
LEMMA KegScreen == \A c \in Contents \cup {Never}: Keg(c) \in Screens
  BY DEF Screens, Keg


\* remember_runtime_settings keeps the retained record in its type.
LEMMA RememberedType ==
  ASSUME retained \in RetainedType, periodic' \in BOOLEAN
  PROVE  RememberRuntimeSettings \in RetainedType
  <1> DEFINE off == ~periodic'
  <1>1. off \in BOOLEAN
    OBVIOUS
  <1>2. RememberRuntimeSettings
          = IF retained.valid
            THEN [retained EXCEPT !.failures = 0, !.periodicOff = off]
            ELSE retained
    BY DEF RememberRuntimeSettings
  <1>3. 0 \in 0..FailureCap
    BY WakeAssumption
  <1> HIDE DEF off
  <1>4. [retained EXCEPT !.failures = 0, !.periodicOff = off] \in RetainedType
    BY <1>1, <1>3 DEF RetainedType
  <1> QED BY <1>2, <1>4

\* initialize_retained_peer keeps the retained record in its type.
LEMMA InitializedType ==
  ASSUME retained \in RetainedType
  PROVE  InitializeRetainedPeer \in RetainedType
  <1>1. [NoRetained EXCEPT !.valid = TRUE] \in RetainedType
    BY NoRetainedType DEF RetainedType
  <1> QED BY <1>1 DEF InitializeRetainedPeer

\* Crash keeps every variable in its type.
LEMMA TypeCrash ==
  ASSUME TypeOK, Crash
  PROVE  TypeOK'
  <1> USE WakeAssumption DEF TypeOK, Crash, GoTo, nvs, rtc, panel, locals,
    scale, hist, Restart, RamLost, RtcLost
  <1>1. NvsOK' /\ PanelOK' /\ ScaleOK'
    BY DEF NvsOK, PanelOK, ScaleOK
  <1>2. retained' \in RetainedType
    BY NoRetainedType DEF RtcOK
  <1>3. touchPhase' \in 0..2
    BY DEF RtcOK
  <1>4. ackPending' \in BOOLEAN
    BY DEF RtcOK
  <1>5. LocalsOK'
    BY NoStateType DEF LocalsOK
  <1>6. HistOK'
    BY DEF HistOK
  <1>7. pc' \in PcValues
    BY DEF PcValues
  <1> QED
    BY <1>1, <1>2, <1>3, <1>4, <1>5, <1>6, <1>7 DEF RtcOK

\* PowerCycle keeps every variable in its type.
LEMMA TypePowerCycle ==
  ASSUME TypeOK, PowerCycle
  PROVE  TypeOK'
  <1> USE WakeAssumption DEF TypeOK, PowerCycle, GoTo, nvs, rtc, panel,
    locals, scale, hist, Restart, RamLost, RtcLost
  <1>1. NvsOK' /\ PanelOK' /\ ScaleOK'
    BY DEF NvsOK, PanelOK, ScaleOK
  <1>2. retained' \in RetainedType
    BY NoRetainedType DEF RtcOK
  <1>3. touchPhase' \in 0..2
    BY DEF RtcOK
  <1>4. ackPending' \in BOOLEAN
    BY DEF RtcOK
  <1>5. LocalsOK'
    BY NoStateType DEF LocalsOK
  <1>6. HistOK'
    BY DEF HistOK
  <1>7. pc' \in PcValues
    BY DEF PcValues
  <1> QED
    BY <1>1, <1>2, <1>3, <1>4, <1>5, <1>6, <1>7 DEF RtcOK

\* Wake keeps every variable in its type.
LEMMA TypeWake ==
  ASSUME TypeOK, NEW cause \in {"timer", "touch"}, Wake(cause)
  PROVE  TypeOK'
  <1> USE WakeAssumption DEF TypeOK, Wake, GoTo, nvs, rtc, panel, locals,
    scale, hist, Restart, RamLost
  <1>1. NvsOK' /\ RtcOK' /\ PanelOK' /\ ScaleOK'
    BY DEF NvsOK, RtcOK, PanelOK, ScaleOK
  <1>2. LocalsOK'
    BY NoStateType DEF LocalsOK
  <1>3. HistOK'
    BY DEF HistOK
  <1>4. pc' \in PcValues
    BY DEF PcValues
  <1> QED
    BY <1>1, <1>2, <1>3, <1>4

\* Boot keeps every variable in its type.
LEMMA TypeBoot ==
  ASSUME TypeOK, NEW w \in NvsResults, NEW flagRead \in NvsResults, NEW held
    \in BOOLEAN, Boot(w, flagRead, held)
  PROVE  TypeOK'
  <1> USE WakeAssumption DEF TypeOK, Boot, GoTo, nvs, rtc, panel, locals,
    scale, hist, NvsResults
  <1>1. NvsOK' /\ PanelOK' /\ ScaleOK' /\ HistOK'
    BY DEF NvsOK, PanelOK, ScaleOK, HistOK
  <1>2. RtcOK'
    BY DEF RtcOK
  <1>3. LocalsOK'
    BY DEF LocalsOK
  <1>4. pc' \in PcValues
    BY DEF PcValues
  <1> QED
    BY <1>1, <1>2, <1>3, <1>4

\* TouchAck keeps every variable in its type.
LEMMA TypeTouchAck ==
  ASSUME TypeOK, NEW o \in DrawOutcomes, TouchAck(o)
  PROVE  TypeOK'
  <1> USE WakeAssumption DEF TypeOK, TouchAck, GoTo, nvs, rtc, panel, locals,
    scale, hist
  <1>1. NvsOK' /\ ScaleOK' /\ HistOK'
    BY DEF NvsOK, ScaleOK, HistOK
  <1>2. RtcOK'
    BY DEF RtcOK
  <1>3. PanelOK'
    BY DEF PanelOK
  <1>4. LocalsOK'
    BY DEF LocalsOK
  <1>5. pc' \in PcValues
    BY DEF PcValues
  <1> QED
    BY <1>1, <1>2, <1>3, <1>4, <1>5

\* DelaySleep keeps every variable in its type.
LEMMA TypeDelaySleep ==
  ASSUME TypeOK, NEW w \in NvsResults, DelaySleep(w)
  PROVE  TypeOK'
  <1> USE WakeAssumption DEF TypeOK, DelaySleep, GoTo, nvs, rtc, panel,
    locals, scale, hist, ResetPowerCycles
  <1>1. RtcOK' /\ PanelOK' /\ ScaleOK'
    BY DEF RtcOK, PanelOK, ScaleOK
  <1>2. NvsOK'
    BY DEF NvsOK
  <1>3. LocalsOK'
    BY DEF LocalsOK
  <1>4. HistOK'
    BY DEF HistOK
  <1>5. pc' \in PcValues
    BY DEF PcValues
  <1> QED
    BY <1>1, <1>2, <1>3, <1>4, <1>5

\* NoteReset keeps every variable in its type.
LEMMA TypeNoteReset ==
  ASSUME TypeOK, NEW w \in NvsResults, NoteReset(w)
  PROVE  TypeOK'
  <1> USE WakeAssumption DEF TypeOK, NoteReset, GoTo, nvs, rtc, panel, locals,
    scale, hist
  <1>1. RtcOK' /\ PanelOK' /\ ScaleOK' /\ HistOK'
    BY DEF RtcOK, PanelOK, ScaleOK, HistOK
  <1>2. NvsOK'
    BY DEF NvsOK
  <1>3. LocalsOK'
    BY DEF LocalsOK
  <1>4. pc' \in PcValues
    BY DEF PcValues
  <1> QED
    BY <1>1, <1>2, <1>3, <1>4

\* RecoveryForget keeps every variable in its type.
LEMMA TypeRecoveryForget ==
  ASSUME TypeOK, NEW w \in NvsResults, RecoveryForget(w)
  PROVE  TypeOK'
  <1> USE WakeAssumption DEF TypeOK, RecoveryForget, GoTo, nvs, rtc, panel,
    locals, scale, hist
  <1>1. RtcOK' /\ PanelOK' /\ LocalsOK' /\ ScaleOK' /\ HistOK'
    BY DEF RtcOK, PanelOK, LocalsOK, ScaleOK, HistOK
  <1>2. NvsOK'
    BY DEF NvsOK
  <1>3. pc' \in PcValues
    BY DEF PcValues
  <1> QED
    BY <1>1, <1>2, <1>3

\* RecoveryClear keeps every variable in its type.
LEMMA TypeRecoveryClear ==
  ASSUME TypeOK, NEW w \in NvsResults, NEW o \in DrawOutcomes,
    RecoveryClear(w, o)
  PROVE  TypeOK'
  <1> USE WakeAssumption DEF TypeOK, RecoveryClear, GoTo, nvs, rtc, panel,
    locals, scale, hist, Draw
  <1>1. ScaleOK' /\ HistOK'
    BY DEF ScaleOK, HistOK
  <1>2. paired' \in BOOLEAN /\ bond' \in BOOLEAN /\ otaFlag' \in BOOLEAN
    BY DEF NvsOK
  <1>3. powerCycles' \in 0..(RecoveryPowerCycles - 1)
    <2>1. CASE w
      BY <2>1
    <2>2. CASE ~w
      BY <2>2 DEF NvsOK
    <2> QED BY <2>1, <2>2
  <1>4. RtcOK'
    BY NoRetainedType DEF RtcOK
  <1>5. PanelOK'
    BY MessageScreen DEF PanelOK, MessageKinds
  <1>6. wake' \in {"timer", "touch", "power", "reset"} /\ armed' \in {"delay", "full"}
    BY DEF LocalsOK
  <1>7. nextCheck' \in {"none", "frequent", "5min", "15min", "safety"}
    BY DEF LocalsOK
  <1>8. loaded' \in BOOLEAN /\ otaPending' \in BOOLEAN /\ ackVisible' \in BOOLEAN
    BY DEF LocalsOK
  <1>9. refreshed' \in BOOLEAN /\ recover' \in BOOLEAN
    BY DEF LocalsOK
  <1>10. periodic' \in BOOLEAN
    BY DEF LocalsOK
  <1>11. ctx' \in {"touch", "scheduled", "restore", "pair"}
    BY DEF LocalsOK
  <1>12. st' \in StateType
    BY DEF LocalsOK
  <1>13. pc' \in PcValues
    BY DEF PcValues
  <1> QED
    BY <1>1, <1>2, <1>3, <1>4, <1>5, <1>6, <1>7, <1>8, <1>9, <1>10, <1>11,
      <1>12, <1>13 DEF NvsOK, LocalsOK

\* Main keeps every variable in its type.
LEMMA TypeMain ==
  ASSUME TypeOK, Main
  PROVE  TypeOK'
  <1> USE WakeAssumption DEF TypeOK, Main, GoTo, nvs, rtc, panel, locals,
    scale, hist
  <1>1. NvsOK' /\ RtcOK' /\ PanelOK' /\ ScaleOK' /\ HistOK'
    BY DEF NvsOK, RtcOK, PanelOK, ScaleOK, HistOK
  <1>2. LocalsOK'
    BY DEF LocalsOK
  <1>3. pc' \in PcValues
    BY DEF PcValues
  <1> QED
    BY <1>1, <1>2, <1>3

\* FetchOk keeps every variable in its type.
LEMMA TypeFetchOk ==
  ASSUME TypeOK, NEW c \in Contents, NEW stable \in BOOLEAN, NEW calibrated
    \in BOOLEAN, NEW cfg \in Configs, NEW offer \in {"none", "offered",
    "approved"}, FetchOk(c, stable, calibrated, cfg, offer)
  PROVE  TypeOK'
  <1> USE WakeAssumption DEF TypeOK, FetchOk, GoTo, nvs, rtc, panel, locals,
    scale, hist, CommandRead, ApplyConfig, AfterUnpair
  <1>1. NvsOK' /\ PanelOK'
    BY DEF NvsOK, PanelOK
  <1>2. retained' \in RetainedType
    <2>1. periodic' \in BOOLEAN
      BY DEF LocalsOK
    <2>2. retained \in RetainedType
      BY DEF RtcOK
    <2>3. retained' = RememberRuntimeSettings
      OBVIOUS
    <2> QED BY <2>1, <2>2, <2>3, RememberedType
  <1>3. touchPhase' \in 0..2
    BY DEF RtcOK
  <1>4. ackPending' \in BOOLEAN
    BY DEF RtcOK
  <1>5. wake' \in {"timer", "touch", "power", "reset"} /\ armed' \in {"delay", "full"}
    BY DEF LocalsOK
  <1>6. nextCheck' \in {"none", "frequent", "5min", "15min", "safety"}
    BY DEF LocalsOK
  <1>7. loaded' \in BOOLEAN /\ otaPending' \in BOOLEAN /\ ackVisible' \in BOOLEAN
    BY DEF LocalsOK
  <1>8. refreshed' \in BOOLEAN /\ recover' \in BOOLEAN
    BY DEF LocalsOK
  <1>9. periodic' \in BOOLEAN
    BY DEF LocalsOK
  <1>10. ctx' \in {"touch", "scheduled", "restore", "pair"}
    BY DEF LocalsOK
  <1>11. st' \in StateType
    BY DEF LocalsOK, Fetched, StateType, ScaleOK, CommandType
  <1>12. ScaleOK'
    BY NoCmdType DEF ScaleOK
  <1>13. HistOK'
    BY DEF HistOK
  <1>14. pc' \in PcValues
    BY DEF PcValues
  <1> QED
    BY <1>1, <1>2, <1>3, <1>4, <1>5, <1>6, <1>7, <1>8, <1>9, <1>10, <1>11,
      <1>12, <1>13, <1>14 DEF RtcOK, LocalsOK

\* FetchFail keeps every variable in its type.
LEMMA TypeFetchFail ==
  ASSUME TypeOK, FetchFail
  PROVE  TypeOK'
  <1> USE WakeAssumption DEF TypeOK, FetchFail, GoTo, nvs, rtc, panel, locals,
    scale, hist, ControlReadLost, CommandRead
  <1>1. NvsOK' /\ RtcOK' /\ PanelOK' /\ LocalsOK'
    BY DEF NvsOK, RtcOK, PanelOK, LocalsOK
  <1>2. ScaleOK'
    BY NoCmdType DEF ScaleOK
  <1>3. HistOK'
    BY DEF HistOK
  <1>4. pc' \in PcValues
    BY DEF PcValues
  <1> QED
    BY <1>1, <1>2, <1>3, <1>4

\* Unpair keeps every variable in its type.
LEMMA TypeUnpair ==
  ASSUME TypeOK, NEW a \in AckOutcomes, Unpair(a)
  PROVE  TypeOK'
  <1> USE WakeAssumption DEF TypeOK, Unpair, GoTo, nvs, rtc, panel, locals,
    scale, hist, ScaleAcked, AfterUnpairAck, AfterUnpair
  <1>1. NvsOK' /\ RtcOK' /\ PanelOK' /\ LocalsOK' /\ HistOK'
    BY DEF NvsOK, RtcOK, PanelOK, LocalsOK, HistOK
  <1>2. ScaleOK'
    BY NoCmdType DEF ScaleOK
  <1>3. pc' \in PcValues
    BY DEF PcValues
  <1> QED
    BY <1>1, <1>2, <1>3

\* ForgetPeer keeps every variable in its type.
LEMMA TypeForgetPeer ==
  ASSUME TypeOK, NEW w \in NvsResults, ForgetPeer(w)
  PROVE  TypeOK'
  <1> USE WakeAssumption DEF TypeOK, ForgetPeer, GoTo, nvs, rtc, panel,
    locals, scale, hist
  <1>1. RtcOK' /\ PanelOK' /\ LocalsOK' /\ ScaleOK' /\ HistOK'
    BY DEF RtcOK, PanelOK, LocalsOK, ScaleOK, HistOK
  <1>2. NvsOK'
    BY DEF NvsOK
  <1>3. pc' \in PcValues
    BY DEF PcValues
  <1> QED
    BY <1>1, <1>2, <1>3

\* ClearPairing keeps every variable in its type.
LEMMA TypeClearPairing ==
  ASSUME TypeOK, NEW w \in NvsResults, NEW o \in DrawOutcomes, ClearPairing(w,
    o)
  PROVE  TypeOK'
  <1> USE WakeAssumption DEF TypeOK, ClearPairing, GoTo, nvs, rtc, panel,
    locals, scale, hist, ResetPowerCycles, Draw
  <1>1. LocalsOK' /\ ScaleOK' /\ HistOK'
    BY DEF LocalsOK, ScaleOK, HistOK
  <1>2. NvsOK'
    BY DEF NvsOK
  <1>3. RtcOK'
    BY NoRetainedType DEF RtcOK
  <1>4. PanelOK'
    BY MessageScreen DEF PanelOK, MessageKinds
  <1>5. pc' \in PcValues
    BY DEF PcValues
  <1> QED
    BY <1>1, <1>2, <1>3, <1>4, <1>5

\* Settle keeps every variable in its type.
LEMMA TypeSettle ==
  ASSUME TypeOK, Settle
  PROVE  TypeOK'
  <1> USE WakeAssumption DEF TypeOK, Settle, GoTo, nvs, rtc, panel, locals,
    scale, hist
  <1>1. NvsOK' /\ PanelOK' /\ LocalsOK' /\ ScaleOK' /\ HistOK'
    BY DEF NvsOK, PanelOK, LocalsOK, ScaleOK, HistOK
  <1>2. RtcOK'
    BY DEF RtcOK
  <1>3. pc' \in PcValues
    BY DEF PcValues
  <1> QED
    BY <1>1, <1>2, <1>3

\* RenderSkip keeps every variable in its type.
LEMMA TypeRenderSkip ==
  ASSUME TypeOK, RenderSkip
  PROVE  TypeOK'
  <1> USE WakeAssumption DEF TypeOK, RenderSkip, GoTo, nvs, rtc, panel,
    locals, scale, hist, AfterRender
  <1>1. NvsOK' /\ RtcOK' /\ PanelOK' /\ ScaleOK' /\ HistOK'
    BY DEF NvsOK, RtcOK, PanelOK, ScaleOK, HistOK
  <1>2. LocalsOK'
    BY DEF LocalsOK
  <1>3. pc' \in PcValues
    BY DEF PcValues
  <1> QED
    BY <1>1, <1>2, <1>3

\* RenderDraw keeps every variable in its type.
LEMMA TypeRenderDraw ==
  ASSUME TypeOK, NEW o \in DrawOutcomes, RenderDraw(o)
  PROVE  TypeOK'
  <1> USE WakeAssumption DEF TypeOK, RenderDraw, RememberDisplayedState,
     DisplayedState, GoTo, nvs, rtc, panel,
    locals, scale, hist, Draw, AfterDraw, AfterRender
  <1>1. NvsOK' /\ ScaleOK'
    BY DEF NvsOK, ScaleOK
  <1>2. retained' \in RetainedType
    BY DEF RtcOK, RetainedType, LocalsOK, StateType
  <1>3. touchPhase' \in 0..2
    BY DEF RtcOK
  <1>4. ackPending' \in BOOLEAN
    BY DEF RtcOK
  <1>5. PanelOK'
    BY KegScreen DEF PanelOK, LocalsOK, StateType
  <1>6. wake' \in {"timer", "touch", "power", "reset"} /\ armed' \in {"delay", "full"}
    BY DEF LocalsOK
  <1>7. nextCheck' \in {"none", "frequent", "5min", "15min", "safety"}
    BY DEF LocalsOK
  <1>8. loaded' \in BOOLEAN /\ otaPending' \in BOOLEAN /\ ackVisible' \in BOOLEAN
    BY DEF LocalsOK
  <1>9. refreshed' \in BOOLEAN /\ recover' \in BOOLEAN
    BY DEF LocalsOK
  <1>10. periodic' \in BOOLEAN
    BY DEF LocalsOK
  <1>11. ctx' \in {"touch", "scheduled", "restore", "pair"}
    BY DEF LocalsOK
  <1>12. st' \in StateType
    BY DEF LocalsOK, StateType, Forced
  <1>13. HistOK'
    BY DEF HistOK
  <1>14. pc' \in PcValues
    BY DEF PcValues
  <1> QED
    BY <1>1, <1>2, <1>3, <1>4, <1>5, <1>6, <1>7, <1>8, <1>9, <1>10, <1>11,
      <1>12, <1>13, <1>14 DEF RtcOK, LocalsOK

\* AckRefresh keeps every variable in its type.
LEMMA TypeAckRefresh ==
  ASSUME TypeOK, NEW a \in AckOutcomes, AckRefresh(a)
  PROVE  TypeOK'
  <1> USE WakeAssumption DEF TypeOK, AckRefresh, GoTo, nvs, rtc, panel,
    locals, scale, hist, ScaleAcked, AfterRender
  <1>1. NvsOK' /\ RtcOK' /\ PanelOK' /\ LocalsOK' /\ HistOK'
    BY DEF NvsOK, RtcOK, PanelOK, LocalsOK, HistOK
  <1>2. ScaleOK'
    BY NoCmdType DEF ScaleOK
  <1>3. pc' \in PcValues
    BY DEF PcValues
  <1> QED
    BY <1>1, <1>2, <1>3

\* PostRender keeps every variable in its type.
LEMMA TypePostRender ==
  ASSUME TypeOK, NEW w \in NvsResults, PostRender(w)
  PROVE  TypeOK'
  <1> USE WakeAssumption DEF TypeOK, PostRender, GoTo, nvs, rtc, panel,
    locals, scale, hist
  <1>1. RtcOK' /\ PanelOK' /\ LocalsOK' /\ ScaleOK' /\ HistOK'
    BY DEF RtcOK, PanelOK, LocalsOK, ScaleOK, HistOK
  <1>2. NvsOK'
    BY DEF NvsOK
  <1>3. pc' \in PcValues
    BY DEF PcValues
  <1> QED
    BY <1>1, <1>2, <1>3

\* RecordFailure keeps every variable in its type.
LEMMA TypeRecordFailure ==
  ASSUME TypeOK, NEW o \in DrawOutcomes, RecordFailure(o)
  PROVE  TypeOK'
  <1> USE WakeAssumption DEF TypeOK, RecordFailure, GoTo, nvs, rtc, panel,
    locals, scale, hist, Draw
  <1>1. NvsOK' /\ ScaleOK' /\ HistOK'
    BY DEF NvsOK, ScaleOK, HistOK
  <1>2. retained' \in RetainedType
    <2> DEFINE base == InitializeRetainedPeer
               n    == CountFailure(base.failures)
               show == n > OfflineThreshold /\ ~base.offline
    <2>1. base \in RetainedType
      BY InitializedType DEF RtcOK
    <2>2. n \in 0..FailureCap
      BY <2>1 DEF CountFailure, RetainedType
    <2>3. retained' = [base EXCEPT !.failures = n, !.offline = base.offline \/ (show /\ o.ok)]
      OBVIOUS
    <2>4. (base.offline \/ (show /\ o.ok)) \in BOOLEAN
      OBVIOUS
    <2> HIDE DEF base, n, show
    <2> QED BY <2>1, <2>2, <2>3, <2>4 DEF RetainedType
  <1>3. touchPhase' \in 0..2
    BY DEF RtcOK
  <1>4. ackPending' \in BOOLEAN
    BY DEF RtcOK
  <1>5. PanelOK'
    BY MessageScreen DEF PanelOK, MessageKinds
  <1>6. LocalsOK'
    BY DEF LocalsOK
  <1>7. pc' \in PcValues
    BY DEF PcValues
  <1> QED
    BY <1>1, <1>2, <1>3, <1>4, <1>5, <1>6, <1>7 DEF RtcOK

\* EndTouch keeps every variable in its type.
LEMMA TypeEndTouch ==
  ASSUME TypeOK, NEW o \in DrawOutcomes, EndTouch(o)
  PROVE  TypeOK'
  <1> USE WakeAssumption DEF TypeOK, EndTouch, GoTo, nvs, rtc, panel, locals,
    scale, hist
  <1>1. NvsOK' /\ LocalsOK' /\ ScaleOK' /\ HistOK'
    BY DEF NvsOK, LocalsOK, ScaleOK, HistOK
  <1>2. retained' \in RetainedType
    BY DEF RtcOK
  <1>3. touchPhase' \in 0..2
    BY DEF RtcOK
  <1>4. ackPending' \in BOOLEAN
    BY DEF RtcOK
  <1>5. PanelOK'
    BY DEF PanelOK
  <1>6. pc' \in PcValues
    BY DEF PcValues
  <1> QED
    BY <1>1, <1>2, <1>3, <1>4, <1>5, <1>6 DEF RtcOK

\* Sleep keeps every variable in its type.
LEMMA TypeSleep ==
  ASSUME TypeOK, NEW w \in NvsResults, Sleep(w)
  PROVE  TypeOK'
  <1> USE WakeAssumption DEF TypeOK, Sleep, GoTo, nvs, rtc, panel, locals,
    scale, hist, ResetPowerCycles
  <1>1. RtcOK' /\ PanelOK' /\ ScaleOK'
    BY DEF RtcOK, PanelOK, ScaleOK
  <1>2. NvsOK'
    BY DEF NvsOK
  <1>3. wake' \in {"timer", "touch", "power", "reset"} /\ armed' \in {"delay", "full"}
    BY DEF LocalsOK
  <1>4. nextCheck' \in {"none", "frequent", "5min", "15min", "safety"}
    BY DEF LocalsOK, NextCheckSeconds
  <1>5. loaded' \in BOOLEAN /\ otaPending' \in BOOLEAN /\ ackVisible' \in BOOLEAN
    BY DEF LocalsOK
  <1>6. refreshed' \in BOOLEAN /\ recover' \in BOOLEAN
    BY DEF LocalsOK
  <1>7. periodic' \in BOOLEAN
    BY DEF LocalsOK
  <1>8. ctx' \in {"touch", "scheduled", "restore", "pair"}
    BY DEF LocalsOK
  <1>9. st' \in StateType
    BY DEF LocalsOK
  <1>10. HistOK'
    BY DEF HistOK
  <1>11. pc' \in PcValues
    BY DEF PcValues
  <1> QED
    BY <1>1, <1>2, <1>3, <1>4, <1>5, <1>6, <1>7, <1>8, <1>9, <1>10, <1>11 DEF
      LocalsOK

\* OtaCheck keeps every variable in its type.
LEMMA TypeOtaCheck ==
  ASSUME TypeOK, NEW w \in NvsResults, OtaCheck(w)
  PROVE  TypeOK'
  <1> USE WakeAssumption DEF TypeOK, OtaCheck, GoTo, nvs, rtc, panel, locals,
    scale, hist
  <1>1. RtcOK' /\ PanelOK' /\ LocalsOK' /\ ScaleOK' /\ HistOK'
    BY DEF RtcOK, PanelOK, LocalsOK, ScaleOK, HistOK
  <1>2. NvsOK'
    BY DEF NvsOK
  <1>3. pc' \in PcValues
    BY DEF PcValues
  <1> QED
    BY <1>1, <1>2, <1>3

\* OtaScreen keeps every variable in its type.
LEMMA TypeOtaScreen ==
  ASSUME TypeOK, NEW o \in DrawOutcomes, OtaScreen(o)
  PROVE  TypeOK'
  <1> USE WakeAssumption DEF TypeOK, OtaScreen, GoTo, nvs, rtc, panel, locals,
    scale, hist, Draw
  <1>1. NvsOK' /\ RtcOK' /\ LocalsOK' /\ ScaleOK' /\ HistOK'
    BY DEF NvsOK, RtcOK, LocalsOK, ScaleOK, HistOK
  <1>2. PanelOK'
    BY MessageScreen DEF PanelOK, MessageKinds
  <1>3. pc' \in PcValues
    BY DEF PcValues
  <1> QED
    BY <1>1, <1>2, <1>3

\* OtaInstalled keeps every variable in its type.
LEMMA TypeOtaInstalled ==
  ASSUME TypeOK, OtaInstalled
  PROVE  TypeOK'
  <1> USE WakeAssumption DEF TypeOK, OtaInstalled, GoTo, nvs, rtc, panel,
    locals, scale, hist, Restart, RamLost, RtcLost
  <1>1. NvsOK' /\ PanelOK' /\ ScaleOK'
    BY DEF NvsOK, PanelOK, ScaleOK
  <1>2. retained' \in RetainedType
    BY NoRetainedType DEF RtcOK
  <1>3. touchPhase' \in 0..2
    BY DEF RtcOK
  <1>4. ackPending' \in BOOLEAN
    BY DEF RtcOK
  <1>5. LocalsOK'
    BY NoStateType DEF LocalsOK
  <1>6. HistOK'
    BY DEF HistOK
  <1>7. pc' \in PcValues
    BY DEF PcValues
  <1> QED
    BY <1>1, <1>2, <1>3, <1>4, <1>5, <1>6, <1>7 DEF RtcOK

\* OtaFailed keeps every variable in its type.
LEMMA TypeOtaFailed ==
  ASSUME TypeOK, NEW o \in DrawOutcomes, OtaFailed(o)
  PROVE  TypeOK'
  <1> USE WakeAssumption DEF TypeOK, OtaFailed, GoTo, nvs, rtc, panel, locals,
    scale, hist, Draw
  <1>1. NvsOK' /\ RtcOK' /\ LocalsOK' /\ ScaleOK' /\ HistOK'
    BY DEF NvsOK, RtcOK, LocalsOK, ScaleOK, HistOK
  <1>2. PanelOK'
    BY MessageScreen DEF PanelOK, MessageKinds
  <1>3. pc' \in PcValues
    BY DEF PcValues
  <1> QED
    BY <1>1, <1>2, <1>3

\* OtaClear keeps every variable in its type.
LEMMA TypeOtaClear ==
  ASSUME TypeOK, NEW w \in NvsResults, OtaClear(w)
  PROVE  TypeOK'
  <1> USE WakeAssumption DEF TypeOK, OtaClear, GoTo, nvs, rtc, panel, locals,
    scale, hist
  <1>1. RtcOK' /\ PanelOK' /\ ScaleOK' /\ HistOK'
    BY DEF RtcOK, PanelOK, ScaleOK, HistOK
  <1>2. NvsOK'
    BY DEF NvsOK
  <1>3. wake' \in {"timer", "touch", "power", "reset"} /\ armed' \in {"delay", "full"}
    BY DEF LocalsOK
  <1>4. nextCheck' \in {"none", "frequent", "5min", "15min", "safety"}
    BY DEF LocalsOK
  <1>5. loaded' \in BOOLEAN /\ otaPending' \in BOOLEAN /\ ackVisible' \in BOOLEAN
    BY DEF LocalsOK
  <1>6. refreshed' \in BOOLEAN /\ recover' \in BOOLEAN
    BY DEF LocalsOK
  <1>7. periodic' \in BOOLEAN
    BY DEF LocalsOK
  <1>8. ctx' \in {"touch", "scheduled", "restore", "pair"}
    BY DEF LocalsOK
  <1>9. st' \in StateType
    BY DEF LocalsOK, StateType
  <1>10. pc' \in PcValues
    BY DEF PcValues
  <1> QED
    BY <1>1, <1>2, <1>3, <1>4, <1>5, <1>6, <1>7, <1>8, <1>9, <1>10 DEF
      LocalsOK

\* EnterPairing keeps every variable in its type.
LEMMA TypeEnterPairing ==
  ASSUME TypeOK, NEW o \in DrawOutcomes, EnterPairing(o)
  PROVE  TypeOK'
  <1> USE WakeAssumption DEF TypeOK, EnterPairing, GoTo, nvs, rtc, panel,
    locals, scale, hist, Draw
  <1>1. NvsOK' /\ RtcOK' /\ LocalsOK' /\ ScaleOK' /\ HistOK'
    BY DEF NvsOK, RtcOK, LocalsOK, ScaleOK, HistOK
  <1>2. PanelOK'
    BY MessageScreen DEF PanelOK, MessageKinds
  <1>3. pc' \in PcValues
    BY DEF PcValues
  <1> QED
    BY <1>1, <1>2, <1>3

\* ScanAgain keeps every variable in its type.
LEMMA TypeScanAgain ==
  ASSUME TypeOK, NEW o \in DrawOutcomes, ScanAgain(o)
  PROVE  TypeOK'
  <1> USE WakeAssumption DEF TypeOK, ScanAgain, GoTo, nvs, rtc, panel, locals,
    scale, hist, Draw
  <1>1. NvsOK' /\ RtcOK' /\ LocalsOK' /\ ScaleOK' /\ HistOK'
    BY DEF NvsOK, RtcOK, LocalsOK, ScaleOK, HistOK
  <1>2. PanelOK'
    BY MessageScreen DEF PanelOK, MessageKinds
  <1>3. pc' \in PcValues
    BY DEF PcValues
  <1> QED
    BY <1>1, <1>2, <1>3

\* PairOk keeps every variable in its type.
LEMMA TypePairOk ==
  ASSUME TypeOK, NEW o \in DrawOutcomes, PairOk(o)
  PROVE  TypeOK'
  <1> USE WakeAssumption DEF TypeOK, PairOk, GoTo, nvs, rtc, panel, locals,
    scale, hist, Draw
  <1>1. RtcOK' /\ LocalsOK' /\ HistOK'
    BY DEF RtcOK, LocalsOK, HistOK
  <1>2. NvsOK'
    BY DEF NvsOK
  <1>3. PanelOK'
    BY MessageScreen DEF PanelOK, MessageKinds
  <1>4. ScaleOK'
    BY NoCmdType DEF ScaleOK
  <1>5. pc' \in PcValues
    BY DEF PcValues
  <1> QED
    BY <1>1, <1>2, <1>3, <1>4, <1>5

\* PairRefused keeps every variable in its type.
LEMMA TypePairRefused ==
  ASSUME TypeOK, NEW o \in DrawOutcomes, PairRefused(o)
  PROVE  TypeOK'
  <1> USE WakeAssumption DEF TypeOK, PairRefused, GoTo, nvs, rtc, panel,
    locals, scale, hist, Draw
  <1>1. RtcOK' /\ LocalsOK' /\ HistOK'
    BY DEF RtcOK, LocalsOK, HistOK
  <1>2. NvsOK'
    BY DEF NvsOK
  <1>3. PanelOK'
    BY MessageScreen DEF PanelOK, MessageKinds
  <1>4. ScaleOK'
    BY NoCmdType DEF ScaleOK
  <1>5. pc' \in PcValues
    BY DEF PcValues
  <1> QED
    BY <1>1, <1>2, <1>3, <1>4, <1>5

\* Validate keeps every variable in its type.
LEMMA TypeValidate ==
  ASSUME TypeOK, NEW c \in Contents, NEW stable \in BOOLEAN, NEW calibrated
    \in BOOLEAN, NEW cfg \in Configs, NEW w \in NvsResults, NEW o \in
    DrawOutcomes, Validate(c, stable, calibrated, cfg, w, o)
  PROVE  TypeOK'
  <1> USE WakeAssumption DEF TypeOK, Validate, GoTo, nvs, rtc, panel, locals,
    scale, hist, CommandRead, ApplyConfig, Draw
  <1>1. RtcOK'
    BY DEF RtcOK
  <1>2. NvsOK'
    BY DEF NvsOK
  <1>3. PanelOK'
    BY MessageScreen DEF PanelOK, MessageKinds
  <1>4. wake' \in {"timer", "touch", "power", "reset"} /\ armed' \in {"delay", "full"}
    BY DEF LocalsOK
  <1>5. nextCheck' \in {"none", "frequent", "5min", "15min", "safety"}
    BY DEF LocalsOK
  <1>6. loaded' \in BOOLEAN /\ otaPending' \in BOOLEAN /\ ackVisible' \in BOOLEAN
    BY DEF LocalsOK
  <1>7. refreshed' \in BOOLEAN /\ recover' \in BOOLEAN
    BY DEF LocalsOK
  <1>8. periodic' \in BOOLEAN
    BY DEF LocalsOK
  <1>9. ctx' \in {"touch", "scheduled", "restore", "pair"}
    BY DEF LocalsOK
  <1>10. st' \in StateType
    BY DEF LocalsOK, Fetched, StateType, ScaleOK, CommandType
  <1>11. ScaleOK'
    BY NoCmdType DEF ScaleOK
  <1>12. HistOK'
    BY DEF HistOK
  <1>13. pc' \in PcValues
    BY DEF PcValues
  <1> QED
    BY <1>1, <1>2, <1>3, <1>4, <1>5, <1>6, <1>7, <1>8, <1>9, <1>10, <1>11,
      <1>12, <1>13 DEF LocalsOK

\* ValidateFail keeps every variable in its type.
LEMMA TypeValidateFail ==
  ASSUME TypeOK, ValidateFail
  PROVE  TypeOK'
  <1> USE WakeAssumption DEF TypeOK, ValidateFail, GoTo, nvs, rtc, panel,
    locals, scale, hist, ControlReadLost, CommandRead
  <1>1. NvsOK' /\ RtcOK' /\ PanelOK' /\ LocalsOK' /\ HistOK'
    BY DEF NvsOK, RtcOK, PanelOK, LocalsOK, HistOK
  <1>2. ScaleOK'
    BY NoCmdType DEF ScaleOK
  <1>3. pc' \in PcValues
    BY DEF PcValues
  <1> QED
    BY <1>1, <1>2, <1>3

\* PairFail keeps every variable in its type.
LEMMA TypePairFail ==
  ASSUME TypeOK, NEW forgot \in NvsResults, NEW w \in NvsResults, NEW o \in
    DrawOutcomes, PairFail(forgot, w, o)
  PROVE  TypeOK'
  <1> USE WakeAssumption DEF TypeOK, PairFail, GoTo, nvs, rtc, panel, locals,
    scale, hist, ResetPowerCycles, Draw
  <1>1. RtcOK' /\ LocalsOK' /\ ScaleOK' /\ HistOK'
    BY DEF RtcOK, LocalsOK, ScaleOK, HistOK
  <1>2. NvsOK'
    BY DEF NvsOK
  <1>3. PanelOK'
    BY MessageScreen DEF PanelOK, MessageKinds
  <1>4. pc' \in PcValues
    BY DEF PcValues
  <1> QED
    BY <1>1, <1>2, <1>3, <1>4

\* QueueCommand keeps every variable in its type.
LEMMA TypeQueueCommand ==
  ASSUME TypeOK, NEW kind \in {"refresh", "unpair"}, QueueCommand(kind)
  PROVE  TypeOK'
  <1> USE WakeAssumption DEF TypeOK, QueueCommand, GoTo, nvs, rtc, panel,
    locals, scale, hist
  <1>1. NvsOK' /\ RtcOK' /\ PanelOK' /\ LocalsOK'
    BY DEF NvsOK, RtcOK, PanelOK, LocalsOK
  <1>2. cmd' \in CommandType
    BY DEF ScaleOK, CommandType, CmdKinds
  <1>3. issued' \in 0..MaxCmds
    BY DEF ScaleOK
  <1>4. scaleBond' \in BOOLEAN /\ ackScale' \in BOOLEAN
    BY DEF ScaleOK
  <1>5. HistOK'
    BY DEF HistOK
  <1>6. pc' \in PcValues
    BY DEF PcValues
  <1> QED
    BY <1>1, <1>2, <1>3, <1>4, <1>5, <1>6 DEF ScaleOK

\* Every step keeps every variable in its type.
LEMMA TypeStep == TypeOK /\ [Next]_vars => TypeOK'
  <1> SUFFICES ASSUME TypeOK, [Next]_vars PROVE TypeOK'
    OBVIOUS
  <1>1. CASE RunDeterministic
    BY <1>1, TypeMain, TypeSettle, TypeFetchFail, TypeRenderSkip, TypeValidateFail
       DEF RunDeterministic
  <1>2. CASE RunNvs
    BY <1>2, TypeDelaySleep, TypeNoteReset, TypeRecoveryForget, TypeForgetPeer,
       TypePostRender, TypeSleep, TypeOtaCheck, TypeOtaClear, TypeBoot
       DEF RunNvs
  <1>3. CASE RunDraw
    BY <1>3, TypeTouchAck, TypeRenderDraw, TypeRecordFailure, TypeEndTouch,
       TypeOtaScreen, TypeOtaFailed, TypeEnterPairing, TypeRecoveryClear,
       TypeClearPairing, TypePairFail
       DEF RunDraw
  <1>4. CASE RunAck
    BY <1>4, TypeUnpair, TypeAckRefresh DEF RunAck
  <1>5. CASE RunFetch
    BY <1>5, TypeFetchOk, TypeValidate DEF RunFetch
  <1>6. CASE RunUser
    BY <1>6, TypeOtaInstalled, TypeScanAgain, TypePairOk, TypePairRefused DEF RunUser
  <1>7. CASE Environment
    BY <1>7, TypeCrash, TypePowerCycle, TypeWake, TypeQueueCommand DEF Environment
  <1>8. CASE UNCHANGED vars
    BY <1>8 DEF vars, nvs, rtc, panel, locals, scale, hist, TypeOK, NvsOK, RtcOK,
       PanelOK, LocalsOK, ScaleOK, HistOK
  <1> QED
    BY <1>1, <1>2, <1>3, <1>4, <1>5, <1>6, <1>7, <1>8 DEF Next, Run

\* The initial states have their types.
LEMMA TypeInit == Init => TypeOK
  <1> SUFFICES ASSUME Init PROVE TypeOK
    OBVIOUS
  <1> USE WakeAssumption DEF Init
  <1>1. NvsOK
    <2>1. paired \in BOOLEAN /\ bond \in BOOLEAN /\ otaFlag \in BOOLEAN
      OBVIOUS
    <2>2. powerCycles \in 0..(RecoveryPowerCycles - 1)
      OBVIOUS
    <2> QED BY <2>1, <2>2 DEF NvsOK
  <1>2. retained \in RetainedType /\ st \in StateType /\ cmd \in CommandType
    BY NoRetainedType, NoStateType, NoCmdType
  <1>3. touchPhase \in 0..2
    OBVIOUS
  <1>4. ackPending \in BOOLEAN
    OBVIOUS
  <1>5. PanelOK
    BY MessageScreen DEF PanelOK, MessageKinds
  <1>6. LocalsOK
    BY <1>2 DEF LocalsOK
  <1>7. issued \in 0..MaxCmds
    OBVIOUS
  <1>8. scaleBond \in BOOLEAN /\ ackScale \in BOOLEAN
    OBVIOUS
  <1>9. HistOK
    <2>1. resets \in 0..RecoveryPowerCycles /\ missed \in 0..FailureCap
          /\ faults \in 0..MaxResets
      OBVIOUS
    <2>2. drawn \in BOOLEAN /\ check \in {"none", "ok", "failed"}
      OBVIOUS
    <2> QED BY <2>1, <2>2 DEF HistOK
  <1>10. pc \in PcValues
    BY DEF PcValues
  <1> QED
    BY <1>1, <1>2, <1>3, <1>4, <1>5, <1>6, <1>7, <1>8, <1>9, <1>10
       DEF TypeOK, RtcOK, ScaleOK

\* Every variable keeps its type in every run of app_main, through crashes,
\* power cycles and failing flash, draws and acknowledgements.
THEOREM TypeCorrect == Spec => []TypeOK
  <1>1. Init => TypeOK
    BY TypeInit
  <1>2. TypeOK /\ [Next]_vars => TypeOK'
    BY TypeStep
  <1> QED BY <1>1, <1>2, PTL DEF Spec
============================================================================
