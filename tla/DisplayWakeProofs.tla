------------------------- MODULE DisplayWakeProofs -------------------------
(***************************************************************************)
(* Safety of DisplayWake for every value of its constants.  Each property  *)
(* follows from an inductive invariant stated next to it; those that need  *)
(* a working flash or panel take ~NvsFaults or AllDrawsSucceed as a        *)
(* hypothesis.                                                             *)
(***************************************************************************)
EXTENDS DisplayWakeTypes

\* A successful acknowledgement was seen by the Scale.
LEMMA AckSeen == ASSUME NEW a \in AckOutcomes, a.ok PROVE a.seen
  BY WakeAssumption

\* A successful update reached the panel.
LEMMA DrawShown == ASSUME NEW o \in DrawOutcomes, o.ok PROVE o.shown
  BY WakeAssumption

\* initialize_retained_peer starts a new peer without failures and keeps a known one's.
LEMMA InitializedFailures ==
  ASSUME retained \in RetainedType, ~retained.valid => retained.failures = 0
  PROVE  /\ InitializeRetainedPeer.failures = retained.failures
         /\ InitializeRetainedPeer.valid
  BY DEF InitializeRetainedPeer, NoRetained, RetainedType

----------------------------------------------------------------------------
(* Deep sleep is for paired displays *)

\* Where a run is once it has found its stored peer.
CheckPcs == PcValues \ {"boot", "start", "forgetR", "clearR", "main",
                        "enterPairing", "scan", "validate", "pairFail"}

PairedInv ==
  /\ pc \in CheckPcs => paired
  /\ pc \in {"start", "forgetR", "clearR", "main"} /\ loaded => paired

\* Every step preserves PairedInv.
LEMMA PairedStep ==
  ASSUME PairedInv, [Next]_vars
  PROVE  PairedInv'
  <1> USE DEF PairedInv, CheckPcs, PcValues, GoTo, nvs, rtc, panel, locals,
     scale, hist
  <1>1. CASE RunDeterministic
    BY <1>1 DEF RunDeterministic, Main, Settle, FetchFail, RenderSkip,
       ValidateFail, AfterRender
  <1>2. CASE RunNvs
    <2>1. ASSUME NEW w \in NvsResults, DelaySleep(w) PROVE PairedInv'
      BY <2>1 DEF DelaySleep
    <2>2. ASSUME NEW w \in NvsResults, NoteReset(w) PROVE PairedInv'
      BY <2>2 DEF NoteReset
    <2>3. ASSUME NEW w \in NvsResults, RecoveryForget(w) PROVE PairedInv'
      BY <2>3 DEF RecoveryForget
    <2>4. ASSUME NEW w \in NvsResults, ForgetPeer(w) PROVE PairedInv'
      BY <2>4 DEF ForgetPeer
    <2>5. ASSUME NEW w \in NvsResults, PostRender(w) PROVE PairedInv'
      BY <2>5 DEF PostRender
    <2>6. ASSUME NEW w \in NvsResults, Sleep(w) PROVE PairedInv'
      BY <2>6 DEF Sleep
    <2>7. ASSUME NEW w \in NvsResults, OtaCheck(w) PROVE PairedInv'
      BY <2>7 DEF OtaCheck
    <2>8. ASSUME NEW w \in NvsResults, OtaClear(w) PROVE PairedInv'
      BY <2>8 DEF OtaClear
    <2>9. ASSUME NEW w \in NvsResults, NEW flagRead \in NvsResults, NEW held
       \in BOOLEAN, Boot(w, flagRead, held) PROVE PairedInv'
      BY <2>9 DEF Boot
    <2> QED BY <1>2, <2>1, <2>2, <2>3, <2>4, <2>5, <2>6, <2>7, <2>8, <2>9 DEF
       RunNvs
  <1>3. CASE RunDraw
    <2>1. ASSUME NEW o \in DrawOutcomes, TouchAck(o) PROVE PairedInv'
      BY <2>1 DEF TouchAck
    <2>2. ASSUME NEW o \in DrawOutcomes, RenderDraw(o) PROVE PairedInv'
      BY <2>2 DEF RenderDraw, RememberDisplayedState, DisplayedState,
         AfterDraw, AfterRender
    <2>3. ASSUME NEW o \in DrawOutcomes, RecordFailure(o) PROVE PairedInv'
      BY <2>3 DEF RecordFailure
    <2>4. ASSUME NEW o \in DrawOutcomes, EndTouch(o) PROVE PairedInv'
      BY <2>4 DEF EndTouch
    <2>5. ASSUME NEW o \in DrawOutcomes, OtaScreen(o) PROVE PairedInv'
      BY <2>5 DEF OtaScreen
    <2>6. ASSUME NEW o \in DrawOutcomes, OtaFailed(o) PROVE PairedInv'
      BY <2>6 DEF OtaFailed
    <2>7. ASSUME NEW o \in DrawOutcomes, EnterPairing(o) PROVE PairedInv'
      BY <2>7 DEF EnterPairing
    <2>8. ASSUME NEW w \in NvsResults, NEW o \in DrawOutcomes,
       RecoveryClear(w, o) PROVE PairedInv'
      BY <2>8 DEF RecoveryClear
    <2>9. ASSUME NEW w \in NvsResults, NEW o \in DrawOutcomes, ClearPairing(w,
       o) PROVE PairedInv'
      BY <2>9 DEF ClearPairing
    <2>10. ASSUME NEW forgot \in NvsResults, NEW w \in NvsResults, NEW o \in
       DrawOutcomes, PairFail(forgot, w, o) PROVE PairedInv'
      BY <2>10 DEF PairFail
    <2> QED BY <1>3, <2>1, <2>2, <2>3, <2>4, <2>5, <2>6, <2>7, <2>8, <2>9,
       <2>10 DEF RunDraw
  <1>4. CASE RunAck
    BY <1>4 DEF RunAck, Unpair, AckRefresh, AfterUnpairAck, AfterUnpair,
       AfterRender
  <1>5. CASE RunFetch
    BY <1>5 DEF RunFetch, FetchOk, Validate, AfterUnpair
  <1>6. CASE RunUser
    BY <1>6 DEF RunUser, OtaInstalled, ScanAgain, PairOk, PairRefused,
       Restart, RamLost
  <1>7. CASE Environment
    BY <1>7 DEF Environment, Crash, PowerCycle, Wake, QueueCommand, Restart,
       RamLost
  <1>8. CASE UNCHANGED vars
    BY <1>8 DEF vars
  <1> QED
    BY <1>1, <1>2, <1>3, <1>4, <1>5, <1>6, <1>7, <1>8 DEF Next, Run

\* SleepsOnlyPaired, whatever fails: app_main enters deep sleep only on the
\* path of a loaded peer or after pairing_save succeeded.
THEOREM SleepsOnlyPairedHolds == Spec => []SleepsOnlyPaired
  <1>1. Init => PairedInv
    BY DEF Init, PairedInv, CheckPcs
  <1>2. PairedInv /\ [Next]_vars => PairedInv'
    BY PairedStep
  <1>3. PairedInv => SleepsOnlyPaired
    BY DEF PairedInv, SleepsOnlyPaired, CheckPcs, PcValues
  <1> QED BY <1>1, <1>2, <1>3, PTL DEF Spec

----------------------------------------------------------------------------
(* Unpairing *)

\* From the fetch to the acknowledgement the Scale's command is the fetched
\* one; from the acknowledgement to the erased record the Scale's bond is gone.
UnpairInv ==
  /\ ackScale /\ cmd.kind # "none" => cmd.id # 0
  /\ pc = "unpair" /\ ackScale => cmd.kind = "unpair" /\ st.id = cmd.id
  /\ pc \in {"forget", "clear"} /\ ackScale => ~scaleBond

\* Every step preserves UnpairInv.
LEMMA UnpairStep ==
  ASSUME TypeOK, UnpairInv, [Next]_vars
  PROVE  UnpairInv'
  <1> USE DEF UnpairInv, GoTo, nvs, rtc, panel, locals, scale, hist
  <1>1. CASE RunDeterministic
    BY <1>1 DEF RunDeterministic, Main, Settle, FetchFail, RenderSkip,
       ValidateFail, ControlReadLost, CommandRead, NoCmd, AfterRender
  <1>2. CASE RunNvs
    BY <1>2 DEF RunNvs, DelaySleep, NoteReset, RecoveryForget, ForgetPeer,
       PostRender, Sleep, OtaCheck, OtaClear, Boot
  <1>3. CASE RunDraw
    <2>1. ASSUME NEW o \in DrawOutcomes, TouchAck(o) PROVE UnpairInv'
      BY <2>1 DEF TouchAck
    <2>2. ASSUME NEW o \in DrawOutcomes, RenderDraw(o) PROVE UnpairInv'
      BY <2>2 DEF RenderDraw, RememberDisplayedState, DisplayedState,
         AfterDraw, AfterRender
    <2>3. ASSUME NEW o \in DrawOutcomes, RecordFailure(o) PROVE UnpairInv'
      BY <2>3 DEF RecordFailure
    <2>4. ASSUME NEW o \in DrawOutcomes, EndTouch(o) PROVE UnpairInv'
      BY <2>4 DEF EndTouch
    <2>5. ASSUME NEW o \in DrawOutcomes, OtaScreen(o) PROVE UnpairInv'
      BY <2>5 DEF OtaScreen
    <2>6. ASSUME NEW o \in DrawOutcomes, OtaFailed(o) PROVE UnpairInv'
      BY <2>6 DEF OtaFailed
    <2>7. ASSUME NEW o \in DrawOutcomes, EnterPairing(o) PROVE UnpairInv'
      BY <2>7 DEF EnterPairing
    <2>8. ASSUME NEW w \in NvsResults, NEW o \in DrawOutcomes,
       RecoveryClear(w, o) PROVE UnpairInv'
      BY <2>8 DEF RecoveryClear
    <2>9. ASSUME NEW w \in NvsResults, NEW o \in DrawOutcomes, ClearPairing(w,
       o) PROVE UnpairInv'
      BY <2>9 DEF ClearPairing
    <2>10. ASSUME NEW forgot \in NvsResults, NEW w \in NvsResults, NEW o \in
       DrawOutcomes, PairFail(forgot, w, o) PROVE UnpairInv'
      BY <2>10 DEF PairFail
    <2> QED BY <1>3, <2>1, <2>2, <2>3, <2>4, <2>5, <2>6, <2>7, <2>8, <2>9,
       <2>10 DEF RunDraw
  <1>4. CASE RunAck
    <2>1. ASSUME NEW a \in AckOutcomes, Unpair(a) PROVE UnpairInv'
      <3>1. CASE ~ackScale
        <4>1. ackScale' = ackScale /\ pc' # "unpair"
          BY <2>1 DEF Unpair, AfterUnpairAck, AfterUnpair
        <4> QED BY <3>1, <4>1
      <3>2. CASE ackScale
        <4>1. cmd.kind = "unpair" /\ st.id = cmd.id /\ st.id # 0
          BY <2>1, <3>2 DEF Unpair
        <4>2. CASE a.seen
          <5>1. cmd' = NoCmd /\ ~scaleBond' /\ pc' # "unpair"
            BY <2>1, <4>1, <4>2 DEF Unpair, ScaleAcked, AfterUnpairAck, AfterUnpair
          <5> QED BY <5>1 DEF NoCmd
        <4>3. CASE ~a.seen
          <5>1. ~a.ok
            BY <4>3, AckSeen
          <5>2. cmd' = cmd /\ pc' \in {"settle", "render"}
            BY <2>1, <4>1, <4>3, <5>1 DEF Unpair, ScaleAcked, AfterUnpairAck, AfterUnpair
          <5>3. ackScale' = ackScale
            BY <2>1 DEF Unpair
          <5> QED BY <5>2, <5>3
        <4> QED BY <4>2, <4>3
      <3> QED BY <3>1, <3>2
    <2>2. ASSUME NEW a \in AckOutcomes, AckRefresh(a) PROVE UnpairInv'
      BY <2>2 DEF AckRefresh, AfterRender, ScaleAcked, NoCmd
    <2> QED BY <1>4, <2>1, <2>2 DEF RunAck
  <1>5. CASE RunFetch
    BY <1>5 DEF RunFetch, FetchOk, Validate, AfterUnpair, Fetched,
       CommandRead, NoCmd
  <1>6. CASE RunUser
    <2>1. ASSUME OtaInstalled PROVE UnpairInv'
      BY <2>1 DEF OtaInstalled, Restart, RamLost
    <2>2. ASSUME NEW o \in DrawOutcomes, ScanAgain(o) PROVE UnpairInv'
      BY <2>2 DEF ScanAgain
    <2>3. ASSUME NEW o \in DrawOutcomes, PairOk(o) PROVE UnpairInv'
      BY <2>3 DEF PairOk, NoCmd
    <2>4. ASSUME NEW o \in DrawOutcomes, PairRefused(o) PROVE UnpairInv'
      BY <2>4 DEF PairRefused
    <2> QED BY <1>6, <2>1, <2>2, <2>3, <2>4 DEF RunUser
  <1>7. CASE Environment
    <2>1. ASSUME Crash PROVE UnpairInv'
      BY <2>1 DEF Crash, Restart, RamLost
    <2>2. ASSUME PowerCycle PROVE UnpairInv'
      BY <2>2 DEF PowerCycle, Restart, RamLost
    <2>3. ASSUME NEW cause \in {"timer", "touch"}, Wake(cause) PROVE
       UnpairInv'
      BY <2>3 DEF Wake, Restart, RamLost
    <2>4. ASSUME NEW kind \in {"refresh", "unpair"}, QueueCommand(kind) PROVE
       UnpairInv'
      BY <2>4, WakeAssumption DEF QueueCommand, TypeOK, ScaleOK
    <2> QED BY <1>7, <2>1, <2>2, <2>3, <2>4 DEF Environment
  <1>8. CASE UNCHANGED vars
    BY <1>8 DEF vars
  <1> QED
    BY <1>1, <1>2, <1>3, <1>4, <1>5, <1>6, <1>7, <1>8 DEF Next, Run

\* UnpairInv is an invariant of the specification.
LEMMA UnpairInvHolds == Spec => [](TypeOK /\ UnpairInv)
  <1>1. Init => UnpairInv
    BY DEF Init, UnpairInv, NoCmd
  <1>2. TypeOK /\ UnpairInv /\ [Next]_vars => UnpairInv'
    BY UnpairStep
  <1> QED BY <1>1, <1>2, TypeCorrect, PTL DEF Spec

\* UnpairOnlyAfterAck: handle_unpair_request erases the pairing only after the
\* Scale completed the command, whatever crashes, draws and flash do.
THEOREM UnpairOnlyAfterAckHolds == Spec => UnpairOnlyAfterAck
  <1>1. UnpairInv /\ [Next]_vars =>
          [pc = "clear" /\ paired /\ ~paired' /\ ackScale => ~scaleBond]_vars
    BY DEF UnpairInv
  <1> QED BY <1>1, UnpairInvHolds, PTL DEF Spec, UnpairOnlyAfterAck

----------------------------------------------------------------------------
(* Acknowledging a refresh *)

\* Ids are never reused, so an acknowledgement that matches the Scale's command
\* names the command whose picture has just been drawn.
RefreshInv ==
  /\ st.id <= issued /\ cmd.id <= issued
  /\ pc = "ack" /\ ackScale /\ cmd.id = st.id /\ cmd.kind = "refresh" => drawn

\* Every step preserves RefreshInv.
LEMMA RefreshStep ==
  ASSUME TypeOK, RefreshInv, [Next]_vars
  PROVE  RefreshInv'
  <1> USE DEF RefreshInv, GoTo, nvs, rtc, panel, locals, scale, hist
  <1>a. issued \in Nat /\ st.id \in Nat /\ cmd.id \in Nat
    BY DEF TypeOK, LocalsOK, ScaleOK, StateType, CommandType
  <1> USE <1>a
  <1>1. CASE RunDeterministic
    <2>1. ASSUME Main PROVE RefreshInv'
      BY <2>1 DEF Main
    <2>2. ASSUME Settle PROVE RefreshInv'
      BY <2>2 DEF Settle
    <2>3. ASSUME FetchFail PROVE RefreshInv'
      BY <2>3 DEF FetchFail, ControlReadLost, CommandRead, NoCmd
    <2>4. ASSUME RenderSkip PROVE RefreshInv'
      BY <2>4 DEF RenderSkip, AfterRender
    <2>5. ASSUME ValidateFail PROVE RefreshInv'
      BY <2>5 DEF ValidateFail, ControlReadLost, CommandRead, NoCmd
    <2> QED BY <1>1, <2>1, <2>2, <2>3, <2>4, <2>5 DEF RunDeterministic
  <1>2. CASE RunNvs
    <2>1. ASSUME NEW w \in NvsResults, DelaySleep(w) PROVE RefreshInv'
      BY <2>1 DEF DelaySleep
    <2>2. ASSUME NEW w \in NvsResults, NoteReset(w) PROVE RefreshInv'
      BY <2>2 DEF NoteReset
    <2>3. ASSUME NEW w \in NvsResults, RecoveryForget(w) PROVE RefreshInv'
      BY <2>3 DEF RecoveryForget
    <2>4. ASSUME NEW w \in NvsResults, ForgetPeer(w) PROVE RefreshInv'
      BY <2>4 DEF ForgetPeer
    <2>5. ASSUME NEW w \in NvsResults, PostRender(w) PROVE RefreshInv'
      BY <2>5 DEF PostRender
    <2>6. ASSUME NEW w \in NvsResults, Sleep(w) PROVE RefreshInv'
      BY <2>6 DEF Sleep
    <2>7. ASSUME NEW w \in NvsResults, OtaCheck(w) PROVE RefreshInv'
      BY <2>7 DEF OtaCheck
    <2>8. ASSUME NEW w \in NvsResults, OtaClear(w) PROVE RefreshInv'
      BY <2>8 DEF OtaClear
    <2>9. ASSUME NEW w \in NvsResults, NEW flagRead \in NvsResults, NEW held
       \in BOOLEAN, Boot(w, flagRead, held) PROVE RefreshInv'
      BY <2>9 DEF Boot
    <2> QED BY <1>2, <2>1, <2>2, <2>3, <2>4, <2>5, <2>6, <2>7, <2>8, <2>9 DEF
       RunNvs
  <1>3. CASE RunDraw
    <2>1. ASSUME NEW o \in DrawOutcomes, TouchAck(o) PROVE RefreshInv'
      BY <2>1 DEF TouchAck
    <2>2. ASSUME NEW o \in DrawOutcomes, RenderDraw(o) PROVE RefreshInv'
      <3>1. st'.id = st.id /\ issued' = issued /\ cmd' = cmd
        BY <2>2 DEF RenderDraw, RememberDisplayedState, DisplayedState,
           TypeOK, LocalsOK, StateType
      <3>2. pc' = "ack" => drawn'
        BY <2>2, DrawShown DEF RenderDraw, RememberDisplayedState,
           DisplayedState, AfterDraw, AfterRender
      <3> QED BY <3>1, <3>2
    <2>3. ASSUME NEW o \in DrawOutcomes, RecordFailure(o) PROVE RefreshInv'
      BY <2>3 DEF RecordFailure
    <2>4. ASSUME NEW o \in DrawOutcomes, EndTouch(o) PROVE RefreshInv'
      BY <2>4 DEF EndTouch
    <2>5. ASSUME NEW o \in DrawOutcomes, OtaScreen(o) PROVE RefreshInv'
      BY <2>5 DEF OtaScreen
    <2>6. ASSUME NEW o \in DrawOutcomes, OtaFailed(o) PROVE RefreshInv'
      BY <2>6 DEF OtaFailed
    <2>7. ASSUME NEW o \in DrawOutcomes, EnterPairing(o) PROVE RefreshInv'
      BY <2>7 DEF EnterPairing
    <2>8. ASSUME NEW w \in NvsResults, NEW o \in DrawOutcomes,
       RecoveryClear(w, o) PROVE RefreshInv'
      BY <2>8 DEF RecoveryClear
    <2>9. ASSUME NEW w \in NvsResults, NEW o \in DrawOutcomes, ClearPairing(w,
       o) PROVE RefreshInv'
      BY <2>9 DEF ClearPairing
    <2>10. ASSUME NEW forgot \in NvsResults, NEW w \in NvsResults, NEW o \in
       DrawOutcomes, PairFail(forgot, w, o) PROVE RefreshInv'
      BY <2>10 DEF PairFail
    <2> QED BY <1>3, <2>1, <2>2, <2>3, <2>4, <2>5, <2>6, <2>7, <2>8, <2>9,
       <2>10 DEF RunDraw
  <1>4. CASE RunAck
    <2>1. ASSUME NEW a \in AckOutcomes, Unpair(a) PROVE RefreshInv'
      BY <2>1 DEF Unpair, AfterUnpairAck, AfterUnpair, ScaleAcked, NoCmd
    <2>2. ASSUME NEW a \in AckOutcomes, AckRefresh(a) PROVE RefreshInv'
      BY <2>2 DEF AckRefresh, AfterRender, ScaleAcked, NoCmd
    <2> QED BY <1>4, <2>1, <2>2 DEF RunAck
  <1>5. CASE RunFetch
    <2>1. ASSUME NEW c \in Contents, NEW stable \in BOOLEAN, NEW calibrated
       \in BOOLEAN, NEW cfg \in Configs, NEW offer \in {"none", "offered",
       "approved"}, FetchOk(c, stable, calibrated, cfg, offer) PROVE
       RefreshInv'
      BY <2>1 DEF FetchOk, AfterUnpair, Fetched, CommandRead, NoCmd
    <2>2. ASSUME NEW c \in Contents, NEW stable \in BOOLEAN, NEW calibrated
       \in BOOLEAN, NEW cfg \in Configs, NEW w \in NvsResults, NEW o \in
       DrawOutcomes, Validate(c, stable, calibrated, cfg, w, o) PROVE
       RefreshInv'
      BY <2>2 DEF Validate, Fetched, CommandRead, NoCmd
    <2> QED BY <1>5, <2>1, <2>2 DEF RunFetch
  <1>6. CASE RunUser
    <2>1. ASSUME OtaInstalled PROVE RefreshInv'
      BY <2>1 DEF OtaInstalled, Restart, RamLost, NoState
    <2>2. ASSUME NEW o \in DrawOutcomes, ScanAgain(o) PROVE RefreshInv'
      BY <2>2 DEF ScanAgain
    <2>3. ASSUME NEW o \in DrawOutcomes, PairOk(o) PROVE RefreshInv'
      BY <2>3 DEF PairOk, NoCmd
    <2>4. ASSUME NEW o \in DrawOutcomes, PairRefused(o) PROVE RefreshInv'
      BY <2>4 DEF PairRefused
    <2> QED BY <1>6, <2>1, <2>2, <2>3, <2>4 DEF RunUser
  <1>7. CASE Environment
    <2>1. ASSUME Crash PROVE RefreshInv'
      BY <2>1 DEF Crash, Restart, RamLost, NoState
    <2>2. ASSUME PowerCycle PROVE RefreshInv'
      BY <2>2 DEF PowerCycle, Restart, RamLost, NoState
    <2>3. ASSUME NEW cause \in {"timer", "touch"}, Wake(cause) PROVE
       RefreshInv'
      BY <2>3 DEF Wake, Restart, RamLost, NoState
    <2>4. ASSUME NEW kind \in {"refresh", "unpair"}, QueueCommand(kind) PROVE
       RefreshInv'
      BY <2>4, WakeAssumption DEF QueueCommand, TypeOK, ScaleOK, CommandType
    <2> QED BY <1>7, <2>1, <2>2, <2>3, <2>4 DEF Environment
  <1>8. CASE UNCHANGED vars
    BY <1>8 DEF vars
  <1> QED
    BY <1>1, <1>2, <1>3, <1>4, <1>5, <1>6, <1>7, <1>8 DEF Next, Run

\* RefreshAckedAfterDraw: the panel took the picture before the Scale's refresh
\* command is completed (render_if_needed).
THEOREM RefreshAckedAfterDrawHolds == Spec => RefreshAckedAfterDraw
  <1>1. Init => RefreshInv
    BY DEF Init, RefreshInv, NoCmd, NoState
  <1>2. TypeOK /\ RefreshInv /\ [Next]_vars => RefreshInv'
    BY RefreshStep
  <1>3. UnpairInv /\ RefreshInv /\ [Next]_vars =>
          [ackScale /\ cmd.kind = "refresh" /\ cmd'.kind = "none" /\ pc # "scan"
             => drawn]_vars
    <2> SUFFICES ASSUME UnpairInv, RefreshInv, Next, ackScale, cmd.kind = "refresh",
                        cmd'.kind = "none", pc # "scan"
                 PROVE  drawn
      OBVIOUS
    <2>1. cmd' # cmd
      BY "refresh" # "none"
    <2>2. CASE RunDeterministic
      BY <2>1, <2>2 DEF RunDeterministic, Main, Settle, FetchFail, RenderSkip,
         ValidateFail, ControlReadLost, CommandRead, nvs, rtc, panel, locals, scale, hist
    <2>3. CASE RunNvs
      BY <2>1, <2>3 DEF RunNvs, DelaySleep, NoteReset, RecoveryForget, ForgetPeer,
         PostRender, Sleep, OtaCheck, OtaClear, Boot, scale
    <2>4. CASE RunDraw
      BY <2>1, <2>4 DEF RunDraw, TouchAck, RenderDraw, RememberDisplayedState,
         DisplayedState, RecordFailure, EndTouch,
         OtaScreen, OtaFailed, EnterPairing, RecoveryClear, ClearPairing, PairFail, scale
    <2>5. CASE RunAck
      BY <2>1, <2>5 DEF RunAck, Unpair, AckRefresh, ScaleAcked, UnpairInv, RefreshInv
    <2>6. CASE RunFetch
      BY <2>1, <2>6 DEF RunFetch, FetchOk, Validate, CommandRead
    <2>7. CASE RunUser
      BY <2>1, <2>7 DEF RunUser, OtaInstalled, ScanAgain, PairOk, PairRefused, scale
    <2>8. CASE Environment
      <3>1. ASSUME NEW kind \in {"refresh", "unpair"}, QueueCommand(kind)
            PROVE  cmd'.kind # "none"
        BY <3>1 DEF QueueCommand
      <3> QED BY <2>1, <2>8, <3>1 DEF Environment, Crash, PowerCycle, Wake, scale
    <2> QED BY <2>2, <2>3, <2>4, <2>5, <2>6, <2>7, <2>8 DEF Next, Run
  <1> QED BY <1>1, <1>2, <1>3, UnpairInvHolds, PTL DEF Spec, RefreshAckedAfterDraw

----------------------------------------------------------------------------
(* Three-reset recovery *)

\* The stored counter never exceeds the hardware resets since the last deep
\* sleep, and is below it until the current reset has been counted.
RecoveryInv ==
  /\ powerCycles <= resets
  /\ pc \in {"boot", "start"} /\ wake = "power" =>
       powerCycles < resets \/ resets = RecoveryPowerCycles

\* With a working flash, every step preserves RecoveryInv.
LEMMA RecoveryStep ==
  ASSUME ~NvsFaults, TypeOK, RecoveryInv, [Next]_vars
  PROVE  RecoveryInv'
  <1> USE WakeAssumption DEF TypeOK, NvsOK, HistOK, RecoveryInv, GoTo, nvs,
     rtc, panel, locals, scale, hist
  <1>a. NvsResults = {TRUE}
    BY DEF NvsResults
  <1>1. CASE RunDeterministic
    <2>1. ASSUME Main PROVE RecoveryInv'
      BY <2>1, <1>a DEF Main
    <2>2. ASSUME Settle PROVE RecoveryInv'
      BY <2>2, <1>a DEF Settle
    <2>3. ASSUME FetchFail PROVE RecoveryInv'
      BY <2>3, <1>a DEF FetchFail
    <2>4. ASSUME RenderSkip PROVE RecoveryInv'
      BY <2>4, <1>a DEF RenderSkip, AfterRender
    <2>5. ASSUME ValidateFail PROVE RecoveryInv'
      BY <2>5, <1>a DEF ValidateFail
    <2> QED BY <1>1, <2>1, <2>2, <2>3, <2>4, <2>5 DEF RunDeterministic
  <1>2. CASE RunNvs
    <2>1. ASSUME NEW w \in NvsResults, DelaySleep(w) PROVE RecoveryInv'
      BY <2>1, <1>a DEF DelaySleep, ResetPowerCycles
    <2>2. ASSUME NEW w \in NvsResults, NoteReset(w) PROVE RecoveryInv'
      BY <2>2, <1>a DEF NoteReset
    <2>3. ASSUME NEW w \in NvsResults, RecoveryForget(w) PROVE RecoveryInv'
      BY <2>3, <1>a DEF RecoveryForget
    <2>4. ASSUME NEW w \in NvsResults, ForgetPeer(w) PROVE RecoveryInv'
      BY <2>4, <1>a DEF ForgetPeer
    <2>5. ASSUME NEW w \in NvsResults, PostRender(w) PROVE RecoveryInv'
      BY <2>5, <1>a DEF PostRender
    <2>6. ASSUME NEW w \in NvsResults, Sleep(w) PROVE RecoveryInv'
      BY <2>6, <1>a DEF Sleep, ResetPowerCycles
    <2>7. ASSUME NEW w \in NvsResults, OtaCheck(w) PROVE RecoveryInv'
      BY <2>7, <1>a DEF OtaCheck
    <2>8. ASSUME NEW w \in NvsResults, OtaClear(w) PROVE RecoveryInv'
      BY <2>8, <1>a DEF OtaClear
    <2>9. ASSUME NEW w \in NvsResults, NEW flagRead \in NvsResults, NEW held
       \in BOOLEAN, Boot(w, flagRead, held) PROVE RecoveryInv'
      BY <2>9, <1>a DEF Boot
    <2> QED BY <1>2, <2>1, <2>2, <2>3, <2>4, <2>5, <2>6, <2>7, <2>8, <2>9 DEF
       RunNvs
  <1>3. CASE RunDraw
    <2>1. ASSUME NEW o \in DrawOutcomes, TouchAck(o) PROVE RecoveryInv'
      BY <2>1, <1>a DEF TouchAck
    <2>2. ASSUME NEW o \in DrawOutcomes, RenderDraw(o) PROVE RecoveryInv'
      BY <2>2, <1>a DEF RenderDraw, RememberDisplayedState, DisplayedState,
         AfterDraw, AfterRender
    <2>3. ASSUME NEW o \in DrawOutcomes, RecordFailure(o) PROVE RecoveryInv'
      BY <2>3, <1>a DEF RecordFailure
    <2>4. ASSUME NEW o \in DrawOutcomes, EndTouch(o) PROVE RecoveryInv'
      BY <2>4, <1>a DEF EndTouch
    <2>5. ASSUME NEW o \in DrawOutcomes, OtaScreen(o) PROVE RecoveryInv'
      BY <2>5, <1>a DEF OtaScreen
    <2>6. ASSUME NEW o \in DrawOutcomes, OtaFailed(o) PROVE RecoveryInv'
      BY <2>6, <1>a DEF OtaFailed
    <2>7. ASSUME NEW o \in DrawOutcomes, EnterPairing(o) PROVE RecoveryInv'
      BY <2>7, <1>a DEF EnterPairing
    <2>8. ASSUME NEW w \in NvsResults, NEW o \in DrawOutcomes,
       RecoveryClear(w, o) PROVE RecoveryInv'
      BY <2>8, <1>a DEF RecoveryClear
    <2>9. ASSUME NEW w \in NvsResults, NEW o \in DrawOutcomes, ClearPairing(w,
       o) PROVE RecoveryInv'
      BY <2>9, <1>a DEF ClearPairing, ResetPowerCycles
    <2>10. ASSUME NEW forgot \in NvsResults, NEW w \in NvsResults, NEW o \in
       DrawOutcomes, PairFail(forgot, w, o) PROVE RecoveryInv'
      BY <2>10, <1>a DEF PairFail, ResetPowerCycles
    <2> QED BY <1>3, <2>1, <2>2, <2>3, <2>4, <2>5, <2>6, <2>7, <2>8, <2>9,
       <2>10 DEF RunDraw
  <1>4. CASE RunAck
    <2>1. ASSUME NEW a \in AckOutcomes, Unpair(a) PROVE RecoveryInv'
      BY <2>1, <1>a DEF Unpair, AfterUnpairAck, AfterUnpair
    <2>2. ASSUME NEW a \in AckOutcomes, AckRefresh(a) PROVE RecoveryInv'
      BY <2>2, <1>a DEF AckRefresh, AfterRender
    <2> QED BY <1>4, <2>1, <2>2 DEF RunAck
  <1>5. CASE RunFetch
    <2>1. ASSUME NEW c \in Contents, NEW stable \in BOOLEAN, NEW calibrated
       \in BOOLEAN, NEW cfg \in Configs, NEW offer \in {"none", "offered",
       "approved"}, FetchOk(c, stable, calibrated, cfg, offer) PROVE
       RecoveryInv'
      BY <2>1, <1>a DEF FetchOk, AfterUnpair
    <2>2. ASSUME NEW c \in Contents, NEW stable \in BOOLEAN, NEW calibrated
       \in BOOLEAN, NEW cfg \in Configs, NEW w \in NvsResults, NEW o \in
       DrawOutcomes, Validate(c, stable, calibrated, cfg, w, o) PROVE
       RecoveryInv'
      <3>1. pc' \in {"render", "pairFail"}
        BY <2>2 DEF Validate
      <3>2. powerCycles' = powerCycles /\ resets' = resets
        BY <2>2 DEF Validate
      <3> QED BY <3>1, <3>2
    <2> QED BY <1>5, <2>1, <2>2 DEF RunFetch
  <1>6. CASE RunUser
    <2>1. ASSUME OtaInstalled PROVE RecoveryInv'
      BY <2>1, <1>a DEF OtaInstalled, Restart, RamLost
    <2>2. ASSUME NEW o \in DrawOutcomes, ScanAgain(o) PROVE RecoveryInv'
      BY <2>2, <1>a DEF ScanAgain
    <2>3. ASSUME NEW o \in DrawOutcomes, PairOk(o) PROVE RecoveryInv'
      BY <2>3, <1>a DEF PairOk
    <2>4. ASSUME NEW o \in DrawOutcomes, PairRefused(o) PROVE RecoveryInv'
      BY <2>4, <1>a DEF PairRefused
    <2> QED BY <1>6, <2>1, <2>2, <2>3, <2>4 DEF RunUser
  <1>7. CASE Environment
    <2>1. ASSUME Crash PROVE RecoveryInv'
      BY <2>1, <1>a DEF Crash, Restart, RamLost
    <2>2. ASSUME PowerCycle PROVE RecoveryInv'
      BY <2>2, <1>a DEF PowerCycle, Restart, RamLost
    <2>3. ASSUME NEW cause \in {"timer", "touch"}, Wake(cause) PROVE
       RecoveryInv'
      BY <2>3, <1>a DEF Wake, Restart, RamLost
    <2>4. ASSUME NEW kind \in {"refresh", "unpair"}, QueueCommand(kind) PROVE
       RecoveryInv'
      BY <2>4, <1>a DEF QueueCommand
    <2> QED BY <1>7, <2>1, <2>2, <2>3, <2>4 DEF Environment
  <1>8. CASE UNCHANGED vars
    BY <1>8 DEF vars
  <1> QED
    BY <1>1, <1>2, <1>3, <1>4, <1>5, <1>6, <1>7, <1>8 DEF Next, Run

\* RecoveryNeedsResets, when the flash works: only RecoveryPowerCycles hardware
\* resets without a deep sleep in between erase the pairing without the button.
THEOREM RecoveryNeedsResetsHolds == ~NvsFaults => (Spec => RecoveryNeedsResets)
  <1> SUFFICES ASSUME ~NvsFaults PROVE Spec => RecoveryNeedsResets
    OBVIOUS
  <1>1. Init => RecoveryInv
    BY WakeAssumption DEF Init, RecoveryInv
  <1>2. TypeOK /\ RecoveryInv /\ [Next]_vars => RecoveryInv'
    BY RecoveryStep
  <1>3. TypeOK /\ RecoveryInv /\ [Next]_vars =>
          [pc = "start" /\ ~recover /\ recover' => resets >= RecoveryPowerCycles]_vars
    <2> SUFFICES ASSUME TypeOK, RecoveryInv, Next, pc = "start", ~recover, recover'
                 PROVE  resets >= RecoveryPowerCycles
      OBVIOUS
    <2>1. CASE \E w \in NvsResults : NoteReset(w)
      BY <2>1, WakeAssumption DEF NoteReset, RecoveryInv, TypeOK, NvsOK, HistOK
    <2>2. CASE Environment
      BY <2>2 DEF Environment, Crash, PowerCycle, Wake, QueueCommand, Restart, RamLost,
         locals
    <2>3. Environment \/ \E w \in NvsResults : NoteReset(w)
      BY DEF Next, Run, RunDeterministic, RunNvs, RunDraw, RunAck, RunFetch, RunUser,
         Main, Settle, FetchFail, RenderSkip, ValidateFail, DelaySleep, RecoveryForget,
         ForgetPeer, PostRender, Sleep, OtaCheck, OtaClear, Boot, TouchAck,
            RenderDraw, RememberDisplayedState, DisplayedState,
         RecordFailure, EndTouch, OtaScreen, OtaFailed, EnterPairing, RecoveryClear,
         ClearPairing, PairFail, Unpair, AckRefresh, FetchOk, Validate, OtaInstalled,
         ScanAgain, PairOk, PairRefused
    <2> QED BY <2>1, <2>2, <2>3
  <1> QED BY <1>1, <1>2, <1>3, TypeCorrect, PTL DEF Spec, RecoveryNeedsResets

----------------------------------------------------------------------------
(* The offline screen *)

\* The retained counter never runs ahead of the checks that failed: a zeroed
\* record starts at zero, and an unpaired display has no count to carry over.
OfflineInv ==
  /\ retained.failures <= missed
  /\ pc = "failed" => retained.failures < missed \/ missed = FailureCap
  /\ ~retained.valid => retained.failures = 0
  /\ ~paired => retained.failures = 0
  /\ pc \in {"enterPairing", "scan", "validate", "pairFail"} => ~paired
  /\ pc \in {"start", "forgetR", "clearR", "main"} /\ ~loaded => ~paired

\* With a working flash, every step preserves OfflineInv.
LEMMA OfflineStep ==
  ASSUME ~NvsFaults, TypeOK, PairedInv, OfflineInv, [Next]_vars
  PROVE  OfflineInv'
  <1> USE WakeAssumption DEF OfflineInv, PairedInv, CheckPcs, PcValues, GoTo,
     nvs, rtc, panel, locals, scale, hist
  <1>a. retained.failures \in Nat /\ missed \in 0..FailureCap
    BY DEF TypeOK, RtcOK, HistOK, RetainedType
  <1>b. NvsResults = {TRUE}
    BY DEF NvsResults
  <1> USE <1>a
  <1>1. CASE RunDeterministic
    <2>1. ASSUME Main PROVE OfflineInv'
      BY <2>1, <1>b DEF Main
    <2>2. ASSUME Settle PROVE OfflineInv'
      BY <2>2, <1>b DEF Settle
    <2>3. ASSUME FetchFail PROVE OfflineInv'
      BY <2>3, <1>b DEF FetchFail
    <2>4. ASSUME RenderSkip PROVE OfflineInv'
      BY <2>4, <1>b DEF RenderSkip, AfterRender
    <2>5. ASSUME ValidateFail PROVE OfflineInv'
      BY <2>5, <1>b DEF ValidateFail
    <2> QED BY <1>1, <2>1, <2>2, <2>3, <2>4, <2>5 DEF RunDeterministic
  <1>2. CASE RunNvs
    <2>1. ASSUME NEW w \in NvsResults, DelaySleep(w) PROVE OfflineInv'
      BY <2>1, <1>b DEF DelaySleep
    <2>2. ASSUME NEW w \in NvsResults, NoteReset(w) PROVE OfflineInv'
      BY <2>2, <1>b DEF NoteReset
    <2>3. ASSUME NEW w \in NvsResults, RecoveryForget(w) PROVE OfflineInv'
      BY <2>3, <1>b DEF RecoveryForget
    <2>4. ASSUME NEW w \in NvsResults, ForgetPeer(w) PROVE OfflineInv'
      BY <2>4, <1>b DEF ForgetPeer
    <2>5. ASSUME NEW w \in NvsResults, PostRender(w) PROVE OfflineInv'
      BY <2>5, <1>b DEF PostRender
    <2>6. ASSUME NEW w \in NvsResults, Sleep(w) PROVE OfflineInv'
      BY <2>6, <1>b DEF Sleep
    <2>7. ASSUME NEW w \in NvsResults, OtaCheck(w) PROVE OfflineInv'
      BY <2>7, <1>b DEF OtaCheck
    <2>8. ASSUME NEW w \in NvsResults, OtaClear(w) PROVE OfflineInv'
      BY <2>8, <1>b DEF OtaClear
    <2>9. ASSUME NEW w \in NvsResults, NEW flagRead \in NvsResults, NEW held
       \in BOOLEAN, Boot(w, flagRead, held) PROVE OfflineInv'
      BY <2>9, <1>b DEF Boot
    <2> QED BY <1>2, <2>1, <2>2, <2>3, <2>4, <2>5, <2>6, <2>7, <2>8, <2>9 DEF
       RunNvs
  <1>3. CASE RunDraw
    <2>1. ASSUME NEW o \in DrawOutcomes, TouchAck(o) PROVE OfflineInv'
      BY <2>1, <1>b DEF TouchAck
    <2>2. ASSUME NEW o \in DrawOutcomes, RenderDraw(o) PROVE OfflineInv'
      BY <2>2, <1>b DEF RenderDraw, RememberDisplayedState, DisplayedState,
         AfterDraw, AfterRender
    <2>3. ASSUME NEW o \in DrawOutcomes, RecordFailure(o) PROVE OfflineInv'
      <3> DEFINE base == InitializeRetainedPeer
                 n    == CountFailure(base.failures)
      <3>1. base.failures = retained.failures /\ base.valid
        BY InitializedFailures DEF TypeOK, RtcOK
      <3>2. n \in Nat /\ n <= missed
        BY <2>3, <3>1 DEF RecordFailure, CountFailure
      <3>3. retained'.failures = n /\ retained'.valid
        <4>1. base \in RetainedType
          BY InitializedType DEF TypeOK, RtcOK
        <4> QED BY <2>3, <3>1, <4>1 DEF RecordFailure, RetainedType
      <3>4. pc' \in {"unbadge", "sleep"} /\ paired' = paired /\ paired /\ missed' = missed
        BY <2>3 DEF RecordFailure
      <3> QED BY <3>2, <3>3, <3>4
    <2>4. ASSUME NEW o \in DrawOutcomes, EndTouch(o) PROVE OfflineInv'
      BY <2>4, <1>b DEF EndTouch
    <2>5. ASSUME NEW o \in DrawOutcomes, OtaScreen(o) PROVE OfflineInv'
      BY <2>5, <1>b DEF OtaScreen
    <2>6. ASSUME NEW o \in DrawOutcomes, OtaFailed(o) PROVE OfflineInv'
      BY <2>6, <1>b DEF OtaFailed
    <2>7. ASSUME NEW o \in DrawOutcomes, EnterPairing(o) PROVE OfflineInv'
      BY <2>7, <1>b DEF EnterPairing
    <2>8. ASSUME NEW w \in NvsResults, NEW o \in DrawOutcomes,
       RecoveryClear(w, o) PROVE OfflineInv'
      BY <2>8, <1>b DEF RecoveryClear, NoRetained
    <2>9. ASSUME NEW w \in NvsResults, NEW o \in DrawOutcomes, ClearPairing(w,
       o) PROVE OfflineInv'
      BY <2>9, <1>b DEF ClearPairing, NoRetained
    <2>10. ASSUME NEW forgot \in NvsResults, NEW w \in NvsResults, NEW o \in
       DrawOutcomes, PairFail(forgot, w, o) PROVE OfflineInv'
      BY <2>10, <1>b DEF PairFail
    <2> QED BY <1>3, <2>1, <2>2, <2>3, <2>4, <2>5, <2>6, <2>7, <2>8, <2>9,
       <2>10 DEF RunDraw
  <1>4. CASE RunAck
    <2>1. ASSUME NEW a \in AckOutcomes, Unpair(a) PROVE OfflineInv'
      BY <2>1, <1>b DEF Unpair, AfterUnpairAck, AfterUnpair
    <2>2. ASSUME NEW a \in AckOutcomes, AckRefresh(a) PROVE OfflineInv'
      BY <2>2, <1>b DEF AckRefresh, AfterRender
    <2> QED BY <1>4, <2>1, <2>2 DEF RunAck
  <1>5. CASE RunFetch
    <2>1. ASSUME NEW c \in Contents, NEW stable \in BOOLEAN, NEW calibrated
       \in BOOLEAN, NEW cfg \in Configs, NEW offer \in {"none", "offered",
       "approved"}, FetchOk(c, stable, calibrated, cfg, offer) PROVE
       OfflineInv'
      BY <2>1, <1>b DEF FetchOk, AfterUnpair, RememberRuntimeSettings
    <2>2. ASSUME NEW c \in Contents, NEW stable \in BOOLEAN, NEW calibrated
       \in BOOLEAN, NEW cfg \in Configs, NEW w \in NvsResults, NEW o \in
       DrawOutcomes, Validate(c, stable, calibrated, cfg, w, o) PROVE
       OfflineInv'
      <3>1. w
        BY <1>b
      <3>2. pc' = "render" /\ paired' /\ missed' = 0
        BY <2>2, <3>1 DEF Validate
      <3>3. retained' = retained
        BY <2>2 DEF Validate
      <3>4. retained.failures = 0
        BY <2>2 DEF Validate
      <3> QED BY <3>2, <3>3, <3>4
    <2> QED BY <1>5, <2>1, <2>2 DEF RunFetch
  <1>6. CASE RunUser
    <2>1. ASSUME OtaInstalled PROVE OfflineInv'
      BY <2>1, <1>b DEF OtaInstalled, Restart, RamLost, RtcLost, NoRetained
    <2>2. ASSUME NEW o \in DrawOutcomes, ScanAgain(o) PROVE OfflineInv'
      BY <2>2, <1>b DEF ScanAgain
    <2>3. ASSUME NEW o \in DrawOutcomes, PairOk(o) PROVE OfflineInv'
      BY <2>3, <1>b DEF PairOk
    <2>4. ASSUME NEW o \in DrawOutcomes, PairRefused(o) PROVE OfflineInv'
      BY <2>4, <1>b DEF PairRefused
    <2> QED BY <1>6, <2>1, <2>2, <2>3, <2>4 DEF RunUser
  <1>7. CASE Environment
    <2>1. ASSUME Crash PROVE OfflineInv'
      BY <2>1, <1>b DEF Crash, Restart, RamLost, RtcLost, NoRetained
    <2>2. ASSUME PowerCycle PROVE OfflineInv'
      BY <2>2, <1>b DEF PowerCycle, Restart, RamLost, RtcLost, NoRetained
    <2>3. ASSUME NEW cause \in {"timer", "touch"}, Wake(cause) PROVE
       OfflineInv'
      BY <2>3, <1>b DEF Wake, Restart, RamLost
    <2>4. ASSUME NEW kind \in {"refresh", "unpair"}, QueueCommand(kind) PROVE
       OfflineInv'
      BY <2>4, <1>b DEF QueueCommand
    <2> QED BY <1>7, <2>1, <2>2, <2>3, <2>4 DEF Environment
  <1>8. CASE UNCHANGED vars
    BY <1>8 DEF vars
  <1> QED
    BY <1>1, <1>2, <1>3, <1>4, <1>5, <1>6, <1>7, <1>8 DEF Next, Run

\* A draw of another picture does not bring up the offline screen.
LEMMA DrawsNotOffline ==
  ASSUME NEW p, NEW o, Draw(p, o), p # Message("offline"), screen # Message("offline")
  PROVE  screen' # Message("offline")
  BY DEF Draw

\* No other picture is the offline screen.
LEMMA OtherPictures ==
  /\ \A c : Keg(c) # Message("offline")
  /\ \A k \in MessageKinds \ {"offline"} : Message(k) # Message("offline")
  BY DEF Keg, Message, MessageKinds

\* OfflineOnlyAfterRealMisses, when the flash works: SCALE OFFLINE is drawn
\* only after more than OfflineThreshold checks failed in a row.
THEOREM OfflineOnlyAfterRealMissesHolds ==
  ~NvsFaults => (Spec => OfflineOnlyAfterRealMisses)
  <1> SUFFICES ASSUME ~NvsFaults PROVE Spec => OfflineOnlyAfterRealMisses
    OBVIOUS
  <1>1. Init => PairedInv /\ OfflineInv
    BY DEF Init, PairedInv, CheckPcs, OfflineInv, NoRetained
  <1>2. TypeOK /\ PairedInv /\ OfflineInv /\ [Next]_vars => PairedInv' /\ OfflineInv'
    BY PairedStep, OfflineStep
  <1>3. TypeOK /\ OfflineInv /\ [Next]_vars =>
          [screen' = Message("offline") /\ screen # Message("offline")
             => missed > OfflineThreshold]_vars
    <2> SUFFICES ASSUME TypeOK, OfflineInv, Next, screen' = Message("offline"),
                        screen # Message("offline")
                 PROVE  missed > OfflineThreshold
      OBVIOUS
    <2>1. ASSUME NEW o \in DrawOutcomes, RecordFailure(o)
          PROVE  missed > OfflineThreshold
      <3>1. retained \in RetainedType /\ missed \in 0..FailureCap
        BY DEF TypeOK, RtcOK, HistOK
      <3>2. InitializeRetainedPeer.failures = retained.failures
        BY <3>1, InitializedFailures DEF OfflineInv
      <3>3. retained.failures \in Nat /\ retained.failures <= missed
            /\ (retained.failures < missed \/ missed = FailureCap)
        BY <2>1, <3>1 DEF RecordFailure, OfflineInv, RetainedType
      <3>4. CountFailure(retained.failures) > OfflineThreshold
        BY <2>1, <3>2 DEF RecordFailure, panel
      <3> QED BY <3>1, <3>3, <3>4, WakeAssumption DEF CountFailure
    <2>2. CASE \E o \in DrawOutcomes : RecordFailure(o)
      BY <2>1, <2>2
    <2>3. CASE RunDeterministic \/ RunNvs \/ RunAck
      BY <2>3 DEF RunDeterministic, RunNvs, RunAck, Main, Settle, FetchFail, RenderSkip,
         ValidateFail, DelaySleep, NoteReset, RecoveryForget, ForgetPeer, PostRender,
         Sleep, OtaCheck, OtaClear, Boot, Unpair, AckRefresh, panel
    <2>4. CASE RunDraw
      <3> SUFFICES ASSUME NEW o \in DrawOutcomes,
                     \/ TouchAck(o) \/ RenderDraw(o) \/ EndTouch(o)
                     \/ OtaScreen(o) \/ OtaFailed(o) \/ EnterPairing(o)
                     \/ \E w \in NvsResults :
                          \/ RecoveryClear(w, o) \/ ClearPairing(w, o)
                          \/ \E forgot \in NvsResults : PairFail(forgot, w, o)
                   PROVE  FALSE
        BY <2>2, <2>4 DEF RunDraw
      <3> QED BY OtherPictures, DrawsNotOffline
              DEF TouchAck, RenderDraw, RememberDisplayedState,
                 DisplayedState, EndTouch, OtaScreen, OtaFailed, EnterPairing,
                  RecoveryClear, ClearPairing, PairFail, panel, MessageKinds
    <2>5. CASE RunFetch
      BY <2>5, OtherPictures, DrawsNotOffline
         DEF RunFetch, FetchOk, Validate, panel, MessageKinds
    <2>6. CASE RunUser
      BY <2>6, OtherPictures, DrawsNotOffline
         DEF RunUser, OtaInstalled, ScanAgain, PairOk, PairRefused, panel, MessageKinds
    <2>7. CASE Environment
      BY <2>7 DEF Environment, Crash, PowerCycle, Wake, QueueCommand, panel
    <2> QED BY <2>3, <2>4, <2>5, <2>6, <2>7 DEF Next, Run
  <1> QED
    BY <1>1, <1>2, <1>3, TypeCorrect, PTL DEF Spec, OfflineOnlyAfterRealMisses

----------------------------------------------------------------------------
(* The timer of the next check *)

\* With a working flash a display without a loaded peer has nothing retained.
NewPeerInv ==
  /\ ~retained.valid => retained.failures = 0
  /\ pc = "boot" => paired \/ ~retained.valid
  /\ pc \in {"start", "forgetR", "clearR", "main"} /\ ~loaded => ~retained.valid
  /\ pc \in {"enterPairing", "scan", "validate", "pairFail"} => ~retained.valid

\* The retained failures agree with the outcome of the check of this run.
TimerInv ==
  /\ pc = "failed" => check = "failed"
  /\ check = "ok" => retained.failures = 0
  /\ check = "failed" =>
       /\ pc \in {"failed", "unbadge", "sleep", "asleep"}
       /\ pc # "failed" => retained.failures # 0
  /\ TimerFollowsLatestCheck

\* With a working flash, every step preserves NewPeerInv.
LEMMA NewPeerStep ==
  ASSUME ~NvsFaults, TypeOK, PairedInv, NewPeerInv, [Next]_vars
  PROVE  NewPeerInv'
  <1> USE WakeAssumption DEF NewPeerInv, PairedInv, CheckPcs, PcValues, GoTo,
     nvs, rtc, panel, locals, scale, hist
  <1>b. NvsResults = {TRUE}
    BY DEF NvsResults
  <1>1. CASE RunDeterministic
    <2>1. ASSUME Main PROVE NewPeerInv'
      BY <2>1 DEF Main
    <2>2. ASSUME Settle PROVE NewPeerInv'
      BY <2>2 DEF Settle
    <2>3. ASSUME FetchFail PROVE NewPeerInv'
      BY <2>3 DEF FetchFail
    <2>4. ASSUME RenderSkip PROVE NewPeerInv'
      BY <2>4 DEF RenderSkip, AfterRender
    <2>5. ASSUME ValidateFail PROVE NewPeerInv'
      BY <2>5 DEF ValidateFail
    <2> QED BY <1>1, <2>1, <2>2, <2>3, <2>4, <2>5 DEF RunDeterministic
  <1>2. CASE RunNvs
    <2>1. ASSUME NEW w \in NvsResults, DelaySleep(w) PROVE NewPeerInv'
      BY <2>1, <1>b DEF DelaySleep
    <2>2. ASSUME NEW w \in NvsResults, NoteReset(w) PROVE NewPeerInv'
      BY <2>2, <1>b DEF NoteReset
    <2>3. ASSUME NEW w \in NvsResults, RecoveryForget(w) PROVE NewPeerInv'
      BY <2>3, <1>b DEF RecoveryForget
    <2>4. ASSUME NEW w \in NvsResults, ForgetPeer(w) PROVE NewPeerInv'
      BY <2>4, <1>b DEF ForgetPeer
    <2>5. ASSUME NEW w \in NvsResults, PostRender(w) PROVE NewPeerInv'
      BY <2>5, <1>b DEF PostRender
    <2>6. ASSUME NEW w \in NvsResults, Sleep(w) PROVE NewPeerInv'
      BY <2>6, <1>b DEF Sleep
    <2>7. ASSUME NEW w \in NvsResults, OtaCheck(w) PROVE NewPeerInv'
      BY <2>7, <1>b DEF OtaCheck
    <2>8. ASSUME NEW w \in NvsResults, OtaClear(w) PROVE NewPeerInv'
      BY <2>8, <1>b DEF OtaClear
    <2>9. ASSUME NEW w \in NvsResults, NEW flagRead \in NvsResults, NEW held \in
       BOOLEAN, Boot(w, flagRead, held) PROVE NewPeerInv'
      BY <2>9, <1>b DEF Boot
    <2> QED BY <1>2, <2>1, <2>2, <2>3, <2>4, <2>5, <2>6, <2>7, <2>8, <2>9 DEF
       RunNvs
  <1>3. CASE RunDraw
    <2>1. ASSUME NEW o \in DrawOutcomes, TouchAck(o) PROVE NewPeerInv'
      BY <2>1 DEF TouchAck
    <2>2. ASSUME NEW o \in DrawOutcomes, RenderDraw(o) PROVE NewPeerInv'
      BY <2>2 DEF RenderDraw, RememberDisplayedState, DisplayedState,
         AfterDraw, AfterRender, Draw
    <2>3. ASSUME NEW o \in DrawOutcomes, RecordFailure(o) PROVE NewPeerInv'
      <3>1. InitializeRetainedPeer.valid
        BY InitializedFailures DEF TypeOK, RtcOK
      <3>2. InitializeRetainedPeer \in RetainedType
        BY InitializedType DEF TypeOK, RtcOK
      <3>3. retained'.valid
        BY <2>3, <3>1, <3>2 DEF RecordFailure, RetainedType
      <3>4. pc' \in {"unbadge", "sleep"}
        BY <2>3 DEF RecordFailure
      <3> QED BY <3>3, <3>4
    <2>4. ASSUME NEW o \in DrawOutcomes, EndTouch(o) PROVE NewPeerInv'
      BY <2>4 DEF EndTouch
    <2>5. ASSUME NEW o \in DrawOutcomes, OtaScreen(o) PROVE NewPeerInv'
      BY <2>5 DEF OtaScreen
    <2>6. ASSUME NEW o \in DrawOutcomes, OtaFailed(o) PROVE NewPeerInv'
      BY <2>6 DEF OtaFailed
    <2>7. ASSUME NEW o \in DrawOutcomes, EnterPairing(o) PROVE NewPeerInv'
      BY <2>7 DEF EnterPairing
    <2>8. ASSUME NEW w \in NvsResults, NEW o \in DrawOutcomes, RecoveryClear(w, o)
       PROVE NewPeerInv'
      BY <2>8, <1>b DEF RecoveryClear, NoRetained
    <2>9. ASSUME NEW w \in NvsResults, NEW o \in DrawOutcomes, ClearPairing(w, o)
       PROVE NewPeerInv'
      BY <2>9, <1>b DEF ClearPairing, NoRetained
    <2>10. ASSUME NEW forgot \in NvsResults, NEW w \in NvsResults, NEW o \in
       DrawOutcomes, PairFail(forgot, w, o) PROVE NewPeerInv'
      BY <2>10, <1>b DEF PairFail
    <2> QED BY <1>3, <2>1, <2>2, <2>3, <2>4, <2>5, <2>6, <2>7, <2>8, <2>9,
       <2>10 DEF RunDraw
  <1>4. CASE RunAck
    <2>1. ASSUME NEW a \in AckOutcomes, Unpair(a) PROVE NewPeerInv'
      BY <2>1 DEF Unpair, AfterUnpairAck, AfterUnpair
    <2>2. ASSUME NEW a \in AckOutcomes, AckRefresh(a) PROVE NewPeerInv'
      BY <2>2 DEF AckRefresh, AfterRender
    <2> QED BY <1>4, <2>1, <2>2 DEF RunAck
  <1>5. CASE RunFetch
    <2>1. ASSUME NEW c \in Contents, NEW stable \in BOOLEAN, NEW calibrated \in
       BOOLEAN, NEW cfg \in Configs, NEW offer \in {"none", "offered",
       "approved"}, FetchOk(c, stable, calibrated, cfg, offer) PROVE NewPeerInv'
      BY <2>1 DEF FetchOk, AfterUnpair, RememberRuntimeSettings
    <2>2. ASSUME NEW c \in Contents, NEW stable \in BOOLEAN, NEW calibrated \in
       BOOLEAN, NEW cfg \in Configs, NEW w \in NvsResults, NEW o \in DrawOutcomes,
       Validate(c, stable, calibrated, cfg, w, o) PROVE NewPeerInv'
      BY <2>2, <1>b DEF Validate
    <2> QED BY <1>5, <2>1, <2>2 DEF RunFetch
  <1>6. CASE RunUser
    <2>1. ASSUME OtaInstalled PROVE NewPeerInv'
      BY <2>1 DEF OtaInstalled, Restart, RamLost, RtcLost, NoRetained
    <2>2. ASSUME NEW o \in DrawOutcomes, ScanAgain(o) PROVE NewPeerInv'
      BY <2>2 DEF ScanAgain
    <2>3. ASSUME NEW o \in DrawOutcomes, PairOk(o) PROVE NewPeerInv'
      BY <2>3 DEF PairOk
    <2>4. ASSUME NEW o \in DrawOutcomes, PairRefused(o) PROVE NewPeerInv'
      BY <2>4 DEF PairRefused
    <2> QED BY <1>6, <2>1, <2>2, <2>3, <2>4 DEF RunUser
  <1>7. CASE Environment
    <2>1. ASSUME Crash PROVE NewPeerInv'
      BY <2>1 DEF Crash, Restart, RamLost, RtcLost, NoRetained
    <2>2. ASSUME PowerCycle PROVE NewPeerInv'
      BY <2>2 DEF PowerCycle, Restart, RamLost, RtcLost, NoRetained
    <2>3. ASSUME NEW cause \in {"timer", "touch"}, Wake(cause) PROVE NewPeerInv'
      BY <2>3 DEF Wake, Restart, RamLost
    <2>4. ASSUME NEW kind \in {"refresh", "unpair"}, QueueCommand(kind) PROVE
       NewPeerInv'
      BY <2>4 DEF QueueCommand
    <2> QED BY <1>7, <2>1, <2>2, <2>3, <2>4 DEF Environment
  <1>8. CASE UNCHANGED vars
    BY <1>8 DEF vars
  <1> QED
    BY <1>1, <1>2, <1>3, <1>4, <1>5, <1>6, <1>7, <1>8 DEF Next, Run

\* With a working flash, every step preserves TimerInv.
LEMMA TimerStep ==
  ASSUME ~NvsFaults, TypeOK, PairedInv, NewPeerInv, TimerInv, [Next]_vars
  PROVE  TimerInv'
  <1> USE WakeAssumption DEF TimerInv, GoTo, nvs, rtc, panel, locals, scale,
     hist
  <1>a. retained.failures \in Nat
    BY DEF TypeOK, RtcOK, RetainedType
  <1>b. NvsResults = {TRUE}
    BY DEF NvsResults
  <1> USE DEF Resting, TimerFollowsLatestCheck
  <1>1. CASE RunDeterministic
    <2>1. ASSUME Main PROVE TimerInv'
      BY <2>1 DEF Main
    <2>2. ASSUME Settle PROVE TimerInv'
      BY <2>2 DEF Settle
    <2>3. ASSUME FetchFail PROVE TimerInv'
      BY <2>3 DEF FetchFail
    <2>4. ASSUME RenderSkip PROVE TimerInv'
      BY <2>4 DEF RenderSkip, AfterRender
    <2>5. ASSUME ValidateFail PROVE TimerInv'
      BY <2>5 DEF ValidateFail
    <2> QED BY <1>1, <2>1, <2>2, <2>3, <2>4, <2>5 DEF RunDeterministic
  <1>2. CASE RunNvs
    <2>1. ASSUME NEW w \in NvsResults, DelaySleep(w) PROVE TimerInv'
      BY <2>1, <1>b DEF DelaySleep
    <2>2. ASSUME NEW w \in NvsResults, NoteReset(w) PROVE TimerInv'
      BY <2>2, <1>b DEF NoteReset
    <2>3. ASSUME NEW w \in NvsResults, RecoveryForget(w) PROVE TimerInv'
      BY <2>3, <1>b DEF RecoveryForget
    <2>4. ASSUME NEW w \in NvsResults, ForgetPeer(w) PROVE TimerInv'
      BY <2>4, <1>b DEF ForgetPeer
    <2>5. ASSUME NEW w \in NvsResults, PostRender(w) PROVE TimerInv'
      BY <2>5, <1>b DEF PostRender
    <2>6. ASSUME NEW w \in NvsResults, Sleep(w) PROVE TimerInv'
      <3>1. nextCheck' = NextCheckSeconds(periodic, retained.failures)
        BY <2>6 DEF Sleep
      <3>2. retained.failures = 0
              => nextCheck' = IF periodic THEN "frequent" ELSE "safety"
        BY <3>1 DEF NextCheckSeconds
      <3>3. retained.failures # 0 => nextCheck' # "frequent"
        BY <1>a, <3>1 DEF NextCheckSeconds
      <3> QED BY <2>6, <3>2, <3>3 DEF Sleep
    <2>7. ASSUME NEW w \in NvsResults, OtaCheck(w) PROVE TimerInv'
      BY <2>7, <1>b DEF OtaCheck
    <2>8. ASSUME NEW w \in NvsResults, OtaClear(w) PROVE TimerInv'
      BY <2>8, <1>b DEF OtaClear
    <2>9. ASSUME NEW w \in NvsResults, NEW flagRead \in NvsResults, NEW held \in
       BOOLEAN, Boot(w, flagRead, held) PROVE TimerInv'
      BY <2>9, <1>b DEF Boot
    <2> QED BY <1>2, <2>1, <2>2, <2>3, <2>4, <2>5, <2>6, <2>7, <2>8, <2>9 DEF
       RunNvs
  <1>3. CASE RunDraw
    <2>1. ASSUME NEW o \in DrawOutcomes, TouchAck(o) PROVE TimerInv'
      BY <2>1 DEF TouchAck
    <2>2. ASSUME NEW o \in DrawOutcomes, RenderDraw(o) PROVE TimerInv'
      BY <2>2 DEF RenderDraw, RememberDisplayedState, DisplayedState,
         AfterDraw, AfterRender, Draw
    <2>3. ASSUME NEW o \in DrawOutcomes, RecordFailure(o) PROVE TimerInv'
      <3>1. InitializeRetainedPeer \in RetainedType
        BY InitializedType DEF TypeOK, RtcOK
      <3>2. CountFailure(InitializeRetainedPeer.failures) # 0
        BY <3>1 DEF CountFailure, RetainedType
      <3>3. retained'.failures # 0
        BY <2>3, <3>1, <3>2 DEF RecordFailure, RetainedType
      <3>4. pc' \in {"unbadge", "sleep"} /\ check' = "failed"
        BY <2>3 DEF RecordFailure
      <3> QED BY <3>3, <3>4
    <2>4. ASSUME NEW o \in DrawOutcomes, EndTouch(o) PROVE TimerInv'
      BY <2>4 DEF EndTouch
    <2>5. ASSUME NEW o \in DrawOutcomes, OtaScreen(o) PROVE TimerInv'
      BY <2>5 DEF OtaScreen
    <2>6. ASSUME NEW o \in DrawOutcomes, OtaFailed(o) PROVE TimerInv'
      BY <2>6 DEF OtaFailed
    <2>7. ASSUME NEW o \in DrawOutcomes, EnterPairing(o) PROVE TimerInv'
      BY <2>7 DEF EnterPairing
    <2>8. ASSUME NEW w \in NvsResults, NEW o \in DrawOutcomes, RecoveryClear(w, o)
       PROVE TimerInv'
      BY <2>8, <1>b DEF RecoveryClear, NoRetained
    <2>9. ASSUME NEW w \in NvsResults, NEW o \in DrawOutcomes, ClearPairing(w, o)
       PROVE TimerInv'
      BY <2>9, <1>b DEF ClearPairing, NoRetained
    <2>10. ASSUME NEW forgot \in NvsResults, NEW w \in NvsResults, NEW o \in
       DrawOutcomes, PairFail(forgot, w, o) PROVE TimerInv'
      BY <2>10, <1>b DEF PairFail
    <2> QED BY <1>3, <2>1, <2>2, <2>3, <2>4, <2>5, <2>6, <2>7, <2>8, <2>9,
       <2>10 DEF RunDraw
  <1>4. CASE RunAck
    <2>1. ASSUME NEW a \in AckOutcomes, Unpair(a) PROVE TimerInv'
      BY <2>1 DEF Unpair, AfterUnpairAck, AfterUnpair
    <2>2. ASSUME NEW a \in AckOutcomes, AckRefresh(a) PROVE TimerInv'
      BY <2>2 DEF AckRefresh, AfterRender
    <2> QED BY <1>4, <2>1, <2>2 DEF RunAck
  <1>5. CASE RunFetch
    <2>1. ASSUME NEW c \in Contents, NEW stable \in BOOLEAN, NEW calibrated \in
       BOOLEAN, NEW cfg \in Configs, NEW offer \in {"none", "offered",
       "approved"}, FetchOk(c, stable, calibrated, cfg, offer) PROVE TimerInv'
      BY <2>1 DEF FetchOk, AfterUnpair, RememberRuntimeSettings, NewPeerInv, TypeOK,
         RtcOK, RetainedType
    <2>2. ASSUME NEW c \in Contents, NEW stable \in BOOLEAN, NEW calibrated \in
       BOOLEAN, NEW cfg \in Configs, NEW w \in NvsResults, NEW o \in DrawOutcomes,
       Validate(c, stable, calibrated, cfg, w, o) PROVE TimerInv'
      BY <2>2, <1>b DEF Validate, NewPeerInv
    <2> QED BY <1>5, <2>1, <2>2 DEF RunFetch
  <1>6. CASE RunUser
    <2>1. ASSUME OtaInstalled PROVE TimerInv'
      BY <2>1 DEF OtaInstalled, Restart, RamLost, RtcLost, NoRetained
    <2>2. ASSUME NEW o \in DrawOutcomes, ScanAgain(o) PROVE TimerInv'
      BY <2>2 DEF ScanAgain
    <2>3. ASSUME NEW o \in DrawOutcomes, PairOk(o) PROVE TimerInv'
      BY <2>3 DEF PairOk
    <2>4. ASSUME NEW o \in DrawOutcomes, PairRefused(o) PROVE TimerInv'
      BY <2>4 DEF PairRefused
    <2> QED BY <1>6, <2>1, <2>2, <2>3, <2>4 DEF RunUser
  <1>7. CASE Environment
    <2>1. ASSUME Crash PROVE TimerInv'
      BY <2>1 DEF Crash, Restart, RamLost, RtcLost, NoRetained
    <2>2. ASSUME PowerCycle PROVE TimerInv'
      BY <2>2 DEF PowerCycle, Restart, RamLost, RtcLost, NoRetained
    <2>3. ASSUME NEW cause \in {"timer", "touch"}, Wake(cause) PROVE TimerInv'
      BY <2>3 DEF Wake, Restart, RamLost
    <2>4. ASSUME NEW kind \in {"refresh", "unpair"}, QueueCommand(kind) PROVE
       TimerInv'
      BY <2>4 DEF QueueCommand
    <2> QED BY <1>7, <2>1, <2>2, <2>3, <2>4 DEF Environment
  <1>8. CASE UNCHANGED vars
    BY <1>8 DEF vars
  <1> QED
    BY <1>1, <1>2, <1>3, <1>4, <1>5, <1>6, <1>7, <1>8 DEF Next, Run

\* Both hold of a display that is powered for the first time.
LEMMA TimerInit == Init => NewPeerInv /\ TimerInv
  BY DEF Init, NewPeerInv, TimerInv, TimerFollowsLatestCheck, Resting, NoRetained

\* TimerFollowsLatestCheck, when the flash works: at rest the interval is the one
\* of the latest check's outcome, for any readings, draws, commands and resets.
THEOREM TimerFollowsLatestCheckHolds ==
  ~NvsFaults => (Spec => []TimerFollowsLatestCheck)
  <1> SUFFICES ASSUME ~NvsFaults PROVE Spec => []TimerFollowsLatestCheck
    OBVIOUS
  <1>1. Init => PairedInv
    BY DEF Init, PairedInv, CheckPcs
  <1>2. TypeOK /\ PairedInv /\ NewPeerInv /\ TimerInv /\ [Next]_vars
          => PairedInv' /\ NewPeerInv' /\ TimerInv'
    BY PairedStep, NewPeerStep, TimerStep
  <1>3. TimerInv => TimerFollowsLatestCheck
    BY DEF TimerInv
  <1> QED BY <1>1, <1>2, <1>3, TimerInit, TypeCorrect, PTL DEF Spec

----------------------------------------------------------------------------
(* The picture on the panel *)

\* From the announcement of an update to the restored picture s_retained is wrong.
Updating == pc \in {"otaInstall", "otaClear"} \/ (pc = "render" /\ ctx = "restore")

\* A touch sequence is under way and will remove its acknowledgement.
Touching ==
  /\ ackPending /\ touchPhase # 0
  /\ \/ pc = "asleep" /\ armed = "delay"
     \/ pc = "boot" /\ wake = "timer"
     \/ pc = "delay"
     \/ /\ ctx = "touch" /\ ackVisible
        /\ pc \notin {"asleep", "boot", "badge", "ack", "ota", "otaScreen",
                      "otaInstall", "otaClear", "sleep"}
        /\ pc \in {"post", "unbadge"} => ~refreshed

\* A restart during a touch sequence leaves the acknowledgement to the next draw:
\* until then nothing is retained of any picture.
BadgeInv ==
  badge => \/ Touching
           \/ ~retained.valid
           \/ ~retained.offline /\ retained.content = Never

\* The run is past its rendering.
Rendered == pc \in {"ack", "post", "unbadge", "ota", "sleep"} \/ Resting

\* What is retained is on the panel; the reading of a successful check is retained
\* once the run has rendered it.
PictureInv ==
  /\ retained.valid /\ ~Updating =>
       /\ retained.offline => screen = Message("offline")
       /\ ~retained.offline /\ retained.content # Never => screen = Keg(retained.content)
  /\ ctx = "restore" => st.force /\ pc \in {"render", "ack", "sleep", "asleep"}
  /\ check = "ok" => st.content # Never
  /\ check = "ok" /\ st.stable /\ Rendered
       => retained.valid /\ ~retained.offline /\ retained.content = st.content

\* Every draw succeeds.
AllDrawsSucceed == \A o \in DrawOutcomes : o.ok

\* With a working flash and panel, every step preserves BadgeInv.
LEMMA BadgeStep ==
  ASSUME ~NvsFaults, TypeOK, PairedInv, AllDrawsSucceed, BadgeInv, [Next]_vars
  PROVE  BadgeInv'
  <1> USE WakeAssumption DEF BadgeInv, Touching, GoTo, nvs, rtc, panel, locals, scale,
     hist
  <1>b. NvsResults = {TRUE}
    BY DEF NvsResults
  <1>c. \A o \in DrawOutcomes : o.ok /\ o.shown
    BY DEF AllDrawsSucceed
  <1>d. retained \in RetainedType /\ touchPhase \in 0..2 /\ ackPending \in BOOLEAN
    BY DEF TypeOK, RtcOK
  <1>e. badge \in BOOLEAN
    BY DEF TypeOK, PanelOK
  <1>f. refreshed \in BOOLEAN /\ ackVisible \in BOOLEAN /\ st \in StateType
    BY DEF TypeOK, LocalsOK
  <1>1. CASE RunDeterministic
    <2>1. ASSUME Main PROVE BadgeInv'
      BY <2>1, <1>e, <1>f DEF Main
    <2>2. ASSUME Settle PROVE BadgeInv'
      BY <2>2, <1>e, <1>f DEF Settle
    <2>3. ASSUME FetchFail PROVE BadgeInv'
      BY <2>3, <1>e, <1>f DEF FetchFail
    <2>4. ASSUME RenderSkip PROVE BadgeInv'
      BY <2>4, <1>e, <1>f DEF RenderSkip, AfterRender
    <2>5. ASSUME ValidateFail PROVE BadgeInv'
      BY <2>5, <1>e, <1>f DEF ValidateFail
    <2> QED BY <1>1, <2>1, <2>2, <2>3, <2>4, <2>5 DEF RunDeterministic
  <1>2. CASE RunNvs
    <2>1. ASSUME NEW w \in NvsResults, DelaySleep(w) PROVE BadgeInv'
      BY <2>1, <1>b, <1>e, <1>f DEF DelaySleep
    <2>2. ASSUME NEW w \in NvsResults, NoteReset(w) PROVE BadgeInv'
      BY <2>2, <1>b, <1>e, <1>f DEF NoteReset
    <2>3. ASSUME NEW w \in NvsResults, RecoveryForget(w) PROVE BadgeInv'
      BY <2>3, <1>b, <1>e, <1>f DEF RecoveryForget
    <2>4. ASSUME NEW w \in NvsResults, ForgetPeer(w) PROVE BadgeInv'
      BY <2>4, <1>b, <1>e, <1>f DEF ForgetPeer
    <2>5. ASSUME NEW w \in NvsResults, PostRender(w) PROVE BadgeInv'
      BY <2>5, <1>b, <1>e, <1>f DEF PostRender
    <2>6. ASSUME NEW w \in NvsResults, Sleep(w) PROVE BadgeInv'
      BY <2>6, <1>b, <1>e, <1>f DEF Sleep
    <2>7. ASSUME NEW w \in NvsResults, OtaCheck(w) PROVE BadgeInv'
      BY <2>7, <1>b, <1>e, <1>f DEF OtaCheck
    <2>8. ASSUME NEW w \in NvsResults, OtaClear(w) PROVE BadgeInv'
      BY <2>8, <1>b, <1>e, <1>f DEF OtaClear
    <2>9. ASSUME NEW w \in NvsResults, NEW flagRead \in NvsResults, NEW held \in
       BOOLEAN, Boot(w, flagRead, held) PROVE BadgeInv'
      BY <2>9, <1>b, <1>e, <1>f DEF Boot
    <2> QED BY <1>2, <2>1, <2>2, <2>3, <2>4, <2>5, <2>6, <2>7, <2>8, <2>9 DEF
       RunNvs
  <1>3. CASE RunDraw
    <2>1. ASSUME NEW o \in DrawOutcomes, TouchAck(o) PROVE BadgeInv'
      BY <2>1, <1>c, <1>e, <1>f DEF TouchAck
    <2>2. ASSUME NEW o \in DrawOutcomes, RenderDraw(o) PROVE BadgeInv'
      BY <2>2, <1>c DEF RenderDraw, RememberDisplayedState, DisplayedState,
         AfterDraw, AfterRender, Draw
    <2>3. ASSUME NEW o \in DrawOutcomes, RecordFailure(o) PROVE BadgeInv'
      <3> DEFINE base == InitializeRetainedPeer
                 n    == CountFailure(base.failures)
                 show == n > OfflineThreshold /\ ~base.offline
      <3>1. base \in RetainedType
        BY <1>d, InitializedType
      <3>2. retained' = [base EXCEPT !.failures = n,
                             !.offline = base.offline \/ (show /\ o.ok)]
        BY <2>3 DEF RecordFailure
      <3>3. CASE show
        BY <2>3, <3>3, <1>c DEF RecordFailure, Draw
      <3>4. CASE ~show
        <4>1. badge' = badge /\ refreshed' = FALSE
          BY <2>3, <3>4 DEF RecordFailure
        <4>2. retained'.content = base.content /\ retained'.offline = base.offline
          BY <3>1, <3>2, <3>4 DEF RetainedType
        <4>3. base.content = IF retained.valid THEN retained.content ELSE Never
          BY DEF InitializeRetainedPeer, NoRetained
        <4>4. base.offline = (retained.valid /\ retained.offline)
          BY <1>d DEF InitializeRetainedPeer, NoRetained, RetainedType
        <4>5. badge /\ Touching => Touching'
          BY <2>3, <4>1 DEF RecordFailure
        <4>6. CASE badge /\ ~Touching
          BY <4>2, <4>3, <4>4, <4>6
        <4> QED BY <4>1, <4>5, <4>6
      <3> QED BY <3>3, <3>4
    <2>4. ASSUME NEW o \in DrawOutcomes, EndTouch(o) PROVE BadgeInv'
      BY <2>4, <1>c, <1>e, <1>f DEF EndTouch
    <2>5. ASSUME NEW o \in DrawOutcomes, OtaScreen(o) PROVE BadgeInv'
      BY <2>5, <1>c, <1>e, <1>f DEF OtaScreen, Draw
    <2>6. ASSUME NEW o \in DrawOutcomes, OtaFailed(o) PROVE BadgeInv'
      BY <2>6, <1>c, <1>e, <1>f DEF OtaFailed, Draw
    <2>7. ASSUME NEW o \in DrawOutcomes, EnterPairing(o) PROVE BadgeInv'
      BY <2>7, <1>c, <1>e, <1>f DEF EnterPairing, Draw
    <2>8. ASSUME NEW w \in NvsResults, NEW o \in DrawOutcomes, RecoveryClear(w, o)
       PROVE BadgeInv'
      BY <2>8, <1>b, <1>c, <1>e, <1>f DEF RecoveryClear, NoRetained, Draw
    <2>9. ASSUME NEW w \in NvsResults, NEW o \in DrawOutcomes, ClearPairing(w, o)
       PROVE BadgeInv'
      BY <2>9, <1>b, <1>c, <1>e, <1>f DEF ClearPairing, NoRetained, Draw
    <2>10. ASSUME NEW forgot \in NvsResults, NEW w \in NvsResults, NEW o \in
       DrawOutcomes, PairFail(forgot, w, o) PROVE BadgeInv'
      BY <2>10, <1>b, <1>c, <1>e, <1>f DEF PairFail, Draw
    <2> QED BY <1>3, <2>1, <2>2, <2>3, <2>4, <2>5, <2>6, <2>7, <2>8, <2>9,
       <2>10 DEF RunDraw
  <1>4. CASE RunAck
    <2>1. ASSUME NEW a \in AckOutcomes, Unpair(a) PROVE BadgeInv'
      BY <2>1, <1>e, <1>f DEF Unpair, AfterUnpairAck, AfterUnpair
    <2>2. ASSUME NEW a \in AckOutcomes, AckRefresh(a) PROVE BadgeInv'
      BY <2>2, <1>e, <1>f DEF AckRefresh, AfterRender
    <2> QED BY <1>4, <2>1, <2>2 DEF RunAck
  <1>5. CASE RunFetch
    <2>1. ASSUME NEW c \in Contents, NEW stable \in BOOLEAN, NEW calibrated \in
       BOOLEAN, NEW cfg \in Configs, NEW offer \in {"none", "offered",
       "approved"}, FetchOk(c, stable, calibrated, cfg, offer) PROVE BadgeInv'
      BY <2>1, <1>d, <1>e DEF FetchOk, AfterUnpair, RememberRuntimeSettings,
         RetainedType
    <2>2. ASSUME NEW c \in Contents, NEW stable \in BOOLEAN, NEW calibrated \in
       BOOLEAN, NEW cfg \in Configs, NEW w \in NvsResults, NEW o \in DrawOutcomes,
       Validate(c, stable, calibrated, cfg, w, o) PROVE BadgeInv'
      BY <2>2, <1>b, <1>c, <1>e, <1>f DEF Validate, Draw
    <2> QED BY <1>5, <2>1, <2>2 DEF RunFetch
  <1>6. CASE RunUser
    <2>1. ASSUME OtaInstalled PROVE BadgeInv'
      BY <2>1, <1>e, <1>f DEF OtaInstalled, Restart, RamLost, RtcLost, NoRetained
    <2>2. ASSUME NEW o \in DrawOutcomes, ScanAgain(o) PROVE BadgeInv'
      BY <2>2, <1>c, <1>e, <1>f DEF ScanAgain, Draw
    <2>3. ASSUME NEW o \in DrawOutcomes, PairOk(o) PROVE BadgeInv'
      BY <2>3, <1>c, <1>e, <1>f DEF PairOk, Draw
    <2>4. ASSUME NEW o \in DrawOutcomes, PairRefused(o) PROVE BadgeInv'
      BY <2>4, <1>c, <1>e, <1>f DEF PairRefused, Draw
    <2> QED BY <1>6, <2>1, <2>2, <2>3, <2>4 DEF RunUser
  <1>7. CASE Environment
    <2>1. ASSUME Crash PROVE BadgeInv'
      BY <2>1, <1>e, <1>f DEF Crash, Restart, RamLost, RtcLost, NoRetained
    <2>2. ASSUME PowerCycle PROVE BadgeInv'
      BY <2>2, <1>e, <1>f DEF PowerCycle, Restart, RamLost, RtcLost, NoRetained
    <2>3. ASSUME NEW cause \in {"timer", "touch"}, Wake(cause) PROVE BadgeInv'
      BY <2>3, <1>e, <1>f DEF Wake, Restart, RamLost
    <2>4. ASSUME NEW kind \in {"refresh", "unpair"}, QueueCommand(kind) PROVE
       BadgeInv'
      BY <2>4, <1>e, <1>f DEF QueueCommand
    <2> QED BY <1>7, <2>1, <2>2, <2>3, <2>4 DEF Environment
  <1>8. CASE UNCHANGED vars
    BY <1>8 DEF vars
  <1> QED
    BY <1>1, <1>2, <1>3, <1>4, <1>5, <1>6, <1>7, <1>8 DEF Next, Run

\* With a working flash and panel, every step preserves PictureInv.
LEMMA PictureStep ==
  ASSUME ~NvsFaults, TypeOK, PairedInv, AllDrawsSucceed, NewPeerInv, TimerInv,
         PictureInv, [Next]_vars
  PROVE  PictureInv'
  <1> USE WakeAssumption DEF PictureInv, Updating, Rendered, Resting, GoTo, nvs, rtc,
     panel, locals, scale, hist
  <1>b. NvsResults = {TRUE}
    BY DEF NvsResults
  <1>c. \A o \in DrawOutcomes : o.ok /\ o.shown
    BY DEF AllDrawsSucceed
  <1>d. retained \in RetainedType
    BY DEF TypeOK, RtcOK
  <1>f. st \in StateType
    BY DEF TypeOK, LocalsOK
  <1>1. CASE RunDeterministic
    <2>1. ASSUME Main PROVE PictureInv'
      BY <2>1 DEF Main
    <2>2. ASSUME Settle PROVE PictureInv'
      BY <2>2 DEF Settle
    <2>3. ASSUME FetchFail PROVE PictureInv'
      BY <2>3 DEF FetchFail
    <2>4. ASSUME RenderSkip PROVE PictureInv'
      BY <2>4, <1>d DEF RenderSkip, AfterRender, ShouldRefresh, Forced
    <2>5. ASSUME ValidateFail PROVE PictureInv'
      BY <2>5 DEF ValidateFail
    <2> QED BY <1>1, <2>1, <2>2, <2>3, <2>4, <2>5 DEF RunDeterministic
  <1>2. CASE RunNvs
    <2>1. ASSUME NEW w \in NvsResults, DelaySleep(w) PROVE PictureInv'
      BY <2>1, <1>b DEF DelaySleep
    <2>2. ASSUME NEW w \in NvsResults, NoteReset(w) PROVE PictureInv'
      BY <2>2, <1>b DEF NoteReset
    <2>3. ASSUME NEW w \in NvsResults, RecoveryForget(w) PROVE PictureInv'
      BY <2>3, <1>b DEF RecoveryForget
    <2>4. ASSUME NEW w \in NvsResults, ForgetPeer(w) PROVE PictureInv'
      BY <2>4, <1>b DEF ForgetPeer
    <2>5. ASSUME NEW w \in NvsResults, PostRender(w) PROVE PictureInv'
      BY <2>5, <1>b DEF PostRender
    <2>6. ASSUME NEW w \in NvsResults, Sleep(w) PROVE PictureInv'
      BY <2>6, <1>b DEF Sleep
    <2>7. ASSUME NEW w \in NvsResults, OtaCheck(w) PROVE PictureInv'
      BY <2>7, <1>b DEF OtaCheck
    <2>8. ASSUME NEW w \in NvsResults, OtaClear(w) PROVE PictureInv'
      BY <2>8, <1>b, <1>f DEF OtaClear, StateType
    <2>9. ASSUME NEW w \in NvsResults, NEW flagRead \in NvsResults, NEW held \in
       BOOLEAN, Boot(w, flagRead, held) PROVE PictureInv'
      BY <2>9, <1>b DEF Boot
    <2> QED BY <1>2, <2>1, <2>2, <2>3, <2>4, <2>5, <2>6, <2>7, <2>8, <2>9 DEF
       RunNvs
  <1>3. CASE RunDraw
    <2>1. ASSUME NEW o \in DrawOutcomes, TouchAck(o) PROVE PictureInv'
      BY <2>1, <1>c DEF TouchAck
    <2>2. ASSUME NEW o \in DrawOutcomes, RenderDraw(o) PROVE PictureInv'
      BY <2>2, <1>c, <1>f DEF RenderDraw, RememberDisplayedState,
         DisplayedState, AfterDraw, AfterRender, Draw, StateType,
         Forced
    <2>3. ASSUME NEW o \in DrawOutcomes, RecordFailure(o) PROVE PictureInv'
      <3> DEFINE base == InitializeRetainedPeer
                 n    == CountFailure(base.failures)
                 show == n > OfflineThreshold /\ ~base.offline
      <3>1. base \in RetainedType
        BY <1>d, InitializedType
      <3>2. retained' = [base EXCEPT !.failures = n,
                             !.offline = base.offline \/ (show /\ o.ok)]
        BY <2>3 DEF RecordFailure
      <3>3. pc = "failed" /\ pc' \in {"unbadge", "sleep"} /\ check' = "failed"
            /\ ctx' = ctx /\ ctx # "restore"
        BY <2>3 DEF RecordFailure, TimerInv
      <3>4. CASE show
        <4>1. retained'.offline
          BY <3>1, <3>2, <3>4, <1>c DEF RetainedType
        <4>2. screen' = Message("offline")
          BY <2>3, <3>4, <1>c DEF RecordFailure, Draw
        <4> QED BY <3>3, <4>1, <4>2
      <3>5. CASE ~show
        <4>1. screen' = screen
          BY <2>3, <3>5 DEF RecordFailure
        <4>2. retained'.content = base.content /\ retained'.offline = base.offline
          BY <3>1, <3>2, <3>5 DEF RetainedType
        <4>3. base.content = IF retained.valid THEN retained.content ELSE Never
          BY DEF InitializeRetainedPeer, NoRetained
        <4>4. base.offline = (retained.valid /\ retained.offline)
          BY <1>d DEF InitializeRetainedPeer, NoRetained, RetainedType
        <4> QED BY <3>3, <4>1, <4>2, <4>3, <4>4
      <3> QED BY <3>4, <3>5
    <2>4. ASSUME NEW o \in DrawOutcomes, EndTouch(o) PROVE PictureInv'
      BY <2>4, <1>c DEF EndTouch
    <2>5. ASSUME NEW o \in DrawOutcomes, OtaScreen(o) PROVE PictureInv'
      BY <2>5, <1>c DEF OtaScreen, Draw
    <2>6. ASSUME NEW o \in DrawOutcomes, OtaFailed(o) PROVE PictureInv'
      BY <2>6, <1>c DEF OtaFailed, Draw
    <2>7. ASSUME NEW o \in DrawOutcomes, EnterPairing(o) PROVE PictureInv'
      BY <2>7, <1>c DEF EnterPairing, Draw, NewPeerInv
    <2>8. ASSUME NEW w \in NvsResults, NEW o \in DrawOutcomes, RecoveryClear(w, o)
       PROVE PictureInv'
      BY <2>8, <1>b, <1>c DEF RecoveryClear, NoRetained, Draw, NewPeerInv
    <2>9. ASSUME NEW w \in NvsResults, NEW o \in DrawOutcomes, ClearPairing(w, o)
       PROVE PictureInv'
      BY <2>9, <1>b, <1>c DEF ClearPairing, NoRetained, Draw, NewPeerInv
    <2>10. ASSUME NEW forgot \in NvsResults, NEW w \in NvsResults, NEW o \in
       DrawOutcomes, PairFail(forgot, w, o) PROVE PictureInv'
      BY <2>10, <1>b, <1>c DEF PairFail, Draw, NewPeerInv
    <2> QED BY <1>3, <2>1, <2>2, <2>3, <2>4, <2>5, <2>6, <2>7, <2>8, <2>9,
       <2>10 DEF RunDraw
  <1>4. CASE RunAck
    <2>1. ASSUME NEW a \in AckOutcomes, Unpair(a) PROVE PictureInv'
      BY <2>1 DEF Unpair, AfterUnpairAck, AfterUnpair
    <2>2. ASSUME NEW a \in AckOutcomes, AckRefresh(a) PROVE PictureInv'
      BY <2>2 DEF AckRefresh, AfterRender
    <2> QED BY <1>4, <2>1, <2>2 DEF RunAck
  <1>5. CASE RunFetch
    <2>1. ASSUME NEW c \in Contents, NEW stable \in BOOLEAN, NEW calibrated \in
       BOOLEAN, NEW cfg \in Configs, NEW offer \in {"none", "offered",
       "approved"}, FetchOk(c, stable, calibrated, cfg, offer) PROVE PictureInv'
      BY <2>1, <1>d DEF FetchOk, AfterUnpair, RememberRuntimeSettings, RetainedType,
         Fetched
    <2>2. ASSUME NEW c \in Contents, NEW stable \in BOOLEAN, NEW calibrated \in
       BOOLEAN, NEW cfg \in Configs, NEW w \in NvsResults, NEW o \in DrawOutcomes,
       Validate(c, stable, calibrated, cfg, w, o) PROVE PictureInv'
      BY <2>2, <1>b DEF Validate, Fetched, NewPeerInv
    <2> QED BY <1>5, <2>1, <2>2 DEF RunFetch
  <1>6. CASE RunUser
    <2>1. ASSUME OtaInstalled PROVE PictureInv'
      BY <2>1 DEF OtaInstalled, Restart, RamLost, RtcLost, NoRetained
    <2>2. ASSUME NEW o \in DrawOutcomes, ScanAgain(o) PROVE PictureInv'
      BY <2>2, <1>c DEF ScanAgain, Draw, NewPeerInv
    <2>3. ASSUME NEW o \in DrawOutcomes, PairOk(o) PROVE PictureInv'
      BY <2>3, <1>c DEF PairOk, Draw, NewPeerInv
    <2>4. ASSUME NEW o \in DrawOutcomes, PairRefused(o) PROVE PictureInv'
      BY <2>4, <1>c DEF PairRefused, Draw, NewPeerInv
    <2> QED BY <1>6, <2>1, <2>2, <2>3, <2>4 DEF RunUser
  <1>7. CASE Environment
    <2>1. ASSUME Crash PROVE PictureInv'
      BY <2>1 DEF Crash, Restart, RamLost, RtcLost, NoRetained
    <2>2. ASSUME PowerCycle PROVE PictureInv'
      BY <2>2 DEF PowerCycle, Restart, RamLost, RtcLost, NoRetained
    <2>3. ASSUME NEW cause \in {"timer", "touch"}, Wake(cause) PROVE PictureInv'
      BY <2>3 DEF Wake, Restart, RamLost
    <2>4. ASSUME NEW kind \in {"refresh", "unpair"}, QueueCommand(kind) PROVE
       PictureInv'
      BY <2>4 DEF QueueCommand
    <2> QED BY <1>7, <2>1, <2>2, <2>3, <2>4 DEF Environment
  <1>8. CASE UNCHANGED vars
    BY <1>8 DEF vars
  <1> QED
    BY <1>1, <1>2, <1>3, <1>4, <1>5, <1>6, <1>7, <1>8 DEF Next, Run

\* At rest, no touch sequence and no update is under way, so the two invariants
\* give the two properties.
LEMMA PanelAtRest ==
  ASSUME BadgeInv, PictureInv, Resting
  PROVE  RetainedDescribesPanel /\ ShowsLatestStableReading
  <1>1. ~Updating /\ ~Touching /\ Rendered
    BY DEF Updating, Touching, Rendered, Resting
  <1>2. check = "ok" /\ st.stable
          => retained.valid /\ ~retained.offline /\ retained.content = st.content
             /\ st.content # Never
    BY <1>1 DEF PictureInv
  <1>3. retained.valid /\ (retained.offline \/ retained.content # Never) => ~badge
    BY <1>1 DEF BadgeInv
  <1> QED BY <1>1, <1>2, <1>3
          DEF PictureInv, RetainedDescribesPanel, ShowsLatestStableReading

\* When the flash and every draw succeed, both properties of the panel hold.
THEOREM PanelCorrect ==
  ~NvsFaults /\ AllDrawsSucceed
    => (Spec => [](RetainedDescribesPanel /\ ShowsLatestStableReading))
  <1> SUFFICES ASSUME ~NvsFaults, AllDrawsSucceed
               PROVE  Spec => [](RetainedDescribesPanel /\ ShowsLatestStableReading)
    OBVIOUS
  <1>1. Init => PairedInv /\ BadgeInv /\ PictureInv
    BY DEF Init, PairedInv, CheckPcs, BadgeInv, PictureInv, NoRetained
  <1>2. TypeOK /\ PairedInv /\ NewPeerInv /\ TimerInv /\ BadgeInv /\ PictureInv
          /\ [Next]_vars
          => PairedInv' /\ NewPeerInv' /\ TimerInv' /\ BadgeInv' /\ PictureInv'
    BY PairedStep, NewPeerStep, TimerStep, BadgeStep, PictureStep
  <1>3. BadgeInv /\ PictureInv => RetainedDescribesPanel /\ ShowsLatestStableReading
    BY PanelAtRest DEF RetainedDescribesPanel, ShowsLatestStableReading
  <1> QED BY <1>1, <1>2, <1>3, TimerInit, TypeCorrect, PTL DEF Spec

\* RetainedDescribesPanel, when the flash and every draw succeed: at rest the
\* picture that s_retained stands for is the one on the panel.
THEOREM RetainedDescribesPanelHolds ==
  ~NvsFaults /\ AllDrawsSucceed => (Spec => []RetainedDescribesPanel)
  BY PanelCorrect, PTL

\* ShowsLatestStableReading, when the flash and every draw succeed: a successful
\* check with a stable reading leaves that reading on the panel.
THEOREM ShowsLatestStableReadingHolds ==
  ~NvsFaults /\ AllDrawsSucceed => (Spec => []ShowsLatestStableReading)
  BY PanelCorrect, PTL

----------------------------------------------------------------------------
(* The picture on the panel when draws fail *)

\* What FailedDrawsRetried says at rest holds throughout: a retained picture is on
\* the panel, or the screen of an update is.
DrawnInv ==
  retained.valid /\ screen.kind \notin {"updating", "updateFailed"} =>
    /\ retained.offline => screen = Message("offline")
    /\ ~retained.offline /\ retained.content # Never => screen = Keg(retained.content)

\* A draw that fails leaves the panel as it was.
FailedDrawsLeavePanel == \A o \in DrawOutcomes : o.shown => o.ok

\* With a working flash, every step preserves DrawnInv.
LEMMA DrawnStep ==
  ASSUME ~NvsFaults, TypeOK, FailedDrawsLeavePanel, NewPeerInv, DrawnInv, [Next]_vars
  PROVE  DrawnInv'
  <1> USE DEF DrawnInv, Message, Keg, GoTo, nvs, rtc, panel, locals, scale, hist
  <1>b. NvsResults = {TRUE}
    BY DEF NvsResults
  <1>c. \A o \in DrawOutcomes : o.ok <=> o.shown
    BY WakeAssumption DEF FailedDrawsLeavePanel
  <1>d. retained \in RetainedType
    BY DEF TypeOK, RtcOK
  <1>1. CASE RunDeterministic
    <2>1. ASSUME Main PROVE DrawnInv'
      BY <2>1 DEF Main
    <2>2. ASSUME Settle PROVE DrawnInv'
      BY <2>2 DEF Settle
    <2>3. ASSUME FetchFail PROVE DrawnInv'
      BY <2>3 DEF FetchFail
    <2>4. ASSUME RenderSkip PROVE DrawnInv'
      BY <2>4 DEF RenderSkip, AfterRender
    <2>5. ASSUME ValidateFail PROVE DrawnInv'
      BY <2>5 DEF ValidateFail
    <2> QED BY <1>1, <2>1, <2>2, <2>3, <2>4, <2>5 DEF RunDeterministic
  <1>2. CASE RunNvs
    <2>1. ASSUME NEW w \in NvsResults, DelaySleep(w) PROVE DrawnInv'
      BY <2>1, <1>b DEF DelaySleep
    <2>2. ASSUME NEW w \in NvsResults, NoteReset(w) PROVE DrawnInv'
      BY <2>2, <1>b DEF NoteReset
    <2>3. ASSUME NEW w \in NvsResults, RecoveryForget(w) PROVE DrawnInv'
      BY <2>3, <1>b DEF RecoveryForget
    <2>4. ASSUME NEW w \in NvsResults, ForgetPeer(w) PROVE DrawnInv'
      BY <2>4, <1>b DEF ForgetPeer
    <2>5. ASSUME NEW w \in NvsResults, PostRender(w) PROVE DrawnInv'
      BY <2>5, <1>b DEF PostRender
    <2>6. ASSUME NEW w \in NvsResults, Sleep(w) PROVE DrawnInv'
      BY <2>6, <1>b DEF Sleep
    <2>7. ASSUME NEW w \in NvsResults, OtaCheck(w) PROVE DrawnInv'
      BY <2>7, <1>b DEF OtaCheck
    <2>8. ASSUME NEW w \in NvsResults, OtaClear(w) PROVE DrawnInv'
      BY <2>8, <1>b DEF OtaClear
    <2>9. ASSUME NEW w \in NvsResults, NEW flagRead \in NvsResults, NEW held \in
       BOOLEAN, Boot(w, flagRead, held) PROVE DrawnInv'
      BY <2>9, <1>b DEF Boot
    <2> QED BY <1>2, <2>1, <2>2, <2>3, <2>4, <2>5, <2>6, <2>7, <2>8, <2>9 DEF
       RunNvs
  <1>3. CASE RunDraw
    <2>1. ASSUME NEW o \in DrawOutcomes, TouchAck(o) PROVE DrawnInv'
      BY <2>1, <1>c DEF TouchAck
    <2>2. ASSUME NEW o \in DrawOutcomes, RenderDraw(o) PROVE DrawnInv'
      BY <2>2, <1>c DEF RenderDraw, RememberDisplayedState,
         DisplayedState, Draw
    <2>3. ASSUME NEW o \in DrawOutcomes, RecordFailure(o) PROVE DrawnInv'
      <3> DEFINE base == InitializeRetainedPeer
                 n    == CountFailure(base.failures)
                 show == n > OfflineThreshold /\ ~base.offline
      <3>1. base \in RetainedType
        BY <1>d, InitializedType
      <3>2. retained' = [base EXCEPT !.failures = n,
                             !.offline = base.offline \/ (show /\ o.ok)]
        BY <2>3 DEF RecordFailure
      <3>3. CASE show /\ o.ok
        <4>1. retained'.offline
          BY <3>1, <3>2, <3>3 DEF RetainedType
        <4>2. screen' = Message("offline")
          BY <2>3, <3>3, <1>c DEF RecordFailure, Draw
        <4> QED BY <4>1, <4>2
      <3>4. CASE ~(show /\ o.ok)
        <4>1. screen' = screen
          BY <2>3, <3>4, <1>c DEF RecordFailure, Draw
        <4>2. retained'.content = base.content /\ retained'.offline = base.offline
          BY <3>1, <3>2, <3>4 DEF RetainedType
        <4>3. CASE retained.valid
          BY <4>1, <4>2, <4>3 DEF InitializeRetainedPeer
        <4>4. CASE ~retained.valid
          BY <4>2, <4>4 DEF InitializeRetainedPeer, NoRetained
        <4> QED BY <4>3, <4>4
      <3> QED BY <3>3, <3>4
    <2>4. ASSUME NEW o \in DrawOutcomes, EndTouch(o) PROVE DrawnInv'
      BY <2>4, <1>c DEF EndTouch
    <2>5. ASSUME NEW o \in DrawOutcomes, OtaScreen(o) PROVE DrawnInv'
      BY <2>5, <1>c DEF OtaScreen, Draw
    <2>6. ASSUME NEW o \in DrawOutcomes, OtaFailed(o) PROVE DrawnInv'
      BY <2>6, <1>c DEF OtaFailed, Draw
    <2>7. ASSUME NEW o \in DrawOutcomes, EnterPairing(o) PROVE DrawnInv'
      BY <2>7, <1>c DEF EnterPairing, NewPeerInv, Draw
    <2>8. ASSUME NEW w \in NvsResults, NEW o \in DrawOutcomes, RecoveryClear(w, o)
       PROVE DrawnInv'
      BY <2>8, <1>b, <1>c DEF RecoveryClear, NewPeerInv, NoRetained, Draw
    <2>9. ASSUME NEW w \in NvsResults, NEW o \in DrawOutcomes, ClearPairing(w, o)
       PROVE DrawnInv'
      BY <2>9, <1>b, <1>c DEF ClearPairing, NoRetained, Draw
    <2>10. ASSUME NEW forgot \in NvsResults, NEW w \in NvsResults, NEW o \in
       DrawOutcomes, PairFail(forgot, w, o) PROVE DrawnInv'
      BY <2>10, <1>b, <1>c DEF PairFail, NewPeerInv, Draw
    <2> QED BY <1>3, <2>1, <2>2, <2>3, <2>4, <2>5, <2>6, <2>7, <2>8, <2>9,
       <2>10 DEF RunDraw
  <1>4. CASE RunAck
    <2>1. ASSUME NEW a \in AckOutcomes, Unpair(a) PROVE DrawnInv'
      BY <2>1 DEF Unpair, AfterUnpairAck, AfterUnpair
    <2>2. ASSUME NEW a \in AckOutcomes, AckRefresh(a) PROVE DrawnInv'
      BY <2>2 DEF AckRefresh, AfterRender
    <2> QED BY <1>4, <2>1, <2>2 DEF RunAck
  <1>5. CASE RunFetch
    <2>1. ASSUME NEW c \in Contents, NEW stable \in BOOLEAN, NEW calibrated \in
       BOOLEAN, NEW cfg \in Configs, NEW offer \in {"none", "offered",
       "approved"}, FetchOk(c, stable, calibrated, cfg, offer) PROVE DrawnInv'
      BY <2>1, <1>d DEF FetchOk, AfterUnpair, RememberRuntimeSettings,
         RetainedType
    <2>2. ASSUME NEW c \in Contents, NEW stable \in BOOLEAN, NEW calibrated \in
       BOOLEAN, NEW cfg \in Configs, NEW w \in NvsResults, NEW o \in DrawOutcomes,
       Validate(c, stable, calibrated, cfg, w, o) PROVE DrawnInv'
      BY <2>2, <1>b, <1>c DEF Validate, NewPeerInv, Draw
    <2> QED BY <1>5, <2>1, <2>2 DEF RunFetch
  <1>6. CASE RunUser
    <2>1. ASSUME OtaInstalled PROVE DrawnInv'
      BY <2>1 DEF OtaInstalled, Restart, RamLost, RtcLost, NoRetained
    <2>2. ASSUME NEW o \in DrawOutcomes, ScanAgain(o) PROVE DrawnInv'
      BY <2>2, <1>c DEF ScanAgain, NewPeerInv, Draw
    <2>3. ASSUME NEW o \in DrawOutcomes, PairOk(o) PROVE DrawnInv'
      BY <2>3, <1>c DEF PairOk, NewPeerInv, Draw
    <2>4. ASSUME NEW o \in DrawOutcomes, PairRefused(o) PROVE DrawnInv'
      BY <2>4, <1>c DEF PairRefused, NewPeerInv, Draw
    <2> QED BY <1>6, <2>1, <2>2, <2>3, <2>4 DEF RunUser
  <1>7. CASE Environment
    <2>1. ASSUME Crash PROVE DrawnInv'
      BY <2>1 DEF Crash, Restart, RamLost, RtcLost, NoRetained
    <2>2. ASSUME PowerCycle PROVE DrawnInv'
      BY <2>2 DEF PowerCycle, Restart, RamLost, RtcLost, NoRetained
    <2>3. ASSUME NEW cause \in {"timer", "touch"}, Wake(cause) PROVE DrawnInv'
      BY <2>3 DEF Wake, Restart, RamLost
    <2>4. ASSUME NEW kind \in {"refresh", "unpair"}, QueueCommand(kind) PROVE
       DrawnInv'
      BY <2>4 DEF QueueCommand
    <2> QED BY <1>7, <2>1, <2>2, <2>3, <2>4 DEF Environment
  <1>8. CASE UNCHANGED vars
    BY <1>8 DEF vars
  <1> QED
    BY <1>1, <1>2, <1>3, <1>4, <1>5, <1>6, <1>7, <1>8 DEF Next, Run

\* FailedDrawsRetried, with a working flash and a panel that a failed draw leaves
\* as it was.
THEOREM FailedDrawsRetriedHolds ==
  ~NvsFaults /\ FailedDrawsLeavePanel => (Spec => []FailedDrawsRetried)
  <1> SUFFICES ASSUME ~NvsFaults, FailedDrawsLeavePanel
               PROVE  Spec => []FailedDrawsRetried
    OBVIOUS
  <1>1. Init => PairedInv /\ NewPeerInv /\ DrawnInv
    BY DEF Init, PairedInv, NewPeerInv, DrawnInv, CheckPcs, NoRetained
  <1>2. TypeOK /\ PairedInv /\ NewPeerInv /\ DrawnInv /\ [Next]_vars
          => PairedInv' /\ NewPeerInv' /\ DrawnInv'
    BY PairedStep, NewPeerStep, DrawnStep
  <1>3. DrawnInv => FailedDrawsRetried
    BY DEF DrawnInv, FailedDrawsRetried
  <1> QED BY <1>1, <1>2, <1>3, TypeCorrect, PTL DEF Spec

----------------------------------------------------------------------------
(* Every wake ends *)

\* What WakeAdvances asks of one step.
Advances ==
  ~Resting /\ ~InPairingMode /\ pc' # pc => Left' < Left \/ faults' > faults

\* Left is a natural number, so it cannot fall for ever.
LEMMA LeftIsNat == ASSUME TypeOK PROVE Left \in Nat
  BY DEF TypeOK, PcValues, Left, Position, DelaysLeft, InPairingMode

\* Every step of the display is an advance, a reset or outside WakeAdvances.
LEMMA WakeStep ==
  ASSUME TypeOK, [Next]_vars
  PROVE  Advances
  <1> USE DEF Advances, Left, Position, DelaysLeft, FirstRender, Resting,
      InPairingMode, GoTo, nvs, rtc, panel, locals, scale, hist
  <1>f. faults \in Nat /\ faults < faults + 1
    BY DEF TypeOK, HistOK
  <1>1. CASE RunDeterministic
    BY <1>1 DEF RunDeterministic, Main, Settle, FetchFail, RenderSkip,
       ValidateFail, AfterRender, RetryTouch
  <1>2. CASE RunNvs
    <2>1. ASSUME NEW w \in NvsResults, DelaySleep(w) PROVE Advances
      BY <2>1 DEF DelaySleep
    <2>2. ASSUME NEW w \in NvsResults, NoteReset(w) PROVE Advances
      BY <2>2 DEF NoteReset
    <2>3. ASSUME NEW w \in NvsResults, RecoveryForget(w) PROVE Advances
      BY <2>3 DEF RecoveryForget
    <2>4. ASSUME NEW w \in NvsResults, ForgetPeer(w) PROVE Advances
      BY <2>4 DEF ForgetPeer
    <2>5. ASSUME NEW w \in NvsResults, PostRender(w) PROVE Advances
      BY <2>5 DEF PostRender
    <2>6. ASSUME NEW w \in NvsResults, Sleep(w) PROVE Advances
      BY <2>6 DEF Sleep
    <2>7. ASSUME NEW w \in NvsResults, OtaCheck(w) PROVE Advances
      BY <2>7 DEF OtaCheck
    <2>8. ASSUME NEW w \in NvsResults, OtaClear(w) PROVE Advances
      BY <2>8 DEF OtaClear
    <2>9. ASSUME NEW w \in NvsResults, NEW flagRead \in NvsResults, NEW held
       \in BOOLEAN, Boot(w, flagRead, held) PROVE Advances
      BY <2>9 DEF Boot
    <2> QED BY <1>2, <2>1, <2>2, <2>3, <2>4, <2>5, <2>6, <2>7, <2>8, <2>9 DEF
       RunNvs
  <1>3. CASE RunDraw
    <2>1. ASSUME NEW o \in DrawOutcomes, TouchAck(o) PROVE Advances
      BY <2>1 DEF TouchAck
    <2>2. ASSUME NEW o \in DrawOutcomes, RenderDraw(o) PROVE Advances
      BY <2>2 DEF RenderDraw, RememberDisplayedState, DisplayedState,
         AfterDraw, AfterRender
    <2>3. ASSUME NEW o \in DrawOutcomes, RecordFailure(o) PROVE Advances
      BY <2>3 DEF RecordFailure
    <2>4. ASSUME NEW o \in DrawOutcomes, EndTouch(o) PROVE Advances
      BY <2>4 DEF EndTouch
    <2>5. ASSUME NEW o \in DrawOutcomes, OtaScreen(o) PROVE Advances
      BY <2>5 DEF OtaScreen
    <2>6. ASSUME NEW o \in DrawOutcomes, OtaFailed(o) PROVE Advances
      BY <2>6 DEF OtaFailed
    <2>7. ASSUME NEW o \in DrawOutcomes, EnterPairing(o) PROVE Advances
      BY <2>7 DEF EnterPairing
    <2>8. ASSUME NEW w \in NvsResults, NEW o \in DrawOutcomes,
       RecoveryClear(w, o) PROVE Advances
      BY <2>8 DEF RecoveryClear
    <2>9. ASSUME NEW w \in NvsResults, NEW o \in DrawOutcomes, ClearPairing(w,
       o) PROVE Advances
      BY <2>9 DEF ClearPairing
    <2>10. ASSUME NEW forgot \in NvsResults, NEW w \in NvsResults, NEW o \in
       DrawOutcomes, PairFail(forgot, w, o) PROVE Advances
      BY <2>10 DEF PairFail
    <2> QED BY <1>3, <2>1, <2>2, <2>3, <2>4, <2>5, <2>6, <2>7, <2>8, <2>9,
       <2>10 DEF RunDraw
  <1>4. CASE RunAck
    BY <1>4 DEF RunAck, Unpair, AckRefresh, AfterUnpairAck, AfterUnpair,
       AfterRender
  <1>5. CASE RunFetch
    BY <1>5 DEF RunFetch, FetchOk, Validate, AfterUnpair
  <1>6. CASE RunUser
    <2>1. CASE OtaInstalled
      BY <2>1, <1>f DEF OtaInstalled
    <2>2. ASSUME NEW o \in DrawOutcomes,
                 ScanAgain(o) \/ PairOk(o) \/ PairRefused(o)
          PROVE  Advances
      BY <2>2 DEF ScanAgain, PairOk, PairRefused
    <2> QED BY <1>6, <2>1, <2>2 DEF RunUser
  <1>7. CASE Environment
    <2>1. CASE Crash \/ PowerCycle
      BY <2>1, <1>f DEF Crash, PowerCycle
    <2>2. ASSUME NEW cause \in {"timer", "touch"}, Wake(cause) PROVE Advances
      BY <2>2 DEF Wake, Restart
    <2>3. ASSUME NEW kind \in {"refresh", "unpair"}, QueueCommand(kind)
          PROVE  Advances
      BY <2>3 DEF QueueCommand
    <2> QED BY <1>7, <2>1, <2>2, <2>3 DEF Environment
  <1>8. CASE UNCHANGED vars
    BY <1>8 DEF vars
  <1> QED
    BY <1>1, <1>2, <1>3, <1>4, <1>5, <1>6, <1>7, <1>8 DEF Next, Run

\* WakeAdvances, whatever fails: with LeftIsNat, a wake that is not reset and
\* does not enter pairing mode comes to rest after a bounded number of steps.
THEOREM WakeAdvancesHolds == Spec => WakeAdvances
  <1>1. TypeOK /\ [Next]_vars
          => (~Resting /\ ~InPairingMode /\ pc' # pc
                => Left' < Left \/ faults' > faults)
    BY WakeStep DEF Advances
  <1> QED BY <1>1, TypeCorrect, PTL DEF Spec, WakeAdvances
============================================================================
