---------------------------- MODULE DisplayWake ----------------------------
(***************************************************************************)
(* The battery-powered e-paper display: one wake of app_main, from the     *)
(* reset vector to deep sleep, together with the Scale commands it serves. *)
(*                                                                         *)
(* Every wake is a run of app_main with its own locals; what links one     *)
(* wake to the next is NVS (pairing record, BLE bond, power-cycle counter, *)
(* OTA-screen flag), RTC memory (s_retained, s_touch_phase,                *)
(* s_touch_ack_pending: kept by deep sleep, re-initialised by every other  *)
(* reset) and the picture on the panel, which needs no power.  A step is   *)
(* a stretch of app_main with one effect on NVS or on the Scale; a draw    *)
(* that follows it is part of the step, since the next run redraws.        *)
(*                                                                         *)
(* Data abstraction: "content" stands for everything should_refresh        *)
(* compares (sequence, profile and config revision, servings, quantised    *)
(* battery, weight); a picture is the content it was drawn from.  Only one *)
(* Scale is modelled: s_retained is zeroed whenever the peer changes.      *)
(***************************************************************************)
EXTENDS Naturals

CONSTANTS
  Contents,               \* readings the Scale can report
  Never,                  \* the content no picture has (battery_percent = 255)
  Configs,                \* check-in settings a fetch may return
  DrawOutcomes,           \* [ok, shown] pairs an e-paper update may produce
  AckOutcomes,            \* [ok, seen] pairs an acknowledgement write may produce
  NvsFaults,              \* may NVS reads and writes fail?
  OfflineThreshold,       \* SCALE_OFFLINE_FAILURE_THRESHOLD
  FailureCap,             \* saturation of consecutive_scale_failures (255)
  RecoveryPowerCycles,    \* RECOVERY_POWER_CYCLES (3)
  MaxCmds,                \* bound: commands the Scale ever queues
  MaxResets               \* bound: power cycles, panics, watchdog and update restarts

ASSUME WakeAssumption ==
  /\ Never \notin Contents
  /\ Configs \subseteq {"absent", "on", "off"}
  /\ DrawOutcomes \subseteq [ok : BOOLEAN, shown : BOOLEAN]
  /\ AckOutcomes \subseteq [ok : BOOLEAN, seen : BOOLEAN]
  /\ \A o \in DrawOutcomes : o.ok => o.shown
  /\ \A a \in AckOutcomes : a.ok => a.seen
  /\ NvsFaults \in BOOLEAN
  /\ OfflineThreshold \in Nat
  /\ FailureCap \in Nat /\ FailureCap > OfflineThreshold
  /\ RecoveryPowerCycles \in Nat \ {0}
  /\ MaxCmds \in Nat
  /\ MaxResets \in Nat

VARIABLES
  \* NVS
  paired,       \* a valid pairing record is stored
  bond,         \* the NimBLE store holds the Scale's keys
  powerCycles,  \* pairing namespace: power_cycles
  otaFlag,      \* display state namespace: ota_screen pending
  \* RTC memory
  retained,     \* s_retained
  touchPhase,   \* s_touch_phase
  ackPending,   \* s_touch_ack_pending
  \* the panel
  screen,       \* the picture on it
  badge,        \* the touch acknowledgement drawn over the picture
  \* app_main
  pc,           \* next step
  wake,         \* what started this run: timer, touch, power or reset
  armed,        \* wake sources while asleep: delay = timer only, full = timer and touch
  nextCheck,    \* scheduled timer chosen by power_next_check_seconds
  loaded,       \* pairing_load succeeded and found a peer
  otaPending,   \* otaFlag as read at boot
  ackVisible,   \* touch_ack_visible
  refreshed,    \* screen_refreshed
  recover,      \* recovery_requested
  ctx,          \* touch or scheduled check, restore after a failed OTA, pairing
  st,           \* the fetched ble_client_scale_state_t
  periodic,     \* s_periodic_checkin_enabled
  \* the Scale (external)
  cmd,          \* command it holds for the display
  issued,       \* commands queued so far
  scaleBond,    \* it still lists this display as bonded
  ackScale,     \* its firmware has the command-acknowledgement characteristic
  \* history
  resets,       \* hardware resets since the last deep sleep (capped)
  missed,       \* checks failed in a row since one succeeded (capped)
  drawn,        \* the keg picture was drawn since cmd was queued
  check,        \* outcome of the latest check: none, ok or failed
  faults

nvs    == <<paired, bond, powerCycles, otaFlag>>
rtc    == <<retained, touchPhase, ackPending>>
panel  == <<screen, badge>>
locals == <<wake, armed, nextCheck, loaded, otaPending, ackVisible, refreshed,
            recover, ctx, st, periodic>>
scale  == <<cmd, issued, scaleBond, ackScale>>
hist   == <<resets, missed, drawn, check, faults>>
vars   == <<nvs, rtc, panel, pc, locals, scale, hist>>

----------------------------------------------------------------------------
(* Values *)

NoCmd == [kind |-> "none", id |-> 0]
CmdKinds == {"none", "refresh", "unpair"}

Keg(c)       == [kind |-> "keg", content |-> c]
Message(k)   == [kind |-> k, content |-> Never]
MessageKinds == {"offline", "pairing", "paired", "updating", "updateFailed"}
Screens == [kind : {"keg"} \cup MessageKinds, content : Contents \cup {Never}]

\* memset(&s_retained, 0): magic does not match any peer.
NoRetained == [valid |-> FALSE, content |-> Never, failures |-> 0,
               offline |-> FALSE, periodicOff |-> FALSE]

NoState == [content |-> Never, stable |-> FALSE, calibrated |-> FALSE,
            kind |-> "none", id |-> 0, force |-> FALSE, offer |-> "none"]

\* What an NVS call may return.  nvs_commit flushes nothing on this target, so
\* a call that fails has written nothing.
NvsResults == IF NvsFaults THEN BOOLEAN ELSE {TRUE}

\* An e-paper update to picture p: the panel keeps its old picture only when
\* the update failed before the panel took it.
Draw(p, o) ==
  /\ screen' = IF o.shown THEN p ELSE screen
  /\ badge'  = IF o.shown THEN FALSE ELSE badge

GoTo(l) == pc' = l

PcValues ==
  {"asleep", "boot", "badge", "delay", "start", "forgetR", "clearR", "main",
   "fetch", "unpair", "forget", "clear", "settle", "render", "ack", "post",
   "unbadge", "ota", "otaScreen", "otaInstall", "otaClear",
   "failed", "sleep", "enterPairing", "scan", "validate", "pairFail"}

RetainedType == [valid : BOOLEAN, content : Contents \cup {Never},
                 failures : 0..FailureCap, offline : BOOLEAN, periodicOff : BOOLEAN]
StateType == [content : Contents \cup {Never}, stable : BOOLEAN,
              calibrated : BOOLEAN, kind : CmdKinds, id : 0..MaxCmds,
              force : BOOLEAN, offer : {"none", "offered", "approved"}]
CommandType == [kind : CmdKinds, id : 0..MaxCmds]

NvsOK ==
  /\ paired \in BOOLEAN /\ bond \in BOOLEAN /\ otaFlag \in BOOLEAN
  /\ powerCycles \in 0..(RecoveryPowerCycles - 1)

RtcOK == retained \in RetainedType /\ touchPhase \in 0..2 /\ ackPending \in BOOLEAN

PanelOK == screen \in Screens /\ badge \in BOOLEAN

LocalsOK ==
  /\ wake \in {"timer", "touch", "power", "reset"}
  /\ armed \in {"delay", "full"}
  /\ nextCheck \in {"none", "frequent", "5min", "15min", "safety"}
  /\ loaded \in BOOLEAN /\ otaPending \in BOOLEAN /\ ackVisible \in BOOLEAN
  /\ refreshed \in BOOLEAN /\ recover \in BOOLEAN /\ periodic \in BOOLEAN
  /\ ctx \in {"touch", "scheduled", "restore", "pair"}
  /\ st \in StateType

ScaleOK ==
  /\ cmd \in CommandType /\ issued \in 0..MaxCmds
  /\ scaleBond \in BOOLEAN /\ ackScale \in BOOLEAN

HistOK ==
  /\ resets \in 0..RecoveryPowerCycles
  /\ missed \in 0..FailureCap
  /\ drawn \in BOOLEAN
  /\ check \in {"none", "ok", "failed"}
  /\ faults \in 0..MaxResets

TypeOK == NvsOK /\ RtcOK /\ PanelOK /\ pc \in PcValues /\ LocalsOK /\ ScaleOK /\ HistOK

\* First power-on of a new or an already paired display.
Init ==
  /\ paired \in BOOLEAN /\ bond = paired /\ scaleBond = paired
  /\ powerCycles = 0 /\ otaFlag = FALSE
  /\ retained = NoRetained /\ touchPhase = 0 /\ ackPending = FALSE
  /\ screen = Message("pairing") /\ badge = FALSE
  /\ pc = "boot" /\ wake = "power"
  /\ armed = "full" /\ nextCheck = "none"
  /\ loaded = FALSE /\ otaPending = FALSE /\ ackVisible = FALSE
  /\ refreshed = FALSE /\ recover = FALSE /\ ctx = "scheduled"
  /\ st = NoState /\ periodic = FALSE
  /\ cmd = NoCmd /\ issued = 0 /\ ackScale \in BOOLEAN
  /\ resets = 1 /\ missed = 0 /\ drawn = FALSE /\ check = "none"
  /\ faults = 0

----------------------------------------------------------------------------
(* Resets and wakes *)

\* RAM is lost in every kind of restart; app_main reads it all again.
RamLost ==
  /\ nextCheck' = "none" /\ loaded' = FALSE /\ otaPending' = FALSE
  /\ ackVisible' = FALSE /\ refreshed' = FALSE /\ recover' = FALSE
  /\ ctx' = "scheduled" /\ st' = NoState /\ periodic' = FALSE
  /\ check' = "none"

\* Every reset but a wake from deep sleep re-initialises RTC_DATA_ATTR memory.
RtcLost == retained' = NoRetained /\ touchPhase' = 0 /\ ackPending' = FALSE

Restart(cause) == GoTo("boot") /\ wake' = cause /\ RamLost /\ UNCHANGED armed

\* A panic, an aborting ESP_ERROR_CHECK or a watchdog, at any point of the run.
Crash ==
  /\ pc # "asleep" /\ faults < MaxResets
  /\ faults' = faults + 1
  /\ Restart("reset") /\ RtcLost
  /\ UNCHANGED <<nvs, panel, scale, resets, missed, drawn>>

\* The user cycles the power or presses reset.
PowerCycle ==
  /\ faults < MaxResets
  /\ faults' = faults + 1
  /\ resets' = IF resets < RecoveryPowerCycles THEN resets + 1 ELSE resets
  /\ Restart("power") /\ RtcLost
  /\ UNCHANGED <<nvs, panel, scale, missed, drawn>>

\* The armed timer expires, or a finger touches the pad while it is armed.
Wake(cause) ==
  /\ pc = "asleep"
  /\ cause = "touch" => armed = "full"
  /\ Restart(cause)
  /\ UNCHANGED <<nvs, rtc, panel, scale, resets, missed, drawn, faults>>

\* app_main up to ble_client_init.  A read of NVS may fail: pairing_load then
\* leaves the display without a peer, and the OTA flag reads as clear.  Only
\* a paired display polls the recovery button, and only on a hardware reset.
Boot(pairingRead, flagRead, held) ==
  /\ pc = "boot"
  /\ loaded' = (pairingRead /\ paired)
  /\ otaPending' = (flagRead /\ otaFlag)
  /\ held => wake = "power" /\ loaded'
  /\ recover' = held
  /\ touchPhase' = IF wake = "timer" THEN touchPhase ELSE 0
  /\ ackPending' = (wake = "timer" /\ ackPending)
  /\ ackVisible' = (wake = "timer" /\ ackPending)
  /\ ctx' = IF wake = "timer" /\ touchPhase # 0 THEN "touch" ELSE "scheduled"
  /\ GoTo(IF wake = "touch" /\ loaded' THEN "badge" ELSE "start")
  /\ UNCHANGED <<nvs, retained, panel, wake, armed, nextCheck, refreshed, st,
                 periodic, scale, hist>>

\* Draw the acknowledgement over the picture and start the pour delay.
TouchAck(o) ==
  /\ pc = "badge"
  /\ badge' = IF o.shown THEN TRUE ELSE badge
  /\ ackVisible' = o.ok
  /\ touchPhase' = 1 /\ ackPending' = o.ok
  /\ GoTo("delay")
  /\ UNCHANGED <<nvs, retained, screen, wake, armed, nextCheck, loaded,
                 otaPending, refreshed, recover, ctx, st, periodic, scale, hist>>

\* Mutant: the counter survives a successful boot.
ResetPowerCycles_Kept(w) == powerCycles' = powerCycles

ResetPowerCycles(w) == powerCycles' = IF w THEN 0 ELSE powerCycles

\* sleep_for_touch_delay: only the timer is armed.
DelaySleep(w) ==
  /\ pc = "delay"
  /\ ResetPowerCycles(w)
  /\ armed' = "delay" /\ resets' = 0
  /\ GoTo("asleep")
  /\ UNCHANGED <<paired, bond, otaFlag, rtc, panel, wake, nextCheck, loaded,
                 otaPending, ackVisible, refreshed, recover, ctx, st, periodic,
                 scale, missed, drawn, check, faults>>

----------------------------------------------------------------------------
(* Power-cycle recovery *)

\* pairing_note_power_cycle on a hardware reset, its reset on any other boot.
NoteReset(w) ==
  LET count == powerCycles + 1
      third == wake = "power" /\ w /\ count >= RecoveryPowerCycles
  IN
  /\ pc = "start"
  /\ powerCycles' = IF ~w THEN powerCycles
                    ELSE IF wake = "power" /\ ~third THEN count ELSE 0
  /\ recover' = (recover \/ third)
  /\ GoTo(IF recover' THEN IF loaded THEN "forgetR" ELSE "clearR" ELSE "main")
  /\ UNCHANGED <<paired, bond, otaFlag, rtc, panel, wake, armed, nextCheck,
                 loaded, otaPending, ackVisible, refreshed, ctx, st, periodic,
                 scale, hist>>

\* ble_client_forget_peer; a failure is only logged.
RecoveryForget(w) ==
  /\ pc = "forgetR"
  /\ bond' = (bond /\ ~w)
  /\ GoTo("clearR")
  /\ UNCHANGED <<paired, powerCycles, otaFlag, rtc, panel, locals, scale, hist>>

\* Mutant: the peer loaded at boot is not zeroed with the stored one.
RecoveryClear_KeepPeer(w, o) ==
  /\ pc = "clearR"
  /\ paired' = (paired /\ ~w) /\ powerCycles' = IF w THEN 0 ELSE powerCycles
  /\ retained' = NoRetained
  /\ Draw(Message("pairing"), o)
  /\ GoTo("main")
  /\ UNCHANGED <<bond, otaFlag, touchPhase, ackPending, locals, scale, hist>>

\* pairing_clear erases the namespace, counter included; when it fails the
\* run goes on with the peer it loaded.
RecoveryClear(w, o) ==
  /\ pc = "clearR"
  /\ IF w
     THEN /\ paired' = FALSE /\ powerCycles' = 0 /\ loaded' = FALSE
          /\ retained' = NoRetained
          /\ Draw(Message("pairing"), o)
     ELSE UNCHANGED <<paired, powerCycles, loaded, retained, panel>>
  /\ GoTo("main")
  /\ UNCHANGED <<bond, otaFlag, touchPhase, ackPending, wake, armed, nextCheck,
                 otaPending, ackVisible, refreshed, recover, ctx, st, periodic,
                 scale, hist>>

\* A paired display restores its runtime settings and checks in; any other
\* enters pairing mode.
Main ==
  /\ pc = "main"
  /\ periodic' = (loaded /\ retained.valid /\ ~retained.periodicOff)
  /\ GoTo(IF loaded THEN "fetch" ELSE "enterPairing")
  /\ UNCHANGED <<nvs, rtc, panel, wake, armed, nextCheck, loaded, otaPending,
                 ackVisible, refreshed, recover, ctx, st, scale, hist>>

----------------------------------------------------------------------------
(* One check-in *)

\* Encryption needs both halves of the bond.
Reachable == bond /\ scaleBond

\* What ble_client_fetch_mode leaves in *state.  The update offer is read in
\* maintenance mode only; a Scale without acknowledgements uses command id 0.
Fetched(c, stable, calibrated, offer) ==
  [content |-> c, stable |-> stable, calibrated |-> calibrated,
   kind |-> cmd.kind, id |-> cmd.id, force |-> cmd.kind = "refresh",
   offer |-> IF ctx = "touch" THEN "none" ELSE offer]

\* External: a Scale without acknowledgements clears its command on read.
CommandRead ==
  IF ackScale
  THEN UNCHANGED <<cmd, scaleBond>>
  ELSE cmd' = NoCmd /\ scaleBond' = (scaleBond /\ cmd.kind # "unpair")

\* The step after handle_unpair_request returned without unpairing.
AfterUnpair == IF ctx = "touch" THEN "settle" ELSE "render"

ApplyConfig(cfg) == IF cfg = "absent" THEN periodic ELSE cfg = "on"

\* Mutant: a success does not end the run of failures.
RememberRuntimeSettings_KeepFailures ==
  IF retained.valid THEN [retained EXCEPT !.periodicOff = ~periodic'] ELSE retained

\* remember_runtime_settings
RememberRuntimeSettings ==
  IF retained.valid
  THEN [retained EXCEPT !.failures = 0, !.periodicOff = ~periodic']
  ELSE retained

\* fetch_paired_state_once: apply_display_settings, remember_runtime_settings.
FetchOk(c, stable, calibrated, cfg, offer) ==
  /\ pc = "fetch" /\ Reachable
  /\ st' = Fetched(c, stable, calibrated, offer)
  /\ CommandRead
  /\ periodic' = ApplyConfig(cfg)
  /\ retained' = RememberRuntimeSettings
  /\ missed' = 0 /\ check' = "ok"
  /\ GoTo(IF cmd.kind = "unpair" THEN "unpair" ELSE AfterUnpair)
  /\ UNCHANGED <<nvs, touchPhase, ackPending, panel, wake, armed, nextCheck,
                 loaded, otaPending, ackVisible, refreshed, recover, ctx,
                 issued, ackScale, resets, drawn, faults>>

\* Out of range, refused, incompatible, or the control packet unreadable: its
\* answer may get lost after the Scale has served the read.
ControlReadLost ==
  \/ UNCHANGED <<cmd, scaleBond>>
  \/ Reachable /\ CommandRead

FetchFail ==
  /\ pc = "fetch"
  /\ ControlReadLost
  /\ missed' = IF missed < FailureCap THEN missed + 1 ELSE missed
  /\ check' = "failed"
  /\ GoTo("failed")
  /\ UNCHANGED <<nvs, rtc, panel, locals, issued, ackScale, resets, drawn, faults>>

\* External: the Scale completes the command an acknowledgement names, and
\* drops its own bond when that command is an unpair.
ScaleAcked(a) ==
  IF a.seen /\ cmd.id = st.id
  THEN cmd' = NoCmd /\ scaleBond' = (scaleBond /\ cmd.kind # "unpair")
  ELSE UNCHANGED <<cmd, scaleBond>>

\* Mutant: the result of the acknowledgement is ignored.
AfterUnpairAck_Ignored(a) == "forget"

\* A failed acknowledgement returns to the caller, which carries on rendering.
AfterUnpairAck(a) == IF a.ok THEN "forget" ELSE AfterUnpair

\* handle_unpair_request: acknowledge while the bond still authenticates.
Unpair(a) ==
  /\ pc = "unpair"
  /\ a.seen => Reachable
  /\ IF st.id # 0
     THEN /\ ScaleAcked(a)
          /\ GoTo(AfterUnpairAck(a))
     ELSE /\ UNCHANGED <<cmd, scaleBond>>
          /\ GoTo("forget")
  /\ UNCHANGED <<nvs, rtc, panel, locals, issued, ackScale, hist>>

ForgetPeer(w) ==
  /\ pc = "forget"
  /\ bond' = (bond /\ ~w)
  /\ GoTo("clear")
  /\ UNCHANGED <<paired, powerCycles, otaFlag, rtc, panel, locals, scale, hist>>

\* pairing_clear (its error is ignored), the zeroed s_retained and the
\* "DISPLAY UNPAIRED" screen; s_touch_phase is left as it is.
ClearPairing(w, o) ==
  /\ pc = "clear"
  /\ paired' = (paired /\ ~w)
  /\ ResetPowerCycles(w)
  /\ retained' = NoRetained
  /\ Draw(Message("pairing"), o)
  /\ GoTo("enterPairing")
  /\ UNCHANGED <<bond, otaFlag, touchPhase, ackPending, locals, scale, hist>>

\* Mutant: every unstable reading of a touch check earns another delay.
RetryTouch_Again == touchPhase # 0 /\ st.calibrated /\ ~st.stable /\ ~st.force

\* power_retry_touch: one more short delay while the beer is still moving.
RetryTouch == touchPhase = 1 /\ st.calibrated /\ ~st.stable /\ ~st.force

Settle ==
  /\ pc = "settle"
  /\ touchPhase' = IF RetryTouch THEN 2 ELSE touchPhase
  /\ GoTo(IF RetryTouch THEN "delay" ELSE "render")
  /\ UNCHANGED <<nvs, retained, ackPending, panel, locals, scale, hist>>

----------------------------------------------------------------------------
(* Rendering *)

\* Mutant: the offline screen is not remembered as a different picture.
ShouldRefresh_IgnoreOffline ==
  ~retained.valid \/ (st.stable /\ st.content # retained.content)

\* should_refresh
ShouldRefresh ==
  \/ ~retained.valid
  \/ retained.offline
  \/ st.stable /\ st.content # retained.content

\* Mutant: the restore after a failed update is not forced.
Forced_NotOnRestore ==
  ctx # "restore" /\ (st.force \/ (otaPending /\ ctx \in {"touch", "scheduled"}))

\* Mutant: only the pending OTA screen forces a refresh.
Forced_OtaOnly == otaPending /\ ctx \in {"touch", "scheduled"}

\* state.force_refresh_requested as render_if_needed sees it.
Forced == st.force \/ (otaPending /\ ctx \in {"touch", "scheduled"})

AfterRender == IF ctx \in {"touch", "scheduled"} THEN "post" ELSE "sleep"

RenderSkip ==
  /\ pc = "render" /\ ~Forced /\ ~ShouldRefresh
  /\ refreshed' = FALSE
  /\ GoTo(AfterRender)
  /\ UNCHANGED <<nvs, rtc, panel, wake, armed, nextCheck, loaded, otaPending,
                 ackVisible, recover, ctx, st, periodic, scale, hist>>

\* Mutant: the command is acknowledged whether or not the panel took the draw.
AfterDraw_AckAnyway(o) == IF Forced /\ st.id # 0 THEN "ack" ELSE AfterRender

\* A forced refresh that succeeded is acknowledged.
AfterDraw(o) == IF o.ok /\ Forced /\ st.id # 0 THEN "ack" ELSE AfterRender

DisplayedState == [valid |-> TRUE, content |-> st.content, failures |-> 0,
                   offline |-> FALSE, periodicOff |-> ~periodic]

\* Mutant: a picture is remembered before the panel took it.
RememberDisplayedState_Always(o) == DisplayedState

\* remember_displayed_state, for a draw that succeeded.
RememberDisplayedState(o) == IF o.ok THEN DisplayedState ELSE retained

\* display_ui_show_scale, then remember_displayed_state if it succeeded.
RenderDraw(o) ==
  /\ pc = "render" /\ (Forced \/ ShouldRefresh)
  /\ Draw(Keg(st.content), o)
  /\ drawn' = (drawn \/ o.shown)
  /\ refreshed' = o.ok
  /\ st' = [st EXCEPT !.force = Forced]
  /\ retained' = RememberDisplayedState(o)
  /\ GoTo(AfterDraw(o))
  /\ UNCHANGED <<nvs, touchPhase, ackPending, wake, armed, nextCheck, loaded,
                 otaPending, ackVisible, recover, ctx, periodic, scale,
                 resets, missed, check, faults>>

\* The completion acknowledgement of a forced refresh; it carries the whole
\* control_flags byte that was fetched.
AckRefresh(a) ==
  /\ pc = "ack"
  /\ a.seen => Reachable
  /\ ScaleAcked(a)
  /\ GoTo(AfterRender)
  /\ UNCHANGED <<nvs, rtc, panel, locals, issued, ackScale, hist>>

\* The OTA screen flag is cleared once the keg picture is back.
PostRender(w) ==
  /\ pc = "post"
  /\ otaFlag' = (otaFlag /\ ~(otaPending /\ refreshed /\ w))
  /\ GoTo(IF ctx = "touch" THEN "unbadge" ELSE "ota")
  /\ UNCHANGED <<paired, bond, powerCycles, rtc, panel, locals, scale, hist>>

CountFailure(n) == IF n < FailureCap THEN n + 1 ELSE n

\* initialize_retained_peer
InitializeRetainedPeer ==
  IF retained.valid THEN retained ELSE [NoRetained EXCEPT !.valid = TRUE]

\* record_scale_check_failure
RecordFailure(o) ==
  LET base == InitializeRetainedPeer
      n    == CountFailure(base.failures)
      show == n > OfflineThreshold /\ ~base.offline
  IN
  /\ pc = "failed"
  /\ IF show THEN Draw(Message("offline"), o) ELSE UNCHANGED panel
  /\ retained' = [base EXCEPT !.failures = n,
                             !.offline = base.offline \/ (show /\ o.ok)]
  /\ refreshed' = (show /\ o.ok)
  /\ GoTo(IF ctx = "touch" THEN "unbadge" ELSE "sleep")
  /\ UNCHANGED <<nvs, touchPhase, ackPending, wake, armed, nextCheck, loaded,
                 otaPending, ackVisible, recover, ctx, st, periodic, scale, hist>>

\* clear_touch_acknowledgement_if_needed and the end of the touch sequence.
EndTouch(o) ==
  /\ pc = "unbadge"
  /\ badge' = (badge /\ ~(ackVisible /\ ~refreshed /\ o.shown))
  /\ touchPhase' = 0 /\ ackPending' = FALSE
  /\ GoTo("sleep")
  /\ UNCHANGED <<nvs, retained, screen, locals, scale, hist>>

\* power_next_check_seconds
NextCheckSeconds(frequent, failures) ==
  CASE failures = 1 -> "5min"
    [] failures = 2 -> "15min"
    [] failures > 2 -> "safety"
    [] OTHER        -> IF frequent THEN "frequent" ELSE "safety"

\* go_to_sleep: the timer and the touch pad are both armed.
Sleep(w) ==
  /\ pc = "sleep"
  /\ ResetPowerCycles(w)
  /\ nextCheck' = NextCheckSeconds(periodic, retained.failures)
  /\ armed' = "full" /\ resets' = 0
  /\ GoTo("asleep")
  /\ UNCHANGED <<paired, bond, otaFlag, rtc, panel, wake, loaded, otaPending,
                 ackVisible, refreshed, recover, ctx, st, periodic, scale,
                 missed, drawn, check, faults>>

----------------------------------------------------------------------------
(* Firmware update *)

\* install_display_update_if_needed: nothing happens unless the protected
\* bundle was readable (approved) and matches the offer.
OtaCheck(w) ==
  LET approved == st.offer = "approved"
  IN
  /\ pc = "ota"
  /\ otaFlag' = (otaFlag \/ (approved /\ w))
  /\ GoTo(IF approved THEN "otaScreen" ELSE "sleep")
  /\ UNCHANGED <<paired, bond, powerCycles, rtc, panel, locals, scale, hist>>

OtaScreen(o) ==
  /\ pc = "otaScreen"
  /\ Draw(Message("updating"), o)
  /\ GoTo("otaInstall")
  /\ UNCHANGED <<nvs, rtc, locals, scale, hist>>

\* display_ota_install staged the image: esp_restart.
OtaInstalled ==
  /\ pc = "otaInstall" /\ faults < MaxResets
  /\ faults' = faults + 1
  /\ Restart("reset") /\ RtcLost
  /\ UNCHANGED <<nvs, panel, scale, resets, missed, drawn>>

OtaFailed(o) ==
  /\ pc = "otaInstall"
  /\ Draw(Message("updateFailed"), o)
  /\ GoTo("otaClear")
  /\ UNCHANGED <<nvs, rtc, locals, scale, hist>>

\* Clear the flag and render once more, forced.
OtaClear(w) ==
  /\ pc = "otaClear"
  /\ otaFlag' = (otaFlag /\ ~w)
  /\ st' = [st EXCEPT !.force = TRUE] /\ ctx' = "restore"
  /\ GoTo("render")
  /\ UNCHANGED <<paired, bond, powerCycles, rtc, panel, wake, armed, nextCheck,
                 loaded, otaPending, ackVisible, refreshed, recover, periodic,
                 scale, hist>>

----------------------------------------------------------------------------
(* Pairing mode *)

EnterPairing(o) ==
  /\ pc = "enterPairing"
  /\ Draw(Message("pairing"), o)
  /\ GoTo("scan")
  /\ UNCHANGED <<nvs, rtc, locals, scale, hist>>

\* No Scale, or more than one, is in pairing mode: show that and scan again.
ScanAgain(o) ==
  /\ pc = "scan"
  /\ Draw(Message("pairing"), o)
  /\ UNCHANGED <<nvs, rtc, pc, locals, scale, hist>>

\* Exactly one is: show the passkey and pair.  A pairing that fails may still
\* have left keys on either side.
PairOk(o) ==
  /\ pc = "scan"
  /\ Draw(Message("pairing"), o)
  /\ bond' = TRUE /\ scaleBond' = TRUE /\ cmd' = NoCmd
  /\ GoTo("validate")
  /\ UNCHANGED <<paired, powerCycles, otaFlag, rtc, locals, issued, ackScale, hist>>

PairRefused(o) ==
  /\ pc = "scan"
  /\ Draw(Message("pairing"), o)
  /\ bond' \in {bond, TRUE} /\ scaleBond' \in {scaleBond, TRUE}
  /\ GoTo("pairFail")
  /\ UNCHANGED <<paired, powerCycles, otaFlag, rtc, locals, cmd, issued,
                 ackScale, hist>>

\* validate_and_save_peer: fetch (one retry), pairing_save, success screen.
Validate(c, stable, calibrated, cfg, w, o) ==
  /\ pc = "validate" /\ Reachable
  /\ st' = Fetched(c, stable, calibrated, "none")
  /\ CommandRead
  /\ periodic' = ApplyConfig(cfg)
  /\ missed' = 0 /\ check' = "ok" /\ ctx' = "pair"
  /\ IF w
     THEN /\ paired' = TRUE
          /\ Draw(Message("paired"), o)
          /\ GoTo("render")
     ELSE GoTo("pairFail") /\ UNCHANGED <<paired, panel>>
  /\ UNCHANGED <<bond, powerCycles, otaFlag, rtc, wake, armed, nextCheck, loaded,
                 otaPending, ackVisible, refreshed, recover, issued, ackScale,
                 resets, drawn, faults>>

ValidateFail ==
  /\ pc = "validate"
  /\ ControlReadLost
  /\ GoTo("pairFail")
  /\ UNCHANGED <<nvs, rtc, panel, locals, issued, ackScale, hist>>

\* ble_client_forget_peer, pairing_clear, "PAIRING FAILED".
PairFail(forgot, w, o) ==
  /\ pc = "pairFail"
  /\ bond' = (bond /\ ~forgot)
  /\ paired' = (paired /\ ~w)
  /\ ResetPowerCycles(w)
  /\ Draw(Message("pairing"), o)
  /\ GoTo("scan")
  /\ UNCHANGED <<otaFlag, rtc, locals, scale, hist>>

----------------------------------------------------------------------------
(* External: the Scale queues a command; it never withdraws an unpair. *)

QueueCommand(kind) ==
  /\ scaleBond /\ issued < MaxCmds /\ cmd.kind # "unpair"
  /\ issued' = issued + 1
  /\ cmd' = [kind |-> kind, id |-> IF ackScale THEN issued + 1 ELSE 0]
  /\ drawn' = FALSE
  /\ UNCHANGED <<nvs, rtc, panel, pc, locals, scaleBond, ackScale,
                 resets, missed, check, faults>>

----------------------------------------------------------------------------
(* The steps of app_main, grouped by what they depend on. *)

RunDeterministic == Main \/ Settle \/ FetchFail \/ RenderSkip \/ ValidateFail

RunNvs == \E w \in NvsResults :
  \/ DelaySleep(w) \/ NoteReset(w) \/ RecoveryForget(w) \/ ForgetPeer(w)
  \/ PostRender(w) \/ Sleep(w) \/ OtaCheck(w) \/ OtaClear(w)
  \/ \E flagRead \in NvsResults, held \in BOOLEAN : Boot(w, flagRead, held)

RunDraw == \E o \in DrawOutcomes :
  \/ TouchAck(o) \/ RenderDraw(o) \/ RecordFailure(o) \/ EndTouch(o)
  \/ OtaScreen(o) \/ OtaFailed(o) \/ EnterPairing(o)
  \/ \E w \in NvsResults :
       \/ RecoveryClear(w, o) \/ ClearPairing(w, o)
       \/ \E forgot \in NvsResults : PairFail(forgot, w, o)

RunAck == \E a \in AckOutcomes : Unpair(a) \/ AckRefresh(a)

RunFetch == \E c \in Contents, stable, calibrated \in BOOLEAN, cfg \in Configs :
  \/ \E offer \in {"none", "offered", "approved"} :
       FetchOk(c, stable, calibrated, cfg, offer)
  \/ \E w \in NvsResults, o \in DrawOutcomes :
       Validate(c, stable, calibrated, cfg, w, o)

\* Pairing needs the user, an update that restarts needs the network.
RunUser == OtaInstalled \/ \E o \in DrawOutcomes : ScanAgain(o) \/ PairOk(o) \/ PairRefused(o)

Run == RunDeterministic \/ RunNvs \/ RunDraw \/ RunAck \/ RunFetch \/ RunUser

Environment ==
  \/ Crash \/ PowerCycle
  \/ \E cause \in {"timer", "touch"} : Wake(cause)
  \/ \E kind \in {"refresh", "unpair"} : QueueCommand(kind)

Next == Run \/ Environment

Spec == Init /\ [][Next]_vars

\* app_main keeps running, a started timer expires, the Scale is reachable
\* again and again, and a draw or an acknowledgement that is tried again and
\* again succeeds at some point.  Nothing is assumed of the user.
Fairness ==
  /\ WF_vars(Run) /\ WF_vars(Wake("timer"))
  /\ SF_vars(\E c \in Contents, stable, calibrated \in BOOLEAN, cfg \in Configs,
               offer \in {"none", "offered", "approved"} :
             FetchOk(c, stable, calibrated, cfg, offer))
  /\ SF_vars(\E o \in DrawOutcomes : o.ok /\ RenderDraw(o))
  /\ SF_vars(\E a \in AckOutcomes : a.ok /\ (Unpair(a) \/ AckRefresh(a)))

FairSpec == Spec /\ Fairness

----------------------------------------------------------------------------
(* Safety *)

\* Sleeping with the timer and the touch pad armed: the wake sequence is over.
Resting == pc = "asleep" /\ armed = "full"

\* When draws succeed: at rest, what s_retained says was drawn is what the panel
\* shows, without the touch acknowledgement, through movement, offline screens,
\* failed updates, crashes and power cycles.  should_refresh suppresses
\* redraws on the strength of this (main.c render_if_needed).
RetainedDescribesPanel ==
  Resting /\ retained.valid =>
    /\ retained.offline => screen = Message("offline") /\ ~badge
    /\ ~retained.offline /\ retained.content # Never
         => screen = Keg(retained.content) /\ ~badge

\* Draws may also fail, if they leave the panel as it was: then too the picture
\* that s_retained stands for is at rest on the panel, or the screen of an update
\* that failed still is.  Nothing else is ever taken for drawn, so the next check
\* draws again (docs/epaper-wake-regression-tests.md: "Failed drawing preserves
\* retained state"; remember_displayed_state, record_scale_check_failure).
FailedDrawsRetried ==
  Resting /\ retained.valid /\ screen.kind \notin {"updating", "updateFailed"} =>
    /\ retained.offline => screen = Message("offline")
    /\ ~retained.offline /\ retained.content # Never => screen = Keg(retained.content)

\* When draws succeed: a check that fetched a stable reading ends with that
\* reading on the panel, whichever picture was there before it.
ShowsLatestStableReading ==
  Resting /\ check = "ok" /\ st.stable => screen = Keg(st.content) /\ ~badge

\* At rest the timer follows the latest check: never the frequent interval
\* after a failed one, and no back-off left over after a successful one
\* (power_next_check_seconds with the retained failure count).
TimerFollowsLatestCheck ==
  Resting =>
    /\ check = "failed" => nextCheck # "frequent"
    /\ check = "ok" => nextCheck = IF periodic THEN "frequent" ELSE "safety"

\* The offline screen appears only after more than OfflineThreshold checks
\* failed in a row, whatever resets wiped the retained counter in between
\* (record_scale_check_failure).
OfflineOnlyAfterRealMisses ==
  [][screen' = Message("offline") /\ screen # Message("offline")
       => missed > OfflineThreshold]_vars

\* Deep sleep is for paired displays: one without a stored pairing stays in
\* pairing mode, whatever part of recovery, unpairing or saving the new peer
\* failed or was cut short (app_main, enter_pairing_mode).
SleepsOnlyPaired == pc = "asleep" => paired

\* A run that started without the button asks for recovery only after
\* RecoveryPowerCycles hardware resets with no deep sleep in between
\* (pairing_note_power_cycle, pairing_reset_power_cycle_count).
RecoveryNeedsResets ==
  [][pc = "start" /\ ~recover /\ recover' => resets >= RecoveryPowerCycles]_vars

\* A display that serves an unpair command erases its pairing only once an
\* acknowledging Scale has completed the command (handle_unpair_request).
UnpairOnlyAfterAck ==
  [][pc = "clear" /\ paired /\ ~paired' /\ ackScale => ~scaleBond]_vars

\* A refresh command is completed only after the keg picture was drawn since
\* that command was queued, though a later command may have replaced the one
\* the display fetched (render_if_needed).
RefreshAckedAfterDraw ==
  [][ackScale /\ cmd.kind = "refresh" /\ cmd'.kind = "none" /\ pc # "scan"
       => drawn]_vars

\* How far a run is from rest: its place in app_main, a pass through it for
\* every pour delay the touch may still take, and 0 at rest and in pairing mode.
\* The first render of a run is followed by the update check, which ends in
\* the second.
Position ==
  [delay |-> 24, asleep |-> 23, boot |-> 22, badge |-> 21, start |-> 20,
   forgetR |-> 19, clearR |-> 18, main |-> 17, fetch |-> 16, unpair |-> 15,
   forget |-> 14, clear |-> 13, settle |-> 12, failed |-> 11, post |-> 9,
   ota |-> 8, otaScreen |-> 7, otaInstall |-> 6, otaClear |-> 5, render |-> 3,
   ack |-> 2, unbadge |-> 2, sleep |-> 1]

DelaysLeft ==
  IF pc = "badge" \/ (pc = "boot" /\ wake = "touch") THEN 2
  ELSE IF touchPhase = 1 THEN 1 ELSE 0

FirstRender == pc \in {"render", "ack"} /\ ctx \in {"touch", "scheduled"}

InPairingMode == pc \in {"enterPairing", "scan", "validate", "pairFail"}

Left == IF Resting \/ InPairingMode THEN 0
        ELSE Position[pc] + (IF FirstRender THEN 8 ELSE 0) + 25 * DelaysLeft

\* Every wake ends: outside pairing mode each step of app_main and each pour
\* delay bring the display closer to rest, whatever draw, flash write, fetch
\* or acknowledgement fails, so that a touch delays it at most twice and a
\* failed update renders once; only a reset starts over
\* (power_retry_touch, sleep_for_touch_delay, install_display_update_if_needed).
WakeAdvances ==
  [][~Resting /\ ~InPairingMode /\ pc' # pc => Left' < Left \/ faults' > faults]_vars

----------------------------------------------------------------------------
(* Liveness *)

\* A command the Scale holds is completed in the end, unless the display is in
\* pairing mode or the bond that authenticates it is gone.
CommandsComplete ==
  cmd.kind # "none" ~> (cmd.kind = "none" \/ pc = "scan" \/ ~Reachable)

----------------------------------------------------------------------------
(* What the documentation says of the display, and the code does not do *)

\* docs/ble_protocol.md: after a failed unpair acknowledgement the display
\* remains paired and the command stays pending; so a display that sleeps
\* paired has a Scale that still holds the bond.
FailedUnpairAckKeepsBond == pc = "asleep" /\ paired /\ ackScale => scaleBond
============================================================================
