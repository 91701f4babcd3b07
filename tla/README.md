# KegScale displays: a TLA+ model

This directory models the firmware of the KegScale displays in TLA+: the
battery-powered **e-paper display** (`main/`, `components/`), the mains-powered
**touchscreen** (`touchscreen/`) and the **TouchPour** tap controller
(`touchpour/`). The modules are checked with TLC on small instances and the
most important properties are proved with TLAPS for every value of the
constants. All paths below are relative to the repository.

## 1. Inventory

| component | state it keeps | operations | hard behaviour |
|---|---|---|---|
| e-paper: `main/main.c` (`app_main`) | RTC memory (`s_retained`, `s_touch_phase`, `s_touch_ack_pending`), NVS flag `ota_screen`, the locals of one run | boot, touch acknowledgement, pour delay, fetch, render, unpair, update, pairing mode, sleep | every run is a fresh start; each link between runs is kept in a different memory that survives a different set of resets |
| e-paper: `pairing.c` | NVS: pairing record, power-cycle counter | load, save, clear, count resets | reads and writes fail; power is lost between two writes |
| e-paper: `ble_client.c` | NimBLE bond store, one connection at a time | scan, pair, fetch, fetch bundle, acknowledge, forget | the Scale is out of range, drops the bond, or its answer is lost |
| e-paper: `display_ui.c`, `epaper.c` | RAM frame, RTC copy of the last frame, the panel | full, partial and changed-area refresh | a refresh that times out after the panel took it |
| e-paper: `display_ota.c` | the spare partition, the Wi-Fi context | connect, download, verify, stage, confirm | Wi-Fi events beside the main task; power loss, wrong images, retries |
| e-paper: `touch_wake.c` | touch sensor thresholds | arm | analogue; not modelled |
| touchscreen: `main.cpp`, `connection_*.cpp`, `pairing_guard.cpp` | connection slots and generations, frame queue, sequence numbers, data age | connect over Wi-Fi, handshake, pair, receive, disconnect, retire | WebSocket event tasks, the retirement worker, the pairing guard and the main loop interleave through a bounded queue |
| touchscreen: `controller_link.c` | framing state | encode, decode | partial and corrupt frames |
| touchscreen: setup, pairing overlay, update, UI | screens, discovery results | HTTP provisioning, LVGL | I/O and layout; not modelled |
| TouchPour: `app.cpp`, `control.h`, `button_gesture.h` | valve state, gesture, manual hold, command queue | start, half, stop, test, manual fill, safety stop | a 10 ms controller task against the web server, the UI and the button |
| TouchPour: `pour_history.cpp` | flash ring of finished pours | append, restore | power loss in the middle of an append |
| TouchPour: `pin_lock.cpp` | NVS: PIN, failure count | set, unlock, lock | storage that fails |
| TouchPour: `network.cpp` | HTTP handlers under a mutex | settings, commands, update | stale state between handler and controller |
| TouchPour: audio, foam capture, distance filter, UI, board, vendored sensor driver | samples, widgets | - | signal arithmetic and peripheral output; not modelled |

How they interact. The Scale is the BLE peer of both displays: it advertises,
holds a bond per display, and queues at most one command per display (refresh or
unpair) which the display reads with its fetch and completes with an
acknowledgement write. `app_main` calls `pairing`, `ble_client`, `display_ui`
and `display_ota` in turn and then sleeps; nothing runs concurrently with it in
the same processor except the NimBLE host task, whose callbacks it waits for.
Inside the TouchPour controller the HTTP handlers, the UI and the button hand
commands to the controller task through a queue of four and shared atomics.

Between its Wi-Fi start and stop the e-paper display also runs the Wi-Fi event
task. The touchscreen runs a main loop, one event task per WebSocket, a worker
that destroys old sockets, a pairing guard and the UI; they share the connection
slots and a queue of eight frames. What makes each part correct is listed with
the properties below.

## 2. Modules

| module | system | composed with | proofs |
|---|---|---|---|
| `DisplayWake` | the e-paper display from reset to deep sleep, with the Scale's commands | uses the promise of `Panel` | `DisplayWakeTypes`, `DisplayWakeProofs` |
| `Panel`, `EpaperFrame` | what a draw promises; frame buffer, RTC copy and panel that implement it | `EpaperFrame` refines `Panel` | `EpaperFrameProofs` |
| `ScaleFetch` | one BLE fetch read by read, with its GATT cache | | `ScaleFetchProofs` |
| `AtomicUpdate`, `DisplayUpdate` | what a firmware update promises; the offer, the BLE transfer, Wi-Fi, download, staging and boot that implement it | `DisplayUpdate` refines `AtomicUpdate` | `DisplayUpdateProofs` |
| `ScreenConnection` | a touchscreen slot: main loop, socket, retirement worker, pairing guard and Scale | | `ScreenConnectionProofs` |
| `Tap`, `PourControl` | what the tap promises, seen from outside; the TouchPour controller tick with everything that drives it | `PourControl` refines `Tap` | `PourControlProofs` |
| `Recorder`, `PourHistory` | the life of one pour's record; the flash ring of finished pours, its writer and its readers | `Tap` extends `Recorder`, `PourHistory` refines it: the two sides of `history_saving` | `PourHistoryProofs` |

Each has an `MC` module and a run per question. Two runs are expected to fail:
they show where the documentation says otherwise. Other disagreements met while
modelling are described with their module under "Known disagreements".

## 3. DisplayWake

### 3.1 Correspondence

The control location `pc` is the position in `app_main`; one action is a stretch
of it with one effect on NVS or on the Scale (a draw that follows such an effect
belongs to the same action).

| variables | code |
|---|---|
| `paired`, `powerCycles` | NVS namespace of `pairing.c` |
| `bond` | NimBLE's own store |
| `otaFlag` | `KEY_OTA_SCREEN_PENDING` |
| `retained` | `s_retained`: `valid` is `retained_matches_peer`, `content` everything `should_refresh` compares, `Never` the content of a record nothing was drawn for (`battery_percent = 255`) |
| `touchPhase`, `ackPending` | `s_touch_phase`, `s_touch_ack_pending` |
| `screen`, `badge` | the picture on the panel, the touch acknowledgement over it |
| `wake`, `loaded`, `otaPending`, `ackVisible`, `refreshed`, `recover`, `ctx`, `st`, `periodic` | the locals and statics of one run |
| `armed`, `nextCheck` | what `sleep_for_touch_delay` / `configure_wake_sources` armed |
| `cmd`, `issued`, `scaleBond`, `ackScale` | the Scale (external): the command it holds, the bond it holds, whether its firmware has the acknowledgement characteristic |
| `resets`, `missed`, `drawn`, `check`, `faults` | history, read by properties and by bounds only |

| part of `app_main` | actions |
|---|---|
| reset, wake, boot | `Crash`, `PowerCycle`, `Wake`, `Boot` |
| touch acknowledgement and pour delay | `TouchAck`, `DelaySleep`, `Settle`, `EndTouch` |
| power-cycle recovery | `NoteReset`, `RecoveryForget`, `RecoveryClear` |
| fetch | `Main`, `FetchOk`, `FetchFail`, `RecordFailure` |
| unpair | `Unpair`, `ForgetPeer`, `ClearPairing` |
| render and acknowledge | `RenderSkip`, `RenderDraw`, `AckRefresh`, `PostRender` |
| firmware update | `OtaCheck`, `OtaScreen`, `OtaInstalled`, `OtaFailed`, `OtaClear` |
| pairing mode | `EnterPairing`, `ScanAgain`, `PairOk`, `PairRefused`, `Validate`, `ValidateFail`, `PairFail` |
| sleep | `Sleep` |
| the Scale (external) | `QueueCommand`, and what `FetchOk`, `Unpair`, `AckRefresh` do to `cmd` |

Failure is a parameter. `DrawOutcomes` says what an e-paper update may return
and whether the panel took it, `AckOutcomes` the same for an acknowledgement
write, and `NvsFaults` lets every NVS read and write fail (a call that fails has
written nothing). Crashes and power cycles may strike at any step.

Left out: the erase-and-retry of `init_nvs`, the battery reading, the legacy
touch calibration flag, the touch threshold. One Scale is modelled; `s_retained`
is zeroed when the peer changes, so a second one adds no state.

### 3.2 Runs

| run | question | result |
|---|---|---|
| `wake_panel` | with working draws and flash, does RTC memory describe the panel, do the timer, the offline screen and recovery follow the real history? `RetainedDescribesPanel`, `ShowsLatestStableReading`, `TimerFollowsLatestCheck`, `OfflineOnlyAfterRealMisses`, `RecoveryNeedsResets` | holds |
| `wake_faults` | with failing flash and lost acknowledgements, does only a paired display sleep, is a bond given up only after the unpair was acknowledged, does every wake end? `SleepsOnlyPaired`, `UnpairOnlyAfterAck`, `WakeAdvances` | holds |
| `wake_commands` | with failing draws and lost acknowledgements, is a picture remembered only when it is on the panel, is a refresh acknowledged only after it was drawn, are commands completed? `FailedDrawsRetried`, `RefreshAckedAfterDraw`, `CommandsComplete` | holds |
| `wake_unpair_ack` | "If the write fails, the display remains paired and retries" (`docs/ble_protocol.md`) | violated |

`WakeAdvances` gives each position of a run a number that every step outside
pairing mode lowers, the pour delays and the restore after a failed update
included, or else the step is a reset. It is the part of "every wake ends" that is
a property of steps: it holds with no fairness, whatever fails, and rules out the
loops a battery would pay for (a delay after a delay, an update tried again by the
render that follows it). Pairing mode is excepted because it scans until the user
acts.

*`wake_unpair_ack`*, step by step. One fetch brings an unpair and an approved
update. The unpair acknowledgement fails, `handle_unpair_request` returns `false`,
and `app_main` goes on: it draws the reading, announces the update and tries to
install it, which fails. The keg picture is then drawn back by a forced render
with the same fetched state; it succeeds and acknowledges the command in that
state, which is the unpair. The Scale drops the bond; the display sleeps paired
and can never encrypt again until the user resets it. A render forced because the
screen of an earlier update is still pending does the same; TLC reports the
former.

Known disagreements, not run:

- A touch check is served an unpair. `s_retained` is zeroed but `s_touch_phase`
  is not; the display is paired again in the same run, sleeps, and its next
  scheduled wake is taken for the end of a pour delay (`docs/power-management.md`:
  "Scheduled wakes fetch once, without the acknowledgment or pour delay"). That is
  bounded only: such a wake takes one delay at most (`WakeAdvances` holds from every
  state, those with a stale phase included).
- After a failed update the flag in NVS is cleared before the keg picture is drawn
  back. If that draw fails, "UPDATE FAILED" stays until the reading changes, since
  `s_retained` still matches it (`docs/epaper-wake-regression-tests.md`: "Failed
  drawing preserves retained state so the next check can retry"). `FailedDrawsRetried`
  shows that this is the only picture that can stay wrong in this way.

Bounds. Two readings distinguish "same" from "changed"; one is enough where no
property compares readings. `OfflineThreshold` is 1 (0 where it does not matter)
and `FailureCap` two above it, so that a run of failures passes the threshold and
reaches saturation. `RecoveryPowerCycles` is 3 as in the code (2 where it does not
matter), `MaxResets` 3 where recovery is asked about, so that three resets can
happen both with and without a sleep between them. `MaxCmds` 2 lets a command be
replaced between a fetch and its acknowledgement. `MaxCmds` and `MaxResets` are
the only guards that bound the model.

Fairness (`wake_commands`). `WF(Run)`: `app_main` is straight-line code that does
not stop by itself. `WF(Wake("timer"))`: a timer is armed before every deep
sleep. Strong fairness of a successful fetch, draw and acknowledgement: the
Scale comes into range again and again and what is retried succeeds some time.
Nothing is assumed of the user: the steps that need one (pairing, an update that
restarts the display) are not fair, and pairing mode is an accepted end.

### 3.3 Proofs

`DisplayWakeTypes` proves `TypeCorrect` (`Spec => []TypeOK`), one lemma per action.
`DisplayWakeProofs` proves ten properties, all but liveness, for every set of readings, any
number of commands, crashes and resets, and any outcomes allowed by
`WakeAssumption` (success means that the panel, or the Scale, took it):

| theorem | invariant behind it |
|---|---|
| `SleepsOnlyPairedHolds` | `PairedInv`: past the branch on the loaded peer, a pairing is stored; before it, `loaded` implies one. Needed because `Sleep` itself does not look at the pairing. |
| `UnpairOnlyAfterAckHolds` | `UnpairInv`: command ids grow and an acknowledging Scale's command has one; between the fetch and the acknowledgement the Scale still holds the unpair that was fetched; after it the Scale has dropped the bond. |
| `RefreshAckedAfterDrawHolds` | `RefreshInv`: at the acknowledgement either the keg picture was drawn since the Scale's command was queued, or the ids differ, and a later command is not completed. |
| `WakeAdvancesHolds` | none beyond `TypeOK`: each step lowers `Left` by its own effect. `LeftIsNat` adds that `Left` is a natural number, so that a wake has a bounded number of steps. |
| `RecoveryNeedsResetsHolds` (`~NvsFaults`) | `RecoveryInv`: the stored counter never exceeds the resets since the last sleep. |
| `OfflineOnlyAfterRealMissesHolds` (`~NvsFaults`) | `OfflineInv`: the retained counter never exceeds the real run of misses, and is zero in an unpaired display. |
| `TimerFollowsLatestCheckHolds` (`~NvsFaults`) | `NewPeerInv` and `TimerInv`: nothing is retained without a loaded peer, and from the check to the sleep the retained failures are zero exactly when the check succeeded. |
| `RetainedDescribesPanelHolds`, `ShowsLatestStableReadingHolds` (`~NvsFaults`, `AllDrawsSucceed`) | `PictureInv`: except while an update is announced or its screen replaced, what is retained is on the panel, and a stable reading is retained once rendered. `BadgeInv`: an acknowledgement still on the panel belongs to a touch sequence that will remove it, or nothing is retained of any picture, so that the next check redraws. |
| `FailedDrawsRetriedHolds` (`~NvsFaults`, `FailedDrawsLeavePanel`) | `DrawnInv`: the property at every step and not only at rest, with `NewPeerInv`: pairing screens are drawn only while nothing is retained. |

`FailedDrawsRetriedHolds` is about displays whose draws may fail, as
`RetainedDescribesPanelHolds` is about those whose draws succeed; it asks less (a
touch acknowledgement that could not be removed may stay, and so may the screen of
an update) but of more runs. A draw that fails after the panel took it is
excepted by `FailedDrawsLeavePanel`; see `LateFailures` in the next section.

The last six need a working flash: a counter whose reset failed, or a stored
pairing that could not be read, breaks the first three in the code as in the model,
and the other three are proved under the same condition. Two about the panel
also need every draw to succeed: after a failed one `s_retained` keeps the
picture before it.

Only model-checked: liveness, which is out of the prover's reach.

## 4. EpaperFrame and Panel

`DisplayWake` draws through a call that either reached the panel or did not.
`Panel` states that promise and `EpaperFrame` models the code behind it, in
`display_ui.c` and `epaper.c`.

| variables | code |
|---|---|
| `retained` | `s_retained_frame` (RTC): frame, validity, partial refreshes so far |
| `scaleMagic` | `s_scale_screen_magic` (RTC) |
| `panel` | the picture on the SSD1680; its two RAM planes are rewritten by each refresh and are not state |
| `done` | the call that last returned `ESP_OK` |
| `sinceFull` | history: changed-area updates since a full one |

A frame maps byte cells to inks, so that the window arithmetic of a partial
refresh (byte columns, unaligned last column) is in the model while fonts and
layout are not. `s_framebuffer` is not state: every call renders before it uses
it. A refresh ends in one of `Outcomes`: it fails before the panel was activated,
power is lost after, it completes, or it completes and the panel does not go to
sleep; with `LateFailures` it may also return an error after the panel took it.
The setup QR screen is left out: it draws in the acknowledgement's area and is
never followed by an acknowledgement.

| run | question | result |
|---|---|---|
| `frame_panel` | does the drawing path, with its changed-area refreshes, implement `Panel`? `PanelPromise` | holds |

Known disagreement, not run: with `LateFailures`, the refresh of the
acknowledgement may time out after the panel took it. The retained frame still
says there is none, so the next screen is compared with a baseline that is not on
the panel and the acknowledgement stays. The run and the proofs take the panel to
refuse what it reports as failed (`LateFailures = FALSE`).

Bounds: 3 byte columns (one unaligned) and 2 rows contain an acknowledgement
corner, an unaligned column and cells outside both; 5 layouts differ inside,
outside and across that corner; `Interval` 4 lets the counter reach its limit.

Proofs (`EpaperFrameProofs`), for every panel size, rectangle, layout and
interval, under `~LateFailures`: `TypeCorrect`, `BaselineIsPanelHolds`,
`GhostingBoundedHolds` and `ImplementsPanel`. All rest on `FrameInv`: the type invariant, a valid retained
frame is the panel's frame (`BaselineIsPanel`), ghosting is bounded, and the panel
took no more changed-area updates in a row than the retained frame counted. It is
preserved because the retained frame is written only after the panel completed a
refresh, nothing but a reset can come between the two, and a reset wipes RTC
memory, so that it leaves no baseline rather than a wrong one. A refresh that the
panel refused leaves both as they were. Nothing invalidates the retained frame
before a refresh; this is why the argument needs `~LateFailures`.

## 5. ScaleFetch

One call of `ble_client_fetch_mode`, one action per characteristic read or write
with its failure, `FetchStep` being their disjunction. Between any two of them the
Scale may be edited and commanded (`EditProfile`, `EditConfig`, `QueueCommand`);
between two connections it may be upgraded or another Scale paired (`Upgrade`,
`Pair`). `Reset` loses RTC memory and with it the cache. `SaveThreshold` is
`ble_client_save_touch_threshold`, which discovers handles of its own, edits the
configuration and gives up the cache when its write was confirmed.

Abstractions. A profile or configuration is the number of edits it took; on the
wire its revision is that number modulo `RevMod` (256 in the code), and
`FetchAssumption` keeps a run below one wrap: 256 edits between two checks do
defeat the revision check, in the code as in the model. The ten handles are the
firmware they were discovered from, which also stands for the identity string
that tells a stale cache. The read of the update offer is left out.

| run | question | result |
|---|---|---|
| `fetch_cache` | are cached handles never written through unchecked, is a cached name never older than the revision it is stored under, is a command the display can acknowledge left with the Scale until it does, does every fetch return? `WritesHitTheirCharacteristic`, `NameOfItsRevision`, `CommandSurvivesRead`, `FetchReturns` | holds |

Known disagreement, not run: when the touch configuration of a full fetch cannot
be read, the fetch succeeds and stores the threshold it does not have under the
revision it read; touch checks then reuse it ("Unchanged keg names and touch
thresholds are reused", `docs/power-management.md`) until the configuration is
edited. For the same reason the threshold has no property like
`NameOfItsRevision`, which TLC refutes: a touch check takes the cached threshold,
the control read fails, the reads start again over the same `state`, the
configuration is edited in between and the threshold cannot be read; the fetch
then returns the old threshold under the new revision.

`CommandSurvivesRead` is what `DisplayWake` takes for granted when a fetched
command may be acknowledged later. The Scale clears a command that is read by a
display which has not announced acknowledgements; that announcement is the display
info write of the same fetch, and the code goes on without it only where the
Scale could not be acknowledged anyway.

Bounds: two Scales and two firmwares (one with the acknowledgement
characteristic) give every combination of stale and fresh cache; three changes
allow one before, one during and one after the fetch that fills the cache.

Fairness: `WF(FetchStep)`. Every connection, discovery, read and write of the code
has a timeout, so a step always ends, in success or in failure.

Proofs (`ScaleFetchProofs`): `TypeCorrect`, `WritesHitTheirCharacteristicHolds`,
`NameOfItsRevisionHolds`, `CommandSurvivesReadHolds` and `FetchAdvancesHolds` for
any number of Scales, firmwares and changes. Their
invariant `FetchInv` adds to the properties that no revision seen so far exceeds
the Scale's current one (`ProfileIsPast`), that a name is at least as new as the
revision read before it, in the cache and in the fetch under way (`CachedName`,
`ReadingName`), that from the identity check on the handles in use belong to
the firmware (`CheckedHandles`), and that a Scale which acknowledges has had the
report before the control read (`ReportedFirst`; without `CheckedHandles` it says
nothing of the Scale at the other end). `FetchReturns` is liveness and only
model-checked; `FetchAdvances`, that every step of a fetch lowers a bounded measure
because the cache is given up at most once, is its safety half and is proved, not
run.

## 6. PourControl

The controller task is a 10 ms loop under `state_mutex`. The HTTP handlers and the
sensor take that mutex; the touch screen's task, the PIN lock, the touch driver's
stop and the history writer do not. A tick is therefore two actions: `TickBegin`
(button, sensor, stops, deadlines) and `TickEnd` (the queue, the button's action,
the servo, the history), and what takes no mutex may act between them.

| variables | code |
|---|---|
| `settings` | `settings`, `half_stop_mm` |
| `sample` | `sample`, its age, and whether `control.seen` has its sequence number |
| `tap` | `control`, `manual_hold`, `servo_us`, and the locals of `controller_task`: `manual_deadline`, `web_operation`, `selected_settings` (`target`), `button` |
| `tick`, `pc` | the locals that live from the first half of a tick to the second |
| `queue` | `actions` |
| `flags` | `stop_requested`, `setup_mode`, `pin_lock::locked`, `history_saving`, `manual_test_active`, and `recording` of the history |
| `update`, `updateClosed` | progress of `firmware_upload`, `update_closed` |
| `pwm` | external: the LEDC driver accepts commands |
| `hist` | history: who opened the tap, and whether the contact under way has been used |

| part of the code | actions |
|---|---|
| `controller_task` | `TickBegin`, `TickEnd` |
| `ui.cpp` and touch driver | `UiStart`, `OpenSetup`, `CloseSetup`, `LockTap`, `UnlockTap`, `RequestStop` |
| web server | `WebAction`, `Configure`, `WifiSave`, `UpdateBegin`, `UpdateClosed`, `UpdateDone`, `UpdateFails` |
| `sensor_task`, `writer_task` | `SensorRead`, `Saved` |
| hardware | `PwmChanges`, `Reset` |

Abstractions. A distance is the zone it falls in (`full`, `half`, `cup`, `far`,
`gone`), raw and smoothed separately; "within the stable band" and "within the jump
limit" are one part of the reading (`steady`). Times are ages in ticks, counted up
to the limit they are compared with, so a wrap of the 32-bit clock is not in the
model. The screen's own checks before a `START` are made earlier and may be stale,
so the action does not repeat them; it does keep the lock, which only the screen's
own task changes. The history partition is assumed to be there; sound, foam
capture and wording are left out.

| run | question | result |
|---|---|---|
| `pour_tap` | full and half pours, manual fill and tests from screen, button and web page, with stops, the lock, Setup, restarts and missing readings anywhere between. Is a pour ever past its limits, is a stop lost, does one contact start two things, is it still the tap that `Tap` promises? `WatchedPour`, `StopShuts`, `ContactStartsOnce`, `TapPromise` | holds |
| `pour_update` | upload and settings with a controller about to start, failing PWM: is flash written only with the tap shut, does every pour end? `UpdateShut`, `PourEnds` | holds |

`Tap` is the controller without ticks, queue, button or sensor: the tap is open for
one thing at a time; a pour starts only with no record open or being saved, and a
local one only while the tap is unlocked; it gets another tick only below its limit
and, if local, unlocked; a test waits until the record is saved; an upload begins
and ends with nothing running. `TapPromise` is that every step of `PourControl` is
one step of `Tap` or none, under the mapping `Flow`, `Ran`, `Phase`. It contains
two properties that are stated and proved on their own, `LockedTapStaysShut` and
`OneRecordPerPour`, and that the runs therefore do not repeat.

Servos are calibrated in both runs. For one that is not, the code differs in one
place: a failed PWM command at the deadline of a servo test is not repeated,
because `manual_deadline` is cleared all the same and only a calibrated servo is
commanded again by the next ticks.

Bounds. `Outside`, `UiKinds`, `WebKinds` and the readings select what a run asks
about; between them the runs fire every action. Limits are a few ticks; in
`pour_tap` they keep the order they have in the code with its default settings
(`Window` < `Recovery` <= `Stale` < `MaxPour`, `Debounce` < `Hold`). `Window` is 2
because a tick ages the pour before it looks at the reading: a missing reading in
the first tick is then tolerated, a later one is not. The newest reading of a pour
is at least one tick old when it starts, so a missing reading in its first tick is
followed by the recovery deadline at 3 ticks before the stale limit at 4; a pour
without one can run into the stale limit before the time limit at 5. (With the
default settings the recovery deadline and the stale limit are equal; `stale_ms` can
be raised.) Each of the three ends some pour of the run that neither of the others would end in that tick.
What the run does not have is a second missing reading within the window;
`WatchedPourHolds` covers it. In exchange for these limits the PWM driver does not
fail in `pour_tap`; it does in `pour_update`, and the theorems about all safety
properties of both runs hold with a driver that fails at any time. `pour_update`, which is
about order and not about limits, shortens them further; there the sensor only ever
sees a cup. A queue of one is enough for an action to be taken after the state it
was sent in is gone.

Fairness (`pour_update`): `WF(Tick)`. The controller has the highest priority of the
tasks that take the mutex (8), no task waits while holding it except for flash, and
the task itself only delays. The pin's level is not fair: the button may be stuck.
`PourEnds` does not promise a closed position while the PWM driver refuses commands.

Proofs (`PourControlProofs`), for any settings, readings, actions, outside events and
limits: `TypeCorrect`, `WatchedPourHolds`, `StopShutsHolds`, `LockedTapStaysShutHolds`,
`ContactStartsOnceHolds`, `OneRecordPerPourHolds`, `UpdateShutHolds` and the refinement
`ImplementsTap`. Of the limits
only `Window <= Recovery` is assumed beyond their being positive; `control.h` has
`startup_dropout_window_ms = 250` and `startup_recovery_ms = 350`, and with the two the
other way round a dropout could be excused when its recovery deadline has passed. The
inductive invariant `Inv` has these parts:

- `TapInv`: an automatic pour, a manual fill and a servo test exclude one another, and
  the contact that is there while one of them runs is used up or has already been
  reported. No property below holds without it: it is what makes a start from a
  contact or from the queue find the tap shut;
- `Timely`: the limits of `WatchedPour`. A tick advances the clocks and then compares
  them, and what starts in its second half starts at zero on a reading that is fresh;
- `IdleInv`: between ticks `manual_test_active`, `recording` and `web_operation` tell
  what the tap is doing. They are set at the end of a tick and read outside it, for
  example by the handlers that refuse settings and uploads;
- `TickInv`: in the middle of a tick a stop has been carried out, and neither a held
  contact nor a ready cup survives a pour that has just ended. Without it a stop taken
  in the first half could be undone by the second, and a pour could end and start in
  one tick and share its record;
- `HistInv`: a record is open whenever the tap pours and never while the last one is
  saved, the history variables say who opened the tap, and a used contact stays blocked or reported until it is
  released;
- `UploadInv`: an upload begins between ticks with nothing running, and no tick gets
  past its stop check until the upload ends; what `update_closed` reported therefore
  still holds when flash is written.

The steps are proved bottom-up as the code is built: lemmas on the gesture
(`GestureFacts`), `Control::update` (`ControlFacts`), the sensor half (`SensorFacts`),
stops (`ShutFacts`), the queue (`PerformFacts`, `HoldFacts`) and the servo
(`SettleFacts`, `RestFacts`), then one lemma per action. Each of these also says which
step of `Tap` its action is (`TapStep`): a tick's first half is `Run`, `Shut` or a
stutter, its second half `Open`, `Run`, `Test`, `Shut` or a stutter. `PourEnds` is
liveness and
stays with TLC.

## 7. ScreenConnection

One slot of the touchscreen and the Scale it belongs to. Each action is what one
task does between two points where another may come in: a frame taken from the
queue (`OnFrame`), a user action (`Action`), a deadline of the main loop
(`Housekeeping`), an event of the socket, of Wi-Fi or of the worker
(`Background`), a step of the pairing guard (`GuardTask`). Only `connect_scale`
is cut in two, at the HTTP request it makes for a slot that is not paired
(`ProbeEnds`), because sockets and the guard go on meanwhile.

| variables | code |
|---|---|
| `ram`, `nvs` | the slot's profile in RAM and in flash: host, pairing key, selected |
| `conn` | `ScaleConnection`: `ws` is the handle and what its task still does, `old` the handles with the worker, `retiring` is `retirement_pending`, then `authenticated`, `handshake_ready`, `online`, the session key, `retry_connection`, the cancellation and the command that waits; `lost` is history |
| `frames` | the queue of `Frame`; a frame of an older generation is `stale` |
| `main`, `wifi`, `rearm` | where the main loop is, `wifi_ready`, a queued `pairing_rearm` |
| `guard` | the locals of `pairing_guard_task` |
| `scale` | external: its pairing, its session and what the display sent |

Abstractions. Generations are compared only for equality with the current one,
so raising it turns the queued frames into `stale`. A key is the number of the key
agreement that made it, and encryption is that both ends have the same number.
Times are not modelled: a deadline may pass whenever it is armed. The other slot
exists through the places it takes in the queue and by being selected.

| run | question | result |
|---|---|---|
| `screen` | is there ever a second socket, trust in a key that is not saved, a command that runs late, a removed pairing that returns, a pairing in use that the guard removes, a paired slot with nothing under way to connect it? `OneSocket`, `AuthenticatedIsSaved`, `NeverStranded`, `NoLateCommand`, `GuardSparesPairing`, `ForgottenStaysForgotten`, `Reconnects` | holds |
| `screen_stranded` | "The slot clears authenticated/session state and schedules its normal 10-second reconnect" (`docs/touch-connection-regression-tests.md`) | violated |

In `screen_stranded` the socket ends while the frame queue is full. Its event
handler has marked the disconnect as reported, drops it, and suppresses the second
event of the same end. `retry_connection` was cleared when the socket was started
and no deadline watches a slot that is not online, so nothing reconnects it until
Wi-Fi changes or somebody acts. `NeverStranded` says that this, and a lost
authorization, are the only ways to be stranded.

Bounds. Two places in the queue are filled by one frame of each slot; three moves
let a user pair, give up and start again; two faults are a failure and a failure
of what repairs it; two keys let a pairing be replaced. The display runs at most
two messages ahead of the Scale, which is a command behind a handshake message.

Fairness: the main loop's frames and retries, the socket's task, the worker and the
end of a probe are scheduled and have timeouts; Wi-Fi comes back
(`esp_wifi_connect` after every disconnect); the Scale answers, closes or expires.
The guard and the users are not fair. `Reconnects` promises `online` again and
again only to a slot whose key both sides keep and that lost no event.

Proofs (`ScreenConnectionProofs`), for any queue lengths, key agreements, moves and
faults, from `ScreenAssumption` alone. The seven safety properties follow from one
inductive invariant `Inv` whose parts each close a gap the properties leave open:

- `SocketInv`: the worker has a handle exactly while `retiring` is up, and a setup
  probe waits with no socket at all. It gives `OneSocket`.
- `SavedInv`: a pairing belongs to a host, in RAM and in flash, and the one in use is
  the one in flash or there is only another host there.
- `SessionInv`: how far the Scale's session may be for what the display believes: no
  session key before the Scale answers a hello, no trust before it trusts. It gives
  `AuthenticatedIsSaved`.
- `FrameInv` and `OrderInv`: what each queued frame says about the session it came
  from, and in which order frames may be queued. An `authorized` taken late is still
  of a session with a key, and nothing of a session follows its end; without them
  `FrameAuthorized` could trust a removed pairing.
- `UpInv` and `CommandInv`: the same for what the Scale has yet to read, with one
  command at a time and no answer to it in the queue. They give `NoLateCommand`.
- `NeverStranded` itself, which is inductive with the rest.
- `GuardInv`: the guard asks and removes only after it has read a flash without a
  pairing. It gives `GuardSparesPairing`.

The operators have lemmas of their own (`StoppedFacts`, `ConnectFacts`, ...). Most steps
are one of a few schemes: the session is given up (`DropStep`, with `ConnectStep` and
`StopStep` above it), goes on as it is (`QuietStep`), says something (`TalkStep`),
or a frame is queued or dropped (`PushStep`, `SayStep`). Each step lemma also proves
`ForgetStep`, which is `ForgottenStaysForgotten` for that step. `Reconnects` is
liveness and stays with TLC.

## 8. DisplayUpdate and AtomicUpdate

`AtomicUpdate` says what an update is, seen from outside: the image that would
start is replaced in one step by an offered one, which is then trusted or given
up. `DisplayUpdate` is the whole path: the offer in the check-in, the transfer of
the approved bundle over BLE, Wi-Fi, the attempts to download, the slots, the
boot loader and the confirmation.

| part of the code | actions |
|---|---|
| boot loader (external), `display_ota_confirm_running_image` | `BootLoader`, `Confirm`, `Restart`, `PowerLoss` |
| the offer in a check-in (`main.c`, `ble_client.c`) | `ReadOfferVersion`, `ReadOfferSha` |
| `ble_client_fetch_update_bundle` and what it calls | `ConnectPeer`, `ConnectTimeout`, `SecureConnection`, `GattCall`, `GattTimeout`, `Disconnect` |
| NimBLE's callbacks, on the host task | `GapConnect`, `Discovered`, `ReadPacket`, `ReadTooLong`, `ReadDone`, `LinkLost` |
| `display_ota_authorization_evaluate` | `Evaluate` |
| `connect_wifi`, `wifi_event`, `stop_wifi` | `ConnectWifi`, `WifiWaits`, `WifiEvent`, `StopWifi` |
| `download_and_stage` | `HttpOpen`, `OtaBegin`, `ReadBody`, `Finish`, `Stage`, `AttemptFails` |
| the Scale, the access point (external) | `Release`, `Approve`, `StationUp`, `StationLost` |

Abstractions. An image stands for its version, URL, bytes and digest; a digest is
that of a whole image or of none. A long read takes one packet per field, so that a
release between two packets tears the value. The link key, the encryption of the
bundle and the progress display are left out. `late` and `stray` are history: a
wait timed out, and a callback found nobody waiting.

| run | question | result |
|---|---|---|
| `update` | with releases and withdrawals, torn packets, late callbacks, lost links and Wi-Fi, wrong or cut bodies, failing flash and power losses at any step: is nothing of BLE and Wi-Fi left behind, is only what was offered and approved staged, is the update atomic, does it succeed in the end? `Quiet`, `NothingDangles`, `StagedAsOffered`, `Atomic`, `Updates` | holds |

`NothingDangles` has an exception that the code has too: after a wait of ten
seconds timed out, NimBLE may still call back (its own limit is thirty) into a
context on a stack frame that is gone, at the latest when `disconnect_peer` ends
the connection. The property says that this is the only way.

Bounds. One reconnect and two attempts are enough for each limit to be reached and
for success after a failure; four moves are a release, its approval, a withdrawal
or a second release, and its approval; four faults combine, for example, a failed
confirmation with the power loss that rolls back and two failures of the next
update.

Fairness: the main task, the NimBLE host and the event task are scheduled, every
wait of the main task has a timeout, and an access point in reach answers. The
budget of faults makes their number finite but leaves it open when they strike;
`Updates` is about what happens when the offer stays approved.

Proofs (`DisplayUpdateProofs`), for any images, reconnects, attempts, moves and
faults: `TypeCorrect`, `NothingDanglesHolds`, `QuietHolds`,
`StagedAsOfferedHolds`, `GaveUpHolds` (a station that used up its reconnects is
never connected again) and the refinement `ImplementsAtomicUpdate`. Their inductive invariant `Inv` has these parts:

- `LinkInv`: a procedure the main task waits for is the one its position names, a
  bundle that is not empty is owned by the transfer or by the installation, and a
  procedure nobody waits for no longer fills it;
- `WifiInv`: what exists of Wi-Fi at each position of `connect_wifi` and
  `stop_wifi`;
- `QueueInv`: which events can be queued in which state of the station, needed
  because `GaveUp` depends on the order of what is still queued when the retries
  end;
- `SlotInv`: of the two slots one is always valid, and which one runs; a download
  starts only when the running one is valid, so the slot it erases is not needed;
- `OfferedInv`: from the approval on, bundle and offer agree, and what was hashed
  is what the target slot holds.

`Updates` is liveness and stays with TLC.

## 9. PourHistory

The TouchPour controller keeps its last pours in a flash partition of six slots.
The control task collects rows; at the end of a pour it notifies the writer task,
which erases the oldest slot, writes rows, header and magic word in this order,
and lowers `history_saving`. The web server exports a pour row by row and gives
the mutex back between rows.

| variables | code |
|---|---|
| `flash`, `available` | the partition's slots, and whether the partition was found |
| `headers`, `nextId` | `headers`, `next_id` in RAM |
| `recording`, `points`, `saving`, `notified` | `recording`, `points` with `pending.count`, `history_saving`, the task notification |
| `writer` | locals of `writer_task` |
| `export` | locals of `pour_csv` |
| `hist` | history: pours that ended, pours that were saved, flash operations that went wrong |

`Restart` may strike at every step, also between the erase of the header's sector
and the end of the erase, and between a write and its return; the load that
follows may fail to read a slot or to find the partition.

| run | question | result |
|---|---|---|
| `history` | do the last pours survive a save and a power failure at any step, is the list the newest ones, is each stored pour whole, are ids never shared, does an export stay with its pour, is a record that is saved left alone until it is? `Retained`, `ListsNewest`, `StoredIsPoured`, `IdsUnique`, `OnePourExported`, `RecordPromise` | holds |

`RecordPromise` is the refinement of `Recorder`: none, open, saving, none again, or
lost with the power. `Tap` extends the same module, so each side makes the moves
the other takes for granted. In `PourControl` the end of the saving (`Saved`) is an
assumption about the writer, which `PourHistory` discharges with every erase, write
and failure in between; in `PourHistory` the begin of a pour is an assumption about
the controller, which `TapPromise` discharges with the queue, the lock and the
uploads. Nothing promises that the record is saved in the end: a flash operation
that never returns blocks the writer in the code as well.

Known disagreements, not run. A slot that a boot cannot read is taken for a free
one: it is replaced first although it may hold the newest pour, and its id is
given out again, so that two slots may share an id and an export may follow the
wrong one. An erase that fails after its first sectors leaves the old header in
RAM, and the pour stays listed with erased rows. The properties except both cases
by name (`hist.blind`, `hist.worn`).

Bounds. Three slots keep two pours; the fourth of four pours replaces a slot that
was written over before. Three rows are the longest pour of the instance. Three
faults are a failed save, a power failure and a read that fails at the boot after
it. The instance stops when its pours are used up and no export runs, so deadlock
is not checked.

Proofs (`PourHistoryProofs`): `TypeOK`, all six properties
(`RecordPromise` as `ImplementsRecorder`), for any number of
slots (at least two), rows, pours and faults. The inductive invariant `Inv` has one
part per idea, each proved to be kept by every step from itself and the parts
before it:

- `TypeInv`: the type of every variable;
- `PointsInv`: rows have one owner, the control task while it records and the
  writer while it saves, and what is saved is the pour that ended last;
- `SlotsInv`: a slot with a magic word is one whole pour, and the slot being
  written holds what the writer has done so far. The magic word goes last, which
  gives `StoredIsPoured`;
- `RamInv`: a listed header is that of its slot, or the slot is blank because an
  erase is under way or failed part way;
- `IdsInv`: every id in flash and RAM is below `next_id`, gives `IdsUnique`;
- `ExportInv`: the id an export asks for has gone to no other pour, gives
  `OnePourExported`;
- `OrderInv`: ids and pours have the same order, and the slot to be erased has the
  lowest id;
- `SavedInv`: what is listed was saved; what only is in flash was not.

`Retained` is kept because only an erase takes a pour away, and it takes none of
the newest: when the erased slot was listed, every other slot is listed with a
different and later pour (`ErasedIsOld`, by counting: an injection of the other
slots into the later pours). `ListsNewest` needs the same counting both ways and,
for the direction that a listed pour is a newest one, that a finite set of at
least SlotCount - 1 pours has that many newest ones (`EnoughNewest`). That would be
an induction on the size of the set; it is proved from the least element of the set
of sizes that fail instead (`LeastNatural`). `Retained` is itself a part of `Inv`:
that each of the newest pours is listed follows from its being in flash.


## 10. What is proved and what is only checked

| module | proved for every value of the constants | model-checked only |
|---|---|---|
| `DisplayWake` | `TypeOK`, `SleepsOnlyPaired`, `UnpairOnlyAfterAck`, `RefreshAckedAfterDraw`, `RecoveryNeedsResets`, `OfflineOnlyAfterRealMisses`, `TimerFollowsLatestCheck`, `RetainedDescribesPanel`, `ShowsLatestStableReading`, `FailedDrawsRetried`, `WakeAdvances` | `CommandsComplete` (and the violated `FailedUnpairAckKeepsBond`) |
| `EpaperFrame` | all | |
| `ScaleFetch` | `TypeOK`, `WritesHitTheirCharacteristic`, `NameOfItsRevision`, `CommandSurvivesRead`, `FetchAdvances` | `FetchReturns` |
| `DisplayUpdate` | all but liveness | `Updates` |
| `ScreenConnection` | all but liveness | `Reconnects` (and the violated `AlwaysReconnects`) |
| `PourControl` | `TypeOK`, `WatchedPour`, `StopShuts`, `LockedTapStaysShut`, `ContactStartsOnce`, `OneRecordPerPour`, `UpdateShut`, `TapPromise` (as `ImplementsTap`) | `PourEnds` |
| `PourHistory` | all |  |

The proofs assume the named `ASSUME`s of the modules and, where a theorem says so,
a working flash or no late failures. The type invariants, the properties of
`PourControl` that `TapPromise` contains and the invariants behind `PanelPromise`
(`BaselineIsPanel`, `GhostingBounded`) are proved and left out of the runs, where
the stronger properties stand for them. Fairness and `ENABLED` are out of the
prover's reach, so every liveness property stays with TLC.

## 11. Not modelled

- Panel fonts, layout, wording and LVGL widgets; sound, foam capture and the
  distance filter; the vendored distance sensor driver: pure data, arithmetic or
  output.
- `touch_wake.c`: analogue thresholds. Its guided calibration has no caller any
  more, and `touch_wake_prepare` is straight-line code that restarts on failure.
- The touchscreen's own firmware update: one straight-line function; its slots and
  staging follow the protocol of `DisplayUpdate`, the rest parses a manifest.
- `controller_link.c` beyond the handshake: cryptography and encoding, pure
  functions.
- Address discovery and its own call of `connect_scale` (`main.cpp`,
  `auto_discovery_task`). This is a gap and not only I/O: the slot has no address
  before, but the task stores one, sets `retry_connection` and a deadline that has
  passed, and only then calls `connect_scale`, so that the main loop's retry may
  make the same call at the same time. Both may find no socket and start one.
  `OneSocket` and the properties that rest on it are about the main loop's calls.
- The stored PIN, its checks and its cooldown (`pin_lock.cpp`): sequential code of
  the screen's task; `PourControl` has the lock itself.
- HTTP, HTML, JSON, Wi-Fi scans and provisioning of the TouchPour web server.
