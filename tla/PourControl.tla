---------------------------- MODULE PourControl ----------------------------
(***************************************************************************)
(* The TouchPour tap controller: controller_task's 10 ms tick with its     *)
(* automatic pour (Control), manual fill, servo test and button gesture,   *)
(* and the touch screen, web server, PIN lock, sensor, history writer and  *)
(* firmware upload that drive it.                                          *)
(*                                                                         *)
(* A tick holds state_mutex throughout but is two steps here: the screen,  *)
(* the PIN lock and the touch driver do not take the mutex and may act     *)
(* between the stop handling and the queue.                                *)
(*                                                                         *)
(* Data abstraction: a distance is the zone it falls in under the current  *)
(* settings, whether it is steady is part of the reading; times are ages   *)
(* in ticks, kept up to the limits they are compared with.                 *)
(***************************************************************************)
EXTENDS Integers, Sequences

CONSTANTS
  Configs,        \* valid Settings: [closed, open, servo, distance, half]
  Readings,       \* sensor readings: [raw, smooth, steady]
  TestPulses,     \* pulses of web servo tests
  NoPulse,        \* servo_us before the first command
  UiKinds,        \* actions the touch screen sends
  WebKinds,       \* actions the web page sends
  Levels,         \* levels of the button pin; TRUE is released
  Outside,        \* what else happens: "pwm", "setup", "unlock", "stop",
                  \*   "wifi", "update", "config", "reset"
  Stable,         \* readings that make a cup ready (5)
  Stale,          \* stale_ms
  MaxPour,        \* max_pour_ms
  Window,         \* startup_dropout_window_ms
  Recovery,       \* startup_recovery_ms
  TestTime,       \* length of a servo test
  Debounce, Hold, \* debounce_ms, hold_ms
  QueueLen        \* length of the actions queue

Zones   == {"full", "half", "cup", "far", "gone"}   \* nearest first
Invalid == {"noreturn", "bad"}
Kinds   == {"START", "START_HALF", "TEST", "CLOSE"}
Pulses  == TestPulses \cup {NoPulse} \cup {c.closed : c \in Configs} \cup {c.open : c \in Configs}

ASSUME PourAssumption ==
  /\ \A c \in Configs : c.servo => c.closed # c.open
  /\ \A n \in {Stable, Stale, MaxPour, Window, Recovery, TestTime, Debounce, Hold, QueueLen} :
       n \in Nat \ {0}
  /\ Window <= Recovery
  /\ Readings # {} /\ Levels \subseteq BOOLEAN /\ UiKinds \cup WebKinds \subseteq Kinds

VARIABLES
  settings,   \* saved settings
  sample,     \* last reading: [r, age, seen]
  tap,        \* the controller's state, below
  tick,       \* its locals between the two steps of a tick
  pc,         \* "idle", or "receive" in the middle of a tick
  queue,      \* actions
  flags,      \* stop_requested, setup_mode, pin_lock, history_saving
  update,     \* firmware upload: "none", "closing", "writing", "restart"
  updateClosed,
  pwm,        \* the PWM driver accepts commands
  hist        \* history: who opened the tap, contacts that a stop used up

vars == <<settings, sample, tap, tick, pc, queue, flags, update, updateClosed, pwm, hist>>

Least(a, b) == IF a <= b THEN a ELSE b

\* Control after stop() or reset_ready().
Closed == [pouring |-> FALSE, count |-> 0, age |-> 0, elapsed |-> 0, dropout |-> "no"]
Off    == [pouring |-> FALSE, elapsed |-> 0]
AgeCap == 2 * Stale + 1

Pouring(x) == x.control.pouring \/ x.hold.pouring

Stopped(x) == [x EXCEPT !.control = Closed, !.hold = Off]
Blocked(x) == [x EXCEPT !.button.blocked = TRUE]

\* set_servo
SetServo(x, us) ==
  IF us = x.servo \/ pwm THEN [x EXCEPT !.servo = us] ELSE Stopped(x)

----------------------------------------------------------------------------
(* ButtonGesture::update *)

Gesture(b, high, busy) ==
  LET edge     == IF high = b.raw THEN Least(b.edge + 1, Debounce) ELSE 0
      settled  == edge >= Debounce /\ high # b.debounced
      pressed  == settled /\ ~high /\ b.armed
      released == settled /\ high
      held     == IF pressed THEN 0 ELSE Least(b.held + 1, Hold)
      now      == [raw |-> high, edge |-> edge,
                   debounced |-> IF settled THEN high ELSE b.debounced,
                   armed     |-> b.armed \/ released,
                   blocked   |-> IF released THEN FALSE ELSE IF pressed THEN busy ELSE b.blocked,
                   sent      |-> b.sent /\ ~released /\ ~pressed,
                   held      |-> held]
      long     == ~high /\ ~now.debounced /\ now.armed /\ ~now.blocked /\ ~now.sent /\ held >= Hold
  IN  [button  |-> [now EXCEPT !.sent = @ \/ long,
                               !.held = IF now.debounced THEN 0 ELSE @],
       pressed |-> pressed,
       short   |-> released /\ b.armed /\ ~b.blocked /\ ~b.sent,
       long    |-> long]

----------------------------------------------------------------------------
(* Control and pour_target *)

Ready(c) == settings.servo /\ settings.distance /\ c.count >= Stable /\ c.age <= Stale

\* Zones farther than the target the pour stops at.
Above(target) == IF target = "half" THEN {"cup", "far", "gone"} ELSE Zones \ {"full"}

TargetReady(c, target) ==
  /\ Ready(c) /\ sample.r.raw \notin Invalid /\ sample.age <= Stale
  /\ sample.r.raw \in Above(target) /\ sample.r.smooth \in Above(target)
  /\ target = "half" => settings.half

\* Mutant: the time limit is checked only when a reading is taken.
Expired_OnReading(c) == c.elapsed >= MaxPour /\ ~sample.seen

\* Control::update's deadlines, checked at every tick of a pour.
Expired(c) == c.elapsed >= MaxPour

\* Mutant: the startup dropout waits for the stale-data limit.
Starved_Forgiven(c) == c.age > Stale

Starved(c) == c.age > Stale \/ (c.dropout = "pending" /\ c.elapsed >= Recovery)

\* A no-return reading that the opening servo is allowed to cause.
Tolerated(c, s) ==
  c.dropout = "no" /\ s.r.raw = "noreturn" /\ c.elapsed < Window /\ s.age <= Stale

Pour(c, s, target) ==
  IF s.r.raw \in Invalid \/ s.age > Stale
  THEN IF Tolerated(c, s) THEN [c EXCEPT !.dropout = "pending"] ELSE Closed
  ELSE IF s.r.raw \notin Above(target) \ {"far", "gone"} \/ ~s.r.steady THEN Closed
  ELSE [c EXCEPT !.age = s.age, !.dropout = IF @ = "pending" THEN "used" ELSE @]

Watch(c, s) ==
  IF s.r.raw \in Invalid \/ s.age > Stale \/ s.r.smooth \notin {"half", "cup"}
       \/ s.r.raw \notin {"half", "cup", "far"}
  THEN Closed
  ELSE [Closed EXCEPT
          !.count = IF c.count > 0 /\ c.age - s.age <= Stale /\ s.r.steady
                    THEN Least(c.count + 1, Stable) ELSE 1,
          !.age = s.age]

ControlUpdate(c, s, target) ==
  IF c.pouring /\ (Expired(c) \/ Starved(c)) THEN Closed
  ELSE IF s.seen THEN c
  ELSE IF c.pouring THEN Pour(c, s, target) ELSE Watch(c, s)

----------------------------------------------------------------------------
(* The first half of a tick: time, button, sensor and stops *)

Aged(x) ==
  [x EXCEPT
     !.control.age = IF x.control.count > 0 THEN Least(@ + 1, AgeCap) ELSE 0,
     !.control.elapsed = IF x.control.pouring THEN Least(@ + 1, MaxPour) ELSE 0,
     !.hold.elapsed = IF x.hold.pouring THEN Least(@ + 1, MaxPour) ELSE 0,
     !.deadline = IF @ > 1 THEN @ - 1 ELSE @]

Testing(x) == x.deadline # 0

\* A manual fill ends with its contact, without waiting for the debounce.
LetGo(x, high) == IF x.hold.pouring /\ high THEN Stopped(x) ELSE x

\* However it ends, its contact does not start anything else.
HoldEnded(x0, x) == IF x0.hold.pouring /\ ~x.hold.pouring THEN Blocked(Stopped(x)) ELSE x

\* Mutant: a manual fill has no time limit.
Watched_NoLimit(x, s) ==
  IF x.hold.pouring THEN x ELSE [x EXCEPT !.control = ControlUpdate(@, s, x.target)]

\* The sensor is ignored during a manual fill, its time limit is not.
Watched(x, s) ==
  IF ~x.hold.pouring THEN [x EXCEPT !.control = ControlUpdate(@, s, x.target)]
  ELSE IF x.hold.elapsed >= MaxPour THEN [x EXCEPT !.hold = Off]
  ELSE x

\* The reading counts as seen unless a deadline or a manual fill came first.
Noticed(x, s) ==
  IF x.hold.pouring \/ (x.control.pouring /\ (Expired(x.control) \/ Starved(x.control)))
  THEN s ELSE [s EXCEPT !.seen = TRUE]

\* The PIN lock closes what was not opened from the web page.
LockStop(x) == flags.locked /\ ~x.web /\ (Pouring(x) \/ Testing(x))

\* Mutant: a stop does not use up the contact.
Shut_Rearmed(x) == SetServo([Stopped(x) EXCEPT !.deadline = 0], settings.closed)

\* Mutant: a stop leaves the servo test running.
Shut_KeepTest(x) == SetServo(Blocked(Stopped(x)), settings.closed)

Shut(x) == SetServo([Blocked(Stopped(x)) EXCEPT !.deadline = 0], settings.closed)

\* A tick during a firmware upload closes the tap and does nothing else.
UpdateTick(x) ==
  LET shut == Shut(x)
  IN  /\ tap' = shut
      /\ updateClosed' = (shut.servo = settings.closed)
      /\ queue' = <<>> /\ flags' = [flags EXCEPT !.stop = FALSE, !.test = FALSE]
      /\ UNCHANGED <<pc, tick>>

\* One that was pouring and is not any more closes the servo; so does the end
\* of a servo test.
Settle(x, was) ==
  LET y == IF was /\ ~Pouring(x) THEN SetServo(x, settings.closed) ELSE x
  IN  IF y.deadline # 1 THEN y
      ELSE [SetServo(y, settings.closed) EXCEPT !.deadline = 0, !.control = Closed]

\* x0 is the state before the tick, x the one after the sensor.
StopTick(x0, x, e) ==
  LET was  == Pouring(x0)
      stop == flags.stop \/ (e.pressed /\ (was \/ Testing(x0))) \/ LockStop(x0)
      y    == IF flags.locked THEN Blocked(x) ELSE x
  IN  /\ tap' = Settle(IF stop THEN Shut(y) ELSE y, was)
      /\ tick' = [was |-> was, stop |-> stop, short |-> e.short, long |-> e.long]
      /\ queue' = IF stop THEN <<>> ELSE queue
      /\ flags' = [flags EXCEPT !.stop = FALSE]
      /\ pc' = "receive"
      /\ UNCHANGED updateClosed

\* A contact is used up by a stop, a lock or the end of a pour until the button
\* is seen released.
SpentIf(ended) == hist.spent \/ ended
Contact(x) == ~x.button.debounced

TickBegin(high) ==
  LET busy == Pouring(tap) \/ Testing(tap) \/ flags.setup \/ update # "none"
                \/ flags.saving \/ flags.locked
      e    == Gesture(tap.button, high, busy)
      s    == [sample EXCEPT !.age = Least(@ + 1, Stale + 1)]
      x    == LetGo([Aged(tap) EXCEPT !.button = e.button], high)
      y    == HoldEnded(tap, Watched(x, s))
  IN  /\ pc = "idle"
      /\ sample' = Noticed(x, s)
      /\ IF update # "none" THEN UpdateTick(y) ELSE StopTick(tap, y, e)
      /\ hist' = [opened |-> IF Pouring(tap') THEN hist.opened ELSE "no",
                  spent |-> Contact(tap') /\ SpentIf(flags.locked \/ flags.stop \/ update # "none"
                                                    \/ (Pouring(tap) /\ ~Pouring(tap')))]
      /\ UNCHANGED <<settings, update, pwm>>

----------------------------------------------------------------------------
(* The second half: one queued action, the button, and the servo *)

\* A short press takes the place of the action received in the same tick.
Received ==
  IF tick.short /\ ~tick.was /\ ~tick.stop THEN <<[kind |-> "START", web |-> FALSE, pulse |-> NoPulse]>>
  ELSE IF queue = <<>> THEN <<>> ELSE <<Head(queue)>>

\* Mutant: the lock is left to the screen that sends the action.
Allowed_Unlocked(a) == ~tick.stop

Allowed(a) == ~tick.stop /\ (~flags.locked \/ a.web \/ a.kind = "CLOSE")

\* Mutant: a pour may start while the last one is being saved.
Idle_Saving(x) == ~Pouring(x)

Idle(x) == ~flags.saving /\ ~Pouring(x)

Start(x, a) ==
  LET target == IF a.kind = "START_HALF" THEN "half" ELSE "full"
  IN  IF ~flags.setup /\ ~Testing(x) /\ Idle(x) /\ TargetReady(x.control, target)
      THEN SetServo([Blocked(x) EXCEPT !.control = [@ EXCEPT !.pouring = TRUE, !.elapsed = 0,
                                                            !.dropout = "no"],
                                       !.web = a.web, !.target = target],
                    settings.open)
      ELSE x

Test(x, a) ==
  IF Idle(x)
  THEN [SetServo([Blocked(x) EXCEPT !.control = Closed, !.web = a.web], a.pulse)
          EXCEPT !.deadline = TestTime + 1]
  ELSE x

Perform(x, a) ==
  IF a.kind = "CLOSE" THEN Shut(x)
  ELSE IF a.kind = "TEST" THEN Test(x, a)
  ELSE Start(x, a)

MayHold(x) == ~flags.locked /\ ~flags.setup /\ ~Testing(x) /\ Idle(x) /\ settings.servo

HoldBegin(x) ==
  IF MayHold(x)
  THEN SetServo([x EXCEPT !.control = Closed, !.target = "full",
                          !.hold = [pouring |-> TRUE, elapsed |-> 0]], settings.open)
  ELSE Blocked(Stopped(x))

\* Nothing running: the calibrated servo is closed, the web page's turn is over.
Rest(x) ==
  LET y == IF settings.servo /\ ~Pouring(x) /\ ~Testing(x) THEN SetServo(x, settings.closed) ELSE x
  IN  [y EXCEPT !.web = @ /\ (Pouring(y) \/ Testing(y))]

\* history_observe: a record is opened and closed with the pour unless the last
\* one is still being saved.
Record(x) ==
  flags' = [flags EXCEPT
              !.test      = Testing(x),
              !.recording = IF flags.saving THEN @ ELSE Pouring(x),
              !.saving    = @ \/ (flags.recording /\ ~Pouring(x))]

Opener(x, a) ==
  IF ~Pouring(x) THEN "no"
  ELSE IF Pouring(tap) THEN hist.opened
  ELSE IF x.hold.pouring \/ ~a.web THEN "local" ELSE "web"

TickEnd ==
  LET got  == Received
      a    == IF got = <<>> THEN [kind |-> "CLOSE", web |-> FALSE, pulse |-> NoPulse] ELSE got[1]
      x    == IF got # <<>> /\ Allowed(a) THEN Perform(tap, a) ELSE tap
      y    == IF tick.long /\ ~tick.stop /\ got = <<>> THEN HoldBegin(x) ELSE x
      done == Rest(y)
  IN  /\ pc = "receive" /\ pc' = "idle"
      /\ tap' = done
      /\ queue' = IF queue = <<>> THEN queue ELSE Tail(queue)
      /\ Record(done)
      /\ hist' = [opened |-> Opener(done, a),
                  spent |-> Contact(done) /\ SpentIf(\/ Pouring(done) /\ ~Pouring(tap)
                                                     \/ Testing(done) /\ ~Testing(tap))]
      /\ UNCHANGED <<settings, sample, tick, update, updateClosed, pwm>>

----------------------------------------------------------------------------
(* The touch screen and the other tasks that do not take state_mutex *)

Happens(what) == what \in Outside

Send(a) == Len(queue) < QueueLen /\ queue' = Append(queue, a)

\* The pour button: what it checked of the controller may not hold any more.
UiStart(kind) ==
  /\ ~flags.locked /\ Send([kind |-> kind, web |-> FALSE, pulse |-> NoPulse])
  /\ UNCHANGED <<settings, sample, tap, tick, pc, flags, update, updateClosed, pwm, hist>>

SetFlags(new) ==
  /\ flags' = new
  /\ UNCHANGED <<settings, sample, tap, tick, pc, queue, update, updateClosed, pwm, hist>>

\* The touch driver, the pour button during a pour, or the web page's stop.
RequestStop == Happens("stop") /\ ~flags.stop /\ SetFlags([flags EXCEPT !.stop = TRUE])

\* Setup opens on a check of the controller that may not hold any more; the tap
\* is locked from Setup, which closes with it.
OpenSetup  == Happens("setup") /\ ~flags.locked /\ SetFlags([flags EXCEPT !.setup = TRUE])
CloseSetup == flags.setup /\ ~flags.locked /\ SetFlags([flags EXCEPT !.setup = FALSE])
LockTap    == flags.setup /\ SetFlags([flags EXCEPT !.setup = FALSE, !.locked = TRUE])
UnlockTap  ==
  Happens("unlock") /\ flags.locked /\ SetFlags([flags EXCEPT !.setup = FALSE, !.locked = FALSE])

\* The pour history's writer is done.
Saved == flags.saving /\ SetFlags([flags EXCEPT !.saving = FALSE])

----------------------------------------------------------------------------
(* The web server and the sensor, with state_mutex held *)

Busy == Pouring(tap) \/ flags.test \/ update # "none" \/ flags.saving

\* The web page's requests are checked before they are queued.
WebOk(kind) ==
  /\ update = "none" /\ ~flags.saving /\ ~Pouring(tap)
  /\ kind \in {"START", "START_HALF"} =>
       /\ ~flags.setup /\ ~flags.test
       /\ TargetReady(tap.control, IF kind = "START" THEN "full" ELSE "half")

WebAction(kind, pulse) ==
  /\ pc = "idle" /\ WebOk(kind)
  /\ Send([kind |-> kind, web |-> TRUE, pulse |-> pulse])
  /\ UNCHANGED <<settings, sample, tap, tick, pc, flags, update, updateClosed, pwm, hist>>

MayConfigure == ~Busy

Configure(c) ==
  /\ Happens("config") /\ pc = "idle" /\ MayConfigure
  /\ settings' = c
  /\ tap' = [tap EXCEPT !.control = Closed]
  /\ queue' = <<>>
  /\ UNCHANGED <<sample, tick, pc, flags, update, updateClosed, pwm, hist>>

\* Saved Wi-Fi credentials: the tap is shut and the device restarts.
WifiSave ==
  /\ Happens("wifi") /\ pc = "idle" /\ ~Busy
  /\ flags' = [flags EXCEPT !.setup = TRUE, !.stop = TRUE]
  /\ UNCHANGED <<settings, sample, tap, tick, pc, queue, update, updateClosed, pwm, hist>>

Upload(from, to) == update = from /\ pc = "idle" /\ update' = to

UpdateBegin ==
  /\ Happens("update") /\ ~Busy /\ Upload("none", "closing")
  /\ updateClosed' = FALSE /\ queue' = <<>>
  /\ UNCHANGED <<settings, sample, tap, tick, pc, flags, pwm, hist>>

\* Mutant: the upload does not wait for the servo.
ServoClosed_Assumed == TRUE

ServoClosed == updateClosed

UpdateClosed ==
  /\ Upload("closing", "writing") /\ ServoClosed
  /\ UNCHANGED <<settings, sample, tap, tick, pc, queue, flags, updateClosed, pwm, hist>>

\* The image is complete and selected: only a restart follows.
UpdateDone ==
  /\ Upload("writing", "restart")
  /\ UNCHANGED <<settings, sample, tap, tick, pc, queue, flags, updateClosed, pwm, hist>>

UpdateFails ==
  /\ \E from \in {"closing", "writing"} : Upload(from, "none")
  /\ updateClosed' = FALSE /\ queue' = <<>>
  /\ tap' = [tap EXCEPT !.control = Closed]
  /\ UNCHANGED <<settings, sample, tick, pc, flags, pwm, hist>>

SensorRead(r) ==
  /\ pc = "idle"
  /\ sample' = [r |-> r, age |-> 0, seen |-> FALSE]
  /\ UNCHANGED <<settings, tap, tick, pc, queue, flags, update, updateClosed, pwm, hist>>

PwmChanges ==
  /\ Happens("pwm") /\ pc = "idle"
  /\ pwm' = ~pwm
  /\ UNCHANGED <<settings, sample, tap, tick, pc, queue, flags, update, updateClosed, hist>>

----------------------------------------------------------------------------

\* start(): a calibrated servo is closed first; the button is taken as it is.
BootTap(c, high) ==
  [control |-> Closed, hold |-> Off, servo |-> IF c.servo /\ pwm THEN c.closed ELSE NoPulse,
   deadline |-> 0, web |-> FALSE, target |-> "full",
   button |-> [raw |-> high, debounced |-> high, armed |-> high, blocked |-> ~high,
               sent |-> FALSE, edge |-> 0, held |-> 0]]
BootSample == [r |-> CHOOSE r \in Readings : TRUE, age |-> 0, seen |-> TRUE]
BootTick   == [was |-> FALSE, stop |-> FALSE, short |-> FALSE, long |-> FALSE]
BootHist   == [opened |-> "no", spent |-> FALSE]
BootFlags(locked) ==
  [stop |-> FALSE, setup |-> FALSE, locked |-> locked, saving |-> FALSE, test |-> FALSE,
   recording |-> FALSE]

Init ==
  /\ settings \in Configs /\ pwm = TRUE
  /\ \E high \in Levels : tap = BootTap(settings, high)
  /\ \E locked \in BOOLEAN : flags = BootFlags(locked)
  /\ sample = BootSample /\ tick = BootTick /\ pc = "idle" /\ queue = <<>>
  /\ update = "none" /\ updateClosed = FALSE /\ hist = BootHist

\* Power loss, or the restart after an upload or new Wi-Fi credentials.
Reset ==
  /\ Happens("reset")
  /\ \E high \in Levels : tap' = BootTap(settings, high)
  /\ \E locked \in BOOLEAN : flags' = BootFlags(locked)
  /\ sample' = BootSample /\ tick' = BootTick /\ pc' = "idle" /\ queue' = <<>>
  /\ update' = "none" /\ updateClosed' = FALSE /\ hist' = BootHist
  /\ UNCHANGED <<settings, pwm>>

Tick == (\E high \in Levels : TickBegin(high)) \/ TickEnd

Next ==
  \/ Tick
  \/ \E kind \in UiKinds : UiStart(kind)
  \/ RequestStop \/ OpenSetup \/ CloseSetup \/ LockTap \/ UnlockTap \/ Saved
  \/ \E kind \in WebKinds \ {"TEST"} : WebAction(kind, NoPulse)
  \/ \E pulse \in TestPulses : "TEST" \in WebKinds /\ WebAction("TEST", pulse)
  \/ \E c \in Configs : Configure(c)
  \/ WifiSave \/ UpdateBegin \/ UpdateClosed \/ UpdateDone \/ UpdateFails
  \/ \E r \in Readings : SensorRead(r)
  \/ PwmChanges \/ Reset

Spec == Init /\ [][Next]_vars

\* The controller task is the highest-priority one that uses the mutex and waits
\* for nothing else, so its ticks go on; the level of the pin is not its choice.
LiveSpec == Spec /\ WF_vars(Tick)

----------------------------------------------------------------------------
(* Properties *)

Times == 0..MaxPour
TypeOK ==
  /\ settings \in Configs /\ pwm \in BOOLEAN
  /\ sample \in [r : Readings, age : 0..(Stale + 1), seen : BOOLEAN]
  /\ tap \in [control : [pouring : BOOLEAN, count : 0..Stable, age : 0..AgeCap, elapsed : Times,
                         dropout : {"no", "pending", "used"}],
              hold : [pouring : BOOLEAN, elapsed : Times],
              servo : Pulses, deadline : 0..(TestTime + 1), web : BOOLEAN,
              target : {"full", "half"},
              button : [raw : BOOLEAN, debounced : BOOLEAN, armed : BOOLEAN, blocked : BOOLEAN,
                        sent : BOOLEAN, edge : 0..Debounce, held : 0..Hold]]
  /\ tick \in [was : BOOLEAN, stop : BOOLEAN, short : BOOLEAN, long : BOOLEAN]
  /\ pc \in {"idle", "receive"}
  /\ queue \in Seq([kind : Kinds, web : BOOLEAN, pulse : Pulses]) /\ Len(queue) <= QueueLen
  /\ flags \in [stop : BOOLEAN, setup : BOOLEAN, locked : BOOLEAN, saving : BOOLEAN,
                test : BOOLEAN, recording : BOOLEAN]
  /\ update \in {"none", "closing", "writing", "restart"} /\ updateClosed \in BOOLEAN
  /\ hist \in [opened : {"no", "local", "web"}, spent : BOOLEAN]
  /\ ~(tap.control.pouring /\ tap.hold.pouring)

Active(x) == Pouring(x) \/ Testing(x)

\* README: an automatic pour never runs past its time limit, on readings older
\* than the stale-data limit, or past the recovery deadline of the one startup
\* dropout it may ignore; a manual fill never past the time limit.
WatchedPour ==
  /\ tap.control.pouring =>
       /\ tap.control.elapsed < MaxPour /\ tap.control.age <= Stale
       /\ tap.control.dropout = "pending" => tap.control.elapsed < Recovery
  /\ tap.hold.pouring => tap.hold.elapsed < MaxPour

\* A requested stop is taken only by a tick that ends every pour and servo test,
\* and what was queued or pressed meanwhile starts nothing in that tick.
StopShuts ==
  [][(flags.stop /\ ~flags'.stop) \/ (pc = "receive" /\ tick.stop /\ pc' = "idle")
       => ~Active(tap')]_vars

\* README: locking closes an active physical pour and blocks local starts, web
\* pours go on.  Whenever the lock falls, the next stop check leaves no local
\* pour and the queue starts none.
LockedTapStaysShut ==
  [][flags.locked /\ pc # pc' /\ hist'.opened = "local"
       => pc = "receive" /\ hist.opened = "local"]_vars

\* README: a contact held through a stop, a lock or the end of a pour must be
\* released before it can start one.
ContactStartsOnce ==
  [][pc = "idle" /\ pc' = "receive" /\ (tick'.short \/ tick'.long) => ~hist.spent]_vars

\* README: persistent history of the last five pours.  Every pour starts a
\* record of its own: none is missed while the last one is saved, and no two
\* share one.
OneRecordPerPour ==
  [][~Pouring(tap) /\ Pouring(tap') => ~flags.recording /\ flags'.recording]_vars

\* firmware_upload writes flash, and restarts, only with the tap shut and the
\* closed position commanded.
UpdateShut ==
  update \in {"writing", "restart"} => ~Active(tap) /\ tap.servo = settings.closed

\* Seen from outside, the controller is a tap that is open for one thing at a time,
\* never longer than it may be: locked, it ends a local pour with the next tick and
\* starts none; every pour has a record of its own, and waits until the last one is
\* saved; nothing runs during an upload.
Flow == IF Pouring(tap) THEN hist.opened ELSE IF Testing(tap) THEN "test" ELSE "none"
Ran(x) == IF x.control.pouring THEN x.control.elapsed
          ELSE IF x.hold.pouring THEN x.hold.elapsed ELSE 0
Phase == IF flags.recording THEN "open" ELSE IF flags.saving THEN "saving" ELSE "none"

Outcome == INSTANCE Tap WITH
             Limit <- MaxPour, flow <- Flow, ran <- Ran(tap), locked <- flags.locked,
             updating <- update # "none", record <- Phase
TapPromise == Outcome!Spec

\* Every pour ends, and with the closed position commanded unless the PWM driver
\* does not accept commands, even if the sensor, the button and the operator do
\* nothing.
PourEnds == Pouring(tap) ~> (~Pouring(tap) /\ (pwm => tap.servo = settings.closed))
============================================================================
