------------------------- MODULE PourControlProofs -------------------------
(***************************************************************************)
(* Proofs about PourControl, for any settings, readings, actions and       *)
(* limits.                                                                 *)
(***************************************************************************)
EXTENDS PourControl, SequenceTheorems, TLAPS

(* Types: the parts of TypeOK *)

ControlType == [pouring : BOOLEAN, count : 0..Stable, age : 0..AgeCap, elapsed : Times,
                dropout : {"no", "pending", "used"}]
HoldType    == [pouring : BOOLEAN, elapsed : Times]
ButtonType  == [raw : BOOLEAN, debounced : BOOLEAN, armed : BOOLEAN, blocked : BOOLEAN,
                sent : BOOLEAN, edge : 0..Debounce, held : 0..Hold]
TapType     == [control : ControlType, hold : HoldType, servo : Pulses,
                deadline : 0..(TestTime + 1), web : BOOLEAN, target : {"full", "half"},
                button : ButtonType]
SampleType  == [r : Readings, age : 0..(Stale + 1), seen : BOOLEAN]
ActionType  == [kind : Kinds, web : BOOLEAN, pulse : Pulses]
FlagsType   == [stop : BOOLEAN, setup : BOOLEAN, locked : BOOLEAN, saving : BOOLEAN,
                test : BOOLEAN, recording : BOOLEAN]

TypeInv ==
  /\ settings \in Configs /\ pwm \in BOOLEAN /\ sample \in SampleType /\ tap \in TapType
  /\ tick \in [was : BOOLEAN, stop : BOOLEAN, short : BOOLEAN, long : BOOLEAN]
  /\ pc \in {"idle", "receive"}
  /\ queue \in Seq(ActionType) /\ Len(queue) <= QueueLen /\ flags \in FlagsType
  /\ update \in {"none", "closing", "writing", "restart"} /\ updateClosed \in BOOLEAN
  /\ hist \in [opened : {"no", "local", "web"}, spent : BOOLEAN]

\* Who has the tap: an automatic pour, a manual fill and a servo test exclude one
\* another.  A fill lasts as long as its contact; the contact that is there during a
\* pour or a test can start nothing.
TapInv(x) ==
  /\ x.button.debounced => x.button.armed
  /\ Pouring(x) => x.deadline = 0
  /\ x.hold.pouring => /\ ~x.control.pouring /\ x.control.count = 0 /\ ~x.web
                       /\ ~x.button.debounced /\ x.button.sent
  /\ x.control.pouring \/ Testing(x) => x.button.blocked \/ x.button.debounced

\* The limits of WatchedPour, for a tap.
Timely(x) ==
  /\ x.control.pouring =>
       /\ x.control.elapsed < MaxPour /\ x.control.age <= Stale
       /\ x.control.dropout = "pending" => x.control.elapsed < Recovery
  /\ x.hold.pouring => x.hold.elapsed < MaxPour

\* Between two ticks, flags and the web's turn tell what the tap does.
IdleInv ==
  pc = "idle" =>
    /\ flags.test = Testing(tap)
    /\ flags.recording => Pouring(tap)
    /\ tap.web => Active(tap)

\* In the middle of a tick: a stop has been carried out, and a contact that was held
\* long enough is not that of a pour that ended in this tick.
TickInv ==
  pc = "receive" =>
    /\ tick.stop => ~Active(tap)
    /\ flags.recording => tick.was
    /\ tick.was /\ ~Pouring(tap) => tap.control.count = 0 /\ ~tick.long
    /\ tick.long => ~tap.web /\ ~tap.button.debounced /\ tap.button.sent

\* What the history says: that a pour is being recorded, who opened the tap, and that
\* a used contact stays so.
HistInv ==
  /\ flags.saving => ~flags.recording
  /\ Pouring(tap) => flags.recording
  /\ Pouring(tap) => hist.opened = IF tap.web THEN "web" ELSE "local"
  /\ hist.spent => ~tap.button.debounced /\ (tap.button.blocked \/ tap.button.sent)

\* During an upload no tick gets past its stop, and what updateClosed reports lasts.
UploadInv ==
  update # "none" =>
    /\ pc = "idle" /\ ~Active(tap)
    /\ update # "closing" => updateClosed
    /\ updateClosed => tap.servo = settings.closed

Inv == /\ TypeInv /\ TapInv(tap) /\ Timely(tap) /\ IdleInv /\ TickInv /\ HistInv /\ UploadInv

(* Operators *)

\* The limits are positive.
LEMMA Limits ==
    /\ Stable \in Nat \ {0} /\ Stale \in Nat \ {0} /\ MaxPour \in Nat \ {0}
    /\ Window \in Nat \ {0} /\ Recovery \in Nat \ {0} /\ TestTime \in Nat \ {0}
    /\ Debounce \in Nat \ {0} /\ Hold \in Nat \ {0} /\ QueueLen \in Nat \ {0}
    /\ Window <= Recovery
  BY PourAssumption

\* What is not pouring.
LEMMA ClosedTypes == Closed \in ControlType /\ Off \in HoldType
  BY Limits DEF Closed, Off, ControlType, HoldType, Times, AgeCap

\* The positions of the settings are pulses.
LEMMA PulseTypes == settings \in Configs => settings.closed \in Pulses /\ settings.open \in Pulses
  BY DEF Pulses

\* Control::reset and ManualFill::reset change nothing else.
LEMMA StoppedFacts ==
    ASSUME NEW x \in TapType
    PROVE  /\ Stopped(x) \in TapType /\ Stopped(x).control = Closed /\ Stopped(x).hold = Off
           /\ Stopped(x).servo = x.servo /\ Stopped(x).deadline = x.deadline
           /\ Stopped(x).web = x.web /\ Stopped(x).target = x.target
           /\ Stopped(x).button = x.button
  BY ClosedTypes DEF Stopped, TapType

\* ButtonGesture::block changes nothing else.
LEMMA BlockedFacts ==
    ASSUME NEW x \in TapType
    PROVE  /\ Blocked(x) \in TapType /\ Blocked(x).control = x.control /\ Blocked(x).hold = x.hold
           /\ Blocked(x).servo = x.servo /\ Blocked(x).deadline = x.deadline
           /\ Blocked(x).web = x.web /\ Blocked(x).target = x.target
           /\ Blocked(x).button = [x.button EXCEPT !.blocked = TRUE]
           /\ Blocked(x).button.blocked /\ Blocked(x).button.sent = x.button.sent
           /\ Blocked(x).button.debounced = x.button.debounced
  <1>1. [x.button EXCEPT !.blocked = TRUE] \in ButtonType
    BY DEF TapType, ButtonType
  <1> QED BY <1>1 DEF Blocked, TapType, ButtonType

\* A position that is not commanded stops the tap, and nothing else.
LEMMA SetServoFacts ==
    ASSUME NEW x \in TapType, NEW us \in Pulses
    PROVE  /\ SetServo(x, us) \in TapType
           /\ SetServo(x, us).deadline = x.deadline /\ SetServo(x, us).web = x.web
           /\ SetServo(x, us).target = x.target /\ SetServo(x, us).button = x.button
           /\ \/ /\ SetServo(x, us).control = x.control /\ SetServo(x, us).hold = x.hold
                 /\ SetServo(x, us).servo = us
              \/ /\ SetServo(x, us).control = Closed /\ SetServo(x, us).hold = Off
                 /\ SetServo(x, us).servo = x.servo /\ x.servo # us
  <1>1. CASE us = x.servo \/ pwm
    BY <1>1 DEF SetServo, TapType
  <1>2. CASE ~(us = x.servo \/ pwm)
    BY <1>2, StoppedFacts DEF SetServo
  <1> QED BY <1>1, <1>2

\* Shut leaves nothing running and uses the contact up.
LEMMA ShutFacts ==
    ASSUME NEW x \in TapType, settings \in Configs
    PROVE  /\ Shut(x) \in TapType /\ Shut(x).control = Closed /\ Shut(x).hold = Off
           /\ Shut(x).deadline = 0 /\ Shut(x).web = x.web
           /\ Shut(x).button = [x.button EXCEPT !.blocked = TRUE]
           /\ x.servo = settings.closed => Shut(x).servo = settings.closed
  <1> DEFINE y == Blocked(Stopped(x))
             z == [y EXCEPT !.deadline = 0]
  <1>1. /\ y \in TapType /\ y.control = Closed /\ y.hold = Off /\ y.web = x.web
        /\ y.button = [x.button EXCEPT !.blocked = TRUE] /\ y.servo = x.servo
    <2>1. Stopped(x) \in TapType
      BY StoppedFacts
    <2> QED BY <2>1, StoppedFacts, BlockedFacts
  <1> HIDE DEF y
  <1>2. /\ z \in TapType /\ z.control = Closed /\ z.hold = Off /\ z.web = x.web
        /\ z.button = [x.button EXCEPT !.blocked = TRUE] /\ z.servo = x.servo /\ z.deadline = 0
    BY <1>1, Limits DEF TapType
  <1>3. Shut(x) = SetServo(z, settings.closed)
    BY DEF Shut, y
  <1> HIDE DEF z
  <1> QED BY <1>2, <1>3, SetServoFacts, PulseTypes

\* What ButtonGesture::update makes of the pin.
LEMMA GestureFacts ==
    ASSUME NEW b \in ButtonType, NEW high \in BOOLEAN, NEW busy \in BOOLEAN,
           b.debounced => b.armed, NEW e, e = Gesture(b, high, busy)
    PROVE  /\ e.button \in ButtonType /\ (e.button.debounced => e.button.armed)
           /\ e.pressed \in BOOLEAN /\ e.short \in BOOLEAN /\ e.long \in BOOLEAN
           /\ e.long => ~e.button.debounced /\ e.button.sent
           /\ busy /\ (b.blocked \/ b.debounced) =>
                (e.button.blocked \/ e.button.debounced) /\ ~e.long
           /\ ~b.debounced /\ (b.blocked \/ b.sent) =>
                /\ ~e.short /\ ~e.long
                /\ e.button.debounced \/ e.button.blocked \/ e.button.sent
           /\ ~b.debounced /\ b.sent /\ ~high => e.button.sent /\ ~e.button.debounced
  <1> DEFINE edge     == IF high = b.raw THEN Least(b.edge + 1, Debounce) ELSE 0
             settled  == edge >= Debounce /\ high # b.debounced
             pressed  == settled /\ ~high /\ b.armed
             released == settled /\ high
             held     == IF pressed THEN 0 ELSE Least(b.held + 1, Hold)
             debounced == IF settled THEN high ELSE b.debounced
             armed    == b.armed \/ released
             blocked  == IF released THEN FALSE ELSE IF pressed THEN busy ELSE b.blocked
             sent     == b.sent /\ ~released /\ ~pressed
             now      == [raw |-> high, edge |-> edge, debounced |-> debounced, armed |-> armed,
                          blocked |-> blocked, sent |-> sent, held |-> held]
             long     == ~high /\ ~now.debounced /\ now.armed /\ ~now.blocked /\ ~now.sent
                           /\ held >= Hold
  <1>1. edge \in 0..Debounce /\ held \in 0..Hold
    BY Limits DEF ButtonType, Least
  <1>2. e = [button |-> [now EXCEPT !.sent = @ \/ long, !.held = IF now.debounced THEN 0 ELSE @],
             pressed |-> pressed,
             short |-> released /\ b.armed /\ ~b.blocked /\ ~b.sent,
             long |-> long]
    BY Zenon DEF Gesture
  <1>3. /\ b.debounced \in BOOLEAN /\ b.armed \in BOOLEAN
        /\ b.blocked \in BOOLEAN /\ b.sent \in BOOLEAN
    BY DEF ButtonType
  <1>5. settled \in BOOLEAN
    OBVIOUS
  <1> HIDE DEF edge, settled, held
  <1>4. /\ pressed \in BOOLEAN /\ released \in BOOLEAN /\ debounced \in BOOLEAN
        /\ armed \in BOOLEAN /\ blocked \in BOOLEAN /\ sent \in BOOLEAN
        /\ (released /\ b.armed /\ ~b.blocked /\ ~b.sent) \in BOOLEAN
    BY <1>3, <1>5
  <1>6. now \in ButtonType /\ long \in BOOLEAN
    BY <1>1, <1>4 DEF ButtonType
  <1>7. e.button = [now EXCEPT !.sent = @ \/ long, !.held = IF now.debounced THEN 0 ELSE @]
    BY <1>2
  <1>8. /\ e.button \in ButtonType
        /\ e.button.debounced = debounced /\ e.button.armed = armed
        /\ e.button.blocked = blocked /\ e.button.sent = (sent \/ long)
    <2> DEFINE left == IF now.debounced THEN 0 ELSE now.held
               more == sent \/ long
    <2>1. e.button = [now EXCEPT !.sent = more, !.held = left]
      BY <1>7
    <2>2. left \in 0..Hold /\ more \in BOOLEAN
      <3>1. now.held \in 0..Hold /\ 0 \in 0..Hold
        BY <1>1, Limits
      <3>2. left \in 0..Hold
        <4> HIDE DEF now
        <4> QED BY <3>1
      <3>3. more \in BOOLEAN
        <4> HIDE DEF sent, long
        <4> QED BY <1>4, <1>6
      <3> QED BY <3>2, <3>3
    <2>3. /\ now.debounced = debounced /\ now.armed = armed /\ now.blocked = blocked
      OBVIOUS
    <2>4. more = (sent \/ long)
      OBVIOUS
    <2> HIDE DEF left, more, now, long
    <2>5. /\ e.button \in ButtonType
          /\ e.button.debounced = now.debounced /\ e.button.armed = now.armed
          /\ e.button.blocked = now.blocked /\ e.button.sent = more
      BY <1>6, <2>1, <2>2 DEF ButtonType
    <2> QED BY <2>3, <2>4, <2>5
  <1>9. e.pressed = pressed /\ e.long = long
        /\ e.short = (released /\ b.armed /\ ~b.blocked /\ ~b.sent)
    BY <1>2
  <1>10. long = (~high /\ ~debounced /\ armed /\ ~blocked /\ ~sent /\ held >= Hold)
    OBVIOUS
  <1>11. settled => high # b.debounced
    BY DEF settled
  <1> HIDE DEF long, now
  <1> QED BY <1>3, <1>4, <1>5, <1>6, <1>8, <1>9, <1>10, <1>11

\* A tick's worth of time.
LEMMA AgedFacts ==
    ASSUME NEW x \in TapType
    PROVE  /\ Aged(x) \in TapType
           /\ Aged(x).control.pouring = x.control.pouring /\ Aged(x).hold.pouring = x.hold.pouring
           /\ Aged(x).control.count = x.control.count
           /\ Aged(x).servo = x.servo /\ Aged(x).web = x.web /\ Aged(x).target = x.target
           /\ Aged(x).button = x.button
           /\ Aged(x).deadline = 0 <=> x.deadline = 0
           /\ Timely(x) => /\ x.control.pouring => Aged(x).control.elapsed = x.control.elapsed + 1
                           /\ x.hold.pouring => Aged(x).hold.elapsed = x.hold.elapsed + 1
  <1> DEFINE age == IF x.control.count > 0 THEN Least(x.control.age + 1, AgeCap) ELSE 0
             elapsed == IF x.control.pouring THEN Least(x.control.elapsed + 1, MaxPour) ELSE 0
             fill == IF x.hold.pouring THEN Least(x.hold.elapsed + 1, MaxPour) ELSE 0
             left == IF x.deadline > 1 THEN x.deadline - 1 ELSE x.deadline
             control == [x.control EXCEPT !.age = age, !.elapsed = elapsed]
             hold == [x.hold EXCEPT !.elapsed = fill]
  <1>1. x.control \in ControlType /\ x.hold \in HoldType /\ x.deadline \in 0..(TestTime + 1)
    BY DEF TapType
  <1>2. /\ x.control.age \in Nat /\ x.control.elapsed \in Nat /\ x.hold.elapsed \in Nat
        /\ AgeCap \in Nat /\ MaxPour \in Nat
    BY <1>1, Limits DEF ControlType, HoldType, AgeCap, Times
  <1>3. age \in 0..AgeCap /\ elapsed \in Times /\ fill \in Times
    BY <1>2, Limits DEF Times, Least
  <1>4. left \in 0..(TestTime + 1) /\ (left = 0 <=> x.deadline = 0)
    BY <1>1, Limits
  <1>7. /\ Timely(x) /\ x.control.pouring => elapsed = x.control.elapsed + 1
        /\ Timely(x) /\ x.hold.pouring => fill = x.hold.elapsed + 1
    BY <1>2 DEF Timely, Least
  <1>5. Aged(x) = [x EXCEPT !.control = control, !.hold = hold, !.deadline = left]
    <2>1. /\ x = [control |-> x.control, hold |-> x.hold, servo |-> x.servo,
                  deadline |-> x.deadline, web |-> x.web, target |-> x.target, button |-> x.button]
      BY DEF TapType
    <2> QED BY <2>1 DEF Aged
  <1> HIDE DEF age, elapsed, fill, left
  <1>6. /\ control \in ControlType /\ hold \in HoldType
        /\ control.pouring = x.control.pouring /\ control.count = x.control.count
        /\ hold.pouring = x.hold.pouring
        /\ control.elapsed = elapsed /\ hold.elapsed = fill
    BY <1>1, <1>3 DEF ControlType, HoldType
  <1> HIDE DEF control, hold
  <1> QED BY <1>4, <1>5, <1>6, <1>7 DEF TapType

\* Control::update starts no pour; one that goes on keeps within its limits.
LEMMA ControlFacts ==
    ASSUME NEW c \in ControlType, NEW s \in SampleType, NEW target, NEW n,
           n = ControlUpdate(c, s, target)
    PROVE  /\ n \in ControlType /\ (n.pouring => c.pouring)
           /\ n.pouring => /\ n.elapsed < MaxPour /\ n.age <= Stale
                           /\ n.dropout = "pending" => n.elapsed < Recovery
                           /\ n.elapsed = c.elapsed
           /\ c.pouring /\ ~n.pouring => n.count = 0
  <1>1. /\ c.pouring \in BOOLEAN /\ c.elapsed \in 0..MaxPour
        /\ c.age \in 0..AgeCap /\ c.count \in 0..Stable
        /\ c.dropout \in {"no", "pending", "used"} /\ s.age \in 0..(Stale + 1)
        /\ AgeCap = 2 * Stale + 1
    BY DEF ControlType, SampleType, Times, AgeCap
  <1>2. Closed \in ControlType /\ ~Closed.pouring /\ Closed.count = 0
    BY ClosedTypes DEF Closed
  <1>3. CASE n = Closed
    BY <1>2, <1>3
  <1>4. CASE n # Closed /\ ~c.pouring
    <2>1. n = c \/ n = Watch(c, s)
      BY <1>4 DEF ControlUpdate
    <2>2. CASE n = Watch(c, s)
      <3> DEFINE count == IF c.count > 0 /\ c.age - s.age <= Stale /\ s.r.steady
                          THEN Least(c.count + 1, Stable) ELSE 1
      <3>1. s.age <= Stale /\ n = [Closed EXCEPT !.count = count, !.age = s.age]
        BY <1>1, <1>4, <2>2, Limits DEF Watch
      <3>2. count \in 0..Stable
        BY <1>1, Limits DEF Least
      <3> HIDE DEF count
      <3>3. s.age \in 0..AgeCap
        BY <1>1, <3>1, Limits
      <3>4. n \in ControlType /\ ~n.pouring
        BY <1>2, <3>1, <3>2, <3>3 DEF ControlType
      <3> QED BY <1>4, <3>4
    <2> QED BY <1>4, <2>1, <2>2
  <1>5. CASE n # Closed /\ c.pouring
    <2>1. c.elapsed < MaxPour /\ c.age <= Stale /\ (c.dropout = "pending" => c.elapsed < Recovery)
      BY <1>1, <1>5, Limits DEF ControlUpdate, Expired, Starved
    <2>2. n = c \/ n = Pour(c, s, target)
      BY <1>5 DEF ControlUpdate
    <2>3. CASE n = Pour(c, s, target)
      <3>1. CASE s.r.raw \in Invalid \/ s.age > Stale
        <4>1. n = [c EXCEPT !.dropout = "pending"] /\ c.elapsed < Window
          BY <1>5, <2>3, <3>1 DEF Pour, Tolerated
        <4>2. /\ n \in ControlType /\ n.elapsed = c.elapsed /\ n.age = c.age
              /\ n.pouring = c.pouring
          BY <4>1 DEF ControlType
        <4> QED BY <1>1, <1>5, <2>1, <4>1, <4>2, Limits
      <3>2. CASE ~(s.r.raw \in Invalid \/ s.age > Stale)
        <4>1. /\ n = [c EXCEPT !.age = s.age,
                               !.dropout = IF @ = "pending" THEN "used" ELSE @]
              /\ s.age <= Stale
          BY <1>1, <1>5, <2>3, <3>2, Limits DEF Pour
        <4>2. s.age \in 0..AgeCap
          BY <1>1, <4>1, Limits
        <4>3. /\ n \in ControlType /\ n.elapsed = c.elapsed /\ n.age = s.age
              /\ n.pouring = c.pouring /\ n.dropout # "pending"
          BY <1>1, <4>1, <4>2 DEF ControlType
        <4> QED BY <1>5, <2>1, <4>1, <4>3
      <3> QED BY <3>1, <3>2
    <2> QED BY <1>5, <2>1, <2>2, <2>3
  <1> QED BY <1>1, <1>3, <1>4, <1>5

\* Time, the button and the sensor: nothing starts, what goes on is within its limits,
\* and what ended leaves no reading that counts and no contact that could start it again.
LEMMA SensorFacts ==
    ASSUME tap \in TapType, TapInv(tap), Timely(tap), NEW high \in BOOLEAN, NEW busy \in BOOLEAN,
           Active(tap) => busy, NEW e, e = Gesture(tap.button, high, busy),
           NEW s \in SampleType, NEW x, NEW y,
           x = LetGo([Aged(tap) EXCEPT !.button = e.button], high),
           y = HoldEnded(tap, Watched(x, s))
    PROVE  /\ y \in TapType /\ TapInv(y) /\ Timely(y)
           /\ y.web = tap.web /\ y.servo = tap.servo /\ (y.deadline = 0 <=> tap.deadline = 0)
           /\ y.button = e.button \/ y.button = [e.button EXCEPT !.blocked = TRUE]
           /\ Pouring(y) => Pouring(tap) /\ Ran(y) = Ran(tap) + 1
           /\ (Pouring(tap) /\ ~Pouring(y) =>
              y.control.count = 0 /\ (y.button.blocked \/ y.button.debounced))
  <1> DEFINE a == [Aged(tap) EXCEPT !.button = e.button]
             w == Watched(x, s)
  <1>1. /\ tap.button \in ButtonType /\ (tap.button.debounced => tap.button.armed)
        /\ tap.control \in ControlType /\ tap.hold \in HoldType
    BY DEF TapType, TapInv
  <1>2. /\ e.button \in ButtonType /\ (e.button.debounced => e.button.armed)
        /\ busy /\ (tap.button.blocked \/ tap.button.debounced) =>
             e.button.blocked \/ e.button.debounced
        /\ ~tap.button.debounced /\ tap.button.sent /\ ~high =>
             e.button.sent /\ ~e.button.debounced
    BY <1>1, GestureFacts
  <1>3. /\ a \in TapType /\ a.button = e.button
        /\ a.control.pouring = tap.control.pouring /\ a.hold.pouring = tap.hold.pouring
        /\ a.control.count = tap.control.count
        /\ tap.control.pouring => a.control.elapsed = tap.control.elapsed + 1
        /\ tap.hold.pouring => a.hold.elapsed = tap.hold.elapsed + 1
        /\ a.servo = tap.servo /\ a.web = tap.web /\ (a.deadline = 0 <=> tap.deadline = 0)
    <2>1. Aged(tap) \in TapType
      BY AgedFacts
    <2> QED BY <1>2, <2>1, AgedFacts DEF TapType
  <1>4. tap.control.pouring \/ Testing(tap) => e.button.blocked \/ e.button.debounced
    BY <1>2 DEF TapInv, Active, Pouring
  <1> HIDE DEF a, w
  <1>5. /\ x \in TapType /\ x.button = e.button /\ x.servo = tap.servo /\ x.web = tap.web
        /\ x.deadline = 0 <=> tap.deadline = 0
        /\ (x.control.pouring = tap.control.pouring /\ x.control.count = tap.control.count
              /\ x.hold.pouring = tap.hold.pouring /\ ~(tap.hold.pouring /\ high)
              /\ (tap.control.pouring => x.control.elapsed = tap.control.elapsed + 1)
              /\ (tap.hold.pouring => x.hold.elapsed = tap.hold.elapsed + 1))
           \/ (x.control = Closed /\ x.hold = Off /\ tap.hold.pouring)
    <2>1. x = IF a.hold.pouring /\ high THEN Stopped(a) ELSE a
      BY DEF LetGo, a
    <2> QED BY <1>3, <2>1, StoppedFacts
  <1>6. Closed.pouring = FALSE /\ Closed.count = 0 /\ Off.pouring = FALSE
    BY DEF Closed, Off
  <1>7. ~(tap.control.pouring /\ tap.hold.pouring)
    BY <1>1 DEF TapInv
  <1>8. CASE ~x.hold.pouring
    <2> DEFINE n == ControlUpdate(x.control, s, x.target)
    <2>1. /\ x.control \in ControlType /\ x.hold \in HoldType
      BY <1>5 DEF TapType
    <2>2. /\ n \in ControlType /\ (n.pouring => x.control.pouring)
          /\ n.pouring => /\ n.elapsed < MaxPour /\ n.age <= Stale
                          /\ n.dropout = "pending" => n.elapsed < Recovery
                          /\ n.elapsed = x.control.elapsed
          /\ x.control.pouring /\ ~n.pouring => n.count = 0
      <3> HIDE DEF n
      <3> QED BY <2>1, ControlFacts DEF n
    <2>3. w = [x EXCEPT !.control = n]
      BY <1>8 DEF Watched, w
    <2> HIDE DEF n
    <2>4. /\ w \in TapType /\ w.control = n /\ w.hold = x.hold /\ w.button = x.button
          /\ w.servo = x.servo /\ w.web = x.web /\ w.deadline = x.deadline
      BY <1>5, <2>2, <2>3 DEF TapType
    <2>5. CASE tap.hold.pouring
      <3>1. y = Blocked(Stopped(w)) /\ Stopped(w) \in TapType
        BY <1>8, <2>4, <2>5, StoppedFacts DEF HoldEnded, w
      <3>2. /\ y \in TapType /\ y.control = Closed /\ y.hold = Off /\ y.servo = tap.servo
            /\ y.web = tap.web /\ (y.deadline = 0 <=> tap.deadline = 0)
            /\ y.button = [e.button EXCEPT !.blocked = TRUE] /\ y.button.blocked
            /\ y.button.debounced = e.button.debounced /\ y.button.armed = e.button.armed
        <4>1. /\ Stopped(w).control = Closed /\ Stopped(w).hold = Off
              /\ Stopped(w).servo = tap.servo /\ Stopped(w).web = tap.web
              /\ (Stopped(w).deadline = 0 <=> tap.deadline = 0) /\ Stopped(w).button = e.button
          BY <1>5, <2>4, StoppedFacts
        <4>2. [e.button EXCEPT !.blocked = TRUE].armed = e.button.armed
          BY <1>2 DEF ButtonType
        <4> QED BY <3>1, <4>1, <4>2, BlockedFacts
      <3> QED BY <1>2, <1>6, <3>2 DEF TapInv, Timely, Pouring, Testing
    <2>6. CASE ~tap.hold.pouring
      <3>1. y = w
        BY <2>6 DEF HoldEnded, w
      <3>2. /\ y \in TapType /\ y.control = n /\ ~y.hold.pouring /\ y.button = e.button
            /\ y.servo = tap.servo /\ y.web = tap.web /\ (y.deadline = 0 <=> tap.deadline = 0)
            /\ x.control.pouring = tap.control.pouring
        BY <1>5, <1>8, <2>4, <2>6, <3>1
      <3>3. TapInv(y)
        BY <1>2, <1>4, <2>2, <3>2 DEF TapInv, Pouring, Testing
      <3>4. Pouring(y) => Ran(y) = Ran(tap) + 1
        BY <1>5, <1>6, <2>2, <2>6, <3>2 DEF Pouring, Ran
      <3> QED BY <1>4, <2>2, <2>6, <3>2, <3>3, <3>4 DEF Timely, Pouring
    <2> QED BY <2>5, <2>6
  <1>9. CASE x.hold.pouring
    <2>1. /\ tap.hold.pouring /\ ~high /\ ~tap.control.pouring /\ x.control.pouring = FALSE
          /\ x.control.count = 0 /\ tap.deadline = 0 /\ ~tap.web
          /\ ~tap.button.debounced /\ tap.button.sent
      BY <1>1, <1>5, <1>6, <1>9 DEF TapInv, Pouring, ControlType
    <2>2. e.button.sent /\ ~e.button.debounced
      BY <1>2, <2>1
    <2>3. CASE x.hold.elapsed >= MaxPour
      <3>1. w = [x EXCEPT !.hold = Off]
        BY <1>9, <2>3 DEF Watched, w
      <3>2. /\ w \in TapType /\ w.hold = Off /\ w.button = e.button /\ w.servo = tap.servo
            /\ w.web = tap.web /\ w.deadline = x.deadline
        BY <1>5, <3>1, ClosedTypes DEF TapType
      <3>3. y = Blocked(Stopped(w)) /\ Stopped(w) \in TapType
        BY <1>6, <2>1, <3>2, StoppedFacts DEF HoldEnded, w
      <3>4. /\ y \in TapType /\ y.control = Closed /\ y.hold = Off /\ y.servo = tap.servo
            /\ y.web = tap.web /\ (y.deadline = 0 <=> tap.deadline = 0)
            /\ y.button = [e.button EXCEPT !.blocked = TRUE] /\ y.button.blocked
            /\ y.button.debounced = e.button.debounced
        <4>1. /\ Stopped(w).control = Closed /\ Stopped(w).hold = Off
              /\ Stopped(w).servo = tap.servo /\ Stopped(w).web = tap.web
              /\ (Stopped(w).deadline = 0 <=> tap.deadline = 0) /\ Stopped(w).button = e.button
          BY <1>5, <3>2, StoppedFacts
        <4> QED BY <3>3, <4>1, BlockedFacts
      <3> QED BY <1>6, <2>2, <3>4 DEF TapInv, Timely, Pouring, Testing
    <2>4. CASE ~(x.hold.elapsed >= MaxPour)
      <3>1. w = x
        BY <1>9, <2>4 DEF Watched, w
      <3>2. y = x
        BY <1>9, <3>1 DEF HoldEnded, w
      <3>3. x.hold.elapsed < MaxPour
        BY <1>5, <2>4, Limits DEF TapType, HoldType, Times
      <3>4. Ran(y) = Ran(tap) + 1
        BY <1>5, <1>6, <1>9, <2>1, <3>2 DEF Ran
      <3> QED BY <1>5, <1>9, <2>1, <2>2, <3>2, <3>3, <3>4 DEF TapInv, Timely, Pouring, Testing
    <2> QED BY <2>3, <2>4
  <1> QED BY <1>8, <1>9

\* The end of a pour or of a servo test closes the servo; a pour that goes on is left
\* alone.
LEMMA SettleFacts ==
    ASSUME NEW x \in TapType, TapInv(x), NEW was, settings \in Configs, NEW z, z = Settle(x, was)
    PROVE  /\ z \in TapType /\ z.web = x.web /\ z.button = x.button
           /\ Pouring(x) => z = x
           /\ ~Pouring(x) => ~Pouring(z) /\ (z.control = x.control \/ z.control = Closed)
           /\ Testing(z) => Testing(x)
  <1> DEFINE y == IF was /\ ~Pouring(x) THEN SetServo(x, settings.closed) ELSE x
  <1>1. settings.closed \in Pulses /\ Closed.pouring = FALSE /\ Off.pouring = FALSE
    BY PulseTypes DEF Closed, Off
  <1>2. z = IF y.deadline # 1 THEN y
            ELSE [SetServo(y, settings.closed) EXCEPT !.deadline = 0, !.control = Closed]
    BY DEF Settle
  <1>3. /\ y \in TapType /\ y.web = x.web /\ y.button = x.button /\ y.deadline = x.deadline
        /\ Pouring(x) => y = x
        /\ ~Pouring(x) => ~Pouring(y) /\ (y.control = x.control \/ y.control = Closed)
    BY <1>1, SetServoFacts DEF Pouring
  <1> HIDE DEF y
  <1>4. CASE y.deadline # 1
    BY <1>2, <1>3, <1>4 DEF Testing
  <1>5. CASE y.deadline = 1
    <2>1. ~Pouring(x)
      BY <1>3, <1>5 DEF TapInv
    <2> DEFINE v == SetServo(y, settings.closed)
    <2>2. /\ v \in TapType /\ v.web = x.web /\ v.button = x.button /\ ~v.hold.pouring
      BY <1>1, <1>3, <2>1, SetServoFacts DEF Pouring
    <2>3. z = [v EXCEPT !.deadline = 0, !.control = Closed]
      BY <1>2, <1>5
    <2> HIDE DEF v
    <2>4. /\ z \in TapType /\ z.web = v.web /\ z.button = v.button /\ z.hold = v.hold
          /\ z.control = Closed /\ z.deadline = 0
      <3>1. 0 \in 0..(TestTime + 1) /\ Closed \in ControlType
        BY ClosedTypes, Limits
      <3>2. v \in TapType
        BY <2>2
      <3> QED BY <2>3, <3>1, <3>2 DEF TapType
    <2> QED BY <1>1, <2>1, <2>2, <2>4 DEF Pouring, Testing
  <1> QED BY <1>4, <1>5

\* Nothing running: the servo is closed and the web page's turn is over.
LEMMA RestFacts ==
    ASSUME NEW x \in TapType, TapInv(x), Timely(x), settings \in Configs, NEW z, z = Rest(x)
    PROVE  /\ z \in TapType /\ TapInv(z) /\ Timely(z) /\ z.button = x.button
           /\ (z.web => Active(z)) /\ (Pouring(z) <=> Pouring(x)) /\ (Testing(z) <=> Testing(x))
           /\ Pouring(x) => z.control = x.control /\ z.hold = x.hold /\ z.web = x.web
  <1> DEFINE y == IF settings.servo /\ ~Pouring(x) /\ ~Testing(x)
                  THEN SetServo(x, settings.closed) ELSE x
             web == y.web /\ (Pouring(y) \/ Testing(y))
  <1>1. settings.closed \in Pulses /\ Closed.pouring = FALSE /\ Off.pouring = FALSE
    BY PulseTypes DEF Closed, Off
  <1>2. z = [y EXCEPT !.web = web]
    BY DEF Rest
  <1>3. /\ y \in TapType /\ y.web = x.web /\ y.button = x.button /\ y.deadline = x.deadline
        /\ Pouring(x) \/ Testing(x) => y = x
        /\ ~Pouring(x) => ~Pouring(y)
    BY <1>1, SetServoFacts DEF Pouring
  <1>4. web \in BOOLEAN
    BY <1>3 DEF TapType
  <1>5. web = (y.web /\ (Pouring(y) \/ Testing(y)))
    OBVIOUS
  <1> HIDE DEF y, web
  <1>6. /\ z \in TapType /\ z.web = web /\ z.button = x.button /\ z.control = y.control
        /\ z.hold = y.hold /\ z.deadline = x.deadline
    BY <1>2, <1>3, <1>4 DEF TapType
  <1>7. /\ Pouring(z) <=> Pouring(x)
        /\ Testing(z) <=> Testing(x)
    BY <1>3, <1>6 DEF Pouring, Testing
  <1>8. z.web => Active(z) /\ x.web
    BY <1>3, <1>5, <1>6, <1>7 DEF Active, Pouring, Testing
  <1>9. Pouring(x) => z.control = x.control /\ z.hold = x.hold /\ z.web = x.web
    <2>1. x.web \in BOOLEAN /\ z.web \in BOOLEAN
      BY <1>6 DEF TapType
    <2> QED BY <1>3, <1>5, <1>6, <2>1
  <1>10. TapInv(z) /\ Timely(z)
    <2>1. CASE Pouring(x)
      BY <1>6, <1>9, <2>1 DEF TapInv, Timely, Pouring, Testing
    <2>2. CASE ~Pouring(x)
      BY <1>6, <1>7, <2>2 DEF TapInv, Timely, Pouring, Testing
    <2> QED BY <2>1, <2>2
  <1> QED BY <1>6, <1>7, <1>8, <1>9, <1>10

(* The steps *)

\* The action properties, for a step.
StopStep ==
  (flags.stop /\ ~flags'.stop) \/ (pc = "receive" /\ tick.stop /\ pc' = "idle") => ~Active(tap')
LockStep ==
  flags.locked /\ pc # pc' /\ hist'.opened = "local" => pc = "receive" /\ hist.opened = "local"
ContactStep ==
  pc = "idle" /\ pc' = "receive" /\ (tick'.short \/ tick'.long) => ~hist.spent
RecordStep ==
  ~Pouring(tap) /\ Pouring(tap') => ~flags.recording /\ flags'.recording
TapStep == [Outcome!Next]_(Outcome!vars)
Safe == StopStep /\ LockStep /\ ContactStep /\ RecordStep /\ TapStep

\* What Tap sees of a tap that nothing runs on, or a test.
LEMMA AtRest ==
    ASSUME ~Pouring(tap)
    PROVE  Flow = (IF Testing(tap) THEN "test" ELSE "none") /\ Ran(tap) = 0
  BY DEF Flow, Ran, Pouring

\* The same, after the step.
LEMMA AtRestNext ==
    ASSUME ~Pouring(tap')
    PROVE  Flow' = (IF Testing(tap') THEN "test" ELSE "none") /\ Ran(tap') = 0
  BY DEF Flow, Ran, Pouring

\* A step that leaves nothing running is Tap's Shut.
LEMMA ShutsTap ==
    ASSUME ~Active(tap'), flags'.locked = flags.locked, update' = update,
           Phase' = Phase \/ (Phase = "open" /\ Phase' = "saving")
    PROVE  TapStep
  <1>1. Flow' = "none" /\ Ran(tap') = 0
    BY AtRestNext DEF Active
  <1>2. Outcome!Shut
    BY <1>1 DEF Outcome!Shut, Outcome!Recorded, Outcome!CloseRecord
  <1> QED BY <1>2 DEF TapStep, Outcome!Next

\* A step that only moves the lock, or ends the saving, is one of Tap's.
LEMMA LeavesTap ==
    ASSUME Inv, tap' = tap, update' = update, hist' = hist, flags' \in FlagsType,
           flags'.recording = flags.recording, flags'.saving => flags.saving,
           flags'.saving = flags.saving \/ flags'.locked = flags.locked
    PROVE  TapStep
  <1>1. Flow' = Flow /\ Ran(tap') = Ran(tap)
    BY DEF Flow, Ran
  <1>2. CASE flags'.saving = flags.saving
    <2>1. Phase' = Phase /\ flags'.locked \in BOOLEAN
      BY <1>2 DEF Phase, FlagsType
    <2>2. Outcome!Lock
      BY <1>1, <2>1 DEF Outcome!Lock
    <2> QED BY <2>2 DEF TapStep, Outcome!Next
  <1>3. CASE flags'.saving # flags.saving
    <2>1. flags.saving = TRUE /\ flags'.saving = FALSE /\ flags.recording = FALSE
      BY <1>3 DEF FlagsType, Inv, TypeInv, HistInv
    <2>2. Phase = "saving" /\ Phase' = "none" /\ flags'.locked = flags.locked
      BY <1>3, <2>1 DEF Phase
    <2>3. Outcome!Saved
      BY <1>1, <2>2 DEF Outcome!Saved, Outcome!SaveRecord
    <2> QED BY <2>3 DEF TapStep, Outcome!Next
  <1> QED BY <1>2, <1>3

\* After a boot the tap is shut and nothing is known.
LEMMA BootFacts ==
    ASSUME NEW c \in Configs, NEW high \in Levels, pwm \in BOOLEAN
    PROVE  /\ BootTap(c, high) \in TapType /\ TapInv(BootTap(c, high)) /\ Timely(BootTap(c, high))
           /\ ~Active(BootTap(c, high)) /\ BootTap(c, high).web = FALSE
  <1>1. c.closed \in Pulses /\ NoPulse \in Pulses /\ high \in BOOLEAN
    BY PourAssumption DEF Pulses
  <1>2. BootTap(c, high) \in TapType
    BY <1>1, ClosedTypes, Limits DEF BootTap, TapType, ButtonType
  <1>3. ~BootTap(c, high).control.pouring /\ ~BootTap(c, high).hold.pouring
        /\ BootTap(c, high).deadline = 0 /\ BootTap(c, high).web = FALSE
        /\ BootTap(c, high).button.debounced = high /\ BootTap(c, high).button.armed = high
    BY DEF BootTap, Closed, Off
  <1> QED BY <1>2, <1>3 DEF TapInv, Timely, Active, Pouring, Testing

\* What is in the memory of the controller after a boot.
LEMMA BootTypes ==
    /\ BootSample \in SampleType
    /\ BootTick \in [was : BOOLEAN, stop : BOOLEAN, short : BOOLEAN, long : BOOLEAN]
    /\ BootHist \in [opened : {"no", "local", "web"}, spent : BOOLEAN]
    /\ \A locked \in BOOLEAN : BootFlags(locked) \in FlagsType
    /\ <<>> \in Seq(ActionType) /\ Len(<<>>) <= QueueLen
  <1>1. BootSample.r \in Readings
    BY PourAssumption DEF BootSample
  <1>2. BootSample \in SampleType
    BY <1>1, Limits DEF BootSample, SampleType
  <1> QED BY <1>2, EmptySeq, Limits DEF BootTick, BootHist, BootFlags, FlagsType

\* The invariant holds at first.
LEMMA InitInv == Init => Inv
  <1> SUFFICES ASSUME Init PROVE Inv
    OBVIOUS
  <1>1. PICK high \in Levels : tap = BootTap(settings, high)
    BY DEF Init
  <1>2. PICK locked \in BOOLEAN : flags = BootFlags(locked)
    BY DEF Init
  <1>3. /\ tap \in TapType /\ TapInv(tap) /\ Timely(tap) /\ ~Active(tap) /\ tap.web = FALSE
    BY <1>1, BootFacts DEF Init
  <1>4. TypeInv
    BY <1>2, <1>3, BootTypes DEF Init, TypeInv
  <1>5. IdleInv /\ TickInv /\ HistInv /\ UploadInv
    <2>1. ~Pouring(tap) /\ Testing(tap) = FALSE
      BY <1>3 DEF Active, Testing
    <2>2. flags.test = FALSE /\ flags.recording = FALSE /\ flags.saving = FALSE
      BY <1>2 DEF BootFlags
    <2> QED BY <1>3, <2>1, <2>2 DEF Init, IdleInv, TickInv, HistInv, UploadInv, BootHist
  <1> QED BY <1>3, <1>4, <1>5 DEF Inv

\* A tick that an upload keeps shut.
LEMMA UpdateTickStep ==
    ASSUME Inv, NEW y \in TapType, TapInv(y), y.web = tap.web, y.servo = tap.servo, update # "none",
           UpdateTick(y), sample' \in SampleType, UNCHANGED <<settings, update, pwm>>,
           hist' = [opened |-> IF Pouring(tap') THEN hist.opened ELSE "no",
                    spent |-> Contact(tap') /\ SpentIf(flags.locked \/ flags.stop \/ update # "none"
                                                      \/ (Pouring(tap) /\ ~Pouring(tap')))]
    PROVE  Inv' /\ Safe
  <1> DEFINE t == Shut(y)
             spent == Contact(tap') /\ SpentIf(flags.locked \/ flags.stop \/ update # "none"
                                               \/ (Pouring(tap) /\ ~Pouring(tap')))
  <1>1. /\ pc = "idle" /\ ~Active(tap) /\ (update # "closing" => updateClosed)
        /\ updateClosed => tap.servo = settings.closed
        /\ flags.test = FALSE /\ flags.recording = FALSE /\ tap.web = FALSE
        /\ flags \in FlagsType
    BY DEF Inv, UploadInv, IdleInv, TypeInv, FlagsType, TapType, Active
  <1>2. /\ t \in TapType /\ t.control = Closed /\ t.hold = Off /\ t.deadline = 0 /\ t.web = FALSE
        /\ t.button = [y.button EXCEPT !.blocked = TRUE]
        /\ y.servo = settings.closed => t.servo = settings.closed
    BY <1>1, ShutFacts DEF Inv, TypeInv
  <1>3. /\ tap' = t /\ updateClosed' = (t.servo = settings.closed) /\ queue' = <<>>
        /\ flags' = [flags EXCEPT !.stop = FALSE, !.test = FALSE]
        /\ pc' = pc /\ tick' = tick /\ settings' = settings /\ update' = update /\ pwm' = pwm
    BY DEF UpdateTick
  <1> HIDE DEF t
  <1>4. /\ ~Active(tap') /\ ~Pouring(tap') /\ Testing(tap') = FALSE
    BY <1>2, <1>3 DEF Active, Pouring, Testing, Closed, Off
  <1>5. /\ tap'.button.blocked /\ (tap'.button.debounced => tap'.button.armed)
        /\ tap'.button.debounced \in BOOLEAN
    BY <1>2, <1>3 DEF TapInv, TapType, ButtonType
  <1>6. flags' \in FlagsType /\ flags'.test = FALSE /\ flags'.recording = FALSE
    BY <1>1, <1>3 DEF FlagsType
  <1>7. hist'.opened = "no" /\ hist'.spent = spent
    BY <1>4
  <1>8. spent \in BOOLEAN /\ (spent => ~tap'.button.debounced)
    BY <1>5 DEF Contact
  <1> HIDE DEF spent
  <1>9. hist' \in [opened : {"no", "local", "web"}, spent : BOOLEAN]
    BY <1>4, <1>7, <1>8 DEF spent
  <1>10. TypeInv'
    BY <1>2, <1>3, <1>6, <1>9, BootTypes DEF Inv, TypeInv
  <1>11. TapInv(tap') /\ Timely(tap')
    BY <1>4, <1>5 DEF TapInv, Timely, Pouring, Testing
  <1>12. IdleInv' /\ TickInv'
    BY <1>1, <1>2, <1>3, <1>4, <1>6 DEF IdleInv, TickInv
  <1>13. HistInv'
    BY <1>4, <1>5, <1>6, <1>7, <1>8 DEF HistInv
  <1>14. UploadInv'
    BY <1>1, <1>2, <1>3, <1>4 DEF UploadInv
  <1>15. Safe
    <2>1. Phase' = Phase /\ flags'.locked = flags.locked
      BY <1>1, <1>3 DEF Phase, FlagsType
    <2>2. TapStep
      BY <1>3, <1>4, <2>1, ShutsTap
    <2> QED BY <1>1, <1>3, <1>4, <2>2 DEF Safe, StopStep, LockStep, ContactStep, RecordStep
  <1> QED BY <1>10, <1>11, <1>12, <1>13, <1>14, <1>15 DEF Inv

\* A tick that goes on to the queue.
LEMMA StopTickStep ==
    ASSUME Inv, pc = "idle", update = "none", NEW y \in TapType, TapInv(y), Timely(y),
           y.web = tap.web, (Pouring(y) => Pouring(tap) /\ Ran(y) = Ran(tap) + 1),
           (y.deadline = 0 <=> tap.deadline = 0),
           NEW e, y.button = e.button \/ y.button = [e.button EXCEPT !.blocked = TRUE],
           Pouring(tap) /\ ~Pouring(y) =>
             y.control.count = 0 /\ (y.button.blocked \/ y.button.debounced),
           e.button \in ButtonType, e.short \in BOOLEAN, e.long \in BOOLEAN,
           e.long => ~e.button.debounced /\ e.button.sent,
           Active(tap) => ~e.long,
           ~tap.button.debounced /\ (tap.button.blocked \/ tap.button.sent) =>
             ~e.short /\ ~e.long /\ (e.button.debounced \/ e.button.blocked \/ e.button.sent),
           StopTick(tap, y, e), sample' \in SampleType, UNCHANGED <<settings, update, pwm>>,
           hist' = [opened |-> IF Pouring(tap') THEN hist.opened ELSE "no",
                    spent |-> Contact(tap') /\ SpentIf(flags.locked \/ flags.stop \/ update # "none"
                                                      \/ (Pouring(tap) /\ ~Pouring(tap')))]
    PROVE  Inv' /\ Safe
  <1> DEFINE was  == Pouring(tap)
             stop == flags.stop \/ (e.pressed /\ (was \/ Testing(tap))) \/ LockStop(tap)
             v    == IF flags.locked THEN Blocked(y) ELSE y
             t    == IF stop THEN Shut(v) ELSE v
             spent == Contact(tap') /\ SpentIf(flags.locked \/ flags.stop \/ update # "none"
                                               \/ (Pouring(tap) /\ ~Pouring(tap')))
  <1>1. /\ tap \in TapType /\ TapInv(tap) /\ flags \in FlagsType /\ settings \in Configs
        /\ flags.test = Testing(tap) /\ (flags.recording => Pouring(tap))
        /\ (tap.web => Active(tap)) /\ (flags.saving => ~flags.recording)
        /\ (Pouring(tap) => flags.recording)
        /\ Pouring(tap) => hist.opened = IF tap.web THEN "web" ELSE "local"
        /\ hist.spent => ~tap.button.debounced /\ (tap.button.blocked \/ tap.button.sent)
    BY DEF Inv, TypeInv, IdleInv, HistInv
  <1>2. /\ tap' = Settle(t, was)
        /\ tick' = [was |-> was, stop |-> stop, short |-> e.short, long |-> e.long]
        /\ queue' = IF stop THEN <<>> ELSE queue
        /\ flags' = [flags EXCEPT !.stop = FALSE]
        /\ pc' = "receive" /\ updateClosed' = updateClosed
        /\ settings' = settings /\ update' = update /\ pwm' = pwm
    <2>1. settings' = settings /\ update' = update /\ pwm' = pwm
      OBVIOUS
    <2>2. /\ tap' = Settle(t, was)
          /\ tick' = [was |-> was, stop |-> stop, short |-> e.short, long |-> e.long]
          /\ queue' = IF stop THEN <<>> ELSE queue
          /\ flags' = [flags EXCEPT !.stop = FALSE]
          /\ pc' = "receive" /\ UNCHANGED updateClosed
      BY Zenon DEF StopTick
    <2> QED BY <2>1, <2>2
  <1>3. was \in BOOLEAN /\ stop \in BOOLEAN
    <2>1. tap.control.pouring \in BOOLEAN /\ tap.hold.pouring \in BOOLEAN /\ flags.stop \in BOOLEAN
      BY <1>1 DEF TapType, ControlType, HoldType, FlagsType
    <2> QED BY <2>1 DEF Pouring, LockStop
  <1>4. /\ v \in TapType /\ v.control = y.control /\ v.hold = y.hold /\ v.web = tap.web
        /\ v.deadline = y.deadline
        /\ v.button.debounced = e.button.debounced /\ v.button.sent = e.button.sent
        /\ v.button.armed = y.button.armed
        /\ (y.button.blocked => v.button.blocked) /\ (e.button.blocked => v.button.blocked)
        /\ (flags.locked => v.button.blocked)
    <2>1. y.button.debounced = e.button.debounced /\ y.button.sent = e.button.sent
          /\ (e.button.blocked => y.button.blocked)
      BY DEF ButtonType
    <2>2. [y.button EXCEPT !.blocked = TRUE].armed = y.button.armed
      BY DEF TapType, ButtonType
    <2> QED BY <2>1, <2>2, BlockedFacts
  <1>5. TapInv(v) /\ Timely(v) /\ (Pouring(v) <=> Pouring(y)) /\ (Testing(v) <=> Testing(tap))
    <2>1. v.button.debounced = y.button.debounced /\ v.button.sent = y.button.sent
      <3>1. CASE flags.locked
        BY <3>1, BlockedFacts
      <3> QED BY <3>1
    <2> QED BY <1>4, <2>1 DEF TapInv, Timely, Pouring, Testing
  <1>6. stop => flags.stop \/ Active(tap)
    BY DEF LockStop, Active, Pouring, Testing
  <1>7. flags.locked /\ ~v.web /\ Pouring(v) => stop
    BY <1>4, <1>5 DEF LockStop
  <1>8. /\ flags.stop => stop
    OBVIOUS
  <1> HIDE DEF v, stop
  <1>9. /\ t \in TapType /\ TapInv(t) /\ Timely(t) /\ t.web = tap.web
        /\ (Pouring(t) => ~stop /\ t = v /\ Pouring(tap)) /\ (stop => ~Active(t))
        /\ t.button.debounced = e.button.debounced /\ t.button.sent = e.button.sent
        /\ (y.button.blocked \/ e.button.blocked \/ flags.locked \/ stop => t.button.blocked)
        /\ (Pouring(tap) /\ ~Pouring(t) => t.control.count = 0
              /\ (t.button.blocked \/ t.button.debounced))
        /\ (Testing(t) => Testing(tap))
    <2>1. CASE stop
      <3>1. /\ t = Shut(v) /\ t \in TapType /\ t.control = Closed /\ t.hold = Off
            /\ t.deadline = 0 /\ t.web = v.web /\ t.button = [v.button EXCEPT !.blocked = TRUE]
        BY <1>1, <1>4, <2>1, ShutFacts
      <3>2. /\ t.button.debounced = v.button.debounced /\ t.button.sent = v.button.sent
            /\ t.button.armed = v.button.armed /\ t.button.blocked
        BY <1>4, <3>1 DEF TapType, ButtonType
      <3>3. ~t.control.pouring /\ ~t.hold.pouring /\ t.control.count = 0
        BY <3>1 DEF Closed, Off
      <3> HIDE DEF t
      <3> QED BY <1>4, <1>5, <2>1, <3>1, <3>2, <3>3 DEF TapInv, Timely, Active, Pouring, Testing
    <2>2. CASE ~stop
      <3>1. t = v
        BY <2>2
      <3>2. y.button.debounced = e.button.debounced
        BY DEF ButtonType
      <3> HIDE DEF t
      <3>3. Pouring(tap) /\ ~Pouring(t) => t.control.count = 0
              /\ (t.button.blocked \/ t.button.debounced)
        BY <1>4, <1>5, <3>1, <3>2
      <3> QED BY <1>4, <1>5, <2>2, <3>1, <3>3
    <2> QED BY <2>1, <2>2
  <1> HIDE DEF t
  <1>10. /\ tap' \in TapType /\ tap'.web = tap.web /\ tap'.button = t.button
         /\ (Pouring(t) => tap' = t) /\ (~Pouring(t) => ~Pouring(tap'))
         /\ (~Pouring(t) => tap'.control = t.control \/ tap'.control = Closed)
         /\ (Testing(tap') => Testing(t))
    BY <1>1, <1>2, <1>9, SettleFacts
  <1>11. /\ Pouring(tap') => tap' = t /\ t = v /\ ~stop /\ Pouring(tap)
         /\ stop => ~Active(tap')
         /\ Closed.count = 0
    BY <1>9, <1>10 DEF Active, Closed
  <1>12. TapInv(tap') /\ Timely(tap')
    <2>1. CASE Pouring(tap')
      BY <1>9, <1>11, <2>1
    <2>2. CASE ~Pouring(tap')
      <3>1. TapInv(t)
        BY <1>9
      <3> QED BY <1>10, <2>2, <3>1 DEF TapInv, Timely, Pouring
    <2> QED BY <2>1, <2>2
  <1>13. /\ flags' \in FlagsType /\ flags'.stop = FALSE /\ flags'.recording = flags.recording
         /\ flags'.saving = flags.saving /\ flags'.locked = flags.locked
    BY <1>1, <1>2 DEF FlagsType
  <1>14. spent \in BOOLEAN /\ (spent => ~tap'.button.debounced)
    BY <1>10 DEF Contact, TapType, ButtonType
  <1>15. hist'.opened = (IF Pouring(tap') THEN hist.opened ELSE "no") /\ hist'.spent = spent
    OBVIOUS
  <1>16. spent => tap'.button.blocked \/ tap'.button.sent
    <2> SUFFICES ASSUME spent PROVE tap'.button.blocked \/ tap'.button.sent
      OBVIOUS
    <2>1. CASE hist.spent
      BY <1>1, <1>9, <1>10, <1>14, <2>1
    <2>2. CASE flags.locked \/ flags.stop
      BY <1>8, <1>9, <1>10, <2>2
    <2>3. CASE Pouring(tap) /\ ~Pouring(tap')
      BY <1>9, <1>10, <1>14, <2>3
    <2> QED BY <2>1, <2>2, <2>3 DEF SpentIf
  <1> HIDE DEF spent, was
  <1>17. TypeInv'
    <2>1. hist' \in [opened : {"no", "local", "web"}, spent : BOOLEAN]
      BY <1>14 DEF Inv, TypeInv, spent
    <2>2. queue' \in Seq(ActionType) /\ Len(queue') <= QueueLen
      BY <1>2, BootTypes DEF Inv, TypeInv
    <2> QED BY <1>2, <1>3, <1>10, <1>13, <2>1, <2>2 DEF Inv, TypeInv
  <1>18. IdleInv' /\ UploadInv'
    BY <1>2 DEF IdleInv, UploadInv
  <1>19. TickInv'
    <2>1. /\ tick'.stop = stop /\ tick'.was = Pouring(tap) /\ tick'.long = e.long
      BY <1>2 DEF was
    <2>2. Pouring(tap) /\ ~Pouring(tap') => tap'.control.count = 0 /\ ~e.long
      BY <1>9, <1>10, <1>11 DEF Active
    <2>3. e.long => ~tap'.web /\ ~tap'.button.debounced /\ tap'.button.sent
      BY <1>1, <1>9, <1>10
    <2> QED BY <1>1, <1>11, <1>13, <2>1, <2>2, <2>3 DEF TickInv
  <1>20. HistInv'
    BY <1>1, <1>9, <1>10, <1>11, <1>13, <1>14, <1>15, <1>16 DEF HistInv
  <1>21. Safe
    <2>1. StopStep
      BY <1>2, <1>8, <1>11 DEF StopStep
    <2>2. LockStep
      BY <1>1, <1>7, <1>9, <1>11, <1>15 DEF LockStep
    <2>3. ContactStep
      BY <1>1, <1>2 DEF ContactStep
    <2>4. TapStep
      <3>1. Phase' = Phase /\ flags'.locked = flags.locked /\ update' = update
        BY <1>2, <1>13 DEF Phase
      <3>2. CASE Pouring(tap')
        <4>1. flags.locked => tap.web
          BY <1>1, <1>4, <1>7, <1>9, <1>11, <3>2
        <4>2. Flow = hist.opened /\ Flow' = hist.opened /\ Flow \in {"local", "web"}
              /\ (Flow = "local" => ~flags.locked)
          BY <1>1, <1>11, <1>15, <3>2, <4>1 DEF Flow
        <4>3. Ran(tap') = Ran(tap) + 1 /\ Ran(tap') < MaxPour
          <5>1. Ran(tap') = Ran(y) /\ Pouring(y)
            BY <1>4, <1>5, <1>11, <3>2 DEF Ran
          <5>2. Ran(tap') < MaxPour
            BY <1>12, <3>2 DEF Timely, Ran, Pouring
          <5> QED BY <5>1, <5>2
        <4>4. Outcome!Run
          BY <3>1, <4>2, <4>3 DEF Outcome!Run, Outcome!Pours
        <4> QED BY <4>4 DEF TapStep, Outcome!Next
      <3>3. CASE ~Pouring(tap') /\ Testing(tap')
        <4>1. ~Pouring(tap) /\ Testing(tap)
          BY <1>1, <1>9, <1>10, <3>3 DEF TapInv, Testing
        <4>2. Flow' = Flow /\ Ran(tap') = Ran(tap)
          BY <3>3, <4>1, AtRest, AtRestNext
        <4> QED BY <3>1, <4>2 DEF TapStep, Outcome!vars
      <3>4. CASE ~Pouring(tap') /\ ~Testing(tap')
        BY <3>1, <3>4, ShutsTap DEF Active
      <3> QED BY <3>2, <3>3, <3>4
    <2> QED BY <1>11, <2>1, <2>2, <2>3, <2>4 DEF Safe, RecordStep
  <1> QED BY <1>12, <1>17, <1>18, <1>19, <1>20, <1>21 DEF Inv

\* The first half of a tick.
LEMMA TickBeginStep ==
    ASSUME Inv, NEW high \in Levels, TickBegin(high)
    PROVE  Inv' /\ Safe
  <1> DEFINE busy == Pouring(tap) \/ Testing(tap) \/ flags.setup \/ update # "none"
                       \/ flags.saving \/ flags.locked
             e    == Gesture(tap.button, high, busy)
             s    == [sample EXCEPT !.age = Least(@ + 1, Stale + 1)]
             x    == LetGo([Aged(tap) EXCEPT !.button = e.button], high)
             y    == HoldEnded(tap, Watched(x, s))
  <1>1. /\ tap \in TapType /\ TapInv(tap) /\ Timely(tap) /\ tap.button \in ButtonType
        /\ (tap.button.debounced => tap.button.armed) /\ sample \in SampleType
        /\ flags \in FlagsType /\ high \in BOOLEAN
    BY PourAssumption DEF Inv, TypeInv, TapInv, TapType
  <1>2. busy \in BOOLEAN /\ (Active(tap) => busy)
    <2>1. /\ tap.control.pouring \in BOOLEAN /\ tap.hold.pouring \in BOOLEAN
          /\ flags.setup \in BOOLEAN /\ flags.saving \in BOOLEAN /\ flags.locked \in BOOLEAN
      BY <1>1 DEF TapType, ControlType, HoldType, FlagsType
    <2> QED BY <2>1 DEF Active, Pouring, Testing
  <1>3. s \in SampleType /\ Noticed(x, s) \in SampleType
    <2>1. Least(sample.age + 1, Stale + 1) \in 0..(Stale + 1)
      BY <1>1, Limits DEF SampleType, Least
    <2>2. s \in SampleType
      BY <1>1, <2>1 DEF SampleType
    <2> HIDE DEF s
    <2> QED BY <2>2 DEF Noticed, SampleType
  <1>4. /\ pc = "idle" /\ sample' = Noticed(x, s)
        /\ IF update # "none" THEN UpdateTick(y) ELSE StopTick(tap, y, e)
        /\ hist' = [opened |-> IF Pouring(tap') THEN hist.opened ELSE "no",
                    spent |-> Contact(tap') /\ SpentIf(flags.locked \/ flags.stop \/ update # "none"
                                                      \/ (Pouring(tap) /\ ~Pouring(tap')))]
        /\ UNCHANGED <<settings, update, pwm>>
    BY DEF TickBegin
  <1> HIDE DEF busy
  <1>5. /\ e.button \in ButtonType /\ e.short \in BOOLEAN /\ e.long \in BOOLEAN
        /\ (e.long => ~e.button.debounced /\ e.button.sent)
        /\ (busy /\ (tap.button.blocked \/ tap.button.debounced) => ~e.long)
        /\ (~tap.button.debounced /\ (tap.button.blocked \/ tap.button.sent) =>
              ~e.short /\ ~e.long /\ (e.button.debounced \/ e.button.blocked \/ e.button.sent))
    <2> HIDE DEF e
    <2> QED BY <1>1, <1>2, GestureFacts DEF e
  <1> HIDE DEF e, s
  <1>6. /\ y \in TapType /\ TapInv(y) /\ Timely(y)
        /\ y.web = tap.web /\ y.servo = tap.servo /\ (y.deadline = 0 <=> tap.deadline = 0)
        /\ y.button = e.button \/ y.button = [e.button EXCEPT !.blocked = TRUE]
        /\ Pouring(y) => Pouring(tap) /\ Ran(y) = Ran(tap) + 1
        /\ (Pouring(tap) /\ ~Pouring(y) =>
           y.control.count = 0 /\ (y.button.blocked \/ y.button.debounced))
    <2> HIDE DEF x, y
    <2> QED BY <1>1, <1>2, <1>3, SensorFacts DEF x, y, e
  <1> HIDE DEF x, y
  <1>7. Active(tap) => ~e.long
    <2>1. tap.hold.pouring => ~tap.button.debounced /\ tap.button.sent
      BY <1>1 DEF TapInv
    <2>2. tap.control.pouring \/ Testing(tap) => tap.button.blocked \/ tap.button.debounced
      BY <1>1 DEF TapInv
    <2> QED BY <1>2, <1>5, <2>1, <2>2 DEF Active, Pouring
  <1>8. CASE update # "none"
    <2>1. UpdateTick(y)
      BY <1>4, <1>8
    <2> QED BY <1>3, <1>4, <1>6, <1>8, <2>1, UpdateTickStep
  <1>9. CASE update = "none"
    <2>1. StopTick(tap, y, e)
      BY <1>4, <1>9
    <2>2. /\ e.button \in ButtonType /\ e.short \in BOOLEAN /\ e.long \in BOOLEAN
          /\ (e.long => ~e.button.debounced /\ e.button.sent)
          /\ (Active(tap) => ~e.long)
          /\ (~tap.button.debounced /\ (tap.button.blocked \/ tap.button.sent) =>
                ~e.short /\ ~e.long /\ (e.button.debounced \/ e.button.blocked \/ e.button.sent))
      BY <1>5, <1>7
    <2>3. /\ pc = "idle" /\ sample' \in SampleType /\ UNCHANGED <<settings, update, pwm>>
      BY <1>3, <1>4
    <2>4. hist' = [opened |-> IF Pouring(tap') THEN hist.opened ELSE "no",
                   spent |-> Contact(tap') /\ SpentIf(flags.locked \/ flags.stop \/ update # "none"
                                                     \/ (Pouring(tap) /\ ~Pouring(tap')))]
      BY <1>4
    <2> HIDE DEF x, y, e, s, busy
    <2>5. /\ y \in TapType /\ TapInv(y) /\ Timely(y) /\ y.web = tap.web
          /\ (Pouring(y) => Pouring(tap) /\ Ran(y) = Ran(tap) + 1)
          /\ (y.deadline = 0 <=> tap.deadline = 0)
          /\ (y.button = e.button \/ y.button = [e.button EXCEPT !.blocked = TRUE])
          /\ (Pouring(tap) /\ ~Pouring(y) =>
                y.control.count = 0 /\ (y.button.blocked \/ y.button.debounced))
      BY ZenonT(30), <1>6
    <2> QED BY <1>9, <2>1, <2>2, <2>3, <2>4, <2>5, StopTickStep, ZenonT(60)
  <1> QED BY <1>8, <1>9

\* A queued action: it ends what is running, or starts a test or a pour when nothing
\* is, no record is being saved and, for a pour, the cup is ready.
LEMMA PerformFacts ==
    ASSUME tap \in TapType, TapInv(tap), Timely(tap), settings \in Configs,
           NEW a \in ActionType, NEW x, x = Perform(tap, a)
    PROVE  /\ x \in TapType /\ TapInv(x) /\ Timely(x)
           /\ x.button.debounced = tap.button.debounced /\ x.button.sent = tap.button.sent
           /\ (tap.button.blocked => x.button.blocked)
           /\ (Pouring(tap) /\ Pouring(x) => x = tap)
           /\ (~Pouring(tap) /\ Pouring(x) =>
                 /\ a.kind # "CLOSE" /\ ~flags.saving /\ tap.control.count >= Stable
                 /\ ~x.hold.pouring /\ x.web = a.web /\ x.button.blocked
                 /\ ~Testing(tap) /\ Ran(x) = 0)
           /\ (Testing(x) /\ ~Testing(tap) =>
                 x.button.blocked /\ ~Pouring(tap) /\ ~flags.saving)
  <1>1. settings.closed \in Pulses /\ settings.open \in Pulses
    BY PulseTypes
  <1>2. /\ Closed.pouring = FALSE /\ Off.pouring = FALSE /\ Closed.count = 0
    BY DEF Closed, Off
  <1>3. \A b \in ButtonType : /\ [b EXCEPT !.blocked = TRUE].debounced = b.debounced
                              /\ [b EXCEPT !.blocked = TRUE].armed = b.armed
                              /\ [b EXCEPT !.blocked = TRUE].sent = b.sent
                              /\ [b EXCEPT !.blocked = TRUE].blocked
    BY DEF ButtonType
  <1>4. tap.button \in ButtonType /\ (tap.button.debounced => tap.button.armed)
    BY DEF TapType, TapInv
  <1>5. CASE a.kind = "CLOSE"
    <2>1. /\ x \in TapType /\ x.control = Closed /\ x.hold = Off /\ x.deadline = 0
          /\ x.button = [tap.button EXCEPT !.blocked = TRUE]
      BY <1>5, ShutFacts DEF Perform
    <2> QED BY <1>2, <1>3, <1>4, <2>1 DEF TapInv, Timely, Pouring, Testing
  <1>6. CASE x = tap
    BY <1>6
  <1>7. CASE a.kind = "TEST" /\ x # tap
    <2> DEFINE b == Blocked(tap)
               c == [b EXCEPT !.control = Closed, !.web = a.web]
               d == SetServo(c, a.pulse)
    <2>1. Idle(tap) /\ x = [d EXCEPT !.deadline = TestTime + 1]
      BY <1>7 DEF Perform, Test
    <2>2. b \in TapType /\ b.hold = tap.hold /\ b.button = [tap.button EXCEPT !.blocked = TRUE]
      BY BlockedFacts
    <2>3. a.web \in BOOLEAN /\ a.pulse \in Pulses
      BY DEF ActionType
    <2> HIDE DEF b
    <2>4. c \in TapType /\ c.control = Closed /\ c.hold = tap.hold /\ c.button = b.button
      BY <2>2, <2>3, ClosedTypes DEF TapType
    <2> HIDE DEF c
    <2>5. /\ d \in TapType /\ d.control = Closed /\ (d.hold = tap.hold \/ d.hold = Off)
          /\ d.button = b.button
      BY <2>3, <2>4, SetServoFacts
    <2> HIDE DEF d
    <2>6. TestTime + 1 \in 0..(TestTime + 1) /\ TestTime + 1 # 0
      BY Limits
    <2>7. /\ x \in TapType /\ x.control = d.control /\ x.hold = d.hold /\ x.button = d.button
      BY <2>1, <2>5, <2>6 DEF TapType
    <2>8. ~Pouring(x) /\ ~Pouring(tap) /\ ~flags.saving
      BY <1>2, <2>1, <2>5, <2>7 DEF Pouring, Idle
    <2>9. /\ x.button.blocked /\ x.button.debounced = tap.button.debounced
          /\ x.button.sent = tap.button.sent /\ x.button.armed = tap.button.armed
      BY <1>3, <1>4, <2>2, <2>5, <2>7
    <2> QED BY <1>4, <2>7, <2>8, <2>9 DEF TapInv, Timely, Pouring
  <1>8. CASE a.kind \notin {"CLOSE", "TEST"} /\ x # tap
    <2> DEFINE target == IF a.kind = "START_HALF" THEN "half" ELSE "full"
               b == Blocked(tap)
               n == [b.control EXCEPT !.pouring = TRUE, !.elapsed = 0, !.dropout = "no"]
               c == [b EXCEPT !.control = n, !.web = a.web, !.target = target]
    <2>1. /\ ~Testing(tap) /\ Idle(tap) /\ TargetReady(tap.control, target)
          /\ x = SetServo(c, settings.open)
      <3>1. x = Start(tap, a)
        BY <1>8 DEF Perform
      <3>2. b.control = tap.control
        BY BlockedFacts
      <3> QED BY <1>8, <3>1 DEF Start
    <2>2. /\ b \in TapType /\ b.control = tap.control /\ b.hold = tap.hold
          /\ b.deadline = tap.deadline /\ b.button = [tap.button EXCEPT !.blocked = TRUE]
      BY BlockedFacts
    <2>3. a.web \in BOOLEAN /\ target \in {"full", "half"}
      BY DEF ActionType
    <2>4. tap.control.age <= Stale /\ tap.control.count >= Stable
      BY <2>1 DEF TargetReady, Ready
    <2>5. b.control \in ControlType
      BY <2>2 DEF TapType
    <2> HIDE DEF b, target
    <2>6. n \in ControlType /\ n.pouring = TRUE /\ n.elapsed = 0 /\ n.dropout = "no" /\ n.age <= Stale
      <3>1. 0 \in Times
        BY Limits DEF Times
      <3>2. /\ n \in ControlType /\ n.pouring = TRUE /\ n.elapsed = 0 /\ n.dropout = "no"
            /\ n.age = b.control.age
        BY <2>5, <3>1 DEF ControlType
      <3> QED BY <2>2, <2>4, <3>2
    <2> HIDE DEF n
    <2>7. /\ c \in TapType /\ c.control = n /\ c.hold = tap.hold /\ c.button = b.button
          /\ c.web = a.web /\ c.deadline = tap.deadline
      BY <2>2, <2>3, <2>6 DEF TapType
    <2> HIDE DEF c
    <2>8. /\ ~tap.control.pouring /\ ~tap.hold.pouring /\ ~flags.saving /\ tap.deadline = 0
      BY <2>1 DEF Idle, Pouring, Testing
    <2>9. /\ x \in TapType /\ x.button = b.button /\ x.web = a.web /\ x.deadline = 0
          /\ ~x.hold.pouring /\ (x.control = n \/ x.control = Closed)
      BY <1>1, <1>2, <2>1, <2>7, <2>8, SetServoFacts
    <2>10. /\ x.button.blocked /\ x.button.debounced = tap.button.debounced
           /\ x.button.sent = tap.button.sent /\ x.button.armed = tap.button.armed
      BY <1>3, <1>4, <2>2, <2>9
    <2>11. TapInv(x)
      BY <1>4, <2>9, <2>10 DEF TapInv, Pouring, Testing
    <2>12. Timely(x)
      BY <1>2, <2>6, <2>9, Limits DEF Timely
    <2>13. ~Testing(tap) /\ (Pouring(x) => Ran(x) = 0)
      BY <1>2, <2>1, <2>6, <2>9 DEF Pouring, Ran
    <2> QED BY <1>8, <2>4, <2>8, <2>9, <2>10, <2>11, <2>12, <2>13 DEF Pouring, Testing
  <1> QED BY <1>5, <1>6, <1>7, <1>8

\* A held contact: it opens the tap when nothing is running, or ends what is.
LEMMA HoldFacts ==
    ASSUME tap \in TapType, TapInv(tap), Timely(tap), settings \in Configs, ~tap.web,
           ~tap.button.debounced, tap.button.sent, NEW x, x = HoldBegin(tap)
    PROVE  /\ x \in TapType /\ TapInv(x) /\ Timely(x)
           /\ x.button.debounced = tap.button.debounced /\ x.button.sent = tap.button.sent
           /\ (tap.button.blocked => x.button.blocked)
           /\ (Pouring(x) => ~Pouring(tap) /\ x.hold.pouring /\ ~x.web /\ ~flags.saving
                             /\ ~flags.locked /\ ~Testing(tap) /\ Ran(x) = 0)
           /\ (Testing(x) <=> Testing(tap))
  <1>1. settings.open \in Pulses
    BY PulseTypes
  <1>2. /\ Closed.pouring = FALSE /\ Off.pouring = FALSE /\ Closed.count = 0
    BY DEF Closed, Off
  <1>3. tap.button \in ButtonType /\ (tap.button.debounced => tap.button.armed)
    BY DEF TapType, TapInv
  <1>4. CASE MayHold(tap)
    <2> DEFINE hold == [pouring |-> TRUE, elapsed |-> 0]
               c == [tap EXCEPT !.control = Closed, !.target = "full", !.hold = hold]
    <2>1. x = SetServo(c, settings.open)
      BY <1>4 DEF HoldBegin
    <2>2. hold \in HoldType /\ hold.pouring = TRUE /\ hold.elapsed = 0
      BY Limits DEF HoldType, Times
    <2> HIDE DEF hold
    <2>3. /\ c \in TapType /\ c.control = Closed /\ c.hold = hold /\ c.web = tap.web
          /\ c.button = tap.button /\ c.deadline = tap.deadline
      BY <2>2, ClosedTypes DEF TapType
    <2> HIDE DEF c
    <2>4. /\ ~flags.locked /\ ~flags.saving /\ ~Pouring(tap) /\ ~Testing(tap) /\ tap.deadline = 0
      BY <1>4 DEF MayHold, Idle, Testing
    <2>5. /\ x \in TapType /\ x.control = Closed /\ (x.hold = hold \/ x.hold = Off)
          /\ x.web = tap.web /\ x.button = tap.button /\ x.deadline = 0
      BY <1>1, <2>1, <2>3, <2>4, SetServoFacts
    <2>6. Timely(x)
      BY <1>2, <2>2, <2>5, Limits DEF Timely
    <2>7. TapInv(x)
      BY <1>2, <1>3, <2>5 DEF TapInv, Pouring, Testing
    <2>8. ~Testing(tap) /\ (Pouring(x) => Ran(x) = 0)
      BY <1>2, <2>2, <2>4, <2>5 DEF Pouring, Ran
    <2> QED BY <1>2, <2>2, <2>4, <2>5, <2>6, <2>7, <2>8 DEF Pouring, Testing
  <1>5. CASE ~MayHold(tap)
    <2>1. x = Blocked(Stopped(tap)) /\ Stopped(tap) \in TapType
      BY <1>5, StoppedFacts DEF HoldBegin
    <2>2. /\ x \in TapType /\ x.control = Closed /\ x.hold = Off /\ x.web = tap.web
          /\ x.button = [tap.button EXCEPT !.blocked = TRUE] /\ x.deadline = tap.deadline
      BY <2>1, StoppedFacts, BlockedFacts
    <2>3. /\ x.button.blocked /\ x.button.debounced = tap.button.debounced
          /\ x.button.sent = tap.button.sent /\ x.button.armed = tap.button.armed
      BY <1>3, <2>2 DEF ButtonType
    <2> QED BY <1>2, <1>3, <2>2, <2>3 DEF TapInv, Timely, Pouring, Testing
  <1> QED BY <1>4, <1>5

\* What the second half of a tick takes from the queue or from the button is an action.
LEMMA ReceivedTypes ==
    ASSUME TypeInv
    PROVE  /\ Received # <<>> => Received[1] \in ActionType
           /\ (IF queue = <<>> THEN queue ELSE Tail(queue)) \in Seq(ActionType)
           /\ Len(IF queue = <<>> THEN queue ELSE Tail(queue)) <= QueueLen
  <1>1. [kind |-> "START", web |-> FALSE, pulse |-> NoPulse] \in ActionType
    BY DEF ActionType, Kinds, Pulses
  <1>2. queue # <<>> => Head(queue) \in ActionType
    BY DEF TypeInv
  <1>3. Received # <<>> => Received[1] \in ActionType
    BY <1>1, <1>2 DEF Received
  <1>4. /\ (IF queue = <<>> THEN queue ELSE Tail(queue)) \in Seq(ActionType)
        /\ Len(IF queue = <<>> THEN queue ELSE Tail(queue)) <= QueueLen
    <2>1. queue \in Seq(ActionType) /\ Len(queue) <= QueueLen
      BY DEF TypeInv
    <2>2. CASE queue = <<>>
      BY <2>1, <2>2
    <2>3. CASE queue # <<>>
      BY <2>1, <2>3, Limits
    <2> QED BY <2>2, <2>3
  <1> QED BY <1>3, <1>4

\* The second half of a tick.
LEMMA TickEndStep ==
    ASSUME Inv, TickEnd
    PROVE  Inv' /\ Safe
  <1> DEFINE got  == Received
             a    == IF got = <<>> THEN [kind |-> "CLOSE", web |-> FALSE, pulse |-> NoPulse] ELSE got[1]
             x    == IF got # <<>> /\ Allowed(a) THEN Perform(tap, a) ELSE tap
             y    == IF tick.long /\ ~tick.stop /\ got = <<>> THEN HoldBegin(x) ELSE x
             done == Rest(y)
             spent == Contact(done) /\ SpentIf(\/ Pouring(done) /\ ~Pouring(tap)
                                               \/ Testing(done) /\ ~Testing(tap))
  <1>1. /\ pc = "receive" /\ pc' = "idle" /\ tap' = done
        /\ queue' = (IF queue = <<>> THEN queue ELSE Tail(queue))
        /\ Record(done)
        /\ hist' = [opened |-> Opener(done, a), spent |-> spent]
        /\ UNCHANGED <<settings, sample, tick, update, updateClosed, pwm>>
    BY Zenon DEF TickEnd
  <1>2. /\ tap \in TapType /\ TapInv(tap) /\ Timely(tap) /\ settings \in Configs
        /\ flags \in FlagsType /\ update = "none" /\ (flags.saving => ~flags.recording)
        /\ (Pouring(tap) => flags.recording)
        /\ (tick.stop => ~Active(tap)) /\ (flags.recording => tick.was)
        /\ (tick.was /\ ~Pouring(tap) => tap.control.count = 0 /\ ~tick.long)
        /\ (tick.long => ~tap.web /\ ~tap.button.debounced /\ tap.button.sent)
        /\ (Pouring(tap) => hist.opened = IF tap.web THEN "web" ELSE "local")
        /\ (hist.spent => ~tap.button.debounced /\ (tap.button.blocked \/ tap.button.sent))
    BY <1>1 DEF Inv, TypeInv, TickInv, HistInv, UploadInv
  <1>3. got # <<>> => a \in ActionType /\ a = got[1]
    BY ReceivedTypes DEF Inv
  <1>4. /\ got # <<>> /\ Allowed(a) => x = Perform(tap, a)
        /\ ~(got # <<>> /\ Allowed(a)) => x = tap
        /\ tick.long /\ ~tick.stop /\ got = <<>> => y = HoldBegin(tap)
        /\ ~(tick.long /\ ~tick.stop /\ got = <<>>) => y = x
    OBVIOUS
  <1> HIDE DEF got, a, x, y
  <1>5. /\ y \in TapType /\ TapInv(y) /\ Timely(y)
        /\ y.button.debounced = tap.button.debounced /\ y.button.sent = tap.button.sent
        /\ (tap.button.blocked => y.button.blocked)
        /\ (Pouring(tap) /\ Pouring(y) => y = tap)
        /\ (~Pouring(tap) /\ Pouring(y) =>
              /\ ~flags.saving /\ ~flags.recording /\ (y.button.blocked \/ y.button.sent)
              /\ ~Testing(tap) /\ Ran(y) = 0
              /\ \/ ~y.hold.pouring /\ y.web = a.web /\ (flags.locked => a.web)
                 \/ y.hold.pouring /\ ~y.web /\ ~flags.locked)
        /\ (Testing(y) /\ ~Testing(tap) => y.button.blocked /\ ~Pouring(tap) /\ ~flags.saving)
        /\ (tick.stop => y = tap)
    <2>1. CASE got # <<>> /\ Allowed(a)
      <3>1. y = Perform(tap, a) /\ ~tick.stop /\ (flags.locked => a.web \/ a.kind = "CLOSE")
        BY <1>4, <2>1 DEF Allowed
      <3>2. /\ y \in TapType /\ TapInv(y) /\ Timely(y)
            /\ y.button.debounced = tap.button.debounced /\ y.button.sent = tap.button.sent
            /\ (tap.button.blocked => y.button.blocked)
            /\ (Pouring(tap) /\ Pouring(y) => y = tap)
            /\ (~Pouring(tap) /\ Pouring(y) =>
                  /\ a.kind # "CLOSE" /\ ~flags.saving /\ tap.control.count >= Stable
                  /\ ~y.hold.pouring /\ y.web = a.web /\ y.button.blocked
                  /\ ~Testing(tap) /\ Ran(y) = 0)
            /\ (Testing(y) /\ ~Testing(tap) => y.button.blocked /\ ~Pouring(tap) /\ ~flags.saving)
        BY <1>2, <1>3, <2>1, <3>1, PerformFacts
      <3>3. ~Pouring(tap) /\ Pouring(y) => ~flags.recording
        <4>1. ~(0 >= Stable)
          BY Limits
        <4> QED BY <1>2, <3>2, <4>1
      <3> QED BY <3>1, <3>2, <3>3
    <2>2. CASE ~(got # <<>> /\ Allowed(a)) /\ tick.long /\ ~tick.stop /\ got = <<>>
      <3>1. y = HoldBegin(tap)
        BY <1>4, <2>2
      <3>2. /\ y \in TapType /\ TapInv(y) /\ Timely(y)
            /\ y.button.debounced = tap.button.debounced /\ y.button.sent = tap.button.sent
            /\ (tap.button.blocked => y.button.blocked)
            /\ (Pouring(y) => ~Pouring(tap) /\ y.hold.pouring /\ ~y.web /\ ~flags.saving
                              /\ ~flags.locked /\ ~Testing(tap) /\ Ran(y) = 0)
            /\ (Testing(y) <=> Testing(tap))
        BY <1>2, <2>2, <3>1, HoldFacts
      <3> QED BY <1>2, <2>2, <3>2
    <2>3. CASE ~(got # <<>> /\ Allowed(a)) /\ ~(tick.long /\ ~tick.stop /\ got = <<>>)
      BY <1>2, <1>4, <2>3
    <2> QED BY <2>1, <2>2, <2>3
  <1>6. /\ done \in TapType /\ TapInv(done) /\ Timely(done) /\ done.button = y.button
        /\ (done.web => Active(done)) /\ (Pouring(done) <=> Pouring(y))
        /\ (Testing(done) <=> Testing(y))
        /\ (Pouring(y) => done.control = y.control /\ done.hold = y.hold /\ done.web = y.web)
    BY <1>2, <1>5, RestFacts
  <1> HIDE DEF done
  <1>7. /\ Pouring(done) \in BOOLEAN /\ Testing(done) \in BOOLEAN
    BY <1>6 DEF Pouring, Testing, TapType, ControlType, HoldType
  <1>8. /\ flags' \in FlagsType /\ flags'.test = Testing(done)
        /\ flags'.recording = (IF flags.saving THEN flags.recording ELSE Pouring(done))
        /\ flags'.saving = (flags.saving \/ (flags.recording /\ ~Pouring(done)))
        /\ flags'.stop = flags.stop /\ flags'.locked = flags.locked
    <2> DEFINE recording == IF flags.saving THEN flags.recording ELSE Pouring(done)
               saving == flags.saving \/ (flags.recording /\ ~Pouring(done))
               test == Testing(done)
    <2>1. flags' = [flags EXCEPT !.test = test, !.recording = recording, !.saving = saving]
      <3>1. flags = [stop |-> flags.stop, setup |-> flags.setup, locked |-> flags.locked,
                     saving |-> flags.saving, test |-> flags.test, recording |-> flags.recording]
        BY <1>2 DEF FlagsType
      <3> QED BY <1>1, <3>1 DEF Record
    <2>2. recording \in BOOLEAN /\ saving \in BOOLEAN /\ test \in BOOLEAN
      BY <1>2, <1>7 DEF FlagsType
    <2>3. test = Testing(done) /\ recording = (IF flags.saving THEN flags.recording ELSE Pouring(done))
          /\ saving = (flags.saving \/ (flags.recording /\ ~Pouring(done)))
      OBVIOUS
    <2> HIDE DEF recording, saving, test
    <2>4. /\ flags' \in FlagsType /\ flags'.test = test /\ flags'.recording = recording
          /\ flags'.saving = saving /\ flags'.stop = flags.stop
          /\ flags'.locked = flags.locked
      BY <1>2, <2>1, <2>2 DEF FlagsType
    <2> QED BY <2>3, <2>4
  <1>9. spent \in BOOLEAN /\ (spent => ~done.button.debounced)
    BY <1>6 DEF Contact, TapType, ButtonType
  <1>10. spent => done.button.blocked \/ done.button.sent
    BY <1>2, <1>5, <1>6 DEF SpentIf
  <1>11. Opener(done, a) \in {"no", "local", "web"}
    BY DEF Opener, Inv, TypeInv
  <1>12. Pouring(done) => Opener(done, a) = IF done.web THEN "web" ELSE "local"
    <2>1. CASE Pouring(done) /\ Pouring(tap)
      BY <1>2, <1>5, <1>6, <2>1 DEF Opener
    <2>2. CASE Pouring(done) /\ ~Pouring(tap)
      <3>1. Opener(done, a) = IF done.hold.pouring \/ ~a.web THEN "local" ELSE "web"
        BY <2>2 DEF Opener
      <3> QED BY <1>5, <1>6, <2>2, <3>1
    <2> QED BY <2>1, <2>2
  <1>13. hist'.opened = Opener(done, a) /\ hist'.spent = spent
    BY <1>1
  <1> HIDE DEF spent
  <1>14. TypeInv'
    <2>1. hist' \in [opened : {"no", "local", "web"}, spent : BOOLEAN]
      BY <1>1, <1>9, <1>11
    <2>2. queue' \in Seq(ActionType) /\ Len(queue') <= QueueLen
      BY <1>1, ReceivedTypes DEF Inv
    <2> QED BY <1>1, <1>6, <1>8, <2>1, <2>2 DEF Inv, TypeInv
  <1>15. IdleInv'
    <2>1. flags'.recording => Pouring(done)
      BY <1>2, <1>8
    <2> QED BY <1>1, <1>6, <1>8, <2>1 DEF IdleInv
  <1>16. TickInv' /\ UploadInv'
    BY <1>1, <1>2 DEF TickInv, UploadInv
  <1>17. HistInv'
    <2>1. /\ flags'.saving => ~flags'.recording
          /\ Pouring(done) => flags'.recording
      BY <1>2, <1>5, <1>6, <1>8
    <2> QED BY <1>1, <1>9, <1>10, <1>12, <1>13, <2>1 DEF HistInv
  <1>18. Safe
    <2>1. StopStep
      BY <1>1, <1>2, <1>5, <1>6, <1>8 DEF StopStep, Active
    <2>2. LockStep
      <3>1. SUFFICES ASSUME flags.locked, Opener(done, a) = "local" PROVE hist.opened = "local"
        BY <1>1, <1>13 DEF LockStep
      <3>2. Pouring(done)
        BY <3>1 DEF Opener
      <3>3. CASE Pouring(tap)
        BY <3>1, <3>2, <3>3 DEF Opener
      <3>4. CASE ~Pouring(tap)
        <4>1. done.hold.pouring \/ ~a.web
          BY <3>1, <3>2, <3>4 DEF Opener
        <4> QED BY <1>5, <1>6, <3>1, <3>2, <3>4, <4>1
      <3> QED BY <3>3, <3>4
    <2>3. ContactStep
      BY <1>1 DEF ContactStep
    <2>4. RecordStep
      BY <1>1, <1>5, <1>6, <1>8 DEF RecordStep
    <2>5. TapStep
      <3>1. flags'.recording \in BOOLEAN /\ flags'.saving \in BOOLEAN /\ flags.recording \in BOOLEAN
            /\ flags.saving \in BOOLEAN
        BY <1>2, <1>8 DEF FlagsType
      <3>2. CASE Pouring(done) /\ Pouring(tap)
        <4>1. Flow' = Flow /\ Ran(tap') = Ran(tap)
          BY <1>1, <1>5, <1>6, <1>13, <3>2 DEF Flow, Ran, Opener
        <4>2. Phase' = Phase
          BY <1>2, <1>8, <3>2 DEF Phase
        <4> QED BY <1>1, <1>8, <4>1, <4>2 DEF TapStep, Outcome!vars
      <3>3. CASE Pouring(done) /\ ~Pouring(tap)
        <4>1. Flow = "none"
          BY <1>5, <1>6, <3>3, AtRest
        <4>2. Flow' \in {"local", "web"} /\ (Flow' = "local" => ~flags.locked)
          <5>1. Flow' = IF done.hold.pouring \/ ~a.web THEN "local" ELSE "web"
            BY <1>1, <1>13, <3>3 DEF Flow, Opener
          <5> QED BY <1>5, <1>6, <3>3, <5>1
        <4>3. Ran(tap') = 0
          BY <1>1, <1>5, <1>6, <3>3 DEF Ran
        <4>4. Phase = "none" /\ Phase' = "open"
          BY <1>5, <1>6, <1>8, <3>3 DEF Phase
        <4>5. Outcome!Open(Flow')
          BY <1>1, <1>2, <1>8, <4>1, <4>2, <4>3, <4>4 DEF Outcome!Open, Outcome!BeginRecord
        <4> QED BY <4>2, <4>5 DEF TapStep, Outcome!Next, Outcome!Pours
      <3>4. ~Pouring(done) => Phase' = Phase \/ (Phase = "open" /\ Phase' = "saving")
        BY <1>2, <1>8, <3>1 DEF Phase
      <3>5. CASE ~Pouring(done) /\ Testing(done)
        <4>1. ~Pouring(tap)
          BY <1>2, <1>5, <1>6, <3>5 DEF TapInv, Testing
        <4>2. Flow \in {"none", "test"} /\ Ran(tap) = 0 /\ Flow' = "test" /\ Ran(tap') = 0
          BY <1>1, <3>5, <4>1, AtRest, AtRestNext
        <4>3. CASE Phase = "saving"
          <5>1. Testing(tap) /\ Phase' = Phase
            BY <1>5, <1>6, <3>4, <3>5, <4>3 DEF Phase
          <5>2. Flow = "test"
            BY <4>1, <5>1, AtRest
          <5> QED BY <1>1, <1>8, <4>2, <5>1, <5>2 DEF TapStep, Outcome!vars
        <4>4. CASE Phase # "saving"
          <5>1. Outcome!Test
            BY <1>1, <1>2, <1>8, <3>4, <3>5, <4>2, <4>4
            DEF Outcome!Test, Outcome!Recorded, Outcome!CloseRecord
          <5> QED BY <5>1 DEF TapStep, Outcome!Next
        <4> QED BY <4>3, <4>4
      <3>6. CASE ~Pouring(done) /\ ~Testing(done)
        BY <1>1, <1>8, <3>4, <3>6, ShutsTap DEF Active
      <3> QED BY <3>2, <3>3, <3>5, <3>6
    <2> QED BY <2>1, <2>2, <2>3, <2>4, <2>5 DEF Safe
  <1> QED BY <1>1, <1>6, <1>14, <1>15, <1>16, <1>17, <1>18 DEF Inv

\* A step outside the controller's tick that leaves the tap alone.
LEMMA OutsideStep ==
    ASSUME Inv, UNCHANGED <<settings, tap, tick, pc, update, updateClosed, hist>>,
           sample' \in SampleType, pwm' \in BOOLEAN, queue' \in Seq(ActionType),
           Len(queue') <= QueueLen, flags' \in FlagsType, flags'.test = flags.test,
           flags'.recording = flags.recording, flags'.saving => flags.saving,
           flags'.saving = flags.saving \/ flags'.locked = flags.locked,
           flags.stop => flags'.stop
    PROVE  Inv' /\ Safe
  <1>1. TypeInv'
    BY DEF Inv, TypeInv
  <1>2. /\ tap' = tap /\ tick' = tick /\ pc' = pc /\ update' = update /\ hist' = hist
        /\ updateClosed' = updateClosed /\ settings' = settings
    OBVIOUS
  <1>3. TapInv(tap') /\ Timely(tap') /\ IdleInv' /\ TickInv' /\ UploadInv'
    BY <1>2 DEF Inv, IdleInv, TickInv, UploadInv
  <1>4. HistInv'
    BY <1>2 DEF Inv, HistInv
  <1>5. Safe
    BY <1>2, LeavesTap DEF Safe, StopStep, LockStep, ContactStep, RecordStep
  <1> QED BY <1>1, <1>2, <1>3, <1>4, <1>5 DEF Inv

\* The flags the outside sets and clears.
LEMMA FlagSteps ==
    ASSUME Inv, RequestStop \/ OpenSetup \/ CloseSetup \/ LockTap \/ UnlockTap \/ Saved \/ WifiSave
    PROVE  Inv' /\ Safe
  <1>1. flags \in FlagsType /\ queue \in Seq(ActionType) /\ Len(queue) <= QueueLen
        /\ sample \in SampleType /\ pwm \in BOOLEAN
    BY DEF Inv, TypeInv
  <1>2. /\ UNCHANGED <<settings, sample, tap, tick, pc, queue, update, updateClosed, pwm, hist>>
    BY DEF RequestStop, OpenSetup, CloseSetup, LockTap, UnlockTap, Saved, WifiSave, SetFlags
  <1>3. flags' \in {[flags EXCEPT !.stop = TRUE], [flags EXCEPT !.setup = TRUE],
                    [flags EXCEPT !.setup = FALSE], [flags EXCEPT !.setup = FALSE, !.locked = TRUE],
                    [flags EXCEPT !.setup = FALSE, !.locked = FALSE],
                    [flags EXCEPT !.saving = FALSE], [flags EXCEPT !.setup = TRUE, !.stop = TRUE]}
    BY DEF RequestStop, OpenSetup, CloseSetup, LockTap, UnlockTap, Saved, WifiSave, SetFlags
  <1>4. /\ flags' \in FlagsType /\ flags'.test = flags.test /\ flags'.recording = flags.recording
        /\ (flags'.saving => flags.saving) /\ (flags.stop => flags'.stop)
        /\ (flags'.saving = flags.saving \/ flags'.locked = flags.locked)
    BY <1>1, <1>3 DEF FlagsType
  <1> QED BY <1>1, <1>2, <1>4, OutsideStep

\* Actions put into the queue.
LEMMA SendSteps ==
    ASSUME Inv, NEW a \in ActionType, Send(a),
           UNCHANGED <<settings, sample, tap, tick, pc, flags, update, updateClosed, pwm, hist>>
    PROVE  Inv' /\ Safe
  <1>1. flags \in FlagsType /\ queue \in Seq(ActionType) /\ sample \in SampleType /\ pwm \in BOOLEAN
    BY DEF Inv, TypeInv
  <1>2. queue' \in Seq(ActionType) /\ Len(queue') <= QueueLen
    BY <1>1, Limits DEF Send
  <1> QED BY <1>1, <1>2, OutsideStep

\* New settings, and an upload that failed, forget what the sensor has seen.
LEMMA ResetReady ==
    ASSUME Inv, ~Pouring(tap), tap' = [tap EXCEPT !.control = Closed]
    PROVE  /\ tap' \in TapType /\ TapInv(tap') /\ Timely(tap')
           /\ tap'.web = tap.web /\ tap'.button = tap.button /\ tap'.servo = tap.servo
           /\ ~Pouring(tap') /\ (Testing(tap') <=> Testing(tap))
  <1>1. tap \in TapType /\ TapInv(tap)
    BY DEF Inv, TypeInv
  <1>2. /\ tap' \in TapType /\ tap'.control = Closed /\ tap'.hold = tap.hold
        /\ tap'.web = tap.web /\ tap'.button = tap.button /\ tap'.servo = tap.servo
        /\ tap'.deadline = tap.deadline
    BY <1>1, ClosedTypes DEF TapType
  <1>3. Closed.pouring = FALSE
    BY DEF Closed
  <1>4. ~tap'.control.pouring /\ ~tap'.hold.pouring
    BY <1>2, <1>3 DEF Pouring
  <1> QED BY <1>1, <1>2, <1>4 DEF TapInv, Timely, Pouring, Testing

\* New settings are saved with the tap shut, and keep it shut.
LEMMA ConfigureStep ==
    ASSUME Inv, NEW c \in Configs, Configure(c)
    PROVE  Inv' /\ Safe
  <1>1. /\ pc = "idle" /\ ~Pouring(tap) /\ flags.test = FALSE /\ update = "none"
        /\ settings' = c /\ tap' = [tap EXCEPT !.control = Closed] /\ queue' = <<>>
        /\ sample' = sample /\ tick' = tick /\ pc' = pc /\ flags' = flags /\ update' = update
        /\ updateClosed' = updateClosed /\ pwm' = pwm /\ hist' = hist
    BY DEF Configure, MayConfigure, Busy, Inv, TypeInv, FlagsType
  <1>2. /\ tap' \in TapType /\ TapInv(tap') /\ Timely(tap')
        /\ tap'.web = tap.web /\ tap'.button = tap.button
        /\ ~Pouring(tap') /\ (Testing(tap') <=> Testing(tap))
    BY <1>1, ResetReady
  <1>3. TypeInv'
    BY <1>1, <1>2, BootTypes DEF Inv, TypeInv
  <1>4. IdleInv' /\ TickInv' /\ UploadInv'
    <2>1. Testing(tap) = FALSE /\ Testing(tap') = FALSE /\ flags.recording = FALSE /\ ~tap.web
      BY <1>1, <1>2 DEF Inv, IdleInv, TypeInv, FlagsType, Active, Testing
    <2> QED BY <1>1, <1>2, <2>1 DEF IdleInv, TickInv, UploadInv
  <1>5. HistInv'
    BY <1>1, <1>2 DEF Inv, HistInv
  <1>6. Safe
    <2>1. Flow' = Flow /\ Ran(tap') = Ran(tap)
      BY <1>1, <1>2, AtRest, AtRestNext
    <2>2. TapStep
      BY <1>1, <2>1 DEF TapStep, Outcome!vars, Phase
    <2> QED BY <1>1, <1>2, <2>2 DEF Safe, StopStep, LockStep, ContactStep, RecordStep
  <1> QED BY <1>2, <1>3, <1>4, <1>5, <1>6 DEF Inv

\* The upload goes on only after the controller has shut the tap.
LEMMA UploadSteps ==
    ASSUME Inv, UpdateBegin \/ UpdateClosed \/ UpdateDone
    PROVE  Inv' /\ Safe
  <1>1. /\ UNCHANGED <<settings, sample, tap, tick, pc, flags, pwm, hist>>
        /\ pc = "idle" /\ (queue' = queue \/ queue' = <<>>)
        /\ update' \in {"closing", "writing", "restart"} /\ updateClosed' \in BOOLEAN
    BY DEF UpdateBegin, UpdateClosed, UpdateDone, Upload, Inv, TypeInv
  <1>2. TypeInv'
    BY <1>1, BootTypes DEF Inv, TypeInv
  <1>3. UploadInv'
    <2>1. CASE UpdateBegin
      <3>1. ~Pouring(tap) /\ flags.test = FALSE /\ updateClosed' = FALSE /\ update' = "closing"
        BY <2>1 DEF UpdateBegin, Busy, Upload, Inv, TypeInv, FlagsType
      <3>2. ~Active(tap)
        BY <1>1, <3>1 DEF Inv, IdleInv, Active
      <3> QED BY <1>1, <3>1, <3>2 DEF UploadInv
    <2>2. CASE UpdateClosed \/ UpdateDone
      <3>1. update # "none" /\ updateClosed' = updateClosed /\ updateClosed
        BY <2>2 DEF UpdateClosed, UpdateDone, Upload, ServoClosed, Inv, UploadInv
      <3> QED BY <1>1, <3>1 DEF Inv, UploadInv
    <2> QED BY <2>1, <2>2
  <1>4. /\ tap' = tap /\ tick' = tick /\ pc' = pc /\ hist' = hist /\ flags' = flags
    BY <1>1
  <1>5. TapInv(tap') /\ Timely(tap') /\ IdleInv' /\ TickInv' /\ HistInv'
    BY <1>4 DEF Inv, IdleInv, TickInv, HistInv
  <1>6. TapStep
    <2>1. Flow' = Flow /\ Ran(tap') = Ran(tap) /\ Phase' = Phase /\ flags'.locked = flags.locked
      BY <1>4 DEF Flow, Phase
    <2>2. CASE UpdateBegin
      <3>1. /\ update = "none" /\ update' = "closing" /\ ~Active(tap') /\ flags.saving = FALSE
            /\ flags.recording = FALSE
        BY <1>1, <1>3, <2>2 DEF UpdateBegin, Upload, Busy, UploadInv, Inv, TypeInv, FlagsType, IdleInv
      <3>2. Flow = "none" /\ Phase = "none"
        BY <1>4, <3>1, AtRest DEF Active, Phase
      <3>3. Outcome!Update
        BY <2>1, <3>1, <3>2 DEF Outcome!Update
      <3> QED BY <3>3 DEF TapStep, Outcome!Next
    <2>3. CASE UpdateClosed \/ UpdateDone
      <3>1. (update' # "none") = (update # "none")
        BY <2>3 DEF UpdateClosed, UpdateDone, Upload
      <3> QED BY <2>1, <3>1 DEF TapStep, Outcome!vars
    <2> QED BY <2>2, <2>3
  <1>7. Safe
    BY <1>4, <1>6 DEF Safe, StopStep, LockStep, ContactStep, RecordStep
  <1> QED BY <1>2, <1>3, <1>5, <1>7 DEF Inv

\* An upload that fails leaves the tap shut.
LEMMA UpdateFailsStep ==
    ASSUME Inv, UpdateFails
    PROVE  Inv' /\ Safe
  <1>1. /\ update # "none" /\ pc = "idle" /\ update' = "none"
        /\ tap' = [tap EXCEPT !.control = Closed] /\ queue' = <<>> /\ updateClosed' = FALSE
        /\ settings' = settings /\ sample' = sample /\ tick' = tick /\ pc' = pc
        /\ flags' = flags /\ pwm' = pwm /\ hist' = hist
    BY DEF UpdateFails, Upload
  <1>2. ~Active(tap) /\ ~Pouring(tap) /\ ~Testing(tap)
    BY <1>1 DEF Inv, UploadInv, Active
  <1>3. /\ tap' \in TapType /\ TapInv(tap') /\ Timely(tap')
        /\ tap'.web = tap.web /\ tap'.button = tap.button
        /\ ~Pouring(tap') /\ (Testing(tap') <=> Testing(tap))
    BY <1>1, <1>2, ResetReady
  <1>4. TypeInv'
    BY <1>1, <1>3, BootTypes DEF Inv, TypeInv
  <1>5. IdleInv' /\ TickInv' /\ UploadInv'
    <2>1. /\ Testing(tap) = FALSE /\ Testing(tap') = FALSE /\ flags.recording = FALSE /\ ~tap.web
          /\ flags.test = FALSE
      BY <1>1, <1>2, <1>3 DEF Inv, IdleInv, TypeInv, FlagsType, Testing
    <2> QED BY <1>1, <1>3, <2>1 DEF IdleInv, TickInv, UploadInv
  <1>6. HistInv'
    BY <1>1, <1>2, <1>3 DEF Inv, HistInv
  <1>7. Safe
    <2>1. Flow = "none" /\ Flow' = "none" /\ Ran(tap) = 0 /\ Ran(tap') = 0
      BY <1>2, <1>3, AtRest, AtRestNext
    <2>2. Outcome!Update
      BY <1>1, <2>1 DEF Outcome!Update, Phase
    <2>3. TapStep
      BY <2>2 DEF TapStep, Outcome!Next
    <2> QED BY <1>1, <1>2, <1>3, <2>3 DEF Safe, StopStep, LockStep, ContactStep, RecordStep
  <1> QED BY <1>3, <1>4, <1>5, <1>6, <1>7 DEF Inv

\* A power loss ends everything.
LEMMA ResetStep ==
    ASSUME Inv, Reset
    PROVE  Inv' /\ Safe
  <1>1. PICK high \in Levels : tap' = BootTap(settings, high)
    BY DEF Reset
  <1>2. PICK locked \in BOOLEAN : flags' = BootFlags(locked)
    BY DEF Reset
  <1>3. /\ sample' = BootSample /\ tick' = BootTick /\ pc' = "idle" /\ queue' = <<>>
        /\ update' = "none" /\ updateClosed' = FALSE /\ hist' = BootHist
        /\ settings' = settings /\ pwm' = pwm
    BY DEF Reset
  <1>4. settings \in Configs /\ pwm \in BOOLEAN
    BY DEF Inv, TypeInv
  <1>5. /\ tap' \in TapType /\ TapInv(tap') /\ Timely(tap') /\ ~Active(tap') /\ tap'.web = FALSE
    BY <1>1, <1>4, BootFacts
  <1>6. ~Pouring(tap') /\ Testing(tap') = FALSE
    BY <1>5 DEF Active, Testing
  <1>7. flags'.test = FALSE /\ flags'.recording = FALSE /\ flags'.saving = FALSE
    BY <1>2 DEF BootFlags
  <1>8. TypeInv'
    BY <1>2, <1>3, <1>4, <1>5, BootTypes DEF TypeInv
  <1>9. IdleInv' /\ TickInv' /\ HistInv' /\ UploadInv'
    BY <1>3, <1>5, <1>6, <1>7 DEF IdleInv, TickInv, HistInv, UploadInv, BootHist
  <1>10. TapStep
    <2>1. Flow' = "none" /\ Ran(tap') = 0 /\ Phase' = "none"
      BY <1>6, <1>7, AtRestNext DEF Phase
    <2>2. flags'.locked \in BOOLEAN
      BY <1>2, BootTypes DEF FlagsType
    <2>3. Outcome!Reset
      BY <1>3, <2>1, <2>2 DEF Outcome!Reset, Outcome!LoseRecord
    <2> QED BY <2>3 DEF TapStep, Outcome!Next
  <1>11. Safe
    BY <1>3, <1>5, <1>6, <1>10 DEF Safe, StopStep, LockStep, ContactStep, RecordStep, BootHist
  <1> QED BY <1>5, <1>8, <1>9, <1>11 DEF Inv

\* Every step keeps the invariant and obeys the action properties.
LEMMA NextStep ==
    ASSUME Inv, [Next]_vars
    PROVE  Inv' /\ Safe
  <1>1. CASE \E high \in Levels : TickBegin(high)
    BY <1>1, TickBeginStep
  <1>2. CASE TickEnd
    BY <1>2, TickEndStep
  <1>3. ASSUME NEW kind \in UiKinds, UiStart(kind)
        PROVE  Inv' /\ Safe
    <2>1. [kind |-> kind, web |-> FALSE, pulse |-> NoPulse] \in ActionType
      BY PourAssumption DEF ActionType, Pulses
    <2> QED BY <1>3, <2>1, SendSteps DEF UiStart
  <1>4. ASSUME NEW kind \in WebKinds, NEW pulse \in TestPulses \cup {NoPulse},
                WebAction(kind, pulse)
        PROVE  Inv' /\ Safe
    <2>1. [kind |-> kind, web |-> TRUE, pulse |-> pulse] \in ActionType
      BY PourAssumption DEF ActionType, Pulses
    <2> QED BY <1>4, <2>1, SendSteps DEF WebAction
  <1>5. ASSUME NEW r \in Readings, SensorRead(r)
        PROVE  Inv' /\ Safe
    <2>1. /\ sample' \in SampleType
          /\ UNCHANGED <<settings, tap, tick, pc, queue, flags, update, updateClosed, pwm, hist>>
      BY <1>5, Limits DEF SensorRead, SampleType
    <2> QED BY <2>1, OutsideStep DEF Inv, TypeInv
  <1>6. CASE PwmChanges
    <2>1. /\ pwm' \in BOOLEAN
          /\ UNCHANGED <<settings, sample, tap, tick, pc, queue, flags, update, updateClosed, hist>>
      BY <1>6 DEF PwmChanges
    <2> QED BY <2>1, OutsideStep DEF Inv, TypeInv
  <1>7. CASE UNCHANGED vars
    <2>1. UNCHANGED <<settings, sample, tap, tick, pc, queue, flags, update, updateClosed, pwm, hist>>
      BY <1>7 DEF vars
    <2> QED BY <2>1, OutsideStep DEF Inv, TypeInv
  <1>8. CASE RequestStop \/ OpenSetup \/ CloseSetup \/ LockTap \/ UnlockTap \/ Saved \/ WifiSave
    BY <1>8, FlagSteps
  <1>9. CASE \E c \in Configs : Configure(c)
    BY <1>9, ConfigureStep
  <1>10. CASE UpdateBegin \/ UpdateClosed \/ UpdateDone
    BY <1>10, UploadSteps
  <1>11. CASE UpdateFails
    BY <1>11, UpdateFailsStep
  <1>12. CASE Reset
    BY <1>12, ResetStep
  <1> QED
    BY <1>1, <1>2, <1>3, <1>4, <1>5, <1>6, <1>7, <1>8, <1>9, <1>10, <1>11, <1>12
    DEF Next, Tick

\* The invariant holds of every reachable state.
LEMMA InvHolds == Spec => []Inv
  <1>1. Inv /\ [Next]_vars => Inv'
    BY NextStep
  <1> QED BY <1>1, InitInv, PTL DEF Spec

----------------------------------------------------------------------------
(* The theorems *)

\* TypeOK: every variable has its type, and Control and ManualFill never pour at
\* once.
THEOREM TypeCorrect == Spec => []TypeOK
  <1>1. Inv => TypeOK
    BY DEF Inv, TypeInv, TapInv, TypeOK, SampleType, TapType, ControlType, HoldType, ButtonType,
           ActionType, FlagsType
  <1> QED BY <1>1, InvHolds, PTL

\* WatchedPour: no pour outlives the limits of Control::update and
\* ManualFill::update.
THEOREM WatchedPourHolds == Spec => []WatchedPour
  <1>1. Inv => WatchedPour
    BY DEF Inv, Timely, WatchedPour
  <1> QED BY <1>1, InvHolds, PTL

\* UpdateShut: firmware_upload writes flash only while the tap is shut.
THEOREM UpdateShutHolds == Spec => []UpdateShut
  <1>1. Inv => UpdateShut
    BY DEF Inv, UploadInv, UpdateShut
  <1> QED BY <1>1, InvHolds, PTL

\* StopShuts: controller_task takes a stop only by ending every pour and test.
THEOREM StopShutsHolds == Spec => StopShuts
  <1>1. Inv /\ [Next]_vars => StopStep
    BY NextStep DEF Safe
  <1>2. StopStep => [(flags.stop /\ ~flags'.stop) \/ (pc = "receive" /\ tick.stop /\ pc' = "idle")
                       => ~Active(tap')]_vars
    BY DEF StopStep
  <1> QED BY <1>1, <1>2, InvHolds, PTL DEF Spec, StopShuts

\* LockedTapStaysShut: once the lock falls, the next stop check leaves no local
\* pour and nothing queued before it starts one.
THEOREM LockedTapStaysShutHolds == Spec => LockedTapStaysShut
  <1>1. Inv /\ [Next]_vars => LockStep
    BY NextStep DEF Safe
  <1>2. LockStep => [flags.locked /\ pc # pc' /\ hist'.opened = "local"
                       => pc = "receive" /\ hist.opened = "local"]_vars
    BY DEF LockStep
  <1> QED BY <1>1, <1>2, InvHolds, PTL DEF Spec, LockedTapStaysShut

\* ContactStartsOnce: ButtonGesture reports no press of a contact that a stop, a
\* lock or the end of a pour has used up.
THEOREM ContactStartsOnceHolds == Spec => ContactStartsOnce
  <1>1. Inv /\ [Next]_vars => ContactStep
    BY NextStep DEF Safe
  <1>2. ContactStep => [pc = "idle" /\ pc' = "receive" /\ (tick'.short \/ tick'.long)
                          => ~hist.spent]_vars
    BY DEF ContactStep
  <1> QED BY <1>1, <1>2, InvHolds, PTL DEF Spec, ContactStartsOnce

\* OneRecordPerPour: every pour starts a record of its own.
THEOREM OneRecordPerPourHolds == Spec => OneRecordPerPour
  <1>1. Inv /\ [Next]_vars => RecordStep
    BY NextStep DEF Safe
  <1>2. RecordStep => [~Pouring(tap) /\ Pouring(tap') => ~flags.recording /\ flags'.recording]_vars
    BY DEF RecordStep
  <1> QED BY <1>1, <1>2, InvHolds, PTL DEF Spec, OneRecordPerPour

\* TapPromise: controller_task with everything that drives it implements Tap, for any
\* settings, readings, actions and limits.
THEOREM ImplementsTap == Spec => TapPromise
  <1>1. Init => Outcome!Init
    <2> SUFFICES ASSUME Init PROVE Outcome!Init
      OBVIOUS
    <2>1. PICK locked \in BOOLEAN : flags = BootFlags(locked)
      BY DEF Init
    <2>2. flags.locked \in BOOLEAN /\ flags.recording = FALSE /\ flags.saving = FALSE
      BY <2>1 DEF BootFlags
    <2>3. ~Active(tap)
      BY InitInv, BootFacts DEF Init
    <2>4. Flow = "none" /\ Ran(tap) = 0 /\ Phase = "none"
      BY <2>2, <2>3, AtRest DEF Active, Phase
    <2> QED BY <2>2, <2>4 DEF Init, Outcome!Init, Outcome!RecordInit
  <1>2. Inv /\ [Next]_vars => [Outcome!Next]_(Outcome!vars)
    BY NextStep DEF Safe, TapStep
  <1> QED BY <1>1, <1>2, InvHolds, PTL DEF Spec, TapPromise, Outcome!Spec
=============================================================================
