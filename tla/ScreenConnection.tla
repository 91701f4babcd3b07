--------------------------- MODULE ScreenConnection ---------------------------
(***************************************************************************)
(* The touchscreen's connection to one Scale: the saved pairing, the       *)
(* WebSocket with its retirement worker, the handshake, the shared frame   *)
(* queue, the retries of the main loop and the pairing guard.  The other   *)
(* slot is only seen where it disturbs this one: its frames fill the queue *)
(* and the display may select it.  Several tasks run at once: the main     *)
(* loop (frames, user actions, deadlines), the event task of the socket,   *)
(* the Wi-Fi event handler, the retirement worker and the guard.  The      *)
(* Scale, the network and the user are external.                           *)
(*                                                                         *)
(* Time is abstract: a deadline may pass whenever it is armed.  A pairing  *)
(* key is a number, fresh for every key agreement; 0 is no key.            *)
(***************************************************************************)
EXTENDS Naturals, Sequences

CONSTANTS
    FrameSlots,     \* places of the frame queue (8 in the code)
    RetireSlots,    \* places of the retirement queue (8 in the code)
    MaxKey,         \* bound: key agreements
    Moves,          \* bound: things users do, at the display or at the Scale
    Faults,         \* bound: failures of network, storage and power
    OtherPaired     \* is the other slot configured and paired?

ASSUME ScreenAssumption ==
    /\ FrameSlots \in Nat \ {0} /\ RetireSlots \in Nat \ {0}
    /\ MaxKey \in Nat \ {0} /\ Moves \in Nat /\ Faults \in Nat
    /\ OtherPaired \in BOOLEAN

VARIABLES
    ram,        \* the slot's saved profile as the running program holds it
    nvs,        \* the same profile in flash
    conn,       \* ScaleConnection
    frames,     \* the queue from the event tasks to the main loop
    main,       \* "loop", or "probe" while connect_scale waits for HTTP
    wifi,       \* wifi_ready
    guard,      \* pairing_guard_task
    rearm,      \* a pairing_rearm action waits for the main loop
    scale,      \* external: the Scale and what it was sent
    budget      \* what is left of Moves and Faults

vars == <<ram, nvs, conn, frames, main, wifi, guard, rearm, scale, budget>>

Keys == 0 .. MaxKey
Profiles == [host : BOOLEAN, key : Keys, selected : BOOLEAN]
Frame(k, n) == [kind |-> k, n |-> n]

(* Saved state *)

\* persist: the blobs are written one after the other, active_scale last.
Persisted(r, old) ==
    {[ok |-> TRUE, nvs |-> r]}
    \cup (IF budget.faults = 0 THEN {} ELSE
          {[ok |-> FALSE, nvs |-> old],
           [ok |-> FALSE, nvs |-> [r EXCEPT !.selected = old.selected]]})

Charged(b, free) == IF free THEN b ELSE [b EXCEPT !.faults = @ - 1]
Moved == [budget EXCEPT !.moves = @ - 1]
Spend(free) == budget' = Charged(budget, free)
MoveSpend(free) == budget.moves > 0 /\ budget' = Charged(Moved, free)

\* How a call that needs `can` may end; a failure not explained by it is charged.
Outcomes(can) ==
    {ok \in BOOLEAN : (ok => can) /\ (~ok => ~can \/ budget.faults > 0)}

(* ScaleConnection *)

\* connection_session_reset, and the rest of disconnected().
Disconnected(c) ==
    [c EXCEPT !.auth = FALSE, !.ready = FALSE, !.online = FALSE,
              !.link = 0, !.pending = 0]

\* Raising the generation: what is queued is stale, and nothing is lost yet.
Renewed(c) == [c EXCEPT !.lost = FALSE]
Outdated(q) ==
    [i \in DOMAIN q |-> IF q[i].kind = "other" THEN q[i] ELSE Frame("stale", 0)]

\* Mutant: retirement_pending is not set.
Retired_Ungated(c) ==
    IF c.ws = "none" THEN c ELSE [c EXCEPT !.ws = "none", !.old = @ + 1]

\* retire_transport_async, and its callers when the worker's queue is full.
Retired(c) ==
    IF c.ws = "none" THEN c
    ELSE IF c.old < RetireSlots
         THEN [c EXCEPT !.ws = "none", !.old = @ + 1, !.retiring = TRUE]
         ELSE [c EXCEPT !.ws = "stale", !.retiring = FALSE]

Stopped(c, retry) == [Disconnected(Retired(Renewed(c))) EXCEPT !.retry = retry]

\* Mutant: a socket that did not start is not retried.
Start_Silent(c, b) ==
    \/ conn' = [c EXCEPT !.ws = "idle", !.retry = FALSE] /\ budget' = b
    \/ /\ b.faults > 0 /\ budget' = Charged(b, FALSE)
       /\ conn' = [c EXCEPT !.ws = "ended", !.retry = FALSE]

\* esp_websocket_client_init and _start; the budget was b.
Start(c, b) ==
    \/ conn' = [c EXCEPT !.ws = "idle", !.retry = FALSE] /\ budget' = b
    \/ /\ b.faults > 0 /\ budget' = Charged(b, FALSE)
       /\ conn' \in {c, [c EXCEPT !.ws = "ended"]}

\* connect_scale(c) with the profile r, the queue q and the budget b.
Connect(c, r, q, b) ==
    LET d == Disconnected([Renewed(c) EXCEPT !.retry = TRUE]) IN
    \/ /\ c.retiring
       /\ conn' = [c EXCEPT !.retry = TRUE]
       /\ frames' = q /\ main' = "loop" /\ budget' = b
    \/ /\ ~c.retiring /\ frames' = Outdated(q)
       /\ \/ /\ c.ws # "none" /\ budget' = b
             /\ conn' = Retired(d) /\ main' = "loop"
          \/ /\ c.ws = "none" /\ (r.host => ~wifi) /\ budget' = b
             /\ conn' = [d EXCEPT !.retry = r.host] /\ main' = "loop"
          \/ /\ c.ws = "none" /\ r.host /\ wifi /\ r.key = 0 /\ ~r.selected
             /\ conn' = [d EXCEPT !.retry = FALSE] /\ main' = "loop" /\ budget' = b
          \/ /\ c.ws = "none" /\ r.host /\ wifi /\ r.key = 0 /\ r.selected
             /\ conn' = d /\ main' = "probe" /\ budget' = b
          \/ /\ c.ws = "none" /\ r.host /\ wifi /\ r.key # 0
             /\ Start(d, b) /\ main' = "loop"

(* The queue and the Scale *)

\* socket_event: only events of the current generation pass.
Heard(c) == c.ws \in {"idle", "open"}

\* A frame that finds the queue full is dropped.
Push(c, f) ==
    LET fits == Len(frames) < FrameSlots IN
    /\ frames' = IF Heard(c) /\ fits THEN Append(frames, f) ELSE frames
    /\ conn' = [c EXCEPT !.lost = @ \/ (/\ Heard(c) /\ ~fits
                                        /\ f.kind \in {"authorized", "down"})]

\* Bound: the display runs at most two messages ahead of the Scale.
CanSend == wifi /\ conn.ws = "open" /\ Len(scale.up) < 2
Sent(m) == [scale EXCEPT !.up = Append(@, m)]

\* The Scale loses its pairing, and tells the session that uses it.
Unpaired(s) ==
    [s EXCEPT !.key = 0, !.sess = IF @ = "trusted" THEN "closing" ELSE @]

\* POST /api/controller {"action":"remove"}; the frame to the open session is
\* left out when the display is about to raise the generation anyway.
Removed(done) == IF done THEN Unpaired(scale) ELSE scale
-----------------------------------------------------------------------------
BootConn(r) ==
    [ws |-> "none", old |-> 0, retiring |-> FALSE, auth |-> FALSE,
     ready |-> FALSE, online |-> FALSE, link |-> 0, retry |-> r.host,
     cancel |-> FALSE, pending |-> 0, lost |-> FALSE]

BootGuard == [pc |-> "boot", paired |-> FALSE, host |-> FALSE, phase |-> "idle"]

\* app_main: a slot without a host is not the active one if the other has one.
BootRam(p) ==
    [p EXCEPT !.selected = IF OtherPaired THEN @ /\ p.host ELSE @ \/ p.host]

Init ==
    \E key \in 0 .. 1 :
        /\ nvs = [host |-> TRUE, key |-> key, selected |-> TRUE]
        /\ ram = BootRam(nvs)
        /\ conn = BootConn(ram)
        /\ frames = <<>> /\ main = "loop" /\ wifi = FALSE
        /\ guard = BootGuard /\ rearm = FALSE
        /\ scale = [key |-> key, window |-> FALSE, made |-> key, offer |-> 0,
                    sess |-> "none", up |-> <<>>, issued |-> 0]
        /\ budget = [moves |-> Moves, faults |-> Faults]

(* on_frame *)

Received(k) ==
    /\ main = "loop" /\ frames # <<>> /\ Head(frames).kind = k
    /\ frames' = Tail(frames)

FrameStale ==
    /\ \E k \in {"stale", "other"} : Received(k)
    /\ UNCHANGED <<ram, nvs, conn, main, wifi, guard, rearm, scale, budget>>

\* Mutant: only a session that was trusted is built again.
FrameDown_OnlyTrusted ==
    /\ Received("down")
    /\ conn' = [Disconnected(conn) EXCEPT !.retry = conn.auth, !.cancel = FALSE]
    /\ UNCHANGED <<ram, nvs, main, wifi, guard, rearm, scale, budget>>

FrameDown ==
    /\ Received("down")
    /\ conn' = [Disconnected(conn) EXCEPT !.retry = ~conn.cancel, !.cancel = FALSE]
    /\ UNCHANGED <<ram, nvs, main, wifi, guard, rearm, scale, budget>>

\* A hello that cannot be sent is only logged.
FrameUp ==
    /\ Received("up")
    /\ conn' = Disconnected(conn)
    /\ \E ok \in Outcomes(CanSend) :
        /\ scale' = IF ok THEN Sent(Frame("hello", ram.key)) ELSE scale
        /\ Spend(ok \/ ~CanSend)
    /\ UNCHANGED <<ram, nvs, main, wifi, guard, rearm>>

\* connection_session_accept_handshake: the approval code is shown.
FramePair ==
    /\ Received("pair")
    /\ conn' = IF conn.auth THEN conn
               ELSE [conn EXCEPT !.link = Head(frames).n, !.ready = TRUE]
    /\ UNCHANGED <<ram, nvs, main, wifi, guard, rearm, scale, budget>>

\* connection_session_send_secure: an incomplete send schedules a reconnect,
\* a socket that is not connected does not.
AfterSend(c, ok) ==
    IF ok \/ c.ws # "open" THEN c ELSE [c EXCEPT !.ready = FALSE, !.retry = TRUE]

FrameChallenge ==
    /\ Received("challenge")
    /\ IF conn.auth \/ ram.key = 0 THEN UNCHANGED <<conn, scale, budget>> ELSE
       \E ok \in Outcomes(CanSend) :
        /\ conn' = AfterSend([conn EXCEPT !.link = ram.key, !.ready = TRUE], ok)
        /\ scale' = IF ok THEN Sent(Frame("auth", ram.key)) ELSE scale
        /\ Spend(ok \/ ~CanSend)
    /\ UNCHANGED <<ram, nvs, main, wifi, guard, rearm>>

FrameCanceled ==
    /\ main = "loop" /\ frames # <<>> /\ Head(frames).kind = "canceled"
    /\ IF ram.key = 0
       THEN /\ conn' = [Stopped(conn, FALSE) EXCEPT !.cancel = FALSE]
            /\ frames' = Outdated(Tail(frames))
       ELSE conn' = conn /\ frames' = Tail(frames)
    /\ UNCHANGED <<ram, nvs, main, wifi, guard, rearm, scale, budget>>

\* Mutant: a pairing that could not be saved is used all the same.
PairingKept_Always(s) == TRUE

\* The new pairing counts only when it is in flash.
PairingKept(s) == s.ok

FrameAuthorized ==
    /\ Received("authorized")
    /\ LET c == [conn EXCEPT !.cancel = FALSE]
           trusted == [c EXCEPT !.auth = TRUE, !.retry = FALSE]
       IN
       \/ /\ conn.link = 0 /\ UNCHANGED <<ram, nvs, conn, budget>>
       \/ /\ conn.link # 0 /\ ram.key # 0
          /\ conn' = trusted /\ UNCHANGED <<ram, nvs, budget>>
       \/ /\ conn.link # 0 /\ ram.key = 0
          /\ \E s \in Persisted([ram EXCEPT !.key = conn.link], nvs) :
              /\ nvs' = s.nvs /\ Spend(s.ok)
              /\ ram' = IF PairingKept(s) THEN [ram EXCEPT !.key = conn.link] ELSE ram
              /\ conn' = IF PairingKept(s) THEN trusted ELSE c
    /\ UNCHANGED <<main, wifi, guard, rearm, scale>>

FrameState ==
    /\ Received("state")
    /\ conn' = [conn EXCEPT !.online = @ \/ conn.auth]
    /\ UNCHANGED <<ram, nvs, main, wifi, guard, rearm, scale, budget>>

FrameResult ==
    /\ Received("result")
    /\ conn' = [conn EXCEPT !.pending =
                    IF conn.auth /\ Head(frames).n = @ THEN 0 ELSE @]
    /\ UNCHANGED <<ram, nvs, main, wifi, guard, rearm, scale, budget>>

\* touchscreen_pairing_cl_open: the socket stays open, the removal is not
\* undone when it cannot be saved.
FrameUnpair ==
    /\ Received("unpair")
    /\ IF conn.link = 0 THEN UNCHANGED <<ram, nvs, conn, budget>> ELSE
       LET r == [ram EXCEPT !.key = 0, !.selected = @ /\ ~OtherPaired] IN
       /\ ram' = r
       /\ \E s \in Persisted(r, nvs) : nvs' = s.nvs /\ Spend(s.ok)
       /\ conn' = [conn EXCEPT !.auth = FALSE, !.ready = FALSE,
                               !.online = FALSE, !.retry = FALSE]
    /\ UNCHANGED <<main, wifi, guard, rearm, scale>>

OnFrame ==
    \/ FrameStale \/ FrameDown \/ FrameUp \/ FramePair \/ FrameChallenge
    \/ FrameCanceled \/ FrameAuthorized \/ FrameState \/ FrameResult
    \/ FrameUnpair

(* action: what the user does at the display *)

\* Mutant: the connection is only not retried.
Stop_Lazy(c, retry) == conn' = [c EXCEPT !.retry = retry] /\ UNCHANGED frames

\* The socket is given up at once; retry says whether a new one is wanted.
Stop(c, retry) == conn' = Stopped(c, retry) /\ frames' = Outdated(frames)

\* While the encrypted cancel is on its way an approval may still win.
CancelPairing ==
    /\ main = "loop" /\ ram.selected /\ ram.key = 0
    /\ \E ok \in Outcomes(CanSend /\ conn.ready) :
        /\ MoveSpend(ok \/ ~(CanSend /\ conn.ready))
        /\ IF ok THEN /\ conn' = [conn EXCEPT !.cancel = TRUE]
                      /\ scale' = Sent(Frame("cancel", 0))
                      /\ UNCHANGED frames
           ELSE Stop(conn, FALSE) /\ UNCHANGED scale
    /\ UNCHANGED <<ram, nvs, main, wifi, guard, rearm>>

\* settings with the same host.  touchscreen_apply_settings_live starts a new
\* connection unless a session works.
SaveSettings ==
    /\ main = "loop" /\ budget.moves > 0
    /\ \E s \in Persisted([ram EXCEPT !.selected = TRUE], nvs) :
        /\ nvs' = s.nvs
        /\ IF s.ok
           THEN /\ ram' = s.nvs
                /\ IF ram.host /\ (ram.key = 0 \/ ~conn.auth \/ ~conn.online)
                   THEN Connect(conn, s.nvs, frames, Moved)
                   ELSE MoveSpend(TRUE) /\ UNCHANGED <<conn, frames, main>>
           ELSE /\ conn' = [conn EXCEPT !.retry = ram.host] /\ MoveSpend(FALSE)
                /\ UNCHANGED <<ram, frames, main>>
    /\ UNCHANGED <<wifi, guard, rearm, scale>>

\* settings with another SSID or password.
SaveWifi ==
    /\ main = "loop"
    /\ nvs' = [ram EXCEPT !.selected = TRUE] /\ ram' = nvs'
    /\ MoveSpend(TRUE) /\ wifi' = FALSE
    /\ Stop(conn, ram.host)
    /\ UNCHANGED <<main, guard, rearm, scale>>

\* touchscreen_pairing_memset: the pairing is removed at the Scale, if it answers.
Removals == Outcomes(wifi /\ ram.host)
Free(done) == done \/ ~(wifi /\ ram.host)

\* settings with another host: the pairing is removed at the Scale before the
\* new settings are saved, and comes back here when that fails.
SaveHost ==
    /\ main = "loop" /\ budget.moves > 0
    /\ LET r == [host |-> ~ram.host, key |-> 0, selected |-> TRUE]
           stopped == Stopped(conn, FALSE)
       IN \E done \in Removals, s \in Persisted(r, nvs) :
        LET left == Charged(Moved, Free(done) /\ s.ok) IN
        /\ Free(done) \/ s.ok
        /\ scale' = Removed(done) /\ nvs' = s.nvs
        /\ IF s.ok /\ r.host
           THEN ram' = r /\ Connect(stopped, r, Outdated(frames), left)
           ELSE /\ ram' = (IF s.ok THEN r ELSE ram) /\ budget' = left
                /\ conn' = [stopped EXCEPT !.retry = ~s.ok /\ ram.host]
                /\ frames' = Outdated(frames) /\ UNCHANGED main
    /\ UNCHANGED <<wifi, guard, rearm>>

\* A removal that cannot be saved is not undone.
Forget ==
    /\ main = "loop" /\ ram.key # 0
    /\ LET r == [ram EXCEPT !.key = 0, !.selected = @ /\ ~OtherPaired] IN
       \E done \in Removals, s \in Persisted(r, nvs) :
        /\ Free(done) \/ s.ok
        /\ MoveSpend(Free(done) /\ s.ok)
        /\ scale' = Removed(done) /\ ram' = r /\ nvs' = s.nvs
    /\ Stop(conn, FALSE)
    /\ UNCHANGED <<main, wifi, guard, rearm>>

\* switch_scale, to and from the other slot.
SwitchScale ==
    /\ main = "loop" /\ OtherPaired /\ ram.host /\ ram.key # 0
    /\ ram.selected => conn.pending = 0
    /\ \E s \in Persisted([ram EXCEPT !.selected = ~@], nvs) :
        /\ nvs' = s.nvs /\ MoveSpend(s.ok)
        /\ ram' = IF s.ok THEN s.nvs ELSE ram
        /\ conn' = [conn EXCEPT !.retry =
                        @ \/ (s.ok /\ ~ram.selected /\ ~conn.online)]
    /\ UNCHANGED <<frames, main, wifi, guard, rearm, scale>>

Command ==
    /\ main = "loop" /\ ram.selected
    /\ conn.auth /\ conn.online /\ conn.pending = 0
    /\ \E ok \in Outcomes(CanSend) :
        /\ MoveSpend(ok \/ ~CanSend)
        /\ conn' = AfterSend([conn EXCEPT !.pending =
                                IF ok THEN scale.issued + 1 ELSE 0], ok)
        /\ scale' = IF ok THEN [Sent(Frame("command", scale.issued + 1))
                                  EXCEPT !.issued = @ + 1]
                    ELSE scale
    /\ UNCHANGED <<ram, nvs, frames, main, wifi, guard, rearm>>

\* pairing_rearm: queued by the guard when the Scale opens its window.
PairingRearm ==
    /\ main = "loop" /\ rearm /\ rearm' = FALSE
    /\ IF ram.key = 0 /\ ram.host /\ ram.selected
       THEN Connect(conn, ram, frames, budget)
       ELSE UNCHANGED <<conn, frames, main, budget>>
    /\ UNCHANGED <<ram, nvs, wifi, guard, scale>>

Action ==
    \/ CancelPairing \/ SaveSettings \/ SaveWifi \/ SaveHost \/ Forget
    \/ SwitchScale \/ Command \/ PairingRearm
(* The main loop's deadlines, and the end of a setup probe *)

CancelTimeout ==
    /\ main = "loop" /\ conn.cancel
    /\ IF ram.key = 0
       THEN /\ conn' = [Stopped(conn, FALSE) EXCEPT !.cancel = FALSE]
            /\ frames' = Outdated(frames)
       ELSE conn' = [conn EXCEPT !.cancel = FALSE] /\ UNCHANGED frames
    /\ UNCHANGED <<ram, nvs, main, wifi, guard, rearm, scale, budget>>

Retry ==
    /\ main = "loop" /\ conn.retry /\ ram.host /\ ~conn.retiring
    /\ Connect(conn, ram, frames, budget)
    /\ UNCHANGED <<ram, nvs, wifi, guard, rearm, scale>>

HeartbeatFails ==
    /\ main = "loop" /\ conn.ws = "open" /\ conn.ready
    /\ FALSE \in Outcomes(CanSend)
    /\ conn' = AfterSend(conn, FALSE) /\ Spend(~CanSend)
    /\ UNCHANGED <<ram, nvs, frames, main, wifi, guard, rearm, scale>>

\* No state for 12 seconds.
StateStale ==
    /\ main = "loop" /\ conn.online
    /\ wifi => budget.faults > 0
    /\ Connect([conn EXCEPT !.online = FALSE], ram, frames, Charged(budget, ~wifi))
    /\ UNCHANGED <<ram, nvs, wifi, guard, rearm, scale>>

\* Mutant: the controls are released and the connection is kept.
CommandTimeout_KeepsSocket ==
    /\ main = "loop" /\ conn.pending # 0
    /\ conn' = [conn EXCEPT !.pending = 0]
    /\ UNCHANGED <<ram, nvs, frames, main, wifi, guard, rearm, scale, budget>>

\* No result for 30 seconds.
CommandTimeout ==
    /\ main = "loop" /\ conn.pending # 0
    /\ Connect([conn EXCEPT !.pending = 0], ram, frames, budget)
    /\ UNCHANGED <<ram, nvs, wifi, guard, rearm, scale>>

\* scale_accepting_connection returns.  A pairing only the Scale has is removed.
ProbeEnds ==
    /\ main = "probe" /\ main' = "loop"
    /\ \E heard \in Outcomes(wifi) :
       LET stale == heard /\ scale.key # 0
           ready == heard /\ scale.key = 0 /\ scale.window
       IN \E done \in (IF stale THEN Outcomes(wifi) ELSE {FALSE}) :
        /\ scale' = Removed(done)
        /\ IF ready THEN Start(conn, budget)
           ELSE Spend(~wifi \/ (heard /\ (stale => done))) /\ UNCHANGED conn
    /\ UNCHANGED <<ram, nvs, frames, wifi, guard, rearm>>

Housekeeping ==
    \/ CancelTimeout \/ Retry \/ HeartbeatFails \/ StateStale
    \/ CommandTimeout \/ ProbeEnds

(* The socket's own task, the retirement worker, Wi-Fi *)

SocketUp ==
    /\ conn.ws = "idle" /\ wifi
    /\ Push([conn EXCEPT !.ws = "open"], Frame("up", 0))
    /\ scale' = [scale EXCEPT !.sess = "new"]
    /\ UNCHANGED <<ram, nvs, main, wifi, guard, rearm, budget>>

\* ERROR or DISCONNECTED, whichever comes first: the other one is suppressed,
\* even when the first found the queue full.
SocketEnds ==
    /\ Heard(conn)
    /\ LET due == ~wifi \/ (conn.ws = "open" /\ scale.sess = "closing") IN
       (due \/ budget.faults > 0) /\ Spend(due)
    /\ LET ended == [conn EXCEPT !.ws = "ended"]
           fits == Len(frames) < FrameSlots
       IN /\ frames' = IF fits THEN Append(frames, Frame("down", 0)) ELSE frames
          /\ conn' = [ended EXCEPT !.lost = @ \/ ~fits]
    /\ UNCHANGED <<ram, nvs, main, wifi, guard, rearm, scale>>

\* transport_retirement_task: stop, destroy, and only then lower the gate.
RetireDone ==
    /\ conn.old > 0
    /\ conn' = [conn EXCEPT !.old = @ - 1, !.retiring = FALSE]
    /\ scale' = [scale EXCEPT !.sess = "none", !.up = <<>>]
    /\ UNCHANGED <<ram, nvs, frames, main, wifi, guard, rearm, budget>>

\* wifi_event: every configured slot that should be connected is retried.
WifiChange ==
    /\ wifi' = ~wifi
    /\ wifi => budget.faults > 0
    /\ Spend(~wifi)
    /\ conn' = [conn EXCEPT !.retry = IF ram.host THEN ram.key # 0 \/ ram.selected
                                      ELSE @]
    /\ UNCHANGED <<ram, nvs, frames, main, guard, rearm, scale>>

\* The other slot's frames use the same queue.
OtherFrame ==
    /\ budget.faults > 0 /\ Len(frames) < FrameSlots
    /\ frames' = Append(frames, Frame("other", 0)) /\ Spend(FALSE)
    /\ UNCHANGED <<ram, nvs, conn, main, wifi, guard, rearm, scale>>

Background ==
    \/ SocketUp \/ SocketEnds \/ RetireDone \/ WifiChange \/ OtherFrame

(* pairing_guard_task *)

\* Mutant: a new pairing does not end the cleanup of the old one.
PairedAgain_Ignored == FALSE

\* "paired again; canceling stale cleanup/watch state"
PairedAgain == nvs.key # 0 /\ nvs.host

\* load_slot_states, and the comparison with the round before.
GuardLoads ==
    /\ guard.pc \in {"boot", "load"}
    /\ LET gone == guard.pc = "load" /\ guard.paired /\ nvs.key = 0 /\ guard.host
           phase == IF gone THEN "verify"
                    ELSE IF PairedAgain THEN "idle" ELSE guard.phase
       IN guard' = [pc |-> IF phase = "idle" THEN "load" ELSE "read",
                    paired |-> nvs.key # 0, host |-> nvs.host, phase |-> phase]
    /\ UNCHANGED <<ram, nvs, conn, frames, main, wifi, rearm, scale, budget>>

\* read_remote_status.  A rearm that does not fit is tried again.
GuardReads ==
    /\ guard.pc = "read"
    /\ \E heard \in Outcomes(wifi) :
        /\ Spend(heard \/ ~wifi)
        /\ \/ /\ ~heard /\ UNCHANGED rearm
              /\ guard' = [guard EXCEPT !.pc = "load"]
           \/ /\ heard /\ scale.key # 0 /\ UNCHANGED rearm
              /\ guard' = [guard EXCEPT !.pc = "remove", !.phase = "verify"]
           \/ /\ heard /\ scale.key = 0 /\ guard.phase = "verify" /\ UNCHANGED rearm
              /\ guard' = [guard EXCEPT !.pc = "load", !.phase = "window"]
           \/ /\ heard /\ scale.key = 0 /\ guard.phase = "window"
              /\ rearm' = (rearm \/ scale.window)
              /\ guard' = [guard EXCEPT !.pc = "load",
                                       !.phase = IF scale.window THEN "idle" ELSE @]
    /\ UNCHANGED <<ram, nvs, conn, frames, main, wifi, scale>>

\* remove_remote_pairing; the Scale tells a session that uses the pairing.
GuardRemoves ==
    /\ guard.pc = "remove"
    /\ \E done \in Outcomes(wifi) :
        /\ Spend(done \/ ~wifi)
        /\ scale' = Removed(done)
        /\ guard' = [guard EXCEPT !.pc = "load",
                                  !.phase = IF done THEN "window" ELSE @]
        /\ IF done /\ scale.sess = "trusted" THEN Push(conn, Frame("unpair", 0))
           ELSE UNCHANGED <<conn, frames>>
    /\ UNCHANGED <<ram, nvs, main, wifi, rearm>>

\* 60 cleanup attempts, or 300 polls for the window.
GuardGivesUp ==
    /\ guard.pc = "load" /\ guard.phase # "idle"
    /\ budget.faults > 0 /\ Spend(FALSE)
    /\ guard' = [guard EXCEPT !.phase = "idle"]
    /\ UNCHANGED <<ram, nvs, conn, frames, main, wifi, rearm, scale>>

GuardTask == GuardLoads \/ GuardReads \/ GuardRemoves \/ GuardGivesUp

(* external: the Scale, its user, and power *)

OpenWindow ==
    /\ ~scale.window /\ scale.key = 0 /\ MoveSpend(TRUE)
    /\ scale' = [scale EXCEPT !.window = TRUE]
    /\ UNCHANGED <<ram, nvs, conn, frames, main, wifi, guard, rearm>>

\* The user types the code the display shows.
Approve ==
    /\ scale.sess = "pairing" /\ scale.window /\ conn.link = scale.offer
    /\ scale' = [scale EXCEPT !.key = scale.offer, !.window = FALSE, !.sess = "trusted"]
    /\ Push(conn, Frame("authorized", 0))
    /\ UNCHANGED <<ram, nvs, main, wifi, guard, rearm, budget>>

UnpairAtScale ==
    /\ scale.key # 0 /\ MoveSpend(TRUE)
    /\ scale' = Unpaired(scale)
    /\ IF scale.sess = "trusted" THEN Push(conn, Frame("unpair", 0))
       ELSE UNCHANGED <<conn, frames>>
    /\ UNCHANGED <<ram, nvs, main, wifi, guard, rearm>>

Report ==
    /\ scale.sess = "trusted" /\ Heard(conn) /\ Len(frames) < FrameSlots
    /\ \A i \in DOMAIN frames : frames[i].kind # "state"
    /\ frames' = Append(frames, Frame("state", 0))
    /\ UNCHANGED <<ram, nvs, conn, main, wifi, guard, rearm, scale, budget>>

\* The Scale takes the next message of the session, also when the display has
\* given the socket up already.
ScaleTakes ==
    /\ scale.up # <<>>
    /\ LET m == Head(scale.up)
           rest == [scale EXCEPT !.up = Tail(@)]
           say(f, s) == Push(conn, f) /\ scale' = s
           silent(s) == scale' = s /\ UNCHANGED <<conn, frames>>
           close == silent([rest EXCEPT !.sess = IF @ = "none" THEN @ ELSE "closing"])
       IN
       \/ /\ m.kind = "hello" /\ m.n # 0 /\ scale.sess = "new" /\ scale.key # 0
          /\ say(Frame("challenge", 0), [rest EXCEPT !.sess = "challenged"])
       \/ /\ m.kind = "hello" /\ m.n = 0 /\ scale.sess = "new"
          /\ scale.key = 0 /\ scale.window /\ scale.made < MaxKey
          /\ say(Frame("pair", scale.made + 1),
                 [rest EXCEPT !.sess = "pairing", !.made = @ + 1, !.offer = scale.made + 1])
       \/ /\ m.kind = "hello" /\ (\/ scale.sess # "new"
                                  \/ (m.n = 0) # (scale.key = 0)
                                  \/ m.n = 0 /\ (~scale.window \/ scale.made = MaxKey))
          /\ close
       \/ /\ m.kind = "auth" /\ scale.sess = "challenged" /\ m.n = scale.key
          /\ say(Frame("authorized", 0), [rest EXCEPT !.sess = "trusted"])
       \/ /\ m.kind = "auth" /\ ~(scale.sess = "challenged" /\ m.n = scale.key)
          /\ close
       \/ /\ m.kind = "cancel" /\ scale.sess = "pairing"
          /\ say(Frame("canceled", 0), [rest EXCEPT !.sess = "closing", !.window = FALSE])
       \/ /\ m.kind = "command" /\ scale.sess = "trusted"
          /\ say(Frame("result", m.n), rest)
       \/ /\ m.kind \in {"cancel", "command"}
          /\ scale.sess # (IF m.kind = "cancel" THEN "pairing" ELSE "trusted")
          /\ silent(rest)
    /\ UNCHANGED <<ram, nvs, main, wifi, guard, rearm, budget>>

\* A handshake that does not get on, and a pairing window, expire.
ScaleExpires ==
    /\ scale.up = <<>> /\ scale.sess \in {"new", "pairing", "challenged"}
    /\ \A i \in DOMAIN frames : frames[i].kind \in {"other", "stale"}
    /\ scale' = [scale EXCEPT !.sess = "closing", !.window = FALSE]
    /\ UNCHANGED <<ram, nvs, conn, frames, main, wifi, guard, rearm, budget>>

\* The network starts again with everything in RAM lost.
Reboot ==
    /\ budget.faults > 0 /\ Spend(FALSE)
    /\ ram' = BootRam(nvs) /\ conn' = BootConn(ram')
    /\ frames' = <<>> /\ main' = "loop" /\ wifi' = FALSE
    /\ guard' = BootGuard /\ rearm' = FALSE
    /\ scale' = [scale EXCEPT !.sess = "none", !.up = <<>>]
    /\ UNCHANGED nvs

Environment ==
    \/ OpenWindow \/ Approve \/ UnpairAtScale \/ Report \/ ScaleTakes
    \/ ScaleExpires \/ Reboot
-----------------------------------------------------------------------------
Next == OnFrame \/ Action \/ Housekeeping \/ Background \/ GuardTask \/ Environment

Spec == Init /\ [][Next]_vars

\* The tasks are scheduled, sockets and probes have timeouts, Wi-Fi comes back,
\* and the Scale answers or closes.  Nothing obliges a user.
SocketDue == SocketEnds /\ budget'.faults = budget.faults
Fairness ==
    /\ WF_vars(OnFrame) /\ WF_vars(Retry) /\ WF_vars(ProbeEnds)
    /\ WF_vars(SocketUp) /\ WF_vars(SocketDue) /\ WF_vars(RetireDone)
    /\ WF_vars(WifiChange /\ wifi')
    /\ WF_vars(ScaleTakes) /\ WF_vars(ScaleExpires) /\ WF_vars(Report)

FairSpec == Spec /\ Fairness
(* Properties *)

\* The variables stay in their ranges; the frame queue never exceeds its places.
TypeOK ==
    /\ ram \in Profiles /\ nvs \in Profiles
    /\ conn \in [ws : {"none", "idle", "open", "ended", "stale"}, old : Nat,
                 retiring : BOOLEAN, auth : BOOLEAN, ready : BOOLEAN,
                 online : BOOLEAN, link : Keys, retry : BOOLEAN,
                 cancel : BOOLEAN, pending : Nat, lost : BOOLEAN]
    /\ Len(frames) <= FrameSlots
    /\ main \in {"loop", "probe"} /\ wifi \in BOOLEAN /\ rearm \in BOOLEAN

\* A slot has one WebSocket: none is started before the last one is destroyed,
\* so the retirement queue never fills and no handle goes back to its slot.
\* This is about the main loop's calls of connect_scale.  auto_discovery_task has
\* one of its own, on its own task, after it has set the host and asked for a
\* retry: the two may cross, and the code does not promise one socket then.
OneSocket ==
    /\ conn.old <= 1
    /\ conn.ws # "none" => conn.old = 0 /\ ~conn.retiring

\* A session is trusted only with the key that a restart would load.  (After a
\* failed save of another host the flash may hold that host and no pairing.)
AuthenticatedIsSaved ==
    conn.auth => /\ conn.ws # "none" /\ ram.host
                 /\ ram.key # 0 /\ conn.link = ram.key
                 /\ nvs.key = ram.key \/ (~nvs.host /\ nvs.key = 0)

\* What may still bring a slot online without a user.
Queued(k) == \E i \in DOMAIN frames : frames[i].kind = k
WayForward ==
    \/ conn.retry \/ conn.ws = "idle" \/ conn.auth
    \/ Queued("down") \/ Queued("authorized")
    \/ conn.ws = "open" /\ scale.sess # "trusted"

\* A paired slot that is not connected has something under way that will
\* connect it, unless its disconnect or authorization found the queue full.
NeverStranded == ram.host /\ ram.key # 0 => WayForward \/ conn.lost

\* As documented, without that exception: "The slot clears authenticated/session
\* state and schedules its normal 10-second reconnect."
AlwaysReconnects == ram.host /\ ram.key # 0 => WayForward

\* Once both sides hold the same pairing for good, the slot comes online, and
\* does so again after every fault.
Settled == ram.host /\ ram.key # 0 /\ ram.key = scale.key /\ ~conn.lost
Reconnects == <>[]Settled => []<>conn.online

\* The Scale never has a command to run that the user has followed by another:
\* what the display gave up on dies with its socket, before the next session.
NoLateCommand ==
    \A i \in DOMAIN scale.up :
        scale.up[i].kind = "command" => scale.up[i].n = scale.issued

\* The guard removes the pairing in use only when the flash, as it last read
\* it, held none: the pairing is younger, or half of a failed save was there.
GuardSparesPairing ==
    [][GuardRemoves /\ scale.key # 0 /\ scale'.key = 0 /\ scale.key = ram.key
        => ~guard.paired]_vars

\* A pairing that was removed does not come back: the next one is newly agreed,
\* or a restart finds one whose removal was not saved.
ForgottenStaysForgotten ==
    [][ram.key = 0 /\ ram'.key # 0 => ram'.key = scale.offer \/ nvs.key = ram'.key]_vars
=============================================================================
