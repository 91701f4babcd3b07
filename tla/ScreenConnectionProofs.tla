------------------------ MODULE ScreenConnectionProofs ------------------------
(***************************************************************************)
(* Proofs about ScreenConnection, for any queue lengths, key agreements,   *)
(* moves and faults.                                                       *)
(***************************************************************************)
EXTENDS ScreenConnection, SequenceTheorems, TLAPS

(* Types *)

ConnType  == [ws : {"none", "idle", "open", "ended", "stale"}, old : Nat,
              retiring : BOOLEAN, auth : BOOLEAN, ready : BOOLEAN,
              online : BOOLEAN, link : Keys, retry : BOOLEAN,
              cancel : BOOLEAN, pending : Nat, lost : BOOLEAN]
FrameType == [kind : {"up", "down", "pair", "challenge", "canceled", "authorized",
                      "state", "result", "unpair", "other", "stale"}, n : Nat]
UpType    == [kind : {"hello", "auth", "cancel", "command"}, n : Nat]
GuardType == [pc : {"boot", "load", "read", "remove"}, paired : BOOLEAN, host : BOOLEAN,
              phase : {"idle", "verify", "window"}]
ScaleType == [key : Keys, window : BOOLEAN, made : Keys, offer : Keys,
              sess : {"none", "new", "pairing", "challenged", "trusted", "closing"},
              up : Seq(UpType), issued : Nat]
BudgetType == [moves : Nat, faults : Nat]

TypeInv ==
    /\ ram \in Profiles /\ nvs \in Profiles /\ conn \in ConnType
    /\ frames \in Seq(FrameType) /\ Len(frames) <= FrameSlots
    /\ main \in {"loop", "probe"} /\ wifi \in BOOLEAN /\ rearm \in BOOLEAN
    /\ guard \in GuardType /\ scale \in ScaleType /\ budget \in BudgetType

(* The parts of the invariant *)

\* The worker's queue has one handle at most, and a new socket is only started when
\* it is empty; connect_scale waits for HTTP with no socket at all.
SocketInv(c, m, r) ==
    /\ c.old \in 0 .. 1 /\ (c.retiring <=> c.old = 1) /\ c.ws # "stale"
    /\ c.ws # "none" => c.old = 0 /\ r.host
    /\ m = "probe" => c.ws = "none" /\ c.old = 0 /\ r.host /\ r.key = 0

\* A pairing belongs to a host, and what is in use is in flash.
SavedInv(r, f) ==
    /\ r.key # 0 => r.host
    /\ f.key # 0 => f.host
    /\ r.key # 0 => f.key = r.key \/ (~f.host /\ f.key = 0)

\* How far the Scale's session is, against what the display believes.
SessionInv(c, s, key) ==
    /\ s.sess \in {"none", "new"} => c.link = 0
    /\ s.sess = "none" => s.up = <<>>
    /\ s.sess = "pairing" => s.offer # 0
    /\ c.ws \in {"none", "idle"} => c.link = 0
    /\ c.ws = "idle" \/ (c.ws = "none" /\ c.old = 0) => s.sess = "none"
    /\ c.ready => c.link # 0
    /\ c.auth => c.link # 0 /\ key # 0 /\ s.sess \in {"trusted", "closing"}
    /\ c.link # 0 /\ key # 0 => c.link = key
    /\ c.cancel => key = 0
    /\ c.pending # 0 => c.link # 0 /\ c.pending = s.issued

Handshake == {"up", "pair", "challenge", "authorized"}
Past      == {"other", "stale"}

\* What a queued frame says about the session it came from.
FrameInv(f, c, s, key) ==
    /\ f.kind \notin Past => c.ws \in {"open", "ended"}
    /\ f.kind = "up" => s.sess = "new" /\ s.up = <<>>
    /\ f.kind = "pair" => /\ s.sess \in {"pairing", "closing"} /\ key = 0 /\ c.link = 0
                          /\ f.n = s.offer /\ f.n # 0
    /\ f.kind = "challenge" => s.sess \in {"challenged", "closing"} /\ c.link = 0
    /\ f.kind = "authorized" => /\ s.sess \in {"trusted", "closing"} /\ c.link # 0 /\ ~c.auth
                                /\ key # 0 \/ c.link = s.offer
    /\ f.kind = "down" => c.ws = "ended"
    /\ f.kind = "unpair" => s.sess = "closing"
    /\ f.kind = "result" => f.n <= s.issued

\* The order of the queue: one step of the handshake at a time, nothing of the session
\* after its end, and no authorization after a removal.
OrderInv(q) ==
    \A i, j \in DOMAIN q : i < j =>
        /\ q[i].kind \in Handshake => q[j].kind \notin Handshake
        /\ q[i].kind = "down" => q[j].kind \in Past
        /\ q[i].kind = "unpair" => q[j].kind # "authorized"

\* What the Scale has yet to read.
UpInv(m, c, s, key) ==
    /\ m.kind = "hello" => Len(s.up) = 1 /\ s.sess = "new" /\ (m.n = 0 => key = 0)
    /\ m.kind = "auth" /\ s.sess = "challenged" /\ Heard(c) => c.link # 0 /\ key # 0
    /\ m.kind = "command" => /\ m.n = s.issued /\ m.n # 0 /\ s.sess \in {"trusted", "closing"}
                             /\ c.auth => c.pending = s.issued

\* One command at a time, with no answer to it in the queue; no step of the handshake
\* is queued behind a command or behind the proof the Scale has asked for.
Settles(m, s)    == m.kind = "command" \/ (m.kind = "auth" /\ s.sess = "challenged")
CommandInv(q, s) ==
    /\ \A i, j \in DOMAIN s.up :
         s.up[i].kind = "command" /\ s.up[j].kind = "command" => i = j
    /\ \A i \in DOMAIN s.up, j \in DOMAIN q :
         /\ Settles(s.up[i], s) => q[j].kind \notin Handshake
         /\ s.up[i].kind = "command" /\ q[j].kind = "result" => q[j].n < s.issued

FramesInv(c, q, s, key) ==
    /\ \A i \in DOMAIN q : FrameInv(q[i], c, s, key)
    /\ \A i \in DOMAIN s.up : UpInv(s.up[i], c, s, key)
    /\ OrderInv(q) /\ CommandInv(q, s)

GuardInv == guard.pc \in {"read", "remove"} => ~guard.paired

Inv ==
    /\ TypeInv /\ SocketInv(conn, main, ram) /\ SavedInv(ram, nvs)
    /\ SessionInv(conn, scale, ram.key) /\ FramesInv(conn, frames, scale, ram.key)
    /\ NeverStranded /\ GuardInv
-----------------------------------------------------------------------------
(* Lemmas about the operators *)

\* What may be charged.
LEMMA ChargedType ==
    ASSUME NEW b \in BudgetType, NEW free \in BOOLEAN, free \/ b.faults > 0
    PROVE  Charged(b, free) \in BudgetType
  BY DEF Charged, BudgetType

\* Moves is what is left after a move of a user.
LEMMA MovedType ==
    ASSUME budget \in BudgetType, budget.moves > 0
    PROVE  Moved \in BudgetType /\ Moved.faults = budget.faults
  BY DEF Moved, BudgetType

\* A failure of what could have worked is charged.
LEMMA OutcomeFacts ==
    ASSUME NEW can \in BOOLEAN, NEW ok \in Outcomes(can)
    PROVE  ok \in BOOLEAN /\ (ok => can) /\ (ok \/ ~can \/ budget.faults > 0)
  BY DEF Outcomes

\* A profile is saved whole, or its host and key are those of the old or of the new one.
LEMMA PersistedFacts ==
    ASSUME NEW r \in Profiles, NEW old \in Profiles, NEW s \in Persisted(r, old),
           budget \in BudgetType
    PROVE  /\ s.ok \in BOOLEAN /\ s.nvs \in Profiles
           /\ s.ok => s.nvs = r
           /\ ~s.ok => /\ budget.faults > 0
                       /\ \/ s.nvs = old
                          \/ s.nvs.host = r.host /\ s.nvs.key = r.key
  <1>1. CASE s = [ok |-> TRUE, nvs |-> r]
    BY <1>1
  <1>2. CASE budget.faults # 0 /\ s = [ok |-> FALSE, nvs |-> old]
    BY <1>2 DEF BudgetType
  <1>3. CASE budget.faults # 0
             /\ s = [ok |-> FALSE, nvs |-> [r EXCEPT !.selected = old.selected]]
    BY <1>3 DEF BudgetType, Profiles
  <1> QED BY <1>1, <1>2, <1>3 DEF Persisted

\* A profile whose pairing is removed.
LEMMA NoKey ==
    ASSUME NEW r \in Profiles
    PROVE  LET n == [r EXCEPT !.key = 0, !.selected = @ /\ ~OtherPaired] IN
           n \in Profiles /\ n.key = 0 /\ n.host = r.host
  <1>1. 0 \in Keys
    BY ScreenAssumption DEF Keys
  <1>2. (r.selected /\ ~OtherPaired) \in BOOLEAN
    OBVIOUS
  <1> QED BY <1>1, <1>2 DEF Profiles

\* Raising the generation leaves nothing current in the queue.
LEMMA OutdatedFacts ==
    ASSUME NEW q \in Seq(FrameType)
    PROVE  /\ Outdated(q) \in Seq(FrameType) /\ Len(Outdated(q)) = Len(q)
           /\ \A i \in DOMAIN Outdated(q) : Outdated(q)[i].kind \in Past
  <1> DEFINE g(i) == IF q[i].kind = "other" THEN q[i] ELSE Frame("stale", 0)
  <1>1. Outdated(q) = [i \in 1 .. Len(q) |-> g(i)]
    BY DEF Outdated
  <1>2. \A i \in 1 .. Len(q) : g(i) \in FrameType /\ g(i).kind \in Past
    BY ElementOfSeq DEF Frame, FrameType, Past
  <1>3. Len(q) \in Nat
    BY LenProperties
  <1> HIDE DEF g
  <1> QED BY <1>1, <1>2, <1>3

\* A queue without its head.
LEMMA TailFacts ==
    ASSUME NEW S, NEW q \in Seq(S), q # <<>>
    PROVE  /\ Tail(q) \in Seq(S) /\ Len(Tail(q)) = Len(q) - 1 /\ Head(q) \in S
           /\ Len(q) \in Nat \ {0} /\ 1 \in DOMAIN q /\ Head(q) = q[1]
           /\ \A i \in DOMAIN Tail(q) : i + 1 \in DOMAIN q /\ Tail(q)[i] = q[i + 1]
           /\ \A i \in DOMAIN q : i # 1 => i - 1 \in DOMAIN Tail(q) /\ Tail(q)[i - 1] = q[i]
  BY HeadTailProperties, LenProperties

\* A queue with one more element.
LEMMA AppendFacts ==
    ASSUME NEW S, NEW q \in Seq(S), NEW x \in S
    PROVE  /\ Append(q, x) \in Seq(S) /\ Len(Append(q, x)) = Len(q) + 1 /\ Len(q) \in Nat
           /\ DOMAIN Append(q, x) = DOMAIN q \cup {Len(q) + 1} /\ Len(q) + 1 \notin DOMAIN q
           /\ \A i \in DOMAIN q : Append(q, x)[i] = q[i] /\ i \in 1 .. Len(q)
           /\ Append(q, x)[Len(q) + 1] = x
  BY AppendProperties, LenProperties

(* ScaleConnection without a session *)

\* What is left of a connection whose session is gone.
Fresh(c) == c.link = 0 /\ ~c.auth /\ ~c.ready /\ c.pending = 0

\* disconnected().
LEMMA DisconnectedFacts ==
    ASSUME NEW c \in ConnType
    PROVE  /\ Disconnected(c) \in ConnType /\ Fresh(Disconnected(c))
           /\ Disconnected(c).ws = c.ws /\ Disconnected(c).old = c.old
           /\ Disconnected(c).retiring = c.retiring /\ Disconnected(c).retry = c.retry
           /\ Disconnected(c).cancel = c.cancel /\ Disconnected(c).lost = c.lost
  <1>1. 0 \in Keys
    BY ScreenAssumption DEF Keys
  <1> QED BY <1>1 DEF Disconnected, ConnType, Fresh

\* The worker takes the only handle there is.
LEMMA RetiredFacts ==
    ASSUME NEW c \in ConnType, NEW m, NEW r, SocketInv(c, m, r)
    PROVE  /\ Retired(c) \in ConnType /\ Retired(c).ws = "none" /\ Retired(c).old \in 0 .. 1
           /\ Retired(c).retiring <=> Retired(c).old = 1
           /\ Retired(c).old = 0 => c.ws = "none" /\ c.old = 0
           /\ Retired(c).link = c.link /\ Retired(c).auth = c.auth
           /\ Retired(c).ready = c.ready /\ Retired(c).pending = c.pending
           /\ Retired(c).retry = c.retry /\ Retired(c).cancel = c.cancel
           /\ Retired(c).lost = c.lost
  <1>1. CASE c.ws = "none"
    BY <1>1 DEF Retired, SocketInv
  <1>2. CASE c.ws # "none"
    <2>1. c.old = 0 /\ c.old < RetireSlots
      BY <1>2, ScreenAssumption DEF SocketInv
    <2>2. Retired(c) = [c EXCEPT !.ws = "none", !.old = @ + 1, !.retiring = TRUE]
      BY <1>2, <2>1 DEF Retired
    <2> DEFINE n == [c EXCEPT !.ws = "none", !.old = @ + 1, !.retiring = TRUE]
    <2>3. c.old + 1 = 1 /\ 1 \in Nat
      BY <2>1
    <2>4. n = [c EXCEPT !.ws = "none", !.old = 1, !.retiring = TRUE]
      BY <2>3
    <2>5. /\ n \in ConnType /\ n.ws = "none" /\ n.old = 1 /\ n.retiring = TRUE
          /\ n.link = c.link /\ n.auth = c.auth /\ n.ready = c.ready
          /\ n.pending = c.pending /\ n.retry = c.retry /\ n.cancel = c.cancel
          /\ n.lost = c.lost
      BY <2>3, <2>4 DEF ConnType
    <2> HIDE DEF n
    <2> QED BY <2>2, <2>5 DEF n
  <1> QED BY <1>1, <1>2

\* The socket is given up.
LEMMA StoppedFacts ==
    ASSUME NEW c \in ConnType, NEW m, NEW r, SocketInv(c, m, r), NEW retry \in BOOLEAN
    PROVE  /\ Stopped(c, retry) \in ConnType /\ Fresh(Stopped(c, retry))
           /\ Stopped(c, retry).ws = "none" /\ Stopped(c, retry).old \in 0 .. 1
           /\ Stopped(c, retry).retiring <=> Stopped(c, retry).old = 1
           /\ Stopped(c, retry).old = 0 => c.ws = "none" /\ c.old = 0
           /\ Stopped(c, retry).retry = retry /\ Stopped(c, retry).cancel = c.cancel
  <1> DEFINE n == Renewed(c)
             d == Disconnected(Retired(n))
  <1>1. /\ n \in ConnType /\ SocketInv(n, m, r) /\ n.ws = c.ws /\ n.old = c.old
        /\ n.cancel = c.cancel
    BY DEF Renewed, ConnType, SocketInv
  <1> HIDE DEF n
  <1>2. /\ d \in ConnType /\ Fresh(d) /\ d.ws = "none" /\ d.old \in 0 .. 1
        /\ d.retiring <=> d.old = 1
        /\ d.old = 0 => c.ws = "none" /\ c.old = 0
        /\ d.cancel = c.cancel
    BY <1>1, RetiredFacts, DisconnectedFacts
  <1>3. Stopped(c, retry) = [d EXCEPT !.retry = retry]
    BY DEF Stopped, n
  <1> HIDE DEF d
  <1> QED BY <1>2, <1>3 DEF ConnType, Fresh

\* A socket that is started, or that failed to.
LEMMA StartFacts ==
    ASSUME NEW c \in ConnType, NEW b \in BudgetType, Start(c, b), Fresh(c),
           c.ws = "none", c.old = 0, ~c.retiring
    PROVE  /\ conn' \in ConnType /\ budget' \in BudgetType /\ Fresh(conn')
           /\ conn'.old = 0 /\ ~conn'.retiring /\ conn'.ws \in {"none", "idle", "ended"}
           /\ conn'.cancel = c.cancel
           /\ conn'.retry = c.retry \/ conn'.ws = "idle"
  <1>1. CASE conn' = [c EXCEPT !.ws = "idle", !.retry = FALSE] /\ budget' = b
    BY <1>1 DEF ConnType, Fresh
  <1>2. CASE b.faults > 0 /\ budget' = Charged(b, FALSE) /\ conn' = c
    BY <1>2, ChargedType
  <1>3. CASE b.faults > 0 /\ budget' = Charged(b, FALSE) /\ conn' = [c EXCEPT !.ws = "ended"]
    <2>1. budget' \in BudgetType
      BY <1>3, ChargedType
    <2> QED BY <1>3, <2>1 DEF ConnType, Fresh
  <1> QED BY <1>1, <1>2, <1>3 DEF Start

\* connect_scale: the session is gone, and a paired slot has a socket that starts or a
\* retry that is due.
LEMMA ConnectFacts ==
    ASSUME NEW c \in ConnType, NEW r \in Profiles, NEW q \in Seq(FrameType), NEW b \in BudgetType,
           SocketInv(c, "loop", r), Connect(c, r, q, b), Len(q) <= FrameSlots,
           c.ws = "none" => Fresh(c) /\ \A i \in DOMAIN q : q[i].kind \in Past
    PROVE  /\ conn' \in ConnType /\ frames' \in Seq(FrameType) /\ Len(frames') <= FrameSlots
           /\ main' \in {"loop", "probe"} /\ budget' \in BudgetType
           /\ SocketInv(conn', main', r) /\ Fresh(conn')
           /\ \A i \in DOMAIN frames' : frames'[i].kind \in Past
           /\ conn'.cancel = c.cancel /\ conn'.ws # "open"
           /\ conn'.ws = "idle" \/ (conn'.ws = "none" /\ conn'.old = 0)
                => c.ws = "none" /\ c.old = 0
           /\ r.host /\ r.key # 0 => conn'.retry \/ conn'.ws = "idle"
  <1> DEFINE t == [Renewed(c) EXCEPT !.retry = TRUE]
             d == Disconnected(t)
  <1>1. /\ t \in ConnType /\ t.ws = c.ws /\ t.old = c.old /\ t.retiring = c.retiring
        /\ t.retry = TRUE /\ t.cancel = c.cancel
    BY DEF Renewed, ConnType
  <1> HIDE DEF t
  <1>2. /\ d \in ConnType /\ Fresh(d) /\ d.ws = c.ws /\ d.old = c.old /\ d.retiring = c.retiring
        /\ d.retry = TRUE /\ d.cancel = c.cancel
    BY <1>1, DisconnectedFacts
  <1>3. d = Disconnected([Renewed(c) EXCEPT !.retry = TRUE])
    BY DEF t
  <1> HIDE DEF d
  <1>4. CASE /\ c.retiring /\ conn' = [c EXCEPT !.retry = TRUE]
             /\ frames' = q /\ main' = "loop" /\ budget' = b
    <2>1. c.ws = "none" /\ c.old = 1
      BY <1>4 DEF SocketInv
    <2>2. /\ conn' \in ConnType /\ conn'.ws = c.ws /\ conn'.old = c.old /\ conn'.retry
          /\ conn'.retiring = c.retiring /\ conn'.link = c.link /\ conn'.auth = c.auth
          /\ conn'.ready = c.ready /\ conn'.pending = c.pending /\ conn'.cancel = c.cancel
      BY <1>4 DEF ConnType
    <2> QED BY <1>4, <2>1, <2>2 DEF Fresh, SocketInv
  <1>5. ASSUME ~c.retiring, frames' = Outdated(q)
        PROVE  /\ frames' \in Seq(FrameType) /\ Len(frames') <= FrameSlots
               /\ \A i \in DOMAIN frames' : frames'[i].kind \in Past
               /\ c.old = 0
    BY <1>5, OutdatedFacts DEF SocketInv
  <1>6. CASE /\ ~c.retiring /\ frames' = Outdated(q)
             /\ c.ws # "none" /\ budget' = b /\ conn' = Retired(d) /\ main' = "loop"
    <2>1. SocketInv(d, "loop", r)
      BY <1>2, <1>6 DEF SocketInv
    <2>2. /\ conn' \in ConnType /\ conn'.ws = "none" /\ conn'.old = 1 /\ Fresh(conn')
          /\ conn'.retiring /\ conn'.retry = TRUE /\ conn'.cancel = c.cancel
      BY <1>2, <1>6, <2>1, RetiredFacts DEF Fresh
    <2> QED BY <1>5, <1>6, <2>2 DEF SocketInv
  <1>7. CASE /\ ~c.retiring /\ frames' = Outdated(q)
             /\ c.ws = "none" /\ (r.host => ~wifi) /\ budget' = b
             /\ conn' = [d EXCEPT !.retry = r.host] /\ main' = "loop"
    <2>1. /\ conn' \in ConnType /\ conn'.ws = "none" /\ conn'.old = 0 /\ Fresh(conn')
          /\ ~conn'.retiring /\ conn'.retry = r.host /\ conn'.cancel = c.cancel
      BY <1>2, <1>5, <1>7 DEF Fresh, ConnType, Profiles
    <2> QED BY <1>5, <1>7, <2>1 DEF SocketInv
  <1>8. CASE /\ ~c.retiring /\ frames' = Outdated(q)
             /\ c.ws = "none" /\ r.key = 0 /\ budget' = b /\ main' = "loop"
             /\ conn' = [d EXCEPT !.retry = FALSE]
    <2>1. /\ conn' \in ConnType /\ conn'.ws = "none" /\ conn'.old = 0 /\ Fresh(conn')
          /\ ~conn'.retiring /\ conn'.cancel = c.cancel
      BY <1>2, <1>5, <1>8 DEF Fresh, ConnType
    <2> QED BY <1>5, <1>8, <2>1 DEF SocketInv
  <1>9. CASE /\ ~c.retiring /\ frames' = Outdated(q)
             /\ c.ws = "none" /\ r.host /\ r.key = 0 /\ budget' = b /\ main' = "probe"
             /\ conn' = d
    BY <1>2, <1>5, <1>9 DEF SocketInv
  <1>10. CASE /\ ~c.retiring /\ frames' = Outdated(q)
              /\ c.ws = "none" /\ r.host /\ r.key # 0 /\ Start(d, b) /\ main' = "loop"
    <2>1. /\ conn' \in ConnType /\ budget' \in BudgetType /\ Fresh(conn')
          /\ conn'.old = 0 /\ ~conn'.retiring /\ conn'.ws \in {"none", "idle", "ended"}
          /\ conn'.cancel = c.cancel /\ (conn'.retry \/ conn'.ws = "idle")
      BY <1>2, <1>5, <1>10, StartFacts
    <2> QED BY <1>5, <1>10, <2>1 DEF SocketInv
  <1> QED BY <1>3, <1>4, <1>6, <1>7, <1>8, <1>9, <1>10 DEF Connect

(* The queue *)

\* A queue with nothing current says nothing.
LEMMA PastFrames ==
    ASSUME NEW q \in Seq(FrameType), \A i \in DOMAIN q : q[i].kind \in Past,
           NEW c, NEW s, NEW key
    PROVE  /\ \A i \in DOMAIN q : FrameInv(q[i], c, s, key)
           /\ OrderInv(q)
           /\ \A i \in DOMAIN q : q[i].kind \notin Handshake /\ q[i].kind # "result"
  BY DEF FrameInv, OrderInv, Past, Handshake

\* A queue without its head.
LEMMA TailFrames ==
    ASSUME NEW q \in Seq(FrameType), q # <<>>, NEW c, NEW s, NEW key, FramesInv(c, q, s, key)
    PROVE  FramesInv(c, Tail(q), s, key)
  <1>1. /\ \A i \in DOMAIN Tail(q) : i + 1 \in DOMAIN q /\ Tail(q)[i] = q[i + 1]
        /\ Tail(q) \in Seq(FrameType) /\ DOMAIN Tail(q) = 1 .. Len(Tail(q)) /\ Len(Tail(q)) \in Nat
    BY TailFacts, LenProperties
  <1>2. \A i \in DOMAIN Tail(q) : FrameInv(Tail(q)[i], c, s, key)
    BY <1>1 DEF FramesInv
  <1>3. OrderInv(Tail(q))
    <2>1. \A i, j \in DOMAIN Tail(q) : i < j => i + 1 < j + 1
      BY <1>1
    <2> QED BY <1>1, <2>1 DEF FramesInv, OrderInv
  <1>4. CommandInv(Tail(q), s)
    BY <1>1 DEF FramesInv, CommandInv
  <1> QED BY <1>2, <1>3, <1>4 DEF FramesInv

\* A queue with a frame more.
LEMMA AppendFrames ==
    ASSUME NEW q \in Seq(FrameType), NEW f \in FrameType, NEW c, NEW s, NEW key,
           FramesInv(c, q, s, key), FrameInv(f, c, s, key),
           f.kind \in Handshake => \A i \in DOMAIN q : q[i].kind \notin Handshake,
           f.kind \notin Past => \A i \in DOMAIN q : q[i].kind # "down",
           f.kind = "authorized" => \A i \in DOMAIN q : q[i].kind # "unpair",
           \A i \in DOMAIN s.up :
               /\ Settles(s.up[i], s) => f.kind \notin Handshake
               /\ s.up[i].kind = "command" /\ f.kind = "result" => f.n < s.issued
    PROVE  FramesInv(c, Append(q, f), s, key)
  <1> DEFINE n == Len(q) + 1
             p == Append(q, f)
  <1>1. /\ DOMAIN p = DOMAIN q \cup {n} /\ p[n] = f /\ n \notin DOMAIN q
        /\ \A i \in DOMAIN q : p[i] = q[i] /\ i \in 1 .. Len(q)
        /\ Len(q) \in Nat
    BY AppendFacts
  <1>2. (\A i \in DOMAIN q : i < n /\ ~(n < i)) /\ ~(n < n)
    BY <1>1
  <1> HIDE DEF n, p
  <1>3. \A i \in DOMAIN p : FrameInv(p[i], c, s, key)
    BY <1>1 DEF FramesInv
  <1>4. OrderInv(p)
    <2> SUFFICES ASSUME NEW i \in DOMAIN p, NEW j \in DOMAIN p, i < j
                 PROVE  /\ p[i].kind \in Handshake => p[j].kind \notin Handshake
                        /\ p[i].kind = "down" => p[j].kind \in Past
                        /\ p[i].kind = "unpair" => p[j].kind # "authorized"
      BY DEF OrderInv
    <2>1. CASE j = n
      BY <1>1, <1>2, <2>1
    <2>2. CASE i \in DOMAIN q /\ j \in DOMAIN q
      BY <1>1, <2>2 DEF FramesInv, OrderInv
    <2> QED BY <1>1, <1>2, <2>1, <2>2
  <1>5. CommandInv(p, s)
    BY <1>1 DEF FramesInv, CommandInv
  <1> QED BY <1>3, <1>4, <1>5 DEF FramesInv, p

(* Changes that leave the session alone *)

\* A connection that differs in its deadlines, its display and what it lost.
SameSession(c, d) ==
    /\ d.ws = c.ws /\ d.old = c.old /\ d.retiring = c.retiring /\ d.auth = c.auth
    /\ d.link = c.link /\ d.pending = c.pending
    /\ d.ready => c.ready
    /\ d.cancel => c.cancel
    /\ c.lost => d.lost

\* A Scale that differs in its pairing and its window, and may have ended a session.
SameTalk(s, t) ==
    /\ t.up = s.up /\ t.offer = s.offer /\ t.issued = s.issued
    /\ t.sess = s.sess \/ (s.sess = "trusted" /\ t.sess = "closing")

\* What the display believes, and what is queued, fits such a change.
LEMMA SameKeeps ==
    ASSUME NEW c, NEW d, NEW q, NEW s, NEW t, NEW key, SameSession(c, d), SameTalk(s, t),
           SessionInv(c, s, key), FramesInv(c, q, s, key)
    PROVE  SessionInv(d, t, key) /\ FramesInv(d, q, t, key)
  <1>1. SessionInv(d, t, key)
    BY DEF SameSession, SameTalk, SessionInv
  <1>2. \A f : FrameInv(f, c, s, key) => FrameInv(f, d, t, key)
    BY DEF SameSession, SameTalk, FrameInv
  <1>3. \A m : UpInv(m, c, s, key) => UpInv(m, d, t, key)
    BY DEF SameSession, SameTalk, UpInv, Heard
  <1>4. CommandInv(q, t)
    BY DEF SameTalk, CommandInv, FramesInv, Settles
  <1> QED BY <1>1, <1>2, <1>3, <1>4 DEF FramesInv, SameTalk

\* The Scale's pairing is removed, or not.
LEMMA RemovedFacts ==
    ASSUME scale \in ScaleType
    PROVE  /\ Unpaired(scale) \in ScaleType /\ SameTalk(scale, Unpaired(scale))
           /\ scale.sess = "trusted" => Unpaired(scale).sess = "closing"
           /\ SameTalk(scale, scale)
           /\ \A done : Removed(done) \in {scale, Unpaired(scale)}
  <1>1. 0 \in Keys
    BY ScreenAssumption DEF Keys
  <1> QED BY <1>1 DEF Unpaired, Removed, ScaleType, SameTalk

-----------------------------------------------------------------------------
(* The steps *)

\* ForgottenStaysForgotten, for a step.
ForgetStep == ram.key = 0 /\ ram'.key # 0 => ram'.key = scale.offer \/ nvs.key = ram'.key

\* The session is given up.
LEMMA DropStep ==
    ASSUME Inv, TypeInv', SocketInv(conn', main', ram'), SavedInv(ram', nvs'), Fresh(conn'),
           \A i \in DOMAIN frames' : frames'[i].kind \in Past,
           SameTalk(scale, scale'), ram'.key \in {ram.key, 0}, guard' = guard, conn'.ws # "open",
           conn'.ws = "idle" \/ (conn'.ws = "none" /\ conn'.old = 0)
             => conn.ws = "none" /\ conn.old = 0,
           conn'.cancel => ram'.key = 0,
           ram'.host /\ ram'.key # 0 => conn'.retry \/ conn'.ws = "idle"
    PROVE  Inv' /\ ForgetStep
  <1>1. SessionInv(conn', scale', ram'.key)
    BY DEF Inv, SessionInv, SameTalk, Fresh
  <1>2. \A i \in DOMAIN scale'.up : UpInv(scale'.up[i], conn', scale', ram'.key)
    <2> SUFFICES ASSUME NEW i \in DOMAIN scale'.up
                 PROVE  UpInv(scale'.up[i], conn', scale', ram'.key)
      OBVIOUS
    <2>1. UpInv(scale.up[i], conn, scale, ram.key) /\ scale'.up = scale.up
      BY DEF Inv, FramesInv, SameTalk
    <2>2. ~(Heard(conn') /\ scale'.sess = "challenged")
      BY <1>1 DEF Heard, SessionInv
    <2> QED BY <2>1, <2>2 DEF UpInv, SameTalk, Fresh
  <1>3. /\ \A i \in DOMAIN frames' : FrameInv(frames'[i], conn', scale', ram'.key)
        /\ OrderInv(frames')
        /\ \A i \in DOMAIN frames' : frames'[i].kind \notin Handshake /\ frames'[i].kind # "result"
    BY PastFrames DEF TypeInv
  <1>4. CommandInv(frames', scale')
    BY <1>3 DEF Inv, FramesInv, CommandInv, SameTalk
  <1>5. NeverStranded' /\ GuardInv'
    BY DEF Inv, NeverStranded, WayForward, GuardInv
  <1> QED BY <1>1, <1>2, <1>3, <1>4, <1>5 DEF Inv, FramesInv, ForgetStep

\* What may bring the slot online stays queued behind another frame.
LEMMA PopQueued ==
    ASSUME frames \in Seq(FrameType), frames # <<>>, frames' = Tail(frames),
           NEW k, Head(frames).kind # k, Queued(k)
    PROVE  Queued(k)'
  <1>1. PICK i \in DOMAIN frames : frames[i].kind = k
    BY DEF Queued
  <1>2. i # 1 /\ i - 1 \in DOMAIN frames' /\ frames'[i - 1] = frames[i]
    BY <1>1, TailFacts
  <1> QED BY <1>1, <1>2 DEF Queued

\* The session goes on as it is; a frame that changes nothing may be taken.
LEMMA QuietStep ==
    ASSUME Inv, TypeInv', SavedInv(ram', nvs'), SameSession(conn, conn'), SameTalk(scale, scale'),
           ram'.key = ram.key, ram'.host = ram.host, main' = main, GuardInv',
           \/ frames' = frames
           \/ /\ frames # <<>> /\ frames' = Tail(frames)
              /\ Head(frames).kind \notin {"down", "authorized"},
           conn.retry => conn'.retry \/ ~(ram.host /\ ram.key # 0)
    PROVE  Inv' /\ ForgetStep
  <1>1. SessionInv(conn', scale', ram'.key) /\ FramesInv(conn', frames', scale', ram'.key)
    BY TailFrames, SameKeeps DEF Inv, TypeInv
  <1>2. SocketInv(conn', main', ram')
    BY DEF Inv, SocketInv, SameSession
  <1>3. NeverStranded'
    <2>1. \A k \in {"down", "authorized"} : Queued(k) => Queued(k)'
      BY PopQueued DEF Inv, TypeInv, Queued
    <2> QED BY <2>1 DEF Inv, NeverStranded, WayForward, SameSession, SameTalk
  <1> QED BY <1>1, <1>2, <1>3 DEF Inv, ForgetStep

\* The Scale goes on, and a frame is queued or dropped.
LEMMA PushStep ==
    ASSUME Inv, NEW f \in FrameType, UNCHANGED <<ram, nvs, main, wifi, rearm>>,
           guard' \in GuardType, GuardInv', scale' \in ScaleType, budget' \in BudgetType,
           SessionInv(conn, scale', ram.key), FramesInv(conn, frames, scale', ram.key),
           conn' \in ConnType, SameSession(conn, conn'), conn'.retry = conn.retry,
           \/ /\ frames' = frames
              /\ Heard(conn) /\ f.kind = "authorized" => conn'.lost
           \/ /\ frames' = Append(frames, f) /\ Len(frames) < FrameSlots
              /\ FrameInv(f, conn, scale', ram.key)
              /\ f.kind \in Handshake => \A i \in DOMAIN frames : frames[i].kind \notin Handshake
              /\ f.kind \notin Past => \A i \in DOMAIN frames : frames[i].kind # "down"
              /\ f.kind = "authorized" => \A i \in DOMAIN frames : frames[i].kind # "unpair"
              /\ \A i \in DOMAIN scale'.up :
                   /\ Settles(scale'.up[i], scale') => f.kind \notin Handshake
                   /\ scale'.up[i].kind = "command" /\ f.kind = "result" => f.n < scale'.issued,
           scale'.sess = "trusted" /\ conn.ws = "open"
             => scale.sess = "trusted" \/ f.kind = "authorized"
    PROVE  Inv' /\ ForgetStep
  <1>1. /\ frames' \in Seq(FrameType) /\ Len(frames') <= FrameSlots
        /\ FramesInv(conn, frames', scale', ram.key)
        /\ \A k : Queued(k) => Queued(k)'
        /\ frames' = frames \/ Queued(f.kind)'
    <2>1. CASE frames' = frames
      BY <2>1 DEF Inv, TypeInv, Queued
    <2>2. CASE frames' # frames
      <3>1. frames' = Append(frames, f)
        BY <2>2
      <3>2. FramesInv(conn, frames', scale', ram.key)
        BY <2>2, <3>1, AppendFrames DEF Inv, TypeInv
      <3>3. /\ frames' \in Seq(FrameType) /\ Len(frames') = Len(frames) + 1 /\ Len(frames) \in Nat
            /\ Len(frames) + 1 \in DOMAIN frames' /\ frames'[Len(frames) + 1] = f
            /\ \A i \in DOMAIN frames : i \in DOMAIN frames' /\ frames'[i] = frames[i]
        BY <3>1, AppendFacts DEF Inv, TypeInv
      <3>4. Len(frames') <= FrameSlots
        BY <2>2, <3>3, ScreenAssumption
      <3> QED BY <3>2, <3>3, <3>4 DEF Queued
    <2> QED BY <2>1, <2>2
  <1>2. TypeInv'
    BY <1>1 DEF Inv, TypeInv
  <1>3. SessionInv(conn', scale', ram'.key) /\ FramesInv(conn', frames', scale', ram'.key)
    <2>1. SameTalk(scale', scale')
      BY DEF SameTalk
    <2> QED BY <1>1, <2>1, SameKeeps
  <1>4. SocketInv(conn', main', ram')
    BY DEF Inv, SocketInv, SameSession
  <1>5. NeverStranded'
    <2>1. conn.ws = "open" /\ scale.sess # "trusted" /\ scale'.sess = "trusted"
            => conn'.lost \/ Queued("authorized")'
      BY <1>1 DEF Heard
    <2> QED BY <1>1, <2>1 DEF Inv, NeverStranded, WayForward, SameSession
  <1> QED BY <1>2, <1>3, <1>4, <1>5 DEF Inv, ForgetStep

(* on_frame *)

\* A frame is taken from the queue.
LEMMA ReceivedFacts ==
    ASSUME Inv, NEW k, Received(k)
    PROVE  /\ frames # <<>> /\ frames' = Tail(frames) /\ Head(frames).kind = k /\ main = "loop"
           /\ frames' \in Seq(FrameType) /\ Len(frames') <= FrameSlots
           /\ 1 \in DOMAIN frames /\ Head(frames) = frames[1] /\ Head(frames) \in FrameType
           /\ FrameInv(Head(frames), conn, scale, ram.key)
           /\ FramesInv(conn, frames', scale, ram.key)
           /\ k \in Handshake => \A i \in DOMAIN frames' : frames'[i].kind \notin Handshake
           /\ k = "down" => \A i \in DOMAIN frames' : frames'[i].kind \in Past
           /\ k = "unpair" => \A i \in DOMAIN frames' : frames'[i].kind # "authorized"
  <1>1. /\ frames # <<>> /\ frames' = Tail(frames) /\ Head(frames).kind = k /\ main = "loop"
    BY DEF Received
  <1>2. /\ frames' \in Seq(FrameType) /\ Len(frames') = Len(frames) - 1
        /\ Len(frames) \in Nat \ {0} /\ 1 \in DOMAIN frames /\ Head(frames) = frames[1]
        /\ Head(frames) \in FrameType
        /\ \A i \in DOMAIN frames' : i + 1 \in DOMAIN frames /\ frames'[i] = frames[i + 1]
        /\ DOMAIN frames' = 1 .. Len(frames') /\ Len(frames') \in Nat
    BY <1>1, TailFacts, LenProperties DEF Inv, TypeInv
  <1>3. Len(frames') <= FrameSlots
    BY <1>2, ScreenAssumption DEF Inv, TypeInv
  <1>4. FrameInv(Head(frames), conn, scale, ram.key) /\ FramesInv(conn, frames', scale, ram.key)
    BY <1>1, <1>2, TailFrames DEF Inv, TypeInv, FramesInv
  <1>5. \A i \in DOMAIN frames' : 1 < i + 1
    BY <1>2
  <1>6. /\ k \in Handshake => \A i \in DOMAIN frames' : frames'[i].kind \notin Handshake
        /\ k = "down" => \A i \in DOMAIN frames' : frames'[i].kind \in Past
        /\ k = "unpair" => \A i \in DOMAIN frames' : frames'[i].kind # "authorized"
    BY <1>1, <1>2, <1>5 DEF Inv, FramesInv, OrderInv
  <1> QED BY <1>1, <1>2, <1>3, <1>4, <1>6

\* What is the same in any case.
LEMMA SameFacts == SameSession(conn, conn) /\ SameTalk(scale, scale)
  BY DEF SameSession, SameTalk

\* Frames of older connections and of the other slot.
LEMMA FrameStaleStep ==
    ASSUME Inv, FrameStale
    PROVE  Inv' /\ ForgetStep
  <1>1. PICK k \in {"stale", "other"} : Received(k)
    BY DEF FrameStale
  <1>2. TypeInv' /\ GuardInv' /\ SavedInv(ram', nvs')
    BY <1>1, ReceivedFacts DEF FrameStale, Inv, TypeInv, GuardInv
  <1>3. SameSession(conn, conn') /\ SameTalk(scale, scale')
    BY SameFacts DEF FrameStale
  <1>4. frames # <<>> /\ frames' = Tail(frames) /\ Head(frames).kind \notin {"down", "authorized"}
    BY <1>1, ReceivedFacts
  <1> QED BY <1>2, <1>3, <1>4, QuietStep DEF FrameStale

\* The socket's end.
LEMMA FrameDownStep ==
    ASSUME Inv, FrameDown
    PROVE  Inv' /\ ForgetStep
  <1> DEFINE d == Disconnected(conn)
  <1>1. /\ frames' \in Seq(FrameType) /\ Len(frames') <= FrameSlots
        /\ \A i \in DOMAIN frames' : frames'[i].kind \in Past
        /\ FrameInv(Head(frames), conn, scale, ram.key) /\ Head(frames).kind = "down"
    BY ReceivedFacts DEF FrameDown
  <1>2. conn.ws = "ended"
    BY <1>1 DEF FrameInv
  <1>3. d \in ConnType /\ Fresh(d) /\ d.ws = conn.ws /\ d.old = conn.old /\ d.retiring = conn.retiring
    BY DisconnectedFacts DEF Inv, TypeInv
  <1>4. conn' = [d EXCEPT !.retry = ~conn.cancel, !.cancel = FALSE]
    BY DEF FrameDown
  <1> HIDE DEF d
  <1>5. /\ conn' \in ConnType /\ Fresh(conn') /\ conn'.ws = conn.ws /\ conn'.old = conn.old
        /\ conn'.retiring = conn.retiring /\ conn'.retry = ~conn.cancel /\ conn'.cancel = FALSE
    BY <1>3, <1>4 DEF ConnType, Fresh, Inv, TypeInv
  <1>6. TypeInv' /\ SavedInv(ram', nvs') /\ SocketInv(conn', main', ram')
    BY <1>1, <1>5 DEF FrameDown, Inv, TypeInv, SocketInv
  <1>7. ram.key # 0 => conn'.retry
    BY <1>5 DEF Inv, SessionInv
  <1> QED BY <1>1, <1>2, <1>5, <1>6, <1>7, SameFacts, DropStep DEF FrameDown

\* A message for the Scale, but a command.
LEMMA SendTalk ==
    ASSUME NEW c, NEW q \in Seq(FrameType), NEW s, NEW t, NEW m \in UpType, NEW key,
           s.up \in Seq(UpType), SessionInv(c, s, key), FramesInv(c, q, s, key),
           t.up = Append(s.up, m), t.sess = s.sess, t.offer = s.offer, t.issued = s.issued,
           s.sess # "none", m.kind # "command",
           \A i \in DOMAIN q : q[i].kind # "up", \A i \in DOMAIN s.up : s.up[i].kind # "hello",
           UpInv(m, c, t, key),
           m.kind = "auth" => \A i \in DOMAIN q : q[i].kind \notin Handshake
    PROVE  SessionInv(c, t, key) /\ FramesInv(c, q, t, key)
  <1> DEFINE n == Len(s.up) + 1
  <1>1. /\ DOMAIN t.up = DOMAIN s.up \cup {n} /\ t.up[n] = m
        /\ \A i \in DOMAIN s.up : t.up[i] = s.up[i]
    BY AppendFacts
  <1> HIDE DEF n
  <1>2. SessionInv(c, t, key)
    BY DEF SessionInv
  <1>3. \A i \in DOMAIN q : FrameInv(q[i], c, t, key)
    BY DEF FramesInv, FrameInv
  <1>4. \A i \in DOMAIN t.up : UpInv(t.up[i], c, t, key)
    BY <1>1 DEF FramesInv, UpInv
  <1>5. CommandInv(q, t)
    BY <1>1 DEF FramesInv, CommandInv, Settles
  <1> QED BY <1>2, <1>3, <1>4, <1>5 DEF FramesInv

\* What Sent adds.
LEMMA SentFacts ==
    ASSUME scale \in ScaleType, NEW m \in UpType
    PROVE  /\ Sent(m) \in ScaleType /\ Sent(m).up = Append(scale.up, m)
           /\ Sent(m).sess = scale.sess /\ Sent(m).offer = scale.offer
           /\ Sent(m).issued = scale.issued /\ Sent(m).key = scale.key
  <1>1. Append(scale.up, m) \in Seq(UpType)
    BY AppendFacts DEF ScaleType
  <1> QED BY <1>1 DEF Sent, ScaleType

\* A step that lets the session go on, at its ends.
LEMMA TalkStep ==
    ASSUME Inv, TypeInv', main' = main, ram'.host = ram.host, ram'.key \in {ram.key, 0}, GuardInv',
           SavedInv(ram', nvs'),
           conn'.ws = conn.ws, conn'.old = conn.old, conn'.retiring = conn.retiring,
           SessionInv(conn', scale', ram'.key), FramesInv(conn', frames', scale', ram'.key),
           NeverStranded'
    PROVE  Inv' /\ ForgetStep
  BY DEF Inv, SocketInv, ForgetStep

\* The socket is up: the display says hello.
LEMMA FrameUpStep ==
    ASSUME Inv, FrameUp
    PROVE  Inv' /\ ForgetStep
  <1>1. /\ frames' \in Seq(FrameType) /\ Len(frames') <= FrameSlots /\ frames' = Tail(frames)
        /\ FrameInv(Head(frames), conn, scale, ram.key) /\ Head(frames).kind = "up"
        /\ FramesInv(conn, frames', scale, ram.key) /\ frames # <<>>
        /\ \A i \in DOMAIN frames' : frames'[i].kind # "up"
    BY ReceivedFacts DEF FrameUp, Handshake
  <1>2. scale.sess = "new" /\ scale.up = <<>>
    BY <1>1 DEF FrameInv
  <1>3. conn.link = 0 /\ ~conn.auth /\ ~conn.ready /\ conn.pending = 0
    BY <1>2 DEF Inv, SessionInv
  <1>4. conn' \in ConnType /\ SameSession(conn, conn') /\ conn'.retry = conn.retry
    BY <1>3, DisconnectedFacts DEF FrameUp, Inv, TypeInv, Fresh, SameSession, ConnType
  <1>5. PICK ok \in Outcomes(CanSend) :
          /\ scale' = IF ok THEN Sent(Frame("hello", ram.key)) ELSE scale
          /\ Spend(ok \/ ~CanSend)
    BY DEF FrameUp
  <1>6. budget' \in BudgetType
    <2>1. CanSend \in BOOLEAN
      BY DEF CanSend
    <2> QED BY <1>5, <2>1, OutcomeFacts, ChargedType DEF Spend, Inv, TypeInv
  <1> DEFINE m == Frame("hello", ram.key)
  <1>7. m \in UpType /\ m.kind = "hello" /\ m.n = ram.key
    BY DEF Frame, UpType, Inv, TypeInv, Profiles, Keys
  <1>8. scale' \in ScaleType
    BY <1>5, <1>7, SentFacts DEF Inv, TypeInv
  <1>9. SessionInv(conn, scale', ram.key) /\ FramesInv(conn, frames', scale', ram.key)
    <2>1. CASE scale' = scale
      BY <1>1, <2>1 DEF Inv
    <2>2. CASE scale' = Sent(m)
      <3>1. /\ scale'.up = Append(scale.up, m) /\ scale'.sess = scale.sess
            /\ scale'.offer = scale.offer /\ scale'.issued = scale.issued
        BY <1>7, <2>2, SentFacts DEF Inv, TypeInv
      <3>2. Len(scale'.up) = 1 /\ \A i \in DOMAIN scale.up : FALSE
        BY <1>2, <1>7, <3>1, EmptySeq, AppendFacts, LenProperties DEF Inv, TypeInv, ScaleType
      <3>3. UpInv(m, conn, scale', ram.key)
        BY <1>2, <1>7, <3>1, <3>2 DEF UpInv
      <3> HIDE DEF m
      <3> QED
        BY <1>1, <1>2, <1>7, <3>1, <3>2, <3>3, SendTalk DEF Inv, TypeInv, ScaleType
    <2> QED BY <1>5, <2>1, <2>2
  <1>10. SessionInv(conn', scale', ram'.key) /\ FramesInv(conn', frames', scale', ram'.key)
    <2>1. SameTalk(scale', scale') /\ ram' = ram
      BY DEF SameTalk, FrameUp
    <2> QED BY <1>4, <1>9, <2>1, SameKeeps
  <1>11. scale'.sess = scale.sess
    BY <1>5, <1>7, SentFacts DEF Inv, TypeInv
  <1>12. conn.ws \in {"open", "ended"} /\ (conn.ws = "open" => NeverStranded')
    BY <1>1, <1>2, <1>4, <1>11 DEF FrameInv, Past, NeverStranded, WayForward, SameSession
  <1>13. conn.ws = "ended" => NeverStranded'
    <2> SUFFICES ASSUME conn.ws = "ended", ram.host, ram.key # 0
                 PROVE  WayForward' \/ conn'.lost
      BY DEF NeverStranded, FrameUp
    <2>1. conn.retry \/ Queued("down") \/ Queued("authorized") \/ conn.lost
      BY <1>3 DEF Inv, NeverStranded, WayForward
    <2>2. \A k \in {"down", "authorized"} : Queued(k) => Queued(k)'
      BY <1>1, PopQueued DEF Inv, TypeInv
    <2> QED BY <1>4, <2>1, <2>2 DEF WayForward, SameSession
  <1>14. TypeInv' /\ SavedInv(ram', nvs') /\ GuardInv'
    BY <1>1, <1>4, <1>6, <1>8 DEF FrameUp, Inv, TypeInv, GuardInv
  <1> QED BY <1>4, <1>10, <1>12, <1>13, <1>14, TalkStep DEF FrameUp, SameSession

\* A handshake is accepted: the session has a key.
LEMMA LinkFrames ==
    ASSUME Inv, frames # <<>>, Head(frames).kind \in {"pair", "challenge"},
           NEW k \in Keys \ {0}, ram.key # 0 => k = ram.key,
           Head(frames).kind = "challenge" => ram.key # 0,
           NEW q, q = Tail(frames), \A i \in DOMAIN q : q[i].kind \notin Handshake
    PROVE  LET c == [conn EXCEPT !.link = k, !.ready = TRUE] IN
           /\ c \in ConnType /\ SessionInv(c, scale, ram.key) /\ FramesInv(c, q, scale, ram.key)
           /\ c.ws = conn.ws /\ c.old = conn.old /\ c.retiring = conn.retiring
           /\ c.retry = conn.retry /\ c.auth = conn.auth /\ c.lost = conn.lost
  <1> DEFINE c == [conn EXCEPT !.link = k, !.ready = TRUE]
  <1>1. /\ Head(frames) = frames[1] /\ 1 \in DOMAIN frames
        /\ FramesInv(conn, q, scale, ram.key)
    BY TailFacts, TailFrames DEF Inv, TypeInv
  <1>2. FrameInv(Head(frames), conn, scale, ram.key)
    BY <1>1 DEF Inv, FramesInv
  <1>3. /\ conn.link = 0 /\ ~conn.auth /\ conn.pending = 0 /\ conn.ws \in {"open", "ended"}
        /\ scale.sess \in {"pairing", "challenged", "closing"}
        /\ scale.sess = "challenged" => ram.key # 0
    BY <1>2 DEF FrameInv, Past, Inv, SessionInv
  <1>4. /\ c \in ConnType /\ c.link = k /\ c.ws = conn.ws /\ c.old = conn.old
        /\ c.retiring = conn.retiring /\ c.retry = conn.retry /\ c.auth = conn.auth
        /\ c.lost = conn.lost /\ c.cancel = conn.cancel /\ c.pending = conn.pending
    BY DEF Inv, TypeInv, ConnType
  <1> HIDE DEF c
  <1>5. SessionInv(c, scale, ram.key)
    BY <1>3, <1>4 DEF Inv, SessionInv
  <1>6. \A i \in DOMAIN q : FrameInv(q[i], c, scale, ram.key)
    BY <1>1, <1>4 DEF FramesInv, FrameInv, Handshake
  <1>7. \A i \in DOMAIN scale.up : UpInv(scale.up[i], c, scale, ram.key)
    BY <1>1, <1>3, <1>4 DEF FramesInv, UpInv
  <1>8. FramesInv(c, q, scale, ram.key)
    BY <1>1, <1>6, <1>7 DEF FramesInv
  <1> QED BY <1>4, <1>5, <1>8 DEF c

\* A taken frame that is neither an end nor an authorization strands nobody.
LEMMA PopStranded ==
    ASSUME Inv, frames # <<>>, frames' = Tail(frames),
           Head(frames).kind \notin {"down", "authorized"},
           conn'.ws = conn.ws, conn.retry => conn'.retry, conn.auth => conn'.auth,
           conn.lost => conn'.lost, scale'.sess = scale.sess, ram' = ram
    PROVE  NeverStranded'
  <1>1. \A k \in {"down", "authorized"} : Queued(k) => Queued(k)'
    BY PopQueued DEF Inv, TypeInv
  <1> QED BY <1>1 DEF Inv, NeverStranded, WayForward

\* The Scale offers a key.
LEMMA FramePairStep ==
    ASSUME Inv, FramePair
    PROVE  Inv' /\ ForgetStep
  <1>1. /\ frames' \in Seq(FrameType) /\ Len(frames') <= FrameSlots /\ frames' = Tail(frames)
        /\ frames # <<>> /\ Head(frames).kind = "pair"
        /\ FrameInv(Head(frames), conn, scale, ram.key)
        /\ \A i \in DOMAIN frames' : frames'[i].kind \notin Handshake
    BY ReceivedFacts DEF FramePair, Handshake
  <1> DEFINE k == Head(frames).n
  <1>2. k \in Keys \ {0} /\ ram.key = 0 /\ ~conn.auth
    BY <1>1 DEF FrameInv, Inv, TypeInv, ScaleType, SessionInv
  <1>3. conn' = [conn EXCEPT !.link = k, !.ready = TRUE]
    BY <1>2 DEF FramePair
  <1> HIDE DEF k
  <1>4. /\ conn' \in ConnType /\ SessionInv(conn', scale, ram.key)
        /\ FramesInv(conn', frames', scale, ram.key)
        /\ conn'.ws = conn.ws /\ conn'.old = conn.old /\ conn'.retiring = conn.retiring
        /\ conn'.retry = conn.retry /\ conn'.auth = conn.auth /\ conn'.lost = conn.lost
    BY <1>1, <1>2, <1>3, LinkFrames
  <1>5. TypeInv' /\ SavedInv(ram', nvs') /\ GuardInv'
    BY <1>1, <1>4 DEF FramePair, Inv, TypeInv, GuardInv
  <1>6. NeverStranded'
    BY <1>1, <1>4, PopStranded DEF FramePair
  <1> QED BY <1>4, <1>5, <1>6, TalkStep DEF FramePair

\* A send that may fail.
LEMMA AfterSendFacts ==
    ASSUME NEW c \in ConnType, NEW ok \in BOOLEAN
    PROVE  /\ AfterSend(c, ok) \in ConnType /\ SameSession(c, AfterSend(c, ok))
           /\ c.retry => AfterSend(c, ok).retry
           /\ AfterSend(c, ok).lost = c.lost
  BY DEF AfterSend, ConnType, SameSession

\* The Scale asks for a proof of the saved pairing.
LEMMA FrameChallengeStep ==
    ASSUME Inv, FrameChallenge
    PROVE  Inv' /\ ForgetStep
  <1>1. /\ frames' \in Seq(FrameType) /\ Len(frames') <= FrameSlots /\ frames' = Tail(frames)
        /\ frames # <<>> /\ Head(frames).kind = "challenge"
        /\ FrameInv(Head(frames), conn, scale, ram.key)
        /\ \A i \in DOMAIN frames' : frames'[i].kind \notin Handshake
    BY ReceivedFacts DEF FrameChallenge, Handshake
  <1>2. ~conn.auth /\ scale.sess \in {"challenged", "closing"} /\ SavedInv(ram', nvs') /\ GuardInv'
    BY <1>1 DEF FrameInv, Inv, SessionInv, FrameChallenge, GuardInv
  <1>3. CASE ram.key = 0
    <2>1. UNCHANGED <<ram, nvs, conn, main, wifi, guard, rearm, scale, budget>>
      BY <1>3 DEF FrameChallenge
    <2>2. TypeInv'
      BY <1>1, <2>1 DEF Inv, TypeInv
    <2> QED BY <1>1, <1>2, <2>1, <2>2, SameFacts, QuietStep
  <1>4. CASE ram.key # 0
    <2> DEFINE c == [conn EXCEPT !.link = ram.key, !.ready = TRUE]
               m == Frame("auth", ram.key)
    <2>1. PICK ok \in Outcomes(CanSend) :
            /\ conn' = AfterSend(c, ok) /\ Spend(ok \/ ~CanSend)
            /\ scale' = IF ok THEN Sent(m) ELSE scale
      BY <1>2, <1>4 DEF FrameChallenge
    <2>2. ok \in BOOLEAN /\ budget' \in BudgetType
      <3>1. CanSend \in BOOLEAN
        BY DEF CanSend
      <3> QED BY <2>1, <3>1, OutcomeFacts, ChargedType DEF Spend, Inv, TypeInv
    <2>3. m \in UpType /\ m.kind = "auth" /\ ram.key \in Keys
      BY DEF Frame, UpType, Inv, TypeInv, Profiles, Keys
    <2>4. /\ c \in ConnType /\ SessionInv(c, scale, ram.key) /\ FramesInv(c, frames', scale, ram.key)
          /\ c.ws = conn.ws /\ c.old = conn.old /\ c.retiring = conn.retiring
          /\ c.retry = conn.retry /\ c.auth = conn.auth /\ c.lost = conn.lost
      BY <1>1, <1>4, <2>3, LinkFrames
    <2>5. c.link = ram.key
      BY DEF Inv, TypeInv, ConnType
    <2> HIDE DEF c, m
    <2>6. /\ scale' \in ScaleType /\ scale'.sess = scale.sess
          /\ SessionInv(c, scale', ram.key) /\ FramesInv(c, frames', scale', ram.key)
      <3>1. CASE scale' = scale
        BY <2>4, <3>1 DEF Inv, TypeInv
      <3>2. CASE scale' = Sent(m)
        <4>1. /\ scale' \in ScaleType /\ scale'.up = Append(scale.up, m)
              /\ scale'.sess = scale.sess /\ scale'.offer = scale.offer
              /\ scale'.issued = scale.issued
          BY <2>3, <3>2, SentFacts DEF Inv, TypeInv
        <4>2. \A i \in DOMAIN scale.up : scale.up[i].kind # "hello"
          BY <1>2, <2>4 DEF FramesInv, UpInv
        <4>3. UpInv(m, c, scale', ram.key)
          BY <1>4, <2>3, <2>5 DEF UpInv
        <4> QED
          BY <1>1, <1>2, <2>3, <2>4, <4>1, <4>2, <4>3, SendTalk
          DEF Inv, TypeInv, ScaleType, Handshake
      <3> QED BY <2>1, <3>1, <3>2
    <2>7. conn' \in ConnType /\ SameSession(c, conn') /\ (c.retry => conn'.retry)
      BY <2>1, <2>2, <2>4, AfterSendFacts
    <2>8. SessionInv(conn', scale', ram'.key) /\ FramesInv(conn', frames', scale', ram'.key)
      <3>1. SameTalk(scale', scale') /\ ram' = ram
        BY DEF SameTalk, FrameChallenge
      <3> QED BY <2>6, <2>7, <3>1, SameKeeps
    <2>9. /\ conn'.ws = conn.ws /\ conn'.old = conn.old /\ conn'.retiring = conn.retiring
          /\ conn.retry => conn'.retry
          /\ conn.auth => conn'.auth
          /\ conn.lost => conn'.lost
      BY <2>4, <2>7 DEF SameSession
    <2>10. NeverStranded'
      BY <1>1, <2>6, <2>9, PopStranded DEF FrameChallenge
    <2>11. TypeInv'
      BY <1>1, <2>2, <2>6, <2>7 DEF FrameChallenge, Inv, TypeInv
    <2> QED BY <1>2, <2>8, <2>9, <2>10, <2>11, TalkStep DEF FrameChallenge
  <1> QED BY <1>3, <1>4

\* The Scale confirms that the pairing was called off.
LEMMA FrameCanceledStep ==
    ASSUME Inv, FrameCanceled
    PROVE  Inv' /\ ForgetStep
  <1>1. frames # <<>> /\ Head(frames).kind = "canceled" /\ main = "loop"
    BY DEF FrameCanceled
  <1>2. /\ Tail(frames) \in Seq(FrameType) /\ Len(Tail(frames)) <= FrameSlots
    BY <1>1, TailFacts, ScreenAssumption DEF Inv, TypeInv
  <1>3. CASE ram.key = 0
    <2> DEFINE d == Stopped(conn, FALSE)
    <2>1. /\ d \in ConnType /\ Fresh(d) /\ d.ws = "none" /\ d.old \in 0 .. 1
          /\ d.retiring <=> d.old = 1
          /\ d.old = 0 => conn.ws = "none" /\ conn.old = 0
      BY StoppedFacts DEF Inv, TypeInv
    <2>2. conn' = [d EXCEPT !.cancel = FALSE] /\ frames' = Outdated(Tail(frames))
      BY <1>3 DEF FrameCanceled
    <2> HIDE DEF d
    <2>3. /\ conn' \in ConnType /\ Fresh(conn') /\ conn'.ws = "none" /\ conn'.old = d.old
          /\ conn'.retiring = d.retiring /\ conn'.cancel = FALSE
      BY <2>1, <2>2 DEF ConnType, Fresh
    <2>4. /\ frames' \in Seq(FrameType) /\ Len(frames') <= FrameSlots
          /\ \A i \in DOMAIN frames' : frames'[i].kind \in Past
      BY <1>2, <2>2, OutdatedFacts
    <2>5. TypeInv' /\ SavedInv(ram', nvs') /\ SocketInv(conn', main', ram')
      BY <1>1, <2>1, <2>3, <2>4 DEF FrameCanceled, Inv, TypeInv, SocketInv
    <2> QED BY <1>3, <2>1, <2>3, <2>4, <2>5, SameFacts, DropStep DEF FrameCanceled
  <1>4. CASE ram.key # 0
    <2>1. conn' = conn /\ frames' = Tail(frames)
      BY <1>4 DEF FrameCanceled
    <2>2. TypeInv' /\ SavedInv(ram', nvs') /\ GuardInv'
      BY <1>2, <2>1 DEF FrameCanceled, Inv, TypeInv, GuardInv
    <2> QED BY <1>1, <2>1, <2>2, SameFacts, QuietStep DEF FrameCanceled
  <1> QED BY <1>3, <1>4

\* The session is trusted, once its pairing is saved.
LEMMA FrameAuthorizedStep ==
    ASSUME Inv, FrameAuthorized
    PROVE  Inv' /\ ForgetStep
  <1> DEFINE c == [conn EXCEPT !.cancel = FALSE]
             trusted == [c EXCEPT !.auth = TRUE, !.retry = FALSE]
             r == [ram EXCEPT !.key = conn.link]
  <1>1. /\ frames' \in Seq(FrameType) /\ Len(frames') <= FrameSlots /\ frames' = Tail(frames)
        /\ frames # <<>> /\ Head(frames).kind = "authorized"
        /\ Head(frames) = frames[1] /\ 1 \in DOMAIN frames
        /\ FrameInv(Head(frames), conn, scale, ram.key)
        /\ FramesInv(conn, frames', scale, ram.key)
        /\ \A i \in DOMAIN frames' : frames'[i].kind \notin Handshake
    BY ReceivedFacts DEF FrameAuthorized, Handshake
  <1>2. /\ scale.sess \in {"trusted", "closing"} /\ conn.link # 0 /\ ~conn.auth
        /\ ram.key # 0 \/ conn.link = scale.offer
        /\ conn.ws \in {"open", "ended"}
    BY <1>1 DEF FrameInv, Past
  <1>3. ram.host /\ conn.link \in Keys /\ (ram.key # 0 => conn.link = ram.key)
    BY <1>2 DEF Inv, SocketInv, SessionInv, TypeInv, ConnType
  <1>4. \A i \in DOMAIN scale.up : scale.up[i].kind \notin {"hello", "command"}
    BY <1>1, <1>2 DEF Inv, FramesInv, UpInv, CommandInv, Settles, Handshake
  <1>5. /\ c \in ConnType /\ SameSession(conn, c) /\ c.lost = conn.lost /\ c.cancel = FALSE
        /\ trusted \in ConnType /\ trusted.ws = conn.ws /\ trusted.old = conn.old
        /\ trusted.retiring = conn.retiring /\ trusted.link = conn.link /\ trusted.auth
        /\ trusted.ready = conn.ready /\ trusted.pending = conn.pending /\ trusted.cancel = FALSE
    BY DEF Inv, TypeInv, ConnType, SameSession
  <1>6. r \in Profiles /\ r.key = conn.link /\ r.host
    BY <1>3 DEF Inv, TypeInv, Profiles
  <1> HIDE DEF c, trusted, r
  <1>7. ASSUME conn' = trusted, ram'.key = conn.link, ram'.host, ram' \in Profiles,
               nvs' \in Profiles, budget' \in BudgetType, SavedInv(ram', nvs')
        PROVE  Inv' /\ ForgetStep
    <2>1. SessionInv(conn', scale', ram'.key)
      BY <1>2, <1>5, <1>7 DEF Inv, SessionInv, FrameAuthorized
    <2>2. \A i \in DOMAIN frames' : FrameInv(frames'[i], conn', scale', ram'.key)
      BY <1>1, <1>5, <1>7 DEF FrameAuthorized, FramesInv, FrameInv, Handshake
    <2>3. \A i \in DOMAIN scale'.up : UpInv(scale'.up[i], conn', scale', ram'.key)
      BY <1>2, <1>4, <1>5, <1>7 DEF FrameAuthorized, UpInv, Inv, TypeInv, ScaleType
    <2>4. FramesInv(conn', frames', scale', ram'.key)
      BY <1>1, <2>2, <2>3 DEF FramesInv, FrameAuthorized
    <2>5. NeverStranded' /\ GuardInv'
      BY <1>5, <1>7 DEF NeverStranded, WayForward, Inv, GuardInv, FrameAuthorized
    <2>6. TypeInv' /\ SocketInv(conn', main', ram')
      BY <1>1, <1>2, <1>5, <1>7 DEF Inv, TypeInv, SocketInv, FrameAuthorized, Received
    <2>7. ForgetStep
      BY <1>2, <1>7 DEF ForgetStep
    <2> QED BY <1>7, <2>1, <2>4, <2>5, <2>6, <2>7 DEF Inv
  <1>8. CASE ram.key # 0 /\ conn' = trusted /\ UNCHANGED <<ram, nvs, budget>>
    BY <1>3, <1>7, <1>8 DEF Inv, TypeInv
  <1>9. ASSUME ram.key = 0, NEW s \in Persisted(r, nvs), nvs' = s.nvs, Spend(s.ok),
               ram' = IF PairingKept(s) THEN r ELSE ram,
               conn' = IF PairingKept(s) THEN trusted ELSE c
        PROVE  Inv' /\ ForgetStep
    <2>1. /\ s.ok \in BOOLEAN /\ nvs' \in Profiles
          /\ s.ok => nvs' = r
          /\ ~s.ok => budget.faults > 0 /\ (nvs' = nvs \/ (nvs'.host = r.host /\ nvs'.key = r.key))
      BY <1>6, <1>9, PersistedFacts DEF Inv, TypeInv
    <2>2. budget' \in BudgetType
      BY <1>9, <2>1, ChargedType DEF Spend, Inv, TypeInv
    <2>3. CASE s.ok
      <3>1. ram' = r /\ nvs' = r /\ conn' = trusted
        BY <1>9, <2>1, <2>3 DEF PairingKept
      <3> QED BY <1>6, <1>7, <2>2, <3>1 DEF SavedInv
    <2>4. CASE ~s.ok
      <3>1. ram' = ram /\ conn' = c /\ SavedInv(ram', nvs')
        BY <1>6, <1>9, <2>1, <2>4 DEF PairingKept, SavedInv, Inv
      <3>2. SessionInv(conn', scale', ram'.key) /\ FramesInv(conn', frames', scale', ram'.key)
        BY <1>1, <1>5, <3>1, SameFacts, SameKeeps DEF FrameAuthorized, Inv
      <3>3. TypeInv' /\ GuardInv' /\ NeverStranded'
        BY <1>1, <1>5, <1>9, <2>1, <2>2, <3>1
        DEF FrameAuthorized, Inv, TypeInv, GuardInv, NeverStranded
      <3>4. conn'.ws = conn.ws /\ conn'.old = conn.old /\ conn'.retiring = conn.retiring
        BY <1>5, <3>1 DEF SameSession
      <3> QED BY <3>1, <3>2, <3>3, <3>4, TalkStep DEF FrameAuthorized
    <2> QED BY <2>1, <2>3, <2>4
  <1> QED BY <1>2, <1>8, <1>9 DEF FrameAuthorized, c, trusted, r

\* A state: the slot is online.
LEMMA FrameStateStep ==
    ASSUME Inv, FrameState
    PROVE  Inv' /\ ForgetStep
  <1>1. conn' \in ConnType /\ SameSession(conn, conn') /\ conn'.retry = conn.retry
    BY DEF FrameState, Inv, TypeInv, ConnType, SameSession
  <1>2. /\ frames' \in Seq(FrameType) /\ Len(frames') <= FrameSlots /\ frames' = Tail(frames)
        /\ frames # <<>> /\ Head(frames).kind = "state"
    BY ReceivedFacts DEF FrameState
  <1>3. TypeInv' /\ SavedInv(ram', nvs') /\ GuardInv'
    BY <1>1, <1>2 DEF FrameState, Inv, TypeInv, GuardInv
  <1> QED BY <1>1, <1>2, <1>3, SameFacts, QuietStep DEF FrameState

\* The answer to the command that waits, or to one that no longer does.
LEMMA FrameResultStep ==
    ASSUME Inv, FrameResult
    PROVE  Inv' /\ ForgetStep
  <1>1. /\ frames' \in Seq(FrameType) /\ Len(frames') <= FrameSlots /\ frames' = Tail(frames)
        /\ frames # <<>> /\ Head(frames).kind = "result" /\ Head(frames) \in FrameType
        /\ Head(frames) = frames[1] /\ 1 \in DOMAIN frames
        /\ FramesInv(conn, frames', scale, ram.key)
    BY ReceivedFacts DEF FrameResult
  <1>2. /\ conn' \in ConnType /\ conn'.ws = conn.ws /\ conn'.old = conn.old
        /\ conn'.retiring = conn.retiring /\ conn'.auth = conn.auth /\ conn'.link = conn.link
        /\ conn'.ready = conn.ready /\ conn'.cancel = conn.cancel /\ conn'.lost = conn.lost
        /\ conn'.retry = conn.retry
        /\ conn'.pending = conn.pending
           \/ (conn'.pending = 0 /\ conn.pending = Head(frames).n)
    BY DEF FrameResult, Inv, TypeInv, ConnType
  <1>3. SessionInv(conn', scale, ram.key)
    BY <1>2 DEF Inv, SessionInv
  <1>4. \A i \in DOMAIN frames' : FrameInv(frames'[i], conn', scale, ram.key)
    BY <1>1, <1>2 DEF FramesInv, FrameInv
  <1>5. \A i \in DOMAIN scale.up : UpInv(scale.up[i], conn', scale, ram.key)
    <2> SUFFICES ASSUME NEW i \in DOMAIN scale.up
                 PROVE  UpInv(scale.up[i], conn', scale, ram.key)
      OBVIOUS
    <2>1. UpInv(scale.up[i], conn, scale, ram.key)
      BY DEF Inv, FramesInv
    <2>2. scale.up[i].kind = "command" => Head(frames).n < scale.issued
      BY <1>1 DEF Inv, FramesInv, CommandInv
    <2>3. scale.issued \in Nat /\ Head(frames).n \in Nat
      BY <1>1 DEF Inv, TypeInv, ScaleType, FrameType
    <2>4. Head(frames).n < scale.issued => Head(frames).n # scale.issued
      BY <2>3
    <2> QED BY <1>2, <2>1, <2>2, <2>4 DEF UpInv, Heard
  <1>6. FramesInv(conn', frames', scale, ram.key)
    BY <1>1, <1>4, <1>5 DEF FramesInv
  <1>7. TypeInv' /\ SavedInv(ram', nvs') /\ GuardInv'
    BY <1>1, <1>2 DEF FrameResult, Inv, TypeInv, GuardInv
  <1>8. NeverStranded'
    BY <1>1, <1>2, PopStranded DEF FrameResult
  <1> QED BY <1>2, <1>3, <1>6, <1>7, <1>8, TalkStep DEF FrameResult

\* The Scale has removed the pairing: so does the display.
LEMMA FrameUnpairStep ==
    ASSUME Inv, FrameUnpair
    PROVE  Inv' /\ ForgetStep
  <1>1. /\ frames' \in Seq(FrameType) /\ Len(frames') <= FrameSlots /\ frames' = Tail(frames)
        /\ frames # <<>> /\ Head(frames).kind = "unpair" /\ main = "loop"
        /\ FrameInv(Head(frames), conn, scale, ram.key)
        /\ FramesInv(conn, frames', scale, ram.key)
        /\ \A i \in DOMAIN frames' : frames'[i].kind # "authorized"
    BY ReceivedFacts DEF FrameUnpair
  <1>2. scale.sess = "closing" /\ GuardInv'
    BY <1>1 DEF FrameInv, Inv, GuardInv, FrameUnpair
  <1>3. CASE conn.link = 0
    <2>1. UNCHANGED <<ram, nvs, conn, main, wifi, guard, rearm, scale, budget>>
      BY <1>3 DEF FrameUnpair
    <2>2. TypeInv' /\ SavedInv(ram', nvs')
      BY <1>1, <2>1 DEF Inv, TypeInv
    <2> QED BY <1>1, <1>2, <2>1, <2>2, SameFacts, QuietStep
  <1>4. CASE conn.link # 0
    <2> DEFINE r == [ram EXCEPT !.key = 0, !.selected = @ /\ ~OtherPaired]
    <2>1. /\ r \in Profiles /\ r.key = 0 /\ r.host = ram.host
      BY NoKey DEF Inv, TypeInv
    <2> HIDE DEF r
    <2>2. PICK s \in Persisted(r, nvs) : nvs' = s.nvs /\ Spend(s.ok)
      BY <1>4 DEF FrameUnpair, r
    <2>3. ram' = r
      BY <1>4 DEF FrameUnpair, r
    <2>4. /\ nvs' \in Profiles /\ budget' \in BudgetType
          /\ nvs' = r \/ nvs' = nvs \/ (nvs'.host = r.host /\ nvs'.key = r.key)
      BY <2>1, <2>2, PersistedFacts, ChargedType DEF Inv, TypeInv, Spend
    <2>5. SavedInv(ram', nvs')
      BY <2>1, <2>3, <2>4 DEF SavedInv, Inv
    <2>6. /\ conn' \in ConnType /\ conn'.ws = conn.ws /\ conn'.old = conn.old
          /\ conn'.retiring = conn.retiring /\ conn'.auth = FALSE /\ conn'.link = conn.link
          /\ conn'.ready = FALSE /\ conn'.cancel = conn.cancel /\ conn'.pending = conn.pending
      BY <1>4 DEF FrameUnpair, Inv, TypeInv, ConnType
    <2>7. SessionInv(conn', scale, 0)
      BY <2>6 DEF Inv, SessionInv
    <2>8. \A i \in DOMAIN frames' : FrameInv(frames'[i], conn', scale, 0)
      BY <1>1, <2>6 DEF FramesInv, FrameInv
    <2>9. \A i \in DOMAIN scale.up : UpInv(scale.up[i], conn', scale, 0)
      BY <1>1, <1>2, <2>6 DEF FramesInv, UpInv, Heard
    <2>10. FramesInv(conn', frames', scale, 0)
      BY <1>1, <2>8, <2>9 DEF FramesInv
    <2>11. TypeInv' /\ NeverStranded'
      BY <1>1, <2>1, <2>3, <2>4, <2>6 DEF FrameUnpair, Inv, TypeInv, NeverStranded
    <2> QED BY <1>2, <2>1, <2>3, <2>5, <2>6, <2>7, <2>10, <2>11, TalkStep DEF FrameUnpair
  <1> QED BY <1>3, <1>4

(* action *)

\* A move of a user, and what failed with it.
LEMMA MoveSpendType ==
    ASSUME budget \in BudgetType, NEW free \in BOOLEAN, free \/ budget.faults > 0, MoveSpend(free)
    PROVE  budget' \in BudgetType
  BY MovedType, ChargedType DEF MoveSpend

\* Without a socket there is no session and nothing current in the queue.
LEMMA NoSocket ==
    ASSUME Inv, conn.ws = "none"
    PROVE  Fresh(conn) /\ \A i \in DOMAIN frames : frames[i].kind \in Past
  <1>1. Fresh(conn)
    BY DEF Inv, SessionInv, Fresh
  <1>2. \A i \in DOMAIN frames : FrameInv(frames[i], conn, scale, ram.key)
    BY DEF Inv, FramesInv
  <1> QED BY <1>1, <1>2 DEF FrameInv

\* A step that ends with connect_scale.
LEMMA ConnectStep ==
    ASSUME Inv, NEW c \in ConnType, NEW r \in Profiles, NEW q \in Seq(FrameType), NEW b \in BudgetType,
           Connect(c, r, q, b), SocketInv(c, "loop", r), Len(q) <= FrameSlots,
           c.ws = "none" => Fresh(c) /\ \A i \in DOMAIN q : q[i].kind \in Past,
           c.ws = "none" /\ c.old = 0 => conn.ws = "none" /\ conn.old = 0,
           c.cancel => conn.cancel,
           ram' = r, r.key \in {ram.key, 0}, nvs' \in Profiles, SavedInv(r, nvs'),
           scale' \in ScaleType, SameTalk(scale, scale'), wifi' \in BOOLEAN, rearm' \in BOOLEAN,
           guard' = guard
    PROVE  Inv' /\ ForgetStep
  <1>1. /\ conn' \in ConnType /\ frames' \in Seq(FrameType) /\ Len(frames') <= FrameSlots
        /\ main' \in {"loop", "probe"} /\ budget' \in BudgetType
        /\ SocketInv(conn', main', r) /\ Fresh(conn')
        /\ \A i \in DOMAIN frames' : frames'[i].kind \in Past
        /\ conn'.cancel = c.cancel /\ conn'.ws # "open"
        /\ conn'.ws = "idle" \/ (conn'.ws = "none" /\ conn'.old = 0)
             => c.ws = "none" /\ c.old = 0
        /\ r.host /\ r.key # 0 => conn'.retry \/ conn'.ws = "idle"
    BY ConnectFacts
  <1>2. TypeInv'
    BY <1>1 DEF Inv, TypeInv
  <1>3. conn'.cancel => ram'.key = 0
    BY <1>1 DEF Inv, SessionInv
  <1> QED BY <1>1, <1>2, <1>3, DropStep

\* connect_scale for the connection and the queue as they are.
LEMMA ReconnectStep ==
    ASSUME Inv, NEW c \in ConnType, NEW b \in BudgetType, main = "loop",
           Connect(c, ram', frames, b),
           c.ws = conn.ws, c.old = conn.old, c.retiring = conn.retiring, c.link = conn.link,
           c.auth = conn.auth, c.ready = conn.ready, c.cancel = conn.cancel,
           c.pending \in {conn.pending, 0},
           ram' \in Profiles, ram'.key = ram.key, ram'.host = ram.host,
           nvs' \in Profiles, SavedInv(ram', nvs'),
           scale' = scale, wifi' = wifi, rearm' \in BOOLEAN, guard' = guard
    PROVE  Inv' /\ ForgetStep
  <1>1. c.ws = "none" => Fresh(c) /\ \A i \in DOMAIN frames : frames[i].kind \in Past
    BY NoSocket DEF Fresh
  <1>2. SocketInv(c, "loop", ram')
    BY DEF Inv, SocketInv
  <1>3. /\ frames \in Seq(FrameType) /\ Len(frames) <= FrameSlots /\ scale' \in ScaleType
        /\ wifi' \in BOOLEAN
    BY DEF Inv, TypeInv
  <1> QED BY <1>1, <1>2, <1>3, SameFacts, ConnectStep

\* A step that gives the socket up at once.
LEMMA StopStep ==
    ASSUME Inv, NEW retry \in BOOLEAN, conn' = Stopped(conn, retry) \/
             conn' = [Stopped(conn, retry) EXCEPT !.cancel = FALSE],
           frames' = Outdated(frames), main = "loop", main' = main,
           ram' \in Profiles, ram'.key \in {ram.key, 0}, nvs' \in Profiles, SavedInv(ram', nvs'),
           scale' \in ScaleType, SameTalk(scale, scale'), wifi' \in BOOLEAN, rearm' \in BOOLEAN,
           guard' = guard, budget' \in BudgetType,
           ram'.host /\ ram'.key # 0 => retry
    PROVE  Inv' /\ ForgetStep
  <1> DEFINE d == Stopped(conn, retry)
  <1>1. /\ d \in ConnType /\ Fresh(d) /\ d.ws = "none" /\ d.old \in 0 .. 1
        /\ d.retiring <=> d.old = 1
        /\ d.old = 0 => conn.ws = "none" /\ conn.old = 0
        /\ d.retry = retry /\ d.cancel = conn.cancel
    BY StoppedFacts DEF Inv, TypeInv
  <1> HIDE DEF d
  <1>2. /\ conn' \in ConnType /\ Fresh(conn') /\ conn'.ws = "none" /\ conn'.old \in 0 .. 1
        /\ conn'.retiring <=> conn'.old = 1
        /\ conn'.old = 0 => conn.ws = "none" /\ conn.old = 0
        /\ conn'.retry = retry
        /\ conn'.cancel => conn.cancel
    <2>1. conn' = d \/ conn' = [d EXCEPT !.cancel = FALSE]
      BY DEF d
    <2>2. CASE conn' = d
      BY <1>1, <2>2
    <2>3. CASE conn' = [d EXCEPT !.cancel = FALSE]
      BY <1>1, <2>3 DEF ConnType, Fresh
    <2> QED BY <2>1, <2>2, <2>3
  <1>3. /\ frames' \in Seq(FrameType) /\ Len(frames') <= FrameSlots
        /\ \A i \in DOMAIN frames' : frames'[i].kind \in Past
    BY OutdatedFacts DEF Inv, TypeInv
  <1>4. TypeInv' /\ SocketInv(conn', main', ram')
    BY <1>2, <1>3 DEF Inv, TypeInv, SocketInv
  <1>5. conn'.cancel => ram'.key = 0
    BY <1>2 DEF Inv, SessionInv
  <1> QED BY <1>2, <1>3, <1>4, <1>5, DropStep

\* A pairing that is called off, at the Scale too if it can be told.
LEMMA CancelPairingStep ==
    ASSUME Inv, CancelPairing
    PROVE  Inv' /\ ForgetStep
  <1>1. main = "loop" /\ ram.key = 0 /\ UNCHANGED <<ram, nvs, main, wifi, guard, rearm>>
    BY DEF CancelPairing
  <1>2. PICK ok \in Outcomes(CanSend /\ conn.ready) :
          /\ MoveSpend(ok \/ ~(CanSend /\ conn.ready))
          /\ IF ok THEN /\ conn' = [conn EXCEPT !.cancel = TRUE]
                        /\ scale' = Sent(Frame("cancel", 0))
                        /\ UNCHANGED frames
             ELSE Stop(conn, FALSE) /\ UNCHANGED scale
    BY DEF CancelPairing
  <1>3. ok \in BOOLEAN /\ (ok => conn.ready) /\ budget' \in BudgetType
    <2>1. (CanSend /\ conn.ready) \in BOOLEAN
      OBVIOUS
    <2> QED BY <1>2, <2>1, OutcomeFacts, MoveSpendType DEF Inv, TypeInv
  <1>4. CASE ok
    <2> DEFINE m == Frame("cancel", 0)
    <2>1. m \in UpType /\ m.kind = "cancel"
      BY DEF Frame, UpType
    <2> HIDE DEF m
    <2>2. conn.link # 0 /\ scale.sess \notin {"none", "new"}
      BY <1>3, <1>4 DEF Inv, SessionInv
    <2>3. /\ scale' \in ScaleType /\ scale'.up = Append(scale.up, m) /\ scale'.sess = scale.sess
          /\ scale'.offer = scale.offer /\ scale'.issued = scale.issued
      BY <1>2, <1>4, <2>1, SentFacts DEF Inv, TypeInv, m
    <2>4. /\ \A i \in DOMAIN scale.up : scale.up[i].kind # "hello"
          /\ \A i \in DOMAIN frames : frames[i].kind # "up"
      BY <2>2 DEF Inv, FramesInv, UpInv, FrameInv
    <2>5. UpInv(m, conn, scale', ram.key)
      BY <2>1 DEF UpInv
    <2>6. SessionInv(conn, scale', ram.key) /\ FramesInv(conn, frames, scale', ram.key)
      BY <2>1, <2>2, <2>3, <2>4, <2>5, SendTalk DEF Inv, TypeInv, ScaleType
    <2>7. /\ conn' \in ConnType /\ conn'.ws = conn.ws /\ conn'.old = conn.old
          /\ conn'.retiring = conn.retiring /\ conn'.auth = conn.auth /\ conn'.link = conn.link
          /\ conn'.ready = conn.ready /\ conn'.pending = conn.pending
      BY <1>2, <1>4 DEF Inv, TypeInv, ConnType
    <2>8. SessionInv(conn', scale', ram.key)
      BY <1>1, <2>6, <2>7 DEF SessionInv
    <2>9. \A f : FrameInv(f, conn, scale', ram.key) => FrameInv(f, conn', scale', ram.key)
      BY <2>7 DEF FrameInv
    <2>10. \A x : UpInv(x, conn, scale', ram.key) => UpInv(x, conn', scale', ram.key)
      BY <2>7 DEF UpInv, Heard
    <2>11. FramesInv(conn', frames, scale', ram.key) /\ frames' = frames
      BY <1>2, <1>4, <2>6, <2>9, <2>10 DEF FramesInv
    <2>12. TypeInv' /\ NeverStranded' /\ GuardInv' /\ SavedInv(ram', nvs')
      BY <1>1, <1>3, <2>3, <2>7, <2>11 DEF Inv, TypeInv, NeverStranded, GuardInv
    <2> QED BY <1>1, <2>7, <2>8, <2>11, <2>12, TalkStep
  <1>5. CASE ~ok
    <2>1. conn' = Stopped(conn, FALSE) /\ frames' = Outdated(frames) /\ scale' = scale
      BY <1>2, <1>5 DEF Stop
    <2> QED BY <1>1, <1>3, <2>1, SameFacts, StopStep DEF Inv, TypeInv
  <1> QED BY <1>3, <1>4, <1>5

\* The same profile with another selection.
LEMMA SelectFacts ==
    ASSUME Inv, NEW b \in BOOLEAN, NEW s \in Persisted([ram EXCEPT !.selected = b], nvs)
    PROVE  /\ s.ok \in BOOLEAN /\ s.nvs \in Profiles /\ (s.ok \/ budget.faults > 0)
           /\ SavedInv(ram, s.nvs)
           /\ s.ok => s.nvs.key = ram.key /\ s.nvs.host = ram.host
  <1> DEFINE r == [ram EXCEPT !.selected = b]
  <1>1. r \in Profiles /\ r.key = ram.key /\ r.host = ram.host
    BY DEF Inv, TypeInv, Profiles
  <1> HIDE DEF r
  <1>2. s \in Persisted(r, nvs)
    BY DEF r
  <1>3. /\ s.ok \in BOOLEAN /\ s.nvs \in Profiles
        /\ s.ok => s.nvs = r
        /\ ~s.ok => budget.faults > 0 /\ (s.nvs = nvs \/ (s.nvs.host = r.host /\ s.nvs.key = r.key))
    BY <1>1, <1>2, PersistedFacts DEF Inv, TypeInv
  <1> QED BY <1>1, <1>3 DEF Inv, SavedInv

\* A connection that only has another deadline.
LEMMA RetryFacts ==
    ASSUME conn \in ConnType, NEW retry \in BOOLEAN
    PROVE  LET c == [conn EXCEPT !.retry = retry] IN
           c \in ConnType /\ SameSession(conn, c) /\ c.retry = retry
  BY DEF ConnType, SameSession

\* Settings are saved for the same host.
LEMMA SaveSettingsStep ==
    ASSUME Inv, SaveSettings
    PROVE  Inv' /\ ForgetStep
  <1>1. main = "loop" /\ budget.moves > 0 /\ UNCHANGED <<wifi, guard, rearm, scale>> /\ GuardInv'
    BY DEF SaveSettings, Inv, GuardInv
  <1>2. PICK s \in Persisted([ram EXCEPT !.selected = TRUE], nvs) :
          /\ nvs' = s.nvs
          /\ IF s.ok
             THEN /\ ram' = s.nvs
                  /\ IF ram.host /\ (ram.key = 0 \/ ~conn.auth \/ ~conn.online)
                     THEN Connect(conn, s.nvs, frames, Moved)
                     ELSE MoveSpend(TRUE) /\ UNCHANGED <<conn, frames, main>>
             ELSE /\ conn' = [conn EXCEPT !.retry = ram.host] /\ MoveSpend(FALSE)
                  /\ UNCHANGED <<ram, frames, main>>
    BY DEF SaveSettings
  <1>3. /\ s.ok \in BOOLEAN /\ s.nvs \in Profiles /\ (s.ok \/ budget.faults > 0)
        /\ SavedInv(ram, s.nvs)
        /\ s.ok => s.nvs.key = ram.key /\ s.nvs.host = ram.host
    BY SelectFacts
  <1>4. Moved \in BudgetType
    BY <1>1, MovedType DEF Inv, TypeInv
  <1>5. CASE s.ok
    <2>1. /\ ram' = s.nvs /\ ram' \in Profiles /\ ram'.key = ram.key /\ ram'.host = ram.host
          /\ SavedInv(ram', nvs') /\ nvs' \in Profiles
      BY <1>2, <1>3, <1>5 DEF SavedInv
    <2>2. CASE Connect(conn, ram', frames, Moved)
      BY <1>1, <1>4, <2>1, <2>2, ReconnectStep DEF Inv, TypeInv
    <2>3. CASE MoveSpend(TRUE) /\ UNCHANGED <<conn, frames, main>>
      <3>1. budget' \in BudgetType
        BY <2>3, MoveSpendType DEF Inv, TypeInv
      <3>2. TypeInv'
        BY <1>1, <2>1, <2>3, <3>1 DEF Inv, TypeInv
      <3> QED BY <1>1, <2>1, <2>3, <3>2, SameFacts, QuietStep
    <2> QED BY <1>2, <1>5, <2>1, <2>2, <2>3
  <1>6. CASE ~s.ok
    <2>1. /\ conn' = [conn EXCEPT !.retry = ram.host] /\ MoveSpend(FALSE)
          /\ UNCHANGED <<ram, frames, main>>
      BY <1>2, <1>6
    <2>2. budget' \in BudgetType
      BY <1>3, <1>6, <2>1, MoveSpendType DEF Inv, TypeInv
    <2>3. conn' \in ConnType /\ SameSession(conn, conn') /\ conn'.retry = ram.host
      BY <2>1, RetryFacts DEF Inv, TypeInv, Profiles
    <2>4. TypeInv'
      BY <1>1, <1>2, <1>3, <2>1, <2>2, <2>3 DEF Inv, TypeInv
    <2> QED BY <1>1, <1>2, <1>3, <2>1, <2>3, <2>4, SameFacts, QuietStep
  <1> QED BY <1>3, <1>5, <1>6

\* Settings with another network.
LEMMA SaveWifiStep ==
    ASSUME Inv, SaveWifi
    PROVE  Inv' /\ ForgetStep
  <1>1. /\ main = "loop" /\ MoveSpend(TRUE) /\ Stop(conn, ram.host)
        /\ nvs' = [ram EXCEPT !.selected = TRUE] /\ ram' = nvs' /\ wifi' = FALSE
        /\ UNCHANGED <<main, guard, rearm, scale>>
    BY DEF SaveWifi
  <1>2. /\ ram' \in Profiles /\ ram'.key = ram.key /\ ram'.host = ram.host /\ ram.host \in BOOLEAN
    BY <1>1 DEF Inv, TypeInv, Profiles
  <1>3. SavedInv(ram', nvs')
    BY <1>1, <1>2 DEF Inv, SavedInv
  <1>4. budget' \in BudgetType
    BY <1>1, MoveSpendType DEF Inv, TypeInv
  <1>5. conn' = Stopped(conn, ram.host) /\ frames' = Outdated(frames)
    BY <1>1 DEF Stop
  <1> QED BY <1>1, <1>2, <1>3, <1>4, <1>5, SameFacts, StopStep DEF Inv, TypeInv

\* What a removal at the Scale costs.
LEMMA RemovalFacts ==
    ASSUME Inv, NEW done \in Removals
    PROVE  /\ done \in BOOLEAN /\ Free(done) \in BOOLEAN /\ (Free(done) \/ budget.faults > 0)
           /\ Removed(done) \in ScaleType /\ SameTalk(scale, Removed(done))
  <1>1. (wifi /\ ram.host) \in BOOLEAN
    OBVIOUS
  <1>2. done \in BOOLEAN /\ (done \/ ~(wifi /\ ram.host) \/ budget.faults > 0)
    BY <1>1, OutcomeFacts DEF Removals
  <1>3. Removed(done) \in ScaleType /\ SameTalk(scale, Removed(done))
    BY RemovedFacts DEF Inv, TypeInv
  <1> QED BY <1>2, <1>3 DEF Free

\* Settings with another host.
LEMMA SaveHostStep ==
    ASSUME Inv, SaveHost
    PROVE  Inv' /\ ForgetStep
  <1> DEFINE r == [host |-> ~ram.host, key |-> 0, selected |-> TRUE]
             d == Stopped(conn, FALSE)
             q == Outdated(frames)
  <1>1. main = "loop" /\ budget.moves > 0 /\ UNCHANGED <<wifi, guard, rearm>>
    BY DEF SaveHost
  <1>2. PICK done \in Removals, s \in Persisted(r, nvs) :
          LET left == Charged(Moved, Free(done) /\ s.ok) IN
          /\ Free(done) \/ s.ok
          /\ scale' = Removed(done) /\ nvs' = s.nvs
          /\ IF s.ok /\ r.host
             THEN ram' = r /\ Connect(d, r, q, left)
             ELSE /\ ram' = (IF s.ok THEN r ELSE ram) /\ budget' = left
                  /\ conn' = [d EXCEPT !.retry = ~s.ok /\ ram.host]
                  /\ frames' = q /\ UNCHANGED main
    BY DEF SaveHost
  <1> DEFINE left == Charged(Moved, Free(done) /\ s.ok)
  <1>3. r \in Profiles /\ r.key = 0 /\ r.host = ~ram.host
    BY ScreenAssumption DEF Profiles, Keys
  <1>4. /\ done \in BOOLEAN /\ Free(done) \in BOOLEAN /\ (Free(done) \/ budget.faults > 0)
        /\ scale' \in ScaleType /\ SameTalk(scale, scale')
    BY <1>2, RemovalFacts
  <1> HIDE DEF r
  <1>5. /\ s.ok \in BOOLEAN /\ nvs' \in Profiles
        /\ s.ok => nvs' = r
        /\ ~s.ok => budget.faults > 0 /\ (nvs' = nvs \/ (nvs'.host = r.host /\ nvs'.key = r.key))
    BY <1>2, <1>3, PersistedFacts DEF Inv, TypeInv
  <1>6. left \in BudgetType
    <2>1. Moved \in BudgetType /\ Moved.faults = budget.faults
      BY <1>1, MovedType DEF Inv, TypeInv
    <2>2. (Free(done) /\ s.ok) \in BOOLEAN /\ ((Free(done) /\ s.ok) \/ Moved.faults > 0)
      BY <1>4, <1>5, <2>1
    <2> QED BY <2>1, <2>2, ChargedType
  <1>7. /\ d \in ConnType /\ Fresh(d) /\ d.ws = "none" /\ d.old \in 0 .. 1
        /\ d.retiring <=> d.old = 1
        /\ d.old = 0 => conn.ws = "none" /\ conn.old = 0
        /\ d.cancel = conn.cancel
    BY StoppedFacts DEF Inv, TypeInv
  <1>8. /\ q \in Seq(FrameType) /\ Len(q) <= FrameSlots
        /\ \A i \in DOMAIN q : q[i].kind \in Past
    BY OutdatedFacts DEF Inv, TypeInv
  <1>9. SocketInv(d, "loop", r)
    BY <1>7 DEF SocketInv
  <1>10. CASE s.ok /\ r.host
    <2>1. ram' = r /\ Connect(d, r, q, left)
      BY <1>2, <1>10
    <2>2. SavedInv(r, nvs')
      BY <1>3, <1>5, <1>10 DEF SavedInv
    <2>3. wifi' \in BOOLEAN /\ rearm' \in BOOLEAN
      BY <1>1 DEF Inv, TypeInv
    <2> HIDE DEF d, q, left
    <2> QED BY <1>1, <1>3, <1>4, <1>5, <1>6, <1>7, <1>8, <1>9, <2>1, <2>2, <2>3, ConnectStep
  <1>11. CASE ~(s.ok /\ r.host)
    <2>1. /\ ram' = (IF s.ok THEN r ELSE ram) /\ budget' = left
          /\ conn' = [d EXCEPT !.retry = ~s.ok /\ ram.host] /\ frames' = q /\ main' = main
      BY <1>2, <1>11
    <2>2. conn' = Stopped(conn, ~s.ok /\ ram.host)
      BY <2>1, <1>7 DEF Stopped, ConnType
    <2>3. (~s.ok /\ ram.host) \in BOOLEAN
      OBVIOUS
    <2>4. /\ ram' \in Profiles /\ ram'.key \in {ram.key, 0} /\ SavedInv(ram', nvs')
          /\ ram'.host /\ ram'.key # 0 => ~s.ok /\ ram.host
      <3>1. CASE s.ok
        BY <1>3, <1>5, <2>1, <3>1 DEF SavedInv
      <3>2. CASE ~s.ok
        <4>1. ram' = ram /\ (nvs' = nvs \/ (nvs'.host = ~ram.host /\ nvs'.key = 0))
          BY <1>3, <1>5, <2>1, <3>2
        <4> QED BY <3>2, <4>1 DEF Inv, TypeInv, SavedInv
      <3> QED BY <1>5, <3>1, <3>2
    <2>5. wifi' \in BOOLEAN /\ rearm' \in BOOLEAN
      BY <1>1 DEF Inv, TypeInv
    <2> HIDE DEF d, left
    <2> QED BY <1>1, <1>4, <1>5, <1>6, <2>1, <2>2, <2>3, <2>4, <2>5, StopStep
  <1> QED BY <1>10, <1>11

\* The user removes the pairing.
LEMMA ForgetActionStep ==
    ASSUME Inv, Forget
    PROVE  Inv' /\ ForgetStep
  <1> DEFINE r == [ram EXCEPT !.key = 0, !.selected = @ /\ ~OtherPaired]
  <1>1. main = "loop" /\ Stop(conn, FALSE) /\ UNCHANGED <<main, wifi, guard, rearm>>
    BY DEF Forget
  <1>2. PICK done \in Removals, s \in Persisted(r, nvs) :
          /\ Free(done) \/ s.ok
          /\ MoveSpend(Free(done) /\ s.ok)
          /\ scale' = Removed(done) /\ ram' = r /\ nvs' = s.nvs
    BY DEF Forget
  <1>3. r \in Profiles /\ r.key = 0 /\ r.host = ram.host
    BY NoKey DEF Inv, TypeInv
  <1>4. /\ done \in BOOLEAN /\ Free(done) \in BOOLEAN /\ (Free(done) \/ budget.faults > 0)
        /\ scale' \in ScaleType /\ SameTalk(scale, scale')
    BY <1>2, RemovalFacts
  <1> HIDE DEF r
  <1>5. /\ s.ok \in BOOLEAN /\ nvs' \in Profiles
        /\ s.ok => nvs' = r
        /\ ~s.ok => budget.faults > 0 /\ (nvs' = nvs \/ (nvs'.host = r.host /\ nvs'.key = r.key))
    BY <1>2, <1>3, PersistedFacts DEF Inv, TypeInv
  <1>6. budget' \in BudgetType
    <2>1. (Free(done) /\ s.ok) \in BOOLEAN /\ ((Free(done) /\ s.ok) \/ budget.faults > 0)
      BY <1>4, <1>5
    <2> QED BY <1>2, <2>1, MoveSpendType DEF Inv, TypeInv
  <1>7. SavedInv(ram', nvs')
    BY <1>2, <1>3, <1>5 DEF Inv, SavedInv
  <1>8. conn' = Stopped(conn, FALSE) /\ frames' = Outdated(frames)
    BY <1>1 DEF Stop
  <1>9. wifi' \in BOOLEAN /\ rearm' \in BOOLEAN
    BY <1>1 DEF Inv, TypeInv
  <1> QED BY <1>1, <1>2, <1>3, <1>4, <1>5, <1>6, <1>7, <1>8, <1>9, StopStep

\* The other slot is shown, or this one again.
LEMMA SwitchScaleStep ==
    ASSUME Inv, SwitchScale
    PROVE  Inv' /\ ForgetStep
  <1>1. UNCHANGED <<frames, main, wifi, guard, rearm, scale>> /\ GuardInv'
    BY DEF SwitchScale, Inv, GuardInv
  <1>2. PICK s \in Persisted([ram EXCEPT !.selected = ~@], nvs) :
          /\ nvs' = s.nvs /\ MoveSpend(s.ok)
          /\ ram' = IF s.ok THEN s.nvs ELSE ram
          /\ conn' = [conn EXCEPT !.retry = @ \/ (s.ok /\ ~ram.selected /\ ~conn.online)]
    BY DEF SwitchScale
  <1>3. /\ s.ok \in BOOLEAN /\ s.nvs \in Profiles /\ (s.ok \/ budget.faults > 0)
        /\ SavedInv(ram, s.nvs)
        /\ s.ok => s.nvs.key = ram.key /\ s.nvs.host = ram.host
    BY SelectFacts DEF Inv, TypeInv, Profiles
  <1>4. budget' \in BudgetType
    BY <1>2, <1>3, MoveSpendType DEF Inv, TypeInv
  <1>5. /\ ram' \in Profiles /\ ram'.key = ram.key /\ ram'.host = ram.host
        /\ SavedInv(ram', nvs') /\ nvs' \in Profiles
    BY <1>2, <1>3 DEF Inv, TypeInv, SavedInv
  <1>6. /\ conn' \in ConnType /\ SameSession(conn, conn')
        /\ conn.retry => conn'.retry
    <2>1. (conn.retry \/ (s.ok /\ ~ram.selected /\ ~conn.online)) \in BOOLEAN
      OBVIOUS
    <2> QED BY <1>2, <2>1, RetryFacts DEF Inv, TypeInv
  <1>7. TypeInv'
    BY <1>1, <1>4, <1>5, <1>6 DEF Inv, TypeInv
  <1> QED BY <1>1, <1>5, <1>6, <1>7, SameFacts, QuietStep

\* A command is sent, and waits for its result.
LEMMA CommandStep ==
    ASSUME Inv, Command
    PROVE  Inv' /\ ForgetStep
  <1>1. /\ main = "loop" /\ conn.auth /\ conn.pending = 0
        /\ UNCHANGED <<ram, nvs, frames, main, wifi, guard, rearm>>
        /\ GuardInv' /\ SavedInv(ram', nvs')
    BY DEF Command, Inv, GuardInv
  <1>2. PICK ok \in Outcomes(CanSend) :
          /\ MoveSpend(ok \/ ~CanSend)
          /\ conn' = AfterSend([conn EXCEPT !.pending =
                                  IF ok THEN scale.issued + 1 ELSE 0], ok)
          /\ scale' = IF ok THEN [Sent(Frame("command", scale.issued + 1))
                                    EXCEPT !.issued = @ + 1]
                      ELSE scale
    BY DEF Command
  <1>3. ok \in BOOLEAN /\ budget' \in BudgetType
    <2>1. CanSend \in BOOLEAN
      BY DEF CanSend
    <2> QED BY <1>2, <2>1, OutcomeFacts, MoveSpendType DEF Inv, TypeInv
  <1>4. CASE ok
    <2> DEFINE k == scale.issued + 1
               m == Frame("command", k)
               n == Len(scale.up) + 1
    <2>1. k \in Nat /\ k # 0 /\ scale.issued \in Nat /\ k = scale.issued + 1
      BY DEF Inv, TypeInv, ScaleType
    <2>2. m \in UpType /\ m.kind = "command" /\ m.n = k
      BY <2>1 DEF Frame, UpType
    <2>3. conn' = [conn EXCEPT !.pending = k] /\ scale' = [Sent(m) EXCEPT !.issued = @ + 1]
      BY <1>2, <1>4 DEF AfterSend
    <2>4. /\ conn' \in ConnType /\ conn'.ws = conn.ws /\ conn'.old = conn.old
          /\ conn'.retiring = conn.retiring /\ conn'.auth = conn.auth /\ conn'.link = conn.link
          /\ conn'.ready = conn.ready /\ conn'.cancel = conn.cancel /\ conn'.pending = k
          /\ conn'.retry = conn.retry /\ conn'.lost = conn.lost
      BY <2>1, <2>3 DEF Inv, TypeInv, ConnType
    <2> HIDE DEF k, m, n
    <2>5. /\ Sent(m) \in ScaleType /\ Sent(m).up = Append(scale.up, m)
          /\ Sent(m).sess = scale.sess /\ Sent(m).offer = scale.offer
          /\ Sent(m).issued = scale.issued /\ Sent(m).key = scale.key
      BY <2>2, SentFacts DEF Inv, TypeInv
    <2>6. /\ scale' \in ScaleType /\ scale'.up = Append(scale.up, m) /\ scale'.sess = scale.sess
          /\ scale'.offer = scale.offer /\ scale'.issued = k
      BY <2>1, <2>3, <2>5 DEF ScaleType
    <2>7. /\ DOMAIN scale'.up = DOMAIN scale.up \cup {n} /\ scale'.up[n] = m
          /\ n \notin DOMAIN scale.up
          /\ \A i \in DOMAIN scale.up : scale'.up[i] = scale.up[i]
      BY <2>2, <2>6, AppendFacts DEF Inv, TypeInv, ScaleType, n
    <2>8. conn.link # 0 /\ scale.sess \in {"trusted", "closing"}
      BY <1>1 DEF Inv, SessionInv
    <2>9. \A i \in DOMAIN scale.up : scale.up[i].kind \notin {"hello", "command"}
      <3> SUFFICES ASSUME NEW i \in DOMAIN scale.up
                   PROVE  scale.up[i].kind \notin {"hello", "command"}
        OBVIOUS
      <3>1. UpInv(scale.up[i], conn, scale, ram.key)
        BY DEF Inv, FramesInv
      <3> QED BY <1>1, <2>8, <3>1 DEF UpInv
    <2>10. \A i \in DOMAIN frames : frames[i].kind \notin Handshake
      <3> SUFFICES ASSUME NEW i \in DOMAIN frames
                   PROVE  frames[i].kind \notin Handshake
        OBVIOUS
      <3>1. FrameInv(frames[i], conn, scale, ram.key)
        BY DEF Inv, FramesInv
      <3> QED BY <1>1, <2>8, <3>1 DEF FrameInv, Handshake
    <2>11. SessionInv(conn', scale', ram.key)
      BY <1>1, <2>4, <2>6, <2>8 DEF Inv, SessionInv
    <2>12. \A i \in DOMAIN frames : /\ FrameInv(frames[i], conn', scale', ram.key)
                                    /\ frames[i].kind = "result" => frames[i].n < k
      <3> SUFFICES ASSUME NEW i \in DOMAIN frames
                   PROVE  /\ FrameInv(frames[i], conn', scale', ram.key)
                          /\ frames[i].kind = "result" => frames[i].n < k
        OBVIOUS
      <3>1. FrameInv(frames[i], conn, scale, ram.key) /\ frames[i].n \in Nat
        <4>1. frames[i] \in FrameType
          BY ElementOfSeq DEF Inv, TypeInv
        <4> QED BY <4>1 DEF Inv, FramesInv, FrameType
      <3>2. frames[i].n <= scale.issued => frames[i].n < k /\ frames[i].n <= k
        BY <2>1, <3>1
      <3> QED BY <2>4, <2>6, <2>10, <3>1, <3>2 DEF FrameInv, Handshake
    <2>13. \A i \in DOMAIN scale'.up : UpInv(scale'.up[i], conn', scale', ram.key)
      <3> SUFFICES ASSUME NEW i \in DOMAIN scale'.up
                   PROVE  UpInv(scale'.up[i], conn', scale', ram.key)
        OBVIOUS
      <3>1. CASE i = n
        BY <2>1, <2>2, <2>4, <2>6, <2>7, <2>8, <3>1 DEF UpInv
      <3>2. CASE i \in DOMAIN scale.up
        <4>1. UpInv(scale.up[i], conn, scale, ram.key)
          BY <3>2 DEF Inv, FramesInv
        <4> QED BY <2>4, <2>6, <2>7, <2>9, <3>2, <4>1 DEF UpInv, Heard
      <3> QED BY <2>7, <3>1, <3>2
    <2>14. CommandInv(frames, scale')
      BY <2>6, <2>7, <2>9, <2>10, <2>12 DEF CommandInv, Settles
    <2>15. FramesInv(conn', frames, scale', ram.key)
      BY <2>12, <2>13, <2>14 DEF Inv, FramesInv
    <2>16. TypeInv' /\ NeverStranded'
      BY <1>1, <1>3, <2>4, <2>6 DEF Inv, TypeInv, NeverStranded, WayForward, Queued
    <2> QED BY <1>1, <2>4, <2>11, <2>15, <2>16, TalkStep
  <1>5. CASE ~ok
    <2> DEFINE c == [conn EXCEPT !.pending = 0]
    <2>1. c \in ConnType /\ SameSession(conn, c) /\ c.retry = conn.retry
      BY <1>1 DEF Inv, TypeInv, ConnType, SameSession
    <2>2. conn' = AfterSend(c, ok) /\ scale' = scale
      BY <1>2, <1>5
    <2> HIDE DEF c
    <2>3. /\ conn' \in ConnType /\ SameSession(c, conn')
          /\ c.retry => conn'.retry
      BY <1>3, <2>1, <2>2, AfterSendFacts
    <2>4. SameSession(conn, conn')
      BY <2>1, <2>3 DEF SameSession
    <2>5. TypeInv'
      BY <1>1, <1>3, <2>2, <2>3 DEF Inv, TypeInv
    <2> QED BY <1>1, <2>1, <2>2, <2>3, <2>4, <2>5, SameFacts, QuietStep
  <1> QED BY <1>3, <1>4, <1>5

\* The Scale's window is open: the display tries again.
LEMMA PairingRearmStep ==
    ASSUME Inv, PairingRearm
    PROVE  Inv' /\ ForgetStep
  <1>1. /\ main = "loop" /\ rearm' = FALSE /\ UNCHANGED <<ram, nvs, wifi, guard, scale>>
        /\ GuardInv' /\ SavedInv(ram', nvs')
    BY DEF PairingRearm, Inv, GuardInv
  <1>2. CASE Connect(conn, ram', frames, budget)
    BY <1>1, <1>2, ReconnectStep DEF Inv, TypeInv
  <1>3. CASE UNCHANGED <<conn, frames, main, budget>>
    <2>1. TypeInv'
      BY <1>1, <1>3 DEF Inv, TypeInv
    <2> QED BY <1>1, <1>3, <2>1, SameFacts, QuietStep
  <1> QED BY <1>1, <1>2, <1>3 DEF PairingRearm

(* The deadlines of the main loop *)

\* The pairing that was called off is given up.
LEMMA CancelTimeoutStep ==
    ASSUME Inv, CancelTimeout
    PROVE  Inv' /\ ForgetStep
  <1>1. /\ main = "loop" /\ UNCHANGED <<ram, nvs, main, wifi, guard, rearm, scale, budget>>
        /\ ram.key = 0
    BY DEF CancelTimeout, Inv, SessionInv
  <1>2. /\ conn' = [Stopped(conn, FALSE) EXCEPT !.cancel = FALSE]
        /\ frames' = Outdated(frames)
    BY <1>1 DEF CancelTimeout
  <1> QED BY <1>1, <1>2, SameFacts, StopStep DEF Inv, TypeInv

\* A retry is due.
LEMMA RetryStep ==
    ASSUME Inv, Retry
    PROVE  Inv' /\ ForgetStep
  <1>1. /\ main = "loop" /\ Connect(conn, ram', frames, budget)
        /\ UNCHANGED <<ram, nvs, wifi, guard, rearm, scale>>
    BY DEF Retry
  <1> QED BY <1>1, ReconnectStep DEF Inv, TypeInv

\* A ping that cannot be sent.
LEMMA HeartbeatFailsStep ==
    ASSUME Inv, HeartbeatFails
    PROVE  Inv' /\ ForgetStep
  <1>1. /\ UNCHANGED <<ram, nvs, frames, main, wifi, guard, rearm, scale>>
        /\ conn' = AfterSend(conn, FALSE) /\ Spend(~CanSend) /\ FALSE \in Outcomes(CanSend)
        /\ GuardInv' /\ SavedInv(ram', nvs')
    BY DEF HeartbeatFails, Inv, GuardInv
  <1>2. budget' \in BudgetType
    <2>1. CanSend \in BOOLEAN
      BY DEF CanSend
    <2> QED BY <1>1, <2>1, OutcomeFacts, ChargedType DEF Spend, Inv, TypeInv
  <1>3. /\ conn' \in ConnType /\ SameSession(conn, conn')
        /\ conn.retry => conn'.retry
    BY <1>1, AfterSendFacts DEF Inv, TypeInv
  <1>4. TypeInv'
    BY <1>1, <1>2, <1>3 DEF Inv, TypeInv
  <1> QED BY <1>1, <1>3, <1>4, SameFacts, QuietStep

\* No state for too long.
LEMMA StateStaleStep ==
    ASSUME Inv, StateStale
    PROVE  Inv' /\ ForgetStep
  <1> DEFINE c == [conn EXCEPT !.online = FALSE]
             b == Charged(budget, ~wifi)
  <1>1. /\ main = "loop" /\ Connect(c, ram', frames, b)
        /\ UNCHANGED <<ram, nvs, wifi, guard, rearm, scale>>
    BY DEF StateStale
  <1>2. /\ c \in ConnType /\ c.ws = conn.ws /\ c.old = conn.old /\ c.retiring = conn.retiring
        /\ c.link = conn.link /\ c.auth = conn.auth /\ c.ready = conn.ready
        /\ c.cancel = conn.cancel /\ c.pending = conn.pending
    BY DEF Inv, TypeInv, ConnType
  <1>3. b \in BudgetType
    <2>1. (~wifi) \in BOOLEAN /\ (~wifi \/ budget.faults > 0)
      BY DEF StateStale
    <2> QED BY <2>1, ChargedType DEF Inv, TypeInv
  <1> HIDE DEF c, b
  <1> QED BY <1>1, <1>2, <1>3, ReconnectStep DEF Inv, TypeInv

\* No result for too long.
LEMMA CommandTimeoutStep ==
    ASSUME Inv, CommandTimeout
    PROVE  Inv' /\ ForgetStep
  <1> DEFINE c == [conn EXCEPT !.pending = 0]
  <1>1. /\ main = "loop" /\ Connect(c, ram', frames, budget)
        /\ UNCHANGED <<ram, nvs, wifi, guard, rearm, scale>>
    BY DEF CommandTimeout
  <1>2. /\ c \in ConnType /\ c.ws = conn.ws /\ c.old = conn.old /\ c.retiring = conn.retiring
        /\ c.link = conn.link /\ c.auth = conn.auth /\ c.ready = conn.ready
        /\ c.cancel = conn.cancel /\ c.pending = 0
    BY DEF Inv, TypeInv, ConnType
  <1> HIDE DEF c
  <1> QED BY <1>1, <1>2, ReconnectStep DEF Inv, TypeInv

\* The answer to the probe of a slot that is not paired.
LEMMA ProbeEndsStep ==
    ASSUME Inv, ProbeEnds
    PROVE  Inv' /\ ForgetStep
  <1>1. /\ main = "probe" /\ main' = "loop" /\ UNCHANGED <<ram, nvs, frames, wifi, guard, rearm>>
    BY DEF ProbeEnds
  <1>2. /\ conn.ws = "none" /\ conn.old = 0 /\ ~conn.retiring /\ ram.host /\ ram.key = 0
        /\ Fresh(conn) /\ \A i \in DOMAIN frames : frames[i].kind \in Past
    BY <1>1, NoSocket DEF Inv, SocketInv
  <1>3. PICK heard \in Outcomes(wifi) :
         LET stale == heard /\ scale.key # 0
             ready == heard /\ scale.key = 0 /\ scale.window
         IN \E done \in (IF stale THEN Outcomes(wifi) ELSE {FALSE}) :
          /\ scale' = Removed(done)
          /\ IF ready THEN Start(conn, budget)
             ELSE Spend(~wifi \/ (heard /\ (stale => done))) /\ UNCHANGED conn
    BY DEF ProbeEnds
  <1> DEFINE stale == heard /\ scale.key # 0
             ready == heard /\ scale.key = 0 /\ scale.window
  <1>4. PICK done \in (IF stale THEN Outcomes(wifi) ELSE {FALSE}) :
          /\ scale' = Removed(done)
          /\ IF ready THEN Start(conn, budget)
             ELSE Spend(~wifi \/ (heard /\ (stale => done))) /\ UNCHANGED conn
    BY <1>3
  <1>5. scale' \in ScaleType /\ SameTalk(scale, scale')
    BY <1>4, RemovedFacts DEF Inv, TypeInv
  <1>6. /\ conn' \in ConnType /\ budget' \in BudgetType /\ Fresh(conn')
        /\ conn'.old = 0 /\ ~conn'.retiring /\ conn'.ws \in {"none", "idle", "ended"}
        /\ conn'.cancel = conn.cancel
    <2>1. CASE ready
      BY <1>2, <1>4, <2>1, StartFacts DEF Inv, TypeInv
    <2>2. CASE ~ready
      <3>1. heard \in BOOLEAN /\ (heard \/ ~wifi \/ budget.faults > 0)
        BY OutcomeFacts DEF Inv, TypeInv
      <3>2. stale => done \in BOOLEAN /\ (done \/ ~wifi \/ budget.faults > 0)
        BY OutcomeFacts DEF Inv, TypeInv
      <3>3. DEFINE free == ~wifi \/ (heard /\ (stale => done))
      <3>4. free \in BOOLEAN /\ (free \/ budget.faults > 0)
        BY <3>1, <3>2
      <3>5. conn' = conn /\ budget' = Charged(budget, free)
        BY <1>4, <2>2 DEF Spend
      <3> HIDE DEF free
      <3> QED BY <1>2, <3>4, <3>5, ChargedType DEF Inv, TypeInv
    <2> QED BY <2>1, <2>2
  <1>7. TypeInv' /\ SavedInv(ram', nvs') /\ SocketInv(conn', main', ram')
    BY <1>1, <1>2, <1>5, <1>6 DEF Inv, TypeInv, SocketInv
  <1> QED BY <1>1, <1>2, <1>5, <1>6, <1>7, DropStep

(* The socket, the worker, Wi-Fi *)

\* Push drops the frame, or queues it from a socket that is heard.
LEMMA PushFacts ==
    ASSUME NEW c \in ConnType, NEW f \in FrameType, Push(c, f), Len(frames) \in Nat
    PROVE  /\ conn' \in ConnType /\ SameSession(c, conn') /\ conn'.retry = c.retry
           /\ \/ /\ frames' = frames
                 /\ Heard(c) /\ f.kind \in {"authorized", "down"} => conn'.lost
              \/ /\ frames' = Append(frames, f) /\ Heard(c) /\ Len(frames) < FrameSlots
  <1> DEFINE fits == Len(frames) < FrameSlots
             gone == c.lost \/ (Heard(c) /\ ~fits /\ f.kind \in {"authorized", "down"})
  <1>1. gone \in BOOLEAN
    BY DEF ConnType
  <1>2. conn' = [c EXCEPT !.lost = gone]
    BY DEF Push
  <1>3. frames' = IF Heard(c) /\ fits THEN Append(frames, f) ELSE frames
    BY DEF Push
  <1>4. /\ conn' \in ConnType /\ SameSession(c, conn') /\ conn'.retry = c.retry
        /\ conn'.lost = gone
    <2> HIDE DEF gone
    <2>1. c.lost => gone
      BY DEF gone
    <2> QED BY <1>1, <1>2, <2>1 DEF ConnType, SameSession
  <1> QED BY <1>3, <1>4

\* The socket connects.
LEMMA SocketUpStep ==
    ASSUME Inv, SocketUp
    PROVE  Inv' /\ ForgetStep
  <1> DEFINE c == [conn EXCEPT !.ws = "open"]
             f == Frame("up", 0)
  <1>1. /\ conn.ws = "idle" /\ Push(c, f) /\ scale' = [scale EXCEPT !.sess = "new"]
        /\ UNCHANGED <<ram, nvs, main, wifi, guard, rearm, budget>>
    BY DEF SocketUp
  <1>2. /\ conn.link = 0 /\ ~conn.auth /\ ~conn.ready /\ scale.sess = "none" /\ scale.up = <<>>
        /\ conn.pending = 0
    BY <1>1 DEF Inv, SessionInv
  <1>3. \A i \in DOMAIN frames : frames[i].kind \in Past
    <2> SUFFICES ASSUME NEW i \in DOMAIN frames
                 PROVE  frames[i].kind \in Past
      OBVIOUS
    <2>1. FrameInv(frames[i], conn, scale, ram.key)
      BY DEF Inv, FramesInv
    <2> QED BY <1>1, <2>1 DEF FrameInv
  <1>4. /\ c \in ConnType /\ c.ws = "open" /\ c.old = conn.old /\ c.retiring = conn.retiring
        /\ c.link = 0 /\ ~c.auth /\ ~c.ready /\ c.pending = 0 /\ c.cancel = conn.cancel
        /\ c.retry = conn.retry /\ c.lost = conn.lost
    BY <1>2 DEF Inv, TypeInv, ConnType
  <1>5. /\ scale' \in ScaleType /\ scale'.sess = "new" /\ scale'.up = <<>>
        /\ scale'.issued = scale.issued
    BY <1>1, <1>2 DEF Inv, TypeInv, ScaleType
  <1>6. f \in FrameType /\ f.kind = "up"
    BY DEF Frame, FrameType
  <1> HIDE DEF c, f
  <1>7. SessionInv(c, scale', ram.key)
    BY <1>2, <1>4, <1>5 DEF Inv, SessionInv
  <1>8. \A i \in DOMAIN scale'.up : FALSE
    BY <1>5, EmptySeq
  <1>9. FramesInv(c, frames, scale', ram.key)
    BY <1>3, <1>8, PastFrames DEF Inv, TypeInv, FramesInv, CommandInv
  <1>10. /\ conn' \in ConnType /\ SameSession(c, conn') /\ conn'.retry = c.retry
         /\ frames' = frames \/ (frames' = Append(frames, f) /\ Len(frames) < FrameSlots)
    BY <1>1, <1>4, <1>6, PushFacts, LenProperties DEF Inv, TypeInv
  <1>11. /\ FramesInv(c, frames', scale', ram.key)
         /\ frames' \in Seq(FrameType) /\ Len(frames') <= FrameSlots
    <2>1. CASE frames' = frames
      BY <1>9, <2>1 DEF Inv, TypeInv
    <2>2. CASE frames' = Append(frames, f) /\ Len(frames) < FrameSlots
      <3>1. FrameInv(f, c, scale', ram.key)
        BY <1>4, <1>5, <1>6 DEF FrameInv
      <3>2. \A i \in DOMAIN frames : frames[i].kind \notin Handshake /\ frames[i].kind # "down"
        BY <1>3 DEF Past, Handshake
      <3>3. FramesInv(c, frames', scale', ram.key)
        BY <1>6, <1>8, <1>9, <2>2, <3>1, <3>2, AppendFrames DEF Inv, TypeInv
      <3> QED BY <1>6, <2>2, <3>3, AppendFacts, ScreenAssumption DEF Inv, TypeInv
    <2> QED BY <1>10, <2>1, <2>2
  <1>12. SessionInv(conn', scale', ram.key) /\ FramesInv(conn', frames', scale', ram.key)
    <2>1. SameTalk(scale', scale')
      BY DEF SameTalk
    <2> QED BY <1>7, <1>10, <1>11, <2>1, SameKeeps
  <1>13. TypeInv' /\ GuardInv' /\ SavedInv(ram', nvs')
    BY <1>1, <1>5, <1>10, <1>11 DEF Inv, TypeInv, GuardInv
  <1>14. SocketInv(conn', main', ram') /\ NeverStranded'
    BY <1>1, <1>4, <1>5, <1>10
    DEF Inv, SocketInv, SameSession, NeverStranded, WayForward
  <1> QED BY <1>1, <1>12, <1>13, <1>14 DEF Inv, ForgetStep

\* The socket's end is reported, or lost in a full queue.
LEMMA SocketEndsStep ==
    ASSUME Inv, SocketEnds
    PROVE  Inv' /\ ForgetStep
  <1> DEFINE fits == Len(frames) < FrameSlots
             f == Frame("down", 0)
             due == ~wifi \/ (conn.ws = "open" /\ scale.sess = "closing")
  <1>1. /\ Heard(conn) /\ (due \/ budget.faults > 0) /\ Spend(due)
        /\ frames' = IF fits THEN Append(frames, f) ELSE frames
        /\ conn' = [[conn EXCEPT !.ws = "ended"] EXCEPT !.lost = @ \/ ~fits]
        /\ UNCHANGED <<ram, nvs, main, wifi, guard, rearm, scale>>
    BY DEF SocketEnds
  <1>2. due \in BOOLEAN /\ fits \in BOOLEAN
    OBVIOUS
  <1> HIDE DEF due
  <1>3. budget' \in BudgetType
    BY <1>1, <1>2, ChargedType DEF Spend, Inv, TypeInv
  <1>4. f \in FrameType /\ f.kind = "down"
    BY DEF Frame, FrameType
  <1>5. /\ conn' \in ConnType /\ conn'.ws = "ended" /\ conn'.old = conn.old
        /\ conn'.retiring = conn.retiring /\ conn'.auth = conn.auth /\ conn'.link = conn.link
        /\ conn'.ready = conn.ready /\ conn'.pending = conn.pending /\ conn'.cancel = conn.cancel
        /\ conn'.retry = conn.retry /\ (conn'.lost <=> conn.lost \/ ~fits)
    <2>1. (conn.lost \/ ~fits) \in BOOLEAN
      OBVIOUS
    <2>2. conn' = [conn EXCEPT !.ws = "ended", !.lost = conn.lost \/ ~fits]
      BY <1>1 DEF Inv, TypeInv, ConnType
    <2> HIDE DEF fits
    <2> QED BY <2>1, <2>2 DEF Inv, TypeInv, ConnType
  <1> HIDE DEF fits, f
  <1>6. SessionInv(conn', scale, ram.key)
    BY <1>5 DEF Inv, SessionInv
  <1>7. \A i \in DOMAIN frames : /\ FrameInv(frames[i], conn', scale, ram.key)
                                 /\ frames[i].kind # "down"
    <2> SUFFICES ASSUME NEW i \in DOMAIN frames
                 PROVE  /\ FrameInv(frames[i], conn', scale, ram.key)
                        /\ frames[i].kind # "down"
      OBVIOUS
    <2>1. FrameInv(frames[i], conn, scale, ram.key)
      BY DEF Inv, FramesInv
    <2> QED BY <1>1, <1>5, <2>1 DEF FrameInv, Heard
  <1>8. \A i \in DOMAIN scale.up : UpInv(scale.up[i], conn', scale, ram.key)
    BY <1>5 DEF Inv, FramesInv, UpInv, Heard
  <1>9. FramesInv(conn', frames, scale, ram.key)
    BY <1>7, <1>8 DEF Inv, FramesInv
  <1>10. /\ FramesInv(conn', frames', scale, ram.key)
         /\ frames' \in Seq(FrameType) /\ Len(frames') <= FrameSlots
         /\ fits => Queued("down")'
    <2>1. CASE ~fits
      BY <1>1, <1>9, <2>1 DEF Inv, TypeInv
    <2>2. CASE fits
      <3>1. frames' = Append(frames, f)
        BY <1>1, <2>2
      <3>2. FrameInv(f, conn', scale, ram.key) /\ f.kind \notin Handshake /\ f.kind # "result"
        BY <1>4, <1>5 DEF FrameInv, Handshake
      <3>3. FramesInv(conn', frames', scale, ram.key)
        BY <1>4, <1>7, <1>9, <3>1, <3>2, AppendFrames DEF Inv, TypeInv
      <3>4. /\ frames' \in Seq(FrameType) /\ Len(frames') <= FrameSlots
            /\ Len(frames) + 1 \in DOMAIN frames' /\ frames'[Len(frames) + 1] = f
        BY <1>4, <2>2, <3>1, AppendFacts, ScreenAssumption DEF Inv, TypeInv, fits
      <3> QED BY <1>4, <3>3, <3>4 DEF Queued
    <2> QED BY <1>2, <2>1, <2>2
  <1>11. TypeInv' /\ GuardInv' /\ SavedInv(ram', nvs')
    BY <1>1, <1>3, <1>5, <1>10 DEF Inv, TypeInv, GuardInv
  <1>12. SocketInv(conn', main', ram')
    BY <1>1, <1>5 DEF Inv, SocketInv, Heard
  <1>13. NeverStranded'
    BY <1>2, <1>5, <1>10 DEF NeverStranded, WayForward
  <1> QED BY <1>1, <1>6, <1>10, <1>11, <1>12, <1>13 DEF Inv, ForgetStep

\* The worker has destroyed the socket.
LEMMA RetireDoneStep ==
    ASSUME Inv, RetireDone
    PROVE  Inv' /\ ForgetStep
  <1>1. /\ conn.old > 0 /\ conn' = [conn EXCEPT !.old = @ - 1, !.retiring = FALSE]
        /\ scale' = [scale EXCEPT !.sess = "none", !.up = <<>>]
        /\ UNCHANGED <<ram, nvs, frames, main, wifi, guard, rearm, budget>>
    BY DEF RetireDone
  <1>2. conn.old = 1 /\ conn.ws = "none" /\ main # "probe" /\ conn.old - 1 = 0
    BY <1>1 DEF Inv, SocketInv
  <1>3. Fresh(conn) /\ \A i \in DOMAIN frames : frames[i].kind \in Past
    BY <1>2, NoSocket
  <1>4. conn' = [conn EXCEPT !.old = 0, !.retiring = FALSE]
    BY <1>1, <1>2
  <1>5. /\ conn' \in ConnType /\ conn'.ws = "none" /\ conn'.old = 0 /\ ~conn'.retiring
        /\ Fresh(conn') /\ conn'.cancel = conn.cancel /\ conn'.retry = conn.retry
        /\ conn'.lost = conn.lost
    BY <1>2, <1>3, <1>4 DEF Inv, TypeInv, ConnType, Fresh
  <1>6. /\ scale' \in ScaleType /\ scale'.sess = "none" /\ scale'.up = <<>>
        /\ scale'.issued = scale.issued
    BY <1>1, EmptySeq DEF Inv, TypeInv, ScaleType
  <1>7. SessionInv(conn', scale', ram.key)
    BY <1>5, <1>6 DEF Inv, SessionInv, Fresh
  <1>8. \A i \in DOMAIN scale'.up : FALSE
    BY <1>6, EmptySeq
  <1>9. FramesInv(conn', frames, scale', ram.key)
    BY <1>3, <1>8, PastFrames DEF Inv, TypeInv, FramesInv, CommandInv
  <1>10. TypeInv' /\ GuardInv' /\ SavedInv(ram', nvs')
    BY <1>1, <1>5, <1>6 DEF Inv, TypeInv, GuardInv
  <1>11. SocketInv(conn', main', ram')
    BY <1>1, <1>2, <1>5 DEF SocketInv, Inv, TypeInv
  <1>12. NeverStranded'
    BY <1>1, <1>2, <1>3, <1>5 DEF Inv, NeverStranded, WayForward, Queued, Fresh
  <1> QED BY <1>1, <1>7, <1>9, <1>10, <1>11, <1>12 DEF Inv, ForgetStep

\* Wi-Fi comes or goes.
LEMMA WifiChangeStep ==
    ASSUME Inv, WifiChange
    PROVE  Inv' /\ ForgetStep
  <1> DEFINE retry == IF ram.host THEN ram.key # 0 \/ ram.selected ELSE conn.retry
  <1>1. /\ wifi' = ~wifi /\ (wifi => budget.faults > 0) /\ Spend(~wifi)
        /\ conn' = [conn EXCEPT !.retry = retry]
        /\ UNCHANGED <<ram, nvs, frames, main, guard, rearm, scale>>
        /\ GuardInv' /\ SavedInv(ram', nvs')
    BY DEF WifiChange, Inv, GuardInv
  <1>2. retry \in BOOLEAN
    BY DEF Inv, TypeInv, ConnType, Profiles
  <1> HIDE DEF retry
  <1>3. conn' \in ConnType /\ SameSession(conn, conn') /\ conn'.retry = retry
    BY <1>1, <1>2, RetryFacts DEF Inv, TypeInv
  <1>4. ram.host /\ ram.key # 0 => conn'.retry
    BY <1>3 DEF retry
  <1>5. budget' \in BudgetType
    <2>1. (~wifi) \in BOOLEAN /\ (~wifi \/ budget.faults > 0)
      BY <1>1
    <2> QED BY <1>1, <2>1, ChargedType DEF Spend, Inv, TypeInv
  <1>6. TypeInv'
    BY <1>1, <1>3, <1>5 DEF Inv, TypeInv
  <1> QED BY <1>1, <1>3, <1>4, <1>6, SameFacts, QuietStep

\* A step that budget pays for.
LEMMA FaultType ==
    ASSUME budget \in BudgetType, budget.faults > 0, Spend(FALSE)
    PROVE  budget' \in BudgetType
  BY ChargedType DEF Spend

\* A frame of the other slot.
LEMMA OtherFrameStep ==
    ASSUME Inv, OtherFrame
    PROVE  Inv' /\ ForgetStep
  <1> DEFINE f == Frame("other", 0)
  <1>1. /\ budget.faults > 0 /\ Len(frames) < FrameSlots /\ frames' = Append(frames, f)
        /\ Spend(FALSE) /\ UNCHANGED <<ram, nvs, conn, main, wifi, guard, rearm, scale>>
    BY DEF OtherFrame
  <1>2. f \in FrameType /\ f.kind = "other"
    BY DEF Frame, FrameType
  <1> HIDE DEF f
  <1>3. FrameInv(f, conn, scale', ram.key) /\ f.kind \in Past /\ f.kind \notin Handshake
    BY <1>2 DEF FrameInv, Past, Handshake
  <1>4. budget' \in BudgetType /\ conn' = conn /\ scale' = scale /\ scale' \in ScaleType
        /\ guard' \in GuardType /\ GuardInv'
    BY <1>1, FaultType DEF Inv, TypeInv, GuardInv
  <1>5. SessionInv(conn, scale', ram.key) /\ FramesInv(conn, frames, scale', ram.key)
    BY <1>4 DEF Inv
  <1> QED BY <1>1, <1>2, <1>3, <1>4, <1>5, SameFacts, PushStep DEF Inv, TypeInv

(* pairing_guard_task *)

\* The guard reads the flash: it goes on only where that holds no pairing.
LEMMA GuardLoadsStep ==
    ASSUME Inv, GuardLoads
    PROVE  Inv' /\ ForgetStep
  <1> DEFINE gone == guard.pc = "load" /\ guard.paired /\ nvs.key = 0 /\ guard.host
             phase == IF gone THEN "verify" ELSE IF PairedAgain THEN "idle" ELSE guard.phase
  <1>1. /\ guard' = [pc |-> IF phase = "idle" THEN "load" ELSE "read",
                     paired |-> nvs.key # 0, host |-> nvs.host, phase |-> phase]
        /\ UNCHANGED <<ram, nvs, conn, frames, main, wifi, rearm, scale, budget>>
    BY DEF GuardLoads
  <1>2. phase \in {"idle", "verify", "window"}
    BY DEF Inv, TypeInv, GuardType
  <1>3. phase # "idle" => nvs.key = 0
    BY DEF Inv, SavedInv, PairedAgain
  <1> HIDE DEF phase
  <1>4. guard' \in GuardType /\ GuardInv'
    BY <1>1, <1>2, <1>3 DEF GuardType, GuardInv, Inv, TypeInv, Profiles
  <1>5. TypeInv' /\ SavedInv(ram', nvs')
    BY <1>1, <1>4 DEF Inv, TypeInv
  <1> QED BY <1>1, <1>4, <1>5, SameFacts, QuietStep

\* The guard hears from the Scale.
LEMMA GuardReadsStep ==
    ASSUME Inv, GuardReads
    PROVE  Inv' /\ ForgetStep
  <1>1. guard.pc = "read" /\ UNCHANGED <<ram, nvs, conn, frames, main, wifi, scale>>
    BY DEF GuardReads
  <1>2. ~guard.paired
    BY <1>1 DEF Inv, GuardInv
  <1>3. PICK heard \in Outcomes(wifi) :
          /\ Spend(heard \/ ~wifi)
          /\ \/ rearm' = rearm /\ guard' = [guard EXCEPT !.pc = "load"]
             \/ rearm' = rearm /\ guard' = [guard EXCEPT !.pc = "remove", !.phase = "verify"]
             \/ rearm' = rearm /\ guard' = [guard EXCEPT !.pc = "load", !.phase = "window"]
             \/ /\ rearm' = (rearm \/ scale.window)
                /\ guard' = [guard EXCEPT !.pc = "load",
                                         !.phase = IF scale.window THEN "idle" ELSE @]
    BY DEF GuardReads
  <1>4. budget' \in BudgetType
    <2>1. wifi \in BOOLEAN
      BY DEF Inv, TypeInv
    <2> QED BY <1>3, <2>1, OutcomeFacts, ChargedType DEF Spend, Inv, TypeInv
  <1>5. guard' \in GuardType /\ guard'.paired = guard.paired /\ rearm' \in BOOLEAN
    BY <1>3 DEF GuardType, Inv, TypeInv, ScaleType
  <1>6. TypeInv' /\ SavedInv(ram', nvs') /\ GuardInv'
    BY <1>1, <1>2, <1>4, <1>5 DEF Inv, TypeInv, GuardInv
  <1> QED BY <1>1, <1>6, SameFacts, QuietStep

\* The guard gives up.
LEMMA GuardGivesUpStep ==
    ASSUME Inv, GuardGivesUp
    PROVE  Inv' /\ ForgetStep
  <1>1. /\ guard.pc = "load" /\ budget.faults > 0 /\ Spend(FALSE)
        /\ guard' = [guard EXCEPT !.phase = "idle"]
        /\ UNCHANGED <<ram, nvs, conn, frames, main, wifi, rearm, scale>>
    BY DEF GuardGivesUp
  <1>2. guard' \in GuardType /\ guard'.pc = "load"
    BY <1>1 DEF Inv, TypeInv, GuardType
  <1>3. TypeInv' /\ SavedInv(ram', nvs') /\ GuardInv'
    BY <1>1, <1>2, FaultType DEF Inv, TypeInv, GuardInv
  <1> QED BY <1>1, <1>3, SameFacts, QuietStep

\* The Scale loses its pairing, and a trusted session is told.
LEMMA UnpairStep ==
    ASSUME Inv, scale' = Unpaired(scale), UNCHANGED <<ram, nvs, main, wifi, rearm>>,
           IF scale.sess = "trusted" THEN Push(conn, Frame("unpair", 0))
           ELSE UNCHANGED <<conn, frames>>,
           guard' \in GuardType, GuardInv', budget' \in BudgetType
    PROVE  Inv' /\ ForgetStep
  <1> DEFINE f == Frame("unpair", 0)
  <1>1. f \in FrameType /\ f.kind = "unpair"
    BY DEF Frame, FrameType
  <1> HIDE DEF f
  <1>2. /\ scale' \in ScaleType /\ SameTalk(scale, scale')
        /\ scale.sess = "trusted" => scale'.sess = "closing"
        /\ scale'.sess = "trusted" => scale.sess = "trusted"
    BY RemovedFacts DEF Inv, TypeInv, SameTalk
  <1>3. SessionInv(conn, scale', ram.key) /\ FramesInv(conn, frames, scale', ram.key)
    BY <1>2, SameFacts, SameKeeps DEF Inv
  <1>4. /\ conn' \in ConnType /\ SameSession(conn, conn') /\ conn'.retry = conn.retry
        /\ \/ frames' = frames
           \/ /\ frames' = Append(frames, f) /\ Heard(conn) /\ Len(frames) < FrameSlots
              /\ scale.sess = "trusted"
    <2>1. CASE scale.sess = "trusted"
      BY <1>1, <2>1, PushFacts, LenProperties DEF Inv, TypeInv, f
    <2>2. CASE scale.sess # "trusted"
      BY <2>2, SameFacts DEF Inv, TypeInv
    <2> QED BY <2>1, <2>2
  <1>5. ASSUME Heard(conn), scale.sess = "trusted"
        PROVE  /\ FrameInv(f, conn, scale', ram.key) /\ f.kind \notin Handshake
               /\ \A i \in DOMAIN frames : frames[i].kind # "down"
    <2>1. conn.ws = "open"
      BY <1>5 DEF Heard, Inv, SessionInv
    <2>2. \A i \in DOMAIN frames : frames[i].kind # "down"
      BY <2>1 DEF Inv, FramesInv, FrameInv
    <2> QED BY <1>1, <1>2, <1>5, <2>1, <2>2 DEF FrameInv, Handshake
  <1> QED BY <1>1, <1>2, <1>3, <1>4, <1>5, PushStep

\* The guard removes a pairing that only the Scale still had.
LEMMA GuardRemovesStep ==
    ASSUME Inv, GuardRemoves
    PROVE  Inv' /\ ForgetStep
  <1>1. guard.pc = "remove" /\ ~guard.paired /\ UNCHANGED <<ram, nvs, main, wifi, rearm>>
    BY DEF GuardRemoves, Inv, GuardInv
  <1>2. PICK done \in Outcomes(wifi) :
          /\ Spend(done \/ ~wifi)
          /\ scale' = Removed(done)
          /\ guard' = [guard EXCEPT !.pc = "load", !.phase = IF done THEN "window" ELSE @]
          /\ IF done /\ scale.sess = "trusted" THEN Push(conn, Frame("unpair", 0))
             ELSE UNCHANGED <<conn, frames>>
    BY DEF GuardRemoves
  <1>3. budget' \in BudgetType /\ done \in BOOLEAN
    <2>1. wifi \in BOOLEAN
      BY DEF Inv, TypeInv
    <2> QED BY <1>2, <2>1, OutcomeFacts, ChargedType DEF Spend, Inv, TypeInv
  <1>4. guard' \in GuardType /\ GuardInv'
    BY <1>1, <1>2, <1>3 DEF Inv, TypeInv, GuardType, GuardInv
  <1>5. CASE done
    BY <1>1, <1>2, <1>3, <1>4, <1>5, UnpairStep DEF Removed
  <1>6. CASE ~done
    <2>1. UNCHANGED <<conn, frames, scale>>
      BY <1>2, <1>6 DEF Removed
    <2>2. TypeInv' /\ SavedInv(ram', nvs')
      BY <1>1, <1>3, <1>4, <2>1 DEF Inv, TypeInv
    <2> QED BY <1>1, <1>4, <2>1, <2>2, SameFacts, QuietStep
  <1> QED BY <1>3, <1>5, <1>6

(* external: the Scale and its user *)

\* The user opens the Scale's pairing window.
LEMMA OpenWindowStep ==
    ASSUME Inv, OpenWindow
    PROVE  Inv' /\ ForgetStep
  <1>1. /\ MoveSpend(TRUE) /\ scale' = [scale EXCEPT !.window = TRUE]
        /\ UNCHANGED <<ram, nvs, conn, frames, main, wifi, guard, rearm>>
    BY DEF OpenWindow
  <1>2. scale' \in ScaleType /\ SameTalk(scale, scale')
    BY <1>1 DEF Inv, TypeInv, ScaleType, SameTalk
  <1>3. budget' \in BudgetType
    BY <1>1, MoveSpendType DEF Inv, TypeInv
  <1>4. TypeInv' /\ SavedInv(ram', nvs') /\ GuardInv'
    BY <1>1, <1>2, <1>3 DEF Inv, TypeInv, GuardInv
  <1> QED BY <1>1, <1>2, <1>4, SameFacts, QuietStep

\* The user removes the pairing at the Scale.
LEMMA UnpairAtScaleStep ==
    ASSUME Inv, UnpairAtScale
    PROVE  Inv' /\ ForgetStep
  <1>1. budget' \in BudgetType
    BY MoveSpendType DEF UnpairAtScale, Inv, TypeInv
  <1>2. guard' \in GuardType /\ GuardInv'
    BY DEF UnpairAtScale, Inv, TypeInv, GuardInv
  <1> QED BY <1>1, <1>2, UnpairStep DEF UnpairAtScale

\* What is needed of a frame that the Scale sends.
LEMMA SayStep ==
    ASSUME Inv, NEW f \in FrameType, Push(conn, f), f.kind \notin Past \cup {"down", "up"},
           UNCHANGED <<ram, nvs, main, wifi, guard, rearm, budget>>,
           scale' \in ScaleType, scale.sess # "none",
           SessionInv(conn, scale', ram.key), FramesInv(conn, frames, scale', ram.key),
           conn.ws = "open" => FrameInv(f, conn, scale', ram.key),
           f.kind \in Handshake => \A i \in DOMAIN frames : frames[i].kind \notin Handshake,
           f.kind = "authorized" => \A i \in DOMAIN frames : frames[i].kind # "unpair",
           \A i \in DOMAIN scale'.up :
               /\ Settles(scale'.up[i], scale') => f.kind \notin Handshake
               /\ scale'.up[i].kind = "command" /\ f.kind = "result" => f.n < scale'.issued,
           scale'.sess = "trusted" => scale.sess = "trusted" \/ f.kind = "authorized"
    PROVE  Inv' /\ ForgetStep
  <1>1. /\ conn' \in ConnType /\ SameSession(conn, conn') /\ conn'.retry = conn.retry
        /\ \/ /\ frames' = frames
              /\ Heard(conn) /\ f.kind \in {"authorized", "down"} => conn'.lost
           \/ /\ frames' = Append(frames, f) /\ Heard(conn) /\ Len(frames) < FrameSlots
    BY PushFacts, LenProperties DEF Inv, TypeInv
  <1>2. ASSUME Heard(conn)
        PROVE  conn.ws = "open" /\ \A i \in DOMAIN frames : frames[i].kind # "down"
    <2>1. conn.ws = "open"
      BY <1>2 DEF Heard, Inv, SessionInv
    <2> QED BY <2>1 DEF Inv, FramesInv, FrameInv
  <1>3. guard' \in GuardType /\ GuardInv' /\ budget' \in BudgetType
    BY DEF Inv, TypeInv, GuardInv
  <1> QED BY <1>1, <1>2, <1>3, PushStep

\* The user types the code.
LEMMA ApproveStep ==
    ASSUME Inv, Approve
    PROVE  Inv' /\ ForgetStep
  <1> DEFINE f == Frame("authorized", 0)
  <1>1. /\ scale.sess = "pairing" /\ conn.link = scale.offer /\ Push(conn, f)
        /\ scale' = [scale EXCEPT !.key = scale.offer, !.window = FALSE, !.sess = "trusted"]
        /\ UNCHANGED <<ram, nvs, main, wifi, guard, rearm, budget>>
    BY DEF Approve
  <1>2. f \in FrameType /\ f.kind = "authorized"
    BY DEF Frame, FrameType
  <1> HIDE DEF f
  <1>3. conn.link # 0 /\ ~conn.auth
    BY <1>1 DEF Inv, SessionInv
  <1>4. /\ scale' \in ScaleType /\ scale'.sess = "trusted" /\ scale'.up = scale.up
        /\ scale'.offer = scale.offer /\ scale'.issued = scale.issued
    BY <1>1 DEF Inv, TypeInv, ScaleType
  <1>5. \A i \in DOMAIN frames : frames[i].kind \notin Handshake \cup {"unpair"}
    BY <1>1, <1>3 DEF Inv, FramesInv, FrameInv, Handshake
  <1>6. \A i \in DOMAIN scale.up : scale.up[i].kind \notin {"hello", "command"}
    BY <1>1 DEF Inv, FramesInv, UpInv
  <1>7. SessionInv(conn, scale', ram.key)
    BY <1>1, <1>3, <1>4 DEF Inv, SessionInv
  <1>8. FramesInv(conn, frames, scale', ram.key)
    <2>1. \A i \in DOMAIN frames : FrameInv(frames[i], conn, scale', ram.key)
      BY <1>4, <1>5 DEF Inv, FramesInv, FrameInv, Handshake
    <2>2. \A i \in DOMAIN scale'.up : UpInv(scale'.up[i], conn, scale', ram.key)
      BY <1>4, <1>6 DEF UpInv
    <2>3. CommandInv(frames, scale')
      BY <1>4, <1>5, <1>6 DEF CommandInv
    <2> QED BY <2>1, <2>2, <2>3 DEF Inv, FramesInv
  <1>9. conn.ws = "open" => FrameInv(f, conn, scale', ram.key)
    BY <1>1, <1>2, <1>3, <1>4 DEF FrameInv
  <1>10. \A i \in DOMAIN scale'.up : ~Settles(scale'.up[i], scale') /\ scale'.up[i].kind # "command"
    BY <1>4, <1>6 DEF Settles
  <1>11. f.kind \notin Past \cup {"down", "up"}
    BY <1>2 DEF Past
  <1> QED BY <1>1, <1>2, <1>4, <1>5, <1>7, <1>8, <1>9, <1>10, <1>11, SayStep

\* The Scale reports its state.
LEMMA ReportStep ==
    ASSUME Inv, Report
    PROVE  Inv' /\ ForgetStep
  <1> DEFINE f == Frame("state", 0)
  <1>1. /\ scale.sess = "trusted" /\ Heard(conn) /\ Len(frames) < FrameSlots
        /\ frames' = Append(frames, f)
        /\ UNCHANGED <<ram, nvs, conn, main, wifi, guard, rearm, scale, budget>>
    BY DEF Report
  <1>2. f \in FrameType /\ f.kind = "state"
    BY DEF Frame, FrameType
  <1> HIDE DEF f
  <1>3. conn.ws = "open"
    BY <1>1 DEF Heard, Inv, SessionInv
  <1>4. \A i \in DOMAIN frames : frames[i].kind # "down"
    BY <1>3 DEF Inv, FramesInv, FrameInv
  <1>5. FrameInv(f, conn, scale', ram.key) /\ f.kind \notin Handshake
    BY <1>2, <1>3 DEF FrameInv, Handshake
  <1>6. /\ conn' = conn /\ scale' = scale /\ conn' \in ConnType /\ scale' \in ScaleType
        /\ budget' \in BudgetType /\ guard' \in GuardType /\ GuardInv'
        /\ SessionInv(conn, scale', ram.key) /\ FramesInv(conn, frames, scale', ram.key)
    BY <1>1 DEF Inv, TypeInv, GuardInv
  <1> QED BY <1>1, <1>2, <1>4, <1>5, <1>6, SameFacts, PushStep

\* What the Scale has yet to read, without its first message.
LEMMA RestFacts ==
    ASSUME Inv, scale.up # <<>>, NEW r, r = [scale EXCEPT !.up = Tail(@)]
    PROVE  /\ r \in ScaleType /\ r.sess = scale.sess /\ r.offer = scale.offer
           /\ r.issued = scale.issued /\ r.made = scale.made
           /\ scale.sess # "none" /\ Head(scale.up) \in UpType
           /\ UpInv(Head(scale.up), conn, scale, ram.key)
           /\ \A i \in DOMAIN frames : frames[i].kind # "up"
           /\ \A i \in DOMAIN r.up : r.up[i].kind # "hello"
           /\ Head(scale.up).kind = "hello" => \A i \in DOMAIN r.up : FALSE
           /\ Head(scale.up).kind = "command" => \A i \in DOMAIN r.up : r.up[i].kind # "command"
           /\ Settles(Head(scale.up), scale)
                => \A i \in DOMAIN frames : frames[i].kind \notin Handshake
           /\ SessionInv(conn, r, ram.key) /\ FramesInv(conn, frames, r, ram.key)
  <1> DEFINE m == Head(scale.up)
  <1>1. /\ r.up = Tail(scale.up) /\ r.up \in Seq(UpType) /\ Len(r.up) = Len(scale.up) - 1
        /\ m \in UpType /\ Len(scale.up) \in Nat \ {0} /\ 1 \in DOMAIN scale.up /\ m = scale.up[1]
        /\ \A i \in DOMAIN r.up : i + 1 \in DOMAIN scale.up /\ r.up[i] = scale.up[i + 1]
        /\ DOMAIN r.up = 1 .. Len(r.up) /\ DOMAIN scale.up = 1 .. Len(scale.up)
    BY TailFacts, LenProperties DEF Inv, TypeInv, ScaleType
  <1>2. /\ r \in ScaleType /\ r.sess = scale.sess /\ r.offer = scale.offer
        /\ r.issued = scale.issued /\ r.made = scale.made
    BY <1>1 DEF Inv, TypeInv, ScaleType
  <1> HIDE DEF m
  <1>3. /\ \A i \in DOMAIN scale.up : UpInv(scale.up[i], conn, scale, ram.key)
        /\ UpInv(m, conn, scale, ram.key) /\ CommandInv(frames, scale) /\ scale.sess # "none"
    BY <1>1 DEF Inv, FramesInv, SessionInv
  <1>4. \A i \in DOMAIN frames : frames[i].kind # "up"
    BY DEF Inv, FramesInv, FrameInv
  <1>5. \A i \in DOMAIN r.up : i + 1 # 1 /\ Len(scale.up) # 1
    BY <1>1
  <1>6. /\ \A i \in DOMAIN r.up : r.up[i].kind # "hello"
        /\ m.kind = "hello" => \A i \in DOMAIN r.up : FALSE
    BY <1>1, <1>3, <1>5 DEF UpInv
  <1>7. m.kind = "command" => \A i \in DOMAIN r.up : r.up[i].kind # "command"
    BY <1>1, <1>3, <1>5 DEF CommandInv
  <1>8. Settles(m, scale) => \A i \in DOMAIN frames : frames[i].kind \notin Handshake
    BY <1>1, <1>3 DEF CommandInv
  <1>9. SessionInv(conn, r, ram.key)
    BY <1>2, <1>3 DEF Inv, SessionInv
  <1>10. \A i \in DOMAIN frames : FrameInv(frames[i], conn, r, ram.key)
    BY <1>2, <1>4 DEF Inv, FramesInv, FrameInv
  <1>11. \A i \in DOMAIN r.up : UpInv(r.up[i], conn, r, ram.key)
    BY <1>1, <1>2, <1>3, <1>6 DEF UpInv
  <1>12. CommandInv(frames, r)
    <2>1. \A i, j \in DOMAIN r.up : i + 1 = j + 1 => i = j
      BY <1>1
    <2> QED BY <1>1, <1>2, <1>3, <2>1 DEF CommandInv, Settles
  <1>13. FramesInv(conn, frames, r, ram.key)
    BY <1>10, <1>11, <1>12 DEF Inv, FramesInv
  <1> QED BY <1>1, <1>2, <1>3, <1>4, <1>6, <1>7, <1>8, <1>9, <1>13 DEF m

\* The Scale ends a session that has said hello.
LEMMA ClosingFacts ==
    ASSUME NEW c, NEW q, NEW s, NEW t, NEW key, SessionInv(c, s, key), FramesInv(c, q, s, key),
           s.sess # "none", t.sess = "closing", t.up = s.up, t.offer = s.offer,
           t.issued = s.issued, \A i \in DOMAIN q : q[i].kind # "up",
           \A i \in DOMAIN s.up : s.up[i].kind # "hello"
    PROVE  SessionInv(c, t, key) /\ FramesInv(c, q, t, key)
  <1>1. SessionInv(c, t, key)
    BY DEF SessionInv
  <1>2. \A i \in DOMAIN q : FrameInv(q[i], c, t, key)
    BY DEF FramesInv, FrameInv
  <1>3. \A i \in DOMAIN t.up : UpInv(t.up[i], c, t, key)
    BY DEF FramesInv, UpInv
  <1>4. CommandInv(q, t)
    BY DEF FramesInv, CommandInv, Settles
  <1> QED BY <1>1, <1>2, <1>3, <1>4 DEF FramesInv

\* A step of the Scale that the display does not hear of.
LEMMA SilentStep ==
    ASSUME Inv, UNCHANGED <<ram, nvs, conn, frames, main, wifi, guard, rearm, budget>>,
           scale' \in ScaleType, scale'.sess \in {scale.sess, "closing"},
           SessionInv(conn, scale', ram.key), FramesInv(conn, frames, scale', ram.key)
    PROVE  Inv' /\ ForgetStep
  <1>1. TypeInv' /\ SocketInv(conn', main', ram') /\ SavedInv(ram', nvs') /\ GuardInv'
    BY DEF Inv, TypeInv, GuardInv
  <1>2. NeverStranded'
    BY DEF Inv, NeverStranded, WayForward, Queued
  <1> QED BY <1>1, <1>2 DEF Inv, ForgetStep

\* A session that does not get on expires.
LEMMA ScaleExpiresStep ==
    ASSUME Inv, ScaleExpires
    PROVE  Inv' /\ ForgetStep
  <1>1. /\ scale.up = <<>> /\ scale.sess # "none"
        /\ \A i \in DOMAIN frames : frames[i].kind # "up"
        /\ scale' = [scale EXCEPT !.sess = "closing", !.window = FALSE]
        /\ UNCHANGED <<ram, nvs, conn, frames, main, wifi, guard, rearm, budget>>
    BY DEF ScaleExpires
  <1>2. /\ scale' \in ScaleType /\ scale'.sess = "closing" /\ scale'.up = scale.up
        /\ scale'.offer = scale.offer /\ scale'.issued = scale.issued
    BY <1>1 DEF Inv, TypeInv, ScaleType
  <1>3. \A i \in DOMAIN scale.up : FALSE
    BY <1>1, EmptySeq
  <1>4. SessionInv(conn, scale', ram.key) /\ FramesInv(conn, frames, scale', ram.key)
    BY <1>1, <1>2, <1>3, ClosingFacts DEF Inv
  <1> QED BY <1>1, <1>2, <1>4, SilentStep

\* Nothing but the flash survives a restart.
LEMMA BootFacts ==
    ASSUME NEW p \in Profiles
    PROVE  /\ BootRam(p) \in Profiles /\ BootRam(p).key = p.key /\ BootRam(p).host = p.host
           /\ BootConn(BootRam(p)) \in ConnType /\ BootConn(BootRam(p)).ws = "none"
           /\ BootConn(BootRam(p)).old = 0 /\ ~BootConn(BootRam(p)).retiring
           /\ Fresh(BootConn(BootRam(p))) /\ ~BootConn(BootRam(p)).cancel
           /\ BootConn(BootRam(p)).retry = p.host
           /\ BootGuard \in GuardType /\ BootGuard.pc = "boot"
  <1> DEFINE x == IF OtherPaired THEN p.selected /\ p.host ELSE p.selected \/ p.host
  <1>1. x \in BOOLEAN /\ 0 \in Keys
    BY ScreenAssumption DEF Profiles, Keys
  <1>2. BootRam(p) = [p EXCEPT !.selected = x]
    BY DEF BootRam
  <1> HIDE DEF x
  <1>3. BootRam(p) \in Profiles /\ BootRam(p).key = p.key /\ BootRam(p).host = p.host
    BY <1>1, <1>2 DEF Profiles
  <1> QED BY <1>1, <1>3 DEF BootConn, ConnType, Fresh, BootGuard, GuardType, Profiles

\* The state a program starts in.
LEMMA BootInv ==
    ASSUME NEW p \in Profiles, p.key # 0 => p.host, NEW r, NEW c, r = BootRam(p),
           c = BootConn(r), NEW s \in ScaleType, s.sess = "none", s.up = <<>>
    PROVE  /\ SocketInv(c, "loop", r) /\ SavedInv(r, p) /\ SessionInv(c, s, r.key)
           /\ FramesInv(c, <<>>, s, r.key)
  <1>1. SocketInv(c, "loop", r) /\ SavedInv(r, p) /\ SessionInv(c, s, r.key)
    BY BootFacts DEF SocketInv, SavedInv, SessionInv, Fresh
  <1>2. <<>> \in Seq(FrameType) /\ \A i \in DOMAIN <<>> : FALSE
    BY EmptySeq
  <1>3. \A i \in DOMAIN s.up : FALSE
    BY EmptySeq
  <1> QED BY <1>1, <1>2, <1>3, PastFrames DEF FramesInv, CommandInv

\* A restart of the display.
LEMMA RebootStep ==
    ASSUME Inv, Reboot
    PROVE  Inv' /\ ForgetStep
  <1>1. /\ ram' = BootRam(nvs) /\ conn' = BootConn(ram') /\ frames' = <<>> /\ main' = "loop"
        /\ wifi' = FALSE /\ guard' = BootGuard /\ rearm' = FALSE /\ nvs' = nvs
        /\ scale' = [scale EXCEPT !.sess = "none", !.up = <<>>] /\ nvs \in Profiles
    BY DEF Reboot, Inv, TypeInv
  <1>2. scale' \in ScaleType /\ scale'.sess = "none" /\ scale'.up = <<>>
    BY <1>1, EmptySeq DEF Inv, TypeInv, ScaleType
  <1>3. budget' \in BudgetType
    BY FaultType DEF Reboot, Inv, TypeInv
  <1>4. /\ SocketInv(conn', main', ram') /\ SavedInv(ram', nvs')
        /\ SessionInv(conn', scale', ram'.key) /\ FramesInv(conn', frames', scale', ram'.key)
    <2>1. nvs.key # 0 => nvs.host
      BY DEF Inv, SavedInv
    <2>2. /\ SocketInv(conn', "loop", ram') /\ SavedInv(ram', nvs)
          /\ SessionInv(conn', scale', ram'.key) /\ FramesInv(conn', <<>>, scale', ram'.key)
      BY <1>1, <1>2, <2>1, BootInv
    <2> QED BY <1>1, <2>2
  <1>5. TypeInv'
    <2>1. ram' \in Profiles /\ conn' \in ConnType /\ guard' \in GuardType
      BY <1>1, BootFacts
    <2>2. frames' \in Seq(FrameType) /\ Len(frames') <= FrameSlots
      BY <1>1, EmptySeq, ScreenAssumption
    <2> QED BY <1>1, <1>2, <1>3, <2>1, <2>2 DEF TypeInv
  <1>6. NeverStranded' /\ GuardInv' /\ ForgetStep
    BY <1>1, BootFacts DEF NeverStranded, WayForward, GuardInv, ForgetStep
  <1> QED BY <1>4, <1>5, <1>6 DEF Inv

\* The Scale takes a message: it answers, it ends the session, or it does neither.
LEMMA ScaleTakesStep ==
    ASSUME Inv, ScaleTakes
    PROVE  Inv' /\ ForgetStep
  <1> DEFINE m == Head(scale.up)
             r == [scale EXCEPT !.up = Tail(@)]
             c == [r EXCEPT !.sess = IF @ = "none" THEN @ ELSE "closing"]
  <1>1. scale.up # <<>> /\ UNCHANGED <<ram, nvs, main, wifi, guard, rearm, budget>>
    BY DEF ScaleTakes
  <1>2. /\ r \in ScaleType /\ r.sess = scale.sess /\ r.offer = scale.offer
        /\ r.issued = scale.issued /\ r.made = scale.made
        /\ scale.sess # "none" /\ m \in UpType /\ UpInv(m, conn, scale, ram.key)
        /\ \A i \in DOMAIN frames : frames[i].kind # "up"
        /\ \A i \in DOMAIN r.up : r.up[i].kind # "hello"
        /\ m.kind = "hello" => \A i \in DOMAIN r.up : FALSE
        /\ m.kind = "command" => \A i \in DOMAIN r.up : r.up[i].kind # "command"
        /\ Settles(m, scale) => \A i \in DOMAIN frames : frames[i].kind \notin Handshake
        /\ SessionInv(conn, r, ram.key) /\ FramesInv(conn, frames, r, ram.key)
    BY <1>1, RestFacts
  <1>3. \/ /\ m.kind = "hello" /\ scale.sess = "new" /\ Push(conn, Frame("challenge", 0))
           /\ scale' = [r EXCEPT !.sess = "challenged"]
        \/ /\ m.kind = "hello" /\ m.n = 0 /\ scale.sess = "new" /\ scale.made < MaxKey
           /\ Push(conn, Frame("pair", scale.made + 1))
           /\ scale' = [r EXCEPT !.sess = "pairing", !.made = @ + 1, !.offer = scale.made + 1]
        \/ m.kind \in {"hello", "auth"} /\ scale' = c /\ UNCHANGED <<conn, frames>>
        \/ /\ m.kind = "auth" /\ scale.sess = "challenged"
           /\ Push(conn, Frame("authorized", 0)) /\ scale' = [r EXCEPT !.sess = "trusted"]
        \/ /\ m.kind = "cancel" /\ scale.sess = "pairing" /\ Push(conn, Frame("canceled", 0))
           /\ scale' = [r EXCEPT !.sess = "closing", !.window = FALSE]
        \/ /\ m.kind = "command" /\ scale.sess = "trusted"
           /\ Push(conn, Frame("result", m.n)) /\ scale' = r
        \/ m.kind \in {"cancel", "command"} /\ scale' = r /\ UNCHANGED <<conn, frames>>
    BY DEF ScaleTakes
  <1>4. c = [r EXCEPT !.sess = "closing"]
    BY <1>2
  <1> HIDE DEF m, r, c
  <1>5. ASSUME scale.sess \in {"new", "challenged"}
        PROVE  \A i \in DOMAIN frames : frames[i].kind \notin {"pair", "unpair"}
    BY <1>5 DEF Inv, FramesInv, FrameInv
  <1>6. ASSUME scale.sess = "new"
        PROVE  /\ \A i \in DOMAIN frames : frames[i].kind \notin Handshake \cup {"unpair"}
               /\ conn.link = 0
    BY <1>2, <1>6 DEF Inv, FramesInv, FrameInv, Handshake, SessionInv
  <1>7. ASSUME NEW t, t \in ScaleType, t.sess = "closing", t.up = r.up, t.offer = r.offer,
               t.issued = r.issued
        PROVE  SessionInv(conn, t, ram.key) /\ FramesInv(conn, frames, t, ram.key)
    BY <1>2, <1>7, ClosingFacts
  <1>8. CASE /\ m.kind = "hello" /\ scale.sess = "new" /\ Push(conn, Frame("challenge", 0))
             /\ scale' = [r EXCEPT !.sess = "challenged"]
    <2> DEFINE f == Frame("challenge", 0)
    <2>1. f \in FrameType /\ f.kind = "challenge"
      BY DEF Frame, FrameType
    <2> HIDE DEF f
    <2>2. /\ scale' \in ScaleType /\ scale'.sess = "challenged" /\ scale'.up = r.up
          /\ scale'.issued = r.issued /\ scale'.offer = r.offer
      BY <1>2, <1>8 DEF ScaleType
    <2>3. SessionInv(conn, scale', ram.key)
      BY <1>2, <1>6, <1>8, <2>2 DEF SessionInv
    <2>4. FramesInv(conn, frames, scale', ram.key)
      <3>1. \A i \in DOMAIN frames : FrameInv(frames[i], conn, scale', ram.key)
        BY <1>2, <1>6, <1>8, <2>2 DEF FramesInv, FrameInv, Handshake
      <3> QED BY <1>2, <1>8, <2>2, <3>1 DEF FramesInv, CommandInv
    <2>5. conn.ws = "open" => FrameInv(f, conn, scale', ram.key)
      BY <1>6, <1>8, <2>1, <2>2 DEF FrameInv
    <2>6. f.kind \notin Past \cup {"down", "up"}
      BY <2>1 DEF Past
    <2>7. Push(conn, f)
      BY <1>8 DEF f
    <2> QED BY <1>1, <1>2, <1>6, <1>8, <2>1, <2>2, <2>3, <2>4, <2>5, <2>6, <2>7, SayStep
  <1>9. CASE /\ m.kind = "hello" /\ m.n = 0 /\ scale.sess = "new" /\ scale.made < MaxKey
             /\ Push(conn, Frame("pair", scale.made + 1))
             /\ scale' = [r EXCEPT !.sess = "pairing", !.made = @ + 1, !.offer = scale.made + 1]
    <2> DEFINE k == scale.made + 1
               f == Frame("pair", k)
    <2>1. k \in Keys /\ k \in Nat /\ k # 0
      BY <1>9, ScreenAssumption DEF Inv, TypeInv, ScaleType, Keys
    <2>2. scale' = [r EXCEPT !.sess = "pairing", !.made = k, !.offer = k]
      BY <1>2, <1>9
    <2>3. f \in FrameType /\ f.kind = "pair" /\ f.n = k
      BY <2>1 DEF Frame, FrameType
    <2>4. Push(conn, f)
      BY <1>9
    <2> HIDE DEF k, f
    <2>5. /\ scale' \in ScaleType /\ scale'.sess = "pairing" /\ scale'.up = r.up
          /\ scale'.issued = r.issued /\ scale'.offer = k
      BY <1>2, <2>1, <2>2 DEF ScaleType
    <2>6. SessionInv(conn, scale', ram.key)
      BY <1>2, <1>6, <1>9, <2>1, <2>5 DEF SessionInv
    <2>7. FramesInv(conn, frames, scale', ram.key)
      <3>1. \A i \in DOMAIN frames : FrameInv(frames[i], conn, scale', ram.key)
        BY <1>2, <1>6, <1>9, <2>5 DEF FramesInv, FrameInv, Handshake
      <3> QED BY <1>2, <1>9, <2>5, <3>1 DEF FramesInv, CommandInv
    <2>8. ram.key = 0
      BY <1>2, <1>9 DEF UpInv
    <2>9. conn.ws = "open" => FrameInv(f, conn, scale', ram.key)
      BY <1>6, <1>9, <2>1, <2>3, <2>5, <2>8 DEF FrameInv
    <2>10. f.kind \notin Past \cup {"down", "up"}
      BY <2>3 DEF Past
    <2> QED BY <1>1, <1>2, <1>6, <1>9, <2>3, <2>4, <2>5, <2>6, <2>7, <2>9, <2>10, SayStep
  <1>10. CASE m.kind \in {"hello", "auth"} /\ scale' = c /\ UNCHANGED <<conn, frames>>
    <2>1. /\ scale' \in ScaleType /\ scale'.sess = "closing" /\ scale'.up = r.up
          /\ scale'.issued = r.issued /\ scale'.offer = r.offer
      BY <1>2, <1>4, <1>10 DEF ScaleType
    <2> QED BY <1>1, <1>7, <1>10, <2>1, SilentStep
  <1>11. CASE /\ m.kind = "auth" /\ scale.sess = "challenged"
              /\ Push(conn, Frame("authorized", 0)) /\ scale' = [r EXCEPT !.sess = "trusted"]
    <2> DEFINE f == Frame("authorized", 0)
    <2>1. f \in FrameType /\ f.kind = "authorized"
      BY DEF Frame, FrameType
    <2> HIDE DEF f
    <2>2. /\ scale' \in ScaleType /\ scale'.sess = "trusted" /\ scale'.up = r.up
          /\ scale'.issued = r.issued /\ scale'.offer = r.offer
      BY <1>2, <1>11 DEF ScaleType
    <2>3. \A i \in DOMAIN frames : frames[i].kind \notin Handshake \cup {"unpair"}
      BY <1>2, <1>5, <1>11 DEF Settles
    <2>4. \A i \in DOMAIN r.up : r.up[i].kind \notin {"hello", "command"}
      BY <1>2, <1>11 DEF FramesInv, UpInv
    <2>5. SessionInv(conn, scale', ram.key)
      BY <1>2, <1>11, <2>2 DEF SessionInv
    <2>6. FramesInv(conn, frames, scale', ram.key)
      <3>1. \A i \in DOMAIN frames : FrameInv(frames[i], conn, scale', ram.key)
        BY <1>2, <2>2, <2>3 DEF FramesInv, FrameInv, Handshake
      <3>2. \A i \in DOMAIN scale'.up : UpInv(scale'.up[i], conn, scale', ram.key)
        BY <2>2, <2>4 DEF UpInv
      <3> QED BY <1>2, <2>2, <2>3, <2>4, <3>1, <3>2 DEF FramesInv, CommandInv
    <2>7. conn.ws = "open" => FrameInv(f, conn, scale', ram.key)
      <3>1. ASSUME conn.ws = "open"
            PROVE  conn.link # 0 /\ ram.key # 0
        BY <1>2, <1>11, <3>1 DEF UpInv, Heard
      <3>2. ~conn.auth
        BY <1>11 DEF Inv, SessionInv
      <3> QED BY <2>1, <2>2, <3>1, <3>2 DEF FrameInv
    <2>8. f.kind \notin Past \cup {"down", "up"}
      BY <2>1 DEF Past
    <2>9. \A i \in DOMAIN scale'.up : ~Settles(scale'.up[i], scale')
      BY <2>2, <2>4 DEF Settles
    <2>10. Push(conn, f)
      BY <1>11 DEF f
    <2> QED
      BY <1>1, <1>2, <2>1, <2>2, <2>3, <2>4, <2>5, <2>6, <2>7, <2>8, <2>9, <2>10, SayStep
  <1>12. CASE /\ m.kind = "cancel" /\ scale.sess = "pairing" /\ Push(conn, Frame("canceled", 0))
              /\ scale' = [r EXCEPT !.sess = "closing", !.window = FALSE]
    <2> DEFINE f == Frame("canceled", 0)
    <2>1. f \in FrameType /\ f.kind = "canceled"
      BY DEF Frame, FrameType
    <2> HIDE DEF f
    <2>2. /\ scale' \in ScaleType /\ scale'.sess = "closing" /\ scale'.up = r.up
          /\ scale'.issued = r.issued /\ scale'.offer = r.offer
      BY <1>2, <1>12 DEF ScaleType
    <2>3. SessionInv(conn, scale', ram.key) /\ FramesInv(conn, frames, scale', ram.key)
      BY <1>7, <2>2
    <2>4. /\ conn.ws = "open" => FrameInv(f, conn, scale', ram.key)
          /\ f.kind \notin Past \cup {"down", "up"} /\ f.kind \notin Handshake
      BY <2>1 DEF FrameInv, Past, Handshake
    <2>5. Push(conn, f)
      BY <1>12 DEF f
    <2> QED BY <1>1, <1>2, <2>1, <2>2, <2>3, <2>4, <2>5, SayStep
  <1>13. CASE /\ m.kind = "command" /\ scale.sess = "trusted"
              /\ Push(conn, Frame("result", m.n)) /\ scale' = r
    <2> DEFINE f == Frame("result", m.n)
    <2>1. f \in FrameType /\ f.kind = "result" /\ f.n = m.n /\ m.n = r.issued /\ r.issued \in Nat
      BY <1>2, <1>13 DEF Frame, FrameType, UpType, UpInv, ScaleType
    <2> HIDE DEF f
    <2>2. /\ conn.ws = "open" => FrameInv(f, conn, scale', ram.key)
          /\ f.kind \notin Past \cup {"down", "up"} /\ f.kind \notin Handshake
      BY <1>13, <2>1 DEF FrameInv, Past, Handshake
    <2>3. Push(conn, f)
      BY <1>13 DEF f
    <2> QED BY <1>1, <1>2, <1>13, <2>1, <2>2, <2>3, SayStep
  <1>14. CASE m.kind \in {"cancel", "command"} /\ scale' = r /\ UNCHANGED <<conn, frames>>
    BY <1>1, <1>2, <1>14, SilentStep
  <1> QED BY <1>3, <1>8, <1>9, <1>10, <1>11, <1>12, <1>13, <1>14

-----------------------------------------------------------------------------
(* The invariant *)

\* A program that starts for the first time, paired or not.
LEMMA InitInv == Init => Inv
  <1> SUFFICES ASSUME Init
               PROVE  Inv
    OBVIOUS
  <1>1. PICK key \in 0 .. 1 :
          /\ nvs = [host |-> TRUE, key |-> key, selected |-> TRUE]
          /\ ram = BootRam(nvs) /\ conn = BootConn(ram)
          /\ frames = <<>> /\ main = "loop" /\ wifi = FALSE
          /\ guard = BootGuard /\ rearm = FALSE
          /\ scale = [key |-> key, window |-> FALSE, made |-> key, offer |-> 0,
                      sess |-> "none", up |-> <<>>, issued |-> 0]
          /\ budget = [moves |-> Moves, faults |-> Faults]
    BY DEF Init
  <1>2. key \in Keys /\ 0 \in Keys
    BY ScreenAssumption DEF Keys
  <1>3. nvs \in Profiles /\ nvs.host
    BY <1>1, <1>2 DEF Profiles
  <1>4. scale \in ScaleType /\ scale.sess = "none" /\ scale.up = <<>>
    BY <1>1, <1>2, EmptySeq DEF ScaleType
  <1>5. /\ SocketInv(conn, "loop", ram) /\ SavedInv(ram, nvs) /\ SessionInv(conn, scale, ram.key)
        /\ FramesInv(conn, <<>>, scale, ram.key)
    BY <1>1, <1>3, <1>4, BootInv
  <1>6. ram \in Profiles /\ conn \in ConnType /\ guard \in GuardType
    BY <1>1, <1>3, BootFacts
  <1>7. frames \in Seq(FrameType) /\ Len(frames) <= FrameSlots
    BY <1>1, EmptySeq, ScreenAssumption
  <1>8. budget \in BudgetType
    BY <1>1, ScreenAssumption DEF BudgetType
  <1>9. TypeInv
    BY <1>1, <1>3, <1>4, <1>6, <1>7, <1>8 DEF TypeInv
  <1>10. NeverStranded /\ GuardInv
    BY <1>1, <1>3, BootFacts DEF NeverStranded, WayForward, GuardInv
  <1> QED BY <1>1, <1>5, <1>9, <1>10 DEF Inv

\* Every step keeps the invariant, and brings no removed pairing back.
LEMMA NextStep == Inv /\ [Next]_vars => Inv' /\ ForgetStep
  <1> SUFFICES ASSUME Inv, [Next]_vars
               PROVE  Inv' /\ ForgetStep
    OBVIOUS
  <1>1. CASE OnFrame
    BY <1>1, FrameStaleStep, FrameDownStep, FrameUpStep, FramePairStep, FrameChallengeStep,
       FrameCanceledStep, FrameAuthorizedStep, FrameStateStep, FrameResultStep,
       FrameUnpairStep DEF OnFrame
  <1>2. CASE Action
    BY <1>2, CancelPairingStep, SaveSettingsStep, SaveWifiStep, SaveHostStep,
       ForgetActionStep, SwitchScaleStep, CommandStep, PairingRearmStep DEF Action
  <1>3. CASE Housekeeping
    BY <1>3, CancelTimeoutStep, RetryStep, HeartbeatFailsStep, StateStaleStep,
       CommandTimeoutStep, ProbeEndsStep DEF Housekeeping
  <1>4. CASE Background
    BY <1>4, SocketUpStep, SocketEndsStep, RetireDoneStep, WifiChangeStep,
       OtherFrameStep DEF Background
  <1>5. CASE GuardTask
    BY <1>5, GuardLoadsStep, GuardReadsStep, GuardRemovesStep, GuardGivesUpStep DEF GuardTask
  <1>6. CASE Environment
    BY <1>6, OpenWindowStep, ApproveStep, UnpairAtScaleStep, ReportStep, ScaleTakesStep,
       ScaleExpiresStep, RebootStep DEF Environment
  <1>7. CASE UNCHANGED vars
    <2>1. TypeInv' /\ SavedInv(ram', nvs') /\ GuardInv'
      BY <1>7 DEF vars, Inv, TypeInv, GuardInv
    <2> QED BY <1>7, <2>1, SameFacts, QuietStep DEF vars
  <1> QED BY <1>1, <1>2, <1>3, <1>4, <1>5, <1>6, <1>7 DEF Next

\* The invariant holds in every state.
LEMMA InvHolds == Spec => []Inv
  BY InitInv, NextStep, PTL DEF Spec

-----------------------------------------------------------------------------
(* The theorems *)

\* The variables stay in their ranges, and the queue of the main loop within its places.
THEOREM TypeCorrect == Spec => []TypeOK
  <1>1. Inv => TypeOK
    BY DEF Inv, TypeInv, TypeOK, ConnType
  <1> QED BY <1>1, InvHolds, PTL

\* A slot never has two WebSockets: none is started before the worker has destroyed the
\* last one, so the worker's queue holds one handle at most and never refuses one.
THEOREM OneSocketHolds == Spec => []OneSocket
  <1>1. Inv => OneSocket
    BY DEF Inv, SocketInv, OneSocket
  <1> QED BY <1>1, InvHolds, PTL

\* A session counts as trusted only with the pairing that is in use and in flash.
THEOREM AuthenticatedIsSavedHolds == Spec => []AuthenticatedIsSaved
  <1>1. Inv => AuthenticatedIsSaved
    <2> SUFFICES ASSUME Inv, conn.auth
                 PROVE  /\ conn.ws # "none" /\ ram.host
                        /\ ram.key # 0 /\ conn.link = ram.key
                        /\ nvs.key = ram.key \/ (~nvs.host /\ nvs.key = 0)
      BY DEF AuthenticatedIsSaved
    <2>1. conn.link # 0 /\ ram.key # 0 /\ conn.link = ram.key /\ conn.ws # "none"
      BY DEF Inv, SessionInv
    <2> QED BY <2>1 DEF Inv, SavedInv
  <1> QED BY <1>1, InvHolds, PTL

\* Unless a full queue has swallowed the end or the authorization of its session, a
\* paired slot has something under way that brings it online without a user.
THEOREM NeverStrandedHolds == Spec => []NeverStranded
  <1>1. Inv => NeverStranded
    BY DEF Inv
  <1> QED BY <1>1, InvHolds, PTL

\* A command that the display gave up on never reaches the Scale after a later one.
THEOREM NoLateCommandHolds == Spec => []NoLateCommand
  <1>1. Inv => NoLateCommand
    BY DEF Inv, FramesInv, UpInv, NoLateCommand
  <1> QED BY <1>1, InvHolds, PTL

\* The pairing guard removes the pairing in use at the Scale only when the flash held
\* none as the guard last read it.
THEOREM GuardSparesPairingHolds == Spec => GuardSparesPairing
  <1>1. Inv => (GuardRemoves /\ scale.key # 0 /\ scale'.key = 0 /\ scale.key = ram.key
                  => ~guard.paired)
    BY DEF Inv, GuardInv, GuardRemoves
  <1> QED BY <1>1, InvHolds, PTL DEF GuardSparesPairing

\* A removed pairing does not come back: the next one is the one just agreed, or a
\* restart finds in flash one whose removal was not saved.
THEOREM ForgottenStaysForgottenHolds == Spec => ForgottenStaysForgotten
  <1>1. Inv /\ [Next]_vars
          => (ram.key = 0 /\ ram'.key # 0 => ram'.key = scale.offer \/ nvs.key = ram'.key)
    BY NextStep DEF ForgetStep
  <1> QED BY <1>1, InvHolds, PTL DEF Spec, ForgottenStaysForgotten
=============================================================================
