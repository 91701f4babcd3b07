----------------------------- MODULE ScaleFetch -----------------------------
(***************************************************************************)
(* One BLE fetch of the e-paper display (ble_client_fetch_mode), read by   *)
(* read, with the GATT cache it keeps in RTC memory for touch checks and   *)
(* the one rediscovery a stale cache is allowed.  The Scale's profile,     *)
(* configuration and command may change between any two reads, its         *)
(* firmware (and so its attribute handles) between two connections.        *)
(*                                                                         *)
(* Data abstraction: a profile or configuration is the number of edits it  *)
(* took; on the wire its revision is that number modulo RevMod (256).  The *)
(* ten handles are the firmware they were discovered from.  DisplayWake    *)
(* sees a whole fetch as one step.                                         *)
(***************************************************************************)
EXTENDS Naturals

CONSTANTS
  Scales,          \* Scales the display may be paired with, one at a time
  Firmwares,       \* Scale firmware versions
  AckFirmwares,    \* those with a command-acknowledgement characteristic
  RevMod,          \* revisions wrap at this value
  NoThreshold,     \* touch_threshold_percent = 0: the display keeps its own
  MaxEdits         \* bound: edits, upgrades, commands and new pairings

ASSUME FetchAssumption ==
  /\ AckFirmwares \subseteq Firmwares
  /\ RevMod \in Nat /\ MaxEdits \in Nat /\ MaxEdits < RevMod
  /\ NoThreshold \notin Nat

VARIABLES
  \* the Scales (external)
  fw,           \* firmware of each
  profile,      \* edits of each one's keg profile
  config,       \* edits of each one's display configuration
  cmd,          \* a command is queued for the display
  reported,     \* it knows the firmware of the connected display
  edits,        \* how many such changes so far
  \* the display
  peer,         \* the paired Scale
  cache,        \* s_gatt_cache
  pc,           \* next step of the fetch
  maintenance,  \* full fetch (scheduled check) or lightweight (touch check)
  cached,       \* cached handles are in use
  handles,      \* the firmware the handles belong to
  st            \* *state

scale == <<fw, profile, config, cmd, reported, edits>>
fetch == <<pc, maintenance, cached, handles, st>>
vars  == <<scale, peer, cache, fetch>>

NoCache == [valid |-> FALSE]
NoState == [profile |-> 0, name |-> 0, config |-> 0, touch |-> NoThreshold, cmd |-> FALSE]

Wire(n) == n % RevMod

CacheType ==
  {NoCache} \cup [valid : {TRUE}, peer : Scales, fw : Firmwares,
                  profile : 0..(RevMod - 1), name : 0..MaxEdits,
                  config : 0..(RevMod - 1), touch : 0..MaxEdits \cup {NoThreshold}]
StateType == [profile : 0..MaxEdits, name : 0..MaxEdits, config : 0..MaxEdits,
              touch : 0..MaxEdits \cup {NoThreshold}, cmd : BOOLEAN]

Steps == {"handles", "identity", "snapshot", "name", "config", "touch", "info",
          "control", "end", "failed"}

TypeOK ==
  /\ fw \in [Scales -> Firmwares]
  /\ profile \in [Scales -> 0..MaxEdits] /\ config \in [Scales -> 0..MaxEdits]
  /\ cmd \in [Scales -> BOOLEAN] /\ reported \in BOOLEAN /\ edits \in 0..MaxEdits
  /\ peer \in Scales /\ cache \in CacheType
  /\ pc \in Steps \cup {"idle"}
  /\ maintenance \in BOOLEAN /\ cached \in BOOLEAN
  /\ handles \in Firmwares /\ st \in StateType
  /\ pc # "idle" /\ cached => cache # NoCache

Init ==
  /\ fw \in [Scales -> Firmwares]
  /\ profile = [s \in Scales |-> 0] /\ config = [s \in Scales |-> 0]
  /\ cmd = [s \in Scales |-> FALSE] /\ reported = FALSE /\ edits = 0
  /\ peer \in Scales /\ cache = NoCache
  /\ pc = "idle" /\ maintenance = TRUE /\ cached = FALSE
  /\ handles = fw[peer] /\ st = NoState

----------------------------------------------------------------------------
(* The fetch *)

GoTo(l) == pc' = l

\* Only a touch check uses the cache, and only of the same Scale.
CacheFits(m) == ~m /\ cache.valid /\ cache.peer = peer

\* ble_client_fetch_mode up to the rediscover label; a failed connection
\* returns before anything else.
Connect(m) ==
  /\ pc = "idle"
  /\ maintenance' = m /\ cached' = CacheFits(m)
  /\ st' = NoState /\ reported' = FALSE
  /\ GoTo("handles")
  /\ UNCHANGED <<fw, profile, config, cmd, edits, peer, cache, handles>>

\* rediscover: cached handles, or discover_handles.
Handles ==
  /\ pc = "handles"
  /\ handles' = IF cached THEN cache.fw ELSE fw[peer]
  /\ GoTo("identity")
  /\ UNCHANGED <<scale, peer, cache, maintenance, cached, st>>

\* Give up the cache and start over with discovered handles.
Rediscover == GoTo("handles") /\ cache' = NoCache /\ cached' = FALSE

Fail == GoTo("failed") /\ UNCHANGED <<cache, cached>>

\* Mutant: every failed read is retried.
Retry_Always == Rediscover /\ UNCHANGED <<scale, peer, maintenance, handles, st>>

\* A read whose failure a stale cache explains.
Retry ==
  /\ IF cached THEN Rediscover ELSE Fail
  /\ UNCHANGED <<scale, peer, maintenance, handles, st>>

Proceed(l) == GoTo(l) /\ UNCHANGED <<scale, peer, cache, maintenance, cached, handles>>

\* Mutant: a readable identity is enough.
IdentityMatches_Readable == TRUE

\* A stale device-info handle reads something else; the cached identity names
\* the firmware it was read from.
IdentityMatches == handles = fw[peer] /\ (cached => cache.fw = fw[peer] /\ cache.peer = peer)

ReadIdentity ==
  /\ pc = "identity" /\ IdentityMatches
  /\ Proceed("snapshot") /\ UNCHANGED st

\* The read fails or the identity is not the expected one.
IdentityFails == pc = "identity" /\ Retry

ReadSnapshot ==
  /\ pc = "snapshot"
  /\ st' = [st EXCEPT !.profile = profile[peer]]
  /\ Proceed("name")

SnapshotFails == pc = "snapshot" /\ Retry

\* Mutant: a cached name is good for any profile.
NameCached_Always == cached

NameCached == cached /\ Wire(st.profile) = cache.profile

\* The keg name is read unless the cache has it for this profile revision.
ReadName ==
  /\ pc = "name"
  /\ st' = [st EXCEPT !.name = IF NameCached THEN cache.name ELSE profile[peer]]
  /\ Proceed("config")

NameFails ==
  /\ pc = "name" /\ ~NameCached /\ Fail
  /\ UNCHANGED <<scale, peer, maintenance, handles, st>>

ReadConfig ==
  /\ pc = "config"
  /\ st' = [st EXCEPT !.config = config[peer]]
  /\ Proceed("touch")

\* Without a cache to blame, the defaults stand in for the configuration.
ConfigFails ==
  /\ pc = "config"
  /\ \/ cached /\ Retry
     \/ ~cached /\ Proceed("touch") /\ UNCHANGED st

TouchCached == cached /\ Wire(st.config) = cache.config

ReadTouch ==
  /\ pc = "touch"
  /\ st' = [st EXCEPT !.touch = IF TouchCached THEN cache.touch ELSE config[peer]]
  /\ Proceed("info")

TouchFails ==
  /\ pc = "touch" /\ ~TouchCached
  /\ \/ cached /\ Retry
     \/ ~cached /\ Proceed("info") /\ UNCHANGED st

\* Encrypt and write the display's firmware and battery.
WriteInfo ==
  /\ pc = "info"
  /\ reported' = TRUE
  /\ GoTo("control")
  /\ UNCHANGED <<fw, profile, config, cmd, edits, peer, cache, maintenance, cached,
                 handles, st>>

\* Mutant: the command is read whether or not the report was written.
AfterInfoFailed_Always == "control"

\* A command that must be acknowledged is not read before the Scale knows that
\* this display can acknowledge it.
AfterInfoFailed == IF handles \in AckFirmwares THEN "failed" ELSE "control"

\* The write may have arrived and its answer been lost.
InfoFails ==
  /\ pc = "info"
  /\ reported' \in {reported, TRUE}
  /\ GoTo(AfterInfoFailed)
  /\ UNCHANGED <<fw, profile, config, cmd, edits, peer, cache, maintenance, cached,
                 handles, st>>

\* External: a Scale clears the command when it is read unless both sides
\* acknowledge.
CommandRead ==
  cmd' = IF fw[peer] \in AckFirmwares /\ reported THEN cmd
         ELSE [cmd EXCEPT ![peer] = FALSE]

ReadControl ==
  /\ pc = "control"
  /\ st' = [st EXCEPT !.cmd = cmd[peer]]
  /\ CommandRead
  /\ GoTo("end")
  /\ UNCHANGED <<fw, profile, config, reported, edits, peer, cache, maintenance,
                 cached, handles>>

\* The read may have been served and its answer lost.
ControlFails ==
  /\ pc = "control"
  /\ CommandRead \/ UNCHANGED cmd
  /\ IF cached THEN Rediscover ELSE Fail
  /\ UNCHANGED <<fw, profile, config, reported, edits, peer, maintenance, handles,
                 st>>

\* disconnect_peer and the new cache.
End ==
  /\ pc = "end"
  /\ cache' = [valid |-> TRUE, peer |-> peer, fw |-> handles,
               profile |-> Wire(st.profile), name |-> st.name,
               config |-> Wire(st.config), touch |-> st.touch]
  /\ GoTo("idle")
  /\ UNCHANGED <<scale, peer, maintenance, cached, handles, st>>

Failed ==
  /\ pc = "failed"
  /\ cache' = NoCache
  /\ GoTo("idle")
  /\ UNCHANGED <<scale, peer, maintenance, cached, handles, st>>

FetchStep ==
  \/ Handles
  \/ ReadIdentity \/ IdentityFails \/ ReadSnapshot \/ SnapshotFails
  \/ ReadName \/ NameFails \/ ReadConfig \/ ConfigFails
  \/ ReadTouch \/ TouchFails \/ WriteInfo \/ InfoFails
  \/ ReadControl \/ ControlFails \/ End \/ Failed

----------------------------------------------------------------------------
(* Between and during fetches *)

Change == edits < MaxEdits /\ edits' = edits + 1

EditProfile(s) ==
  /\ Change /\ profile' = [profile EXCEPT ![s] = @ + 1]
  /\ UNCHANGED <<fw, config, cmd, reported, peer, cache, fetch>>

EditConfig(s) ==
  /\ Change /\ config' = [config EXCEPT ![s] = @ + 1]
  /\ UNCHANGED <<fw, profile, cmd, reported, peer, cache, fetch>>

QueueCommand(s) ==
  /\ Change /\ cmd' = [cmd EXCEPT ![s] = TRUE]
  /\ UNCHANGED <<fw, profile, config, reported, peer, cache, fetch>>

\* The Scale restarts into another firmware; a connection is lost with it.
Upgrade(s, f) ==
  /\ Change /\ fw' = [fw EXCEPT ![s] = f]
  /\ IF s = peer /\ pc # "idle" THEN GoTo("failed") ELSE UNCHANGED pc
  /\ reported' = (reported /\ s # peer)
  /\ UNCHANGED <<profile, config, cmd, peer, cache, maintenance, cached, handles,
                 st>>

\* The display is paired with a Scale again; its cache is not cleared.
Pair(s) ==
  /\ pc = "idle" /\ Change
  /\ peer' = s
  /\ UNCHANGED <<fw, profile, config, cmd, reported, cache, fetch>>

\* ble_client_save_touch_threshold over a connection of its own; with its answer
\* lost, the threshold is saved and the cache kept.
SaveThreshold ==
  /\ pc = "idle" /\ Change
  /\ config' = [config EXCEPT ![peer] = @ + 1]
  /\ cache' \in {NoCache, cache}
  /\ UNCHANGED <<fw, profile, cmd, reported, peer, fetch>>

\* A reset other than a wake from deep sleep.
Reset ==
  /\ pc' = "idle" /\ cache' = NoCache /\ reported' = FALSE
  /\ UNCHANGED <<fw, profile, config, cmd, edits, peer, maintenance, cached,
                 handles, st>>

Next ==
  \/ FetchStep \/ SaveThreshold \/ Reset
  \/ \E m \in BOOLEAN : Connect(m)
  \/ \E s \in Scales :
       \/ EditProfile(s) \/ EditConfig(s) \/ QueueCommand(s) \/ Pair(s)
       \/ \E f \in Firmwares : Upgrade(s, f)

\* Every read, write and connection attempt of a fetch has its own timeout.
Fairness == WF_vars(FetchStep)

Spec == Init /\ [][Next]_vars /\ Fairness

----------------------------------------------------------------------------
(* Properties *)

\* docs/power-management.md: cached handles are validated before they are used;
\* so a write goes to the characteristic it is meant for, although the Scale was
\* upgraded or replaced since the handles were cached.
WritesHitTheirCharacteristic == pc \in {"info", "control"} => handles = fw[peer]

\* What a successful fetch returns belongs together: the keg name is not older
\* than the profile revision it is returned with, although it may come from the
\* cache and the Scale may be edited between any two reads.
NameOfItsRevision == pc = "end" => st.name >= st.profile

\* A Scale that acknowledges commands keeps the one it has queued: a fetch reads
\* it only once the Scale knows that this display acknowledges, whichever reads
\* failed and whatever the Scale was upgraded to.  Any other Scale loses its
\* command to the read alone.  (DisplayWake's fetch relies on this.)
CommandSurvivesRead ==
  [][\A s \in Scales : cmd[s] /\ ~cmd'[s] =>
       s = peer /\ pc = "control" /\ fw[s] \notin AckFirmwares]_vars

\* docs/power-management.md: invalid reads trigger one rediscovery within the
\* connection; so however reads fail and the Scale is edited, the fetch returns
\* and the display goes back to sleep.
FetchReturns == pc # "idle" ~> pc = "idle"

\* The steps a fetch has left: those of its pass, and of a second pass while there
\* is a cache to give up.
Position ==
  [handles |-> 11, identity |-> 10, snapshot |-> 9, name |-> 8, config |-> 7,
   touch |-> 6, info |-> 5, control |-> 4, end |-> 3, failed |-> 2, idle |-> 0]
Left == IF pc = "idle" THEN 0 ELSE Position[pc] + (IF cached THEN 11 ELSE 0)

\* Every step of a fetch leaves fewer of them, whichever reads fail and however
\* the Scale changes meanwhile: the cache is given up at most once, so no run of
\* failures keeps the display connected.
FetchAdvances == [][pc # "idle" /\ fetch' # fetch => Left' < Left]_vars
============================================================================
