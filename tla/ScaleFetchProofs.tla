-------------------------- MODULE ScaleFetchProofs --------------------------
(***************************************************************************)
(* For any Scales and firmwares, and as long as revisions do not wrap:     *)
(* cached handles are never written through unchecked, and a fetch never   *)
(* returns a keg name older than the revision it returns with it.          *)
(***************************************************************************)
EXTENDS ScaleFetch, TLAPS

\* No Scale took more edits than there were.
Counted == \A s \in Scales : profile[s] <= edits /\ config[s] <= edits

\* The profile revision of this fetch was current when it was read.
ProfileIsPast == pc # "idle" => st.profile <= profile[peer]

\* A name and a revision that are cached together could have been read in that
\* order.
CachedName == cache # NoCache => cache.name >= cache.profile

\* Once the keg name is known, it is not older than the profile revision.
ReadingName ==
  pc \in {"config", "touch", "info", "control", "end"} => st.name >= st.profile

\* Once the identity was checked, the handles are the connected Scale's.
CheckedHandles ==
  pc \in {"snapshot", "name", "config", "touch", "info", "control", "end"}
    => handles = fw[peer]

\* A command that must be acknowledged is read only after the report was written.
ReportedFirst == pc = "control" /\ handles \in AckFirmwares => reported

FetchInv ==
  /\ TypeOK /\ Counted
  /\ ProfileIsPast /\ CachedName /\ ReadingName /\ CheckedHandles /\ ReportedFirst

\* As long as revisions do not wrap, the wire carries the revision.
LEMMA WireIsRevision ==
  ASSUME NEW n \in 0..MaxEdits
  PROVE  Wire(n) = n /\ n \in 0..(RevMod - 1)
  BY FetchAssumption DEF Wire

\* A cache that was filled has every field; an empty one has none to use.
LEMMA CacheFields ==
  ASSUME TypeOK, cache # NoCache
  PROVE  /\ cache.peer \in Scales /\ cache.fw \in Firmwares
         /\ cache.profile \in 0..(RevMod - 1) /\ cache.name \in 0..MaxEdits
         /\ cache.config \in 0..(RevMod - 1)
         /\ cache.touch \in 0..MaxEdits \cup {NoThreshold}
  BY DEF TypeOK, CacheType

\* The cleared cache is a cache that says it is not valid.
LEMMA EmptyCache == NoCache \in CacheType /\ NoCache.valid = FALSE
  BY DEF CacheType, NoCache

\* Any other cache says that it is valid.
LEMMA FilledCache ==
  ASSUME cache \in CacheType, cache # NoCache
  PROVE  cache.valid = TRUE
  BY DEF CacheType

\* A fetch starts from a cleared result.
LEMMA EmptyState == NoState \in StateType /\ NoState.profile = 0
  BY FetchAssumption DEF NoState, StateType

\* A Scale nobody edited and an empty cache satisfy the invariant.
LEMMA InitEstablishes == Init => FetchInv
  <1> SUFFICES ASSUME Init PROVE FetchInv
    OBVIOUS
  <1>1. /\ fw \in [Scales -> Firmwares] /\ peer \in Scales /\ handles \in Firmwares
        /\ cache \in CacheType /\ st \in StateType
    BY EmptyCache, EmptyState DEF Init
  <1>2. /\ profile \in [Scales -> 0..MaxEdits] /\ config \in [Scales -> 0..MaxEdits]
        /\ cmd \in [Scales -> BOOLEAN] /\ edits \in 0..MaxEdits
    BY FetchAssumption DEF Init
  <1>3. TypeOK
    BY <1>1, <1>2 DEF Init, TypeOK
  <1>. QED
    BY <1>3 DEF Init, FetchInv, Counted, ProfileIsPast, CachedName, ReadingName,
                CheckedHandles, ReportedFirst

\* Giving up the cache, or the fetch, keeps everything the invariant says.
LEMMA RetryKeeps == FetchInv /\ pc # "idle" /\ Retry => FetchInv'
  <1> SUFFICES ASSUME FetchInv, pc # "idle", Retry PROVE FetchInv'
    OBVIOUS
  <1> USE DEF FetchInv, TypeOK, Counted, ProfileIsPast, CachedName, ReadingName,
              CheckedHandles, ReportedFirst, Steps
  <1>1. UNCHANGED <<fw, profile, config, cmd, reported, edits, peer, maintenance,
                    handles, st>>
    BY DEF Retry, scale
  <1>2. CASE cached
    BY <1>1, <1>2, EmptyCache DEF Retry, Rediscover, GoTo
  <1>3. CASE ~cached
    BY <1>1, <1>3 DEF Retry, Fail, GoTo
  <1>. QED
    BY <1>2, <1>3

\* No step of a fetch, of the Scale or of a pairing breaks it.
LEMMA NextKeeps == FetchInv /\ [Next]_vars => FetchInv'
  <1> SUFFICES ASSUME FetchInv, [Next]_vars PROVE FetchInv'
    OBVIOUS
  <1> USE FetchAssumption
  <1> USE DEF FetchInv, TypeOK, Counted, ProfileIsPast, CachedName, ReadingName,
              CheckedHandles, ReportedFirst, Steps
  <1>1. ASSUME NEW m \in BOOLEAN, Connect(m) PROVE FetchInv'
    <2>1. cached' \in BOOLEAN /\ (cached' => cache' # NoCache)
      <3>1. CASE cache = NoCache
        BY <1>1, <3>1, EmptyCache DEF Connect, CacheFits
      <3>2. CASE cache # NoCache
        BY <1>1, <3>2, FilledCache DEF Connect, CacheFits
      <3>. QED
        BY <3>1, <3>2
    <2>2. st' \in StateType /\ st'.profile = 0
      BY <1>1, EmptyState DEF Connect
    <2>3. /\ pc' = "handles" /\ maintenance' \in BOOLEAN /\ reported' = FALSE
          /\ UNCHANGED <<fw, profile, config, cmd, edits, peer, cache, handles>>
      BY <1>1 DEF Connect, GoTo
    <2>4. TypeOK'
      BY <2>1, <2>2, <2>3
    <2>5. ProfileIsPast'
      BY <2>2, <2>3
    <2>. QED
      BY <2>3, <2>4, <2>5
  <1>2. CASE Handles
    BY <1>2, CacheFields DEF Handles, GoTo, scale
  <1>3. CASE ReadIdentity
    BY <1>3 DEF ReadIdentity, IdentityMatches, Proceed, GoTo, scale
  <1>4. CASE IdentityFails \/ SnapshotFails
    BY <1>4, RetryKeeps DEF IdentityFails, SnapshotFails
  <1>5. CASE ReadSnapshot
    BY <1>5 DEF ReadSnapshot, Proceed, GoTo, scale, StateType
  <1>6. CASE ReadName
    <2>1. NameCached => cache.name \in 0..MaxEdits /\ cache.name >= st.profile
      BY <1>6, CacheFields, WireIsRevision DEF ReadName, NameCached, StateType
    <2>. QED
      BY <1>6, <2>1 DEF ReadName, Proceed, GoTo, scale, StateType
  <1>7. CASE NameFails
    BY <1>7 DEF NameFails, Fail, GoTo, scale
  <1>8. CASE ReadConfig
    BY <1>8 DEF ReadConfig, Proceed, GoTo, scale, StateType
  <1>9. CASE ConfigFails
    <2>1. CASE Retry
      BY <1>9, <2>1, RetryKeeps DEF ConfigFails
    <2>2. CASE Proceed("touch") /\ UNCHANGED st
      BY <1>9, <2>2 DEF ConfigFails, Proceed, GoTo, scale
    <2>. QED
      BY <1>9, <2>1, <2>2 DEF ConfigFails
  <1>10. CASE ReadTouch
    <2>1. TouchCached => cache.touch \in 0..MaxEdits \cup {NoThreshold}
      BY <1>10, CacheFields DEF ReadTouch, TouchCached
    <2>. QED
      BY <1>10, <2>1 DEF ReadTouch, Proceed, GoTo, scale, StateType
  <1>11. CASE TouchFails
    <2>1. CASE Retry
      BY <1>11, <2>1, RetryKeeps DEF TouchFails
    <2>2. CASE Proceed("info") /\ UNCHANGED st
      BY <1>11, <2>2 DEF TouchFails, Proceed, GoTo, scale
    <2>. QED
      BY <1>11, <2>1, <2>2 DEF TouchFails
  <1>12. CASE WriteInfo
    BY <1>12 DEF WriteInfo, GoTo
  <1>13. CASE InfoFails
    BY <1>13 DEF InfoFails, AfterInfoFailed, GoTo
  <1>14. CASE ReadControl
    BY <1>14 DEF ReadControl, CommandRead, GoTo, StateType
  <1>15. CASE ControlFails
    BY <1>15, EmptyCache DEF ControlFails, CommandRead, Rediscover, Fail, GoTo
  <1>16. CASE End
    <2>1. /\ Wire(st.profile) = st.profile /\ Wire(st.config) = st.config
          /\ st.profile \in 0..(RevMod - 1) /\ st.config \in 0..(RevMod - 1)
      BY WireIsRevision DEF StateType
    <2>2. cache' \in CacheType
      BY <1>16, <2>1 DEF End, CacheType, StateType
    <2>3. CachedName'
      BY <1>16, <2>1 DEF End
    <2>. QED
      BY <1>16, <2>2, <2>3 DEF End, GoTo, scale
  <1>17. CASE Failed \/ Reset
    BY <1>17, EmptyCache DEF Failed, Reset, GoTo, scale
  <1>18. CASE SaveThreshold
    <2>1. /\ config' \in [Scales -> 0..MaxEdits] /\ edits' \in 0..MaxEdits
          /\ Counted'
      BY <1>18 DEF SaveThreshold, Change
    <2>2. cache' \in CacheType /\ CachedName'
      BY <1>18, EmptyCache DEF SaveThreshold
    <2>. QED
      BY <1>18, <2>1, <2>2 DEF SaveThreshold, fetch
  <1>19. ASSUME NEW s \in Scales,
                EditProfile(s) \/ EditConfig(s) \/ QueueCommand(s) \/ Pair(s)
         PROVE  FetchInv'
    <2>1. CASE EditProfile(s)
      BY <2>1 DEF EditProfile, Change, fetch, StateType
    <2>2. CASE EditConfig(s)
      BY <2>2 DEF EditConfig, Change, fetch
    <2>3. CASE QueueCommand(s)
      BY <2>3 DEF QueueCommand, Change, fetch
    <2>4. CASE Pair(s)
      BY <2>4 DEF Pair, Change, fetch
    <2>. QED
      BY <1>19, <2>1, <2>2, <2>3, <2>4
  <1>20. ASSUME NEW s \in Scales, NEW f \in Firmwares, Upgrade(s, f) PROVE FetchInv'
    BY <1>20 DEF Upgrade, Change, GoTo
  <1>21. CASE UNCHANGED vars
    BY <1>21 DEF vars, scale, fetch
  <1>. QED
    BY <1>1, <1>2, <1>3, <1>4, <1>5, <1>6, <1>7, <1>8, <1>9, <1>10, <1>11, <1>12,
       <1>13, <1>14, <1>15, <1>16, <1>17, <1>18, <1>19, <1>20, <1>21
    DEF Next, FetchStep

\* Every reachable state of ble_client_fetch_mode satisfies the invariant.
THEOREM InvHolds == Spec => []FetchInv
  BY InitEstablishes, NextKeeps, PTL DEF Spec

\* A cache in use is a filled one, and everything a fetch holds is in range,
\* for any number of Scales, firmwares and edits short of a revision wrap.
THEOREM TypeCorrect == Spec => []TypeOK
  <1>1. FetchInv => TypeOK
    BY DEF FetchInv
  <1>. QED
    BY <1>1, InvHolds, PTL

\* ble_client_fetch_mode writes the display's report, and reads its command,
\* through the handles of the Scale it is connected to.
THEOREM WritesHitTheirCharacteristicHolds == Spec => []WritesHitTheirCharacteristic
  <1>1. FetchInv => WritesHitTheirCharacteristic
    BY DEF FetchInv, CheckedHandles, WritesHitTheirCharacteristic
  <1>. QED
    BY <1>1, InvHolds, PTL

\* The keg name a fetch returns, cached or read, is not older than the profile
\* revision it returns.
THEOREM NameOfItsRevisionHolds == Spec => []NameOfItsRevision
  <1>1. FetchInv => NameOfItsRevision
    BY DEF FetchInv, ReadingName, NameOfItsRevision
  <1>. QED
    BY <1>1, InvHolds, PTL

\* A command is cleared by its read alone, and only by a Scale that this display
\* does not acknowledge to.
LEMMA StepKeepsCommand ==
  ASSUME FetchInv, [Next]_vars, NEW s \in Scales, cmd[s], ~cmd'[s]
  PROVE  s = peer /\ pc = "control" /\ fw[s] \notin AckFirmwares
  <1>1. ASSUME CommandRead, pc = "control"
        PROVE  s = peer /\ fw[s] \notin AckFirmwares
    <2>1. handles = fw[peer] /\ cmd \in [Scales -> BOOLEAN]
      BY <1>1 DEF FetchInv, CheckedHandles, TypeOK
    <2>2. fw[peer] \notin AckFirmwares
      BY <1>1, <2>1 DEF CommandRead, FetchInv, ReportedFirst
    <2>. QED
      BY <1>1, <2>1, <2>2 DEF CommandRead
  <1>2. CASE ReadControl
    BY <1>1, <1>2 DEF ReadControl
  <1>3. CASE ControlFails
    BY <1>1, <1>3 DEF ControlFails
  <1>4. ASSUME NEW q \in Scales, QueueCommand(q) PROVE FALSE
    BY <1>4 DEF QueueCommand, FetchInv, TypeOK
  <1>5. CASE Handles \/ ReadIdentity \/ IdentityFails \/ ReadSnapshot
             \/ SnapshotFails \/ ReadName \/ NameFails \/ ReadConfig \/ ConfigFails
             \/ ReadTouch \/ TouchFails \/ WriteInfo \/ InfoFails \/ End \/ Failed
    BY <1>5 DEF Handles, ReadIdentity, IdentityFails, ReadSnapshot, SnapshotFails,
      ReadName, NameFails, ReadConfig, ConfigFails, ReadTouch, TouchFails, WriteInfo,
      InfoFails, End, Failed, Retry, Proceed, scale
  <1>6. CASE SaveThreshold \/ Reset \/ (\E m \in BOOLEAN : Connect(m))
             \/ (\E q \in Scales : EditProfile(q) \/ EditConfig(q) \/ Pair(q)
                  \/ \E f \in Firmwares : Upgrade(q, f))
    BY <1>6 DEF SaveThreshold, Reset, Connect, EditProfile, EditConfig, Pair, Upgrade
  <1>7. CASE UNCHANGED vars
    BY <1>7 DEF vars, scale
  <1>. QED
    BY <1>2, <1>3, <1>4, <1>5, <1>6, <1>7 DEF Next, FetchStep

\* A fetch takes a command off no Scale that expects an acknowledgement of it.
THEOREM CommandSurvivesReadHolds == Spec => CommandSurvivesRead
  <1>1. FetchInv /\ [Next]_vars
          => [\A s \in Scales : cmd[s] /\ ~cmd'[s] =>
                s = peer /\ pc = "control" /\ fw[s] \notin AckFirmwares]_vars
    BY StepKeepsCommand
  <1>. QED
    BY <1>1, InvHolds, PTL DEF Spec, CommandSurvivesRead

\* Every step of a fetch is one fewer left, a retry by giving up the cache.
LEMMA StepAdvances ==
  ASSUME FetchInv, [Next]_vars, pc # "idle", fetch' # fetch
  PROVE  Left' < Left
  <1> USE DEF Left, Position, GoTo
  <1>0. cached \in BOOLEAN /\ pc \in Steps
    BY DEF FetchInv, TypeOK
  <1>p. \A l \in Steps : Position[l] \in Nat
    BY DEF Steps
  <1>1. ASSUME Retry, pc \in {"identity", "snapshot", "config", "touch"} PROVE Left' < Left
    BY <1>0, <1>1 DEF Retry, Rediscover, Fail
  <1>2. ASSUME NEW l \in {"snapshot", "name", "config", "touch", "info"}, Proceed(l),
               Position[l] < Position[pc]
        PROVE  Left' < Left
    BY <1>0, <1>p, <1>2 DEF Proceed, Steps
  <1>3. CASE Handles \/ WriteInfo \/ InfoFails \/ ReadControl \/ End \/ Failed
    <2>1. CASE Handles
      BY <1>0, <2>1 DEF Handles
    <2>2. CASE WriteInfo
      BY <1>0, <2>2 DEF WriteInfo
    <2>3. CASE InfoFails
      BY <1>0, <2>3 DEF InfoFails, AfterInfoFailed
    <2>4. CASE ReadControl
      BY <1>0, <2>4 DEF ReadControl
    <2>5. CASE End \/ Failed
      BY <1>0, <2>5 DEF End, Failed
    <2>. QED
      BY <1>3, <2>1, <2>2, <2>3, <2>4, <2>5
  <1>4. CASE IdentityFails \/ SnapshotFails
    BY <1>1, <1>4 DEF IdentityFails, SnapshotFails
  <1>5. CASE ReadIdentity \/ ReadSnapshot \/ ReadName \/ ReadConfig \/ ReadTouch
    BY <1>2, <1>5 DEF ReadIdentity, ReadSnapshot, ReadName, ReadConfig, ReadTouch
  <1>6. CASE NameFails
    BY <1>0, <1>6 DEF NameFails, Fail
  <1>7. CASE ConfigFails \/ TouchFails
    BY <1>1, <1>2, <1>7 DEF ConfigFails, TouchFails
  <1>8. CASE ControlFails
    BY <1>0, <1>8 DEF ControlFails, Rediscover, Fail
  <1>9. CASE Reset
    BY <1>0, <1>9 DEF Reset, Steps
  <1>10. ASSUME NEW q \in Scales, NEW f \in Firmwares, Upgrade(q, f)
         PROVE  Left' < Left
    <2>1. pc' = "failed" /\ pc # "failed" /\ cached' = cached
      BY <1>10 DEF Upgrade, fetch
    <2>. QED
      BY <1>0, <2>1 DEF Steps
  <1>11. CASE \/ SaveThreshold \/ (\E m \in BOOLEAN : Connect(m))
              \/ (\E q \in Scales : EditProfile(q) \/ EditConfig(q) \/ QueueCommand(q)
                                      \/ Pair(q))
              \/ UNCHANGED vars
    BY <1>11 DEF SaveThreshold, Connect, EditProfile, EditConfig, QueueCommand, Pair, vars
  <1>. QED
    BY <1>3, <1>4, <1>5, <1>6, <1>7, <1>8, <1>9, <1>10, <1>11 DEF Next, FetchStep

\* What FetchReturns rests on besides fairness: a fetch has a bounded number of
\* steps, with one rediscovery at most.
THEOREM FetchAdvancesHolds == Spec => FetchAdvances
  <1>1. FetchInv /\ [Next]_vars
          => [pc # "idle" /\ fetch' # fetch => Left' < Left]_vars
    BY StepAdvances
  <1>. QED
    BY <1>1, InvHolds, PTL DEF Spec, FetchAdvances
============================================================================
