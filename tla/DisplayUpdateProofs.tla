------------------------ MODULE DisplayUpdateProofs ------------------------
(***************************************************************************)
(* Proofs about DisplayUpdate, for any images, any number of retries and   *)
(* attempts and any number of moves and faults.                            *)
(***************************************************************************)
EXTENDS DisplayUpdate, SequenceTheorems, TLAPS

(* Types: TypeOK, with the fields it leaves out *)

Pcs == LinkPcs \cup WifiPcs \cup {"boot", "start", "offer", "offerSha",
                                  "connect", "evaluate", "restart", "sleep"}
OtaType == [latest : Slots, state : [Slots -> States]]
OfferType == [version : Maybe, sha : Maybe]
BundleType == [version : Maybe, url : Maybe, sha : Maybe]
LinkType ==
    [conn : {"none", "trying", "up"}, active : BOOLEAN,
     proc : {"none", "connect", "service", "characteristics", "read"},
     waited : BOOLEAN, at : 0 .. 3, late : BOOLEAN, stray : BOOLEAN]
WifiType ==
    [radio : BOOLEAN, group : BOOLEAN, handlers : SUBSET {"wifi", "ip"},
     connected : BOOLEAN, failed : BOOLEAN, retries : 0 .. WifiRetries,
     assoc : {"down", "trying", "up"}, events : Seq({"start", "ip", "lost"})]
HttpType == [attempt : 0 .. Attempts - 1, body : Maybe, digest : Maybe, staged : BOOLEAN]
ScaleType == [offer : Maybe, approved : BOOLEAN, offered : SUBSET Images]
BudgetType == [moves : Nat, faults : Nat]

TypeInv ==
    /\ pc \in Pcs /\ running \in Slots /\ flash \in [Slots -> Maybe]
    /\ otadata \in OtaType /\ offer \in OfferType /\ bundle \in BundleType
    /\ link \in LinkType /\ wifi \in WifiType /\ http \in HttpType
    /\ scale \in ScaleType /\ budget \in BudgetType

\* There are two slots, and Other is the other one.
LEMMA OtherSlot ==
    ASSUME NEW s \in Slots
    PROVE  /\ Other(s) \in Slots /\ Other(s) # s /\ Other(Other(s)) = s
           /\ \A t \in Slots : t = s \/ t = Other(s)
  BY DEF Slots, Other

\* Spending leaves a budget.
LEMMA SpendType ==
    ASSUME budget \in BudgetType, NEW free, Spend(free)
    PROVE  budget' \in BudgetType
  BY DEF Spend, BudgetType

\* The RAM of a display that starts.
LEMMA EmptyType ==
    /\ NoOffer \in OfferType /\ NoBundle \in BundleType /\ NoLink \in LinkType
    /\ NoWifi \in WifiType /\ NoHttp \in HttpType
  BY UpdateAssumption DEF NoOffer, NoBundle, NoLink, NoWifi, NoHttp, Maybe,
     OfferType, BundleType, LinkType, WifiType, HttpType

\* A procedure of the host that ended.
LEMMA EndedType == link \in LinkType => Ended \in LinkType
  BY DEF Ended, LinkType

\* One slot's state is updated.
LEMMA StateType ==
    ASSUME otadata \in OtaType, NEW s \in Slots, NEW x \in States
    PROVE  [otadata EXCEPT !.state[s] = x] \in OtaType
  BY DEF OtaType

Events == {"start", "ip", "lost"}

\* The queue of the event task, and what Wi-Fi's steps do to the context.
LEMMA WifiUpdateType ==
    ASSUME wifi \in WifiType
    PROVE  /\ \A e \in Events : Append(wifi.events, e) \in Seq(Events)
           /\ wifi.events # <<>> => /\ Head(wifi.events) \in Events
                                    /\ Tail(wifi.events) \in Seq(Events)
           /\ \A q \in Seq(Events), a \in {"down", "trying", "up"} :
                /\ [wifi EXCEPT !.assoc = a, !.events = q] \in WifiType
                /\ [wifi EXCEPT !.radio = TRUE, !.events = q] \in WifiType
           /\ \A q \in Seq(Events) : [wifi EXCEPT !.events = q] \in WifiType
           /\ \A h \in SUBSET {"wifi", "ip"} : [wifi EXCEPT !.handlers = h] \in WifiType
           /\ [wifi EXCEPT !.group = TRUE] \in WifiType
  <1>1. wifi.events \in Seq(Events)
    BY DEF WifiType, Events
  <1>2. \A e \in Events : Append(wifi.events, e) \in Seq(Events)
    BY <1>1
  <1>3. wifi.events # <<>> => Head(wifi.events) \in Events /\ Tail(wifi.events) \in Seq(Events)
    BY <1>1
  <1>4. \A q \in Seq(Events), a \in {"down", "trying", "up"} :
          /\ [wifi EXCEPT !.assoc = a, !.events = q] \in WifiType
          /\ [wifi EXCEPT !.radio = TRUE, !.events = q] \in WifiType
    BY DEF WifiType, Events
  <1>5. \A q \in Seq(Events) : [wifi EXCEPT !.events = q] \in WifiType
    BY DEF WifiType, Events
  <1>6. \A h \in SUBSET {"wifi", "ip"} : [wifi EXCEPT !.handlers = h] \in WifiType
    BY DEF WifiType
  <1>7. [wifi EXCEPT !.group = TRUE] \in WifiType
    BY DEF WifiType
  <1> QED BY <1>2, <1>3, <1>4, <1>5, <1>6, <1>7

\* A disconnect that is heard leaves a context.
LEMMA RetryType == ASSUME NEW w \in WifiType PROVE Retry(w) \in WifiType
  <1>1. ASSUME NEW n \in 0 .. WifiRetries, NEW a \in {"down", "trying", "up"}
        PROVE  [w EXCEPT !.connected = FALSE, !.retries = n, !.assoc = a] \in WifiType
    BY DEF WifiType
  <1>2. [w EXCEPT !.connected = FALSE, !.failed = TRUE] \in WifiType
    BY DEF WifiType
  <1>3. w.retries < WifiRetries => w.retries + 1 \in 0 .. WifiRetries
    BY UpdateAssumption DEF WifiType
  <1>4. (IF w.radio THEN "trying" ELSE w.assoc) \in {"down", "trying", "up"}
    BY DEF WifiType
  <1> QED BY <1>1, <1>2, <1>3, <1>4 DEF Retry

\* The other updates of a context in wifi_event.
LEMMA EventType ==
    ASSUME NEW w \in WifiType
    PROVE  /\ [w EXCEPT !.failed = TRUE] \in WifiType
           /\ [w EXCEPT !.retries = 0, !.connected = TRUE] \in WifiType
           /\ [w EXCEPT !.assoc = IF w.radio THEN "trying" ELSE w.assoc] \in WifiType
  <1>1. [w EXCEPT !.failed = TRUE] \in WifiType
    BY DEF WifiType
  <1>5. 0 \in 0 .. WifiRetries
    BY UpdateAssumption
  <1>6. ASSUME NEW n \in 0 .. WifiRetries
        PROVE  [w EXCEPT !.retries = n, !.connected = TRUE] \in WifiType
    BY DEF WifiType
  <1>2. [w EXCEPT !.retries = 0, !.connected = TRUE] \in WifiType
    BY <1>5, <1>6
  <1>3. (IF w.radio THEN "trying" ELSE w.assoc) \in {"down", "trying", "up"}
    BY DEF WifiType
  <1>4. ASSUME NEW a \in {"down", "trying", "up"} PROVE [w EXCEPT !.assoc = a] \in WifiType
    BY DEF WifiType
  <1> QED BY <1>1, <1>2, <1>3, <1>4

\* A procedure of the host starts, and advances.
LEMMA ProcedureType ==
    ASSUME link \in LinkType
    PROVE  /\ \A p \in {"none", "connect", "service", "characteristics", "read"} :
                [link EXCEPT !.proc = p, !.waited = TRUE, !.at = 0] \in LinkType
           /\ \A k \in 0 .. 3, b \in BOOLEAN : [link EXCEPT !.at = k, !.stray = b] \in LinkType
  <1>1. ASSUME NEW p \in {"none", "connect", "service", "characteristics", "read"}
        PROVE  [link EXCEPT !.proc = p, !.waited = TRUE, !.at = 0] \in LinkType
    <2>1. ASSUME NEW k \in 0 .. 3
          PROVE  [link EXCEPT !.proc = p, !.waited = TRUE, !.at = k] \in LinkType
      BY DEF LinkType
    <2>2. 0 \in 0 .. 3
      OBVIOUS
    <2> QED BY <2>1, <2>2
  <1>2. ASSUME NEW k \in 0 .. 3, NEW b \in BOOLEAN
        PROVE  [link EXCEPT !.at = k, !.stray = b] \in LinkType
    BY DEF LinkType
  <1> QED BY <1>1, <1>2

LEMMA TypeInit == Init => TypeInv
  BY UpdateAssumption, EmptyType DEF Init, TypeInv, Pcs, Slots, Maybe, States,
     OtaType, ScaleType, BudgetType

LEMMA TypeStep == TypeInv /\ [Next]_vars => TypeInv'
  <1> SUFFICES ASSUME TypeInv, [Next]_vars PROVE TypeInv'
    OBVIOUS
  <1> USE UpdateAssumption DEF TypeInv
  <1>1. CASE BootLoader
    <2>1. otadata' \in OtaType
      BY <1>1, OtherSlot DEF BootLoader, States, OtaType
    <2>2. running' \in Slots
      BY <1>1, OtherSlot DEF BootLoader, States, OtaType
    <2>3. pc' \in Pcs
      BY <1>1, OtherSlot DEF BootLoader, Goto, Pcs, LinkPcs, WifiPcs
    <2> QED BY <1>1, OtherSlot, <2>1, <2>2, <2>3 DEF BootLoader, ram
  <1>2. CASE Confirm
    <2>1. otadata' \in OtaType
      <3> DEFINE x == IF otadata.state[running] = "pending" THEN "valid"
                      ELSE otadata.state[running]
      <3>1. x \in States
        BY DEF OtaType, States
      <3>2. otadata' = [otadata EXCEPT !.state[running] = x] \/ otadata' = otadata
        BY <1>2 DEF Confirm
      <3> QED BY <3>1, <3>2, StateType
    <2>2. pc' \in Pcs
      BY <1>2, SpendType DEF Confirm, Goto, Pcs, LinkPcs, WifiPcs
    <2> QED BY <1>2, SpendType, <2>1, <2>2 DEF Confirm, ram
  <1>3. CASE ReadOfferVersion
    <2>1. offer' \in OfferType
      BY <1>3 DEF ReadOfferVersion, NoOffer, Maybe, OfferType, ScaleType
    <2>2. pc' \in Pcs
      BY <1>3 DEF ReadOfferVersion, Goto, Pcs, LinkPcs, WifiPcs
    <2> QED BY <1>3, <2>1, <2>2 DEF ReadOfferVersion, ram
  <1>4. CASE ReadOfferSha
    <2>1. offer' \in OfferType
      BY <1>4, SpendType, EmptyType DEF ReadOfferSha, Maybe, OfferType, ScaleType
    <2>2. pc' \in Pcs
      BY <1>4, SpendType, EmptyType DEF ReadOfferSha, Goto, Pcs, LinkPcs, WifiPcs
    <2> QED BY <1>4, SpendType, EmptyType, <2>1, <2>2 DEF ReadOfferSha, ram
  <1>5. CASE Restart
    <2>1. pc' \in Pcs
      BY <1>5, EmptyType DEF Restart, Goto, Pcs, LinkPcs, WifiPcs
    <2> QED BY <1>5, EmptyType, <2>1 DEF Restart, ram
  <1>6. CASE ConnectPeer
    <2>1. link' \in LinkType
      BY <1>6, SpendType DEF ConnectPeer, LinkType
    <2>2. pc' \in Pcs
      BY <1>6, SpendType DEF ConnectPeer, Goto, Pcs, LinkPcs, WifiPcs
    <2> QED BY <1>6, SpendType, <2>1, <2>2 DEF ConnectPeer, ram
  <1>7. CASE ConnectTimeout
    <2>1. link' \in LinkType
      BY <1>7, SpendType DEF ConnectTimeout, Left, LinkType
    <2>2. pc' \in Pcs
      BY <1>7, SpendType DEF ConnectTimeout, Left, Goto, Pcs, LinkPcs, WifiPcs
    <2> QED BY <1>7, SpendType, <2>1, <2>2 DEF ConnectTimeout, Left, ram
  <1>8. CASE SecureConnection
    <2>1. pc' \in Pcs
      BY <1>8, SpendType DEF SecureConnection, Goto, Pcs, LinkPcs, WifiPcs
    <2> QED BY <1>8, SpendType, <2>1 DEF SecureConnection, ram
  <1>9. CASE GattCall
    <2>1. link' \in LinkType
      <3>1. /\ pc \in {"none", "connect", "service", "characteristics", "read"}
            /\ link' = link \/ link' = [link EXCEPT !.proc = pc, !.waited = TRUE, !.at = 0]
        BY <1>9 DEF GattCall
      <3> QED BY <3>1, ProcedureType
    <2>2. pc' \in Pcs
      BY <1>9, SpendType DEF GattCall, Goto, Pcs, LinkPcs, WifiPcs
    <2> QED BY <1>9, SpendType, <2>1, <2>2 DEF GattCall, ram
  <1>10. CASE GattTimeout
    <2>1. link' \in LinkType
      BY <1>10, SpendType, EmptyType DEF GattTimeout, Left, LinkType
    <2>2. pc' \in Pcs
      BY <1>10, SpendType, EmptyType DEF GattTimeout, Left, Goto, Pcs, LinkPcs, WifiPcs
    <2> QED BY <1>10, SpendType, EmptyType, <2>1, <2>2 DEF GattTimeout, Left, ram
  <1>11. CASE Disconnect
    <2>1. link' \in LinkType
      BY <1>11, SpendType, EndedType DEF Disconnect, LinkType
    <2>2. pc' \in Pcs
      BY <1>11, SpendType, EndedType DEF Disconnect, Goto, Pcs, LinkPcs, WifiPcs
    <2> QED BY <1>11, SpendType, EndedType, <2>1, <2>2 DEF Disconnect, ram
  <1>12. CASE GapConnect
    <2>1. link' \in LinkType
      BY <1>12, SpendType DEF GapConnect, LinkType
    <2>2. pc' \in Pcs
      BY <1>12, SpendType DEF GapConnect, Goto, Pcs, LinkPcs, WifiPcs
    <2> QED BY <1>12, SpendType, <2>1, <2>2 DEF GapConnect, ram
  <1>13. CASE Discovered
    <2>1. pc' \in Pcs
      BY <1>13, SpendType, EndedType DEF Discovered, Wake, After, Goto, Pcs, LinkPcs, WifiPcs
    <2> QED BY <1>13, SpendType, EndedType, <2>1 DEF Discovered, Wake, After, ram
  <1>14. CASE ReadPacket
    <2>1. link' \in LinkType
      <3>1. link.at + 1 \in 1 .. 3
        BY <1>14 DEF ReadPacket, Fields, LinkType
      <3> DEFINE b == link.stray \/ ~link.waited
                 k == link.at + 1
      <3>2. link' = [link EXCEPT !.at = k, !.stray = b]
        BY <1>14 DEF ReadPacket
      <3>3. b \in BOOLEAN
        OBVIOUS
      <3>4. k \in 0 .. 3
        BY <3>1
      <3> HIDE DEF b, k
      <3> QED BY <3>2, <3>3, <3>4, ProcedureType
    <2>2. bundle' \in BundleType
      BY <1>14 DEF ReadPacket, Fields, Packet, Maybe, LinkType, BundleType, ScaleType
    <2>3. pc' \in Pcs
      BY <1>14 DEF ReadPacket, Goto, Pcs, LinkPcs, WifiPcs
    <2> QED BY <1>14, <2>1, <2>2, <2>3 DEF ReadPacket, ram
  <1>15. CASE ReadTooLong
    <2>1. pc' \in Pcs
      BY <1>15, SpendType, EndedType, EmptyType DEF ReadTooLong, Wake, Goto, Pcs, LinkPcs, WifiPcs
    <2> QED BY <1>15, SpendType, EndedType, EmptyType, <2>1 DEF ReadTooLong, Wake, ram
  <1>16. CASE ReadDone
    <2>1. pc' \in Pcs
      BY <1>16, EndedType DEF ReadDone, Wake, Goto, Pcs, LinkPcs, WifiPcs
    <2> QED BY <1>16, EndedType, <2>1 DEF ReadDone, Wake, ram
  <1>17. CASE LinkLost
    <2>1. link' \in LinkType
      BY <1>17, SpendType, EndedType, EmptyType DEF LinkLost, Wake, LinkType
    <2>2. pc' \in Pcs
      BY <1>17, SpendType, EndedType, EmptyType DEF LinkLost, Wake, Goto, Pcs, LinkPcs, WifiPcs
    <2> QED BY <1>17, SpendType, EndedType, EmptyType, <2>1, <2>2 DEF LinkLost, Wake, ram
  <1>18. CASE Evaluate
    <2>1. pc' \in Pcs
      BY <1>18, EmptyType DEF Evaluate, Goto, Pcs, LinkPcs, WifiPcs
    <2> QED BY <1>18, EmptyType, <2>1 DEF Evaluate, ram
  <1>19. CASE ConnectWifi
    <2>1. wifi' \in WifiType
      <3>1. wifi.handlers \in SUBSET {"wifi", "ip"}
        BY DEF WifiType
      <3>2. \/ wifi' = wifi \/ wifi' = [wifi EXCEPT !.group = TRUE]
            \/ wifi' = [wifi EXCEPT !.handlers = {"wifi"}]
            \/ wifi' = [wifi EXCEPT !.handlers = wifi.handlers \cup {"ip"}]
            \/ wifi' = [wifi EXCEPT !.radio = TRUE, !.events = Append(wifi.events, "start")]
        BY <1>19 DEF ConnectWifi, WifiStep
      <3>3. Append(wifi.events, "start") \in Seq(Events)
        BY WifiUpdateType DEF Events
      <3> QED BY <3>1, <3>2, <3>3, WifiUpdateType
    <2>2. pc' \in Pcs
      BY <1>19, SpendType DEF ConnectWifi, WifiStep, Goto, Pcs, LinkPcs, WifiPcs
    <2> QED BY <1>19, SpendType, <2>1, <2>2 DEF ConnectWifi, WifiStep, ram
  <1>20. CASE WifiWaits
    <2>1. pc' \in Pcs
      BY <1>20, SpendType DEF WifiWaits, Goto, Pcs, LinkPcs, WifiPcs
    <2> QED BY <1>20, SpendType, <2>1 DEF WifiWaits, ram
  <1>21. CASE WifiEvent
    <2>1. wifi' \in WifiType
      <3> DEFINE w == [wifi EXCEPT !.events = Tail(@)]
      <3>1. w \in WifiType
        BY <1>21, WifiUpdateType DEF WifiEvent
      <3>2. \/ wifi' = w \/ wifi' = Retry(w) \/ wifi' = [w EXCEPT !.failed = TRUE]
            \/ wifi' = [w EXCEPT !.assoc = IF w.radio THEN "trying" ELSE w.assoc]
            \/ wifi' = [w EXCEPT !.retries = 0, !.connected = TRUE]
        BY <1>21 DEF WifiEvent
      <3> HIDE DEF w
      <3> QED BY <3>1, <3>2, RetryType, EventType
    <2>2. pc' \in Pcs
      BY <1>21, SpendType DEF WifiEvent, Goto, Pcs, LinkPcs, WifiPcs
    <2> QED BY <1>21, SpendType, <2>1, <2>2 DEF WifiEvent, ram
  <1>22. CASE StationUp
    <2>1. wifi' \in WifiType
      BY <1>22, WifiUpdateType DEF StationUp, Events
    <2>2. pc' \in Pcs
      BY <1>22 DEF StationUp, Goto, Pcs, LinkPcs, WifiPcs
    <2> QED BY <1>22, <2>1, <2>2 DEF StationUp, ram
  <1>23. CASE StationLost
    <2>1. wifi' \in WifiType
      BY <1>23, WifiUpdateType DEF StationLost, Events
    <2>2. pc' \in Pcs
      BY <1>23, SpendType DEF StationLost, Goto, Pcs, LinkPcs, WifiPcs
    <2> QED BY <1>23, SpendType, <2>1, <2>2 DEF StationLost, ram
  <1>24. CASE StopWifi
    <2>1. wifi' \in WifiType
      <3>1. wifi.handlers \in SUBSET {"wifi", "ip"}
        BY DEF WifiType
      <3>2. \/ wifi' = NoWifi \/ wifi' = [wifi EXCEPT !.radio = FALSE, !.assoc = "down"]
            \/ wifi' = [wifi EXCEPT !.handlers = wifi.handlers \ {"wifi"}]
            \/ wifi' = [wifi EXCEPT !.handlers = wifi.handlers \ {"ip"}]
        BY <1>24 DEF StopWifi
      <3>3. [wifi EXCEPT !.radio = FALSE, !.assoc = "down"] \in WifiType
        BY DEF WifiType
      <3> QED BY <3>1, <3>2, <3>3, WifiUpdateType, EmptyType
    <2>2. pc' \in Pcs
      BY <1>24, EmptyType DEF StopWifi, Goto, Pcs, LinkPcs, WifiPcs
    <2> QED BY <1>24, EmptyType, <2>1, <2>2 DEF StopWifi, ram
  <1>25. CASE AttemptFails
    <2>1. http' \in HttpType
      BY <1>25, EmptyType DEF AttemptFails, HttpType
    <2>2. pc' \in Pcs
      BY <1>25, EmptyType DEF AttemptFails, Goto, Pcs, LinkPcs, WifiPcs
    <2> QED BY <1>25, EmptyType, <2>1, <2>2 DEF AttemptFails, ram
  <1>26. CASE HttpOpen
    <2>1. http' \in HttpType
      BY <1>26, SpendType DEF HttpOpen, Failed, HttpType, Maybe
    <2>2. pc' \in Pcs
      BY <1>26, SpendType DEF HttpOpen, Failed, Goto, Pcs, LinkPcs, WifiPcs
    <2> QED BY <1>26, SpendType, <2>1, <2>2 DEF HttpOpen, Failed, ram
  <1>27. CASE OtaBegin
    <2>1. flash' \in [Slots -> Maybe]
      BY <1>27, SpendType, OtherSlot DEF OtaBegin, Failed, Target, Maybe
    <2>2. pc' \in Pcs
      BY <1>27, SpendType, OtherSlot DEF OtaBegin, Failed, Target, Goto, Pcs, LinkPcs, WifiPcs
    <2> QED BY <1>27, SpendType, OtherSlot, <2>1, <2>2 DEF OtaBegin, Failed, Target, ram
  <1>28. CASE ReadBody
    <2>1. flash' \in [Slots -> Maybe]
      BY <1>28, SpendType, OtherSlot DEF ReadBody, Failed, Target, HttpType
    <2>2. http' \in HttpType
      BY <1>28, SpendType, OtherSlot DEF ReadBody, Failed, Target, HttpType
    <2>3. pc' \in Pcs
      BY <1>28, SpendType, OtherSlot DEF ReadBody, Failed, Target, Goto, Pcs, LinkPcs, WifiPcs
    <2> QED BY <1>28, SpendType, OtherSlot, <2>1, <2>2, <2>3 DEF ReadBody, Failed, Target, ram
  <1>29. CASE Finish
    <2>1. pc' \in Pcs
      BY <1>29 DEF Finish, Failed, Goto, Pcs, LinkPcs, WifiPcs
    <2> QED BY <1>29, <2>1 DEF Finish, Failed, ram
  <1>30. CASE Stage
    <2>1. otadata' \in OtaType
      <3>1. \/ otadata' = otadata
            \/ otadata' = [latest |-> Target, state |-> [otadata.state EXCEPT ![Target] = "new"]]
        BY <1>30 DEF Stage
      <3>2. Target \in Slots /\ "new" \in States
        BY OtherSlot DEF Target, States
      <3> QED BY <3>1, <3>2 DEF OtaType
    <2>2. http' \in HttpType
      BY <1>30, SpendType, OtherSlot DEF Stage, Failed, Target, States, OtaType, HttpType
    <2>3. pc' \in Pcs
      BY <1>30, SpendType, OtherSlot DEF Stage, Failed, Target, Goto, Pcs, LinkPcs, WifiPcs
    <2> QED BY <1>30, SpendType, OtherSlot, <2>1, <2>2, <2>3 DEF Stage, Failed, Target, ram
  <1>31. CASE Release
    <2>1. scale' \in ScaleType
      BY <1>31 DEF Release, ScaleType, BudgetType, Maybe
    <2>2. budget' \in BudgetType
      BY <1>31 DEF Release, ScaleType, BudgetType, Maybe
    <2>3. pc' \in Pcs
      BY <1>31 DEF Release, Goto, Pcs, LinkPcs, WifiPcs
    <2> QED BY <1>31, <2>1, <2>2, <2>3 DEF Release, ram
  <1>32. CASE Approve
    <2>1. scale' \in ScaleType
      BY <1>32 DEF Approve, ScaleType, BudgetType
    <2>2. budget' \in BudgetType
      BY <1>32 DEF Approve, ScaleType, BudgetType
    <2>3. pc' \in Pcs
      BY <1>32 DEF Approve, Goto, Pcs, LinkPcs, WifiPcs
    <2> QED BY <1>32, <2>1, <2>2, <2>3 DEF Approve, ram
  <1>33. CASE PowerLoss
    <2>1. pc' \in Pcs
      BY <1>33, SpendType, EmptyType DEF PowerLoss, Goto, Pcs, LinkPcs, WifiPcs
    <2> QED BY <1>33, SpendType, EmptyType, <2>1 DEF PowerLoss, ram
  <1>34. CASE UNCHANGED vars
    BY <1>34 DEF vars
  <1> QED
    BY <1>1, <1>2, <1>3, <1>4, <1>5, <1>6, <1>7, <1>8, <1>9, <1>10, <1>11, <1>12,
       <1>13, <1>14, <1>15, <1>16, <1>17, <1>18, <1>19, <1>20, <1>21, <1>22,
       <1>23, <1>24, <1>25, <1>26, <1>27, <1>28, <1>29, <1>30, <1>31, <1>32,
       <1>33, <1>34
    DEF Next, MainTask, Transfer, Host, Download, Environment

\* TypeOK holds for any images, retries, attempts and faults.
THEOREM TypeCorrect == Spec => []TypeOK
  <1>1. TypeInv => TypeOK
    BY DEF TypeInv, TypeOK, Pcs, OtaType, OfferType, BundleType, LinkType, WifiType, HttpType
  <1> QED BY <1>1, TypeInit, TypeStep, PTL DEF Spec

(* The connection: LinkClosed, the second half of NothingDangles *)

\* A call that waits is at its wait, and its procedure is the host's; the
\* procedures of calls that gave up can no longer fill the bundle.
LinkInv ==
    /\ link.waited =>
         \/ pc = "connecting" /\ link.proc = "connect"
         \/ pc = "waiting" /\ link.proc \in {"service", "characteristics", "read"}
    /\ bundle # NoBundle => pc \in {"waiting", "disconnect", "evaluate"} \cup WifiPcs
    /\ bundle # NoBundle /\ pc = "waiting" => link.waited /\ link.proc = "read"
    /\ bundle # NoBundle /\ link.proc = "read" => link.waited
    /\ link.proc # "none" => link.waited \/ link.late
    /\ LinkClosed /\ (link.stray => link.late)

LEMMA LinkInit == Init => LinkInv
  BY DEF Init, LinkInv, LinkClosed, NoLink

LEMMA LinkStep == TypeInv /\ LinkInv /\ [Next]_vars => LinkInv'
  <1> SUFFICES ASSUME TypeInv, LinkInv, [Next]_vars PROVE LinkInv'
    OBVIOUS
  <1> USE DEF LinkInv, LinkClosed, TypeInv, LinkType, Goto, ram,
          LinkPcs, WifiPcs
  <1>1. CASE BootLoader
    BY <1>1 DEF BootLoader
  <1>2. CASE Confirm
    BY <1>2 DEF Confirm
  <1>3. CASE ReadOfferVersion
    BY <1>3 DEF ReadOfferVersion
  <1>4. CASE ReadOfferSha
    BY <1>4 DEF ReadOfferSha
  <1>5. CASE Restart
    BY <1>5 DEF Restart, NoBundle, NoLink
  <1>6. CASE ConnectPeer
    BY <1>6 DEF ConnectPeer
  <1>7. CASE ConnectTimeout
    BY <1>7 DEF ConnectTimeout, Left
  <1>8. CASE SecureConnection
    BY <1>8 DEF SecureConnection
  <1>9. CASE GattCall
    BY <1>9 DEF GattCall
  <1>10. CASE GattTimeout
    BY <1>10 DEF GattTimeout, Left
  <1>11. CASE Disconnect
    BY <1>11 DEF Disconnect, Ended
  <1>12. CASE GapConnect
    BY <1>12 DEF GapConnect
  <1>13. CASE Discovered
    BY <1>13 DEF Discovered, Ended, Wake, After
  <1>14. CASE ReadPacket
    BY <1>14 DEF ReadPacket
  <1>15. CASE ReadTooLong
    BY <1>15 DEF ReadTooLong, Ended, Wake
  <1>16. CASE ReadDone
    BY <1>16 DEF ReadDone, Ended, Wake
  <1>17. CASE LinkLost
    BY <1>17 DEF LinkLost, Ended, Wake
  <1>18. CASE Evaluate
    BY <1>18 DEF Evaluate, Approved, NoBundle
  <1>19. CASE ConnectWifi
    BY <1>19 DEF ConnectWifi, WifiStep
  <1>20. CASE WifiWaits
    BY <1>20 DEF WifiWaits
  <1>21. CASE WifiEvent
    BY <1>21 DEF WifiEvent
  <1>22. CASE StationUp
    BY <1>22 DEF StationUp
  <1>23. CASE StationLost
    BY <1>23 DEF StationLost
  <1>24. CASE StopWifi
    BY <1>24 DEF StopWifi
  <1>25. CASE AttemptFails
    BY <1>25 DEF AttemptFails
  <1>26. CASE HttpOpen
    BY <1>26 DEF HttpOpen, Failed
  <1>27. CASE OtaBegin
    BY <1>27 DEF OtaBegin, Failed
  <1>28. CASE ReadBody
    BY <1>28 DEF ReadBody, Failed
  <1>29. CASE Finish
    BY <1>29 DEF Finish, Failed
  <1>30. CASE Stage
    BY <1>30 DEF Stage, Failed
  <1>31. CASE Release
    BY <1>31 DEF Release
  <1>32. CASE Approve
    BY <1>32 DEF Approve
  <1>33. CASE PowerLoss
    BY <1>33 DEF PowerLoss, NoBundle, NoLink
  <1>34. CASE UNCHANGED vars
    BY <1>34 DEF vars
  <1> QED
    BY <1>1, <1>2, <1>3, <1>4, <1>5, <1>6, <1>7, <1>8, <1>9, <1>10, <1>11, <1>12,
       <1>13, <1>14, <1>15, <1>16, <1>17, <1>18, <1>19, <1>20, <1>21, <1>22,
       <1>23, <1>24, <1>25, <1>26, <1>27, <1>28, <1>29, <1>30, <1>31, <1>32,
       <1>33, <1>34
    DEF Next, MainTask, Transfer, Host, Download, Environment

(* Wi-Fi: Quiet, NothingDangles and GaveUp *)

\* The group is there as long as a handler is.
WifiInv ==
    /\ pc \notin WifiPcs => wifi = NoWifi
    /\ pc \in {"wifiInit", "wifiGroup"} => wifi.handlers = {}
    /\ pc \in {"wifiHandler", "ipHandler"} => wifi.group
    /\ pc \in {"stopIpHandler", "stopGroup"} => wifi.handlers \subseteq {"ip"}
    /\ pc = "stopGroup" => wifi.handlers = {}
    /\ wifi.handlers # {} => wifi.group

\* The event task's queue: losing the access point is the last that happens until
\* it is handled, and nothing happens once the station gave up.
QueueInv ==
    /\ wifi.events \in {<<>>, <<"start">>, <<"lost">>, <<"ip">>, <<"ip", "lost">>}
    /\ wifi.assoc = "trying" => wifi.events = <<>>
    /\ wifi.assoc = "up" => wifi.events \in {<<>>, <<"ip">>}
    /\ wifi.events = <<"start">> => ~wifi.connected
    /\ wifi.failed => ~wifi.connected /\ wifi.assoc = "down" /\ wifi.events = <<>>
    /\ pc \in {"wifiInit", "wifiGroup", "wifiHandler", "ipHandler", "wifiStart"} =>
         wifi.events = <<>> /\ wifi.assoc = "down" /\ ~wifi.connected /\ ~wifi.failed

LEMMA WifiInit == Init => WifiInv /\ QueueInv
  BY DEF Init, WifiInv, QueueInv, NoWifi, WifiPcs

LEMMA WifiStepKeeps == TypeInv /\ LinkInv /\ WifiInv /\ [Next]_vars => WifiInv'
  <1> SUFFICES ASSUME TypeInv, LinkInv, WifiInv, [Next]_vars PROVE WifiInv'
    OBVIOUS
  <1> USE DEF WifiInv, LinkInv, TypeInv, WifiType, Goto, ram, WifiPcs
  <1>1. CASE BootLoader
    BY <1>1 DEF BootLoader
  <1>2. CASE Confirm
    BY <1>2 DEF Confirm
  <1>3. CASE ReadOfferVersion
    BY <1>3 DEF ReadOfferVersion
  <1>4. CASE ReadOfferSha
    BY <1>4 DEF ReadOfferSha
  <1>5. CASE Restart
    BY <1>5 DEF Restart, NoWifi
  <1>6. CASE ConnectPeer
    BY <1>6 DEF ConnectPeer
  <1>7. CASE ConnectTimeout
    BY <1>7 DEF ConnectTimeout, Left
  <1>8. CASE SecureConnection
    BY <1>8 DEF SecureConnection
  <1>9. CASE GattCall
    BY <1>9 DEF GattCall
  <1>10. CASE GattTimeout
    BY <1>10 DEF GattTimeout, Left
  <1>11. CASE Disconnect
    BY <1>11 DEF Disconnect
  <1>12. CASE GapConnect
    BY <1>12 DEF GapConnect
  <1>13. CASE Discovered
    BY <1>13 DEF Discovered, Wake, After
  <1>14. CASE ReadPacket
    BY <1>14 DEF ReadPacket
  <1>15. CASE ReadTooLong
    BY <1>15 DEF ReadTooLong, Wake
  <1>16. CASE ReadDone
    BY <1>16 DEF ReadDone, Wake
  <1>17. CASE LinkLost
    BY <1>17 DEF LinkLost, Wake
  <1>18. CASE Evaluate
    BY <1>18 DEF Evaluate, NoWifi
  <1>19. CASE ConnectWifi
    BY <1>19 DEF ConnectWifi, WifiStep
  <1>20. CASE WifiWaits
    BY <1>20 DEF WifiWaits
  <1>21. CASE WifiEvent
    <2>1. wifi'.handlers = wifi.handlers /\ wifi'.group = wifi.group
      BY <1>21 DEF WifiEvent, Retry
    <2>2. wifi.events # <<>> /\ pc' = pc
      BY <1>21 DEF WifiEvent
    <2>3. pc \in WifiPcs
      BY <2>2 DEF NoWifi
    <2> QED BY <2>1, <2>2, <2>3
  <1>22. CASE StationUp
    BY <1>22 DEF StationUp, NoWifi
  <1>23. CASE StationLost
    BY <1>23 DEF StationLost, NoWifi
  <1>24. CASE StopWifi
    <2>1. wifi.handlers \in SUBSET {"wifi", "ip"}
      OBVIOUS
    <2>2. CASE pc = "stopRadio"
      BY <1>24, <2>2 DEF StopWifi
    <2>3. CASE pc = "stopWifiHandler"
      BY <1>24, <2>1, <2>3 DEF StopWifi
    <2>4. CASE pc = "stopIpHandler"
      <3>1. /\ wifi' = [wifi EXCEPT !.handlers = wifi.handlers \ {"ip"}]
            /\ pc' = "stopGroup"
        BY <1>24, <2>4 DEF StopWifi
      <3>2. wifi'.handlers = {}
        BY <2>4, <3>1
      <3> QED BY <3>1, <3>2
    <2>5. CASE pc = "stopGroup"
      BY <1>24, <2>5 DEF StopWifi, NoWifi
    <2> QED BY <1>24, <2>2, <2>3, <2>4, <2>5 DEF StopWifi
  <1>25. CASE AttemptFails
    BY <1>25 DEF AttemptFails
  <1>26. CASE HttpOpen
    BY <1>26 DEF HttpOpen, Failed
  <1>27. CASE OtaBegin
    BY <1>27 DEF OtaBegin, Failed
  <1>28. CASE ReadBody
    BY <1>28 DEF ReadBody, Failed
  <1>29. CASE Finish
    BY <1>29 DEF Finish, Failed
  <1>30. CASE Stage
    BY <1>30 DEF Stage, Failed
  <1>31. CASE Release
    BY <1>31 DEF Release
  <1>32. CASE Approve
    BY <1>32 DEF Approve
  <1>33. CASE PowerLoss
    BY <1>33 DEF PowerLoss, NoWifi
  <1>34. CASE UNCHANGED vars
    BY <1>34 DEF vars
  <1> QED
    BY <1>1, <1>2, <1>3, <1>4, <1>5, <1>6, <1>7, <1>8, <1>9, <1>10, <1>11, <1>12,
       <1>13, <1>14, <1>15, <1>16, <1>17, <1>18, <1>19, <1>20, <1>21, <1>22,
       <1>23, <1>24, <1>25, <1>26, <1>27, <1>28, <1>29, <1>30, <1>31, <1>32,
       <1>33, <1>34
    DEF Next, MainTask, Transfer, Host, Download, Environment

\* The queues of QueueInv, from their ends.
LEMMA Queues ==
    /\ Append(<<>>, "start") = <<"start">> /\ Append(<<>>, "lost") = <<"lost">>
    /\ Append(<<>>, "ip") = <<"ip">> /\ Append(<<"ip">>, "lost") = <<"ip", "lost">>
    /\ Head(<<"start">>) = "start" /\ Tail(<<"start">>) = <<>>
    /\ Head(<<"lost">>) = "lost" /\ Tail(<<"lost">>) = <<>>
    /\ Head(<<"ip">>) = "ip" /\ Tail(<<"ip">>) = <<>>
    /\ Head(<<"ip", "lost">>) = "ip" /\ Tail(<<"ip", "lost">>) = <<"lost">>
    /\ <<"start">> # <<>> /\ <<"lost">> # <<>> /\ <<"ip">> # <<>> /\ <<"ip", "lost">> # <<>>
    /\ <<"start">> # <<"lost">> /\ <<"start">> # <<"ip">> /\ <<"start">> # <<"ip", "lost">>
    /\ <<"lost">> # <<"ip">> /\ <<"lost">> # <<"ip", "lost">> /\ <<"ip">> # <<"ip", "lost">>
  <1>1. /\ Append(<<>>, "start") = <<"start">> /\ Append(<<>>, "lost") = <<"lost">>
        /\ Append(<<>>, "ip") = <<"ip">>
    OBVIOUS
  <1>10. Append(<<"ip">>, "lost") = <<"ip", "lost">>
    <2> DEFINE a == Append(<<"ip">>, "lost")
               b == <<"ip", "lost">>
    <2>1. <<"ip">> \in Seq({"ip", "lost"}) /\ Len(<<"ip">>) = 1
      OBVIOUS
    <2>2. /\ a \in Seq({"ip", "lost"}) /\ Len(a) = 2
          /\ a[1] = "ip" /\ a[2] = "lost"
      BY <2>1
    <2>3. /\ b \in Seq({"ip", "lost"}) /\ Len(b) = 2
          /\ b[1] = "ip" /\ b[2] = "lost"
      OBVIOUS
    <2> HIDE DEF a, b
    <2>4. \A i \in 1 .. Len(a) : a[i] = b[i]
      BY <2>2, <2>3
    <2>5. a = b
      BY <2>2, <2>3, <2>4, SeqEqual
    <2> QED BY <2>5 DEF a, b
  <1>2. /\ Head(<<"start">>) = "start" /\ Tail(<<"start">>) = <<>>
        /\ Head(<<"lost">>) = "lost" /\ Tail(<<"lost">>) = <<>>
        /\ Head(<<"ip">>) = "ip" /\ Tail(<<"ip">>) = <<>>
    OBVIOUS
  <1>3. Head(<<"ip", "lost">>) = "ip" /\ Tail(<<"ip", "lost">>) = <<"lost">>
    OBVIOUS
  <1>4. /\ <<"start">>[1] = "start" /\ <<"lost">>[1] = "lost" /\ <<"ip">>[1] = "ip"
        /\ <<"ip", "lost">>[1] = "ip"
    OBVIOUS
  <1>5. /\ Len(<<>>) = 0 /\ Len(<<"start">>) = 1 /\ Len(<<"lost">>) = 1
        /\ Len(<<"ip">>) = 1 /\ Len(<<"ip", "lost">>) = 2
    OBVIOUS
  <1>6. "start" # "lost" /\ "start" # "ip" /\ "lost" # "ip" /\ 0 # 1 /\ 0 # 2 /\ 1 # 2
    OBVIOUS
  <1>7. <<"start">> # <<>> /\ <<"lost">> # <<>> /\ <<"ip">> # <<>> /\ <<"ip", "lost">> # <<>>
    BY <1>5, <1>6
  <1>8. /\ <<"start">> # <<"lost">> /\ <<"start">> # <<"ip">> /\ <<"start">> # <<"ip", "lost">>
        /\ <<"lost">> # <<"ip">> /\ <<"lost">> # <<"ip", "lost">>
    BY <1>4, <1>6
  <1>9. <<"ip">> # <<"ip", "lost">>
    BY <1>5, <1>6
  <1> QED BY <1>1, <1>10, <1>2, <1>3, <1>7, <1>8, <1>9

LEMMA QueueStep == TypeInv /\ LinkInv /\ WifiInv /\ QueueInv /\ [Next]_vars => QueueInv'
  <1> SUFFICES ASSUME TypeInv, LinkInv, WifiInv, QueueInv, [Next]_vars PROVE QueueInv'
    OBVIOUS
  <1> USE DEF QueueInv, WifiInv, LinkInv, WifiPcs, TypeInv, WifiType, Goto, ram
  <1>1. CASE BootLoader
    BY <1>1 DEF BootLoader
  <1>2. CASE Confirm
    BY <1>2 DEF Confirm
  <1>3. CASE ReadOfferVersion
    BY <1>3 DEF ReadOfferVersion
  <1>4. CASE ReadOfferSha
    BY <1>4 DEF ReadOfferSha
  <1>5. CASE Restart
    BY <1>5 DEF Restart, NoWifi
  <1>6. CASE ConnectPeer
    BY <1>6 DEF ConnectPeer
  <1>7. CASE ConnectTimeout
    BY <1>7 DEF ConnectTimeout, Left
  <1>8. CASE SecureConnection
    BY <1>8 DEF SecureConnection
  <1>9. CASE GattCall
    BY <1>9 DEF GattCall
  <1>10. CASE GattTimeout
    BY <1>10 DEF GattTimeout, Left
  <1>11. CASE Disconnect
    BY <1>11 DEF Disconnect
  <1>12. CASE GapConnect
    BY <1>12 DEF GapConnect
  <1>13. CASE Discovered
    BY <1>13 DEF Discovered, Wake, After
  <1>14. CASE ReadPacket
    BY <1>14 DEF ReadPacket
  <1>15. CASE ReadTooLong
    BY <1>15 DEF ReadTooLong, Wake
  <1>16. CASE ReadDone
    BY <1>16 DEF ReadDone, Wake
  <1>17. CASE LinkLost
    BY <1>17 DEF LinkLost, Wake
  <1>18. CASE Evaluate
    BY <1>18 DEF Evaluate, NoWifi
  <1>19. CASE ConnectWifi
    <2>1. CASE /\ pc = "wifiStart" /\ pc' = "wifiWait"
               /\ wifi' = [wifi EXCEPT !.radio = TRUE, !.events = Append(@, "start")]
      <3>1. /\ wifi'.events = Append(wifi.events, "start") /\ wifi'.assoc = wifi.assoc
            /\ wifi'.connected = wifi.connected /\ wifi'.failed = wifi.failed
        BY <2>1
      <3>2. wifi'.events = <<"start">>
        BY <2>1, <3>1, Queues
      <3> QED BY <2>1, <3>1, <3>2, Queues
    <2>2. CASE ~(pc = "wifiStart" /\ pc' = "wifiWait")
      BY <1>19, <2>2 DEF ConnectWifi, WifiStep
    <2> QED BY <1>19, <2>1, <2>2 DEF ConnectWifi, WifiStep
  <1>20. CASE WifiWaits
    BY <1>20 DEF WifiWaits
  <1>21. CASE WifiEvent
    <2>1. /\ pc' = pc
          /\ \/ /\ wifi.events = <<"start">> /\ wifi'.events = <<>>
                /\ wifi'.connected = wifi.connected
                /\ \/ wifi'.failed = wifi.failed /\ wifi'.assoc \in {"trying", wifi.assoc}
                   \/ wifi'.failed /\ wifi'.assoc = wifi.assoc
             \/ /\ wifi.events = <<"lost">> /\ wifi'.events = <<>>
                /\ wifi'.connected = FALSE \/ wifi'.connected = wifi.connected
                /\ \/ wifi'.failed = wifi.failed /\ wifi'.assoc \in {"trying", wifi.assoc}
                   \/ /\ wifi'.failed /\ wifi'.assoc = wifi.assoc
                      /\ wifi'.connected = FALSE
             \/ /\ \/ wifi.events = <<"ip">> /\ wifi'.events = <<>>
                   \/ wifi.events = <<"ip", "lost">> /\ wifi'.events = <<"lost">>
                /\ wifi'.failed = wifi.failed /\ wifi'.assoc = wifi.assoc
      <3> DEFINE e == Head(wifi.events)
                 w == [wifi EXCEPT !.events = Tail(@)]
      <3>1. /\ wifi.events # <<>> /\ pc' = pc
            /\ \/ wifi' = w
               \/ e = "start" /\ wifi' = [w EXCEPT !.assoc = IF w.radio THEN "trying" ELSE @]
               \/ e = "start" /\ wifi' = [w EXCEPT !.failed = TRUE]
               \/ e = "lost" /\ wifi' = Retry(w)
               \/ e = "ip" /\ wifi' = [w EXCEPT !.retries = 0, !.connected = TRUE]
        BY <1>21 DEF WifiEvent
      <3>2. /\ w.events = Tail(wifi.events) /\ w.assoc = wifi.assoc /\ w.radio = wifi.radio
            /\ w.connected = wifi.connected /\ w.failed = wifi.failed
            /\ w \in [radio : BOOLEAN, group : BOOLEAN, handlers : SUBSET {"wifi", "ip"},
                      connected : BOOLEAN, failed : BOOLEAN, retries : 0 .. WifiRetries,
                      assoc : {"down", "trying", "up"}, events : {Tail(wifi.events)}]
        OBVIOUS
      <3> HIDE DEF w
      <3>3. wifi'.events = Tail(wifi.events)
        BY <3>1, <3>2 DEF Retry
      <3>4. CASE wifi' = w
        BY <3>1, <3>2, <3>3, <3>4, Queues
      <3>5. CASE e = "start" /\ wifi' # w
        <4>1. wifi'.connected = wifi.connected
          BY <3>1, <3>2, <3>5
        <4>2. \/ wifi'.failed = wifi.failed /\ wifi'.assoc \in {"trying", wifi.assoc}
              \/ wifi'.failed /\ wifi'.assoc = wifi.assoc
          BY <3>1, <3>2, <3>5
        <4> QED BY <3>1, <3>3, <3>5, <4>1, <4>2, Queues
      <3>6. CASE e = "lost" /\ wifi' # w
        <4>1. wifi' = Retry(w)
          BY <3>1, <3>6
        <4>2. CASE w.retries < WifiRetries
          BY <3>1, <3>2, <3>3, <3>6, <4>1, <4>2, Queues DEF Retry
        <4>3. CASE ~(w.retries < WifiRetries)
          BY <3>1, <3>2, <3>3, <3>6, <4>1, <4>3, Queues DEF Retry
        <4> QED BY <4>2, <4>3
      <3>7. CASE e = "ip" /\ wifi' # w
        <4>1. wifi'.failed = wifi.failed /\ wifi'.assoc = wifi.assoc
          BY <3>1, <3>2, <3>7
        <4> QED BY <3>1, <3>3, <3>7, <4>1, Queues
      <3> QED BY <3>1, <3>4, <3>5, <3>6, <3>7
    <2>2. CASE wifi.events = <<"start">>
      BY <2>1, <2>2, Queues
    <2>3. CASE wifi.events = <<"lost">>
      BY <2>1, <2>3, Queues
    <2>4. CASE wifi.events \in {<<"ip">>, <<"ip", "lost">>}
      BY <2>1, <2>4, Queues
    <2> QED BY <2>1, <2>2, <2>3, <2>4
  <1>22. CASE StationUp
    <2>1. /\ pc' = pc /\ wifi.assoc = "trying"
          /\ wifi'.events = Append(wifi.events, "ip") /\ wifi'.assoc = "up"
          /\ wifi'.connected = wifi.connected /\ wifi'.failed = wifi.failed
      BY <1>22 DEF StationUp
    <2>2. wifi'.events \in {<<"ip">>}
      BY <2>1, Queues
    <2> QED BY <2>1, <2>2, Queues
  <1>23. CASE StationLost
    <2>1. /\ pc' = pc /\ wifi.assoc # "down"
          /\ wifi'.events = Append(wifi.events, "lost") /\ wifi'.assoc = "down"
          /\ wifi'.connected = wifi.connected /\ wifi'.failed = wifi.failed
      BY <1>23 DEF StationLost
    <2>2. wifi'.events \in {<<"lost">>, <<"ip", "lost">>}
      BY <2>1, Queues
    <2> QED BY <2>1, <2>2, Queues
  <1>24. CASE StopWifi
    <2>1. /\ pc' \notin {"wifiInit", "wifiGroup", "wifiHandler", "ipHandler", "wifiStart"}
          /\ \/ wifi' = NoWifi
             \/ /\ wifi'.events = wifi.events /\ wifi'.connected = wifi.connected
                /\ wifi'.failed = wifi.failed /\ wifi'.assoc \in {"down", wifi.assoc}
      BY <1>24 DEF StopWifi
    <2>2. CASE wifi' = NoWifi
      BY <2>1, <2>2, Queues DEF NoWifi
    <2>3. CASE wifi' # NoWifi
      BY <2>1, <2>3, Queues
    <2> QED BY <2>2, <2>3
  <1>25. CASE AttemptFails
    BY <1>25 DEF AttemptFails
  <1>26. CASE HttpOpen
    BY <1>26 DEF HttpOpen, Failed
  <1>27. CASE OtaBegin
    BY <1>27 DEF OtaBegin, Failed
  <1>28. CASE ReadBody
    BY <1>28 DEF ReadBody, Failed
  <1>29. CASE Finish
    BY <1>29 DEF Finish, Failed
  <1>30. CASE Stage
    BY <1>30 DEF Stage, Failed
  <1>31. CASE Release
    BY <1>31 DEF Release
  <1>32. CASE Approve
    BY <1>32 DEF Approve
  <1>33. CASE PowerLoss
    BY <1>33 DEF PowerLoss, NoWifi
  <1>34. CASE UNCHANGED vars
    BY <1>34 DEF vars
  <1> QED
    BY <1>1, <1>2, <1>3, <1>4, <1>5, <1>6, <1>7, <1>8, <1>9, <1>10, <1>11, <1>12,
       <1>13, <1>14, <1>15, <1>16, <1>17, <1>18, <1>19, <1>20, <1>21, <1>22,
       <1>23, <1>24, <1>25, <1>26, <1>27, <1>28, <1>29, <1>30, <1>31, <1>32,
       <1>33, <1>34
    DEF Next, MainTask, Transfer, Host, Download, Environment

(* The slots: StagedAsOffered and Atomic *)

StagedPcs == {"stopRadio", "stopWifiHandler", "stopIpHandler", "stopGroup", "restart"}

\* One of the slots is trusted, and the running image is the one the boot loader
\* chose; a staged image waits for the restart.
SlotInv ==
    LET state == otadata.state[otadata.latest] IN
    /\ state \in {"valid", "new", "pending", "aborted"}
    /\ state # "valid" => otadata.state[Other(otadata.latest)] = "valid"
    /\ pc # "boot" =>
         \/ state \in {"valid", "pending"} /\ running = otadata.latest
         \/ state = "aborted" /\ running = Other(otadata.latest)
         \/ /\ state = "new" /\ running = Other(otadata.latest)
            /\ pc \in StagedPcs /\ http.staged
    /\ pc \in {"body", "finish", "stage"} => otadata.state[running] = "valid"

\* What is downloaded and staged is what was offered.
OfferedInv ==
    /\ scale.offer \in scale.offered \cup {0}
    /\ offer.sha \in scale.offered \cup {0}
    /\ pc \in WifiPcs =>
         /\ bundle.sha = offer.sha /\ bundle.sha # 0
         /\ bundle.version = offer.version /\ bundle.version # 0
    /\ http.digest # 0 => pc \in {"finish", "failed", "stage", "sleep"} \cup StagedPcs
    /\ pc = "finish" /\ http.digest # 0 => flash[Target] = http.digest
    /\ pc = "stage" => http.digest = bundle.sha /\ flash[Target] = http.digest

Inv == TypeInv /\ LinkInv /\ WifiInv /\ QueueInv /\ SlotInv /\ OfferedInv

LEMMA SlotInit == Init => SlotInv /\ OfferedInv
  BY UpdateAssumption, EmptyType DEF Init, SlotInv, OfferedInv, NoOffer, NoHttp, Slots, Other, WifiPcs

\* Confirming changes the state of an image on trial, if anything.
LEMMA ConfirmStates ==
    ASSUME otadata \in OtaType, running \in Slots, Confirm
    PROVE  /\ otadata'.latest = otadata.latest
           /\ otadata'.state[Other(running)] = otadata.state[Other(running)]
           /\ \/ otadata'.state[running] = otadata.state[running]
              \/ otadata.state[running] = "pending" /\ otadata'.state[running] = "valid"
  <1> DEFINE x == IF otadata.state[running] = "pending" THEN "valid"
                  ELSE otadata.state[running]
  <1>1. CASE otadata' = otadata
    <2>1. otadata'.latest = otadata.latest /\ otadata'.state = otadata.state
      BY <1>1
    <2> QED BY <2>1, Zenon
  <1>2. CASE otadata' = [otadata EXCEPT !.state[running] = x]
    <2>1. /\ otadata'.latest = otadata.latest
          /\ otadata'.state[Other(running)] = otadata.state[Other(running)]
          /\ otadata'.state[running] = x
      BY <1>2, OtherSlot DEF OtaType
    <2>2. (x = "valid" /\ otadata.state[running] = "pending") \/ x = otadata.state[running]
      OBVIOUS
    <2> HIDE DEF x
    <2> QED BY <2>1, <2>2, Zenon
  <1> QED BY <1>1, <1>2 DEF Confirm

LEMMA SlotStep == TypeInv /\ LinkInv /\ SlotInv /\ [Next]_vars => SlotInv'
  <1> SUFFICES ASSUME TypeInv, LinkInv, SlotInv, [Next]_vars PROVE SlotInv'
    OBVIOUS
  <1> USE DEF SlotInv, TypeInv, OtaType, StagedPcs, Goto, ram
  <1>1. CASE BootLoader
    BY <1>1, OtherSlot DEF BootLoader
  <1>2. CASE Confirm
    <2>0. pc = "start" /\ pc' = "offer" /\ running' = running
      BY <1>2 DEF Confirm
    <2>1. /\ otadata'.latest = otadata.latest
          /\ otadata'.state[Other(running)] = otadata.state[Other(running)]
          /\ \/ otadata'.state[running] = otadata.state[running]
             \/ otadata.state[running] = "pending" /\ otadata'.state[running] = "valid"
      BY <1>2, ConfirmStates
    <2>2. CASE running = otadata.latest
      BY <2>0, <2>1, <2>2
    <2>3. CASE running = Other(otadata.latest)
      BY <2>0, <2>1, <2>3, OtherSlot
    <2> QED BY <2>0, <2>2, <2>3
  <1>3. CASE ReadOfferVersion
    BY <1>3 DEF ReadOfferVersion
  <1>4. CASE ReadOfferSha
    BY <1>4 DEF ReadOfferSha
  <1>5. CASE Restart
    BY <1>5 DEF Restart, NoOffer, NoHttp
  <1>6. CASE ConnectPeer
    BY <1>6 DEF ConnectPeer
  <1>7. CASE ConnectTimeout
    BY <1>7 DEF ConnectTimeout, Left
  <1>8. CASE SecureConnection
    BY <1>8 DEF SecureConnection
  <1>9. CASE GattCall
    BY <1>9 DEF GattCall
  <1>10. CASE GattTimeout
    BY <1>10 DEF GattTimeout, Left
  <1>11. CASE Disconnect
    BY <1>11 DEF Disconnect
  <1>12. CASE GapConnect
    BY <1>12 DEF GapConnect, LinkInv
  <1>13. CASE Discovered
    BY <1>13 DEF Discovered, Wake, After, LinkInv
  <1>14. CASE ReadPacket
    BY <1>14 DEF ReadPacket
  <1>15. CASE ReadTooLong
    BY <1>15 DEF ReadTooLong, Wake, LinkInv
  <1>16. CASE ReadDone
    BY <1>16 DEF ReadDone, Wake, LinkInv
  <1>17. CASE LinkLost
    BY <1>17 DEF LinkLost, Wake, LinkInv
  <1>18. CASE Evaluate
    BY <1>18 DEF Evaluate
  <1>19. CASE ConnectWifi
    BY <1>19 DEF ConnectWifi, WifiStep
  <1>20. CASE WifiWaits
    BY <1>20 DEF WifiWaits
  <1>21. CASE WifiEvent
    BY <1>21 DEF WifiEvent
  <1>22. CASE StationUp
    BY <1>22 DEF StationUp
  <1>23. CASE StationLost
    BY <1>23 DEF StationLost
  <1>24. CASE StopWifi
    BY <1>24 DEF StopWifi
  <1>25. CASE AttemptFails
    BY <1>25 DEF AttemptFails, NoHttp
  <1>26. CASE HttpOpen
    BY <1>26 DEF HttpOpen, Failed
  <1>27. CASE OtaBegin
    BY <1>27, OtherSlot DEF OtaBegin, Failed, Target
  <1>28. CASE ReadBody
    BY <1>28, OtherSlot DEF ReadBody, Failed, Target
  <1>29. CASE Finish
    BY <1>29, OtherSlot DEF Finish, Failed, Verified, Target
  <1>30. CASE Stage
    <2>1. pc = "stage" /\ running' = running /\ otadata.state[running] = "valid"
      BY <1>30 DEF Stage
    <2>2. CASE otadata' = otadata /\ pc' = "failed"
      BY <2>1, <2>2
    <2>3. CASE /\ otadata' = [latest |-> Target,
                             state |-> [otadata.state EXCEPT ![Target] = "new"]]
               /\ pc' = "stopRadio" /\ http'.staged
      <3>1. /\ otadata'.latest = Other(running)
            /\ otadata'.state[Other(running)] = "new"
            /\ otadata'.state[running] = "valid"
        BY <2>1, <2>3, OtherSlot DEF Target
      <3> QED BY <2>1, <2>3, <3>1, OtherSlot
    <2>4. http \in HttpType
      OBVIOUS
    <2>5. http' = [http EXCEPT !.staged = TRUE] => http'.staged
      BY <2>4 DEF HttpType
    <2> QED BY <1>30, <2>2, <2>3, <2>5 DEF Stage, Failed
  <1>31. CASE Release
    BY <1>31 DEF Release
  <1>32. CASE Approve
    BY <1>32 DEF Approve
  <1>33. CASE PowerLoss
    BY <1>33 DEF PowerLoss, NoHttp
  <1>34. CASE UNCHANGED vars
    BY <1>34 DEF vars
  <1> QED
    BY <1>1, <1>2, <1>3, <1>4, <1>5, <1>6, <1>7, <1>8, <1>9, <1>10, <1>11, <1>12,
       <1>13, <1>14, <1>15, <1>16, <1>17, <1>18, <1>19, <1>20, <1>21, <1>22,
       <1>23, <1>24, <1>25, <1>26, <1>27, <1>28, <1>29, <1>30, <1>31, <1>32,
       <1>33, <1>34
    DEF Next, MainTask, Transfer, Host, Download, Environment

LEMMA OfferedStep == TypeInv /\ LinkInv /\ SlotInv /\ OfferedInv /\ [Next]_vars => OfferedInv'
  <1> SUFFICES ASSUME TypeInv, LinkInv, SlotInv, OfferedInv, [Next]_vars PROVE OfferedInv'
    OBVIOUS
  <1> USE DEF OfferedInv, LinkInv, StagedPcs, WifiPcs, Goto, ram
  <1>1. CASE BootLoader
    BY <1>1 DEF BootLoader, Target
  <1>2. CASE Confirm
    BY <1>2 DEF Confirm, Target
  <1>3. CASE ReadOfferVersion
    BY <1>3 DEF ReadOfferVersion, NoOffer, Target
  <1>4. CASE ReadOfferSha
    BY <1>4 DEF ReadOfferSha, NoOffer, Target
  <1>5. CASE Restart
    BY <1>5 DEF Restart, NoOffer, NoHttp, Target
  <1>6. CASE ConnectPeer
    BY <1>6 DEF ConnectPeer, Target
  <1>7. CASE ConnectTimeout
    BY <1>7 DEF ConnectTimeout, Left, Target
  <1>8. CASE SecureConnection
    BY <1>8 DEF SecureConnection, Target
  <1>9. CASE GattCall
    BY <1>9 DEF GattCall, Target
  <1>10. CASE GattTimeout
    BY <1>10 DEF GattTimeout, Left, Target
  <1>11. CASE Disconnect
    BY <1>11 DEF Disconnect, Target
  <1>12. CASE GapConnect
    BY <1>12 DEF GapConnect, Target
  <1>13. CASE Discovered
    BY <1>13 DEF Discovered, Wake, After, Target
  <1>14. CASE ReadPacket
    BY <1>14 DEF ReadPacket, Target
  <1>15. CASE ReadTooLong
    BY <1>15 DEF ReadTooLong, Wake, Target
  <1>16. CASE ReadDone
    BY <1>16 DEF ReadDone, Wake, Target
  <1>17. CASE LinkLost
    BY <1>17 DEF LinkLost, Wake, Target
  <1>18. CASE Evaluate
    BY <1>18 DEF Evaluate, Approved, Target
  <1>19. CASE ConnectWifi
    BY <1>19 DEF ConnectWifi, WifiStep, Target
  <1>20. CASE WifiWaits
    BY <1>20 DEF WifiWaits, Target
  <1>21. CASE WifiEvent
    BY <1>21 DEF WifiEvent, Target
  <1>22. CASE StationUp
    BY <1>22 DEF StationUp, Target
  <1>23. CASE StationLost
    BY <1>23 DEF StationLost, Target
  <1>24. CASE StopWifi
    BY <1>24 DEF StopWifi, Target
  <1>25. CASE AttemptFails
    BY <1>25 DEF AttemptFails, NoHttp, Target
  <1>26. CASE HttpOpen
    <2>1. pc = "open" /\ http.digest = 0
      BY <1>26 DEF HttpOpen
    <2>2. http'.digest = 0
      BY <1>26, <2>1 DEF HttpOpen, TypeInv, HttpType
    <2> QED BY <1>26, <2>2 DEF HttpOpen, Failed
  <1>27. CASE OtaBegin
    BY <1>27 DEF OtaBegin, Failed, Target
  <1>28. CASE ReadBody
    <2>1. pc = "body" /\ http.digest = 0
      BY <1>28 DEF ReadBody
    <2>2. CASE /\ flash' = [flash EXCEPT ![Target] = http.body]
               /\ http' = [http EXCEPT !.digest = http.body]
      <3>1. flash'[Target'] = http'.digest
        BY <1>28, <2>2, OtherSlot DEF ReadBody, TypeInv, HttpType, Target
      <3>2. pc' \in {"finish", "failed"}
        BY <1>28 DEF ReadBody, Failed
      <3> QED BY <1>28, <3>1, <3>2 DEF ReadBody
    <2>3. CASE http' = http
      BY <1>28, <2>1, <2>3 DEF ReadBody, Failed
    <2> QED BY <1>28, <2>2, <2>3 DEF ReadBody
  <1>29. CASE Finish
    BY <1>29 DEF Finish, Failed, Verified, Target
  <1>30. CASE Stage
    BY <1>30 DEF Stage, Failed, Target
  <1>31. CASE Release
    BY <1>31 DEF Release, Target
  <1>32. CASE Approve
    BY <1>32 DEF Approve, Target
  <1>33. CASE PowerLoss
    BY <1>33 DEF PowerLoss, NoOffer, NoHttp, Target
  <1>34. CASE UNCHANGED vars
    BY <1>34 DEF vars, Target
  <1> QED
    BY <1>1, <1>2, <1>3, <1>4, <1>5, <1>6, <1>7, <1>8, <1>9, <1>10, <1>11, <1>12,
       <1>13, <1>14, <1>15, <1>16, <1>17, <1>18, <1>19, <1>20, <1>21, <1>22,
       <1>23, <1>24, <1>25, <1>26, <1>27, <1>28, <1>29, <1>30, <1>31, <1>32,
       <1>33, <1>34
    DEF Next, MainTask, Transfer, Host, Download, Environment

LEMMA InvHolds == Spec => []Inv
  <1>1. Init => Inv
    BY TypeInit, LinkInit, WifiInit, SlotInit DEF Inv
  <1>2. Inv /\ [Next]_vars => Inv'
    BY TypeStep, LinkStep, WifiStepKeeps, QueueStep, SlotStep, OfferedStep DEF Inv
  <1> QED BY <1>1, <1>2, PTL DEF Spec

\* NothingDangles: connect_wifi and stop_wifi keep the event group while a handler
\* is registered, and only a wait that timed out leaves a GATT callback alone.
THEOREM NothingDanglesHolds == Spec => []NothingDangles
  <1>1. Inv => NothingDangles
    BY DEF Inv, WifiInv, LinkInv, NothingDangles
  <1> QED BY <1>1, InvHolds, PTL

\* Quiet: whatever fails, the display sleeps and restarts with Wi-Fi off, without
\* the bundle's credentials and without a connection that no timeout excuses.
THEOREM QuietHolds == Spec => []Quiet
  <1>1. Inv => Quiet
    BY DEF Inv, WifiInv, LinkInv, Quiet, LinkClosed, WifiPcs
  <1> QED BY <1>1, InvHolds, PTL

\* StagedAsOffered: for any images, packets and answers of the server, what is
\* staged is the image that the offer and the approved bundle named.
THEOREM StagedAsOfferedHolds == Spec => StagedAsOffered
  <1>1. Inv => (pc = "stage" => /\ flash[Target] = offer.sha /\ flash[Target] = bundle.sha
                                /\ bundle.version = offer.version)
    BY DEF Inv, OfferedInv, WifiPcs
  <1> QED BY <1>1, InvHolds, PTL DEF StagedAsOffered

\* GaveUp: a station that gave up its retries is never connected again.
THEOREM GaveUpHolds == Spec => GaveUp
  <1>1. Inv => (wifi.failed => ~wifi.connected)
    BY DEF Inv, QueueInv
  <1>2. Inv /\ Inv' => (wifi.failed /\ wifi'.failed => ~wifi'.connected)
    BY <1>1 DEF Inv, QueueInv
  <1> QED BY <1>2, InvHolds, PTL DEF GaveUp

\* What the boot loader starts and trusts depends on the slots alone.
LEMMA SameSlots ==
    ASSUME UNCHANGED <<flash, otadata>>
    PROVE  Boots' = Boots /\ Trusted' = Trusted
  BY DEF Boots, Trusted

\* Next, seen from outside, is a step of AtomicUpdate.
LEMMA OutcomeStep == Inv /\ [Next]_vars => [Outcome!Next]_(Outcome!vars)
  <1> SUFFICES ASSUME Inv, [Next]_vars PROVE [Outcome!Next]_(Outcome!vars)
    OBVIOUS
  <1> USE DEF Inv, TypeInv, SlotInv, OtaType
  <1>1. CASE BootLoader
    <2>1. /\ scale' = scale /\ flash' = flash
          /\ otadata'.latest = otadata.latest
          /\ otadata'.state[Other(otadata.latest)] = otadata.state[Other(otadata.latest)]
          /\ otadata'.state[otadata.latest] =
               IF otadata.state[otadata.latest] = "new" THEN "pending"
               ELSE IF otadata.state[otadata.latest] = "valid" THEN "valid" ELSE "aborted"
      BY <1>1, OtherSlot DEF BootLoader
    <2>2. Trusted' = Trusted
      BY <2>1 DEF Trusted
    <2>3. Boots' = Boots \/ Boots' = Trusted
      BY <2>1 DEF Boots, Trusted
    <2> QED BY <2>1, <2>2, <2>3 DEF Outcome!Next, Outcome!GoBack, Outcome!vars
  <1>2. CASE Confirm
    <2>1. scale' = scale /\ flash' = flash /\ pc = "start"
      BY <1>2 DEF Confirm
    <2>2. CASE otadata' = otadata
      BY <2>1, <2>2, SameSlots DEF Outcome!vars
    <2>3. CASE /\ otadata.state[running] = "pending"
               /\ otadata' = [otadata EXCEPT !.state[running] = "valid"]
      <3>1. running = otadata.latest
        BY <2>1, <2>3, OtherSlot DEF StagedPcs
      <3>2. otadata'.latest = otadata.latest /\ otadata'.state[otadata.latest] = "valid"
        BY <2>3, <3>1
      <3>3. Boots' = Boots /\ Trusted' = Boots
        BY <2>1, <2>3, <3>1, <3>2 DEF Boots, Trusted
      <3> QED BY <2>1, <3>3 DEF Outcome!Next, Outcome!Accept, Outcome!vars
    <2>4. otadata.state[running] # "pending" =>
            [otadata EXCEPT !.state[running] =
               IF otadata.state[running] = "pending" THEN "valid" ELSE otadata.state[running]]
              = otadata
      OBVIOUS
    <2> QED BY <1>2, <2>2, <2>3, <2>4 DEF Confirm
  <1>3. CASE OtaBegin \/ ReadBody
    <2>1. /\ scale' = scale /\ otadata' = otadata
          /\ flash' = flash \/ otadata.state[running] = "valid"
          /\ flash'[Other(Target)] = flash[Other(Target)]
      BY <1>3, OtherSlot DEF OtaBegin, ReadBody, Target, StagedPcs
    <2>2. CASE flash' = flash
      BY <2>1, <2>2, SameSlots DEF Outcome!vars
    <2>3. CASE otadata.state[running] = "valid" /\ flash'[running] = flash[running]
      <3>1. pc # "boot" /\ pc \notin StagedPcs
        BY <1>3 DEF OtaBegin, ReadBody, StagedPcs
      <3>2. Boots = flash[running] /\ Trusted = flash[running]
        BY <2>3, <3>1, OtherSlot DEF Boots, Trusted
      <3>3. Boots' = flash'[running] /\ Trusted' = flash'[running]
        BY <2>1, <2>3, <3>1, OtherSlot DEF Boots, Trusted
      <3> QED BY <2>1, <2>3, <3>2, <3>3 DEF Outcome!vars
    <2> QED BY <2>1, <2>2, <2>3, OtherSlot DEF Target
  <1>4. CASE Stage
    <2>1. scale' = scale /\ flash' = flash /\ pc = "stage"
      BY <1>4 DEF Stage
    <2>2. CASE otadata' = otadata
      BY <2>1, <2>2, SameSlots DEF Outcome!vars
    <2>3. CASE otadata' = [latest |-> Target,
                           state |-> [otadata.state EXCEPT ![Target] = "new"]]
      <3>1. Boots = flash[running] /\ Trusted = flash[running]
        BY <2>1, OtherSlot DEF Boots, Trusted, StagedPcs
      <3>2. Boots' = flash[Target] /\ Trusted' = flash[running]
        BY <2>1, <2>3, OtherSlot DEF Boots, Trusted, Target
      <3>3. flash[Target] \in scale.offered
        BY <2>1 DEF OfferedInv, WifiPcs
      <3> QED BY <2>1, <3>1, <3>2, <3>3 DEF Outcome!Next, Outcome!Install, Outcome!vars
    <2> QED BY <1>4, <2>2, <2>3 DEF Stage
  <1>5. CASE Release
    <2>1. UNCHANGED <<flash, otadata>>
          /\ \E i \in Images : scale'.offered = scale.offered \cup {i}
      BY <1>5 DEF Release
    <2> QED BY <2>1, SameSlots DEF Outcome!Next, Outcome!Offer, Outcome!vars
  <1>6. ASSUME UNCHANGED <<flash, otadata>>, scale'.offered = scale.offered
        PROVE  UNCHANGED Outcome!vars
    BY <1>6, SameSlots DEF Outcome!vars
  <1>7. CASE Approve
    <2>1. scale'.offered = scale.offered
      BY <1>7 DEF Approve, ScaleType
    <2> QED BY <1>6, <1>7, <2>1 DEF Approve
  <1>8. CASE ReadOfferVersion \/ ReadOfferSha \/ Restart \/ Transfer \/ Host
    BY <1>6, <1>8
    DEF ReadOfferVersion, ReadOfferSha, Restart, Transfer, Host, ConnectPeer, ConnectTimeout,
        SecureConnection, GattCall, GattTimeout, Disconnect, GapConnect, Discovered,
        ReadPacket, ReadTooLong, ReadDone, LinkLost
  <1>9. CASE Evaluate \/ ConnectWifi \/ WifiWaits \/ StopWifi \/ WifiEvent
    BY <1>6, <1>9 DEF Evaluate, ConnectWifi, WifiStep, WifiWaits, StopWifi, WifiEvent
  <1>10. CASE AttemptFails \/ HttpOpen \/ Finish \/ StationUp \/ StationLost \/ PowerLoss
    BY <1>6, <1>10 DEF AttemptFails, HttpOpen, Finish, StationUp, StationLost, PowerLoss
  <1>11. CASE UNCHANGED vars
    BY <1>6, <1>11 DEF vars
  <1> QED
    BY <1>1, <1>2, <1>3, <1>4, <1>5, <1>7, <1>8, <1>9, <1>10, <1>11
    DEF Next, MainTask, Download, Environment

\* Atomic: the update implements AtomicUpdate, for any images, retries, attempts,
\* moves of the Scale and faults, power losses included.
THEOREM ImplementsAtomicUpdate == Spec => Atomic
  <1>1. Init => Outcome!Init
    BY UpdateAssumption DEF Init, Outcome!Init, Boots, Trusted, Slots
  <1>2. Inv /\ [Next]_vars => [Outcome!Next]_(Outcome!vars)
    BY OutcomeStep
  <1> QED BY <1>1, <1>2, InvHolds, PTL DEF Spec, Atomic, Outcome!Spec
=============================================================================
