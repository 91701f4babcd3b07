---------------------------- MODULE DisplayUpdate ----------------------------
(***************************************************************************)
(* The firmware update of the e-paper display, from the offer it reads at  *)
(* a check-in to the boot of the new image: the bundle is read over an     *)
(* encrypted BLE connection, compared with the offer, downloaded over      *)
(* Wi-Fi into the slot that is not running, checked, staged, booted, and   *)
(* confirmed or rolled back.  The main task runs one step at a time; the   *)
(* NimBLE host, the Wi-Fi event task, the Scale and power run beside it.   *)
(*                                                                         *)
(* Images are numbers, 0 is no image.  An image stands for its version,    *)
(* its URL, its bytes and their digest; all images have one size, so the   *)
(* comparison of sizes never helps.  NimBLE, ESP-IDF's Wi-Fi, OTA and      *)
(* boot loader, the web server and the Scale are external.                 *)
(***************************************************************************)
EXTENDS Naturals, Sequences

CONSTANTS
    Images,         \* the images there are, as numbers
    Factory,        \* the image the display was delivered with
    WifiRetries,    \* WIFI_MAX_RETRIES (10 in the code)
    Attempts,       \* HTTP_CONNECT_ATTEMPTS (3 in the code)
    Moves,          \* bound: releases, approvals and withdrawals at the Scale
    Faults          \* bound: failures of calls, radio, server and power

ASSUME UpdateAssumption ==
    /\ Images \subseteq Nat \ {0} /\ Factory \in Images
    /\ WifiRetries \in Nat /\ Attempts \in Nat \ {0}
    /\ Moves \in Nat /\ Faults \in Nat

VARIABLES
    pc,         \* where the main task is
    running,    \* the slot of the running image
    flash,      \* what the slots hold: an image, or 0 while it is not whole
    otadata,    \* the slot staged last, and the state of each slot
    offer,      \* state->update
    bundle,     \* ble_client_update_bundle_t
    link,       \* the BLE connection, and the GATT procedure of the host
    wifi,       \* wifi_context_t, its handlers and the radio
    http,       \* download_and_stage
    scale,      \* external: what the Scale offers, and everything it offered
    budget      \* what is left of Moves and Faults

vars == <<pc, running, flash, otadata, offer, bundle, link, wifi, http, scale, budget>>
ram == <<offer, bundle, link, wifi, http>>

Slots == {"ota_0", "ota_1"}
Other(s) == IF s = "ota_0" THEN "ota_1" ELSE "ota_0"
Maybe == Images \cup {0}

NoOffer == [version |-> 0, sha |-> 0]
NoBundle == [version |-> 0, url |-> 0, sha |-> 0]
NoLink ==
    [conn |-> "none", active |-> FALSE, proc |-> "none", waited |-> FALSE,
     at |-> 0, late |-> FALSE, stray |-> FALSE]
NoWifi ==
    [radio |-> FALSE, group |-> FALSE, handlers |-> {}, connected |-> FALSE,
     failed |-> FALSE, retries |-> 0, assoc |-> "down", events |-> <<>>]
NoHttp == [attempt |-> 0, body |-> 0, digest |-> 0, staged |-> FALSE]

\* A step that is not an ordinary one is charged to the faults.
Spend(free) ==
    /\ free \/ budget.faults > 0
    /\ budget' = IF free THEN budget ELSE [budget EXCEPT !.faults = @ - 1]

Goto(p) == pc' = p
-----------------------------------------------------------------------------
Init ==
    /\ pc = "boot" /\ running = "ota_0"
    /\ flash = [s \in Slots |-> IF s = "ota_0" THEN Factory ELSE 0]
    /\ otadata = [latest |-> "ota_0",
                  state |-> [s \in Slots |-> IF s = "ota_0" THEN "valid" ELSE "none"]]
    /\ offer = NoOffer /\ bundle = NoBundle
    /\ link = NoLink /\ wifi = NoWifi /\ http = NoHttp
    /\ scale = [offer |-> 0, approved |-> FALSE, offered |-> {}]
    /\ budget = [moves |-> Moves, faults |-> Faults]

(* The boot loader, and app_main around the update *)

\* external.  A new image is on trial until it is confirmed: the next start
\* without confirmation goes back.
BootLoader ==
    /\ pc = "boot" /\ Goto("start")
    /\ LET s == otadata.latest
           trial == otadata.state[s] = "new"
           good == otadata.state[s] \in {"new", "valid"}
       IN /\ running' = IF good THEN s ELSE Other(s)
          /\ otadata' = [otadata EXCEPT !.state[s] =
                            IF trial THEN "pending" ELSE IF good THEN @ ELSE "aborted"]
    /\ UNCHANGED <<flash, ram, scale, budget>>

\* Mutant: the running image is never confirmed.
Confirm_Skipped ==
    /\ pc = "start" /\ Goto("offer")
    /\ UNCHANGED <<running, flash, otadata, ram, scale, budget>>

\* display_ota_confirm_running_image.  A failure is only logged.
Confirm ==
    /\ pc = "start" /\ Goto("offer")
    /\ \/ /\ Spend(TRUE)
          /\ otadata' = [otadata EXCEPT !.state[running] = IF @ = "pending" THEN "valid" ELSE @]
       \/ otadata.state[running] = "pending" /\ Spend(FALSE) /\ UNCHANGED otadata
    /\ UNCHANGED <<running, flash, ram, scale>>

\* The offer is a long read of the check-in: its version and its digest come in
\* different packets.
ReadOfferVersion ==
    /\ pc = "offer" /\ Goto("offerSha")
    /\ offer' = [NoOffer EXCEPT !.version = scale.offer]
    /\ UNCHANGED <<running, flash, otadata, bundle, link, wifi, http, scale, budget>>

\* display_update_needed compares the version with that of the running image.
ReadOfferSha ==
    /\ pc = "offerSha"
    /\ \E ok \in BOOLEAN :
        /\ Spend(ok)
        /\ offer' = IF ok THEN [offer EXCEPT !.sha = scale.offer] ELSE NoOffer
        /\ Goto(IF offer'.version \in {0, flash[running]} THEN "sleep" ELSE "connect")
    /\ UNCHANGED <<running, flash, otadata, bundle, link, wifi, http, scale>>

\* Deep sleep, and esp_restart after an update was staged: RAM is lost.
Restart ==
    /\ pc \in {"sleep", "restart"} /\ Goto("boot")
    /\ offer' = NoOffer /\ bundle' = NoBundle
    /\ link' = NoLink /\ wifi' = NoWifi /\ http' = NoHttp
    /\ UNCHANGED <<running, flash, otadata, scale, budget>>

(* ble_client_fetch_update_bundle *)

\* Mutant: the active connection is not cleared when the wait times out.
Left_Active(p) == link' = [link EXCEPT !.waited = FALSE, !.late = TRUE] /\ Goto(p)

\* A wait that timed out: the function returns while the host is still busy.
Left(p) ==
    /\ link' = [link EXCEPT !.waited = FALSE, !.late = TRUE,
                            !.active = @ /\ p = "disconnect"]
    /\ Goto(p)

\* connect_peer, up to its wait.
ConnectPeer ==
    /\ pc = "connect"
    /\ \/ /\ link.conn = "none" /\ Spend(TRUE) /\ Goto("connecting")
          /\ link' = [link EXCEPT !.conn = "trying", !.active = TRUE,
                                  !.proc = "connect", !.waited = TRUE]
       \/ Spend(link.conn # "none") /\ UNCHANGED link /\ Goto("evaluate")
    /\ UNCHANGED <<running, flash, otadata, offer, bundle, wifi, http, scale>>

\* BLE_GAP_EVENT_CONNECT: ignored unless connect_peer still waits for it.
GapConnect ==
    /\ link.proc = "connect"
    /\ \E ok \in BOOLEAN :
        LET done == [link EXCEPT !.conn = IF ok THEN "up" ELSE "none",
                                 !.proc = "none", !.waited = FALSE]
        IN /\ Spend(ok)
           /\ IF ~link.waited THEN link' = done /\ UNCHANGED pc
              ELSE IF ok THEN link' = done /\ Goto("secure")
              ELSE link' = [done EXCEPT !.active = FALSE] /\ Goto("evaluate")
    /\ UNCHANGED <<running, flash, otadata, offer, bundle, wifi, http, scale>>

ConnectTimeout ==
    /\ pc = "connecting" /\ Spend(FALSE) /\ Left("evaluate")
    /\ UNCHANGED <<running, flash, otadata, offer, bundle, wifi, http, scale>>

\* secure_connection.  Its callback looks for the semaphore, which is gone after
\* a timeout, so that a late one is ignored.
SecureConnection ==
    /\ pc = "secure"
    /\ \E ok \in {b \in BOOLEAN : b => link.conn = "up"} :
        Spend(ok \/ link.conn # "up") /\ Goto(IF ok THEN "service" ELSE "disconnect")
    /\ UNCHANGED <<running, flash, otadata, ram, scale>>

\* The GATT calls in order: the service, its characteristics, the long read.
After(op) == CASE op = "service" -> "characteristics"
               [] op = "characteristics" -> "read"
               [] op = "read" -> "disconnect"

\* The call, up to its wait.
GattCall ==
    /\ pc \in {"service", "characteristics", "read"}
    /\ \/ /\ link.conn = "up" /\ Spend(TRUE) /\ Goto("waiting")
          /\ link' = [link EXCEPT !.proc = pc, !.waited = TRUE, !.at = 0]
       \/ Spend(link.conn # "up") /\ UNCHANGED link /\ Goto("disconnect")
    /\ UNCHANGED <<running, flash, otadata, offer, bundle, wifi, http, scale>>

\* A callback that ends the procedure.  Its context and semaphore live in the
\* call that waits: when nobody does, it writes into memory that is gone.
Ended == [link EXCEPT !.proc = "none", !.waited = FALSE, !.stray = @ \/ ~link.waited]
Wake(p) == IF link.waited THEN Goto(p) ELSE UNCHANGED pc

\* service_disc_cb, characteristic_disc_cb
Discovered ==
    /\ link.proc \in {"service", "characteristics"}
    /\ \E ok \in BOOLEAN :
        Spend(ok) /\ Wake(IF ok THEN After(link.proc) ELSE "disconnect")
    /\ link' = Ended
    /\ UNCHANGED <<running, flash, otadata, offer, bundle, wifi, http, scale>>

\* What the Scale puts in the next packet: an unapproved bundle is empty.
Fields == <<"version", "url", "sha">>
Packet == IF scale.approved THEN scale.offer ELSE 0

\* read_long_cb with data: each packet is read when the Scale is asked for it.
ReadPacket ==
    /\ link.proc = "read" /\ link.at < Len(Fields)
    /\ LET k == Fields[link.at + 1] IN
       /\ bundle' = IF link.waited THEN [bundle EXCEPT ![k] = Packet] ELSE bundle
       /\ link' = [link EXCEPT !.at = @ + 1, !.stray = @ \/ ~link.waited]
    /\ UNCHANGED <<pc, running, flash, otadata, offer, wifi, http, scale, budget>>

\* Mutant: a value that is too long is refused, and the read goes on.
ReadTooLong_GoesOn ==
    /\ link.proc = "read" /\ Spend(FALSE)
    /\ link' = [link EXCEPT !.waited = FALSE, !.stray = @ \/ ~link.waited]
    /\ Wake("disconnect") /\ bundle' = NoBundle
    /\ UNCHANGED <<running, flash, otadata, offer, wifi, http, scale>>

\* read_long_cb returns BLE_HS_EMSGSIZE: the host ends the procedure.
ReadTooLong ==
    /\ link.proc = "read" /\ Spend(FALSE)
    /\ link' = Ended
    /\ Wake("disconnect") /\ bundle' = NoBundle
    /\ UNCHANGED <<running, flash, otadata, offer, wifi, http, scale>>

\* read_long_cb at the end of the value.
ReadDone ==
    /\ link.proc = "read" /\ link.at = Len(Fields)
    /\ link' = Ended /\ Wake("disconnect")
    /\ UNCHANGED <<running, flash, otadata, offer, bundle, wifi, http, scale, budget>>

\* The connection breaks: the host ends the procedure with an error.
LinkLost ==
    /\ link.conn = "up" /\ Spend(FALSE)
    /\ link' = [(IF link.proc = "none" THEN link ELSE Ended) EXCEPT !.conn = "none"]
    /\ IF link.proc = "none" THEN UNCHANGED pc ELSE Wake("disconnect")
    /\ bundle' = IF link.waited THEN NoBundle ELSE bundle
    /\ UNCHANGED <<running, flash, otadata, offer, wifi, http, scale>>

\* wait_sem: ten seconds, while the host allows a procedure thirty.
GattTimeout ==
    /\ pc = "waiting" /\ Spend(FALSE) /\ Left("disconnect") /\ bundle' = NoBundle
    /\ UNCHANGED <<running, flash, otadata, offer, wifi, http, scale>>

\* disconnect_peer: the host ends what is left of the procedures first.
Disconnect ==
    /\ pc = "disconnect" /\ Goto("evaluate")
    /\ LET rest == IF link.proc = "none" THEN link ELSE Ended IN
       \/ Spend(TRUE) /\ link' = [rest EXCEPT !.conn = "none", !.active = FALSE]
       \/ /\ link.conn = "up" /\ Spend(FALSE)
          /\ link' = [link EXCEPT !.active = FALSE, !.late = TRUE]
    /\ UNCHANGED <<running, flash, otadata, offer, bundle, wifi, http, scale>>

Transfer ==
    \/ ConnectPeer \/ ConnectTimeout \/ SecureConnection \/ GattCall
    \/ GattTimeout \/ Disconnect
Host == GapConnect \/ Discovered \/ ReadPacket \/ ReadTooLong \/ ReadDone \/ LinkLost

(* display_ota_authorization_evaluate, and the arguments of display_ota_install *)

\* Mutant: the digest of the offer is not compared.
Approved_NoSha ==
    bundle.version # 0 /\ bundle.version = offer.version /\ bundle.url # 0

\* "Its immutable identity exactly matches the advertised offer."
Approved ==
    /\ bundle.version # 0 /\ bundle.version = offer.version
    /\ bundle.sha = offer.sha /\ bundle.sha # 0 /\ bundle.url # 0

Evaluate ==
    /\ pc = "evaluate" /\ Goto(IF Approved THEN "wifiInit" ELSE "sleep")
    /\ bundle' = IF Approved THEN bundle ELSE NoBundle
    /\ UNCHANGED <<running, flash, otadata, offer, link, wifi, http, scale, budget>>

(* connect_wifi and wifi_event *)

\* Mutant: a step that fails goes to sleep at once.
WifiStep_NoStop(at, next, w) ==
    /\ pc = at
    /\ \/ Spend(TRUE) /\ wifi' = w /\ Goto(next)
       \/ Spend(FALSE) /\ UNCHANGED wifi /\ Goto("sleep")
    /\ UNCHANGED <<running, flash, otadata, offer, bundle, link, http, scale>>

\* A step of connect_wifi: on, or out through stop_wifi.
WifiStep(at, next, w) ==
    /\ pc = at
    /\ \/ Spend(TRUE) /\ wifi' = w /\ Goto(next)
       \/ Spend(FALSE) /\ UNCHANGED wifi /\ Goto("stopRadio")
    /\ UNCHANGED <<running, flash, otadata, offer, bundle, link, http, scale>>

\* esp_wifi_init, the event group, two handlers, esp_wifi_start.
ConnectWifi ==
    \/ WifiStep("wifiInit", "wifiGroup", wifi)
    \/ WifiStep("wifiGroup", "wifiHandler", [wifi EXCEPT !.group = TRUE])
    \/ WifiStep("wifiHandler", "ipHandler", [wifi EXCEPT !.handlers = {"wifi"}])
    \/ WifiStep("ipHandler", "wifiStart", [wifi EXCEPT !.handlers = @ \cup {"ip"}])
    \/ WifiStep("wifiStart", "wifiWait",
                [wifi EXCEPT !.radio = TRUE, !.events = Append(@, "start")])

\* Sixty seconds for the first connection, fifteen before each download.
WifiWaits ==
    /\ pc \in {"wifiWait", "attempt"}
    /\ LET fails == IF pc = "wifiWait" THEN "stopRadio" ELSE "failed" IN
       \/ wifi.connected /\ Goto(IF pc = "wifiWait" THEN "attempt" ELSE "open") /\ Spend(TRUE)
       \/ ~wifi.connected /\ wifi.failed /\ Goto(fails) /\ Spend(TRUE)
       \/ /\ ~wifi.connected /\ ~wifi.failed /\ Goto(fails)
          /\ Spend(wifi.assoc = "down" /\ wifi.events = <<>>)
    /\ UNCHANGED <<running, flash, otadata, ram, scale>>

\* WIFI_EVENT_STA_DISCONNECTED
Retry(w) ==
    IF w.retries < WifiRetries
    THEN [w EXCEPT !.connected = FALSE, !.retries = @ + 1,
                   !.assoc = IF w.radio THEN "trying" ELSE @]
    ELSE [w EXCEPT !.connected = FALSE, !.failed = TRUE]

\* The event task runs wifi_event for the next event if a handler is there.
WifiEvent ==
    /\ wifi.events # <<>>
    /\ LET e == Head(wifi.events)
           w == [wifi EXCEPT !.events = Tail(@)]
           heard == (IF e = "ip" THEN "ip" ELSE "wifi") \in wifi.handlers
       IN \/ ~heard /\ wifi' = w /\ Spend(TRUE)
          \/ /\ heard /\ e = "start" /\ Spend(TRUE)
             /\ wifi' = [w EXCEPT !.assoc = IF w.radio THEN "trying" ELSE @]
          \/ heard /\ e = "start" /\ wifi' = [w EXCEPT !.failed = TRUE] /\ Spend(FALSE)
          \/ heard /\ e = "lost" /\ wifi' = Retry(w) /\ Spend(TRUE)
          \/ /\ heard /\ e = "ip" /\ Spend(TRUE)
             /\ wifi' = [w EXCEPT !.retries = 0, !.connected = TRUE]
    /\ UNCHANGED <<pc, running, flash, otadata, offer, bundle, link, http, scale>>

\* external: the station gets an address, or loses the access point.
StationUp ==
    /\ wifi.assoc = "trying"
    /\ wifi' = [wifi EXCEPT !.assoc = "up", !.events = Append(@, "ip")]
    /\ UNCHANGED <<pc, running, flash, otadata, offer, bundle, link, http, scale, budget>>

StationLost ==
    /\ wifi.assoc # "down" /\ Spend(FALSE)
    /\ wifi' = [wifi EXCEPT !.assoc = "down", !.events = Append(@, "lost")]
    /\ UNCHANGED <<pc, running, flash, otadata, offer, bundle, link, http, scale>>

\* Mutant: the event group goes before the handlers that use it.
StopWifi_GroupFirst ==
    LET step(at, next, w) == pc = at /\ wifi' = w /\ Goto(next) IN
    /\ \/ step("stopRadio", "stopWifiHandler",
               [wifi EXCEPT !.radio = FALSE, !.assoc = "down", !.group = FALSE])
       \/ step("stopWifiHandler", "stopIpHandler", [wifi EXCEPT !.handlers = @ \ {"wifi"}])
       \/ step("stopIpHandler", "stopGroup", [wifi EXCEPT !.handlers = @ \ {"ip"}])
       \/ step("stopGroup", IF http.staged THEN "restart" ELSE "sleep", NoWifi)
    /\ bundle' = IF pc = "stopGroup" THEN NoBundle ELSE bundle
    /\ UNCHANGED <<running, flash, otadata, offer, link, http, scale, budget>>

\* stop_wifi in its order; what is still queued goes to the handlers that are
\* left.  Then the credentials are cleared.
StopWifi ==
    LET step(at, next, w) == pc = at /\ wifi' = w /\ Goto(next) IN
    /\ \/ step("stopRadio", "stopWifiHandler",
               [wifi EXCEPT !.radio = FALSE, !.assoc = "down"])
       \/ step("stopWifiHandler", "stopIpHandler", [wifi EXCEPT !.handlers = @ \ {"wifi"}])
       \/ step("stopIpHandler", "stopGroup", [wifi EXCEPT !.handlers = @ \ {"ip"}])
       \/ step("stopGroup", IF http.staged THEN "restart" ELSE "sleep", NoWifi)
    /\ bundle' = IF pc = "stopGroup" THEN NoBundle ELSE bundle
    /\ UNCHANGED <<running, flash, otadata, offer, link, http, scale, budget>>

(* download_and_stage *)

\* Mutant: the slot that was not staged last.
Target_NotLatest == Other(otadata.latest)

\* esp_ota_get_next_update_partition
Target == Other(running)

Failed == Goto("failed")

\* The next of the attempts, or the end of them.
AttemptFails ==
    /\ pc = "failed"
    /\ IF http.attempt + 1 < Attempts
       THEN Goto("attempt") /\ http' = [NoHttp EXCEPT !.attempt = http.attempt + 1]
       ELSE Goto("stopRadio") /\ http' = NoHttp
    /\ UNCHANGED <<running, flash, otadata, offer, bundle, link, wifi, scale, budget>>

\* esp_http_client_open: the server may answer with another image.
HttpOpen ==
    /\ pc = "open"
    /\ \/ /\ wifi.assoc = "up" /\ Goto("begin")
          /\ \E i \in Images : http' = [http EXCEPT !.body = i] /\ Spend(i = bundle.url)
       \/ Failed /\ Spend(wifi.assoc # "up") /\ UNCHANGED http
    /\ UNCHANGED <<running, flash, otadata, offer, bundle, link, wifi, scale>>

\* esp_ota_begin erases the target; it refuses while the running image is on
\* trial.  Setting up the hash or the buffer may fail afterwards.
OtaBegin ==
    /\ pc = "begin"
    /\ IF otadata.state[running] = "pending"
       THEN Failed /\ UNCHANGED <<flash, budget>>
       ELSE /\ \/ Goto("body") /\ Spend(TRUE)
               \/ Failed /\ Spend(FALSE)
            /\ flash' = [flash EXCEPT ![Target] = 0]
    /\ UNCHANGED <<running, otadata, ram, scale>>

\* The read loop: the body is written and hashed.  It may end early, or fail.
ReadBody ==
    /\ pc = "body"
    /\ \/ /\ wifi.assoc = "up" /\ Goto("finish") /\ Spend(TRUE)
          /\ flash' = [flash EXCEPT ![Target] = http.body]
          /\ http' = [http EXCEPT !.digest = http.body]
       \/ Goto("finish") /\ Spend(FALSE) /\ UNCHANGED <<flash, http>>
       \/ Failed /\ Spend(wifi.assoc # "up") /\ UNCHANGED <<flash, http>>
    /\ UNCHANGED <<running, otadata, offer, bundle, link, wifi, scale>>

\* Mutant: only the number of bytes is compared.
Verified_SizeOnly == http.digest # 0

\* The byte count and sha256_matches.
Verified == http.digest # 0 /\ http.digest = bundle.sha

Finish ==
    /\ pc = "finish" /\ (IF Verified THEN Goto("stage") ELSE Failed)
    /\ UNCHANGED <<running, flash, otadata, ram, scale, budget>>

\* esp_ota_end and esp_ota_set_boot_partition.
Stage ==
    /\ pc = "stage"
    /\ \/ /\ Goto("stopRadio") /\ Spend(TRUE)
          /\ otadata' = [latest |-> Target,
                         state |-> [otadata.state EXCEPT ![Target] = "new"]]
          /\ http' = [http EXCEPT !.staged = TRUE]
       \/ Failed /\ Spend(FALSE) /\ UNCHANGED <<otadata, http>>
    /\ UNCHANGED <<running, flash, offer, bundle, link, wifi, scale>>

Download == AttemptFails \/ HttpOpen \/ OtaBegin \/ ReadBody \/ Finish \/ Stage

(* external: the Scale and power *)

Release ==
    /\ budget.moves > 0 /\ budget' = [budget EXCEPT !.moves = @ - 1]
    /\ \E i \in Images \ {scale.offer} :
        scale' = [offer |-> i, approved |-> FALSE, offered |-> scale.offered \cup {i}]
    /\ UNCHANGED <<pc, running, flash, otadata, ram>>

Approve ==
    /\ scale.offer # 0
    /\ budget.moves > 0 /\ budget' = [budget EXCEPT !.moves = @ - 1]
    /\ scale' = [scale EXCEPT !.approved = ~@]
    /\ UNCHANGED <<pc, running, flash, otadata, ram>>

PowerLoss ==
    /\ pc # "boot" /\ Spend(FALSE) /\ Goto("boot")
    /\ offer' = NoOffer /\ bundle' = NoBundle
    /\ link' = NoLink /\ wifi' = NoWifi /\ http' = NoHttp
    /\ UNCHANGED <<running, flash, otadata, scale>>

Environment == StationUp \/ StationLost \/ Release \/ Approve \/ PowerLoss

MainTask ==
    \/ BootLoader \/ Confirm \/ ReadOfferVersion \/ ReadOfferSha \/ Restart
    \/ Transfer \/ Evaluate \/ ConnectWifi \/ WifiWaits \/ StopWifi \/ Download
-----------------------------------------------------------------------------
Next == MainTask \/ Host \/ WifiEvent \/ Environment

Spec == Init /\ [][Next]_vars

\* The main task, the host and the event task are scheduled, and an access
\* point in reach answers.  Nothing obliges the Scale.
Fairness == WF_vars(MainTask) /\ WF_vars(Host) /\ WF_vars(WifiEvent) /\ WF_vars(StationUp)

FairSpec == Spec /\ Fairness
(* Properties *)

LinkPcs == {"connecting", "secure", "service", "characteristics", "read",
            "waiting", "disconnect"}
WifiPcs == {"wifiInit", "wifiGroup", "wifiHandler", "ipHandler", "wifiStart",
            "wifiWait", "attempt", "failed", "open", "begin", "body", "finish",
            "stage", "stopRadio", "stopWifiHandler", "stopIpHandler", "stopGroup"}
States == {"none", "new", "pending", "valid", "aborted"}

\* The variables stay in their ranges.
TypeOK ==
    /\ pc \in LinkPcs \cup WifiPcs \cup {"boot", "start", "offer", "offerSha",
                                         "connect", "evaluate", "restart", "sleep"}
    /\ running \in Slots /\ flash \in [Slots -> Maybe]
    /\ otadata \in [latest : Slots, state : [Slots -> States]]
    /\ offer \in [version : Maybe, sha : Maybe]
    /\ bundle \in [version : Maybe, url : Maybe, sha : Maybe]
    /\ link \in [conn : {"none", "trying", "up"}, active : BOOLEAN,
                 proc : {"none", "connect", "service", "characteristics", "read"},
                 waited : BOOLEAN, at : 0 .. 3, late : BOOLEAN, stray : BOOLEAN]
    /\ wifi.retries \in 0 .. WifiRetries /\ wifi.connected \in BOOLEAN
    /\ http.attempt \in 0 .. Attempts - 1

\* What the boot loader starts, and what it would go back to.
Boots ==
    IF otadata.state[otadata.latest] = "aborted"
    THEN flash[Other(otadata.latest)] ELSE flash[otadata.latest]
Trusted ==
    IF otadata.state[otadata.latest] = "valid"
    THEN flash[otadata.latest] ELSE flash[Other(otadata.latest)]

\* The update is atomic: with power lost at any step, packets torn by a new
\* release, cut downloads and wrong answers of the server, the display always
\* has a whole image to start and a whole one to go back to, each of them the
\* factory's or offered by the Scale.
Outcome == INSTANCE AtomicUpdate
               WITH boots <- Boots, trusted <- Trusted, offered <- scale.offered
Atomic == Outcome!Spec

\* What is staged is what both the offer and the approved bundle named, however
\* often the download was tried.
StagedAsOffered ==
    [][pc = "stage" /\ otadata' # otadata
        => /\ flash[Target] = offer.sha /\ flash[Target] = bundle.sha
           /\ bundle.version = offer.version]_vars

\* No connection is open, and none of its events is expected, outside a BLE call,
\* unless one of its waits timed out.
LinkClosed ==
    /\ link.active => pc \in LinkPcs
    /\ link.conn # "none" \/ link.proc # "none" => pc \in LinkPcs \/ link.late

\* Every way out of connect_wifi, of the download and of a BLE call leaves nothing
\* behind: Wi-Fi and its credentials exist only while an update is installed, and
\* a connection only during the call that made it.
Quiet ==
    /\ pc \notin WifiPcs => wifi = NoWifi
    /\ pc \in {"boot", "sleep", "restart"} => bundle = NoBundle
    /\ LinkClosed

\* The two callbacks that write to what a call of the main task owns: the Wi-Fi
\* handlers never run without the event group they signal, and a GATT callback
\* finds the call that waits for it unless that wait timed out before.
NothingDangles ==
    /\ wifi.handlers # {} => wifi.group
    /\ link.stray => link.late

\* Once the station gave up it is not connected again, so that the attempts to
\* download cannot go on for ever.
GaveUp == [][wifi.failed /\ wifi'.failed => ~wifi'.connected]_vars

\* An update that stays offered and approved is running and confirmed in the
\* end, after any number of failed attempts, power losses and rollbacks.
Updates ==
    \A i \in Images :
        <>[](scale.offer = i /\ scale.approved)
            => <>[](flash[running] = i /\ otadata.state[running] = "valid")
=============================================================================
