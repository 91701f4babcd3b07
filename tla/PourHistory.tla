---------------------------- MODULE PourHistory ----------------------------
(***************************************************************************)
(* The last pours kept by the TouchPour controller: history_observe, which *)
(* collects the rows of a pour, the writer task, which puts them in one of *)
(* the slots of a flash partition, load_slots, which finds them at boot,   *)
(* and the web server, which exports one row by row.                       *)
(*                                                                         *)
(* Data abstraction: a row is the pour and the sample it was taken from, a *)
(* checksum is the data it was computed over, and a sample that adds no    *)
(* row is no step. Flash operations are the steps at which the power may   *)
(* fail; one that was cut short leaves a slot without a valid header.      *)
(***************************************************************************)
EXTENDS Naturals, Sequences, FiniteSets

CONSTANTS
  SlotCount,  \* slot_count
  MaxRows,    \* max_points
  MaxDue,     \* half seconds in the longest pour
  Pours,      \* bound: pours
  Faults      \* bound: power failures and flash operations that fail

ASSUME HistoryAssumption ==
  /\ SlotCount \in Nat /\ SlotCount >= 2
  /\ MaxDue \in Nat /\ MaxRows \in Nat /\ MaxRows >= MaxDue + 2
  /\ Pours \in Nat /\ Faults \in Nat

Slots == 1..SlotCount
Rows  == [pour : Nat \ {0}, sample : Nat \ {0}]
NoRow == [pour |-> 0, sample |-> 0]      \* an erased row read back

NoHeader == [id |-> 0, rows |-> <<>>]
Erased   == [magic |-> FALSE, header |-> NoHeader, data |-> <<>>]
NoExport == [id |-> 0, rows |-> <<>>, got |-> <<>>]

VARIABLES
  flash,      \* the slots: [magic, header, data]
  available,  \* partition
  headers,    \* headers in RAM, NoHeader for a slot that is free
  nextId,     \* next_id
  recording,
  points,     \* points[0 .. pending.count)
  saving,     \* history_saving
  notified,   \* writer has a notification
  writer,     \* the writer task: [pc, slot, id, ok]
  export,     \* pour_csv: [id, rows listed, got so far]
  faults,
  hist        \* history: see below

vars == <<flash, available, headers, nextId, recording, points, saving, notified,
          writer, export, faults, hist>>

(* hist.now:   the samples of the current pour that are due for a row      *)
(* hist.ended: those of every pour that ended, in order                    *)
(* hist.saved: pours whose save succeeded or that a boot found             *)
(* hist.blind: a boot could not read a slot that holds a pour              *)
(* hist.worn:  an erase failed part way                                    *)

Idle == [pc |-> "wait", slot |-> 1, id |-> 0, ok |-> TRUE]

Init ==
  /\ flash = [s \in Slots |-> Erased]
  /\ available = TRUE
  /\ headers = [s \in Slots |-> NoHeader]
  /\ nextId = 1
  /\ recording = FALSE /\ points = <<>>
  /\ saving = FALSE /\ notified = FALSE
  /\ writer = Idle
  /\ export = NoExport
  /\ faults = 0
  /\ hist = [now |-> <<>>, ended |-> <<>>, saved |-> {}, blind |-> FALSE, worn |-> FALSE]

----------------------------------------------------------------------------
(* history_observe, once a tick of the pour control *)

\* add_point
AddPoint(row) ==
  IF Len(points) < MaxRows THEN Append(points, row) ELSE [points EXCEPT ![MaxRows] = row]

Sample(n) == [pour |-> Len(hist.ended) + 1, sample |-> n]
Latest    == Sample(Len(hist.now) + 1)

\* Mutant: a pour is recorded although the last one is still being saved.
BeginPour_WhileSaving ==
  /\ available /\ ~recording
  /\ Len(hist.ended) < Pours
  /\ recording' = TRUE
  /\ points' = <<Sample(1)>>
  /\ hist' = [hist EXCEPT !.now = <<Sample(1)>>]
  /\ UNCHANGED <<flash, available, headers, nextId, saving, notified, writer, export, faults>>

\* The control starts no pour while a record is being saved.
BeginPour ==
  /\ available /\ ~saving /\ ~recording
  /\ Len(hist.ended) < Pours
  /\ recording' = TRUE
  /\ points' = <<Sample(1)>>
  /\ hist' = [hist EXCEPT !.now = <<Sample(1)>>]
  /\ UNCHANGED <<flash, available, headers, nextId, saving, notified, writer, export, faults>>

\* Half a second after the last row.
SampleDue ==
  /\ available /\ ~saving /\ recording
  /\ Len(hist.now) <= MaxDue
  /\ points' = AddPoint(Latest)
  /\ hist' = [hist EXCEPT !.now = Append(@, Latest)]
  /\ UNCHANGED <<flash, available, headers, nextId, recording, saving, notified, writer,
                 export, faults>>

\* Mutant: the sample that ends the pour adds no row.
EndPour_NoLastRow ==
  /\ available /\ ~saving /\ recording
  /\ recording' = FALSE /\ saving' = TRUE /\ notified' = TRUE
  /\ hist' = [hist EXCEPT !.ended = Append(@, Append(hist.now, Latest)), !.now = <<>>]
  /\ UNCHANGED <<flash, available, headers, nextId, points, writer, export, faults>>

\* The tap closed: the last row, and the writer is told.
EndPour ==
  /\ available /\ ~saving /\ recording
  /\ points' = AddPoint(Latest)
  /\ recording' = FALSE /\ saving' = TRUE /\ notified' = TRUE
  /\ hist' = [hist EXCEPT !.ended = Append(@, Append(hist.now, Latest)), !.now = <<>>]
  /\ UNCHANGED <<flash, available, headers, nextId, writer, export, faults>>

----------------------------------------------------------------------------
(* writer_task *)

\* Mutant: the writer does not take the mutex.
Locked_Never == FALSE

\* The writer holds mutex.
Locked == writer.pc \notin {"wait", "clear"}

\* Mutant: the slot of the highest id.
Oldest_Newest == CHOOSE s \in Slots : \A t \in Slots : headers[t].id <= headers[s].id

\* The slot to replace: the first with the lowest id, which a free slot has.
Oldest ==
  CHOOSE s \in Slots : \A t \in Slots :
    headers[s].id < headers[t].id \/ (headers[s].id = headers[t].id /\ s <= t)

Failing == faults < Faults /\ faults' = faults + 1
Fine    == UNCHANGED faults

\* Mutant: history_saving is cleared as soon as the writer starts.
TakeNotice_ClearsSaving ==
  /\ writer.pc = "wait" /\ notified
  /\ notified' = FALSE
  /\ writer' = [pc |-> "erase", slot |-> Oldest, id |-> nextId, ok |-> TRUE]
  /\ nextId' = nextId + 1
  /\ saving' = FALSE
  /\ UNCHANGED <<flash, available, headers, recording, points, export, faults, hist>>

\* The notification, the mutex, the slot and the id.
TakeNotice ==
  /\ writer.pc = "wait" /\ notified
  /\ notified' = FALSE
  /\ writer' = [pc |-> "erase", slot |-> Oldest, id |-> nextId, ok |-> TRUE]
  /\ nextId' = nextId + 1
  /\ UNCHANGED <<flash, available, headers, recording, points, saving, export, faults, hist>>

Goto(pc) == writer' = [writer EXCEPT !.pc = pc]
Failed   == writer' = [writer EXCEPT !.pc = "unlock", !.ok = FALSE]
RamAlone == UNCHANGED <<available, nextId, recording, points, saving, notified, export>>

\* The erase starts with the sector that holds the header.
EraseBegin ==
  /\ writer.pc = "erase"
  /\ flash' = [flash EXCEPT ![writer.slot] = Erased]
  /\ Goto("erased")
  /\ UNCHANGED <<headers, faults, hist>> /\ RamAlone

\* Mutant: the header in RAM is kept until the pour is written.
EraseEnd_KeepsHeader ==
  /\ writer.pc = "erased"
  /\ \/ Fine /\ Goto("data") /\ UNCHANGED hist
     \/ /\ Failing /\ Failed
        /\ hist' = [hist EXCEPT !.worn = TRUE]
  /\ UNCHANGED <<flash, headers>> /\ RamAlone

\* When the erase fails, headers still lists what the slot held.
EraseEnd ==
  /\ writer.pc = "erased"
  /\ \/ /\ Fine
        /\ headers' = [headers EXCEPT ![writer.slot] = NoHeader]
        /\ Goto("data") /\ UNCHANGED hist
     \/ /\ Failing /\ Failed
        /\ hist' = [hist EXCEPT !.worn = TRUE]
        /\ UNCHANGED headers
  /\ UNCHANGED flash /\ RamAlone

WriteData ==
  /\ writer.pc = "data"
  /\ \/ Fine /\ flash' = [flash EXCEPT ![writer.slot].data = points] /\ Goto("header")
     \/ Failing /\ Failed /\ UNCHANGED flash
  /\ UNCHANGED <<headers, hist>> /\ RamAlone

Pending == [id |-> writer.id, rows |-> points]

\* The header but for the magic word.
WriteHeader ==
  /\ writer.pc = "header"
  /\ \/ Fine /\ flash' = [flash EXCEPT ![writer.slot].header = Pending] /\ Goto("magic")
     \/ Failing /\ Failed /\ UNCHANGED flash
  /\ UNCHANGED <<headers, hist>> /\ RamAlone

WriteMagic ==
  /\ writer.pc = "magic"
  /\ \/ Fine /\ flash' = [flash EXCEPT ![writer.slot].magic = TRUE] /\ Goto("commit")
     \/ Failing /\ Failed /\ UNCHANGED flash
  /\ UNCHANGED <<headers, hist>> /\ RamAlone

\* The write of the magic word returns; it may report a failure all the same.
Commit ==
  /\ writer.pc = "commit"
  /\ \/ /\ Fine
        /\ headers' = [headers EXCEPT ![writer.slot] = Pending]
        /\ hist' = [hist EXCEPT !.saved = @ \cup {Len(hist.ended)}]
        /\ Goto("unlock")
     \/ Failing /\ Failed /\ UNCHANGED <<headers, hist>>
  /\ UNCHANGED flash /\ RamAlone

Unlock ==
  /\ writer.pc = "unlock"
  /\ Goto("clear")
  /\ UNCHANGED <<flash, headers, faults, hist>> /\ RamAlone

ClearSaving ==
  /\ writer.pc = "clear"
  /\ saving' = FALSE
  /\ writer' = Idle
  /\ UNCHANGED <<flash, available, headers, nextId, recording, points, notified, export,
                 faults, hist>>

----------------------------------------------------------------------------
(* history_init *)

\* valid_header, and the checksum of the data.
Valid(slot) == slot.magic /\ slot.header.id > 0 /\ slot.header.rows = slot.data

Highest(ids) == CHOOSE n \in ids : \A m \in ids : m <= n

\* Mutant: the next id is the highest that was loaded.
NextId_Highest(loaded) == Highest({1} \cup {loaded[s].id : s \in Slots})

NextId(loaded) == Highest({0} \cup {loaded[s].id : s \in Slots}) + 1

\* load_slots, which skips the slots it cannot read.
Load(unread) ==
  [s \in Slots |-> IF s \notin unread /\ Valid(flash[s]) THEN flash[s].header ELSE NoHeader]

\* The power fails, and the next boot finds the partition or not.
Restart ==
  /\ faults < Faults
  /\ \E unread \in {{}} \cup {{s} : s \in Slots}, found \in BOOLEAN :
       LET loaded == IF found THEN Load(unread) ELSE [s \in Slots |-> NoHeader] IN
         /\ unread # {} => found /\ faults + 1 < Faults
         /\ ~found => faults + 1 < Faults
         /\ faults' = faults + 1 + Cardinality(unread) + (IF found THEN 0 ELSE 1)
         /\ available' = found
         /\ headers' = loaded
         /\ nextId' = NextId(loaded)
         /\ hist' = [hist EXCEPT !.now = <<>>,
                       !.saved = @ \cup {loaded[s].rows[1].pour : s \in {t \in Slots : loaded[t].id > 0}},
                       !.blind = @ \/ \E s \in unread : Valid(flash[s])]
  /\ recording' = FALSE /\ points' = <<>>
  /\ saving' = FALSE /\ notified' = FALSE
  /\ writer' = Idle
  /\ export' = NoExport
  /\ UNCHANGED flash

----------------------------------------------------------------------------
(* history_list, history_get and history_point, used by the web server *)

\* Mutant: one pour more than are kept.
Listed_All == {s \in Slots : headers[s].id > 0}

\* The five with the highest ids.
Listed ==
  {s \in Slots : /\ headers[s].id > 0
                 /\ Cardinality({t \in Slots : headers[t].id > headers[s].id}) < SlotCount - 1}

\* pour_csv starts: history_get, between two steps of the writer.
ExportBegin ==
  /\ export = NoExport /\ ~Locked
  /\ \E s \in Listed : export' = [id |-> headers[s].id, rows |-> headers[s].rows, got |-> <<>>]
  /\ UNCHANGED <<flash, available, headers, nextId, recording, points, saving, notified,
                 writer, faults, hist>>

\* The slots history_point looks for row i in.
Holding(i) == {s \in Slots : headers[s].id = export.id /\ i <= Len(headers[s].rows)}

Row(s, i) == IF i <= Len(flash[s].data) THEN flash[s].data[i] ELSE NoRow

\* One row, or the export ends: with its last row, or because a row is gone.
ExportRow ==
  LET i == Len(export.got) + 1 IN
  /\ export # NoExport /\ ~Locked
  /\ \/ /\ i <= Len(export.rows)
        /\ \E s \in Holding(i) :
             /\ \A t \in Holding(i) : s <= t
             /\ export' = [export EXCEPT !.got = Append(@, Row(s, i))]
        /\ Fine
     \/ /\ i > Len(export.rows) \/ Holding(i) = {}
        /\ export' = NoExport /\ Fine
     \/ /\ i <= Len(export.rows) /\ Holding(i) # {} /\ Failing
        /\ export' = NoExport
  /\ UNCHANGED <<flash, available, headers, nextId, recording, points, saving, notified,
                 writer, hist>>

----------------------------------------------------------------------------
Write ==
  \/ TakeNotice \/ EraseBegin \/ EraseEnd \/ WriteData \/ WriteHeader \/ WriteMagic
  \/ Commit \/ Unlock \/ ClearSaving

Next == BeginPour \/ SampleDue \/ EndPour \/ Write \/ Restart \/ ExportBegin \/ ExportRow

Spec == Init /\ [][Next]_vars

----------------------------------------------------------------------------
TypeOK ==
  /\ \A s \in Slots :
       /\ flash[s].magic \in BOOLEAN
       /\ flash[s].header.id \in Nat /\ headers[s].id \in Nat
       /\ \A i \in DOMAIN flash[s].data : flash[s].data[i] \in Rows
       /\ \A i \in DOMAIN headers[s].rows : headers[s].rows[i] \in Rows
  /\ available \in BOOLEAN /\ recording \in BOOLEAN /\ saving \in BOOLEAN /\ notified \in BOOLEAN
  /\ nextId \in Nat \ {0}
  /\ Len(points) <= MaxRows /\ \A i \in DOMAIN points : points[i] \in Rows
  /\ writer.pc \in {"wait", "erase", "erased", "data", "header", "magic", "commit", "unlock", "clear"}
  /\ writer.slot \in Slots /\ writer.id \in Nat /\ writer.ok \in BOOLEAN
  /\ export.id \in Nat /\ Len(export.got) <= Len(export.rows)
  /\ faults \in 0..Faults

Newest(pours) ==
  {p \in pours : Cardinality({q \in pours : q > p}) < SlotCount - 1}

\* Five pours survive (the comment in writer_task): whatever save is under way
\* and wherever the power fails, the last SlotCount - 1 saved pours can be
\* loaded from flash, unless an earlier boot could not read one of them.
Retained ==
  ~hist.blind =>
    \A p \in Newest(hist.saved) :
      \E s \in Slots : Valid(flash[s]) /\ flash[s].data[1].pour = p

\* What the web page lists is what was saved last: between two saves, with the
\* partition found, the listed pours are the last SlotCount - 1 saved ones.
ListsNewest ==
  available /\ ~Locked /\ ~hist.blind =>
    {headers[s].rows[1].pour : s \in Listed} = Newest(hist.saved)

\* A pour in flash is whole: its rows are all the samples that were due, the
\* first and the last one included, of one pour that ended.
StoredIsPoured ==
  \A s \in Slots : Valid(flash[s]) =>
    \E p \in DOMAIN hist.ended : flash[s].data = hist.ended[p]

\* Ids name pours: no two slots that can be loaded share one, and no pour to
\* come gets one of theirs, over any number of restarts (an id the web page
\* holds never becomes another pour's), unless a boot could not read a slot.
IdsUnique ==
  ~hist.blind =>
    \A s, t \in Slots :
      Valid(flash[s]) =>
        /\ Valid(flash[t]) /\ flash[s].header.id = flash[t].header.id => s = t
        /\ available => flash[s].header.id < nextId

\* An export is of one pour: each row it received is that row of the pour it
\* was started for, although the slot may be replaced between two rows; only
\* an erase that failed part way leaves rows that are blank, and only a boot
\* that could not read a slot makes two pours share the id it asks for.
OnePourExported ==
  ~hist.blind =>
    \A i \in DOMAIN export.got :
      export.got[i] = export.rows[i] \/ (export.got[i] = NoRow /\ hist.worn)

\* What the pour control is promised: a record that was opened is closed, saved and
\* done with before the next one, through every failure of the flash and of the
\* power.  (PourControl keeps the same promise, and waits for this one.)
Phase == IF recording THEN "open" ELSE IF saving THEN "saving" ELSE "none"

Records == INSTANCE Recorder WITH record <- Phase
RecordPromise == Records!RecordSpec
============================================================================
