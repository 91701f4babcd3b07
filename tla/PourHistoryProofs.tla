-------------------------- MODULE PourHistoryProofs --------------------------
(***************************************************************************)
(* Proofs about PourHistory, for any number of slots, rows, pours and      *)
(* faults.                                                                 *)
(***************************************************************************)
EXTENDS PourHistory, SequenceTheorems, FiniteSetTheorems, WellFoundedInduction, TLAPS

(* Types: TypeOK, with the fields it leaves out *)

HeaderType == [id : Nat, rows : Seq(Rows)]
SlotType   == [magic : BOOLEAN, header : HeaderType, data : Seq(Rows)]
Writing    == {"erase", "erased", "data", "header", "magic", "commit"}
WriterPcs  == Writing \cup {"wait", "unlock", "clear"}
WriterType == [pc : WriterPcs, slot : Slots, id : Nat, ok : BOOLEAN]
ExportType == [id : Nat, rows : Seq(Rows), got : Seq(Rows \cup {NoRow})]
HistType   == [now : Seq(Rows), ended : Seq(Seq(Rows)), saved : SUBSET (Nat \ {0}),
               blind : BOOLEAN, worn : BOOLEAN]

TypeInv ==
  /\ flash \in [Slots -> SlotType] /\ headers \in [Slots -> HeaderType]
  /\ available \in BOOLEAN /\ recording \in BOOLEAN
  /\ saving \in BOOLEAN /\ notified \in BOOLEAN
  /\ nextId \in Nat \ {0} /\ points \in Seq(Rows)
  /\ writer \in WriterType /\ export \in ExportType
  /\ Len(export.got) <= Len(export.rows)
  /\ faults \in 0 .. Faults /\ hist \in HistType

\* What a pour collects, and who owns it: the control task, then the writer.
PointsInv ==
  /\ recording => /\ points = hist.now /\ Len(points) \in 1 .. MaxDue + 1
                  /\ \A i \in DOMAIN points : points[i].pour = Len(hist.ended) + 1
  /\ saving => hist.ended # <<>> /\ points = hist.ended[Len(hist.ended)]
  /\ recording => ~saving
  /\ recording \/ saving => available
  /\ notified => saving /\ writer.pc = "wait"
  /\ writer.pc # "wait" => saving /\ ~notified
  /\ Len(points) <= MaxRows
  /\ \A p \in DOMAIN hist.ended :
       /\ hist.ended[p] # <<>>
       /\ \A i \in DOMAIN hist.ended[p] : hist.ended[p][i].pour = p

\* A slot with a magic word holds a pour that ended; the slot being written holds
\* what the writer has done so far.
SlotsInv ==
  /\ \A s \in Slots : flash[s].magic =>
       /\ flash[s].header.rows = flash[s].data /\ flash[s].header.id > 0
       /\ \E p \in DOMAIN hist.ended : flash[s].data = hist.ended[p]
  /\ writer.pc # "wait" => writer.id > 0
  /\ writer.pc \in {"erased", "data"} => flash[writer.slot] = Erased
  /\ writer.pc = "header" => flash[writer.slot] = [Erased EXCEPT !.data = points]
  /\ writer.pc = "magic" =>
       flash[writer.slot] = [magic |-> FALSE, header |-> Pending, data |-> points]
  /\ writer.pc = "commit" =>
       flash[writer.slot] = [magic |-> TRUE, header |-> Pending, data |-> points]

\* What RAM says of the slots: a header that is listed is that of the slot, unless
\* its erase is under way or failed part way.
RamInv ==
  /\ \A s \in Slots :
       /\ headers[s].id = 0 => headers[s] = NoHeader
       /\ headers[s].id > 0 =>
            /\ headers[s].id < nextId
            /\ \/ flash[s] = [magic |-> TRUE, header |-> headers[s], data |-> headers[s].rows]
               \/ /\ flash[s] = Erased
                  /\ hist.worn \/ (writer.pc = "erased" /\ writer.slot = s)
            /\ \E p \in DOMAIN hist.ended : headers[s].rows = hist.ended[p]
  /\ ~available => \A s \in Slots : headers[s] = NoHeader
  /\ writer.pc \in {"data", "header", "magic", "commit"} => headers[writer.slot] = NoHeader
  /\ writer.pc # "wait" => nextId = writer.id + 1

\* Ids are given out in order and never again, as far as the boots could see.
IdsInv ==
  ~hist.blind =>
    /\ \A s \in Slots : available /\ flash[s].magic => flash[s].header.id < nextId
    /\ \A s, t \in Slots : s # t =>
         /\ flash[s].magic /\ flash[t].magic => flash[s].header.id # flash[t].header.id
         /\ headers[s].id > 0 => headers[s].id # headers[t].id
    /\ writer.pc \in Writing =>
         \A s \in Slots :
           /\ headers[s].id < writer.id
           /\ flash[s].magic => \/ flash[s].header.id < writer.id
                                \/ writer.pc = "commit" /\ s = writer.slot

\* An export under way is of a pour whose id no other pour has got since.
ExportInv ==
  ~hist.blind =>
    /\ export # NoExport =>
         /\ export.id > 0 /\ export.id < nextId
         /\ writer.pc \in Writing => export.id < writer.id
         /\ \A s \in Slots : headers[s].id = export.id => headers[s].rows = export.rows
    /\ \A i \in DOMAIN export.got :
         export.got[i] = export.rows[i] \/ (export.got[i] = NoRow /\ hist.worn)

\* Pours are numbered as their ids are, the pour in the writer's hands comes after
\* all others, and the slot about to be erased is the one that saved the oldest.
OrderInv ==
  ~hist.blind =>
    /\ \A s, t \in Slots : flash[s].magic /\ flash[t].magic =>
         (flash[s].header.id < flash[t].header.id
            => flash[s].data[1].pour < flash[t].data[1].pour)
    /\ \A s, t \in Slots : headers[s].id > 0 /\ headers[t].id > 0 =>
         (headers[s].id < headers[t].id => headers[s].rows[1].pour < headers[t].rows[1].pour)
    /\ saving /\ writer.pc \notin {"unlock", "clear"} =>
         \A s \in Slots :
           /\ flash[s].magic => \/ flash[s].data[1].pour < Len(hist.ended)
                                \/ writer.pc = "commit" /\ s = writer.slot
           /\ headers[s].id > 0 => headers[s].rows[1].pour < Len(hist.ended)
    /\ writer.pc = "erase" => \A s \in Slots : headers[writer.slot].id <= headers[s].id

\* Which pours were saved: those that are listed, and none that only is in flash.
SavedInv ==
  /\ hist.saved \subseteq DOMAIN hist.ended
  /\ saving /\ writer.pc \notin {"unlock", "clear"} => Len(hist.ended) \notin hist.saved
  /\ ~hist.blind =>
       \A s \in Slots :
         /\ headers[s].id > 0 => headers[s].rows[1].pour \in hist.saved
         /\ available /\ flash[s].magic /\ headers[s].id = 0 =>
              flash[s].data[1].pour \notin hist.saved

\* A set of naturals has a least element.
LEMMA LeastNatural ==
    ASSUME NEW T \in SUBSET Nat, T # {}
    PROVE  \E k \in T : \A m \in T : k <= m
  <1>1. IsWellFoundedOn(OpToRel(<, Nat), Nat)
    BY NatLessThanWellFounded
  <1>2. PICK k \in T : \A m \in T : ~(<<m, k>> \in OpToRel(<, Nat))
    BY <1>1, WFMin
  <1>3. OpToRel(<, Nat) = {ss \in Nat \X Nat : ss[1] < ss[2]}
    BY DEF OpToRel
  <1>4. \A m \in T : <<m, k>> \in {ss \in Nat \X Nat : ss[1] < ss[2]} <=> m < k
    OBVIOUS
  <1>5. \A m \in T : ~(m < k)
    <2> TAKE m \in T
    <2>1. ~(<<m, k>> \in {ss \in Nat \X Nat : ss[1] < ss[2]})
      BY <1>2, <1>3
    <2> QED BY <2>1, <1>4
  <1>6. \A m \in T : m \in Nat /\ k \in Nat
    OBVIOUS
  <1> QED BY <1>5, <1>6

\* A finite list of naturals has a least and a greatest element.
LEMMA Extremes ==
    ASSUME NEW n \in Nat \ {0}, NEW f \in [1 .. n -> Nat]
    PROVE  /\ \E i \in 1 .. n : \A j \in 1 .. n : f[j] <= f[i]
           /\ \E i \in 1 .. n : \A j \in 1 .. n : f[i] <= f[j]
  <1>1. \E i \in 1 .. n : \A j \in 1 .. n : f[i] <= f[j]
    <2> DEFINE T == {f[i] : i \in 1 .. n}
    <2>1. T \in SUBSET Nat /\ T # {}
      <3>1. 1 \in 1 .. n
        OBVIOUS
      <3> QED BY <3>1
    <2>2. PICK k \in T : \A m \in T : k <= m
      <3> HIDE DEF T
      <3> QED BY <2>1, LeastNatural
    <2> QED BY <2>2
  <1>2. \E i \in 1 .. n : \A j \in 1 .. n : f[j] <= f[i]
    <2> DEFINE Greatest(k) == \E i \in 1 .. k : \A j \in 1 .. k : f[j] <= f[i]
               T == {k \in 1 .. n : ~Greatest(k)}
    <2>10. n \in 1 .. n
      OBVIOUS
    <2> HIDE DEF Greatest
    <2>11. T = {} => Greatest(n)
      BY <2>10, Zenon
    <2> USE DEF Greatest
    <2> SUFFICES ASSUME T # {} PROVE FALSE
      BY <2>11
    <2>1. PICK k \in T : \A m \in T : k <= m
      <3>1. T \in SUBSET Nat
        OBVIOUS
      <3> HIDE DEF T
      <3> QED BY <3>1, LeastNatural
    <2>2. k \in 1 .. n /\ ~Greatest(k)
      OBVIOUS
    <2>3. k # 1
      <3> SUFFICES ASSUME k = 1 PROVE Greatest(1)
        BY <2>2
      <3>1. 1 \in 1 .. 1 /\ \A j \in 1 .. 1 : j = 1
        OBVIOUS
      <3>2. f[1] \in Nat
        OBVIOUS
      <3> QED BY <3>1, <3>2
    <2>4. k - 1 \in 1 .. n /\ Greatest(k - 1)
      <3>1. k - 1 \in 1 .. n /\ ~(k <= k - 1)
        BY <2>2, <2>3
      <3> QED BY <3>1, <2>1
    <2>5. PICK a \in 1 .. k - 1 : \A j \in 1 .. k - 1 : f[j] <= f[a]
      BY <2>4
    <2>6. f[a] \in Nat /\ f[k] \in Nat /\ a \in 1 .. k /\ k \in 1 .. k
      BY <2>2, <2>5
    <2>7. \A j \in 1 .. k : j = k \/ j \in 1 .. k - 1
      BY <2>2
    <2> HIDE DEF T
    <2>8. CASE f[k] <= f[a]
      <3>1. \A j \in 1 .. k : f[j] <= f[a]
        BY <2>5, <2>7, <2>8
      <3> QED BY <2>2, <2>6, <3>1
    <2>9. CASE f[a] <= f[k]
      <3>1. \A j \in 1 .. k : f[j] \in Nat
        BY <2>2
      <3>2. \A j \in 1 .. k : f[j] <= f[k]
        BY <2>5, <2>6, <2>7, <2>9, <3>1
      <3> QED BY <2>2, <2>6, <3>2
    <2> QED BY <2>6, <2>8, <2>9
  <1> QED BY <1>1, <1>2

\* The slot to replace exists, and no slot has a lower id.
LEMMA OldestSlot ==
    ASSUME TypeInv
    PROVE  Oldest \in Slots /\ \A t \in Slots : headers[Oldest].id <= headers[t].id
  <1> DEFINE f == [s \in 1 .. SlotCount |-> headers[s].id]
  <1>1. SlotCount \in Nat \ {0} /\ f \in [1 .. SlotCount -> Nat]
    BY HistoryAssumption DEF TypeInv, HeaderType, Slots
  <1>2. PICK i \in 1 .. SlotCount : \A j \in 1 .. SlotCount : f[i] <= f[j]
    <2> HIDE DEF f
    <2> QED BY <1>1, Extremes
  <1> DEFINE T == {s \in Slots : headers[s].id = headers[i].id}
  <1>3. T \in SUBSET Nat /\ i \in T
    BY <1>2 DEF Slots
  <1>4. PICK k \in T : \A m \in T : k <= m
    <2> HIDE DEF T
    <2> QED BY <1>3, LeastNatural
  <1> DEFINE First(s) == \A t \in Slots : headers[s].id < headers[t].id
                                          \/ (headers[s].id = headers[t].id /\ s <= t)
  <1>5. k \in Slots /\ First(k)
    <2>1. k \in Slots /\ headers[k].id = headers[i].id
      OBVIOUS
    <2>2. \A t \in Slots : headers[t].id \in Nat /\ headers[k].id <= headers[t].id
      BY <1>1, <1>2, <2>1 DEF Slots
    <2>3. \A t \in Slots : headers[t].id = headers[k].id => k <= t
      BY <1>4, <2>1
    <2> QED BY <2>1, <2>2, <2>3
  <1>6. Oldest = CHOOSE s \in Slots : First(s)
    BY DEF Oldest
  <1>7. Oldest \in Slots /\ First(Oldest)
    <2> HIDE DEF First
    <2> QED BY <1>5, <1>6
  <1> QED BY <1>7 DEF TypeInv, HeaderType

\* The next id is above every id that was loaded.
LEMMA NextIdIsNew ==
    ASSUME NEW loaded \in [Slots -> HeaderType]
    PROVE  NextId(loaded) \in Nat \ {0} /\ \A s \in Slots : loaded[s].id < NextId(loaded)
  <1> DEFINE f == [s \in 1 .. SlotCount |-> loaded[s].id]
             ids == {0} \cup {loaded[s].id : s \in Slots}
  <1>1. SlotCount \in Nat \ {0} /\ f \in [1 .. SlotCount -> Nat]
    BY HistoryAssumption DEF HeaderType, Slots
  <1>2. PICK i \in 1 .. SlotCount : \A j \in 1 .. SlotCount : f[j] <= f[i]
    <2> HIDE DEF f
    <2> QED BY <1>1, Extremes
  <1>3. loaded[i].id \in ids /\ \A m \in ids : m <= loaded[i].id
    BY <1>1, <1>2 DEF Slots
  <1>4. Highest(ids) \in ids /\ \A m \in ids : m <= Highest(ids)
    <2> HIDE DEF ids
    <2> QED BY <1>3 DEF Highest
  <1>5. ids \subseteq Nat /\ \A s \in Slots : loaded[s].id \in ids
    BY <1>1 DEF Slots
  <1>6. NextId(loaded) = Highest(ids) + 1
    BY DEF NextId
  <1> HIDE DEF ids
  <1>7. Highest(ids) \in Nat
    BY <1>4, <1>5
  <1>8. \A s \in Slots : loaded[s].id \in Nat /\ loaded[s].id <= Highest(ids)
    BY <1>4, <1>5
  <1> QED BY <1>6, <1>7, <1>8

\* The samples that become rows are rows.
LEMMA RowTypes ==
    ASSUME TypeInv
    PROVE  /\ Latest \in Rows /\ Sample(1) \in Rows
           /\ Append(hist.now, Latest) \in Seq(Rows)
  <1>1. Len(hist.ended) \in Nat /\ Len(hist.now) \in Nat
    BY DEF TypeInv, HistType
  <1> QED BY <1>1 DEF Rows, Latest, Sample, TypeInv, HistType

\* add_point keeps the rows of a pour a sequence of rows.
LEMMA AddPointType ==
    ASSUME TypeInv, NEW row \in Rows, Len(points) <= MaxRows
    PROVE  AddPoint(row) \in Seq(Rows) /\ Len(AddPoint(row)) <= MaxRows
  <1>1. MaxRows \in Nat \ {0} /\ Len(points) \in Nat
    BY HistoryAssumption DEF TypeInv
  <1>2. CASE Len(points) < MaxRows
    BY <1>1, <1>2 DEF AddPoint, TypeInv
  <1>3. CASE ~(Len(points) < MaxRows)
    BY <1>1, <1>3, ExceptSeq DEF AddPoint, TypeInv
  <1> QED BY <1>2, <1>3

\* The header that is written has the type of a header.
LEMMA PendingType == TypeInv => Pending \in HeaderType
  BY DEF TypeInv, WriterType, Pending, HeaderType

\* The initial values have the types of what they initialise.
LEMMA EmptyTypes ==
    /\ <<>> \in Seq(Rows) /\ NoHeader \in HeaderType /\ Erased \in SlotType
    /\ NoExport \in ExportType /\ Idle \in WriterType
  BY HistoryAssumption, EmptySeq
  DEF NoHeader, HeaderType, Erased, SlotType, NoExport, ExportType, Idle, WriterType, WriterPcs,
      Writing, Slots

\* Every value the writer task takes has its type.
LEMMA WriterTypes ==
    ASSUME TypeInv
    PROVE  /\ \A pc \in WriterPcs : [writer EXCEPT !.pc = pc] \in WriterType
           /\ [writer EXCEPT !.pc = "unlock", !.ok = FALSE] \in WriterType
           /\ Fine \/ Failing => faults' \in 0 .. Faults
  <1>1. Fine \/ Failing => faults' \in 0 .. Faults
    BY HistoryAssumption DEF TypeInv, Fine, Failing
  <1> QED BY <1>1 DEF TypeInv, WriterType, WriterPcs

\* Every value a slot takes while it is written has its type.
LEMMA SlotTypes ==
    ASSUME TypeInv
    PROVE  /\ [flash EXCEPT ![writer.slot] = Erased] \in [Slots -> SlotType]
           /\ [flash EXCEPT ![writer.slot].data = points] \in [Slots -> SlotType]
           /\ [flash EXCEPT ![writer.slot].header = Pending] \in [Slots -> SlotType]
           /\ [flash EXCEPT ![writer.slot].magic = TRUE] \in [Slots -> SlotType]
  <1>1. writer.slot \in Slots /\ flash[writer.slot] \in SlotType
    BY DEF TypeInv, WriterType
  <1>2. /\ [flash[writer.slot] EXCEPT !.data = points] \in SlotType
        /\ [flash[writer.slot] EXCEPT !.header = Pending] \in SlotType
        /\ [flash[writer.slot] EXCEPT !.magic = TRUE] \in SlotType
    BY <1>1, PendingType DEF TypeInv, SlotType
  <1> QED BY <1>1, <1>2, EmptyTypes DEF TypeInv

\* load_slots returns a header for every slot.
LEMMA LoadType ==
    ASSUME TypeInv, NEW unread
    PROVE  Load(unread) \in [Slots -> HeaderType]
  BY EmptyTypes DEF Load, TypeInv, SlotType

\* What a boot loads is a pour that ended.
LEMMA LoadedRows ==
    ASSUME TypeInv, PointsInv, SlotsInv, NEW unread, NEW found \in BOOLEAN, NEW s \in Slots,
           NEW loaded, loaded = IF found THEN Load(unread) ELSE [t \in Slots |-> NoHeader],
           loaded[s].id > 0
    PROVE  /\ found /\ s \notin unread /\ Valid(flash[s]) /\ loaded[s] = flash[s].header
           /\ \E p \in DOMAIN hist.ended : loaded[s].rows = hist.ended[p]
           /\ loaded[s].rows[1].pour \in DOMAIN hist.ended
           /\ loaded[s].rows[1].pour \in Nat \ {0}
  <1>1. found /\ s \notin unread /\ Valid(flash[s]) /\ loaded[s] = flash[s].header
    BY DEF Load, NoHeader
  <1>2. PICK p \in DOMAIN hist.ended : loaded[s].rows = hist.ended[p]
    BY <1>1 DEF Valid, SlotsInv
  <1>3. hist.ended \in Seq(Seq(Rows)) /\ p \in Nat \ {0}
    BY DEF TypeInv, HistType
  <1>4. hist.ended[p] \in Seq(Rows) /\ hist.ended[p] # <<>>
    BY <1>3, ElementOfSeq DEF PointsInv
  <1>5. 1 \in DOMAIN hist.ended[p]
    BY <1>4, EmptySeq
  <1>6. hist.ended[p][1].pour = p
    BY <1>5 DEF PointsInv
  <1> QED BY <1>1, <1>2, <1>3, <1>6

\* The types hold at the first boot.
LEMMA TypeInit == Init => TypeInv
  <1> SUFFICES ASSUME Init PROVE TypeInv
    OBVIOUS
  <1>1. <<>> \in Seq(Seq(Rows)) /\ Len(<<>>) = 0
    BY EmptySeq
  <1>2. hist \in HistType
    BY <1>1, EmptyTypes DEF Init, HistType
  <1>3. Len(export.got) <= Len(export.rows)
    BY <1>1 DEF Init, NoExport
  <1>4. nextId \in Nat \ {0} /\ faults \in 0 .. Faults
    BY HistoryAssumption DEF Init
  <1>5. flash \in [Slots -> SlotType] /\ headers \in [Slots -> HeaderType]
    BY EmptyTypes DEF Init
  <1> QED BY <1>2, <1>3, <1>4, <1>5, EmptyTypes DEF Init, TypeInv

\* Every step keeps the types.
LEMMA TypeStep == TypeInv /\ PointsInv /\ SlotsInv /\ [Next]_vars => TypeInv'
  <1> SUFFICES ASSUME TypeInv, PointsInv, SlotsInv, [Next]_vars PROVE TypeInv'
    OBVIOUS
  <1>1. CASE BeginPour
    <2>1. <<Sample(1)>> \in Seq(Rows)
      BY RowTypes
    <2>2. hist' \in HistType
      BY <1>1, <2>1 DEF BeginPour, HistType, TypeInv
    <2> QED BY <1>1, <2>1, <2>2 DEF BeginPour, TypeInv
  <1>2. CASE SampleDue
    <2>1. hist' \in HistType /\ points' \in Seq(Rows)
      BY <1>2, RowTypes, AddPointType DEF SampleDue, HistType, TypeInv, PointsInv
    <2> QED BY <1>2, <2>1 DEF SampleDue, TypeInv
  <1>3. CASE EndPour
    <2>1. points' \in Seq(Rows)
      BY <1>3, RowTypes, AddPointType DEF EndPour, PointsInv
    <2>2. Append(hist.ended, Append(hist.now, Latest)) \in Seq(Seq(Rows))
      BY RowTypes DEF HistType, TypeInv
    <2>3. hist' \in HistType
      BY <1>3, <2>2, EmptyTypes DEF EndPour, HistType, TypeInv
    <2> QED BY <1>3, <2>1, <2>3 DEF EndPour, TypeInv
  <1>4. CASE TakeNotice
    <2>1. writer' \in WriterType /\ nextId' \in Nat \ {0}
      BY <1>4, OldestSlot DEF TakeNotice, WriterType, WriterPcs, Writing, TypeInv
    <2> QED BY <1>4, <2>1 DEF TakeNotice, TypeInv
  <1>5. CASE EraseBegin
    <2>1. writer' \in WriterType /\ faults' \in 0 .. Faults
      BY <1>5, WriterTypes DEF EraseBegin, Goto, Failed, Fine, WriterPcs, Writing
    <2>2. flash' \in [Slots -> SlotType]
      BY <1>5, SlotTypes DEF EraseBegin, TypeInv
    <2> QED BY <1>5, <2>1, <2>2 DEF EraseBegin, TypeInv, RamAlone
  <1>6. CASE EraseEnd
    <2>1. writer' \in WriterType /\ faults' \in 0 .. Faults
      BY <1>6, WriterTypes DEF EraseEnd, Goto, Failed, WriterPcs, Writing
    <2>2. headers' \in [Slots -> HeaderType]
      BY <1>6, EmptyTypes DEF EraseEnd, TypeInv
    <2>3. [hist EXCEPT !.worn = TRUE] \in HistType
      BY DEF TypeInv, HistType
    <2>4. hist' \in HistType
      BY <1>6, <2>3 DEF EraseEnd, TypeInv
    <2> QED BY <1>6, <2>1, <2>2, <2>4 DEF EraseEnd, TypeInv, RamAlone
  <1>7. CASE WriteData
    <2>1. writer' \in WriterType /\ faults' \in 0 .. Faults
      BY <1>7, WriterTypes DEF WriteData, Goto, Failed, Fine, WriterPcs, Writing
    <2>2. flash' \in [Slots -> SlotType]
      BY <1>7, SlotTypes DEF WriteData, TypeInv
    <2> QED BY <1>7, <2>1, <2>2 DEF WriteData, TypeInv, RamAlone
  <1>8. CASE WriteHeader
    <2>1. writer' \in WriterType /\ faults' \in 0 .. Faults
      BY <1>8, WriterTypes DEF WriteHeader, Goto, Failed, Fine, WriterPcs, Writing
    <2>2. flash' \in [Slots -> SlotType]
      BY <1>8, SlotTypes DEF WriteHeader, TypeInv
    <2> QED BY <1>8, <2>1, <2>2 DEF WriteHeader, TypeInv, RamAlone
  <1>9. CASE WriteMagic
    <2>1. writer' \in WriterType /\ faults' \in 0 .. Faults
      BY <1>9, WriterTypes DEF WriteMagic, Goto, Failed, Fine, WriterPcs, Writing
    <2>2. flash' \in [Slots -> SlotType]
      BY <1>9, SlotTypes DEF WriteMagic, TypeInv
    <2> QED BY <1>9, <2>1, <2>2 DEF WriteMagic, TypeInv, RamAlone
  <1>10. CASE Commit
    <2>1. writer' \in WriterType /\ faults' \in 0 .. Faults
      BY <1>10, WriterTypes DEF Commit, Goto, Failed, WriterPcs
    <2>2. headers' \in [Slots -> HeaderType]
      BY <1>10, PendingType DEF Commit, TypeInv
    <2>3. Len(hist.ended) \in Nat \ {0}
      BY <1>10 DEF Commit, PointsInv, TypeInv, HistType
    <2>4. [hist EXCEPT !.saved = @ \cup {Len(hist.ended)}] \in HistType
      BY <2>3 DEF TypeInv, HistType
    <2>5. hist' \in HistType
      BY <1>10, <2>4 DEF Commit, TypeInv
    <2> QED BY <1>10, <2>1, <2>2, <2>5 DEF Commit, TypeInv, RamAlone
  <1>11. CASE Unlock
    <2>1. writer' \in WriterType
      BY <1>11 DEF Unlock, Goto, WriterType, WriterPcs, Writing, TypeInv
    <2> QED BY <1>11, <2>1 DEF Unlock, TypeInv, RamAlone
  <1>12. CASE ClearSaving
    BY <1>12, EmptyTypes DEF ClearSaving, TypeInv
  <1>13. CASE Restart
    <2>1. PICK unread \in {{}} \cup {{s} : s \in Slots}, found \in BOOLEAN :
            LET loaded == IF found THEN Load(unread) ELSE [s \in Slots |-> NoHeader] IN
              /\ unread # {} => found /\ faults + 1 < Faults
              /\ ~found => faults + 1 < Faults
              /\ faults' = faults + 1 + Cardinality(unread) + (IF found THEN 0 ELSE 1)
              /\ available' = found
              /\ headers' = loaded
              /\ nextId' = NextId(loaded)
              /\ hist' = [hist EXCEPT !.now = <<>>,
                           !.saved = @ \cup {loaded[s].rows[1].pour : s \in {t \in Slots : loaded[t].id > 0}},
                           !.blind = @ \/ \E s \in unread : Valid(flash[s])]
      BY <1>13 DEF Restart
    <2> DEFINE loaded == IF found THEN Load(unread) ELSE [s \in Slots |-> NoHeader]
    <2>2. loaded \in [Slots -> HeaderType]
      BY LoadType, EmptyTypes
    <2>3. \A s \in Slots : loaded[s].id > 0 => loaded[s].rows[1].pour \in Nat \ {0}
      BY LoadedRows
    <2>4. Cardinality(unread) = IF unread = {} THEN 0 ELSE 1
      BY FS_EmptySet, FS_Singleton
    <2>5. faults' \in 0 .. Faults
      BY <1>13, <2>1, <2>4, HistoryAssumption DEF Restart, TypeInv
    <2>6. headers' = loaded /\ nextId' = NextId(loaded) /\ available' = found
      BY <2>1
    <2>7. {loaded[s].rows[1].pour : s \in {t \in Slots : loaded[t].id > 0}} \subseteq Nat \ {0}
      BY <2>3
    <2>8. hist' = [hist EXCEPT !.now = <<>>,
                     !.saved = @ \cup {loaded[s].rows[1].pour : s \in {t \in Slots : loaded[t].id > 0}},
                     !.blind = @ \/ \E s \in unread : Valid(flash[s])]
      BY <2>1
    <2> HIDE DEF loaded
    <2>9. hist' \in HistType
      BY <2>7, <2>8, EmptyTypes DEF TypeInv, HistType
    <2>10. nextId' \in Nat \ {0}
      BY <2>2, <2>6, NextIdIsNew
    <2>11. Len(NoExport.got) <= Len(NoExport.rows)
      BY EmptySeq DEF NoExport
    <2> QED BY <1>13, <2>2, <2>5, <2>6, <2>9, <2>10, <2>11, EmptyTypes DEF Restart, TypeInv
  <1>14. CASE ExportBegin
    <2>1. PICK s \in Listed : export' = [id |-> headers[s].id, rows |-> headers[s].rows, got |-> <<>>]
      BY <1>14 DEF ExportBegin
    <2>2. headers[s] \in HeaderType
      BY DEF Listed, TypeInv
    <2>3. <<>> \in Seq(Rows \cup {NoRow}) /\ Len(<<>>) <= Len(headers[s].rows)
      BY <2>2, EmptySeq, LenProperties DEF HeaderType
    <2>4. export' \in ExportType /\ Len(export'.got) <= Len(export'.rows)
      BY <2>1, <2>2, <2>3 DEF HeaderType, ExportType
    <2> QED BY <1>14, <2>4 DEF ExportBegin, TypeInv
  <1>15. CASE ExportRow
    <2> DEFINE i == Len(export.got) + 1
    <2>1. faults' \in 0 .. Faults
      BY <1>15, HistoryAssumption DEF ExportRow, Fine, Failing, TypeInv
    <2>2. CASE export' = NoExport
      BY <1>15, <2>1, <2>2, EmptyTypes DEF ExportRow, TypeInv, NoExport
    <2>3. ASSUME i <= Len(export.rows), NEW s \in Slots,
                 export' = [export EXCEPT !.got = Append(@, Row(s, i))]
          PROVE  TypeInv'
      <3>1. export.got \in Seq(Rows \cup {NoRow}) /\ Len(export.got) \in Nat
        BY DEF TypeInv, ExportType
      <3>2. flash[s].data \in Seq(Rows)
        BY DEF TypeInv, SlotType
      <3>3. Row(s, i) \in Rows \cup {NoRow}
        BY <3>1, <3>2, ElementOfSeq DEF Row
      <3> DEFINE got == Append(export.got, Row(s, i))
      <3>4. got \in Seq(Rows \cup {NoRow}) /\ Len(got) = i
        BY <3>1, <3>3
      <3>5. export' = [export EXCEPT !.got = got]
        BY <2>3
      <3> HIDE DEF got, i
      <3>6. export' \in ExportType /\ Len(export'.got) <= Len(export'.rows)
        BY <2>3, <3>4, <3>5 DEF TypeInv, ExportType
      <3> QED BY <1>15, <2>1, <3>6 DEF ExportRow, TypeInv
    <2>4. \A s \in Holding(i) : s \in Slots
      BY DEF Holding
    <2>5. \/ export' = NoExport
          \/ i <= Len(export.rows) /\ \E s \in Slots : export' = [export EXCEPT !.got = Append(@, Row(s, i))]
      BY <1>15, <2>4 DEF ExportRow
    <2> QED BY <2>2, <2>3, <2>5
  <1>16. CASE UNCHANGED vars
    BY <1>16 DEF vars, TypeInv
  <1> QED
    BY <1>1, <1>2, <1>3, <1>4, <1>5, <1>6, <1>7, <1>8, <1>9, <1>10, <1>11,
       <1>12, <1>13, <1>14, <1>15, <1>16
    DEF Next, Write

\* A pour never has more rows than there is room for.
LEMMA AddPointAppends ==
    ASSUME TypeInv, PointsInv, recording, NEW row
    PROVE  AddPoint(row) = Append(hist.now, row) /\ Len(hist.now) \in 1 .. MaxDue + 1
  BY HistoryAssumption DEF AddPoint, PointsInv, TypeInv, HistType

\* PointsInv holds at the first boot.
LEMMA PointsInit == Init => PointsInv
  <1> SUFFICES ASSUME Init PROVE PointsInv
    OBVIOUS
  <1>1. Len(<<>>) = 0 /\ DOMAIN <<>> = {}
    BY EmptySeq
  <1> QED BY <1>1, HistoryAssumption DEF Init, PointsInv, Idle

\* The writer at work: each of its flash operations is made with the mutex.
LEMMA WriterPc ==
    ASSUME TypeInv
    PROVE  EraseBegin \/ EraseEnd \/ WriteData \/ WriteHeader \/ WriteMagic \/ Commit \/ Unlock
             => writer.pc # "wait" /\ writer'.pc # "wait"
  BY DEF EraseBegin, EraseEnd, WriteData, WriteHeader, WriteMagic, Commit, Unlock, Goto, Failed,
         TypeInv, WriterType

\* Every step keeps PointsInv: only the control task adds rows, and only while no save is under way.
LEMMA PointsStep == TypeInv /\ PointsInv /\ [Next]_vars => PointsInv'
  <1> SUFFICES ASSUME TypeInv, PointsInv, [Next]_vars PROVE PointsInv'
    OBVIOUS
  <1>1. CASE BeginPour
    <2>1. Len(<<Sample(1)>>) = 1 /\ DOMAIN <<Sample(1)>> = {1}
          /\ <<Sample(1)>>[1].pour = Len(hist.ended) + 1
      BY DEF Sample
    <2>2. hist'.now = <<Sample(1)>> /\ hist'.ended = hist.ended
      BY <1>1 DEF BeginPour, TypeInv, HistType
    <2> QED BY <1>1, <2>1, <2>2, HistoryAssumption DEF BeginPour, PointsInv
  <1>2. CASE SampleDue
    <2>1. points' = Append(hist.now, Latest) /\ Len(hist.now) \in 1 .. MaxDue
      BY <1>2, AddPointAppends, HistoryAssumption DEF SampleDue
    <2>2. hist'.now = points' /\ hist'.ended = hist.ended
      BY <1>2, <2>1 DEF SampleDue, TypeInv, HistType
    <2>3. hist.now \in Seq(Rows) /\ Latest \in Rows
      BY RowTypes DEF TypeInv, HistType
    <2>4. Len(points') = Len(hist.now) + 1 /\ DOMAIN points' = 1 .. Len(hist.now) + 1
      BY <2>1, <2>3
    <2>5. \A i \in DOMAIN points' : points'[i].pour = Len(hist.ended) + 1
      BY <1>2, <2>1, <2>3, <2>4 DEF SampleDue, PointsInv, Latest, Sample
    <2> QED BY <1>2, <2>1, <2>2, <2>4, <2>5, HistoryAssumption DEF SampleDue, PointsInv
  <1>3. CASE EndPour
    <2> DEFINE rows == Append(hist.now, Latest)
    <2>1. points' = rows /\ Len(hist.now) \in 1 .. MaxDue + 1
      BY <1>3, AddPointAppends DEF EndPour
    <2>2. hist'.ended = Append(hist.ended, rows)
      BY <1>3 DEF EndPour, TypeInv, HistType
    <2>3. hist.now \in Seq(Rows) /\ Latest \in Rows /\ hist.ended \in Seq(Seq(Rows))
      BY RowTypes DEF TypeInv, HistType
    <2>4. Len(rows) = Len(hist.now) + 1 /\ DOMAIN rows = 1 .. Len(hist.now) + 1
      BY <2>3
    <2>5. \A i \in DOMAIN rows : rows[i].pour = Len(hist.ended) + 1
      BY <1>3, <2>3, <2>4 DEF EndPour, PointsInv, Latest, Sample
    <2>6. rows # <<>> /\ Len(rows) <= MaxRows
      BY <2>1, <2>3, <2>4, HistoryAssumption, EmptySeq
    <2>7. rows \in Seq(Rows)
      BY <2>3
    <2> HIDE DEF rows
    <2>8. /\ Len(hist'.ended) = Len(hist.ended) + 1
          /\ DOMAIN hist'.ended = DOMAIN hist.ended \cup {Len(hist.ended) + 1}
          /\ hist'.ended[Len(hist.ended) + 1] = rows
          /\ \A p \in DOMAIN hist.ended : hist'.ended[p] = hist.ended[p]
      BY <2>2, <2>3, <2>7
    <2>9. \A p \in DOMAIN hist'.ended :
            /\ hist'.ended[p] # <<>>
            /\ \A i \in DOMAIN hist'.ended[p] : hist'.ended[p][i].pour = p
      BY <2>5, <2>6, <2>8 DEF PointsInv
    <2>10. hist'.ended # <<>>
      BY <2>2, <2>3, <2>7
    <2> QED BY <1>3, <2>1, <2>6, <2>8, <2>9, <2>10 DEF EndPour, PointsInv
  <1>4. CASE TakeNotice
    <2>1. writer'.pc = "erase"
      BY <1>4 DEF TakeNotice
    <2> QED BY <1>4, <2>1 DEF TakeNotice, PointsInv
  <1>5. CASE EraseBegin
    <2>1. hist'.ended = hist.ended /\ hist'.now = hist.now
      BY <1>5 DEF EraseBegin, TypeInv, HistType
    <2> QED BY <1>5, <2>1, WriterPc DEF EraseBegin, PointsInv, RamAlone
  <1>6. CASE EraseEnd
    <2>1. hist'.ended = hist.ended /\ hist'.now = hist.now
      BY <1>6 DEF EraseEnd, TypeInv, HistType
    <2> QED BY <1>6, <2>1, WriterPc DEF EraseEnd, PointsInv, RamAlone
  <1>7. CASE WriteData
    <2>1. hist'.ended = hist.ended /\ hist'.now = hist.now
      BY <1>7 DEF WriteData, TypeInv, HistType
    <2> QED BY <1>7, <2>1, WriterPc DEF WriteData, PointsInv, RamAlone
  <1>8. CASE WriteHeader
    <2>1. hist'.ended = hist.ended /\ hist'.now = hist.now
      BY <1>8 DEF WriteHeader, TypeInv, HistType
    <2> QED BY <1>8, <2>1, WriterPc DEF WriteHeader, PointsInv, RamAlone
  <1>9. CASE WriteMagic
    <2>1. hist'.ended = hist.ended /\ hist'.now = hist.now
      BY <1>9 DEF WriteMagic, TypeInv, HistType
    <2> QED BY <1>9, <2>1, WriterPc DEF WriteMagic, PointsInv, RamAlone
  <1>10. CASE Commit
    <2>1. hist'.ended = hist.ended /\ hist'.now = hist.now
      BY <1>10 DEF Commit, TypeInv, HistType
    <2> QED BY <1>10, <2>1, WriterPc DEF Commit, PointsInv, RamAlone
  <1>11. CASE Unlock
    <2>1. hist'.ended = hist.ended /\ hist'.now = hist.now
      BY <1>11 DEF Unlock, TypeInv, HistType
    <2> QED BY <1>11, <2>1, WriterPc DEF Unlock, PointsInv, RamAlone
  <1>12. CASE ClearSaving
    BY <1>12 DEF ClearSaving, PointsInv, Idle
  <1>13. CASE Restart
    <2>1. hist'.ended = hist.ended
      BY <1>13 DEF Restart, TypeInv, HistType
    <2>2. Len(<<>>) = 0
      BY EmptySeq
    <2> QED BY <1>13, <2>1, <2>2, HistoryAssumption DEF Restart, PointsInv, Idle
  <1>14. CASE ExportBegin
    BY <1>14 DEF ExportBegin, PointsInv
  <1>15. CASE ExportRow
    BY <1>15 DEF ExportRow, PointsInv
  <1>16. CASE UNCHANGED vars
    BY <1>16 DEF vars, PointsInv
  <1> QED
    BY <1>1, <1>2, <1>3, <1>4, <1>5, <1>6, <1>7, <1>8, <1>9, <1>10, <1>11,
       <1>12, <1>13, <1>14, <1>15, <1>16
    DEF Next, Write

\* The pours that ended stay as they are, and only EndPour adds one.
LEMMA EndedGrows ==
    ASSUME TypeInv, [Next]_vars
    PROVE  /\ \A p \in DOMAIN hist.ended : p \in DOMAIN hist'.ended
                                           /\ hist'.ended[p] = hist.ended[p]
           /\ \/ hist'.ended = hist.ended
              \/ EndPour /\ Len(hist'.ended) = Len(hist.ended) + 1
  <1>1. CASE EndPour
    <2> DEFINE rows == Append(hist.now, Latest)
    <2>1. hist'.ended = Append(hist.ended, rows)
      BY <1>1 DEF EndPour, TypeInv, HistType
    <2>2. hist.ended \in Seq(Seq(Rows)) /\ rows \in Seq(Rows)
      BY RowTypes DEF TypeInv, HistType
    <2> HIDE DEF rows
    <2> QED BY <1>1, <2>1, <2>2
  <1>2. CASE ~EndPour
    <2>1. hist'.ended = hist.ended
      BY <1>2
      DEF Next, Write, BeginPour, SampleDue, TakeNotice, EraseBegin, EraseEnd, WriteData,
          WriteHeader, WriteMagic, Commit, Unlock, ClearSaving, Restart, ExportBegin, ExportRow,
          RamAlone, vars, TypeInv, HistType
    <2> QED BY <2>1
  <1> QED BY <1>1, <1>2

\* What the writer has in hand is the pour that ended last.
LEMMA SavedPour ==
    ASSUME TypeInv, PointsInv, saving
    PROVE  /\ Len(hist.ended) \in DOMAIN hist.ended /\ Len(hist.ended) \in Nat \ {0}
           /\ points = hist.ended[Len(hist.ended)] /\ points \in Seq(Rows) /\ points # <<>>
           /\ points[1].pour = Len(hist.ended)
  <1>1. /\ Len(hist.ended) \in DOMAIN hist.ended /\ Len(hist.ended) \in Nat \ {0}
        /\ points = hist.ended[Len(hist.ended)] /\ points \in Seq(Rows)
    BY DEF PointsInv, TypeInv, HistType
  <1>2. points # <<>>
    BY <1>1 DEF PointsInv
  <1>3. 1 \in DOMAIN points
    BY <1>1, <1>2, EmptySeq
  <1>4. points[1].pour = Len(hist.ended)
    BY <1>1, <1>3 DEF PointsInv
  <1> QED BY <1>1, <1>2, <1>4

\* SlotsInv holds at the first boot.
LEMMA SlotsInit == Init => SlotsInv
  BY DEF Init, SlotsInv, Erased, Idle

\* Every step keeps SlotsInv: the writer fills its slot in order, magic word last.
LEMMA SlotsStep == TypeInv /\ PointsInv /\ SlotsInv /\ [Next]_vars => SlotsInv'
  <1> SUFFICES ASSUME TypeInv, PointsInv, SlotsInv, [Next]_vars PROVE SlotsInv'
    OBVIOUS
  <1>0. \A p \in DOMAIN hist.ended : p \in DOMAIN hist'.ended /\ hist'.ended[p] = hist.ended[p]
    BY EndedGrows
  <1>1. CASE BeginPour
    BY <1>1, <1>0 DEF BeginPour, SlotsInv, PointsInv
  <1>2. CASE SampleDue
    BY <1>2, <1>0 DEF SampleDue, SlotsInv, PointsInv
  <1>3. CASE EndPour
    BY <1>3, <1>0 DEF EndPour, SlotsInv, PointsInv
  <1>4. CASE TakeNotice
    <2>1. writer'.pc = "erase" /\ writer'.id > 0
      BY <1>4 DEF TakeNotice, TypeInv
    <2> QED BY <1>4, <1>0, <2>1 DEF TakeNotice, SlotsInv
  <1>5. CASE EraseBegin
    <2>1. writer'.pc = "erased" /\ writer'.id = writer.id /\ writer'.slot = writer.slot
      BY <1>5 DEF EraseBegin, Goto, TypeInv, WriterType
    <2>2. /\ flash'[writer.slot] = Erased /\ Erased.magic = FALSE
          /\ \A s \in Slots : s # writer.slot => flash'[s] = flash[s]
      BY <1>5 DEF EraseBegin, TypeInv, WriterType, Erased
    <2> QED BY <1>5, <1>0, <2>1, <2>2 DEF EraseBegin, SlotsInv
  <1>6. CASE EraseEnd
    <2>1. /\ writer'.pc \in {"data", "unlock"}
          /\ writer'.id = writer.id /\ writer'.slot = writer.slot
      BY <1>6 DEF EraseEnd, Goto, Failed, TypeInv, WriterType
    <2> QED BY <1>6, <1>0, <2>1 DEF EraseEnd, SlotsInv
  <1>7. CASE WriteData
    <2>1. writer'.id = writer.id /\ writer'.slot = writer.slot /\ writer.slot \in Slots
      BY <1>7 DEF WriteData, Goto, Failed, TypeInv, WriterType
    <2>2. CASE Failed /\ UNCHANGED flash
      <3>1. writer'.pc = "unlock"
        BY <2>2 DEF Failed, TypeInv, WriterType
      <3> QED BY <1>7, <1>0, <2>1, <2>2, <3>1 DEF WriteData, SlotsInv
    <2>3. CASE Goto("header") /\ flash' = [flash EXCEPT ![writer.slot].data = points]
      <3>1. writer'.pc = "header" /\ points' = points
        BY <1>7, <2>3 DEF WriteData, Goto, RamAlone, TypeInv, WriterType
      <3>2. \A s \in Slots : s # writer.slot => flash'[s] = flash[s]
        BY <2>3 DEF TypeInv
      <3>3. flash'[writer.slot] = [Erased EXCEPT !.data = points]
        BY <1>7, <2>1, <2>3 DEF WriteData, SlotsInv, TypeInv
      <3>4. flash'[writer.slot].magic = FALSE
        BY <3>3 DEF Erased
      <3>5. writer.id > 0
        BY <1>7 DEF WriteData, SlotsInv
      <3>8. \A s \in Slots : flash'[s].magic =>
               /\ flash'[s].header.rows = flash'[s].data /\ flash'[s].header.id > 0
               /\ \E p \in DOMAIN hist'.ended : flash'[s].data = hist'.ended[p]
        BY <1>0, <3>2, <3>4 DEF SlotsInv
      <3> QED BY <1>7, <2>1, <3>1, <3>3, <3>5, <3>8 DEF WriteData, SlotsInv, Pending
    <2> QED BY <1>7, <2>2, <2>3 DEF WriteData
  <1>8. CASE WriteHeader
    <2>1. writer'.id = writer.id /\ writer'.slot = writer.slot /\ writer.slot \in Slots
      BY <1>8 DEF WriteHeader, Goto, Failed, TypeInv, WriterType
    <2>2. CASE Failed /\ UNCHANGED flash
      <3>1. writer'.pc = "unlock"
        BY <2>2 DEF Failed, TypeInv, WriterType
      <3> QED BY <1>8, <1>0, <2>1, <2>2, <3>1 DEF WriteHeader, SlotsInv
    <2>3. CASE Goto("magic") /\ flash' = [flash EXCEPT ![writer.slot].header = Pending]
      <3>1. writer'.pc = "magic" /\ points' = points
        BY <1>8, <2>3 DEF WriteHeader, Goto, RamAlone, TypeInv, WriterType
      <3>2. \A s \in Slots : s # writer.slot => flash'[s] = flash[s]
        BY <2>3 DEF TypeInv
      <3>3. flash'[writer.slot] = [magic |-> FALSE, header |-> Pending, data |-> points]
        BY <1>8, <2>1, <2>3 DEF WriteHeader, SlotsInv, TypeInv, Erased
      <3>4. flash'[writer.slot].magic = FALSE
        BY <3>3 DEF Erased
      <3>5. writer.id > 0
        BY <1>8 DEF WriteHeader, SlotsInv
      <3>8. \A s \in Slots : flash'[s].magic =>
               /\ flash'[s].header.rows = flash'[s].data /\ flash'[s].header.id > 0
               /\ \E p \in DOMAIN hist'.ended : flash'[s].data = hist'.ended[p]
        BY <1>0, <3>2, <3>4 DEF SlotsInv
      <3> QED BY <1>8, <2>1, <3>1, <3>3, <3>5, <3>8 DEF WriteHeader, SlotsInv, Pending
    <2> QED BY <1>8, <2>2, <2>3 DEF WriteHeader
  <1>9. CASE WriteMagic
    <2>1. writer'.id = writer.id /\ writer'.slot = writer.slot /\ writer.slot \in Slots
      BY <1>9 DEF WriteMagic, Goto, Failed, TypeInv, WriterType
    <2>2. CASE Failed /\ UNCHANGED flash
      <3>1. writer'.pc = "unlock"
        BY <2>2 DEF Failed, TypeInv, WriterType
      <3> QED BY <1>9, <1>0, <2>1, <2>2, <3>1 DEF WriteMagic, SlotsInv
    <2>3. CASE Goto("commit") /\ flash' = [flash EXCEPT ![writer.slot].magic = TRUE]
      <3>1. writer'.pc = "commit" /\ points' = points
        BY <1>9, <2>3 DEF WriteMagic, Goto, RamAlone, TypeInv, WriterType
      <3>2. \A s \in Slots : s # writer.slot => flash'[s] = flash[s]
        BY <2>3 DEF TypeInv
      <3>3. flash'[writer.slot] = [magic |-> TRUE, header |-> Pending, data |-> points]
        <4>1. flash[writer.slot] = [magic |-> FALSE, header |-> Pending, data |-> points]
          BY <1>9 DEF WriteMagic, SlotsInv
        <4>2. flash'[writer.slot] = [flash[writer.slot] EXCEPT !.magic = TRUE]
          BY <2>1, <2>3 DEF TypeInv
        <4>3. flash'[writer.slot] =
                [[magic |-> FALSE, header |-> Pending, data |-> points] EXCEPT !.magic = TRUE]
          BY <4>1, <4>2
        <4> QED BY <4>3
      <3>4. saving
        BY <1>9 DEF WriteMagic, PointsInv
      <3>5. Pending.rows = points /\ Pending.id = writer.id /\ writer.id > 0
        BY <1>9 DEF WriteMagic, Pending, SlotsInv
      <3>6. \E p \in DOMAIN hist'.ended : points = hist'.ended[p]
        BY <1>0, <3>4, SavedPour
      <3>7. /\ flash'[writer.slot].header.rows = flash'[writer.slot].data
            /\ flash'[writer.slot].header.id > 0
            /\ flash'[writer.slot].data = points
        BY <3>3, <3>5
      <3>8. \A s \in Slots : flash'[s].magic =>
               /\ flash'[s].header.rows = flash'[s].data /\ flash'[s].header.id > 0
               /\ \E p \in DOMAIN hist'.ended : flash'[s].data = hist'.ended[p]
        BY <1>0, <3>2, <3>6, <3>7 DEF SlotsInv
      <3> QED BY <1>9, <2>1, <3>1, <3>3, <3>5, <3>8 DEF WriteMagic, SlotsInv, Pending
    <2> QED BY <1>9, <2>2, <2>3 DEF WriteMagic
  <1>10. CASE Commit
    <2>1. writer'.pc = "unlock" /\ writer'.id = writer.id
      BY <1>10 DEF Commit, Goto, Failed, TypeInv, WriterType
    <2> QED BY <1>10, <1>0, <2>1 DEF Commit, SlotsInv
  <1>11. CASE Unlock
    <2>1. writer'.pc = "clear" /\ writer'.id = writer.id
      BY <1>11 DEF Unlock, Goto, TypeInv, WriterType
    <2> QED BY <1>11, <1>0, <2>1 DEF Unlock, SlotsInv
  <1>12. CASE ClearSaving
    BY <1>12, <1>0 DEF ClearSaving, SlotsInv, PointsInv, Idle
  <1>13. CASE Restart
    BY <1>13, <1>0 DEF Restart, SlotsInv, PointsInv, Idle
  <1>14. CASE ExportBegin
    BY <1>14, <1>0 DEF ExportBegin, SlotsInv, Pending
  <1>15. CASE ExportRow
    BY <1>15, <1>0 DEF ExportRow, SlotsInv, Pending
  <1>16. CASE UNCHANGED vars
    BY <1>16 DEF vars, SlotsInv, Pending
  <1> QED
    BY <1>1, <1>2, <1>3, <1>4, <1>5, <1>6, <1>7, <1>8, <1>9, <1>10, <1>11,
       <1>12, <1>13, <1>14, <1>15, <1>16
    DEF Next, Write

\* What each step does to the writer.
LEMMA WriterMoves ==
    ASSUME TypeInv
    PROVE  /\ EraseBegin => writer' = [writer EXCEPT !.pc = "erased"] /\ writer'.pc = "erased"
           /\ EraseEnd => writer'.pc \in {"data", "unlock"}
           /\ WriteData => writer'.pc \in {"header", "unlock"}
           /\ WriteHeader => writer'.pc \in {"magic", "unlock"}
           /\ WriteMagic => writer'.pc \in {"commit", "unlock"}
           /\ Commit => writer'.pc = "unlock"
           /\ Unlock => writer'.pc = "clear"
           /\ EraseBegin \/ EraseEnd \/ WriteData \/ WriteHeader \/ WriteMagic \/ Commit \/ Unlock
                => writer'.id = writer.id /\ writer'.slot = writer.slot
           /\ writer.slot \in Slots /\ writer.id \in Nat
  BY DEF EraseBegin, EraseEnd, WriteData, WriteHeader, WriteMagic, Commit, Unlock, Goto, Failed,
         TypeInv, WriterType

\* What each step does to the history other than to the pours that ended.
LEMMA HistMoves ==
    ASSUME TypeInv, [Next]_vars
    PROVE  /\ ~EraseEnd => hist'.worn = hist.worn
           /\ hist.worn => hist'.worn
           /\ ~Restart => hist'.blind = hist.blind
           /\ hist.blind => hist'.blind
           /\ ~Commit /\ ~Restart => hist'.saved = hist.saved
  <1> USE DEF TypeInv, HistType
  <1>1. CASE BeginPour \/ SampleDue \/ EndPour
    BY <1>1 DEF BeginPour, SampleDue, EndPour
  <1>2. CASE TakeNotice \/ EraseBegin \/ WriteData \/ WriteHeader \/ WriteMagic \/ Unlock
             \/ ClearSaving \/ ExportBegin \/ ExportRow \/ UNCHANGED vars
    BY <1>2
    DEF TakeNotice, EraseBegin, WriteData, WriteHeader, WriteMagic, Unlock, ClearSaving,
        ExportBegin, ExportRow, vars
  <1>3. CASE EraseEnd
    BY <1>3 DEF EraseEnd, Commit, Restart
  <1>4. CASE Commit
    BY <1>4 DEF Commit, Restart, EraseEnd
  <1>5. CASE Restart
    BY <1>5 DEF Restart, EraseEnd
  <1> QED BY <1>1, <1>2, <1>3, <1>4, <1>5 DEF Next, Write

\* What a flash operation writes, and that it leaves the other slots alone.
LEMMA FlashMoves ==
    ASSUME TypeInv
    PROVE  /\ EraseBegin => flash'[writer.slot] = Erased
           /\ EraseBegin \/ WriteData \/ WriteHeader \/ WriteMagic =>
                \A s \in Slots : s # writer.slot => flash'[s] = flash[s]
           /\ EraseEnd => \A s \in Slots : s # writer.slot => headers'[s] = headers[s]
           /\ EraseEnd => headers' = headers \/ headers'[writer.slot] = NoHeader
           /\ Commit => \A s \in Slots : s # writer.slot => headers'[s] = headers[s]
           /\ Commit => headers' = headers \/ headers'[writer.slot] = Pending
  BY DEF EraseBegin, EraseEnd, WriteData, WriteHeader, WriteMagic, Commit, TypeInv, WriterType

\* The restart that a step is, with what it loaded.
LEMMA RestartLoads ==
    ASSUME TypeInv, PointsInv, SlotsInv, Restart
    PROVE  /\ \A s \in Slots :
                /\ headers'[s].id = 0 => headers'[s] = NoHeader
                /\ headers'[s].id > 0 =>
                     /\ headers'[s].id < nextId' /\ available'
                     /\ flash[s] = [magic |-> TRUE, header |-> headers'[s], data |-> headers'[s].rows]
                     /\ \E p \in DOMAIN hist.ended : headers'[s].rows = hist.ended[p]
                     /\ headers'[s].rows[1].pour \in DOMAIN hist.ended
           /\ ~available' => \A s \in Slots : headers'[s] = NoHeader
           /\ ~hist'.blind /\ available' =>
                \A s \in Slots : flash[s].magic => headers'[s] = flash[s].header
           /\ hist'.saved = hist.saved \cup
                {headers'[s].rows[1].pour : s \in {t \in Slots : headers'[t].id > 0}}
           /\ hist'.ended = hist.ended /\ flash' = flash /\ writer' = Idle /\ export' = NoExport
           /\ saving' = FALSE
  <1>1. PICK unread \in {{}} \cup {{s} : s \in Slots}, found \in BOOLEAN :
          LET loaded == IF found THEN Load(unread) ELSE [s \in Slots |-> NoHeader] IN
            /\ available' = found
            /\ headers' = loaded
            /\ nextId' = NextId(loaded)
            /\ hist' = [hist EXCEPT !.now = <<>>,
                         !.saved = @ \cup {loaded[s].rows[1].pour : s \in {t \in Slots : loaded[t].id > 0}},
                         !.blind = @ \/ \E s \in unread : Valid(flash[s])]
    BY DEF Restart
  <1>2. /\ headers' = IF found THEN Load(unread) ELSE [s \in Slots |-> NoHeader]
        /\ available' = found /\ nextId' = NextId(headers')
        /\ hist' = [hist EXCEPT !.now = <<>>,
                     !.saved = @ \cup {headers'[s].rows[1].pour : s \in {t \in Slots : headers'[t].id > 0}},
                     !.blind = @ \/ \E s \in unread : Valid(flash[s])]
    BY <1>1
  <1>3. headers' \in [Slots -> HeaderType]
    BY <1>2, LoadType, EmptyTypes
  <1>4. \A s \in Slots : headers'[s].id < nextId'
    BY <1>2, <1>3, NextIdIsNew
  <1>5. ASSUME NEW s \in Slots, headers'[s].id > 0
        PROVE  /\ found /\ flash[s].magic /\ headers'[s] = flash[s].header
               /\ \E p \in DOMAIN hist.ended : headers'[s].rows = hist.ended[p]
               /\ headers'[s].rows[1].pour \in DOMAIN hist.ended
    BY <1>2, <1>5, LoadedRows DEF Valid
  <1>6. ASSUME NEW s \in Slots, headers'[s].id > 0
        PROVE  flash[s] = [magic |-> TRUE, header |-> headers'[s], data |-> headers'[s].rows]
    <2>1. flash[s] \in SlotType /\ flash[s].header.rows = flash[s].data
      BY <1>5, <1>6 DEF TypeInv, SlotsInv
    <2> QED BY <1>5, <1>6, <2>1 DEF SlotType
  <1>7. ASSUME NEW s \in Slots, headers'[s].id = 0
        PROVE  headers'[s] = NoHeader
    <2>1. headers'[s] = NoHeader \/ (headers'[s] = flash[s].header /\ Valid(flash[s]))
      BY <1>2 DEF Load
    <2> QED BY <1>7, <2>1 DEF Valid
  <1>8. hist'.blind = (hist.blind \/ \E s \in unread : Valid(flash[s]))
    BY <1>2 DEF TypeInv, HistType
  <1>9. ASSUME ~hist'.blind, available', NEW s \in Slots, flash[s].magic
        PROVE  headers'[s] = flash[s].header
    <2>1. Valid(flash[s])
      BY <1>9 DEF SlotsInv, Valid
    <2>2. s \notin unread
      BY <1>8, <1>9, <2>1
    <2> QED BY <1>2, <1>9, <2>1, <2>2 DEF Load
  <1>10. ~available' => \A s \in Slots : headers'[s] = NoHeader
    BY <1>2
  <1>11. /\ hist'.saved = hist.saved \cup
             {headers'[s].rows[1].pour : s \in {t \in Slots : headers'[t].id > 0}}
         /\ hist'.ended = hist.ended
    BY <1>2 DEF TypeInv, HistType
  <1>12. flash' = flash /\ writer' = Idle /\ export' = NoExport /\ saving' = FALSE
    BY DEF Restart
  <1> QED BY <1>2, <1>4, <1>5, <1>6, <1>7, <1>9, <1>10, <1>11, <1>12

\* RamInv holds at the first boot.
LEMMA RamInit == Init => RamInv
  BY DEF Init, RamInv, NoHeader, Idle

\* Every step keeps RamInv: the list in RAM follows the slots.
LEMMA RamStep == TypeInv /\ PointsInv /\ SlotsInv /\ RamInv /\ [Next]_vars => RamInv'
  <1> SUFFICES ASSUME TypeInv, PointsInv, SlotsInv, RamInv, [Next]_vars PROVE RamInv'
    OBVIOUS
  <1>0. \A p \in DOMAIN hist.ended : p \in DOMAIN hist'.ended /\ hist'.ended[p] = hist.ended[p]
    BY EndedGrows
  <1>1. CASE BeginPour
    BY <1>1, <1>0, HistMoves DEF BeginPour, RamInv
  <1>2. CASE SampleDue
    BY <1>2, <1>0, HistMoves DEF SampleDue, RamInv
  <1>3. CASE EndPour
    BY <1>3, <1>0, HistMoves DEF EndPour, RamInv
  <1>4. CASE TakeNotice
    <2>1. /\ writer'.pc = "erase" /\ writer'.id = nextId /\ nextId' = nextId + 1
          /\ nextId \in Nat /\ \A s \in Slots : headers[s].id \in Nat
      BY <1>4 DEF TakeNotice, TypeInv, HeaderType
    <2> QED BY <1>4, <1>0, <2>1, HistMoves DEF TakeNotice, RamInv
  <1>5. CASE EraseBegin
    BY <1>5, <1>0, WriterMoves, FlashMoves, HistMoves DEF EraseBegin, RamInv, RamAlone
  <1>6. CASE EraseEnd
    <2>1. flash' = flash /\ writer.pc = "erased" /\ available' = available /\ nextId' = nextId
      BY <1>6 DEF EraseEnd, RamAlone
    <2>2. CASE headers' = headers /\ hist'.worn /\ writer'.pc = "unlock"
      BY <1>6, <1>0, <2>1, <2>2, WriterMoves DEF RamInv
    <2>3. CASE headers'[writer.slot] = NoHeader /\ writer'.pc = "data"
      <3>1. NoHeader.id = 0
        BY DEF NoHeader
      <3> QED BY <1>6, <1>0, <2>1, <2>3, <3>1, WriterMoves, FlashMoves, HistMoves DEF RamInv
    <2>4. \/ headers' = headers /\ hist'.worn /\ writer'.pc = "unlock"
          \/ headers'[writer.slot] = NoHeader /\ writer'.pc = "data"
      BY <1>6 DEF EraseEnd, Goto, Failed, TypeInv, WriterType, HistType
    <2> QED BY <2>2, <2>3, <2>4
  <1>7. CASE WriteData
    <2>1. headers[writer.slot] = NoHeader /\ NoHeader.id = 0
      BY <1>7 DEF WriteData, RamInv, NoHeader
    <2> QED BY <1>7, <1>0, <2>1, WriterMoves, FlashMoves, HistMoves DEF WriteData, RamInv, RamAlone
  <1>8. CASE WriteHeader
    <2>1. headers[writer.slot] = NoHeader /\ NoHeader.id = 0
      BY <1>8 DEF WriteHeader, RamInv, NoHeader
    <2> QED BY <1>8, <1>0, <2>1, WriterMoves, FlashMoves, HistMoves DEF WriteHeader, RamInv, RamAlone
  <1>9. CASE WriteMagic
    <2>1. headers[writer.slot] = NoHeader /\ NoHeader.id = 0
      BY <1>9 DEF WriteMagic, RamInv, NoHeader
    <2> QED BY <1>9, <1>0, <2>1, WriterMoves, FlashMoves, HistMoves DEF WriteMagic, RamInv, RamAlone
  <1>10. CASE Commit
    <2>1. /\ flash' = flash /\ writer.pc = "commit" /\ available' = available /\ nextId' = nextId
          /\ writer'.pc = "unlock" /\ available
      BY <1>10, WriterMoves DEF Commit, RamAlone, PointsInv
    <2>2. /\ flash[writer.slot] = [magic |-> TRUE, header |-> Pending, data |-> Pending.rows]
          /\ Pending.id = writer.id /\ Pending.id > 0 /\ Pending.id < nextId
          /\ \E p \in DOMAIN hist.ended : Pending.rows = hist.ended[p]
      <3>1. saving /\ flash[writer.slot] = [magic |-> TRUE, header |-> Pending, data |-> points]
        BY <2>1 DEF PointsInv, SlotsInv
      <3>2. writer.id > 0 /\ writer.id < nextId
        BY <2>1, WriterMoves DEF SlotsInv, RamInv
      <3>3. Pending.id = writer.id /\ Pending.rows = points
        BY DEF Pending
      <3> QED BY <3>1, <3>2, <3>3, SavedPour
    <2>3. \/ headers' = headers
          \/ /\ headers'[writer.slot] = Pending
             /\ \A s \in Slots : s # writer.slot => headers'[s] = headers[s]
      BY <1>10, FlashMoves
    <2>4. hist'.worn = hist.worn
      BY <1>10, HistMoves DEF Commit, EraseEnd
    <2>5. ASSUME NEW s \in Slots
          PROVE  /\ headers'[s].id = 0 => headers'[s] = NoHeader
                 /\ headers'[s].id > 0 =>
                      /\ headers'[s].id < nextId'
                      /\ \/ flash'[s] = [magic |-> TRUE, header |-> headers'[s],
                                         data |-> headers'[s].rows]
                         \/ flash'[s] = Erased /\ hist'.worn
                      /\ \E p \in DOMAIN hist'.ended : headers'[s].rows = hist'.ended[p]
      <3>1. CASE headers'[s] = headers[s]
        BY <1>0, <2>1, <2>4, <3>1 DEF RamInv
      <3>2. CASE headers'[s] = Pending /\ s = writer.slot
        <4>1. \E p \in DOMAIN hist'.ended : Pending.rows = hist'.ended[p]
          BY <1>0, <2>2
        <4>2. flash'[s] = [magic |-> TRUE, header |-> Pending, data |-> Pending.rows]
          BY <2>1, <2>2, <3>2
        <4>3. Pending.id \in Nat /\ Pending.id # 0 /\ Pending.id < nextId
          BY <2>2, PendingType DEF HeaderType
        <4>4. headers'[s].id # 0 /\ headers'[s].id < nextId'
          BY <2>1, <3>2, <4>3
        <4>5. flash'[s] = [magic |-> TRUE, header |-> headers'[s], data |-> headers'[s].rows]
          BY <3>2, <4>2
        <4> QED BY <3>2, <4>1, <4>4, <4>5
      <3> QED BY <2>3, <3>1, <3>2
    <2> QED BY <1>10, <2>1, <2>5, WriterMoves DEF RamInv
  <1>11. CASE Unlock
    BY <1>11, <1>0, WriterMoves, HistMoves DEF Unlock, RamInv, RamAlone
  <1>12. CASE ClearSaving
    BY <1>12, <1>0, HistMoves DEF ClearSaving, Idle, RamInv
  <1>13. CASE Restart
    <2>1. writer'.pc = "wait"
      BY <1>13, RestartLoads DEF Idle
    <2> QED BY <1>13, <2>1, RestartLoads DEF RamInv
  <1>14. CASE ExportBegin
    BY <1>14, <1>0, HistMoves DEF ExportBegin, RamInv
  <1>15. CASE ExportRow
    BY <1>15, <1>0, HistMoves DEF ExportRow, RamInv
  <1>16. CASE UNCHANGED vars
    BY <1>16 DEF vars, RamInv
  <1> QED
    BY <1>1, <1>2, <1>3, <1>4, <1>5, <1>6, <1>7, <1>8, <1>9, <1>10, <1>11,
       <1>12, <1>13, <1>14, <1>15, <1>16
    DEF Next, Write

\* IdsInv holds at the first boot.
LEMMA IdsInit == Init => IdsInv
  BY DEF Init, IdsInv, Erased, NoHeader, Idle, Writing

\* The slot being written has no magic word before WriteMagic.
LEMMA BlankSlot ==
    ASSUME SlotsInv
    PROVE  /\ writer.pc \in {"erased", "data", "header", "magic"} => flash[writer.slot].magic = FALSE
           /\ writer.pc = "commit" =>
                /\ flash[writer.slot].header = Pending /\ Pending.id = writer.id
                /\ flash[writer.slot].data = points
  BY DEF SlotsInv, Erased, Pending

\* Every step keeps IdsInv: a boot that can read all slots starts above the highest id.
LEMMA IdsStep == TypeInv /\ PointsInv /\ SlotsInv /\ RamInv /\ IdsInv /\ [Next]_vars => IdsInv'
  <1> SUFFICES ASSUME TypeInv, PointsInv, SlotsInv, RamInv, IdsInv, [Next]_vars PROVE IdsInv'
    OBVIOUS
  <1> SUFFICES ASSUME ~hist'.blind PROVE IdsInv'
    BY DEF IdsInv
  <1>0. ~hist.blind
    BY HistMoves
  <1>1. SlotsInv'
    BY SlotsStep
  <1>2. TypeInv'
    BY TypeStep
  <1>3. CASE BeginPour
    BY <1>3, <1>0, HistMoves DEF BeginPour, IdsInv
  <1>4. CASE SampleDue
    BY <1>4, <1>0, HistMoves DEF SampleDue, IdsInv
  <1>5. CASE EndPour
    BY <1>5, <1>0, HistMoves DEF EndPour, IdsInv
  <1>6. CASE TakeNotice
    <2>1. /\ writer'.pc = "erase" /\ writer'.id = nextId /\ nextId' = nextId + 1 /\ available
          /\ nextId \in Nat \ {0} /\ \A s \in Slots : headers[s].id \in Nat /\ flash[s].header.id \in Nat
      BY <1>6 DEF TakeNotice, TypeInv, HeaderType, SlotType, PointsInv
    <2>2. \A s \in Slots : headers[s].id < nextId
      <3> TAKE s \in Slots
      <3>1. headers[s].id > 0 => headers[s].id < nextId
        BY DEF RamInv
      <3> QED BY <2>1, <3>1
    <2> QED BY <1>6, <1>0, <2>1, <2>2 DEF TakeNotice, IdsInv
  <1>7. CASE EraseBegin
    <2>1. /\ headers' = headers /\ available' = available /\ nextId' = nextId
          /\ writer.pc = "erase" /\ flash'[writer.slot].magic = FALSE
      BY <1>7, FlashMoves DEF EraseBegin, RamAlone, Erased
    <2> QED BY <1>7, <1>0, <2>1, WriterMoves, FlashMoves DEF IdsInv, Writing
  <1>8. CASE EraseEnd
    <2>1. /\ flash' = flash /\ available' = available /\ nextId' = nextId
          /\ writer.pc = "erased" /\ NoHeader.id = 0
      BY <1>8 DEF EraseEnd, RamAlone, NoHeader
    <2>2. writer.pc \in Writing /\ writer.id > 0
      BY <2>1 DEF SlotsInv, Writing
    <2>3. writer'.pc # "erased" /\ writer'.pc # "commit"
      BY <1>8, WriterMoves
    <2>4. \A s \in Slots : headers'[s] = headers[s] \/ headers'[s].id = 0
      BY <1>8, <2>1, FlashMoves
    <2>5. \A s \in Slots : headers[s].id \in Nat
      BY DEF TypeInv, HeaderType
    <2> QED BY <1>8, <1>0, <2>1, <2>2, <2>3, <2>4, <2>5, WriterMoves DEF IdsInv
  <1>9. CASE WriteData
    <2>1. /\ headers' = headers /\ available' = available /\ nextId' = nextId
          /\ writer.pc = "data"
      BY <1>9 DEF WriteData, RamAlone
    <2>2. flash' = flash \/ flash'[writer.slot].magic = FALSE
      <3>1. writer.slot \in Slots /\ flash[writer.slot] \in SlotType /\ flash[writer.slot].magic = FALSE
        BY <2>1, BlankSlot, WriterMoves DEF TypeInv
      <3>2. flash' # flash => flash'[writer.slot] = [flash[writer.slot] EXCEPT !.data = points]
        BY <1>9, <3>1 DEF WriteData, TypeInv
      <3> QED BY <3>1, <3>2 DEF SlotType
    <2> QED BY <1>9, <1>0, <2>1, <2>2, WriterMoves, FlashMoves DEF IdsInv, Writing
  <1>10. CASE WriteHeader
    <2>1. /\ headers' = headers /\ available' = available /\ nextId' = nextId
          /\ writer.pc = "header"
      BY <1>10 DEF WriteHeader, RamAlone
    <2>2. flash' = flash \/ flash'[writer.slot].magic = FALSE
      <3>1. writer.slot \in Slots /\ flash[writer.slot] \in SlotType /\ flash[writer.slot].magic = FALSE
        BY <2>1, BlankSlot, WriterMoves DEF TypeInv
      <3>2. flash' # flash => flash'[writer.slot] = [flash[writer.slot] EXCEPT !.header = Pending]
        BY <1>10, <3>1 DEF WriteHeader, TypeInv
      <3> QED BY <3>1, <3>2 DEF SlotType
    <2> QED BY <1>10, <1>0, <2>1, <2>2, WriterMoves, FlashMoves DEF IdsInv, Writing
  <1>11. CASE WriteMagic
    <2>1. /\ headers' = headers /\ available' = available /\ nextId' = nextId
          /\ writer.pc = "magic" /\ nextId = writer.id + 1 /\ writer.id \in Nat
      BY <1>11, WriterMoves DEF WriteMagic, RamAlone, RamInv
    <2>2. /\ \A s \in Slots : headers[s].id < writer.id
          /\ \A s \in Slots : flash[s].magic => flash[s].header.id < writer.id /\ s # writer.slot
      BY <1>0, <2>1, BlankSlot DEF IdsInv, Writing
    <2>3. CASE flash' = flash /\ writer'.pc = "unlock"
      BY <1>0, <2>1, <2>3 DEF IdsInv, Writing
    <2>4. CASE flash' # flash /\ writer'.pc = "commit"
      <3>1. flash'[writer.slot].header.id = writer.id
        <4>1. writer'.slot = writer.slot /\ writer'.id = writer.id
          BY <1>11, WriterMoves
        <4> QED BY <1>1, <2>4, <4>1 DEF SlotsInv, Pending
      <3>2. \A s \in Slots : s # writer.slot => flash'[s] = flash[s]
        BY <1>11, FlashMoves
      <3>3. \A s, t \in Slots : s # t /\ flash'[s].magic /\ flash'[t].magic =>
              flash'[s].header.id # flash'[t].header.id
        BY <1>0, <2>1, <2>2, <3>1, <3>2 DEF IdsInv
      <3>4. \A s \in Slots : flash'[s].magic => flash'[s].header.id < writer.id \/ s = writer.slot
        BY <2>2, <3>2
      <3>5. \A s \in Slots : flash'[s].magic => flash'[s].header.id < nextId
        <4> TAKE s \in Slots
        <4>1. flash'[s] \in SlotType
          BY <1>2 DEF TypeInv
        <4> QED BY <2>1, <3>1, <3>4, <4>1 DEF SlotType, HeaderType
      <3> QED BY <1>11, <1>0, <2>1, <2>2, <2>4, <3>3, <3>4, <3>5, WriterMoves DEF IdsInv
    <2>5. (flash' = flash /\ writer'.pc = "unlock") \/ writer'.pc = "commit"
      BY <1>11, WriterMoves DEF WriteMagic, Failed, Goto, TypeInv, WriterType
    <2>6. CASE flash' = flash /\ writer'.pc = "commit"
      <3>1. flash[writer.slot].magic
        BY <1>1, <1>11, <2>6, WriterMoves DEF SlotsInv
      <3> QED BY <2>2, <3>1, WriterMoves
    <2> QED BY <2>3, <2>4, <2>5, <2>6
  <1>12. CASE Commit
    <2>1. /\ flash' = flash /\ available' = available /\ nextId' = nextId
          /\ writer.pc = "commit" /\ writer'.pc = "unlock"
      BY <1>12, WriterMoves DEF Commit, RamAlone
    <2>2. /\ \A s \in Slots : headers[s].id < writer.id /\ headers[s].id \in Nat
          /\ Pending.id = writer.id /\ writer.id \in Nat
      BY <1>0, <2>1, WriterMoves DEF IdsInv, Writing, Pending, TypeInv, HeaderType
    <2>3. \/ headers' = headers
          \/ /\ headers'[writer.slot].id = writer.id
             /\ \A s \in Slots : s # writer.slot => headers'[s] = headers[s]
      BY <1>12, <2>2, FlashMoves
    <2>4. \A s, t \in Slots : s # t /\ headers'[s].id > 0 => headers'[s].id # headers'[t].id
      BY <1>0, <2>2, <2>3 DEF IdsInv
    <2> QED BY <1>0, <2>1, <2>4 DEF IdsInv, Writing
  <1>13. CASE Unlock
    BY <1>13, <1>0, HistMoves, WriterMoves DEF Unlock, IdsInv, RamAlone, Writing
  <1>14. CASE ClearSaving
    BY <1>14, <1>0, HistMoves DEF ClearSaving, IdsInv, Idle, Writing
  <1>15. CASE Restart
    <2>1. writer'.pc = "wait" /\ flash' = flash
      BY <1>15, RestartLoads DEF Idle
    <2>2. \A s \in Slots : headers'[s].id > 0 => flash[s].magic /\ flash[s].header = headers'[s]
      <3> TAKE s \in Slots
      <3> HAVE headers'[s].id > 0
      <3>1. flash[s] = [magic |-> TRUE, header |-> headers'[s], data |-> headers'[s].rows]
        BY <1>15, RestartLoads
      <3> QED BY <3>1
    <2>3. \A s \in Slots : headers'[s].id \in Nat
      BY <1>2 DEF TypeInv, HeaderType
    <2>4. \A s, t \in Slots : s # t /\ headers'[s].id > 0 => headers'[s].id # headers'[t].id
      <3> TAKE s, t \in Slots
      <3> HAVE s # t /\ headers'[s].id > 0
      <3>1. CASE headers'[t].id > 0
        BY <1>0, <2>2, <3>1 DEF IdsInv
      <3> QED BY <2>3, <3>1
    <2>5. \A s \in Slots : available' /\ flash[s].magic => flash[s].header.id < nextId'
      <3> TAKE s \in Slots
      <3> HAVE available' /\ flash[s].magic
      <3>1. headers'[s] = flash[s].header /\ flash[s].header.id > 0
        BY <1>15, RestartLoads DEF SlotsInv
      <3> QED BY <1>15, <3>1, RestartLoads
    <2> QED BY <1>0, <2>1, <2>4, <2>5 DEF IdsInv, Writing
  <1>16. CASE ExportBegin
    BY <1>16, <1>0, HistMoves DEF ExportBegin, IdsInv
  <1>17. CASE ExportRow
    BY <1>17, <1>0, HistMoves DEF ExportRow, IdsInv
  <1>18. CASE UNCHANGED vars
    BY <1>18 DEF vars, IdsInv
  <1> QED
    BY <1>3, <1>4, <1>5, <1>6, <1>7, <1>8, <1>9, <1>10, <1>11, <1>12,
       <1>13, <1>14, <1>15, <1>16, <1>17, <1>18
    DEF Next, Write

\* ExportInv holds at the first boot.
LEMMA ExportInit == Init => ExportInv
  <1>1. DOMAIN <<>> = {}
    BY EmptySeq
  <1> QED BY <1>1 DEF Init, ExportInv, NoExport

\* Every step keeps ExportInv: the id asked for is never given to another pour.
LEMMA ExportStep ==
    TypeInv /\ PointsInv /\ SlotsInv /\ RamInv /\ IdsInv /\ ExportInv
      /\ [Next]_vars => ExportInv'
  <1> SUFFICES ASSUME TypeInv, PointsInv, SlotsInv, RamInv, IdsInv, ExportInv, [Next]_vars
               PROVE  ExportInv'
    OBVIOUS
  <1> SUFFICES ASSUME ~hist'.blind PROVE ExportInv'
    BY DEF ExportInv
  <1>0. ~hist.blind
    BY HistMoves
  <1>1. CASE BeginPour
    BY <1>1, <1>0, HistMoves DEF BeginPour, ExportInv
  <1>2. CASE SampleDue
    BY <1>2, <1>0, HistMoves DEF SampleDue, ExportInv
  <1>3. CASE EndPour
    BY <1>3, <1>0, HistMoves DEF EndPour, ExportInv
  <1>4. CASE TakeNotice
    <2>1. writer'.id = nextId /\ nextId' = nextId + 1 /\ nextId \in Nat /\ export.id \in Nat
      BY <1>4 DEF TakeNotice, TypeInv, ExportType
    <2> QED BY <1>4, <1>0, <2>1, HistMoves DEF TakeNotice, ExportInv
  <1>5. CASE EraseBegin
    <2>1. /\ headers' = headers /\ export' = export /\ nextId' = nextId
          /\ writer.pc \in Writing /\ writer'.id = writer.id
      BY <1>5, WriterMoves DEF EraseBegin, RamAlone, Writing
    <2> QED BY <1>5, <1>0, <2>1, HistMoves DEF ExportInv
  <1>6. CASE EraseEnd
    <2>1. /\ export' = export /\ nextId' = nextId /\ NoHeader.id = 0
          /\ writer.pc \in Writing /\ writer'.id = writer.id
      BY <1>6, WriterMoves DEF EraseEnd, RamAlone, Writing, NoHeader
    <2>2. \A s \in Slots : headers'[s] = headers[s] \/ headers'[s].id = 0
      BY <1>6, <2>1, FlashMoves
    <2>3. hist.worn => hist'.worn
      BY HistMoves
    <2>4. export # NoExport => export.id # 0
      BY <1>0 DEF ExportInv
    <2> QED BY <1>0, <2>1, <2>2, <2>3, <2>4 DEF ExportInv
  <1>7. CASE WriteData
    <2>1. /\ headers' = headers /\ export' = export /\ nextId' = nextId
          /\ writer.pc \in Writing /\ writer'.id = writer.id
      BY <1>7, WriterMoves DEF WriteData, RamAlone, Writing
    <2> QED BY <1>7, <1>0, <2>1, HistMoves DEF ExportInv
  <1>8. CASE WriteHeader
    <2>1. /\ headers' = headers /\ export' = export /\ nextId' = nextId
          /\ writer.pc \in Writing /\ writer'.id = writer.id
      BY <1>8, WriterMoves DEF WriteHeader, RamAlone, Writing
    <2> QED BY <1>8, <1>0, <2>1, HistMoves DEF ExportInv
  <1>9. CASE WriteMagic
    <2>1. /\ headers' = headers /\ export' = export /\ nextId' = nextId
          /\ writer.pc \in Writing /\ writer'.id = writer.id
      BY <1>9, WriterMoves DEF WriteMagic, RamAlone, Writing
    <2> QED BY <1>9, <1>0, <2>1, HistMoves DEF ExportInv
  <1>10. CASE Commit
    <2>1. /\ export' = export /\ nextId' = nextId
          /\ writer.pc \in Writing /\ writer'.pc = "unlock" /\ Pending.id = writer.id
      BY <1>10, WriterMoves DEF Commit, RamAlone, Writing, Pending
    <2>2. \A s \in Slots : headers'[s] = headers[s] \/ headers'[s].id = writer.id
      BY <1>10, <2>1, FlashMoves
    <2>3. export # NoExport => export.id # writer.id
      BY <1>0, <2>1, WriterMoves DEF ExportInv, TypeInv, ExportType
    <2> QED BY <1>10, <1>0, <2>1, <2>2, <2>3, HistMoves DEF ExportInv, Writing
  <1>11. CASE Unlock
    BY <1>11, <1>0, HistMoves, WriterMoves DEF Unlock, ExportInv, RamAlone, Writing
  <1>12. CASE ClearSaving
    BY <1>12, <1>0, HistMoves DEF ClearSaving, ExportInv, Idle, Writing
  <1>13. CASE Restart
    <2>1. export' = NoExport /\ DOMAIN NoExport.got = {}
      BY <1>13, RestartLoads, EmptySeq DEF NoExport
    <2> QED BY <2>1 DEF ExportInv
  <1>14. CASE ExportBegin
    <2>1. PICK s \in Listed : export' = [id |-> headers[s].id, rows |-> headers[s].rows, got |-> <<>>]
      BY <1>14 DEF ExportBegin
    <2>2. s \in Slots /\ headers[s].id > 0 /\ headers[s].id < nextId
      BY DEF Listed, RamInv
    <2>3. /\ export'.id = headers[s].id /\ export'.rows = headers[s].rows
          /\ DOMAIN export'.got = {}
      BY <2>1, EmptySeq
    <2>4. headers' = headers /\ nextId' = nextId /\ writer' = writer /\ writer.pc \notin Writing
      BY <1>14 DEF ExportBegin, Locked, Writing
    <2>5. \A t \in Slots : headers[t].id = headers[s].id => t = s
      BY <1>0, <2>2 DEF IdsInv
    <2> QED BY <2>2, <2>3, <2>4, <2>5 DEF ExportInv
  <1>15. CASE ExportRow
    <2> DEFINE i == Len(export.got) + 1
    <2>1. /\ headers' = headers /\ nextId' = nextId /\ writer' = writer /\ hist' = hist
          /\ export # NoExport /\ writer.pc \in {"wait", "clear"}
      BY <1>15 DEF ExportRow, Locked
    <2>2. CASE export' = NoExport
      <3>1. DOMAIN NoExport.got = {}
        BY EmptySeq DEF NoExport
      <3> QED BY <2>2, <3>1 DEF ExportInv
    <2>3. ASSUME i <= Len(export.rows), NEW s \in Holding(i),
                 export' = [export EXCEPT !.got = Append(@, Row(s, i))]
          PROVE  ExportInv'
      <3>1. export \in ExportType /\ export.got \in Seq(Rows \cup {NoRow}) /\ i \in Nat \ {0}
        BY DEF TypeInv, ExportType
      <3>2. /\ export'.id = export.id /\ export'.rows = export.rows
            /\ export'.got = Append(export.got, Row(s, i))
        BY <2>3, <3>1 DEF ExportType
      <3>3. s \in Slots /\ headers[s].rows = export.rows /\ headers[s].id > 0
        BY <1>0, <2>1 DEF Holding, ExportInv
      <3>4. Row(s, i) = export.rows[i] \/ (Row(s, i) = NoRow /\ hist.worn)
        <4>1. CASE flash[s] = [magic |-> TRUE, header |-> headers[s], data |-> headers[s].rows]
          <5>1. flash[s].data = export.rows
            BY <3>3, <4>1
          <5> QED BY <2>3, <5>1 DEF Row
        <4>2. CASE flash[s] = Erased /\ hist.worn
          <5>1. flash[s].data = <<>> /\ Len(<<>>) = 0
            BY <4>2, EmptySeq DEF Erased
          <5> QED BY <3>1, <4>2, <5>1 DEF Row
        <4> QED BY <2>1, <3>3, <4>1, <4>2 DEF RamInv
      <3> HIDE DEF i
      <3>5. /\ DOMAIN export'.got = DOMAIN export.got \cup {i} /\ export'.got[i] = Row(s, i)
            /\ \A j \in DOMAIN export.got : export'.got[j] = export.got[j]
        <4>1. Row(s, i) \in Rows \cup {NoRow}
          <5>1. flash[s].data \in Seq(Rows)
            BY <3>3 DEF TypeInv, SlotType
          <5> QED BY <3>1, <5>1, ElementOfSeq DEF Row
        <4> QED BY <3>1, <3>2, <4>1 DEF i
      <3> QED BY <1>0, <2>1, <3>2, <3>4, <3>5 DEF ExportInv, Writing
    <2>4. \/ export' = NoExport
          \/ i <= Len(export.rows)
             /\ \E s \in Holding(i) : export' = [export EXCEPT !.got = Append(@, Row(s, i))]
      BY <1>15 DEF ExportRow
    <2> QED BY <2>2, <2>3, <2>4
  <1>16. CASE UNCHANGED vars
    BY <1>16 DEF vars, ExportInv
  <1> QED
    BY <1>1, <1>2, <1>3, <1>4, <1>5, <1>6, <1>7, <1>8, <1>9, <1>10, <1>11,
       <1>12, <1>13, <1>14, <1>15, <1>16
    DEF Next, Write

\* What the two writes before the magic word, and that of the magic word, leave.
LEMMA BlankWrites ==
    ASSUME TypeInv, SlotsInv
    PROVE  WriteData \/ WriteHeader => flash' = flash \/ flash'[writer.slot].magic = FALSE
  <1>1. /\ writer.slot \in Slots /\ flash[writer.slot] \in SlotType
        /\ WriteData \/ WriteHeader => flash[writer.slot].magic = FALSE
    BY BlankSlot, WriterMoves DEF TypeInv, WriteData, WriteHeader
  <1>2. CASE WriteData
    <2>1. flash' # flash => flash'[writer.slot] = [flash[writer.slot] EXCEPT !.data = points]
      BY <1>1, <1>2 DEF WriteData, TypeInv
    <2> QED BY <1>1, <1>2, <2>1 DEF SlotType
  <1>3. CASE WriteHeader
    <2>1. flash' # flash => flash'[writer.slot] = [flash[writer.slot] EXCEPT !.header = Pending]
      BY <1>1, <1>3 DEF WriteHeader, TypeInv
    <2> QED BY <1>1, <1>3, <2>1 DEF SlotType
  <1> QED BY <1>2, <1>3

\* The magic word makes the slot the pour that ended last, whole; a write that failed changes nothing.
LEMMA MagicWrites ==
    ASSUME TypeInv, PointsInv, SlotsInv, WriteMagic
    PROVE  \/ flash' = flash /\ writer'.pc = "unlock"
           \/ /\ writer'.pc = "commit" /\ flash'[writer.slot].magic
              /\ flash'[writer.slot].header.id = writer.id
              /\ flash'[writer.slot].data[1].pour = Len(hist.ended)
              /\ flash'[writer.slot].header.rows = flash'[writer.slot].data
  <1>1. CASE Failed /\ UNCHANGED flash
    BY <1>1 DEF Failed, TypeInv, WriterType
  <1>2. CASE Goto("commit") /\ flash' = [flash EXCEPT ![writer.slot].magic = TRUE]
    <2>1. flash[writer.slot] = [magic |-> FALSE, header |-> Pending, data |-> points]
      BY DEF WriteMagic, SlotsInv
    <2>2. writer'.pc = "commit" /\ flash'[writer.slot] = [flash[writer.slot] EXCEPT !.magic = TRUE]
      BY <1>2, WriterMoves DEF Goto, TypeInv, WriterType
    <2>3. flash'[writer.slot] =
            [[magic |-> FALSE, header |-> Pending, data |-> points] EXCEPT !.magic = TRUE]
      BY <2>1, <2>2
    <2>4. saving
      BY DEF WriteMagic, PointsInv
    <2>5. Pending.id = writer.id /\ Pending.rows = points /\ points[1].pour = Len(hist.ended)
      BY <2>4, SavedPour DEF Pending
    <2> QED BY <2>2, <2>3, <2>5
  <1> QED BY <1>1, <1>2 DEF WriteMagic

\* The pour that a slot, or a header, holds.
LEMMA SlotPour ==
    ASSUME TypeInv, PointsInv, SlotsInv, RamInv, NEW s \in Slots
    PROVE  /\ flash[s].magic => flash[s].data[1].pour \in DOMAIN hist.ended
           /\ headers[s].id > 0 => headers[s].rows[1].pour \in DOMAIN hist.ended
           /\ headers[s].id > 0 /\ flash[s].magic => headers[s].rows[1].pour = flash[s].data[1].pour
           /\ DOMAIN hist.ended = 1 .. Len(hist.ended) /\ Len(hist.ended) \in Nat
           /\ headers[s].id \in Nat /\ flash[s].header.id \in Nat
  <1>1. hist.ended \in Seq(Seq(Rows))
    BY DEF TypeInv, HistType
  <1>2. ASSUME NEW p \in DOMAIN hist.ended
        PROVE  hist.ended[p][1].pour = p
    <2>1. hist.ended[p] \in Seq(Rows) /\ hist.ended[p] # <<>>
      BY <1>1, <1>2, ElementOfSeq DEF PointsInv
    <2>2. 1 \in DOMAIN hist.ended[p]
      BY <2>1, EmptySeq
    <2> QED BY <1>2, <2>2 DEF PointsInv
  <1>3. flash[s].magic => flash[s].data[1].pour \in DOMAIN hist.ended
    BY <1>2 DEF SlotsInv
  <1>4. headers[s].id > 0 => headers[s].rows[1].pour \in DOMAIN hist.ended
    <2> SUFFICES ASSUME headers[s].id > 0 PROVE headers[s].rows[1].pour \in DOMAIN hist.ended
      OBVIOUS
    <2>1. PICK p \in DOMAIN hist.ended : headers[s].rows = hist.ended[p]
      BY DEF RamInv
    <2> QED BY <1>2, <2>1
  <1>5. headers[s].id > 0 /\ flash[s].magic => headers[s].rows[1].pour = flash[s].data[1].pour
    <2> SUFFICES ASSUME headers[s].id > 0, flash[s].magic
                 PROVE  flash[s].data = headers[s].rows
      OBVIOUS
    <2>1. flash[s] # Erased
      BY DEF Erased
    <2>2. flash[s] = [magic |-> TRUE, header |-> headers[s], data |-> headers[s].rows]
      BY <2>1 DEF RamInv
    <2> QED BY <2>2
  <1>6. DOMAIN hist.ended = 1 .. Len(hist.ended) /\ Len(hist.ended) \in Nat
    BY <1>1
  <1>7. headers[s].id \in Nat /\ flash[s].header.id \in Nat
    BY DEF TypeInv, SlotType, HeaderType
  <1> QED BY <1>3, <1>4, <1>5, <1>6, <1>7

\* OrderInv holds at the first boot.
LEMMA OrderInit == Init => OrderInv
  BY DEF Init, OrderInv, Erased, NoHeader, Idle

\* Every step keeps OrderInv: the pour that is saved is later than all that are kept.
LEMMA OrderStep ==
    TypeInv /\ PointsInv /\ SlotsInv /\ RamInv /\ IdsInv /\ OrderInv
      /\ [Next]_vars => OrderInv'
  <1> SUFFICES ASSUME TypeInv, PointsInv, SlotsInv, RamInv, IdsInv, OrderInv, [Next]_vars
               PROVE  OrderInv'
    OBVIOUS
  <1> SUFFICES ASSUME ~hist'.blind PROVE OrderInv'
    BY DEF OrderInv
  <1>0. ~hist.blind
    BY HistMoves
  <1>1. CASE BeginPour
    BY <1>1, <1>0 DEF BeginPour, OrderInv
  <1>2. CASE SampleDue
    BY <1>2, <1>0 DEF SampleDue, OrderInv
  <1>3. CASE EndPour
    <2>1. Len(hist'.ended) = Len(hist.ended) + 1
      BY <1>3 DEF EndPour, TypeInv, HistType
    <2>2. \A s \in Slots :
            /\ flash[s].magic => flash[s].data[1].pour < Len(hist'.ended)
            /\ headers[s].id > 0 => headers[s].rows[1].pour < Len(hist'.ended)
      BY <2>1, SlotPour
    <2>3. writer.pc = "wait"
      BY <1>3 DEF EndPour, PointsInv
    <2> QED BY <1>3, <1>0, <2>2, <2>3 DEF EndPour, OrderInv
  <1>4. CASE TakeNotice
    <2>1. /\ writer'.pc = "erase" /\ writer'.slot = Oldest
          /\ \A s \in Slots : headers[Oldest].id <= headers[s].id
      BY <1>4, OldestSlot DEF TakeNotice
    <2> QED BY <1>4, <1>0, <2>1 DEF TakeNotice, OrderInv
  <1>5. CASE EraseBegin
    <2>1. /\ headers' = headers /\ saving' = saving /\ hist' = hist
          /\ writer.pc = "erase" /\ flash'[writer.slot].magic = FALSE
      BY <1>5, FlashMoves DEF EraseBegin, RamAlone, Erased
    <2> QED BY <1>5, <1>0, <2>1, WriterMoves, FlashMoves DEF OrderInv
  <1>6. CASE EraseEnd
    <2>1. flash' = flash /\ saving' = saving /\ NoHeader.id = 0 /\ writer.pc = "erased"
      BY <1>6 DEF EraseEnd, RamAlone, NoHeader
    <2>2. \A s \in Slots : headers'[s] = headers[s] \/ headers'[s].id = 0
      BY <1>6, <2>1, FlashMoves
    <2>3. hist'.ended = hist.ended
      BY <1>6 DEF EraseEnd, TypeInv, HistType
    <2>4. writer'.pc # "erase" /\ writer.pc # "commit"
      BY <1>6, <2>1, WriterMoves
    <2> QED BY <1>0, <2>1, <2>2, <2>3, <2>4 DEF OrderInv
  <1>7. CASE WriteData
    <2>1. /\ headers' = headers /\ saving' = saving /\ hist' = hist /\ writer.pc = "data"
          /\ writer'.pc \notin {"erase", "commit"}
      BY <1>7, WriterMoves DEF WriteData, RamAlone
    <2>2. \A s \in Slots : flash'[s] = flash[s] \/ flash'[s].magic = FALSE
      BY <1>7, BlankWrites, FlashMoves
    <2> QED BY <1>0, <2>1, <2>2 DEF OrderInv
  <1>8. CASE WriteHeader
    <2>1. /\ headers' = headers /\ saving' = saving /\ hist' = hist /\ writer.pc = "header"
          /\ writer'.pc \notin {"erase", "commit"}
      BY <1>8, WriterMoves DEF WriteHeader, RamAlone
    <2>2. \A s \in Slots : flash'[s] = flash[s] \/ flash'[s].magic = FALSE
      BY <1>8, BlankWrites, FlashMoves
    <2> QED BY <1>0, <2>1, <2>2 DEF OrderInv
  <1>9. CASE WriteMagic
    <2>1. /\ headers' = headers /\ saving' = saving /\ hist' = hist /\ writer.pc = "magic"
          /\ saving /\ writer'.slot = writer.slot
          /\ \A s \in Slots : s # writer.slot => flash'[s] = flash[s]
      BY <1>9, WriterMoves, FlashMoves DEF WriteMagic, RamAlone, PointsInv
    <2>2. /\ \A s \in Slots : flash[s].magic => flash[s].header.id < writer.id
          /\ \A s \in Slots : flash[s].magic => flash[s].data[1].pour < Len(hist.ended)
          /\ \A s \in Slots : headers[s].id > 0 => headers[s].rows[1].pour < Len(hist.ended)
      BY <1>0, <2>1 DEF IdsInv, OrderInv, Writing
    <2>3. CASE flash' = flash /\ writer'.pc = "unlock"
      BY <1>0, <2>1, <2>3 DEF OrderInv
    <2>4. CASE writer'.pc = "commit" /\ flash'[writer.slot].header.id = writer.id
               /\ flash'[writer.slot].data[1].pour = Len(hist.ended)
      <3>1. ASSUME NEW s \in Slots, NEW t \in Slots, flash'[s].magic, flash'[t].magic,
                   flash'[s].header.id < flash'[t].header.id
            PROVE  flash'[s].data[1].pour < flash'[t].data[1].pour
        <4>1. CASE s = writer.slot
          <5>1. t # s
            BY <3>1, <4>1, <2>4, WriterMoves
          <5>2. flash[t].magic /\ flash[t].header.id < writer.id /\ writer.id < flash[t].header.id
            BY <2>1, <2>2, <2>4, <3>1, <4>1, <5>1
          <5> QED BY <5>2, SlotPour, WriterMoves
        <4>2. CASE s # writer.slot /\ t = writer.slot
          BY <2>1, <2>2, <2>4, <3>1, <4>2
        <4>3. CASE s # writer.slot /\ t # writer.slot
          BY <1>0, <2>1, <3>1, <4>3 DEF OrderInv
        <4> QED BY <4>1, <4>2, <4>3
      <3>2. \A s \in Slots : flash'[s].magic => flash'[s].data[1].pour < Len(hist.ended)
                                                \/ s = writer.slot
        BY <2>1, <2>2
      <3> QED BY <1>0, <2>1, <2>2, <2>4, <3>1, <3>2 DEF OrderInv
    <2> QED BY <1>9, <2>3, <2>4, MagicWrites
  <1>10. CASE Commit
    <2>1. /\ flash' = flash /\ writer.pc = "commit" /\ writer'.pc = "unlock" /\ saving
      BY <1>10, WriterMoves DEF Commit, RamAlone, PointsInv
    <2>2. /\ \A s \in Slots : headers[s].id < writer.id /\ headers[s].id \in Nat
          /\ \A s \in Slots : headers[s].id > 0 => headers[s].rows[1].pour < Len(hist.ended)
          /\ writer.id \in Nat
      BY <1>0, <2>1, WriterMoves, SlotPour DEF IdsInv, OrderInv, Writing
    <2>3. \/ headers' = headers
          \/ /\ headers'[writer.slot].id = writer.id
             /\ headers'[writer.slot].rows[1].pour = Len(hist.ended)
             /\ \A s \in Slots : s # writer.slot => headers'[s] = headers[s]
      BY <1>10, <2>1, FlashMoves, SavedPour DEF Pending
    <2>4. \A s, t \in Slots : headers'[s].id > 0 /\ headers'[t].id > 0 =>
            (headers'[s].id < headers'[t].id => headers'[s].rows[1].pour < headers'[t].rows[1].pour)
      <3>1. CASE headers' = headers
        BY <1>0, <3>1 DEF OrderInv
      <3>2. CASE headers' # headers
        <4> TAKE s, t \in Slots
        <4> HAVE headers'[s].id > 0 /\ headers'[t].id > 0
        <4> HAVE headers'[s].id < headers'[t].id
        <4>1. s # writer.slot
          BY <2>2, <2>3, <3>2
        <4>2. CASE t = writer.slot
          BY <2>2, <2>3, <3>2, <4>1, <4>2
        <4>3. CASE t # writer.slot
          BY <1>0, <2>3, <3>2, <4>1, <4>3 DEF OrderInv
        <4> QED BY <4>2, <4>3
      <3> QED BY <3>1, <3>2
    <2> QED BY <1>0, <2>1, <2>4 DEF OrderInv
  <1>11. CASE Unlock
    <2>1. writer'.pc = "clear"
      BY <1>11, WriterMoves
    <2> QED BY <1>11, <1>0, <2>1 DEF Unlock, RamAlone, OrderInv
  <1>12. CASE ClearSaving
    BY <1>12, <1>0 DEF ClearSaving, Idle, OrderInv
  <1>13. CASE Restart
    <2>1. writer'.pc = "wait" /\ flash' = flash /\ saving' = FALSE
      BY <1>13, RestartLoads DEF Idle
    <2>2. ASSUME NEW s \in Slots, headers'[s].id > 0
          PROVE  flash[s].magic /\ flash[s].header = headers'[s] /\ flash[s].data = headers'[s].rows
      <3>1. flash[s] = [magic |-> TRUE, header |-> headers'[s], data |-> headers'[s].rows]
        BY <1>13, <2>2, RestartLoads
      <3> QED BY <3>1
    <2>3. \A s, t \in Slots : headers'[s].id > 0 /\ headers'[t].id > 0 =>
            (headers'[s].id < headers'[t].id => headers'[s].rows[1].pour < headers'[t].rows[1].pour)
      <3> TAKE s, t \in Slots
      <3> HAVE headers'[s].id > 0 /\ headers'[t].id > 0
      <3>1. flash[s].magic /\ flash[s].header = headers'[s] /\ flash[s].data = headers'[s].rows
        BY <2>2
      <3>2. flash[t].magic /\ flash[t].header = headers'[t] /\ flash[t].data = headers'[t].rows
        BY <2>2
      <3>3. flash[s].header.id < flash[t].header.id => flash[s].data[1].pour < flash[t].data[1].pour
        BY <1>0, <3>1, <3>2 DEF OrderInv
      <3> QED BY <3>1, <3>2, <3>3
    <2> QED BY <1>0, <2>1, <2>3 DEF OrderInv
  <1>14. CASE ExportBegin
    BY <1>14, <1>0 DEF ExportBegin, OrderInv
  <1>15. CASE ExportRow
    BY <1>15, <1>0 DEF ExportRow, OrderInv
  <1>16. CASE UNCHANGED vars
    BY <1>16 DEF vars, OrderInv
  <1> QED
    BY <1>1, <1>2, <1>3, <1>4, <1>5, <1>6, <1>7, <1>8, <1>9, <1>10, <1>11,
       <1>12, <1>13, <1>14, <1>15, <1>16
    DEF Next, Write

\* SavedInv holds at the first boot.
LEMMA SavedInit == Init => SavedInv
  BY DEF Init, SavedInv, Erased, NoHeader, Idle

\* Every step keeps SavedInv.
LEMMA SavedStep ==
    TypeInv /\ PointsInv /\ SlotsInv /\ RamInv /\ IdsInv /\ OrderInv /\ SavedInv
      /\ [Next]_vars => SavedInv'
  <1> SUFFICES ASSUME TypeInv, PointsInv, SlotsInv, RamInv, IdsInv, OrderInv, SavedInv, [Next]_vars
               PROVE  SavedInv'
    OBVIOUS
  <1>0. \A p \in DOMAIN hist.ended : p \in DOMAIN hist'.ended /\ hist'.ended[p] = hist.ended[p]
    BY EndedGrows
  <1>1. CASE BeginPour
    <2>1. hist'.saved = hist.saved /\ hist'.ended = hist.ended /\ hist'.blind = hist.blind
      BY <1>1 DEF BeginPour, TypeInv, HistType
    <2> QED BY <1>1, <2>1 DEF BeginPour, SavedInv
  <1>2. CASE SampleDue
    <2>1. hist'.saved = hist.saved /\ hist'.ended = hist.ended /\ hist'.blind = hist.blind
      BY <1>2 DEF SampleDue, TypeInv, HistType
    <2> QED BY <1>2, <2>1 DEF SampleDue, SavedInv
  <1>3. CASE EndPour
    <2>1. /\ hist'.saved = hist.saved /\ hist'.blind = hist.blind
          /\ Len(hist'.ended) = Len(hist.ended) + 1
          /\ DOMAIN hist.ended \subseteq DOMAIN hist'.ended
          /\ DOMAIN hist.ended = 1 .. Len(hist.ended) /\ Len(hist.ended) \in Nat
      BY <1>3, <1>0 DEF EndPour, TypeInv, HistType
    <2> QED BY <1>3, <2>1 DEF EndPour, SavedInv
  <1>4. CASE TakeNotice
    BY <1>4 DEF TakeNotice, SavedInv
  <1>5. CASE EraseBegin
    <2>1. /\ headers' = headers /\ saving' = saving /\ hist' = hist /\ available' = available
          /\ writer.pc \notin {"unlock", "clear"}
      BY <1>5 DEF EraseBegin, RamAlone
    <2>2. \A s \in Slots : flash'[s] = flash[s] \/ flash'[s].magic = FALSE
      BY <1>5, FlashMoves DEF Erased
    <2> QED BY <2>1, <2>2 DEF SavedInv
  <1>6. CASE EraseEnd
    <2>1. /\ flash' = flash /\ saving' = saving /\ available' = available
          /\ writer.pc = "erased" /\ NoHeader.id = 0
      BY <1>6 DEF EraseEnd, RamAlone, NoHeader
    <2>2. \A s \in Slots : headers'[s] = headers[s] \/ (headers'[s].id = 0 /\ ~flash[s].magic)
      BY <1>6, <2>1, FlashMoves, BlankSlot
    <2>3. hist'.ended = hist.ended /\ hist'.saved = hist.saved /\ hist'.blind = hist.blind
      BY <1>6 DEF EraseEnd, TypeInv, HistType
    <2> QED BY <2>1, <2>2, <2>3 DEF SavedInv
  <1>7. CASE WriteData
    <2>1. /\ headers' = headers /\ saving' = saving /\ hist' = hist /\ available' = available
          /\ writer.pc \notin {"unlock", "clear"}
      BY <1>7 DEF WriteData, RamAlone
    <2>2. \A s \in Slots : flash'[s] = flash[s] \/ flash'[s].magic = FALSE
      BY <1>7, BlankWrites, FlashMoves DEF Erased
    <2> QED BY <2>1, <2>2 DEF SavedInv
  <1>8. CASE WriteHeader
    <2>1. /\ headers' = headers /\ saving' = saving /\ hist' = hist /\ available' = available
          /\ writer.pc \notin {"unlock", "clear"}
      BY <1>8 DEF WriteHeader, RamAlone
    <2>2. \A s \in Slots : flash'[s] = flash[s] \/ flash'[s].magic = FALSE
      BY <1>8, BlankWrites, FlashMoves DEF Erased
    <2> QED BY <2>1, <2>2 DEF SavedInv
  <1>9. CASE WriteMagic
    <2>1. /\ headers' = headers /\ saving' = saving /\ hist' = hist /\ available' = available
          /\ writer.pc = "magic" /\ saving
          /\ \A s \in Slots : s # writer.slot => flash'[s] = flash[s]
      BY <1>9, FlashMoves DEF WriteMagic, RamAlone, PointsInv
    <2>2. Len(hist.ended) \notin hist.saved
      BY <2>1 DEF SavedInv
    <2>3. \A s \in Slots : flash'[s] = flash[s] \/ flash'[s].data[1].pour \notin hist.saved
      BY <1>9, <2>1, <2>2, MagicWrites
    <2>4. writer.slot \in Slots /\ headers[writer.slot].id = 0
      BY <2>1, WriterMoves DEF RamInv, NoHeader
    <2> QED BY <2>1, <2>2, <2>3, <2>4 DEF SavedInv
  <1>10. CASE Commit
    <2>1. /\ flash' = flash /\ writer.pc = "commit" /\ writer'.pc = "unlock" /\ saving
          /\ available' = available
      BY <1>10, WriterMoves DEF Commit, RamAlone, PointsInv
    <2>2. hist'.ended = hist.ended /\ hist'.blind = hist.blind
      BY <1>10 DEF Commit, TypeInv, HistType
    <2>3. CASE headers' = headers /\ hist' = hist
      BY <2>1, <2>3 DEF SavedInv
    <2>4. CASE /\ headers' = [headers EXCEPT ![writer.slot] = Pending]
               /\ hist'.saved = hist.saved \cup {Len(hist.ended)}
      <3>1. /\ headers'[writer.slot].rows[1].pour = Len(hist.ended)
            /\ headers'[writer.slot].id = writer.id /\ writer.id > 0
            /\ \A s \in Slots : s # writer.slot => headers'[s] = headers[s]
        BY <2>1, <2>4, SavedPour, WriterMoves DEF Pending, TypeInv, SlotsInv
      <3>2. hist'.saved \subseteq DOMAIN hist'.ended
        BY <2>1, <2>2, <2>4, SavedPour DEF SavedInv
      <3>3. ASSUME ~hist.blind, NEW s \in Slots
            PROVE  /\ headers'[s].id > 0 => headers'[s].rows[1].pour \in hist'.saved
                   /\ available /\ flash[s].magic /\ headers'[s].id = 0
                        => flash[s].data[1].pour \notin hist'.saved
        <4>1. CASE s = writer.slot
          BY <2>4, <3>1, <4>1, WriterMoves
        <4>2. CASE s # writer.slot
          <5>1. flash[s].magic => flash[s].data[1].pour # Len(hist.ended)
            BY <2>1, <3>3, <4>2, SlotPour DEF OrderInv
          <5> QED BY <2>4, <3>1, <3>3, <4>2, <5>1 DEF SavedInv
        <4> QED BY <4>1, <4>2
      <3> QED BY <2>1, <2>2, <3>2, <3>3 DEF SavedInv
    <2>5. \/ headers' = headers /\ hist' = hist
          \/ /\ headers' = [headers EXCEPT ![writer.slot] = Pending]
             /\ hist'.saved = hist.saved \cup {Len(hist.ended)}
      BY <1>10 DEF Commit, TypeInv, HistType
    <2> QED BY <2>3, <2>4, <2>5
  <1>11. CASE Unlock
    <2>1. writer'.pc = "clear"
      BY <1>11, WriterMoves
    <2> QED BY <1>11, <2>1 DEF Unlock, RamAlone, SavedInv
  <1>12. CASE ClearSaving
    BY <1>12 DEF ClearSaving, Idle, SavedInv
  <1>13. CASE Restart
    <2> DEFINE found == {headers'[s].rows[1].pour : s \in {t \in Slots : headers'[t].id > 0}}
    <2>1. /\ flash' = flash /\ saving' = FALSE /\ hist'.ended = hist.ended
          /\ hist'.saved = hist.saved \cup found
      BY <1>13, RestartLoads
    <2>2. found \subseteq DOMAIN hist.ended
      <3>1. \A s \in Slots : headers'[s].id > 0 => headers'[s].rows[1].pour \in DOMAIN hist.ended
        BY <1>13, RestartLoads
      <3> QED BY <3>1
    <2>3. \A s \in Slots : headers'[s].id > 0 => headers'[s].rows[1].pour \in hist'.saved
      BY <2>1
    <2>4. ASSUME ~hist'.blind, available', NEW s \in Slots, flash[s].magic
          PROVE  headers'[s].id # 0
      <3>1. headers'[s] = flash[s].header /\ flash[s].header.id > 0
        BY <1>13, <2>4, RestartLoads DEF SlotsInv
      <3> QED BY <3>1
    <2> HIDE DEF found
    <2> QED BY <2>1, <2>2, <2>3, <2>4 DEF SavedInv
  <1>14. CASE ExportBegin
    BY <1>14 DEF ExportBegin, SavedInv
  <1>15. CASE ExportRow
    BY <1>15 DEF ExportRow, SavedInv
  <1>16. CASE UNCHANGED vars
    BY <1>16 DEF vars, SavedInv
  <1> QED
    BY <1>1, <1>2, <1>3, <1>4, <1>5, <1>6, <1>7, <1>8, <1>9, <1>10, <1>11,
       <1>12, <1>13, <1>14, <1>15, <1>16
    DEF Next, Write

\* Pours saved later only push pours out of the newest ones.
LEMMA NewestShrinks ==
    ASSUME NEW S \in SUBSET Nat, NEW T \in SUBSET Nat, S \subseteq T, IsFiniteSet(T),
           NEW p \in S, p \in Newest(T)
    PROVE  p \in Newest(S)
  <1>1. {q \in S : q > p} \in SUBSET {q \in T : q > p} /\ IsFiniteSet({q \in T : q > p})
    BY FS_Subset
  <1>2. /\ Cardinality({q \in S : q > p}) <= Cardinality({q \in T : q > p})
        /\ Cardinality({q \in S : q > p}) \in Nat /\ Cardinality({q \in T : q > p}) \in Nat
    BY <1>1, FS_Subset, FS_CardinalityType
  <1>3. Cardinality({q \in T : q > p}) < SlotCount - 1
    BY DEF Newest
  <1>4. Cardinality({q \in S : q > p}) < SlotCount - 1
    BY <1>2, <1>3, HistoryAssumption
  <1> QED BY <1>4 DEF Newest

\* The saved pours are finitely many numbers.
LEMMA SavedFinite ==
    ASSUME TypeInv, SavedInv
    PROVE  hist.saved \in SUBSET Nat /\ IsFiniteSet(hist.saved)
  <1>1. DOMAIN hist.ended = 1 .. Len(hist.ended) /\ Len(hist.ended) \in Nat
    BY DEF TypeInv, HistType
  <1>2. IsFiniteSet(1 .. Len(hist.ended))
    BY <1>1, FS_Interval
  <1> QED BY <1>1, <1>2, FS_Subset DEF SavedInv

\* The slot to be erased holds none of the newest pours: every other slot then
\* lists a later one.
LEMMA ErasedIsOld ==
    ASSUME TypeInv, PointsInv, SlotsInv, RamInv, IdsInv, OrderInv, SavedInv, ~hist.blind,
           writer.pc = "erase", flash[writer.slot].magic
    PROVE  flash[writer.slot].data[1].pour \notin Newest(hist.saved)
  <1> DEFINE o == writer.slot
             p == flash[o].data[1].pour
             Later == {q \in hist.saved : q > p}
             Others == Slots \ {o}
             f == [s \in Others |-> headers[s].rows[1].pour]
  <1>1. o \in Slots /\ available /\ p \in Nat
    BY WriterMoves, SlotPour DEF PointsInv
  <1>2. CASE headers[o].id = 0
    BY <1>1, <1>2 DEF SavedInv, Newest
  <1>3. CASE headers[o].id # 0
    <2>1. headers[o].id > 0 /\ headers[o].rows[1].pour = p
      BY <1>1, <1>3, SlotPour
    <2>2. ASSUME NEW s \in Others
          PROVE  /\ headers[s].id > 0 /\ headers[s].id # headers[o].id
                 /\ headers[s].rows[1].pour \in Later
      <3>1. headers[s].id > 0 /\ headers[o].id < headers[s].id
        BY <1>1, <2>1, SlotPour DEF OrderInv, IdsInv
      <3>2. p < headers[s].rows[1].pour
        BY <1>1, <2>1, <3>1 DEF OrderInv
      <3>3. headers[s].rows[1].pour \in hist.saved
        BY <3>1 DEF SavedInv
      <3>4. headers[s].rows[1].pour \in Nat
        BY <3>1, SlotPour
      <3> QED BY <1>1, <3>1, <3>2, <3>3, <3>4, SlotPour
    <2>3. ASSUME NEW s \in Others, NEW t \in Others, s # t
          PROVE  headers[s].rows[1].pour # headers[t].rows[1].pour
      <3>1. /\ headers[s].id > 0 /\ headers[t].id > 0 /\ headers[s].id # headers[t].id
            /\ headers[s].id \in Nat /\ headers[t].id \in Nat
            /\ headers[s].rows[1].pour \in Nat /\ headers[t].rows[1].pour \in Nat
        BY <2>2, <2>3, SlotPour DEF IdsInv
      <3>2. headers[s].id < headers[t].id \/ headers[t].id < headers[s].id
        BY <3>1
      <3> QED BY <3>1, <3>2 DEF OrderInv
    <2>4. IsFiniteSet(Later)
      BY SavedFinite, FS_Subset
    <2>5. IsFiniteSet(Others) /\ Cardinality(Others) = SlotCount - 1
      <3>1. IsFiniteSet(Slots) /\ Cardinality(Slots) = SlotCount
        BY HistoryAssumption, FS_Interval DEF Slots
      <3> QED BY <1>1, <3>1, FS_RemoveElement
    <2>6. f \in Injection(Others, Later)
      BY <2>2, <2>3 DEF Injection, IsInjective
    <2>7. Cardinality(Others) <= Cardinality(Later) /\ Cardinality(Later) \in Nat
      <3> HIDE DEF Others, Later, f
      <3> QED BY <2>4, <2>6, FS_Injection, FS_CardinalityType
    <2>8. ~(Cardinality(Later) < SlotCount - 1)
      BY <2>5, <2>7, HistoryAssumption
    <2> QED BY <2>8 DEF Newest
  <1> QED BY <1>2, <1>3

\* Every step keeps Retained: only an erase takes a pour away, and it takes an old one.
LEMMA RetainedStep ==
    ASSUME TypeInv, PointsInv, SlotsInv, RamInv, IdsInv, OrderInv, SavedInv, Retained, [Next]_vars
    PROVE  Retained'
  <1>1. SlotsInv' /\ SavedInv' /\ TypeInv'
    BY SlotsStep, SavedStep, TypeStep
  <1>2. SUFFICES ASSUME ~hist'.blind, NEW p \in Newest(hist'.saved)
                 PROVE  \E s \in Slots : flash'[s].magic /\ flash'[s].data[1].pour = p
    BY <1>1 DEF Retained, Newest, Valid, SlotsInv
  <1>3. ~hist.blind
    BY <1>2, HistMoves
  <1>4. ASSUME NEW s \in Slots, flash[s].magic, EraseBegin => s # writer.slot
        PROVE  flash'[s].magic /\ flash'[s].data = flash[s].data
    <2>1. CASE flash' = flash
      BY <1>4, <2>1
    <2>2. CASE EraseBegin
      BY <1>4, <2>2, FlashMoves
    <2>3. CASE WriteData \/ WriteHeader \/ WriteMagic
      <3>1. s # writer.slot
        BY <1>4, <2>3, BlankSlot DEF WriteData, WriteHeader, WriteMagic
      <3> QED BY <1>4, <2>3, <3>1, FlashMoves
    <2>4. flash' # flash => EraseBegin \/ WriteData \/ WriteHeader \/ WriteMagic
      BY DEF Next, Write, BeginPour, SampleDue, EndPour, TakeNotice, EraseEnd, Commit, Unlock,
             ClearSaving, Restart, ExportBegin, ExportRow, vars
    <2> QED BY <2>1, <2>2, <2>3, <2>4
  <1>5. CASE p \in hist.saved
    <2>1. hist.saved \subseteq hist'.saved
      <3>1. CASE Commit
        BY <3>1 DEF Commit, TypeInv, HistType
      <3>2. CASE Restart
        BY <3>2, RestartLoads
      <3> QED BY <3>1, <3>2, HistMoves
    <2>2. p \in Newest(hist.saved)
      <3> DEFINE old == hist.saved
                 new == hist'.saved
      <3>1. old \in SUBSET Nat
        BY SavedFinite
      <3>2. DOMAIN hist'.ended = 1 .. Len(hist'.ended) /\ Len(hist'.ended) \in Nat
        BY <1>1 DEF TypeInv, HistType
      <3>3. IsFiniteSet(1 .. Len(hist'.ended))
        BY <3>2, FS_Interval
      <3>4. new \subseteq DOMAIN hist'.ended
        BY <1>1, <1>2 DEF SavedInv
      <3>5. new \in SUBSET Nat /\ IsFiniteSet(new)
        BY <3>2, <3>3, <3>4, FS_Subset
      <3>6. old \subseteq new /\ p \in old /\ p \in Newest(new)
        BY <1>2, <1>5, <2>1
      <3> HIDE DEF old, new
      <3>7. p \in Newest(old)
        BY <3>1, <3>5, <3>6, NewestShrinks
      <3> QED BY <3>7 DEF old
    <2>3. PICK s \in Slots : Valid(flash[s]) /\ flash[s].data[1].pour = p
      BY <1>3, <2>2 DEF Retained
    <2>4. flash[s].magic
      BY <2>3 DEF Valid
    <2>5. EraseBegin => s # writer.slot
      BY <1>3, <2>2, <2>3, <2>4, ErasedIsOld DEF EraseBegin
    <2> QED BY <1>4, <2>3, <2>4, <2>5
  <1>6. CASE p \notin hist.saved
    <2>1. p \in hist'.saved
      BY <1>2 DEF Newest
    <2>2. CASE Commit
      <3>1. p = Len(hist.ended) /\ saving /\ flash' = flash /\ writer.pc = "commit"
        BY <1>6, <2>1, <2>2 DEF Commit, PointsInv, TypeInv, HistType
      <3>2. flash[writer.slot].magic /\ flash[writer.slot].data[1].pour = p
        BY <3>1, SavedPour DEF SlotsInv
      <3> QED BY <3>1, <3>2, WriterMoves
    <2>3. CASE Restart
      <3>1. PICK s \in Slots : headers'[s].id > 0 /\ headers'[s].rows[1].pour = p
        BY <1>6, <2>1, <2>3, RestartLoads
      <3>2. flash[s] = [magic |-> TRUE, header |-> headers'[s], data |-> headers'[s].rows]
        BY <2>3, <3>1, RestartLoads
      <3>3. flash' = flash
        BY <2>3, RestartLoads
      <3> QED BY <3>1, <3>2, <3>3
    <2> QED BY <1>6, <2>1, <2>2, <2>3, HistMoves
  <1> QED BY <1>5, <1>6

\* A finite set of naturals with enough members has enough newest ones: a smallest
\* counterexample loses its least member and stays one.
LEMMA EnoughNewest ==
    ASSUME NEW S \in SUBSET Nat, IsFiniteSet(S), Cardinality(S) >= SlotCount - 1
    PROVE  Cardinality(Newest(S)) >= SlotCount - 1
  <1> DEFINE K == SlotCount - 1
             Bad(R) == R \in SUBSET Nat /\ IsFiniteSet(R) /\ Cardinality(R) >= K
                       /\ ~(Cardinality(Newest(R)) >= K)
             Sizes == {n \in Nat : \E R \in SUBSET Nat : Bad(R) /\ Cardinality(R) = n}
  <1>1. K \in Nat \ {0}
    BY HistoryAssumption
  <1> SUFFICES ASSUME Bad(S) PROVE FALSE
    OBVIOUS
  <1>2. Sizes \in SUBSET Nat /\ Cardinality(S) \in Sizes
    BY FS_CardinalityType
  <1>3. PICK n \in Sizes : \A m \in Sizes : n <= m
    <2> HIDE DEF Sizes
    <2> QED BY <1>2, LeastNatural
  <1>4. PICK R \in SUBSET Nat : Bad(R) /\ Cardinality(R) = n
    OBVIOUS
  <1>5. n \in Nat /\ IsFiniteSet(R) /\ n >= K
    BY <1>4
  <1>6. \A p \in R : /\ IsFiniteSet({q \in R : q > p})
                     /\ Cardinality({q \in R : q > p}) \in Nat
                     /\ Cardinality({q \in R : q > p}) <= n - 1
    <2> TAKE p \in R
    <2>1. {q \in R : q > p} \in SUBSET (R \ {p})
      BY <1>4
    <2>2. IsFiniteSet(R \ {p}) /\ Cardinality(R \ {p}) = n - 1
      BY <1>4, <1>5, FS_RemoveElement
    <2> QED BY <2>1, <2>2, FS_Subset, FS_CardinalityType
  <1>7. CASE n = K
    <2>1. Newest(R) = R
      <3>1. \A p \in R : Cardinality({q \in R : q > p}) < SlotCount - 1
        BY <1>1, <1>5, <1>6, <1>7, HistoryAssumption
      <3> QED BY <3>1 DEF Newest
    <2> QED BY <1>4, <1>7, <2>1
  <1>8. CASE n # K
    <2>1. R # {}
      <3>1. Cardinality(R) # 0
        <4>1. n # 0
          <5> HIDE DEF Bad, Sizes, K
          <5> QED BY <1>1, <1>5
        <4>2. Cardinality(R) = n
          BY <1>4
        <4> QED BY <4>1, <4>2
      <3> HIDE DEF Bad, Sizes
      <3> QED BY <3>1, FS_EmptySet
    <2>2. PICK m \in R : \A q \in R : m <= q
      BY <2>1, LeastNatural
    <2>3. /\ IsFiniteSet(R \ {m}) /\ Cardinality(R \ {m}) = n - 1 /\ n - 1 \in Nat
          /\ n - 1 >= K
      <3>1. n - 1 \in Nat /\ n - 1 >= K
        BY <1>1, <1>5, <1>8
      <3>2. IsFiniteSet(R) /\ Cardinality(R) = n /\ m \in R
        BY <1>4, <2>2
      <3>3. IsFiniteSet(R \ {m}) /\ Cardinality(R \ {m}) = n - 1
        <4> HIDE DEF Bad, Sizes, K
        <4> QED BY <3>2, FS_RemoveElement
      <3> QED BY <3>1, <3>3
    <2>4. ASSUME NEW p \in Newest(R \ {m})
          PROVE  p \in Newest(R)
      <3>1. p \in R /\ p # m /\ p \in Nat /\ m \in Nat
        BY <1>4 DEF Newest
      <3>2. {q \in R : q > p} = {q \in R \ {m} : q > p}
        BY <2>2, <3>1
      <3> QED BY <3>1, <3>2 DEF Newest
    <2>5. Newest(R \ {m}) \in SUBSET Newest(R) /\ Newest(R) \in SUBSET R
      BY <2>4 DEF Newest
    <2>6. /\ Cardinality(Newest(R \ {m})) <= Cardinality(Newest(R))
          /\ Cardinality(Newest(R \ {m})) \in Nat /\ Cardinality(Newest(R)) \in Nat
      BY <1>5, <2>5, FS_Subset, FS_CardinalityType
    <2>7. ~(Cardinality(Newest(R \ {m})) >= K)
      BY <1>1, <1>4, <2>6
    <2>8. Bad(R \ {m})
      BY <2>3, <2>7
    <2>9. n - 1 \in Sizes
      BY <2>3, <2>8
    <2>10. n <= n - 1
      <3> HIDE DEF Sizes
      <3> QED BY <1>3, <2>9
    <2> QED BY <1>5, <2>10
  <1> QED BY <1>7, <1>8

Inv == /\ TypeInv /\ PointsInv /\ SlotsInv /\ RamInv /\ IdsInv /\ ExportInv /\ OrderInv
       /\ SavedInv /\ Retained

\* Ids and pours have the same order in the list.
LEMMA ListOrder ==
    ASSUME Inv, ~hist.blind, NEW s \in Slots, NEW t \in Slots, headers[s].id > 0, headers[t].id > 0
    PROVE  /\ headers[s].id < headers[t].id <=> headers[s].rows[1].pour < headers[t].rows[1].pour
           /\ headers[s].rows[1].pour = headers[t].rows[1].pour => s = t
           /\ headers[s].rows[1].pour \in Nat /\ headers[t].rows[1].pour \in Nat
           /\ headers[s].rows[1].pour \in hist.saved
  <1>1. /\ headers[s].rows[1].pour \in Nat /\ headers[t].rows[1].pour \in Nat
        /\ headers[s].id \in Nat /\ headers[t].id \in Nat
    BY SlotPour DEF Inv
  <1>2. s # t => headers[s].id # headers[t].id
    BY DEF Inv, IdsInv
  <1>3. /\ headers[s].id < headers[t].id => headers[s].rows[1].pour < headers[t].rows[1].pour
        /\ headers[t].id < headers[s].id => headers[t].rows[1].pour < headers[s].rows[1].pour
    BY DEF Inv, OrderInv
  <1>4. headers[s].rows[1].pour \in hist.saved
    BY DEF Inv, SavedInv
  <1>5. s = t \/ headers[s].id < headers[t].id \/ headers[t].id < headers[s].id
    BY <1>1, <1>2
  <1> QED BY <1>1, <1>3, <1>4, <1>5

\* A newest pour is listed.
LEMMA NewestIsListed ==
    ASSUME Inv, ~hist.blind, available, NEW p \in Newest(hist.saved)
    PROVE  \E s \in Listed : headers[s].rows[1].pour = p
  <1>1. PICK s \in Slots : flash[s].magic /\ flash[s].data[1].pour = p
    BY DEF Inv, Retained, Valid
  <1>2. headers[s].id > 0 /\ headers[s].rows[1].pour = p
    <2>1. headers[s].id # 0
      BY <1>1 DEF Inv, SavedInv, Newest
    <2> QED BY <1>1, <2>1, SlotPour DEF Inv
  <1> DEFINE Above == {t \in Slots : headers[t].id > headers[s].id}
             Later == {q \in hist.saved : q > p}
             f == [t \in Above |-> headers[t].rows[1].pour]
  <1>3. ASSUME NEW t \in Above
        PROVE  headers[t].id > 0 /\ headers[t].rows[1].pour \in Later
    <2>1. headers[t].id > 0
      BY <1>1, <1>2, <1>3, SlotPour DEF Inv
    <2>2. headers[s].id < headers[t].id
      BY <1>1, <2>1, SlotPour DEF Inv
    <2>3. headers[s].rows[1].pour < headers[t].rows[1].pour /\ headers[t].rows[1].pour \in hist.saved
      BY <1>1, <1>2, <2>1, <2>2, ListOrder
    <2>4. headers[t].rows[1].pour \in Nat /\ p \in Nat
      BY <1>1, <1>2, <2>1, ListOrder
    <2> QED BY <1>2, <2>1, <2>3, <2>4
  <1>4. f \in Injection(Above, Later)
    <2>1. \A t, u \in Above : headers[t].rows[1].pour = headers[u].rows[1].pour => t = u
      BY <1>3, ListOrder
    <2> QED BY <1>3, <2>1 DEF Injection, IsInjective
  <1>5. IsFiniteSet(Later)
    BY SavedFinite, FS_Subset DEF Inv
  <1>6. /\ Cardinality(Above) <= Cardinality(Later)
        /\ Cardinality(Above) \in Nat /\ Cardinality(Later) \in Nat
    <2> HIDE DEF Above, Later, f
    <2> QED BY <1>4, <1>5, FS_Injection, FS_CardinalityType
  <1>7. Cardinality(Later) < SlotCount - 1
    BY DEF Newest
  <1>8. Cardinality(Above) < SlotCount - 1
    BY <1>6, <1>7, HistoryAssumption
  <1> QED BY <1>1, <1>2, <1>8 DEF Listed

\* A listed pour is one of the newest: otherwise all of these would be listed above it.
LEMMA ListedIsNewest ==
    ASSUME Inv, ~hist.blind, available, NEW s \in Listed
    PROVE  headers[s].rows[1].pour \in Newest(hist.saved)
  <1> DEFINE p == headers[s].rows[1].pour
             Later == {q \in hist.saved : q > p}
             Above == {t \in Slots : headers[t].id > headers[s].id}
             At(q) == CHOOSE t \in Slots : headers[t].id > 0 /\ headers[t].rows[1].pour = q
             f == [q \in Newest(Later) |-> At(q)]
  <1>1. s \in Slots /\ headers[s].id > 0 /\ Cardinality(Above) < SlotCount - 1
    BY DEF Listed
  <1>2. p \in hist.saved /\ p \in Nat
    BY <1>1, ListOrder
  <1>3. hist.saved \in SUBSET Nat /\ IsFiniteSet(hist.saved)
    BY SavedFinite DEF Inv
  <1>4. Later \in SUBSET Nat /\ IsFiniteSet(Later) /\ Cardinality(Later) \in Nat
    BY <1>3, FS_Subset, FS_CardinalityType
  <1>a. Cardinality(Later) < SlotCount - 1 => p \in Newest(hist.saved)
    BY <1>2 DEF Newest
  <1>b. Cardinality(Later) < SlotCount - 1 \/ Cardinality(Later) >= SlotCount - 1
    <2> HIDE DEF Later
    <2> QED BY <1>4, HistoryAssumption
  <1>5. SUFFICES ASSUME Cardinality(Later) >= SlotCount - 1 PROVE FALSE
    BY <1>a, <1>b
  <1>6. Cardinality(Newest(Later)) >= SlotCount - 1
    <2> HIDE DEF Later
    <2> QED BY <1>4, <1>5, EnoughNewest
  <1>7. ASSUME NEW q \in Newest(Later)
        PROVE  /\ At(q) \in Above /\ headers[At(q)].id > 0
               /\ headers[At(q)].rows[1].pour = q
    <2>1. q \in Later /\ q \in hist.saved /\ q \in Nat /\ q > p
      BY <1>3 DEF Newest
    <2>2. {x \in hist.saved : x > q} = {x \in Later : x > q}
      BY <1>2, <1>3, <2>1
    <2>3. q \in Newest(hist.saved)
      <3>1. Cardinality({x \in Later : x > q}) < SlotCount - 1
        <4> HIDE DEF Later
        <4> QED BY DEF Newest
      <3> QED BY <2>1, <2>2, <3>1 DEF Newest
    <2>4. PICK t \in Slots : headers[t].id > 0 /\ headers[t].rows[1].pour = q
      BY <2>3, NewestIsListed DEF Listed
    <2>5. At(q) \in Slots /\ headers[At(q)].id > 0 /\ headers[At(q)].rows[1].pour = q
      BY <2>4
    <2> HIDE DEF At
    <2>6. headers[s].id < headers[At(q)].id
      BY <1>1, <1>2, <2>1, <2>5, ListOrder
    <2> QED BY <1>1, <2>5, <2>6, SlotPour DEF Inv
  <1>8. f \in Injection(Newest(Later), Above)
    <2> HIDE DEF Later, Above, At
    <2> QED BY <1>7 DEF Injection, IsInjective
  <1>9. IsFiniteSet(Above)
    <2>1. IsFiniteSet(Slots)
      BY HistoryAssumption, FS_Interval DEF Slots
    <2> QED BY <2>1, FS_Subset
  <1>10. /\ Cardinality(Newest(Later)) <= Cardinality(Above)
         /\ Cardinality(Newest(Later)) \in Nat /\ Cardinality(Above) \in Nat
    <2> HIDE DEF Later, Above, f
    <2> QED BY <1>8, <1>9, FS_Injection, FS_CardinalityType
  <1> QED BY <1>1, <1>6, <1>10, HistoryAssumption

\* The inductive invariant holds in every state.
LEMMA InvHolds == Spec => []Inv
  <1>1. Init => Inv
    <2> SUFFICES ASSUME Init PROVE Retained
      BY TypeInit, PointsInit, SlotsInit, RamInit, IdsInit, ExportInit, OrderInit, SavedInit DEF Inv
    <2> QED BY DEF Init, Retained, Newest
  <1>2. Inv /\ [Next]_vars => Inv'
    BY TypeStep, PointsStep, SlotsStep, RamStep, IdsStep, ExportStep, OrderStep, SavedStep,
       RetainedStep DEF Inv
  <1> QED BY <1>1, <1>2, PTL DEF Spec

(* Theorems *)

\* TypeOK: the variables stay in their ranges; in particular no pour outgrows the
\* rows there is room for.
THEOREM TypeCorrect == Spec => []TypeOK
  <1>1. Inv => TypeOK
    <2> SUFFICES ASSUME Inv PROVE TypeOK
      OBVIOUS
    <2>1. \A s \in Slots :
            /\ flash[s].magic \in BOOLEAN
            /\ flash[s].header.id \in Nat /\ headers[s].id \in Nat
            /\ \A i \in DOMAIN flash[s].data : flash[s].data[i] \in Rows
            /\ \A i \in DOMAIN headers[s].rows : headers[s].rows[i] \in Rows
      BY ElementOfSeq DEF Inv, TypeInv, SlotType, HeaderType
    <2>2. \A i \in DOMAIN points : points[i] \in Rows
      BY ElementOfSeq DEF Inv, TypeInv
    <2> QED BY <2>1, <2>2 DEF Inv, TypeInv, PointsInv, TypeOK, WriterType, WriterPcs, Writing, ExportType
  <1> QED BY <1>1, InvHolds, PTL

\* Retained: the comment in writer_task that five pours survive.
THEOREM RetainedHolds == Spec => []Retained
  <1>1. Inv => Retained
    BY DEF Inv
  <1> QED BY <1>1, InvHolds, PTL

\* ListsNewest: what the web page lists is what was saved last.
THEOREM ListsNewestHolds == Spec => []ListsNewest
  <1>1. Inv => ListsNewest
    <2> SUFFICES ASSUME Inv, available, ~hist.blind
                 PROVE  {headers[s].rows[1].pour : s \in Listed} = Newest(hist.saved)
      BY DEF ListsNewest
    <2> QED BY NewestIsListed, ListedIsNewest
  <1> QED BY <1>1, InvHolds, PTL

\* StoredIsPoured: a slot that can be loaded holds every row of one pour that ended.
THEOREM StoredIsPouredHolds == Spec => []StoredIsPoured
  <1>1. Inv => StoredIsPoured
    BY DEF Inv, SlotsInv, StoredIsPoured, Valid
  <1> QED BY <1>1, InvHolds, PTL

\* IdsUnique: an id names one pour, over any number of restarts.
THEOREM IdsUniqueHolds == Spec => []IdsUnique
  <1>1. Inv => IdsUnique
    BY DEF Inv, IdsInv, IdsUnique, Valid
  <1> QED BY <1>1, InvHolds, PTL

\* OnePourExported: pour_csv never continues with another pour.
THEOREM OnePourExportedHolds == Spec => []OnePourExported
  <1>1. Inv => OnePourExported
    BY DEF Inv, ExportInv, OnePourExported
  <1> QED BY <1>1, InvHolds, PTL

\* Each step is one of Recorder's, or leaves the record as it is.
LEMMA RecordStep == PointsInv /\ [Next]_vars => [Records!RecordNext]_Phase
  <1> SUFFICES ASSUME PointsInv, [Next]_vars PROVE [Records!RecordNext]_Phase
    OBVIOUS
  <1> USE DEF Phase, PointsInv
  <1>1. CASE BeginPour
    BY <1>1 DEF BeginPour, Records!RecordNext, Records!BeginRecord
  <1>2. CASE EndPour
    BY <1>2 DEF EndPour, Records!RecordNext, Records!CloseRecord
  <1>3. CASE ClearSaving
    BY <1>3 DEF ClearSaving, Records!RecordNext, Records!SaveRecord
  <1>4. CASE Restart
    BY <1>4 DEF Restart, Records!RecordNext, Records!LoseRecord
  <1>5. CASE SampleDue \/ TakeNotice \/ ExportBegin \/ ExportRow
    BY <1>5 DEF SampleDue, TakeNotice, ExportBegin, ExportRow
  <1>6. CASE EraseBegin \/ EraseEnd \/ WriteData \/ WriteHeader \/ WriteMagic \/ Commit
             \/ Unlock
    <2>1. recording' = recording /\ saving' = saving
      BY <1>6 DEF EraseBegin, EraseEnd, WriteData, WriteHeader, WriteMagic, Commit, Unlock,
        RamAlone
    <2> QED BY <2>1
  <1>7. CASE UNCHANGED vars
    BY <1>7 DEF vars
  <1> QED BY <1>1, <1>2, <1>3, <1>4, <1>5, <1>6, <1>7 DEF Next, Write

\* RecordPromise: history_observe and writer_task implement Recorder.
THEOREM ImplementsRecorder == Spec => RecordPromise
  <1>1. Init => Records!RecordInit
    BY DEF Init, Records!RecordInit, Phase
  <1>2. Inv /\ [Next]_vars => [Records!RecordNext]_Phase
    BY RecordStep DEF Inv
  <1> QED BY <1>1, <1>2, InvHolds, PTL DEF Spec, RecordPromise, Records!RecordSpec
============================================================================
