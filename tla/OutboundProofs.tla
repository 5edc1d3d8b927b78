--------------------------- MODULE OutboundProofs ---------------------------
(* Proofs about the parts that send records on: DeliveryQueue, for any      *)
(* number of processes on one queue file, CappedRelayer and ReceiptIngress. *)
EXTENDS DeliveryQueue, CappedRelayer, ReceiptIngress, TotalsProofs

Flight == [busy: BOOLEAN, rows: SUBSET Row, tries: 0..Attempts, acknowledged: BOOLEAN]
Reading == [at: {"idle", "read", "commit"}, checkpoint: Checkpoint, scores: SUBSET EventBodies]

QueueTypes ==
  /\ pending \subseteq admitted /\ admitted \subseteq Row
  /\ IsFiniteSet(pending) /\ Cardinality(pending) <= Capacity
  /\ lastRow \in 0..MaxRows
  /\ api \in [Events -> {NoRecord} \cup admitted]
  /\ \A e \in Events : api[e] # NoRecord => api[e].event = e

\* Ids are given out in order and once.
IdsInv == \A r \in admitted : r.id <= lastRow /\ \A t \in admitted : r.id = t.id => r = t

QueueInv == QueueTypes /\ IdsInv /\ NothingDropped /\ DeliveredInOrder

\* What is older than a row of a flush is a row of it too, or delivered; the
\* row that was acknowledged is delivered.
FlushInv ==
  /\ flush \in [Senders -> Flight]
  /\ \A s \in Senders :
        /\ flush[s].rows \subseteq admitted
        /\ \A t \in flush[s].rows, r \in admitted :
              r.id < t.id => Delivered(r) \/ r \in flush[s].rows
        /\ flush[s].acknowledged => \A t \in flush[s].rows : NextUp(s, t) => Delivered(t)

ImportInv ==
  /\ checkpoint \in Checkpoint
  /\ import \in [Senders -> Reading]
  /\ ~checkpoint.complete => checkpoint.revision = checkpoint.cursor /\ checkpoint.cursor < Pages
  /\ \A s \in Senders : import[s].at # "idle" => ~import[s].checkpoint.complete
  /\ WindowImported

DeliveryInv == QueueInv /\ FlushInv /\ ImportInv

LEMMA DeliveryBegins == DeliveryInit => DeliveryInv
  <1> SUFFICES ASSUME DeliveryInit PROVE DeliveryInv
    OBVIOUS
  <1>1. QueueTypes
    BY FS_EmptySet, QueueAssumption DEF DeliveryInit, QueueTypes
  <1>2. IdsInv /\ NothingDropped /\ DeliveredInOrder
    BY DEF DeliveryInit, IdsInv, NothingDropped, DeliveredInOrder
  <1>3. NoFlush \in Flight
    BY QueueAssumption DEF NoFlush, Flight
  <1>4. FlushInv
    BY <1>3 DEF DeliveryInit, FlushInv, NoFlush
  <1>5. StartOfImport \in Checkpoint /\ NoImport \in Reading
    BY QueueAssumption DEF StartOfImport, Checkpoint, NoImport, Reading
  <1>6. WindowImported
    BY DEF DeliveryInit, WindowImported, StartOfImport
  <1> QED
    BY <1>1, <1>2, <1>4, <1>5, <1>6, QueueAssumption
    DEF DeliveryInit, DeliveryInv, QueueInv, ImportInv, StartOfImport, NoImport

\* A row is not the absence of one.
LEMMA RowIsRecord == \A r \in Row : r # NoRecord
  BY DEF Row, NoRecord

\* A record enters the queue, or waits there already.
LEMMA InsertKeeps ==
  ASSUME QueueInv, FlushInv, NEW e \in Events, NEW b \in EventBodies,
         Insert(e, b), UNCHANGED <<flush, api>>
  PROVE  /\ QueueInv' /\ FlushInv' /\ admitted \subseteq admitted'
         /\ \E row \in admitted' : row.event = e
  <1>1. CASE Waiting(e) # {}
    <2>1. UNCHANGED <<pending, lastRow, admitted, flush, api>>
      BY <1>1 DEF Insert
    <2>2. QueueInv' /\ FlushInv'
      BY <2>1 DEF QueueInv, QueueTypes, IdsInv, NothingDropped, DeliveredInOrder, FlushInv,
                  Delivered, NextUp
    <2> QED
      BY <1>1, <2>1, <2>2 DEF Waiting, QueueInv, QueueTypes
  <1>2. CASE Waiting(e) = {}
    <2> DEFINE new == [id |-> lastRow + 1, event |-> e, body |-> b]
    <2>1. /\ Cardinality(pending) < Capacity /\ lastRow + 1 <= MaxRows
          /\ pending' = pending \cup {new} /\ admitted' = admitted \cup {new}
          /\ lastRow' = lastRow + 1 /\ UNCHANGED <<flush, api>>
      BY <1>2 DEF Insert, NextRow
    <2>2. new \in Row
      BY <2>1, QueueAssumption DEF Row, QueueInv, QueueTypes
    <2>3. IsFiniteSet(pending') /\ Cardinality(pending') <= Capacity
      <3>1. IsFiniteSet(pending) /\ Cardinality(pending) \in Nat
        BY FS_CardinalityType DEF QueueInv, QueueTypes
      <3>2. /\ IsFiniteSet(pending \cup {new})
            /\ Cardinality(pending \cup {new}) <= Cardinality(pending) + 1
        BY <3>1, FS_AddElement
      <3> QED
        BY <2>1, <3>1, <3>2, FS_CardinalityType, QueueAssumption
    <2>4. QueueTypes'
      BY <2>1, <2>2, <2>3, QueueAssumption DEF QueueInv, QueueTypes
    <2>5. \A r \in admitted : r.id < new.id /\ r.id \in Nat
      BY QueueAssumption DEF QueueInv, QueueTypes, IdsInv, Row
    <2>6. IdsInv'
      BY <2>1, <2>2, <2>5 DEF QueueInv, QueueTypes, IdsInv, Row
    <2>7. NothingDropped'
      BY <2>1 DEF QueueInv, NothingDropped, Delivered
    <2>8. DeliveredInOrder'
      <3>1. \A f \in Events : api[f] # NoRecord => ~(new.id < api[f].id)
        BY <2>5 DEF QueueInv, QueueTypes
      <3> QED
        BY <2>1, <3>1 DEF QueueInv, DeliveredInOrder, Delivered
    <2>9. FlushInv'
      <3>1. new.id \in Nat
        BY QueueAssumption DEF QueueInv, QueueTypes
      <3>2. \A t \in admitted : ~(new.id < t.id)
        BY <2>5, <3>1
      <3>3. \A s \in Senders : \A t \in flush[s].rows : ~(new.id < t.id)
        BY <3>2 DEF FlushInv
      <3> QED
        BY <2>1, <3>3 DEF FlushInv, Delivered, NextUp
    <2>10. new \in admitted' /\ new.event = e /\ admitted \subseteq admitted'
      BY <2>1
    <2> QED
      BY <2>4, <2>6, <2>7, <2>8, <2>9, <2>10 DEF QueueInv
  <1> QED
    BY <1>1, <1>2

\* What the API makes of the record whose turn it is.
LEMMA RequestKeeps ==
  ASSUME QueueInv, FlushInv, NEW s \in Senders, NEW row \in flush[s].rows, Sending(s, row),
         api' = api \/ api' = [api EXCEPT ![row.event] = Kept(row)],
         UNCHANGED <<pending, lastRow, admitted>>
  PROVE  QueueInv' /\ \A r \in admitted : Delivered(r) => Delivered(r)'
  <1>1. row \in admitted /\ row \in Row /\ row.event \in Events /\ row.id \in Nat
    BY QueueAssumption DEF FlushInv, QueueInv, QueueTypes, Row
  <1>2. CASE api' = api
    BY <1>2 DEF QueueInv, QueueTypes, IdsInv, NothingDropped, DeliveredInOrder, Delivered
  <1>3. CASE api[row.event] # NoRecord /\ api' = [api EXCEPT ![row.event] = Kept(row)]
    <2>1. api' = api
      BY <1>1, <1>3 DEF Kept, QueueInv, QueueTypes
    <2> QED
      BY <1>2, <2>1
  <1>4. CASE api[row.event] = NoRecord /\ api' = [api EXCEPT ![row.event] = row]
    <2>1. /\ api' \in [Events -> {NoRecord} \cup admitted]
          /\ \A f \in Events : api'[f] = IF f = row.event THEN row ELSE api[f]
      BY <1>1, <1>4 DEF QueueInv, QueueTypes
    <2>2. QueueTypes' /\ IdsInv'
      BY <2>1 DEF QueueInv, QueueTypes, IdsInv
    <2>3. \A r \in admitted : r.event \in Events /\ r.id \in Nat
      BY QueueAssumption DEF QueueInv, QueueTypes, Row
    <2>4. \A r \in admitted : Delivered(r) => Delivered(r)'
      BY <1>4, <2>1, <2>3 DEF Delivered
    <2>5. NothingDropped'
      BY <2>4 DEF QueueInv, NothingDropped
    <2>6. ASSUME NEW r \in admitted, NEW f \in Events, api'[f] # NoRecord, r.id < api'[f].id
          PROVE  Delivered(r)'
      <3>1. CASE f # row.event
        BY <2>1, <2>4, <2>6, <3>1 DEF QueueInv, DeliveredInOrder
      <3>2. CASE f = row.event
        <4>1. r.id < row.id
          BY <2>1, <2>6, <3>2
        <4>2. r \notin flush[s].rows
          BY <1>1, <2>3, <4>1 DEF Sending, NextUp
        <4>3. Delivered(r)
          BY <4>1, <4>2 DEF FlushInv
        <4> QED
          BY <2>4, <4>3
      <3> QED
        BY <3>1, <3>2
    <2>7. DeliveredInOrder'
      BY <2>6 DEF DeliveredInOrder
    <2> QED
      BY <2>2, <2>4, <2>5, <2>7 DEF QueueInv
  <1> QED
    BY <1>2, <1>3, <1>4 DEF Kept

\* A flush that changes for one sender keeps the invariant if its own part of
\* it holds again.
OwnFlush(s) ==
  /\ flush[s].rows \subseteq admitted
  /\ \A t \in flush[s].rows, r \in admitted : r.id < t.id => Delivered(r) \/ r \in flush[s].rows
  /\ flush[s].acknowledged => \A t \in flush[s].rows : NextUp(s, t) => Delivered(t)

LEMMA OneFlushChanges ==
  ASSUME FlushInv, NEW s \in Senders, NEW f \in Flight, flush' = [flush EXCEPT ![s] = f],
         UNCHANGED admitted, \A r \in admitted : Delivered(r) => Delivered(r)', OwnFlush(s)'
  PROVE  FlushInv'
  <1>1. flush' \in [Senders -> Flight]
    BY DEF FlushInv
  <1>2. ASSUME NEW u \in Senders, u # s
        PROVE  OwnFlush(u)'
    <2>1. flush'[u] = flush[u]
      BY <1>2 DEF FlushInv
    <2>2. OwnFlush(u)
      BY DEF FlushInv, OwnFlush
    <2>3. flush[u].rows \subseteq admitted
      BY <2>2 DEF OwnFlush
    <2>4. \A t \in flush[u].rows : NextUp(u, t)' <=> NextUp(u, t)
      BY <2>1 DEF NextUp
    <2> QED
      BY <2>1, <2>2, <2>3, <2>4 DEF OwnFlush
  <1>3. \A u \in Senders : OwnFlush(u)'
    BY <1>2
  <1> QED
    BY <1>1, <1>3 DEF FlushInv, OwnFlush

LEMMA QueueStays ==
  ASSUME QueueInv, UNCHANGED <<pending, lastRow, admitted, api>>
  PROVE  QueueInv' /\ \A r \in admitted : Delivered(r) <=> Delivered(r)'
  BY DEF QueueInv, QueueTypes, IdsInv, NothingDropped, DeliveredInOrder, Delivered

LEMMA FlushEnds ==
  ASSUME FlushInv, NEW s \in Senders, flush' = [flush EXCEPT ![s] = NoFlush],
         UNCHANGED admitted, \A r \in admitted : Delivered(r) => Delivered(r)'
  PROVE  FlushInv'
  <1>1. NoFlush \in Flight
    BY QueueAssumption DEF NoFlush, Flight
  <1>2. flush'[s] = NoFlush
    BY DEF FlushInv
  <1>3. OwnFlush(s)'
    BY <1>2 DEF OwnFlush, NoFlush
  <1> QED
    BY <1>1, <1>3, OneFlushChanges

LEMMA StartFlushKeeps ==
  ASSUME QueueInv, FlushInv, NEW s \in Senders, StartFlush(s)
  PROVE  QueueInv' /\ FlushInv'
  <1> DEFINE f == FlushOf(Oldest)
  <1>1. flush' = [flush EXCEPT ![s] = f] /\ UNCHANGED <<pending, lastRow, admitted, api>>
    BY DEF StartFlush
  <1>2. QueueInv' /\ \A r \in admitted : Delivered(r) <=> Delivered(r)'
    BY <1>1, QueueStays
  <1>3. Oldest \subseteq pending /\ pending \subseteq admitted /\ admitted \subseteq Row
    BY DEF Oldest, QueueInv, QueueTypes
  <1>4. f \in Flight
    <2>1. Oldest \in SUBSET Row /\ 0 \in 0..Attempts
      BY <1>3, QueueAssumption
    <2> QED
      BY <2>1 DEF FlushOf, Flight
  <1>5. flush'[s] = f /\ f.rows = Oldest /\ f.acknowledged = FALSE
    BY <1>1 DEF FlushInv, FlushOf
  <1>6. ASSUME NEW t \in Oldest, NEW r \in pending, r.id < t.id
        PROVE  r \in Oldest
    <2>1. \A q \in pending : q.id \in Int
      BY <1>3, QueueAssumption DEF Row
    <2>2. t \in pending /\ Cardinality(Before(t)) < FlushLimit
      BY DEF Oldest
    <2>3. Before(r) \in SUBSET Before(t)
      BY <1>6, <2>1, <2>2 DEF Before
    <2>4. Before(t) \in SUBSET pending /\ IsFiniteSet(pending)
      BY DEF Before, QueueInv, QueueTypes
    <2>5. IsFiniteSet(Before(t))
      BY <2>4, FS_Subset
    <2>6. IsFiniteSet(Before(r)) /\ Cardinality(Before(r)) <= Cardinality(Before(t))
      BY <2>3, <2>5, FS_Subset
    <2>7. Cardinality(Before(r)) \in Nat /\ Cardinality(Before(t)) \in Nat
      BY <2>5, <2>6, FS_CardinalityType
    <2>8. Cardinality(Before(r)) < FlushLimit
      BY <2>2, <2>6, <2>7, QueueAssumption
    <2> QED
      BY <2>8 DEF Oldest
  <1>7. \A t \in Oldest, r \in admitted : r.id < t.id => Delivered(r) \/ r \in Oldest
    BY <1>6 DEF QueueInv, NothingDropped
  <1>8. OwnFlush(s)'
    BY <1>1, <1>2, <1>3, <1>5, <1>7 DEF OwnFlush
  <1>9. FlushInv'
    BY <1>1, <1>2, <1>4, <1>8, OneFlushChanges
  <1> QED
    BY <1>2, <1>9

LEMMA SubmitKeeps ==
  ASSUME QueueInv, FlushInv, NEW s \in Senders, NEW row \in flush[s].rows, SubmitRecord(s, row)
  PROVE  QueueInv' /\ FlushInv'
  <1> DEFINE f == [flush[s] EXCEPT !.acknowledged = TRUE]
  <1>1. /\ Sending(s, row) /\ Kept(row).body = row.body
        /\ api' = [api EXCEPT ![row.event] = Kept(row)]
        /\ flush' = [flush EXCEPT ![s] = f]
        /\ UNCHANGED <<pending, lastRow, admitted>>
    BY DEF SubmitRecord
  <1>2. QueueInv' /\ \A r \in admitted : Delivered(r) => Delivered(r)'
    BY <1>1, RequestKeeps
  <1>3. flush[s] \in Flight /\ OwnFlush(s) /\ row \in admitted /\ row \in Row
    BY DEF FlushInv, OwnFlush, QueueInv, QueueTypes
  <1>4. f \in Flight /\ flush'[s] = f /\ f.rows = flush[s].rows
    BY <1>1, <1>3 DEF Flight, FlushInv
  <1>5. Delivered(row)'
    <2>1. row.event \in Events
      BY <1>3 DEF Row
    <2>2. api'[row.event] = Kept(row) /\ Kept(row) # NoRecord
      BY <1>1, <1>3, <2>1, RowIsRecord DEF QueueInv, QueueTypes, Kept
    <2> QED
      BY <1>1, <2>2 DEF Delivered
  <1>6. ASSUME NEW t \in flush[s].rows, NextUp(s, t)'
        PROVE  Delivered(t)'
    <2>1. t \in admitted /\ t.id \in Int /\ row.id \in Int
      BY <1>3 DEF OwnFlush, QueueInv, QueueTypes, Row
    <2>2. t.id <= row.id /\ row.id <= t.id
      BY <1>1, <1>4, <1>6 DEF NextUp, Sending
    <2>3. t = row
      BY <1>3, <2>1, <2>2 DEF QueueInv, IdsInv
    <2> QED
      BY <1>5, <2>3
  <1>7. OwnFlush(s)'
    BY <1>1, <1>2, <1>3, <1>4, <1>6 DEF OwnFlush
  <1>8. FlushInv'
    BY <1>1, <1>2, <1>4, <1>7, OneFlushChanges
  <1> QED
    BY <1>2, <1>8

LEMMA UnansweredKeeps ==
  ASSUME QueueInv, FlushInv, NEW s \in Senders, NEW row \in flush[s].rows, Unanswered(s, row)
  PROVE  QueueInv' /\ FlushInv'
  <1> DEFINE f == [flush[s] EXCEPT !.tries = @ + 1]
  <1>1. QueueInv' /\ \A r \in admitted : Delivered(r) => Delivered(r)'
    BY RequestKeeps DEF Unanswered
  <1>2. CASE flush' = [flush EXCEPT ![s] = NoFlush]
    BY <1>1, <1>2, FlushEnds DEF Unanswered
  <1>3. CASE flush[s].tries + 1 < Attempts /\ flush' = [flush EXCEPT ![s].tries = @ + 1]
    <2>1. flush[s] \in Flight /\ OwnFlush(s)
      BY DEF FlushInv, OwnFlush
    <2>2. f \in Flight /\ f.rows = flush[s].rows /\ f.acknowledged = flush[s].acknowledged
      BY <1>3, <2>1, QueueAssumption DEF Flight
    <2>3. flush' = [flush EXCEPT ![s] = f] /\ flush'[s] = f
      BY <1>3 DEF FlushInv
    <2>4. UNCHANGED admitted /\ \A t : NextUp(s, t)' <=> NextUp(s, t)
      BY <2>2, <2>3 DEF Unanswered, NextUp
    <2>5. OwnFlush(s)'
      BY <1>1, <2>1, <2>2, <2>3, <2>4 DEF OwnFlush
    <2> QED
      BY <1>1, <2>2, <2>3, <2>4, <2>5, OneFlushChanges
  <1> QED
    BY <1>1, <1>2, <1>3 DEF Unanswered

LEMMA RemoveKeeps ==
  ASSUME QueueInv, FlushInv, NEW s \in Senders, NEW row \in flush[s].rows, RemoveDelivered(s, row)
  PROVE  QueueInv' /\ FlushInv'
  <1> DEFINE f == FlushOf(flush[s].rows \ {row})
  <1>1. /\ flush[s].acknowledged /\ NextUp(s, row)
        /\ pending' = {r \in pending : r.id # row.id}
        /\ flush' = [flush EXCEPT ![s] = f]
        /\ UNCHANGED <<lastRow, admitted, api>>
    BY DEF RemoveDelivered
  <1>2. flush[s] \in Flight /\ OwnFlush(s) /\ row \in admitted
    BY DEF FlushInv, OwnFlush
  <1>3. Delivered(row)
    BY <1>1, <1>2 DEF OwnFlush
  <1>4. \A r \in admitted : Delivered(r) <=> Delivered(r)'
    BY <1>1 DEF Delivered
  <1>5. QueueTypes'
    <2>1. pending' \in SUBSET pending /\ IsFiniteSet(pending)
      BY <1>1 DEF QueueInv, QueueTypes
    <2>2. IsFiniteSet(pending') /\ Cardinality(pending') <= Cardinality(pending)
      BY <2>1, FS_Subset
    <2>3. Cardinality(pending') \in Nat /\ Cardinality(pending) \in Nat
      BY <2>1, <2>2, FS_CardinalityType
    <2>4. Cardinality(pending') <= Capacity
      BY <2>2, <2>3, QueueAssumption DEF QueueInv, QueueTypes
    <2> QED
      BY <1>1, <2>1, <2>2, <2>4 DEF QueueInv, QueueTypes
  <1>6. NothingDropped'
    <2>1. \A r \in admitted : r.id = row.id => Delivered(r)
      BY <1>2, <1>3 DEF QueueInv, IdsInv
    <2> QED
      BY <1>1, <1>4, <2>1 DEF QueueInv, NothingDropped
  <1>7. IdsInv' /\ DeliveredInOrder'
    BY <1>1, <1>4 DEF QueueInv, IdsInv, DeliveredInOrder
  <1>8. f \in Flight /\ flush'[s] = f /\ f.rows = flush[s].rows \ {row} /\ f.acknowledged = FALSE
    <2>1. flush[s].rows \ {row} \in SUBSET Row /\ 0 \in 0..Attempts
      BY <1>2, QueueAssumption DEF Flight
    <2>2. flush'[s] = f
      BY <1>1 DEF FlushInv
    <2> QED
      BY <2>1, <2>2 DEF FlushOf, Flight
  <1>9. OwnFlush(s)'
    BY <1>1, <1>2, <1>3, <1>4, <1>8 DEF OwnFlush
  <1>10. FlushInv'
    BY <1>1, <1>4, <1>8, <1>9, OneFlushChanges
  <1> QED
    BY <1>5, <1>6, <1>7, <1>10 DEF QueueInv

\* The import looks at the checkpoint and at what was admitted only.
LEMMA ImportStays ==
  ASSUME ImportInv, UNCHANGED <<checkpoint, import>>, admitted \subseteq admitted'
  PROVE  ImportInv'
  BY DEF ImportInv, WindowImported

LEMMA ImportCallKeeps ==
  ASSUME ImportInv, NEW s \in Senders, StartImport(s) \/ ReadPage(s) \/ StopImport(s)
  PROVE  ImportInv'
  <1>1. UNCHANGED <<checkpoint, admitted>> /\ WindowImported'
    BY DEF StartImport, ReadPage, StopImport, ImportInv, WindowImported
  <1>2. NoImport \in Reading
    BY QueueAssumption DEF NoImport, Reading, StartOfImport, Checkpoint
  <1>3. CASE StartImport(s)
    <2> DEFINE i == [NoImport EXCEPT !.at = "read", !.checkpoint = checkpoint]
    <2>1. i \in Reading /\ i.checkpoint = checkpoint /\ ~checkpoint.complete
      BY <1>2, <1>3 DEF ImportInv, Reading, NoImport, StartImport
    <2>2. import' = [import EXCEPT ![s] = i]
      BY <1>3 DEF StartImport
    <2> QED
      BY <1>1, <2>1, <2>2 DEF ImportInv
  <1>4. CASE ReadPage(s)
    <2>1. PICK b \in EventBodies :
             import' = [import EXCEPT ![s] = [@ EXCEPT !.at = "commit", !.scores = {b}]]
      BY <1>4 DEF ReadPage
    <2> DEFINE i == [import[s] EXCEPT !.at = "commit", !.scores = {b}]
    <2>2. i \in Reading /\ i.checkpoint = import[s].checkpoint /\ import[s].at = "read"
      BY <1>4 DEF ImportInv, Reading, ReadPage
    <2>3. import' = [import EXCEPT ![s] = i]
      BY <2>1 DEF ImportInv
    <2> QED
      BY <1>1, <2>2, <2>3 DEF ImportInv
  <1>5. CASE StopImport(s)
    BY <1>1, <1>2, <1>5 DEF ImportInv, StopImport, NoImport
  <1> QED
    BY <1>3, <1>4, <1>5

LEMMA CommitPageKeeps ==
  ASSUME DeliveryInv, NEW s \in Senders, CommitImportPage(s)
  PROVE  DeliveryInv'
  <1> DEFINE page == import[s].checkpoint
             next == Advanced(page)
  <1>1. /\ import[s].at = "commit" /\ checkpoint = page /\ checkpoint' = next
        /\ UNCHANGED <<flush, api>>
    BY DEF CommitImportPage
  <1>2. /\ ~page.complete /\ page \in Checkpoint
        /\ page.revision = page.cursor /\ page.cursor \in 0..Pages /\ page.cursor < Pages
    BY <1>1 DEF DeliveryInv, ImportInv, Checkpoint
  <1>3. page.cursor + 1 \in Events /\ page.cursor + 1 \in 1..Pages
    BY <1>2, QueueAssumption
  <1>4. PICK b \in import[s].scores : Insert(page.cursor + 1, b)
    BY DEF CommitImportPage
  <1>5. b \in EventBodies
    BY DEF DeliveryInv, ImportInv, Reading
  <1>6. /\ QueueInv' /\ FlushInv' /\ admitted \subseteq admitted'
        /\ \E row \in admitted' : row.event = page.cursor + 1
    BY <1>1, <1>3, <1>4, <1>5, InsertKeeps DEF DeliveryInv
  <1>7. /\ next \in Checkpoint
        /\ next.complete <=> page.cursor + 1 = Pages
        /\ ~next.complete => next.revision = next.cursor /\ next.cursor < Pages
                             /\ next.cursor = page.cursor + 1
    <2>1. next = [revision |-> page.revision + 1,
                  cursor |-> IF page.cursor + 1 < Pages THEN page.cursor + 1 ELSE 0,
                  complete |-> page.cursor + 1 = Pages]
      BY DEF Advanced
    <2>2. page.cursor + 1 \in 0..Pages /\ 0 \in 0..Pages
      BY <1>2, QueueAssumption
    <2>3. next \in Checkpoint
      BY <1>2, <2>1, <2>2 DEF Checkpoint
    <2>4. next.complete = (page.cursor + 1 = Pages)
      BY Zenon DEF Advanced
    <2>5. ASSUME ~next.complete
          PROVE  next.revision = page.cursor + 1 /\ next.cursor = page.cursor + 1
                 /\ page.cursor + 1 < Pages
      <3>1. page.cursor + 1 # Pages
        BY <2>4, <2>5
      <3>2. page.cursor + 1 < Pages
        BY <1>2, <3>1, QueueAssumption
      <3> QED
        BY <1>2, <2>1, <3>2
    <2> QED
      BY <2>3, <2>4, <2>5
  <1>8. \A n \in 1..Pages : next.complete \/ n <= next.cursor
           => n <= page.cursor \/ n = page.cursor + 1
    BY <1>2, <1>7, QueueAssumption
  <1>9. WindowImported'
    BY <1>1, <1>6, <1>8 DEF DeliveryInv, ImportInv, WindowImported
  <1>10. import' \in [Senders -> Reading]
         /\ \A u \in Senders : import'[u].at # "idle" => ~import'[u].checkpoint.complete
    <2> DEFINE i == [NoImport EXCEPT !.at = "read", !.checkpoint = next]
    <2>1. NoImport \in Reading /\ NoImport.at = "idle"
      BY QueueAssumption DEF NoImport, Reading, StartOfImport, Checkpoint
    <2>2. i \in Reading /\ i.checkpoint = next
      BY <1>7, <2>1 DEF NoImport, Reading
    <2>3. \/ import' = [import EXCEPT ![s] = NoImport]
          \/ ~next.complete /\ import' = [import EXCEPT ![s] = i]
      BY DEF CommitImportPage
    <2> QED
      BY <2>1, <2>2, <2>3 DEF DeliveryInv, ImportInv
  <1>11. ImportInv'
    BY <1>1, <1>7, <1>9, <1>10 DEF ImportInv
  <1> QED
    BY <1>6, <1>11 DEF DeliveryInv

LEMMA DeliveryKeeps == DeliveryInv /\ [DeliveryNext]_delivery => DeliveryInv'
  <1> SUFFICES ASSUME DeliveryInv, [DeliveryNext]_delivery PROVE DeliveryInv'
    OBVIOUS
  <1> USE DEF DeliveryInv
  <1>1. ASSUME NEW e \in Events, NEW b \in EventBodies, Enqueue(e, b) PROVE DeliveryInv'
    BY <1>1, InsertKeeps, ImportStays DEF Enqueue
  <1>2. ASSUME NEW s \in Senders, StartFlush(s) PROVE DeliveryInv'
    BY <1>2, StartFlushKeeps, ImportStays DEF StartFlush
  <1>3. ASSUME NEW s \in Senders, EndFlush(s) PROVE DeliveryInv'
    BY <1>3, QueueStays, FlushEnds, ImportStays DEF EndFlush
  <1>4. ASSUME NEW s \in Senders, NEW row \in flush[s].rows, SubmitRecord(s, row)
        PROVE  DeliveryInv'
    BY <1>4, SubmitKeeps, ImportStays DEF SubmitRecord
  <1>5. ASSUME NEW s \in Senders, NEW row \in flush[s].rows, Unanswered(s, row)
        PROVE  DeliveryInv'
    BY <1>5, UnansweredKeeps, ImportStays DEF Unanswered
  <1>6. ASSUME NEW s \in Senders, NEW row \in flush[s].rows, Refused(s, row)
        PROVE  DeliveryInv'
    BY <1>6, QueueStays, FlushEnds, ImportStays DEF Refused
  <1>7. ASSUME NEW s \in Senders, NEW row \in flush[s].rows, RemoveDelivered(s, row)
        PROVE  DeliveryInv'
    BY <1>7, RemoveKeeps, ImportStays DEF RemoveDelivered
  <1>8. ASSUME NEW s \in Senders, StartImport(s) \/ ReadPage(s) \/ StopImport(s)
        PROVE  DeliveryInv'
    <2>1. UNCHANGED <<pending, lastRow, admitted, api, flush>>
      BY <1>8 DEF StartImport, ReadPage, StopImport
    <2>2. FlushInv'
      BY <2>1 DEF FlushInv, Delivered, NextUp
    <2> QED
      BY <1>8, <2>1, <2>2, QueueStays, ImportCallKeeps
  <1>9. ASSUME NEW s \in Senders, CommitImportPage(s) PROVE DeliveryInv'
    BY <1>9, CommitPageKeeps
  <1>10. ASSUME NEW s \in Senders, SenderDies(s) PROVE DeliveryInv'
    <2>1. QueueInv' /\ FlushInv'
      BY <1>10, QueueStays, FlushEnds DEF SenderDies
    <2>2. NoImport \in Reading /\ NoImport.at = "idle"
      BY QueueAssumption DEF NoImport, Reading, StartOfImport, Checkpoint
    <2>3. ImportInv'
      BY <1>10, <2>2 DEF SenderDies, ImportInv, WindowImported
    <2> QED
      BY <2>1, <2>3
  <1>11. CASE UNCHANGED delivery
    <2>1. FlushInv'
      BY <1>11 DEF delivery, FlushInv, Delivered, NextUp
    <2> QED
      BY <1>11, <2>1, QueueStays, ImportStays DEF delivery
  <1> QED
    BY <1>1, <1>2, <1>3, <1>4, <1>5, <1>6, <1>7, <1>8, <1>9, <1>10, <1>11 DEF DeliveryNext

THEOREM DeliveryHolds == DeliverySpec => []DeliveryInv
  BY DeliveryBegins, DeliveryKeeps, PTL DEF DeliverySpec

\* The types of the queue: in particular it never holds more than it may, and
\* a flush never sends a record more often than the client's attempts.
THEOREM DeliveryTypes == DeliverySpec => []DeliveryTypeOK
  <1>1. DeliveryInv => DeliveryTypeOK
    BY QueueAssumption DEF DeliveryInv, QueueInv, QueueTypes, FlushInv, ImportInv, Flight, Reading,
                           DeliveryTypeOK
  <1> QED
    BY <1>1, DeliveryHolds, PTL

\* A record that was queued waits until the API has it, is never passed over,
\* and an import never runs ahead of its records (enqueue, flush,
\* commitImportPage), for any number of processes, retries and deaths.
THEOREM DeliveriesAreKept == DeliverySpec => []DeliveriesKept
  <1>1. DeliveryInv => DeliveriesKept
    BY DEF DeliveryInv, QueueInv, ImportInv, DeliveriesKept
  <1> QED
    BY <1>1, DeliveryHolds, PTL

-----------------------------------------------------------------------------
(* The capped relayer. *)

\* The entries of a list in the hour before that of entry i, on its day.
HourUpTo(list, i) == {j \in Today(list, list[i].day) : list[j].at \in list[i].at - 1 .. list[i].at}

\* A list of reservations keeps to the caps, whether they were broadcast or not.
ListCapped(list) ==
    /\ \A d \in 0..MaxHour : Reserved(list, Today(list, d)) <= MaxDailySpend
    /\ \A i \in DOMAIN list : Cardinality(HourUpTo(list, i)) <= MaxTransactionsPerHour

\* What the caps said of the price still holds when the entry is made, however
\* late that is.
QuoteHolds ==
    relaying.step = "quoted" =>
       LET today == Today(reservations, relaying.day) IN
       /\ Reserved(reservations, today) + relaying.wei <= MaxDailySpend
       /\ Cardinality({i \in today : reservations[i].at >= hour - 1}) < MaxTransactionsPerHour

FileIsPrefix ==
    /\ Len(budgetFile) <= Len(reservations)
    /\ \A i \in DOMAIN budgetFile : budgetFile[i] = reservations[i]
    /\ relaying.step \in {"reserved", "sent"} =>
          Len(budgetFile) = Len(reservations) /\ reservations # <<>>

RelayerInv ==
    /\ RelayerTypeOK
    /\ \A i \in DOMAIN reservations : reservations[i].at <= hour
    /\ ListCapped(reservations) /\ QuoteHolds /\ FileIsPrefix
    /\ broadcast \subseteq DOMAIN budgetFile

LEMMA TodayFinite ==
  ASSUME NEW list \in Seq(Reservation), NEW d
  PROVE  IsFiniteSet(Today(list, d)) /\ Today(list, d) \subseteq DOMAIN list
  <1>1. IsFiniteSet(1..Len(list)) /\ DOMAIN list = 1..Len(list)
    BY FS_Interval
  <1> QED
    BY <1>1, FS_Subset DEF Today

LEMMA WeiIs ==
  ASSUME NEW list \in Seq(Reservation), NEW i \in DOMAIN list
  PROVE  /\ list[i] \in Reservation /\ list[i].wei \in Nat /\ list[i].at \in Nat
         /\ list[i].day \in 0..MaxHour /\ [j \in DOMAIN list |-> list[j].wei][i] = list[i].wei
  <1>1. list[i] \in Reservation
    OBVIOUS
  <1> QED
    BY <1>1, RelayerAssumption DEF Reservation

LEMMA ShorterDomain ==
  ASSUME NEW file \in Seq(Reservation), NEW list \in Seq(Reservation), Len(file) <= Len(list)
  PROVE  DOMAIN file \subseteq DOMAIN list
  <1>1. DOMAIN file = 1..Len(file) /\ DOMAIN list = 1..Len(list) /\ Len(file) \in Nat /\ Len(list) \in Nat
    OBVIOUS
  <1> QED
    BY <1>1

\* Part of a list that keeps to the caps keeps to them.
LEMMA PrefixCapped ==
  ASSUME NEW list \in Seq(Reservation), ListCapped(list), NEW head \in Seq(Reservation),
         Len(head) <= Len(list), \A i \in DOMAIN head : head[i] = list[i]
  PROVE  /\ ListCapped(head)
         /\ \A d \in 0..MaxHour : \A S \in SUBSET Today(head, d) : Reserved(head, S) <= MaxDailySpend
  <1>1. DOMAIN head \subseteq DOMAIN list
    BY ShorterDomain
  <1>2. ASSUME NEW d \in 0..MaxHour, NEW S \in SUBSET Today(head, d)
        PROVE  Reserved(head, S) <= MaxDailySpend
    <2> DEFINE f == [j \in DOMAIN head |-> head[j].wei]
               g == [j \in DOMAIN list |-> list[j].wei]
               T == Today(list, d)
    <2>1. S \subseteq T /\ \A j \in S : f[j] = g[j]
      BY <1>1 DEF Today
    <2>2. IsFiniteSet(T) /\ \A j \in T : g[j] \in Nat
      BY TodayFinite, WeiIs
    <2>3. Total(f, S) = Total(g, S)
      <3> HIDE DEF f, g
      <3> QED
        BY <2>1, TotalSame
    <2>4. IsFiniteSet(S)
      BY <2>1, <2>2, FS_Subset
    <2>5. Total(g, S) <= Total(g, T) /\ Total(g, S) \in Nat /\ Total(g, T) \in Nat
      <3> HIDE DEF g, T
      <3>1. \A j \in S : g[j] \in Nat
        BY <2>1, <2>2
      <3> QED
        BY <2>1, <2>2, <2>4, <3>1, TotalSubset, TotalType
    <2>6. Total(g, T) <= MaxDailySpend
      BY DEF ListCapped, Reserved
    <2> QED
      BY <2>3, <2>5, <2>6, RelayerAssumption DEF Reserved
  <1>3. ASSUME NEW d \in 0..MaxHour PROVE Reserved(head, Today(head, d)) <= MaxDailySpend
    BY <1>2
  <1>4. ASSUME NEW i \in DOMAIN head PROVE Cardinality(HourUpTo(head, i)) <= MaxTransactionsPerHour
    <2>1. HourUpTo(head, i) \subseteq HourUpTo(list, i)
      BY <1>1 DEF HourUpTo, Today
    <2>2. IsFiniteSet(HourUpTo(list, i))
      <3>1. IsFiniteSet(Today(list, list[i].day)) /\ HourUpTo(list, i) \subseteq Today(list, list[i].day)
        BY TodayFinite DEF HourUpTo
      <3> QED
        BY <3>1, FS_Subset
    <2>3. /\ Cardinality(HourUpTo(head, i)) <= Cardinality(HourUpTo(list, i))
          /\ Cardinality(HourUpTo(head, i)) \in Nat /\ Cardinality(HourUpTo(list, i)) \in Nat
      BY <2>1, <2>2, FS_Subset, FS_CardinalityType
    <2>4. Cardinality(HourUpTo(list, i)) <= MaxTransactionsPerHour
      BY <1>1 DEF ListCapped
    <2> QED
      BY <2>3, <2>4, RelayerAssumption
  <1> QED
    BY <1>2, <1>3, <1>4 DEF ListCapped

LEMMA RelayerBegins == RelayerInit => RelayerInv
  <1> SUFFICES ASSUME RelayerInit PROVE RelayerInv
    OBVIOUS
  <1>1. /\ budgetFile = <<>> /\ reservations = <<>> /\ hour = 0 /\ waiting = 0
        /\ relaying = NoRelay /\ broadcast = {} /\ DOMAIN reservations = {} /\ DOMAIN budgetFile = {}
    BY DEF RelayerInit
  <1>2. relaying \in [step: {"idle", "quoted", "reserved", "sent"}, day: 0..MaxHour, wei: 1..MaxQuote]
        /\ relaying.step = "idle"
    BY <1>1, RelayerAssumption DEF NoRelay
  <1>3. RelayerTypeOK
    BY <1>1, <1>2, RelayerAssumption DEF RelayerTypeOK
  <1>4. ASSUME NEW d PROVE Reserved(reservations, Today(reservations, d)) = 0
    <2>1. Today(reservations, d) = {}
      BY <1>1 DEF Today
    <2> QED
      BY <2>1, TotalEmpty DEF Reserved
  <1>5. ListCapped(reservations)
    BY <1>1, <1>4, RelayerAssumption DEF ListCapped
  <1> QED
    BY <1>1, <1>2, <1>3, <1>5 DEF RelayerInv, QuoteHolds, FileIsPrefix

\* What the caps are asked of the entries the process knows.
CapsAllow(list, day, now, wei) ==
    /\ Reserved(list, Today(list, day)) + wei <= MaxDailySpend
    /\ Cardinality({i \in Today(list, day) : list[i].at >= now - 1}) < MaxTransactionsPerHour

\* An entry made while there is room for it leaves the list within the caps.
LEMMA EntryFits ==
  ASSUME NEW list \in Seq(Reservation), ListCapped(list),
         NEW now \in 0..MaxHour, \A i \in DOMAIN list : list[i].at <= now,
         NEW day \in 0..MaxHour, NEW wei \in 1..MaxQuote, CapsAllow(list, day, now, wei),
         NEW more, more = Append(list, [day |-> day, at |-> now, wei |-> wei])
  PROVE  ListCapped(more) /\ \A i \in DOMAIN more : more[i].at <= now
  <1> DEFINE n == Len(list) + 1
             f == [i \in DOMAIN list |-> list[i].wei]
             g == [i \in DOMAIN more |-> more[i].wei]
  <1>1. /\ n \notin DOMAIN list /\ DOMAIN more = DOMAIN list \cup {n}
        /\ \A i \in DOMAIN list : more[i] = list[i]
        /\ more[n] = [day |-> day, at |-> now, wei |-> wei]
    BY SMTT(20) DEF Reservation
  <1>2. more \in Seq(Reservation)
    <2>1. [day |-> day, at |-> now, wei |-> wei] \in Reservation
      BY DEF Reservation
    <2> QED
      BY <2>1
  <1>3. now \in Nat /\ wei \in Nat /\ more[n].day = day /\ more[n].at = now /\ more[n].wei = wei
    BY <1>1, RelayerAssumption
  <1> HIDE DEF n
  <1>4. /\ Today(more, day) = Today(list, day) \cup {n}
        /\ \A d : d # day => Today(more, d) = Today(list, d)
    BY <1>1, <1>3 DEF Today
  <1>5. \A d : Reserved(more, Today(list, d)) = Reserved(list, Today(list, d))
    <2> TAKE d
    <2>1. \A i \in Today(list, d) : g[i] = f[i]
      BY <1>1 DEF Today
    <2> HIDE DEF f, g
    <2>2. Total(g, Today(list, d)) = Total(f, Today(list, d))
      BY <2>1, TotalSame
    <2> QED
      BY <2>2 DEF Reserved, f, g
  <1>6. Reserved(more, Today(more, day)) = Reserved(list, Today(list, day)) + wei
    <2>1. n \notin Today(list, day) /\ IsFiniteSet(Today(list, day))
      BY <1>1, TodayFinite DEF Today
    <2>2. \A i \in Today(list, day) \cup {n} : g[i] \in Nat
      BY <1>1, <1>2, WeiIs DEF Today
    <2>3. g[n] = wei
      BY <1>1, <1>3
    <2> HIDE DEF g
    <2>4. Total(g, Today(list, day) \cup {n}) = Total(g, Today(list, day)) + g[n]
      BY <2>1, <2>2, TotalAdd
    <2> QED
      BY <2>3, <2>4, <1>4, <1>5 DEF Reserved, g
  <1>7. \A d \in 0..MaxHour : Reserved(more, Today(more, d)) <= MaxDailySpend
    <2> TAKE d \in 0..MaxHour
    <2>1. CASE d = day
      BY <2>1, <1>6 DEF CapsAllow
    <2>2. CASE d # day
      BY <2>2, <1>4, <1>5 DEF ListCapped
    <2> QED
      BY <2>1, <2>2
  <1>8. Cardinality(HourUpTo(more, n)) <= MaxTransactionsPerHour
    <2> DEFINE late == {i \in Today(list, day) : list[i].at >= now - 1}
    <2>1. IsFiniteSet(late) /\ n \notin late
      <3>1. IsFiniteSet(Today(list, day)) /\ late \subseteq Today(list, day) /\ n \notin Today(list, day)
        BY TodayFinite, <1>1 DEF Today
      <3> QED
        BY <3>1, FS_Subset
    <2>2. HourUpTo(more, n) \subseteq late \cup {n}
      <3> SUFFICES ASSUME NEW j \in HourUpTo(more, n), j # n PROVE j \in late
        OBVIOUS
      <3>1. j \in Today(more, day) /\ more[j].at \in now - 1 .. now
        BY <1>3 DEF HourUpTo
      <3>2. j \in Today(list, day) /\ more[j] = list[j] /\ j \in DOMAIN list
        BY <3>1, <1>1, <1>4 DEF Today
      <3>3. list[j].at >= now - 1
        BY <3>1, <3>2, <1>3
      <3> QED
        BY <3>2, <3>3
    <2>3. IsFiniteSet(late \cup {n}) /\ Cardinality(late \cup {n}) = Cardinality(late) + 1
      BY <2>1, FS_AddElement
    <2>4. /\ Cardinality(HourUpTo(more, n)) <= Cardinality(late \cup {n})
          /\ Cardinality(HourUpTo(more, n)) \in Nat /\ Cardinality(late) \in Nat
      BY <2>1, <2>2, <2>3, FS_Subset, FS_CardinalityType
    <2>5. Cardinality(late) < MaxTransactionsPerHour
      BY DEF CapsAllow
    <2>6. ASSUME NEW a \in Nat, NEW b \in Nat, NEW c, c = b + 1, a <= c, b < MaxTransactionsPerHour
          PROVE  a <= MaxTransactionsPerHour
      BY <2>6, RelayerAssumption
    <2> HIDE DEF late
    <2> QED
      BY <2>3, <2>4, <2>5, <2>6
  <1>9. ASSUME NEW i \in DOMAIN list
        PROVE  Cardinality(HourUpTo(more, i)) <= MaxTransactionsPerHour
    <2>1. /\ more[i] = list[i] /\ more[i].at = list[i].at /\ more[i].day = list[i].day
          /\ list[i].at \in Nat /\ list[i].at <= now
      BY <1>1, WeiIs
    <2>2. CASE list[i].at = now /\ list[i].day = day
      <3>1. HourUpTo(more, i) = HourUpTo(more, n)
        BY <2>1, <2>2, <1>3 DEF HourUpTo
      <3> QED
        BY <3>1, <1>8
    <2>3. CASE ~(list[i].at = now /\ list[i].day = day)
      <3>1. n \notin HourUpTo(more, i)
        <4>1. CASE list[i].day # day
          BY <4>1, <2>1, <1>1, <1>3 DEF HourUpTo, Today
        <4>2. CASE list[i].at # now
          <5>1. ~(now \in list[i].at - 1 .. list[i].at)
            BY <4>2, <2>1, <1>3
          <5> QED
            BY <5>1, <2>1, <1>3 DEF HourUpTo
        <4> QED
          BY <2>3, <4>1, <4>2
      <3>2. HourUpTo(more, i) = HourUpTo(list, i)
        <4>1. HourUpTo(more, i) \subseteq DOMAIN more /\ HourUpTo(list, i) \subseteq DOMAIN list
          BY DEF HourUpTo, Today
        <4>2. \A j \in DOMAIN list : j \in HourUpTo(more, i) <=> j \in HourUpTo(list, i)
          BY <1>1, <2>1 DEF HourUpTo, Today
        <4> QED
          BY <4>1, <4>2, <3>1, <1>1
      <3> QED
        BY <3>2 DEF ListCapped
    <2> QED
      BY <2>2, <2>3
  <1>10. ListCapped(more)
    BY <1>1, <1>7, <1>8, <1>9 DEF ListCapped
  <1> QED
    BY <1>1, <1>3, <1>10

LEMMA RelayerGoesOn == RelayerInv /\ [RelayerNext]_relayer => RelayerInv'
  <1> SUFFICES ASSUME RelayerInv, [RelayerNext]_relayer PROVE RelayerInv'
    OBVIOUS
  <1> DEFINE Early(list, now) == \A i \in DOMAIN list : list[i].at <= now
             Quoted(list, call, now) == call.step = "quoted" => CapsAllow(list, call.day, now, call.wei)
             Prefix(file, list, call) ==
                /\ Len(file) <= Len(list)
                /\ \A i \in DOMAIN file : file[i] = list[i]
                /\ call.step \in {"reserved", "sent"} => Len(file) = Len(list) /\ list # <<>>
             Call == [step: {"idle", "quoted", "reserved", "sent"}, day: 0..MaxHour, wei: 1..MaxQuote]
  <1>1. /\ RelayerTypeOK /\ Early(reservations, hour) /\ ListCapped(reservations)
        /\ Quoted(reservations, relaying, hour) /\ Prefix(budgetFile, reservations, relaying)
        /\ broadcast \subseteq DOMAIN budgetFile
    BY DEF RelayerInv, QuoteHolds, FileIsPrefix, CapsAllow
  <1> DEFINE StillGood == /\ RelayerTypeOK' /\ Early(reservations', hour') /\ ListCapped(reservations')
                     /\ Quoted(reservations', relaying', hour')
                     /\ Prefix(budgetFile', reservations', relaying')
                     /\ broadcast' \subseteq DOMAIN budgetFile'
  <1>2. SUFFICES StillGood
    BY DEF RelayerInv, QuoteHolds, FileIsPrefix, CapsAllow, ListCapped, HourUpTo, Today, Reserved
  <1>3. /\ reservations \in Seq(Reservation) /\ budgetFile \in Seq(Reservation)
        /\ relaying \in Call /\ hour \in 0..MaxHour /\ hour \in Nat /\ MaxHour \in Nat
    BY <1>1, RelayerAssumption DEF RelayerTypeOK
  <1>4. NoRelay \in Call /\ NoRelay.step = "idle"
    BY RelayerAssumption DEF NoRelay
  <1>5. CASE SubmitRelay
    <2>1. RelayerTypeOK'
      BY <1>1, <1>5, RelayerAssumption DEF RelayerTypeOK, SubmitRelay
    <2> QED
      BY <2>1, <1>1, <1>5 DEF SubmitRelay
  <1>6. ASSUME NEW wei \in 1..MaxQuote, Quote(wei) PROVE RelayerTypeOK' /\ Quoted(reservations', relaying', hour') /\ relaying'.step \in {"idle", "quoted"}
    <2>1. CurrentDay \in 0..MaxHour
      BY <1>3, RelayerAssumption DEF CurrentDay
    <2>2. waiting' \in 0..MaxCalls
      BY <1>1, <1>6, RelayerAssumption DEF Quote, RelayerTypeOK
    <2>3. CASE WithinCaps(wei)
      <3>1. relaying' = [step |-> "quoted", day |-> CurrentDay, wei |-> wei]
        BY <2>3, <1>6 DEF Quote
      <3>2. relaying' \in Call /\ relaying'.step = "quoted" /\ relaying'.day = CurrentDay /\ relaying'.wei = wei
        BY <3>1, <2>1
      <3>3. CapsAllow(reservations, CurrentDay, hour, wei)
        BY <2>3 DEF WithinCaps, CapsAllow
      <3> QED
        BY <3>2, <3>3, <2>2, <1>1, <1>6 DEF Quote, RelayerTypeOK
    <2>4. CASE ~WithinCaps(wei)
      BY <2>2, <2>4, <1>1, <1>4, <1>6 DEF Quote, RelayerTypeOK
    <2> QED
      BY <2>3, <2>4
  <1>7. ASSUME NEW wei \in 1..MaxQuote, Quote(wei) PROVE StillGood
    <2>1. UNCHANGED <<hour, budgetFile, reservations, broadcast>>
      BY <1>7 DEF Quote
    <2> QED
      BY <2>1, <1>1, <1>6, <1>7
  <1>8. CASE Reserve
    <2> DEFINE entry == [day |-> relaying.day, at |-> hour, wei |-> relaying.wei]
    <2>1. /\ relaying.step = "quoted" /\ reservations' = Append(reservations, entry)
          /\ hour' = hour /\ waiting' = waiting /\ broadcast' = broadcast
          /\ relaying.day \in 0..MaxHour /\ relaying.wei \in 1..MaxQuote
      BY <1>3, <1>8 DEF Reserve
    <2>2. CapsAllow(reservations, relaying.day, hour, relaying.wei)
      BY <1>1, <2>1
    <2>3. ListCapped(reservations') /\ Early(reservations', hour)
      <3> HIDE DEF Call
      <3> QED
        BY <1>1, <1>3, <2>1, <2>2, EntryFits
    <2>4. entry \in Reservation
      BY <1>3, <2>1 DEF Reservation
    <2>5. /\ reservations' \in Seq(Reservation) /\ Len(reservations') = Len(reservations) + 1
          /\ \A i \in DOMAIN reservations : reservations'[i] = reservations[i]
          /\ reservations' # <<>>
      <3> HIDE DEF entry, Call
      <3> QED
        BY <1>3, <2>1, <2>4
    <2>6. CASE budgetFile' = reservations' /\ relaying' = [relaying EXCEPT !.step = "reserved"]
      <3>1. relaying' \in Call /\ relaying'.step = "reserved"
        BY <1>3, <2>6
      <3>2. RelayerTypeOK'
        BY <1>1, <2>1, <2>5, <2>6, <3>1 DEF RelayerTypeOK
      <3>3. DOMAIN budgetFile \subseteq DOMAIN budgetFile'
        <4>1. /\ Len(budgetFile) <= Len(reservations)
              /\ Len(budgetFile) \in Nat /\ Len(reservations) \in Nat
          BY <1>1, <1>3
        <4>2. Len(budgetFile) <= Len(reservations')
          BY <4>1, <2>5
        <4> QED
          BY <4>2, <1>3, <2>5, <2>6, ShorterDomain
      <3> HIDE DEF Call, entry
      <3>4. Prefix(budgetFile', reservations', relaying')
        BY <2>5, <2>6
      <3> QED
        BY <3>1, <3>2, <3>3, <3>4, <1>1, <2>1, <2>3, <2>6
    <2>7. CASE budgetFile' = budgetFile /\ relaying' = NoRelay
      <3>1. RelayerTypeOK'
        BY <1>1, <1>4, <2>1, <2>5, <2>7 DEF RelayerTypeOK
      <3> HIDE DEF Call, entry
      <3>2. Prefix(budgetFile', reservations', relaying')
        <4>1. DOMAIN budgetFile \subseteq DOMAIN reservations
          BY <1>1, <1>3, ShorterDomain
        <4>2. Len(budgetFile) <= Len(reservations')
          <5>1. /\ Len(budgetFile) <= Len(reservations)
                /\ Len(budgetFile) \in Nat /\ Len(reservations) \in Nat
            BY <1>1, <1>3
          <5> QED
            BY <5>1, <2>5
        <4>3. \A i \in DOMAIN budgetFile : budgetFile[i] = reservations'[i]
          BY <4>1, <1>1, <2>5
        <4> QED
          BY <4>2, <4>3, <1>4, <2>7
      <3> QED
        BY <3>1, <3>2, <1>1, <1>4, <2>1, <2>3, <2>7
    <2> QED
      BY <2>6, <2>7, <1>8 DEF Reserve
  <1>9. CASE SendTransaction
    <2>1. relaying' \in Call /\ relaying'.step = "sent" /\ relaying.step = "reserved"
      BY <1>3, <1>9 DEF SendTransaction
    <2>2. Len(reservations) \in DOMAIN budgetFile /\ Len(reservations) \in Nat
      <3>1. Len(budgetFile) = Len(reservations) /\ reservations # <<>>
        BY <1>1, <2>1
      <3> QED
        BY <1>3, <3>1
    <2>3. broadcast' \subseteq DOMAIN budgetFile /\ broadcast' \subseteq Nat
      BY <2>2, <1>1, <1>9 DEF SendTransaction, RelayerTypeOK
    <2>4. RelayerTypeOK'
      BY <1>1, <1>9, <2>1, <2>3 DEF RelayerTypeOK, SendTransaction
    <2> HIDE DEF Call
    <2> QED
      BY <1>1, <1>9, <2>1, <2>3, <2>4 DEF SendTransaction
  <1>10. CASE NoteOutcome
    <2>1. /\ relaying.step = "sent" /\ relaying' = NoRelay /\ budgetFile' \in {budgetFile, reservations}
          /\ UNCHANGED <<hour, reservations, waiting, broadcast>>
      BY <1>10 DEF NoteOutcome
    <2>2. RelayerTypeOK'
      BY <1>1, <1>4, <2>1 DEF RelayerTypeOK
    <2>3. Len(budgetFile) = Len(reservations) /\ DOMAIN budgetFile = DOMAIN reservations
      BY <1>1, <1>3, <2>1
    <2>4. Prefix(budgetFile', reservations', relaying') /\ DOMAIN budgetFile' = DOMAIN budgetFile
      BY <1>1, <1>3, <1>4, <2>1, <2>3
    <2> QED
      BY <1>1, <1>4, <2>1, <2>2, <2>4
  <1>11. CASE RestartRelayer
    <2>1. /\ relaying' = NoRelay /\ waiting' = 0 /\ reservations' = budgetFile
          /\ UNCHANGED <<hour, budgetFile, broadcast>>
      BY <1>11 DEF RestartRelayer
    <2>2. RelayerTypeOK'
      BY <1>1, <1>4, <2>1, RelayerAssumption DEF RelayerTypeOK
    <2>3. ListCapped(budgetFile)
      BY <1>1, <1>3, PrefixCapped
    <2>4. Early(budgetFile, hour)
      <3>1. DOMAIN budgetFile \subseteq DOMAIN reservations
        BY <1>1, <1>3, ShorterDomain
      <3> QED
        BY <3>1, <1>1
    <2>5. Prefix(budgetFile', reservations', relaying')
      BY <1>3, <1>4, <2>1
    <2> QED
      BY <1>1, <1>4, <2>1, <2>2, <2>3, <2>4, <2>5
  <1>12. CASE NextHour
    <2>1. /\ hour' = hour + 1 /\ hour' \in 0..MaxHour
          /\ UNCHANGED <<budgetFile, reservations, waiting, relaying, broadcast>>
      BY <1>3, <1>12 DEF NextHour
    <2>2. RelayerTypeOK'
      BY <1>1, <2>1 DEF RelayerTypeOK
    <2>3. Early(reservations, hour')
      BY <1>1, <1>3, <2>1, WeiIs
    <2>4. Quoted(reservations, relaying, hour')
      <3> SUFFICES ASSUME relaying.step = "quoted" PROVE CapsAllow(reservations, relaying.day, hour', relaying.wei)
        OBVIOUS
      <3> DEFINE today == Today(reservations, relaying.day)
                 old == {i \in today : reservations[i].at >= hour - 1}
                 new == {i \in today : reservations[i].at >= hour' - 1}
      <3>1. \A i \in today : reservations[i].at \in Nat
        BY <1>3, WeiIs DEF Today
      <3>2. new \subseteq old /\ old \subseteq today
        BY <1>3, <2>1, <3>1
      <3>3. IsFiniteSet(old)
        <4>1. IsFiniteSet(today)
          BY <1>3, TodayFinite
        <4> QED
          BY <3>2, <4>1, FS_Subset
      <3>4. /\ Cardinality(new) <= Cardinality(old)
            /\ Cardinality(new) \in Nat /\ Cardinality(old) \in Nat
        BY <3>2, <3>3, FS_Subset, FS_CardinalityType
      <3>5. Cardinality(old) < MaxTransactionsPerHour
            /\ Reserved(reservations, today) + relaying.wei <= MaxDailySpend
        BY <1>1 DEF CapsAllow
      <3>6. Cardinality(new) < MaxTransactionsPerHour
        <4> HIDE DEF new, old
        <4> QED
          BY <3>4, <3>5, RelayerAssumption
      <3> QED
        BY <3>5, <3>6 DEF CapsAllow
    <2> QED
      BY <1>1, <2>1, <2>2, <2>3, <2>4
  <1>13. CASE UNCHANGED relayer
    <2>1. RelayerTypeOK'
      BY <1>1, <1>13 DEF RelayerTypeOK, relayer
    <2> QED
      BY <1>1, <1>13, <2>1 DEF relayer
  <1> HIDE DEF StillGood
  <1> QED
    BY <1>5, <1>7, <1>8, <1>9, <1>10, <1>11, <1>12, <1>13 DEF RelayerNext

\* What may have been broadcast is part of what the file reserves.
LEMMA CappedIsEnough == RelayerInv => BudgetHolds
  <1> SUFFICES ASSUME RelayerInv PROVE BudgetHolds
    OBVIOUS
  <1>1. /\ budgetFile \in Seq(Reservation) /\ reservations \in Seq(Reservation)
        /\ ListCapped(reservations) /\ broadcast \subseteq DOMAIN budgetFile
        /\ Len(budgetFile) <= Len(reservations)
        /\ \A i \in DOMAIN budgetFile : budgetFile[i] = reservations[i]
    BY DEF RelayerInv, RelayerTypeOK, FileIsPrefix
  <1>2. /\ ListCapped(budgetFile)
        /\ \A d \in 0..MaxHour : \A S \in SUBSET Today(budgetFile, d) :
              Reserved(budgetFile, S) <= MaxDailySpend
    BY <1>1, PrefixCapped
  <1>3. ASSUME NEW i \in broadcast
        PROVE  LET day == Today(budgetFile, budgetFile[i].day) \cap broadcast
               IN  /\ Reserved(budgetFile, day) <= MaxDailySpend
                   /\ Cardinality({j \in day : budgetFile[j].at \in budgetFile[i].at - 1 .. budgetFile[i].at})
                         <= MaxTransactionsPerHour
    <2> DEFINE day == Today(budgetFile, budgetFile[i].day) \cap broadcast
               near == {j \in day : budgetFile[j].at \in budgetFile[i].at - 1 .. budgetFile[i].at}
    <2>1. i \in DOMAIN budgetFile /\ budgetFile[i].day \in 0..MaxHour
      BY <1>1, WeiIs
    <2>2. Reserved(budgetFile, day) <= MaxDailySpend
      BY <1>2, <2>1
    <2>3. near \subseteq HourUpTo(budgetFile, i)
      BY DEF HourUpTo
    <2>4. IsFiniteSet(HourUpTo(budgetFile, i))
      <3>1. /\ IsFiniteSet(Today(budgetFile, budgetFile[i].day))
            /\ HourUpTo(budgetFile, i) \subseteq Today(budgetFile, budgetFile[i].day)
        BY <1>1, TodayFinite DEF HourUpTo
      <3> QED
        BY <3>1, FS_Subset
    <2>5. /\ Cardinality(near) <= Cardinality(HourUpTo(budgetFile, i))
          /\ Cardinality(near) \in Nat /\ Cardinality(HourUpTo(budgetFile, i)) \in Nat
      BY <2>3, <2>4, FS_Subset, FS_CardinalityType
    <2>6. Cardinality(HourUpTo(budgetFile, i)) <= MaxTransactionsPerHour
      BY <1>2, <2>1 DEF ListCapped
    <2>7. Cardinality(near) <= MaxTransactionsPerHour
      <3> HIDE DEF near
      <3> QED
        BY <2>5, <2>6, RelayerAssumption
    <2> QED
      BY <2>2, <2>7
  <1> QED
    BY <1>1, <1>3 DEF BudgetHolds

\* However often the relayer stops between a reservation and its broadcast, and
\* whatever answers are lost, what may be on the network is in the budget file
\* and keeps to the day's spend and the hour's rate.
THEOREM BudgetStaysWithin == RelayerSpec => [](RelayerTypeOK /\ BudgetHolds)
  <1>1. RelayerInv => RelayerTypeOK /\ BudgetHolds
    BY CappedIsEnough DEF RelayerInv
  <1> QED
    BY <1>1, RelayerBegins, RelayerGoesOn, PTL DEF RelayerSpec

-----------------------------------------------------------------------------
(* The receipt ingress. *)

Queues == [records: [Receipts -> Entries], pending: Seq(Receipts), sequence: 0..MaxPrepared]
BatchFiles == [BatchIds -> Seq(Receipts)]
JournalLine == [sequence: Nat, receipt: Receipts]

\* What a queue says of one receipt, given the prepared batches, the answers
\* to preparations and the batches reported as included.
EntryOK(entry, r, upTo, files, told, reported) ==
    /\ entry.status \in {"unknown", "accepted"} => entry.attempts < MaxBatchAttempts
    /\ entry.status = "queued-for-anchor" => entry.batch \in 1..upTo /\ r \in ToSet(files[entry.batch])
    /\ entry.status = "provisionally-included" =>
          /\ entry.batch \in 1..upTo /\ entry.batch \in reported
          /\ r \in ToSet(told[entry.batch])

QueueOK(q, files, told, reported) ==
    /\ q \in Queues
    /\ \A i \in DOMAIN q.pending : q.records[q.pending[i]].status = "accepted"
    /\ \A r \in Receipts : q.records[r].status = "accepted"
                              => \E i \in DOMAIN q.pending : q.pending[i] = r
    /\ \A i, j \in DOMAIN q.pending : q.pending[i] = q.pending[j] => i = j
    /\ \A r \in Receipts : EntryOK(q.records[r], r, q.sequence, files, told, reported)
    /\ \A b \in BatchIds : told[b] # <<>> => b <= q.sequence

MemoryStates == [queue: Queues, journal: Nat, checkpoint: Nat, batches: BatchFiles]
StoredStates == [queue: Queues, journal: Nat]
RequestStates == [at: {"idle", "append", "prepared", "checkpoint", "truncate", "reconciled", "answer"},
             then: {"idle", "reconciled", "answer"}, receipts: SUBSET Receipts, batch: 0..MaxPrepared]

IngressTypes ==
    /\ memory \in MemoryStates
    /\ stored \in StoredStates /\ QueueTypeOK(stored.queue)
    /\ lines \in Seq(JournalLine) /\ batches \in BatchFiles /\ answered \in BatchFiles
    /\ serving \in RequestStates
    /\ accepted \subseteq Receipts /\ anchors \subseteq BatchIds

\* Every line that a start replays is admitted.
Replayable(point, journal) ==
    \A n \in DOMAIN journal : journal[n].sequence > point.journal
        => Admits(Replay(point, journal)[n - 1], journal[n].receipt)

\* How far the memory is ahead of the files, write by write.
MemoryAhead(now, mem, kept, files, q) ==
    /\ Known(q) \subseteq Known(mem.queue)
    /\ now.at = "append" => \E r \in Receipts :
          now.receipts = {r} /\ Admits(q, r) /\ mem.queue = Enqueued(q, r) /\ kept.journal < mem.journal
    /\ now.at = "prepared" =>
          /\ now.batch = q.sequence + 1 /\ now.batch = mem.queue.sequence
          /\ \A b \in BatchIds \ {now.batch} : mem.batches[b] = files[b]
    /\ now.at # "prepared" => mem.batches = files
    /\ now.at \in {"idle", "truncate", "reconciled", "answer"} => mem.queue = q
    /\ now.at = "truncate" => kept.queue = q
    /\ now.at # "append" => now.receipts \subseteq Known(q)
    /\ now.at # "idle" => now.then # "idle"
    /\ now.batch <= mem.queue.sequence

Journaled(mem, kept, journal) ==
    /\ \A n \in DOMAIN journal : journal[n].sequence <= mem.journal
    /\ kept.journal <= mem.journal

ToldFiles(told, mem, files) ==
    \A b \in BatchIds : told[b] # <<>> => told[b] = files[b] /\ told[b] = mem.batches[b]

IngressInv ==
    /\ IngressTypes
    /\ QueueOK(memory.queue, memory.batches, answered, anchors)
    /\ QueueOK(Recovered, batches, answered, anchors)
    /\ Replayable(stored, lines) /\ Journaled(memory, stored, lines)
    /\ MemoryAhead(serving, memory, stored, batches, Recovered)
    /\ accepted \subseteq Known(Recovered)
    /\ ToldFiles(answered, memory, batches)

\* What holds of 0, and of n whenever it holds of n - 1, holds of all up to L.
LEMMA Climbs ==
  ASSUME NEW L \in Nat, NEW P, 0 \in P, \A n \in 1..L : n - 1 \in P => n \in P
  PROVE  \A n \in 0..L : n \in P
  <1> DEFINE S == {n \in 0..L : \A m \in 0..n : m \in P}
  <1>1. IsFiniteSet(S) /\ S \subseteq Int
    <2>1. IsFiniteSet(0..L)
      BY FS_Interval
    <2>2. S \subseteq 0..L
      OBVIOUS
    <2> QED
      BY <2>1, <2>2, FS_Subset
  <1>2. 0 \in S
    OBVIOUS
  <1> HIDE DEF S
  <1>3. PICK k \in S : \A n \in S : n <= k
    BY <1>1, <1>2, LargestExists
  <1> USE DEF S
  <1>4. CASE k = L
    BY <1>3, <1>4
  <1>5. CASE k # L
    <2>1. k \in Nat /\ k + 1 \in 1..L /\ k \in P
      BY <1>3, <1>5
    <2>2. k + 1 \in P
      BY <2>1
    <2>3. k + 1 \in S
      BY <1>3, <2>1, <2>2
    <2> QED
      BY <1>3, <2>1, <2>3
  <1> QED
    BY <1>4, <1>5

\* A loop of L rounds that starts at first and takes step[n] in round n: the
\* function from rounds to states that a recursive definition of it stands for.
LoopSteps(L, Q) == [1..L -> [Q -> Q]]

HasLoop(L, Q, first, step) ==
    \E f \in [0..L -> Q] : f[0] = first /\ \A n \in 1..L : f[n] = step[n][f[n - 1]]

\* Such a function exists: a run of n - 1 rounds extends to one of n.
LEMMA LoopExists ==
  ASSUME NEW L \in Nat, NEW Q, NEW first \in Q, NEW step \in LoopSteps(L, Q)
  PROVE  HasLoop(L, Q, first, step)
  <1> DEFINE Runs(f, n) == f[0] = first /\ \A m \in 1..n : f[m] = step[m][f[m - 1]]
             P == {n \in 0..L : \E f \in [0..n -> Q] : Runs(f, n)}
  <1>1. 0 \in P
    <2> DEFINE f == [m \in 0..0 |-> first]
    <2>1. f \in [0..0 -> Q] /\ Runs(f, 0)
      OBVIOUS
    <2> HIDE DEF f, Runs
    <2>2. \E h \in [0..0 -> Q] : Runs(h, 0)
      BY <2>1
    <2> QED
      BY <2>2
  <1>2. ASSUME NEW n \in 1..L, n - 1 \in P PROVE n \in P
    <2>1. PICK f \in [0..(n - 1) -> Q] : Runs(f, n - 1)
      BY <1>2
    <2> DEFINE g == [m \in 0..n |-> IF m = n THEN step[n][f[n - 1]] ELSE f[m]]
    <2>2. step[n] \in [Q -> Q] /\ f[n - 1] \in Q
      BY DEF LoopSteps
    <2>3. g \in [0..n -> Q]
      BY <2>2
    <2>4. Runs(g, n)
      <3>1. g[0] = first
        BY <2>1
      <3>2. ASSUME NEW m \in 1..n PROVE g[m] = step[m][g[m - 1]]
        <4>1. CASE m = n
          BY <4>1
        <4>2. CASE m # n
          BY <2>1, <4>2
        <4> QED
          BY <4>1, <4>2
      <3> QED
        BY <3>1, <3>2
    <2> HIDE DEF g
    <2> QED
      BY <2>3, <2>4
  <1> HIDE DEF P
  <1>3. \A n \in 0..L : n \in P
    BY <1>1, <1>2, Climbs
  <1>4. L \in P
    BY <1>3
  <1> QED
    BY <1>4 DEF P, HasLoop

LEMMA TwoFields ==
  ASSUME NEW q \in Queues, NEW r
  PROVE  Enqueued(q, r) = [records |-> [q.records EXCEPT ![r].status = "accepted"],
                           pending |-> Append(q.pending, r), sequence |-> q.sequence]
  <1> DEFINE p == Enqueued(q, r)
  <1>1. p = [q EXCEPT !.records[r].status = "accepted", !.pending = Append(@, r)]
    BY DEF Enqueued
  <1> HIDE DEF p
  <1>2. p.pending = Append(q.pending, r) /\ p.sequence = q.sequence
    BY <1>1 DEF Queues
  <1>3. p.records = [q.records EXCEPT ![r].status = "accepted"]
    BY <1>1 DEF Queues
  <1>4. p = [records |-> p.records, pending |-> p.pending, sequence |-> p.sequence]
    BY <1>1 DEF Queues
  <1>5. p = [records |-> [q.records EXCEPT ![r].status = "accepted"],
             pending |-> Append(q.pending, r), sequence |-> q.sequence]
    BY <1>2, <1>3, <1>4
  <1> QED
    BY <1>5 DEF p

LEMMA OneField ==
  ASSUME NEW q \in Queues, NEW r, NEW s
  PROVE  [q EXCEPT !.records[r].status = s]
           = [records |-> [q.records EXCEPT ![r].status = s], pending |-> q.pending, sequence |-> q.sequence]
  BY DEF Queues

LEMMA EnqueuedIs ==
  ASSUME NEW q \in Queues, NEW r \in Receipts
  PROVE  /\ Enqueued(q, r) \in Queues
         /\ Enqueued(q, r).records = [q.records EXCEPT ![r].status = "accepted"]
         /\ Enqueued(q, r).pending = Append(q.pending, r)
         /\ Enqueued(q, r).sequence = q.sequence
         /\ Known(Enqueued(q, r)) = Known(q) \cup {r}
  <1>1. /\ q.records \in [Receipts -> Entries] /\ q.pending \in Seq(Receipts) /\ q.sequence \in 0..MaxPrepared
        /\ q = [records |-> q.records, pending |-> q.pending, sequence |-> q.sequence]
    BY DEF Queues
  <1> DEFINE records == [q.records EXCEPT ![r].status = "accepted"]
  <1>2. records \in [Receipts -> Entries]
    BY <1>1 DEF Entries, Statuses
  <1>3. Enqueued(q, r) = [records |-> records, pending |-> Append(q.pending, r), sequence |-> q.sequence]
    BY TwoFields
  <1>4. Append(q.pending, r) \in Seq(Receipts)
    BY <1>1
  <1>5. \A s \in Receipts : records[s].status = IF s = r THEN "accepted" ELSE q.records[s].status
    BY <1>1 DEF Entries
  <1> HIDE DEF records
  <1>6. Enqueued(q, r) \in Queues
    BY <1>1, <1>2, <1>3, <1>4 DEF Queues
  <1>7. Known(Enqueued(q, r)) = Known(q) \cup {r}
    BY <1>3, <1>5 DEF Known
  <1>8. /\ Enqueued(q, r).records = records /\ Enqueued(q, r).pending = Append(q.pending, r)
        /\ Enqueued(q, r).sequence = q.sequence
    BY <1>3
  <1> QED
    BY <1>6, <1>7, <1>8 DEF records

LEMMA RecordedIs ==
  ASSUME NEW q \in Queues, NEW r \in Receipts, NEW b, NEW result
  PROVE  Recorded(q, r, b, result) \in Queues
  <1> DEFINE fate == IF result = "included" THEN "provisionally-included" ELSE "failed"
  <1>1. /\ q.records \in [Receipts -> Entries] /\ q.pending \in Seq(Receipts) /\ q.sequence \in 0..MaxPrepared
        /\ q = [records |-> q.records, pending |-> q.pending, sequence |-> q.sequence]
    BY DEF Queues
  <1>2. [q EXCEPT !.records[r].status = fate]
          = [records |-> [q.records EXCEPT ![r].status = fate], pending |-> q.pending, sequence |-> q.sequence]
    BY OneField
  <1>3. [q.records EXCEPT ![r].status = fate] \in [Receipts -> Entries]
    BY <1>1 DEF Entries, Statuses
  <1>4. [q EXCEPT !.records[r].status = fate] \in Queues
    BY <1>1, <1>2, <1>3 DEF Queues
  <1> QED
    BY <1>4, EnqueuedIs DEF Recorded

\* A result is recorded receipt by receipt.
LEMMA RecordLoop ==
  ASSUME NEW q \in Queues, NEW receipts \in Seq(Receipts), NEW b, NEW result
  PROVE  \E f : /\ f[0] = q
                /\ \A n \in 1..Len(receipts) : f[n] = Recorded(f[n - 1], receipts[n], b, result)
                /\ RecordAnchorResult(q, b, receipts, result) = f[Len(receipts)]
  <1> DEFINE L == Len(receipts)
             step == [n \in 1..L |-> [p \in Queues |-> Recorded(p, receipts[n], b, result)]]
             Body(f) == [n \in 0..L |-> IF n = 0 THEN q ELSE Recorded(f[n - 1], receipts[n], b, result)]
             run == CHOOSE f : f = Body(f)
  <1>1. L \in Nat /\ \A n \in 1..L : receipts[n] \in Receipts
    OBVIOUS
  <1>2. step \in [1..L -> [Queues -> Queues]]
    BY <1>1, RecordedIs
  <1> HIDE DEF step, L, run, Body
  <1>3. PICK f \in [0..L -> Queues] : f[0] = q /\ \A n \in 1..L : f[n] = step[n][f[n - 1]]
    <2>1. L \in Nat /\ q \in Queues /\ step \in LoopSteps(L, Queues)
      BY <1>1, <1>2 DEF LoopSteps
    <2>2. HasLoop(L, Queues, q, step)
      BY <2>1, LoopExists
    <2> QED
      BY <2>2 DEF HasLoop
  <1>4. ASSUME NEW n \in 1..L PROVE f[n] = Recorded(f[n - 1], receipts[n], b, result)
    <2>1. n - 1 \in 0..L /\ f[n] = step[n][f[n - 1]]
      BY <1>1, <1>3
    <2>2. f[n - 1] \in Queues
      BY <1>3, <2>1
    <2> QED
      BY <2>1, <2>2 DEF step
  <1>5. f = Body(f)
    <2>1. \A n \in 0..L : f[n] = Body(f)[n]
      BY <1>1, <1>3, <1>4 DEF Body
    <2>2. f = [n \in 0..L |-> f[n]]
      BY <1>3
    <2> QED
      BY <2>1, <2>2 DEF Body
  <1>6. run = Body(run)
    BY <1>5 DEF run
  <1>7. RecordAnchorResult(q, b, receipts, result) = run[L]
    BY DEF RecordAnchorResult, run, Body, L
  <1>8. run[0] = q /\ \A n \in 1..L : run[n] = Recorded(run[n - 1], receipts[n], b, result)
    <2>1. \A n \in 0..L : Body(run)[n] = IF n = 0 THEN q ELSE Recorded(run[n - 1], receipts[n], b, result)
      BY DEF Body
    <2>2. 0 \in 0..L /\ \A n \in 1..L : n \in 0..L /\ n # 0
      BY <1>1
    <2> QED
      BY <1>6, <2>1, <2>2
  <1> QED
    BY <1>7, <1>8 DEF L

\* A start replays the journal line by line.
LEMMA ReplayLoop ==
  ASSUME NEW kept, kept.queue \in Queues, NEW journal \in Seq(JournalLine)
  PROVE  LET f == Replay(kept, journal) IN
         /\ f[0] = kept.queue
         /\ \A n \in 1..Len(journal) :
               f[n] = IF journal[n].sequence > kept.journal
                      THEN Enqueued(f[n - 1], journal[n].receipt) ELSE f[n - 1]
         /\ \A n \in 0..Len(journal) : f[n] \in Queues
  <1> DEFINE L == Len(journal)
             Next1(p, n) == IF journal[n].sequence > kept.journal THEN Enqueued(p, journal[n].receipt) ELSE p
             step == [n \in 1..L |-> [p \in Queues |-> Next1(p, n)]]
             Body(f) == [n \in 0..L |-> IF n = 0 THEN kept.queue
                                        ELSE IF journal[n].sequence > kept.journal
                                        THEN Enqueued(f[n - 1], journal[n].receipt)
                                        ELSE f[n - 1]]
             run == CHOOSE f : f = Body(f)
  <1>1. L \in Nat /\ \A n \in 1..L : journal[n].receipt \in Receipts
    <2>1. \A n \in 1..L : journal[n] \in JournalLine
      OBVIOUS
    <2> QED
      BY <2>1 DEF JournalLine
  <1>2. step \in [1..L -> [Queues -> Queues]]
    BY <1>1, EnqueuedIs DEF Next1
  <1> HIDE DEF step, L, run, Body, Next1
  <1>3. PICK f \in [0..L -> Queues] : f[0] = kept.queue /\ \A n \in 1..L : f[n] = step[n][f[n - 1]]
    <2>1. L \in Nat /\ kept.queue \in Queues /\ step \in LoopSteps(L, Queues)
      BY <1>1, <1>2 DEF LoopSteps
    <2>2. HasLoop(L, Queues, kept.queue, step)
      BY <2>1, LoopExists
    <2> QED
      BY <2>2 DEF HasLoop
  <1>4. ASSUME NEW n \in 1..L PROVE f[n] = Next1(f[n - 1], n)
    <2>1. n - 1 \in 0..L /\ f[n] = step[n][f[n - 1]]
      BY <1>1, <1>3
    <2>2. f[n - 1] \in Queues
      BY <1>3, <2>1
    <2> QED
      BY <2>1, <2>2 DEF step
  <1>5. f = Body(f)
    <2>1. \A n \in 0..L : f[n] = Body(f)[n]
      BY <1>1, <1>3, <1>4 DEF Body, Next1
    <2>2. f = [n \in 0..L |-> f[n]]
      BY <1>3
    <2> QED
      BY <2>1, <2>2 DEF Body
  <1>6. run = Body(run)
    BY <1>5 DEF run
  <1>7. Replay(kept, journal) = run
    BY DEF Replay, run, Body, L
  <1>8. run[0] = kept.queue /\ \A n \in 1..L : run[n] = Next1(run[n - 1], n)
    <2>1. \A n \in 0..L : Body(run)[n] = IF n = 0 THEN kept.queue ELSE Next1(run[n - 1], n)
      BY DEF Body, Next1
    <2>2. 0 \in 0..L /\ \A n \in 1..L : n \in 0..L /\ n # 0
      BY <1>1
    <2> QED
      BY <1>6, <2>1, <2>2
  <1>9. \A n \in 0..L : run[n] \in Queues
    <2> DEFINE P == {n \in 0..L : run[n] \in Queues}
    <2>1. 0 \in P
      BY <1>1, <1>8
    <2>2. ASSUME NEW n \in 1..L, n - 1 \in P PROVE n \in P
      <3>1. run[n - 1] \in Queues /\ n \in 0..L
        BY <1>1, <2>2
      <3>2. Next1(run[n - 1], n) \in Queues
        BY <1>1, <3>1, EnqueuedIs DEF Next1
      <3> QED
        BY <1>8, <3>1, <3>2
    <2>3. \A n \in 0..L : n \in P
      <3> HIDE DEF P
      <3> QED
        BY <1>1, <2>1, <2>2, Climbs
    <2> QED
      BY <2>3
  <1> QED
    BY <1>7, <1>8, <1>9 DEF L, Next1

\* Another line changes nothing of what was replayed before it.
LEMMA ReplayMore ==
  ASSUME NEW kept, kept.queue \in Queues, NEW journal \in Seq(JournalLine), NEW line \in JournalLine,
         NEW more, more = Append(journal, line)
  PROVE  /\ \A n \in 0..Len(journal) : Replay(kept, more)[n] = Replay(kept, journal)[n]
         /\ Replay(kept, more)[Len(more)]
              = IF line.sequence > kept.journal
                THEN Enqueued(Replay(kept, journal)[Len(journal)], line.receipt)
                ELSE Replay(kept, journal)[Len(journal)]
  <1> DEFINE L == Len(journal)
             f == Replay(kept, journal)
             g == Replay(kept, more)
             P == {n \in 0..L : g[n] = f[n]}
  <1>1. /\ L \in Nat /\ more \in Seq(JournalLine) /\ Len(more) = L + 1 /\ more[L + 1] = line
        /\ \A n \in 1..L : more[n] = journal[n]
    OBVIOUS
  <1>2. /\ f[0] = kept.queue /\ g[0] = kept.queue
        /\ \A n \in 1..L : f[n] = IF journal[n].sequence > kept.journal
                                  THEN Enqueued(f[n - 1], journal[n].receipt) ELSE f[n - 1]
        /\ \A n \in 1..(L + 1) : g[n] = IF more[n].sequence > kept.journal
                                        THEN Enqueued(g[n - 1], more[n].receipt) ELSE g[n - 1]
    <2>1. /\ f[0] = kept.queue
          /\ \A n \in 1..L : f[n] = IF journal[n].sequence > kept.journal
                                    THEN Enqueued(f[n - 1], journal[n].receipt) ELSE f[n - 1]
      BY ReplayLoop
    <2>2. /\ g[0] = kept.queue
          /\ \A n \in 1..Len(more) : g[n] = IF more[n].sequence > kept.journal
                                            THEN Enqueued(g[n - 1], more[n].receipt) ELSE g[n - 1]
      BY <1>1, ReplayLoop
    <2> QED
      BY <1>1, <2>1, <2>2
  <1> HIDE DEF f, g
  <1>3. \A n \in 0..L : n \in P
    <2>1. 0 \in P
      BY <1>1, <1>2
    <2>2. ASSUME NEW n \in 1..L, n - 1 \in P PROVE n \in P
      BY <1>1, <1>2, <2>2
    <2> HIDE DEF P
    <2> QED
      BY <1>1, <2>1, <2>2, Climbs
  <1>4. g[L + 1] = IF line.sequence > kept.journal THEN Enqueued(f[L], line.receipt) ELSE f[L]
    BY <1>1, <1>2, <1>3
  <1> QED
    BY <1>1, <1>3, <1>4 DEF f, g

\* A journal of which the checkpoint has everything adds nothing to it.
LEMMA ReplayStale ==
  ASSUME NEW kept, kept.queue \in Queues, kept.journal \in Nat, NEW journal \in Seq(JournalLine),
         \A n \in DOMAIN journal : journal[n].sequence <= kept.journal
  PROVE  Replay(kept, journal)[Len(journal)] = kept.queue
  <1> DEFINE L == Len(journal)
             f == Replay(kept, journal)
             P == {n \in 0..L : f[n] = kept.queue}
  <1>1. L \in Nat /\ \A n \in 1..L : ~(journal[n].sequence > kept.journal)
    <2>1. \A n \in 1..L : journal[n] \in JournalLine
      OBVIOUS
    <2> QED
      BY <2>1 DEF JournalLine
  <1>2. f[0] = kept.queue /\ \A n \in 1..L : f[n] = f[n - 1]
    BY <1>1, ReplayLoop
  <1> HIDE DEF f
  <1>3. 0 \in P
    BY <1>1, <1>2
  <1>4. ASSUME NEW n \in 1..L, n - 1 \in P PROVE n \in P
    BY <1>1, <1>2, <1>4
  <1>5. \A n \in 0..L : n \in P
    <2> HIDE DEF P
    <2> QED
      BY <1>1, <1>3, <1>4, Climbs
  <1> QED
    BY <1>1, <1>5 DEF f

LEMMA StatusSet ==
  ASSUME NEW records \in [Receipts -> Entries], NEW r \in Receipts, NEW status, NEW new,
         new = [records EXCEPT ![r].status = status]
  PROVE  \A s \in Receipts : /\ s # r => new[s] = records[s]
                             /\ s = r => new[s].status = status
                             /\ new[s].attempts = records[s].attempts
                             /\ new[s].batch = records[s].batch
  <1>1. \A s \in Receipts : new[s] = IF s = r THEN [records[r] EXCEPT !.status = status] ELSE records[s]
    OBVIOUS
  <1>2. records[r] \in Entries
    OBVIOUS
  <1>3. \A e \in Entries : LET d == [e EXCEPT !.status = status] IN
           d.status = status /\ d.attempts = e.attempts /\ d.batch = e.batch
    BY DEF Entries
  <1> QED
    BY <1>1, <1>2, <1>3

LEMMA QueueIsSound ==
  ASSUME NEW q, NEW files, NEW told, NEW reported, QueueOK(q, files, told, reported)
  PROVE  QueueTypeOK(q)
  <1>1. q \in Queues
    BY DEF QueueOK
  <1>2. /\ q.records \in [Receipts -> Entries] /\ q.pending \in Seq(Receipts)
        /\ q.sequence \in 0..MaxPrepared
    BY <1>1 DEF Queues
  <1>3. ToSet(q.pending) = {r \in Receipts : q.records[r].status = "accepted"}
    <2>1. \A i \in DOMAIN q.pending : q.pending[i] \in Receipts
      BY <1>2
    <2> QED
      BY <2>1 DEF QueueOK, ToSet
  <1>4. IsInjective(q.pending)
    BY DEF QueueOK, IsInjective
  <1> QED
    BY <1>2, <1>3, <1>4 DEF QueueTypeOK

\* A receipt that does not wait, and was tried less than it may be, can wait.
LEMMA EnqueuedOK ==
  ASSUME NEW q, NEW files, NEW told, NEW reported, QueueOK(q, files, told, reported),
         NEW r \in Receipts, q.records[r].status # "accepted", q.records[r].attempts < MaxBatchAttempts
  PROVE  QueueOK(Enqueued(q, r), files, told, reported)
  <1> DEFINE p == Enqueued(q, r)
  <1>1. q \in Queues
    BY DEF QueueOK
  <1>2. /\ q.records \in [Receipts -> Entries] /\ q.pending \in Seq(Receipts)
        /\ q.sequence \in 0..MaxPrepared
    BY <1>1 DEF Queues
  <1>3. /\ p \in Queues /\ p.records = [q.records EXCEPT ![r].status = "accepted"]
        /\ p.pending = Append(q.pending, r) /\ p.sequence = q.sequence
    BY <1>1, EnqueuedIs
  <1> HIDE DEF p
  <1>4. \A s \in Receipts : /\ s # r => p.records[s] = q.records[s]
                            /\ s = r => p.records[s].status = "accepted"
                            /\ p.records[s].attempts = q.records[s].attempts
                            /\ p.records[s].batch = q.records[s].batch
    <2>1. q.records \in [Receipts -> Entries] /\ p.records = [q.records EXCEPT ![r].status = "accepted"]
      BY <1>2, <1>3
    <2> QED
      BY <2>1, StatusSet
  <1>5. /\ DOMAIN p.pending = 1..(Len(q.pending) + 1) /\ DOMAIN q.pending = 1..Len(q.pending)
        /\ Len(q.pending) \in Nat /\ p.pending[Len(q.pending) + 1] = r
        /\ \A i \in DOMAIN q.pending : p.pending[i] = q.pending[i] /\ q.pending[i] \in Receipts
    BY <1>2, <1>3
  <1>6. \A i \in DOMAIN q.pending : q.pending[i] # r /\ q.records[q.pending[i]].status = "accepted"
    BY DEF QueueOK
  <1>7. \A i \in DOMAIN p.pending : p.records[p.pending[i]].status = "accepted"
    <2>1. \A i \in DOMAIN p.pending : i \in DOMAIN q.pending \/ i = Len(q.pending) + 1
      BY <1>5
    <2>2. \A i \in DOMAIN q.pending : p.records[p.pending[i]].status = "accepted"
      BY <1>4, <1>5, <1>6
    <2>3. p.records[p.pending[Len(q.pending) + 1]].status = "accepted"
      <3>1. p.records[r].status = "accepted"
        BY <1>4
      <3> QED
        BY <1>5, <3>1
    <2> QED
      BY <2>1, <2>2, <2>3
  <1>8. ASSUME NEW s \in Receipts, p.records[s].status = "accepted"
        PROVE  \E i \in DOMAIN p.pending : p.pending[i] = s
    <2>1. CASE s = r
      BY <1>5, <2>1
    <2>2. CASE s # r
      <3>1. PICK i \in DOMAIN q.pending : q.pending[i] = s
        BY <1>4, <1>8, <2>2 DEF QueueOK
      <3> QED
        BY <1>5, <3>1
    <2> QED
      BY <2>1, <2>2
  <1>9. ASSUME NEW i \in DOMAIN p.pending, NEW j \in DOMAIN p.pending, p.pending[i] = p.pending[j]
        PROVE  i = j
    <2>1. \A k \in DOMAIN p.pending : k \in DOMAIN q.pending \/ k = Len(q.pending) + 1
      BY <1>5
    <2>2. \A k, l \in DOMAIN q.pending : q.pending[k] = q.pending[l] => k = l
      BY DEF QueueOK
    <2> QED
      BY <1>5, <1>6, <1>9, <2>1, <2>2
  <1>10. ASSUME NEW s \in Receipts PROVE EntryOK(p.records[s], s, p.sequence, files, told, reported)
    <2>1. EntryOK(q.records[s], s, q.sequence, files, told, reported)
      BY DEF QueueOK
    <2> QED
      BY <1>3, <1>4, <2>1 DEF EntryOK
  <1>11. \A b \in BatchIds : told[b] # <<>> => b <= p.sequence
    BY <1>3 DEF QueueOK
  <1> QED
    BY <1>3, <1>7, <1>8, <1>9, <1>10, <1>11 DEF QueueOK, p

LEMMA RecordedOK ==
  ASSUME NEW q, NEW files, NEW told, NEW reported, QueueOK(q, files, told, reported),
         NEW r \in Receipts, NEW b, NEW result, r \in ToSet(told[b]),
         result = "included" => b \in reported
  PROVE  LET p == Recorded(q, r, b, result) IN
         QueueOK(p, files, told, reported) /\ Known(p) = Known(q) /\ p.sequence = q.sequence
  <1> DEFINE fate == IF result = "included" THEN "provisionally-included" ELSE "failed"
             p == [q EXCEPT !.records[r].status = fate]
  <1>1. q \in Queues
    BY DEF QueueOK
  <1>2. /\ q.records \in [Receipts -> Entries] /\ q.pending \in Seq(Receipts)
        /\ q.sequence \in 0..MaxPrepared
    BY <1>1 DEF Queues
  <1>3. CASE ~Awaits(q.records[r], b, result)
    <2>1. Recorded(q, r, b, result) = q
      BY <1>3 DEF Recorded
    <2> QED
      BY <2>1
  <1>4. CASE Awaits(q.records[r], b, result) /\ Again(q.records[r], result)
    <2>1. Recorded(q, r, b, result) = Enqueued(q, r)
      BY <1>4 DEF Recorded
    <2>2. /\ q.records[r].status \notin {"accepted", "unknown"}
          /\ q.records[r].attempts < MaxBatchAttempts
      BY <1>4 DEF Awaits, Again
    <2>3. Known(Enqueued(q, r)) = Known(q) \cup {r} /\ Enqueued(q, r).sequence = q.sequence
      BY <1>1, EnqueuedIs
    <2>4. r \in Known(q)
      BY <2>2 DEF Known
    <2>5. QueueOK(Enqueued(q, r), files, told, reported)
      BY <2>2, EnqueuedOK
    <2> QED
      BY <2>1, <2>3, <2>4, <2>5
  <1>5. CASE Awaits(q.records[r], b, result) /\ ~Again(q.records[r], result)
    <2>1. Recorded(q, r, b, result) = p
      BY <1>5 DEF Recorded
    <2>2. p = [records |-> [q.records EXCEPT ![r].status = fate],
               pending |-> q.pending, sequence |-> q.sequence]
      BY <1>1, OneField
    <2> HIDE DEF p
    <2>3. p.records = [q.records EXCEPT ![r].status = fate] /\ p.pending = q.pending /\ p.sequence = q.sequence
      BY <2>2
    <2>4. /\ q.records[r].status \in {"provisionally-included", "queued-for-anchor"}
          /\ result = "included" => q.records[r].status = "queued-for-anchor" /\ q.records[r].batch = b
      BY <1>5 DEF Awaits
    <2>5. \A s \in Receipts : /\ s # r => p.records[s] = q.records[s]
                              /\ s = r => p.records[s].status = fate
                              /\ p.records[s].attempts = q.records[s].attempts
                              /\ p.records[s].batch = q.records[s].batch
      <3>1. q.records \in [Receipts -> Entries] /\ p.records = [q.records EXCEPT ![r].status = fate]
        BY <1>2, <2>3
      <3> HIDE DEF fate
      <3> QED
        BY <3>1, StatusSet
    <2>6. p \in Queues
      BY <1>1, <2>1, RecordedIs
    <2>7. \A i \in DOMAIN q.pending : q.pending[i] \in Receipts /\ q.records[q.pending[i]].status = "accepted"
      BY <1>2 DEF QueueOK
    <2>8. \A i \in DOMAIN p.pending : p.records[p.pending[i]].status = "accepted"
      BY <2>3, <2>4, <2>5, <2>7
    <2>9. \A s \in Receipts : p.records[s].status = "accepted" => \E i \in DOMAIN p.pending : p.pending[i] = s
      BY <2>3, <2>5 DEF QueueOK
    <2>10. ASSUME NEW s \in Receipts PROVE EntryOK(p.records[s], s, p.sequence, files, told, reported)
      <3>1. EntryOK(q.records[s], s, q.sequence, files, told, reported)
        BY DEF QueueOK
      <3>2. CASE s # r
        BY <2>3, <2>5, <3>1, <3>2
      <3>3. CASE s = r /\ result = "included"
        BY <2>3, <2>4, <2>5, <3>1, <3>3 DEF EntryOK
      <3>4. CASE s = r /\ result # "included"
        BY <2>3, <2>5, <3>1, <3>4 DEF EntryOK
      <3> QED
        BY <3>2, <3>3, <3>4
    <2>11. /\ \A i, j \in DOMAIN p.pending : p.pending[i] = p.pending[j] => i = j
           /\ \A c \in BatchIds : told[c] # <<>> => c <= p.sequence
      BY <2>3 DEF QueueOK
    <2>12. QueueOK(p, files, told, reported)
      BY <2>6, <2>8, <2>9, <2>10, <2>11 DEF QueueOK
    <2>13. Known(p) = Known(q)
      <3>1. fate # "unknown" /\ q.records[r].status # "unknown"
        BY <2>4
      <3>2. \A s \in Receipts : p.records[s].status # "unknown" <=> q.records[s].status # "unknown"
        <4> HIDE DEF fate
        <4> QED
          BY <2>5, <3>1
      <3> QED
        BY <3>2 DEF Known
    <2> QED
      BY <2>1, <2>3, <2>12, <2>13
  <1> QED
    BY <1>3, <1>4, <1>5

ReportedSo(b, result, reported) == result = "included" => b \in reported

\* A result reaches receipts that the answer to the preparation named.
LEMMA ResultOK ==
  ASSUME NEW q, NEW files, NEW told, NEW reported, QueueOK(q, files, told, reported),
         NEW b, NEW result, told[b] \in Seq(Receipts), ReportedSo(b, result, reported),
         NEW new, new = RecordAnchorResult(q, b, told[b], result)
  PROVE  QueueOK(new, files, told, reported) /\ Known(new) = Known(q) /\ new.sequence = q.sequence
  <1> DEFINE L == Len(told[b])
             Good(p) == QueueOK(p, files, told, reported) /\ Known(p) = Known(q) /\ p.sequence = q.sequence
  <1>1. q \in Queues /\ L \in Nat
    BY DEF QueueOK
  <1>2. \E f : /\ f[0] = q
               /\ \A n \in 1..Len(told[b]) : f[n] = Recorded(f[n - 1], told[b][n], b, result)
               /\ RecordAnchorResult(q, b, told[b], result) = f[Len(told[b])]
    BY <1>1, RecordLoop
  <1>3. PICK f : /\ f[0] = q
                 /\ \A n \in 1..L : f[n] = Recorded(f[n - 1], told[b][n], b, result)
                 /\ RecordAnchorResult(q, b, told[b], result) = f[L]
    BY <1>2
  <1> DEFINE P == {n \in 0..L : Good(f[n])}
  <1>4. 0 \in P
    BY <1>1, <1>3
  <1>5. ASSUME NEW n \in 1..L, n - 1 \in P PROVE n \in P
    <2>1. told[b][n] \in Receipts /\ told[b][n] \in ToSet(told[b])
      BY DEF ToSet
    <2>2. QueueOK(f[n - 1], files, told, reported)
      BY <1>5
    <2> DEFINE p == Recorded(f[n - 1], told[b][n], b, result)
    <2>3. QueueOK(p, files, told, reported) /\ Known(p) = Known(f[n - 1]) /\ p.sequence = f[n - 1].sequence
      BY <2>1, <2>2, RecordedOK DEF ReportedSo
    <2>4. f[n] = p /\ n \in 0..L
      BY <1>1, <1>3
    <2> HIDE DEF p
    <2> QED
      BY <1>5, <2>3, <2>4
  <1>6. \A n \in 0..L : n \in P
    <2> HIDE DEF P, L
    <2> QED
      BY <1>1, <1>4, <1>5, Climbs
  <1>7. Good(f[L])
    BY <1>1, <1>6
  <1> QED
    BY <1>3, <1>7

LEMMA Suffix ==
  ASSUME NEW S, NEW s \in Seq(S), NEW k \in 0..Len(s)
  PROVE  /\ SubSeq(s, k + 1, Len(s)) \in Seq(S) /\ DOMAIN SubSeq(s, k + 1, Len(s)) = 1..(Len(s) - k)
         /\ \A i \in 1..(Len(s) - k) : SubSeq(s, k + 1, Len(s))[i] = s[k + i]
  OBVIOUS

\* A batch is drawn from the receipts that wait, and gets the next number.
LEMMA DrainOK ==
  ASSUME NEW q, NEW files \in BatchFiles, NEW told, NEW reported, QueueOK(q, files, told, reported),
         q.sequence + 1 \in BatchIds
  PROVE  /\ QueueOK(Drain(q), [files EXCEPT ![q.sequence + 1] = Drawn(q)], told, reported)
         /\ Known(q) \subseteq Known(Drain(q)) /\ Drain(q).sequence = q.sequence + 1
         /\ Drawn(q) \in Seq(Receipts)
  <1> DEFINE p == Drain(q)
             b == q.sequence + 1
             drawn == Drawn(q)
             filed == [files EXCEPT ![b] = drawn]
             L == Len(q.pending)
             k == Size(q)
  <1>1. q \in Queues
    BY DEF QueueOK
  <1>2. /\ q.records \in [Receipts -> Entries] /\ q.pending \in Seq(Receipts)
        /\ q.sequence \in 0..MaxPrepared /\ L \in Nat
    BY <1>1 DEF Queues
  <1>3. k \in 0..L
    BY <1>2, IngressAssumption DEF Size
  <1>4. /\ drawn \in Seq(Receipts) /\ DOMAIN drawn = 1..k
        /\ \A i \in 1..k : drawn[i] = q.pending[i]
    <2>1. drawn = SubSeq(q.pending, 1, k)
      BY DEF Drawn
    <2> HIDE DEF drawn, k
    <2> QED
      BY <1>2, <1>3, <2>1
  <1>5. p = [records |-> p.records, pending |-> p.pending, sequence |-> b]
        /\ p.pending = SubSeq(q.pending, k + 1, L)
    BY DEF Drain
  <1>6. ASSUME NEW r \in Receipts
        PROVE  /\ r \in ToSet(drawn) =>
                     p.records[r] = [status |-> "queued-for-anchor", batch |-> b,
                                     attempts |-> q.records[r].attempts + 1]
               /\ r \notin ToSet(drawn) => p.records[r] = q.records[r]
    <2>1. p.records[r] = IF r \in ToSet(drawn)
                         THEN [status |-> "queued-for-anchor", batch |-> b,
                               attempts |-> q.records[r].attempts + 1]
                         ELSE q.records[r]
      BY DEF Drain
    <2> HIDE DEF p, drawn, b
    <2> QED
      BY <2>1
  <1>7. p.records = [r \in Receipts |-> p.records[r]] /\ p.sequence = b
    BY DEF Drain
  <1> HIDE DEF p, drawn, k
  <1>8. ASSUME NEW r \in Receipts, r \in ToSet(drawn)
         PROVE  p.records[r].status = "queued-for-anchor" /\ p.records[r].batch = b
    <2>1. \A e, x, y : e = [status |-> "queued-for-anchor", batch |-> x, attempts |-> y]
                          => e.status = "queued-for-anchor" /\ e.batch = x
      OBVIOUS
    <2>2. p.records[r] = [status |-> "queued-for-anchor", batch |-> b, attempts |-> q.records[r].attempts + 1]
      BY <1>6, <1>8
    <2> HIDE DEF b
    <2> QED
      BY <2>1, <2>2
  <1>9. /\ p.pending \in Seq(Receipts) /\ DOMAIN p.pending = 1..(L - k)
        /\ \A i \in 1..(L - k) : p.pending[i] = q.pending[k + i]
    <2> DEFINE rest == SubSeq(q.pending, k + 1, L)
    <2>1. /\ rest \in Seq(Receipts) /\ DOMAIN rest = 1..(L - k)
          /\ \A i \in 1..(L - k) : rest[i] = q.pending[k + i]
      BY <1>2, <1>3, Suffix
    <2>2. p.pending = rest
      BY <1>5
    <2> HIDE DEF rest, L
    <2> QED
      BY <2>1, <2>2, Zenon
  <1>10. \A r : r \in ToSet(drawn) <=> \E i \in 1..k : q.pending[i] = r
    BY <1>4 DEF ToSet
  <1>11. /\ \A i \in 1..L : q.pending[i] \in Receipts /\ q.records[q.pending[i]].status = "accepted"
         /\ \A i, j \in 1..L : q.pending[i] = q.pending[j] => i = j
    BY <1>2 DEF QueueOK
  <1>12. ASSUME NEW r \in Receipts PROVE EntryOK(q.records[r], r, q.sequence, files, told, reported)
    BY DEF QueueOK
  <1>13. \A r \in Receipts : r \in ToSet(drawn) =>
            q.records[r].status = "accepted" /\ q.records[r].attempts < MaxBatchAttempts
    <2>1. \A r \in Receipts : r \in ToSet(drawn) => q.records[r].status = "accepted"
      BY <1>3, <1>10, <1>11
    <2> QED
      BY <1>12, <2>1 DEF EntryOK
  <1>14. ASSUME NEW r \in Receipts PROVE p.records[r] \in Entries
    <2>1. q.records[r] \in Entries
      BY <1>2
    <2>2. CASE r \in ToSet(drawn)
      <3>1. q.records[r].attempts \in Nat /\ q.records[r].attempts + 1 \in 0..MaxBatchAttempts
        BY <1>13, <2>1, <2>2, IngressAssumption DEF Entries
      <3>2. \A x \in BatchIds, y \in 0..MaxBatchAttempts :
               [status |-> "queued-for-anchor", batch |-> x, attempts |-> y] \in Entries
        BY DEF Entries, Statuses
      <3>3. [status |-> "queued-for-anchor", batch |-> b, attempts |-> q.records[r].attempts + 1] \in Entries
        BY <3>1, <3>2
      <3> QED
        BY <1>6, <2>2, <3>3
    <2> QED
      BY <1>6, <2>1, <2>2
  <1>15. p \in Queues
    <2>1. p.records \in [Receipts -> Entries]
      BY <1>7, <1>14
    <2>2. b \in 0..MaxPrepared
      BY <1>2 DEF BatchIds
    <2>3. \A x \in [Receipts -> Entries], y \in Seq(Receipts), z \in 0..MaxPrepared :
             [records |-> x, pending |-> y, sequence |-> z] \in Queues
      BY DEF Queues
    <2>4. [records |-> p.records, pending |-> p.pending, sequence |-> b] \in Queues
      BY <1>9, <2>1, <2>2, <2>3
    <2> QED
      BY <1>5, <2>4
  <1>16. \A i \in DOMAIN p.pending : p.records[p.pending[i]].status = "accepted"
    <2> SUFFICES ASSUME NEW i \in 1..(L - k) PROVE p.records[p.pending[i]].status = "accepted"
      BY <1>9
    <2>1. k + i \in 1..L /\ p.pending[i] = q.pending[k + i]
      BY <1>2, <1>3, <1>9
    <2>2. p.pending[i] \notin ToSet(drawn)
      BY <1>3, <1>10, <1>11, <2>1
    <2>3. p.records[p.pending[i]] = q.records[p.pending[i]]
      BY <1>6, <1>11, <2>1, <2>2
    <2> QED
      BY <1>11, <2>1, <2>3
  <1>17. ASSUME NEW r \in Receipts, p.records[r].status = "accepted"
         PROVE  \E i \in DOMAIN p.pending : p.pending[i] = r
    <2>1. r \notin ToSet(drawn)
      <3>1. ASSUME r \in ToSet(drawn) PROVE FALSE
        <4>1. p.records[r].status = "queued-for-anchor"
          BY <1>8, <3>1
        <4> QED
          BY <1>17, <4>1
      <3> QED
        BY <3>1
    <2>2. q.records[r].status = "accepted"
      BY <1>6, <1>17, <2>1
    <2>3. PICK i \in 1..L : q.pending[i] = r
      BY <1>2, <2>2 DEF QueueOK
    <2>4. i > k
      BY <1>2, <1>3, <1>10, <2>1, <2>3
    <2>5. i - k \in 1..(L - k) /\ k + (i - k) = i
      BY <1>2, <1>3, <2>3, <2>4
    <2> QED
      BY <1>9, <2>3, <2>5
  <1>18. \A i, j \in DOMAIN p.pending : p.pending[i] = p.pending[j] => i = j
    <2> SUFFICES ASSUME NEW i \in 1..(L - k), NEW j \in 1..(L - k), p.pending[i] = p.pending[j]
                 PROVE  i = j
      BY <1>9
    <2>1. k + i \in 1..L /\ k + j \in 1..L
      BY <1>2, <1>3
    <2>2. q.pending[k + i] = q.pending[k + j]
      BY <1>9
    <2>3. k + i = k + j
      BY <1>11, <2>1, <2>2
    <2> QED
      BY <1>2, <1>3, <2>3
  <1>19. filed[b] = drawn /\ \A c \in 1..q.sequence : filed[c] = files[c]
    <2>1. \A c \in 1..q.sequence : c \in BatchIds /\ c # b
      <3>1. q.sequence \in Nat /\ MaxPrepared \in Nat /\ q.sequence <= MaxPrepared
        BY <1>2, IngressAssumption
      <3> QED
        BY <3>1 DEF BatchIds
    <2>2. DOMAIN files = BatchIds /\ b \in BatchIds
      BY DEF BatchFiles
    <2> HIDE DEF b
    <2> QED
      BY <2>1, <2>2
  <1>20. ASSUME NEW r \in Receipts PROVE EntryOK(p.records[r], r, b, filed, told, reported)
    <2> HIDE DEF filed
    <2>1. CASE r \in ToSet(drawn)
      <3>1. p.records[r].status = "queued-for-anchor" /\ p.records[r].batch = b
        BY <1>8, <2>1
      <3>2. b \in 1..b
        BY <1>2
      <3> QED
        BY <1>19, <2>1, <3>1, <3>2 DEF EntryOK
    <2>2. CASE r \notin ToSet(drawn)
      <3>1. p.records[r] = q.records[r]
        BY <1>6, <2>2
      <3>2. 1..q.sequence \subseteq 1..b
        BY <1>2
      <3> HIDE DEF b
      <3> QED
        BY <1>12, <1>19, <3>1, <3>2 DEF EntryOK
    <2> QED
      BY <2>1, <2>2
  <1>21. \A c \in BatchIds : told[c] # <<>> => c <= p.sequence
    BY <1>2, <1>7 DEF QueueOK, BatchIds
  <1>22. QueueOK(p, filed, told, reported)
    <2> HIDE DEF filed
    <2> QED
      <3>1. \A r \in Receipts : EntryOK(p.records[r], r, p.sequence, filed, told, reported)
        BY <1>7, <1>20
      <3>2. \A r \in Receipts : p.records[r].status = "accepted"
                                    => \E i \in DOMAIN p.pending : p.pending[i] = r
        BY <1>17
      <3> QED
        BY <1>15, <1>16, <1>18, <1>21, <3>1, <3>2 DEF QueueOK
  <1>23. Known(q) \subseteq Known(p)
    <2>1. ASSUME NEW r \in Receipts, q.records[r].status # "unknown" PROVE p.records[r].status # "unknown"
      <3>1. r \in ToSet(drawn) => p.records[r].status = "queued-for-anchor"
        BY <1>8
      <3> QED
        BY <1>6, <2>1, <3>1
    <2> QED
      BY <2>1 DEF Known
  <1> QED
    BY <1>4, <1>7, <1>22, <1>23 DEF p, drawn

\* A larger set of reported batches, and files that say the same of the
\* batches a queue has drawn, keep it sound.
LEMMA ElsewhereOK ==
  ASSUME NEW q, NEW files, NEW told, NEW reported, QueueOK(q, files, told, reported),
         NEW others, \A b \in 1..q.sequence : others[b] = files[b],
         NEW more, reported \subseteq more
  PROVE  QueueOK(q, others, told, more)
  <1>1. ASSUME NEW r \in Receipts PROVE EntryOK(q.records[r], r, q.sequence, others, told, more)
    <2>1. EntryOK(q.records[r], r, q.sequence, files, told, reported)
      BY DEF QueueOK
    <2> QED
      BY <2>1 DEF EntryOK
  <1> QED
    BY <1>1 DEF QueueOK

LEMMA ToldOK ==
  ASSUME NEW q, NEW files, NEW told, NEW reported, QueueOK(q, files, told, reported),
         NEW more, \A b \in 1..q.sequence : told[b] # <<>> => more[b] = told[b],
         \A b \in BatchIds : more[b] # <<>> => b <= q.sequence
  PROVE  QueueOK(q, files, more, reported)
  <1>1. ASSUME NEW r \in Receipts PROVE EntryOK(q.records[r], r, q.sequence, files, more, reported)
    <2>1. EntryOK(q.records[r], r, q.sequence, files, told, reported)
      BY DEF QueueOK
    <2>2. \A b : r \in ToSet(told[b]) => told[b] # <<>>
      BY DEF ToSet
    <2> QED
      BY <2>1, <2>2 DEF EntryOK
  <1> QED
    BY <1>1 DEF QueueOK

Submitting(m, x) == [m EXCEPT !.queue = x, !.journal = @ + 1]
Filing(files, b, drawn) == [files EXCEPT ![b] = drawn]
Preparing(m, x, b, drawn) == [m EXCEPT !.queue = x, !.batches[b] = drawn]

LEMMA MemorySubmits ==
  ASSUME NEW m \in MemoryStates, NEW x \in Queues, NEW n, n = Submitting(m, x)
  PROVE  /\ n \in MemoryStates /\ n.queue = x /\ n.journal = m.journal + 1
         /\ n.batches = m.batches
  <1>1. n = [m EXCEPT !.queue = x, !.journal = @ + 1]
    BY DEF Submitting
  <1>2. /\ n.queue = x /\ n.journal = m.journal + 1
        /\ n.checkpoint = m.checkpoint /\ n.batches = m.batches
    BY <1>1 DEF MemoryStates
  <1>3. n = [queue |-> n.queue, journal |-> n.journal, checkpoint |-> n.checkpoint, batches |-> n.batches]
    BY <1>1 DEF MemoryStates
  <1>4. m.journal + 1 \in Nat /\ m.checkpoint \in Nat /\ m.batches \in BatchFiles
    BY DEF MemoryStates
  <1> QED
    BY <1>2, <1>3, <1>4 DEF MemoryStates

LEMMA MemoryPrepares ==
  ASSUME NEW m \in MemoryStates, NEW x \in Queues, NEW b, NEW drawn \in Seq(Receipts), NEW n,
         n = Preparing(m, x, b, drawn)
  PROVE  /\ n \in MemoryStates /\ n.queue = x /\ n.journal = m.journal
         /\ n.batches = Filing(m.batches, b, drawn)
  <1>1. n = [m EXCEPT !.queue = x, !.batches[b] = drawn]
    BY DEF Preparing
  <1>2. n.queue = x /\ n.journal = m.journal /\ n.checkpoint = m.checkpoint
    BY <1>1 DEF MemoryStates
  <1>3. n.batches = [m.batches EXCEPT ![b] = drawn]
    BY <1>1 DEF MemoryStates
  <1>4. n = [queue |-> n.queue, journal |-> n.journal, checkpoint |-> n.checkpoint, batches |-> n.batches]
    BY <1>1 DEF MemoryStates
  <1>5. /\ n.batches \in BatchFiles
    BY <1>3 DEF MemoryStates, BatchFiles
  <1>6. m.journal \in Nat /\ m.checkpoint \in Nat
    BY <1>1 DEF MemoryStates
  <1> QED
    BY <1>2, <1>3, <1>4, <1>5, <1>6 DEF MemoryStates, Filing

LEMMA MemoryRecords ==
  ASSUME NEW m \in MemoryStates, NEW x \in Queues, NEW n, n = [m EXCEPT !.queue = x]
  PROVE  /\ n \in MemoryStates /\ n.queue = x /\ n.journal = m.journal /\ n.batches = m.batches
  BY DEF MemoryStates

LEMMA MemoryCheckpointed ==
  ASSUME NEW m \in MemoryStates, NEW n, n = [m EXCEPT !.checkpoint = m.journal]
  PROVE  /\ n \in MemoryStates /\ n.queue = m.queue /\ n.journal = m.journal /\ n.batches = m.batches
  BY DEF MemoryStates

LEMMA RequestBegins ==
  ASSUME NEW at \in {"append", "prepared", "checkpoint"}, NEW then \in {"reconciled", "answer"},
         NEW receipts \in SUBSET Receipts, NEW batch \in 0..MaxPrepared, NEW n,
         n = [at |-> at, then |-> then, receipts |-> receipts, batch |-> batch]
  PROVE  /\ n \in RequestStates /\ n.at = at /\ n.then = then /\ n.receipts = receipts /\ n.batch = batch
  BY DEF RequestStates

LEMMA RequestGoesOn ==
  ASSUME NEW now \in RequestStates, NEW at \in {"checkpoint", "truncate", "reconciled", "answer"}, NEW n,
         n = [now EXCEPT !.at = at]
  PROVE  /\ n \in RequestStates /\ n.at = at /\ n.then = now.then
         /\ n.receipts = now.receipts /\ n.batch = now.batch
  BY DEF RequestStates

LEMMA NothingServed ==
  /\ NotServing \in RequestStates /\ NotServing.at = "idle" /\ NotServing.then = "idle"
  /\ NotServing.receipts = {} /\ NotServing.batch = 0
  BY IngressAssumption DEF NotServing, RequestStates, NoBatch

-----------------------------------------------------------------------------
(* Every step of the ingress keeps the invariant. *)

LEMMA IngressFacts ==
  ASSUME IngressInv
  PROVE  /\ memory \in MemoryStates /\ memory.queue \in Queues /\ memory.journal \in Nat
         /\ memory.batches \in BatchFiles
         /\ stored \in StoredStates /\ stored.queue \in Queues /\ stored.journal \in Nat
         /\ Recovered \in Queues /\ Recovered.sequence \in 0..MaxPrepared
         /\ memory.queue.sequence \in 0..MaxPrepared
         /\ \A n \in DOMAIN lines : lines[n].sequence \in Nat /\ lines[n].receipt \in Receipts
  <1>1. memory \in MemoryStates /\ stored \in StoredStates /\ lines \in Seq(JournalLine)
    BY DEF IngressInv, IngressTypes
  <1>2. memory.queue \in Queues /\ memory.journal \in Nat /\ memory.batches \in BatchFiles
    BY <1>1 DEF MemoryStates
  <1>3. stored.queue \in Queues /\ stored.journal \in Nat
    BY <1>1 DEF StoredStates
  <1>4. Recovered \in Queues
    BY DEF IngressInv, QueueOK
  <1>5. Recovered.sequence \in 0..MaxPrepared /\ memory.queue.sequence \in 0..MaxPrepared
    BY <1>2, <1>4 DEF Queues
  <1>6. \A n \in DOMAIN lines : lines[n] \in JournalLine
    BY <1>1
  <1>7. \A n \in DOMAIN lines : lines[n].sequence \in Nat /\ lines[n].receipt \in Receipts
    BY <1>6 DEF JournalLine
  <1> QED
    BY <1>1, <1>2, <1>3, <1>4, <1>5, <1>7

\* Admitted receipts are unknown, and so have not been tried too often.
LEMMA AdmittedOK ==
  ASSUME NEW q, NEW files, NEW told, NEW reported, QueueOK(q, files, told, reported),
         NEW r \in Receipts, Admits(q, r)
  PROVE  /\ QueueOK(Enqueued(q, r), files, told, reported)
         /\ Enqueued(q, r) \in Queues /\ Enqueued(q, r).sequence = q.sequence
         /\ Known(Enqueued(q, r)) = Known(q) \cup {r}
  <1>1. q.records[r].status = "unknown" /\ EntryOK(q.records[r], r, q.sequence, files, told, reported)
    BY DEF Admits, Known, QueueOK
  <1>2. q.records[r].status # "accepted" /\ q.records[r].attempts < MaxBatchAttempts
    BY <1>1 DEF EntryOK
  <1>3. q \in Queues
    BY DEF QueueOK
  <1> QED
    BY <1>2, <1>3, EnqueuedOK, EnqueuedIs

LEMMA SubmittedKeeps ==
  ASSUME IngressInv, NEW r \in Receipts, Submit(r)
  PROVE  IngressInv'
  <1> DEFINE q == Recovered
  <1>1. /\ memory \in MemoryStates /\ memory.journal \in Nat /\ stored.journal \in Nat
        /\ \A n \in DOMAIN lines : lines[n].sequence \in Nat
        /\ memory.queue.sequence \in 0..MaxPrepared
    BY IngressFacts
  <1>2. /\ serving.at = "idle" /\ Admits(memory.queue, r)
        /\ memory' = Submitting(memory, Enqueued(memory.queue, r))
        /\ serving' = [at |-> "append", then |-> "answer", receipts |-> {r}, batch |-> 0]
        /\ UNCHANGED <<stored, lines, batches, accepted, answered, anchors>>
    BY DEF Submit, Submitting, NotServing, NoBatch
  <1>3. memory.queue = q /\ memory.batches = batches
    BY <1>2 DEF IngressInv, MemoryAhead
  <1>4. QueueOK(memory.queue, memory.batches, answered, anchors) /\ QueueOK(q, batches, answered, anchors)
    BY DEF IngressInv
  <1>5. /\ QueueOK(Enqueued(memory.queue, r), memory.batches, answered, anchors)
        /\ Enqueued(memory.queue, r) \in Queues /\ Enqueued(memory.queue, r).sequence = memory.queue.sequence
        /\ Known(Enqueued(memory.queue, r)) = Known(memory.queue) \cup {r}
    BY <1>2, <1>4, AdmittedOK
  <1>6. /\ memory' \in MemoryStates /\ memory'.queue = Enqueued(memory.queue, r)
        /\ memory'.journal = memory.journal + 1 /\ memory'.batches = memory.batches
    BY <1>1, <1>2, <1>5, MemorySubmits
  <1>7. /\ serving' \in RequestStates /\ serving'.at = "append" /\ serving'.then = "answer"
        /\ serving'.receipts = {r} /\ serving'.batch = 0
    BY <1>2, RequestBegins, IngressAssumption
  <1>8. Recovered' = q
    BY <1>2 DEF Recovered
  <1> HIDE DEF q
  <1>9. IngressTypes'
    BY <1>2, <1>6, <1>7 DEF IngressInv, IngressTypes
  <1>10. Journaled(memory', stored', lines')
    <2>1. Journaled(memory, stored, lines)
      BY DEF IngressInv
    <2> QED
      BY <1>1, <1>2, <1>6, <2>1 DEF Journaled
  <1>11. MemoryAhead(serving', memory', stored', batches', q)
    <2>1. stored'.journal < memory'.journal
      <3>1. stored.journal <= memory.journal
        BY DEF IngressInv, Journaled
      <3> QED
        BY <1>1, <1>2, <1>6, <3>1
    <2>2. Known(q) \subseteq Known(memory'.queue) /\ 0 <= memory'.queue.sequence
      BY <1>1, <1>3, <1>5, <1>6
    <2>3. Admits(q, r) /\ memory'.queue = Enqueued(q, r)
      BY <1>2, <1>3, <1>6
    <2> QED
      BY <1>2, <1>3, <1>6, <1>7, <2>1, <2>2, <2>3 DEF MemoryAhead
  <1>12. ToldFiles(answered', memory', batches')
    BY <1>2, <1>6 DEF IngressInv, ToldFiles
  <1>13. QueueOK(memory'.queue, memory'.batches, answered', anchors') /\ QueueOK(q, batches', answered', anchors')
    BY <1>2, <1>4, <1>5, <1>6
  <1>14. Replayable(stored', lines') /\ accepted' \subseteq Known(q)
    BY <1>2 DEF IngressInv, q
  <1> QED
    BY <1>8, <1>9, <1>10, <1>11, <1>12, <1>13, <1>14 DEF IngressInv

LEMMA AppendLineKeeps ==
  ASSUME IngressInv, AppendLine
  PROVE  IngressInv'
  <1> DEFINE q == Recovered
             f == Replay(stored, lines)
             g == Replay(stored, lines')
  <1>1. /\ memory.journal \in Nat /\ stored.queue \in Queues /\ stored.journal \in Nat
        /\ serving \in RequestStates /\ lines \in Seq(JournalLine)
        /\ \A n \in DOMAIN lines : lines[n].sequence \in Nat
    BY IngressFacts DEF IngressInv, IngressTypes
  <1>2. PICK r \in serving.receipts : lines' = Append(lines, [sequence |-> memory.journal, receipt |-> r])
    BY DEF AppendLine
  <1>3. PICK t \in Receipts : /\ serving.receipts = {t} /\ Admits(q, t)
                              /\ memory.queue = Enqueued(q, t) /\ stored.journal < memory.journal
    BY DEF AppendLine, IngressInv, MemoryAhead
  <1>4. /\ r \in Receipts /\ serving.receipts = {r} /\ Admits(q, r)
        /\ memory.queue = Enqueued(q, r) /\ stored.journal < memory.journal
    BY <1>2, <1>3
  <1>5. /\ UNCHANGED <<memory, stored, batches, accepted, answered, anchors>>
        /\ serving.at = "append" /\ memory.batches = batches
    BY DEF AppendLine, IngressInv, MemoryAhead
  <1>6. PICK at \in {"checkpoint", "answer"} : serving' = [serving EXCEPT !.at = at]
    BY DEF AppendLine, Serve
  <1>7. /\ serving' \in RequestStates /\ serving'.at = at /\ serving'.then = serving.then
        /\ serving'.receipts = serving.receipts /\ serving'.batch = serving.batch
    BY <1>1, <1>6, RequestGoesOn
  <1> DEFINE line == [sequence |-> memory.journal, receipt |-> r]
  <1>8. line \in JournalLine /\ line.sequence = memory.journal /\ line.receipt = r
    BY <1>1, <1>4 DEF JournalLine
  <1>9. lines' = Append(lines, line)
    BY <1>2
  <1> HIDE DEF line
  <1>10. /\ lines' \in Seq(JournalLine) /\ Len(lines) \in Nat /\ Len(lines') = Len(lines) + 1
         /\ DOMAIN lines = 1..Len(lines) /\ DOMAIN lines' = 1..(Len(lines) + 1)
         /\ lines'[Len(lines) + 1] = line /\ \A n \in DOMAIN lines : lines'[n] = lines[n]
    BY <1>1, <1>8, <1>9
  <1>11. /\ \A n \in 0..Len(lines) : g[n] = f[n]
         /\ g[Len(lines')] = IF line.sequence > stored.journal
                             THEN Enqueued(f[Len(lines)], line.receipt) ELSE f[Len(lines)]
    <2>1. /\ stored.queue \in Queues /\ lines \in Seq(JournalLine) /\ line \in JournalLine
          /\ lines' = Append(lines, line)
      BY <1>1, <1>8, <1>9
    <2>2. \A more : more = Append(lines, line) =>
            /\ \A n \in 0..Len(lines) : Replay(stored, more)[n] = Replay(stored, lines)[n]
            /\ Replay(stored, more)[Len(more)]
                 = IF line.sequence > stored.journal
                   THEN Enqueued(Replay(stored, lines)[Len(lines)], line.receipt)
                   ELSE Replay(stored, lines)[Len(lines)]
      BY <2>1, ReplayMore
    <2> QED
      BY <2>1, <2>2
  <1>12. q = f[Len(lines)] /\ Recovered' = g[Len(lines')]
    BY <1>5 DEF Recovered
  <1>13. Recovered' = memory.queue
    <2>1. line.sequence > stored.journal
      BY <1>1, <1>4, <1>8
    <2> HIDE DEF q, f, g
    <2> QED
      BY <1>4, <1>8, <1>11, <1>12, <2>1
  <1>14. Replayable(stored', lines')
    <2> SUFFICES ASSUME NEW n \in DOMAIN lines', lines'[n].sequence > stored.journal
                 PROVE  Admits(g[n - 1], lines'[n].receipt)
      BY <1>5 DEF Replayable
    <2>1. CASE n \in DOMAIN lines
      <3>1. lines'[n] = lines[n] /\ g[n - 1] = f[n - 1]
        BY <1>10, <1>11, <2>1
      <3>2. Admits(f[n - 1], lines[n].receipt)
        BY <2>1, <3>1 DEF IngressInv, Replayable
      <3> HIDE DEF f, g
      <3> QED
        BY <3>1, <3>2
    <2>2. CASE n = Len(lines) + 1
      <3>1. n - 1 = Len(lines) /\ lines'[n].receipt = r
        BY <1>8, <1>10, <2>2
      <3>2. g[n - 1] = q
        BY <1>10, <1>11, <1>12, <3>1
      <3> HIDE DEF q, f, g
      <3> QED
        BY <1>4, <3>1, <3>2
    <2> QED
      BY <1>10, <2>1, <2>2
  <1>15. QueueOK(q, batches, answered, anchors) /\ accepted \subseteq Known(q)
    BY DEF IngressInv
  <1>16. Known(memory.queue) = Known(q) \cup {r}
    BY <1>4, <1>15, AdmittedOK
  <1> HIDE DEF q, f, g
  <1>17. QueueOK(memory'.queue, memory'.batches, answered', anchors')
         /\ QueueOK(memory.queue, batches', answered', anchors')
    BY <1>5 DEF IngressInv
  <1>18. IngressTypes'
    BY <1>5, <1>7, <1>10 DEF IngressInv, IngressTypes
  <1>19. Journaled(memory', stored', lines')
    <2>1. Journaled(memory, stored, lines)
      BY DEF IngressInv
    <2>2. \A n \in DOMAIN lines' : n \in DOMAIN lines \/ n = Len(lines) + 1
      BY <1>10
    <2>3. \A n \in DOMAIN lines' : lines'[n].sequence <= memory.journal
      BY <1>1, <1>8, <1>10, <2>1, <2>2 DEF Journaled
    <2> QED
      BY <1>5, <2>1, <2>3 DEF Journaled
  <1>20. MemoryAhead(serving', memory', stored', batches', memory.queue)
    <2>1. serving.then # "idle" /\ serving.batch <= memory.queue.sequence
      BY <1>5 DEF IngressInv, MemoryAhead
    <2> QED
      BY <1>4, <1>5, <1>7, <1>16, <2>1 DEF MemoryAhead
  <1>21. ToldFiles(answered', memory', batches') /\ accepted' \subseteq Known(memory.queue)
    BY <1>5, <1>15, <1>16 DEF IngressInv, ToldFiles
  <1> QED
    BY <1>13, <1>14, <1>17, <1>18, <1>19, <1>20, <1>21 DEF IngressInv

LEMMA PrepareNextKeeps ==
  ASSUME IngressInv, PrepareNext
  PROVE  IngressInv'
  <1> DEFINE q == Recovered
             b == memory.queue.sequence + 1
             drawn == Drawn(memory.queue)
  <1>1. /\ memory \in MemoryStates /\ memory.queue.sequence \in 0..MaxPrepared
        /\ memory.batches \in BatchFiles /\ Recovered \in Queues
    BY IngressFacts
  <1>2. /\ serving.at = "idle" /\ b <= MaxPrepared
        /\ memory' = Preparing(memory, Drain(memory.queue), b, drawn)
        /\ serving' = [at |-> "prepared", then |-> "answer", receipts |-> {}, batch |-> b]
        /\ UNCHANGED <<stored, lines, batches, accepted, answered, anchors>>
    BY DEF PrepareNext, Preparing, NotServing
  <1>3. memory.queue = q /\ memory.batches = batches
    BY <1>2 DEF IngressInv, MemoryAhead
  <1>4. QueueOK(memory.queue, memory.batches, answered, anchors)
        /\ QueueOK(q, batches, answered, anchors)
    BY DEF IngressInv
  <1>5. b \in BatchIds /\ b \in 0..MaxPrepared
    BY <1>1, <1>2, IngressAssumption DEF BatchIds
  <1>6. /\ QueueOK(Drain(memory.queue), [memory.batches EXCEPT ![b] = drawn], answered, anchors)
        /\ Known(memory.queue) \subseteq Known(Drain(memory.queue))
        /\ Drain(memory.queue).sequence = b /\ drawn \in Seq(Receipts)
    BY <1>1, <1>4, <1>5, DrainOK
  <1>7. Drain(memory.queue) \in Queues
    BY <1>6 DEF QueueOK
  <1>8. /\ memory' \in MemoryStates /\ memory'.queue = Drain(memory.queue)
        /\ memory'.journal = memory.journal /\ memory'.batches = [memory.batches EXCEPT ![b] = drawn]
    <2>1. /\ memory \in MemoryStates /\ Drain(memory.queue) \in Queues /\ drawn \in Seq(Receipts)
          /\ memory' = Preparing(memory, Drain(memory.queue), b, drawn)
      BY <1>1, <1>2, <1>6, <1>7
    <2>2. /\ memory' \in MemoryStates /\ memory'.queue = Drain(memory.queue)
          /\ memory'.journal = memory.journal /\ memory'.batches = Filing(memory.batches, b, drawn)
      <3> HIDE DEF b, drawn
      <3> QED
        BY <2>1, MemoryPrepares
    <2> QED
      BY <2>2 DEF Filing
  <1>9. /\ serving' \in RequestStates /\ serving'.at = "prepared" /\ serving'.then = "answer"
        /\ serving'.receipts = {} /\ serving'.batch = b
    BY <1>2, <1>5, RequestBegins
  <1>10. Recovered' = q
    BY <1>2 DEF Recovered
  <1> HIDE DEF q, drawn
  <1>11. IngressTypes'
    BY <1>2, <1>8, <1>9 DEF IngressInv, IngressTypes
  <1>12. \A c \in BatchIds \ {b} : memory'.batches[c] = memory.batches[c]
    BY <1>1, <1>8 DEF BatchFiles
  <1>13. Journaled(memory', stored', lines')
    BY <1>2, <1>8 DEF IngressInv, Journaled
  <1>14. MemoryAhead(serving', memory', stored', batches', q)
    <2>1. b = q.sequence + 1 /\ b = memory'.queue.sequence /\ b <= b
      BY <1>1, <1>3, <1>6, <1>8
    <2>2. Known(q) \subseteq Known(memory'.queue)
      BY <1>3, <1>6, <1>8
    <2> HIDE DEF b
    <2> QED
      BY <1>2, <1>3, <1>9, <1>12, <2>1, <2>2 DEF MemoryAhead
  <1>15. ToldFiles(answered', memory', batches')
    <2>1. \A c \in BatchIds : answered[c] # <<>> => c # b
      BY <1>1, <1>4 DEF QueueOK, BatchIds
    <2>2. ToldFiles(answered, memory, batches)
      BY DEF IngressInv
    <2> HIDE DEF b
    <2> QED
      BY <1>2, <1>12, <2>1, <2>2 DEF ToldFiles
  <1>16. QueueOK(memory'.queue, memory'.batches, answered', anchors') /\ QueueOK(q, batches', answered', anchors')
    BY <1>2, <1>4, <1>6, <1>8
  <1>17. Replayable(stored', lines') /\ accepted' \subseteq Known(q)
    BY <1>2 DEF IngressInv, q
  <1> QED
    BY <1>10, <1>11, <1>13, <1>14, <1>15, <1>16, <1>17 DEF IngressInv

LEMMA WritePreparedKeeps ==
  ASSUME IngressInv, WritePrepared
  PROVE  IngressInv'
  <1> DEFINE q == Recovered
  <1>1. /\ memory \in MemoryStates /\ memory.batches \in BatchFiles /\ q.sequence \in 0..MaxPrepared
        /\ serving \in RequestStates
    BY IngressFacts DEF IngressInv, IngressTypes
  <1>2. /\ serving.at = "prepared" /\ batches' = memory.batches
        /\ serving' = [serving EXCEPT !.at = "checkpoint"]
        /\ UNCHANGED <<memory, stored, lines, accepted, answered, anchors>>
    BY DEF WritePrepared, PreparedFile, Serve
  <1>3. /\ serving' \in RequestStates /\ serving'.at = "checkpoint" /\ serving'.then = serving.then
        /\ serving'.receipts = serving.receipts /\ serving'.batch = serving.batch
    BY <1>1, <1>2, RequestGoesOn
  <1>4. MemoryAhead(serving, memory, stored, batches, q) /\ QueueOK(q, batches, answered, anchors)
    BY DEF IngressInv
  <1>5. Recovered' = q
    BY <1>2 DEF Recovered
  <1> HIDE DEF q
  <1>6. \A b \in 1..q.sequence : memory.batches[b] = batches[b]
    <2>1. \A b \in 1..q.sequence : b \in BatchIds \ {q.sequence + 1}
      BY <1>1, IngressAssumption DEF BatchIds
    <2> QED
      BY <1>2, <1>4, <2>1 DEF MemoryAhead
  <1>7. QueueOK(q, memory.batches, answered, anchors)
    BY <1>4, <1>6, ElsewhereOK
  <1>8. IngressTypes'
    BY <1>1, <1>2, <1>3 DEF IngressInv, IngressTypes
  <1>9. MemoryAhead(serving', memory', stored', batches', q)
    BY <1>2, <1>3, <1>4 DEF MemoryAhead
  <1>10. ToldFiles(answered', memory', batches') /\ Journaled(memory', stored', lines') /\ Replayable(stored', lines')
    BY <1>2 DEF IngressInv, ToldFiles
  <1>11. accepted' \subseteq Known(q)
    BY <1>2 DEF IngressInv, q
  <1>12. QueueOK(memory'.queue, memory'.batches, answered', anchors') /\ QueueOK(q, batches', answered', anchors')
    BY <1>2, <1>7 DEF IngressInv
  <1> QED
    BY <1>5, <1>8, <1>9, <1>10, <1>11, <1>12 DEF IngressInv

LEMMA WriteCheckpointKeeps ==
  ASSUME IngressInv, WriteCheckpoint
  PROVE  IngressInv'
  <1> DEFINE q == Recovered
  <1>1. /\ memory \in MemoryStates /\ memory.queue \in Queues /\ memory.journal \in Nat
        /\ serving \in RequestStates /\ lines \in Seq(JournalLine)
        /\ \A n \in DOMAIN lines : lines[n].sequence \in Nat
    BY IngressFacts DEF IngressInv, IngressTypes
  <1>2. /\ serving.at = "checkpoint"
        /\ stored' = [queue |-> memory.queue, journal |-> memory.journal]
        /\ memory' = [memory EXCEPT !.checkpoint = memory.journal]
        /\ serving' = [serving EXCEPT !.at = "truncate"]
        /\ UNCHANGED <<lines, batches, accepted, answered, anchors>>
    BY DEF WriteCheckpoint, Serve
  <1>3. /\ serving' \in RequestStates /\ serving'.at = "truncate" /\ serving'.then = serving.then
        /\ serving'.receipts = serving.receipts /\ serving'.batch = serving.batch
    BY <1>1, <1>2, RequestGoesOn
  <1>4. /\ memory' \in MemoryStates /\ memory'.queue = memory.queue
        /\ memory'.journal = memory.journal /\ memory'.batches = memory.batches
    BY <1>1, <1>2, MemoryCheckpointed
  <1>5. stored' \in StoredStates /\ stored'.queue = memory.queue /\ stored'.journal = memory.journal
    BY <1>1, <1>2 DEF StoredStates
  <1>6. /\ MemoryAhead(serving, memory, stored, batches, q) /\ accepted \subseteq Known(q)
        /\ QueueOK(memory.queue, memory.batches, answered, anchors)
        /\ Journaled(memory, stored, lines)
    BY DEF IngressInv
  <1> HIDE DEF q
  <1>7. memory.batches = batches /\ Known(q) \subseteq Known(memory.queue) /\ serving.receipts \subseteq Known(q)
        /\ serving.then # "idle" /\ serving.batch <= memory.queue.sequence
    BY <1>2, <1>6 DEF MemoryAhead
  <1>8. \A n \in DOMAIN lines : lines[n].sequence <= stored'.journal
    BY <1>5, <1>6 DEF Journaled
  <1>9. Recovered' = memory.queue
    <2>1. Replay(stored', lines)[Len(lines)] = stored'.queue
      BY <1>1, <1>5, <1>8, ReplayStale
    <2> QED
      BY <1>2, <1>5, <2>1 DEF Recovered
  <1>10. Replayable(stored', lines')
    <2>1. \A n \in DOMAIN lines : ~(lines[n].sequence > stored'.journal)
      BY <1>1, <1>5, <1>8
    <2> QED
      BY <1>2, <2>1 DEF Replayable
  <1>11. QueueTypeOK(stored'.queue)
    BY <1>5, <1>6, QueueIsSound
  <1>12. IngressTypes'
    BY <1>2, <1>3, <1>4, <1>5, <1>11 DEF IngressInv, IngressTypes
  <1>13. Journaled(memory', stored', lines')
    BY <1>1, <1>2, <1>4, <1>5, <1>6 DEF Journaled
  <1>14. MemoryAhead(serving', memory', stored', batches', memory.queue)
    BY <1>2, <1>3, <1>4, <1>5, <1>7 DEF MemoryAhead
  <1>15. ToldFiles(answered', memory', batches') /\ accepted' \subseteq Known(memory.queue)
    BY <1>2, <1>4, <1>6, <1>7 DEF IngressInv, ToldFiles
  <1>16. QueueOK(memory'.queue, memory'.batches, answered', anchors')
         /\ QueueOK(memory.queue, batches', answered', anchors')
    BY <1>2, <1>4, <1>6, <1>7
  <1> QED
    BY <1>9, <1>10, <1>12, <1>13, <1>14, <1>15, <1>16 DEF IngressInv

LEMMA TruncateJournalKeeps ==
  ASSUME IngressInv, TruncateJournal
  PROVE  IngressInv'
  <1> DEFINE q == Recovered
  <1>1. /\ memory \in MemoryStates /\ stored.queue \in Queues /\ serving \in RequestStates
    BY IngressFacts DEF IngressInv, IngressTypes
  <1>2. /\ serving.at = "truncate" /\ lines' = <<>>
        /\ serving' = [serving EXCEPT !.at = serving.then]
        /\ UNCHANGED <<memory, stored, batches, accepted, answered, anchors>>
    BY DEF TruncateJournal, Serve
  <1>3. /\ MemoryAhead(serving, memory, stored, batches, q) /\ accepted \subseteq Known(q)
        /\ QueueOK(memory.queue, memory.batches, answered, anchors) /\ QueueOK(q, batches, answered, anchors)
        /\ Journaled(memory, stored, lines) /\ ToldFiles(answered, memory, batches)
    BY DEF IngressInv
  <1> HIDE DEF q
  <1>4. serving.then \in {"reconciled", "answer"} /\ stored.queue = q
    BY <1>1, <1>2, <1>3 DEF MemoryAhead, RequestStates
  <1>5. /\ serving' \in RequestStates /\ serving'.at = serving.then /\ serving'.then = serving.then
        /\ serving'.receipts = serving.receipts /\ serving'.batch = serving.batch
    BY <1>1, <1>2, <1>4, RequestGoesOn
  <1>6. Recovered' = q
    <2>1. <<>> \in Seq(JournalLine) /\ Len(<<>>) = 0
      OBVIOUS
    <2>2. Replay(stored, <<>>)[0] = stored.queue
      BY <1>1, <2>1, ReplayLoop
    <2> QED
      BY <1>2, <1>4, <2>1, <2>2 DEF Recovered
  <1>7. IngressTypes'
    BY <1>2, <1>5 DEF IngressInv, IngressTypes
  <1>8. Replayable(stored', lines') /\ Journaled(memory', stored', lines')
    BY <1>2, <1>3 DEF Replayable, Journaled
  <1>9. MemoryAhead(serving', memory', stored', batches', q)
    BY <1>2, <1>3, <1>4, <1>5 DEF MemoryAhead
  <1>10. QueueOK(memory'.queue, memory'.batches, answered', anchors') /\ QueueOK(q, batches', answered', anchors')
         /\ accepted' \subseteq Known(q) /\ ToldFiles(answered', memory', batches')
    BY <1>2, <1>3 DEF ToldFiles
  <1> QED
    BY <1>6, <1>7, <1>8, <1>9, <1>10 DEF IngressInv

LEMMA ReconcileKeeps ==
  ASSUME IngressInv, NEW b \in BatchIds, NEW result \in Results, Reconcile(b, result)
  PROVE  IngressInv'
  <1> DEFINE q == Recovered
             p == RecordAnchorResult(memory.queue, b, memory.batches[b], result)
  <1>1. /\ memory \in MemoryStates /\ memory.queue \in Queues /\ serving \in RequestStates
        /\ answered \in BatchFiles /\ memory.queue.sequence \in 0..MaxPrepared
    BY IngressFacts DEF IngressInv, IngressTypes
  <1>2. /\ serving.at = "idle" /\ answered[b] # <<>>
        /\ memory' = [memory EXCEPT !.queue = p]
        /\ anchors' = IF result = "included" THEN anchors \cup {b} ELSE anchors
        /\ serving' = [at |-> "checkpoint", then |-> "reconciled", receipts |-> {}, batch |-> 0]
        /\ UNCHANGED <<stored, lines, batches, accepted, answered>>
    BY DEF Reconcile, NotServing, NoBatch
  <1>3. /\ MemoryAhead(serving, memory, stored, batches, q) /\ accepted \subseteq Known(q)
        /\ QueueOK(memory.queue, memory.batches, answered, anchors) /\ QueueOK(q, batches, answered, anchors)
        /\ Journaled(memory, stored, lines) /\ ToldFiles(answered, memory, batches) /\ anchors \subseteq BatchIds
    BY DEF IngressInv, IngressTypes
  <1>4. answered[b] \in Seq(Receipts) /\ memory.batches[b] = answered[b]
    BY <1>1, <1>2, <1>3 DEF BatchFiles, ToldFiles
  <1>5. anchors \subseteq anchors' /\ anchors' \subseteq BatchIds /\ (result = "included" => b \in anchors')
    BY <1>2, <1>3
  <1>6. QueueOK(memory.queue, memory.batches, answered, anchors') /\ QueueOK(q, batches, answered, anchors')
    BY <1>3, <1>5, ElsewhereOK
  <1>7. /\ QueueOK(p, memory.batches, answered, anchors') /\ Known(p) = Known(memory.queue)
        /\ p.sequence = memory.queue.sequence
    <2>1. /\ QueueOK(memory.queue, memory.batches, answered, anchors')
          /\ answered[b] \in Seq(Receipts) /\ ReportedSo(b, result, anchors')
          /\ p = RecordAnchorResult(memory.queue, b, answered[b], result)
      BY <1>4, <1>5, <1>6 DEF ReportedSo
    <2> HIDE DEF p
    <2> QED
      BY <2>1, ResultOK
  <1>8. p \in Queues
    BY <1>7 DEF QueueOK
  <1>9. Recovered' = q
    BY <1>2 DEF Recovered
  <1> HIDE DEF q, p
  <1>10. /\ memory' \in MemoryStates /\ memory'.queue = p
         /\ memory'.journal = memory.journal /\ memory'.batches = memory.batches
    BY <1>1, <1>2, <1>8, MemoryRecords
  <1>11. /\ serving' \in RequestStates /\ serving'.at = "checkpoint" /\ serving'.then = "reconciled"
         /\ serving'.receipts = {} /\ serving'.batch = 0
    BY <1>2, RequestBegins, IngressAssumption
  <1>12. IngressTypes'
    BY <1>2, <1>5, <1>10, <1>11 DEF IngressInv, IngressTypes
  <1>13. memory.queue = q /\ memory.batches = batches
    BY <1>2, <1>3 DEF MemoryAhead
  <1>14. MemoryAhead(serving', memory', stored', batches', q)
    <2>1. 0 <= memory'.queue.sequence
      BY <1>1, <1>7, <1>10
    <2> QED
      BY <1>2, <1>7, <1>10, <1>11, <1>13, <2>1 DEF MemoryAhead
  <1>15. Replayable(stored', lines') /\ Journaled(memory', stored', lines') /\ ToldFiles(answered', memory', batches')
    BY <1>2, <1>10 DEF IngressInv, Journaled, ToldFiles
  <1>16. QueueOK(memory'.queue, memory'.batches, answered', anchors') /\ QueueOK(q, batches', answered', anchors')
         /\ accepted' \subseteq Known(q)
    BY <1>2, <1>3, <1>6, <1>7, <1>10
  <1> QED
    BY <1>9, <1>12, <1>14, <1>15, <1>16 DEF IngressInv

LEMMA WriteReconciledKeeps ==
  ASSUME IngressInv, WriteReconciled
  PROVE  IngressInv'
  <1> DEFINE q == Recovered
  <1>1. serving \in RequestStates
    BY DEF IngressInv, IngressTypes
  <1>2. /\ serving.at = "reconciled" /\ batches' = memory.batches
        /\ serving' = [serving EXCEPT !.at = "answer"]
        /\ UNCHANGED <<memory, stored, lines, accepted, answered, anchors>>
    BY DEF WriteReconciled, Serve
  <1>3. MemoryAhead(serving, memory, stored, batches, q)
    BY DEF IngressInv
  <1>4. Recovered' = q
    BY <1>2 DEF Recovered
  <1> HIDE DEF q
  <1>5. /\ serving' \in RequestStates /\ serving'.at = "answer" /\ serving'.then = serving.then
        /\ serving'.receipts = serving.receipts /\ serving'.batch = serving.batch
    BY <1>1, <1>2, RequestGoesOn
  <1>6. batches' = batches
    BY <1>2, <1>3 DEF MemoryAhead
  <1>7. IngressTypes'
    BY <1>2, <1>5, <1>6 DEF IngressInv, IngressTypes
  <1>8. MemoryAhead(serving', memory', stored', batches', q)
    BY <1>2, <1>3, <1>5 DEF MemoryAhead
  <1> QED
    BY <1>2, <1>4, <1>6, <1>7, <1>8 DEF IngressInv, ToldFiles, q

LEMMA AnswerKeeps ==
  ASSUME IngressInv, Answer
  PROVE  IngressInv'
  <1> DEFINE q == Recovered
  <1>1. /\ memory \in MemoryStates /\ memory.batches \in BatchFiles /\ serving \in RequestStates /\ answered \in BatchFiles
        /\ memory.queue.sequence \in 0..MaxPrepared
    BY IngressFacts DEF IngressInv, IngressTypes
  <1>2. /\ serving.at = "answer" /\ accepted' = accepted \cup serving.receipts
        /\ answered' = [b \in BatchIds |-> IF b = serving.batch THEN memory.batches[b] ELSE answered[b]]
        /\ serving' = NotServing
        /\ UNCHANGED <<memory, stored, lines, batches, anchors>>
    BY DEF Answer
  <1>3. /\ MemoryAhead(serving, memory, stored, batches, q) /\ accepted \subseteq Known(q)
        /\ QueueOK(memory.queue, memory.batches, answered, anchors) /\ QueueOK(q, batches, answered, anchors)
        /\ ToldFiles(answered, memory, batches)
    BY DEF IngressInv
  <1>4. Recovered' = q
    BY <1>2 DEF Recovered
  <1> HIDE DEF q
  <1>5. /\ memory.queue = q /\ memory.batches = batches /\ serving.receipts \subseteq Known(q)
        /\ serving.batch <= memory.queue.sequence
    BY <1>2, <1>3 DEF MemoryAhead
  <1>6. answered' \in BatchFiles
    BY <1>1, <1>2 DEF BatchFiles
  <1>7. \A b \in BatchIds : answered[b] # <<>> => answered'[b] = answered[b]
    BY <1>2, <1>3 DEF ToldFiles
  <1>8. \A b \in BatchIds : answered'[b] # <<>> => b <= memory.queue.sequence
    BY <1>2, <1>3, <1>5 DEF QueueOK
  <1>9. QueueOK(memory.queue, memory.batches, answered', anchors)
    <2>1. \A b \in 1..memory.queue.sequence : b \in BatchIds
      BY <1>1, IngressAssumption DEF BatchIds
    <2>2. \A b \in 1..memory.queue.sequence : answered[b] # <<>> => answered'[b] = answered[b]
      BY <1>7, <2>1
    <2>3. QueueOK(memory.queue, memory.batches, answered, anchors)
      BY <1>3
    <2> QED
      BY <1>8, <2>2, <2>3, ToldOK
  <1>10. ToldFiles(answered', memory', batches')
    BY <1>2, <1>3, <1>5 DEF ToldFiles
  <1>11. accepted' \subseteq Known(q) /\ accepted' \subseteq Receipts
    <2>1. accepted' \subseteq Known(q)
      BY <1>2, <1>3, <1>5
    <2> QED
      BY <2>1 DEF Known
  <1>12. IngressTypes'
    BY <1>2, <1>6, <1>11, NothingServed DEF IngressInv, IngressTypes
  <1>13. MemoryAhead(serving', memory', stored', batches', q)
    <2>1. 0 <= memory'.queue.sequence
      BY <1>1, <1>2
    <2> QED
      BY <1>2, <1>5, <2>1, NothingServed DEF MemoryAhead
  <1>14. Replayable(stored', lines') /\ Journaled(memory', stored', lines')
    BY <1>2 DEF IngressInv
  <1>15. QueueOK(memory'.queue, memory'.batches, answered', anchors') /\ QueueOK(q, batches', answered', anchors')
    BY <1>2, <1>5, <1>9
  <1> QED
    BY <1>4, <1>10, <1>11, <1>12, <1>13, <1>14, <1>15 DEF IngressInv

LEMMA RestartKeeps ==
  ASSUME IngressInv, Restart
  PROVE  IngressInv'
  <1> DEFINE q == Recovered
             seen == {stored.journal} \cup {lines[n].sequence : n \in DOMAIN lines}
             top == Max(seen)
  <1>1. /\ memory \in MemoryStates /\ memory.journal \in Nat /\ q \in Queues
        /\ stored.journal \in Nat /\ batches \in BatchFiles /\ q.sequence \in 0..MaxPrepared
        /\ \A n \in DOMAIN lines : lines[n].sequence \in Nat
    BY IngressFacts DEF IngressInv, IngressTypes
  <1>2. /\ memory' = [queue |-> q, checkpoint |-> stored.journal, batches |-> batches, journal |-> top]
        /\ serving' = NotServing
        /\ UNCHANGED <<stored, lines, batches, accepted, answered, anchors>>
    BY DEF Restart
  <1>3. /\ accepted \subseteq Known(q) /\ QueueOK(q, batches, answered, anchors)
        /\ ToldFiles(answered, memory, batches) /\ Journaled(memory, stored, lines)
    BY DEF IngressInv
  <1>4. top \in Nat /\ \A x \in seen : x <= top
    <2>1. seen \subseteq 0..memory.journal
      BY <1>1, <1>3 DEF Journaled
    <2>2. IsFiniteSet(seen) /\ seen # {} /\ seen \subseteq Int
      <3>1. IsFiniteSet(0..memory.journal) /\ stored.journal \in seen
        <4>1. \A n \in Nat : IsFiniteSet(0..n)
          BY FS_Interval
        <4> QED
          BY <1>1, <4>1
      <3>2. 0..memory.journal \subseteq Int
        OBVIOUS
      <3> HIDE DEF seen
      <3> QED
        BY <2>1, <3>1, <3>2, FS_Subset
    <2>3. \E m \in seen : \A x \in seen : x <= m
      <3> HIDE DEF seen
      <3> QED
        BY <2>2, LargestExists
    <2>4. \E m \in seen : \A x \in seen : m >= x
      BY <2>2, <2>3
    <2>5. top \in seen /\ \A x \in seen : top >= x
      <3> HIDE DEF seen
      <3> QED
        BY <2>4 DEF Max
    <2> HIDE DEF seen, top
    <2> QED
      BY <1>1, <2>1, <2>5
  <1>5. Recovered' = q
    BY <1>2 DEF Recovered
  <1>6. stored.journal <= top /\ \A n \in DOMAIN lines : lines[n].sequence <= top
    <2> HIDE DEF top
    <2> QED
      BY <1>4
  <1> HIDE DEF q, top
  <1>7. /\ memory' \in MemoryStates /\ memory'.queue = q /\ memory'.journal = top /\ memory'.batches = batches
    BY <1>1, <1>2, <1>4 DEF MemoryStates
  <1>8. IngressTypes'
    BY <1>2, <1>7, NothingServed DEF IngressInv, IngressTypes
  <1>9. Journaled(memory', stored', lines')
    BY <1>2, <1>6, <1>7 DEF Journaled
  <1>10. MemoryAhead(serving', memory', stored', batches', q)
    <2>1. 0 <= memory'.queue.sequence
      BY <1>1, <1>7
    <2> QED
      BY <1>2, <1>7, <2>1, NothingServed DEF MemoryAhead
  <1>11. ToldFiles(answered', memory', batches')
    BY <1>2, <1>3, <1>7 DEF ToldFiles
  <1>12. Replayable(stored', lines') /\ accepted' \subseteq Known(q)
    BY <1>2, <1>3 DEF IngressInv
  <1>13. QueueOK(memory'.queue, memory'.batches, answered', anchors') /\ QueueOK(q, batches', answered', anchors')
    BY <1>2, <1>3, <1>7
  <1> QED
    BY <1>5, <1>8, <1>9, <1>10, <1>11, <1>12, <1>13 DEF IngressInv

LEMMA IngressStarts == IngressInit => IngressInv
  <1> SUFFICES ASSUME IngressInit PROVE IngressInv
    OBVIOUS
  <1> DEFINE e == EmptyQueue
             none == Unprepared
  <1>1. /\ memory = [queue |-> e, journal |-> 0, checkpoint |-> 0, batches |-> none]
        /\ stored = [queue |-> e, journal |-> 0]
        /\ lines = <<>> /\ batches = none /\ serving = NotServing
        /\ accepted = {} /\ answered = none /\ anchors = {}
    BY DEF IngressInit
  <1>2. Unknown \in Entries /\ Unknown.status = "unknown" /\ Unknown.attempts = 0
    BY IngressAssumption DEF Unknown, Entries, Statuses, NoBatch
  <1>3. /\ e.records = [r \in Receipts |-> Unknown] /\ e.pending = <<>> /\ e.sequence = 0
        /\ e = [records |-> [r \in Receipts |-> Unknown], pending |-> <<>>, sequence |-> 0]
    BY DEF EmptyQueue
  <1>4. none \in BatchFiles /\ \A b \in BatchIds : none[b] = <<>>
    BY DEF BatchFiles, Unprepared
  <1> HIDE DEF e, none
  <1>5. e \in Queues
    BY <1>2, <1>3, IngressAssumption DEF Queues
  <1>6. \A r \in Receipts : e.records[r].status = "unknown" /\ e.records[r].attempts = 0
    BY <1>2, <1>3
  <1>7. QueueOK(e, none, none, {})
    <2>1. ASSUME NEW r \in Receipts PROVE EntryOK(e.records[r], r, e.sequence, none, none, {})
      BY <1>6, IngressAssumption DEF EntryOK
    <2>2. DOMAIN e.pending = {}
      BY <1>3
    <2>3. \A r \in Receipts : e.records[r].status # "accepted"
      BY <1>6
    <2> QED
      BY <1>4, <1>5, <2>1, <2>2, <2>3 DEF QueueOK
  <1>8. stored.queue = e /\ stored.journal = 0 /\ memory.queue = e /\ memory.journal = 0 /\ memory.batches = none
    BY <1>1
  <1>9. Recovered = e
    <2>1. <<>> \in Seq(JournalLine) /\ Len(<<>>) = 0
      OBVIOUS
    <2>2. Replay(stored, <<>>)[0] = stored.queue
      BY <1>5, <1>8, <2>1, ReplayLoop
    <2> QED
      BY <1>1, <1>8, <2>1, <2>2 DEF Recovered
  <1>10. memory \in MemoryStates /\ stored \in StoredStates
    BY <1>1, <1>4, <1>5 DEF MemoryStates, StoredStates
  <1>11. QueueTypeOK(stored.queue)
    BY <1>7, <1>8, QueueIsSound
  <1>12. IngressTypes
    BY <1>1, <1>4, <1>10, <1>11, NothingServed DEF IngressTypes
  <1>13. MemoryAhead(serving, memory, stored, batches, e)
    BY <1>1, <1>3, <1>8, NothingServed DEF MemoryAhead
  <1>14. Replayable(stored, lines) /\ Journaled(memory, stored, lines)
    BY <1>1, <1>8 DEF Replayable, Journaled
  <1>15. ToldFiles(answered, memory, batches)
    BY <1>1, <1>4 DEF ToldFiles
  <1> QED
    BY <1>1, <1>7, <1>8, <1>9, <1>12, <1>13, <1>14, <1>15 DEF IngressInv

LEMMA IngressStep == IngressInv /\ [IngressNext]_ingress => IngressInv'
  <1> SUFFICES ASSUME IngressInv, [IngressNext]_ingress PROVE IngressInv'
    OBVIOUS
  <1>1. ASSUME NEW r \in Receipts, Submit(r) PROVE IngressInv'
    BY <1>1, SubmittedKeeps
  <1>2. ASSUME NEW b \in BatchIds, NEW result \in Results, Reconcile(b, result) PROVE IngressInv'
    BY <1>2, ReconcileKeeps
  <1>3. CASE UNCHANGED ingress
    BY <1>3 DEF ingress, IngressInv, IngressTypes, Recovered
  <1> QED
    BY <1>1, <1>2, <1>3, AppendLineKeeps, PrepareNextKeeps, WritePreparedKeeps, WriteCheckpointKeeps,
       TruncateJournalKeeps, WriteReconciledKeeps, AnswerKeeps, RestartKeeps DEF IngressNext

LEMMA IngressIsSafe == IngressInv => IngressTypeOK /\ ReceiptsKept /\ IncludedWasAnchored
  <1> SUFFICES ASSUME IngressInv PROVE IngressTypeOK /\ ReceiptsKept /\ IncludedWasAnchored
    OBVIOUS
  <1>1. /\ QueueOK(memory.queue, memory.batches, answered, anchors)
        /\ QueueOK(Recovered, batches, answered, anchors)
    BY DEF IngressInv
  <1>2. QueueTypeOK(memory.queue) /\ QueueTypeOK(Recovered) /\ QueueTypeOK(stored.queue)
    BY <1>1, QueueIsSound DEF IngressInv, IngressTypes
  <1>3. \A r \in Receipts :
           /\ EntryOK(memory.queue.records[r], r, memory.queue.sequence, memory.batches, answered, anchors)
           /\ EntryOK(Recovered.records[r], r, Recovered.sequence, batches, answered, anchors)
    BY <1>1 DEF QueueOK
  <1>4. IngressTypeOK
    <2>1. /\ memory.journal \in Nat /\ memory.checkpoint \in Nat /\ stored.journal \in Nat
          /\ memory.batches \in BatchFiles /\ batches \in BatchFiles /\ answered \in BatchFiles
          /\ \A n \in DOMAIN lines : lines[n].sequence \in Nat /\ lines[n].receipt \in Receipts
      BY IngressFacts DEF IngressInv, IngressTypes, MemoryStates
    <2>2. \A s \in Seq(Receipts) : ToSet(s) \subseteq Receipts
      <3>1. ASSUME NEW s \in Seq(Receipts) PROVE \A i \in DOMAIN s : s[i] \in Receipts
        OBVIOUS
      <3> QED
        BY <3>1 DEF ToSet
    <2>3. \A b \in BatchIds : /\ memory.batches[b] \in Seq(Receipts) /\ batches[b] \in Seq(Receipts)
                              /\ answered[b] \in Seq(Receipts)
      BY <2>1 DEF BatchFiles
    <2>4. /\ serving.at \in {"idle", "append", "prepared", "checkpoint", "truncate", "reconciled", "answer"}
          /\ accepted \subseteq Receipts /\ anchors \subseteq BatchIds
      BY DEF IngressInv, IngressTypes, RequestStates
    <2> QED
      BY <1>2, <1>3, <2>1, <2>2, <2>3, <2>4 DEF IngressTypeOK, AttemptLeft, EntryOK
  <1>5. ReceiptsKept
    <2>1. accepted \subseteq Known(Recovered) /\ Replayable(stored, lines)
      BY DEF IngressInv
    <2>2. \A r \in Receipts : Recovered.records[r].status = "queued-for-anchor"
                                  => r \in ToSet(batches[Recovered.records[r].batch])
      BY <1>3 DEF EntryOK
    <2> QED
      BY <1>2, <2>1, <2>2 DEF ReceiptsKept, Replayable
  <1>6. IncludedWasAnchored
    <2>1. \A b \in BatchIds : answered[b] # <<>> => answered[b] = batches[b]
      BY DEF IngressInv, ToldFiles
    <2> QED
      BY <1>3, <2>1 DEF IncludedWasAnchored, EntryOK
  <1> QED
    BY <1>4, <1>5, <1>6

\* Whenever the process dies, its files hold every receipt it has accepted and
\* every batch a receipt waits in, and a receipt counts as included only in a
\* batch that was answered and reported so (submit, prepareNext, reconcile,
\* the start of the service).
THEOREM ReceiptsStayKept == IngressSpec => [](IngressTypeOK /\ ReceiptsKept /\ IncludedWasAnchored)
  <1>1. IngressSpec => []IngressInv
    BY IngressStarts, IngressStep, PTL DEF IngressSpec
  <1> QED
    BY <1>1, IngressIsSafe, PTL
=============================================================================
