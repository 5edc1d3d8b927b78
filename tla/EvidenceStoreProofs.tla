------------------------- MODULE EvidenceStoreProofs -------------------------
(* Proofs about EvidenceStore, for every value of its constants. *)
EXTENDS EvidenceStore, TotalsProofs, WellFoundedInduction

(* Types. *)

LEMMA NoneTypes ==
  /\ NoEvent \in Event /\ NoRow \in Row /\ NoUsage \in Usage
  /\ SomeSubmission \in Submissions
  /\ NoRows \in [Ids -> Row]
  BY SubmissionsAssumption, LimitsAssumption
     DEF Event, Row, Usage, NoEvent, NoRow, NoUsage, NoRows, SomeSubmission

LEMMA InitType == Init => TypeOK
  BY NoneTypes, LimitsAssumption DEF Init, TypeOK

\* Ending a call keeps the types of everything it touches.
LEMMA FinishType ==
  ASSUME TypeOK, NEW c \in Calls, Finish(c)
  PROVE  /\ pc' \in [Calls -> {"idle", "stamped", "checking", "writing"}]
         /\ sub' \in [Calls -> Submissions]
         /\ day' \in [Calls -> 1..MaxDays]
         /\ pre' \in [Calls -> Usage]
         /\ want' \in [Calls -> [Ids -> Row]]
         /\ todo' \in [Calls -> SUBSET Ids]
         /\ usageLock' \in Calls \cup {None}
         /\ rowLock' \in [Ids -> Calls \cup {None}]
  BY NoneTypes, LimitsAssumption DEF TypeOK, Finish

\* What ingest writes.
LEMMA AcceptType ==
  ASSUME TypeOK, NEW c \in Calls, Accept(c)
  PROVE  TypeOK'
  <1> DEFINE s == sub[c]
             event == [digest |-> s.digest, slot |-> s.slot, bytes |-> s.bytes,
                       day |-> day[c]]
  <1>1. s \in Submissions /\ s.id \in Ids /\ s.bytes \in Nat /\ day[c] \in 1..MaxDays
    BY SubmissionsAssumption DEF TypeOK
  <1>2. event \in Event
    BY <1>1 DEF Event
  <1>3. events' \in [Ids -> Event]
    BY <1>1, <1>2 DEF TypeOK, Accept
  <1>4. outbox' \in [Ids -> {"none", "pending", "batched", "submitted"}]
    BY <1>1 DEF TypeOK, Accept
  <1>5. DailyCount(c) \in Nat
    BY DEF TypeOK, DailyCount, Usage
  <1>6. usage' \in Usage
    BY <1>1, <1>5, LimitsAssumption DEF TypeOK, Accept, Usage
  <1>7. told' \subseteq Submissions
    BY <1>1 DEF TypeOK, Accept
  <1>8. Finish(c) /\ UNCHANGED <<rows, today, faults>>
    BY DEF Accept
  <1> QED
    BY <1>3, <1>4, <1>6, <1>7, <1>8, FinishType DEF TypeOK

\* What attachTransaction is going to write.
LEMMA AttachedRow ==
  ASSUME TypeOK, NEW b \in Batches, NEW h \in Hashes, NEW e \in Members(b),
         Has(rows[e].transactions, h) \/ Room(rows[e].transactions)
  PROVE  [batch |-> b, revision |-> rows[e].revision + 1,
          transactions |-> IF Has(rows[e].transactions, h) THEN rows[e].transactions
                           ELSE Append(rows[e].transactions, h)] \in Row
  <1>1. e \in Ids /\ rows[e].batch = b /\ b # 0
    BY LimitsAssumption DEF Members
  <1>2. rows[e] # NoRow
    BY <1>1 DEF NoRow
  <1>3. rows[e] \in Row
    BY <1>1 DEF TypeOK
  <1>4. /\ rows[e].revision \in Nat
        /\ rows[e].transactions \in Seq(Hashes)
        /\ Len(rows[e].transactions) <= MaxTxs
    BY <1>2, <1>3 DEF Row
  <1>5. CASE Has(rows[e].transactions, h)
    BY <1>4, <1>5 DEF Row
  <1>6. CASE ~Has(rows[e].transactions, h)
    <2>1. Len(rows[e].transactions) < MaxTxs
      BY <1>6 DEF Room
    <2>2. /\ Append(rows[e].transactions, h) \in Seq(Hashes)
          /\ Len(Append(rows[e].transactions, h)) = Len(rows[e].transactions) + 1
      BY <1>4
    <2>3. Len(rows[e].transactions) + 1 <= MaxTxs
      BY <1>4, <2>1, LimitsAssumption
    <2> QED
      BY <1>4, <1>6, <2>2, <2>3 DEF Row
  <1> QED
    BY <1>5, <1>6

LEMMA AttachReadType ==
  ASSUME TypeOK, NEW c \in Calls, NEW b \in Batches, NEW h \in Hashes,
         AttachRead(c, b, h)
  PROVE  TypeOK'
  <1>1. want' \in [Calls -> [Ids -> Row]]
    <2>1. ASSUME NEW e \in Ids
          PROVE  (IF e \notin Members(b) THEN NoRow
                  ELSE [batch |-> b, revision |-> rows[e].revision + 1,
                        transactions |-> IF Has(rows[e].transactions, h)
                                         THEN rows[e].transactions
                                         ELSE Append(rows[e].transactions, h)]) \in Row
      <3>1. CASE e \notin Members(b)
        BY <3>1, NoneTypes
      <3>2. CASE e \in Members(b)
        BY <3>2, AttachedRow DEF AttachRead
      <3> QED
        BY <3>1, <3>2
    <2> QED
      BY <2>1 DEF TypeOK, AttachRead
  <1>2. todo' \in [Calls -> SUBSET Ids]
    BY DEF TypeOK, AttachRead, Members
  <1> QED
    BY <1>1, <1>2 DEF TypeOK, AttachRead, tables, locks

LEMMA PrepareReadType ==
  ASSUME TypeOK, NEW c \in Calls, NEW limit \in Limits, PrepareRead(c, limit)
  PROVE  TypeOK'
  <1>1. PICK b \in Batches, S \in (SUBSET Pending) \ {{}} :
           /\ todo' = [todo EXCEPT ![c] = S]
           /\ want' = [want EXCEPT ![c] = [e \in Ids |->
                 IF e \in S THEN [batch |-> b, revision |-> 1, transactions |-> <<>>]
                 ELSE NoRow]]
    BY DEF PrepareRead
  <1>2. [batch |-> b, revision |-> 1, transactions |-> <<>>] \in Row
    BY LimitsAssumption DEF Row
  <1>3. S \subseteq Ids
    BY DEF Pending
  <1> QED
    BY <1>1, <1>2, <1>3, NoneTypes DEF TypeOK, PrepareRead, tables, locks

LEMMA CommitType ==
  ASSUME TypeOK, NEW c \in Calls, CommitEvidence(c)
  PROVE  TypeOK'
  <1>1. rows' \in [Ids -> Row]
    BY DEF TypeOK, CommitEvidence
  <1>2. outbox' \in [Ids -> {"none", "pending", "batched", "submitted"}]
    BY DEF TypeOK, CommitEvidence, Status
  <1> QED
    BY <1>1, <1>2, FinishType DEF TypeOK, CommitEvidence

LEMMA NextType == TypeOK /\ [Next]_vars => TypeOK'
  <1> SUFFICES ASSUME TypeOK, [Next]_vars PROVE TypeOK'
    OBVIOUS
  <1>1. ASSUME NEW c \in Calls, LockUsage(c) PROVE TypeOK'
    BY <1>1 DEF TypeOK, LockUsage, tables
  <1>2. ASSUME NEW c \in Calls, Duplicate(c) PROVE TypeOK'
    <2>1. told' \subseteq Submissions
      BY <1>2 DEF TypeOK, Duplicate
    <2> QED
      BY <1>2, <2>1, FinishType DEF TypeOK, Duplicate, tables
  <1>3. ASSUME NEW c \in Calls, Refuse(c) PROVE TypeOK'
    BY <1>3, FinishType DEF TypeOK, Refuse, tables
  <1>4. ASSUME NEW c \in Calls, WriteRow(c) PROVE TypeOK'
    BY <1>4 DEF TypeOK, WriteRow, tables
  <1>5. ASSUME NEW c \in Calls, WriteRefused(c) PROVE TypeOK'
    BY <1>5, FinishType DEF TypeOK, WriteRefused, tables
  <1>6. ASSUME NEW c \in Calls, Fail(c) PROVE TypeOK'
    <2>1. faults' \in 0..MaxFaults
      BY <1>6, LimitsAssumption DEF TypeOK, Fail, Fault
    <2> QED
      BY <1>6, <2>1, FinishType DEF TypeOK, Fail, tables
  <1>7. ASSUME NEW c \in Calls, NEW s \in Submissions, Submit(c, s) PROVE TypeOK'
    BY <1>7 DEF TypeOK, Submit, tables, locks
  <1>8. ASSUME Midnight PROVE TypeOK'
    <2>1. today' \in 1..MaxDays
      BY <1>8, LimitsAssumption DEF TypeOK, Midnight
    <2> QED
      BY <1>8, <2>1 DEF TypeOK, Midnight, tables, local, locks
  <1>9. ASSUME UNCHANGED vars PROVE TypeOK'
    BY <1>9 DEF TypeOK, vars, tables, local, locks
  <1> QED
    BY <1>1, <1>2, <1>3, <1>4, <1>5, <1>6, <1>7, <1>8, <1>9, AcceptType, CommitType,
       PrepareReadType, AttachReadType DEF Next, Step

\* Every reachable state has its declared types.
THEOREM TypeCorrect == Spec => []TypeOK
  BY InitType, NextType, PTL DEF Spec

-----------------------------------------------------------------------------
(* The inductive invariant. *)

\* The call that holds the usage row is the only one that checks a submission,
\* and what it read is still there.
UsageHeld ==
    \A c \in Calls :
        /\ usageLock = c => pc[c] = "checking"
        /\ pc[c] = "checking" => usageLock = c /\ pre[c] = usage

\* A writing call has rows to write; it holds those it has dealt with, which
\* come before those it has yet to lock.
LocksOf(c) ==
    /\ todo[c] \subseteq Written(c)
    /\ pc[c] = "writing" <=> Written(c) # {}
    /\ \A e \in Ids : rowLock[e] = c <=> e \in Written(c) \ todo[c]
    /\ \A e, f \in Ids : rowLock[e] = c /\ f \in todo[c] => e < f

LocksHeld == \A c \in Calls : LocksOf(c)

\* What w, written over r, does: a new bundle, or the next revision of the old
\* one with at most one hash more.
Grows(r, w) ==
    IF r = NoRow THEN w.revision = 1 /\ w.transactions = <<>>
    ELSE /\ w.revision = r.revision + 1
         /\ w.batch = r.batch
         /\ \/ w.transactions = r.transactions
            \/ \E h \in Hashes : /\ ~Has(r.transactions, h) /\ Room(r.transactions)
                                 /\ w.transactions = Append(r.transactions, h)

\* A revision is never ahead of its row by more than one; when the row is still
\* the one the call has read, the call only adds to it; a locked row is.
FreshRow(c, e) ==
    /\ want[c][e].revision <= rows[e].revision + 1
    /\ Current(c, e) => Grows(rows[e], want[c][e])
    /\ rowLock[e] = c => Current(c, e)
    /\ Stored(e)

Fresh == \A c \in Calls : \A e \in Written(c) : FreshRow(c, e)

\* A call writes one batch: a new one that nobody else knows, or all the
\* members of an old one.
WholeRow(c, e) ==
    /\ \A f \in Written(c) : want[c][f] = want[c][e]
    /\ want[c][e].revision = 1 =>
          /\ Members(want[c][e].batch) = {}
          /\ \A d \in Calls \ {c}, f \in Ids : want[d][f].batch # want[c][e].batch
    /\ want[c][e].revision # 1 => Written(c) = Members(want[c][e].batch)

WholeBatch == \A c \in Calls : \A e \in Written(c) : WholeRow(c, e)

RowInv == LocksHeld /\ Fresh /\ WholeBatch /\ BatchUniform /\ OutboxAgrees
EventInv == UsageHeld /\ UsageExact /\ AcknowledgedIsStored /\ OneEventPerSlot

-----------------------------------------------------------------------------
(* Events and usage. *)

\* Ending a call gives up the usage row; only its holder may change it.
LEMMA FinishUsage ==
  ASSUME TypeOK, UsageHeld, NEW c \in Calls, Finish(c),
         pc[c] = "checking" \/ usage' = usage
  PROVE  UsageHeld'
  <1> SUFFICES ASSUME NEW d \in Calls
               PROVE  /\ usageLock' = d => pc'[d] = "checking"
                      /\ pc'[d] = "checking" => usageLock' = d /\ pre'[d] = usage'
    BY DEF UsageHeld
  <1>1. CASE d = c
    BY <1>1, CallsAssumption DEF TypeOK, Finish
  <1>2. CASE d # c
    <2>1. pc'[d] = pc[d] /\ pre'[d] = pre[d]
      BY <1>2 DEF TypeOK, Finish
    <2>2. usageLock' = d <=> usageLock = d
      BY <1>2, CallsAssumption DEF Finish
    <2>3. pc[d] = "checking" => usage' = usage
      BY <1>2 DEF UsageHeld
    <2> QED
      BY <2>1, <2>2, <2>3 DEF UsageHeld
  <1> QED
    BY <1>1, <1>2

LEMMA UsageHeldStep ==
  ASSUME TypeOK, UsageHeld, [Next]_vars
  PROVE  UsageHeld'
  <1>1. ASSUME NEW c \in Calls, LockUsage(c) PROVE UsageHeld'
    BY <1>1, CallsAssumption DEF TypeOK, UsageHeld, LockUsage, tables
  <1>2. ASSUME NEW c \in Calls, Duplicate(c) \/ Refuse(c) \/ Accept(c) PROVE UsageHeld'
    BY <1>2, FinishUsage DEF Duplicate, Refuse, Accept
  <1>3. ASSUME NEW c \in Calls, WriteRefused(c) \/ CommitEvidence(c) \/ Fail(c)
        PROVE  UsageHeld'
    BY <1>3, FinishUsage DEF WriteRefused, CommitEvidence, Fail, tables
  <1>4. ASSUME NEW c \in Calls, WriteRow(c) PROVE UsageHeld'
    BY <1>4 DEF UsageHeld, WriteRow, tables
  <1>5. ASSUME NEW c \in Calls, NEW s \in Submissions, Submit(c, s) PROVE UsageHeld'
    BY <1>5 DEF TypeOK, UsageHeld, Submit, tables, locks
  <1>6. ASSUME NEW c \in Calls, NEW limit \in Limits, PrepareRead(c, limit)
        PROVE  UsageHeld'
    BY <1>6 DEF TypeOK, UsageHeld, PrepareRead, tables, locks
  <1>7. ASSUME NEW c \in Calls, NEW b \in Batches, NEW h \in Hashes, AttachRead(c, b, h)
        PROVE  UsageHeld'
    BY <1>7 DEF TypeOK, UsageHeld, AttachRead, tables, locks
  <1>8. ASSUME Midnight \/ UNCHANGED vars PROVE UsageHeld'
    BY <1>8 DEF UsageHeld, Midnight, vars, tables, local, locks
  <1> QED
    BY <1>1, <1>2, <1>3, <1>4, <1>5, <1>6, <1>7, <1>8 DEF Next, Step

\* Only Accept writes events and usage; only Accept and Duplicate acknowledge.
LEMMA EventsAlone ==
  ASSUME [Next]_vars, \A c \in Calls : ~Accept(c)
  PROVE  /\ events' = events /\ usage' = usage
         /\ told' = told \/ \E c \in Calls : Duplicate(c)
  BY DEF Next, Step, vars, tables, Submit, LockUsage, Refuse, Duplicate, Midnight, Fail,
         PrepareRead, AttachRead, WriteRow, WriteRefused, CommitEvidence

\* The event that ingest writes is new, and is all that it changes in events.
LEMMA AcceptedEvent ==
  ASSUME TypeOK, NEW c \in Calls, Accept(c)
  PROVE  LET s == sub[c]
         IN  /\ s \in Submissions /\ s.id \in Ids /\ s.bytes \in Nat
             /\ s.id \notin StoredIds
             /\ StoredIds' = StoredIds \cup {s.id}
             /\ \A e \in Ids \ {s.id} : events'[e] = events[e]
             /\ events'[s.id] = [digest |-> s.digest, slot |-> s.slot,
                                 bytes |-> s.bytes, day |-> day[c]]
             /\ events'[s.id] # NoEvent
  <1> DEFINE s == sub[c]
  <1>1. s \in Submissions /\ s.id \in Ids /\ s.bytes \in Nat /\ s.digest # "none"
    BY SubmissionsAssumption DEF TypeOK
  <1>2. events[s.id] = NoEvent
    BY DEF Accept, Insertable, Stored
  <1>3. events'[s.id] = [digest |-> s.digest, slot |-> s.slot,
                         bytes |-> s.bytes, day |-> day[c]]
    BY <1>1 DEF Accept, TypeOK
  <1>4. events'[s.id] # NoEvent
    BY <1>1, <1>3 DEF NoEvent
  <1>5. \A e \in Ids \ {s.id} : events'[e] = events[e]
    BY <1>1 DEF Accept, TypeOK
  <1>6. s.id \notin StoredIds
    BY <1>2 DEF StoredIds, Stored
  <1>7. StoredIds' = StoredIds \cup {s.id}
    BY <1>1, <1>4, <1>5 DEF StoredIds, Stored
  <1> HIDE DEF s
  <1> QED
    BY <1>1, <1>3, <1>4, <1>5, <1>6, <1>7 DEF s

\* Every step keeps what is stored.
LEMMA StoredKept ==
  ASSUME TypeOK, [Next]_vars, NEW e \in Ids, Stored(e)
  PROVE  events'[e] = events[e]
  <1>1. CASE \A c \in Calls : ~Accept(c)
    BY <1>1, EventsAlone
  <1>2. ASSUME NEW c \in Calls, Accept(c) PROVE events'[e] = events[e]
    BY <1>2, AcceptedEvent DEF StoredIds
  <1> QED
    BY <1>1, <1>2

LEMMA IdsFinite == IsFiniteSet(Ids)
  <1>1. PICK n \in Ids : \A e \in Ids : e <= n
    BY IdsAssumption
  <1>2. n \in Nat /\ Ids \subseteq 0..n
    BY <1>1, IdsAssumption
  <1>3. IsFiniteSet(0..n)
    BY <1>2, FS_Interval
  <1> QED
    BY <1>2, <1>3, FS_Subset

LEMMA CountStep ==
  ASSUME TypeOK, UsageHeld, CountExact, [Next]_vars
  PROVE  CountExact'
  <1>1. CASE \A c \in Calls : ~Accept(c)
    BY <1>1, EventsAlone DEF CountExact, StoredIds, Stored
  <1>2. ASSUME NEW c \in Calls, Accept(c) PROVE CountExact'
    <2>1. pre[c] = usage
      BY <1>2 DEF UsageHeld, Accept
    <2>2. usage.count < MaxEvents /\ usage.bytes + sub[c].bytes <= MaxBytes
      BY <1>2, <2>1 DEF Accept, WithinAllowance
    <2>3. usage'.count = usage.count + 1 /\ usage'.bytes = usage.bytes + sub[c].bytes
      BY <1>2 DEF Accept
    <2>4. usage.count \in Nat
      BY DEF TypeOK, Usage
    <2>5. Cardinality(StoredIds') = Cardinality(StoredIds) + 1
      <3>1. IsFiniteSet(StoredIds)
        BY IdsFinite, FS_Subset DEF StoredIds
      <3>2. /\ sub[c].id \notin StoredIds
            /\ StoredIds' = StoredIds \cup {sub[c].id}
        BY <1>2, AcceptedEvent
      <3> QED
        BY <3>1, <3>2, FS_AddElement
    <2>6. usage'.count <= MaxEvents
      BY <2>2, <2>3, <2>4, LimitsAssumption
    <2> QED
      BY <2>2, <2>3, <2>5, <2>6 DEF CountExact
  <1> QED
    BY <1>1, <1>2

\* The bytes of the stored events, and those received on a given day.
Bytes == Total([e \in Ids |-> events[e].bytes], StoredIds)
OfDay(d) == {e \in StoredIds : events[e].day = d}

LEMMA BytesStep ==
  ASSUME TypeOK, TypeOK', usage.bytes = Bytes, UsageHeld, [Next]_vars
  PROVE  usage'.bytes = Bytes'
  <1>1. CASE \A c \in Calls : ~Accept(c)
    BY <1>1, EventsAlone DEF Bytes, StoredIds, Stored
  <1>2. ASSUME NEW c \in Calls, Accept(c) PROVE usage'.bytes = Bytes'
    <2> DEFINE now == [e \in Ids |-> events[e].bytes]
               next == [e \in Ids |-> events'[e].bytes]
    <2>1. PICK i \in Ids : i = sub[c].id
      BY <1>2, AcceptedEvent
    <2>2. /\ i \notin StoredIds /\ StoredIds' = StoredIds \cup {i}
          /\ next[i] = sub[c].bytes
          /\ \A e \in StoredIds : next[e] = now[e]
      <3>0. events'[sub[c].id] = [digest |-> sub[c].digest, slot |-> sub[c].slot,
                                  bytes |-> sub[c].bytes, day |-> day[c]]
        BY <1>2, AcceptedEvent
      <3>1. /\ sub[c].id \notin StoredIds /\ StoredIds' = StoredIds \cup {sub[c].id}
            /\ \A e \in Ids \ {sub[c].id} : events'[e] = events[e]
        BY <1>2, AcceptedEvent
      <3>2. \A e \in StoredIds : e \in Ids \ {i}
        BY <2>1, <3>1 DEF StoredIds
      <3> QED
        BY <2>1, <3>0, <3>1, <3>2
    <2>3. \A e \in Ids : now[e] \in Nat /\ next[e] \in Nat
      BY DEF TypeOK, Event, NoEvent
    <2>4. IsFiniteSet(StoredIds) /\ StoredIds \subseteq Ids
      BY IdsFinite, FS_Subset DEF StoredIds
    <2> HIDE DEF now, next
    <2>5. Total(next, StoredIds \cup {i}) = Total(next, StoredIds) + next[i]
      BY <2>1, <2>2, <2>3, <2>4, TotalAdd
    <2>6. Total(next, StoredIds) = Total(now, StoredIds)
      BY <2>2, TotalSame
    <2>7. usage'.bytes = usage.bytes + sub[c].bytes
      BY <1>2 DEF Accept
    <2>8. usage.bytes = Total(now, StoredIds) /\ Bytes' = Total(next, StoredIds')
      BY DEF Bytes, now, next
    <2> QED
      BY <2>2, <2>5, <2>6, <2>7, <2>8
  <1> QED
    BY <1>1, <1>2

LEMMA DailyStep ==
  ASSUME TypeOK, TypeOK', UsageHeld, usage.daily <= Cardinality(OfDay(usage.day)),
         [Next]_vars
  PROVE  usage'.daily <= Cardinality(OfDay(usage.day)')
  <1>1. CASE \A c \in Calls : ~Accept(c)
    BY <1>1, EventsAlone DEF OfDay, StoredIds, Stored
  <1>2. ASSUME NEW c \in Calls, Accept(c)
        PROVE  usage'.daily <= Cardinality(OfDay(usage.day)')
    <2>1. PICK i \in Ids, d \in 1..MaxDays : i = sub[c].id /\ d = day[c]
      BY <1>2, AcceptedEvent DEF TypeOK
    <2>2. /\ i \notin StoredIds /\ StoredIds' = StoredIds \cup {i}
          /\ events'[i].day = d
          /\ \A e \in StoredIds : events'[e] = events[e]
      <3>0. events'[sub[c].id] = [digest |-> sub[c].digest, slot |-> sub[c].slot,
                                  bytes |-> sub[c].bytes, day |-> day[c]]
        BY <1>2, AcceptedEvent
      <3>1. /\ sub[c].id \notin StoredIds /\ StoredIds' = StoredIds \cup {sub[c].id}
            /\ \A e \in Ids \ {sub[c].id} : events'[e] = events[e]
        BY <1>2, AcceptedEvent
      <3>2. \A e \in StoredIds : e \in Ids \ {i}
        BY <2>1, <3>1 DEF StoredIds
      <3> QED
        BY <2>1, <3>0, <3>1, <3>2
    <2>3. usage'.day = d /\ OfDay(usage.day)' = OfDay(d) \cup {i} /\ i \notin OfDay(d)
      BY <1>2, <2>1, <2>2 DEF Accept, OfDay
    <2>4. IsFiniteSet(OfDay(d))
      BY IdsFinite, FS_Subset DEF OfDay, StoredIds
    <2>5. /\ Cardinality(OfDay(d)) \in Nat
          /\ Cardinality(OfDay(d) \cup {i}) = Cardinality(OfDay(d)) + 1
      BY <2>3, <2>4, FS_AddElement, FS_CardinalityType
    <2>6. usage'.daily = DailyCount(c) + 1
      BY <1>2 DEF Accept
    <2>7. pre[c] = usage
      BY <1>2 DEF UsageHeld, Accept
    <2>8. usage.daily \in Nat
      BY DEF TypeOK, Usage
    <2>9. DailyCount(c) \in Nat /\ DailyCount(c) <= Cardinality(OfDay(d))
      <3>1. CASE usage.day = d
        <4>1. DailyCount(c) = usage.daily
          BY <2>1, <2>7, <3>1 DEF DailyCount
        <4> QED
          BY <2>8, <3>1, <4>1
      <3>2. CASE usage.day # d
        <4>1. DailyCount(c) = 0
          BY <2>1, <2>7, <3>2 DEF DailyCount
        <4> QED
          BY <2>5, <4>1
      <3> QED
        BY <3>1, <3>2
    <2> QED
      BY <2>3, <2>5, <2>6, <2>9
  <1> QED
    BY <1>1, <1>2

LEMMA UsageStep ==
  ASSUME TypeOK, TypeOK', UsageHeld, UsageExact, [Next]_vars
  PROVE  UsageExact'
  <1>1. /\ CountExact /\ usage.bytes = Bytes
        /\ usage.daily <= Cardinality(OfDay(usage.day))
    BY DEF UsageExact, Bytes, OfDay
  <1>2. /\ CountExact' /\ usage'.bytes = Bytes'
        /\ usage'.daily <= Cardinality(OfDay(usage.day)')
    BY <1>1, CountStep, BytesStep, DailyStep
  <1> QED
    BY <1>2 DEF UsageExact, Bytes, OfDay

LEMMA AcknowledgedStep ==
  ASSUME TypeOK, AcknowledgedIsStored, [Next]_vars
  PROVE  AcknowledgedIsStored'
  <1> SUFFICES ASSUME NEW s \in told' PROVE events'[s.id].digest = s.digest
    BY DEF AcknowledgedIsStored
  <1>1. CASE s \in told
    <2>1. s.id \in Ids /\ s.digest # "none"
      BY <1>1, SubmissionsAssumption DEF TypeOK
    <2>2. events[s.id].digest = s.digest
      BY <1>1 DEF AcknowledgedIsStored
    <2> QED
      BY <2>1, <2>2, StoredKept DEF Stored, NoEvent
  <1>2. CASE s \notin told
    <2>1. ASSUME NEW c \in Calls, Accept(c) PROVE events'[s.id].digest = s.digest
      <3>1. s = sub[c]
        BY <1>2, <2>1 DEF Accept
      <3>2. events'[sub[c].id] = [digest |-> sub[c].digest, slot |-> sub[c].slot,
                                  bytes |-> sub[c].bytes, day |-> day[c]]
        BY <2>1, AcceptedEvent
      <3> QED
        BY <3>1, <3>2
    <2>2. ASSUME NEW c \in Calls, Duplicate(c) PROVE events'[s.id].digest = s.digest
      BY <1>2, <2>2 DEF Duplicate, Repeats, tables
    <2> QED
      BY <1>2, <2>1, <2>2, EventsAlone
  <1> QED
    BY <1>1, <1>2

LEMMA SlotStep ==
  ASSUME TypeOK, OneEventPerSlot, [Next]_vars
  PROVE  OneEventPerSlot'
  <1>1. CASE \A c \in Calls : ~Accept(c)
    BY <1>1, EventsAlone DEF OneEventPerSlot, StoredIds, Stored
  <1>2. ASSUME NEW c \in Calls, Accept(c) PROVE OneEventPerSlot'
    <2>1. \A e \in Ids : events[e].slot # sub[c].slot
      BY <1>2 DEF Accept, Insertable
    <2>2. \A e \in StoredIds : e \in Ids /\ e # sub[c].id /\ events'[e] = events[e]
      BY <1>2, AcceptedEvent DEF StoredIds
    <2>3. events'[sub[c].id] = [digest |-> sub[c].digest, slot |-> sub[c].slot,
                                bytes |-> sub[c].bytes, day |-> day[c]]
      BY <1>2, AcceptedEvent
    <2>4. StoredIds' = StoredIds \cup {sub[c].id}
      BY <1>2, AcceptedEvent
    <2> QED
      BY <2>1, <2>2, <2>3, <2>4 DEF OneEventPerSlot
  <1> QED
    BY <1>1, <1>2

LEMMA EventInvInit == Init => EventInv
  <1> SUFFICES ASSUME Init PROVE EventInv
    OBVIOUS
  <1>1. StoredIds = {}
    BY DEF Init, StoredIds, Stored
  <1>2. CountExact
    BY <1>1, FS_EmptySet, LimitsAssumption DEF Init, CountExact, NoUsage
  <1>3. UsageHeld
    BY CallsAssumption DEF Init, UsageHeld
  <1>4. UsageExact
    <2>1. usage.bytes = 0 /\ usage.daily = 0
      BY DEF Init, NoUsage
    <2>2. Total([e \in Ids |-> events[e].bytes], StoredIds) = 0
      BY <1>1, TotalEmpty
    <2>3. Cardinality({e \in StoredIds : events[e].day = usage.day}) = 0
      BY <1>1, FS_EmptySet
    <2> QED
      BY <1>2, <2>1, <2>2, <2>3 DEF UsageExact
  <1> QED
    BY <1>1, <1>3, <1>4 DEF Init, EventInv, AcknowledgedIsStored, OneEventPerSlot

LEMMA EventInvStep == TypeOK /\ TypeOK' /\ EventInv /\ [Next]_vars => EventInv'
  BY UsageHeldStep, UsageStep, AcknowledgedStep, SlotStep DEF EventInv

LEMMA EventInvariant == Spec => []EventInv
  BY EventInvInit, EventInvStep, TypeCorrect, PTL DEF Spec

\* The usage row has the number of the stored events and the sum of their bytes,
\* and both keep within MaxEvents and MaxBytes, however many calls are accepted at
\* the same time and whichever of them fail half-way.  The counter of its day is
\* never ahead of that day's events, but may be behind (DailyAllowance).
THEOREM UsageAccounts == Spec => []UsageExact
  BY EventInvariant, PTL DEF EventInv

\* What a client was told is stored is stored, with the content it sent.
THEOREM Acknowledged == Spec => []AcknowledgedIsStored
  BY EventInvariant, PTL DEF EventInv

\* No two events have the same place in a stream.
THEOREM SlotsDistinct == Spec => []OneEventPerSlot
  BY EventInvariant, PTL DEF EventInv

\* The two together: what was accepted is there as it was sent.
THEOREM AcceptsRightly == Spec => []AcceptedRightly
  BY Acknowledged, SlotsDistinct, PTL DEF AcceptedRightly

\* An accepted event is never replaced.
THEOREM ContentKept == Spec => FirstContentKept
  <1>1. TypeOK /\ [Next]_vars => [\A e \in Ids : Stored(e) => events'[e] = events[e]]_vars
    BY StoredKept
  <1> QED
    BY <1>1, TypeCorrect, PTL DEF Spec, FirstContentKept

-----------------------------------------------------------------------------
(* What the steps do to rows, locks and the rows calls are going to write. *)

LEMMA RowFacts ==
  ASSUME NEW r \in Row
  PROVE  /\ r.revision \in Nat
         /\ r = NoRow => r.revision = 0 /\ r.batch = 0 /\ r.transactions = <<>>
         /\ r # NoRow => /\ r.revision >= 1 /\ r.batch \in Batches /\ r.batch # 0
                         /\ r.transactions \in Seq(Hashes)
                         /\ Len(r.transactions) <= MaxTxs
  <1>1. CASE r = NoRow
    BY <1>1 DEF NoRow
  <1>2. CASE r # NoRow
    BY <1>2, LimitsAssumption DEF Row
  <1> QED
    BY <1>1, <1>2

\* The rest of the state that matters to d is as it was.
Undisturbed(d) ==
    /\ want'[d] = want[d] /\ todo'[d] = todo[d] /\ Written(d)' = Written(d)
    /\ pc'[d] = "writing" <=> pc[d] = "writing"
    /\ \A e \in Ids : rowLock'[e] = d <=> rowLock[e] = d

\* c has nothing to write any more and holds no row.
Over(c) ==
    /\ want'[c] = NoRows /\ todo'[c] = {} /\ Written(c)' = {}
    /\ pc'[c] # "writing"
    /\ \A e \in Ids : rowLock'[e] # c

\* c starts to write and holds no row yet.
Started(c) ==
    /\ todo'[c] = Written(c)' /\ Written(c)' # {}
    /\ pc'[c] = "writing"
    /\ \A e \in Ids : rowLock'[e] # c

LEMMA Ended ==
  ASSUME TypeOK, NEW c \in Calls, Finish(c)
  PROVE  Over(c) /\ \A d \in Calls \ {c} : Undisturbed(d)
  <1>1. want'[c] = NoRows /\ todo'[c] = {} /\ pc'[c] = "idle"
    BY DEF TypeOK, Finish
  <1>2. Written(c)' = {}
    BY <1>1 DEF Written, NoRows
  <1>3. \A e \in Ids : rowLock'[e] # c
    BY CallsAssumption DEF Finish
  <1>4. ASSUME NEW d \in Calls \ {c}
        PROVE  Undisturbed(d)
    <2>1. want'[d] = want[d] /\ todo'[d] = todo[d] /\ pc'[d] = pc[d]
      BY DEF TypeOK, Finish
    <2>2. \A e \in Ids : rowLock'[e] = d <=> rowLock[e] = d
      BY CallsAssumption DEF Finish
    <2> QED
      BY <2>1, <2>2 DEF Undisturbed, Written
  <1> QED
    BY <1>1, <1>2, <1>3, <1>4 DEF Over

\* A call that does not write has nothing to write and holds nothing.
LEMMA IdleHoldsNothing ==
  ASSUME LocksHeld, NEW c \in Calls, pc[c] # "writing"
  PROVE  /\ Written(c) = {} /\ todo[c] = {}
         /\ \A e \in Ids : rowLock[e] # c
  BY DEF LocksHeld, LocksOf

LEMMA Prepared ==
  ASSUME TypeOK, LocksHeld, NEW c \in Calls, NEW limit \in Limits, PrepareRead(c, limit)
  PROVE  /\ UNCHANGED <<events, outbox, rows>>
         /\ Started(c) /\ \A d \in Calls \ {c} : Undisturbed(d)
         /\ \E b \in Batches :
               /\ \A e \in Ids, d \in Calls : rows[e].batch # b /\ want[d][e].batch # b
               /\ \A e \in Written(c)' :
                     /\ e \in Pending
                     /\ want'[c][e] = [batch |-> b, revision |-> 1, transactions |-> <<>>]
  <1>1. PICK b \in Batches, S \in (SUBSET Pending) \ {{}} :
           /\ \A e \in Ids, d \in Calls : rows[e].batch # b /\ want[d][e].batch # b
           /\ todo' = [todo EXCEPT ![c] = S]
           /\ want' = [want EXCEPT ![c] = [e \in Ids |->
                 IF e \in S THEN [batch |-> b, revision |-> 1, transactions |-> <<>>]
                 ELSE NoRow]]
    BY DEF PrepareRead
  <1>2. /\ pc[c] = "idle" /\ pc' = [pc EXCEPT ![c] = "writing"]
        /\ rowLock' = rowLock /\ UNCHANGED <<events, outbox, rows>>
    BY DEF PrepareRead, tables, locks
  <1>3. todo'[c] = S /\ pc'[c] = "writing"
    BY <1>1, <1>2 DEF TypeOK
  <1>4. \A e \in Ids : want'[c][e] =
           IF e \in S THEN [batch |-> b, revision |-> 1, transactions |-> <<>>] ELSE NoRow
    BY <1>1 DEF TypeOK
  <1>5. [batch |-> b, revision |-> 1, transactions |-> <<>>] # NoRow
    BY DEF NoRow
  <1>6. Written(c)' = S
    BY <1>1, <1>4, <1>5 DEF Written, Pending
  <1>7. Started(c)
    BY <1>1, <1>2, <1>3, <1>6, IdleHoldsNothing DEF Started
  <1>8. \A d \in Calls \ {c} : Undisturbed(d)
    BY <1>1, <1>2 DEF TypeOK, Undisturbed, Written
  <1>9. \A e \in Written(c)' :
           /\ e \in Pending
           /\ want'[c][e] = [batch |-> b, revision |-> 1, transactions |-> <<>>]
    BY <1>1, <1>4, <1>6 DEF Pending
  <1> QED
    BY <1>1, <1>2, <1>7, <1>8, <1>9

LEMMA Attached ==
  ASSUME TypeOK, LocksHeld, NEW c \in Calls, NEW b \in Batches, NEW h \in Hashes,
         AttachRead(c, b, h)
  PROVE  /\ UNCHANGED <<events, outbox, rows>>
         /\ Started(c) /\ \A d \in Calls \ {c} : Undisturbed(d)
         /\ Written(c)' = Members(b)
         /\ \A e \in Members(b) :
               /\ Has(rows[e].transactions, h) \/ Room(rows[e].transactions)
               /\ want'[c][e] = [batch |-> b, revision |-> rows[e].revision + 1,
                                 transactions |->
                                    IF Has(rows[e].transactions, h) THEN rows[e].transactions
                                    ELSE Append(rows[e].transactions, h)]
  <1> DEFINE new(e) == [batch |-> b, revision |-> rows[e].revision + 1,
                        transactions |->
                           IF Has(rows[e].transactions, h) THEN rows[e].transactions
                           ELSE Append(rows[e].transactions, h)]
  <1>1. /\ pc[c] = "idle" /\ pc' = [pc EXCEPT ![c] = "writing"] /\ Members(b) # {}
        /\ rowLock' = rowLock /\ UNCHANGED <<events, outbox, rows>>
        /\ todo' = [todo EXCEPT ![c] = Members(b)]
        /\ want' = [want EXCEPT ![c] = [e \in Ids |->
                       IF e \notin Members(b) THEN NoRow ELSE new(e)]]
        /\ \A e \in Members(b) : Has(rows[e].transactions, h) \/ Room(rows[e].transactions)
    BY DEF AttachRead, tables, locks
  <1>2. \A e \in Ids : new(e) # NoRow
    BY LimitsAssumption DEF NoRow
  <1> HIDE DEF new
  <1>3. todo'[c] = Members(b) /\ pc'[c] = "writing"
    BY <1>1 DEF TypeOK
  <1>4. \A e \in Ids : want'[c][e] = IF e \notin Members(b) THEN NoRow ELSE new(e)
    BY <1>1 DEF TypeOK
  <1>5. Members(b) \subseteq Ids
    BY DEF Members
  <1>6. Written(c)' = Members(b)
    BY <1>2, <1>4, <1>5 DEF Written
  <1>7. Started(c)
    BY <1>1, <1>3, <1>6, IdleHoldsNothing DEF Started
  <1>8. \A d \in Calls \ {c} : Undisturbed(d)
    BY <1>1 DEF TypeOK, Undisturbed, Written
  <1>9. \A e \in Members(b) : want'[c][e] = new(e)
    BY <1>4, <1>5
  <1> QED
    BY <1>1, <1>6, <1>7, <1>8, <1>9 DEF new

LEMMA Locked ==
  ASSUME TypeOK, NEW c \in Calls, WriteRow(c)
  PROVE  /\ UNCHANGED <<events, outbox, rows, want>>
         /\ pc[c] = "writing" /\ pc' = pc
         /\ \A d \in Calls \ {c} : Undisturbed(d)
         /\ \E e \in todo[c] :
               /\ \A f \in todo[c] : e <= f
               /\ Current(c, e)
               /\ rowLock' = [rowLock EXCEPT ![e] = c]
               /\ todo'[c] = todo[c] \ {e}
  <1>1. PICK e \in Ids : /\ NextRow(c, e) /\ rowLock[e] = None /\ Current(c, e)
                         /\ rowLock' = [rowLock EXCEPT ![e] = c]
                         /\ todo' = [todo EXCEPT ![c] = todo[c] \ {e}]
    BY DEF WriteRow
  <1>2. /\ UNCHANGED <<events, outbox, rows, want>>
        /\ pc[c] = "writing" /\ pc' = pc
    BY DEF WriteRow, tables
  <1>3. ASSUME NEW d \in Calls \ {c} PROVE Undisturbed(d)
    <2>1. todo'[d] = todo[d]
      BY <1>1 DEF TypeOK
    <2>2. \A f \in Ids : rowLock'[f] = d <=> rowLock[f] = d
      BY <1>1, CallsAssumption DEF TypeOK
    <2> QED
      BY <1>2, <2>1, <2>2 DEF Undisturbed, Written
  <1>4. todo'[c] = todo[c] \ {e}
    BY <1>1 DEF TypeOK
  <1> QED
    BY <1>1, <1>2, <1>3, <1>4 DEF NextRow

\* Every step is of one of these kinds, as far as rows are concerned.
Elsewhere ==
    UNCHANGED <<events, outbox, rows, want>> /\ \A d \in Calls : Undisturbed(d)
GivesUp(c) == Finish(c) /\ UNCHANGED <<events, outbox, rows>>

LEMMA RowSteps ==
  ASSUME TypeOK, [Next]_vars
  PROVE  \/ Elsewhere
         \/ \E c \in Calls :
               \/ GivesUp(c) \/ Accept(c) \/ WriteRow(c) \/ CommitEvidence(c)
               \/ \E limit \in Limits : PrepareRead(c, limit)
               \/ \E b \in Batches, h \in Hashes : AttachRead(c, b, h)
  <1>1. ASSUME NEW c \in Calls, LockUsage(c) PROVE Elsewhere
    <2>1. /\ UNCHANGED <<events, outbox, rows, want, todo, rowLock>>
          /\ pc[c] = "stamped" /\ pc' = [pc EXCEPT ![c] = "checking"]
      BY <1>1 DEF LockUsage, tables
    <2> QED
      BY <2>1 DEF TypeOK, Elsewhere, Undisturbed, Written
  <1>2. ASSUME NEW c \in Calls, NEW s \in Submissions, Submit(c, s) PROVE Elsewhere
    <2>1. /\ UNCHANGED <<events, outbox, rows, want, todo, rowLock>>
          /\ pc[c] = "idle" /\ pc' = [pc EXCEPT ![c] = "stamped"]
      BY <1>2 DEF Submit, tables, locks
    <2> QED
      BY <2>1 DEF TypeOK, Elsewhere, Undisturbed, Written
  <1>3. ASSUME Midnight \/ UNCHANGED vars PROVE Elsewhere
    <2>1. UNCHANGED <<events, outbox, rows, want, todo, rowLock, pc>>
      BY <1>3 DEF Midnight, vars, tables, local, locks
    <2> QED
      BY <2>1 DEF Elsewhere, Undisturbed, Written
  <1>4. ASSUME NEW c \in Calls, Duplicate(c) \/ Refuse(c) \/ WriteRefused(c) \/ Fail(c)
        PROVE  GivesUp(c)
    BY <1>4 DEF GivesUp, Duplicate, Refuse, WriteRefused, Fail, tables
  <1> QED
    BY <1>1, <1>2, <1>3, <1>4 DEF Next, Step

\* A commit writes exactly the rows the call wants, which are still those it
\* read and which it has locked.
LEMMA Committed ==
  ASSUME TypeOK, LocksHeld, Fresh, NEW c \in Calls, CommitEvidence(c)
  PROVE  /\ UNCHANGED events
         /\ Over(c) /\ \A d \in Calls \ {c} : Undisturbed(d)
         /\ Written(c) # {} /\ Written(c) \subseteq Ids
         /\ \A e \in Ids \ Written(c) : rows'[e] = rows[e] /\ outbox'[e] = outbox[e]
         /\ \A e \in Written(c) :
               /\ rows'[e] = want[c][e] /\ want[c][e] # NoRow
               /\ outbox'[e] = Status(want[c][e])
               /\ rowLock[e] = c /\ Current(c, e) /\ Stored(e)
               /\ Grows(rows[e], want[c][e])
  <1>1. /\ UNCHANGED events /\ Finish(c) /\ pc[c] = "writing" /\ todo[c] = {}
        /\ rows' = [e \in Ids |-> IF e \in Written(c) THEN want[c][e] ELSE rows[e]]
        /\ outbox' = [e \in Ids |-> IF e \in Written(c) THEN Status(want[c][e])
                                    ELSE outbox[e]]
    BY DEF CommitEvidence
  <1>2. Written(c) \subseteq Ids /\ \A e \in Written(c) : want[c][e] # NoRow
    BY DEF Written
  <1>3. Written(c) # {} /\ \A e \in Written(c) : rowLock[e] = c
    BY <1>1, <1>2 DEF LocksHeld, LocksOf
  <1>4. \A e \in Written(c) : Current(c, e) /\ Stored(e) /\ Grows(rows[e], want[c][e])
    BY <1>3 DEF Fresh, FreshRow
  <1>5. \A e \in Ids \ Written(c) : rows'[e] = rows[e] /\ outbox'[e] = outbox[e]
    BY <1>1
  <1>6. \A e \in Written(c) : rows'[e] = want[c][e] /\ outbox'[e] = Status(want[c][e])
    BY <1>1, <1>2
  <1> QED
    BY <1>1, <1>2, <1>3, <1>4, <1>5, <1>6, Ended

-----------------------------------------------------------------------------
(* The row invariant is inductive. *)

LEMMA LocksHeldStep ==
  ASSUME TypeOK, LocksHeld, Fresh, [Next]_vars
  PROVE  LocksHeld'
  <1>1. ASSUME NEW d \in Calls, Undisturbed(d) PROVE LocksOf(d)'
    BY <1>1 DEF LocksHeld, LocksOf, Undisturbed
  <1>2. ASSUME NEW c \in Calls, Over(c) PROVE LocksOf(c)'
    BY <1>2 DEF LocksOf, Over
  <1>3. ASSUME NEW c \in Calls, Started(c) PROVE LocksOf(c)'
    BY <1>3 DEF LocksOf, Started
  <1>4. ASSUME NEW c \in Calls, WriteRow(c) PROVE LocksHeld'
    <2>1. PICK e \in todo[c] : /\ \A f \in todo[c] : e <= f
                               /\ rowLock' = [rowLock EXCEPT ![e] = c]
                               /\ todo'[c] = todo[c] \ {e}
      BY <1>4, Locked
    <2>2. Written(c)' = Written(c) /\ pc[c] = "writing" /\ pc'[c] = "writing"
      BY <1>4, Locked DEF Written
    <2>3. e \in Written(c) /\ e \in Ids /\ todo[c] \subseteq Ids
      BY DEF LocksHeld, LocksOf, TypeOK
    <2>4. \A f \in Ids : rowLock'[f] = c <=> f = e \/ rowLock[f] = c
      BY <2>1, <2>3 DEF TypeOK
    <2>5. LocksOf(c)
      BY DEF LocksHeld
    <2>6. \A f, g \in Ids : rowLock'[f] = c /\ g \in todo'[c] => f < g
      <3> SUFFICES ASSUME NEW f \in Ids, NEW g \in Ids, rowLock'[f] = c, g \in todo'[c]
                   PROVE  f < g
        OBVIOUS
      <3>1. f \in Nat /\ g \in Nat /\ g # e /\ e <= g /\ g \in todo[c]
        BY <2>1, IdsAssumption
      <3>2. CASE f = e
        BY <3>1, <3>2
      <3>3. CASE rowLock[f] = c
        BY <2>5, <3>1, <3>3 DEF LocksOf
      <3> QED
        BY <2>4, <3>2, <3>3
    <2>7. \A f \in Ids : rowLock'[f] = c <=> f \in Written(c) \ todo'[c]
      BY <2>1, <2>3, <2>4, <2>5 DEF LocksOf
    <2>8. todo'[c] \subseteq Written(c) /\ Written(c) # {}
      BY <2>1, <2>3, <2>5 DEF LocksOf
    <2>9. LocksOf(c)'
      BY <2>2, <2>6, <2>7, <2>8 DEF LocksOf
    <2> QED
      BY <1>1, <1>4, <2>9, Locked DEF LocksHeld
  <1>5. ASSUME NEW c \in Calls, GivesUp(c) \/ Accept(c) PROVE LocksHeld'
    BY <1>1, <1>2, <1>5, Ended DEF LocksHeld, GivesUp, Accept
  <1>6. ASSUME NEW c \in Calls, CommitEvidence(c) PROVE LocksHeld'
    BY <1>1, <1>2, <1>6, Committed DEF LocksHeld
  <1>7. ASSUME NEW c \in Calls, NEW limit \in Limits, PrepareRead(c, limit)
        PROVE  LocksHeld'
    BY <1>1, <1>3, <1>7, Prepared DEF LocksHeld
  <1>8. ASSUME NEW c \in Calls, NEW b \in Batches, NEW h \in Hashes, AttachRead(c, b, h)
        PROVE  LocksHeld'
    BY <1>1, <1>3, <1>8, Attached DEF LocksHeld
  <1>9. ASSUME Elsewhere PROVE LocksHeld'
    BY <1>1, <1>9 DEF LocksHeld, Elsewhere
  <1> QED
    BY <1>4, <1>5, <1>6, <1>7, <1>8, <1>9, RowSteps

LEMMA FreshStep ==
  ASSUME TypeOK, LocksHeld, Fresh, OutboxAgrees, [Next]_vars
  PROVE  Fresh'
  <1>1. \A e \in Ids : Stored(e) => Stored(e)'
    BY StoredKept DEF Stored
  <1>2. ASSUME NEW d \in Calls, Undisturbed(d), NEW e \in Written(d)', rows'[e] = rows[e]
        PROVE  FreshRow(d, e)'
    <2>1. e \in Ids /\ e \in Written(d) /\ want'[d] = want[d]
          /\ (rowLock'[e] = d <=> rowLock[e] = d)
      BY <1>2 DEF Undisturbed, Written
    <2>2. Current(d, e)' <=> Current(d, e)
      BY <1>2, <2>1 DEF Current
    <2>3. Grows(rows[e], want[d][e])' <=> Grows(rows[e], want[d][e])
      BY <1>2, <2>1 DEF Grows
    <2> QED
      BY <1>1, <1>2, <2>1, <2>2, <2>3 DEF Fresh, FreshRow
  <1>3. ASSUME NEW c \in Calls, Over(c) PROVE \A e \in Written(c)' : FreshRow(c, e)'
    BY <1>3 DEF Over
  <1>4. ASSUME NEW c \in Calls, WriteRow(c) PROVE Fresh'
    <2>1. PICK e \in todo[c] : Current(c, e) /\ rowLock' = [rowLock EXCEPT ![e] = c]
      BY <1>4, Locked
    <2>2. UNCHANGED <<events, rows, want>>
      BY <1>4, Locked
    <2>3. ASSUME NEW f \in Written(c)' PROVE FreshRow(c, f)'
      <3>1. f \in Written(c) /\ f \in Ids
        BY <2>2 DEF Written
      <3>2. FreshRow(c, f)
        BY <3>1 DEF Fresh
      <3>3. rowLock'[f] = c => f = e \/ rowLock[f] = c
        BY <2>1, <3>1 DEF TypeOK
      <3>4. Current(c, f)' <=> Current(c, f)
        BY <2>2 DEF Current
      <3>5. Grows(rows[f], want[c][f])' <=> Grows(rows[f], want[c][f])
        BY <2>2 DEF Grows
      <3>6. Stored(f)' <=> Stored(f)
        BY <2>2 DEF Stored
      <3> QED
        BY <2>1, <2>2, <3>2, <3>3, <3>4, <3>5, <3>6 DEF FreshRow
    <2> QED
      BY <1>2, <1>4, <2>2, <2>3, Locked DEF Fresh
  <1>5. ASSUME NEW c \in Calls, GivesUp(c) \/ Accept(c) PROVE Fresh'
    BY <1>2, <1>3, <1>5, Ended DEF Fresh, GivesUp, Accept
  <1>6. ASSUME NEW c \in Calls, CommitEvidence(c) PROVE Fresh'
    <2>1. ASSUME NEW d \in Calls \ {c}, NEW e \in Written(d)' PROVE FreshRow(d, e)'
      <3>1. Undisturbed(d) /\ e \in Ids /\ e \in Written(d)
        BY <1>6, Committed DEF Undisturbed, Written
      <3>2. CASE e \notin Written(c)
        BY <1>2, <1>6, <3>1, <3>2, Committed
      <3>3. CASE e \in Written(c)
        <4>1. rowLock[e] = c /\ rows'[e].revision = rows[e].revision + 1
          BY <1>6, <3>3, Committed DEF Current
        <4>2. rows[e].revision \in Nat /\ want[d][e].revision \in Nat
          BY <3>1, RowFacts DEF TypeOK
        <4>3. want[d][e].revision <= rows[e].revision + 1 /\ Stored(e)
          BY <3>1 DEF Fresh, FreshRow
        <4>4. want'[d] = want[d] /\ rowLock'[e] # d
          BY <3>1, <4>1 DEF Undisturbed
        <4>5. want'[d][e].revision < rows'[e].revision + 1
          BY <4>1, <4>2, <4>3, <4>4
        <4>6. ~Current(d, e)'
          BY <4>1, <4>2, <4>4, <4>5 DEF Current
        <4> QED
          BY <1>1, <3>1, <4>1, <4>2, <4>3, <4>4, <4>5, <4>6 DEF FreshRow
      <3> QED
        BY <3>2, <3>3
    <2> QED
      BY <1>3, <1>6, <2>1, Committed DEF Fresh
  <1>7. ASSUME NEW c \in Calls, NEW limit \in Limits, PrepareRead(c, limit)
        PROVE  Fresh'
    <2>1. UNCHANGED <<events, rows>> /\ Started(c) /\ \A d \in Calls \ {c} : Undisturbed(d)
      BY <1>7, Prepared
    <2>2. ASSUME NEW e \in Written(c)' PROVE FreshRow(c, e)'
      <3>1. /\ want'[c][e].revision = 1 /\ want'[c][e].transactions = <<>>
            /\ e \in Ids /\ Stored(e) /\ rows[e] = NoRow
        <4>1. PICK b \in Batches : \A g \in Written(c)' :
                 /\ g \in Pending
                 /\ want'[c][g] = [batch |-> b, revision |-> 1, transactions |-> <<>>]
          BY <1>7, Prepared
        <4>2. e \in Pending
              /\ want'[c][e] = [batch |-> b, revision |-> 1, transactions |-> <<>>]
          BY <2>2, <4>1
        <4> QED
          BY <4>2 DEF Pending
      <3>2. rowLock'[e] # c
        BY <2>1, <3>1 DEF Started
      <3> QED
        BY <1>1, <2>1, <3>1, <3>2 DEF FreshRow, Grows, NoRow
    <2> QED
      BY <1>2, <2>1, <2>2 DEF Fresh, Undisturbed, Written
  <1>8. ASSUME NEW c \in Calls, NEW b \in Batches, NEW h \in Hashes, AttachRead(c, b, h)
        PROVE  Fresh'
    <2>1. UNCHANGED <<events, rows>> /\ Started(c) /\ \A d \in Calls \ {c} : Undisturbed(d)
      BY <1>8, Attached
    <2>2. ASSUME NEW e \in Written(c)' PROVE FreshRow(c, e)'
      <3>1. /\ e \in Ids /\ rows[e].batch = b
            /\ Has(rows[e].transactions, h) \/ Room(rows[e].transactions)
            /\ want'[c][e] = [batch |-> b, revision |-> rows[e].revision + 1,
                              transactions |->
                                 IF Has(rows[e].transactions, h) THEN rows[e].transactions
                                 ELSE Append(rows[e].transactions, h)]
        BY <1>8, <2>2, Attached DEF Members
      <3>2. rows[e] # NoRow
        BY <3>1, LimitsAssumption DEF NoRow
      <3>3. Grows(rows[e], want'[c][e])
        BY <3>1, <3>2 DEF Grows
      <3>4. rowLock'[e] # c
        BY <2>1, <3>1 DEF Started
      <3>5. Stored(e)
        BY <3>1, <3>2 DEF OutboxAgrees
      <3>6. rows[e].revision \in Nat /\ want'[c][e].revision = rows[e].revision + 1
        BY <3>1, RowFacts DEF TypeOK
      <3>7. Grows(rows[e], want[c][e])'
        BY <2>1, <3>3 DEF Grows
      <3>8. Stored(e)'
        BY <1>1, <3>1, <3>5
      <3> QED
        BY <2>1, <3>4, <3>6, <3>7, <3>8 DEF FreshRow
    <2> QED
      BY <1>2, <2>1, <2>2 DEF Fresh, Undisturbed, Written
  <1>9. ASSUME Elsewhere PROVE Fresh'
    BY <1>2, <1>9 DEF Fresh, Elsewhere
  <1> QED
    BY <1>4, <1>5, <1>6, <1>7, <1>8, <1>9, RowSteps

\* A new batch has no rows but those it is committed with; a call that goes on
\* with an old batch has all of them.
LEMMA OutsideBatch ==
  ASSUME TypeOK, WholeBatch, NEW c \in Calls, NEW e \in Written(c),
         NEW f \in Ids \ Written(c)
  PROVE  rows[f].batch # want[c][e].batch
  <1>1. WholeRow(c, e)
    BY DEF WholeBatch
  <1> QED
    BY <1>1 DEF WholeRow, Members

\* A commit does not change the members of a batch another call works on.
LEMMA CommitMembers ==
  ASSUME TypeOK, LocksHeld, Fresh, WholeBatch, NEW c \in Calls, CommitEvidence(c),
         NEW d \in Calls \ {c}, NEW e \in Written(d)
  PROVE  \A f \in Ids : rows'[f].batch = want[d][e].batch
                           <=> rows[f].batch = want[d][e].batch
  <1> SUFFICES ASSUME NEW f \in Ids
               PROVE  rows'[f].batch = want[d][e].batch
                         <=> rows[f].batch = want[d][e].batch
    OBVIOUS
  <1>1. e \in Ids /\ want[d][e] # NoRow /\ want[d][e] \in Row
    BY DEF Written, TypeOK
  <1>2. want[d][e].batch # 0
    BY <1>1, RowFacts
  <1>3. CASE f \notin Written(c)
    BY <1>3, Committed
  <1>4. CASE f \in Written(c)
    <2>1. rows'[f] = want[c][f] /\ Grows(rows[f], want[c][f])
      BY <1>4, Committed
    <2>2. CASE rows[f] # NoRow
      BY <2>1, <2>2 DEF Grows
    <2>3. CASE rows[f] = NoRow
      <3>1. want[c][f].revision = 1
        BY <2>1, <2>3 DEF Grows
      <3>2. WholeRow(c, f)
        BY <1>4 DEF WholeBatch
      <3>3. want[d][e].batch # want[c][f].batch
        BY <1>1, <3>1, <3>2 DEF WholeRow
      <3>4. rows[f].batch = 0
        BY <2>3 DEF NoRow
      <3> QED
        BY <1>2, <2>1, <3>3, <3>4
    <2> QED
      BY <2>2, <2>3
  <1> QED
    BY <1>3, <1>4

\* Whether a call that is left alone still writes a whole batch depends only on
\* the rows of that batch and on what others want.
LEMMA WholeKept ==
  ASSUME NEW d \in Calls, Undisturbed(d), NEW e \in Written(d), WholeRow(d, e),
         \A f \in Ids : rows'[f].batch = want[d][e].batch
                           <=> rows[f].batch = want[d][e].batch,
         want[d][e].revision = 1 =>
            \A o \in Calls \ {d}, f \in Ids :
               want[o][f].batch # want[d][e].batch => want'[o][f].batch # want[d][e].batch
  PROVE  WholeRow(d, e)'
  <1>1. want'[d] = want[d] /\ Written(d)' = Written(d)
    BY DEF Undisturbed
  <1>2. Members(want[d][e].batch)' = Members(want[d][e].batch)
    BY <1>1 DEF Members
  <1> QED
    BY <1>1, <1>2 DEF WholeRow

LEMMA WholeBatchStep ==
  ASSUME TypeOK, LocksHeld, Fresh, WholeBatch, BatchUniform, [Next]_vars
  PROVE  WholeBatch'
  <1>1. ASSUME NEW c \in Calls, Over(c) PROVE \A e \in Written(c)' : WholeRow(c, e)'
    BY <1>1 DEF Over
  <1>2. \A d \in Calls : \A e \in Written(d) :
           e \in Ids /\ want[d][e].batch # 0 /\ WholeRow(d, e)
    <2> SUFFICES ASSUME NEW d \in Calls, NEW e \in Written(d)
                 PROVE  e \in Ids /\ want[d][e].batch # 0 /\ WholeRow(d, e)
      OBVIOUS
    <2>1. e \in Ids /\ want[d][e] # NoRow /\ want[d][e] \in Row
      BY DEF Written, TypeOK
    <2> QED
      BY <2>1, RowFacts DEF WholeBatch
  \* A call that ends wants nothing, so others lose nothing.
  <1>3. ASSUME NEW c \in Calls, Over(c), \A d \in Calls \ {c} : Undisturbed(d),
               NEW d \in Calls \ {c}, NEW e \in Written(d),
               \A f \in Ids : rows'[f].batch = want[d][e].batch
                                 <=> rows[f].batch = want[d][e].batch
        PROVE  WholeRow(d, e)'
    <2>1. \A o \in Calls \ {d}, f \in Ids :
             want[o][f].batch # want[d][e].batch => want'[o][f].batch # want[d][e].batch
      <3> SUFFICES ASSUME NEW o \in Calls \ {d}, NEW f \in Ids,
                          want[o][f].batch # want[d][e].batch
                   PROVE  want'[o][f].batch # want[d][e].batch
        OBVIOUS
      <3>1. CASE o = c
        <4>1. want'[c][f] = NoRow
          BY <1>3 DEF Over, NoRows
        <4> QED
          BY <1>2, <3>1, <4>1 DEF NoRow
      <3>2. CASE o # c
        BY <1>3, <3>2 DEF Undisturbed
      <3> QED
        BY <3>1, <3>2
    <2>2. Undisturbed(d) /\ WholeRow(d, e)
      BY <1>2, <1>3
    <2> QED
      BY <1>3, <2>1, <2>2, WholeKept
  <1>4. ASSUME NEW c \in Calls, WriteRow(c) PROVE WholeBatch'
    BY <1>4, Locked DEF WholeBatch, WholeRow, Written, Members
  <1>5. ASSUME NEW c \in Calls, GivesUp(c) \/ Accept(c) PROVE WholeBatch'
    <2>1. Finish(c) /\ rows' = rows
      BY <1>5 DEF GivesUp, Accept
    <2>2. Over(c) /\ \A d \in Calls \ {c} : Undisturbed(d)
      BY <2>1, Ended
    <2>3. \A d \in Calls \ {c} : Written(d)' = Written(d)
      BY <2>2 DEF Undisturbed
    <2> QED
      BY <1>1, <1>3, <2>1, <2>2, <2>3 DEF WholeBatch
  <1>6. ASSUME NEW c \in Calls, CommitEvidence(c) PROVE WholeBatch'
    <2>1. Over(c) /\ \A d \in Calls \ {c} : Undisturbed(d)
      BY <1>6, Committed
    <2>2. \A d \in Calls \ {c} : Written(d)' = Written(d)
      BY <2>1 DEF Undisturbed
    <2> QED
      BY <1>1, <1>3, <1>6, <2>1, <2>2, CommitMembers DEF WholeBatch
  <1>7. ASSUME NEW c \in Calls, NEW limit \in Limits, PrepareRead(c, limit)
        PROVE  WholeBatch'
    <2>1. UNCHANGED rows /\ Started(c) /\ \A d \in Calls \ {c} : Undisturbed(d)
      BY <1>7, Prepared
    <2>2. PICK b \in Batches :
             /\ \A e \in Ids, d \in Calls : rows[e].batch # b /\ want[d][e].batch # b
             /\ \A e \in Written(c)' :
                   want'[c][e] = [batch |-> b, revision |-> 1, transactions |-> <<>>]
      BY <1>7, Prepared
    <2>3. \A e \in Ids : want'[c][e] = NoRow \/ want'[c][e].batch = b
      BY <2>2 DEF Written
    <2>4. ASSUME NEW e \in Written(c)' PROVE WholeRow(c, e)'
      <3>1. want'[c][e] = [batch |-> b, revision |-> 1, transactions |-> <<>>]
        BY <2>2
      <3>2. Members(b)' = {}
        BY <2>1, <2>2 DEF Members
      <3>3. \A d \in Calls \ {c}, f \in Ids : want'[d][f].batch # b
        BY <2>1, <2>2 DEF Undisturbed
      <3> QED
        BY <2>2, <3>1, <3>2, <3>3 DEF WholeRow
    <2>5. ASSUME NEW d \in Calls \ {c}, NEW e \in Written(d)' PROVE WholeRow(d, e)'
      <3>1. Undisturbed(d) /\ e \in Written(d)
        BY <2>1 DEF Undisturbed
      <3>2. e \in Ids /\ WholeRow(d, e) /\ want[d][e].batch # 0 /\ want[d][e].batch # b
        BY <1>2, <2>2, <3>1
      <3>3. \A o \in Calls \ {d}, f \in Ids :
               want[o][f].batch # want[d][e].batch
                  => want'[o][f].batch # want[d][e].batch
        BY <2>1, <2>3, <3>2 DEF NoRow, Undisturbed
      <3> QED
        BY <2>1, <3>1, <3>2, <3>3, WholeKept
    <2> QED
      BY <2>4, <2>5 DEF WholeBatch
  <1>8. ASSUME NEW c \in Calls, NEW b \in Batches, NEW h \in Hashes, AttachRead(c, b, h)
        PROVE  WholeBatch'
    <2>1. /\ UNCHANGED rows /\ Started(c) /\ \A d \in Calls \ {c} : Undisturbed(d)
          /\ Written(c)' = Members(b)
      BY <1>8, Attached
    <2>2. \A e \in Members(b) : want'[c][e] =
             [batch |-> b, revision |-> rows[e].revision + 1,
              transactions |-> IF Has(rows[e].transactions, h) THEN rows[e].transactions
                               ELSE Append(rows[e].transactions, h)]
      BY <1>8, Attached
    <2>3. \A e \in Members(b) : /\ e \in Ids /\ rows[e] # NoRow
                                /\ rows[e].batch = b
      BY LimitsAssumption DEF Members, NoRow
    <2>4. \A e, f \in Members(b) : rows[e] = rows[f]
      BY <2>3 DEF BatchUniform
    <2>5. \A e \in Members(b) : rows[e].revision >= 1 /\ rows[e].revision \in Nat
      BY <2>3, RowFacts DEF TypeOK
    <2>6. Members(b)' = Members(b)
      BY <2>1 DEF Members
    <2>7. \A e \in Members(b) : /\ want'[c][e].batch = b
                                /\ want'[c][e].revision = rows[e].revision + 1
      <3> SUFFICES ASSUME NEW e \in Members(b)
                   PROVE  /\ want'[c][e].batch = b
                          /\ want'[c][e].revision = rows[e].revision + 1
        OBVIOUS
      <3> DEFINE txs == IF Has(rows[e].transactions, h) THEN rows[e].transactions
                        ELSE Append(rows[e].transactions, h)
      <3>1. want'[c][e] = [batch |-> b, revision |-> rows[e].revision + 1,
                           transactions |-> txs]
        BY <2>2
      <3> HIDE DEF txs
      <3> QED
        BY <3>1
    <2>8. ASSUME NEW e \in Written(c)' PROVE WholeRow(c, e)'
      <3>1. want'[c][e].batch = b /\ want'[c][e].revision # 1
        BY <2>1, <2>5, <2>7
      <3>2. \A f \in Written(c)' : want'[c][f] = want'[c][e]
        BY ZenonT(30), <2>1, <2>2, <2>4
      <3> QED
        BY <2>1, <2>6, <3>1, <3>2 DEF WholeRow
    <2>9. \A f \in Ids : want'[c][f] = NoRow \/ (want'[c][f].batch = b /\ f \in Members(b))
      BY <2>1, <2>7 DEF Written
    <2>10. ASSUME NEW d \in Calls \ {c}, NEW e \in Written(d)' PROVE WholeRow(d, e)'
      <3>1. Undisturbed(d) /\ e \in Written(d)
        BY <2>1 DEF Undisturbed
      <3>2. e \in Ids /\ WholeRow(d, e) /\ want[d][e].batch # 0
        BY <1>2, <3>1
      <3>3. want[d][e].revision = 1 => want[d][e].batch # b
        BY <2>1, <3>2 DEF WholeRow, Started
      <3>4. want[d][e].revision = 1 =>
               \A o \in Calls \ {d}, f \in Ids :
                  want[o][f].batch # want[d][e].batch
                     => want'[o][f].batch # want[d][e].batch
        BY <2>1, <2>9, <3>2, <3>3 DEF NoRow, Undisturbed
      <3> QED
        BY <2>1, <3>1, <3>2, <3>4, WholeKept
    <2> QED
      BY <2>8, <2>10 DEF WholeBatch
  <1>9. ASSUME Elsewhere PROVE WholeBatch'
    BY <1>9 DEF Elsewhere, WholeBatch, WholeRow, Written, Members
  <1> QED
    BY <1>4, <1>5, <1>6, <1>7, <1>8, <1>9, RowSteps

LEMMA BatchUniformStep ==
  ASSUME TypeOK, LocksHeld, Fresh, WholeBatch, BatchUniform, [Next]_vars
  PROVE  BatchUniform'
  <1>1. CASE rows' = rows
    BY <1>1 DEF BatchUniform
  <1>2. ASSUME NEW c \in Calls, CommitEvidence(c) PROVE BatchUniform'
    <2> SUFFICES ASSUME NEW e \in Ids, NEW f \in Ids, rows'[e] # NoRow,
                        rows'[f] # NoRow, rows'[e].batch = rows'[f].batch
                 PROVE  rows'[e] = rows'[f]
      BY DEF BatchUniform
    <2>1. CASE e \in Written(c) /\ f \in Written(c)
      BY <1>2, <2>1, Committed DEF WholeBatch, WholeRow
    <2>2. CASE e \notin Written(c) /\ f \notin Written(c)
      BY <1>2, <2>2, Committed DEF BatchUniform
    <2>3. CASE e \in Written(c) /\ f \notin Written(c)
      BY <1>2, <2>3, Committed, OutsideBatch
    <2>4. CASE e \notin Written(c) /\ f \in Written(c)
      BY <1>2, <2>4, Committed, OutsideBatch
    <2> QED
      BY <2>1, <2>2, <2>3, <2>4
  <1>3. rows' = rows \/ \E c \in Calls : CommitEvidence(c)
    BY RowSteps, Prepared, Attached, Locked DEF Elsewhere, GivesUp, Accept
  <1> QED
    BY <1>1, <1>2, <1>3

LEMMA OutboxStep ==
  ASSUME TypeOK, LocksHeld, Fresh, OutboxAgrees, [Next]_vars
  PROVE  OutboxAgrees'
  <1>1. CASE UNCHANGED <<events, outbox, rows>>
    BY <1>1 DEF OutboxAgrees, Stored
  <1>2. ASSUME NEW c \in Calls, Accept(c) PROVE OutboxAgrees'
    <2>1. /\ sub[c].id \in Ids /\ ~Stored(sub[c].id) /\ events'[sub[c].id] # NoEvent
          /\ \A e \in Ids \ {sub[c].id} : events'[e] = events[e]
      BY <1>2, AcceptedEvent DEF StoredIds
    <2>2. rows' = rows /\ outbox' = [outbox EXCEPT ![sub[c].id] = "pending"]
      BY <1>2 DEF Accept
    <2>3. rows[sub[c].id] = NoRow
      BY <2>1 DEF OutboxAgrees
    <2> QED
      BY <2>1, <2>2, <2>3 DEF OutboxAgrees, Stored, TypeOK, NoRow
  <1>3. ASSUME NEW c \in Calls, CommitEvidence(c) PROVE OutboxAgrees'
    <2>1. /\ UNCHANGED events
          /\ \A e \in Ids \ Written(c) : rows'[e] = rows[e] /\ outbox'[e] = outbox[e]
          /\ \A e \in Written(c) :
                /\ rows'[e] = want[c][e] /\ want[c][e] # NoRow
                /\ outbox'[e] = Status(want[c][e]) /\ Stored(e)
      BY <1>3, Committed
    <2> QED
      BY <2>1 DEF OutboxAgrees, Stored, Status
  <1>4. \/ UNCHANGED <<events, outbox, rows>>
        \/ \E c \in Calls : Accept(c) \/ CommitEvidence(c)
    BY RowSteps, Prepared, Attached, Locked DEF Elsewhere, GivesUp
  <1> QED
    BY <1>1, <1>2, <1>3, <1>4

LEMMA RowInvInit == Init => RowInv
  <1> SUFFICES ASSUME Init PROVE RowInv
    OBVIOUS
  <1>1. \A c \in Calls : Written(c) = {} /\ todo[c] = {} /\ pc[c] = "idle"
    BY DEF Init, Written, NoRows
  <1>2. \A c \in Calls, e \in Ids : rowLock[e] # c
    BY CallsAssumption DEF Init
  <1>3. LocksHeld /\ Fresh /\ WholeBatch
    BY <1>1, <1>2 DEF LocksHeld, LocksOf, Fresh, WholeBatch
  <1>4. \A e \in Ids : rows[e] = NoRow /\ outbox[e] = "none" /\ ~Stored(e)
    BY DEF Init, NoRows, Stored
  <1>5. BatchUniform /\ OutboxAgrees
    BY <1>4 DEF BatchUniform, OutboxAgrees, NoRow
  <1> QED
    BY <1>3, <1>5 DEF RowInv

LEMMA RowInvStep == TypeOK /\ RowInv /\ [Next]_vars => RowInv'
  BY LocksHeldStep, FreshStep, WholeBatchStep, BatchUniformStep, OutboxStep DEF RowInv

LEMMA RowInvariant == Spec => []RowInv
  BY RowInvInit, RowInvStep, TypeCorrect, PTL DEF Spec

\* No batch is half prepared or half submitted.
THEOREM BatchesUniform == Spec => []BatchUniform
  BY RowInvariant, PTL DEF RowInv

\* The outbox status agrees with events and evidence.
THEOREM OutboxCorrect == Spec => []OutboxAgrees
  BY RowInvariant, PTL DEF RowInv

\* A recorded hash is never lost, whatever writers run at the same time: the
\* row a call writes over is the one it added its hash to.
THEOREM HistoriesKept == Spec => HistoryKept
  <1>1. ASSUME TypeOK, RowInv, [Next]_vars
        PROVE  \A e \in Ids, i \in 1..MaxTxs : i \in DOMAIN rows[e].transactions =>
                  /\ i \in DOMAIN rows'[e].transactions
                  /\ rows'[e].transactions[i] = rows[e].transactions[i]
    <2> SUFFICES ASSUME NEW e \in Ids, NEW i \in DOMAIN rows[e].transactions
                 PROVE  /\ i \in DOMAIN rows'[e].transactions
                        /\ rows'[e].transactions[i] = rows[e].transactions[i]
      OBVIOUS
    <2>1. CASE rows' = rows
      BY <2>1
    <2>2. ASSUME NEW c \in Calls, CommitEvidence(c)
          PROVE  /\ i \in DOMAIN rows'[e].transactions
                 /\ rows'[e].transactions[i] = rows[e].transactions[i]
      <3>1. CASE e \notin Written(c)
        BY <1>1, <2>2, <3>1, Committed DEF RowInv
      <3>2. CASE e \in Written(c)
        <4>1. rows[e] # NoRow
          BY DEF NoRow
        <4>2. rows[e].transactions \in Seq(Hashes)
          BY <1>1, <4>1, RowFacts DEF TypeOK
        <4>3. rows'[e] = want[c][e] /\ Grows(rows[e], want[c][e])
          BY <1>1, <2>2, <3>2, Committed DEF RowInv
        <4>4. \/ rows'[e].transactions = rows[e].transactions
              \/ \E h \in Hashes :
                    rows'[e].transactions = Append(rows[e].transactions, h)
          BY <4>1, <4>3 DEF Grows
        <4> QED
          BY SMTT(20), <4>2, <4>4
      <3> QED
        BY <3>1, <3>2
    <2>3. rows' = rows \/ \E c \in Calls : CommitEvidence(c)
      BY <1>1, RowSteps, Prepared, Attached, Locked DEF Elsewhere, GivesUp, Accept, RowInv
    <2> QED
      BY <2>1, <2>2, <2>3
  <1>2. TypeOK /\ RowInv /\ [Next]_vars
           => [\A e \in Ids, i \in 1..MaxTxs : i \in DOMAIN rows[e].transactions =>
                  /\ i \in DOMAIN rows'[e].transactions
                  /\ rows'[e].transactions[i] = rows[e].transactions[i]]_vars
    BY <1>1
  <1> QED
    BY <1>2, TypeCorrect, RowInvariant, PTL DEF Spec, HistoryKept

-----------------------------------------------------------------------------
(* The store implements the ledger. *)

\* All rows of a batch being equal, it does not matter which one is asked.
LEMMA AnyMember ==
  ASSUME NEW r, NEW M, NEW e \in M, \A f \in M : r[f] = r[e]
  PROVE  M # {} /\ r[CHOOSE f \in M : TRUE].transactions = r[e].transactions
  <1>1. (CHOOSE f \in M : TRUE) \in M
    OBVIOUS
  <1> QED
    BY <1>1

\* A batch none of whose rows change looks the same afterwards.
LEMMA SameBundle ==
  ASSUME NEW b \in Batches, Members(b)' = Members(b),
         \A f \in Members(b) : rows'[f] = rows[f]
  PROVE  Bundles'[b] = Bundles[b]
  <1>1. CASE Members(b) = {}
    BY <1>1 DEF Bundles
  <1>2. CASE Members(b) # {}
    <2>1. (CHOOSE e \in Members(b) : TRUE) \in Members(b)
      BY <1>2
    <2> QED
      BY <2>1 DEF Bundles
  <1> QED
    BY <1>1, <1>2

\* What a commit does to the batch it writes, and that it leaves the others be.
LEMMA CommitBundle ==
  ASSUME TypeOK, RowInv, NEW c \in Calls, CommitEvidence(c), NEW e \in Written(c)
  PROVE  \E w \in Row, b \in Batches :
            /\ w = want[c][e] /\ b = w.batch
            /\ Bundles'[b] = [events |-> Written(c), transactions |-> w.transactions]
            /\ \A o \in Batches \ {b} : Bundles'[o] = Bundles[o]
            /\ rows[e] = NoRow => /\ Bundles[b] = [events |-> {}, transactions |-> <<>>]
                                  /\ \A f \in Written(c) : rows[f] = NoRow
            /\ rows[e] # NoRow => Bundles[b] = [events |-> Written(c),
                                                transactions |-> rows[e].transactions]
  <1>1. PICK w \in Row, b \in Batches : w = want[c][e] /\ b = w.batch
    <2>1. want[c][e] \in Row /\ want[c][e] # NoRow
      BY DEF TypeOK, Written
    <2> QED
      BY <2>1, RowFacts
  <1>2. /\ Written(c) \subseteq Ids
        /\ \A f \in Written(c) : rows'[f] = want[c][f] /\ Grows(rows[f], want[c][f])
        /\ \A f \in Ids \ Written(c) : rows'[f] = rows[f]
    BY Committed DEF RowInv
  <1>3. e \in Ids
    BY DEF Written
  <1>4. w.revision \in Nat
    BY RowFacts
  <1>5. WholeRow(c, e)
    BY DEF RowInv, WholeBatch
  <1>6. \A f \in Written(c) : want[c][f] = w
    BY <1>1, <1>5 DEF WholeRow
  <1>7. \A f \in Written(c) : rows'[f] = w /\ Grows(rows[f], w)
    BY <1>2, <1>6
  <1>8. \A f \in Ids \ Written(c) : rows[f].batch # b
    BY <1>1, OutsideBatch DEF RowInv
  <1>9. Members(b)' = Written(c)
    BY <1>1, <1>2, <1>7, <1>8 DEF Members
  <1>10. Bundles'[b] = [events |-> Written(c), transactions |-> w.transactions]
    <2>1. /\ Members(b)' # {}
          /\ rows'[CHOOSE f \in Members(b)' : TRUE].transactions = rows'[e].transactions
      BY <1>7, <1>9, AnyMember
    <2> QED
      BY <1>4, <1>7, <1>9, <2>1 DEF Bundles
  <1>11. \A f \in Written(c) : rows[f] # NoRow <=> w.revision # 1
    <2> SUFFICES ASSUME NEW f \in Written(c) PROVE rows[f] # NoRow <=> w.revision # 1
      OBVIOUS
    <2>1. rows[f] \in Row /\ Grows(rows[f], w)
      BY <1>2, <1>7 DEF TypeOK
    <2>2. rows[f] # NoRow => rows[f].revision >= 1 /\ rows[f].revision \in Nat
      BY <2>1, RowFacts
    <2> QED
      BY <2>1, <2>2 DEF Grows
  <1>12. \A f \in Written(c) : rows[f] # NoRow => rows[f].batch = b
    BY <1>1, <1>7 DEF Grows
  <1>13. \A o \in Batches \ {b} : Bundles'[o] = Bundles[o]
    <2> SUFFICES ASSUME NEW o \in Batches \ {b} PROVE Bundles'[o] = Bundles[o]
      OBVIOUS
    <2>1. o # 0
      BY LimitsAssumption
    <2>2. \A f \in Written(c) : rows[f].batch # o /\ rows'[f].batch # o
      BY <1>1, <1>7, <1>12, <2>1 DEF NoRow
    <2>3. Members(o)' = Members(o) /\ \A f \in Members(o) : rows'[f] = rows[f]
      BY <1>2, <2>2 DEF Members
    <2> QED
      BY <2>3, SameBundle
  <1>14. CASE rows[e] = NoRow
    <2>1. w.revision = 1 /\ \A f \in Written(c) : rows[f] = NoRow
      BY <1>11, <1>14
    <2>2. Members(b) = {}
      BY <1>1, <1>5, <2>1 DEF WholeRow
    <2>3. Bundles[b] = [events |-> {}, transactions |-> <<>>]
      BY <1>4, <2>2 DEF Bundles
    <2> QED
      BY <1>1, <1>4, <1>10, <1>13, <1>14, <2>1, <2>3
  <1>15. CASE rows[e] # NoRow
    <2>1. Written(c) = Members(b)
      BY <1>1, <1>5, <1>11, <1>15 DEF WholeRow
    <2>2. \A f \in Members(b) : f \in Ids /\ rows[f] # NoRow /\ rows[f].batch = b
      BY <1>2, <1>11, <1>12, <1>15, <2>1
    <2>3. \A f \in Members(b) : rows[f] = rows[e]
      BY <1>3, <2>1, <2>2 DEF RowInv, BatchUniform
    <2>4. /\ Members(b) # {}
          /\ rows[CHOOSE f \in Members(b) : TRUE].transactions = rows[e].transactions
      BY <2>1, <2>3, AnyMember
    <2>5. Bundles[b] = [events |-> Written(c), transactions |-> rows[e].transactions]
      BY <1>4, <2>1, <2>4 DEF Bundles
    <2> QED
      BY <1>1, <1>4, <1>10, <1>13, <1>15, <2>5
  <1> QED
    BY <1>14, <1>15

LEMMA LedgerInit == Init => Ledger!Init
  <1> SUFFICES ASSUME Init PROVE Ledger!Init
    OBVIOUS
  <1>1. StoredIds = {}
    BY DEF Init, StoredIds, Stored
  <1>2. \A b \in Batches : Members(b) = {}
    BY LimitsAssumption DEF Init, Members, NoRows, NoRow
  <1>3. Bundles = [b \in Batches |-> [events |-> {}, transactions |-> <<>>]]
    BY <1>2 DEF Bundles
  <1> QED
    BY <1>1, <1>3 DEF Ledger!Init, Ledger!NoBundle

LEMMA CommitImplements ==
  ASSUME TypeOK, RowInv, NEW c \in Calls, CommitEvidence(c)
  PROVE  [Ledger!Next]_(Ledger!vars)
  <1>1. /\ Written(c) # {} /\ Written(c) \subseteq Ids /\ UNCHANGED events
        /\ \A e \in Written(c) : Stored(e) /\ Grows(rows[e], want[c][e])
    BY Committed DEF RowInv
  <1>2. StoredIds' = StoredIds
    BY <1>1 DEF StoredIds, Stored
  <1>3. PICK e \in Written(c) : TRUE
    BY <1>1
  <1>4. PICK w \in Row, b \in Batches :
           /\ w = want[c][e] /\ b = w.batch
           /\ Bundles'[b] = [events |-> Written(c), transactions |-> w.transactions]
           /\ \A o \in Batches \ {b} : Bundles'[o] = Bundles[o]
           /\ rows[e] = NoRow => /\ Bundles[b] = [events |-> {}, transactions |-> <<>>]
                                 /\ \A f \in Written(c) : rows[f] = NoRow
           /\ rows[e] # NoRow => Bundles[b] = [events |-> Written(c),
                                               transactions |-> rows[e].transactions]
    BY CommitBundle
  <1>5. Grows(rows[e], w)
    BY <1>1, <1>4
  <1>6. DOMAIN Bundles = Batches /\ DOMAIN Bundles' = Batches
        /\ Bundles = [o \in Batches |-> Bundles[o]]
        /\ Bundles' = [o \in Batches |-> Bundles'[o]]
    BY DEF Bundles
  <1>7. CASE rows[e] = NoRow
    <2>1. /\ Bundles[b] = [events |-> {}, transactions |-> <<>>]
          /\ \A f \in Written(c) : rows[f] = NoRow
      BY <1>4, <1>7
    <2>2. w.transactions = <<>>
      BY <1>5, <1>7 DEF Grows
    <2>3. Bundles' = [Bundles EXCEPT ![b].events = Written(c)]
      BY <1>4, <1>6, <2>1, <2>2
    <2>4. Written(c) \subseteq StoredIds
      BY <1>1 DEF StoredIds
    <2>5. \A o \in Batches : Written(c) \cap Bundles[o].events = {}
      <3>1. \A f \in Written(c), o \in Batches : rows[f].batch # o
        BY <2>1, LimitsAssumption DEF NoRow
      <3> QED
        BY <3>1 DEF Bundles, Members
    <2>6. Ledger!Commit(b, Written(c))
      BY <1>1, <1>2, <2>1, <2>3, <2>4, <2>5 DEF Ledger!Commit, Ledger!NoBundle
    <2> QED
      BY <1>1, <1>4, <2>6 DEF Ledger!Next
  <1>8. CASE rows[e] # NoRow
    <2>1. Bundles[b] = [events |-> Written(c), transactions |-> rows[e].transactions]
      BY <1>4, <1>8
    <2>2. CASE w.transactions = rows[e].transactions
      <3>1. Bundles' = Bundles
        BY <1>4, <1>6, <2>1, <2>2
      <3> QED
        BY <1>2, <3>1 DEF Ledger!vars
    <2>3. CASE w.transactions # rows[e].transactions
      <3>1. PICK h \in Hashes : /\ ~Has(rows[e].transactions, h)
                                /\ Room(rows[e].transactions)
                                /\ w.transactions = Append(rows[e].transactions, h)
        BY <1>5, <1>8, <2>3 DEF Grows
      <3>2. Bundles' = [Bundles EXCEPT ![b].transactions =
                           Append(Bundles[b].transactions, h)]
        <4> DEFINE txs == Append(rows[e].transactions, h)
        <4>1. Bundles[b].transactions = rows[e].transactions
          BY <2>1
        <4>2. Bundles'[b] = [events |-> Written(c), transactions |-> txs]
          BY <1>4, <3>1
        <4> HIDE DEF txs
        <4>3. Bundles' = [Bundles EXCEPT ![b].transactions = txs]
          BY <1>4, <1>6, <2>1, <4>2
        <4> QED
          BY <4>1, <4>3 DEF txs
      <3>3. Ledger!Attach(b, h)
        BY <1>1, <1>2, <2>1, <3>1, <3>2 DEF Ledger!Attach, Has, Room
      <3> QED
        BY <1>4, <3>3 DEF Ledger!Next
    <2> QED
      BY <2>2, <2>3
  <1> QED
    BY <1>7, <1>8

LEMMA LedgerStep == TypeOK /\ RowInv /\ [Next]_vars => [Ledger!Next]_(Ledger!vars)
  <1> SUFFICES ASSUME TypeOK, RowInv, [Next]_vars PROVE [Ledger!Next]_(Ledger!vars)
    OBVIOUS
  <1>1. CASE UNCHANGED <<events, rows>>
    <2>1. StoredIds' = StoredIds
      BY <1>1 DEF StoredIds, Stored
    <2>2. Bundles' = Bundles
      BY <1>1 DEF Bundles, Members
    <2> QED
      BY <2>1, <2>2 DEF Ledger!vars
  <1>2. ASSUME NEW c \in Calls, Accept(c) PROVE Ledger!Next
    <2>1. /\ sub[c].id \in Ids /\ sub[c].id \notin StoredIds
          /\ StoredIds' = StoredIds \cup {sub[c].id}
      BY <1>2, AcceptedEvent
    <2>2. rows' = rows
      BY <1>2 DEF Accept
    <2>3. Bundles' = Bundles
      BY <2>2 DEF Bundles, Members
    <2>4. Ledger!Accept(sub[c].id)
      BY <2>1, <2>3 DEF Ledger!Accept
    <2> QED
      BY <2>1, <2>4 DEF Ledger!Next
  <1>3. \/ UNCHANGED <<events, rows>>
        \/ \E c \in Calls : Accept(c) \/ CommitEvidence(c)
    BY RowSteps, Prepared, Attached, Locked DEF Elsewhere, GivesUp, RowInv
  <1> QED
    BY <1>1, <1>2, <1>3, CommitImplements

\* Seen from outside, the store is a ledger whose operations are atomic.
THEOREM ImplementsLedger == Spec => StoreIsLedger
  BY LedgerInit, LedgerStep, TypeCorrect, RowInvariant, PTL
     DEF Spec, StoreIsLedger, Ledger!Spec

-----------------------------------------------------------------------------
(* Calls do not deadlock. *)

\* Among finitely many ids there is a greatest.
LEMMA Greatest ==
  ASSUME NEW M \in SUBSET Ids, M # {}
  PROVE  \E m \in M : \A e \in M : e <= m
  <1>1. PICK n \in Ids : \A e \in Ids : e <= n
    BY IdsAssumption
  <1>2. n \in Nat /\ \A e \in M : e \in Nat /\ e <= n
    BY <1>1, IdsAssumption
  <1> DEFINE T == {n - e : e \in M}
  <1>3. T \subseteq Nat /\ T # {}
    <2>1. \A e \in M : n - e \in Nat
      BY <1>2
    <2> QED
      BY <2>1
  <1>4. IsWellFoundedOn(OpToRel(<, Nat), Nat)
    BY NatLessThanWellFounded
  <1>5. PICK t \in T : \A u \in T : ~(<<u, t>> \in OpToRel(<, Nat))
    <2> HIDE DEF T
    <2> QED
      BY <1>3, <1>4, WFMin
  <1>6. \A u \in T : ~(u < t)
    BY <1>3, <1>5 DEF OpToRel
  <1>7. PICK m \in M : t = n - m
    BY <1>5
  <1>8. ASSUME NEW e \in M PROVE e <= m
    <2>1. ~(n - e < n - m)
      BY <1>6, <1>7
    <2> QED
      BY <1>2, <2>1
  <1> QED
    BY <1>8

\* A call that waits for a row waits for one that is itself writing, and whose
\* next row, if it waits for one, comes later.
LEMMA WaitsUpwards ==
  ASSUME TypeOK, LocksHeld, NEW c \in Calls, NEW d \in Calls, NEW e \in Ids,
         NextRow(c, e), rowLock[e] = d
  PROVE  pc[d] = "writing" /\ \A f \in Ids : NextRow(d, f) => e < f
  BY DEF LocksHeld, LocksOf, NextRow

LEMMA NoWaitCycleHolds == TypeOK /\ EventInv /\ RowInv => NoWaitCycle
  <1> SUFFICES ASSUME TypeOK, UsageHeld, LocksHeld,
                      NEW S \in (SUBSET Calls) \ {{}},
                      \A c \in S : \E d \in S : WaitsFor(c, d)
               PROVE  FALSE
    BY DEF NoWaitCycle, EventInv, RowInv
  <1>1. \A c \in S : c \in Calls
    OBVIOUS
  \* Nobody in S waits for the usage row: its holder does not wait at all.
  <1>2. ASSUME NEW c \in S, NEW d \in S, WaitsFor(c, d), pc[c] = "stamped" PROVE FALSE
    <2>1. usageLock = d
      BY <1>2 DEF WaitsFor
    <2>2. pc[d] = "checking"
      BY <1>1, <2>1 DEF UsageHeld
    <2>3. \A o \in S : ~WaitsFor(d, o)
      BY <2>2 DEF WaitsFor
    <2> QED
      BY <2>3
  \* So everybody in S waits for a row that somebody in S holds.
  <1>3. \A c \in S : \E e \in Ids : NextRow(c, e) /\ rowLock[e] \in S
    BY <1>2 DEF WaitsFor
  <1> DEFINE M == {e \in Ids : \E c \in S : NextRow(c, e) /\ rowLock[e] \in S}
  <1>4. M # {} /\ M \subseteq Ids
    BY <1>3
  <1>5. PICK m \in M : \A e \in M : e <= m
    <2> HIDE DEF M
    <2> QED
      BY <1>4, Greatest
  <1>6. PICK c \in S : NextRow(c, m) /\ rowLock[m] \in S
    BY <1>5
  <1>7. PICK f \in Ids : NextRow(rowLock[m], f) /\ rowLock[f] \in S
    BY <1>3, <1>6
  <1>8. m < f
    BY <1>1, <1>4, <1>6, <1>7, WaitsUpwards
  <1>9. f \in M
    BY <1>6, <1>7
  <1>10. m \in Nat /\ f \in Nat
    BY <1>4, <1>7, IdsAssumption
  <1> QED
    BY <1>5, <1>8, <1>9, <1>10

\* No set of calls waits in a circle: the usage row is held only while nothing
\* else is waited for, and evidence rows are locked in one order.
THEOREM NoDeadlock == Spec => []NoWaitCycle
  BY TypeCorrect, EventInvariant, RowInvariant, NoWaitCycleHolds, PTL
=============================================================================
