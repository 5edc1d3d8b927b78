---------------------------- MODULE EvidenceStore ----------------------------
(***************************************************************************)
(* One project's events, quota and evidence in PostgreSQL, used by any     *)
(* number of concurrent calls (services/governance/postgres-store.cjs and  *)
(* the callers prepareBatch and attachTransaction of evidence.cjs).        *)
(*                                                                         *)
(* A call holds one connection.  Statements run one at a time under READ   *)
(* COMMITTED; what a transaction writes becomes visible when it commits    *)
(* and disappears when it fails.  SELECT ... FOR UPDATE and the index      *)
(* entry of an uncommitted INSERT make other calls wait.                   *)
(***************************************************************************)
EXTENDS Totals, Sequences

CONSTANTS
    Ids,          \* event ids, numbered in the order localeCompare sorts them
    Submissions,  \* what clients may submit: [id, digest, slot, bytes]
    Calls,        \* connections of the pool
    None,         \* no call
    Batches,      \* batch ids; salts are random, so each preparation has a new one
    Hashes,       \* transaction hashes that may be attached
    Limits,       \* batch limits prepareBatch may be called with
    MaxEvents, MaxBytes, MaxDaily,  \* the project's allowances
    MaxTxs,       \* transaction hashes one bundle may carry (5 in the code)
    MaxDays,      \* bound: days that pass
    MaxWrites,    \* bound: revisions of one evidence row
    MaxFaults     \* bound: transactions that fail for reasons of their own

ASSUME IdsAssumption == Ids \subseteq Nat /\ \E n \in Ids : \A e \in Ids : e <= n
ASSUME SubmissionsAssumption ==
    /\ Submissions # {}
    /\ \A s \in Submissions : s.id \in Ids /\ s.bytes \in Nat \ {0} /\ s.digest # "none"
ASSUME CallsAssumption == None \notin Calls
ASSUME LimitsAssumption ==
    /\ MaxEvents \in Nat /\ MaxBytes \in Nat /\ MaxDaily \in Nat
    /\ MaxTxs \in Nat /\ MaxDays \in Nat /\ MaxWrites \in Nat /\ MaxFaults \in Nat
    /\ Limits \subseteq Nat \ {0} /\ 0 \notin Batches /\ MaxDays # 0

VARIABLES
    events,     \* [Ids -> Event]: governance_events
    outbox,     \* [Ids -> status]: governance_outbox
    usage,      \* the project's row of governance_usage
    rows,       \* [Ids -> Row]: governance_evidence
    today,      \* the UTC day
    told,       \* submissions some client was told are stored
    pc,         \* where each call is
    sub, day,   \* the submission of a call and the day it was received
    pre,        \* the usage row a call has read
    want,       \* the evidence rows a call is going to write
    todo,       \* the rows it has yet to lock
    usageLock,  \* the call that holds the usage row, or None
    rowLock,    \* the call that holds each evidence row, or None
    faults      \* number of faults so far

tables == <<events, outbox, usage, rows>>
local  == <<sub, day, pre, want, todo>>
locks  == <<usageLock, rowLock>>
vars   == <<tables, today, told, pc, local, locks, faults>>

NoEvent == [digest |-> "none", slot |-> 0, bytes |-> 0, day |-> 0]
NoRow == [batch |-> 0, revision |-> 0, transactions |-> <<>>]
NoRows == [e \in Ids |-> NoRow]
\* The row that INSERT ... ON CONFLICT DO NOTHING creates, before any event.
NoUsage == [count |-> 0, bytes |-> 0, day |-> 0, daily |-> 0]

SomeSubmission == CHOOSE s \in Submissions : TRUE

Event == [digest: {s.digest : s \in Submissions}, slot: {s.slot : s \in Submissions},
          bytes: Nat, day: 1..MaxDays] \cup {NoEvent}
Row == {r \in [batch: Batches, revision: Nat \ {0}, transactions: Seq(Hashes)] :
           Len(r.transactions) <= MaxTxs} \cup {NoRow}
Usage == [count: Nat, bytes: Nat, day: 0..MaxDays, daily: Nat]

TypeOK ==
    /\ events \in [Ids -> Event]
    /\ outbox \in [Ids -> {"none", "pending", "batched", "submitted"}]
    /\ usage \in Usage
    /\ rows \in [Ids -> Row]
    /\ today \in 1..MaxDays
    /\ told \subseteq Submissions
    /\ pc \in [Calls -> {"idle", "stamped", "checking", "writing"}]
    /\ sub \in [Calls -> Submissions]
    /\ day \in [Calls -> 1..MaxDays]
    /\ pre \in [Calls -> Usage]
    /\ want \in [Calls -> [Ids -> Row]]
    /\ todo \in [Calls -> SUBSET Ids]
    /\ usageLock \in Calls \cup {None}
    /\ rowLock \in [Ids -> Calls \cup {None}]
    /\ faults \in 0..MaxFaults

Init ==
    /\ events = [e \in Ids |-> NoEvent]
    /\ outbox = [e \in Ids |-> "none"]
    /\ usage = NoUsage
    /\ rows = NoRows
    /\ today = 1
    /\ told = {}
    /\ pc = [c \in Calls |-> "idle"]
    /\ sub = [c \in Calls |-> SomeSubmission]
    /\ day = [c \in Calls |-> 1]
    /\ pre = [c \in Calls |-> NoUsage]
    /\ want = [c \in Calls |-> NoRows]
    /\ todo = [c \in Calls |-> {}]
    /\ usageLock = None
    /\ rowLock = [e \in Ids |-> None]
    /\ faults = 0

Fault == faults < MaxFaults /\ faults' = faults + 1

Stored(e) == events[e] # NoEvent

\* The end of a call: its connection goes back to the pool, its locks go.
Finish(c) ==
    /\ pc' = [pc EXCEPT ![c] = "idle"]
    /\ sub' = [sub EXCEPT ![c] = SomeSubmission]
    /\ day' = [day EXCEPT ![c] = 1]
    /\ pre' = [pre EXCEPT ![c] = NoUsage]
    /\ want' = [want EXCEPT ![c] = NoRows]
    /\ todo' = [todo EXCEPT ![c] = {}]
    /\ usageLock' = IF usageLock = c THEN None ELSE usageLock
    /\ rowLock' = [e \in Ids |-> IF rowLock[e] = c THEN None ELSE rowLock[e]]

\* Any statement may fail (lock or statement timeout, lost connection): the
\* transaction is rolled back.
Fail(c) ==
    /\ pc[c] # "idle"
    /\ Fault
    /\ Finish(c)
    /\ UNCHANGED <<tables, today, told>>

-----------------------------------------------------------------------------
(* ingest *)

\* The server's receipt time, and the day it falls on, is fixed before the
\* call waits for a connection or for the project's usage row.
Submit(c, s) ==
    /\ pc[c] = "idle"
    /\ pc' = [pc EXCEPT ![c] = "stamped"]
    /\ sub' = [sub EXCEPT ![c] = s]
    /\ day' = [day EXCEPT ![c] = today]
    /\ UNCHANGED <<tables, today, told, pre, want, todo, locks, faults>>

\* SELECT * FROM governance_usage ... FOR UPDATE.
LockUsageFree(c) ==  \* seeded fault: the row is read without FOR UPDATE
    /\ pc[c] = "stamped"
    /\ usageLock' = c
    /\ pre' = [pre EXCEPT ![c] = usage]
    /\ pc' = [pc EXCEPT ![c] = "checking"]
    /\ UNCHANGED <<tables, today, told, sub, day, want, todo, rowLock, faults>>
LockUsage(c) ==
    /\ pc[c] = "stamped"
    /\ usageLock = None
    /\ usageLock' = c
    /\ pre' = [pre EXCEPT ![c] = usage]
    /\ pc' = [pc EXCEPT ![c] = "checking"]
    /\ UNCHANGED <<tables, today, told, sub, day, want, todo, rowLock, faults>>

\* The same id again: only the same content is a duplicate.
RepeatsAnything(s) == Stored(s.id)  \* seeded fault: the digest is not compared
Repeats(s) == Stored(s.id) /\ events[s.id].digest = s.digest

Duplicate(c) ==
    /\ pc[c] = "checking"
    /\ Repeats(sub[c])
    /\ told' \in {told, told \cup {sub[c]}}  \* the answer may be lost
    /\ Finish(c)
    /\ UNCHANGED <<tables, today, faults>>

\* The counter restarts whenever the stored day differs from the call's own.
DailyCount(c) == IF pre[c].day = day[c] THEN pre[c].daily ELSE 0

WithinAllowance(c) ==
    /\ pre[c].count < MaxEvents
    /\ pre[c].bytes + sub[c].bytes <= MaxBytes
    /\ DailyCount(c) < MaxDaily

\* PRIMARY KEY(tenant, project, id), UNIQUE(tenant, project, stream, sequence).
InsertableUpsert(s) ==  \* seeded fault: ON CONFLICT(id) DO UPDATE
    \A e \in Ids \ {s.id} : events[e].slot # s.slot
InsertableAnySlot(s) == ~Stored(s.id)  \* seeded fault: no UNIQUE constraint
Insertable(s) == ~Stored(s.id) /\ \A e \in Ids : events[e].slot # s.slot

\* 409, 429 and the constraint errors all roll back.
Refuse(c) ==
    /\ pc[c] = "checking"
    /\ ~Repeats(sub[c])
    /\ ~(WithinAllowance(c) /\ Insertable(sub[c]))
    /\ Finish(c)
    /\ UNCHANGED <<tables, today, told, faults>>

\* Event, outbox entry and usage are written by one transaction.
Accept(c) ==
    LET s == sub[c]
    IN  /\ pc[c] = "checking"
        /\ ~Repeats(s)
        /\ WithinAllowance(c)
        /\ Insertable(s)
        /\ events' = [events EXCEPT ![s.id] =
              [digest |-> s.digest, slot |-> s.slot, bytes |-> s.bytes, day |-> day[c]]]
        /\ outbox' = [outbox EXCEPT ![s.id] = "pending"]
        /\ usage' = [count |-> usage.count + 1, bytes |-> usage.bytes + s.bytes,
                     day |-> day[c], daily |-> DailyCount(c) + 1]
        /\ told' \in {told, told \cup {s}}  \* the answer may be lost
        /\ Finish(c)
        /\ UNCHANGED <<rows, today, faults>>

Midnight ==
    /\ today < MaxDays
    /\ today' = today + 1
    /\ UNCHANGED <<tables, told, pc, local, locks, faults>>

-----------------------------------------------------------------------------
(* evidence *)

Pending == {e \in Ids : Stored(e) /\ rows[e] = NoRow}
Members(b) == {e \in Ids : rows[e].batch = b}
RoomAlways(txs) == TRUE  \* seeded fault: the history has no limit
Room(txs) == Len(txs) < MaxTxs
Has(txs, h) == \E i \in DOMAIN txs : txs[i] = h

\* prepareBatch reads up to limit pending events, oldest first by the time
\* the client gave, and signs a bundle for each: revision 1 of a new batch.
PrepareRead(c, limit) ==
    /\ pc[c] = "idle"
    /\ \E b \in Batches, S \in (SUBSET Pending) \ {{}} :
          /\ \A e \in Ids, d \in Calls : rows[e].batch # b /\ want[d][e].batch # b
          /\ Cardinality(S) = limit \/ (Cardinality(S) < limit /\ S = Pending)
          /\ todo' = [todo EXCEPT ![c] = S]
          /\ want' = [want EXCEPT ![c] = [e \in Ids |->
                IF e \in S THEN [batch |-> b, revision |-> 1, transactions |-> <<>>]
                ELSE NoRow]]
    /\ pc' = [pc EXCEPT ![c] = "writing"]
    /\ UNCHANGED <<tables, today, told, sub, day, pre, locks, faults>>

\* attachTransaction reads the rows of a batch and adds the hash to those
\* that lack it; a full history makes it throw before it writes.
AttachRead(c, b, h) ==
    /\ pc[c] = "idle"
    /\ Members(b) # {}
    /\ \A e \in Members(b) :
          /\ Has(rows[e].transactions, h) \/ Room(rows[e].transactions)
          /\ rows[e].revision < MaxWrites
    /\ todo' = [todo EXCEPT ![c] = Members(b)]
    /\ want' = [want EXCEPT ![c] = [e \in Ids |->
          IF e \notin Members(b) THEN NoRow
          ELSE [batch |-> b, revision |-> rows[e].revision + 1,
                transactions |-> IF Has(rows[e].transactions, h) THEN rows[e].transactions
                                 ELSE Append(rows[e].transactions, h)]]]
    /\ pc' = [pc EXCEPT ![c] = "writing"]
    /\ UNCHANGED <<tables, today, told, sub, day, pre, locks, faults>>

\* commitEvidence takes the rows in the order of their ids.
AnyRow(c, e) == e \in todo[c]  \* seeded fault: in the order of the caller
NextRow(c, e) == e \in todo[c] /\ \A f \in todo[c] : e <= f

\* The row is as the caller read it: revision and signed content agree.
CurrentUnchecked(c, e) == rows[e] # NoRow => rows[e].batch = want[c][e].batch
                          \* seeded fault: expectedRevision is ignored
Current(c, e) ==
    /\ rows[e].revision + 1 = want[c][e].revision
    /\ rows[e] # NoRow => rows[e].batch = want[c][e].batch

\* SELECT ... FOR UPDATE, the checks, then UPDATE or INSERT.
WriteRowThrough(c) ==  \* seeded fault: every row is committed by itself
    /\ pc[c] = "writing"
    /\ \E e \in Ids :
          /\ NextRow(c, e)
          /\ rowLock[e] = None
          /\ Current(c, e)
          /\ rows' = [rows EXCEPT ![e] = want[c][e]]
          /\ rowLock' = [rowLock EXCEPT ![e] = c]
          /\ todo' = [todo EXCEPT ![c] = @ \ {e}]
    /\ UNCHANGED <<events, outbox, usage, today, told, pc, sub, day, pre, want,
                   usageLock, faults>>
WriteRow(c) ==
    /\ pc[c] = "writing"
    /\ \E e \in Ids :
          /\ NextRow(c, e)
          /\ rowLock[e] = None
          /\ Current(c, e)
          /\ rowLock' = [rowLock EXCEPT ![e] = c]
          /\ todo' = [todo EXCEPT ![c] = @ \ {e}]
    /\ UNCHANGED <<tables, today, told, pc, sub, day, pre, want, usageLock, faults>>

\* 409: somebody else has changed the row since it was read.
WriteRefused(c) ==
    /\ pc[c] = "writing"
    /\ \E e \in Ids : NextRow(c, e) /\ rowLock[e] = None /\ ~Current(c, e)
    /\ Finish(c)
    /\ UNCHANGED <<tables, today, told, faults>>

Written(c) == {e \in Ids : want[c][e] # NoRow}
\* The outbox status follows the evidence.
StatusKept(row) == "batched"  \* seeded fault: attaching leaves the status alone
Status(row) == IF row.transactions = <<>> THEN "batched" ELSE "submitted"

CommitEvidence(c) ==
    /\ pc[c] = "writing"
    /\ todo[c] = {}
    /\ rows' = [e \in Ids |-> IF e \in Written(c) THEN want[c][e] ELSE rows[e]]
    /\ outbox' = [e \in Ids |-> IF e \in Written(c) THEN Status(want[c][e]) ELSE outbox[e]]
    /\ Finish(c)
    /\ UNCHANGED <<events, usage, today, told, faults>>

-----------------------------------------------------------------------------
Step(c) ==
    \/ LockUsage(c) \/ Duplicate(c) \/ Refuse(c) \/ Accept(c)
    \/ WriteRow(c) \/ WriteRefused(c) \/ CommitEvidence(c)

Next ==
    \/ \E c \in Calls :
          \/ Step(c) \/ Fail(c)
          \/ \E s \in Submissions : Submit(c, s)
          \/ \E limit \in Limits : PrepareRead(c, limit)
          \/ \E b \in Batches, h \in Hashes : AttachRead(c, b, h)
    \/ Midnight

Spec == Init /\ [][Next]_vars

-----------------------------------------------------------------------------
(* Properties. *)

StoredIds == {e \in Ids : Stored(e)}

\* The usage row has exactly the number of the stored events and the sum of their
\* bytes, within the two allowances, whatever calls run at the same time or fail
\* half-way.  The counter of its day is never ahead of that day's events, so nobody
\* is refused too early; around midnight it may be behind (DailyAllowance).
CountExact ==
    /\ usage.count = Cardinality(StoredIds)
    /\ usage.count <= MaxEvents
    /\ usage.bytes <= MaxBytes
UsageExact ==
    /\ CountExact
    /\ usage.bytes = Total([e \in Ids |-> events[e].bytes], StoredIds)
    /\ usage.daily <= Cardinality({e \in StoredIds : events[e].day = usage.day})

\* docs/governance-storage-and-environments.md, GOVERNANCE_MAX_DAILY_EVENTS:
\* "New accepted events per UTC receipt day".
DailyAllowance ==
    \A d \in 1..MaxDays : Cardinality({e \in StoredIds : events[e].day = d}) <= MaxDaily

\* Whoever was told that a submission is stored, at once or as a duplicate
\* after a lost answer, finds exactly that content under its id, for good.
AcknowledgedIsStored == \A s \in told : events[s.id].digest = s.digest

\* An accepted event is never replaced, and its place in its stream is its own.
FirstContentKept == [][\A e \in Ids : Stored(e) => events'[e] = events[e]]_vars
OneEventPerSlot ==
    \A e, f \in StoredIds : e # f => events[e].slot # events[f].slot

\* What was accepted is there: under its id what the client sent, and one event
\* for each place of a stream, whatever was lost, repeated or sent at once.
AcceptedRightly == AcknowledgedIsStored /\ OneEventPerSlot

\* The members of a batch always carry the same hashes at the same revision:
\* no batch is half prepared or half submitted.
BatchUniform ==
    \A e, f \in Ids : rows[e] # NoRow /\ rows[f] # NoRow /\ rows[e].batch = rows[f].batch
                         => rows[e] = rows[f]

\* A hash recorded with evidence is never lost to a concurrent writer.
HistoryKept ==
    [][\A e \in Ids, i \in 1..MaxTxs : i \in DOMAIN rows[e].transactions =>
          /\ i \in DOMAIN rows'[e].transactions
          /\ rows'[e].transactions[i] = rows[e].transactions[i]]_vars

\* The outbox status shown to clients agrees with events and evidence.
OutboxAgrees ==
    \A e \in Ids :
        /\ outbox[e] = "none" <=> ~Stored(e)
        /\ outbox[e] = "pending" <=> Stored(e) /\ rows[e] = NoRow
        /\ outbox[e] = "batched" <=> rows[e] # NoRow /\ rows[e].transactions = <<>>
        /\ outbox[e] = "submitted" <=> rows[e].transactions # <<>>

\* c cannot go on before d has ended.
WaitsFor(c, d) ==
    \/ pc[c] = "stamped" /\ usageLock = d
    \/ pc[c] = "writing" /\ \E e \in Ids : NextRow(c, e) /\ rowLock[e] = d

\* Calls never wait for each other in a circle, so no call is ever aborted as
\* the victim of a deadlock: in every set of calls some call waits for none.
NoWaitCycle ==
    \A S \in (SUBSET Calls) \ {{}} : \E c \in S : \A d \in S : ~WaitsFor(c, d)

\* The batches as the ledger sees them: members and hashes.
Bundles ==
    [b \in Batches |->
       [events |-> Members(b),
        transactions |-> IF Members(b) = {} THEN <<>>
                         ELSE rows[CHOOSE e \in Members(b) : TRUE].transactions]]

Ledger == INSTANCE EvidenceLedger WITH accepted <- StoredIds, bundles <- Bundles

\* To everybody else the store is a ledger whose operations are atomic.
StoreIsLedger == Ledger!Spec
=============================================================================
