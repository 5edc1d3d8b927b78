--------------------------- MODULE EvidenceWorker ---------------------------
(***************************************************************************)
(* The evidence pipeline: accepted events are batched and signed by a      *)
(* single-wallet worker, and each batch is anchored by one transaction on  *)
(* Base Sepolia (services/governance/worker.cjs, evidence.cjs, the scripts *)
(* governance-worker.cjs, governance-worker-recover-lock.cjs and           *)
(* governance-evidence.cjs).                                               *)
(*                                                                         *)
(* Two databases take part.  The event store holds the events and their    *)
(* signed evidence; the worker's journal holds one job per batch with the  *)
(* exact signed bytes, nonce and reservation.  Neither is updated in the   *)
(* same transaction as the other, so a crash may fall between any two.     *)
(*                                                                         *)
(* Every await of run() separates two actions.  A transaction's hash is    *)
(* the transaction itself.  Times are kept relative to now: age[b] is      *)
(* now - signedAt and wait[b] is nextAttempt - now, both saturated beyond  *)
(* what the code tells apart.  Evidence is kept per batch: the   *)
(* rows of one batch always change together (EvidenceStore, BatchUniform). *)
(***************************************************************************)
EXTENDS Totals, Sequences

CONSTANTS
    Events,        \* event ids, ordered as pendingEvidence orders them
    LiveEvents,    \* the events whose environment is neither demo nor test
    Batches,       \* batch ids, ordered as evidenceBatchIds orders them
    Procs,         \* worker processes that may be started on this journal
    Recoverers,    \* runs of the lock recovery script that may overlap
    Policies,      \* worker policies a process may be started with
    Fees,          \* fees per transaction the RPC may quote
    Publishers,    \* publishers the operator's CLI may prepare batches for
    Hour, Day,     \* the two rolling windows, in clock ticks
    BackoffBase, BackoffCap, MaxExp,  \* retry delay: base, cap, exponent cap
    MaxTxs,        \* transaction hashes one bundle may carry (5 in the code)
    MaxManual,     \* bound: transactions sent by hand from the same wallet
    MaxFaults,     \* bound: crashes, failed calls, reorganisations, closures
    DeepReorg      \* TRUE if a reorganisation may undo 12 confirmations

ASSUME EventsAssumption == /\ Events \subseteq Nat /\ IsFiniteSet(Events)
                           /\ LiveEvents \subseteq Events
ASSUME BatchesAssumption == Batches \subseteq Nat /\ IsFiniteSet(Batches)
ASSUME WindowsAssumption == Hour \in Nat /\ Day \in Nat /\ Hour <= Day
ASSUME FeesAssumption == Fees \subseteq Nat \ {0}
ASSUME ProcsAssumption == "none" \notin Procs
ASSUME PoliciesAssumption ==
    /\ Policies # {} /\ IsFiniteSet(Policies)
    /\ Policies \subseteq [paused: BOOLEAN, batchSize: Nat \ {0},
                           maxTransactionsPerHour: Nat \ {0},
                           maxGasPriceWei: Nat, dailyReservationWei: Nat,
                           l1AllowanceWei: Nat]
ASSUME PublishersAssumption == Publishers \subseteq {"worker", "other"}
ASSUME BoundsAssumption ==
    /\ MaxTxs \in Nat /\ MaxManual \in Nat /\ MaxFaults \in Nat
    /\ BackoffBase \in Nat /\ BackoffCap \in Nat /\ MaxExp \in Nat
    /\ DeepReorg \in BOOLEAN

VARIABLES
    accepted,   \* events the store has accepted
    evidence,   \* [Batches -> Bundle]: the signed evidence of each batch
    journal,    \* [Batches -> Job]: the worker's durable job table
    order,      \* the jobs in rowid order
    age, wait,  \* time since signing, time until the next attempt
    gate,       \* TRUE while the publisher's recovery gate is active
    lock,       \* the process named in the lock file, or NoProc
    recovering, \* recovery scripts that have checked the lock's owner
    alive,      \* the running worker processes
    pc,         \* where each process is in run()
    policy,     \* the policy each process was started with
    todo,       \* batch ids a process has yet to look up in its journal
    snap,       \* the job rows a process holds in memory
    at,         \* position of a process in the job list
    seen,       \* the verification state a process is about to save
    nonce,      \* the pending transaction count a process has read
    since,      \* time since a process read its clock for signedAt
    pend,       \* the pending events a process read for its next batch
    op, opPend, \* the operator's CLI: its position, the events it read
    manual,     \* number of transactions sent by hand
    sent,       \* transactions some node has received
    chain,      \* the wallet's included transactions, in nonce order
    deep,       \* how many of them have at least 12 confirmations
    faults      \* number of faults so far

store == <<accepted, evidence>>
jobs  == <<journal, order, age, wait>>
local == <<policy, todo, snap, at, seen, nonce, since, pend>>
net   == <<manual, sent, chain, deep>>
cli   == <<op, opPend>>
host  == <<lock, recovering, alive>>
vars  == <<store, jobs, local, net, cli, host, pc, gate, faults>>

NoProc == "none"
PCs == {"off", "idle", "discover", "jobs", "reattach", "settle", "quote",
        "sign", "gate", "send", "sent", "attach", "commit"}
JobStates == {"none", "prepared", "external", "signed", "submitted",
              "broadcast-uncertain", "confirming", "confirmed", "blocked"}

NoTx == [by |-> "none", batch |-> 0, nonce |-> 0, fee |-> 0]
Tx == [by: {"worker", "manual"}, batch: Batches, nonce: Nat, fee: Fees]
Entry == [tx: Tx, ok: BOOLEAN]
Job == [state: JobStates, raw: Tx \cup {NoTx}, hash: Tx \cup {NoTx},
        reserve: Nat, attempts: 0..MaxExp]
NoJob == [state |-> "none", raw |-> NoTx, hash |-> NoTx,
          reserve |-> 0, attempts |-> 0]
Bundle == [events: SUBSET Events, publisher: {"none", "worker", "other"},
           transactions: Seq(Tx)]
NoBundle == [events |-> {}, publisher |-> "none", transactions |-> <<>>]

StoreOK ==
    /\ accepted \subseteq Events
    /\ evidence \in [Batches -> Bundle]
JobsOK ==
    /\ journal \in [Batches -> Job]
    /\ order \in Seq(Batches)
    /\ age \in [Batches -> 0..(2 * Day)]
    /\ wait \in [Batches -> 0..BackoffCap]
LocalOK ==
    /\ pc \in [Procs -> PCs]
    /\ policy \in [Procs -> Policies]
    /\ todo \in [Procs -> SUBSET Batches]
    /\ snap \in [Procs -> [Batches -> Job]]
    /\ at \in [Procs -> Nat]
    /\ seen \in [Procs -> JobStates]
    /\ nonce \in [Procs -> Nat]
    /\ since \in [Procs -> 0..Day]
    /\ pend \in [Procs -> SUBSET Events]
NetOK ==
    /\ manual \in Nat
    /\ sent \subseteq Tx
    /\ chain \in Seq(Entry)
    /\ deep \in 0..Len(chain)
HostOK ==
    /\ lock \in Procs \cup {NoProc}
    /\ recovering \subseteq Recoverers
    /\ alive \subseteq Procs
OtherOK ==
    /\ op \in {"idle", "read"}
    /\ opPend \subseteq Events
    /\ gate \in BOOLEAN
    /\ faults \in Nat

TypeOK == StoreOK /\ JobsOK /\ LocalOK /\ NetOK /\ HostOK /\ OtherOK

Init ==
    /\ accepted = {}
    /\ evidence = [b \in Batches |-> NoBundle]
    /\ journal = [b \in Batches |-> NoJob]
    /\ order = <<>>
    /\ age = [b \in Batches |-> 0]
    /\ wait = [b \in Batches |-> 0]
    /\ gate = TRUE
    /\ lock = NoProc
    /\ recovering = {}
    /\ alive = {}
    /\ pc = [p \in Procs |-> "off"]
    /\ policy \in [Procs -> {CHOOSE q \in Policies : TRUE}]
    /\ todo = [p \in Procs |-> {}]
    /\ snap = [p \in Procs |-> [b \in Batches |-> NoJob]]
    /\ at = [p \in Procs |-> 1]
    /\ seen = [p \in Procs |-> "none"]
    /\ nonce = [p \in Procs |-> 0]
    /\ since = [p \in Procs |-> 0]
    /\ pend = [p \in Procs |-> {}]
    /\ op = "idle"
    /\ opPend = {}
    /\ manual = 0
    /\ sent = {}
    /\ chain = <<>>
    /\ deep = 0
    /\ faults = 0

Fault == faults < MaxFaults /\ faults' = faults + 1

-----------------------------------------------------------------------------
(* The event store, as the pipeline uses it. *)

Stored(b) == evidence[b].publisher # "none"

Batched == UNION {evidence[b].events : b \in Batches}

\* pendingEvidence: accepted events without evidence, oldest first.
PendingEvidence(limit) ==
    LET waiting == accepted \ Batched
    IN  {e \in waiting : Cardinality({x \in waiting : x < e}) < limit}

\* The events prepareBatch refuses make the whole call throw.
Preparable(S) == S # {} /\ S \cap LiveEvents = {}

\* commitEvidence for a new batch: every entry expects revision 0, so one
\* event that has evidence by now rolls the whole transaction back.
CommitBatchUnchecked(S, publisher) ==  \* seeded fault: revisions ignored
    \E b \in Batches :
        /\ ~Stored(b)
        /\ evidence' = [evidence EXCEPT ![b] =
             [events |-> S, publisher |-> publisher, transactions |-> <<>>]]
CommitBatch(S, publisher) ==
    /\ S \cap Batched = {}
    /\ \E b \in Batches :
        /\ ~Stored(b)
        /\ evidence' = [evidence EXCEPT ![b] =
             [events |-> S, publisher |-> publisher, transactions |-> <<>>]]

Attached(b, t) == \E i \in DOMAIN evidence[b].transactions :
                      evidence[b].transactions[i] = t

HistoryFull(b) == Len(evidence[b].transactions) >= MaxTxs

\* attachTransaction: append the hash to every bundle of the batch, unless
\* it is there already.  Its read and its revision-checked commit are one
\* step: when the check fails the call throws and nothing is written.
AttachTransaction(b, t) ==
    /\ Attached(b, t) \/ ~HistoryFull(b)
    /\ evidence' = IF Attached(b, t) THEN evidence
                   ELSE [evidence EXCEPT ![b].transactions = Append(@, t)]

Ingest(e) ==
    /\ e \notin accepted
    /\ accepted' = accepted \cup {e}
    /\ UNCHANGED <<evidence, jobs, local, net, cli, host, pc, gate, faults>>

-----------------------------------------------------------------------------
(* The chain, and what an RPC node answers about it. *)

Included(t) == \E i \in DOMAIN chain : chain[i].tx = t
Succeeded(t) == \E i \in DOMAIN chain : chain[i].tx = t /\ chain[i].ok
Final(t) == \E i \in DOMAIN chain : i <= deep /\ chain[i].tx = t /\ chain[i].ok

\* Some transaction of the wallet has anchored the batch.
Landed(b) == \E i \in DOMAIN chain : chain[i].ok /\ chain[i].tx.batch = b

\* getTransactionCount(publisher, 'latest').
LatestCount == Len(chain)

\* getTransactionCount(publisher, 'pending'): the node may have evicted any
\* transaction from its pool, so any gapless prefix of those sent counts.
PendingCounts ==
    {n \in LatestCount..(LatestCount + Cardinality(sent)) :
        \A k \in LatestCount..(n - 1) : \E t \in sent : t.nonce = k}

\* inspectEvidence for a hash recorded with batch b.  "missing" stands for
\* not-found and reorg-detected; a node that lags may report it for any
\* inclusion that is not yet deep.
InspectEvidenceShallow(b, t) ==  \* seeded fault: one confirmation is enough
    IF Succeeded(t) /\ t.batch = b THEN {"confirmed"} ELSE {"missing"}
InspectEvidence(b, t) ==
    (IF Included(t) /\ ~Succeeded(t) THEN {"failed"} ELSE {})
    \cup (IF Succeeded(t) /\ t.batch # b THEN {"verification-failed"} ELSE {})
    \cup (IF Succeeded(t) /\ t.batch = b
          THEN {IF Final(t) THEN "confirmed" ELSE "confirming"} ELSE {})
    \cup (IF Included(t) /\ \E i \in 1..deep : chain[i].tx = t
          THEN {} ELSE {"missing"})

\* A node includes the next transaction of the wallet; the contract reverts
\* when the batch is anchored already.
Mine(t) ==
    /\ t \in sent
    /\ t.nonce = LatestCount
    /\ chain' = Append(chain, [tx |-> t,
                   ok |-> ~Landed(t.batch)])
    /\ UNCHANGED <<manual, sent, deep, store, jobs, local, cli, host, pc, gate, faults>>

Deepen ==
    /\ deep < Len(chain)
    /\ deep' = deep + 1
    /\ UNCHANGED <<manual, sent, chain, store, jobs, local, cli, host, pc, gate, faults>>

Reorg ==
    /\ Len(chain) > (IF DeepReorg THEN 0 ELSE deep)
    /\ Fault
    /\ chain' = SubSeq(chain, 1, Len(chain) - 1)
    /\ deep' = IF deep = Len(chain) THEN deep - 1 ELSE deep
    /\ UNCHANGED <<manual, sent, store, jobs, local, cli, host, pc, gate>>

-----------------------------------------------------------------------------
(* The worker process. *)

Goto(p, label) == pc' = [pc EXCEPT ![p] = label]

\* All volatile state of a tick, forgotten.
Forget(p) ==
    /\ todo' = [todo EXCEPT ![p] = {}]
    /\ snap' = [snap EXCEPT ![p] = [b \in Batches |-> NoJob]]
    /\ at' = [at EXCEPT ![p] = 1]
    /\ seen' = [seen EXCEPT ![p] = "none"]
    /\ nonce' = [nonce EXCEPT ![p] = 0]
    /\ since' = [since EXCEPT ![p] = 0]
    /\ pend' = [pend EXCEPT ![p] = {}]

\* run() returns or throws: the next tick starts afresh.
EndTick(p) == Goto(p, "idle") /\ Forget(p) /\ UNCHANGED policy

\* save(job): the durable row becomes the row in memory.
SaveLater(b, job) ==  \* seeded fault: signed bytes are first saved after sending
    journal' = [journal EXCEPT ![b] = IF job.state = "signed" THEN @ ELSE job]
Save(b, job) == journal' = [journal EXCEPT ![b] = job]
Hold(p, b, job) == snap' = [snap EXCEPT ![p][b] = job]

\* The lock file is created exclusively before the journal is opened.
Start(p) ==
    /\ p \notin alive
    /\ lock = NoProc
    /\ lock' = p
    /\ alive' = alive \cup {p}
    /\ Goto(p, "idle")
    /\ \E q \in Policies : policy' = [policy EXCEPT ![p] = q]
    /\ UNCHANGED <<recovering, store, jobs, todo, snap, at, seen, nonce,
                   since, pend, net, cli, gate, faults>>

\* close(): waits for the running tick, then removes the lock.
Close(p) ==
    /\ p \in alive
    /\ pc[p] = "idle"
    /\ Fault
    /\ alive' = alive \ {p}
    /\ lock' = NoProc
    /\ Goto(p, "off")
    /\ UNCHANGED <<recovering, store, jobs, local, net, cli, gate>>

\* The process dies at any await; the lock file stays.
Crash(p) ==
    /\ p \in alive
    /\ Fault
    /\ alive' = alive \ {p}
    /\ Goto(p, "off")
    /\ Forget(p)
    /\ UNCHANGED <<lock, recovering, policy, store, jobs, net, cli, gate>>

\* governance-worker-recover-lock.cjs: refuse while the owner is alive ...
CheckLockByAge(r) ==  \* seeded fault: the owner may still be alive
    /\ r \notin recovering
    /\ lock # NoProc
    /\ recovering' = recovering \cup {r}
    /\ UNCHANGED <<lock, alive, store, jobs, local, net, cli, pc, gate, faults>>
CheckLock(r) ==
    /\ r \notin recovering
    /\ lock # NoProc
    /\ lock \notin alive
    /\ recovering' = recovering \cup {r}
    /\ UNCHANGED <<lock, alive, store, jobs, local, net, cli, pc, gate, faults>>

\* ... and then unlink whatever lock file is there.
UnlinkLock(r) ==
    /\ r \in recovering
    /\ recovering' = recovering \ {r}
    /\ lock' = NoProc
    /\ UNCHANGED <<alive, store, jobs, local, net, cli, pc, gate, faults>>

\* An await of the tick rejects: run() throws, the loop tries again later.
Throw(p) ==
    /\ p \in alive
    /\ pc[p] # "idle"
    /\ Fault
    /\ EndTick(p)
    /\ UNCHANGED <<store, jobs, net, cli, host, gate>>

\* Every call on the event store refuses a publisher whose gate is closed.
Refused(p) ==
    /\ ~gate
    /\ pc[p] \in {"discover", "jobs", "reattach", "attach", "commit"}
    /\ EndTick(p)
    /\ UNCHANGED <<jobs, store, net, cli, host, gate, faults>>

\* Tick entry: the publisher's gate is checked, then the batch ids are read.
TickStart(p) ==
    /\ p \in alive
    /\ pc[p] = "idle"
    /\ gate
    /\ Goto(p, "discover")
    /\ todo' = [todo EXCEPT ![p] = {b \in Batches : Stored(b)}]
    /\ UNCHANGED <<policy, snap, at, seen, nonce, since, pend, store, jobs,
                   net, cli, host, gate, faults>>

\* The job of a batch found in the store: unsigned, or only watched when a
\* transaction is recorded with it already.
NewJob(b) ==
    LET txs == evidence[b].transactions
    IN  IF txs = <<>> THEN [NoJob EXCEPT !.state = "prepared"]
        ELSE [NoJob EXCEPT !.state = "external", !.hash = txs[Len(txs)]]

\* The worker's own batches without a job.
RediscoveredTwice(b) == evidence[b].publisher = "worker"  \* seeded fault
NeverRediscovered(b) == FALSE                             \* seeded fault
Undiscovered(b) == journal[b] = NoJob /\ evidence[b].publisher = "worker"

\* One round of the rediscovery loop.  A batch without a job gets one, so
\* that evidence committed before a crash is not lost; batches of another
\* publisher are never taken over.
DiscoverOne(p) ==
    /\ pc[p] = "discover"
    /\ gate
    /\ \E b \in todo[p] :
           /\ \A c \in todo[p] : b <= c
           /\ todo' = [todo EXCEPT ![p] = @ \ {b}]
           /\ IF Undiscovered(b)
              THEN Save(b, NewJob(b)) /\ order' = Append(order, b)
              ELSE UNCHANGED <<journal, order>>
    /\ UNCHANGED <<age, wait, policy, snap, at, seen, nonce, since, pend, pc,
                   store, net, cli, host, gate, faults>>

\* The job list is read into memory once, in rowid order.
ReadJobs(p) ==
    /\ pc[p] = "discover"
    /\ todo[p] = {}
    /\ Goto(p, "jobs")
    /\ snap' = [snap EXCEPT ![p] = journal]
    /\ UNCHANGED <<policy, todo, at, seen, nonce, since, pend, store, jobs,
                   net, cli, host, gate, faults>>

\* The job in hand.
Current(p) == order[at[p]]
HasCurrent(p) == at[p] \in DOMAIN order

\* A job with a hash is verified against the chain before anything else.
Inspecting(p) ==
    /\ pc[p] = "jobs"
    /\ HasCurrent(p)
    /\ gate
    /\ snap[p][Current(p)].hash # NoTx

\* Confirmed: go on with the next job.  Confirming: nothing behind it moves.
InspectSettled(p) ==
    /\ Inspecting(p)
    /\ LET b == Current(p)
           job == snap[p][b]
       IN \E v \in InspectEvidence(b, job.hash) \cap {"confirmed", "confirming"} :
            \/ /\ ~Attached(b, job.hash)
               /\ Goto(p, "reattach")
               /\ seen' = [seen EXCEPT ![p] = v]
               /\ UNCHANGED <<policy, todo, snap, at, nonce, since, pend, journal>>
            \/ /\ Attached(b, job.hash)
               /\ v = "confirmed"
               /\ Save(b, [job EXCEPT !.state = v])
               /\ Hold(p, b, [job EXCEPT !.state = v])
               /\ at' = [at EXCEPT ![p] = @ + 1]
               /\ UNCHANGED <<pc, policy, todo, seen, nonce, since, pend>>
            \/ /\ Attached(b, job.hash)
               /\ v = "confirming"
               /\ Save(b, [job EXCEPT !.state = v])
               /\ EndTick(p)
    /\ UNCHANGED <<order, age, wait, store, net, cli, host, gate, faults>>

\* A final verdict against the transaction blocks the job and all behind it.
InspectBlocked(p) ==
    /\ Inspecting(p)
    /\ LET b == Current(p)
           job == snap[p][b]
       IN  /\ InspectEvidence(b, job.hash) \cap {"failed", "verification-failed"} # {}
           /\ Save(b, [job EXCEPT !.state = "blocked"])
    /\ EndTick(p)
    /\ UNCHANGED <<order, age, wait, store, net, cli, host, gate, faults>>

RetriesPaused(p, b) == snap[p][b].raw # NoTx /\ wait[b] = 0  \* seeded fault
Retries(p, b) == snap[p][b].raw # NoTx /\ ~policy[p].paused /\ wait[b] = 0

\* Not on the chain, as far as this node knows: only the verification note,
\* which is not modelled, changes in the saved row.  The same bytes are
\* offered again, never a replacement; a hash without bytes is only watched.
InspectMissing(p) ==
    /\ Inspecting(p)
    /\ LET b == Current(p)
       IN  /\ "missing" \in InspectEvidence(b, snap[p][b].hash)
           /\ Save(b, snap[p][b])
           /\ \/ Retries(p, b) /\ Goto(p, "gate") /\ UNCHANGED local
              \/ ~Retries(p, b) /\ EndTick(p)
    /\ UNCHANGED <<order, age, wait, store, net, cli, host, gate, faults>>

\* The node does not answer: no conclusion, and nothing behind it moves.
InspectUnavailable(p) ==
    /\ Inspecting(p)
    /\ Fault
    /\ Save(Current(p), snap[p][Current(p)])
    /\ EndTick(p)
    /\ UNCHANGED <<order, age, wait, store, net, cli, host, gate>>

\* The hash found on the chain is recorded with every bundle first ...
ReattachSkipped(p) ==  \* seeded fault: verified, but not recorded
    /\ pc[p] = "reattach"
    /\ Goto(p, "settle")
    /\ UNCHANGED <<local, evidence, accepted, jobs, net, cli, host, gate, faults>>
Reattach(p) ==
    /\ pc[p] = "reattach"
    /\ gate
    /\ LET b == Current(p)
           t == snap[p][b].hash
       IN  \/ /\ AttachTransaction(b, t)
              /\ Goto(p, "settle")
              /\ UNCHANGED local
           \/ /\ ~Attached(b, t) /\ HistoryFull(b)
              /\ EndTick(p)
              /\ UNCHANGED evidence
    /\ UNCHANGED <<accepted, jobs, net, cli, host, gate, faults>>

\* ... and then the verification state is saved in the journal.
Settle(p) ==
    /\ pc[p] = "settle"
    /\ LET b == Current(p)
           job == [snap[p][b] EXCEPT !.state = seen[p]]
       IN  /\ Save(b, job)
           /\ \/ /\ seen[p] = "confirmed"
                 /\ Hold(p, b, job)
                 /\ at' = [at EXCEPT ![p] = @ + 1]
                 /\ seen' = [seen EXCEPT ![p] = "none"]
                 /\ Goto(p, "jobs")
                 /\ UNCHANGED <<policy, todo, nonce, since, pend>>
              \/ /\ seen[p] # "confirmed"
                 /\ EndTick(p)
    /\ UNCHANGED <<order, age, wait, store, net, cli, host, gate, faults>>

\* Signed jobs whose signing time lies inside the window.
Recent(window) == {b \in Batches : journal[b].raw # NoTx /\ age[b] < window}
Reserved(S) == Total([b \in Batches |-> journal[b].reserve], S)

\* A job without bytes: check the batch and the rate before quoting a fee.
Begin(p) ==
    /\ pc[p] = "jobs"
    /\ HasCurrent(p)
    /\ gate
    /\ snap[p][Current(p)].hash = NoTx
    /\ LET b == Current(p)
           ready == /\ ~policy[p].paused
                    /\ wait[b] = 0
                    /\ evidence[b].transactions = <<>>
                    /\ Cardinality(Recent(Hour)) < policy[p].maxTransactionsPerHour
       IN  \/ ready /\ Goto(p, "quote") /\ UNCHANGED local
           \/ ~ready /\ EndTick(p)
    /\ UNCHANGED <<jobs, store, net, cli, host, gate, faults>>

\* estimateGas reverts once the batch is anchored; else the wallet's pending
\* count is read.
ReadPendingCount(p) ==
    /\ pc[p] = "quote"
    /\ \/ /\ ~Landed(Current(p))
          /\ \E n \in PendingCounts : nonce' = [nonce EXCEPT ![p] = n]
          /\ Goto(p, "sign")
          /\ UNCHANGED <<policy, todo, snap, at, seen, since, pend>>
       \/ Landed(Current(p)) /\ EndTick(p)
    /\ UNCHANGED <<jobs, store, net, cli, host, gate, faults>>

\* The quoted fee is within the fee cap and the budget of the rolling day,
\* which ends when this process read its clock.
AffordableAlone(p, fee) ==  \* seeded fault: earlier reservations forgotten
    /\ fee <= policy[p].maxGasPriceWei
    /\ fee + policy[p].l1AllowanceWei <= policy[p].dailyReservationWei
Affordable(p, fee) ==
    /\ fee <= policy[p].maxGasPriceWei
    /\ Reserved(Recent(Day + since[p])) + fee + policy[p].l1AllowanceWei
         <= policy[p].dailyReservationWei

SignedJob(p, fee) ==
    LET tx == [by |-> "worker", batch |-> Current(p), nonce |-> nonce[p], fee |-> fee]
    IN  [snap[p][Current(p)] EXCEPT !.raw = tx, !.hash = tx, !.state = "signed",
                                    !.reserve = fee + policy[p].l1AllowanceWei]

\* Sign, and persist bytes, nonce and reservation before any broadcast.  A
\* pending transaction of the wallet or a refused fee ends the tick instead.
Sign(p) ==
    /\ pc[p] = "sign"
    /\ \E fee \in Fees :
        \/ /\ Affordable(p, fee)
           /\ nonce[p] = LatestCount
           /\ Save(Current(p), SignedJob(p, fee))
           /\ Hold(p, Current(p), SignedJob(p, fee))
           /\ age' = [age EXCEPT ![Current(p)] = since[p]]
           /\ Goto(p, "gate")
           /\ UNCHANGED <<policy, todo, at, seen, nonce, since, pend>>
        \/ /\ ~Affordable(p, fee) \/ nonce[p] # LatestCount
           /\ EndTick(p)
           /\ UNCHANGED <<journal, age>>
    /\ UNCHANGED <<order, wait, store, net, cli, host, gate, faults>>

\* signedRetryGate: every broadcast, retries included, is held against the
\* current policy; an old reservation still counts for its own job.
SignedRetryGate(p) ==
    LET b == Current(p)
        job == snap[p][b]
        held == Reserved(Recent(Day)) + (IF b \in Recent(Day) THEN 0 ELSE job.reserve)
    IN  /\ job.raw.fee <= policy[p].maxGasPriceWei
        /\ Cardinality(evidence[b].events) <= policy[p].batchSize
        /\ job.reserve >= job.raw.fee + policy[p].l1AllowanceWei
        /\ Cardinality(Recent(Hour)) <= policy[p].maxTransactionsPerHour
        /\ held <= policy[p].dailyReservationWei

\* Policy first, then the publisher's access once more.
PassGate(p) ==
    /\ pc[p] = "gate"
    /\ \/ SignedRetryGate(p) /\ gate /\ Goto(p, "send") /\ UNCHANGED local
       \/ ~(SignedRetryGate(p) /\ gate) /\ EndTick(p)
    /\ UNCHANGED <<jobs, store, net, cli, host, gate, faults>>

Least(m, n) == IF m < n THEN m ELSE n

\* The retry delay doubles with every attempt, up to the cap.
Delay(n) == LET d == BackoffBase * 2^n
            IN  IF d \in 0..BackoffCap THEN d ELSE BackoffCap

SentJobReplaced(p, outcome) ==  \* seeded fault: a lost answer frees the job
    IF outcome = "submitted" THEN snap[p][Current(p)]
    ELSE [snap[p][Current(p)] EXCEPT !.raw = NoTx, !.hash = NoTx]
SentJobUncapped(p, outcome) ==  \* seeded fault: the exponent has no cap
    [snap[p][Current(p)] EXCEPT !.state = outcome, !.attempts = @ + 1]
SentJob(p, outcome) ==
    [snap[p][Current(p)] EXCEPT !.state = outcome, !.attempts = Least(MaxExp, @ + 1)]

\* broadcastTransaction: a node takes the bytes, unless the call fails or
\* the nonce is used up.
Send(p) ==
    /\ pc[p] = "send"
    /\ LET raw == snap[p][Current(p)].raw
       IN  \/ /\ raw.nonce >= LatestCount
              /\ sent' = sent \cup {raw}
              /\ UNCHANGED faults
           \/ /\ raw.nonce < LatestCount
              /\ UNCHANGED <<sent, faults>>
           \/ Fault /\ UNCHANGED sent
    /\ Goto(p, "sent")
    /\ UNCHANGED <<manual, chain, deep, local, jobs, store, cli, host, gate>>

\* The node's answer, or its absence, is saved.  An error proves nothing:
\* the node may have the bytes all the same.
Answer(p) ==
    /\ pc[p] = "sent"
    /\ LET b == Current(p)
       IN \E outcome \in {"submitted", "broadcast-uncertain"} :
            /\ outcome = "submitted" => snap[p][b].raw \in sent
            /\ Save(b, SentJob(p, outcome))
            /\ Hold(p, b, SentJob(p, outcome))
            /\ wait' = [wait EXCEPT ![b] = Delay(SentJob(p, outcome).attempts)]
    /\ Goto(p, "attach")
    /\ UNCHANGED <<order, age, policy, todo, at, seen, nonce, since, pend,
                   net, store, cli, host, gate, faults>>

\* The hash is recorded with the evidence; the tick returns either way.
AttachSent(p) ==
    /\ pc[p] = "attach"
    /\ gate
    /\ LET b == Current(p)
           t == snap[p][b].hash
       IN  \/ AttachTransaction(b, t)
           \/ ~Attached(b, t) /\ HistoryFull(b) /\ UNCHANGED evidence
    /\ EndTick(p)
    /\ UNCHANGED <<accepted, jobs, net, cli, host, gate, faults>>

\* All jobs are confirmed: read the next pending events, unless paused.
PrepareRead(p) ==
    /\ pc[p] = "jobs"
    /\ ~HasCurrent(p)
    /\ gate
    /\ LET S == PendingEvidence(policy[p].batchSize)
       IN  \/ /\ ~policy[p].paused /\ Preparable(S)
              /\ pend' = [pend EXCEPT ![p] = S]
              /\ Goto(p, "commit")
              /\ UNCHANGED <<policy, todo, snap, at, seen, nonce, since>>
           \/ /\ policy[p].paused \/ ~Preparable(S)
              /\ EndTick(p)
    /\ UNCHANGED <<jobs, store, net, cli, host, gate, faults>>

PrepareCommit(p) ==
    /\ pc[p] = "commit"
    /\ gate
    /\ \/ CommitBatch(pend[p], "worker")
       \/ pend[p] \cap Batched # {} /\ UNCHANGED evidence
    /\ EndTick(p)
    /\ UNCHANGED <<accepted, jobs, net, cli, host, gate, faults>>

-----------------------------------------------------------------------------
(* The operator's CLI and the environment. *)

\* governance-evidence.cjs prepare: the same prepareBatch, other process.
OpPrepareRead ==
    /\ op = "idle"
    /\ Preparable(PendingEvidence(Cardinality(Events)))
    /\ op' = "read"
    /\ opPend' = PendingEvidence(Cardinality(Events))
    /\ UNCHANGED <<store, jobs, local, net, host, pc, gate, faults>>

OpPrepareCommit ==
    /\ op = "read"
    /\ \/ \E publisher \in Publishers : CommitBatch(opPend, publisher)
       \/ opPend \cap Batched # {} /\ UNCHANGED evidence
    /\ op' = "idle"
    /\ opPend' = {}
    /\ UNCHANGED <<accepted, jobs, local, net, host, pc, gate, faults>>

\* governance-evidence.cjs attach: any hash the operator names.
OpAttach(b, t) ==
    /\ Stored(b)
    /\ t.by = "manual"
    /\ ~Attached(b, t)
    /\ AttachTransaction(b, t)
    /\ UNCHANGED <<accepted, jobs, local, net, cli, host, pc, gate, faults>>

\* The worker's wallet is used by hand for a batch prepared for it.
ManualSend(b, fee) ==
    /\ manual < MaxManual
    /\ evidence[b].publisher = "worker"
    /\ manual' = manual + 1
    /\ \E n \in PendingCounts :
          sent' = sent \cup {[by |-> "manual", batch |-> b, nonce |-> n, fee |-> fee]}
    /\ UNCHANGED <<chain, deep, store, jobs, local, cli, host, pc, gate, faults>>

\* A restore closes the publisher's gate; a reviewed release opens it.
CloseGate ==
    /\ gate
    /\ Fault
    /\ gate' = FALSE
    /\ UNCHANGED <<store, jobs, local, net, cli, host, pc>>

OpenGate ==
    /\ ~gate
    /\ gate' = TRUE
    /\ UNCHANGED <<store, jobs, local, net, cli, host, pc, faults>>

\* One tick of the clock.
Pass ==
    /\ age' = [b \in Batches |-> IF journal[b].raw = NoTx THEN age[b]
                                 ELSE Least(2 * Day, age[b] + 1)]
    /\ wait' = [b \in Batches |-> IF wait[b] = 0 THEN 0 ELSE wait[b] - 1]
    /\ since' = [p \in Procs |-> IF pc[p] \in {"quote", "sign"}
                                 THEN Least(Day, since[p] + 1) ELSE since[p]]
    /\ UNCHANGED <<journal, order, policy, todo, snap, at, seen, nonce, pend,
                   store, net, cli, host, pc, gate, faults>>

-----------------------------------------------------------------------------
\* The steps of run(), its failures excluded.
Step(p) ==
    \/ TickStart(p) \/ DiscoverOne(p) \/ ReadJobs(p)
    \/ InspectSettled(p) \/ InspectBlocked(p) \/ InspectMissing(p)
    \/ Reattach(p) \/ Settle(p)
    \/ Begin(p) \/ ReadPendingCount(p) \/ Sign(p) \/ PassGate(p) \/ Send(p) \/ Answer(p)
    \/ AttachSent(p) \/ PrepareRead(p) \/ PrepareCommit(p) \/ Refused(p)

Chain == Deepen \/ Reorg \/ \E t \in sent : Mine(t)

Operator ==
    \/ OpPrepareRead \/ OpPrepareCommit \/ OpenGate \/ CloseGate
    \/ \E b \in Batches, t \in sent : OpAttach(b, t)
    \/ \E b \in Batches, fee \in Fees : ManualSend(b, fee)

Next ==
    \/ \E e \in Events : Ingest(e)
    \/ \E p \in Procs : \/ Step(p) \/ InspectUnavailable(p) \/ Throw(p)
                        \/ Start(p) \/ Close(p) \/ Crash(p)
    \/ \E r \in Recoverers : CheckLock(r) \/ UnlinkLock(r)
    \/ Chain
    \/ Operator
    \/ Pass

Spec == Init /\ [][Next]_vars

\* The worker loop ticks every five seconds and systemd restarts it; time
\* passes; nodes include what they hold and confirmations accumulate; a
\* closed gate is reviewed and opened again.  Nothing is assumed about
\* clients, operators, failures or reorganisations.
Fairness ==
    /\ \A p \in Procs : WF_vars(Step(p))
    /\ WF_vars(\E p \in Procs : Start(p))
    /\ \A r \in Recoverers : WF_vars(CheckLock(r)) /\ WF_vars(UnlinkLock(r))
    /\ WF_vars(\E t \in sent : Mine(t)) /\ WF_vars(Deepen)
    /\ WF_vars(OpenGate)
    /\ WF_vars(Pass)

FairSpec == Spec /\ Fairness

-----------------------------------------------------------------------------
(* Properties. *)

Signed == {b \in Batches : journal[b].raw # NoTx}

\* worker.cjs: "Persist signed bytes BEFORE any broadcast".  Every worker
\* transaction a node ever received is the one the journal holds for that
\* batch, so no crash, retry or restart puts a second one on the network.
DurableBeforeSend ==
    \A t \in sent : t.by = "worker" => journal[t.batch].raw = t

\* The lock file lets one process at a time act on the journal, across
\* crashes, recovery and restarts.
SingleOwner == \A p \in alive : lock = p

\* "No new nonce while a prior transaction is uncertain or reorged": of any
\* two signed jobs at least one is anchored beyond reorganisation.
OneUnresolved ==
    \A b, c \in Signed : b # c => Final(journal[b].raw) \/ Final(journal[c].raw)

\* Two signed jobs never hold the same nonce (recovery-worker-review.cjs
\* counts such a pair as a journal integrity failure).
NonceUnique ==
    \A b, c \in Signed : b # c => journal[b].raw.nonce # journal[c].raw.nonce

\* The wallet works off one transaction after the other: docs/
\* governance-automated-worker.md, "It will not start another transaction while
\* an earlier one is unconfirmed, unavailable or reorged".
OneAtATime == OneUnresolved /\ NonceUnique

\* An event belongs to one batch only, though the worker and the operator's
\* CLI read the pending events before they commit.
BatchedOnce ==
    \A b, c \in Batches : b # c => evidence[b].events \cap evidence[c].events = {}

\* A job the journal calls confirmed is anchored on the chain and its hash
\* is recorded with the evidence of the batch.
ConfirmedIsAnchored ==
    \A b \in Batches : journal[b].state = "confirmed" =>
        Final(journal[b].hash) /\ Attached(b, journal[b].hash)

Largest(S) == CHOOSE n \in S : \A m \in S : m <= n

\* maxTransactionsPerHour and dailyReservationWei hold over every rolling
\* window, whatever restarts, retries and lost answers fall into it.
SpendingCaps ==
    /\ Cardinality(Recent(Hour))
         <= Largest({q.maxTransactionsPerHour : q \in Policies})
    /\ Reserved(Recent(Day))
         <= Largest({q.dailyReservationWei : q \in Policies})

\* Bytes, nonce and reservation of a signed job are never replaced.
SignedIsKept ==
    [][\A b \in Batches : journal[b].raw # NoTx =>
          /\ journal'[b].raw = journal[b].raw
          /\ journal'[b].hash = journal[b].hash
          /\ journal'[b].reserve = journal[b].reserve]_vars

\* Paused mode reconciles but neither signs nor sends.
PausedIsQuiet ==
    [][(\A p \in alive : policy[p].paused) =>
          /\ \A b \in Batches : journal'[b].raw = journal[b].raw
          /\ \A t \in sent' \ sent : t.by = "manual"]_vars

Anchored(e) ==
    \E b \in Batches : /\ e \in evidence[b].events
                       /\ journal[b].state = "confirmed"
                       /\ Final(journal[b].hash)
                       /\ Attached(b, journal[b].hash)

\* Every accepted event is in the end anchored and its evidence names the
\* anchoring transaction, once failures cease.
EventuallyAnchored == \A e \in Events : e \in accepted ~> Anchored(e)

-----------------------------------------------------------------------------
\* The journal's bytes are the choice; what the worker sent, the network.
Submission == INSTANCE SingleSubmission
    WITH Txs <- [by: {"worker"}, batch: Batches, nonce: Nat, fee: Fees],
         None <- NoTx,
         choice <- [b \in Batches |-> journal[b].raw],
         network <- {t \in sent : t.by = "worker"}

\* Over any number of crashes, retries and lost answers the worker behaves as
\* if it chose one transaction per batch, for good, and sent only that.
SubmitsOnce == Submission!Spec
=============================================================================
