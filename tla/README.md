# A verification project for AIChain (Orvessian)

The repository is an off-chain governance record with on-chain anchoring: agents submit events to an HTTP
service, the service stores them per project, batches and signs them as evidence, and a single-wallet worker
anchors each batch on Base Sepolia. Around that pipeline are access control (customers, keys, provider sessions),
rules and webhooks, recovery tooling, an older receipt ingress with a capped relayer, an indexer, the anchor and
registry contracts and the SDKs.

This directory holds TLA+ modules for the parts of that system whose correctness depends on the order of steps
(concurrent transactions, crashes, lost answers, reorganisations), TLC configurations that check them on small
instances, and TLAPS proofs of the properties that matter most, for every value of the constants.

## 1. Inventory

All paths are under `src/`; `governance/` abbreviates `services/governance/`.

| Component | State | Operations | Hard behaviour | What makes it correct |
|---|---|---|---|---|
| Event store: `governance/postgres-store.cjs`, `store.js`, migrations | events, outbox, usage counters, evidence rows | ingest, pendingEvidence, batchEvidence, commitEvidence, reviews | concurrent transactions, row locks, retries after a lost answer | the counts of events and bytes are exact; acknowledged content is kept; evidence of a batch changes as a whole and loses no hash; no deadlock |
| Evidence: `governance/evidence.cjs`, `scripts/governance-evidence.cjs` | bundles (in the store) | prepareBatch, attachTransaction, inspectEvidence | reads and writes in separate transactions, five-hash limit | an event is in one batch; a hash once recorded stays |
| Worker: `governance/worker.cjs`, `worker-policy.cjs`, `scripts/governance-worker*.cjs` | job journal (second database), lock file, policy | tick: rediscover, verify, sign, broadcast, attach, prepare; start, close, lock recovery | crash between any two awaits, uncertain broadcasts, reorganisations, caps over restarts | bytes are durable before they are sent and never replaced; one transaction per batch; one unresolved nonce; caps hold |
| Batch contract: `contracts/avr-anchor/src/ReceiptBatchAnchor.sol` | anchored roots | anchorBatch | a batch sent twice | lands once |
| Webhook delivery: `governance/webhook-delivery.cjs` | jobs with lease, token, attempts | enqueue, claim, deliver, finish | lease expiry while in flight, late answers | a stale answer changes nothing; attempts bounded; nothing accepted is dropped silently |
| Rules and incidents: `governance/governance-rules.cjs`, `rule-processing.cjs` | rules, cursor, evaluated events, incidents | register, process, scan, publish, transition | cursor and processing in several transactions | every event is evaluated once per rule |
| Provider sessions: `governance/workos-auth.cjs`, `*-provider-sessions.cjs`, `auth.cjs`, `account-sessions.cjs` | sessions, refresh credential, claim, flows | sign in, authenticate, claim and complete a renewal, sign out | a provider call between claim and completion | a credential is used once; an ended session never returns |
| Revocations and replay: `governance/provider-revocations.cjs`, `provider-replay-state.cjs`, `workos-revocation-*.cjs` | tombstones, seen events, replay lease and checkpoint | apply, claim, complete | revocation before creation; replay taken over | a revoked session is never usable; the checkpoint never passes an unapplied event |
| Project keys: `governance/project-keys.cjs`, `postgres-project-keys.cjs` | keys, idempotency records | create, rotate, revoke, resolve | use against revocation, a lost secret | at most 100 active; a revoked key never resolves |
| Customer directory: `governance/customer-directory.cjs`, `postgres-customer-directory.cjs` | identities, workspaces, members, invitations, actions | create, invite, accept, change, disable | concurrent owners | a workspace keeps an owner; an invitation is used once |
| Request limits: `governance/postgres-*-limits.cjs`, `http-limits.cjs` | fixed windows | consume | several clocks | no window admits more than its quota |
| Recovery: `governance/recovery*.cjs`, `postgres-recovery.cjs`, `publisher-*-release.cjs`, `customer-recovery-activation.cjs`, `environment.cjs` | gates in two databases, release rows | restore, review, activate, release, revoke | two commits, uncertain outcomes | restored access stays off until every gate agrees |
| Ingress: `services/ingress/*`, `sdk/typescript/avr-ingress-queue.js` | queue, append-only journal, snapshot, prepared batch | submit, prepare, reconcile, restart | crash between file operations | an accepted receipt is anchored or failed, never lost |
| Relayer: `services/relayer/base-sepolia-capped-relayer.js` | reservations | relay | crash around the broadcast | budgets hold |
| Indexer: `sdk/typescript/avr-event-indexer.js` | index, checkpoints | sync, attach manifests, look up | reorganisations during a scan | the index equals the canonical chain |
| SDK queues: `sdk/typescript/orvessian-queue.js`, `sdk/python/orvessian_delivery.py` | pending rows, import checkpoints | enqueue, flush, commit a page | lost answers, two processes on one file, a crash between submit and delete | every enqueued event reaches the store, in order; a checkpoint never passes an event |
| Backup sets: `governance/postgres-backup.cjs`, `backup-*.cjs`, `recovery.cjs` | sets of files, their marker, the latest pointer | capture, copy, rotate, upload, download | writers beside a capture, files that go bad between steps | a complete set can be started from; a verified one is whole |
| Registry contracts: `contracts/avr-anchor/src/*` | owners, guardians, authorities, verifier versions | propose, activate, retire, pause, anchor | order of governance calls | only an active version verifies |
| Others: reports, agents, reviews, server, deployment scripts, receipt formats | | | | see `PROJECT.json` for the reasons they are left out |

How the parts interact: the HTTP server calls the store (`ingest`), keys, limits and sessions inside one process;
several processes share PostgreSQL. The worker and the operator's CLI are other processes that use the store's
evidence operations and the chain's RPC; the worker alone uses its journal and lock file. The recovery tooling
writes the gates that the store, the worker and the journals read. Rules read stored events and enqueue webhooks.

`PROJECT.json` lists the hazards of this code line by line, with the properties that would catch each.

## 2. Modules

| Module | What it models |
|---|---|
| `EvidenceStore` | the PostgreSQL event store: ingest, prepareBatch and attachTransaction as concurrent transactions, statement by statement |
| `EvidenceLedger` | what the store promises: the same operations, atomic, as the SQLite store has them |
| `EvidenceWorker` | the worker and everything it shares state with: store, journal, lock file, chain, the operator's CLI, the recovery gate |
| `SingleSubmission` | what the worker promises to the network |
| `EvidenceWorkerProofs`, `EvidenceStoreProofs` | theorems about the two |
| `GovernanceRules` | rules over stored events: registration, the scan with its cursor, incidents and alerts, the cycle of `RuleProcessor` |
| `WebhookDelivery` | the delivery journal, `deliverOne` and the receiver; extended by `GovernanceRules`, whose cycle runs it |
| `GovernanceRulesProofs` | theorems about both |
| `ProviderSessions` | sign-in, renewal with the provider's single-use credential, revocation and end of a customer's sessions |
| `RevocationReplay` | the leased, checkpointed replay of the provider's revocation events |
| `CustomerDirectory` | a workspace's members, projects and invitations as PostgreSQL transactions with row locks and action ids |
| `ProjectKeys` | a project's keys; extends `CustomerDirectory`, whose transactions they are part of |
| `LocalWorkspace` | what both promise: the same operations in a local SQLite file, one transaction each |
| `PublisherRelease` | the return of a restored database and a restored worker journal to work |
| `ReceiptIngress` | the receipt queue with its journal, checkpoint and file of prepared batches |
| `CappedRelayer` | the relayer's budget reservations and broadcasts |
| `EventIndexer` | the index of anchors against a chain that reorganises |
| `DeliveryQueue` | the SDK's queue file, the processes that deliver it, and the paged import into it |
| `BackupSets` | backup sets from the capture to object storage and back |
| `VerifierRegistry`, `HistoricalAuthority` | the registry contracts and the anchor that asks the second |
| `ProviderSessionsProofs` | theorems about the sessions |
| `RecordsProofs` | theorems about the contracts, the indexer and the backup sets |
| `OutboundProofs` | theorems about the delivery queue, the relayer and the ingress |
| `ServicesProofs` | theorems about the replay, the directory with its keys and the release, and about `MCServices` as a whole |
| `Totals`, `TotalsProofs` | sums over finite sets as counts of units, and the facts about them and about greatest members that the other proofs use |
| `MCEvidenceStore`, `MCEvidenceWorker`, `MCGovernanceRules`, `MCSessions` | values for the constants of the TLC runs, and symmetry |
| `MCServices` | the parts that stand alone, in one run: `part` says which of them a behaviour follows |

### EvidenceWorker

A process is at one of the program points `PCs`; each action is the code from one `await` of `run()` to the next.
`TickStart` reads the batch ids, `DiscoverOne` looks up one of them (`worker.cjs:57-62`), `ReadJobs` loads the job rows,
`InspectSettled`, `InspectBlocked`, `InspectMissing`, `InspectUnavailable` are the outcomes of `inspectEvidence` for the
job in hand, `Reattach` and `Settle` the two writes that follow, `Begin`, `ReadPendingCount`, `Sign`, `PassGate`, `Send`,
`Answer`, `AttachSent` the way of a transaction to the network, `PrepareRead` and `PrepareCommit` the preparation of a new
batch. `Throw` is a rejected await at any of these points, `Crash` the death of the process, `Start`, `Close` its
life cycle, `CheckLock` and `UnlinkLock` the two steps of `governance-worker-recover-lock.cjs`.

`evidence` and `accepted` are the store (one record per batch, which is sound because `EvidenceStore` shows
`BatchUniform`; its operations are atomic here because `EvidenceStore` implements `EvidenceLedger`). `journal`, `order`,
`age` and `wait` are the journal; times are relative to the present and saturate where the code stops telling them
apart. `sent` is every transaction some node has received (a set: the network may duplicate, delay or lose), `chain` the
wallet's included transactions in nonce order, `deep` how many of them have twelve confirmations. A transaction's hash is
the transaction itself. Left out: the content of events, the Merkle tree, key files, logging.

### EvidenceStore

A call holds a connection. `Submit` fixes the time of receipt, `LockUsage` is the `SELECT ... FOR UPDATE` on the usage
row, and `Accept`, `Duplicate` and `Refuse` are the rest of `ingest`: nothing else can run between its statements,
because they only touch rows under that lock and a fresh primary key. `PrepareRead` and `AttachRead` are
the reading halves of `prepareBatch` and `attachTransaction`; `WriteRow` locks and checks one evidence row of
`commitEvidence`, `CommitEvidence` makes all of them visible, `WriteRefused` is the 409, `Fail` any failed statement. The
SQLite store (`store.js`) runs the same statements under `BEGIN IMMEDIATE`: the special case in which one call is
active at a time. `prepareBatch` orders pending events by a time the client supplied; the model allows any order.

### GovernanceRules and WebhookDelivery

Both live in one SQLite file, the events in another. `StartCycle` reads cursor and rows (`scanStored`), `Process` is the
transaction of `process` with all it writes, including `enqueue`; `QueueFull` is its rollback; `Advance` is the cursor's own
statement. `ReadOutbox`, `Publish` and `Mark` are the three steps of `publishDetected`: the alerts enter the same log
of events and are scanned in their turn. `StartRegister`, and `Register` or `Refuse`, are the two halves of `register`: the activation time is
read before `BEGIN IMMEDIATE`, which waits for the other processes, so it is kept in `registering` until the transaction commits or is
given up, while events go on being received and processed; in the same way `Ingest` stores an event with any time of receipt up to now.
A version carries `committed`, the moment it entered the table, for the sake of `RightVersion`; no code stores it. `StartCall`, `Send` and `EndCall` are `claim`, the request, and the answer with `finish`.
`Abort` is a crash or a failed statement anywhere. The cursor and the rows are read in one step: a cursor that
moves between the two reads only makes the scan repeat records, which the model allows anyway.

Only the order of times matters to rules, so `clock` is a small counter that saturates; deliveries count down to the moment
they are due. The order in which due jobs and pending alerts are taken is that of hashes and left open. Which event matches
which rule version is the constant `Breaches`; a breach also names its incident, its alert and, if it is in `Jobs`, its webhook job,
as the code derives all these ids from it. Left out: the lifecycle of an incident (`transition`), previews, signatures, the
address checks of `send` (their failure is a call without a request), and the gate on a restored journal.

### ProviderSessions and RevocationReplay

A request is at one await of `resolveSession` or `callback` (`workos-auth.cjs`); a transaction of `postgres-provider-sessions.cjs`,
`postgres-workspace-auth.cjs` or `provider-revocations.cjs` is one step. `ReadSession`, `CheckRevoked`, `ClaimCredential` (or `ClaimElse`),
`ExchangeCredential`, `VerifyRenewal`, `RecheckRevoked`, `CompleteRenewal`, `ResolveSession` are a renewal; `ConsumeFlow`, `ExchangeCode`,
`VerifySignIn`, `Login`, `StoreCredential`, `EndPrevious` a sign-in. `ProviderRevokes` is the provider's decision and `ApplyRevocation` its
event, by webhook or replay. Ages are the three the code tells apart (`fresh`, `due`, `over`); `Later` lets them pass, and a claim
lapse. `RevocationReplay` has the times themselves: a step claims the lease, reads the window from an overlap before `covered` to
a lag before the present, records event by event, and moves `covered` if the lease is still its own. An event may appear in the
provider's list late; `ReplayAssumption` bounds how late by `Lag + Overlap`, which is what these two constants of the code
are for.

### CustomerDirectory and ProjectKeys

An operation locks the actor's identity row (`Begin`) and the workspace row (`LockWorkspace`), finds a repeated action id (`Repeat`),
reads (`ReadRows`) and writes (`Write`), or rolls back. Keys are created, rotated and revoked inside the same transactions (`ReadKeys`,
`WriteKeys`), and used by requests that lock nothing (`resolver`): a key is looked up and its use recorded in two statements. One
workspace and one project suffice, as no operation touches two. An action id is the customer's in the directory and the
project's for keys, as the two tables have it (`EntryFor`).

`LocalWorkspace` is the same workspace in SQLite (`customer-directory.cjs`, `project-keys.cjs`): synchronous transactions under
`BEGIN IMMEDIATE`, so each operation with its checks is one step. `WorkspaceIsSerial` says that the PostgreSQL workspace implements it: every
`Write` and `WriteKeys` is the local operation with all its conditions met at that moment, and the steps before are
invisible. The refinement mapping has one subtlety. Time is not locked: an invitation may expire, or a key's lifetime end, after an operation
has read it and before it writes. The outcome is that of an operation just before the end, so `SeenInvitation` and `SeenKey` let the
end be seen only when the operation that relies on the row has committed or was rolled back (`Accepting`, `Rotating`).

### PublisherRelease

`gate` and `releases` are PostgreSQL's, `journal` and `lock` the worker's; `release` is a run of `activatePublisherRelease`, which commits the
journal first (`CommitJournal`) and PostgreSQL afterwards (`CommitRelease`), or does not learn what became of it (`LoseCommit`) and
compensates (`CloseJournal`, `RevokeUncertain`). `ReleaseDies` may leave either database ahead. `LoadWorkerBinding`, `StartWorker`,
`CheckPublisherAccess` and `Tick` are the worker: what it read before it owned the journal, the lock and second check of its
constructor, `assertPublisherActive`, and the work that was cleared by it. `RecoverLock` is the script of section "EvidenceWorker";
it also removes the lock that a failed release retains for an operator (`docs/restored-worker-journal-review.md:87` asks for a manual
reconciliation before that). `reclaimed` remembers such a removal, and `ReleaseSettles` promises nothing after it; `PublishesUnderRelease` still
holds.

### ReceiptIngress, CappedRelayer, EventIndexer, VerifierRegistry, HistoricalAuthority

`ReceiptIngress`: a request changes `memory`, then writes `lines` (the journal), `stored` (the checkpoint) and `batches` (the prepared file) in
the code's order, one write a step, any of which may be the last; a restart reads them back. `CappedRelayer`: the entry of a call is in
`reservations` and in `budgetFile` before `SendTransaction`. The hourly ceiling looks at the entries of the current day only, and two relayer
processes on one file are not kept apart by the code; the model has one process, and states the hourly ceiling within a
day. `EventIndexer`: a sync reads the latest block, scans ranges contract by contract, and closes each under its end's hash; the chain may
grow or reorganise between any two calls. `VerifierRegistry` and `HistoricalAuthority`: a transaction is a step, and one that reverts changes
nothing. In the historical authority a revocation in the very second of an anchor takes the registry's answer back, as
`docs/historical-authorisation-prototype.md:12` says; the property excepts exactly that second. In the verifier registry owner and guardian are
different accounts only by the constructor; later transfers may unite them.

### DeliveryQueue and BackupSets

`DeliveryQueue`: every call on the file is one SQLite transaction (`Enqueue`, the read of `StartFlush`, `RemoveDelivered`, `CommitImportPage`); a
flush keeps the rows it read while it awaits the API, so that two processes may hold the same row, and one may remove it while the other
sends it. `Unanswered` covers a request that was lost and an answer that was; the API's side is what `EvidenceStore` proves of it: it
keeps the first content of an event and knows a repetition. An import reads a page under the checkpoint it began with and commits only
if that is still the checkpoint; a score may be labelled anew between two reads. `admitted` remembers every row that was committed.

`BackupSets`: a set is a directory or a key prefix with its files, each missing, whole or damaged; `capture` goes through `createBackup` beside
writers that nobody stopped (the worker's journal is a file and is not held by the table lock), and `transfer` through the phases of a
copy, a key rotation, an upload or a download in the order of the code (`Phases`), one file at a time. `GoBad` may hit any file between any
two steps. `written` keeps what a file was when it was written: a disk that fails later refutes no report. What a set holds of the data is
how many batches, signed transactions and attached hashes were there when each database was read.

## 3. What is checked

| Run | Question | Bounds |
|---|---|---|
| `worker_crash` | is anything signed twice, sent before it is saved, sent while an earlier batch is open, or called confirmed wrongly, with crashes and lost answers anywhere? | 2 events, 2 batches of one event, 2 processes, 4 faults; no clock (windows 0) |
| `worker_policy` | do the rolling caps and the pause hold over restarts with another policy? | 2 batches, 2 fees, windows of 1 and 2 ticks, 2 faults |
| `worker_operator` | what if the CLI prepares, attaches and the wallet is used by hand beside the worker? | 1 manual transaction, 2 publishers, 1 hash per bundle, 1 fault |
| `worker_live` | is every accepted event anchored in the end? | one batch of two events, or two; 1 fault of any kind |
| `store` | are the store's transactions correct and as good as atomic? | 2 events with contested content and sequence, 2 calls, 2 batches, 2 hashes, a midnight, 1 failure |
| `store_midnight` | (violated) is the daily allowance exact? | 3 events, 2 calls, 2 days |
| `rules` | is each event evaluated once, by no version too new and missing none that was there before, and does everything reach its end, with crashes? | 2 events, 1 rule in 2 versions, 1 registration waiting, 2 matches, 1 job, 1 processor, 2 attempts, 2 moments, 1 fault |
| `rules_shared` | is the journal safe to share when leases expire, answers come late and the queue is full? | 2 processors, 2 events and jobs, 2 attempts, a lease of one tick, room for one job |
| `rules_full` | (violated) is every job attempted until it is settled? | 1 processor, room for one job |
| `sessions` | is a refresh credential spent once and a revoked session out for good, however requests, events and deaths interleave? | 2 requests, 2 sessions, 2 flows of which 1 may be open, 1 provider session, 2 credentials |
| `services` | does each part that stands alone keep its promise (see below)? | 2 revocations, 2 replay steps, 6 instants; 2 customers, 2 operations, 1 invitation, 2 keys, 2 action ids; 3 blocks of height, 5 blocks ever, ranges of 2; 3 receipts, 2 batches of at most 2; 3 hours in days of 2; 2 verifier versions, 3 blocks; 2 commitments, 2 anchors, 3 seconds; 2 releases, 2 restores; 3 events in 2 contents, 2 senders, 3 rows of which 2 wait, 2 attempts, 2 pages; 3 backup sets, 2 batches, 1 bad file |
| `indexer_reorg` | (violated) does the index follow the chain when a range that was already scanned is undone during a sync? | as in `services` |

The bounds are the smallest at which the cases meet: two batches give two nonces and an earlier and a later job;
two processes a dead and a live owner; four faults a crash before and after a broadcast, a lost answer and a
reorganisation in one behaviour; two calls every pairwise race of transactions. `MaxTxs` is 1 in `worker_operator` and
`store` so that a full history is reached; the code's value is 5. Two attempts give a first, a last and an interrupted one; a
lease of one tick lets a claim outlive it; a registration that waits and two moments are what it takes for a version to enter the table with an earlier time than a
record that was processed without it; a cycle that reads two records and makes one claim reaches both of its limits. The models of the
worker, the store and the rules never stop, and deadlock is checked there; `sessions`, `services` and `indexer_reorg` set
`CHECK_DEADLOCK FALSE`, because credentials, action ids, blocks and restores are finite and run out.

In `services` the properties are: `NothingSkipped` (replay), `WorkspaceSafe` (`OwnerRemains`, `AuthorityHolds`, `KeysBounded`), `KeyEndsForGood` and `WorkspaceIsSerial`
(directory and keys), `IndexFollowsChain` (indexer, for chains whose reorganisations during a sync stop short of the ranges already
scanned: `Undercut = FALSE`), `OutboundSafe` (`ReceiptsKept` and `IncludedWasAnchored` of the ingress, `BudgetHolds` of the relayer,
`DeliveriesKept` of the delivery queue, that is `NothingDropped`, `DeliveredInOrder` and `WindowImported`),
`RecordedRightly` (`VerifiedInForce` and `AnchorsStayAuthorised` of the contracts, `BackupsSound` of the backup sets, that is `CaptureCoherent`,
`MarkerIsLast` and `VerifiedIsWhole`), and `ReleaseGoverned` (`PublishesUnderRelease`, `ReleaseSettles`).
`MCServices` narrows five parts: receipts arrive in the order of their numbers; in the directory part all use one action id, so that each customer
acts once and may repeat it; in the keys part the operations are on keys, by two owners who are not disabled (members who change
beside them are covered by the proof); a process of the delivery queue delivers or imports, one at a time (`OneCallEach`); and writers go on only before and during the
first capture, transfers being of sets that met none (`WritesApart`), since the data of a set do not change what a transfer does. Three
backup sets are a set, a copy and the copy of a copy, or a set, its upload and a download. Two restores let a binding of an earlier restore meet a later one; two ranges are the least in which one can be undone while
the other is scanned; two replay steps are needed for one to outlive its lease.

Every property is also checked against a seeded fault of the code (operators such as `SaveLater` or `CurrentUnchecked`,
each next to the definition it corrupts, with the fault named in a comment; `PROJECT.json`, "mutants").

**Fairness** (`FairSpec` of `EvidenceWorker`, used by `worker_live`): the loop of `scripts/governance-worker.cjs` ticks every five seconds
and each step is an awaited call with a timeout (`WF` on `Step`); systemd restarts the service and runs the recovery
script first (`WF` on `Start`, `CheckLock`, `UnlinkLock`); the chain includes what its nodes hold and grows (`WF` on `Mine`,
`Deepen`); an operator releases a closed gate (`OpenGate`); time passes. Nothing is assumed of clients, the CLI or faults,
and a rejected await (`Throw`) is never required. The `FairSpec` of `GovernanceRules` (`rules`, `rules_full`): the interval timer
starts cycles, and every await of a cycle ends, as `send` has its own timeouts (`WF` on `Step`); time passes. The receiver may never
answer, and clients owe nothing.

## 4. What the checks found

* `indexer_reorg`: a sync checks each range against its own last block, not against the checkpoint before it. A reorganisation
  that replaces a scanned range while a later one is scanned leaves the orphaned entries under a canonical checkpoint, where no
  later rewind looks for them.
* `store_midnight`: the daily counter restarts whenever the stored day differs from the call's day, so calls of two days
  served out of order around midnight are counted from zero twice.
* `rules_full`: a full queue makes the next matching record throw at the head of each cycle; the deliveries that would make
  room come later in the same `try` and are never reached again. The documentation promises a retry of every failed delivery and
  that a failing record blocks only the cursor. With room in the queue `EventuallySettled` holds (`rules`).

The second of these patterns, a time fixed before a wait, is also in the rules. `register` reads its activation time before `BEGIN IMMEDIATE`
(governance-rules.cjs:45, 47), which waits up to five seconds while others hold the journal (webhook-delivery.cjs:44). An event received in
between can be processed without the version that then appears with an earlier activation time than the receipt, although
docs/governance-rules-and-incidents.md:83-84 says that "delayed processing uses the highest version activated before that receive time". The
model has these behaviours. `RightVersion` therefore states what does hold: a version in the table before the receipt is not missed, and none
activated after it is used. Put `created_at` in place of `committed` in its `before`, and TLC finds the event that was judged
without the version: registration stamped, a tick, the event received and processed, the registration committed.

Two limits that show when a constant is changed: with `DeepReorg = TRUE` (a reorganisation deeper than twelve confirmations)
`OneUnresolved` fails, since earlier jobs are verified before the nonce of the next transaction is read and not again; and
with two overlapping runs of the lock recovery script `SingleOwner` fails, since it checks the owner and unlinks the
path in two steps. systemd runs one script at a time, which is the assumption `SoleRecoverer`.

## 5. What is proved

`EvidenceWorkerProofs` proves, for all sets of events, batches, processes, policies and fees and all bounds allowed by the
`ASSUME`s of `EvidenceWorker`:

* `TypeCorrect`: `Spec => []TypeOK`. The inductive invariant is `TypeInv`, `TypeOK` with `CurrentOK`: the position of a
  process lies inside the job list whenever it is past `ReadJobs`, without which the job in hand has no type.
* `SoleOwner`: `Spec => []SingleOwner` under `SoleRecoverer` (at most one recovery script). The inductive invariant
  `OwnerInv` adds that a process with a program point is alive and that a recoverer which has passed its check still sees
  the dead owner in the lock.
* `DurableSend`, `SignedKept`, `WorkerSubmitsOnce`: from `DurableInv`, which says that a process past `Sign` holds in memory
  exactly the row that is in the journal, and that what is on the network is in the journal. It needs `OwnerInv`: two owners would
  hold stale rows. `WorkerSubmitsOnce` is the refinement of `SingleSubmission`, step by step.
* `BatchedAtMostOnce`: `Spec => []BatchedOnce`, from the check of the store's commit alone.
* `WorksOneAtATime`, `ConfirmedStaysAnchored`: from `ChainInv`, which ties the journal, the loop's position and the chain together.
  The wallet's transactions are included in the order of their nonces (`NoncesInOrder`); behind a job that is not final no
  job is signed, and signed jobs have growing nonces (`SignedInOrder`); a process has seen every job before the one in hand final
  (`LoopOf`), and what it calls final is. The two hold under `FinalityHolds`, that is without reorganisations deeper than twelve confirmations, and
  under `SoleRecoverer`; section 4 says what happens otherwise.
* `CapsHold`: `Spec => []SpendingCaps`. `CapsInv` adds that a process which quotes or signs found room in the hour (`RoomOf`); with one
  owner nobody else can take that room before it signs. Jobs count by the time they were signed, as the documentation defines the caps. The fees of a window are a `Total` of module `Totals`.

* `PausedStaysQuiet` (under `SoleRecoverer`), the action property `PausedIsQuiet`: pausing is read once, when a process starts. `PauseInv` says of a process between its
  choice of work and the broadcast that its policy is not paused, so a step that gives a job bytes or sends them is one of an unpaused
  process; `OwnerInv` makes that process the only running one, hence all running ones are not paused when such a step happens.

`EvidenceStoreProofs` does the same for any number of events, calls, batches, hashes and failures:

* `TypeCorrect`; `UsageAccounts`, `AcceptsRightly` (`Acknowledged` and `SlotsDistinct`) and `ContentKept`, from
  `EventInv`: whoever is between the `SELECT ... FOR UPDATE` and the end of its transaction is the only one, and what it
  read is still there. Events and bytes are exact: a sum is the number of its units (`Totals`), and one more event adds its own units to a
  finite set. Of the daily counter the theorem says only that it is never ahead of the events received on its day; it may fall
  behind around midnight, and with it the daily allowance (`store_midnight`).
* `BatchesUniform`, `HistoriesKept`, `OutboxCorrect`, from `RowInv`. None of them is inductive: a call carries rows it read
  earlier, so the invariant says when those are still current. `LocksHeld` gives the rows a call holds, `Fresh` that a row
  which passes the check on its revision is extended and never replaced, and that a held row keeps passing it, `WholeBatch`
  that a call writes a new batch nobody else knows or every member of an old one.
* `ImplementsLedger`: the refinement of `EvidenceLedger`. A commit of revision 1 is the ledger's `Commit`, a later one its
  `Attach`, or no step when the hash was there already; everything else but `Accept` is invisible.
* `NoDeadlock`: the call that waits for the greatest row among a waiting set would have to wait for a greater one. It needs
  `IdsAssumption`, that some id is the greatest, which finitely many rows satisfy.

`GovernanceRulesProofs` covers `GovernanceRules` together with `WebhookDelivery`, for any number of processors, events, rules and
jobs and all bounds; it assumes only the named `ASSUME`s of the two modules (the bounds are natural numbers and the
limits the code divides its work by are positive; alert ids are not event ids).

* `TypeCorrect`: `TypeInv` adds to `TypeOK` that a cycle's record and alert in hand exist (`CycleOK`) and that a pending
  job has an attempt left (`RoomOK`), without which the count of attempts would leave its range at the next claim.
* `NoRecordSkipped`: `CursorBehind` is not inductive, as a cycle works from rows it read before others moved the cursor.
  `ScanInv` adds that the rows before the one in hand are processed, and the one in hand too before the cursor follows.
* `AlertsPublishedOnce`: `OutboxInv` adds that the alert a cycle is about to mark is in the store already.
* `VersionOfItsTime`: `VersionInv` says that the times of records, versions and waiting registrations are past and that no version was
  activated after it entered the table. So a version that enters the table now is not among those that were there before the receipt of any
  stored record, whatever its own time says; and the check of a record, made against the versions in the table at that
  moment, stays right: it names the latest activated up to the receipt, which is none older than those there before. That there
  is a latest one is `LargestExists`, as a finite set has no endless descent of its subsets.
* `LeaseProtects`, `OutcomesExplained`, `SettledStays`, `JournalConsistent`: from `SafeInv`. Its `DeliveryInv` says that calls on one
  job have different attempts, none ahead of the job's, and that a call and the journal agree on the time left of a running
  lease: so a late answer never carries the current attempt of another's claim. Its `LinkInv` ties checks, processed events,
  alerts and jobs. The two need each other: a job is enqueued only for a check that is new, so no call can be under way
  on it when its attempts start at 0.

`ServicesProofs`, `ProviderSessionsProofs`, `OutboundProofs` and `RecordsProofs` cover the parts that stand alone, again for all constants
that satisfy the modules' named assumptions and for the modules' own specifications, without the narrowing of `MCServices`:

* `ReplayComplete` and `ReplayProgresses`: a step works from the `covered` it read, so the invariant says of every step under way that its
  window begins no later than the overlap before what it read, that whatever its listing left out of the window is either recorded
  or listed later than the lag allows, and that only the lease's owner, who has read the present value, can move it.
* `SessionTypes`, `RevocationHolds`, `CredentialsSpentOnce`: the credential is at one place at a time (in a row, with the request that claimed
  it, or at the provider), and a request past the tombstone's check of `Login` and `CompleteRenewal` decides in the same transaction.
* `WorkspaceStaysSafe` and `KeysEndForGood`: an operation past `LockWorkspace` holds the workspace row and is the only one, so what it
  read is current until it commits.
* `WorkspaceSerial`: the refinement of `LocalWorkspace`, action by action. `SerialInv` says of an operation that is about to write that everything it
  read is still so, but for the clock (`Ready`), and that it holds the row of its actor, who therefore cannot have been disabled meanwhile
  (`IdentityInv`). What ends under an operation is the point where this is not obvious: pending invitations and usable keys can only become fewer, so
  limits that held go on holding (`BesideReady`), and the mapping shows the end afterwards. `ReadUnseen`, `RollbackSeen`, `ExpirySeen`, `EndSeen`,
  `UseSeen`, `DisableSeen`, `WriteSeen` and `WriteKeysSeen` are the steps.
* `DeliveriesAreKept`, `DeliveryTypes`: `FlushInv` says that what is older than a row of a flush is in the flush too or delivered (the flush took the
  oldest rows, ids are never given out twice and nothing leaves the queue undelivered), so the row whose turn it is has nothing undelivered
  before it; an import that is under way holds an unfinished checkpoint, and commits only over the same one.
* `BudgetStaysWithin`: `RelayerInv` says that the caps hold of the list of reservations as it stands in memory, broadcast or not, in every
  hour of every day; that the price a call was quoted still fits when it is reserved, however late; and that the file is a
  prefix of the memory, whole once a call is past its reservation.
* `ReceiptsStayKept`: `IngressInv` says write by write how far the memory is ahead of the files (`MemoryAhead`), that the queue in memory and the queue a restart
  would recover are both backed by the prepared batches, the answers and the reports (`QueueOK`, `EntryOK`), and that every line of the
  journal is admitted by the replay of the lines before it (`Replayable`), so that a restart never throws. The replay runs over a recursive
  function, about which there is no induction theorem; `LoopExists` builds the function for a finite loop and `Climbs` carries a fact along
  its steps, both by induction over a finite interval.
* `VerifiedWhileInForce`: `RegistryInv` adds that an activation time is greater than the delay (the property does not relate it to the time of
  the proposal), that no version is activated before its activation time, and that the times at
  which versions were activated, retired or verified with are past. `AuthorityOutlasts`: once a second has passed no revocation or grant can fall into it, so what the registry
  said of it then it says for good; only the running second may still change (`Vouches`).
* `IndexStaysTrue` (under `StaysSettled`, that is without the case of the run `indexer_reorg`): `IndexOK` says of every copy of the index, in the file or in
  a sync under way, that it follows the chain if its checkpoint is still a block of the chain; `ScanOK` says the same of the range being
  scanned, contract by contract, conditional on the hash its end had when the scan began.
* `BackupsStaySound`: `CaptureOK` says which files a capture has written and that the tables have not changed since it read them, `TransferOK` what each phase of a
  transfer has left behind and that the phases still to come end with an inspection of the copy. Files may go bad at any time,
  so the invariant speaks of what was written, and the marker only vouches for what is there.
* `RecordsStayRight`, `OutboundStaysSafe`: the properties that the run `services` checks. `PartsRun` shows that a behaviour of `MCServices` is a behaviour
  of every part's own specification, as a step of one leaves the variables of the others alone.
* `ReleasesGoverned`: `OwnerInv` says that whoever works on the journal holds its lock, `PhaseInv` how far the two databases are apart at each
  step of a release. `ReleaseSettles` alone is not inductive: before the journal's commit no active release may belong to this
  copy of the journal, and a compensation that could not close the journal must be one that keeps the lock.

* `ServicesTyped` (under `StaysSettled`): every part keeps its types. That the directory never holds more projects than it may needs `ProjectRoom`: who creates
  one counted them under the workspace's lock. That a backup's table has all its rows needs `BackupSizes`: what was captured, copied or restored is as long as the tables
  were. Counters stay within the bounds because each guard is checked in the transaction that counts.

Only model-checked: the three liveness properties (`EventuallyAnchored`, `EventuallyEvaluated`, `EventuallySettled`; fairness and `ENABLED` are outside the prover), and what the
recursive definitions compute beyond what these proofs need of them. The theorems that need an assumption about the world name it: `SoleRecoverer`, `FinalityHolds`, `StaysSettled`.
A replay step that finishes late would not break `NothingSkipped`, which is why `CoverageGrows` is stated and proved beside it.

## 6. Not modelled

* Code without an order of steps to check: request limits (one atomic statement each), incident transitions, reviews and agents (one
  transaction each with an action id, the pattern of `CustomerDirectory`), reports, listings and status pages.
* Formats and cryptography: receipts, presentations, ledgers, Merkle trees, signatures, policy statements and proofs. The models treat a
  valid signature or proof as such and an invalid one as an error.
* SQLite variants of the other PostgreSQL components (sessions, limits, revocations): one process at a time, hence the special case without
  interleavings. Those of the store, the directory and the keys are `EvidenceLedger` and `LocalWorkspace`, which the PostgreSQL ones implement.
* Of the backups: what encryption computes, the listing of a bucket, the freshness report, and how files become databases again. The Python
  delivery queue follows the protocol of the modelled one.
* Deployment scripts, the HTTP servers and the command-line demonstrations: input and output around external tools. They make up the greater part
  of the repository's lines, together with benchmark, acceptance and test scripts and with copies of the SDK under `deploy/`, so that the share
  of lines the models stand for stays small.
* `AuthorityRegistry` and `AuthorisedAVRAnchor` (a single flag, superseded by the historical pair), the proof adapter (stateless).
* In `ReceiptIngress`: a throw between the change of the queue in memory and the first write, and a torn last line of the journal.
* After a revoked release the journal stays approved for it; the code offers a new release only to a journal restored anew, and the model
  does the same.

What would come next: the operators' release scripts, whose switch and rollback of a
running system are ordered steps like those of `PublisherRelease`.
