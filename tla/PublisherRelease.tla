-------------------------- MODULE PublisherRelease --------------------------
(***************************************************************************)
(* How a restored database and a restored worker journal come back to      *)
(* work: the PostgreSQL gate opens for customers first                     *)
(* (postgres-recovery.cjs, customer-recovery-activation.cjs) and for one   *)
(* publisher afterwards (publisher-recovery-release.cjs), which has to     *)
(* commit in two databases; the worker works only under a release that     *)
(* both of them hold (worker-launch-binding.cjs, assertActive).            *)
(*                                                                         *)
(* The newest restored database and journal are modelled; a restore is     *)
(* made offline.  The worker is launched with the identity and policy that *)
(* were reviewed, so a binding is known by its release id.                 *)
(***************************************************************************)
EXTENDS Integers

CONSTANTS
    Releases,     \* release ids that may be drawn
    NoRelease,
    MaxRestores,  \* restores of the database, and of the journal (a bound)
    MaxData       \* changes of the restored records (a bound)

ASSUME ReleaseAssumption == NoRelease \notin Releases /\ MaxRestores \in Nat /\ MaxData \in Nat

VARIABLES
    gate,      \* governance_recovery_gate of the database and what it guards
    releases,  \* [Releases -> row of governance_recovery_publisher_releases]
    journal,   \* gate and release binding in the worker's journal
    lock,      \* owner of the journal's .lock file, and whether its process lives
    plan,      \* what preparePublisherRelease observed and the operator reviewed
    release,   \* the run of activatePublisherRelease
    publisher, \* the worker process
    reclaimed  \* the lock of a release that did not finish was removed

recovery == <<gate, releases, journal, lock, plan, release, publisher, reclaimed>>

NoPlan == [id |-> NoRelease, restore |-> 0, data |-> 0]
NoRun == [step |-> "idle", id |-> NoRelease, connected |-> TRUE, keepLock |-> FALSE]
Unlocked == [by |-> "nobody", alive |-> FALSE]
NoRow == [state |-> "none", restore |-> 0, copy |-> 0]

RecoveryTypeOK ==
    /\ gate \in [state: {"active", "review-required", "access-reviewed", "customer-active"},
                 restore: 0..MaxRestores, data: 0..MaxData]
    /\ releases \in [Releases -> [state: {"none", "active", "revoked"},
                                  restore: 0..MaxRestores, copy: 0..MaxRestores]]
    /\ journal \in [gate: {"none", "review-required", "approved"},
                    id: Releases \cup {NoRelease}, copy: 0..MaxRestores]
    /\ lock \in [by: {"nobody", "worker", "release"}, alive: BOOLEAN]
    /\ plan \in [id: Releases \cup {NoRelease}, restore: 0..MaxRestores, data: 0..MaxData]
    /\ release \in [step: {"idle", "locked", "reviewed", "journalled", "closing", "revoking"},
                    id: Releases \cup {NoRelease}, connected: BOOLEAN, keepLock: BOOLEAN]
    /\ publisher \in [at: {"down", "bound", "up", "cleared"}, id: Releases \cup {NoRelease}]
    /\ reclaimed \in BOOLEAN

\* A database and a journal that were never restored.
RecoveryInit ==
    /\ gate = [state |-> "active", restore |-> 0, data |-> 0]
    /\ releases = [r \in Releases |-> NoRow]
    /\ journal = [gate |-> "none", id |-> NoRelease, copy |-> 0]
    /\ lock = Unlocked
    /\ plan = NoPlan /\ release = NoRun
    /\ publisher = [at |-> "down", id |-> NoRelease]
    /\ reclaimed = FALSE

Offline == release = NoRun /\ publisher.at = "down"

\* The tables a release run holds locked until its transaction ends.
TablesFree == release.step \notin {"reviewed", "journalled"}

\* A dump of an active or customer-active database is restored: every release
\* in it ends and the gate closes.
InvalidateRestore ==
    /\ Offline
    /\ gate.state \in {"active", "customer-active"} /\ gate.restore < MaxRestores
    /\ gate' = [gate EXCEPT !.state = "review-required", !.restore = @ + 1]
    /\ releases' = [r \in Releases |->
                      IF releases[r] = NoRow THEN NoRow ELSE [releases[r] EXCEPT !.state = "revoked"]]
    /\ UNCHANGED <<journal, lock, plan, release, publisher, reclaimed>>

\* A backup of the journal is restored into a fresh directory; the binding of
\* an earlier release stays in it.
RestoreJournal ==
    /\ Offline /\ journal.copy < MaxRestores
    /\ journal' = [journal EXCEPT !.gate = "review-required", !.copy = @ + 1]
    /\ lock' = Unlocked /\ reclaimed' = FALSE
    /\ UNCHANGED <<gate, releases, plan, release, publisher>>

\* The reviewed memberships are applied, then the customers are let in.
ApplyAccessReview ==
    /\ gate.state = "review-required"
    /\ gate' = [gate EXCEPT !.state = "access-reviewed"]
    /\ UNCHANGED <<releases, journal, lock, plan, release, publisher, reclaimed>>

ActivateCustomerAccess ==
    /\ gate.state = "access-reviewed"
    /\ gate' = [gate EXCEPT !.state = "customer-active"]
    /\ UNCHANGED <<releases, journal, lock, plan, release, publisher, reclaimed>>

\* A customer's event or its evidence changes what the release review read.
ChangeRecords ==
    /\ gate.state \in {"active", "customer-active"} /\ TablesFree
    /\ gate.data < MaxData
    /\ gate' = [gate EXCEPT !.data = @ + 1]
    /\ UNCHANGED <<releases, journal, lock, plan, release, publisher, reclaimed>>

\* preparePublisherRelease: a fresh id over a journal and a database that are
\* both under review; the plan is good for five minutes.
PreparePublisherRelease(r) ==
    /\ plan = NoPlan /\ release = NoRun
    /\ gate.state = "customer-active" /\ journal.gate = "review-required"
    /\ releases[r] = NoRow
    /\ plan' = [id |-> r, restore |-> gate.restore, data |-> gate.data]
    /\ UNCHANGED <<gate, releases, journal, lock, release, publisher, reclaimed>>

ForgetPlan ==
    /\ plan # NoPlan /\ release = NoRun
    /\ plan' = NoPlan
    /\ UNCHANGED <<gate, releases, journal, lock, release, publisher, reclaimed>>

\* activatePublisherRelease: the journal must be under review before its
\* exclusive lock file is created.
TakeReleaseLock ==
    /\ plan # NoPlan /\ release = NoRun
    /\ journal.gate = "review-required" /\ lock = Unlocked
    /\ lock' = [by |-> "release", alive |-> TRUE]
    /\ release' = [NoRun EXCEPT !.step = "locked", !.id = plan.id]
    /\ UNCHANGED <<gate, releases, journal, plan, publisher, reclaimed>>

\* Under the table locks the review is repeated and must give the same; the
\* rows are written in the open transaction, against one active per wallet.
ReviewUnderLock ==
    /\ release.step = "locked"
    /\ gate.state = "customer-active" /\ plan.restore = gate.restore /\ plan.data = gate.data
    /\ \A r \in Releases : releases[r].state # "active"
    /\ release' = [release EXCEPT !.step = "reviewed"]
    /\ UNCHANGED <<gate, releases, journal, lock, plan, publisher, reclaimed>>

\* The run ends; a step that could not be verified keeps the lock, whose
\* process is gone.
Leave(keepLock) ==
    /\ lock' = IF keepLock THEN [lock EXCEPT !.alive = FALSE] ELSE Unlocked
    /\ release' = NoRun /\ plan' = NoPlan

\* Any error before the journal is committed rolls both databases back.
RefuseRelease ==
    /\ release.step \in {"locked", "reviewed"}
    /\ \E rollbackFailed \in BOOLEAN : Leave(rollbackFailed)
    /\ UNCHANGED <<gate, releases, journal, publisher, reclaimed>>

CommitJournal ==
    /\ release.step = "reviewed" /\ journal.gate = "review-required"
    /\ journal' = [journal EXCEPT !.gate = "approved", !.id = release.id]
    /\ release' = [release EXCEPT !.step = "journalled"]
    /\ UNCHANGED <<gate, releases, lock, plan, publisher, reclaimed>>

Activated == [releases EXCEPT ![release.id] =
                [state |-> "active", restore |-> gate.restore, copy |-> journal.copy]]

CommitRelease ==
    /\ release.step = "journalled"
    /\ releases' = Activated
    /\ Leave(FALSE)
    /\ UNCHANGED <<gate, journal, publisher, reclaimed>>

\* The COMMIT fails or its answer is lost; the connection may be lost with it.
LoseCommit ==
    /\ release.step = "journalled"
    /\ releases' \in {releases, Activated}
    /\ \E connected \in BOOLEAN :
          release' = [release EXCEPT !.step = "closing", !.connected = connected,
                                     !.keepLock = ~connected]
    /\ UNCHANGED <<gate, journal, lock, plan, publisher, reclaimed>>

\* Seeded fault: the error of the compensation is swallowed.
CloseJournalUnverified ==
    /\ release.step = "closing"
    /\ journal' \in {journal, [journal EXCEPT !.gate = "review-required", !.id = NoRelease]}
    /\ release' = [release EXCEPT !.step = "revoking"]
    /\ UNCHANGED <<gate, releases, lock, plan, publisher, reclaimed>>

\* Compensation closes the local gate first; if that fails the lock stays.
CloseJournal ==
    /\ release.step = "closing"
    /\ \/ /\ journal' = [journal EXCEPT !.gate = "review-required", !.id = NoRelease]
          /\ release' = [release EXCEPT !.step = "revoking"]
       \/ /\ journal' = journal
          /\ release' = [release EXCEPT !.step = "revoking", !.keepLock = TRUE]
    /\ UNCHANGED <<gate, releases, lock, plan, publisher, reclaimed>>

Revoked(r) == IF releases[r] = NoRow THEN releases ELSE [releases EXCEPT ![r].state = "revoked"]

\* Then the release is revoked in PostgreSQL, if it is there.
RevokeUncertain ==
    /\ release.step = "revoking"
    /\ \/ /\ release.connected
          /\ releases' = Revoked(release.id) /\ Leave(release.keepLock)
       \/ releases' = releases /\ Leave(TRUE)
    /\ UNCHANGED <<gate, journal, publisher, reclaimed>>

\* The operator's process dies; a COMMIT on its way may still be executed.
ReleaseDies ==
    /\ release # NoRun
    /\ \/ releases' = releases
       \/ release.step = "journalled" /\ releases' = Activated
    /\ Leave(TRUE)
    /\ UNCHANGED <<gate, journal, publisher, reclaimed>>

RevokePublisherRelease(r) ==
    /\ gate.state = "customer-active" /\ TablesFree
    /\ releases[r] # NoRow /\ releases[r].restore = gate.restore
    /\ releases' = Revoked(r)
    /\ UNCHANGED <<gate, journal, lock, plan, release, publisher, reclaimed>>

\* governance-worker-recover-lock.cjs, before the service starts: it asks
\* whether the owner's process lives, not what the owner was doing.
RecoverLock ==
    /\ lock # Unlocked /\ ~lock.alive
    /\ lock' = Unlocked
    /\ reclaimed' = (reclaimed \/ lock.by = "release")
    /\ UNCHANGED <<gate, releases, journal, plan, release, publisher>>

\* loadWorkerBinding reads the journal before the worker owns it.
LoadWorkerBinding ==
    /\ publisher.at = "down"
    /\ \/ journal.gate = "none"
       \/ journal.gate = "approved" /\ journal.id # NoRelease
    /\ publisher' = [at |-> "bound", id |-> journal.id]
    /\ UNCHANGED <<gate, releases, journal, lock, plan, release, reclaimed>>

\* The constructor: the lock file, then assertRecoveryApproved again.
StartWorker ==
    /\ publisher.at = "bound"
    /\ IF lock = Unlocked /\ journal.gate # "review-required"
       THEN /\ lock' = [by |-> "worker", alive |-> TRUE]
            /\ publisher' = [publisher EXCEPT !.at = "up"]
       ELSE /\ publisher' = [at |-> "down", id |-> NoRelease] /\ UNCHANGED lock
    /\ UNCHANGED <<gate, releases, journal, plan, release, reclaimed>>

\* assertPublisherActive: an unbound worker needs the active gate; a bound one
\* the journal's binding, unchanged, and its active row of this very restore.
Permitted ==
    IF publisher.id = NoRelease
    THEN gate.state = "active"
    ELSE /\ journal.id = publisher.id
         /\ gate.state = "customer-active"
         /\ releases[publisher.id].state = "active"
         /\ releases[publisher.id].restore = gate.restore

CheckPublisherAccess ==
    /\ publisher.at = "up" /\ Permitted
    /\ publisher' = [publisher EXCEPT !.at = "cleared"]
    /\ UNCHANGED <<gate, releases, journal, lock, plan, release, reclaimed>>

\* The tick that was cleared signs and sends, and ends.
Tick ==
    /\ publisher.at = "cleared"
    /\ publisher' = [publisher EXCEPT !.at = "up"]
    /\ UNCHANGED <<gate, releases, journal, lock, plan, release, reclaimed>>

\* An orderly stop removes the lock file, a crash leaves it.
StopWorker ==
    /\ publisher.at \in {"up", "cleared"}
    /\ publisher' = [at |-> "down", id |-> NoRelease]
    /\ lock' \in {Unlocked, [lock EXCEPT !.alive = FALSE]}
    /\ UNCHANGED <<gate, releases, journal, plan, release, reclaimed>>

RecoveryNext ==
    \/ InvalidateRestore \/ RestoreJournal \/ ApplyAccessReview \/ ActivateCustomerAccess
    \/ ChangeRecords \/ ForgetPlan
    \/ TakeReleaseLock \/ ReviewUnderLock \/ RefuseRelease \/ CommitJournal \/ CommitRelease
    \/ LoseCommit \/ CloseJournal \/ RevokeUncertain \/ ReleaseDies
    \/ \E r \in Releases : PreparePublisherRelease(r) \/ RevokePublisherRelease(r)
    \/ RecoverLock \/ LoadWorkerBinding \/ StartWorker \/ CheckPublisherAccess \/ Tick \/ StopWorker

RecoverySpec == RecoveryInit /\ [][RecoveryNext]_recovery

-----------------------------------------------------------------------------
\* While a worker's tick is under way the worker owns its journal, nobody has
\* closed or rebound it, and the release it was cleared for was committed in
\* PostgreSQL; it may have been revoked since the check.  This holds also when
\* the lock of a release that died between its two commits was removed.
PublishesUnderRelease ==
    publisher.at = "cleared" =>
        /\ lock = [by |-> "worker", alive |-> TRUE]
        /\ journal.id = publisher.id
        /\ IF publisher.id = NoRelease
           THEN journal.gate = "none"
           ELSE journal.gate = "approved" /\ releases[publisher.id] # NoRow

\* A release is never half done once its lock is given back: an approved
\* journal names a release PostgreSQL committed, and an active release is
\* approved in the journal it was made for.  Where that cannot be had, the
\* lock is retained (activatePublisherRelease).
ReleaseSettles ==
    release = NoRun /\ lock.by # "release" /\ ~reclaimed =>
        /\ journal.gate = "approved" => releases[journal.id] # NoRow
        /\ \A r \in Releases :
              releases[r].state = "active" /\ releases[r].copy = journal.copy
                => journal.gate = "approved" /\ journal.id = r

\* A restored publisher works under a whole release or not at all.
ReleaseGoverned == PublishesUnderRelease /\ ReleaseSettles
=============================================================================
