-------------------------- MODULE WebhookDelivery --------------------------
(***************************************************************************)
(* One project's webhook jobs: the delivery journal in SQLite, the calls   *)
(* of deliverOne that work on it, and the receiver at the other end        *)
(* (services/governance/webhook-delivery.cjs).  GovernanceRules composes   *)
(* it with the rules that produce the jobs; both share one database file,  *)
(* in which every method of DeliveryJournal is one BEGIN IMMEDIATE         *)
(* transaction and so one step.                                            *)
(*                                                                         *)
(* Times are relative to the present: a job is due, or its lease is over,  *)
(* at 0.  A lease token is the number of the claim that drew it, which is  *)
(* as unique for a job as the random UUID.                                 *)
(***************************************************************************)
EXTENDS Integers, FiniteSets, FiniteSetsExt

CONSTANTS
    Jobs,         \* delivery ids: one for each incident and destination
    Processors,   \* processes that share the journal
    None,         \* no job
    MaxAttempts,  \* claims a job may have (8 in the code)
    Lease,        \* ticks a claim is protected (60 seconds)
    MaxDelay,     \* ticks of the longest backoff (300 seconds)
    Capacity      \* unfinished jobs the journal takes (10000)

ASSUME NoneAssumption == None \notin Jobs
ASSUME DeliveryAssumption ==
    /\ MaxAttempts \in Nat \ {0} /\ Lease \in Nat \ {0}
    /\ MaxDelay \in Nat \ {0} /\ Capacity \in Nat

VARIABLES
    jobs,       \* [Jobs -> Job]: webhook_jobs
    call,       \* [Processors -> Call]: the deliverOne a processor is in
    requested,  \* jobs whose request has left for the receiver at least once
    accepted    \* jobs the receiver has taken in

delivery == <<jobs, call, requested, accepted>>

\* What an attempt can end in: a 2xx status, a status that is retried or no
\* status at all, any other status.
Outcomes == {"ok", "retry", "refused"}

Job == [state: {"none", "pending", "sending", "delivered", "dead"},
        attempts: 0..MaxAttempts, wait: 0..MaxDelay, lease: 0..Lease,
        status: Outcomes \cup {"none"}]
NoJob == [state |-> "none", attempts |-> 0, wait |-> 0, lease |-> 0, status |-> "none"]

\* left counts what remains of the lease by the processor's own clock.
Call == [job: Jobs, attempt: 1..MaxAttempts, sent: BOOLEAN, left: 0..Lease]
NoCall == [job |-> None, attempt |-> 0, sent |-> FALSE, left |-> 0]

DeliveryTypeOK ==
    /\ jobs \in [Jobs -> Job]
    /\ call \in [Processors -> Call \cup {NoCall}]
    /\ requested \subseteq Jobs
    /\ accepted \subseteq Jobs

DeliveryInit ==
    /\ jobs = [j \in Jobs |-> NoJob]
    /\ call = [p \in Processors |-> NoCall]
    /\ requested = {} /\ accepted = {}

Unfinished == {j \in Jobs : jobs[j].state \in {"pending", "sending"}}

\* The jobs of S are new; either all of them fit or the caller's transaction
\* is rolled back.
Fits(S) == Cardinality(Unfinished) + Cardinality(S) <= Capacity

\* Seeded fault: the job is left to a later transaction, which a crash loses.
EnqueueLater(S) == UNCHANGED jobs

Enqueue(S) ==
    jobs' = [j \in Jobs |-> IF j \in S THEN [NoJob EXCEPT !.state = "pending"] ELSE jobs[j]]

Expired(j) == jobs[j].state = "sending" /\ jobs[j].lease = 0

\* Seeded fault: interrupted attempts are not counted.
ExhaustedNever(j) == FALSE

\* The first statement of claim: what was interrupted in its last attempt is dead.
Exhausted(j) == Expired(j) /\ jobs[j].attempts >= MaxAttempts

Swept == [j \in Jobs |-> IF Exhausted(j) THEN [jobs[j] EXCEPT !.state = "dead"] ELSE jobs[j]]

\* Seeded fault: a job may be claimed while another claim's lease runs.
DueAnyLease(j) ==
    /\ ~Exhausted(j)
    /\ jobs[j].state = "sending" \/ (jobs[j].state = "pending" /\ jobs[j].wait = 0)

\* Seeded fault: a claim that was interrupted is never taken over.
DueNoTakeover(j) == jobs[j].state = "pending" /\ jobs[j].wait = 0

Due(j) ==
    /\ ~Exhausted(j)
    /\ Expired(j) \/ (jobs[j].state = "pending" /\ jobs[j].wait = 0)

Claim(p, j) ==
    /\ Due(j)
    /\ jobs' = [Swept EXCEPT ![j].state = "sending", ![j].lease = Lease,
                             ![j].attempts = @ + 1]
    /\ call' = [call EXCEPT ![p] = [job |-> j, attempt |-> jobs[j].attempts + 1,
                                    sent |-> FALSE, left |-> Lease]]
    /\ UNCHANGED <<requested, accepted>>

FindNothing ==
    /\ \A j \in Jobs : ~Due(j)
    /\ jobs' = Swept
    /\ UNCHANGED <<call, requested, accepted>>

InCall(p) == call[p] # NoCall

\* The destination and the key are resolved and the request leaves.
Request(p) ==
    /\ InCall(p) /\ ~call[p].sent
    /\ call' = [call EXCEPT ![p].sent = TRUE]
    /\ requested' = requested \cup {call[p].job}
    /\ UNCHANGED <<jobs, accepted>>

\* The receiver takes in a request, which may have been under way for long
\* or be a repetition of one it has seen.
Receipt(j) ==
    /\ j \in requested \ accepted
    /\ accepted' = accepted \cup {j}
    /\ UNCHANGED <<jobs, call, requested>>

\* Without a request, or without its answer, there is no status: a retry.
CanEnd(p, outcome) ==
    \/ outcome = "retry"
    \/ call[p].sent /\ outcome = "refused"
    \/ call[p].sent /\ outcome = "ok" /\ call[p].job \in accepted

Backoff(n) ==
    LET delay == 2 ^ Min({n - 1, 20})
    IN  IF delay \in 1..MaxDelay THEN delay ELSE MaxDelay

\* Seeded fault: the update matches the job alone.
Unfenced(p) == TRUE

\* The update of finish matches only the claim whose token the caller has.
Fenced(p) ==
    /\ jobs[call[p].job].state = "sending"
    /\ jobs[call[p].job].attempts = call[p].attempt

\* Seeded fault: gives up one attempt early.
ResolutionEarly(outcome, attempt) ==
    CASE outcome = "ok" -> "delivered"
      [] outcome = "retry" /\ attempt < MaxAttempts - 1 -> "pending"
      [] OTHER -> "dead"

Resolution(outcome, attempt) ==
    CASE outcome = "ok" -> "delivered"
      [] outcome = "retry" /\ attempt < MaxAttempts -> "pending"
      [] OTHER -> "dead"

\* The end of deliverOne: the status arrives and finish records it.
FinishCall(p, outcome) ==
    /\ InCall(p) /\ CanEnd(p, outcome)
    /\ jobs' = IF Fenced(p)
               THEN [jobs EXCEPT ![call[p].job] =
                        [@ EXCEPT !.state = Resolution(outcome, call[p].attempt),
                                  !.wait = Backoff(call[p].attempt),
                                  !.lease = 0, !.status = outcome]]
               ELSE jobs
    /\ call' = [call EXCEPT ![p] = NoCall]
    /\ UNCHANGED <<requested, accepted>>

Less(n) == IF n = 0 THEN 0 ELSE n - 1

\* A tick of the clock, for the journal and for everyone who waits.
AgeDelivery ==
    /\ jobs' = [j \in Jobs |-> [jobs[j] EXCEPT !.wait = Less(@), !.lease = Less(@)]]
    /\ call' = [p \in Processors |->
                 IF InCall(p) THEN [call[p] EXCEPT !.left = Less(@)] ELSE NoCall]
    /\ UNCHANGED <<requested, accepted>>

-----------------------------------------------------------------------------
Settled(j) == jobs[j].state \in {"delivered", "dead"}

\* While its lease runs, a claim is the job's current one: no other processor
\* has claimed, finished or buried the job, whatever late answers arrive
\* (claim and finish of webhook-delivery.cjs).
LiveLeaseHolds ==
    \A p \in Processors :
        InCall(p) /\ call[p].left > 0 =>
            /\ jobs[call[p].job].state = "sending"
            /\ jobs[call[p].job].attempts = call[p].attempt

\* A delivered or dead job stays as it is, although answers to earlier
\* attempts and retries of other processors may still be under way.
SettledIsFinal == [][\A j \in Jobs : Settled(j) => jobs'[j].state = jobs[j].state]_jobs

\* No outcome is made up: a delivered job was taken in by the receiver; a
\* dead one was refused or has had all its attempts.
OutcomeExplained ==
    \A j \in Jobs :
        /\ jobs[j].state = "delivered" => j \in accepted
        /\ jobs[j].state = "dead" => jobs[j].status = "refused" \/ jobs[j].attempts = MaxAttempts
=============================================================================
