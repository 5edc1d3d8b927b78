-------------------------- MODULE RevocationReplay --------------------------
(***************************************************************************)
(* The replay of revocation events that a webhook may have lost: one       *)
(* checkpoint for each client, a lease on it, and steps of several         *)
(* processes that read a window of the provider's event list, apply it     *)
(* event by event and move the checkpoint                                  *)
(* (services/governance/workos-revocation-step.cjs,                        *)
(* workos-revocation-replay.cjs, provider-replay-state.cjs).  What         *)
(* applying an event does to the sessions is in ProviderSessions.          *)
(***************************************************************************)
EXTENDS Integers, FiniteSets, FiniteSetsExt

CONSTANTS
    Revocations,   \* events of the provider
    Steps,         \* processes that may run a step
    NoStep,        \* nobody holds the lease
    Baseline,      \* where the operator lets the coverage begin
    Overlap,       \* how far a window reaches back (60 seconds)
    Lag,           \* what a window leaves out of the present (5 seconds)
    Window,        \* the longest window (a day)
    ReplayLease,   \* 60 seconds
    Late,          \* the longest an event takes to appear in the list
    Horizon        \* bound: the last instant

\* The provider lists an event before the last window that can hold it is read.
ASSUME ReplayAssumption ==
    /\ Baseline \in Nat /\ Overlap \in Nat /\ Lag \in Nat /\ Window \in Nat
    /\ ReplayLease \in Nat /\ Late \in Nat /\ Horizon \in Nat
    /\ Late <= Lag + Overlap
    /\ NoStep \notin Steps

VARIABLES
    time,
    happened,   \* [Revocations -> instant, or Never]
    listed,     \* events the provider's list shows
    recorded,   \* events applied
    covered,    \* covered_until
    lease,      \* lease_owner, lease_until
    step        \* [Steps -> Step]: a revocationStep under way

replay == <<time, happened, listed, recorded, covered, lease, step>>

Never == -1
Instants == 0..Horizon
NoLease == [owner |-> NoStep, until |-> 0]
Step == [at: {"idle", "read", "apply"}, covered: Int, from: Int, to: Int,
         events: SUBSET Revocations]
ReplayResting == [at |-> "idle", covered |-> 0, from |-> 0, to |-> 0, events |-> {}]

ReplayTypeOK ==
    /\ time \in Instants
    /\ happened \in [Revocations -> Instants \cup {Never}]
    /\ listed \subseteq Revocations /\ recorded \subseteq Revocations
    /\ covered \in Int
    /\ lease \in [owner: Steps \cup {NoStep}, until: Int]
    /\ step \in [Steps -> Step]

ReplayInit ==
    /\ time \in Baseline..Horizon
    /\ happened = [e \in Revocations |-> Never]
    /\ listed = {} /\ recorded = {}
    /\ covered = Baseline
    /\ lease = NoLease
    /\ step = [p \in Steps |-> ReplayResting]

Rest(p) == step' = [step EXCEPT ![p] = ReplayResting]
Owns(p) == lease.owner = p
Released(p) == IF Owns(p) THEN NoLease ELSE lease

\* Seeded fault: the next window begins where the last one ended.
FromNoOverlap == covered

From == Max({Baseline, covered - Overlap})
To == Min({time - Lag, From + Window})

\* The lease is taken; a window that holds nothing new is given back at once.
ClaimReplay(p) ==
    /\ step[p].at = "idle"
    /\ Owns(NoStep) \/ lease.until <= time
    /\ IF To <= covered
       THEN lease' = NoLease /\ UNCHANGED step
       ELSE /\ lease' = [owner |-> p, until |-> time + ReplayLease]
            /\ step' = [step EXCEPT ![p] = [at |-> "read", covered |-> covered,
                                            from |-> From, to |-> To, events |-> {}]]
    /\ UNCHANGED <<time, happened, listed, recorded, covered>>

\* Every page is read and validated before the first event is applied.
ReadWindow(p) ==
    /\ step[p].at = "read"
    /\ step' = [step EXCEPT ![p].at = "apply",
          ![p].events = {e \in listed : happened[e] \in step[p].from..step[p].to}]
    /\ UNCHANGED <<time, happened, listed, recorded, covered, lease>>

\* An event that was recorded before is a duplicate.
ApplyEvent(p, e) ==
    /\ step[p].at = "apply" /\ e \in step[p].events
    /\ recorded' = recorded \cup {e}
    /\ step' = [step EXCEPT ![p].events = @ \ {e}]
    /\ UNCHANGED <<time, happened, listed, covered, lease>>

Fencing(p) == Owns(p) /\ lease.until > time /\ covered = step[p].covered

CompleteReplay(p) ==
    /\ step[p].at = "apply" /\ step[p].events = {}
    /\ IF Fencing(p)
       THEN covered' = step[p].to /\ lease' = NoLease
       ELSE covered' = covered /\ lease' = Released(p)
    /\ Rest(p)
    /\ UNCHANGED <<time, happened, listed, recorded>>

\* A page or an event fails: the window stays uncovered.
FailReplay(p) ==
    /\ step[p].at # "idle"
    /\ lease' = Released(p)
    /\ Rest(p)
    /\ UNCHANGED <<time, happened, listed, recorded, covered>>

\* A dead process leaves its lease behind.
CrashReplay(p) ==
    /\ step[p].at # "idle"
    /\ Rest(p)
    /\ UNCHANGED <<time, happened, listed, recorded, covered, lease>>

Happen(e) ==
    /\ happened[e] = Never
    /\ happened' = [happened EXCEPT ![e] = time]
    /\ UNCHANGED <<time, listed, recorded, covered, lease, step>>

Show(e) ==
    /\ happened[e] # Never /\ e \notin listed
    /\ listed' = listed \cup {e}
    /\ UNCHANGED <<time, happened, recorded, covered, lease, step>>

\* No event is unlisted for longer than Late.
Advance ==
    /\ time < Horizon
    /\ \A e \in Revocations \ listed : happened[e] # Never => time < happened[e] + Late
    /\ time' = time + 1
    /\ UNCHANGED <<happened, listed, recorded, covered, lease, step>>

ReplayNext ==
    \/ \E p \in Steps :
          \/ ClaimReplay(p) \/ ReadWindow(p) \/ CompleteReplay(p)
          \/ FailReplay(p) \/ CrashReplay(p)
          \/ \E e \in Revocations : ApplyEvent(p, e)
    \/ \E e \in Revocations : Happen(e) \/ Show(e)
    \/ Advance

ReplaySpec == ReplayInit /\ [][ReplayNext]_replay

-----------------------------------------------------------------------------
\* Every revocation before the reach of the next window is recorded: neither
\* a late listing, nor a failure between two events, nor a step that lost its
\* lease to another makes the checkpoint pass one (revocationStep, complete).
NothingSkipped ==
    \A e \in Revocations :
        happened[e] # Never /\ happened[e] >= Baseline /\ happened[e] < covered - Overlap
            => e \in recorded

\* The checkpoint never moves back, so no step repeats another's coverage
\* without end.
CoverageGrows == [][covered' >= covered]_replay
=============================================================================
