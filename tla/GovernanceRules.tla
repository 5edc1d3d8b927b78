-------------------------- MODULE GovernanceRules --------------------------
(***************************************************************************)
(* Rules over stored events: RuleEngine of                                 *)
(* services/governance/governance-rules.cjs, driven by the cycle of        *)
(* rule-processing.cjs and followed by the deliveries of WebhookDelivery.  *)
(*                                                                         *)
(* The events are in one SQLite database, everything else is in another:   *)
(* the journal.  Each transaction and each statement outside one is a      *)
(* step; any number of processes run the cycle.  A cycle works on one      *)
(* project, so the model has one.                                          *)
(***************************************************************************)
EXTENDS WebhookDelivery, Sequences, SequencesExt

CONSTANTS
    Events,        \* records of completed runs that clients submit
    Rules,         \* rule ids
    Breaches,      \* pairs of an event and a version of a rule it matches
    MaxRules,      \* active rules a project may have (100)
    RecordLimit,   \* records scanned and alerts published in a cycle (100)
    DeliveryLimit, \* claims in a cycle (10; 0 stands for delivery switched off)
    MaxVersions,   \* bound: versions of a rule
    MaxClock,      \* bound: moments at which calls may read the clock
    MaxWaiting,    \* bound: registrations of a rule that wait at a time
    MaxFaults      \* bound: crashes and failed statements

Check == [event: Events, rule: Rules, version: 1..MaxVersions]

ASSUME BreachesAssumption == Jobs \subseteq Breaches /\ Breaches \subseteq Check
ASSUME EventsAssumption == Events \cap Breaches = {}
ASSUME RulesAssumption ==
    /\ MaxRules \in Nat /\ RecordLimit \in Nat \ {0} /\ DeliveryLimit \in Nat
    /\ MaxVersions \in Nat /\ MaxClock \in Nat /\ MaxWaiting \in Nat /\ MaxFaults \in Nat

VARIABLES
    clock,      \* Date.now(), of all processes on the host
    registering, \* [Rules -> times]: registrations that wait for the journal
    log,        \* the stored records by rowid: [id, at]; an alert's id is its breach
    versions,   \* [Rules -> Seq(Version)]: governance_rules
    checks,     \* governance_checks
    processed,  \* governance_processed_events
    alerts,     \* [Breaches -> state]: detected_incidents with governance_detected_outbox
    cursor,     \* governance_rule_cursors
    pc,         \* [Processors -> step of the cycle]
    next, last, \* [Processors -> rowid]: the rows read that are still to be processed
    todo,       \* [Processors -> SUBSET Breaches]: the alerts read to be published
    budget,     \* [Processors -> claims left in the cycle]
    faults      \* number of faults so far

journal == <<versions, checks, processed, alerts, cursor>>
cycle   == <<pc, next, last, todo, budget>>
vars    == <<clock, registering, log, journal, cycle, faults, delivery>>

\* at is receivedAt, of which only that of events decides anything.
Record == [id: Events \cup Breaches, at: 0..MaxClock]

\* created_at is the activation time; committed, which nothing stores, the
\* moment from which the version was in the table.
Version == [created_at: 0..MaxClock, committed: 0..MaxClock]
StoredIds == {log[i].id : i \in DOMAIN log}

TypeOK ==
    /\ DeliveryTypeOK
    /\ clock \in 0..MaxClock
    /\ registering \in [Rules -> SUBSET (0..MaxClock)]
    /\ log \in Seq(Record)
    /\ versions \in [Rules -> Seq(Version)]
    /\ checks \subseteq Check
    /\ processed \subseteq Events \cup Breaches
    /\ alerts \in [Breaches -> {"none", "pending", "published"}]
    /\ cursor \in 0..Len(log)
    /\ pc \in [Processors -> {"idle", "process", "advance", "outbox", "publish", "mark",
                              "deliver", "call"}]
    /\ next \in [Processors -> Nat] /\ last \in [Processors -> 0..Len(log)]
    /\ todo \in [Processors -> SUBSET Breaches]
    /\ budget \in [Processors -> 0..DeliveryLimit]
    /\ faults \in 0..MaxFaults

Init ==
    /\ DeliveryInit
    /\ clock = 0 /\ log = <<>> /\ cursor = 0 /\ faults = 0
    /\ registering = [r \in Rules |-> {}]
    /\ versions = [r \in Rules |-> <<>>]
    /\ checks = {} /\ processed = {}
    /\ alerts = [d \in Breaches |-> "none"]
    /\ pc = [p \in Processors |-> "idle"]
    /\ next = [p \in Processors |-> 0] /\ last = [p \in Processors |-> 0]
    /\ todo = [p \in Processors |-> {}]
    /\ budget = [p \in Processors |-> 0]

\* Seeded fault: the store does not recognise a repetition.
StoreAgain(id, at) == log' = Append(log, [id |-> id, at |-> at])

Store(id, at) == log' = IF id \in StoredIds THEN log ELSE Append(log, [id |-> id, at |-> at])

\* A client's event is accepted.  The server fixed its time of receipt before it
\* waited for the database, at any moment up to now.
Ingest(e) ==
    /\ e \notin StoredIds
    /\ \E receivedAt \in 0..clock : Store(e, receivedAt)
    /\ UNCHANGED <<clock, registering, journal, cycle, faults, delivery>>

\* register begins: now is read, and BEGIN IMMEDIATE waits for the processes that
\* hold the journal.  Two calls of one moment are one here.
StartRegister(r) ==
    /\ Len(versions[r]) < MaxVersions /\ Cardinality(registering[r]) < MaxWaiting
    /\ registering' = [registering EXCEPT ![r] = @ \cup {clock}]
    /\ UNCHANGED <<clock, log, journal, cycle, faults, delivery>>

Active == {r \in Rules : versions[r] # <<>>}

\* Its transaction: a new version, whose number is larger than all earlier ones
\* and whose activation time, fixed before, is not smaller.
Register(r) ==
    /\ Len(versions[r]) < MaxVersions
    /\ r \in Active \/ Cardinality(Active) < MaxRules
    /\ \E now \in registering[r] :
          /\ \A v \in DOMAIN versions[r] : versions[r][v].created_at <= now
          /\ versions' = [versions EXCEPT ![r] =
                             Append(@, [created_at |-> now, committed |-> clock])]
          /\ registering' = [registering EXCEPT ![r] = @ \ {now}]
    /\ UNCHANGED <<clock, log, checks, processed, alerts, cursor, cycle, faults, delivery>>

\* Or it changes nothing: its number is not the largest, it repeats a version, its
\* time or the number of rules is refused, or the journal stays busy.
Refuse(r) ==
    /\ \E now \in registering[r] : registering' = [registering EXCEPT ![r] = @ \ {now}]
    /\ UNCHANGED <<clock, log, journal, cycle, faults, delivery>>

\* Seeded fault: the active version, whatever the time of receipt.
VersionNow(r, t) == Len(versions[r])

\* The version of r an event received at t is evaluated by, or 0.
VersionAt(r, t) ==
    Max({0} \cup {v \in DOMAIN versions[r] : versions[r][v].created_at <= t})

-----------------------------------------------------------------------------
(* tick: scanStored, publishDetected, then deliverOne up to DeliveryLimit times *)

\* scanStored reads the cursor and at most RecordLimit rows after it.
StartCycle(p) ==
    /\ pc[p] = "idle"
    /\ next' = [next EXCEPT ![p] = cursor + 1]
    /\ last' = [last EXCEPT ![p] = Min({cursor + RecordLimit, Len(log)})]
    /\ pc' = [pc EXCEPT ![p] = IF cursor < Len(log) THEN "process" ELSE "outbox"]
    /\ UNCHANGED <<clock, registering, log, journal, todo, budget, faults, delivery>>

EndCycle(p) ==
    /\ pc' = [pc EXCEPT ![p] = "idle"]
    /\ next' = [next EXCEPT ![p] = 0]
    /\ last' = [last EXCEPT ![p] = 0]
    /\ todo' = [todo EXCEPT ![p] = {}]
    /\ budget' = [budget EXCEPT ![p] = 0]

\* What process finds for a record: alerts are of no rule's kind.
ChecksOf(record) ==
    IF record.id \in Events
    THEN {c \in Check : c.event = record.id /\ c.version = VersionAt(c.rule, record.at)}
    ELSE {}

\* process: one transaction writes the checks, the incidents, their alerts and
\* their webhook jobs, or, when it was done before, nothing.
Process(p) ==
    LET record == log[next[p]]
        found  == ChecksOf(record)
        fresh  == record.id \notin processed
    IN  /\ pc[p] = "process"
        /\ fresh => Fits(found \cap Jobs)
        /\ IF fresh
           THEN /\ checks' = checks \cup found
                /\ alerts' = [d \in Breaches |-> IF d \in found THEN "pending" ELSE alerts[d]]
                /\ processed' = processed \cup {record.id}
                /\ Enqueue(found \cap Jobs)
           ELSE UNCHANGED <<checks, alerts, processed, jobs>>
        /\ pc' = [pc EXCEPT ![p] = "advance"]
        /\ UNCHANGED <<clock, registering, log, versions, cursor, next, last, todo, budget,
                       faults, call, requested, accepted>>

\* The journal takes no more jobs: the transaction is rolled back and the
\* cycle ends, to begin with the same record the next time.
QueueFull(p) ==
    LET record == log[next[p]]
    IN  /\ pc[p] = "process"
        /\ record.id \notin processed /\ ~Fits(ChecksOf(record) \cap Jobs)
        /\ EndCycle(p)
        /\ UNCHANGED <<clock, registering, log, journal, faults, delivery>>

\* Seeded fault: the cursor passes all the rows that were read.
AdvancedAll(p) == Max({cursor, last[p]})

\* The cursor follows in a transaction of its own and never goes back.
Advanced(p) == Max({cursor, next[p]})

Advance(p) ==
    LET done == next[p] = last[p]
    IN  /\ pc[p] = "advance"
        /\ cursor' = Advanced(p)
        /\ pc' = [pc EXCEPT ![p] = IF done THEN "outbox" ELSE "process"]
        /\ next' = [next EXCEPT ![p] = IF done THEN 0 ELSE @ + 1]
        /\ last' = [last EXCEPT ![p] = IF done THEN 0 ELSE @]
        /\ UNCHANGED <<clock, registering, log, versions, checks, processed, alerts, todo,
                       budget, faults, delivery>>

Outbox == {d \in Breaches : alerts[d] = "pending"}

\* publishDetected reads at most RecordLimit alerts, in the order of hashes,
\* which the model leaves open.
ReadOutbox(p) ==
    /\ pc[p] = "outbox"
    /\ \E S \in SUBSET Outbox :
          /\ Cardinality(S) = Min({RecordLimit, Cardinality(Outbox)})
          /\ todo' = [todo EXCEPT ![p] = S]
          /\ pc' = [pc EXCEPT ![p] = IF S = {} THEN "deliver" ELSE "publish"]
    /\ budget' = [budget EXCEPT ![p] = DeliveryLimit]
    /\ UNCHANGED <<clock, registering, log, journal, next, last, faults, delivery>>

\* The alert in hand.
Posting(p) == CHOOSE d \in todo[p] : TRUE

\* The alert is ingested like any event: accepted, or a duplicate.
Publish(p) ==
    /\ pc[p] = "publish"
    /\ Store(Posting(p), clock)
    /\ pc' = [pc EXCEPT ![p] = "mark"]
    /\ UNCHANGED <<clock, registering, journal, next, last, todo, budget, faults, delivery>>

\* Its acknowledgement takes it out of the outbox.
Mark(p) ==
    /\ pc[p] = "mark"
    /\ alerts' = [alerts EXCEPT ![Posting(p)] = "published"]
    /\ todo' = [todo EXCEPT ![p] = @ \ {Posting(p)}]
    /\ pc' = [pc EXCEPT ![p] = IF todo[p] = {Posting(p)} THEN "deliver" ELSE "publish"]
    /\ UNCHANGED <<clock, registering, log, versions, checks, processed, cursor, next, last,
                   budget, faults, delivery>>

StartCall(p) ==
    /\ pc[p] = "deliver" /\ budget[p] > 0
    /\ \E j \in Jobs : Claim(p, j)
    /\ pc' = [pc EXCEPT ![p] = "call"]
    /\ budget' = [budget EXCEPT ![p] = @ - 1]
    /\ UNCHANGED <<clock, registering, log, journal, next, last, todo, faults>>

Send(p) ==
    /\ Request(p)
    /\ UNCHANGED <<clock, registering, log, journal, cycle, faults>>

EndCall(p) ==
    /\ \E outcome \in Outcomes : FinishCall(p, outcome)
    /\ pc' = [pc EXCEPT ![p] = "deliver"]
    /\ UNCHANGED <<clock, registering, log, journal, next, last, todo, budget, faults>>

\* The limit is reached, or no job is due.
LimitReached(p) ==
    /\ pc[p] = "deliver" /\ budget[p] = 0
    /\ EndCycle(p)
    /\ UNCHANGED <<clock, registering, log, journal, faults, delivery>>

NothingDue(p) ==
    /\ pc[p] = "deliver" /\ budget[p] > 0
    /\ FindNothing
    /\ EndCycle(p)
    /\ UNCHANGED <<clock, registering, log, journal, faults>>

-----------------------------------------------------------------------------
\* A statement fails, or the process dies: what the cycle held in memory is gone.
Abort(p) ==
    /\ pc[p] # "idle" /\ faults < MaxFaults
    /\ faults' = faults + 1
    /\ call' = [call EXCEPT ![p] = NoCall]
    /\ EndCycle(p)
    /\ UNCHANGED <<clock, registering, log, journal, jobs, requested, accepted>>

Receive(j) ==
    /\ Receipt(j)
    /\ UNCHANGED <<clock, registering, log, journal, cycle, faults>>

\* Time passes.  The clock saturates: what arrives later arrives at MaxClock.
Elapse ==
    /\ AgeDelivery
    /\ clock' = Min({clock + 1, MaxClock})
    /\ <<clock', jobs', call'>> # <<clock, jobs, call>>
    /\ UNCHANGED <<registering, log, journal, cycle, faults>>

Step(p) ==
    \/ StartCycle(p) \/ Process(p) \/ QueueFull(p) \/ Advance(p)
    \/ ReadOutbox(p) \/ Publish(p) \/ Mark(p)
    \/ StartCall(p) \/ Send(p) \/ EndCall(p) \/ LimitReached(p) \/ NothingDue(p)

Next ==
    \/ \E e \in Events : Ingest(e)
    \/ \E r \in Rules : StartRegister(r) \/ Register(r) \/ Refuse(r)
    \/ \E p \in Processors : Step(p) \/ Abort(p)
    \/ \E j \in Jobs : Receive(j)
    \/ Elapse

Spec == Init /\ [][Next]_vars

\* The interval timer starts cycles and every await in one has a timeout; time
\* passes.  Clients, receivers and faults owe nothing.
Fairness == (\A p \in Processors : WF_vars(Step(p))) /\ WF_vars(Elapse)

FairSpec == Spec /\ Fairness

-----------------------------------------------------------------------------
\* An event is evaluated once by a rule, never by a version activated after the
\* server received it, and by no version older than one that was in the table by
\* then, however late the scan comes and whatever was registered or processed in
\* between (process of governance-rules.cjs; rules apply prospectively).  A version
\* whose registration was still waiting may be missed.
RightVersion ==
    \A i \in DOMAIN log, r \in Rules :
        LET found == {c \in checks : c.event = log[i].id /\ c.rule = r}
            before == {v \in DOMAIN versions[r] : versions[r][v].committed < log[i].at}
        IN  /\ Cardinality(found) <= 1
            /\ \A c \in found :
                  /\ c.version \in DOMAIN versions[r]
                  /\ versions[r][c.version].created_at <= log[i].at
                  /\ \A v \in before : v <= c.version
            /\ log[i].id \in processed \cap Events /\ before # {} => found # {}

\* The scan never skips a record: whatever the cursor has passed was
\* processed, in spite of crashes between the two transactions and of other
\* processes that move the cursor (scanStored).
CursorBehind == \A i \in 1..cursor : log[i].id \in processed

\* What recovery-rule-links.cjs and recovery-delivery-review.cjs require of a
\* journal restored from any moment: a match, its incident and alert, and its
\* webhook job exist together or not at all, and a job's state, attempts and
\* last status agree.
JournalLinked ==
    /\ \A c \in checks : c.event \in processed
    /\ \A d \in Breaches : d \in checks <=> alerts[d] # "none"
    /\ \A j \in Jobs :
          /\ j \in checks <=> jobs[j].state # "none"
          /\ jobs[j].state = "pending" => jobs[j].attempts < MaxAttempts
          /\ jobs[j].attempts = 0 => jobs[j].state \in {"none", "pending"} /\ jobs[j].status = "none"
          /\ jobs[j].state = "delivered" => jobs[j].status = "ok"

\* A published alert is in the store, once, although its publication may be
\* repeated after a crash and by another process (publishDetected).
PublishedOnce ==
    /\ \A d \in Breaches : alerts[d] = "published" => d \in StoredIds
    /\ IsInjective([i \in DOMAIN log |-> log[i].id])

\* Every stored record is evaluated and every alert published, in the end.
EventuallyEvaluated ==
    /\ \A e \in Events : e \in StoredIds ~> e \in processed
    /\ \A d \in Breaches : alerts[d] = "pending" ~> alerts[d] = "published"

\* Every webhook job is delivered or dead in the end: attempts are repeated
\* with a growing delay and then given up (deliverOne and tick).
EventuallySettled == \A j \in Jobs : jobs[j].state = "pending" ~> Settled(j)
=============================================================================
