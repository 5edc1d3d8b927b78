----------------------- MODULE GovernanceRulesProofs -----------------------
(* Proofs about GovernanceRules and WebhookDelivery, for every value of their constants. *)
EXTENDS GovernanceRules, TotalsProofs

(* Helpers. *)

LEMMA MinPair ==
  ASSUME NEW a \in Int, NEW b \in Int
  PROVE  Min({a, b}) = IF a <= b THEN a ELSE b
  <1> DEFINE m == IF a <= b THEN a ELSE b
  <1>1. m \in {a, b} /\ \A y \in {a, b} : m =< y
    OBVIOUS
  <1>2. \A x \in {a, b} : (\A y \in {a, b} : x =< y) => x = m
    OBVIOUS
  <1> QED
    BY <1>1, <1>2 DEF Min

LEMMA MaxPair ==
  ASSUME NEW a \in Int, NEW b \in Int
  PROVE  Max({a, b}) = IF a >= b THEN a ELSE b
  <1> DEFINE m == IF a >= b THEN a ELSE b
  <1>1. m \in {a, b} /\ \A y \in {a, b} : m >= y
    OBVIOUS
  <1>2. \A x \in {a, b} : (\A y \in {a, b} : x >= y) => x = m
    OBVIOUS
  <1> QED
    BY <1>1, <1>2 DEF Max

LEMMA BackoffRange == \A n : Backoff(n) \in 0..MaxDelay
  BY DeliveryAssumption DEF Backoff

LEMMA LessRange == ASSUME NEW m \in Nat, NEW n \in 0..m PROVE Less(n) \in 0..m
  BY DEF Less

LEMMA NoTypes == NoJob \in Job /\ \A p \in Processors : NoCall.job \notin Jobs
  BY NoneAssumption, DeliveryAssumption DEF NoJob, Job, NoCall

(* Types.  A scanning processor is inside the rows it has read and a         *)
(* publishing one has an alert in hand: without that, the record and the     *)
(* alert an action works on have no type.                                    *)
CycleOK ==
  \A p \in Processors :
     /\ pc[p] \in {"process", "advance"} => next[p] \in 1..last[p]
     /\ pc[p] \in {"publish", "mark"} => todo[p] # {}

\* A pending job has an attempt left, which a claim is going to count.
RoomOK == \A j \in Jobs : jobs[j].state = "pending" => jobs[j].attempts < MaxAttempts

TypeInv == TypeOK /\ CycleOK /\ RoomOK

LEMMA InitType == Init => TypeInv
  <1> SUFFICES ASSUME Init PROVE TypeInv
    OBVIOUS
  <1>1. DeliveryTypeOK /\ RoomOK
    BY NoTypes DEF Init, DeliveryInit, DeliveryTypeOK, RoomOK, NoJob
  <1>2. log \in Seq(Record) /\ Len(log) = 0 /\ versions \in [Rules -> Seq(Version)]
    BY DEF Init
  <1> QED
    BY <1>1, <1>2, RulesAssumption DEF Init, TypeInv, TypeOK, CycleOK

\* The state of the cycle may change, the rest of TypeOK stays.
CycleTypes ==
  /\ pc \in [Processors -> {"idle", "process", "advance", "outbox", "publish", "mark",
                            "deliver", "call"}]
  /\ next \in [Processors -> Nat] /\ last \in [Processors -> 0..Len(log)]
  /\ todo \in [Processors -> SUBSET Breaches]
  /\ budget \in [Processors -> 0..DeliveryLimit]

WaitType == registering \in [Rules -> SUBSET (0..MaxClock)]

JournalTypes ==
  /\ versions \in [Rules -> Seq(Version)]
  /\ checks \subseteq Check
  /\ processed \subseteq Events \cup Breaches
  /\ alerts \in [Breaches -> {"none", "pending", "published"}]
  /\ cursor \in 0..Len(log)

LEMMA TypeParts ==
  TypeInv <=> /\ DeliveryTypeOK /\ RoomOK /\ clock \in 0..MaxClock /\ log \in Seq(Record)
              /\ WaitType /\ JournalTypes /\ CycleTypes /\ faults \in 0..MaxFaults /\ CycleOK
  BY DEF TypeInv, TypeOK, WaitType, JournalTypes, CycleTypes

\* A record is appended, or the log stays.
LEMMA StoreType ==
  ASSUME TypeInv, NEW id \in Events \cup Breaches, NEW at \in 0..MaxClock, Store(id, at)
  PROVE  /\ log' \in Seq(Record) /\ Len(log') \in Nat /\ Len(log) <= Len(log')
         /\ \A i \in 1..Len(log) : log'[i] = log[i]
         /\ \A i \in 1..Len(log') : i \in 1..Len(log) \/ log'[i].id = id
         /\ StoredIds' = StoredIds \cup {id}
  <1> DEFINE r == [id |-> id, at |-> at]
  <1>1. r \in Record /\ log \in Seq(Record)
    BY DEF TypeInv, TypeOK, Record
  <1>2. CASE id \in StoredIds
    BY <1>1, <1>2 DEF Store, StoredIds
  <1>3. CASE id \notin StoredIds
    <2>1. log' = Append(log, r)
      BY <1>3 DEF Store
    <2> HIDE DEF r
    <2>2. /\ log' \in Seq(Record) /\ Len(log') = Len(log) + 1 /\ Len(log) \in Nat
          /\ \A i \in 1..Len(log) : log'[i] = log[i]
          /\ log'[Len(log) + 1] = r
      BY <1>1, <2>1
    <2>3. r.id = id
      BY DEF r
    <2>4. DOMAIN log = 1..Len(log) /\ DOMAIN log' = 1..Len(log')
      BY <1>1, <2>2
    <2>5. StoredIds' = StoredIds \cup {id}
      BY <2>2, <2>3, <2>4 DEF StoredIds
    <2> QED
      BY <2>2, <2>3, <2>5
  <1> QED
    BY <1>2, <1>3

\* An event is stored with a time of receipt that is past.
LEMMA Accepted ==
  ASSUME TypeInv, NEW e \in Events, Ingest(e)
  PROVE  \E receivedAt \in 0..MaxClock : receivedAt <= clock /\ Store(e, receivedAt)
  <1>1. clock \in 0..MaxClock /\ MaxClock \in Nat
    BY RulesAssumption DEF TypeInv, TypeOK
  <1>2. PICK receivedAt \in 0..clock : Store(e, receivedAt)
    BY DEF Ingest
  <1>3. receivedAt \in 0..MaxClock /\ receivedAt <= clock
    BY <1>1, <1>2
  <1> QED
    BY <1>2, <1>3

(* What the operations on the delivery journal do to the types. *)

LEMMA EnqueueType ==
  ASSUME TypeInv, NEW S, Enqueue(S)
  PROVE  jobs' \in [Jobs -> Job] /\ RoomOK'
  <1> DEFINE new == [NoJob EXCEPT !.state = "pending"]
  <1>1. new \in Job /\ new.state = "pending" /\ new.attempts = 0
    BY DeliveryAssumption DEF Job, NoJob
  <1> HIDE DEF new
  <1>2. jobs' = [j \in Jobs |-> IF j \in S THEN new ELSE jobs[j]]
    BY DEF Enqueue, new
  <1>3. jobs \in [Jobs -> Job]
    BY DEF TypeInv, TypeOK, DeliveryTypeOK
  <1>4. jobs' \in [Jobs -> Job]
    BY <1>1, <1>2, <1>3
  <1>5. RoomOK'
    BY <1>1, <1>2, DeliveryAssumption DEF RoomOK, TypeInv
  <1> QED
    BY <1>4, <1>5

\* The first statement of claim changes nothing but the state of exhausted jobs.
LEMMA SweptJob ==
  ASSUME TypeInv, NEW j \in Jobs
  PROVE  /\ Swept[j] \in Job
         /\ Swept[j].attempts = jobs[j].attempts /\ Swept[j].lease = jobs[j].lease
         /\ Swept[j].status = jobs[j].status /\ Swept[j].wait = jobs[j].wait
         /\ Swept[j].state = IF Exhausted(j) THEN "dead" ELSE jobs[j].state
  <1>1. jobs[j] \in Job
    BY DEF TypeInv, TypeOK, DeliveryTypeOK
  <1>2. Swept[j] = IF Exhausted(j) THEN [jobs[j] EXCEPT !.state = "dead"] ELSE jobs[j]
    BY DEF Swept
  <1>3. CASE Exhausted(j)
    BY <1>1, <1>2, <1>3 DEF Job
  <1>4. CASE ~Exhausted(j)
    BY <1>1, <1>2, <1>4
  <1> QED
    BY <1>3, <1>4

\* The row that claim writes.
LEMMA ClaimedRow ==
  ASSUME NEW job \in Job, job.attempts < MaxAttempts
  PROVE  LET new == [job EXCEPT !.state = "sending", !.lease = Lease, !.attempts = @ + 1]
         IN  /\ new \in Job /\ new.state = "sending" /\ new.lease = Lease
             /\ new.attempts = job.attempts + 1 /\ new.status = job.status
  <1>1. job.attempts + 1 \in 0..MaxAttempts /\ Lease \in 0..Lease
    BY DeliveryAssumption DEF Job
  <1> DEFINE n == job.attempts + 1
  <1>2. n \in 0..MaxAttempts
    BY <1>1
  <1> HIDE DEF n
  <1>3. [job EXCEPT !.state = "sending", !.lease = Lease, !.attempts = n] \in Job
    BY <1>1, <1>2 DEF Job
  <1> QED
    BY <1>3 DEF n, Job

\* A claim takes a job that nobody holds and counts one of its attempts.
LEMMA Claimed ==
  ASSUME TypeInv, NEW p \in Processors, NEW j \in Jobs, Claim(p, j)
  PROVE  /\ jobs' \in [Jobs -> Job] /\ RoomOK'
         /\ jobs'[j].state = "sending" /\ jobs'[j].lease = Lease
         /\ jobs'[j].attempts = jobs[j].attempts + 1 /\ jobs'[j].status = jobs[j].status
         /\ jobs[j].attempts < MaxAttempts /\ jobs[j].attempts \in Nat
         /\ \A k \in Jobs \ {j} : jobs'[k] = Swept[k]
         /\ call' = [call EXCEPT ![p] = [job |-> j, attempt |-> jobs[j].attempts + 1,
                                         sent |-> FALSE, left |-> Lease]]
         /\ call'[p] \in Call
  <1> DEFINE new == [Swept[j] EXCEPT !.state = "sending", !.lease = Lease, !.attempts = @ + 1]
  <1>1. jobs[j] \in Job /\ jobs[j].attempts \in 0..MaxAttempts
    BY DEF TypeInv, TypeOK, DeliveryTypeOK, Job
  <1>2. jobs[j].attempts < MaxAttempts
    BY <1>1, DeliveryAssumption DEF Claim, Due, Exhausted, Expired, TypeInv, RoomOK
  <1>3. /\ new \in Job /\ new.state = "sending" /\ new.lease = Lease
        /\ new.attempts = jobs[j].attempts + 1 /\ new.status = jobs[j].status
    <2>1. /\ Swept[j] \in Job /\ Swept[j].attempts = jobs[j].attempts
          /\ Swept[j].status = jobs[j].status
      BY SweptJob
    <2> QED
      BY <1>2, <2>1, ClaimedRow
  <1>4. jobs' = [Swept EXCEPT ![j] = new]
    BY DEF Claim
  <1> HIDE DEF new
  <1>5. \A k \in Jobs : Swept[k] \in Job
    BY SweptJob
  <1>6. Swept \in [Jobs -> Job]
    BY <1>5 DEF Swept
  <1>7. jobs' \in [Jobs -> Job] /\ jobs'[j] = new /\ \A k \in Jobs \ {j} : jobs'[k] = Swept[k]
    BY <1>3, <1>4, <1>6
  <1>8. RoomOK'
    <2>1. \A k \in Jobs \ {j} : Swept[k].state = "pending" => Swept[k].attempts < MaxAttempts
      BY SweptJob DEF TypeInv, RoomOK
    <2> QED
      BY <1>3, <1>7, <2>1 DEF RoomOK
  <1>9. call' = [call EXCEPT ![p] = [job |-> j, attempt |-> jobs[j].attempts + 1,
                                     sent |-> FALSE, left |-> Lease]]
    BY DEF Claim
  <1>10. call'[p] \in Call
    BY <1>1, <1>2, <1>9, DeliveryAssumption DEF Call, TypeInv, TypeOK, DeliveryTypeOK
  <1> QED
    BY <1>1, <1>2, <1>3, <1>7, <1>8, <1>9, <1>10

LEMMA FindNothingType ==
  ASSUME TypeInv, FindNothing
  PROVE  jobs' \in [Jobs -> Job] /\ RoomOK'
  <1>1. jobs' = Swept
    BY DEF FindNothing
  <1>2. \A k \in Jobs : Swept[k] \in Job
    BY SweptJob
  <1>3. Swept \in [Jobs -> Job]
    BY <1>2 DEF Swept
  <1>4. \A k \in Jobs : Swept[k].state = "pending" => Swept[k].attempts < MaxAttempts
    BY SweptJob DEF TypeInv, RoomOK
  <1> QED
    BY <1>1, <1>3, <1>4 DEF RoomOK

LEMMA CallTypes ==
  ASSUME TypeInv, NEW p \in Processors, InCall(p)
  PROVE  call[p] \in Call /\ call[p].job \in Jobs /\ call[p].attempt \in 1..MaxAttempts
  BY DEF TypeInv, TypeOK, DeliveryTypeOK, InCall, Call

\* finish changes the job of the call, and only if the call still has it.
LEMMA Finished ==
  ASSUME TypeInv, NEW p \in Processors, NEW outcome \in Outcomes, FinishCall(p, outcome)
  PROVE  /\ jobs' \in [Jobs -> Job] /\ RoomOK'
         /\ ~Fenced(p) => jobs' = jobs
         /\ \A k \in Jobs \ {call[p].job} : jobs'[k] = jobs[k]
         /\ Fenced(p) =>
              /\ jobs'[call[p].job].state = Resolution(outcome, call[p].attempt)
              /\ jobs'[call[p].job].attempts = jobs[call[p].job].attempts
              /\ jobs'[call[p].job].status = outcome
         /\ call' = [call EXCEPT ![p] = NoCall]
  <1> DEFINE k == call[p].job
             n == call[p].attempt
             r == Resolution(outcome, n)
             old == jobs[k]
             delay == Backoff(n)
             new == [old EXCEPT !.state = r, !.wait = delay, !.lease = 0,
                                !.status = outcome]
  <1>1. k \in Jobs /\ n \in 1..MaxAttempts
    BY CallTypes DEF FinishCall
  <1>2. jobs \in [Jobs -> Job] /\ jobs[k] \in Job
    BY <1>1 DEF TypeInv, TypeOK, DeliveryTypeOK
  <1>3. r \in {"pending", "delivered", "dead"} /\ (r = "pending" => n < MaxAttempts)
    BY <1>1, DeliveryAssumption DEF Resolution
  <1>4. Backoff(n) \in 0..MaxDelay
    BY BackoffRange
  <1>5. /\ new \in Job /\ new.state = r /\ new.attempts = jobs[k].attempts
        /\ new.status = outcome
    <2>1. /\ old \in Job /\ r \in {"pending", "delivered", "dead"}
          /\ delay \in 0..MaxDelay /\ outcome \in Outcomes
      BY <1>2, <1>3, <1>4
    <2>3. 0 \in 0..Lease
      BY DeliveryAssumption
    <2> HIDE DEF r, delay, old
    <2>2. /\ new \in Job /\ new.state = r /\ new.attempts = old.attempts
          /\ new.status = outcome
      BY <2>1, <2>3 DEF Job
    <2> QED
      BY <2>2 DEF old
  <1>6. call' = [call EXCEPT ![p] = NoCall]
    BY DEF FinishCall
  <1>7. jobs' = IF Fenced(p) THEN [jobs EXCEPT ![k] = new] ELSE jobs
    BY DEF FinishCall
  <1>8. Fenced(p) => jobs[k].attempts = n
    BY DEF Fenced
  <1>9. Resolution(outcome, call[p].attempt) = r /\ call[p].job = k
    OBVIOUS
  <1> HIDE DEF new, k, n, r
  <1>10. /\ jobs' \in [Jobs -> Job]
         /\ Fenced(p) => jobs'[k] = new
         /\ \A j \in Jobs \ {k} : jobs'[j] = jobs[j]
    BY <1>1, <1>2, <1>5, <1>7
  <1>11. RoomOK'
    <2> SUFFICES ASSUME NEW j \in Jobs, jobs'[j].state = "pending"
                 PROVE  jobs'[j].attempts < MaxAttempts
      BY DEF RoomOK
    <2>1. CASE j = k /\ Fenced(p)
      BY <2>1, <1>3, <1>5, <1>8, <1>10
    <2>2. CASE ~(j = k /\ Fenced(p))
      <3>1. jobs'[j] = jobs[j]
        BY <2>2, <1>7, <1>10
      <3> QED
        BY <3>1 DEF TypeInv, RoomOK
    <2> QED
      BY <2>1, <2>2
  <1> QED
    BY <1>5, <1>6, <1>7, <1>9, <1>10, <1>11

LEMMA AgeType ==
  ASSUME TypeInv, AgeDelivery
  PROVE  /\ jobs' \in [Jobs -> Job] /\ RoomOK' /\ call' \in [Processors -> Call \cup {NoCall}]
         /\ \A j \in Jobs : /\ jobs'[j].state = jobs[j].state
                            /\ jobs'[j].attempts = jobs[j].attempts
                            /\ jobs'[j].status = jobs[j].status
                            /\ jobs'[j].lease = Less(jobs[j].lease)
         /\ \A p \in Processors : call[p] = NoCall => call'[p] = NoCall
         /\ \A p \in Processors : InCall(p) =>
                            /\ call'[p].job = call[p].job /\ call'[p].attempt = call[p].attempt
                            /\ call'[p].left = Less(call[p].left)
  <1>1. \A j \in Jobs : /\ jobs'[j] \in Job
                        /\ jobs'[j].state = jobs[j].state
                        /\ jobs'[j].attempts = jobs[j].attempts
                        /\ jobs'[j].status = jobs[j].status
                        /\ jobs'[j].lease = Less(jobs[j].lease)
    <2> SUFFICES ASSUME NEW j \in Jobs
                 PROVE  /\ jobs'[j] \in Job
                        /\ jobs'[j].state = jobs[j].state
                        /\ jobs'[j].attempts = jobs[j].attempts
                        /\ jobs'[j].status = jobs[j].status
                        /\ jobs'[j].lease = Less(jobs[j].lease)
      OBVIOUS
    <2>1. jobs[j] \in Job
      BY DEF TypeInv, TypeOK, DeliveryTypeOK
    <2>2. Less(jobs[j].wait) \in 0..MaxDelay /\ Less(jobs[j].lease) \in 0..Lease
      BY <2>1, LessRange, DeliveryAssumption DEF Job
    <2>3. jobs'[j] = [jobs[j] EXCEPT !.wait = Less(@), !.lease = Less(@)]
      BY DEF AgeDelivery
    <2> QED
      BY <2>1, <2>2, <2>3 DEF Job
  <1>2. \A p \in Processors : /\ call[p] = NoCall => call'[p] = NoCall
                              /\ InCall(p) => /\ call'[p] \in Call
                                              /\ call'[p].job = call[p].job
                                              /\ call'[p].attempt = call[p].attempt
                                              /\ call'[p].left = Less(call[p].left)
    <2> SUFFICES ASSUME NEW p \in Processors
                 PROVE  /\ call[p] = NoCall => call'[p] = NoCall
                        /\ InCall(p) => /\ call'[p] \in Call
                                        /\ call'[p].job = call[p].job
                                        /\ call'[p].attempt = call[p].attempt
                                        /\ call'[p].left = Less(call[p].left)
      OBVIOUS
    <2>1. call'[p] = IF InCall(p) THEN [call[p] EXCEPT !.left = Less(@)] ELSE NoCall
      BY DEF AgeDelivery
    <2>2. CASE call[p] = NoCall
      BY <2>1, <2>2 DEF InCall
    <2>3. CASE InCall(p)
      <3>1. call[p] \in Call
        BY <2>3, CallTypes
      <3>2. Less(call[p].left) \in 0..Lease
        BY <3>1, LessRange, DeliveryAssumption DEF Call
      <3> QED
        BY <2>1, <2>3, <3>1, <3>2 DEF Call, InCall
    <2> QED
      BY <2>2, <2>3 DEF InCall
  <1>3. jobs' = [j \in Jobs |-> jobs'[j]] /\ call' = [p \in Processors |-> call'[p]]
    BY DEF AgeDelivery
  <1>4. jobs' \in [Jobs -> Job]
    BY <1>1, <1>3
  <1>5. call' \in [Processors -> Call \cup {NoCall}]
    BY <1>2, <1>3 DEF InCall
  <1>6. RoomOK'
    BY <1>1 DEF RoomOK, TypeInv
  <1> QED
    BY <1>1, <1>2, <1>4, <1>5, <1>6

(* Type correctness: one part of TypeInv at a time, where a step disturbs it. *)

LEMMA DeliveryKept ==
  ASSUME TypeInv, UNCHANGED delivery
  PROVE  DeliveryTypeOK' /\ RoomOK'
  BY DEF TypeInv, TypeOK, DeliveryTypeOK, RoomOK, delivery, InCall

LEMMA JournalKept ==
  ASSUME TypeInv, UNCHANGED journal, Len(log') \in Nat, Len(log) <= Len(log')
  PROVE  JournalTypes'
  <1>1. cursor' \in 0..Len(log')
    BY DEF TypeInv, TypeOK, journal
  <1> QED
    BY <1>1 DEF TypeInv, TypeOK, JournalTypes, journal

LEMMA CycleKept ==
  ASSUME TypeInv, UNCHANGED cycle, Len(log') \in Nat, Len(log) <= Len(log')
  PROVE  CycleTypes' /\ CycleOK'
  <1>1. last' \in [Processors -> 0..Len(log')]
    BY DEF TypeInv, TypeOK, cycle
  <1>2. CycleTypes'
    BY <1>1 DEF TypeInv, TypeOK, CycleTypes, cycle
  <1>3. CycleOK'
    BY DEF TypeInv, CycleOK, cycle
  <1> QED
    BY <1>2, <1>3

LEMMA LogKept ==
  ASSUME TypeInv, UNCHANGED log
  PROVE  log' \in Seq(Record) /\ Len(log') \in Nat /\ Len(log) <= Len(log')
  BY DEF TypeInv, TypeOK

\* A processor's step in the cycle: the parts of the cycle it may give a new value.
LEMMA CycleMoved ==
  ASSUME TypeInv, NEW p \in Processors, UNCHANGED log,
         NEW s \in {"idle", "process", "advance", "outbox", "publish", "mark", "deliver",
                    "call"},
         NEW n \in Nat, NEW l \in 0..Len(log), NEW S \in SUBSET Breaches,
         NEW b \in 0..DeliveryLimit,
         s \in {"process", "advance"} => n \in 1..l, s \in {"publish", "mark"} => S # {},
         pc' = [pc EXCEPT ![p] = s], next' = [next EXCEPT ![p] = n],
         last' = [last EXCEPT ![p] = l], todo' = [todo EXCEPT ![p] = S],
         budget' = [budget EXCEPT ![p] = b]
  PROVE  CycleTypes' /\ CycleOK'
  <1>1. CycleTypes'
    BY DEF TypeInv, TypeOK, CycleTypes
  <1>2. CycleOK'
    <2> SUFFICES ASSUME NEW q \in Processors
                 PROVE  /\ pc'[q] \in {"process", "advance"} => next'[q] \in 1..last'[q]
                        /\ pc'[q] \in {"publish", "mark"} => todo'[q] # {}
      BY DEF CycleOK
    <2>1. CASE q = p
      BY <2>1 DEF TypeInv, TypeOK
    <2>2. CASE q # p
      BY <2>2 DEF TypeInv, TypeOK, CycleOK
    <2> QED
      BY <2>1, <2>2
  <1> QED
    BY <1>1, <1>2

LEMMA EndCycleType ==
  ASSUME TypeInv, NEW p \in Processors, EndCycle(p), UNCHANGED log
  PROVE  CycleTypes' /\ CycleOK'
  <1>1. 0 \in 0..DeliveryLimit /\ 0 \in 0..Len(log)
    BY RulesAssumption DEF TypeInv, TypeOK
  <1> QED
    BY <1>1, CycleMoved DEF EndCycle

LEMMA TypeJoin ==
  ASSUME DeliveryTypeOK', RoomOK', clock' \in 0..MaxClock, WaitType', log' \in Seq(Record),
         JournalTypes', CycleTypes', CycleOK', faults' \in 0..MaxFaults
  PROVE  TypeInv'
  BY DEF TypeInv, TypeOK, WaitType, JournalTypes, CycleTypes

LEMMA IngestType == ASSUME TypeInv, NEW e \in Events, Ingest(e) PROVE TypeInv'
  <1>1. /\ UNCHANGED <<clock, registering, faults>> /\ UNCHANGED journal /\ UNCHANGED cycle
        /\ UNCHANGED delivery
    BY DEF Ingest
  <1>2. PICK receivedAt \in 0..MaxClock : Store(e, receivedAt)
    BY Accepted
  <1>3. log' \in Seq(Record) /\ Len(log') \in Nat /\ Len(log) <= Len(log')
    BY <1>2, StoreType
  <1>4. clock' \in 0..MaxClock /\ WaitType' /\ faults' \in 0..MaxFaults
    BY <1>1 DEF TypeInv, TypeOK, WaitType
  <1> QED
    BY <1>1, <1>3, <1>4, DeliveryKept, JournalKept, CycleKept, TypeJoin

LEMMA WaitingType ==
  ASSUME TypeInv, NEW r \in Rules, StartRegister(r) \/ Refuse(r) PROVE TypeInv'
  <1>1. /\ UNCHANGED <<clock, log, faults>> /\ UNCHANGED journal /\ UNCHANGED cycle
        /\ UNCHANGED delivery
    BY DEF StartRegister, Refuse
  <1>2. log' \in Seq(Record) /\ Len(log') \in Nat /\ Len(log) <= Len(log')
    BY <1>1, LogKept
  <1>3. WaitType'
    <2>1. PICK S \in SUBSET (0..MaxClock) : registering' = [registering EXCEPT ![r] = S]
      <3>1. registering[r] \subseteq 0..MaxClock /\ clock \in 0..MaxClock
        BY DEF TypeInv, TypeOK
      <3>2. CASE StartRegister(r)
        <4>1. registering[r] \cup {clock} \in SUBSET (0..MaxClock)
          BY <3>1
        <4> QED
          BY <3>2, <4>1 DEF StartRegister
      <3>3. CASE Refuse(r)
        <4>1. PICK now \in registering[r] :
                 registering' = [registering EXCEPT ![r] = registering[r] \ {now}]
          BY <3>3 DEF Refuse
        <4>2. registering[r] \ {now} \in SUBSET (0..MaxClock)
          BY <3>1
        <4> QED
          BY <4>1, <4>2
      <3> QED
        BY <3>2, <3>3
    <2> QED
      BY <2>1 DEF TypeInv, TypeOK, WaitType
  <1>4. clock' \in 0..MaxClock /\ faults' \in 0..MaxFaults
    BY <1>1 DEF TypeInv, TypeOK
  <1> QED
    BY <1>1, <1>2, <1>3, <1>4, DeliveryKept, JournalKept, CycleKept, TypeJoin

\* What a registration writes.
LEMMA Registered ==
  ASSUME TypeInv, NEW r \in Rules, Register(r)
  PROVE  \E now \in registering[r] :
            /\ now \in 0..MaxClock /\ [created_at |-> now, committed |-> clock] \in Version
            /\ versions' = [versions EXCEPT ![r] =
                               Append(versions[r], [created_at |-> now, committed |-> clock])]
            /\ registering' = [registering EXCEPT ![r] = registering[r] \ {now}]
  BY DEF Register, TypeInv, TypeOK, Version

LEMMA RegisterType == ASSUME TypeInv, NEW r \in Rules, Register(r) PROVE TypeInv'
  <1>1. /\ UNCHANGED <<clock, faults, log>> /\ UNCHANGED cycle /\ UNCHANGED delivery
        /\ UNCHANGED <<checks, processed, alerts, cursor>>
    BY DEF Register
  <1>2. PICK now \in registering[r] :
           /\ [created_at |-> now, committed |-> clock] \in Version
           /\ versions' = [versions EXCEPT ![r] =
                              Append(versions[r], [created_at |-> now, committed |-> clock])]
           /\ registering' = [registering EXCEPT ![r] = registering[r] \ {now}]
    BY Registered
  <1> DEFINE new == [created_at |-> now, committed |-> clock]
  <1>3. log' \in Seq(Record) /\ Len(log') \in Nat /\ Len(log) <= Len(log')
    BY <1>1, LogKept
  <1>4. WaitType'
    BY <1>2 DEF TypeInv, TypeOK, WaitType
  <1>5. clock' \in 0..MaxClock /\ faults' \in 0..MaxFaults
    BY <1>1 DEF TypeInv, TypeOK
  <1> HIDE DEF new
  <1>6. new \in Version /\ versions' = [versions EXCEPT ![r] = Append(versions[r], new)]
    BY <1>2 DEF new
  <1>7. Append(versions[r], new) \in Seq(Version)
    BY <1>6 DEF TypeInv, TypeOK
  <1>8. JournalTypes'
    BY <1>1, <1>6, <1>7 DEF TypeInv, TypeOK, JournalTypes
  <1> QED
    BY <1>1, <1>3, <1>4, <1>5, <1>8, DeliveryKept, CycleKept, TypeJoin

\* Steps of the cycle that leave everything but the cycle alone.
LEMMA CycleOnlyType ==
  ASSUME TypeInv, UNCHANGED <<clock, registering, log, faults>>, UNCHANGED journal, UNCHANGED delivery,
         CycleTypes', CycleOK'
  PROVE  TypeInv'
  <1>1. log' \in Seq(Record) /\ Len(log') \in Nat /\ Len(log) <= Len(log')
    BY LogKept
  <1>2. clock' \in 0..MaxClock /\ WaitType' /\ faults' \in 0..MaxFaults
    BY DEF TypeInv, TypeOK, WaitType
  <1> QED
    BY <1>1, <1>2, DeliveryKept, JournalKept, TypeJoin

LEMMA StartCycleType == ASSUME TypeInv, NEW p \in Processors, StartCycle(p) PROVE TypeInv'
  <1> DEFINE n == cursor + 1
             l == Min({cursor + RecordLimit, Len(log)})
             s == IF cursor < Len(log) THEN "process" ELSE "outbox"
  <1>1. cursor \in 0..Len(log) /\ Len(log) \in Nat /\ RecordLimit \in Nat \ {0}
    BY RulesAssumption DEF TypeInv, TypeOK
  <1>2. l = IF cursor + RecordLimit <= Len(log) THEN cursor + RecordLimit ELSE Len(log)
    BY <1>1, MinPair
  <1>3. n \in Nat /\ l \in 0..Len(log) /\ (s \in {"process", "advance"} => n \in 1..l)
    BY <1>1, <1>2
  <1>4. s \in {"process", "outbox"}
    OBVIOUS
  <1>5. /\ todo[p] \in SUBSET Breaches /\ todo' = [todo EXCEPT ![p] = todo[p]]
        /\ budget[p] \in 0..DeliveryLimit /\ budget' = [budget EXCEPT ![p] = budget[p]]
    BY DEF StartCycle, TypeInv, TypeOK
  <1>6. /\ UNCHANGED <<clock, registering, log, faults>> /\ UNCHANGED journal /\ UNCHANGED delivery
        /\ pc' = [pc EXCEPT ![p] = s] /\ next' = [next EXCEPT ![p] = n]
        /\ last' = [last EXCEPT ![p] = l]
    BY DEF StartCycle
  <1> HIDE DEF n, l, s
  <1>7. CycleTypes' /\ CycleOK'
    BY <1>3, <1>4, <1>5, <1>6, CycleMoved
  <1> QED
    BY <1>6, <1>7, CycleOnlyType

\* The record that a processor works on.
LEMMA RecordInHand ==
  ASSUME TypeInv, NEW p \in Processors, pc[p] \in {"process", "advance"}
  PROVE  /\ next[p] \in 1..last[p] /\ last[p] \in 0..Len(log) /\ next[p] \in 1..Len(log)
         /\ log[next[p]] \in Record /\ log[next[p]].id \in Events \cup Breaches
  <1>1. next[p] \in 1..last[p] /\ last[p] \in 0..Len(log) /\ log \in Seq(Record)
    BY DEF TypeInv, TypeOK, CycleOK
  <1>2. next[p] \in 1..Len(log)
    BY <1>1
  <1>3. log[next[p]] \in Record
    BY <1>1, <1>2
  <1> QED
    BY <1>1, <1>2, <1>3 DEF Record

LEMMA ProcessType == ASSUME TypeInv, NEW p \in Processors, Process(p) PROVE TypeInv'
  <1> DEFINE record == log[next[p]]
             found == ChecksOf(record)
             fresh == record.id \notin processed
  <1>1. /\ pc[p] = "process" /\ UNCHANGED <<clock, registering, faults, log, versions, cursor>>
        /\ UNCHANGED <<call, requested, accepted>>
        /\ pc' = [pc EXCEPT ![p] = "advance"] /\ UNCHANGED <<next, last, todo, budget>>
    BY DEF Process
  <1>2. IF fresh
        THEN /\ checks' = checks \cup found
             /\ alerts' = [d \in Breaches |-> IF d \in found THEN "pending" ELSE alerts[d]]
             /\ processed' = processed \cup {record.id}
             /\ Enqueue(found \cap Jobs)
        ELSE UNCHANGED <<checks, alerts, processed, jobs>>
    BY DEF Process
  <1>3. /\ next[p] \in 1..last[p] /\ last[p] \in 0..Len(log)
        /\ record.id \in Events \cup Breaches
    BY <1>1, RecordInHand
  <1>4. found \subseteq Check
    BY DEF ChecksOf
  <1> HIDE DEF record, found
  <1>5. JournalTypes'
    BY <1>1, <1>2, <1>3, <1>4 DEF TypeInv, TypeOK, JournalTypes
  <1>6. jobs' \in [Jobs -> Job] /\ RoomOK'
    <2>1. CASE fresh
      BY <2>1, <1>2, EnqueueType
    <2>2. CASE ~fresh
      BY <2>2, <1>2 DEF TypeInv, TypeOK, DeliveryTypeOK, RoomOK
    <2> QED
      BY <2>1, <2>2
  <1>7. DeliveryTypeOK'
    BY <1>1, <1>6 DEF TypeInv, TypeOK, DeliveryTypeOK
  <1>8. CycleTypes'
    BY <1>1 DEF TypeInv, TypeOK, CycleTypes
  <1>9. CycleOK'
    BY <1>1, <1>3 DEF TypeInv, TypeOK, CycleOK
  <1>10. clock' \in 0..MaxClock /\ WaitType' /\ faults' \in 0..MaxFaults /\ log' \in Seq(Record)
    BY <1>1 DEF TypeInv, TypeOK, WaitType
  <1> QED
    BY <1>5, <1>6, <1>7, <1>8, <1>9, <1>10, TypeJoin

LEMMA AdvanceType == ASSUME TypeInv, NEW p \in Processors, Advance(p) PROVE TypeInv'
  <1> DEFINE done == next[p] = last[p]
             s == IF done THEN "outbox" ELSE "process"
             n == IF done THEN 0 ELSE next[p] + 1
             l == IF done THEN 0 ELSE last[p]
  <1>1. /\ pc[p] = "advance" /\ UNCHANGED <<clock, registering, log, faults>> /\ UNCHANGED delivery
        /\ UNCHANGED <<versions, checks, processed, alerts>> /\ cursor' = Advanced(p)
        /\ pc' = [pc EXCEPT ![p] = s] /\ next' = [next EXCEPT ![p] = n]
        /\ last' = [last EXCEPT ![p] = l]
    BY DEF Advance
  <1>2. /\ next[p] \in 1..last[p] /\ last[p] \in 0..Len(log) /\ Len(log) \in Nat
        /\ next[p] \in 1..Len(log)
    BY <1>1, RecordInHand DEF TypeInv, TypeOK
  <1>3. n \in Nat /\ l \in 0..Len(log) /\ (s \in {"process", "advance"} => n \in 1..l)
    BY <1>2
  <1>4. s \in {"outbox", "process"}
    OBVIOUS
  <1>5. /\ todo[p] \in SUBSET Breaches /\ todo' = [todo EXCEPT ![p] = todo[p]]
        /\ budget[p] \in 0..DeliveryLimit /\ budget' = [budget EXCEPT ![p] = budget[p]]
    BY DEF Advance, TypeInv, TypeOK
  <1> HIDE DEF s, n, l
  <1>6. CycleTypes' /\ CycleOK'
    BY <1>1, <1>3, <1>4, <1>5, CycleMoved
  <1>7. cursor \in 0..Len(log)
    BY DEF TypeInv, TypeOK
  <1>8. Advanced(p) = IF cursor >= next[p] THEN cursor ELSE next[p]
    BY <1>2, <1>7, MaxPair DEF Advanced
  <1>9. cursor' \in 0..Len(log')
    BY <1>1, <1>2, <1>7, <1>8
  <1>10. JournalTypes'
    BY <1>1, <1>9 DEF TypeInv, TypeOK, JournalTypes
  <1>11. clock' \in 0..MaxClock /\ WaitType' /\ faults' \in 0..MaxFaults /\ log' \in Seq(Record)
    BY <1>1 DEF TypeInv, TypeOK, WaitType
  <1> QED
    BY <1>1, <1>6, <1>10, <1>11, DeliveryKept, TypeJoin

LEMMA ReadOutboxType == ASSUME TypeInv, NEW p \in Processors, ReadOutbox(p) PROVE TypeInv'
  <1>1. PICK S \in SUBSET Outbox :
           /\ todo' = [todo EXCEPT ![p] = S]
           /\ pc' = [pc EXCEPT ![p] = IF S = {} THEN "deliver" ELSE "publish"]
    BY DEF ReadOutbox
  <1> DEFINE s == IF S = {} THEN "deliver" ELSE "publish"
  <1>2. S \in SUBSET Breaches /\ (s \in {"publish", "mark"} => S # {})
    BY <1>1 DEF Outbox
  <1>3. s \in {"deliver", "publish"} /\ s \notin {"process", "advance"}
    OBVIOUS
  <1>4. pc' = [pc EXCEPT ![p] = s] /\ budget' = [budget EXCEPT ![p] = DeliveryLimit]
    BY <1>1 DEF ReadOutbox
  <1>5. /\ next[p] \in Nat /\ next' = [next EXCEPT ![p] = next[p]]
        /\ last[p] \in 0..Len(log) /\ last' = [last EXCEPT ![p] = last[p]]
        /\ DeliveryLimit \in 0..DeliveryLimit
    BY RulesAssumption DEF ReadOutbox, TypeInv, TypeOK
  <1>6. /\ UNCHANGED <<clock, registering, log, faults>> /\ UNCHANGED journal /\ UNCHANGED delivery
    BY DEF ReadOutbox
  <1> HIDE DEF s
  <1>7. CycleTypes' /\ CycleOK'
    BY <1>1, <1>2, <1>3, <1>4, <1>5, <1>6, CycleMoved
  <1> QED
    BY <1>6, <1>7, CycleOnlyType

LEMMA AlertInHand ==
  ASSUME TypeInv, NEW p \in Processors, pc[p] \in {"publish", "mark"}
  PROVE  Posting(p) \in todo[p] /\ Posting(p) \in Breaches /\ todo[p] \subseteq Breaches
  BY DEF TypeInv, TypeOK, CycleOK, Posting

LEMMA PublishType == ASSUME TypeInv, NEW p \in Processors, Publish(p) PROVE TypeInv'
  <1> DEFINE d == Posting(p)
  <1>1. /\ pc[p] = "publish" /\ pc' = [pc EXCEPT ![p] = "mark"]
        /\ UNCHANGED <<next, last, todo, budget>> /\ UNCHANGED <<clock, registering, faults>>
        /\ UNCHANGED journal /\ UNCHANGED delivery /\ Store(d, clock)
    BY DEF Publish
  <1>2. d \in Breaches /\ clock \in 0..MaxClock
    BY <1>1, AlertInHand DEF TypeInv, TypeOK
  <1> HIDE DEF d
  <1>3. log' \in Seq(Record) /\ Len(log') \in Nat /\ Len(log) <= Len(log')
    BY <1>1, <1>2, StoreType
  <1>4. last' \in [Processors -> 0..Len(log')]
    BY <1>1, <1>3 DEF TypeInv, TypeOK
  <1>5. CycleTypes'
    BY <1>1, <1>4 DEF TypeInv, TypeOK, CycleTypes
  <1>6. CycleOK'
    BY <1>1 DEF TypeInv, TypeOK, CycleOK
  <1>7. clock' \in 0..MaxClock /\ WaitType' /\ faults' \in 0..MaxFaults
    BY <1>1 DEF TypeInv, TypeOK, WaitType
  <1> QED
    BY <1>1, <1>3, <1>5, <1>6, <1>7, DeliveryKept, JournalKept, TypeJoin

LEMMA MarkType == ASSUME TypeInv, NEW p \in Processors, Mark(p) PROVE TypeInv'
  <1> DEFINE d == Posting(p)
             S == todo[p] \ {d}
             s == IF todo[p] = {d} THEN "deliver" ELSE "publish"
  <1>1. /\ pc[p] = "mark" /\ UNCHANGED <<clock, registering, log, faults>> /\ UNCHANGED delivery
        /\ UNCHANGED <<versions, checks, processed, cursor>>
        /\ alerts' = [alerts EXCEPT ![d] = "published"]
        /\ todo' = [todo EXCEPT ![p] = S] /\ pc' = [pc EXCEPT ![p] = s]
    BY DEF Mark
  <1>2. d \in todo[p] /\ d \in Breaches /\ todo[p] \subseteq Breaches
    BY <1>1, AlertInHand
  <1> HIDE DEF d
  <1>3. S \in SUBSET Breaches /\ (s \in {"publish", "mark"} => S # {})
    BY <1>2
  <1>4. s \in {"deliver", "publish"} /\ s \notin {"process", "advance"}
    OBVIOUS
  <1>5. /\ next[p] \in Nat /\ next' = [next EXCEPT ![p] = next[p]]
        /\ last[p] \in 0..Len(log) /\ last' = [last EXCEPT ![p] = last[p]]
        /\ budget[p] \in 0..DeliveryLimit /\ budget' = [budget EXCEPT ![p] = budget[p]]
    BY DEF Mark, TypeInv, TypeOK
  <1>6. JournalTypes'
    BY <1>1, <1>2 DEF TypeInv, TypeOK, JournalTypes
  <1> HIDE DEF s, S
  <1>7. CycleTypes' /\ CycleOK'
    BY <1>1, <1>3, <1>4, <1>5, CycleMoved
  <1>8. clock' \in 0..MaxClock /\ WaitType' /\ faults' \in 0..MaxFaults /\ log' \in Seq(Record)
    BY <1>1 DEF TypeInv, TypeOK, WaitType
  <1> QED
    BY <1>1, <1>6, <1>7, <1>8, DeliveryKept, TypeJoin

LEMMA StartCallType == ASSUME TypeInv, NEW p \in Processors, StartCall(p) PROVE TypeInv'
  <1>1. /\ UNCHANGED <<clock, registering, log, faults>> /\ UNCHANGED journal
        /\ UNCHANGED <<next, last, todo>> /\ pc' = [pc EXCEPT ![p] = "call"]
        /\ budget[p] > 0 /\ budget' = [budget EXCEPT ![p] = @ - 1]
    BY DEF StartCall
  <1>2. PICK j \in Jobs : Claim(p, j)
    BY DEF StartCall
  <1>3. /\ jobs' \in [Jobs -> Job] /\ RoomOK' /\ call'[p] \in Call
        /\ call' = [call EXCEPT ![p] = [job |-> j, attempt |-> jobs[j].attempts + 1,
                                        sent |-> FALSE, left |-> Lease]]
    BY <1>2, Claimed
  <1>4. call' \in [Processors -> Call \cup {NoCall}]
    BY <1>3 DEF TypeInv, TypeOK, DeliveryTypeOK
  <1>5. DeliveryTypeOK'
    BY <1>2, <1>3, <1>4 DEF Claim, TypeInv, TypeOK, DeliveryTypeOK
  <1>6. budget' \in [Processors -> 0..DeliveryLimit]
    BY <1>1, RulesAssumption DEF TypeInv, TypeOK
  <1>7. CycleTypes'
    BY <1>1, <1>6 DEF TypeInv, TypeOK, CycleTypes
  <1>8. CycleOK'
    BY <1>1 DEF TypeInv, TypeOK, CycleOK
  <1>9. log' \in Seq(Record) /\ Len(log') \in Nat /\ Len(log) <= Len(log')
    BY <1>1, LogKept
  <1>10. clock' \in 0..MaxClock /\ WaitType' /\ faults' \in 0..MaxFaults
    BY <1>1 DEF TypeInv, TypeOK, WaitType
  <1> QED
    BY <1>1, <1>3, <1>5, <1>7, <1>8, <1>9, <1>10, JournalKept, TypeJoin

LEMMA SendType == ASSUME TypeInv, NEW p \in Processors, Send(p) PROVE TypeInv'
  <1>1. /\ UNCHANGED <<clock, registering, log, faults>> /\ UNCHANGED journal /\ UNCHANGED cycle
        /\ UNCHANGED <<jobs, accepted>> /\ InCall(p)
        /\ call' = [call EXCEPT ![p].sent = TRUE]
        /\ requested' = requested \cup {call[p].job}
    BY DEF Send, Request
  <1>2. call[p] \in Call /\ call[p].job \in Jobs
    BY <1>1, CallTypes
  <1>3. [call[p] EXCEPT !.sent = TRUE] \in Call
    BY <1>2 DEF Call
  <1>4. call' \in [Processors -> Call \cup {NoCall}]
    BY <1>1, <1>3 DEF TypeInv, TypeOK, DeliveryTypeOK
  <1>5. DeliveryTypeOK' /\ RoomOK'
    BY <1>1, <1>2, <1>4 DEF TypeInv, TypeOK, DeliveryTypeOK, RoomOK
  <1>6. log' \in Seq(Record) /\ Len(log') \in Nat /\ Len(log) <= Len(log')
    BY <1>1, LogKept
  <1>7. clock' \in 0..MaxClock /\ WaitType' /\ faults' \in 0..MaxFaults
    BY <1>1 DEF TypeInv, TypeOK, WaitType
  <1> QED
    BY <1>1, <1>5, <1>6, <1>7, JournalKept, CycleKept, TypeJoin

LEMMA EndCallType == ASSUME TypeInv, NEW p \in Processors, EndCall(p) PROVE TypeInv'
  <1>1. /\ UNCHANGED <<clock, registering, log, faults>> /\ UNCHANGED journal
        /\ UNCHANGED <<next, last, todo, budget>> /\ pc' = [pc EXCEPT ![p] = "deliver"]
    BY DEF EndCall
  <1>2. PICK outcome \in Outcomes : FinishCall(p, outcome)
    BY DEF EndCall
  <1>3. jobs' \in [Jobs -> Job] /\ RoomOK' /\ call' = [call EXCEPT ![p] = NoCall]
    BY <1>2, Finished
  <1>4. DeliveryTypeOK'
    BY <1>2, <1>3 DEF FinishCall, TypeInv, TypeOK, DeliveryTypeOK
  <1>5. CycleTypes'
    BY <1>1 DEF TypeInv, TypeOK, CycleTypes
  <1>6. CycleOK'
    BY <1>1 DEF TypeInv, TypeOK, CycleOK
  <1>7. log' \in Seq(Record) /\ Len(log') \in Nat /\ Len(log) <= Len(log')
    BY <1>1, LogKept
  <1>8. clock' \in 0..MaxClock /\ WaitType' /\ faults' \in 0..MaxFaults
    BY <1>1 DEF TypeInv, TypeOK, WaitType
  <1> QED
    BY <1>1, <1>3, <1>4, <1>5, <1>6, <1>7, <1>8, JournalKept, TypeJoin

LEMMA NothingDueType == ASSUME TypeInv, NEW p \in Processors, NothingDue(p) PROVE TypeInv'
  <1>1. /\ UNCHANGED <<clock, registering, log, faults>> /\ UNCHANGED journal /\ FindNothing
        /\ EndCycle(p)
    BY DEF NothingDue
  <1>2. jobs' \in [Jobs -> Job] /\ RoomOK'
    BY <1>1, FindNothingType
  <1>3. DeliveryTypeOK'
    BY <1>1, <1>2 DEF FindNothing, TypeInv, TypeOK, DeliveryTypeOK
  <1>4. CycleTypes' /\ CycleOK'
    BY <1>1, EndCycleType
  <1>5. log' \in Seq(Record) /\ Len(log') \in Nat /\ Len(log) <= Len(log')
    BY <1>1, LogKept
  <1>6. clock' \in 0..MaxClock /\ WaitType' /\ faults' \in 0..MaxFaults
    BY <1>1 DEF TypeInv, TypeOK, WaitType
  <1> QED
    BY <1>1, <1>2, <1>3, <1>4, <1>5, <1>6, JournalKept, TypeJoin

LEMMA AbortType == ASSUME TypeInv, NEW p \in Processors, Abort(p) PROVE TypeInv'
  <1>1. /\ UNCHANGED <<clock, registering, log, jobs, requested, accepted>> /\ UNCHANGED journal
        /\ call' = [call EXCEPT ![p] = NoCall] /\ EndCycle(p)
        /\ faults < MaxFaults /\ faults' = faults + 1
    BY DEF Abort
  <1>2. DeliveryTypeOK' /\ RoomOK'
    BY <1>1 DEF TypeInv, TypeOK, DeliveryTypeOK, RoomOK
  <1>3. CycleTypes' /\ CycleOK'
    BY <1>1, EndCycleType
  <1>4. log' \in Seq(Record) /\ Len(log') \in Nat /\ Len(log) <= Len(log')
    BY <1>1, LogKept
  <1>5. clock' \in 0..MaxClock /\ WaitType' /\ faults' \in 0..MaxFaults
    BY <1>1, RulesAssumption DEF TypeInv, TypeOK, WaitType
  <1> QED
    BY <1>1, <1>2, <1>3, <1>4, <1>5, JournalKept, TypeJoin

LEMMA ReceiveType == ASSUME TypeInv, NEW j \in Jobs, Receive(j) PROVE TypeInv'
  <1>1. /\ UNCHANGED <<clock, registering, log, faults>> /\ UNCHANGED journal /\ UNCHANGED cycle
        /\ UNCHANGED <<jobs, call, requested>> /\ accepted' = accepted \cup {j}
    BY DEF Receive, Receipt
  <1>2. DeliveryTypeOK' /\ RoomOK'
    BY <1>1 DEF TypeInv, TypeOK, DeliveryTypeOK, RoomOK
  <1>3. log' \in Seq(Record) /\ Len(log') \in Nat /\ Len(log) <= Len(log')
    BY <1>1, LogKept
  <1>4. clock' \in 0..MaxClock /\ WaitType' /\ faults' \in 0..MaxFaults
    BY <1>1 DEF TypeInv, TypeOK, WaitType
  <1> QED
    BY <1>1, <1>2, <1>3, <1>4, JournalKept, CycleKept, TypeJoin

LEMMA ElapseType == ASSUME TypeInv, Elapse PROVE TypeInv'
  <1>1. /\ UNCHANGED <<registering, log, faults>> /\ UNCHANGED journal /\ UNCHANGED cycle
        /\ AgeDelivery /\ clock' = Min({clock + 1, MaxClock})
    BY DEF Elapse
  <1>2. clock \in 0..MaxClock /\ MaxClock \in Nat
    BY RulesAssumption DEF TypeInv, TypeOK
  <1>3. clock' \in 0..MaxClock
    BY <1>1, <1>2, MinPair
  <1>4. jobs' \in [Jobs -> Job] /\ RoomOK' /\ call' \in [Processors -> Call \cup {NoCall}]
    BY <1>1, AgeType
  <1>5. DeliveryTypeOK'
    BY <1>1, <1>4 DEF AgeDelivery, TypeInv, TypeOK, DeliveryTypeOK
  <1>6. log' \in Seq(Record) /\ Len(log') \in Nat /\ Len(log) <= Len(log')
    BY <1>1, LogKept
  <1>7. WaitType' /\ faults' \in 0..MaxFaults
    BY <1>1 DEF TypeInv, TypeOK, WaitType
  <1> QED
    BY <1>1, <1>3, <1>4, <1>5, <1>6, <1>7, JournalKept, CycleKept, TypeJoin

LEMMA StepType == ASSUME TypeInv, NEW p \in Processors, Step(p) PROVE TypeInv'
  <1>1. CASE QueueFull(p)
    <2>1. /\ UNCHANGED <<clock, registering, log, faults>> /\ UNCHANGED journal /\ UNCHANGED delivery
          /\ EndCycle(p)
      BY <1>1 DEF QueueFull
    <2> QED
      BY <2>1, EndCycleType, CycleOnlyType
  <1>2. CASE LimitReached(p)
    <2>1. /\ UNCHANGED <<clock, registering, log, faults>> /\ UNCHANGED journal /\ UNCHANGED delivery
          /\ EndCycle(p)
      BY <1>2 DEF LimitReached
    <2> QED
      BY <2>1, EndCycleType, CycleOnlyType
  <1> QED
    BY <1>1, <1>2, StartCycleType, ProcessType, AdvanceType, ReadOutboxType, PublishType,
       MarkType, StartCallType, SendType, EndCallType, NothingDueType DEF Step

LEMMA NextType == TypeInv /\ [Next]_vars => TypeInv'
  <1>1. ASSUME TypeInv, UNCHANGED vars PROVE TypeInv'
    <2>1. /\ UNCHANGED <<clock, registering, log, faults>> /\ UNCHANGED journal /\ UNCHANGED cycle
          /\ UNCHANGED delivery
      BY <1>1 DEF vars
    <2>2. Len(log') \in Nat /\ Len(log) <= Len(log')
      BY <1>1, <2>1, LogKept
    <2>3. CycleTypes' /\ CycleOK'
      BY <1>1, <2>1, <2>2, CycleKept
    <2> QED
      BY <1>1, <2>1, <2>3, CycleOnlyType
  <1> QED
    BY <1>1, IngestType, RegisterType, WaitingType, StepType, AbortType, ReceiveType, ElapseType
    DEF Next

\* What the two databases hold, what a cycle of rule-processing.cjs keeps in
\* memory and what a call of deliverOne knows have their types, through any
\* interleaving of cycles, failures and late answers.
THEOREM TypeCorrect == Spec => []TypeOK
  <1>1. TypeInv => TypeOK
    BY DEF TypeInv
  <1> QED
    BY InitType, NextType, <1>1, PTL DEF Spec

(***************************************************************************)
(* The scan and the outbox.  The cursor only passes what is processed      *)
(* because the rows before the one a cycle has in hand are, even when      *)
(* other processes have moved the cursor; and an alert is marked only      *)
(* after the record that it was ingested as is in the store.               *)
(***************************************************************************)
ScanOK(p) ==
  /\ pc[p] \in {"process", "advance"} => \A i \in 1..(next[p] - 1) : log[i].id \in processed
  /\ pc[p] = "advance" => log[next[p]].id \in processed

ScanInv == CursorBehind /\ \A p \in Processors : ScanOK(p)

Distinct == \A i, k \in 1..Len(log) : log[i].id = log[k].id => i = k

OutboxInv ==
  /\ Distinct
  /\ \A d \in Breaches : alerts[d] = "published" => d \in StoredIds
  /\ \A p \in Processors : pc[p] = "mark" => Posting(p) \in StoredIds

\* Steps that neither move the cursor nor start or advance a scan.
LEMMA ScanKept ==
  ASSUME TypeInv, ScanInv, cursor' = cursor, processed \subseteq processed',
         \A i \in 1..Len(log) : log'[i] = log[i],
         \A p \in Processors : pc'[p] \in {"process", "advance"} =>
                                  pc'[p] = pc[p] /\ next'[p] = next[p]
  PROVE  ScanInv'
  <1>1. cursor \in 0..Len(log) /\ Len(log) \in Nat
    BY DEF TypeInv, TypeOK
  <1>2. CursorBehind'
    BY <1>1 DEF ScanInv, CursorBehind
  <1>3. ASSUME NEW p \in Processors PROVE ScanOK(p)'
    <2> SUFFICES ASSUME pc'[p] \in {"process", "advance"} PROVE ScanOK(p)'
      BY DEF ScanOK
    <2>1. pc'[p] = pc[p] /\ next'[p] = next[p] /\ next[p] \in 1..Len(log)
      BY RecordInHand
    <2>2. \A i \in 1..(next[p] - 1) : i \in 1..Len(log)
      BY <2>1, <1>1
    <2> QED
      BY <2>1, <2>2 DEF ScanInv, ScanOK
  <1> QED
    BY <1>2, <1>3 DEF ScanInv

LEMMA ScanStartCycle ==
  ASSUME TypeInv, ScanInv, NEW p \in Processors, StartCycle(p)
  PROVE  ScanInv'
  <1>1. /\ UNCHANGED <<log, cursor, processed>> /\ next' = [next EXCEPT ![p] = cursor + 1]
        /\ pc'[p] \in {"process", "outbox"}
        /\ \A q \in Processors \ {p} : pc'[q] = pc[q]
    BY DEF StartCycle, journal, TypeInv, TypeOK
  <1>2. cursor \in 0..Len(log) /\ Len(log) \in Nat /\ next'[p] = cursor + 1
        /\ \A q \in Processors \ {p} : next'[q] = next[q]
    BY <1>1 DEF TypeInv, TypeOK
  <1>3. CursorBehind'
    BY <1>1 DEF ScanInv, CursorBehind
  <1>4. ScanOK(p)'
    <2>1. next'[p] - 1 = cursor
      BY <1>2
    <2>2. \A i \in 1..(next'[p] - 1) : log'[i].id \in processed'
      BY <1>1, <2>1 DEF ScanInv, CursorBehind
    <2> QED
      BY <1>1, <2>2 DEF ScanOK
  <1>5. ASSUME NEW q \in Processors \ {p} PROVE ScanOK(q)'
    BY <1>1, <1>2 DEF ScanInv, ScanOK
  <1> QED
    BY <1>3, <1>4, <1>5 DEF ScanInv

LEMMA ScanProcess ==
  ASSUME TypeInv, ScanInv, NEW p \in Processors, Process(p)
  PROVE  ScanInv'
  <1> DEFINE id == log[next[p]].id
  <1>1. /\ UNCHANGED <<log, cursor, next>> /\ pc[p] = "process" /\ pc'[p] = "advance"
        /\ \A q \in Processors \ {p} : pc'[q] = pc[q]
    BY DEF Process, TypeInv, TypeOK
  <1>2. processed \subseteq processed' /\ id \in processed'
    BY DEF Process
  <1>3. CursorBehind'
    BY <1>1, <1>2 DEF ScanInv, CursorBehind
  <1>4. ScanOK(p)'
    BY <1>1, <1>2 DEF ScanInv, ScanOK
  <1>5. ASSUME NEW q \in Processors \ {p} PROVE ScanOK(q)'
    BY <1>1, <1>2 DEF ScanInv, ScanOK
  <1> QED
    BY <1>3, <1>4, <1>5 DEF ScanInv

LEMMA ScanAdvance ==
  ASSUME TypeInv, ScanInv, NEW p \in Processors, Advance(p)
  PROVE  ScanInv'
  <1>1. /\ UNCHANGED <<log, processed>> /\ pc[p] = "advance" /\ cursor' = Advanced(p)
        /\ \A q \in Processors \ {p} : pc'[q] = pc[q] /\ next'[q] = next[q]
        /\ pc'[p] = "process" => next'[p] = next[p] + 1
        /\ pc'[p] \in {"process", "outbox"}
    BY DEF Advance, TypeInv, TypeOK
  <1>2. /\ next[p] \in 1..Len(log) /\ Len(log) \in Nat /\ cursor \in 0..Len(log)
    BY <1>1, RecordInHand DEF TypeInv, TypeOK
  <1>3. Advanced(p) = IF cursor >= next[p] THEN cursor ELSE next[p]
    BY <1>2, MaxPair DEF Advanced
  <1>4. \A i \in 1..next[p] : log[i].id \in processed
    <2>1. \A i \in 1..next[p] : i = next[p] \/ i \in 1..(next[p] - 1)
      BY <1>2
    <2> QED
      BY <1>1, <2>1 DEF ScanInv, ScanOK
  <1>5. CursorBehind'
    BY <1>1, <1>3, <1>4 DEF ScanInv, CursorBehind
  <1>6. ScanOK(p)'
    <2>1. CASE pc'[p] = "process"
      <3>1. next'[p] - 1 = next[p]
        BY <2>1, <1>1, <1>2
      <3> QED
        BY <2>1, <3>1, <1>1, <1>4 DEF ScanOK
    <2>2. CASE pc'[p] = "outbox"
      BY <2>2 DEF ScanOK
    <2> QED
      BY <1>1, <2>1, <2>2
  <1>7. ASSUME NEW q \in Processors \ {p} PROVE ScanOK(q)'
    BY <1>1 DEF ScanInv, ScanOK
  <1> QED
    BY <1>5, <1>6, <1>7 DEF ScanInv

LEMMA ScanStep == TypeInv /\ ScanInv /\ [Next]_vars => ScanInv'
  <1> SUFFICES ASSUME TypeInv, ScanInv, [Next]_vars PROVE ScanInv'
    OBVIOUS
  <1>1. CASE UNCHANGED vars
    BY <1>1, ScanKept DEF vars, journal, cycle
  <1>2. ASSUME NEW e \in Events, Ingest(e) PROVE ScanInv'
    <2>1. \A i \in 1..Len(log) : log'[i] = log[i]
      BY <1>2, Accepted, StoreType
    <2> QED
      BY <1>2, <2>1, ScanKept DEF Ingest, journal, cycle
  <1>3. ASSUME NEW r \in Rules, StartRegister(r) \/ Register(r) \/ Refuse(r) PROVE ScanInv'
    BY <1>3, ScanKept DEF StartRegister, Register, Refuse, journal, cycle
  <1>4. ASSUME NEW p \in Processors, Publish(p) PROVE ScanInv'
    <2>1. Posting(p) \in Breaches /\ clock \in 0..MaxClock
      BY <1>4, AlertInHand DEF Publish, TypeInv, TypeOK
    <2>2. \A i \in 1..Len(log) : log'[i] = log[i]
      BY <1>4, <2>1, StoreType DEF Publish
    <2>3. \A q \in Processors : pc'[q] \in {"process", "advance"} => pc'[q] = pc[q]
      BY <1>4 DEF Publish, TypeInv, TypeOK
    <2> QED
      BY <1>4, <2>2, <2>3, ScanKept DEF Publish, journal
  <1>5. ASSUME NEW p \in Processors, EndCycle(p), UNCHANGED <<log, cursor, processed>>
        PROVE  ScanInv'
    <2>1. \A q \in Processors : pc'[q] \in {"process", "advance"} =>
                                   pc'[q] = pc[q] /\ next'[q] = next[q]
      BY <1>5 DEF EndCycle, TypeInv, TypeOK
    <2> QED
      BY <1>5, <2>1, ScanKept
  <1>6. ASSUME NEW p \in Processors, NEW s \in {"publish", "deliver", "call"},
               pc' = [pc EXCEPT ![p] = s], UNCHANGED <<log, cursor, processed, next>>
        PROVE  ScanInv'
    <2>1. \A q \in Processors : pc'[q] \in {"process", "advance"} => pc'[q] = pc[q]
      BY <1>6 DEF TypeInv, TypeOK
    <2> QED
      BY <1>6, <2>1, ScanKept
  <1>7. ASSUME NEW p \in Processors, Step(p) PROVE ScanInv'
    <2>1. CASE QueueFull(p) \/ LimitReached(p) \/ NothingDue(p)
      BY <2>1, <1>5 DEF QueueFull, LimitReached, NothingDue, journal
    <2>2. CASE ReadOutbox(p)
      BY <2>2, <1>6 DEF ReadOutbox, journal
    <2>3. CASE Mark(p)
      <3>1. PICK s \in {"publish", "deliver"} : pc' = [pc EXCEPT ![p] = s]
        BY <2>3 DEF Mark
      <3> QED
        BY <2>3, <3>1, <1>6 DEF Mark
    <2>4. CASE StartCall(p) \/ EndCall(p)
      BY <2>4, <1>6 DEF StartCall, EndCall, journal
    <2>5. CASE Send(p)
      BY <2>5, ScanKept DEF Send, journal, cycle
    <2> QED
      BY <1>7, <2>1, <2>2, <2>3, <2>4, <2>5, <1>4, ScanStartCycle, ScanProcess, ScanAdvance
         DEF Step
  <1>8. ASSUME NEW p \in Processors, Abort(p) PROVE ScanInv'
    BY <1>8, <1>5 DEF Abort, journal
  <1>9. CASE Elapse \/ \E j \in Jobs : Receive(j)
    BY <1>9, ScanKept DEF Elapse, Receive, journal, cycle
  <1> QED
    BY <1>1, <1>2, <1>3, <1>7, <1>8, <1>9 DEF Next

\* Whatever the interleaving of processes and wherever they stop between the
\* transaction of process and the one that moves the cursor, scanStored never
\* leaves a record behind.
THEOREM NoRecordSkipped == Spec => []CursorBehind
  <1>1. Init => ScanInv
    BY DEF Init, ScanInv, ScanOK, CursorBehind
  <1>2. ScanInv => CursorBehind
    BY DEF ScanInv
  <1> QED
    BY InitType, NextType, <1>1, ScanStep, <1>2, PTL DEF Spec

LEMMA StoreDistinct ==
  ASSUME TypeInv, Distinct, NEW id \in Events \cup Breaches, NEW at \in 0..MaxClock, Store(id, at)
  PROVE  Distinct'
  <1> DEFINE r == [id |-> id, at |-> at]
  <1>1. log \in Seq(Record) /\ r \in Record
    BY DEF TypeInv, TypeOK, Record
  <1>2. CASE id \in StoredIds
    BY <1>2 DEF Store, Distinct
  <1>3. CASE id \notin StoredIds
    <2>1. log' = Append(log, r) /\ r.id = id
      BY <1>3 DEF Store
    <2> HIDE DEF r
    <2>2. /\ Len(log') = Len(log) + 1 /\ Len(log) \in Nat /\ log'[Len(log) + 1] = r
          /\ \A i \in 1..Len(log) : log'[i] = log[i]
      BY <1>1, <2>1
    <2>3. \A i \in 1..Len(log) : log[i].id # id
      BY <1>1, <1>3 DEF StoredIds
    <2> SUFFICES ASSUME NEW i \in 1..Len(log'), NEW k \in 1..Len(log'),
                        log'[i].id = log'[k].id
                 PROVE  i = k
      BY DEF Distinct
    <2>4. CASE i \in 1..Len(log) /\ k \in 1..Len(log)
      BY <2>2, <2>4 DEF Distinct
    <2>5. CASE i = Len(log) + 1 \/ k = Len(log) + 1
      <3>1. \A m \in 1..Len(log') : m = Len(log) + 1 \/ (m \in 1..Len(log) /\ log'[m].id # id)
        BY <2>2, <2>3
      <3>2. log'[Len(log) + 1].id = id
        BY <2>1, <2>2
      <3> QED
        BY <2>5, <3>1, <3>2
    <2> QED
      BY <2>2, <2>4, <2>5
  <1> QED
    BY <1>2, <1>3

\* Steps that mark no alert and do not start to.
LEMMA OutboxKept ==
  ASSUME OutboxInv, Distinct', StoredIds \subseteq StoredIds',
         \A d \in Breaches : alerts'[d] = "published" => alerts[d] = "published",
         \A p \in Processors : pc'[p] = "mark" => pc[p] = "mark" /\ todo'[p] = todo[p]
  PROVE  OutboxInv'
  BY DEF OutboxInv, Posting

LEMMA OutboxPublish ==
  ASSUME TypeInv, OutboxInv, NEW p \in Processors, Publish(p)
  PROVE  OutboxInv'
  <1>1. /\ pc[p] = "publish" /\ UNCHANGED <<todo, alerts>> /\ Store(Posting(p), clock)
        /\ \A q \in Processors \ {p} : pc'[q] = pc[q]
    BY DEF Publish, journal, TypeInv, TypeOK
  <1>2. Posting(p) \in Breaches /\ clock \in 0..MaxClock
    BY <1>1, AlertInHand DEF TypeInv, TypeOK
  <1>3. Distinct' /\ StoredIds' = StoredIds \cup {Posting(p)}
    BY <1>1, <1>2, StoreDistinct, StoreType DEF OutboxInv
  <1>4. \A q \in Processors : Posting(q)' = Posting(q)
    BY <1>1 DEF Posting
  <1> QED
    BY <1>1, <1>3, <1>4 DEF OutboxInv

LEMMA OutboxMark ==
  ASSUME TypeInv, OutboxInv, NEW p \in Processors, Mark(p)
  PROVE  OutboxInv'
  <1>1. /\ pc[p] = "mark" /\ log' = log /\ pc'[p] # "mark"
        /\ \A q \in Processors \ {p} : pc'[q] = pc[q] /\ todo'[q] = todo[q]
        /\ \A d \in Breaches : alerts'[d] = IF d = Posting(p) THEN "published" ELSE alerts[d]
    BY DEF Mark, TypeInv, TypeOK
  <1>2. Distinct' /\ StoredIds' = StoredIds
    BY <1>1 DEF OutboxInv, Distinct, StoredIds
  <1>3. \A q \in Processors \ {p} : Posting(q)' = Posting(q)
    BY <1>1 DEF Posting
  <1> QED
    BY <1>1, <1>2, <1>3 DEF OutboxInv

LEMMA OutboxStep == TypeInv /\ OutboxInv /\ [Next]_vars => OutboxInv'
  <1> SUFFICES ASSUME TypeInv, OutboxInv, [Next]_vars PROVE OutboxInv'
    OBVIOUS
  <1>1. ASSUME log' = log PROVE Distinct' /\ StoredIds \subseteq StoredIds'
    BY <1>1 DEF OutboxInv, Distinct, StoredIds
  <1>2. CASE UNCHANGED vars
    BY <1>2, <1>1, OutboxKept DEF vars, journal, cycle
  <1>3. ASSUME NEW e \in Events, Ingest(e) PROVE OutboxInv'
    <2>1. Distinct' /\ StoredIds \subseteq StoredIds'
      BY <1>3, Accepted, StoreDistinct, StoreType DEF OutboxInv
    <2> QED
      BY <1>3, <2>1, OutboxKept DEF Ingest, journal, cycle
  <1>4. ASSUME NEW r \in Rules, StartRegister(r) \/ Register(r) \/ Refuse(r) PROVE OutboxInv'
    BY <1>4, <1>1, OutboxKept DEF StartRegister, Register, Refuse, journal, cycle
  <1>5. ASSUME NEW p \in Processors, EndCycle(p), UNCHANGED <<log, alerts>>
        PROVE  OutboxInv'
    <2>1. \A q \in Processors : pc'[q] = "mark" => pc[q] = "mark" /\ todo'[q] = todo[q]
      BY <1>5 DEF EndCycle, TypeInv, TypeOK
    <2> QED
      BY <1>5, <1>1, <2>1, OutboxKept
  <1>6. ASSUME NEW p \in Processors,
               NEW s \in {"process", "advance", "outbox", "publish", "deliver", "call"},
               pc' = [pc EXCEPT ![p] = s], log' = log,
               \A q \in Processors \ {p} : todo'[q] = todo[q],
               \A d \in Breaches : alerts'[d] = "published" => alerts[d] = "published"
        PROVE  OutboxInv'
    <2>1. \A q \in Processors : pc'[q] = "mark" => pc[q] = "mark" /\ todo'[q] = todo[q]
      BY <1>6 DEF TypeInv, TypeOK
    <2> QED
      BY <1>6, <1>1, <2>1, OutboxKept
  <1>7. ASSUME NEW p \in Processors, Step(p) PROVE OutboxInv'
    <2>1. CASE QueueFull(p) \/ LimitReached(p) \/ NothingDue(p)
      BY <2>1, <1>5 DEF QueueFull, LimitReached, NothingDue, journal
    <2>2. CASE StartCycle(p)
      <3>1. PICK s \in {"process", "outbox"} : pc' = [pc EXCEPT ![p] = s]
        BY <2>2 DEF StartCycle
      <3> QED
        BY <2>2, <3>1, <1>6 DEF StartCycle, journal
    <2>3. CASE Process(p)
      <3>1. \A d \in Breaches : alerts'[d] = "published" => alerts[d] = "published"
        BY <2>3 DEF Process
      <3> QED
        BY <2>3, <3>1, <1>6 DEF Process
    <2>4. CASE Advance(p)
      <3>1. PICK s \in {"process", "outbox"} : pc' = [pc EXCEPT ![p] = s]
        BY <2>4 DEF Advance
      <3> QED
        BY <2>4, <3>1, <1>6 DEF Advance
    <2>5. CASE ReadOutbox(p)
      <3>1. PICK s \in {"publish", "deliver"} : pc' = [pc EXCEPT ![p] = s]
        BY <2>5 DEF ReadOutbox
      <3>2. \A q \in Processors \ {p} : todo'[q] = todo[q]
        BY <2>5 DEF ReadOutbox, TypeInv, TypeOK
      <3> QED
        BY <2>5, <3>1, <3>2, <1>6 DEF ReadOutbox, journal
    <2>6. CASE StartCall(p) \/ EndCall(p)
      BY <2>6, <1>6 DEF StartCall, EndCall, journal
    <2>7. CASE Send(p)
      BY <2>7, <1>1, OutboxKept DEF Send, journal, cycle
    <2> QED
      BY <1>7, <2>1, <2>2, <2>3, <2>4, <2>5, <2>6, <2>7, OutboxPublish, OutboxMark DEF Step
  <1>8. ASSUME NEW p \in Processors, Abort(p) PROVE OutboxInv'
    BY <1>8, <1>5 DEF Abort, journal
  <1>9. CASE Elapse \/ \E j \in Jobs : Receive(j)
    BY <1>9, <1>1, OutboxKept DEF Elapse, Receive, journal, cycle
  <1> QED
    BY <1>2, <1>3, <1>4, <1>7, <1>8, <1>9 DEF Next

\* publishDetected may repeat a publication, but never marks an alert that the
\* store has not taken in, and the store takes each record in once.
THEOREM AlertsPublishedOnce == Spec => []PublishedOnce
  <1>1. Init => OutboxInv
    BY DEF Init, OutboxInv, Distinct
  <1>2. TypeInv /\ OutboxInv => PublishedOnce
    <2> SUFFICES ASSUME TypeInv, OutboxInv PROVE PublishedOnce
      OBVIOUS
    <2>1. DOMAIN log = 1..Len(log)
      BY DEF TypeInv, TypeOK
    <2>2. IsInjective([i \in DOMAIN log |-> log[i].id])
      BY <2>1 DEF IsInjective, OutboxInv, Distinct
    <2> QED
      BY <2>2 DEF PublishedOnce, OutboxInv
  <1> QED
    BY InitType, NextType, <1>1, OutboxStep, <1>2, PTL DEF Spec

(***************************************************************************)
(* The deliveries.  A lease token is good as long as no later claim has    *)
(* drawn one: calls on one job have different attempts, none ahead of the  *)
(* job's, and the call whose lease runs has the job's present one and the  *)
(* journal's view of the time that is left.  A job that is enqueued is     *)
(* new, because its check is, so that no call is under way on it.          *)
(***************************************************************************)
JobOK(j) ==
  /\ jobs[j].state = "none" => jobs[j].attempts = 0
  /\ jobs[j].attempts = 0 => jobs[j].state \in {"none", "pending"} /\ jobs[j].status = "none"
  /\ jobs[j].state = "delivered" => jobs[j].status = "ok" /\ j \in accepted
  /\ jobs[j].state = "dead" => jobs[j].status = "refused" \/ jobs[j].attempts = MaxAttempts

CallOK(p) ==
  InCall(p) => /\ call[p].attempt <= jobs[call[p].job].attempts
               /\ call[p].left > 0 => /\ jobs[call[p].job].state = "sending"
                                      /\ jobs[call[p].job].attempts = call[p].attempt
                                      /\ jobs[call[p].job].lease = call[p].left

Apart(p, q) ==
  InCall(p) /\ InCall(q) /\ call[p].job = call[q].job => call[p].attempt # call[q].attempt

DeliveryInv ==
  /\ \A j \in Jobs : JobOK(j)
  /\ \A p \in Processors : CallOK(p)
  /\ \A p, q \in Processors : p # q => Apart(p, q)

\* What SettledIsFinal says of a step.
Final == \A j \in Jobs : Settled(j) => jobs'[j].state = jobs[j].state

LEMMA EnqueueOK ==
  ASSUME TypeInv, DeliveryInv, NEW S, \A j \in S \cap Jobs : jobs[j].state = "none",
         Enqueue(S), UNCHANGED <<call, accepted>>
  PROVE  DeliveryInv' /\ Final
  <1> DEFINE new == [NoJob EXCEPT !.state = "pending"]
  <1>1. /\ new.state = "pending" /\ new.attempts = 0 /\ new.status = "none"
    BY DEF NoJob
  <1>2. \A j \in Jobs : jobs'[j] = IF j \in S THEN new ELSE jobs[j]
    BY DEF Enqueue
  <1> HIDE DEF new
  <1>3. Final
    BY <1>2 DEF Final, Settled
  <1>4. ASSUME NEW j \in Jobs PROVE JobOK(j)'
    BY <1>1, <1>2, DeliveryAssumption DEF DeliveryInv, JobOK
  <1>5. ASSUME NEW p \in Processors PROVE CallOK(p)'
    <2> SUFFICES ASSUME InCall(p) PROVE CallOK(p)'
      BY DEF CallOK, InCall
    <2>1. call[p].job \in Jobs /\ call[p].attempt \in 1..MaxAttempts
      BY CallTypes
    <2>2. jobs[call[p].job].state # "none"
      BY <2>1 DEF DeliveryInv, CallOK, JobOK
    <2>3. jobs'[call[p].job] = jobs[call[p].job]
      BY <1>2, <2>1, <2>2
    <2> QED
      BY <2>3 DEF DeliveryInv, CallOK, InCall
  <1>6. \A p, q \in Processors : p # q => Apart(p, q)'
    BY DEF DeliveryInv, Apart, InCall
  <1> QED
    BY <1>3, <1>4, <1>5, <1>6 DEF DeliveryInv

LEMMA SweepOK ==
  ASSUME TypeInv, DeliveryInv, NEW j \in Jobs
  PROVE  /\ Swept[j].state = "none" => Swept[j].attempts = 0
         /\ Swept[j].attempts = 0 => Swept[j].state \in {"none", "pending"} /\ Swept[j].status = "none"
         /\ Swept[j].state = "delivered" => Swept[j].status = "ok" /\ j \in accepted
         /\ Swept[j].state = "dead" => Swept[j].status = "refused" \/ Swept[j].attempts = MaxAttempts
         /\ Settled(j) => Swept[j].state = jobs[j].state
         /\ jobs[j].lease > 0 => Swept[j].state = jobs[j].state
         /\ Swept[j].state = "none" <=> jobs[j].state = "none"
  <1>1. jobs[j].attempts \in 0..MaxAttempts /\ MaxAttempts \in Nat \ {0}
    BY DeliveryAssumption DEF TypeInv, TypeOK, DeliveryTypeOK, Job
  <1>2. JobOK(j)
    BY DEF DeliveryInv
  <1>3. /\ Swept[j].attempts = jobs[j].attempts /\ Swept[j].status = jobs[j].status
        /\ Swept[j].state = IF Exhausted(j) THEN "dead" ELSE jobs[j].state
    BY SweptJob
  <1>4. CASE Exhausted(j)
    BY <1>1, <1>2, <1>3, <1>4 DEF JobOK, Exhausted, Expired, Settled
  <1>5. CASE ~Exhausted(j)
    BY <1>2, <1>3, <1>5 DEF JobOK
  <1> QED
    BY <1>4, <1>5

LEMMA FindNothingOK ==
  ASSUME TypeInv, DeliveryInv, FindNothing
  PROVE  DeliveryInv' /\ Final
  <1>1. jobs' = Swept /\ UNCHANGED <<call, accepted>>
    BY DEF FindNothing
  <1>2. \A j \in Jobs : JobOK(j)'
    BY <1>1, SweepOK DEF JobOK
  <1>3. ASSUME NEW p \in Processors PROVE CallOK(p)'
    <2> SUFFICES ASSUME InCall(p) PROVE CallOK(p)'
      BY <1>1 DEF CallOK, InCall
    <2> DEFINE k == call[p].job
    <2>1. k \in Jobs /\ call[p].left \in 0..Lease /\ CallOK(p)
      BY CallTypes DEF Call, DeliveryInv
    <2>2. /\ Swept[k].attempts = jobs[k].attempts /\ Swept[k].lease = jobs[k].lease
          /\ jobs[k].lease > 0 => Swept[k].state = jobs[k].state
      BY <2>1, SweptJob, SweepOK
    <2> QED
      BY <1>1, <2>1, <2>2 DEF CallOK, InCall
  <1>4. \A p, q \in Processors : p # q => Apart(p, q)'
    BY <1>1 DEF DeliveryInv, Apart, InCall
  <1>5. Final
    BY <1>1, SweepOK DEF Final
  <1> QED
    BY <1>2, <1>3, <1>4, <1>5 DEF DeliveryInv

LEMMA ClaimOK ==
  ASSUME TypeInv, DeliveryInv, NEW p \in Processors, NEW j \in Jobs, Claim(p, j)
  PROVE  DeliveryInv' /\ Final
  <1> DEFINE c == [job |-> j, attempt |-> jobs[j].attempts + 1, sent |-> FALSE, left |-> Lease]
  <1>1. /\ jobs'[j].state = "sending" /\ jobs'[j].lease = Lease
        /\ jobs'[j].attempts = jobs[j].attempts + 1 /\ jobs[j].attempts \in Nat
        /\ jobs'[j].status = jobs[j].status
        /\ \A k \in Jobs \ {j} : jobs'[k] = Swept[k]
        /\ call' = [call EXCEPT ![p] = c]
    BY Claimed
  <1>2. c.job = j /\ c.attempt = jobs[j].attempts + 1 /\ c.left = Lease /\ c # NoCall
    BY NoTypes
  <1> HIDE DEF c
  <1>3. call'[p] = c /\ \A q \in Processors \ {p} : call'[q] = call[q]
    BY <1>1 DEF TypeInv, TypeOK, DeliveryTypeOK
  <1>4. accepted' = accepted /\ Due(j)
    BY DEF Claim
  <1>5. jobs[j].state = "pending" \/ (jobs[j].state = "sending" /\ jobs[j].lease = 0)
    BY <1>4 DEF Due, Expired
  <1>6. ASSUME NEW k \in Jobs PROVE JobOK(k)'
    <2>1. CASE k = j
      BY <2>1, <1>1 DEF JobOK
    <2>2. CASE k # j
      BY <2>2, <1>1, <1>4, SweepOK DEF JobOK
    <2> QED
      BY <2>1, <2>2
  <1>7. ASSUME NEW q \in Processors \ {p}, InCall(q)
        PROVE  /\ CallOK(q)'
               /\ call[q].job = j => call[q].attempt < c.attempt
    <2> DEFINE k == call[q].job
               a == call[q].attempt
    <2>1. k \in Jobs /\ a \in 1..MaxAttempts /\ call[q].left \in 0..Lease
      BY <1>7, CallTypes DEF Call
    <2>2. a <= jobs[k].attempts
      BY <1>7 DEF DeliveryInv, CallOK
    <2>3. call[q].left > 0 => /\ jobs[k].state = "sending" /\ jobs[k].attempts = a
                              /\ jobs[k].lease = call[q].left
      BY <1>7 DEF DeliveryInv, CallOK
    <2>4. call'[q] = call[q]
      BY <1>3
    <2> HIDE DEF k, a
    <2>5. CASE k = j
      <3>1. ~(call[q].left > 0)
        BY <2>5, <2>3, <1>5, <2>1
      <3>2. a <= jobs'[k].attempts /\ a < c.attempt
        BY <2>5, <2>1, <2>2, <1>1, <1>2
      <3> QED
        BY <3>1, <3>2, <2>4 DEF CallOK, InCall, k, a
    <2>6. CASE k # j
      <3>1. /\ jobs'[k] = Swept[k] /\ Swept[k].attempts = jobs[k].attempts
            /\ Swept[k].lease = jobs[k].lease
            /\ jobs[k].lease > 0 => Swept[k].state = jobs[k].state
        BY <2>6, <2>1, <1>1, SweptJob, SweepOK
      <3> QED
        BY <2>2, <2>3, <2>4, <2>6, <3>1 DEF CallOK, InCall, k, a
    <2> QED
      BY <2>5, <2>6
  <1>8. CallOK(p)'
    BY <1>1, <1>2, <1>3 DEF CallOK
  <1>9. ASSUME NEW q \in Processors PROVE CallOK(q)'
    <2>1. CASE q = p
      BY <2>1, <1>8
    <2>2. CASE q # p /\ InCall(q)
      BY <2>2, <1>7
    <2>3. CASE q # p /\ ~InCall(q)
      BY <2>3, <1>3 DEF CallOK, InCall
    <2> QED
      BY <2>1, <2>2, <2>3
  <1>10. ASSUME NEW q \in Processors, NEW r \in Processors, q # r PROVE Apart(q, r)'
    <2>1. ASSUME NEW u \in Processors \ {p}, call'[u] # NoCall, call'[u].job = j
          PROVE  call'[u].attempt # c.attempt
      <3>1. InCall(u) /\ call[u].job = j /\ call'[u] = call[u]
        BY <2>1, <1>3 DEF InCall
      <3>2. call[u].attempt < c.attempt /\ call[u].attempt \in 1..MaxAttempts
        BY <3>1, <1>7, CallTypes
      <3> QED
        BY <3>1, <3>2, <1>1, <1>2
    <2>2. CASE q = p
      BY <2>1, <2>2, <1>2, <1>3, <1>10 DEF Apart, InCall
    <2>3. CASE r = p
      BY <2>1, <2>3, <1>2, <1>3, <1>10 DEF Apart, InCall
    <2>4. CASE q # p /\ r # p
      BY <2>4, <1>3, <1>10 DEF DeliveryInv, Apart, InCall
    <2> QED
      BY <2>2, <2>3, <2>4
  <1>11. Final
    BY <1>1, <1>5, SweepOK DEF Final, Settled
  <1> QED
    BY <1>6, <1>9, <1>10, <1>11 DEF DeliveryInv

LEMMA FinishOK ==
  ASSUME TypeInv, DeliveryInv, NEW p \in Processors, NEW outcome \in Outcomes,
         FinishCall(p, outcome)
  PROVE  DeliveryInv' /\ Final
  <1> DEFINE k == call[p].job
             n == call[p].attempt
  <1>1. k \in Jobs /\ n \in 1..MaxAttempts
    BY CallTypes DEF FinishCall
  <1>2. /\ ~Fenced(p) => jobs' = jobs
        /\ \A j \in Jobs \ {k} : jobs'[j] = jobs[j]
        /\ Fenced(p) => /\ jobs'[k].state = Resolution(outcome, n)
                        /\ jobs'[k].attempts = jobs[k].attempts
                        /\ jobs'[k].status = outcome
    BY Finished
  <1>3. call'[p] = NoCall /\ \A q \in Processors \ {p} : call'[q] = call[q]
    BY Finished DEF TypeInv, TypeOK, DeliveryTypeOK
  <1>4. accepted' = accepted /\ CanEnd(p, outcome) /\ InCall(p)
    BY DEF FinishCall
  <1>5. Fenced(p) => jobs[k].state = "sending" /\ jobs[k].attempts = n
    BY DEF Fenced
  <1>6. /\ Resolution(outcome, n) = "delivered" => outcome = "ok" /\ k \in accepted
        /\ Resolution(outcome, n) = "dead" => outcome = "refused" \/ n = MaxAttempts
        /\ Resolution(outcome, n) \in {"delivered", "dead", "pending"}
    BY <1>1, <1>4, DeliveryAssumption DEF Resolution, CanEnd, Outcomes
  <1>7. \A q \in Processors \ {p} : InCall(q) /\ call[q].job = k => call[q].attempt # n
    BY <1>4 DEF DeliveryInv, Apart
  <1> HIDE DEF k, n
  <1>8. ASSUME NEW j \in Jobs PROVE JobOK(j)'
    <2>1. CASE j = k /\ Fenced(p)
      BY <2>1, <1>1, <1>2, <1>4, <1>5, <1>6 DEF JobOK
    <2>2. CASE ~(j = k /\ Fenced(p))
      BY <2>2, <1>2, <1>4 DEF DeliveryInv, JobOK
    <2> QED
      BY <2>1, <2>2
  <1>9. ASSUME NEW q \in Processors PROVE CallOK(q)'
    <2>1. CASE q = p \/ ~InCall(q)
      BY <2>1, <1>3 DEF CallOK, InCall
    <2>2. CASE q # p /\ InCall(q)
      <3> DEFINE m == call[q].job
      <3>1. m \in Jobs /\ call'[q] = call[q] /\ CallOK(q)
        BY <2>2, <1>3, CallTypes DEF DeliveryInv
      <3>2. CASE m = k /\ Fenced(p)
        <4>1. ~(call[q].left > 0)
          BY <2>2, <3>1, <3>2, <1>5, <1>7 DEF CallOK
        <4>2. call[q].attempt <= jobs'[m].attempts
          BY <2>2, <3>1, <3>2, <1>2 DEF CallOK
        <4> QED
          BY <4>1, <4>2, <3>1 DEF CallOK
      <3>3. CASE ~(m = k /\ Fenced(p))
        <4>1. jobs'[m] = jobs[m]
          BY <3>1, <3>3, <1>2
        <4> QED
          BY <3>1, <4>1 DEF CallOK, InCall
      <3> QED
        BY <3>2, <3>3
    <2> QED
      BY <2>1, <2>2
  <1>10. \A q, r \in Processors : q # r => Apart(q, r)'
    BY <1>3 DEF DeliveryInv, Apart, InCall
  <1>11. Final
    BY <1>2, <1>5 DEF Final, Settled
  <1> QED
    BY <1>8, <1>9, <1>10, <1>11 DEF DeliveryInv

LEMMA AgeOK ==
  ASSUME TypeInv, DeliveryInv, AgeDelivery
  PROVE  DeliveryInv' /\ Final
  <1>1. /\ \A j \in Jobs : /\ jobs'[j].state = jobs[j].state
                           /\ jobs'[j].attempts = jobs[j].attempts
                           /\ jobs'[j].status = jobs[j].status
                           /\ jobs'[j].lease = Less(jobs[j].lease)
        /\ \A p \in Processors : call[p] = NoCall => call'[p] = NoCall
        /\ \A p \in Processors : InCall(p) =>
                           /\ call'[p].job = call[p].job /\ call'[p].attempt = call[p].attempt
                           /\ call'[p].left = Less(call[p].left)
    BY AgeType
  <1>2. accepted' = accepted
    BY DEF AgeDelivery
  <1>3. \A j \in Jobs : JobOK(j)'
    BY <1>1, <1>2 DEF DeliveryInv, JobOK
  <1>4. ASSUME NEW p \in Processors PROVE CallOK(p)'
    <2> SUFFICES ASSUME InCall(p) PROVE CallOK(p)'
      BY <1>1 DEF CallOK, InCall
    <2>1. call[p].job \in Jobs /\ call[p].left \in 0..Lease /\ CallOK(p)
      BY CallTypes DEF Call, DeliveryInv
    <2>2. Lease \in Nat
      BY DeliveryAssumption
    <2>3. Less(call[p].left) > 0 => call[p].left > 0
      BY <2>1, <2>2 DEF Less
    <2> QED
      BY <1>1, <2>1, <2>3 DEF CallOK
  <1>5. \A p, q \in Processors : p # q => Apart(p, q)'
    BY <1>1 DEF DeliveryInv, Apart, InCall
  <1>6. Final
    BY <1>1 DEF Final
  <1> QED
    BY <1>3, <1>4, <1>5, <1>6 DEF DeliveryInv

\* Steps that leave the jobs alone: calls go on or are given up, receivers receive.
LEMMA JobsKept ==
  ASSUME TypeInv, DeliveryInv, jobs' = jobs, accepted \subseteq accepted',
         \A p \in Processors : call'[p] # NoCall =>
            /\ call[p] # NoCall /\ call'[p].job = call[p].job
            /\ call'[p].attempt = call[p].attempt /\ call'[p].left = call[p].left
  PROVE  DeliveryInv' /\ Final
  <1>1. \A j \in Jobs : JobOK(j)'
    BY DEF DeliveryInv, JobOK
  <1>2. \A p \in Processors : CallOK(p)'
    BY DEF DeliveryInv, CallOK, InCall
  <1>3. \A p, q \in Processors : p # q => Apart(p, q)'
    BY DEF DeliveryInv, Apart, InCall
  <1>4. Final
    BY DEF Final
  <1> QED
    BY <1>1, <1>2, <1>3, <1>4 DEF DeliveryInv

(***************************************************************************)
(* The journal's links.  What process writes for a record is new as long   *)
(* as the record is not processed; what a cycle is about to publish is an  *)
(* alert, so that marking it leaves the links alone.                       *)
(***************************************************************************)
LinkInv ==
  /\ \A c \in checks : c.event \in processed
  /\ \A d \in Breaches : d \in checks <=> alerts[d] # "none"
  /\ \A j \in Jobs : j \in checks <=> jobs[j].state # "none"
  /\ \A p \in Processors : \A d \in todo[p] : alerts[d] # "none"

SafeInv == TypeInv /\ DeliveryInv /\ LinkInv

\* Only process makes new jobs.
LEMMA NoneKept ==
  ASSUME TypeInv, DeliveryInv,
         \/ \E p \in Processors : \E j \in Jobs : Claim(p, j)
         \/ FindNothing
         \/ \E p \in Processors : \E outcome \in Outcomes : FinishCall(p, outcome)
         \/ AgeDelivery
         \/ jobs' = jobs
  PROVE  \A j \in Jobs : jobs'[j].state = "none" <=> jobs[j].state = "none"
  <1>1. ASSUME NEW p \in Processors, NEW j \in Jobs, Claim(p, j)
        PROVE  \A k \in Jobs : jobs'[k].state = "none" <=> jobs[k].state = "none"
    <2>1. jobs'[j].state = "sending" /\ \A k \in Jobs \ {j} : jobs'[k] = Swept[k]
      BY <1>1, Claimed
    <2>2. jobs[j].state # "none"
      BY <1>1 DEF Claim, Due, Expired
    <2> QED
      BY <2>1, <2>2, SweepOK
  <1>2. CASE FindNothing
    BY <1>2, SweepOK DEF FindNothing
  <1>3. ASSUME NEW p \in Processors, NEW outcome \in Outcomes, FinishCall(p, outcome)
        PROVE  \A k \in Jobs : jobs'[k].state = "none" <=> jobs[k].state = "none"
    <2> DEFINE k == call[p].job
               r == Resolution(outcome, call[p].attempt)
    <2>1. /\ ~Fenced(p) => jobs' = jobs
          /\ \A j \in Jobs \ {k} : jobs'[j] = jobs[j]
          /\ Fenced(p) => jobs'[k].state = r
      BY <1>3, Finished
    <2>2. r # "none"
      BY DEF Resolution
    <2>3. Fenced(p) => jobs[k].state # "none"
      BY DEF Fenced
    <2> HIDE DEF k, r
    <2> QED
      BY <2>1, <2>2, <2>3
  <1>4. CASE AgeDelivery
    BY <1>4, AgeType
  <1> QED
    BY <1>1, <1>2, <1>3, <1>4

LEMMA LinkKept ==
  ASSUME LinkInv, checks' = checks, processed' = processed, alerts' = alerts,
         \A j \in Jobs : jobs'[j].state = "none" <=> jobs[j].state = "none",
         \A p \in Processors : todo'[p] \subseteq todo[p] \cup Outbox
  PROVE  LinkInv'
  BY DEF LinkInv, Outbox

LEMMA SafeProcess ==
  ASSUME SafeInv, NEW p \in Processors, Process(p)
  PROVE  DeliveryInv' /\ LinkInv' /\ Final
  <1> DEFINE id == log[next[p]].id
             found == ChecksOf(log[next[p]])
             fresh == id \notin processed
  <1>1. /\ UNCHANGED <<todo, call, accepted>>
        /\ IF fresh
           THEN /\ checks' = checks \cup found
                /\ alerts' = [d \in Breaches |-> IF d \in found THEN "pending" ELSE alerts[d]]
                /\ processed' = processed \cup {id}
                /\ Enqueue(found \cap Jobs)
           ELSE UNCHANGED <<checks, alerts, processed, jobs>>
    BY DEF Process
  <1>2. \A c \in found : c.event = id
    BY DEF ChecksOf
  <1> HIDE DEF id, found
  <1>3. CASE fresh
    <2>1. \A c \in found : c \notin checks
      BY <1>2, <1>3 DEF SafeInv, LinkInv
    <2>2. \A j \in (found \cap Jobs) \cap Jobs : jobs[j].state = "none"
      BY <2>1 DEF SafeInv, LinkInv
    <2>3. DeliveryInv' /\ Final
      BY <1>1, <1>3, <2>2, EnqueueOK DEF SafeInv
    <2>4. \A c \in checks' : c.event \in processed'
      BY <1>1, <1>2, <1>3 DEF SafeInv, LinkInv
    <2>5. \A d \in Breaches : d \in checks' <=> alerts'[d] # "none"
      BY <1>1, <1>3 DEF SafeInv, LinkInv
    <2>6. \A j \in Jobs : j \in checks' <=> jobs'[j].state # "none"
      <3> SUFFICES ASSUME NEW j \in Jobs PROVE j \in checks' <=> jobs'[j].state # "none"
        OBVIOUS
      <3>1. CASE j \in found
        BY <3>1, <1>1, <1>3 DEF Enqueue, NoJob
      <3>2. CASE j \notin found
        BY <3>2, <1>1, <1>3 DEF Enqueue, SafeInv, LinkInv
      <3> QED
        BY <3>1, <3>2
    <2>7. \A q \in Processors : \A d \in todo'[q] : alerts'[d] # "none"
      BY <1>1, <1>3 DEF SafeInv, LinkInv, TypeInv, TypeOK
    <2> QED
      BY <2>3, <2>4, <2>5, <2>6, <2>7 DEF LinkInv
  <1>4. CASE ~fresh
    <2>1. jobs' = jobs
      BY <1>1, <1>4
    <2>2. DeliveryInv' /\ Final
      BY <1>1, <2>1, JobsKept DEF SafeInv
    <2>3. LinkInv'
      BY <1>1, <1>4, <2>1, LinkKept DEF SafeInv
    <2> QED
      BY <2>2, <2>3
  <1> QED
    BY <1>3, <1>4

LEMMA SafeMark ==
  ASSUME SafeInv, NEW p \in Processors, Mark(p)
  PROVE  DeliveryInv' /\ LinkInv' /\ Final
  <1> DEFINE d == Posting(p)
  <1>1. d \in todo[p] /\ d \in Breaches
    BY AlertInHand DEF Mark, SafeInv
  <1>2. /\ UNCHANGED <<checks, processed>> /\ UNCHANGED <<jobs, call, accepted>>
        /\ alerts' = [alerts EXCEPT ![d] = "published"]
        /\ \A q \in Processors : todo'[q] \subseteq todo[q]
    BY DEF Mark, delivery, SafeInv, TypeInv, TypeOK
  <1> HIDE DEF d
  <1>3. DeliveryInv' /\ Final
    BY <1>2, JobsKept DEF SafeInv
  <1>4. alerts[d] # "none"
    BY <1>1 DEF SafeInv, LinkInv
  <1>5. \A c \in Breaches : alerts'[c] = "none" <=> alerts[c] = "none"
    BY <1>1, <1>2, <1>4 DEF SafeInv, TypeInv, TypeOK
  <1>6. \A q \in Processors : \A c \in todo'[q] : c \in Breaches /\ alerts[c] # "none"
    BY <1>2 DEF SafeInv, TypeInv, TypeOK, LinkInv
  <1>7. LinkInv'
    BY <1>2, <1>5, <1>6 DEF SafeInv, LinkInv
  <1> QED
    BY <1>3, <1>7

LEMMA SafeStep == SafeInv /\ [Next]_vars => DeliveryInv' /\ LinkInv' /\ Final
  <1> SUFFICES ASSUME SafeInv, [Next]_vars PROVE DeliveryInv' /\ LinkInv' /\ Final
    OBVIOUS
  <1>1. TypeInv /\ DeliveryInv /\ LinkInv
    BY DEF SafeInv
  \* The jobs are left alone, the journal too.
  <1>2. ASSUME UNCHANGED <<jobs, call, accepted>>, UNCHANGED <<checks, processed, alerts>>,
               \A p \in Processors : todo'[p] \subseteq todo[p] \cup Outbox
        PROVE  DeliveryInv' /\ LinkInv' /\ Final
    BY <1>1, <1>2, JobsKept, LinkKept
  <1>3. CASE UNCHANGED vars
    BY <1>3, <1>2 DEF vars, journal, cycle, delivery
  <1>4. ASSUME NEW p \in Processors, EndCycle(p)
        PROVE  \A q \in Processors : todo'[q] \subseteq todo[q] \cup Outbox
    BY <1>4, <1>1 DEF EndCycle, TypeInv, TypeOK
  <1>5. ASSUME NEW p \in Processors, Step(p) PROVE DeliveryInv' /\ LinkInv' /\ Final
    <2>1. CASE StartCycle(p) \/ Publish(p)
      BY <2>1, <1>2 DEF StartCycle, Publish, journal, delivery
    <2>2. CASE QueueFull(p) \/ LimitReached(p)
      BY <2>2, <1>2, <1>4 DEF QueueFull, LimitReached, journal, delivery
    <2>3. CASE Advance(p)
      BY <2>3, <1>2 DEF Advance, delivery
    <2>4. CASE ReadOutbox(p)
      <3>1. \A q \in Processors : todo'[q] \subseteq todo[q] \cup Outbox
        BY <2>4, <1>1 DEF ReadOutbox, TypeInv, TypeOK
      <3> QED
        BY <2>4, <3>1, <1>2 DEF ReadOutbox, journal, delivery
    <2>5. CASE StartCall(p)
      <3>1. PICK j \in Jobs : Claim(p, j)
        BY <2>5 DEF StartCall
      <3>2. DeliveryInv' /\ Final
        BY <3>1, <1>1, ClaimOK
      <3>3. \A k \in Jobs : jobs'[k].state = "none" <=> jobs[k].state = "none"
        BY <3>1, <1>1, NoneKept
      <3> QED
        BY <2>5, <3>2, <3>3, <1>1, LinkKept DEF StartCall, journal
    <2>6. CASE Send(p)
      <3>1. call'[p].job = call[p].job /\ call'[p].attempt = call[p].attempt
            /\ call'[p].left = call[p].left /\ InCall(p)
            /\ \A q \in Processors \ {p} : call'[q] = call[q]
        <4>1. call[p] \in Call /\ InCall(p) /\ call' = [call EXCEPT ![p].sent = TRUE]
          BY <2>6, <1>1, CallTypes DEF Send, Request
        <4> QED
          BY <4>1, <1>1 DEF Call, TypeInv, TypeOK, DeliveryTypeOK
      <3>2. /\ UNCHANGED <<jobs, accepted>> /\ UNCHANGED <<checks, processed, alerts, todo>>
        BY <2>6 DEF Send, Request, journal, cycle
      <3>3. DeliveryInv' /\ Final
        BY <3>1, <3>2, <1>1, JobsKept DEF InCall
      <3> QED
        BY <3>2, <3>3, <1>1, LinkKept
    <2>7. CASE EndCall(p)
      <3>1. PICK outcome \in Outcomes : FinishCall(p, outcome)
        BY <2>7 DEF EndCall
      <3>2. DeliveryInv' /\ Final
        BY <3>1, <1>1, FinishOK
      <3>3. \A k \in Jobs : jobs'[k].state = "none" <=> jobs[k].state = "none"
        BY <3>1, <1>1, NoneKept
      <3> QED
        BY <2>7, <3>2, <3>3, <1>1, LinkKept DEF EndCall, journal
    <2>8. CASE NothingDue(p)
      <3>1. FindNothing /\ EndCycle(p) /\ UNCHANGED journal
        BY <2>8 DEF NothingDue
      <3>2. DeliveryInv' /\ Final
        BY <3>1, <1>1, FindNothingOK
      <3>3. \A k \in Jobs : jobs'[k].state = "none" <=> jobs[k].state = "none"
        BY <3>1, <1>1, NoneKept
      <3> QED
        BY <3>1, <3>2, <3>3, <1>1, <1>4, LinkKept DEF journal
    <2> QED
      BY <1>5, <2>1, <2>2, <2>3, <2>4, <2>5, <2>6, <2>7, <2>8, SafeProcess, SafeMark DEF Step
  <1>6. ASSUME NEW p \in Processors, Abort(p) PROVE DeliveryInv' /\ LinkInv' /\ Final
    <2>1. /\ UNCHANGED <<jobs, accepted>> /\ UNCHANGED <<checks, processed, alerts>>
          /\ call' = [call EXCEPT ![p] = NoCall] /\ EndCycle(p)
      BY <1>6 DEF Abort, journal
    <2>2. \A q \in Processors : call'[q] # NoCall => call'[q] = call[q]
      BY <2>1, <1>1 DEF TypeInv, TypeOK, DeliveryTypeOK
    <2>3. DeliveryInv' /\ Final
      BY <2>1, <2>2, <1>1, JobsKept
    <2> QED
      BY <2>1, <2>3, <1>1, <1>4, LinkKept
  <1>7. ASSUME NEW j \in Jobs, Receive(j) PROVE DeliveryInv' /\ LinkInv' /\ Final
    <2>1. /\ UNCHANGED <<jobs, call>> /\ UNCHANGED <<checks, processed, alerts, todo>>
          /\ accepted \subseteq accepted'
      BY <1>7 DEF Receive, Receipt, journal, cycle
    <2> QED
      BY <2>1, <1>1, JobsKept, LinkKept
  <1>8. CASE Elapse
    <2>1. AgeDelivery /\ UNCHANGED <<checks, processed, alerts, todo>>
      BY <1>8 DEF Elapse, journal, cycle
    <2>2. \A k \in Jobs : jobs'[k].state = "none" <=> jobs[k].state = "none"
      BY <2>1, <1>1, NoneKept
    <2> QED
      BY <2>1, <2>2, <1>1, AgeOK, LinkKept
  <1>9. CASE \/ \E e \in Events : Ingest(e)
             \/ \E r \in Rules : StartRegister(r) \/ Register(r) \/ Refuse(r)
    BY <1>9, <1>2 DEF Ingest, StartRegister, Register, Refuse, journal, cycle, delivery
  <1> QED
    BY <1>3, <1>5, <1>6, <1>7, <1>8, <1>9 DEF Next

LEMMA SafeInit == Init => SafeInv
  <1> SUFFICES ASSUME Init PROVE SafeInv
    OBVIOUS
  <1>1. /\ \A j \in Jobs : jobs[j] = NoJob
        /\ \A p \in Processors : ~InCall(p) /\ todo[p] = {}
        /\ checks = {} /\ \A d \in Breaches : alerts[d] = "none"
    BY DEF Init, DeliveryInit, InCall
  <1>2. DeliveryInv
    BY <1>1 DEF DeliveryInv, JobOK, CallOK, Apart, NoJob
  <1>3. LinkInv
    BY <1>1 DEF LinkInv, NoJob
  <1> QED
    BY <1>2, <1>3, InitType DEF SafeInv

LEMMA Safe == Spec => []SafeInv
  <1>1. SafeInv /\ [Next]_vars => SafeInv'
    BY NextType, SafeStep DEF SafeInv
  <1> QED
    BY SafeInit, <1>1, PTL DEF Spec

\* While the lease of a call of deliverOne runs, by its own clock, claim has
\* given the job to no other processor and finish has not settled it.
THEOREM LeaseProtects == Spec => []LiveLeaseHolds
  <1>1. SafeInv => LiveLeaseHolds
    BY DEF SafeInv, DeliveryInv, CallOK, LiveLeaseHolds
  <1> QED
    BY Safe, <1>1, PTL

\* finish and claim never report a delivery that the receiver did not take in,
\* nor give up a job that has attempts left and was not refused.
THEOREM OutcomesExplained == Spec => []OutcomeExplained
  <1>1. SafeInv => OutcomeExplained
    BY DEF SafeInv, DeliveryInv, JobOK, OutcomeExplained
  <1> QED
    BY Safe, <1>1, PTL

\* At every moment a copy of the journal could be taken, a match, its alert and
\* its webhook job are all there or all missing, and the columns of a job agree.
THEOREM JournalConsistent == Spec => []JournalLinked
  <1>1. SafeInv => JournalLinked
    BY DEF SafeInv, TypeInv, RoomOK, LinkInv, DeliveryInv, JobOK, JournalLinked
  <1> QED
    BY Safe, <1>1, PTL

\* No late answer, retry or second processor takes a job out of delivered or dead.
THEOREM SettledStays == Spec => SettledIsFinal
  <1>1. SafeInv /\ [Next]_vars =>
          [\A j \in Jobs : Settled(j) => jobs'[j].state = jobs[j].state]_jobs
    BY SafeStep DEF Final
  <1> QED
    BY Safe, <1>1, PTL DEF Spec, SettledIsFinal
(***************************************************************************)
(* The versions.  A version enters the table after its activation time and *)
(* after the receipt of every record that is stored, so one that comes     *)
(* later is none of those a stored record must respect, and a record that  *)
(* is processed has its checks for good.                                   *)
(***************************************************************************)
\* The versions of r that were in the table before t.
Early(history, r, t) == {v \in DOMAIN history[r] : history[r][v].committed < t}
Found(done, record, r) == {c \in done : c.event = record.id /\ c.rule = r}

\* What rule r has found in a record.
Judged(done, history, seen, record, r) ==
  /\ \A c \in Found(done, record, r) :
        /\ c.version \in DOMAIN history[r] /\ history[r][c.version].created_at <= record.at
        /\ \A v \in Early(history, r, record.at) : v <= c.version
  /\ record.id \in seen \cap Events /\ Early(history, r, record.at) # {} => Found(done, record, r) # {}

Once(done) == \A c, d \in done : c.event = d.event /\ c.rule = d.rule => c = d

PastOnly(history, now) ==
  \A r \in Rules : /\ Len(history[r]) <= MaxVersions
                   /\ \A v \in DOMAIN history[r] : /\ history[r][v].created_at <= history[r][v].committed
                                                   /\ history[r][v].committed <= now

\* Waiting registrations read the clock before now.
Read(calls, now) == \A r \in Rules : \A t \in calls[r] : t <= now

VersionInv ==
  /\ processed \subseteq StoredIds
  /\ \A c \in checks : c.event \in processed
  /\ Once(checks) /\ PastOnly(versions, clock) /\ Read(registering, clock)
  /\ \A i \in 1..Len(log) :
        /\ log[i].at <= clock
        /\ \A r \in Rules : Judged(checks, versions, processed, log[i], r)

LEMMA VersionTimes ==
  ASSUME TypeInv
  PROVE  /\ clock \in 0..MaxClock /\ MaxClock \in Nat /\ clock \in Nat /\ DOMAIN log = 1..Len(log)
         /\ \A i \in 1..Len(log) : log[i].at \in Nat
         /\ \A r \in Rules : \A v \in DOMAIN versions[r] :
               /\ versions[r][v].created_at \in Nat /\ versions[r][v].committed \in Nat
               /\ v \in Nat /\ v > 0
         /\ \A r \in Rules : \A t \in registering[r] : t \in Nat
  <1>1. \A i \in 1..Len(log) : log[i] \in Record
    BY DEF TypeInv, TypeOK
  <1>2. \A r \in Rules : versions[r] \in Seq(Version) /\ registering[r] \subseteq 0..MaxClock
    BY DEF TypeInv, TypeOK
  <1>3. clock \in 0..MaxClock /\ DOMAIN log = 1..Len(log) /\ MaxClock \in Nat
    BY RulesAssumption DEF TypeInv, TypeOK
  <1>4. \A r \in Rules : \A v \in DOMAIN versions[r] : versions[r][v] \in Version /\ v \in Nat /\ v > 0
    BY <1>2
  <1> QED
    BY <1>1, <1>2, <1>3, <1>4 DEF Record, Version

LEMMA VersionsKept ==
  ASSUME TypeInv, VersionInv, UNCHANGED <<log, versions, checks, processed>>, clock <= clock',
         clock' \in Nat, Read(registering', clock')
  PROVE  VersionInv'
  <1>1. PastOnly(versions', clock')
    BY VersionTimes DEF VersionInv, PastOnly
  <1>2. \A i \in 1..Len(log') : log'[i].at <= clock'
    BY VersionTimes DEF VersionInv
  <1> QED
    BY <1>1, <1>2 DEF VersionInv, StoredIds

\* A record that is new has been found nothing in.
LEMMA VersionsStore ==
  ASSUME TypeInv, VersionInv, NEW id \in Events \cup Breaches,
         NEW at \in 0..MaxClock, at <= clock, Store(id, at),
         UNCHANGED <<clock, registering, versions, checks, processed>>
  PROVE  VersionInv'
  <1>1. CASE id \in StoredIds
    <2>1. clock \in Nat /\ log' = log
      BY <1>1, VersionTimes DEF Store
    <2> QED
      BY <2>1, VersionsKept DEF VersionInv
  <1>2. CASE id \notin StoredIds
    <2> DEFINE new == [id |-> id, at |-> at]
    <2>1. log \in Seq(Record) /\ log' = Append(log, new) /\ new \in Record /\ new.id = id /\ new.at = at
      BY <1>2 DEF TypeInv, TypeOK, Record, Store
    <2> HIDE DEF new
    <2>2. /\ \A i \in 1..Len(log') : i \in 1..Len(log) \/ log'[i] = new
          /\ \A i \in 1..Len(log) : log'[i] = log[i]
      BY <2>1
    <2>3. StoredIds' = StoredIds \cup {id}
      BY <2>1, StoreType
    <2>4. id \notin processed /\ \A c \in checks : c.event # id
      BY <1>2 DEF VersionInv
    <2>5. \A r \in Rules : Judged(checks, versions, processed, new, r)
      BY <2>1, <2>4 DEF Judged, Found
    <2>6. ASSUME NEW i \in 1..Len(log')
          PROVE  log'[i].at <= clock /\ \A r \in Rules : Judged(checks, versions, processed, log'[i], r)
      <3>1. CASE i \in 1..Len(log)
        BY <2>2, <3>1 DEF VersionInv
      <3>2. CASE log'[i] = new
        BY <2>1, <2>5, <3>2
      <3> QED
        BY <2>2, <3>1, <3>2
    <2> QED
      BY <2>3, <2>6 DEF VersionInv
  <1> QED
    BY <1>1, <1>2

\* A registration that begins reads the clock, and one that is refused is forgotten.
LEMMA VersionsWait ==
  ASSUME TypeInv, VersionInv, NEW r \in Rules, StartRegister(r) \/ Refuse(r)
  PROVE  VersionInv'
  <1>1. UNCHANGED <<clock, log, versions, checks, processed>>
    BY DEF StartRegister, Refuse, journal
  <1>2. \A s \in Rules : registering'[s] \subseteq registering[s] \cup {clock}
    BY DEF StartRegister, Refuse, TypeInv, TypeOK
  <1>3. clock \in Nat /\ clock <= clock
    BY VersionTimes
  <1>4. Read(registering', clock')
    BY <1>1, <1>2, <1>3 DEF VersionInv, Read
  <1> QED
    BY <1>1, <1>3, <1>4, VersionsKept

\* A version that enters the table now was not there when any stored record was
\* received, whatever its activation time is.
LEMMA VersionsRegister ==
  ASSUME TypeInv, VersionInv, NEW r \in Rules, Register(r)
  PROVE  VersionInv'
  <1>1. PICK now \in registering[r] :
           /\ now \in 0..MaxClock /\ [created_at |-> now, committed |-> clock] \in Version
           /\ versions' = [versions EXCEPT ![r] =
                              Append(versions[r], [created_at |-> now, committed |-> clock])]
           /\ registering' = [registering EXCEPT ![r] = registering[r] \ {now}]
    BY Registered
  <1>2. /\ versions \in [Rules -> Seq(Version)] /\ clock \in 0..MaxClock /\ clock \in Nat
        /\ MaxVersions \in Nat /\ Len(versions[r]) < MaxVersions
        /\ UNCHANGED <<clock, log, checks, processed>>
    BY RulesAssumption, VersionTimes DEF TypeInv, TypeOK, Register
  <1>3. now <= clock /\ versions[r] \in Seq(Version)
    BY <1>2 DEF VersionInv, Read
  <1> DEFINE new == [created_at |-> now, committed |-> clock]
             n == Len(versions[r]) + 1
  <1>4. new.created_at = now /\ new.committed = clock /\ new \in Version
    BY <1>1
  <1> HIDE DEF new
  <1>5. versions' = [versions EXCEPT ![r] = Append(versions[r], new)]
    BY <1>1 DEF new
  <1>6. /\ DOMAIN versions'[r] = DOMAIN versions[r] \cup {n} /\ n \notin DOMAIN versions[r]
        /\ versions'[r][n] = new /\ Len(versions'[r]) = n /\ n \in Nat /\ n <= MaxVersions
        /\ \A v \in DOMAIN versions[r] : versions'[r][v] = versions[r][v]
    BY <1>2, <1>3, <1>4, <1>5
  <1>7. \A s \in Rules : s # r => versions'[s] = versions[s]
    BY <1>2, <1>5
  <1> HIDE DEF n
  <1>8. PastOnly(versions', clock)
    <2> SUFFICES ASSUME NEW s \in Rules
                 PROVE  /\ Len(versions'[s]) <= MaxVersions
                        /\ \A v \in DOMAIN versions'[s] :
                              /\ versions'[s][v].created_at <= versions'[s][v].committed
                              /\ versions'[s][v].committed <= clock
      BY DEF PastOnly
    <2>1. CASE s = r
      BY <1>2, <1>3, <1>4, <1>6, <2>1 DEF VersionInv, PastOnly
    <2>2. CASE s # r
      BY <1>7, <2>2 DEF VersionInv, PastOnly
    <2> QED
      BY <2>1, <2>2
  <1>9. Read(registering', clock)
    BY <1>1 DEF VersionInv, Read, TypeInv, TypeOK
  <1>10. ASSUME NEW i \in 1..Len(log), NEW s \in Rules
         PROVE  Judged(checks, versions', processed, log[i], s)
    <2>1. log[i].at <= clock /\ Judged(checks, versions, processed, log[i], s) /\ log[i].at \in Nat
      BY VersionTimes DEF VersionInv
    <2>2. Early(versions', s, log[i].at) = Early(versions, s, log[i].at)
      <3>1. CASE s = r
        BY <1>2, <1>4, <1>6, <2>1, <3>1 DEF Early
      <3>2. CASE s # r
        BY <1>7, <3>2 DEF Early
      <3> QED
        BY <3>1, <3>2
    <2>3. \A v \in DOMAIN versions[s] : v \in DOMAIN versions'[s] /\ versions'[s][v] = versions[s][v]
      BY <1>6, <1>7
    <2> QED
      BY <2>1, <2>2, <2>3 DEF Judged
  <1> QED
    BY <1>2, <1>8, <1>9, <1>10 DEF VersionInv, StoredIds

\* What the version of a time is.
LEMMA VersionAtIs ==
  ASSUME TypeInv, VersionInv, NEW r \in Rules, NEW t \in Nat
  PROVE  /\ VersionAt(r, t) \in {0} \cup {v \in DOMAIN versions[r] : versions[r][v].created_at <= t}
         /\ VersionAt(r, t) \in 0..MaxVersions
         /\ \A v \in DOMAIN versions[r] : versions[r][v].created_at <= t => v <= VersionAt(r, t)
  <1> DEFINE S == {0} \cup {v \in DOMAIN versions[r] : versions[r][v].created_at <= t}
  <1>1. DOMAIN versions[r] = 1..Len(versions[r]) /\ Len(versions[r]) \in Nat /\ Len(versions[r]) <= MaxVersions
        /\ MaxVersions \in Nat
    <2>1. versions[r] \in Seq(Version)
      BY DEF TypeInv, TypeOK
    <2> QED
      BY <2>1, RulesAssumption DEF VersionInv, PastOnly
  <1>2. S \subseteq 0..MaxVersions
    BY <1>1
  <1>3. IsFiniteSet(S)
    <2>1. IsFiniteSet(0..MaxVersions)
      BY <1>1, FS_Interval
    <2> QED
      BY <1>2, <2>1, FS_Subset
  <1>4. S # {} /\ S \subseteq Int
    BY <1>1, <1>2
  <1> HIDE DEF S
  <1>5. \E m \in S : \A n \in S : n <= m
    BY <1>3, <1>4, LargestExists
  <1>6. \E m \in S : \A n \in S : m >= n
    BY <1>4, <1>5
  <1>7. Max(S) \in S /\ \A n \in S : Max(S) >= n
    BY <1>6 DEF Max
  <1>8. VersionAt(r, t) = Max(S)
    BY DEF VersionAt, S
  <1>9. \A n \in S : n <= VersionAt(r, t)
    BY <1>2, <1>7, <1>8, <1>1
  <1> QED
    BY <1>2, <1>7, <1>8, <1>9 DEF S

LEMMA VersionsProcess ==
  ASSUME TypeInv, Distinct, VersionInv, NEW p \in Processors, Process(p)
  PROVE  VersionInv'
  <1> DEFINE k == next[p]
             record == log[k]
             found == ChecksOf(record)
  <1>1. /\ k \in 1..Len(log) /\ record \in Record /\ record.at \in Nat /\ clock \in Nat
        /\ checks \subseteq Check
    BY SMTT(20), RecordInHand, RulesAssumption DEF Process, Record, TypeInv, TypeOK
  <1>2. /\ UNCHANGED <<clock, registering, log, versions>>
        /\ \/ /\ record.id \notin processed
              /\ checks' = checks \cup found /\ processed' = processed \cup {record.id}
           \/ UNCHANGED <<checks, processed>>
    BY DEF Process
  <1>3. CASE UNCHANGED <<checks, processed>>
    BY <1>1, <1>2, <1>3, VersionsKept DEF VersionInv
  <1>4. CASE /\ record.id \notin processed
             /\ checks' = checks \cup found /\ processed' = processed \cup {record.id}
    <2>1. /\ found \subseteq Check
          /\ \A c \in found : c.event = record.id /\ c.version = VersionAt(c.rule, record.at)
          /\ record.id \in Events =>
                \A c \in Check : c.event = record.id /\ c.version = VersionAt(c.rule, record.at) => c \in found
      BY DEF ChecksOf
    <2> HIDE DEF found
    <2>2. \A c \in checks : c.event # record.id
      BY <1>4 DEF VersionInv
    <2>3. Once(checks')
      <3> SUFFICES ASSUME NEW c \in checks', NEW d \in checks', c.event = d.event, c.rule = d.rule
                   PROVE  c = d
        BY DEF Once
      <3>1. CASE c \in checks /\ d \in checks
        BY <3>1 DEF VersionInv, Once
      <3>2. CASE c \in found /\ d \in found
        <4>1. c.version = d.version /\ c \in Check /\ d \in Check
          BY <3>2, <2>1
        <4> QED
          BY <4>1 DEF Check
      <3> QED
        BY <3>1, <3>2, <2>1, <2>2, <1>4
    <2>4. \A c \in checks' : c.event \in processed'
      BY <1>4, <2>1 DEF VersionInv
    <2>5. processed' \subseteq StoredIds'
      <3>1. record.id \in StoredIds
        BY <1>1 DEF StoredIds, TypeInv, TypeOK
      <3> QED
        BY <3>1, <1>2, <1>4 DEF VersionInv, StoredIds
    <2>6. ASSUME NEW i \in 1..Len(log), NEW r \in Rules
          PROVE  Judged(checks', versions, processed', log[i], r)
      <3>1. CASE i # k
        <4>1. log[i].id # record.id
          BY <3>1, <1>1 DEF Distinct
        <4>2. Found(checks', log[i], r) = Found(checks, log[i], r)
          BY <4>1, <2>1, <1>4 DEF Found
        <4>3. log[i].id \in processed' => log[i].id \in processed
          BY <4>1, <1>4
        <4>4. Judged(checks, versions, processed, log[i], r)
          BY DEF VersionInv
        <4> QED
          BY <4>2, <4>3, <4>4 DEF Judged
      <3>2. CASE i = k
        <4> DEFINE mine == [event |-> record.id, rule |-> r, version |-> VersionAt(r, record.at)]
        <4>1. /\ VersionAt(r, record.at) \in
                    {0} \cup {v \in DOMAIN versions[r] : versions[r][v].created_at <= record.at}
              /\ VersionAt(r, record.at) \in 0..MaxVersions
              /\ \A v \in DOMAIN versions[r] :
                    versions[r][v].created_at <= record.at => v <= VersionAt(r, record.at)
          BY <1>1, VersionAtIs
        <4>2. \A c \in Found(checks', record, r) :
                 c \in Check /\ c.rule = r /\ c.version = VersionAt(r, record.at)
          BY <1>4, <2>1, <2>2 DEF Found
        <4>3. \A c \in Check : c.version # 0
          BY RulesAssumption DEF Check
        <4>4. \A v \in DOMAIN versions[r] :
                 /\ versions[r][v].created_at \in Nat /\ versions[r][v].committed \in Nat
                 /\ versions[r][v].created_at <= versions[r][v].committed
                 /\ v \in Nat /\ v > 0
          BY VersionTimes DEF VersionInv, PastOnly
        <4>5. \A v \in Early(versions, r, record.at) :
                 /\ v \in DOMAIN versions[r] /\ versions[r][v].created_at <= record.at
                 /\ v <= VersionAt(r, record.at)
          BY <1>1, <4>1, <4>4 DEF Early
        <4>6. ASSUME NEW c \in Found(checks', record, r)
              PROVE  /\ c.version \in DOMAIN versions[r] /\ versions[r][c.version].created_at <= record.at
                     /\ \A v \in Early(versions, r, record.at) : v <= c.version
          BY <4>1, <4>2, <4>3, <4>5, <4>6
        <4>7. ASSUME record.id \in Events, Early(versions, r, record.at) # {}
              PROVE  Found(checks', record, r) # {}
          <5>1. VersionAt(r, record.at) \in 1..MaxVersions
            <6>1. PICK v \in Early(versions, r, record.at) : TRUE
              BY <4>7
            <6>2. v \in Nat /\ v > 0 /\ v <= VersionAt(r, record.at)
              BY <4>4, <4>5
            <6> QED
              BY <4>1, <6>2, RulesAssumption
          <5>2. mine \in Check /\ mine.event = record.id /\ mine.rule = r
                /\ mine.version = VersionAt(mine.rule, record.at)
            BY <4>7, <5>1 DEF Check
          <5> HIDE DEF mine
          <5>3. mine \in checks'
            BY <1>4, <2>1, <4>7, <5>2
          <5> QED
            BY <5>2, <5>3 DEF Found
        <4> HIDE DEF record
        <4>8. Judged(checks', versions, processed', record, r)
          BY <4>6, <4>7 DEF Judged
        <4> QED
          BY <3>2, <4>8 DEF record
      <3> QED
        BY <3>1, <3>2
    <2> QED
      BY <1>2, <2>3, <2>4, <2>5, <2>6 DEF VersionInv
  <1> QED
    BY <1>2, <1>3, <1>4

LEMMA VersionsStep == TypeInv /\ OutboxInv /\ VersionInv /\ [Next]_vars => VersionInv'
  <1> SUFFICES ASSUME TypeInv, OutboxInv, VersionInv, [Next]_vars PROVE VersionInv'
    OBVIOUS
  <1>1. clock \in Nat /\ clock \in 0..MaxClock /\ MaxClock \in Nat
    BY RulesAssumption DEF TypeInv, TypeOK
  <1>2. ASSUME UNCHANGED <<clock, registering, log, versions, checks, processed>>
        PROVE  VersionInv'
    BY <1>1, <1>2, VersionsKept DEF VersionInv
  <1>3. CASE UNCHANGED vars
    BY <1>2, <1>3 DEF vars, journal
  <1>4. ASSUME NEW e \in Events, Ingest(e) PROVE VersionInv'
    BY <1>4, Accepted, VersionsStore DEF Ingest, journal
  <1>5. ASSUME NEW p \in Processors, Step(p) PROVE VersionInv'
    <2>1. CASE StartCycle(p) \/ QueueFull(p) \/ ReadOutbox(p) \/ LimitReached(p) \/ NothingDue(p)
      BY <2>1, <1>2 DEF StartCycle, QueueFull, ReadOutbox, LimitReached, NothingDue, journal
    <2>2. CASE StartCall(p) \/ Send(p) \/ EndCall(p)
      BY <2>2, <1>2 DEF StartCall, Send, EndCall, journal
    <2>3. CASE Advance(p) \/ Mark(p)
      BY <2>3, <1>2 DEF Advance, Mark
    <2>4. CASE Publish(p)
      <3>1. Posting(p) \in Breaches /\ clock <= clock
        BY <1>1, <2>4, AlertInHand DEF Publish
      <3> QED
        BY <1>1, <2>4, <3>1, VersionsStore DEF Publish, journal
    <2>5. CASE Process(p)
      BY <2>5, VersionsProcess DEF OutboxInv
    <2> QED
      BY <1>5, <2>1, <2>2, <2>3, <2>4, <2>5 DEF Step
  <1>6. ASSUME NEW p \in Processors, Abort(p) PROVE VersionInv'
    BY <1>6, <1>2 DEF Abort, journal
  <1>7. CASE \E j \in Jobs : Receive(j)
    BY <1>7, <1>2 DEF Receive, journal
  <1>8. CASE Elapse
    <2>1. clock' = (IF clock + 1 <= MaxClock THEN clock + 1 ELSE MaxClock)
      BY <1>1, <1>8, MinPair DEF Elapse
    <2>2. clock <= clock' /\ clock' \in Nat
      BY <1>1, <2>1
    <2>3. Read(registering', clock')
      BY <1>1, <1>8, <2>2, VersionTimes DEF Elapse, VersionInv, Read
    <2> QED
      BY <1>8, <2>2, <2>3, VersionsKept DEF Elapse, journal
  <1> QED
    BY <1>3, <1>4, <1>5, <1>6, <1>7, <1>8, VersionsRegister, VersionsWait DEF Next

\* However late a record is scanned and whatever is registered meanwhile, each
\* rule judges it at most once, by no version that was activated after its receipt
\* and none older than one that was in the table before its receipt; and a rule
\* that was in the table then does judge it.
THEOREM VersionOfItsTime == Spec => []RightVersion
  <1>1. Init => VersionInv
    BY RulesAssumption DEF Init, VersionInv, Once, PastOnly, Read, StoredIds
  <1>2. Init => OutboxInv
    BY DEF Init, OutboxInv, Distinct
  <1>3. TypeInv /\ VersionInv => RightVersion
    <2> SUFFICES ASSUME TypeInv, VersionInv, NEW i \in DOMAIN log, NEW r \in Rules
                 PROVE  LET found == {c \in checks : c.event = log[i].id /\ c.rule = r}
                            before == {v \in DOMAIN versions[r] : versions[r][v].committed < log[i].at}
                        IN  /\ Cardinality(found) <= 1
                            /\ \A c \in found :
                                  /\ c.version \in DOMAIN versions[r]
                                  /\ versions[r][c.version].created_at <= log[i].at
                                  /\ \A v \in before : v <= c.version
                            /\ log[i].id \in processed \cap Events /\ before # {} => found # {}
      BY DEF RightVersion
    <2> DEFINE found == Found(checks, log[i], r)
    <2>1. i \in 1..Len(log)
      BY DEF TypeInv, TypeOK
    <2>2. Judged(checks, versions, processed, log[i], r)
      BY <2>1 DEF VersionInv
    <2>3. \A c, d \in found : c = d
      BY DEF VersionInv, Once, Found
    <2>4. Cardinality(found) <= 1
      <3>1. CASE found = {}
        BY <3>1, FS_EmptySet
      <3>2. CASE found # {}
        <4>1. PICK c : found = {c}
          BY <2>3, <3>2
        <4>2. Cardinality({c}) = 1
          BY FS_Singleton
        <4> QED
          BY <4>1, <4>2
      <3> QED
        BY <3>1, <3>2
    <2> QED
      BY <2>2, <2>4 DEF Judged, Found, Early
  <1> QED
    BY InitType, NextType, <1>1, <1>2, OutboxStep, VersionsStep, <1>3, PTL DEF Spec
=============================================================================
