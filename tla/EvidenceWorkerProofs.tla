------------------------ MODULE EvidenceWorkerProofs ------------------------
(* Proofs about EvidenceWorker, for every value of its constants. *)
EXTENDS EvidenceWorker, TotalsProofs, SequenceTheorems

\* While a process has a job in hand, its position in the job list is valid;
\* the job it verifies has a hash, the job it sends has signed bytes.
HandPCs == {"reattach", "settle", "quote", "sign", "gate", "send", "sent", "attach"}
HashPCs == {"reattach", "settle", "gate", "send", "sent", "attach"}
RawPCs == {"gate", "send"}
CurrentOf(p) ==
    /\ pc[p] \in HandPCs => HasCurrent(p)
    /\ pc[p] \in HashPCs => snap[p][Current(p)].hash # NoTx
    /\ pc[p] \in RawPCs => snap[p][Current(p)].raw # NoTx
CurrentOK == \A p \in Procs : CurrentOf(p)

TypeInv == TypeOK /\ CurrentOK

-----------------------------------------------------------------------------
(* What the helpers preserve. *)

LEMMA NoJobType == NoJob \in Job /\ NoBundle \in Bundle
  BY BoundsAssumption DEF NoJob, Job, NoBundle, Bundle, JobStates

\* Ending a tick leaves well-formed volatile state.
LEMMA EndTickType ==
  ASSUME LocalOK, NEW p \in Procs, EndTick(p)
  PROVE  LocalOK'
  BY NoJobType, WindowsAssumption
     DEF LocalOK, EndTick, Goto, Forget, PCs, JobStates

\* Saving a well-formed row keeps the journal well-formed.
LEMMA SaveType ==
  ASSUME journal \in [Batches -> Job], NEW b \in Batches, NEW job \in Job,
         Save(b, job)
  PROVE  journal' \in [Batches -> Job]
  BY DEF Save

LEMMA HoldType ==
  ASSUME snap \in [Procs -> [Batches -> Job]], NEW p \in Procs,
         NEW b \in Batches, NEW job \in Job, Hold(p, b, job)
  PROVE  snap' \in [Procs -> [Batches -> Job]]
  BY DEF Hold

\* A new batch is a well-formed bundle.
LEMMA CommitType ==
  ASSUME StoreOK, NEW S \in SUBSET Events, NEW q \in {"worker", "other"},
         CommitBatch(S, q)
  PROVE  evidence' \in [Batches -> Bundle]
  <1>1. [events |-> S, publisher |-> q, transactions |-> <<>>] \in Bundle
    BY DEF Bundle
  <1> QED
    BY <1>1 DEF CommitBatch, StoreOK

\* Attaching a transaction keeps the bundle well-formed.
LEMMA AttachType ==
  ASSUME StoreOK, NEW b \in Batches, NEW t \in Tx, AttachTransaction(b, t)
  PROVE  evidence' \in [Batches -> Bundle]
  <1>1. CASE Attached(b, t)
    BY <1>1 DEF AttachTransaction, StoreOK
  <1>2. CASE ~Attached(b, t)
    <2>1. evidence[b] \in Bundle /\ evidence[b].transactions \in Seq(Tx)
      BY DEF StoreOK, Bundle
    <2>2. Append(evidence[b].transactions, t) \in Seq(Tx)
      BY <2>1
    <2>3. [evidence[b] EXCEPT !.transactions = Append(@, t)] \in Bundle
      BY <2>1, <2>2 DEF Bundle
    <2> QED
      BY <1>2, <2>3 DEF AttachTransaction, StoreOK
  <1> QED
    BY <1>1, <1>2

\* The rows in memory and in the journal are jobs.
LEMMA HandType ==
  ASSUME TypeOK, NEW p \in Procs, HasCurrent(p)
  PROVE  Current(p) \in Batches /\ snap[p][Current(p)] \in Job
  BY DEF TypeOK, JobsOK, LocalOK, HasCurrent, Current

LEMMA JobType ==
  ASSUME NEW job \in Job
  PROVE  /\ \A v \in JobStates : [job EXCEPT !.state = v] \in Job
         /\ job.raw \in Tx \cup {NoTx} /\ job.hash \in Tx \cup {NoTx}
         /\ job.reserve \in Nat /\ job.attempts \in 0..MaxExp
  BY DEF Job

\* A rediscovered batch becomes a well-formed job.
LEMMA NewJobType ==
  ASSUME StoreOK, NEW b \in Batches
  PROVE  NewJob(b) \in Job
  <1>1. evidence[b].transactions \in Seq(Tx)
    BY DEF StoreOK, Bundle
  <1>2. evidence[b].transactions # <<>> =>
          evidence[b].transactions[Len(evidence[b].transactions)] \in Tx
    BY <1>1
  <1>3. CASE evidence[b].transactions = <<>>
    BY <1>3, BoundsAssumption DEF NewJob, NoJob, Job, JobStates
  <1>4. CASE evidence[b].transactions # <<>>
    <2> DEFINE t == evidence[b].transactions[Len(evidence[b].transactions)]
    <2>1. t \in Tx
      BY <1>2, <1>4
    <2>2. NewJob(b) = [state |-> "external", raw |-> NoTx, hash |-> t,
                       reserve |-> 0, attempts |-> 0]
      BY <1>4 DEF NewJob, NoJob
    <2> HIDE DEF t
    <2> QED
      BY <2>1, <2>2, BoundsAssumption DEF Job, JobStates
  <1> QED
    BY <1>3, <1>4

LEMMA PendingType ==
  ASSUME NEW limit, StoreOK
  PROVE  PendingEvidence(limit) \in SUBSET Events
  BY DEF PendingEvidence, StoreOK

LEMMA TypeInit == Init => TypeInv
  <1> SUFFICES ASSUME Init PROVE TypeInv
    OBVIOUS
  <1>1. StoreOK /\ JobsOK
    BY NoJobType, WindowsAssumption, BoundsAssumption DEF Init, StoreOK, JobsOK
  <1>2. LocalOK
    BY NoJobType, PoliciesAssumption, WindowsAssumption
       DEF Init, LocalOK, PCs, JobStates
  <1>3. NetOK
    BY DEF Init, NetOK
  <1>4. HostOK
    BY DEF Init, HostOK
  <1>5. OtherOK
    BY DEF Init, OtherOK
  <1>6. CurrentOK
    BY DEF Init, CurrentOK, CurrentOf, HandPCs, HashPCs, RawPCs
  <1> QED
    BY <1>1, <1>2, <1>3, <1>4, <1>5, <1>6 DEF TypeInv, TypeOK

\* A part of the state that a step leaves alone stays well-formed.
LEMMA Frame ==
  ASSUME TypeOK
  PROVE  /\ UNCHANGED store => StoreOK'
         /\ UNCHANGED jobs => JobsOK'
         /\ UNCHANGED <<pc, local>> => LocalOK'
         /\ UNCHANGED net => NetOK'
         /\ UNCHANGED host => HostOK'
         /\ UNCHANGED <<cli, gate, faults>> => OtherOK'
         /\ UNCHANGED <<cli, gate>> /\ Fault => OtherOK'
  <1>1. UNCHANGED store => StoreOK'
    BY DEF TypeOK, StoreOK, store
  <1>2. UNCHANGED jobs => JobsOK'
    BY DEF TypeOK, JobsOK, jobs
  <1>3. UNCHANGED <<pc, local>> => LocalOK'
    BY DEF TypeOK, LocalOK, local
  <1>4. UNCHANGED net => NetOK'
    BY DEF TypeOK, NetOK, net
  <1>5. UNCHANGED host => HostOK'
    BY DEF TypeOK, HostOK, host
  <1>6. UNCHANGED <<cli, gate, faults>> => OtherOK'
    BY DEF TypeOK, OtherOK, cli
  <1>7. UNCHANGED <<cli, gate>> /\ Fault => OtherOK'
    BY DEF TypeOK, OtherOK, cli, Fault
  <1> QED
    BY <1>1, <1>2, <1>3, <1>4, <1>5, <1>6, <1>7

LEMMA TypeNext == TypeInv /\ [Next]_vars => TypeOK'
  <1> SUFFICES ASSUME TypeOK, CurrentOK, [Next]_vars PROVE TypeOK'
    BY DEF TypeInv
  <1> USE Frame
  <1>Ingest. ASSUME NEW e \in Events, Ingest(e) PROVE TypeOK'
    <2>1. StoreOK'
      BY <1>Ingest DEF Ingest, StoreOK, TypeOK
    <2>2. JobsOK' /\ LocalOK' /\ NetOK' /\ HostOK' /\ OtherOK'
      BY <1>Ingest DEF Ingest
    <2> QED
      BY <2>1, <2>2 DEF TypeOK
  <1>TickStart. ASSUME NEW p \in Procs, TickStart(p) PROVE TypeOK'
    <2>1. LocalOK'
      BY <1>TickStart DEF TickStart, Goto, TypeOK, LocalOK, PCs
    <2>2. StoreOK' /\ JobsOK' /\ NetOK' /\ HostOK' /\ OtherOK'
      BY <1>TickStart DEF TickStart
    <2> QED
      BY <2>1, <2>2 DEF TypeOK
  <1>DiscoverOne. ASSUME NEW p \in Procs, DiscoverOne(p) PROVE TypeOK'
    <2>1. LocalOK'
      BY <1>DiscoverOne DEF DiscoverOne, TypeOK, LocalOK
    <2>2. JobsOK'
      <3>1. PICK b \in todo[p] :
               \/ Save(b, NewJob(b)) /\ order' = Append(order, b)
               \/ UNCHANGED <<journal, order>>
        BY <1>DiscoverOne DEF DiscoverOne
      <3>2. b \in Batches
        BY DEF TypeOK, LocalOK
      <3>3. NewJob(b) \in Job
        BY <3>2, NewJobType DEF TypeOK
      <3>4. journal' \in [Batches -> Job] /\ order' \in Seq(Batches)
        <4>1. CASE UNCHANGED <<journal, order>>
          BY <4>1 DEF TypeOK, JobsOK
        <4>2. CASE Save(b, NewJob(b)) /\ order' = Append(order, b)
          BY <3>2, <3>3, <4>2, SaveType DEF TypeOK, JobsOK
        <4> QED
          BY <3>1, <4>1, <4>2
      <3> QED
        BY <1>DiscoverOne, <3>4 DEF DiscoverOne, TypeOK, JobsOK
    <2>3. StoreOK' /\ NetOK' /\ HostOK' /\ OtherOK'
      BY <1>DiscoverOne DEF DiscoverOne
    <2> QED
      BY <2>1, <2>2, <2>3 DEF TypeOK
  <1>ReadJobs. ASSUME NEW p \in Procs, ReadJobs(p) PROVE TypeOK'
    <2>1. LocalOK'
      BY <1>ReadJobs DEF ReadJobs, Goto, TypeOK, LocalOK, PCs, JobsOK
    <2>2. StoreOK' /\ JobsOK' /\ NetOK' /\ HostOK' /\ OtherOK'
      BY <1>ReadJobs DEF ReadJobs
    <2> QED
      BY <2>1, <2>2 DEF TypeOK
  <1>InspectSettled. ASSUME NEW p \in Procs, InspectSettled(p) PROVE TypeOK'
    <2>1. /\ Current(p) \in Batches /\ snap[p][Current(p)] \in Job
         /\ HasCurrent(p)
      BY <1>InspectSettled, HandType DEF InspectSettled, Inspecting
    <2>2. \A v \in JobStates : [snap[p][Current(p)] EXCEPT !.state = v] \in Job
      BY <2>1, JobType
    <2>3. {"confirmed", "confirming"} \subseteq JobStates
      BY DEF JobStates
    <2>4. JobsOK'
      BY <1>InspectSettled, <2>1, <2>2, <2>3, SaveType
         DEF InspectSettled, TypeOK, JobsOK
    <2>5. LocalOK'
      <3> DEFINE saved(v) == [snap[p][Current(p)] EXCEPT !.state = v]
      <3>1. PICK v \in {"confirmed", "confirming"} :
              \/ /\ Goto(p, "reattach")
                 /\ seen' = [seen EXCEPT ![p] = v]
                 /\ UNCHANGED <<policy, todo, snap, at, nonce, since, pend>>
              \/ /\ Hold(p, Current(p), saved(v))
                 /\ at' = [at EXCEPT ![p] = @ + 1]
                 /\ UNCHANGED <<pc, policy, todo, seen, nonce, since, pend>>
              \/ EndTick(p)
        BY <1>InspectSettled DEF InspectSettled
      <3>2. CASE EndTick(p)
        BY <3>2, EndTickType DEF TypeOK
      <3>3. CASE /\ Hold(p, Current(p), saved(v))
                 /\ at' = [at EXCEPT ![p] = @ + 1]
                 /\ UNCHANGED <<pc, policy, todo, seen, nonce, since, pend>>
        <4>1. snap' \in [Procs -> [Batches -> Job]]
          BY <2>1, <2>2, <2>3, <3>3, HoldType DEF TypeOK, LocalOK
        <4>2. at' \in [Procs -> Nat]
          BY <3>3 DEF TypeOK, LocalOK
        <4> QED
          BY <3>3, <4>1, <4>2 DEF TypeOK, LocalOK
      <3>4. CASE /\ Goto(p, "reattach")
                 /\ seen' = [seen EXCEPT ![p] = v]
                 /\ UNCHANGED <<policy, todo, snap, at, nonce, since, pend>>
        BY <2>3, <3>4 DEF Goto, PCs, TypeOK, LocalOK
      <3> QED
        BY <3>1, <3>2, <3>3, <3>4
    <2>6. StoreOK' /\ NetOK' /\ HostOK' /\ OtherOK'
      BY <1>InspectSettled DEF InspectSettled
    <2> QED
      BY <2>1, <2>2, <2>3, <2>4, <2>5, <2>6 DEF TypeOK
  <1>InspectBlocked. ASSUME NEW p \in Procs, InspectBlocked(p) PROVE TypeOK'
    <2>1. /\ Current(p) \in Batches /\ snap[p][Current(p)] \in Job
      BY <1>InspectBlocked, HandType DEF InspectBlocked, Inspecting
    <2>2. [snap[p][Current(p)] EXCEPT !.state = "blocked"] \in Job
      BY <2>1, JobType DEF JobStates
    <2>3. JobsOK'
      BY <1>InspectBlocked, <2>1, <2>2, SaveType DEF InspectBlocked, TypeOK, JobsOK
    <2>4. LocalOK'
      BY <1>InspectBlocked, EndTickType DEF InspectBlocked, TypeOK
    <2>5. StoreOK' /\ NetOK' /\ HostOK' /\ OtherOK'
      BY <1>InspectBlocked DEF InspectBlocked
    <2> QED
      BY <2>1, <2>2, <2>3, <2>4, <2>5 DEF TypeOK
  <1>InspectMissing. ASSUME NEW p \in Procs, InspectMissing(p) PROVE TypeOK'
    <2>1. /\ Current(p) \in Batches /\ snap[p][Current(p)] \in Job
      BY <1>InspectMissing, HandType DEF InspectMissing, Inspecting
    <2>2. JobsOK'
      BY <1>InspectMissing, <2>1, SaveType DEF InspectMissing, TypeOK, JobsOK
    <2>3. LocalOK'
      BY <1>InspectMissing, EndTickType
         DEF InspectMissing, Retries, Goto, TypeOK, LocalOK, PCs, local
    <2>4. StoreOK' /\ NetOK' /\ HostOK' /\ OtherOK'
      BY <1>InspectMissing DEF InspectMissing, Retries
    <2> QED
      BY <2>2, <2>3, <2>4 DEF TypeOK
  <1>Reattach. ASSUME NEW p \in Procs, Reattach(p) PROVE TypeOK'
    <2>1. HasCurrent(p)
      BY <1>Reattach DEF Reattach, CurrentOK, CurrentOf, HandPCs
    <2>2. /\ Current(p) \in Batches
         /\ snap[p][Current(p)].hash \in Tx \cup {NoTx}
      BY <2>1, HandType, JobType
    <2>3. snap[p][Current(p)].hash \in Tx
      BY <1>Reattach, <2>1, <2>2 DEF Reattach, CurrentOK, CurrentOf, HashPCs
    <2>4. StoreOK'
      BY <1>Reattach, <2>2, <2>3, AttachType DEF Reattach, TypeOK, StoreOK
    <2>5. LocalOK'
      BY <1>Reattach, EndTickType DEF Reattach, Goto, TypeOK, LocalOK, PCs, local
    <2>6. JobsOK' /\ NetOK' /\ HostOK' /\ OtherOK'
      BY <1>Reattach DEF Reattach
    <2> QED
      BY <2>1, <2>2, <2>3, <2>4, <2>5, <2>6 DEF TypeOK
  <1>Settle. ASSUME NEW p \in Procs, Settle(p) PROVE TypeOK'
    <2>1. HasCurrent(p)
      BY <1>Settle DEF Settle, CurrentOK, CurrentOf, HandPCs
    <2>2. /\ Current(p) \in Batches
         /\ [snap[p][Current(p)] EXCEPT !.state = seen[p]] \in Job
      BY <2>1, HandType, JobType DEF TypeOK, LocalOK
    <2>3. JobsOK'
      BY <1>Settle, <2>2, SaveType DEF Settle, TypeOK, JobsOK
    <2>4. LocalOK'
      <3>1. CASE EndTick(p)
        BY <3>1, EndTickType DEF TypeOK
      <3>2. CASE ~EndTick(p)
        <4>1. /\ Hold(p, Current(p), [snap[p][Current(p)] EXCEPT !.state = seen[p]])
              /\ at' = [at EXCEPT ![p] = @ + 1]
              /\ seen' = [seen EXCEPT ![p] = "none"]
              /\ Goto(p, "jobs")
              /\ UNCHANGED <<policy, todo, nonce, since, pend>>
          BY <1>Settle, <3>2 DEF Settle
        <4>2. snap' \in [Procs -> [Batches -> Job]]
          BY <2>2, <4>1, HoldType DEF TypeOK, LocalOK
        <4>3. at' \in [Procs -> Nat] /\ seen' \in [Procs -> JobStates]
          BY <4>1 DEF TypeOK, LocalOK, JobStates
        <4>4. pc' \in [Procs -> PCs]
          BY <4>1 DEF Goto, PCs, TypeOK, LocalOK
        <4> QED
          BY <4>1, <4>2, <4>3, <4>4 DEF TypeOK, LocalOK
      <3> QED
        BY <3>1, <3>2
    <2>5. StoreOK' /\ NetOK' /\ HostOK' /\ OtherOK'
      BY <1>Settle DEF Settle
    <2> QED
      BY <2>1, <2>2, <2>3, <2>4, <2>5 DEF TypeOK
  <1>Begin. ASSUME NEW p \in Procs, Begin(p) PROVE TypeOK'
    <2>1. LocalOK'
      BY <1>Begin, EndTickType DEF Begin, Goto, TypeOK, LocalOK, PCs, local
    <2>2. StoreOK' /\ JobsOK' /\ NetOK' /\ HostOK' /\ OtherOK'
      BY <1>Begin DEF Begin
    <2> QED
      BY <2>1, <2>2 DEF TypeOK
  <1>ReadPendingCount. ASSUME NEW p \in Procs, ReadPendingCount(p) PROVE TypeOK'
    <2>1. LocalOK'
      <3>1. CASE EndTick(p)
        BY <3>1, EndTickType DEF TypeOK
      <3>2. CASE ~EndTick(p)
        <4>1. PendingCounts \subseteq Nat
          BY DEF PendingCounts, LatestCount, TypeOK, NetOK
        <4>2. PICK n \in PendingCounts : nonce' = [nonce EXCEPT ![p] = n]
          BY <1>ReadPendingCount, <3>2 DEF ReadPendingCount
        <4>3. nonce' \in [Procs -> Nat]
          BY <4>1, <4>2 DEF TypeOK, LocalOK
        <4> QED
          BY <1>ReadPendingCount, <3>2, <4>3
             DEF ReadPendingCount, Goto, TypeOK, LocalOK, PCs
      <3> QED
        BY <3>1, <3>2
    <2>2. StoreOK' /\ JobsOK' /\ NetOK' /\ HostOK' /\ OtherOK'
      BY <1>ReadPendingCount DEF ReadPendingCount
    <2> QED
      BY <2>1, <2>2 DEF TypeOK
  <1>Sign. ASSUME NEW p \in Procs, Sign(p) PROVE TypeOK'
    <2>1. HasCurrent(p)
      BY <1>Sign DEF Sign, CurrentOK, CurrentOf, HandPCs
    <2>2. Current(p) \in Batches /\ snap[p][Current(p)] \in Job
      BY <2>1, HandType
    <2>3. \A fee \in Fees : SignedJob(p, fee) \in Job
      <3>1. nonce[p] \in Nat /\ policy[p].l1AllowanceWei \in Nat
        BY PoliciesAssumption DEF TypeOK, LocalOK
      <3> SUFFICES ASSUME NEW fee \in Fees PROVE SignedJob(p, fee) \in Job
        OBVIOUS
      <3>2. [by |-> "worker", batch |-> Current(p), nonce |-> nonce[p], fee |-> fee] \in Tx
        BY <2>2, <3>1 DEF Tx
      <3>3. fee + policy[p].l1AllowanceWei \in Nat
        BY <3>1, FeesAssumption
      <3> QED
        BY <2>2, <3>2, <3>3 DEF SignedJob, Job, JobStates
    <2>4. JobsOK'
      <3>1. since[p] \in 0..(2 * Day)
        BY WindowsAssumption DEF TypeOK, LocalOK
      <3>2. age' \in [Batches -> 0..(2 * Day)]
        BY <1>Sign, <3>1 DEF Sign, TypeOK, JobsOK
      <3>3. journal' \in [Batches -> Job]
        BY <1>Sign, <2>2, <2>3, SaveType DEF Sign, TypeOK, JobsOK
      <3> QED
        BY <1>Sign, <3>2, <3>3 DEF Sign, TypeOK, JobsOK
    <2>5. LocalOK'
      BY <1>Sign, <2>2, <2>3, HoldType, EndTickType DEF Sign, Goto, PCs, TypeOK, LocalOK
    <2>6. StoreOK' /\ NetOK' /\ HostOK' /\ OtherOK'
      BY <1>Sign DEF Sign
    <2> QED
      BY <2>1, <2>2, <2>3, <2>4, <2>5, <2>6 DEF TypeOK
  <1>PassGate. ASSUME NEW p \in Procs, PassGate(p) PROVE TypeOK'
    <2>1. LocalOK'
      BY <1>PassGate, EndTickType DEF PassGate, Goto, TypeOK, LocalOK, PCs, local
    <2>2. StoreOK' /\ JobsOK' /\ NetOK' /\ HostOK' /\ OtherOK'
      BY <1>PassGate DEF PassGate
    <2> QED
      BY <2>1, <2>2 DEF TypeOK
  <1>Send. ASSUME NEW p \in Procs, Send(p) PROVE TypeOK'
    <2>1. HasCurrent(p) /\ snap[p][Current(p)].raw # NoTx
      BY <1>Send DEF Send, CurrentOK, CurrentOf, HandPCs, RawPCs
    <2>2. snap[p][Current(p)].raw \in Tx
      BY <2>1, HandType, JobType
    <2>3. LocalOK'
      BY <1>Send DEF Send, Goto, PCs, TypeOK, LocalOK, local
    <2>4. NetOK'
      BY <1>Send, <2>2 DEF Send, TypeOK, NetOK
    <2>5. OtherOK'
      BY <1>Send DEF Send
    <2>6. StoreOK' /\ JobsOK' /\ HostOK'
      BY <1>Send DEF Send
    <2> QED
      BY <2>3, <2>4, <2>5, <2>6 DEF TypeOK
  <1>Answer. ASSUME NEW p \in Procs, Answer(p) PROVE TypeOK'
    <2>1. HasCurrent(p)
      BY <1>Answer DEF Answer, CurrentOK, CurrentOf, HandPCs
    <2>2. Current(p) \in Batches /\ snap[p][Current(p)] \in Job
      BY <2>1, HandType
    <2>4. \A v \in JobStates : SentJob(p, v) \in Job /\ SentJob(p, v).attempts \in 0..MaxExp
      <3>1. Least(MaxExp, snap[p][Current(p)].attempts + 1) \in 0..MaxExp
        BY <2>2, BoundsAssumption DEF Job, Least
      <3> QED
        BY <2>2, <3>1 DEF SentJob, Job
    <2>5. {"submitted", "broadcast-uncertain"} \subseteq JobStates
      BY DEF JobStates
    <2>6. \A n : Delay(n) \in 0..BackoffCap
      BY BoundsAssumption DEF Delay
    <2>7. JobsOK'
      BY <1>Answer, <2>2, <2>4, <2>5, <2>6, SaveType DEF Answer, TypeOK, JobsOK
    <2>8. LocalOK'
      BY <1>Answer, <2>2, <2>4, <2>5, HoldType DEF Answer, Goto, PCs, TypeOK, LocalOK
    <2>9. StoreOK' /\ NetOK' /\ HostOK' /\ OtherOK'
      BY <1>Answer DEF Answer
    <2> QED
      BY <2>7, <2>8, <2>9 DEF TypeOK
  <1>AttachSent. ASSUME NEW p \in Procs, AttachSent(p) PROVE TypeOK'
    <2>1. HasCurrent(p)
      BY <1>AttachSent DEF AttachSent, CurrentOK, CurrentOf, HandPCs
    <2>2. /\ Current(p) \in Batches
         /\ snap[p][Current(p)].hash \in Tx \cup {NoTx}
      BY <2>1, HandType, JobType
    <2>3. snap[p][Current(p)].hash \in Tx
      BY <1>AttachSent, <2>1, <2>2 DEF AttachSent, CurrentOK, CurrentOf, HashPCs
    <2>4. StoreOK'
      BY <1>AttachSent, <2>2, <2>3, AttachType DEF AttachSent, TypeOK, StoreOK
    <2>5. LocalOK'
      BY <1>AttachSent, EndTickType DEF AttachSent, Goto, TypeOK, LocalOK, PCs, local
    <2>6. JobsOK' /\ NetOK' /\ HostOK' /\ OtherOK'
      BY <1>AttachSent DEF AttachSent
    <2> QED
      BY <2>1, <2>2, <2>3, <2>4, <2>5, <2>6 DEF TypeOK
  <1>PrepareRead. ASSUME NEW p \in Procs, PrepareRead(p) PROVE TypeOK'
    <2>1. PendingEvidence(policy[p].batchSize) \in SUBSET Events
      BY PendingType DEF TypeOK
    <2>2. LocalOK'
      BY ZenonT(30), <1>PrepareRead, <2>1, EndTickType DEF PrepareRead, Goto, TypeOK, LocalOK, PCs
    <2>3. StoreOK' /\ JobsOK' /\ NetOK' /\ HostOK' /\ OtherOK'
      BY <1>PrepareRead DEF PrepareRead
    <2> QED
      BY <2>1, <2>2, <2>3 DEF TypeOK
  <1>PrepareCommit. ASSUME NEW p \in Procs, PrepareCommit(p) PROVE TypeOK'
    <2>1. pend[p] \in SUBSET Events
      BY DEF TypeOK, LocalOK
    <2>2. StoreOK'
      BY <1>PrepareCommit, <2>1, CommitType DEF PrepareCommit, TypeOK, StoreOK
    <2>3. LocalOK'
      BY <1>PrepareCommit, EndTickType DEF PrepareCommit, TypeOK
    <2>4. JobsOK' /\ NetOK' /\ HostOK' /\ OtherOK'
      BY <1>PrepareCommit DEF PrepareCommit
    <2> QED
      BY <2>1, <2>2, <2>3, <2>4 DEF TypeOK
  <1>InspectUnavailable. ASSUME NEW p \in Procs, InspectUnavailable(p) PROVE TypeOK'
    <2>1. /\ Current(p) \in Batches /\ snap[p][Current(p)] \in Job
      BY <1>InspectUnavailable, HandType DEF InspectUnavailable, Inspecting
    <2>2. JobsOK'
      BY <1>InspectUnavailable, <2>1, SaveType DEF InspectUnavailable, TypeOK, JobsOK
    <2>3. LocalOK'
      BY <1>InspectUnavailable, EndTickType DEF InspectUnavailable, TypeOK
    <2>4. StoreOK' /\ NetOK' /\ HostOK' /\ OtherOK'
      BY <1>InspectUnavailable DEF InspectUnavailable, Fault, OtherOK, TypeOK
    <2> QED
      BY <2>2, <2>3, <2>4 DEF TypeOK
  <1>Throw. ASSUME NEW p \in Procs, Throw(p) PROVE TypeOK'
    <2>1. LocalOK'
      BY <1>Throw, EndTickType DEF Throw, Goto, TypeOK, LocalOK, PCs, local
    <2>2. StoreOK' /\ JobsOK' /\ NetOK' /\ HostOK' /\ OtherOK'
      BY <1>Throw DEF Throw
    <2> QED
      BY <2>1, <2>2 DEF TypeOK
  <1>Start. ASSUME NEW p \in Procs, Start(p) PROVE TypeOK'
    <2>1. LocalOK'
      BY <1>Start DEF Start, Goto, TypeOK, LocalOK, PCs, local, Forget, JobStates
    <2>2. HostOK'
      BY <1>Start DEF Start, TypeOK, HostOK
    <2>3. StoreOK' /\ JobsOK' /\ NetOK' /\ OtherOK'
      BY <1>Start DEF Start
    <2> QED
      BY <2>1, <2>2, <2>3 DEF TypeOK
  <1>Close. ASSUME NEW p \in Procs, Close(p) PROVE TypeOK'
    <2>1. LocalOK'
      BY <1>Close DEF Close, Goto, TypeOK, LocalOK, PCs, local, Forget, JobStates
    <2>2. HostOK'
      BY <1>Close DEF Close, TypeOK, HostOK
    <2>3. StoreOK' /\ JobsOK' /\ NetOK' /\ OtherOK'
      BY <1>Close DEF Close
    <2> QED
      BY <2>1, <2>2, <2>3 DEF TypeOK
  <1>Crash. ASSUME NEW p \in Procs, Crash(p) PROVE TypeOK'
    <2>1. LocalOK'
      BY <1>Crash, NoJobType, WindowsAssumption
         DEF Crash, Goto, TypeOK, LocalOK, PCs, local, Forget, JobStates
    <2>2. HostOK'
      BY <1>Crash DEF Crash, TypeOK, HostOK
    <2>3. StoreOK' /\ JobsOK' /\ NetOK' /\ OtherOK'
      BY <1>Crash DEF Crash
    <2> QED
      BY <2>1, <2>2, <2>3 DEF TypeOK
  <1>CheckLock. ASSUME NEW r \in Recoverers, CheckLock(r) PROVE TypeOK'
    <2>1. HostOK'
      BY <1>CheckLock DEF CheckLock, TypeOK, HostOK
    <2>2. StoreOK' /\ JobsOK' /\ LocalOK' /\ NetOK' /\ OtherOK'
      BY <1>CheckLock DEF CheckLock
    <2> QED
      BY <2>1, <2>2 DEF TypeOK
  <1>UnlinkLock. ASSUME NEW r \in Recoverers, UnlinkLock(r) PROVE TypeOK'
    <2>1. HostOK'
      BY <1>UnlinkLock DEF UnlinkLock, TypeOK, HostOK
    <2>2. StoreOK' /\ JobsOK' /\ LocalOK' /\ NetOK' /\ OtherOK'
      BY <1>UnlinkLock DEF UnlinkLock
    <2> QED
      BY <2>1, <2>2 DEF TypeOK
  <1>Deepen. CASE Deepen
    <2>1. NetOK'
      BY <1>Deepen DEF Deepen, TypeOK, NetOK
    <2>2. StoreOK' /\ JobsOK' /\ LocalOK' /\ HostOK' /\ OtherOK'
      BY <1>Deepen DEF Deepen
    <2> QED
      BY <2>1, <2>2 DEF TypeOK
  <1>Reorg. CASE Reorg
    <2>1. Len(chain) \in Nat /\ Len(chain) > 0 /\ deep \in 0..Len(chain)
      BY <1>Reorg, BoundsAssumption DEF Reorg, TypeOK, NetOK
    <2>2. /\ SubSeq(chain, 1, Len(chain) - 1) \in Seq(Entry)
         /\ Len(SubSeq(chain, 1, Len(chain) - 1)) = Len(chain) - 1
      <3> DEFINE n == Len(chain) - 1
      <3>1. n \in Nat
        BY <2>1
      <3>2. \A i \in 1..n : chain[i] \in Entry
        BY <2>1 DEF TypeOK, NetOK
      <3> HIDE DEF n
      <3>3. /\ SubSeq(chain, 1, n) \in Seq(Entry)
            /\ Len(SubSeq(chain, 1, n)) = IF 1 <= n THEN n - 1 + 1 ELSE 0
        BY <3>1, <3>2, SubSeqProperties
      <3>4. Len(SubSeq(chain, 1, n)) = n
        BY <3>1, <3>3
      <3> QED
        BY <3>3, <3>4 DEF n
    <2>3. NetOK'
      BY <1>Reorg, <2>1, <2>2, BoundsAssumption DEF Reorg, TypeOK, NetOK
    <2>4. StoreOK' /\ JobsOK' /\ LocalOK' /\ HostOK' /\ OtherOK'
      BY <1>Reorg DEF Reorg
    <2> QED
      BY <2>1, <2>2, <2>3, <2>4 DEF TypeOK
  <1>OpPrepareRead. CASE OpPrepareRead
    <2>1. OtherOK'
      BY <1>OpPrepareRead, PendingType DEF OpPrepareRead, TypeOK, OtherOK
    <2>2. StoreOK' /\ JobsOK' /\ LocalOK' /\ NetOK' /\ HostOK'
      BY <1>OpPrepareRead DEF OpPrepareRead
    <2> QED
      BY <2>1, <2>2 DEF TypeOK
  <1>OpPrepareCommit. CASE OpPrepareCommit
    <2>1. StoreOK'
      BY <1>OpPrepareCommit, CommitType, PublishersAssumption
         DEF OpPrepareCommit, TypeOK, StoreOK, OtherOK
    <2>2. OtherOK'
      BY <1>OpPrepareCommit DEF OpPrepareCommit, TypeOK, OtherOK
    <2>3. JobsOK' /\ LocalOK' /\ NetOK' /\ HostOK'
      BY <1>OpPrepareCommit DEF OpPrepareCommit
    <2> QED
      BY <2>1, <2>2, <2>3 DEF TypeOK
  <1>OpenGate. CASE OpenGate
    <2>1. OtherOK'
      BY <1>OpenGate DEF OpenGate, TypeOK, OtherOK, Fault, cli
    <2>2. StoreOK' /\ JobsOK' /\ LocalOK' /\ NetOK' /\ HostOK'
      BY <1>OpenGate DEF OpenGate
    <2> QED
      BY <2>1, <2>2 DEF TypeOK
  <1>CloseGate. CASE CloseGate
    <2>1. OtherOK'
      <3>1. gate' \in BOOLEAN
        BY <1>CloseGate DEF CloseGate
      <3> QED
        BY <1>CloseGate, <3>1 DEF CloseGate, TypeOK, OtherOK, Fault, cli
    <2>2. StoreOK' /\ JobsOK' /\ LocalOK' /\ NetOK' /\ HostOK'
      BY <1>CloseGate DEF CloseGate
    <2> QED
      BY <2>1, <2>2 DEF TypeOK
  <1>Pass. CASE Pass
    <2>1. JobsOK'
      BY <1>Pass, WindowsAssumption, BoundsAssumption DEF Pass, TypeOK, JobsOK, Least
    <2>2. LocalOK'
      BY <1>Pass, WindowsAssumption DEF Pass, TypeOK, LocalOK, Least
    <2>3. StoreOK' /\ NetOK' /\ HostOK' /\ OtherOK'
      BY <1>Pass DEF Pass
    <2> QED
      BY <2>1, <2>2, <2>3 DEF TypeOK
  <1>Mine. ASSUME NEW t \in sent, Mine(t) PROVE TypeOK'
    <2>1. [tx |-> t, ok |-> ~Landed(t.batch)] \in Entry
      BY DEF TypeOK, NetOK, Entry, Landed
    <2>2. NetOK'
      BY <1>Mine, <2>1 DEF Mine, TypeOK, NetOK
    <2>3. StoreOK' /\ JobsOK' /\ LocalOK' /\ HostOK' /\ OtherOK'
      BY <1>Mine DEF Mine
    <2> QED
      BY <2>1, <2>2, <2>3 DEF TypeOK
  <1>OpAttach. ASSUME NEW b \in Batches, NEW t \in sent, OpAttach(b, t) PROVE TypeOK'
    <2>1. StoreOK'
      BY <1>OpAttach, AttachType DEF OpAttach, TypeOK, StoreOK, NetOK
    <2>2. JobsOK' /\ LocalOK' /\ NetOK' /\ HostOK' /\ OtherOK'
      BY <1>OpAttach DEF OpAttach
    <2> QED
      BY <2>1, <2>2 DEF TypeOK
  <1>ManualSend. ASSUME NEW b \in Batches, NEW fee \in Fees, ManualSend(b, fee) PROVE TypeOK'
    <2>1. PendingCounts \subseteq Nat
      BY DEF PendingCounts, LatestCount, TypeOK, NetOK
    <2>2. NetOK'
      BY <1>ManualSend, <2>1 DEF ManualSend, TypeOK, NetOK, Tx
    <2>3. StoreOK' /\ JobsOK' /\ LocalOK' /\ HostOK' /\ OtherOK'
      BY <1>ManualSend DEF ManualSend
    <2> QED
      BY <2>1, <2>2, <2>3 DEF TypeOK
  <1>Refused. ASSUME NEW p \in Procs, Refused(p) PROVE TypeOK'
    <2>1. LocalOK'
      BY <1>Refused, EndTickType DEF Refused, TypeOK
    <2>2. StoreOK' /\ JobsOK' /\ NetOK' /\ HostOK' /\ OtherOK'
      BY <1>Refused DEF Refused
    <2> QED
      BY <2>1, <2>2 DEF TypeOK
  <1>Stutter. CASE UNCHANGED vars
    <2>1. StoreOK' /\ JobsOK' /\ LocalOK' /\ NetOK' /\ HostOK' /\ OtherOK'
      BY <1>Stutter DEF vars
    <2> QED
      BY <2>1 DEF TypeOK
  <1> QED
    BY <1>Ingest, <1>TickStart, <1>DiscoverOne, <1>ReadJobs,
       <1>InspectSettled, <1>InspectBlocked, <1>InspectMissing, <1>Reattach,
       <1>Settle, <1>Begin, <1>ReadPendingCount, <1>Sign, <1>PassGate,
       <1>Send, <1>AttachSent, <1>PrepareRead, <1>PrepareCommit,
       <1>InspectUnavailable, <1>Throw, <1>Start, <1>Close, <1>Crash,
       <1>CheckLock, <1>UnlinkLock, <1>Deepen, <1>Reorg, <1>OpPrepareRead,
       <1>OpPrepareCommit, <1>OpenGate, <1>CloseGate, <1>Pass, <1>Mine,
       <1>OpAttach, <1>ManualSend, <1>Stutter, <1>Refused, <1>Answer
       DEF Next, Step, Chain, Operator

-----------------------------------------------------------------------------
(* The position of a process in the job list stays valid. *)

\* The job list only grows, and a step of p leaves the others' memory alone.
LocalTo(p) ==
    /\ \A q \in Procs \ {p} : pc'[q] = pc[q] /\ at'[q] = at[q] /\ snap'[q] = snap[q]
    /\ order' = order \/ \E b \in Batches : order' = Append(order, b)

LEMMA CurrentKept ==
  ASSUME TypeInv, NEW q \in Procs,
         pc'[q] = pc[q], at'[q] = at[q], snap'[q] = snap[q],
         order' = order \/ \E b \in Batches : order' = Append(order, b)
  PROVE  CurrentOf(q)'
  <1>1. CurrentOf(q) /\ order \in Seq(Batches)
    BY DEF TypeInv, TypeOK, JobsOK, CurrentOK
  <1>2. CASE order' = order
    BY <1>1, <1>2 DEF CurrentOf, HasCurrent, Current
  <1>3. CASE \E b \in Batches : order' = Append(order, b)
    <2>1. HasCurrent(q) => HasCurrent(q)' /\ Current(q)' = Current(q)
      BY <1>1, <1>3 DEF HasCurrent, Current
    <2>2. HandPCs = HandPCs' /\ HashPCs \subseteq HandPCs /\ RawPCs \subseteq HandPCs
      BY DEF HandPCs, HashPCs, RawPCs
    <2> QED
      BY <1>1, <2>1, <2>2 DEF CurrentOf
  <1> QED
    BY <1>2, <1>3

LEMMA CurrentLocal ==
  ASSUME TypeInv, NEW p \in Procs, LocalTo(p), CurrentOf(p)'
  PROVE  CurrentOK'
  BY CurrentKept DEF CurrentOK, LocalTo

\* A process that has no job in hand makes no claim about one.
LEMMA NoneInHand ==
  ASSUME TypeInv, NEW p \in Procs, LocalTo(p), pc'[p] \notin HandPCs
  PROVE  CurrentOK'
  <1>1. CurrentOf(p)'
    BY DEF CurrentOf, HandPCs, HashPCs, RawPCs
  <1> QED
    BY <1>1, CurrentLocal

LEMMA EndTickLocal ==
  ASSUME TypeInv, NEW p \in Procs, EndTick(p), UNCHANGED order
  PROVE  CurrentOK'
  <1>1. LocalTo(p)
    BY DEF TypeInv, TypeOK, LocalOK, EndTick, Goto, Forget, LocalTo
  <1>2. pc'[p] = "idle"
    BY DEF TypeInv, TypeOK, LocalOK, EndTick, Goto
  <1> QED
    BY <1>1, <1>2, NoneInHand DEF HandPCs

\* Steps that touch neither the processes nor the job list.
LEMMA CurrentFrame ==
  ASSUME TypeInv, UNCHANGED <<pc, at, snap, order>>
  PROVE  CurrentOK'
  BY CurrentKept DEF TypeInv, CurrentOK

LEMMA CurrentNext == TypeInv /\ [Next]_vars => CurrentOK'
  <1> SUFFICES ASSUME TypeInv, [Next]_vars PROVE CurrentOK'
    OBVIOUS
  <1>pc. pc \in [Procs -> PCs] /\ at \in [Procs -> Nat] /\ snap \in [Procs -> [Batches -> Job]]
    BY DEF TypeInv, TypeOK, LocalOK

  <1>TickStart. ASSUME NEW p \in Procs, TickStart(p) PROVE CurrentOK'
    BY <1>TickStart, <1>pc, NoneInHand DEF TickStart, Goto, jobs, LocalTo, HandPCs
  <1>ReadJobs. ASSUME NEW p \in Procs, ReadJobs(p) PROVE CurrentOK'
    BY <1>ReadJobs, <1>pc, NoneInHand DEF ReadJobs, Goto, jobs, LocalTo, HandPCs
  <1>DiscoverOne. ASSUME NEW p \in Procs, DiscoverOne(p) PROVE CurrentOK'
    <2>1. \A b \in todo[p] : b \in Batches
      BY DEF TypeInv, TypeOK, LocalOK
    <2>2. LocalTo(p)
      BY <1>DiscoverOne, <2>1 DEF DiscoverOne, LocalTo
    <2> QED
      BY <1>DiscoverOne, <2>2, NoneInHand DEF DiscoverOne, HandPCs
  <1>InspectSettled. ASSUME NEW p \in Procs, InspectSettled(p) PROVE CurrentOK'
    <2>1. UNCHANGED order /\ HasCurrent(p) /\ snap[p][Current(p)].hash # NoTx
      BY <1>InspectSettled DEF InspectSettled, Inspecting
    <2>2. CASE EndTick(p)
      BY <2>1, <2>2, EndTickLocal
    <2>3. CASE Goto(p, "reattach") /\ UNCHANGED <<at, snap>>
      <3>1. LocalTo(p)
        BY <1>pc, <2>1, <2>3 DEF Goto, LocalTo
      <3>2. CurrentOf(p)'
        BY <1>pc, <2>1, <2>3 DEF Goto, CurrentOf, HasCurrent, Current, RawPCs
      <3> QED
        BY <3>1, <3>2, CurrentLocal
    <2>4. CASE \E job : Hold(p, Current(p), job) /\ at' = [at EXCEPT ![p] = @ + 1] /\ UNCHANGED pc
      <3>1. LocalTo(p)
        BY <1>pc, <2>1, <2>4 DEF Hold, LocalTo
      <3>2. pc'[p] \notin HandPCs
        BY <1>InspectSettled, <2>4 DEF InspectSettled, Inspecting, HandPCs
      <3> QED
        BY <3>1, <3>2, NoneInHand
    <2> QED
      BY <1>InspectSettled, <2>2, <2>3, <2>4 DEF InspectSettled
  <1>InspectBlocked. ASSUME NEW p \in Procs, InspectBlocked(p) PROVE CurrentOK'
    BY <1>InspectBlocked, EndTickLocal DEF InspectBlocked, jobs
  <1>InspectUnavailable. ASSUME NEW p \in Procs, InspectUnavailable(p) PROVE CurrentOK'
    BY <1>InspectUnavailable, EndTickLocal DEF InspectUnavailable
  <1>Throw. ASSUME NEW p \in Procs, Throw(p) PROVE CurrentOK'
    BY <1>Throw, EndTickLocal DEF Throw, jobs
  <1>Refused. ASSUME NEW p \in Procs, Refused(p) PROVE CurrentOK'
    BY <1>Refused, EndTickLocal DEF Refused, jobs
  <1>InspectMissing. ASSUME NEW p \in Procs, InspectMissing(p) PROVE CurrentOK'
    <2>1. UNCHANGED order /\ HasCurrent(p) /\ snap[p][Current(p)].hash # NoTx
      BY <1>InspectMissing DEF InspectMissing, Retries, Inspecting
    <2>2. CASE EndTick(p)
      BY <2>1, <2>2, EndTickLocal
    <2>3. CASE ~EndTick(p)
      <3>1. Goto(p, "gate") /\ UNCHANGED <<at, snap>> /\ snap[p][Current(p)].raw # NoTx
        BY <1>InspectMissing, <2>3 DEF InspectMissing, Retries, local
      <3>2. LocalTo(p)
        BY <1>pc, <2>1, <3>1 DEF Goto, LocalTo
      <3>3. CurrentOf(p)'
        BY <1>pc, <2>1, <3>1 DEF Goto, CurrentOf, HasCurrent, Current
      <3> QED
        BY <3>2, <3>3, CurrentLocal
    <2> QED
      BY <2>2, <2>3
  <1>Reattach. ASSUME NEW p \in Procs, Reattach(p) PROVE CurrentOK'
    <2>1. UNCHANGED order /\ HasCurrent(p) /\ snap[p][Current(p)].hash # NoTx
      BY <1>Reattach DEF Reattach, jobs, TypeInv, CurrentOK, CurrentOf, HandPCs, HashPCs
    <2>2. CASE EndTick(p)
      BY <2>1, <2>2, EndTickLocal
    <2>3. CASE ~EndTick(p)
      <3>1. Goto(p, "settle") /\ UNCHANGED <<at, snap>>
        BY <1>Reattach, <2>3 DEF Reattach, local
      <3>2. LocalTo(p)
        BY <1>pc, <2>1, <3>1 DEF Goto, LocalTo
      <3>3. CurrentOf(p)'
        BY <1>pc, <2>1, <3>1 DEF Goto, CurrentOf, HasCurrent, Current, RawPCs
      <3> QED
        BY <3>2, <3>3, CurrentLocal
    <2> QED
      BY <2>2, <2>3
  <1>Settle. ASSUME NEW p \in Procs, Settle(p) PROVE CurrentOK'
    <2>1. UNCHANGED order
      BY <1>Settle DEF Settle
    <2>2. CASE EndTick(p)
      BY <2>1, <2>2, EndTickLocal
    <2>3. CASE ~EndTick(p)
      <3>1. /\ Goto(p, "jobs") /\ at' = [at EXCEPT ![p] = @ + 1]
            /\ \E job : Hold(p, Current(p), job)
        BY <1>Settle, <2>3 DEF Settle
      <3>2. LocalTo(p)
        BY <1>pc, <2>1, <3>1 DEF Goto, Hold, LocalTo
      <3>3. pc'[p] \notin HandPCs
        BY <1>pc, <3>1 DEF Goto, HandPCs
      <3> QED
        BY <3>2, <3>3, NoneInHand
    <2> QED
      BY <2>2, <2>3
  <1>Begin. ASSUME NEW p \in Procs, Begin(p) PROVE CurrentOK'
    <2>1. UNCHANGED order /\ HasCurrent(p)
      BY <1>Begin DEF Begin, jobs
    <2>2. CASE EndTick(p)
      BY <2>1, <2>2, EndTickLocal
    <2>3. CASE ~EndTick(p)
      <3>1. Goto(p, "quote") /\ UNCHANGED <<at, snap>>
        BY <1>Begin, <2>3 DEF Begin, local
      <3>2. LocalTo(p)
        BY <1>pc, <2>1, <3>1 DEF Goto, LocalTo
      <3>3. CurrentOf(p)'
        BY <1>pc, <2>1, <3>1 DEF Goto, CurrentOf, HasCurrent, Current, HashPCs, RawPCs
      <3> QED
        BY <3>2, <3>3, CurrentLocal
    <2> QED
      BY <2>2, <2>3
  <1>ReadPendingCount. ASSUME NEW p \in Procs, ReadPendingCount(p) PROVE CurrentOK'
    <2>1. UNCHANGED order /\ HasCurrent(p)
      BY <1>ReadPendingCount
         DEF ReadPendingCount, jobs, TypeInv, CurrentOK, CurrentOf, HandPCs
    <2>2. CASE EndTick(p)
      BY <2>1, <2>2, EndTickLocal
    <2>3. CASE ~EndTick(p)
      <3>1. Goto(p, "sign") /\ UNCHANGED <<at, snap>>
        BY <1>ReadPendingCount, <2>3 DEF ReadPendingCount
      <3>2. LocalTo(p)
        BY <1>pc, <2>1, <3>1 DEF Goto, LocalTo
      <3>3. CurrentOf(p)'
        BY <1>pc, <2>1, <3>1 DEF Goto, CurrentOf, HasCurrent, Current, HashPCs, RawPCs
      <3> QED
        BY <3>2, <3>3, CurrentLocal
    <2> QED
      BY <2>2, <2>3
  <1>Sign. ASSUME NEW p \in Procs, Sign(p) PROVE CurrentOK'
    <2>1. UNCHANGED order /\ HasCurrent(p)
      BY <1>Sign DEF Sign, TypeInv, CurrentOK, CurrentOf, HandPCs
    <2>2. CASE EndTick(p)
      BY <2>1, <2>2, EndTickLocal
    <2>3. CASE ~EndTick(p)
      <3>1. PICK fee \in Fees : /\ Hold(p, Current(p), SignedJob(p, fee))
                                /\ Goto(p, "gate") /\ UNCHANGED at
        BY <1>Sign, <2>3 DEF Sign
      <3>2. LocalTo(p)
        BY <1>pc, <2>1, <3>1 DEF Goto, Hold, LocalTo
      <3>3. HasCurrent(p)' /\ Current(p)' = Current(p) /\ Current(p) \in Batches
        BY <2>1, <3>1, HandType DEF HasCurrent, Current, TypeInv
      <3>4. snap'[p][Current(p)] = SignedJob(p, fee)
        BY <1>pc, <3>1, <3>3 DEF Hold
      <3>5. SignedJob(p, fee).raw # NoTx /\ SignedJob(p, fee).hash # NoTx
        <4>1. snap[p][Current(p)] \in Job
          BY <1>pc, <3>3
        <4> DEFINE tx == [by |-> "worker", batch |-> Current(p), nonce |-> nonce[p], fee |-> fee]
        <4>2. SignedJob(p, fee).raw = tx /\ SignedJob(p, fee).hash = tx
          BY <4>1 DEF SignedJob, Job
        <4>3. tx.by # NoTx.by
          BY DEF NoTx
        <4> QED
          BY <4>2, <4>3
      <3>6. CurrentOf(p)'
        BY <3>3, <3>4, <3>5 DEF CurrentOf
      <3> QED
        BY <3>2, <3>6, CurrentLocal
    <2> QED
      BY <2>2, <2>3
  <1>PassGate. ASSUME NEW p \in Procs, PassGate(p) PROVE CurrentOK'
    <2>1. UNCHANGED order /\ CurrentOf(p) /\ pc[p] = "gate"
      BY <1>PassGate DEF PassGate, jobs, TypeInv, CurrentOK
    <2>2. CASE EndTick(p)
      BY <2>1, <2>2, EndTickLocal
    <2>3. CASE ~EndTick(p)
      <3>1. Goto(p, "send") /\ UNCHANGED <<at, snap>>
        BY <1>PassGate, <2>3 DEF PassGate, local
      <3>2. LocalTo(p)
        BY <1>pc, <2>1, <3>1 DEF Goto, LocalTo
      <3>3. CurrentOf(p)'
        BY <1>pc, <2>1, <3>1
           DEF Goto, CurrentOf, HasCurrent, Current, HandPCs, HashPCs, RawPCs
      <3> QED
        BY <3>2, <3>3, CurrentLocal
    <2> QED
      BY <2>2, <2>3
  <1>Send. ASSUME NEW p \in Procs, Send(p) PROVE CurrentOK'
    <2>1. UNCHANGED <<order, at, snap>> /\ CurrentOf(p) /\ pc[p] = "send" /\ Goto(p, "sent")
      BY <1>Send DEF Send, TypeInv, CurrentOK, jobs, local
    <2>2. LocalTo(p)
      BY <1>pc, <2>1 DEF Goto, LocalTo
    <2>3. CurrentOf(p)'
      BY <1>pc, <2>1 DEF Goto, CurrentOf, HasCurrent, Current, HandPCs, HashPCs, RawPCs
    <2> QED
      BY <2>2, <2>3, CurrentLocal
  <1>Answer. ASSUME NEW p \in Procs, Answer(p) PROVE CurrentOK'
    <2>1. UNCHANGED order /\ CurrentOf(p) /\ pc[p] = "sent"
      BY <1>Answer DEF Answer, TypeInv, CurrentOK
    <2>2. PICK outcome : /\ Hold(p, Current(p), SentJob(p, outcome))
                         /\ Goto(p, "attach") /\ UNCHANGED at
      BY <1>Answer DEF Answer
    <2>3. LocalTo(p)
      BY <1>pc, <2>1, <2>2 DEF Goto, Hold, LocalTo
    <2>4. /\ HasCurrent(p)' /\ Current(p)' = Current(p) /\ Current(p) \in Batches
          /\ snap[p][Current(p)].hash # NoTx /\ pc'[p] = "attach"
      BY <1>pc, <2>1, <2>2, HandType
         DEF Goto, CurrentOf, HandPCs, HashPCs, HasCurrent, Current, TypeInv
    <2>5. snap'[p][Current(p)] = SentJob(p, outcome)
      BY <1>pc, <2>2, <2>4 DEF Hold
    <2>6. SentJob(p, outcome).hash = snap[p][Current(p)].hash
      BY <1>pc, <2>4 DEF SentJob, Job
    <2>7. CurrentOf(p)'
      BY <2>4, <2>5, <2>6 DEF CurrentOf, RawPCs
    <2> QED
      BY <2>3, <2>7, CurrentLocal
  <1>AttachSent. ASSUME NEW p \in Procs, AttachSent(p) PROVE CurrentOK'
    BY <1>AttachSent, EndTickLocal DEF AttachSent, jobs
  <1>PrepareCommit. ASSUME NEW p \in Procs, PrepareCommit(p) PROVE CurrentOK'
    BY <1>PrepareCommit, EndTickLocal DEF PrepareCommit, jobs
  <1>PrepareRead. ASSUME NEW p \in Procs, PrepareRead(p) PROVE CurrentOK'
    <2>1. UNCHANGED order
      BY <1>PrepareRead DEF PrepareRead, jobs
    <2>2. CASE EndTick(p)
      BY <2>1, <2>2, EndTickLocal
    <2>3. CASE ~EndTick(p)
      <3>1. Goto(p, "commit") /\ UNCHANGED <<at, snap>>
        BY <1>PrepareRead, <2>3 DEF PrepareRead
      <3> QED
        BY <1>pc, <2>1, <3>1, NoneInHand DEF Goto, LocalTo, HandPCs
    <2> QED
      BY <2>2, <2>3
  <1>Start. ASSUME NEW p \in Procs, Start(p) PROVE CurrentOK'
    BY <1>Start, <1>pc, NoneInHand DEF Start, Goto, jobs, LocalTo, HandPCs
  <1>Close. ASSUME NEW p \in Procs, Close(p) PROVE CurrentOK'
    BY <1>Close, <1>pc, NoneInHand DEF Close, Goto, jobs, local, LocalTo, HandPCs
  <1>Crash. ASSUME NEW p \in Procs, Crash(p) PROVE CurrentOK'
    BY <1>Crash, <1>pc, NoneInHand DEF Crash, Goto, Forget, jobs, LocalTo, HandPCs
  <1>Ingest. CASE \E e \in Events : Ingest(e)
    BY <1>Ingest, CurrentFrame DEF Ingest, jobs, local
  <1>Recover. CASE \E r \in Recoverers : CheckLock(r) \/ UnlinkLock(r)
    BY <1>Recover, CurrentFrame DEF CheckLock, UnlinkLock, jobs, local
  <1>Chain. CASE Chain
    BY <1>Chain, CurrentFrame DEF Chain, Deepen, Reorg, Mine, jobs, local
  <1>Operator. CASE Operator
    BY <1>Operator, CurrentFrame
       DEF Operator, OpPrepareRead, OpPrepareCommit, OpenGate, CloseGate, OpAttach,
           ManualSend, jobs, local
  <1>Pass. CASE Pass
    BY <1>Pass, CurrentFrame DEF Pass
  <1>Stutter. CASE UNCHANGED vars
    BY <1>Stutter, CurrentFrame DEF vars, jobs, local
  <1> QED
    BY <1>Answer, <1>TickStart, <1>ReadJobs, <1>DiscoverOne,
       <1>InspectSettled, <1>InspectBlocked, <1>InspectUnavailable, <1>Throw,
       <1>Refused, <1>InspectMissing, <1>Reattach, <1>Settle, <1>Begin,
       <1>ReadPendingCount, <1>Sign, <1>PassGate, <1>Send, <1>AttachSent,
       <1>PrepareCommit, <1>PrepareRead, <1>Start, <1>Close, <1>Crash,
       <1>Ingest, <1>Recover, <1>Chain, <1>Operator, <1>Pass, <1>Stutter
       DEF Next, Step

\* Every reachable state is well-typed, and a process that acts on a job
\* acts on one that exists and has what the action needs (worker.cjs, run).
LEMMA TypeInvariant == Spec => []TypeInv
  <1>1. Init => TypeInv
    BY TypeInit
  <1>2. TypeInv /\ [Next]_vars => TypeInv'
    BY TypeNext, CurrentNext DEF TypeInv
  <1> QED
    BY <1>1, <1>2, PTL DEF Spec
\* Every reachable state of the pipeline is well-typed: in particular only
\* real transactions reach the network, the bundles and the chain.
THEOREM TypeCorrect == Spec => []TypeOK
  <1>1. TypeInv => TypeOK
    BY DEF TypeInv
  <1> QED
    BY <1>1, TypeInvariant, PTL

-----------------------------------------------------------------------------
(* One owner at a time. *)

\* Lock recovery is serialised, as "systemd invokes this only after the
\* previous service process has exited" intends.
SoleRecoverer == \A r, s \in Recoverers : r = s

\* The lock names every running worker, a process acts exactly while it runs,
\* and recovery is under way only while the lock is a dead process's.
OwnerInv ==
    /\ SingleOwner
    /\ \A p \in Procs : pc[p] # "off" <=> p \in alive
    /\ recovering # {} => lock # NoProc /\ lock \notin alive

LEMMA OwnerInit == Init => OwnerInv
  BY DEF Init, OwnerInv, SingleOwner

\* Nobody starts or stops.
LEMMA OwnerFrame ==
  ASSUME OwnerInv, UNCHANGED host,
         \A q \in Procs : pc'[q] # "off" <=> pc[q] # "off"
  PROVE  OwnerInv'
  BY DEF OwnerInv, SingleOwner, host

\* The program counter of p moves within its tick.
Moves(p) == /\ pc[p] # "off"
            /\ \/ UNCHANGED pc
               \/ \E label \in PCs \ {"off"} : Goto(p, label)

LEMMA MovesOwner ==
  ASSUME TypeOK, OwnerInv, NEW p \in Procs, Moves(p), UNCHANGED host
  PROVE  OwnerInv'
  BY OwnerFrame DEF Moves, Goto, TypeOK, LocalOK, PCs

\* No step of run(), and no failure in it, starts or stops a process.
LEMMA StepMoves ==
  ASSUME OwnerInv, NEW p \in Procs, Step(p) \/ InspectUnavailable(p) \/ Throw(p)
  PROVE  Moves(p) /\ UNCHANGED host
  <1>1. EndTick(p) => \E label \in PCs \ {"off"} : Goto(p, label)
    BY DEF EndTick, PCs
  <1>TickStart. CASE TickStart(p)
    BY <1>TickStart, <1>1 DEF TickStart, Moves, PCs, local
  <1>DiscoverOne. CASE DiscoverOne(p)
    BY <1>DiscoverOne, <1>1 DEF DiscoverOne, Moves, PCs, local
  <1>ReadJobs. CASE ReadJobs(p)
    BY <1>ReadJobs, <1>1 DEF ReadJobs, Moves, PCs, local
  <1>InspectSettled. CASE InspectSettled(p)
    BY <1>InspectSettled, <1>1 DEF InspectSettled, Inspecting, Moves, PCs, local
  <1>InspectBlocked. CASE InspectBlocked(p)
    BY <1>InspectBlocked, <1>1 DEF InspectBlocked, Inspecting, Moves, PCs, local
  <1>InspectMissing. CASE InspectMissing(p)
    BY <1>InspectMissing, <1>1 DEF InspectMissing, Retries, Inspecting, Moves, PCs, local
  <1>Reattach. CASE Reattach(p)
    BY <1>Reattach, <1>1 DEF Reattach, Moves, PCs, local
  <1>Settle. CASE Settle(p)
    BY <1>Settle, <1>1 DEF Settle, Moves, PCs, local
  <1>Begin. CASE Begin(p)
    BY <1>Begin, <1>1 DEF Begin, Moves, PCs, local
  <1>ReadPendingCount. CASE ReadPendingCount(p)
    BY <1>ReadPendingCount, <1>1 DEF ReadPendingCount, Moves, PCs, local
  <1>Sign. CASE Sign(p)
    BY <1>Sign, <1>1 DEF Sign, Moves, PCs, local
  <1>PassGate. CASE PassGate(p)
    BY <1>PassGate, <1>1 DEF PassGate, Moves, PCs, local
  <1>Send. CASE Send(p)
    BY <1>Send, <1>1 DEF Send, Moves, PCs, local
  <1>Answer. CASE Answer(p)
    BY <1>Answer, <1>1 DEF Answer, Moves, PCs, local
  <1>AttachSent. CASE AttachSent(p)
    BY <1>AttachSent, <1>1 DEF AttachSent, Moves, PCs, local
  <1>PrepareRead. CASE PrepareRead(p)
    BY <1>PrepareRead, <1>1 DEF PrepareRead, Moves, PCs, local
  <1>PrepareCommit. CASE PrepareCommit(p)
    BY <1>PrepareCommit, <1>1 DEF PrepareCommit, Moves, PCs, local
  <1>Refused. CASE Refused(p)
    BY <1>Refused, <1>1 DEF Refused, Moves, PCs, local
  <1>InspectUnavailable. CASE InspectUnavailable(p)
    BY <1>InspectUnavailable, <1>1 DEF InspectUnavailable, Inspecting, Moves, PCs, local
  <1>Throw. CASE Throw(p)
    BY <1>Throw, <1>1 DEF Throw, OwnerInv, Moves, PCs, local
  <1> QED
    BY <1>Answer, <1>TickStart, <1>DiscoverOne, <1>ReadJobs,
       <1>InspectSettled, <1>InspectBlocked, <1>InspectMissing, <1>Reattach,
       <1>Settle, <1>Begin, <1>ReadPendingCount, <1>Sign, <1>PassGate,
       <1>Send, <1>AttachSent, <1>PrepareRead, <1>PrepareCommit, <1>Refused,
       <1>InspectUnavailable, <1>Throw
       DEF Step

LEMMA OwnerNext ==
  ASSUME SoleRecoverer
  PROVE  TypeOK /\ OwnerInv /\ [Next]_vars => OwnerInv'
  <1> SUFFICES ASSUME TypeOK, OwnerInv, [Next]_vars PROVE OwnerInv'
    OBVIOUS
  <1>1. ASSUME NEW p \in Procs, Step(p) \/ InspectUnavailable(p) \/ Throw(p)
        PROVE  OwnerInv'
    BY <1>1, StepMoves, MovesOwner
  <1>2. ASSUME NEW p \in Procs, Start(p) PROVE OwnerInv'
    <2>1. alive = {} /\ recovering = {}
      BY <1>2, ProcsAssumption DEF NoProc, Start, OwnerInv, SingleOwner, TypeOK, HostOK
    <2>2. alive' = {p} /\ lock' = p /\ recovering' = {}
      BY <1>2, <2>1 DEF Start
    <2>3. \A q \in Procs : pc'[q] # "off" <=> q = p
      BY <1>2, <2>1 DEF Start, Goto, OwnerInv, TypeOK, LocalOK
    <2> QED
      BY <2>2, <2>3 DEF OwnerInv, SingleOwner
  <1>3. ASSUME NEW p \in Procs, Close(p) PROVE OwnerInv'
    BY <1>3, ProcsAssumption
       DEF Close, Goto, OwnerInv, SingleOwner, TypeOK, LocalOK, HostOK
  <1>4. ASSUME NEW p \in Procs, Crash(p) PROVE OwnerInv'
    BY <1>4 DEF Crash, Goto, OwnerInv, SingleOwner, TypeOK, LocalOK, HostOK
  <1>5. ASSUME NEW r \in Recoverers, CheckLock(r) PROVE OwnerInv'
    BY <1>5 DEF CheckLock, OwnerInv, SingleOwner
  <1>6. ASSUME NEW r \in Recoverers, UnlinkLock(r) PROVE OwnerInv'
    <2>1. alive = {}
      BY <1>6 DEF UnlinkLock, OwnerInv, SingleOwner, TypeOK, HostOK
    <2>2. recovering' = {}
      BY <1>6 DEF UnlinkLock, TypeOK, HostOK, SoleRecoverer
    <2> QED
      BY <1>6, <2>1, <2>2 DEF UnlinkLock, OwnerInv, SingleOwner
  <1>7. CASE \E e \in Events : Ingest(e)
    BY <1>7, OwnerFrame DEF Ingest
  <1>8. CASE Chain
    BY <1>8, OwnerFrame DEF Chain, Deepen, Reorg, Mine
  <1>9. CASE Operator
    BY <1>9, OwnerFrame
       DEF Operator, OpPrepareRead, OpPrepareCommit, OpenGate, CloseGate, OpAttach,
           ManualSend
  <1>10. CASE Pass
    BY <1>10, OwnerFrame DEF Pass
  <1>11. CASE UNCHANGED vars
    BY <1>11, OwnerFrame DEF vars
  <1> QED
    BY <1>1, <1>2, <1>3, <1>4, <1>5, <1>6, <1>7, <1>8, <1>9, <1>10, <1>11 DEF Next

LEMMA OwnerInvariant == ASSUME SoleRecoverer PROVE Spec => []OwnerInv
  <1>1. Init => OwnerInv
    BY OwnerInit
  <1>2. TypeOK /\ OwnerInv /\ [Next]_vars => OwnerInv'
    BY OwnerNext
  <1> QED
    BY <1>1, <1>2, TypeCorrect, PTL DEF Spec

\* The lock file lets one process at a time act on the journal, across any
\* crashes and restarts, as long as lock recoveries do not overlap.
THEOREM SoleOwner == ASSUME SoleRecoverer PROVE Spec => []SingleOwner
  <1>1. OwnerInv => SingleOwner
    BY DEF OwnerInv
  <1> QED
    BY <1>1, OwnerInvariant, PTL

-----------------------------------------------------------------------------
(* Signed bytes are durable before they are sent, and are never replaced. *)

\* A running process holds the rows the journal holds, and quotes and signs
\* only for a job that has no hash.
HandOf(p) ==
    /\ pc[p] \in HandPCs \cup {"jobs"} => snap[p] = journal
    /\ pc[p] \in {"quote", "sign"} => journal[Current(p)].hash = NoTx

\* Signed bytes are the worker's transaction for the job's own batch, and
\* the job is watched under their hash.
BytesOK(job, b) ==
    job.raw # NoTx => job.raw.by = "worker" /\ job.raw.batch = b /\ job.hash = job.raw

DurableInv ==
    /\ \A p \in Procs : HandOf(p)
    /\ \A b \in Batches : BytesOK(journal[b], b)
    /\ DurableBeforeSend

\* What a step does to the journal: nothing to bytes, hashes and reserves nor
\* to a row without a hash, or anything well-formed to one row that has no bytes.
SameBytes ==
    \A b \in Batches :
        /\ journal'[b].raw = journal[b].raw
        /\ journal'[b].hash = journal[b].hash
        /\ journal'[b].reserve = journal[b].reserve
        /\ journal[b].hash = NoTx => journal'[b] = journal[b]
FillsRow ==
    \E b \in Batches :
        /\ journal[b].raw = NoTx
        /\ \A c \in Batches \ {b} : journal'[c] = journal[c]
        /\ BytesOK(journal'[b], b)

KeepsSigned == \A b \in Batches : journal[b].raw # NoTx =>
                  /\ journal'[b].raw = journal[b].raw
                  /\ journal'[b].hash = journal[b].hash
                  /\ journal'[b].reserve = journal[b].reserve

LEMMA RowsKept ==
  ASSUME SameBytes \/ FillsRow
  PROVE  KeepsSigned
  BY DEF SameBytes, FillsRow, KeepsSigned

\* Only bytes the journal already holds reach the network.
SendsDurable ==
    \A t \in sent' : \/ t \in sent
                    \/ t.by = "manual"
                    \/ \E b \in Batches : t = journal[b].raw

LEMMA NoTxNotTx == NoTx \notin Tx
  BY DEF NoTx, Tx

LEMMA DurableKept ==
  ASSUME TypeOK, TypeOK', DurableInv, SameBytes \/ FillsRow, SendsDurable
  PROVE  (\A b \in Batches : BytesOK(journal'[b], b)) /\ DurableBeforeSend'
  <1>1. \A b \in Batches : BytesOK(journal'[b], b)
    <2>1. CASE SameBytes
      BY <2>1 DEF SameBytes, DurableInv, BytesOK
    <2>2. CASE FillsRow
      <3>1. PICK b \in Batches : /\ \A c \in Batches \ {b} : journal'[c] = journal[c]
                                 /\ BytesOK(journal'[b], b)
        BY <2>2 DEF FillsRow, BytesOK
      <3>2. \A c \in Batches \ {b} : BytesOK(journal'[c], c)
        BY <3>1 DEF DurableInv, BytesOK
      <3> QED
        BY <3>1, <3>2
    <2> QED
      BY <2>1, <2>2
  <1>2. ASSUME NEW t \in sent', t.by = "worker" PROVE journal'[t.batch].raw = t
    <2>1. t \in Tx /\ t # NoTx /\ t.batch \in Batches
      BY NoTxNotTx DEF TypeOK, NetOK, Tx
    <2>2. journal[t.batch].raw = t
      BY <1>2, <2>1 DEF SendsDurable, DurableInv, DurableBeforeSend, BytesOK
    <2> QED
      BY <2>1, <2>2, RowsKept DEF KeepsSigned
  <1> QED
    BY <1>1, <1>2 DEF DurableBeforeSend

LEMMA SaveSame ==
  ASSUME TypeOK, NEW b \in Batches, NEW job, Save(b, job),
         job.raw = journal[b].raw, job.hash = journal[b].hash,
         job.reserve = journal[b].reserve, journal[b].hash # NoTx
  PROVE  SameBytes
  BY DEF TypeOK, JobsOK, Save, SameBytes

\* Nobody else runs while p does.
LEMMA Alone ==
  ASSUME TypeOK, OwnerInv, NEW p \in Procs, Moves(p), NEW q \in Procs \ {p}
  PROVE  pc'[q] = "off"
  <1>1. p \in alive /\ lock = p
    BY DEF Moves, OwnerInv, SingleOwner
  <1>2. pc[q] = "off"
    BY <1>1 DEF OwnerInv, SingleOwner
  <1> QED
    BY <1>2 DEF Moves, Goto, TypeOK, LocalOK

LEMMA HandMoves ==
  ASSUME TypeOK, OwnerInv, NEW p \in Procs, Moves(p), HandOf(p)'
  PROVE  \A q \in Procs : HandOf(q)'
  BY Alone DEF HandOf, HandPCs

LEMMA EndTickHand ==
  ASSUME TypeOK, NEW p \in Procs, EndTick(p)
  PROVE  HandOf(p)'
  BY DEF EndTick, Goto, HandOf, HandPCs, TypeOK, LocalOK

\* Steps that do not touch the journal or any process.
LEMMA HandFrame ==
  ASSUME DurableInv, UNCHANGED <<pc, at, snap, order, journal>>
  PROVE  SameBytes /\ \A q \in Procs : HandOf(q)'
  BY DEF DurableInv, HandOf, HasCurrent, Current, SameBytes

\* A process with bytes in hand holds them as the journal does.
LEMMA BytesInHand ==
  ASSUME TypeInv, DurableInv, NEW p \in Procs, pc[p] \in {"send", "sent"}
  PROVE  /\ HasCurrent(p) /\ snap[p] = journal /\ Current(p) \in Batches
         /\ journal[Current(p)] \in Job
         /\ pc[p] = "send" => journal[Current(p)].raw # NoTx
  <1>1. CurrentOf(p) /\ HandOf(p)
    BY DEF TypeInv, CurrentOK, DurableInv
  <1>2. HasCurrent(p) /\ snap[p] = journal
        /\ (pc[p] = "send" => snap[p][Current(p)].raw # NoTx)
    BY <1>1 DEF CurrentOf, HandOf, HandPCs, RawPCs
  <1> QED
    BY <1>2, HandType DEF TypeInv

\* A broadcast offers the network bytes the journal holds, and keeps them.
LEMMA SendStep ==
  ASSUME TypeInv, DurableInv, NEW p \in Procs, Send(p)
  PROVE  /\ SameBytes
         /\ HandOf(p)'
         /\ \E b \in Batches : /\ journal[b].raw # NoTx
                               /\ sent' \in {sent, sent \cup {journal[b].raw}}
  <1>1. /\ snap[p] = journal /\ Current(p) \in Batches
        /\ journal[Current(p)].raw # NoTx
    BY BytesInHand DEF Send
  <1>2. UNCHANGED <<journal, snap>> /\ pc'[p] = "sent"
    BY DEF Send, jobs, local, Goto, TypeInv, TypeOK, LocalOK
  <1>3. HandOf(p)'
    BY <1>1, <1>2 DEF HandOf
  <1>4. sent' \in {sent, sent \cup {journal[Current(p)].raw}}
    BY <1>1 DEF Send
  <1>5. SameBytes
    BY <1>2 DEF SameBytes
  <1> QED
    BY <1>1, <1>3, <1>4, <1>5

\* Saving the outcome of a broadcast keeps the bytes.
LEMMA AnswerStep ==
  ASSUME TypeInv, DurableInv, NEW p \in Procs, Answer(p)
  PROVE  SameBytes /\ HandOf(p)'
  <1>1. /\ snap[p] = journal /\ Current(p) \in Batches
        /\ journal[Current(p)] \in Job
    BY BytesInHand DEF Answer
  <1>2. PICK outcome : /\ Save(Current(p), SentJob(p, outcome))
                       /\ Hold(p, Current(p), SentJob(p, outcome))
                       /\ Goto(p, "attach")
    BY DEF Answer
  <1>3. /\ SentJob(p, outcome).raw = journal[Current(p)].raw
        /\ SentJob(p, outcome).hash = journal[Current(p)].hash
        /\ SentJob(p, outcome).reserve = journal[Current(p)].reserve
    BY <1>1 DEF SentJob, Job
  <1>4. HandOf(p)'
    BY <1>1, <1>2 DEF Save, Hold, Goto, HandOf, TypeInv, TypeOK, LocalOK
  <1>5. journal[Current(p)].hash # NoTx
    BY <1>1 DEF Answer, TypeInv, CurrentOK, CurrentOf, HashPCs
  <1> QED
    BY <1>1, <1>2, <1>3, <1>4, <1>5, SaveSame DEF TypeInv

LEMMA HandNext ==
  ASSUME TypeInv, OwnerInv, DurableInv, [Next]_vars
  PROVE  /\ \/ SameBytes
            \/ FillsRow /\ \E p \in Procs : DiscoverOne(p) \/ Sign(p)
         /\ \A q \in Procs : HandOf(q)'
  <1> DEFINE Fills == FillsRow /\ \E p \in Procs : DiscoverOne(p) \/ Sign(p)
  <1> DEFINE Goal == (SameBytes \/ Fills) /\ \A q \in Procs : HandOf(q)'
  <1>pc. pc \in [Procs -> PCs] /\ at \in [Procs -> Nat] /\ snap \in [Procs -> [Batches -> Job]]
    BY DEF TypeInv, TypeOK, LocalOK
  <1>hand. \A p \in Procs : HandOf(p) /\ CurrentOf(p)
    BY DEF DurableInv, TypeInv, CurrentOK
  <1>same. UNCHANGED journal => SameBytes
    BY DEF SameBytes
  <1>here. ASSUME NEW p \in Procs, HasCurrent(p), pc[p] \in HandPCs \cup {"jobs"}
           PROVE  /\ Current(p) \in Batches /\ snap[p] = journal
                  /\ journal[Current(p)] \in Job
    BY <1>hand, <1>here, HandType DEF HandOf, TypeInv

  <1>TickStart. ASSUME NEW p \in Procs, TickStart(p) PROVE Goal
    <2>0. Moves(p) /\ TypeOK
      BY <1>TickStart, StepMoves DEF Step, TypeInv
    <2>1. HandOf(p)'
      BY <1>TickStart, <1>pc DEF TickStart, Goto, HandOf, HandPCs
    <2> QED
      BY <1>TickStart, <1>same, <2>0, <2>1, HandMoves DEF TickStart, jobs
  <1>DiscoverOne. ASSUME NEW p \in Procs, DiscoverOne(p) PROVE Goal
    <2>0. Moves(p) /\ TypeOK
      BY <1>DiscoverOne, StepMoves DEF Step, TypeInv
    <2>1. HandOf(p)'
      BY <1>DiscoverOne DEF DiscoverOne, HandOf, HandPCs
    <2>2. PICK b \in todo[p] :
             \/ journal[b] = NoJob /\ Save(b, NewJob(b))
             \/ UNCHANGED journal
      BY <1>DiscoverOne DEF DiscoverOne, Undiscovered
    <2>3. b \in Batches
      BY DEF TypeInv, TypeOK, LocalOK
    <2>4. NewJob(b).raw = NoTx /\ NoJob.raw = NoTx
      BY DEF NewJob, NoJob
    <2>5. CASE journal[b] = NoJob /\ Save(b, NewJob(b))
      <3>1. FillsRow
        BY <2>3, <2>4, <2>5 DEF Save, FillsRow, BytesOK, TypeInv, TypeOK, JobsOK
      <3> QED
        BY <1>DiscoverOne, <2>0, <2>1, <3>1, HandMoves
    <2> QED
      BY <1>same, <2>0, <2>1, <2>2, <2>5, HandMoves
  <1>ReadJobs. ASSUME NEW p \in Procs, ReadJobs(p) PROVE Goal
    <2>0. Moves(p) /\ TypeOK
      BY <1>ReadJobs, StepMoves DEF Step, TypeInv
    <2>1. HandOf(p)'
      BY <1>ReadJobs, <1>pc DEF ReadJobs, Goto, HandOf, HandPCs, jobs
    <2> QED
      BY <1>ReadJobs, <1>same, <2>0, <2>1, HandMoves DEF ReadJobs, jobs
  <1>InspectSettled. ASSUME NEW p \in Procs, InspectSettled(p) PROVE Goal
    <2>0. Moves(p) /\ TypeOK
      BY <1>InspectSettled, StepMoves DEF Step, TypeInv
    <2>1. /\ pc[p] = "jobs" /\ HasCurrent(p) /\ UNCHANGED order
      BY <1>InspectSettled DEF InspectSettled, Inspecting
    <2>2. /\ Current(p) \in Batches /\ snap[p] = journal
          /\ journal[Current(p)] \in Job
      BY <1>here, <2>1
    <2> DEFINE saved(v) == [snap[p][Current(p)] EXCEPT !.state = v]
    <2>3. \A v : /\ saved(v).raw = journal[Current(p)].raw
                /\ saved(v).hash = journal[Current(p)].hash
                /\ saved(v).reserve = journal[Current(p)].reserve
      BY <2>2 DEF Job
    <2>4. PICK v :
            \/ Goto(p, "reattach") /\ UNCHANGED <<snap, at, journal>>
            \/ Save(Current(p), saved(v)) /\ Hold(p, Current(p), saved(v)) /\ UNCHANGED pc
            \/ Save(Current(p), saved(v)) /\ EndTick(p)
      BY <1>InspectSettled DEF InspectSettled
    <2> HIDE DEF saved
    <2>a. journal[Current(p)].hash # NoTx
      BY <1>InspectSettled, <2>2 DEF InspectSettled, Inspecting
    <2>5. SameBytes
      BY <1>same, <2>0, <2>2, <2>3, <2>4, <2>a, SaveSame
    <2>6. HandOf(p)'
      <3>1. CASE Goto(p, "reattach") /\ UNCHANGED <<snap, at, journal>>
        BY <1>pc, <2>2, <3>1 DEF Goto, HandOf
      <3>2. CASE Save(Current(p), saved(v)) /\ Hold(p, Current(p), saved(v)) /\ UNCHANGED pc
        BY <1>pc, <2>1, <2>2, <3>2 DEF Save, Hold, HandOf
      <3>3. CASE EndTick(p)
        BY <2>0, <3>3, EndTickHand
      <3> QED
        BY <2>4, <3>1, <3>2, <3>3
    <2> QED
      BY <2>0, <2>5, <2>6, HandMoves
  <1>InspectBlocked. ASSUME NEW p \in Procs, InspectBlocked(p) PROVE Goal
    <2>0. Moves(p) /\ TypeOK
      BY <1>InspectBlocked, StepMoves DEF Step, TypeInv
    <2>1. /\ Current(p) \in Batches /\ snap[p] = journal
          /\ journal[Current(p)] \in Job
      BY <1>InspectBlocked, <1>here DEF InspectBlocked, Inspecting
    <2> DEFINE saved == [snap[p][Current(p)] EXCEPT !.state = "blocked"]
    <2>2. /\ saved.raw = journal[Current(p)].raw /\ saved.hash = journal[Current(p)].hash
          /\ saved.reserve = journal[Current(p)].reserve
      BY <2>1 DEF Job
    <2>3. Save(Current(p), saved) /\ EndTick(p) /\ journal[Current(p)].hash # NoTx
      BY <1>InspectBlocked, <2>1 DEF InspectBlocked, Inspecting
    <2> HIDE DEF saved
    <2> QED
      BY <2>0, <2>1, <2>2, <2>3, SaveSame, EndTickHand, HandMoves
  <1>InspectMissing. ASSUME NEW p \in Procs, InspectMissing(p) PROVE Goal
    <2>0. Moves(p) /\ TypeOK
      BY <1>InspectMissing, StepMoves DEF Step, TypeInv
    <2>1. /\ Current(p) \in Batches /\ snap[p] = journal
          /\ journal[Current(p)] \in Job
      BY <1>InspectMissing, <1>here DEF InspectMissing, Inspecting
    <2>2. Save(Current(p), journal[Current(p)])
      BY <1>InspectMissing, <2>1 DEF InspectMissing, Retries
    <2>3. journal' = journal /\ UNCHANGED order
      BY <1>InspectMissing, <2>0, <2>2 DEF InspectMissing, Retries, Save, TypeOK, JobsOK
    <2>4. HandOf(p)'
      <3>1. CASE EndTick(p)
        BY <2>0, <3>1, EndTickHand
      <3>2. CASE ~EndTick(p)
        BY <1>InspectMissing, <1>pc, <1>hand, <2>3, <3>2
           DEF InspectMissing, Retries, Inspecting, Goto, HandOf, HandPCs, HasCurrent,
               Current, local
      <3> QED
        BY <3>1, <3>2
    <2> QED
      BY <1>same, <2>0, <2>3, <2>4, HandMoves
  <1>Reattach. ASSUME NEW p \in Procs, Reattach(p) PROVE Goal
    <2>0. Moves(p) /\ TypeOK
      BY <1>Reattach, StepMoves DEF Step, TypeInv
    <2>1. HandOf(p)'
      <3>1. CASE EndTick(p)
        BY <2>0, <3>1, EndTickHand
      <3>2. CASE ~EndTick(p)
        BY <1>Reattach, <1>pc, <1>hand, <3>2
           DEF Reattach, Goto, HandOf, HandPCs, HasCurrent, Current, jobs, local
      <3> QED
        BY <3>1, <3>2
    <2> QED
      BY <1>Reattach, <1>same, <2>0, <2>1, HandMoves DEF Reattach, jobs
  <1>Settle. ASSUME NEW p \in Procs, Settle(p) PROVE Goal
    <2>0. Moves(p) /\ TypeOK
      BY <1>Settle, StepMoves DEF Step, TypeInv
    <2>1. HasCurrent(p)
      BY <1>Settle, <1>hand DEF Settle, CurrentOf, HandPCs
    <2>2. /\ Current(p) \in Batches /\ snap[p] = journal
          /\ journal[Current(p)] \in Job
      BY <1>Settle, <1>here, <2>1 DEF Settle, HandPCs
    <2> DEFINE saved == [snap[p][Current(p)] EXCEPT !.state = seen[p]]
    <2>3. /\ saved.raw = journal[Current(p)].raw /\ saved.hash = journal[Current(p)].hash
          /\ saved.reserve = journal[Current(p)].reserve
      BY <2>2 DEF Job
    <2>4. /\ Save(Current(p), saved)
          /\ (Hold(p, Current(p), saved) /\ Goto(p, "jobs")) \/ EndTick(p)
      BY <1>Settle DEF Settle
    <2> HIDE DEF saved
    <2>5. HandOf(p)'
      <3>1. CASE EndTick(p)
        BY <2>0, <3>1, EndTickHand
      <3>2. CASE Hold(p, Current(p), saved) /\ Goto(p, "jobs")
        BY <1>pc, <2>2, <2>4, <3>2 DEF Save, Hold, Goto, HandOf
      <3> QED
        BY <2>4, <3>1, <3>2
    <2>6. journal[Current(p)].hash # NoTx
      BY <1>Settle, <1>hand, <2>2 DEF Settle, CurrentOf, HashPCs
    <2> QED
      BY <2>0, <2>2, <2>3, <2>4, <2>5, <2>6, SaveSame, HandMoves
  <1>Begin. ASSUME NEW p \in Procs, Begin(p) PROVE Goal
    <2>0. Moves(p) /\ TypeOK
      BY <1>Begin, StepMoves DEF Step, TypeInv
    <2>1. HandOf(p)'
      <3>1. CASE EndTick(p)
        BY <2>0, <3>1, EndTickHand
      <3>2. CASE ~EndTick(p)
        BY <1>Begin, <1>pc, <1>hand, <3>2
           DEF Begin, Goto, HandOf, HandPCs, HasCurrent, Current, jobs, local
      <3> QED
        BY <3>1, <3>2
    <2> QED
      BY <1>Begin, <1>same, <2>0, <2>1, HandMoves DEF Begin, jobs
  <1>ReadPendingCount. ASSUME NEW p \in Procs, ReadPendingCount(p) PROVE Goal
    <2>0. Moves(p) /\ TypeOK
      BY <1>ReadPendingCount, StepMoves DEF Step, TypeInv
    <2>1. HandOf(p)'
      <3>1. CASE EndTick(p)
        BY <2>0, <3>1, EndTickHand
      <3>2. CASE ~EndTick(p)
        BY <1>ReadPendingCount, <1>pc, <1>hand, <3>2
           DEF ReadPendingCount, Goto, HandOf, HandPCs, HasCurrent, Current, jobs,
               local
      <3> QED
        BY <3>1, <3>2
    <2> QED
      BY <1>ReadPendingCount, <1>same, <2>0, <2>1, HandMoves DEF ReadPendingCount, jobs
  <1>Sign. ASSUME NEW p \in Procs, Sign(p) PROVE Goal
    <2>0. Moves(p) /\ TypeOK
      BY <1>Sign, StepMoves DEF Step, TypeInv
    <2>1. HasCurrent(p) /\ journal[Current(p)].hash = NoTx
      BY <1>Sign, <1>hand DEF Sign, CurrentOf, HandOf, HandPCs
    <2>2. /\ Current(p) \in Batches /\ snap[p] = journal
          /\ journal[Current(p)] \in Job
      BY <1>Sign, <1>here, <2>1 DEF Sign, HandPCs
    <2>3. CASE EndTick(p)
      <3>1. UNCHANGED journal \/ Goto(p, "gate")
        BY <1>Sign DEF Sign
      <3>2. UNCHANGED journal
        BY <1>pc, <2>3, <3>1 DEF EndTick, Goto
      <3> QED
        BY <1>same, <2>0, <2>3, <3>2, EndTickHand, HandMoves
    <2>4. CASE ~EndTick(p)
      <3>1. PICK fee \in Fees : /\ Save(Current(p), SignedJob(p, fee))
                                /\ Hold(p, Current(p), SignedJob(p, fee))
                                /\ Goto(p, "gate")
        BY <1>Sign, <2>4 DEF Sign
      <3>2. BytesOK(SignedJob(p, fee), Current(p))
        BY <2>2 DEF SignedJob, Job, BytesOK
      <3>3. journal[Current(p)].raw = NoTx
        BY <2>1, <2>2 DEF DurableInv, BytesOK
      <3>4. FillsRow
        BY <2>2, <3>1, <3>2, <3>3 DEF Save, FillsRow, TypeInv, TypeOK, JobsOK
      <3>5. HandOf(p)'
        BY <1>pc, <2>2, <3>1 DEF Save, Hold, Goto, HandOf
      <3> QED
        BY <1>Sign, <2>0, <3>4, <3>5, HandMoves
    <2> QED
      BY <2>3, <2>4
  <1>PassGate. ASSUME NEW p \in Procs, PassGate(p) PROVE Goal
    <2>0. Moves(p) /\ TypeOK
      BY <1>PassGate, StepMoves DEF Step, TypeInv
    <2>1. HandOf(p)'
      <3>1. CASE EndTick(p)
        BY <2>0, <3>1, EndTickHand
      <3>2. CASE ~EndTick(p)
        BY <1>PassGate, <1>pc, <1>hand, <3>2
           DEF PassGate, Goto, HandOf, HandPCs, HasCurrent, Current, jobs, local
      <3> QED
        BY <3>1, <3>2
    <2> QED
      BY <1>PassGate, <1>same, <2>0, <2>1, HandMoves DEF PassGate, jobs
  <1>Send. ASSUME NEW p \in Procs, Send(p) PROVE Goal
    <2>0. Moves(p) /\ TypeOK
      BY <1>Send, StepMoves DEF Step, TypeInv
    <2> QED
      BY <1>Send, <2>0, SendStep, HandMoves
  <1>Answer. ASSUME NEW p \in Procs, Answer(p) PROVE Goal
    <2>0. Moves(p) /\ TypeOK
      BY <1>Answer, StepMoves DEF Step, TypeInv
    <2> QED
      BY <1>Answer, <2>0, AnswerStep, HandMoves
  <1>AttachSent. ASSUME NEW p \in Procs, AttachSent(p) PROVE Goal
    <2>0. Moves(p) /\ TypeOK
      BY <1>AttachSent, StepMoves DEF Step, TypeInv
    <2> QED
      BY <1>AttachSent, <1>same, <2>0, EndTickHand, HandMoves DEF AttachSent, jobs
  <1>PrepareCommit. ASSUME NEW p \in Procs, PrepareCommit(p) PROVE Goal
    <2>0. Moves(p) /\ TypeOK
      BY <1>PrepareCommit, StepMoves DEF Step, TypeInv
    <2> QED
      BY <1>PrepareCommit, <1>same, <2>0, EndTickHand, HandMoves DEF PrepareCommit, jobs
  <1>Refused. ASSUME NEW p \in Procs, Refused(p) PROVE Goal
    <2>0. Moves(p) /\ TypeOK
      BY <1>Refused, StepMoves DEF Step, TypeInv
    <2> QED
      BY <1>Refused, <1>same, <2>0, EndTickHand, HandMoves DEF Refused, jobs
  <1>InspectUnavailable. ASSUME NEW p \in Procs, InspectUnavailable(p) PROVE Goal
    <2>0. Moves(p) /\ TypeOK
      BY <1>InspectUnavailable, StepMoves DEF Step, TypeInv
    <2>1. /\ Current(p) \in Batches /\ snap[p] = journal
      BY <1>InspectUnavailable, <1>here DEF InspectUnavailable, Inspecting
    <2>2. /\ Save(Current(p), journal[Current(p)]) /\ EndTick(p)
          /\ journal[Current(p)].hash # NoTx
      BY <1>InspectUnavailable, <2>1 DEF InspectUnavailable, Inspecting
    <2> QED
      BY <2>0, <2>1, <2>2, SaveSame, EndTickHand, HandMoves
  <1>Throw. ASSUME NEW p \in Procs, Throw(p) PROVE Goal
    <2>0. Moves(p) /\ TypeOK
      BY <1>Throw, StepMoves DEF Step, TypeInv
    <2> QED
      BY <1>Throw, <1>same, <2>0, EndTickHand, HandMoves DEF Throw, jobs
  <1>PrepareRead. ASSUME NEW p \in Procs, PrepareRead(p) PROVE Goal
    <2>0. Moves(p) /\ TypeOK
      BY <1>PrepareRead, StepMoves DEF Step, TypeInv
    <2>1. HandOf(p)'
      <3>1. CASE EndTick(p)
        BY <2>0, <3>1, EndTickHand
      <3>2. CASE ~EndTick(p)
        BY <1>PrepareRead, <1>pc, <1>hand, <3>2
           DEF PrepareRead, Goto, HandOf, HandPCs, HasCurrent, Current, jobs, local
      <3> QED
        BY <3>1, <3>2
    <2> QED
      BY <1>PrepareRead, <1>same, <2>0, <2>1, HandMoves DEF PrepareRead, jobs
  <1>Start. ASSUME NEW p \in Procs, Start(p) PROVE Goal
    <2>1. UNCHANGED <<journal, order>> /\ Goto(p, "idle")
      BY <1>Start DEF Start, jobs
    <2>2. \A q \in Procs \ {p} : UNCHANGED <<pc[q], at[q], snap[q]>>
      BY <1>Start, <1>pc DEF Start, Goto, Forget, local
    <2>3. \A q \in Procs \ {p} : HandOf(q)'
      BY <1>hand, <2>1, <2>2 DEF HandOf, Current
    <2>4. HandOf(p)'
      BY <1>pc, <2>1 DEF Goto, HandOf, HandPCs
    <2> QED
      BY <1>same, <2>1, <2>3, <2>4
  <1>Close. ASSUME NEW p \in Procs, Close(p) PROVE Goal
    <2>1. UNCHANGED <<journal, order>> /\ Goto(p, "off")
      BY <1>Close DEF Close, jobs
    <2>2. \A q \in Procs \ {p} : UNCHANGED <<pc[q], at[q], snap[q]>>
      BY <1>Close, <1>pc DEF Close, Goto, Forget, local
    <2>3. \A q \in Procs \ {p} : HandOf(q)'
      BY <1>hand, <2>1, <2>2 DEF HandOf, Current
    <2>4. HandOf(p)'
      BY <1>pc, <2>1 DEF Goto, HandOf, HandPCs
    <2> QED
      BY <1>same, <2>1, <2>3, <2>4
  <1>Crash. ASSUME NEW p \in Procs, Crash(p) PROVE Goal
    <2>1. UNCHANGED <<journal, order>> /\ Goto(p, "off")
      BY <1>Crash DEF Crash, jobs
    <2>2. \A q \in Procs \ {p} : UNCHANGED <<pc[q], at[q], snap[q]>>
      BY <1>Crash, <1>pc DEF Crash, Goto, Forget, local
    <2>3. \A q \in Procs \ {p} : HandOf(q)'
      BY <1>hand, <2>1, <2>2 DEF HandOf, Current
    <2>4. HandOf(p)'
      BY <1>pc, <2>1 DEF Goto, HandOf, HandPCs
    <2> QED
      BY <1>same, <2>1, <2>3, <2>4
  <1>Ingest. CASE \E e \in Events : Ingest(e)
    BY <1>Ingest, HandFrame DEF Ingest, jobs, local
  <1>Recover. CASE \E r \in Recoverers : CheckLock(r) \/ UnlinkLock(r)
    BY <1>Recover, HandFrame DEF CheckLock, UnlinkLock, jobs, local
  <1>Chain. CASE Chain
    BY <1>Chain, HandFrame DEF Chain, Deepen, Reorg, Mine, jobs, local
  <1>Operator. CASE Operator
    BY <1>Operator, HandFrame
       DEF Operator, OpPrepareRead, OpPrepareCommit, OpenGate, CloseGate, OpAttach,
           ManualSend, jobs, local
  <1>Pass. CASE Pass
    BY <1>Pass, HandFrame DEF Pass
  <1>Stutter. CASE UNCHANGED vars
    BY <1>Stutter, HandFrame DEF vars, jobs, local
  <1> QED
    BY <1>Answer, <1>TickStart, <1>DiscoverOne, <1>ReadJobs,
       <1>InspectSettled, <1>InspectBlocked, <1>InspectMissing, <1>Reattach,
       <1>Settle, <1>Begin, <1>ReadPendingCount, <1>Sign, <1>PassGate,
       <1>Send, <1>AttachSent, <1>PrepareCommit, <1>Refused,
       <1>InspectUnavailable, <1>Throw, <1>PrepareRead, <1>Start, <1>Close,
       <1>Crash, <1>Ingest, <1>Recover, <1>Chain, <1>Operator, <1>Pass,
       <1>Stutter
       DEF Next, Step

\* Nothing but a broadcast or the operator's hand reaches the network.
LEMMA OnlySends ==
  ASSUME [Next]_vars, \A p \in Procs : ~Send(p)
  PROVE  \A t \in sent \cup sent' : (t \in sent /\ t \in sent') \/ t.by = "manual"
  <1> DEFINE Quiet == \A t \in sent \cup sent' : (t \in sent /\ t \in sent') \/ t.by = "manual"
  <1>1. UNCHANGED sent => Quiet
    OBVIOUS
  <1>2. ASSUME NEW b \in Batches, NEW fee \in Fees, ManualSend(b, fee)
        PROVE  Quiet
    BY <1>2 DEF ManualSend
  <1>3. ASSUME NEW p \in Procs, Step(p), ~Send(p) PROVE UNCHANGED sent
    BY <1>3
       DEF Step, net, TickStart, DiscoverOne, ReadJobs, InspectSettled,
           InspectBlocked, InspectMissing, Reattach, Settle, Begin,
           ReadPendingCount, Sign, PassGate, Answer, AttachSent, PrepareRead,
           PrepareCommit, Refused
  <1>4. ASSUME NEW p \in Procs,
               InspectUnavailable(p) \/ Throw(p) \/ Start(p) \/ Close(p) \/ Crash(p)
        PROVE  UNCHANGED sent
    BY <1>4 DEF net, InspectUnavailable, Throw, Start, Close, Crash
  <1>5. CASE \/ \E e \in Events : Ingest(e)
             \/ \E r \in Recoverers : CheckLock(r) \/ UnlinkLock(r)
             \/ Chain \/ Pass \/ UNCHANGED vars
    BY <1>1, <1>5
       DEF net, vars, Ingest, CheckLock, UnlinkLock, Chain, Deepen, Reorg, Mine, Pass
  <1>6. CASE Operator
    BY <1>1, <1>2, <1>6
       DEF net, Operator, OpPrepareRead, OpPrepareCommit, OpAttach, OpenGate, CloseGate
  <1> QED
    BY <1>1, <1>3, <1>4, <1>5, <1>6 DEF Next

LEMMA SendNext ==
  ASSUME TypeInv, DurableInv, [Next]_vars
  PROVE  SendsDurable
  <1>1. ASSUME NEW p \in Procs, Send(p) PROVE SendsDurable
    BY <1>1, SendStep DEF SendsDurable
  <1>2. CASE \A p \in Procs : ~Send(p)
    BY <1>2, OnlySends DEF SendsDurable
  <1> QED
    BY <1>1, <1>2

LEMMA DurableInit == Init => DurableInv
  BY DEF Init, DurableInv, HandOf, HandPCs, BytesOK, NoJob, DurableBeforeSend

LEMMA DurableNext ==
  ASSUME TypeInv, TypeOK', OwnerInv, DurableInv, [Next]_vars
  PROVE  DurableInv' /\ KeepsSigned
  <1>1. (SameBytes \/ FillsRow) /\ \A q \in Procs : HandOf(q)'
    BY HandNext
  <1>2. SendsDurable
    BY SendNext
  <1>3. (\A b \in Batches : BytesOK(journal'[b], b)) /\ DurableBeforeSend'
    BY <1>1, <1>2, DurableKept DEF TypeInv
  <1>4. KeepsSigned
    BY <1>1, RowsKept
  <1> QED
    BY <1>1, <1>3, <1>4 DEF DurableInv

LEMMA DurableInvariant == ASSUME SoleRecoverer PROVE Spec => []DurableInv
  <1>1. Init => DurableInv
    BY DurableInit
  <1>2. TypeInv /\ TypeOK' /\ OwnerInv /\ DurableInv /\ [Next]_vars => DurableInv'
    BY DurableNext
  <1> QED
    BY <1>1, <1>2, TypeCorrect, TypeInvariant, OwnerInvariant, PTL DEF Spec

\* "Persist signed bytes BEFORE any broadcast" (worker.cjs): whatever crashes,
\* the one transaction the network may have seen for a batch is the one the
\* journal still holds.
THEOREM DurableSend == ASSUME SoleRecoverer PROVE Spec => []DurableBeforeSend
  <1>1. DurableInv => DurableBeforeSend
    BY DEF DurableInv
  <1> QED
    BY <1>1, DurableInvariant, PTL

\* "A timeout never authorises a replacement transaction" (worker.cjs): bytes,
\* nonce and reservation of a signed job outlive every retry and restart.
THEOREM SignedKept == ASSUME SoleRecoverer PROVE Spec => SignedIsKept
  <1>1. TypeInv /\ TypeOK' /\ OwnerInv /\ DurableInv /\ [Next]_vars => [KeepsSigned]_vars
    BY DurableNext
  <1>2. [KeepsSigned]_vars <=> [\A b \in Batches : journal[b].raw # NoTx =>
              /\ journal'[b].raw = journal[b].raw
              /\ journal'[b].hash = journal[b].hash
              /\ journal'[b].reserve = journal[b].reserve]_vars
    BY DEF KeepsSigned
  <1> QED
    BY <1>1, <1>2, TypeCorrect, TypeInvariant, OwnerInvariant, DurableInvariant, PTL
       DEF Spec, SignedIsKept

-----------------------------------------------------------------------------
(* The worker implements SingleSubmission. *)

LEMMA SubmitInit == Init => Submission!Init
  BY DEF Init, Submission!Init, NoJob

LEMMA SubmitNext ==
  ASSUME TypeInv, TypeOK', OwnerInv, DurableInv, [Next]_vars
  PROVE  [Submission!Next]_(Submission!vars)
  <1> DEFINE choice == [b \in Batches |-> journal[b].raw]
  <1> DEFINE network == {t \in sent : t.by = "worker"}
  <1>1. SameBytes => choice' = choice
    BY DEF SameBytes
  <1>2. ASSUME NEW p \in Procs, Send(p) PROVE [Submission!Next]_(Submission!vars)
    <2>1. PICK b \in Batches : /\ journal[b].raw # NoTx
                               /\ sent' \in {sent, sent \cup {journal[b].raw}}
      BY <1>2, SendStep
    <2>2. choice' = choice
      BY <1>1, <1>2, SendStep
    <2>3. journal[b].raw.by = "worker"
      BY <2>1 DEF DurableInv, BytesOK
    <2>4. network' = network \/ network' = network \cup {choice[b]}
      BY <2>1, <2>3
    <2> QED
      BY <2>1, <2>2, <2>4 DEF Submission!Next, Submission!Broadcast, Submission!vars
  <1>3. CASE \A p \in Procs : ~Send(p)
    <2>1. network' = network
      BY <1>3, OnlySends
    <2>2. SameBytes \/ FillsRow
      BY HandNext
    <2>3. CASE SameBytes
      BY <1>1, <2>1, <2>3 DEF Submission!vars
    <2>4. CASE FillsRow
      <3>1. PICK b \in Batches :
               /\ journal[b].raw = NoTx
               /\ \A c \in Batches \ {b} : journal'[c] = journal[c]
               /\ BytesOK(journal'[b], b)
        BY <2>4 DEF FillsRow, BytesOK
      <3>2. choice' = [choice EXCEPT ![b] = choice'[b]]
        BY <3>1
      <3>3. CASE journal'[b].raw = NoTx
        <4>1. choice' = choice
          BY <3>1, <3>2, <3>3
        <4> QED
          BY <2>1, <4>1 DEF Submission!vars
      <3>4. CASE journal'[b].raw # NoTx
        <4>1. journal'[b].raw \in Tx
          BY <3>4 DEF TypeOK, JobsOK, Job
        <4>2. journal'[b].raw.by = "worker" /\ journal'[b].raw.batch = b
          BY <3>1, <3>4 DEF BytesOK
        <4>3. journal'[b].raw \in [by: {"worker"}, batch: Batches, nonce: Nat, fee: Fees]
          BY <4>1, <4>2 DEF Tx
        <4> QED
          BY <2>1, <3>1, <3>2, <4>2, <4>3 DEF Submission!Next, Submission!Choose
      <3> QED
        BY <3>3, <3>4
    <2> QED
      BY <2>2, <2>3, <2>4
  <1> QED
    BY <1>2, <1>3

\* The worker, with its journal, its locks and its crashes, implements the
\* promise that one transaction is chosen per batch and nothing else is sent.
THEOREM WorkerSubmitsOnce == ASSUME SoleRecoverer PROVE Spec => SubmitsOnce
  <1>1. Init => Submission!Init
    BY SubmitInit
  <1>2. TypeInv /\ TypeOK' /\ OwnerInv /\ DurableInv /\ [Next]_vars
          => [Submission!Next]_(Submission!vars)
    BY SubmitNext
  <1> QED
    BY <1>1, <1>2, TypeCorrect, TypeInvariant, OwnerInvariant, DurableInvariant, PTL
       DEF Spec, SubmitsOnce, Submission!Spec

-----------------------------------------------------------------------------
(* No event is batched twice. *)

LEMMA EvidenceStep ==
  ASSUME [Next]_vars
  PROVE  \/ UNCHANGED evidence
         \/ \E S, q : CommitBatch(S, q)
         \/ \E b, t : AttachTransaction(b, t)
  <1> DEFINE Goal == \/ UNCHANGED evidence
                     \/ \E S, q : CommitBatch(S, q)
                     \/ \E b, t : AttachTransaction(b, t)
  <1>1. ASSUME NEW p \in Procs, Step(p) PROVE Goal
    <2>1. CASE Reattach(p) \/ AttachSent(p)
      BY <2>1 DEF Reattach, AttachSent
    <2>2. CASE PrepareCommit(p)
      BY <2>2 DEF PrepareCommit
    <2>3. CASE ~(Reattach(p) \/ AttachSent(p) \/ PrepareCommit(p))
      BY <1>1, <2>3
         DEF Step, store, TickStart, DiscoverOne, ReadJobs, InspectSettled,
             InspectBlocked, InspectMissing, Settle, Begin, ReadPendingCount, Sign,
             PassGate, Send, Answer, PrepareRead, Refused
    <2> QED
      BY <2>1, <2>2, <2>3
  <1>2. ASSUME NEW p \in Procs,
               InspectUnavailable(p) \/ Throw(p) \/ Start(p) \/ Close(p) \/ Crash(p)
        PROVE  UNCHANGED evidence
    BY <1>2 DEF store, InspectUnavailable, Throw, Start, Close, Crash
  <1>3. CASE \/ \E e \in Events : Ingest(e)
             \/ \E r \in Recoverers : CheckLock(r) \/ UnlinkLock(r)
             \/ Chain \/ Pass \/ UNCHANGED vars
    BY <1>3
       DEF store, vars, Ingest, CheckLock, UnlinkLock, Chain, Deepen, Reorg, Mine, Pass
  <1>4. CASE Operator
    BY <1>4
       DEF store, Operator, OpPrepareRead, OpPrepareCommit, OpAttach, OpenGate,
           CloseGate, ManualSend
  <1> QED
    BY <1>1, <1>2, <1>3, <1>4 DEF Next

LEMMA BatchedNext ==
  ASSUME StoreOK, BatchedOnce, [Next]_vars
  PROVE  BatchedOnce'
  <1>1. CASE UNCHANGED evidence
    BY <1>1 DEF BatchedOnce
  <1>2. ASSUME NEW S, NEW q, CommitBatch(S, q) PROVE BatchedOnce'
    <2>1. PICK b \in Batches :
            evidence' = [evidence EXCEPT ![b] =
              [events |-> S, publisher |-> q, transactions |-> <<>>]]
      BY <1>2 DEF CommitBatch
    <2>2. \A c \in Batches : S \cap evidence[c].events = {}
      BY <1>2 DEF CommitBatch, Batched
    <2>3. \A c \in Batches :
             evidence'[c].events = IF c = b THEN S ELSE evidence[c].events
      BY <2>1 DEF StoreOK
    <2> QED
      BY <2>2, <2>3 DEF BatchedOnce
  <1>3. ASSUME NEW b, NEW t, AttachTransaction(b, t) PROVE BatchedOnce'
    <2>1. \A c \in Batches : evidence'[c].events = evidence[c].events
      BY <1>3 DEF AttachTransaction, StoreOK, Bundle
    <2> QED
      BY <2>1 DEF BatchedOnce
  <1> QED
    BY <1>1, <1>2, <1>3, EvidenceStep

\* Though the worker and the operator's CLI read pending events long before
\* they commit a batch of them, no event ends up in two batches.
THEOREM BatchedAtMostOnce == Spec => []BatchedOnce
  <1>1. Init => BatchedOnce
    BY DEF Init, BatchedOnce, NoBundle
  <1>2. TypeOK /\ BatchedOnce /\ [Next]_vars => BatchedOnce'
    BY BatchedNext DEF TypeOK
  <1> QED
    BY <1>1, <1>2, TypeCorrect, PTL DEF Spec

-----------------------------------------------------------------------------
(* One transaction of the wallet at a time. *)

\* Twelve confirmations are final, as the worker takes them to be.
FinalityHolds == ~DeepReorg

\* The wallet's transactions are included in the order of their nonces.
NoncesInOrder == \A i \in DOMAIN chain : chain[i].tx.nonce = i - 1

\* The job list names every job once, and behind a job whose transaction is
\* not final there is no signed one.
ListedOnce ==
    /\ \A i, j \in DOMAIN order : i # j => order[i] # order[j]
    /\ \A b \in Batches : journal[b] # NoJob <=> \E i \in DOMAIN order : order[i] = b
SignedInOrder ==
    \A i, j \in DOMAIN order : i < j /\ journal[order[j]].raw # NoTx =>
        /\ Final(journal[order[i]].hash)
        /\ journal[order[i]].raw # NoTx =>
             journal[order[i]].raw.nonce < journal[order[j]].raw.nonce

\* A process goes on to a job only after it has seen all before it final, and
\* calls final what is, once the hash is recorded.
LoopOf(p) ==
    /\ pc[p] \in {"off", "idle", "discover"} => at[p] = 1
    /\ pc[p] \in HandPCs \cup {"jobs"} =>
         \A i \in DOMAIN order : i < at[p] => Final(journal[order[i]].hash)
    /\ pc[p] \in {"reattach", "settle"} /\ seen[p] = "confirmed" =>
         Final(journal[Current(p)].hash)
    /\ pc[p] = "settle" => Attached(Current(p), journal[Current(p)].hash)

\* A job is a job for evidence that exists.
JobsStored == \A b \in Batches : journal[b] # NoJob => Stored(b)

ChainInv ==
    /\ NoncesInOrder /\ ListedOnce /\ SignedInOrder /\ JobsStored
    /\ \A p \in Procs : LoopOf(p)
    /\ ConfirmedIsAnchored

LEMMA ChainInit == Init => ChainInv
  BY DEF Init, ChainInv, NoncesInOrder, ListedOnce, SignedInOrder, JobsStored, LoopOf,
         HandPCs, ConfirmedIsAnchored, NoJob, NoBundle

\* What the chain may do: grow by the wallet's next transaction, or lose one
\* that is not deep.
LEMMA ChainStep ==
  ASSUME [Next]_vars
  PROVE  \/ UNCHANGED <<chain, deep>>
         \/ \E t \in sent : Mine(t)
         \/ Deepen \/ Reorg
  <1> DEFINE Goal == \/ UNCHANGED <<chain, deep>>
                     \/ \E t \in sent : Mine(t)
                     \/ Deepen \/ Reorg
  <1>1. ASSUME NEW p \in Procs, Step(p) PROVE Goal
    BY <1>1
       DEF Step, net, TickStart, DiscoverOne, ReadJobs, InspectSettled,
           InspectBlocked, InspectMissing, Reattach, Settle, Begin,
           ReadPendingCount, Sign, PassGate, Send, Answer, AttachSent, PrepareRead,
           PrepareCommit, Refused
  <1>2. ASSUME NEW p \in Procs,
               InspectUnavailable(p) \/ Throw(p) \/ Start(p) \/ Close(p) \/ Crash(p)
        PROVE  Goal
    BY <1>2 DEF net, InspectUnavailable, Throw, Start, Close, Crash
  <1>3. CASE \/ \E e \in Events : Ingest(e)
             \/ \E r \in Recoverers : CheckLock(r) \/ UnlinkLock(r)
             \/ Pass \/ UNCHANGED vars
    BY <1>3 DEF net, vars, Ingest, CheckLock, UnlinkLock, Pass
  <1>4. CASE Operator
    BY <1>4
       DEF net, Operator, OpPrepareRead, OpPrepareCommit, OpAttach, OpenGate,
           CloseGate, ManualSend
  <1>5. CASE Chain
    BY <1>5 DEF Chain
  <1> QED
    BY <1>1, <1>2, <1>3, <1>4, <1>5 DEF Next

LEMMA NoncesNext ==
  ASSUME TypeOK, NoncesInOrder, [Next]_vars
  PROVE  NoncesInOrder'
  <1>0. chain \in Seq(Entry) /\ deep \in 0..Len(chain)
    BY DEF TypeOK, NetOK
  <1>1. ASSUME NEW t \in sent, Mine(t) PROVE NoncesInOrder'
    <2>1. chain' = Append(chain, [tx |-> t, ok |-> ~Landed(t.batch)]) /\ t.nonce = Len(chain)
      BY <1>1 DEF Mine, LatestCount
    <2>2. /\ DOMAIN chain' = 1..(Len(chain) + 1)
          /\ \A i \in 1..Len(chain) : chain'[i] = chain[i]
          /\ chain'[Len(chain) + 1].tx = t
      BY <1>0, <2>1
    <2> QED
      BY <1>0, <2>1, <2>2 DEF NoncesInOrder
  <1>2. CASE Reorg
    <2>1. Len(chain) >= 1
      BY <1>0, <1>2 DEF Reorg
    <2>2. DOMAIN chain' \subseteq DOMAIN chain /\ \A i \in DOMAIN chain' : chain'[i] = chain[i]
      BY <1>0, <1>2, <2>1 DEF Reorg
    <2> QED
      BY <2>2 DEF NoncesInOrder
  <1>3. CASE UNCHANGED <<chain, deep>> \/ Deepen
    BY <1>3 DEF NoncesInOrder, Deepen
  <1> QED
    BY <1>1, <1>2, <1>3, ChainStep

\* What is final stays so.
LEMMA FinalKept ==
  ASSUME FinalityHolds, TypeOK, [Next]_vars, NEW t, Final(t)
  PROVE  Final(t)'
  <1>0. chain \in Seq(Entry) /\ deep \in 0..Len(chain)
    BY DEF TypeOK, NetOK
  <1>1. PICK i \in DOMAIN chain : i <= deep /\ chain[i].tx = t /\ chain[i].ok
    BY DEF Final
  <1>2. SUFFICES i \in DOMAIN chain' /\ i <= deep' /\ chain'[i] = chain[i]
    BY <1>1 DEF Final
  <1>3. ASSUME NEW u \in sent, Mine(u)
        PROVE  i \in DOMAIN chain' /\ i <= deep' /\ chain'[i] = chain[i]
    <2> DEFINE entry == [tx |-> u, ok |-> ~Landed(u.batch)]
    <2>1. chain' = Append(chain, entry) /\ deep' = deep
      BY <1>3 DEF Mine
    <2> HIDE DEF entry
    <2> QED
      BY <1>0, <1>1, <2>1
  <1>4. CASE Reorg
    <2>1. Len(chain) > deep /\ deep' = deep /\ chain' = SubSeq(chain, 1, Len(chain) - 1)
      BY <1>0, <1>4 DEF Reorg, FinalityHolds
    <2> QED
      BY <1>0, <1>1, <2>1
  <1>5. CASE UNCHANGED <<chain, deep>> \/ Deepen
    BY <1>0, <1>1, <1>5 DEF Deepen
  <1> QED
    BY <1>3, <1>4, <1>5, ChainStep

\* A hash once recorded with a batch stays recorded.
LEMMA AttachedKept ==
  ASSUME StoreOK, [Next]_vars, NEW b \in Batches, Stored(b)
  PROVE  Stored(b)' /\ \A t : Attached(b, t) => Attached(b, t)'
  <1> DEFINE Goal == Stored(b)' /\ \A t : Attached(b, t) => Attached(b, t)'
  <1>0. evidence[b] \in Bundle /\ evidence[b].transactions \in Seq(Tx)
    BY DEF StoreOK, Bundle
  <1>1. evidence'[b] = evidence[b] => Goal
    BY DEF Stored, Attached
  <1>2. ASSUME NEW S, NEW q, CommitBatch(S, q) PROVE Goal
    BY <1>1, <1>2 DEF CommitBatch, StoreOK
  <1>3. ASSUME NEW c, NEW u, AttachTransaction(c, u) PROVE Goal
    <2>1. CASE evidence' = evidence
      BY <1>1, <2>1
    <2>2. CASE evidence' = [evidence EXCEPT ![c].transactions = Append(@, u)]
      <3>1. CASE c # b
        BY <1>1, <2>2, <3>1 DEF StoreOK
      <3>2. CASE c = b
        <4>1. /\ evidence'[b].transactions = Append(evidence[b].transactions, u)
              /\ evidence'[b].publisher = evidence[b].publisher
          BY <1>0, <2>2, <3>2 DEF StoreOK, Bundle
        <4>2. \A i \in DOMAIN evidence[b].transactions :
                 /\ i \in DOMAIN evidence'[b].transactions
                 /\ evidence'[b].transactions[i] = evidence[b].transactions[i]
          BY <1>0, <4>1
        <4> QED
          BY <4>1, <4>2 DEF Stored, Attached
      <3> QED
        BY <3>1, <3>2
    <2> QED
      BY <1>3, <2>1, <2>2 DEF AttachTransaction
  <1> QED
    BY <1>1, <1>2, <1>3, EvidenceStep

\* The job list changes only when a batch is found.
LEMMA OrderStep ==
  ASSUME [Next]_vars
  PROVE  UNCHANGED order \/ \E p \in Procs : DiscoverOne(p)
  <1>1. ASSUME NEW p \in Procs, Step(p), ~DiscoverOne(p) PROVE UNCHANGED order
    BY <1>1
       DEF Step, jobs, TickStart, ReadJobs, InspectSettled,
           InspectBlocked, InspectMissing, Reattach, Settle, Begin,
           ReadPendingCount, Sign, PassGate, Send, Answer, AttachSent, PrepareRead,
           PrepareCommit, Refused
  <1>2. ASSUME NEW p \in Procs,
               InspectUnavailable(p) \/ Throw(p) \/ Start(p) \/ Close(p) \/ Crash(p)
        PROVE  UNCHANGED order
    BY <1>2 DEF jobs, InspectUnavailable, Throw, Start, Close, Crash
  <1>3. CASE \/ \E e \in Events : Ingest(e)
             \/ \E r \in Recoverers : CheckLock(r) \/ UnlinkLock(r)
             \/ Chain \/ Pass \/ UNCHANGED vars
    BY <1>3
       DEF jobs, vars, Ingest, CheckLock, UnlinkLock, Chain, Deepen, Reorg, Mine, Pass
  <1>4. CASE Operator
    BY <1>4
       DEF jobs, Operator, OpPrepareRead, OpPrepareCommit, OpAttach, OpenGate,
           CloseGate, ManualSend
  <1> QED
    BY <1>1, <1>2, <1>3, <1>4 DEF Next

\* A found batch becomes the last job, unsigned; a found job changes nothing.
Finds(b) ==
    /\ journal[b] = NoJob /\ Stored(b)
    /\ order' = Append(order, b)
    /\ \A c \in Batches \ {b} : journal'[c] = journal[c]
    /\ journal'[b] # NoJob /\ journal'[b].raw = NoTx /\ journal'[b].state # "confirmed"

LEMMA DiscoverStep ==
  ASSUME TypeInv, NEW p \in Procs, DiscoverOne(p)
  PROVE  /\ UNCHANGED <<journal, order>> \/ \E b \in Batches : Finds(b)
         /\ pc[p] = "discover" /\ UNCHANGED <<pc, at, evidence>>
  <1>1. PICK b \in todo[p] :
           IF Undiscovered(b)
              THEN Save(b, NewJob(b)) /\ order' = Append(order, b)
              ELSE UNCHANGED <<journal, order>>
    BY DEF DiscoverOne
  <1>2. b \in Batches
    BY DEF TypeInv, TypeOK, LocalOK
  <1>3. NewJob(b) # NoJob /\ NewJob(b).raw = NoTx /\ NewJob(b).state # "confirmed"
    <2>1. NewJob(b).state \in {"prepared", "external"} /\ NewJob(b).raw = NoTx
      BY DEF NewJob, NoJob
    <2> QED
      BY <2>1 DEF NoJob
  <1>4. CASE Undiscovered(b)
    <2>1. journal' = [journal EXCEPT ![b] = NewJob(b)] /\ order' = Append(order, b)
      BY <1>1, <1>4 DEF Save
    <2>2. journal'[b] = NewJob(b) /\ \A c \in Batches \ {b} : journal'[c] = journal[c]
      BY <1>2, <2>1 DEF TypeInv, TypeOK, JobsOK
    <2>3. journal[b] = NoJob /\ Stored(b)
      BY <1>4 DEF Undiscovered, Stored
    <2> QED
      BY <1>2, <1>3, <2>1, <2>2, <2>3 DEF Finds, DiscoverOne, store
  <1> QED
    BY <1>1, <1>4 DEF DiscoverOne, store

\* A job is signed with the nonce that follows the included transactions.
Signs(p) ==
    /\ HasCurrent(p) /\ Current(p) \in Batches
    /\ journal[Current(p)].raw = NoTx /\ journal[Current(p)].hash = NoTx
    /\ pc' = [pc EXCEPT ![p] = "gate"]
    /\ \A c \in Batches \ {Current(p)} : journal'[c] = journal[c]
    /\ journal'[Current(p)].raw # NoTx /\ journal'[Current(p)].raw.nonce = Len(chain)
    /\ journal'[Current(p)].state # "confirmed"
    /\ at' = at

LEMMA SignStep ==
  ASSUME TypeInv, DurableInv, NEW p \in Procs, Sign(p)
  PROVE  /\ (UNCHANGED journal /\ EndTick(p)) \/ Signs(p)
         /\ pc[p] = "sign" /\ UNCHANGED <<order, chain, evidence>>
  <1>1. CurrentOf(p) /\ HandOf(p)
    BY DEF TypeInv, CurrentOK, DurableInv
  <1>2. HasCurrent(p) /\ journal[Current(p)].hash = NoTx /\ snap[p] = journal
    BY <1>1 DEF Sign, CurrentOf, HandOf, HandPCs
  <1>3. Current(p) \in Batches /\ journal[Current(p)] \in Job
    BY <1>2, HandType DEF TypeInv
  <1>4. journal[Current(p)].raw = NoTx
    BY <1>2, <1>3 DEF DurableInv, BytesOK
  <1>5. PICK fee \in Fees :
        \/ /\ nonce[p] = LatestCount
           /\ Save(Current(p), SignedJob(p, fee))
           /\ Goto(p, "gate")
           /\ UNCHANGED at
        \/ EndTick(p) /\ UNCHANGED journal
    BY DEF Sign
  <1>6. CASE EndTick(p) /\ UNCHANGED journal
    BY <1>6 DEF Sign, net, store
  <1>7. CASE /\ nonce[p] = LatestCount
             /\ Save(Current(p), SignedJob(p, fee))
             /\ Goto(p, "gate")
             /\ UNCHANGED at
    <2> DEFINE tx == [by |-> "worker", batch |-> Current(p), nonce |-> nonce[p], fee |-> fee]
    <2>1. /\ SignedJob(p, fee).raw = tx /\ SignedJob(p, fee).state = "signed"
      BY <1>2, <1>3 DEF SignedJob, Job
    <2>2. tx # NoTx /\ tx.nonce = Len(chain)
      BY <1>7 DEF NoTx, LatestCount
    <2>3. /\ journal'[Current(p)] = SignedJob(p, fee)
          /\ \A c \in Batches \ {Current(p)} : journal'[c] = journal[c]
      BY <1>3, <1>7 DEF Save, TypeInv, TypeOK, JobsOK
    <2> HIDE DEF tx
    <2> QED
      BY <1>2, <1>3, <1>4, <1>7, <2>1, <2>2, <2>3 DEF Signs, Goto, Sign, net, store
  <1> QED
    BY <1>5, <1>6, <1>7

LEMMA FinalIsTx ==
  ASSUME TypeOK, NoncesInOrder, NEW t, Final(t)
  PROVE  t # NoTx /\ t.nonce < Len(chain)
  <1>1. PICK i \in DOMAIN chain : i <= deep /\ chain[i].tx = t
    BY DEF Final
  <1>2. chain \in Seq(Entry) /\ deep \in 0..Len(chain) /\ i \in 1..Len(chain)
    BY DEF TypeOK, NetOK
  <1>3. chain[i] \in Entry /\ chain[i].tx \in Tx
    <2>1. chain[i] \in Entry
      BY <1>2
    <2> QED
      BY <2>1 DEF Entry
  <1> QED
    BY <1>1, <1>2, <1>3, NoTxNotTx DEF NoncesInOrder

Lists == ListedOnce /\ SignedInOrder /\ JobsStored

\* Rows without a hash rest, so nothing is listed or signed.
LEMMA SameLists ==
  ASSUME FinalityHolds, TypeOK, Lists, [Next]_vars, SameBytes, UNCHANGED order
  PROVE  Lists'
  <1>1. \A b \in Batches : journal'[b] # NoJob <=> journal[b] # NoJob
    BY DEF SameBytes, NoJob
  <1>2. \A i \in DOMAIN order : order[i] \in Batches
    BY DEF TypeOK, JobsOK
  <1>3. \A i \in DOMAIN order :
           Final(journal[order[i]].hash) => Final(journal[order[i]].hash)'
    BY <1>2, FinalKept DEF SameBytes
  <1>4. SignedInOrder'
    BY <1>2, <1>3 DEF Lists, SignedInOrder, SameBytes
  <1>5. JobsStored'
    BY <1>1, AttachedKept DEF Lists, JobsStored, TypeOK
  <1> QED
    BY <1>1, <1>4, <1>5 DEF Lists, ListedOnce

LEMMA FoundLists ==
  ASSUME FinalityHolds, TypeOK, Lists, [Next]_vars, NEW b \in Batches, Finds(b)
  PROVE  Lists'
  <1> DEFINE n == Len(order) + 1
  <1>1. /\ order \in Seq(Batches) /\ DOMAIN order = 1..Len(order)
        /\ DOMAIN order' = 1..n /\ order'[n] = b
        /\ \A i \in DOMAIN order : order'[i] = order[i] /\ order[i] \in Batches
    BY DEF TypeOK, JobsOK, Finds
  <1>2. \A i \in DOMAIN order : order[i] # b
    BY DEF Lists, ListedOnce, Finds
  <1>3. ListedOnce'
    <2>1. \A i, j \in DOMAIN order' : i # j => order'[i] # order'[j]
      BY <1>1, <1>2 DEF Lists, ListedOnce
    <2>2. ASSUME NEW c \in Batches PROVE journal'[c] # NoJob <=> \E i \in DOMAIN order' : order'[i] = c
      <3>1. CASE c = b
        BY <1>1, <3>1 DEF Finds
      <3>2. CASE c # b
        <4>1. journal'[c] = journal[c]
          BY <3>2 DEF Finds
        <4>2. (\E i \in DOMAIN order : order[i] = c) <=> \E i \in DOMAIN order' : order'[i] = c
          BY <1>1, <3>2
        <4> QED
          BY <4>1, <4>2 DEF Lists, ListedOnce
      <3> QED
        BY <3>1, <3>2
    <2> QED
      BY <2>1, <2>2 DEF ListedOnce
  <1>4. SignedInOrder'
    <2>1. SUFFICES ASSUME NEW i \in DOMAIN order', NEW j \in DOMAIN order', i < j,
                          journal'[order'[j]].raw # NoTx
                   PROVE  /\ Final(journal[order[i]].hash)'
                          /\ journal'[order'[i]].raw # NoTx =>
                               journal'[order'[i]].raw.nonce < journal'[order'[j]].raw.nonce
      BY DEF SignedInOrder
    <2>2. j # n
      BY <1>1, <2>1 DEF Finds
    <2>3. i \in DOMAIN order /\ j \in DOMAIN order
      BY <1>1, <2>1, <2>2
    <2>4. journal'[order'[i]] = journal[order[i]] /\ journal'[order'[j]] = journal[order[j]]
      BY <1>1, <1>2, <2>3 DEF Finds
    <2>5. /\ Final(journal[order[i]].hash)
          /\ journal[order[i]].raw # NoTx =>
                journal[order[i]].raw.nonce < journal[order[j]].raw.nonce
      BY <2>1, <2>3, <2>4 DEF Lists, SignedInOrder
    <2>6. Final(journal[order[i]].hash)'
      BY <2>4, <2>5, FinalKept
    <2> QED
      BY <2>4, <2>5, <2>6
  <1>5. JobsStored'
    BY AttachedKept DEF Finds, Lists, JobsStored, TypeOK
  <1> QED
    BY <1>3, <1>4, <1>5 DEF Lists

LEMMA SignedLists ==
  ASSUME FinalityHolds, TypeOK, DurableInv, NoncesInOrder, Lists, [Next]_vars,
         NEW p \in Procs, LoopOf(p), pc[p] = "sign", Signs(p), UNCHANGED order
  PROVE  Lists'
  <1> DEFINE k == at[p]
  <1>1. k \in DOMAIN order /\ Current(p) = order[k] /\ order[k] \in Batches
    BY DEF Signs, HasCurrent, Current
  <1>2. \A i \in DOMAIN order : order[i] \in Batches
    BY DEF TypeOK, JobsOK
  <1>3. \A i \in DOMAIN order : i # k => journal'[order[i]] = journal[order[i]]
    BY <1>1, <1>2 DEF Signs, Lists, ListedOnce
  <1>4. \A i \in DOMAIN order : i < k => Final(journal[order[i]].hash)
    BY DEF LoopOf, HandPCs
  <1>5. SignedInOrder'
    <2>1. SUFFICES ASSUME NEW i \in DOMAIN order, NEW j \in DOMAIN order, i < j,
                          journal'[order[j]].raw # NoTx
                   PROVE  /\ Final(journal[order[i]].hash)'
                          /\ journal'[order[i]].raw # NoTx =>
                               journal'[order[i]].raw.nonce < journal'[order[j]].raw.nonce
      BY DEF SignedInOrder
    <2>2. CASE j = k
      <3>0. i < k /\ i # k
        <4>1. i \in Nat /\ k \in Nat
          BY SMTT(20), <1>1 DEF TypeOK, JobsOK
        <4> QED
          BY <2>1, <2>2, <4>1
      <3>1. journal'[order[i]] = journal[order[i]] /\ Final(journal[order[i]].hash)
        BY <1>3, <1>4, <3>0
      <3>2. Final(journal[order[i]].hash)'
        BY <3>1, FinalKept
      <3>3. journal[order[i]].raw # NoTx => journal[order[i]].raw.nonce < Len(chain)
        BY <1>2, <2>1, <3>1, FinalIsTx DEF DurableInv, BytesOK
      <3>4. journal'[order[j]].raw.nonce = Len(chain)
        BY <1>1, <2>2 DEF Signs
      <3> QED
        BY <3>1, <3>2, <3>3, <3>4
    <2>3. CASE j # k
      <3>1. journal'[order[j]] = journal[order[j]]
        BY <1>3, <2>1, <2>3
      <3>2. /\ Final(journal[order[i]].hash)
            /\ journal[order[i]].raw # NoTx =>
                  journal[order[i]].raw.nonce < journal[order[j]].raw.nonce
        BY <2>1, <3>1 DEF Lists, SignedInOrder
      <3>3. i # k
        BY <1>1, <3>2, FinalIsTx DEF Signs
      <3>4. journal'[order[i]] = journal[order[i]]
        BY <1>3, <2>1, <3>3
      <3>5. Final(journal[order[i]].hash)'
        BY <3>2, <3>4, FinalKept
      <3> QED
        BY <3>1, <3>2, <3>4, <3>5
    <2> QED
      BY <2>2, <2>3
  <1>6. \A b \in Batches : journal'[b] # NoJob <=> journal[b] # NoJob
    <2>1. journal'[Current(p)] # NoJob
      BY DEF Signs, NoJob
    <2>2. journal[Current(p)] # NoJob
      BY <1>1 DEF Lists, ListedOnce
    <2> QED
      BY <2>1, <2>2 DEF Signs
  <1>7. JobsStored'
    BY <1>6, AttachedKept DEF Lists, JobsStored, TypeOK
  <1> QED
    BY <1>5, <1>6, <1>7 DEF Lists, ListedOnce

LEMMA ListsNext ==
  ASSUME FinalityHolds, TypeInv, OwnerInv, DurableInv, ChainInv, [Next]_vars
  PROVE  Lists'
  <1>0. TypeOK /\ Lists /\ NoncesInOrder
    BY DEF TypeInv, ChainInv, Lists
  <1>1. ASSUME NEW p \in Procs, DiscoverOne(p) PROVE Lists'
    <2>1. CASE UNCHANGED <<journal, order>>
      BY <1>0, <2>1, SameLists DEF SameBytes
    <2> QED
      BY <1>0, <1>1, <2>1, DiscoverStep, FoundLists
  <1>2. ASSUME NEW p \in Procs, Sign(p) PROVE Lists'
    <2>1. CASE UNCHANGED journal
      BY <1>0, <1>2, <2>1, SignStep, SameLists DEF SameBytes
    <2> QED
      BY <1>0, <1>2, <2>1, SignStep, SignedLists DEF ChainInv
  <1>3. CASE SameBytes /\ UNCHANGED order
    BY <1>0, <1>3, SameLists
  <1> QED
    BY <1>1, <1>2, <1>3, HandNext, OrderStep

\* A step that calls no further row confirmed leaves the promise as it was.
LEMMA ConfirmedKept ==
  ASSUME FinalityHolds, TypeOK, JobsStored, ConfirmedIsAnchored, [Next]_vars,
         \A b \in Batches : journal'[b].state = "confirmed" =>
            journal[b].state = "confirmed" /\ journal'[b].hash = journal[b].hash
  PROVE  ConfirmedIsAnchored'
  <1> SUFFICES ASSUME NEW b \in Batches, journal'[b].state = "confirmed"
               PROVE  Final(journal[b].hash)' /\ Attached(b, journal[b].hash)'
    BY DEF ConfirmedIsAnchored
  <1>1. /\ journal[b].state = "confirmed" /\ journal'[b].hash = journal[b].hash
        /\ Final(journal[b].hash) /\ Attached(b, journal[b].hash)
    BY DEF ConfirmedIsAnchored
  <1>2. Stored(b)
    BY <1>1 DEF JobsStored, NoJob
  <1>3. Final(journal[b].hash)'
    BY <1>1, FinalKept
  <1>4. Attached(b, journal[b].hash)'
    BY <1>1, <1>2, AttachedKept DEF TypeOK
  <1> QED
    BY <1>3, <1>4

\* The jobs before the one in hand stay final.
LEMMA FrontKept ==
  ASSUME FinalityHolds, TypeOK, [Next]_vars, SameBytes, UNCHANGED order, NEW n,
         \A i \in DOMAIN order : i < n => Final(journal[order[i]].hash)
  PROVE  \A i \in DOMAIN order' : i < n => Final(journal[order[i]].hash)'
  <1>1. \A i \in DOMAIN order : order[i] \in Batches
    BY DEF TypeOK, JobsOK
  <1> QED
    BY <1>1, FinalKept DEF SameBytes

\* The job in hand is listed, so its evidence is stored.
LEMMA InHandStored ==
  ASSUME TypeInv, ListedOnce, JobsStored, NEW p \in Procs, HasCurrent(p)
  PROVE  Current(p) \in Batches /\ Stored(Current(p))
  <1>1. Current(p) \in Batches
    BY HandType DEF TypeInv
  <1> QED
    BY <1>1 DEF ListedOnce, JobsStored, HasCurrent, Current

\* Where a process does not move, its claims stay true.
LEMMA LoopFrame ==
  ASSUME FinalityHolds, TypeInv, Lists, [Next]_vars, SameBytes, UNCHANGED order,
         NEW q \in Procs, LoopOf(q),
         pc'[q] = pc[q], at'[q] = at[q], seen'[q] = seen[q]
  PROVE  LoopOf(q)'
  <1>0. TypeOK /\ CurrentOf(q) /\ ListedOnce /\ JobsStored
    BY DEF TypeInv, CurrentOK, Lists
  <1>1. Current(q)' = Current(q)
    BY DEF Current
  <1>2. pc[q] \in HandPCs \cup {"jobs"} =>
          \A i \in DOMAIN order' : i < at'[q] => Final(journal[order[i]].hash)'
    BY <1>0, FrontKept DEF LoopOf
  <1>3. ASSUME pc[q] \in {"reattach", "settle"}
        PROVE  /\ Current(q) \in Batches /\ Stored(Current(q))
               /\ journal'[Current(q)].hash = journal[Current(q)].hash
    BY <1>0, <1>3, InHandStored DEF CurrentOf, HandPCs, SameBytes
  <1>4. pc[q] \in {"reattach", "settle"} /\ seen[q] = "confirmed" =>
          Final(journal[Current(q)].hash)'
    BY <1>0, <1>1, <1>3, FinalKept DEF LoopOf
  <1>5. pc[q] = "settle" => Attached(Current(q), journal[Current(q)].hash)'
    BY <1>0, <1>1, <1>3, AttachedKept DEF LoopOf, TypeOK
  <1> QED
    BY <1>1, <1>2, <1>4, <1>5 DEF LoopOf

\* The next tick begins with the first job.
LEMMA EndTickLoop ==
  ASSUME TypeOK, NEW p \in Procs, EndTick(p)
  PROVE  LoopOf(p)'
  BY DEF TypeOK, LocalOK, EndTick, Goto, Forget, LoopOf, HandPCs

\* On with the job in hand, before or after it was verified.
LEMMA OnwardLoop ==
  ASSUME FinalityHolds, TypeOK, [Next]_vars, SameBytes, UNCHANGED order,
         NEW p \in Procs, LoopOf(p), pc[p] \in HandPCs \cup {"jobs"}, at'[p] = at[p],
         pc'[p] \notin {"off", "idle", "discover", "reattach", "settle"}
  PROVE  LoopOf(p)'
  <1>1. \A i \in DOMAIN order' : i < at'[p] => Final(journal[order[i]].hash)'
    BY FrontKept DEF LoopOf
  <1> QED
    BY <1>1 DEF LoopOf

\* A step of a process leaves the positions of the others alone.
LEMMA AtStep ==
  ASSUME TypeOK, NEW p \in Procs, Step(p) \/ InspectUnavailable(p) \/ Throw(p)
  PROVE  \A q \in Procs \ {p} : at'[q] = at[q]
  <1> USE DEF TypeOK, LocalOK, EndTick, Forget, local
  <1>1. CASE TickStart(p) \/ DiscoverOne(p) \/ ReadJobs(p) \/ Send(p) \/ Answer(p)
    BY <1>1 DEF TickStart, DiscoverOne, ReadJobs, Send, Answer
  <1>2. CASE InspectSettled(p)
    BY <1>2 DEF InspectSettled
  <1>3. CASE InspectBlocked(p) \/ InspectMissing(p) \/ InspectUnavailable(p)
    BY <1>3 DEF InspectBlocked, InspectMissing, InspectUnavailable
  <1>4. CASE Reattach(p) \/ AttachSent(p)
    BY <1>4 DEF Reattach, AttachSent
  <1>5. CASE Settle(p)
    BY <1>5 DEF Settle
  <1>6. CASE Begin(p) \/ ReadPendingCount(p) \/ PassGate(p)
    BY <1>6 DEF Begin, ReadPendingCount, PassGate
  <1>7. CASE Sign(p)
    BY <1>7 DEF Sign
  <1>8. CASE PrepareRead(p) \/ PrepareCommit(p) \/ Refused(p) \/ Throw(p)
    BY <1>8 DEF PrepareRead, PrepareCommit, Refused, Throw
  <1> QED
    BY <1>1, <1>2, <1>3, <1>4, <1>5, <1>6, <1>7, <1>8 DEF Step

\* So only the process that moves has a claim to renew.
LEMMA LoopMoves ==
  ASSUME TypeOK, OwnerInv, \A q \in Procs : LoopOf(q),
         NEW p \in Procs, Step(p) \/ InspectUnavailable(p) \/ Throw(p), LoopOf(p)'
  PROVE  \A q \in Procs : LoopOf(q)'
  <1> SUFFICES ASSUME NEW q \in Procs \ {p} PROVE LoopOf(q)'
    OBVIOUS
  <1>1. Moves(p) /\ at'[q] = at[q]
    BY StepMoves, AtStep
  <1>2. pc[q] = "off"
    BY <1>1 DEF Moves, OwnerInv, SingleOwner
  <1>3. pc'[q] = "off"
    BY <1>1, Alone
  <1> QED
    BY <1>1, <1>2, <1>3 DEF LoopOf, HandPCs

\* While a process works on the jobs nothing but states and attempts changes.
LEMMA PlainStep ==
  ASSUME TypeInv, OwnerInv, DurableInv, [Next]_vars,
         NEW p \in Procs, pc[p] \notin {"off", "discover", "sign"}
  PROVE  SameBytes
  <1>1. ASSUME NEW q \in Procs, DiscoverOne(q) \/ Sign(q) PROVE FALSE
    <2>1. pc[q] \in {"discover", "sign"}
      BY <1>1 DEF DiscoverOne, Sign
    <2>2. p \in alive /\ q \in alive
      BY <2>1 DEF OwnerInv
    <2> QED
      BY <2>1, <2>2 DEF OwnerInv, SingleOwner
  <1> QED
    BY <1>1, HandNext

LEMMA SavedOther ==
  ASSUME TypeOK, NEW b \in Batches, NEW job, Save(b, job), job.state # "confirmed"
  PROVE  \A c \in Batches : journal'[c].state = "confirmed" =>
            journal[c].state = "confirmed" /\ journal'[c].hash = journal[c].hash
  BY DEF TypeOK, JobsOK, Save

\* A verified hash that is recorded is called confirmed when it is final.
LEMMA SettledLoop ==
  ASSUME FinalityHolds, TypeInv, Lists, DurableInv, ConfirmedIsAnchored, [Next]_vars,
         SameBytes, UNCHANGED <<order, evidence>>,
         NEW p \in Procs, LoopOf(p), pc[p] \in {"jobs", "settle"}, HasCurrent(p),
         NEW v, LET job == [snap[p][Current(p)] EXCEPT !.state = v]
                IN  /\ Save(Current(p), job)
                    /\ v = "confirmed" => /\ Final(job.hash) /\ Attached(Current(p), job.hash)
                    /\ \/ v = "confirmed" /\ pc'[p] = "jobs" /\ at'[p] = at[p] + 1
                       \/ EndTick(p)
  PROVE  LoopOf(p)' /\ ConfirmedIsAnchored'
  <1> DEFINE job == [snap[p][Current(p)] EXCEPT !.state = v]
  <1>0. TypeOK /\ ListedOnce /\ JobsStored
    BY DEF TypeInv, Lists
  <1>1. PICK b \in Batches : /\ b = Current(p) /\ Stored(b) /\ snap[p] = journal
                             /\ journal[b] \in Job /\ at[p] \in DOMAIN order
                             /\ b = order[at[p]]
    BY <1>0, InHandStored, HandType DEF DurableInv, HandOf, HandPCs, HasCurrent, Current
  <1>2. PICK t : t = journal[b].hash
    OBVIOUS
  <1>3. job.hash = t /\ job.state = v
    BY <1>1, <1>2 DEF Job
  <1>4. journal'[b] = job /\ \A c \in Batches : c # b => journal'[c] = journal[c]
    BY <1>0, <1>1 DEF Save, TypeOK, JobsOK
  <1>5. CASE v # "confirmed"
    <2>1. \A c \in Batches : journal'[c].state = "confirmed" =>
             journal[c].state = "confirmed" /\ journal'[c].hash = journal[c].hash
      BY <1>3, <1>4, <1>5
    <2> QED
      BY <1>0, <1>5, <2>1, EndTickLoop, ConfirmedKept
  <1>6. CASE v = "confirmed"
    <2>1. Final(t) /\ Attached(b, t)
      BY <1>1, <1>3, <1>6
    <2>2. Final(t)' /\ Attached(b, t)'
      BY <1>0, <1>1, <2>1, FinalKept, AttachedKept DEF TypeOK
    <2>3. journal'[b].hash = t
      BY <1>3, <1>4
    <2>4. ConfirmedIsAnchored'
      <3>1. ASSUME NEW c \in Batches, c # b, journal'[c].state = "confirmed"
            PROVE  Final(journal[c].hash)' /\ Attached(c, journal[c].hash)'
        <4>1. /\ journal'[c] = journal[c] /\ Stored(c)
              /\ Final(journal[c].hash) /\ Attached(c, journal[c].hash)
          BY <1>0, <1>4, <3>1 DEF ConfirmedIsAnchored, JobsStored, NoJob
        <4> QED
          BY <1>0, <4>1, FinalKept, AttachedKept DEF TypeOK
      <3> QED
        BY <2>2, <2>3, <3>1 DEF ConfirmedIsAnchored
    <2>5. CASE EndTick(p)
      BY <1>0, <2>4, <2>5, EndTickLoop
    <2>6. CASE pc'[p] = "jobs" /\ at'[p] = at[p] + 1
      <3>1. ASSUME NEW i \in DOMAIN order, i < at[p] + 1
            PROVE  Final(journal[order[i]].hash)
        <4>1. i = at[p] \/ i < at[p]
          BY <1>0, <3>1 DEF TypeOK, JobsOK, LocalOK
        <4> QED
          BY <1>1, <1>2, <2>1, <3>1, <4>1 DEF LoopOf, HandPCs
      <3>2. \A i \in DOMAIN order' : i < at[p] + 1 => Final(journal[order[i]].hash)'
        BY <1>0, <3>1, FrontKept
      <3>3. LoopOf(p)'
        BY <2>6, <3>2 DEF LoopOf
      <3> QED
        BY <2>4, <3>3
    <2> QED
      BY <1>6, <2>5, <2>6
  <1> QED
    BY <1>5, <1>6

\* A hash found on the chain is recorded before the row is saved.
LEMMA ReattachLoop ==
  ASSUME FinalityHolds, TypeInv, Lists, DurableInv, [Next]_vars, SameBytes,
         NEW p \in Procs, LoopOf(p), Reattach(p)
  PROVE  LoopOf(p)'
  <1>0. TypeOK /\ ListedOnce /\ JobsStored /\ HasCurrent(p) /\ HandOf(p)
    BY DEF TypeInv, Lists, CurrentOK, CurrentOf, HandPCs, Reattach, DurableInv
  <1>1. CASE EndTick(p)
    BY <1>0, <1>1, EndTickLoop
  <1>2. CASE ~EndTick(p)
    <2>1. PICK b \in Batches : b = Current(p) /\ Stored(b)
      BY <1>0, InHandStored
    <2>2. PICK t : t = journal[b].hash
      OBVIOUS
    <2>3. /\ AttachTransaction(b, t) /\ pc' = [pc EXCEPT ![p] = "settle"]
          /\ UNCHANGED <<at, seen, order, journal>>
      BY <1>0, <1>2, <2>1, <2>2 DEF Reattach, Goto, jobs, local, HandOf, HandPCs
    <2>4. pc'[p] = "settle" /\ pc[p] = "reattach" /\ Current(p)' = b /\ journal'[b].hash = t
      BY <2>1, <2>2, <2>3 DEF Reattach, TypeInv, TypeOK, LocalOK, Current
    <2>5. Attached(b, t)'
      <3>1. CASE Attached(b, t)
        BY <1>0, <2>1, <3>1, AttachedKept DEF TypeOK
      <3>2. CASE ~Attached(b, t)
        <4>1. evidence[b] \in Bundle /\ evidence[b].transactions \in Seq(Tx)
          BY <1>0 DEF TypeOK, StoreOK, Bundle
        <4>2. evidence'[b].transactions = Append(evidence[b].transactions, t)
          BY <1>0, <2>3, <3>2, <4>1 DEF AttachTransaction, TypeOK, StoreOK, Bundle
        <4> QED
          BY <4>1, <4>2 DEF Attached
      <3> QED
        BY <3>1, <3>2
    <2>6. seen'[p] = "confirmed" => Final(t)'
      BY <1>0, <2>1, <2>2, <2>3, <2>4, FinalKept DEF LoopOf
    <2>7. \A i \in DOMAIN order' : i < at'[p] => Final(journal[order[i]].hash)'
      BY <1>0, <2>3, <2>4, FrontKept DEF LoopOf, HandPCs
    <2> QED
      BY <2>4, <2>5, <2>6, <2>7 DEF LoopOf
  <1> QED
    BY <1>1, <1>2

\* Signing changes only the row of the job in hand.
LEMMA SignLoop ==
  ASSUME FinalityHolds, TypeInv, Lists, DurableInv, ConfirmedIsAnchored, [Next]_vars,
         NEW p \in Procs, LoopOf(p), Sign(p)
  PROVE  LoopOf(p)' /\ ConfirmedIsAnchored'
  <1>0. TypeOK /\ ListedOnce /\ JobsStored /\ pc[p] = "sign" /\ UNCHANGED order
    BY SignStep DEF TypeInv, Lists
  <1>1. CASE UNCHANGED journal /\ EndTick(p)
    BY <1>0, <1>1, EndTickLoop, ConfirmedKept
  <1>2. CASE Signs(p)
    <2>1. \A b \in Batches : journal'[b].state = "confirmed" =>
             journal[b].state = "confirmed" /\ journal'[b].hash = journal[b].hash
      BY <1>2 DEF Signs
    <2>2. ConfirmedIsAnchored'
      BY <1>0, <2>1, ConfirmedKept
    <2>3. ASSUME NEW i \in DOMAIN order', i < at'[p]
          PROVE  Final(journal[order[i]].hash)'
      <3>1. /\ i \in DOMAIN order /\ i < at[p] /\ order'[i] = order[i]
            /\ i # at[p] /\ at[p] \in DOMAIN order
        BY <1>0, <1>2, <2>3 DEF Signs, HasCurrent, TypeOK, JobsOK, LocalOK
      <3>2. journal'[order[i]] = journal[order[i]]
        BY SMTT(20), <1>0, <1>2, <3>1 DEF Signs, Current, ListedOnce, TypeOK, JobsOK
      <3>3. Final(journal[order[i]].hash)
        BY <1>0, <3>1 DEF LoopOf, HandPCs
      <3> QED
        BY <1>0, <3>1, <3>2, <3>3, FinalKept
    <2>4. pc'[p] = "gate"
      BY <1>0, <1>2 DEF Signs, TypeOK, LocalOK
    <2> QED
      BY <2>2, <2>3, <2>4 DEF LoopOf
  <1> QED
    BY <1>1, <1>2, SignStep

LEMMA LoopNext ==
  ASSUME FinalityHolds, TypeInv, OwnerInv, DurableInv, ChainInv, [Next]_vars
  PROVE  (\A q \in Procs : LoopOf(q)') /\ ConfirmedIsAnchored'
  <1> DEFINE Goal == (\A q \in Procs : LoopOf(q)') /\ ConfirmedIsAnchored'
  <1>0. /\ TypeOK /\ Lists /\ JobsStored /\ ListedOnce /\ ConfirmedIsAnchored
        /\ pc \in [Procs -> PCs] /\ \A q \in Procs : LoopOf(q)
    BY DEF TypeInv, TypeOK, LocalOK, ChainInv, Lists
  <1>hand. \A p \in Procs : HandOf(p) /\ CurrentOf(p)
    BY DEF DurableInv, TypeInv, CurrentOK
  <1>quiet. UNCHANGED journal => ConfirmedIsAnchored'
    BY <1>0, ConfirmedKept
  <1>frame. ASSUME NEW q \in Procs, UNCHANGED <<journal, order>>, pc'[q] = pc[q],
                   at'[q] = at[q], seen'[q] = seen[q]
            PROVE  LoopOf(q)'
    BY <1>0, <1>frame, LoopFrame DEF SameBytes
  <1>end. ASSUME NEW p \in Procs, Step(p) \/ InspectUnavailable(p) \/ Throw(p),
                 EndTick(p), UNCHANGED journal
          PROVE  Goal
    BY <1>0, <1>end, <1>quiet, EndTickLoop, LoopMoves
  <1>TickStart. ASSUME NEW p \in Procs, TickStart(p) PROVE Goal
    <2>1. pc[p] = "idle" /\ pc'[p] = "discover" /\ at'[p] = at[p]
      BY <1>0, <1>TickStart DEF TickStart, Goto
    <2>2. LoopOf(p)'
      BY <1>0, <2>1 DEF LoopOf, HandPCs
    <2> QED
      BY <1>0, <1>TickStart, <1>quiet, <2>2, LoopMoves DEF Step, TickStart, jobs
  <1>DiscoverOne. ASSUME NEW p \in Procs, DiscoverOne(p) PROVE Goal
    <2>1. pc'[p] = "discover" /\ at'[p] = at[p] /\ pc[p] = "discover"
      BY <1>DiscoverOne, DiscoverStep
    <2>2. LoopOf(p)'
      BY <1>0, <2>1 DEF LoopOf, HandPCs
    <2>3. ASSUME NEW b \in Batches, Finds(b) PROVE ConfirmedIsAnchored'
      BY <1>0, <2>3, ConfirmedKept DEF Finds
    <2> QED
      BY <1>0, <1>DiscoverOne, <1>quiet, <2>2, <2>3, DiscoverStep, LoopMoves DEF Step
  <1>ReadJobs. ASSUME NEW p \in Procs, ReadJobs(p) PROVE Goal
    <2>1. pc[p] = "discover" /\ pc'[p] = "jobs" /\ at'[p] = 1 /\ UNCHANGED order
      BY <1>0, <1>ReadJobs DEF ReadJobs, Goto, LoopOf, jobs
    <2>2. \A i \in DOMAIN order : ~(i < 1)
      BY <1>0 DEF TypeOK, JobsOK
    <2>3. LoopOf(p)'
      BY <2>1, <2>2 DEF LoopOf
    <2> QED
      BY <1>0, <1>ReadJobs, <1>quiet, <2>3, LoopMoves DEF Step, ReadJobs, jobs
  <1>InspectSettled. ASSUME NEW p \in Procs, InspectSettled(p) PROVE Goal
    <2>1. pc[p] = "jobs" /\ HasCurrent(p) /\ UNCHANGED <<order, evidence>>
      BY <1>InspectSettled DEF InspectSettled, Inspecting, store
    <2>2. SameBytes /\ snap[p] = journal
      BY <1>hand, <2>1, PlainStep DEF HandOf
    <2> DEFINE b == Current(p)
               job(v) == [snap[p][b] EXCEPT !.state = v]
    <2>3. PICK v \in InspectEvidence(b, snap[p][b].hash) \cap {"confirmed", "confirming"} :
            \/ /\ Goto(p, "reattach") /\ seen' = [seen EXCEPT ![p] = v]
               /\ UNCHANGED <<at, journal>>
            \/ /\ Attached(b, snap[p][b].hash) /\ Save(b, job(v))
               /\ \/ v = "confirmed" /\ UNCHANGED pc /\ at' = [at EXCEPT ![p] = @ + 1]
                  \/ v = "confirming" /\ EndTick(p)
      BY <1>InspectSettled DEF InspectSettled
    <2>4. v = "confirmed" => Final(snap[p][b].hash)
      BY <2>3 DEF InspectEvidence
    <2>5. CASE Goto(p, "reattach") /\ seen' = [seen EXCEPT ![p] = v] /\ UNCHANGED <<at, journal>>
      <3>1. pc'[p] = "reattach" /\ seen'[p] = v /\ at'[p] = at[p] /\ Current(p)' = Current(p)
        BY <1>0, <2>1, <2>5 DEF Goto, TypeOK, LocalOK, Current
      <3>2. \A i \in DOMAIN order' : i < at'[p] => Final(journal[order[i]].hash)'
        BY <1>0, <2>1, <2>2, <3>1, FrontKept DEF LoopOf
      <3>3. v = "confirmed" => Final(journal[Current(p)].hash)'
        BY <1>0, <2>2, <2>4, <2>5, <3>1, FinalKept
      <3>4. LoopOf(p)'
        BY <3>1, <3>2, <3>3 DEF LoopOf
      <3> QED
        BY <1>0, <1>InspectSettled, <1>quiet, <2>5, <3>4, LoopMoves DEF Step
    <2>6. CASE /\ Attached(b, snap[p][b].hash) /\ Save(b, job(v))
               /\ \/ v = "confirmed" /\ UNCHANGED pc /\ at' = [at EXCEPT ![p] = @ + 1]
                  \/ v = "confirming" /\ EndTick(p)
      <3>1. snap[p][b] \in Job
        BY <2>1, HandType DEF TypeInv
      <3>2. job(v).hash = snap[p][b].hash
        BY <3>1 DEF Job
      <3>3. \/ v = "confirmed" /\ pc'[p] = "jobs" /\ at'[p] = at[p] + 1
            \/ EndTick(p)
        BY <1>0, <2>1, <2>6 DEF TypeOK, LocalOK
      <3>4. v = "confirmed" => Final(job(v).hash) /\ Attached(b, job(v).hash)
        BY <2>4, <2>6, <3>2
      <3>5. LoopOf(p)' /\ ConfirmedIsAnchored'
        BY <1>0, <2>1, <2>2, <2>6, <3>3, <3>4, SettledLoop
      <3> QED
        BY <1>0, <1>InspectSettled, <3>5, LoopMoves DEF Step
    <2> QED
      BY <2>3, <2>5, <2>6
  <1>InspectBlocked. ASSUME NEW p \in Procs, InspectBlocked(p) PROVE Goal
    <2>1. /\ Save(Current(p), [snap[p][Current(p)] EXCEPT !.state = "blocked"])
          /\ EndTick(p) /\ HasCurrent(p)
      BY <1>InspectBlocked DEF InspectBlocked, Inspecting
    <2>2. Current(p) \in Batches /\ snap[p][Current(p)] \in Job
      BY <2>1, HandType DEF TypeInv
    <2>3. [snap[p][Current(p)] EXCEPT !.state = "blocked"].state # "confirmed"
      BY <2>2 DEF Job
    <2>4. ConfirmedIsAnchored'
      BY <1>0, <2>1, <2>2, <2>3, SavedOther, ConfirmedKept
    <2> QED
      BY <1>0, <1>InspectBlocked, <2>1, <2>4, EndTickLoop, LoopMoves DEF Step
  <1>InspectMissing. ASSUME NEW p \in Procs, InspectMissing(p) PROVE Goal
    <2>1. pc[p] = "jobs" /\ HasCurrent(p) /\ UNCHANGED order
      BY <1>InspectMissing DEF InspectMissing, Inspecting
    <2>2. SameBytes /\ snap[p] = journal /\ Current(p) \in Batches
      BY <1>hand, <2>1, PlainStep, HandType DEF HandOf, TypeInv
    <2>3. UNCHANGED journal
      BY <1>0, <1>InspectMissing, <2>2 DEF InspectMissing, Save, TypeOK, JobsOK
    <2>4. CASE EndTick(p)
      BY <1>InspectMissing, <1>end, <2>3, <2>4 DEF Step
    <2>5. CASE ~EndTick(p)
      <3>1. pc'[p] = "gate" /\ at'[p] = at[p]
        BY <1>0, <1>InspectMissing, <2>5 DEF InspectMissing, Goto, local
      <3>2. LoopOf(p)'
        BY <1>0, <2>1, <2>2, <3>1, OnwardLoop
      <3> QED
        BY <1>0, <1>InspectMissing, <1>quiet, <2>3, <3>2, LoopMoves DEF Step
    <2> QED
      BY <2>4, <2>5
  <1>Reattach. ASSUME NEW p \in Procs, Reattach(p) PROVE Goal
    <2>1. SameBytes /\ UNCHANGED journal
      BY <1>Reattach DEF Reattach, jobs, SameBytes
    <2> QED
      BY <1>0, <1>Reattach, <1>quiet, <2>1, ReattachLoop, LoopMoves DEF Step
  <1>Settle. ASSUME NEW p \in Procs, Settle(p) PROVE Goal
    <2>1. pc[p] = "settle" /\ HasCurrent(p) /\ UNCHANGED <<order, evidence>>
      BY <1>Settle, <1>hand DEF Settle, CurrentOf, HandPCs, store
    <2>2. SameBytes /\ snap[p] = journal
      BY <1>hand, <2>1, PlainStep DEF HandOf, HandPCs
    <2> DEFINE job == [snap[p][Current(p)] EXCEPT !.state = seen[p]]
    <2>3. /\ Save(Current(p), job)
          /\ \/ seen[p] = "confirmed" /\ Goto(p, "jobs") /\ at' = [at EXCEPT ![p] = @ + 1]
             \/ EndTick(p)
      BY <1>Settle DEF Settle
    <2>4. Current(p) \in Batches /\ snap[p][Current(p)] \in Job
      BY <2>1, HandType DEF TypeInv
    <2>5. job.hash = snap[p][Current(p)].hash
      BY <2>4 DEF Job
    <2>6. seen[p] = "confirmed" => Final(job.hash) /\ Attached(Current(p), job.hash)
      BY <1>0, <2>1, <2>2, <2>5 DEF LoopOf
    <2>7. \/ seen[p] = "confirmed" /\ pc'[p] = "jobs" /\ at'[p] = at[p] + 1
          \/ EndTick(p)
      BY <1>0, <2>3 DEF Goto, TypeOK, LocalOK
    <2>8. LoopOf(p)' /\ ConfirmedIsAnchored'
      BY <1>0, <2>1, <2>2, <2>3, <2>6, <2>7, SettledLoop
    <2> QED
      BY <1>0, <1>Settle, <2>8, LoopMoves DEF Step
  <1>onward. ASSUME NEW p \in Procs, Step(p), UNCHANGED <<journal, order, at>>,
                    pc[p] \in HandPCs \cup {"jobs"},
                    pc'[p] \notin {"off", "idle", "discover", "reattach", "settle"}
             PROVE  Goal
    <2>1. LoopOf(p)'
      BY <1>0, <1>onward, OnwardLoop DEF SameBytes
    <2> QED
      BY <1>0, <1>onward, <1>quiet, <2>1, LoopMoves
  <1>Begin. ASSUME NEW p \in Procs, Begin(p) PROVE Goal
    <2>1. CASE EndTick(p)
      BY <1>Begin, <1>end, <2>1 DEF Begin, Step, jobs
    <2>2. CASE ~EndTick(p)
      BY <1>0, <1>Begin, <1>onward, <2>2 DEF Begin, Step, jobs, local, Goto
    <2> QED
      BY <2>1, <2>2
  <1>ReadPendingCount. ASSUME NEW p \in Procs, ReadPendingCount(p) PROVE Goal
    <2>1. CASE EndTick(p)
      BY <1>ReadPendingCount, <1>end, <2>1 DEF ReadPendingCount, Step, jobs
    <2>2. CASE ~EndTick(p)
      BY <1>0, <1>ReadPendingCount, <1>onward, <2>2
         DEF ReadPendingCount, Step, jobs, Goto, HandPCs
    <2> QED
      BY <2>1, <2>2
  <1>Sign. ASSUME NEW p \in Procs, Sign(p) PROVE Goal
    BY <1>0, <1>Sign, SignLoop, LoopMoves DEF Step
  <1>PassGate. ASSUME NEW p \in Procs, PassGate(p) PROVE Goal
    <2>1. CASE EndTick(p)
      BY <1>PassGate, <1>end, <2>1 DEF PassGate, Step, jobs
    <2>2. CASE ~EndTick(p)
      BY <1>0, <1>PassGate, <1>onward, <2>2 DEF PassGate, Step, jobs, local, Goto, HandPCs
    <2> QED
      BY <2>1, <2>2
  <1>Send. ASSUME NEW p \in Procs, Send(p) PROVE Goal
    BY <1>0, <1>Send, <1>onward DEF Send, Step, jobs, local, Goto, HandPCs
  <1>Answer. ASSUME NEW p \in Procs, Answer(p) PROVE Goal
    <2>1. /\ pc[p] = "sent" /\ pc'[p] = "attach" /\ at'[p] = at[p] /\ UNCHANGED order
      BY <1>0, <1>Answer DEF Answer, Goto
    <2>2. SameBytes /\ Current(p) \in Batches /\ snap[p] = journal
          /\ journal[Current(p)] \in Job
      BY <1>Answer, AnswerStep, BytesInHand DEF Answer
    <2>3. PICK outcome \in {"submitted", "broadcast-uncertain"} :
             Save(Current(p), SentJob(p, outcome))
      BY <1>Answer DEF Answer
    <2>4. SentJob(p, outcome).state # "confirmed"
      BY <2>2 DEF SentJob, Job
    <2>5. ConfirmedIsAnchored'
      BY <1>0, <2>2, <2>3, <2>4, SavedOther, ConfirmedKept
    <2>6. LoopOf(p)'
      BY <1>0, <2>1, <2>2, OnwardLoop DEF HandPCs
    <2> QED
      BY <1>0, <1>Answer, <2>5, <2>6, LoopMoves DEF Step
  <1>AttachSent. ASSUME NEW p \in Procs, AttachSent(p) PROVE Goal
    BY <1>AttachSent, <1>end DEF AttachSent, Step, jobs
  <1>PrepareRead. ASSUME NEW p \in Procs, PrepareRead(p) PROVE Goal
    <2>1. CASE EndTick(p)
      BY <1>PrepareRead, <1>end, <2>1 DEF PrepareRead, Step, jobs
    <2>2. CASE ~EndTick(p)
      BY <1>0, <1>PrepareRead, <1>onward, <2>2 DEF PrepareRead, Step, jobs, Goto
    <2> QED
      BY <2>1, <2>2
  <1>PrepareCommit. ASSUME NEW p \in Procs, PrepareCommit(p) PROVE Goal
    BY <1>PrepareCommit, <1>end DEF PrepareCommit, Step, jobs
  <1>Refused. ASSUME NEW p \in Procs, Refused(p) PROVE Goal
    BY <1>Refused, <1>end DEF Refused, Step, jobs
  <1>InspectUnavailable. ASSUME NEW p \in Procs, InspectUnavailable(p) PROVE Goal
    <2>1. snap[p] = journal /\ Current(p) \in Batches
      BY <1>InspectUnavailable, <1>hand, HandType
         DEF InspectUnavailable, Inspecting, HandOf, TypeInv
    <2>2. UNCHANGED journal
      BY <1>0, <1>InspectUnavailable, <2>1 DEF InspectUnavailable, Save, TypeOK, JobsOK
    <2> QED
      BY <1>InspectUnavailable, <1>end, <2>2 DEF InspectUnavailable
  <1>Throw. ASSUME NEW p \in Procs, Throw(p) PROVE Goal
    BY <1>Throw, <1>end DEF Throw, jobs
  <1>Starts. ASSUME NEW p \in Procs, Start(p) \/ Close(p) \/ Crash(p) PROVE Goal
    <2>1. UNCHANGED <<journal, order>>
      BY <1>Starts DEF Start, Close, Crash, jobs
    <2>2. ASSUME NEW q \in Procs, q # p PROVE LoopOf(q)'
      <3>1. pc'[q] = pc[q] /\ at'[q] = at[q] /\ seen'[q] = seen[q]
        BY <1>0, <1>Starts, <2>2 DEF Start, Close, Crash, Goto, Forget, local, TypeOK, LocalOK
      <3> QED
        BY <1>frame, <2>1, <3>1
    <2>3. pc'[p] \in {"idle", "off"} /\ at'[p] = 1
      BY <1>0, <1>Starts
         DEF Start, Close, Crash, Goto, Forget, local, TypeOK, LocalOK, LoopOf, OwnerInv
    <2>4. LoopOf(p)'
      BY <2>3 DEF LoopOf, HandPCs
    <2> QED
      BY <1>quiet, <2>1, <2>2, <2>4
  <1>others. ASSUME UNCHANGED <<journal, order, pc, at, seen>> PROVE Goal
    BY <1>frame, <1>others, <1>quiet
  <1>Ingest. CASE \E e \in Events : Ingest(e)
    BY <1>Ingest, <1>others DEF Ingest, jobs, local
  <1>Recover. CASE \E r \in Recoverers : CheckLock(r) \/ UnlinkLock(r)
    BY <1>Recover, <1>others DEF CheckLock, UnlinkLock, jobs, local
  <1>Chain. CASE Chain
    BY <1>Chain, <1>others DEF Chain, Deepen, Reorg, Mine, jobs, local
  <1>Operator. CASE Operator
    BY <1>Operator, <1>others
       DEF Operator, OpPrepareRead, OpPrepareCommit, OpenGate, CloseGate, OpAttach,
           ManualSend, jobs, local
  <1>Pass. CASE Pass
    BY <1>Pass, <1>others DEF Pass
  <1>Stutter. CASE UNCHANGED vars
    BY <1>Stutter, <1>others DEF vars, jobs, local
  <1> QED
    BY <1>Answer, <1>TickStart, <1>DiscoverOne, <1>ReadJobs,
       <1>InspectSettled, <1>InspectBlocked, <1>InspectMissing, <1>Reattach,
       <1>Settle, <1>Begin, <1>ReadPendingCount, <1>Sign, <1>PassGate,
       <1>Send, <1>AttachSent, <1>PrepareCommit, <1>Refused,
       <1>InspectUnavailable, <1>Throw, <1>PrepareRead, <1>Starts,
       <1>Ingest, <1>Recover, <1>Chain, <1>Operator, <1>Pass, <1>Stutter
       DEF Next, Step

LEMMA ChainInvariant ==
  ASSUME SoleRecoverer, FinalityHolds
  PROVE  Spec => []ChainInv
  <1>1. Init => ChainInv
    BY ChainInit
  <1>2. TypeInv /\ OwnerInv /\ DurableInv /\ ChainInv /\ [Next]_vars => ChainInv'
    BY ListsNext, LoopNext, NoncesNext DEF ChainInv, Lists, TypeInv
  <1> QED
    BY <1>1, <1>2, TypeInvariant, OwnerInvariant, DurableInvariant, PTL DEF Spec

\* "It will not start another transaction while an earlier one is unconfirmed,
\* unavailable or reorged" (docs/governance-automated-worker.md): of two signed
\* jobs one is final and their nonces differ, whatever crashes, late answers,
\* evicted transactions and shallow reorganisations come between them.
THEOREM WorksOneAtATime ==
  ASSUME SoleRecoverer, FinalityHolds
  PROVE  Spec => []OneAtATime
  <1>1. TypeInv /\ DurableInv /\ ChainInv => OneAtATime
    <2> SUFFICES ASSUME TypeInv, DurableInv, ChainInv,
                        NEW b \in Signed, NEW c \in Signed, b # c
                 PROVE  /\ Final(journal[b].raw) \/ Final(journal[c].raw)
                        /\ journal[b].raw.nonce # journal[c].raw.nonce
      BY DEF OneAtATime, OneUnresolved, NonceUnique
    <2>1. /\ b \in Batches /\ c \in Batches /\ journal[b].raw # NoTx /\ journal[c].raw # NoTx
          /\ journal[b].hash = journal[b].raw /\ journal[c].hash = journal[c].raw
      BY DEF Signed, DurableInv, BytesOK
    <2>2. PICK i \in DOMAIN order, j \in DOMAIN order : order[i] = b /\ order[j] = c
      BY <2>1 DEF ChainInv, ListedOnce, NoJob
    <2>3. i \in Nat /\ j \in Nat /\ i # j
      BY <2>2 DEF TypeInv, TypeOK, JobsOK
    <2>4. journal[b].raw.nonce \in Nat /\ journal[c].raw.nonce \in Nat
      BY <2>1 DEF TypeInv, TypeOK, JobsOK, Job, Tx
    <2>5. CASE i < j
      BY <2>1, <2>2, <2>4, <2>5 DEF ChainInv, SignedInOrder
    <2>6. CASE j < i
      BY <2>1, <2>2, <2>4, <2>6 DEF ChainInv, SignedInOrder
    <2> QED
      BY <2>3, <2>5, <2>6
  <1> QED
    BY <1>1, TypeInvariant, DurableInvariant, ChainInvariant, PTL

\* A job the journal calls confirmed is on the chain for good, and the evidence
\* of its batch names the transaction, whenever the worker dies or the gate
\* closes between the chain's answer and the two databases.
THEOREM ConfirmedStaysAnchored ==
  ASSUME SoleRecoverer, FinalityHolds
  PROVE  Spec => []ConfirmedIsAnchored
  <1>1. ChainInv => ConfirmedIsAnchored
    BY DEF ChainInv
  <1> QED
    BY <1>1, ChainInvariant, PTL

-----------------------------------------------------------------------------
(* The spending caps. *)

MostPerHour == Largest({q.maxTransactionsPerHour : q \in Policies})
MostPerDay == Largest({q.dailyReservationWei : q \in Policies})

\* A process that quotes or signs has found the hour not yet full.
RoomOf(p) ==
    pc[p] \in {"quote", "sign"} => Cardinality(Recent(Hour)) < policy[p].maxTransactionsPerHour

CapsInv ==
    /\ \A p \in Procs : RoomOf(p)
    /\ SpendingCaps

\* No policy allows more than the most generous one.
LEMMA MostBounds ==
  ASSUME NEW q \in Policies
  PROVE  /\ q.maxTransactionsPerHour <= MostPerHour /\ MostPerHour \in Nat
         /\ q.dailyReservationWei <= MostPerDay /\ MostPerDay \in Nat
  <1> DEFINE H == {r.maxTransactionsPerHour : r \in Policies}
             D == {r.dailyReservationWei : r \in Policies}
  <1>1. /\ [r \in Policies |-> r.maxTransactionsPerHour] \in Surjection(Policies, H)
        /\ [r \in Policies |-> r.dailyReservationWei] \in Surjection(Policies, D)
    BY DEF Surjection
  <1>2. IsFiniteSet(H) /\ IsFiniteSet(D)
    BY <1>1, PoliciesAssumption, FS_Surjection
  <1>3. /\ H # {} /\ H \subseteq Nat /\ q.maxTransactionsPerHour \in H
        /\ D # {} /\ D \subseteq Nat /\ q.dailyReservationWei \in D
    BY PoliciesAssumption
  <1> HIDE DEF H, D
  <1>4. ASSUME NEW S, S \in {H, D} PROVE Largest(S) \in S /\ \A n \in S : n <= Largest(S)
    <2>1. IsFiniteSet(S) /\ S # {} /\ S \subseteq Int
      BY <1>2, <1>3, <1>4
    <2>2. \E m \in S : \A n \in S : n <= m
      BY <2>1, LargestExists
    <2> QED
      BY <2>2 DEF Largest
  <1>5. MostPerHour = Largest(H) /\ MostPerDay = Largest(D)
    BY DEF MostPerHour, MostPerDay, H, D
  <1> QED
    BY <1>3, <1>4, <1>5

LEMMA RecentType ==
  ASSUME TypeOK, NEW w
  PROVE  /\ Recent(w) \subseteq Batches /\ IsFiniteSet(Recent(w))
         /\ Cardinality(Recent(w)) \in Nat
  BY BatchesAssumption, FS_Subset, FS_CardinalityType DEF Recent

\* Only signing makes a job young again.
LEMMA AgeStep ==
  ASSUME [Next]_vars
  PROVE  UNCHANGED age \/ Pass \/ \E p \in Procs : Sign(p)
  <1>1. ASSUME NEW p \in Procs,
               \/ TickStart(p) \/ DiscoverOne(p) \/ ReadJobs(p)
               \/ InspectSettled(p) \/ InspectBlocked(p) \/ InspectMissing(p)
               \/ InspectUnavailable(p)
        PROVE  UNCHANGED age
    BY <1>1 DEF TickStart, DiscoverOne, ReadJobs, InspectSettled, InspectBlocked,
                InspectMissing, InspectUnavailable, jobs
  <1>2. ASSUME NEW p \in Procs,
               \/ Reattach(p) \/ Settle(p) \/ Begin(p) \/ ReadPendingCount(p)
               \/ PassGate(p) \/ Send(p) \/ Answer(p) \/ AttachSent(p)
               \/ PrepareRead(p) \/ PrepareCommit(p) \/ Refused(p)
        PROVE  UNCHANGED age
    BY <1>2 DEF Reattach, Settle, Begin, ReadPendingCount, PassGate, Send, Answer,
                AttachSent, PrepareRead, PrepareCommit, Refused, jobs
  <1>3. ASSUME NEW p \in Procs, Throw(p) \/ Start(p) \/ Close(p) \/ Crash(p)
        PROVE  UNCHANGED age
    BY <1>3 DEF Throw, Start, Close, Crash, jobs
  <1>4. ASSUME \/ \E e \in Events : Ingest(e)
               \/ \E r \in Recoverers : CheckLock(r) \/ UnlinkLock(r)
               \/ Chain \/ Operator \/ UNCHANGED vars
        PROVE  UNCHANGED age
    BY <1>4 DEF Ingest, CheckLock, UnlinkLock, Chain, Deepen, Reorg, Mine, Operator,
                OpPrepareRead, OpPrepareCommit, OpAttach, OpenGate, CloseGate, ManualSend,
                vars, jobs
  <1> QED
    BY <1>1, <1>2, <1>3, <1>4 DEF Next, Step

\* Whatever else happens, no window gains a job and no reservation changes.
LEMMA WindowsShrink ==
  ASSUME TypeInv, TypeInv', OwnerInv, DurableInv, [Next]_vars,
         ~(\E p \in Procs : Sign(p)), NEW w \in Nat
  PROVE  /\ Recent(w)' \subseteq Recent(w)
         /\ \A b \in Recent(w)' : journal'[b].reserve = journal[b].reserve
  <1> SUFFICES ASSUME NEW b \in Batches, journal'[b].raw # NoTx, age'[b] < w
               PROVE  /\ journal[b].raw # NoTx /\ age[b] < w
                      /\ journal'[b].reserve = journal[b].reserve
    BY DEF Recent
  <1>1. age[b] \in 0..(2 * Day) /\ age'[b] \in 0..(2 * Day) /\ Day \in Nat
    BY WindowsAssumption DEF TypeInv, TypeOK, JobsOK
  <1>2. journal[b].raw # NoTx /\ journal'[b].reserve = journal[b].reserve
    <2>1. CASE SameBytes
      BY <2>1 DEF SameBytes
    <2>2. CASE \E p \in Procs : DiscoverOne(p)
      <3>1. PICK p \in Procs : DiscoverOne(p)
        BY <2>2
      <3>2. UNCHANGED journal \/ \E c \in Batches : Finds(c)
        BY <3>1, DiscoverStep
      <3> QED
        BY <3>2 DEF Finds
    <2> QED
      BY <2>1, <2>2, HandNext
  <1>3. age[b] <= age'[b]
    <2>1. CASE UNCHANGED age
      BY <1>1, <2>1
    <2>2. CASE Pass
      <3>1. age'[b] = Least(2 * Day, age[b] + 1)
        BY <1>2, <2>2 DEF Pass
      <3> QED
        BY <1>1, <3>1 DEF Least
    <2> QED
      BY <2>1, <2>2, AgeStep
  <1> QED
    BY <1>1, <1>2, <1>3

\* Only Begin lets a process quote, and no running process changes its policy.
LEMMA QuoteStep ==
  ASSUME TypeInv, OwnerInv, [Next]_vars, NEW p \in Procs, pc'[p] \in {"quote", "sign"}
  PROVE  /\ policy'[p] = policy[p]
         /\ \/ pc[p] \in {"quote", "sign"}
            \/ /\ UNCHANGED <<journal, age>>
               /\ Cardinality(Recent(Hour)) < policy[p].maxTransactionsPerHour
  <1> DEFINE Goal == /\ policy'[p] = policy[p]
                     /\ \/ pc[p] \in {"quote", "sign"}
                        \/ /\ UNCHANGED <<journal, age>>
                           /\ Cardinality(Recent(Hour)) < policy[p].maxTransactionsPerHour
  <1>pc. pc \in [Procs -> PCs] /\ policy \in [Procs -> Policies]
    BY DEF TypeInv, TypeOK, LocalOK
  <1>1. ASSUME NEW q \in Procs,
               \/ TickStart(q) \/ DiscoverOne(q) \/ ReadJobs(q)
               \/ InspectSettled(q) \/ InspectBlocked(q) \/ InspectMissing(q)
               \/ InspectUnavailable(q)
        PROVE  Goal
    BY <1>1, <1>pc DEF TickStart, DiscoverOne, ReadJobs, InspectSettled, InspectBlocked,
                InspectMissing, InspectUnavailable, local, Goto, EndTick
  <1>2. ASSUME NEW q \in Procs,
               \/ Reattach(q) \/ Settle(q) \/ ReadPendingCount(q)
               \/ Sign(q) \/ PassGate(q) \/ Send(q) \/ Answer(q) \/ AttachSent(q)
               \/ PrepareRead(q) \/ PrepareCommit(q) \/ Refused(q)
        PROVE  Goal
    BY <1>2, <1>pc DEF Reattach, Settle, ReadPendingCount, Sign, PassGate, Send, Answer,
                AttachSent, PrepareRead, PrepareCommit, Refused, local, Goto, EndTick
  <1>3. ASSUME NEW q \in Procs, Begin(q)
        PROVE  Goal
    BY <1>3, <1>pc DEF Begin, local, jobs, Goto, EndTick
  <1>4. ASSUME NEW q \in Procs, Throw(q) \/ Start(q) \/ Close(q) \/ Crash(q)
        PROVE  Goal
    BY <1>4, <1>pc DEF Throw, Start, Close, Crash, local, Goto, EndTick
  <1>5. ASSUME \/ \E e \in Events : Ingest(e)
               \/ \E r \in Recoverers : CheckLock(r) \/ UnlinkLock(r)
               \/ Chain \/ Operator \/ Pass \/ UNCHANGED vars
        PROVE  Goal
    BY <1>5 DEF Ingest, CheckLock, UnlinkLock, Chain, Deepen, Reorg, Mine, Operator,
                OpPrepareRead, OpPrepareCommit, OpAttach, OpenGate, CloseGate, ManualSend,
                Pass, vars, local
  <1> QED
    BY <1>1, <1>2, <1>3, <1>4, <1>5 DEF Next, Step

\* A job that is signed joins the hour and the day, once, with its reservation.
LEMMA SignCaps ==
  ASSUME TypeInv, TypeInv', OwnerInv, DurableInv, CapsInv,
         NEW p \in Procs, Sign(p)
  PROVE  SpendingCaps'
  <1> DEFINE amounts == [b \in Batches |-> journal[b].reserve]
  <1>1. CASE UNCHANGED <<journal, age>>
    <2>1. Recent(Hour)' = Recent(Hour) /\ Reserved(Recent(Day))' = Reserved(Recent(Day))
      BY <1>1 DEF Recent, Reserved
    <2> QED
      BY <2>1 DEF CapsInv, SpendingCaps
  <1>2. CASE ~UNCHANGED <<journal, age>>
    <2>1. PICK fee \in Fees :
             /\ Affordable(p, fee)
             /\ Save(Current(p), SignedJob(p, fee))
             /\ age' = [age EXCEPT ![Current(p)] = since[p]]
      BY <1>2 DEF Sign
    <2>2. PICK b \in Batches : b = Current(p)
      BY HandType DEF TypeInv, CurrentOK, CurrentOf, HandPCs, Sign
    <2>3. journal[b].raw = NoTx
      BY <2>2 DEF DurableInv, HandOf, BytesOK, Sign
    <2>4. PICK q \in Policies : q = policy[p]
      BY DEF TypeInv, TypeOK, LocalOK
    <2>5. /\ fee \in Nat /\ q.l1AllowanceWei \in Nat /\ q.dailyReservationWei \in Nat
          /\ q.maxTransactionsPerHour \in Nat
      BY FeesAssumption, PoliciesAssumption
    <2> DEFINE next == [c \in Batches |-> journal'[c].reserve]
               R == Recent(Day + since[p])
    <2>6. /\ \A c \in Batches \ {b} : journal'[c] = journal[c] /\ age'[c] = age[c]
          /\ journal'[b].reserve = fee + q.l1AllowanceWei
      <3>1. /\ journal' = [journal EXCEPT ![b] = SignedJob(p, fee)]
            /\ snap[p][b] \in Job
        BY <2>1, <2>2 DEF Save, TypeInv, TypeOK, LocalOK
      <3>2. SignedJob(p, fee).reserve = fee + q.l1AllowanceWei
        BY <2>2, <2>4, <3>1 DEF SignedJob, Job
      <3> QED
        BY <2>1, <2>2, <3>1, <3>2 DEF TypeInv, TypeOK, JobsOK
    <2>7. /\ \A w : Recent(w)' \subseteq Recent(w) \cup {b}
          /\ \A w : b \notin Recent(w)
      BY <2>3, <2>6 DEF Recent
    <2>8. Cardinality(Recent(Hour))' <= MostPerHour
      <3>1. Cardinality(Recent(Hour)) < q.maxTransactionsPerHour
        BY <2>4 DEF CapsInv, RoomOf, Sign
      <3>2. /\ IsFiniteSet(Recent(Hour)) /\ Cardinality(Recent(Hour)) \in Nat
            /\ IsFiniteSet(Recent(Hour)') /\ Cardinality(Recent(Hour)') \in Nat
        BY BatchesAssumption, FS_Subset, FS_CardinalityType DEF Recent
      <3>3. /\ IsFiniteSet(Recent(Hour) \cup {b})
            /\ Cardinality(Recent(Hour) \cup {b}) = Cardinality(Recent(Hour)) + 1
        BY <2>7, <3>2, FS_AddElement
      <3>4. Cardinality(Recent(Hour)') <= Cardinality(Recent(Hour) \cup {b})
        BY <2>7, <3>3, FS_Subset
      <3>5. q.maxTransactionsPerHour <= MostPerHour /\ MostPerHour \in Nat
        BY MostBounds
      <3> QED
        BY <2>5, <3>1, <3>2, <3>3, <3>4, <3>5
    <2>9. Reserved(Recent(Day))' <= MostPerDay
      <3>1. Total(amounts, R) + fee + q.l1AllowanceWei <= q.dailyReservationWei
        BY <2>1, <2>4 DEF Affordable, Reserved
      <3>2. IsFiniteSet(R) /\ IsFiniteSet(R \cup {b}) /\ R \subseteq Batches
        BY BatchesAssumption, FS_Subset DEF Recent
      <3>3. Recent(Day)' \subseteq R \cup {b} /\ b \notin R
        <4>1. Recent(Day) \subseteq R
          <5>1. \A c \in Batches : age[c] \in Nat
            BY WindowsAssumption DEF TypeInv, TypeOK, JobsOK
          <5>2. Day \in Nat /\ since[p] \in Nat
            BY WindowsAssumption DEF TypeInv, TypeOK, LocalOK
          <5> QED
            BY <5>1, <5>2 DEF Recent
        <4> QED
          BY <2>7, <4>1
      <3>4. /\ \A c \in Batches : next[c] \in Nat
            /\ \A c \in R : next[c] = amounts[c]
            /\ next[b] = fee + q.l1AllowanceWei
        BY <2>6, <3>2, <3>3 DEF TypeInv, TypeOK, JobsOK, Job
      <3> HIDE DEF next, amounts, R
      <3>5. Total(next, Recent(Day)') <= Total(next, R \cup {b})
        BY <3>2, <3>3, <3>4, TotalSubset
      <3>6. Total(next, R \cup {b}) = Total(next, R) + next[b]
        BY <3>2, <3>3, <3>4, TotalAdd
      <3>7. Total(next, R) = Total(amounts, R)
        BY <3>4, TotalSame
      <3>8. /\ Total(next, R) \in Nat /\ Total(next, R \cup {b}) \in Nat
            /\ Total(next, Recent(Day)') \in Nat
        <4>1. IsFiniteSet(Recent(Day)') /\ Recent(Day)' \subseteq Batches
          BY <3>2, <3>3, FS_Subset
        <4> QED
          BY <3>2, <3>4, <4>1, TotalType
      <3>9. q.dailyReservationWei <= MostPerDay /\ MostPerDay \in Nat
        BY MostBounds
      <3>10. Total(next, Recent(Day)') <= MostPerDay
        BY <2>5, <3>1, <3>4, <3>5, <3>6, <3>7, <3>8, <3>9
      <3> QED
        BY <3>10 DEF next, Reserved
    <2> QED
      BY <2>8, <2>9 DEF SpendingCaps, MostPerHour, MostPerDay
  <1> QED
    BY <1>1, <1>2


\* Nor do the other steps spend anything.
LEMMA ShrinkCaps ==
  ASSUME TypeInv, TypeInv', OwnerInv, DurableInv, CapsInv, [Next]_vars,
         ~(\E p \in Procs : Sign(p))
  PROVE  /\ SpendingCaps'
         /\ Cardinality(Recent(Hour)') <= Cardinality(Recent(Hour))
         /\ Cardinality(Recent(Hour)') \in Nat /\ Cardinality(Recent(Hour)) \in Nat
  <1> DEFINE amounts == [c \in Batches |-> journal[c].reserve]
             next == [c \in Batches |-> journal'[c].reserve]
  <1>1. /\ Recent(Hour)' \subseteq Recent(Hour) /\ Recent(Day)' \subseteq Recent(Day)
        /\ \A b \in Recent(Day)' : journal'[b].reserve = journal[b].reserve
    BY WindowsShrink, WindowsAssumption
  <1>2. /\ IsFiniteSet(Recent(Hour)) /\ IsFiniteSet(Recent(Day))
        /\ Recent(Day) \subseteq Batches
    BY BatchesAssumption, FS_Subset DEF Recent
  <1>3. /\ IsFiniteSet(Recent(Hour)') /\ IsFiniteSet(Recent(Day)')
    BY <1>1, <1>2, FS_Subset
  <1>4. /\ Cardinality(Recent(Hour)') <= Cardinality(Recent(Hour))
        /\ Cardinality(Recent(Hour)') \in Nat /\ Cardinality(Recent(Hour)) \in Nat
    BY <1>1, <1>2, <1>3, FS_Subset, FS_CardinalityType
  <1>5. /\ \A c \in Batches : amounts[c] \in Nat
        /\ \A c \in Recent(Day)' : next[c] = amounts[c]
    BY <1>1, <1>2 DEF TypeInv, TypeOK, JobsOK, Job
  <1> HIDE DEF amounts, next
  <1>6. /\ Total(next, Recent(Day)') = Total(amounts, Recent(Day)')
        /\ Total(amounts, Recent(Day)') <= Total(amounts, Recent(Day))
        /\ Total(amounts, Recent(Day)') \in Nat /\ Total(amounts, Recent(Day)) \in Nat
    <2>1. \A c \in Recent(Day)' : c \in Batches
      BY <1>1, <1>2
    <2>2. Total(next, Recent(Day)') = Total(amounts, Recent(Day)')
      BY <1>5, TotalSame
    <2>3. Total(amounts, Recent(Day)') <= Total(amounts, Recent(Day))
      BY <1>1, <1>2, <1>5, TotalSubset
    <2> QED
      BY <1>2, <1>3, <1>5, <2>1, <2>2, <2>3, TotalType
  <1>7. MostPerHour \in Nat /\ MostPerDay \in Nat
    BY PoliciesAssumption, MostBounds
  <1>8. Cardinality(Recent(Hour)) <= MostPerHour /\ Total(amounts, Recent(Day)) <= MostPerDay
    BY DEF CapsInv, SpendingCaps, Reserved, MostPerHour, MostPerDay, amounts
  <1>9. Cardinality(Recent(Hour)') <= MostPerHour /\ Total(next, Recent(Day)') <= MostPerDay
    BY <1>4, <1>6, <1>7, <1>8
  <1>10. SpendingCaps'
    BY <1>9 DEF SpendingCaps, Reserved, MostPerHour, MostPerDay, next
  <1> QED
    BY <1>4, <1>10

LEMMA CapsNext ==
  ASSUME TypeInv, TypeInv', OwnerInv, DurableInv, CapsInv, [Next]_vars
  PROVE  CapsInv'
  <1>1. ASSUME NEW p \in Procs, Sign(p) PROVE CapsInv'
    <2>1. SpendingCaps'
      BY <1>1, SignCaps
    <2>2. ASSUME NEW q \in Procs PROVE RoomOf(q)'
      <3>1. CASE q = p
        <4>1. pc'[p] \in {"gate", "idle"}
          BY <1>1 DEF Sign, EndTick, Goto, TypeInv, TypeOK, LocalOK
        <4> QED
          BY <3>1, <4>1 DEF RoomOf
      <3>2. CASE q # p
        <4>1. Moves(p)
          BY <1>1, StepMoves DEF Step
        <4>2. pc'[q] = "off"
          BY <3>2, <4>1, Alone DEF TypeInv
        <4> QED
          BY <4>2 DEF RoomOf
      <3> QED
        BY <3>1, <3>2
    <2> QED
      BY <2>1, <2>2 DEF CapsInv
  <1>2. ASSUME ~(\E p \in Procs : Sign(p)) PROVE CapsInv'
    <2>1. /\ SpendingCaps'
          /\ Cardinality(Recent(Hour)') <= Cardinality(Recent(Hour))
          /\ Cardinality(Recent(Hour)') \in Nat /\ Cardinality(Recent(Hour)) \in Nat
      BY <1>2, ShrinkCaps
    <2>2. ASSUME NEW q \in Procs, pc'[q] \in {"quote", "sign"}
          PROVE  Cardinality(Recent(Hour)') < policy'[q].maxTransactionsPerHour
      <3>1. PICK m \in Nat : m = policy[q].maxTransactionsPerHour
        BY PoliciesAssumption DEF TypeInv, TypeOK, LocalOK
      <3>2. Cardinality(Recent(Hour)) < m /\ policy'[q].maxTransactionsPerHour = m
        BY <2>2, <3>1, QuoteStep DEF CapsInv, RoomOf
      <3> QED
        BY <2>1, <3>1, <3>2
    <2> QED
      BY <2>1, <2>2 DEF CapsInv, RoomOf
  <1> QED
    BY <1>1, <1>2

LEMMA CapsInit == Init => CapsInv
  <1> SUFFICES ASSUME Init PROVE CapsInv
    OBVIOUS
  <1>1. \A w : Recent(w) = {}
    BY DEF Init, Recent, NoJob
  <1>2. Cardinality(Recent(Hour)) = 0
    BY <1>1, FS_EmptySet
  <1>3. Reserved(Recent(Day)) = 0
    BY <1>1, TotalEmpty DEF Reserved
  <1>4. MostPerHour \in Nat /\ MostPerDay \in Nat
    BY PoliciesAssumption, MostBounds
  <1>5. \A p \in Procs : RoomOf(p)
    BY DEF Init, RoomOf
  <1> QED
    BY <1>2, <1>3, <1>4, <1>5 DEF CapsInv, SpendingCaps, MostPerHour, MostPerDay

\* maxTransactionsPerHour and dailyReservationWei of the most generous policy
\* hold over every rolling window, whatever restarts, retries and lost answers
\* fall into it: reservations count from the moment of signing, and a process
\* signs only into room it alone can use up.
THEOREM CapsHold ==
  ASSUME SoleRecoverer
  PROVE  Spec => []SpendingCaps
  <1>1. Init => CapsInv
    BY CapsInit
  <1>2. /\ TypeInv /\ TypeInv' /\ OwnerInv /\ DurableInv /\ CapsInv /\ [Next]_vars
        => CapsInv'
    BY CapsNext
  <1>3. CapsInv => SpendingCaps
    BY DEF CapsInv
  <1> QED
    BY <1>1, <1>2, <1>3, TypeInvariant, OwnerInvariant, DurableInvariant, PTL DEF Spec

-----------------------------------------------------------------------------
(* Paused mode. *)

\* A process on its way to a signature or a broadcast runs under a policy that
\* is not paused: every way in passes the check of the policy.
BusyPCs == {"quote", "sign", "gate", "send"}
UnpausedOf(p) == pc[p] \in BusyPCs => ~policy[p].paused
PauseInv == \A p \in Procs : UnpausedOf(p)

LEMMA PauseStep ==
  ASSUME TypeInv, PauseInv, [Next]_vars, NEW p \in Procs
  PROVE  UnpausedOf(p)'
  <1>pc. pc \in [Procs -> PCs] /\ policy \in [Procs -> Policies]
    BY DEF TypeInv, TypeOK, LocalOK
  <1>old. UnpausedOf(p)
    BY DEF PauseInv
  <1>1. ASSUME NEW q \in Procs,
               \/ TickStart(q) \/ DiscoverOne(q) \/ ReadJobs(q)
               \/ InspectSettled(q) \/ InspectBlocked(q) \/ InspectUnavailable(q)
        PROVE  UnpausedOf(p)'
    BY <1>1, <1>pc, <1>old
       DEF UnpausedOf, BusyPCs, TickStart, DiscoverOne, ReadJobs, InspectSettled,
           InspectBlocked, InspectUnavailable, local, Goto, EndTick
  <1>2. ASSUME NEW q \in Procs, InspectMissing(q)
        PROVE  UnpausedOf(p)'
    BY <1>2, <1>pc, <1>old
       DEF UnpausedOf, BusyPCs, InspectMissing, Retries, local, Goto, EndTick
  <1>3. ASSUME NEW q \in Procs,
               \/ Reattach(q) \/ Settle(q) \/ ReadPendingCount(q)
               \/ Sign(q) \/ PassGate(q) \/ Send(q) \/ Answer(q) \/ AttachSent(q)
               \/ PrepareRead(q) \/ PrepareCommit(q) \/ Refused(q)
        PROVE  UnpausedOf(p)'
    BY <1>3, <1>pc, <1>old
       DEF UnpausedOf, BusyPCs, Reattach, Settle, ReadPendingCount, Sign, PassGate,
           Send, Answer, AttachSent, PrepareRead, PrepareCommit, Refused, local, Goto,
           EndTick
  <1>4. ASSUME NEW q \in Procs, Begin(q)
        PROVE  UnpausedOf(p)'
    BY <1>4, <1>pc, <1>old DEF UnpausedOf, BusyPCs, Begin, local, Goto, EndTick
  <1>5. ASSUME NEW q \in Procs, Throw(q) \/ Start(q) \/ Close(q) \/ Crash(q)
        PROVE  UnpausedOf(p)'
    BY <1>5, <1>pc, <1>old
       DEF UnpausedOf, BusyPCs, Throw, Start, Close, Crash, local, Goto, EndTick
  <1>6. ASSUME \/ \E e \in Events : Ingest(e)
               \/ \E r \in Recoverers : CheckLock(r) \/ UnlinkLock(r)
               \/ Chain \/ Operator \/ Pass \/ UNCHANGED vars
        PROVE  UnpausedOf(p)'
    BY <1>6, <1>old
       DEF UnpausedOf, Ingest, CheckLock, UnlinkLock, Chain, Deepen, Reorg, Mine,
           Operator, OpPrepareRead, OpPrepareCommit, OpAttach, OpenGate, CloseGate,
           ManualSend, Pass, vars, local
  <1> QED
    BY <1>1, <1>2, <1>3, <1>4, <1>5, <1>6 DEF Next, Step

LEMMA PauseInvariant == Spec => []PauseInv
  <1>1. Init => PauseInv
    BY DEF Init, PauseInv, UnpausedOf, BusyPCs
  <1>2. TypeInv /\ PauseInv /\ [Next]_vars => PauseInv'
    BY PauseStep DEF PauseInv
  <1> QED
    BY <1>1, <1>2, TypeInvariant, PTL DEF Spec

\* With every running process paused a step neither signs nor broadcasts.
QuietStep ==
    (\A p \in alive : policy[p].paused) =>
        /\ \A b \in Batches : journal'[b].raw = journal[b].raw
        /\ \A t \in sent' \ sent : t.by = "manual"

\* A new job carries no bytes.
LEMMA DiscoverKeepsRaw ==
  ASSUME TypeInv, NEW p \in Procs, DiscoverOne(p)
  PROVE  \A b \in Batches : journal'[b].raw = journal[b].raw
  <1>1. PICK b \in todo[p] :
           \/ journal[b] = NoJob /\ Save(b, NewJob(b))
           \/ UNCHANGED journal
    BY DEF DiscoverOne, Undiscovered
  <1>2. NewJob(b).raw = NoTx /\ NoJob.raw = NoTx
    BY DEF NewJob, NoJob
  <1> QED
    BY <1>1, <1>2 DEF Save, TypeInv, TypeOK, JobsOK

LEMMA QuietNext ==
  ASSUME TypeInv, OwnerInv, DurableInv, PauseInv, [Next]_vars
  PROVE  QuietStep
  <1> SUFFICES ASSUME \A p \in alive : policy[p].paused
               PROVE  /\ \A b \in Batches : journal'[b].raw = journal[b].raw
                      /\ \A t \in sent' \ sent : t.by = "manual"
    BY DEF QuietStep
  <1>1. \A p \in Procs : pc[p] \notin BusyPCs
    <2>1. ASSUME NEW p \in Procs, pc[p] \in BusyPCs PROVE p \in alive
      BY <2>1 DEF OwnerInv, BusyPCs
    <2> QED
      BY <2>1 DEF PauseInv, UnpausedOf
  <1>2. \A p \in Procs : ~Sign(p) /\ ~Send(p)
    BY <1>1 DEF Sign, Send, BusyPCs
  <1>3. SameBytes \/ \E p \in Procs : DiscoverOne(p)
    BY <1>2, HandNext
  <1>4. \A b \in Batches : journal'[b].raw = journal[b].raw
    BY <1>3, DiscoverKeepsRaw DEF SameBytes
  <1>5. \A t \in sent' \ sent : t.by = "manual"
    BY <1>2, OnlySends
  <1> QED
    BY <1>4, <1>5

\* The pause of docs/governance-automated-worker.md reaches both ways out of the
\* worker: a paused process reconciles, but gives no job bytes and offers none
\* to the network, not even a retry of bytes it signed before the pause.
THEOREM PausedStaysQuiet == ASSUME SoleRecoverer PROVE Spec => PausedIsQuiet
  <1>1. TypeInv /\ OwnerInv /\ DurableInv /\ PauseInv /\ [Next]_vars
        => [QuietStep]_vars
    BY QuietNext
  <1>2. [QuietStep]_vars <=> [(\A p \in alive : policy[p].paused) =>
          /\ \A b \in Batches : journal'[b].raw = journal[b].raw
          /\ \A t \in sent' \ sent : t.by = "manual"]_vars
    BY DEF QuietStep
  <1> QED
    BY <1>1, <1>2, TypeInvariant, OwnerInvariant, DurableInvariant, PauseInvariant, PTL
       DEF Spec, PausedIsQuiet

=============================================================================
