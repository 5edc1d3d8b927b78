--------------------------- MODULE ReceiptIngress ---------------------------
(***************************************************************************)
(* The development ingress of receipts: a queue in memory, kept durable by *)
(* a journal of accepted receipts, a checkpoint of the queue and the file  *)
(* of the batches it has prepared                                          *)
(* (services/ingress/synthetic-ingress-service.js, synthetic-ingress-http.js, *)
(* sdk/typescript/avr-ingress-queue.js).                                   *)
(*                                                                         *)
(* Node serves one request at a time, and a request writes its files in    *)
(* turn: each write is a step, and the process may die before any of them. *)
(* A file is replaced as a whole.  An operator publishes the batches that  *)
(* were answered and reports what became of them, late or twice if at all. *)
(***************************************************************************)
EXTENDS Integers, Sequences, FiniteSets, SequencesExt

CONSTANTS
    Receipts,          \* receipt ids
    MaxBatchReceipts,  \* receipts of a batch (1000)
    MaxQueueReceipts,  \* receipts the queue ever holds (10000)
    MaxBatchAttempts,  \* batches that a receipt is put into (3)
    CheckpointEvery,   \* receipts between two checkpoints (100)
    MaxPrepared        \* bound: batches prepared

ASSUME IngressAssumption ==
    /\ MaxBatchReceipts \in Nat \ {0} /\ MaxQueueReceipts \in Nat \ {0}
    /\ MaxBatchAttempts \in Nat \ {0} /\ CheckpointEvery \in Nat \ {0}
    /\ MaxPrepared \in Nat

VARIABLES
    memory,    \* the queue, journalSequence, checkpointSequence and the prepared batches
    stored,    \* the checkpoint: the queue with its journalSequence
    lines,     \* the journal: sequence of [sequence, receipt]
    batches,   \* the file of prepared batches: [batch -> its receipts]
    serving,   \* the request under way, at its next write, and where it goes
               \* after the checkpoint
    accepted,  \* receipts whose submission was answered with success
    answered,  \* [batch -> the receipts in the answer of prepareNext]
    anchors    \* batches reported as included

ingress == <<memory, stored, lines, batches, serving, accepted, answered, anchors>>

BatchIds == 1..MaxPrepared
NoBatch == 0
Results == {"included", "retryable", "reorged", "failed"}
Statuses == {"unknown", "accepted", "queued-for-anchor", "provisionally-included", "failed"}

Entries == [status: Statuses, batch: BatchIds \cup {NoBatch}, attempts: 0..MaxBatchAttempts]
Unknown == [status |-> "unknown", batch |-> NoBatch, attempts |-> 0]
EmptyQueue == [records |-> [r \in Receipts |-> Unknown], pending |-> <<>>, sequence |-> 0]
Unprepared == [b \in BatchIds |-> <<>>]
NotServing == [at |-> "idle", then |-> "idle", receipts |-> {}, batch |-> NoBatch]

Known(q) == {r \in Receipts : q.records[r].status # "unknown"}

\* What fromSnapshot accepts.
QueueTypeOK(q) ==
    /\ q.records \in [Receipts -> Entries]
    /\ q.sequence \in 0..MaxPrepared
    /\ ToSet(q.pending) = {r \in Receipts : q.records[r].status = "accepted"}
    /\ IsInjective(q.pending)

\* A receipt that waits has an attempt left.
AttemptLeft == \A r \in Receipts :
    memory.queue.records[r].status = "accepted" => memory.queue.records[r].attempts < MaxBatchAttempts

IngressTypeOK ==
    /\ QueueTypeOK(memory.queue) /\ QueueTypeOK(stored.queue) /\ AttemptLeft
    /\ memory.journal \in Nat /\ memory.checkpoint \in Nat /\ stored.journal \in Nat
    /\ \A b \in BatchIds : /\ ToSet(memory.batches[b]) \subseteq Receipts
                           /\ ToSet(batches[b]) \subseteq Receipts
                           /\ ToSet(answered[b]) \subseteq Receipts
    /\ \A n \in DOMAIN lines : lines[n].sequence \in Nat /\ lines[n].receipt \in Receipts
    /\ serving.at \in {"idle", "append", "prepared", "checkpoint", "truncate", "reconciled", "answer"}
    /\ accepted \subseteq Receipts /\ anchors \subseteq BatchIds

IngressInit ==
    /\ memory = [queue |-> EmptyQueue, journal |-> 0, checkpoint |-> 0, batches |-> Unprepared]
    /\ stored = [queue |-> EmptyQueue, journal |-> 0]
    /\ lines = <<>> /\ batches = Unprepared
    /\ serving = NotServing
    /\ accepted = {} /\ answered = Unprepared /\ anchors = {}

-----------------------------------------------------------------------------
(* The queue *)

Enqueued(q, r) == [q EXCEPT !.records[r].status = "accepted", !.pending = Append(@, r)]

\* A duplicate is refused, and a receipt for which there is no room.
Admits(q, r) == r \notin Known(q) /\ Cardinality(Known(q)) < MaxQueueReceipts

Size(q) == IF Len(q.pending) < MaxBatchReceipts THEN Len(q.pending) ELSE MaxBatchReceipts
Drawn(q) == SubSeq(q.pending, 1, Size(q))

Drain(q) ==
    [records |-> [r \in Receipts |->
        IF r \in ToSet(Drawn(q))
        THEN [status |-> "queued-for-anchor", batch |-> q.sequence + 1,
              attempts |-> q.records[r].attempts + 1]
        ELSE q.records[r]],
     pending |-> SubSeq(q.pending, Size(q) + 1, Len(q.pending)),
     sequence |-> q.sequence + 1]

\* A receipt that is in a later batch, or has its result, is left alone.
Awaits(entry, b, result) ==
    /\ entry.batch = b
    /\ entry.status = IF result = "reorged" THEN "provisionally-included" ELSE "queued-for-anchor"

\* Seeded fault: the attempts are not looked at.
AgainAlways(entry, result) == result \in {"retryable", "reorged"}

\* Back to the queue, unless the attempts are used up.
Again(entry, result) ==
    result \in {"retryable", "reorged"} /\ entry.attempts < MaxBatchAttempts

Recorded(q, r, b, result) ==
    CASE ~Awaits(q.records[r], b, result) -> q
      [] Awaits(q.records[r], b, result) /\ Again(q.records[r], result) -> Enqueued(q, r)
      [] OTHER -> [q EXCEPT !.records[r].status =
                       IF result = "included" THEN "provisionally-included" ELSE "failed"]

RecordAnchorResult(q, b, receipts, result) ==
    LET queue[n \in 0..Len(receipts)] ==
          IF n = 0 THEN q ELSE Recorded(queue[n - 1], receipts[n], b, result)
    IN  queue[Len(receipts)]

\* The queues a start of the process goes through, line by line: what the
\* checkpoint contains is skipped.
Replay(checkpoint, journal) ==
    LET queue[n \in 0..Len(journal)] ==
          IF n = 0 THEN checkpoint.queue
          ELSE IF journal[n].sequence > checkpoint.journal
          THEN Enqueued(queue[n - 1], journal[n].receipt)
          ELSE queue[n - 1]
    IN  queue

Recovered == Replay(stored, lines)[Len(lines)]

-----------------------------------------------------------------------------
(* Requests, write by write *)

Serve(at) == serving' = [serving EXCEPT !.at = at]

Submit(r) ==
    /\ serving.at = "idle" /\ Admits(memory.queue, r)
    /\ memory' = [memory EXCEPT !.queue = Enqueued(@, r), !.journal = @ + 1]
    /\ serving' = [NotServing EXCEPT !.at = "append", !.then = "answer", !.receipts = {r}]
    /\ UNCHANGED <<stored, lines, batches, accepted, answered, anchors>>

AppendLine ==
    /\ serving.at = "append"
    /\ \E r \in serving.receipts :
          lines' = Append(lines, [sequence |-> memory.journal, receipt |-> r])
    /\ Serve(IF memory.journal - memory.checkpoint >= CheckpointEvery THEN "checkpoint" ELSE "answer")
    /\ UNCHANGED <<memory, stored, batches, accepted, answered, anchors>>

\* The batch is drawn from the queue in memory and given its number.
PrepareNext ==
    LET b == memory.queue.sequence + 1
    IN  /\ serving.at = "idle"
        /\ memory.queue.pending # <<>> /\ b <= MaxPrepared
        /\ memory' = [memory EXCEPT !.queue = Drain(@), !.batches[b] = Drawn(memory.queue)]
        /\ serving' = [NotServing EXCEPT !.at = "prepared", !.then = "answer", !.batch = b]
        /\ UNCHANGED <<stored, lines, batches, accepted, answered, anchors>>

\* Seeded fault: the file of prepared batches is written at the next result.
PreparedFileLater == batches

PreparedFile == memory.batches

WritePrepared ==
    /\ serving.at = "prepared"
    /\ batches' = PreparedFile
    /\ Serve("checkpoint")
    /\ UNCHANGED <<memory, stored, lines, accepted, answered, anchors>>

WriteCheckpoint ==
    /\ serving.at = "checkpoint"
    /\ stored' = [queue |-> memory.queue, journal |-> memory.journal]
    /\ memory' = [memory EXCEPT !.checkpoint = memory.journal]
    /\ Serve("truncate")
    /\ UNCHANGED <<lines, batches, accepted, answered, anchors>>

TruncateJournal ==
    /\ serving.at = "truncate"
    /\ lines' = <<>>
    /\ Serve(serving.then)
    /\ UNCHANGED <<memory, stored, batches, accepted, answered, anchors>>

\* A result for a batch whose preparation was answered.  The result is also
\* noted with the prepared batch, where nothing reads it but the health page.
Reconcile(b, result) ==
    /\ serving.at = "idle" /\ answered[b] # <<>>
    /\ memory' = [memory EXCEPT !.queue = RecordAnchorResult(@, b, memory.batches[b], result)]
    /\ anchors' = IF result = "included" THEN anchors \cup {b} ELSE anchors
    /\ serving' = [NotServing EXCEPT !.at = "checkpoint", !.then = "reconciled"]
    /\ UNCHANGED <<stored, lines, batches, accepted, answered>>

WriteReconciled ==
    /\ serving.at = "reconciled"
    /\ batches' = memory.batches
    /\ Serve("answer")
    /\ UNCHANGED <<memory, stored, lines, accepted, answered, anchors>>

Answer ==
    /\ serving.at = "answer"
    /\ accepted' = accepted \cup serving.receipts
    /\ answered' = [b \in BatchIds |->
                      IF b = serving.batch THEN memory.batches[b] ELSE answered[b]]
    /\ serving' = NotServing
    /\ UNCHANGED <<memory, stored, lines, batches, anchors>>

\* The process dies, and starts from its files.
Restart ==
    /\ memory' = [queue |-> Recovered, checkpoint |-> stored.journal, batches |-> batches,
                  journal |-> Max({stored.journal} \cup {lines[n].sequence : n \in DOMAIN lines})]
    /\ serving' = NotServing
    /\ UNCHANGED <<stored, lines, batches, accepted, answered, anchors>>

IngressNext ==
    \/ \E r \in Receipts : Submit(r)
    \/ AppendLine \/ PrepareNext \/ WritePrepared \/ WriteCheckpoint \/ TruncateJournal
    \/ \E b \in BatchIds, result \in Results : Reconcile(b, result)
    \/ WriteReconciled \/ Answer \/ Restart

IngressSpec == IngressInit /\ [][IngressNext]_ingress

-----------------------------------------------------------------------------
\* Whenever the process dies, its files hold a queue it can start from, whose
\* every line is taken in again, with every receipt it has accepted, and a
\* receipt that waits for a result is in a batch of the file, as a result is
\* refused for any other (the order of the writes in submit, prepareNext and
\* reconcile).
ReceiptsKept ==
    /\ \A n \in DOMAIN lines : lines[n].sequence > stored.journal
          => Admits(Replay(stored, lines)[n - 1], lines[n].receipt)
    /\ QueueTypeOK(Recovered)
    /\ accepted \subseteq Known(Recovered)
    /\ \A r \in Receipts : Recovered.records[r].status = "queued-for-anchor"
                              => r \in ToSet(batches[Recovered.records[r].batch])

\* A batch number that was answered is never used for other receipts, although
\* a crash may take a number back: so a receipt counts as included only if it
\* is in a batch that was (drain, recordAnchorResult).
IncludedWasAnchored ==
    /\ \A b \in BatchIds : answered[b] # <<>> => answered[b] = batches[b]
    /\ \A r \in Receipts : memory.queue.records[r].status = "provisionally-included"
          => /\ memory.queue.records[r].batch \in anchors
             /\ r \in ToSet(answered[memory.queue.records[r].batch])
=============================================================================
