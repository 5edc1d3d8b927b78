--------------------------- MODULE DeliveryQueue ---------------------------
(***************************************************************************)
(* The durable queue of the ingestion SDK (sdk/typescript/                 *)
(* orvessian-queue.js), the client that delivers it (orvessian-ingest.js)  *)
(* and the import of score pages into it (orvessian-langfuse.js).          *)
(*                                                                         *)
(* Processes share one queue file.  Each call on the file is a SQLite      *)
(* transaction; a process awaits the network between them and may die      *)
(* there.  The API keeps the first content of an event and recognises a    *)
(* repetition (EvidenceStore); here it is what the queue sees of it.       *)
(***************************************************************************)
EXTENDS Integers, FiniteSets

CONSTANTS
    Events,     \* event ids, 1 up; page n of the import holds the score of event n
    Pages,      \* pages of the window that is imported
    EventBodies, \* contents of an event
    Senders,    \* processes with the file open
    Capacity,   \* records that may wait
    FlushLimit, \* records of one flush
    Attempts,   \* requests the client makes for one record
    MaxRows     \* bound: records ever queued

ASSUME QueueAssumption ==
    /\ Events \subseteq Nat /\ 1..Pages \subseteq Events /\ Pages \in Nat \ {0}
    /\ Capacity \in Nat \ {0} /\ FlushLimit \in Nat \ {0} /\ Attempts \in Nat \ {0}
    /\ MaxRows \in Nat

VARIABLES
    pending,     \* the rows of the queue
    lastRow,     \* the greatest row id given out
    checkpoint,  \* the import's checkpoint
    flush,       \* [sender -> its flush]
    import,      \* [sender -> its import]
    api,         \* [event -> the row whose content the API keeps]
    admitted     \* every row that was ever committed

delivery == <<pending, lastRow, checkpoint, flush, import, api, admitted>>

Row == [id: 1..MaxRows, event: Events, body: EventBodies]
NoRecord == [id |-> 0]
NoFlush == [busy |-> FALSE, rows |-> {}, tries |-> 0, acknowledged |-> FALSE]
FlushOf(rows) == [busy |-> TRUE, rows |-> rows, tries |-> 0, acknowledged |-> FALSE]

\* Cursor 0 is none: page n ends with cursor n, the last one with none.
StartOfImport == [revision |-> 0, cursor |-> 0, complete |-> FALSE]
Checkpoint == [revision: 0..Pages, cursor: 0..Pages, complete: BOOLEAN]
NoImport == [at |-> "idle", checkpoint |-> StartOfImport, scores |-> {}]

DeliveryTypeOK ==
    /\ pending \subseteq Row /\ Cardinality(pending) <= Capacity
    /\ lastRow \in 0..MaxRows
    /\ checkpoint \in Checkpoint
    /\ \A s \in Senders : /\ flush[s].busy \in BOOLEAN /\ flush[s].acknowledged \in BOOLEAN
                          /\ flush[s].rows \subseteq Row
                          /\ flush[s].tries \in 0..Attempts
                          /\ import[s].at \in {"idle", "read", "commit"}
                          /\ import[s].checkpoint \in Checkpoint
    /\ \A e \in Events : api[e] \in {NoRecord} \cup Row
    /\ pending \subseteq admitted /\ admitted \subseteq Row

DeliveryInit ==
    /\ pending = {} /\ lastRow = 0 /\ admitted = {}
    /\ checkpoint = StartOfImport
    /\ flush = [s \in Senders |-> NoFlush]
    /\ import = [s \in Senders |-> NoImport]
    /\ api = [e \in Events |-> NoRecord]

-----------------------------------------------------------------------------
(* Records enter the queue *)

\* AUTOINCREMENT: an id is never given out twice.
NextRow == lastRow + 1

Waiting(e) == {r \in pending : r.event = e}
Collides(e, b) == \E r \in Waiting(e) : r.body # b

\* A record that waits already is not queued again, another body of it and a
\* full queue are refused.
Insert(e, b) ==
    IF Waiting(e) # {} THEN ~Collides(e, b) /\ UNCHANGED <<pending, lastRow, admitted>>
    ELSE LET row == [id |-> NextRow, event |-> e, body |-> b]
         IN  /\ Cardinality(pending) < Capacity /\ NextRow <= MaxRows
             /\ pending' = pending \cup {row} /\ admitted' = admitted \cup {row}
             /\ lastRow' = NextRow

Enqueue(e, b) ==
    /\ Waiting(e) = {} /\ Insert(e, b)
    /\ UNCHANGED <<checkpoint, flush, import, api>>

-----------------------------------------------------------------------------
(* Delivery, oldest first, until the first failure *)

Before(row) == {r \in pending : r.id < row.id}
Oldest == {row \in pending : Cardinality(Before(row)) < FlushLimit}

\* A flush of an empty queue changes nothing.
StartFlush(s) ==
    /\ ~flush[s].busy /\ pending # {}
    /\ flush' = [flush EXCEPT ![s] = FlushOf(Oldest)]
    /\ UNCHANGED <<pending, lastRow, checkpoint, import, api, admitted>>

\* The record whose turn it is.
NextUp(s, row) == row \in flush[s].rows /\ \A r \in flush[s].rows : row.id <= r.id
Sending(s, row) == flush[s].busy /\ ~flush[s].acknowledged /\ NextUp(s, row)

\* What the API makes of a record: it keeps the first content of an event.
Kept(row) == IF api[row.event] = NoRecord THEN row ELSE api[row.event]

\* A request is acknowledged as accepted or as a duplicate.
SubmitRecord(s, row) ==
    /\ Sending(s, row) /\ Kept(row).body = row.body
    /\ api' = [api EXCEPT ![row.event] = Kept(row)]
    /\ flush' = [flush EXCEPT ![s] = [@ EXCEPT !.acknowledged = TRUE]]
    /\ UNCHANGED <<pending, lastRow, checkpoint, import, admitted>>

\* The request or its answer is lost, or the API fails: another attempt, or
\* the flush throws, after the last one and where a retry is no use.
Unanswered(s, row) ==
    /\ Sending(s, row)
    /\ api' = api \/ api' = [api EXCEPT ![row.event] = Kept(row)]
    /\ \/ flush[s].tries + 1 < Attempts /\ flush' = [flush EXCEPT ![s].tries = @ + 1]
       \/ flush' = [flush EXCEPT ![s] = NoFlush]
    /\ UNCHANGED <<pending, lastRow, checkpoint, import, admitted>>

\* 409: the flush throws, and the record stays where it is.
Refused(s, row) ==
    /\ Sending(s, row) /\ Kept(row).body # row.body
    /\ flush' = [flush EXCEPT ![s] = NoFlush]
    /\ UNCHANGED <<pending, lastRow, checkpoint, import, api, admitted>>

RemoveDelivered(s, row) ==
    /\ flush[s].busy /\ flush[s].acknowledged /\ NextUp(s, row)
    /\ pending' = {r \in pending : r.id # row.id}
    /\ flush' = [flush EXCEPT ![s] = FlushOf(@.rows \ {row})]
    /\ UNCHANGED <<lastRow, checkpoint, import, api, admitted>>

EndFlush(s) ==
    /\ flush[s].busy /\ flush[s].rows = {}
    /\ flush' = [flush EXCEPT ![s] = NoFlush]
    /\ UNCHANGED <<pending, lastRow, checkpoint, import, api, admitted>>

-----------------------------------------------------------------------------
(* The import of a window of scores *)

StartImport(s) ==
    /\ import[s].at = "idle" /\ ~checkpoint.complete
    /\ import' = [import EXCEPT ![s] = [NoImport EXCEPT !.at = "read", !.checkpoint = checkpoint]]
    /\ UNCHANGED <<pending, lastRow, checkpoint, flush, api, admitted>>

\* The page after the cursor, with its score as it is labelled now.
ReadPage(s) ==
    /\ import[s].at = "read"
    /\ \E b \in EventBodies :
          import' = [import EXCEPT ![s] = [@ EXCEPT !.at = "commit", !.scores = {b}]]
    /\ UNCHANGED <<pending, lastRow, checkpoint, flush, api, admitted>>

Advanced(c) == [revision |-> c.revision + 1,
                cursor |-> IF c.cursor + 1 < Pages THEN c.cursor + 1 ELSE 0,
                complete |-> c.cursor + 1 = Pages]

\* The page and the checkpoint, in one transaction, if nobody else has moved
\* the checkpoint.  The import goes on or has used up its pages (maxPages).
CommitImportPage(s) ==
    LET page == import[s].checkpoint
        next == Advanced(page)
    IN  /\ import[s].at = "commit"
        /\ checkpoint = page
        /\ \E b \in import[s].scores : Insert(page.cursor + 1, b)
        /\ checkpoint' = next
        /\ \E goes \in IF next.complete THEN {"idle"} ELSE {"read", "idle"} :
              import' = [import EXCEPT ![s] = IF goes = "idle" THEN NoImport
                              ELSE [NoImport EXCEPT !.at = "read", !.checkpoint = next]]
        /\ UNCHANGED <<flush, api>>

\* The read fails or the commit is refused: the call throws.
StopImport(s) ==
    /\ import[s].at # "idle"
    /\ import' = [import EXCEPT ![s] = NoImport]
    /\ UNCHANGED <<pending, lastRow, checkpoint, flush, api, admitted>>

SenderDies(s) ==
    /\ flush[s].busy \/ import[s].at # "idle"
    /\ flush' = [flush EXCEPT ![s] = NoFlush]
    /\ import' = [import EXCEPT ![s] = NoImport]
    /\ UNCHANGED <<pending, lastRow, checkpoint, api, admitted>>

DeliveryNext ==
    \/ \E e \in Events, b \in EventBodies : Enqueue(e, b)
    \/ \E s \in Senders :
          \/ StartFlush(s) \/ EndFlush(s)
          \/ \E row \in flush[s].rows : \/ SubmitRecord(s, row) \/ Unanswered(s, row)
                                        \/ Refused(s, row) \/ RemoveDelivered(s, row)
          \/ StartImport(s) \/ ReadPage(s) \/ CommitImportPage(s) \/ StopImport(s)
          \/ SenderDies(s)

DeliverySpec == DeliveryInit /\ [][DeliveryNext]_delivery

-----------------------------------------------------------------------------
Delivered(row) == api[row.event] # NoRecord /\ api[row.event].body = row.body

\* A record that was queued waits until the API has it with the content it was
\* queued with, whoever else delivers, dies or queues beside it (enqueue, flush).
NothingDropped == \A row \in admitted : row \in pending \/ Delivered(row)

\* The API never has a record while one that was queued before it is not
\* delivered: a record that is refused holds back everything behind it rather
\* than being passed over (flush).
DeliveredInOrder ==
    \A row \in admitted, e \in Events :
        api[e] # NoRecord /\ row.id < api[e].id => Delivered(row)

\* The checkpoint of an import is never ahead of the records: every page before
\* it is in the queue or delivered (commitImportPage, importLangfuseWindow).
WindowImported ==
    \A n \in 1..Pages : checkpoint.complete \/ n <= checkpoint.cursor
        => \E row \in admitted : row.event = n

DeliveriesKept == NothingDropped /\ DeliveredInOrder /\ WindowImported
=============================================================================
