--------------------------- MODULE EvidenceLedger ---------------------------
(***************************************************************************)
(* What the event store promises to the evidence pipeline, without         *)
(* connections, row locks or revisions: events are accepted one by one, a  *)
(* batch takes events that no batch has yet, all at once, and a            *)
(* transaction hash is appended to a whole batch.  The SQLite store does   *)
(* each in one transaction (services/governance/store.js); EvidenceStore,  *)
(* the PostgreSQL one, is shown to implement it, and EvidenceWorker relies *)
(* on it.                                                                  *)
(***************************************************************************)
EXTENDS Naturals, Sequences

CONSTANTS Ids,      \* event ids
          Batches,  \* batch ids
          Hashes,   \* transaction hashes
          MaxTxs    \* hashes one batch may carry

VARIABLES accepted, \* the accepted events
          bundles   \* [Batches -> [events, transactions]]

vars == <<accepted, bundles>>

NoBundle == [events |-> {}, transactions |-> <<>>]

Init == accepted = {} /\ bundles = [b \in Batches |-> NoBundle]

Accept(e) ==
    /\ e \notin accepted
    /\ accepted' = accepted \cup {e}
    /\ UNCHANGED bundles

Commit(b, S) ==
    /\ S # {} /\ S \subseteq accepted
    /\ \A c \in Batches : S \cap bundles[c].events = {}
    /\ bundles[b] = NoBundle
    /\ bundles' = [bundles EXCEPT ![b].events = S]
    /\ UNCHANGED accepted

Attach(b, h) ==
    /\ bundles[b].events # {}
    /\ \A i \in DOMAIN bundles[b].transactions : bundles[b].transactions[i] # h
    /\ Len(bundles[b].transactions) < MaxTxs
    /\ bundles' = [bundles EXCEPT ![b].transactions = Append(@, h)]
    /\ UNCHANGED accepted

Next ==
    \/ \E e \in Ids : Accept(e)
    \/ \E b \in Batches, S \in SUBSET Ids : Commit(b, S)
    \/ \E b \in Batches, h \in Hashes : Attach(b, h)

Spec == Init /\ [][Next]_vars
=============================================================================
