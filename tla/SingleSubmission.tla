-------------------------- MODULE SingleSubmission --------------------------
(***************************************************************************)
(* What the worker promises to the network, without journals, processes or *)
(* crashes: one transaction is chosen for a batch, once and for all, and   *)
(* the network only ever sees chosen transactions, any number of times     *)
(* (services/governance/worker.cjs, "Persist signed bytes BEFORE any       *)
(* broadcast").  EvidenceWorker is shown to implement it.                  *)
(***************************************************************************)
CONSTANTS Batches,  \* batch ids
          Txs,      \* transactions; t.batch is the batch that t anchors
          None      \* no transaction, not one of Txs

VARIABLES choice,   \* [Batches -> Txs \cup {None}]
          network   \* the transactions some node has seen

vars == <<choice, network>>

Init == choice = [b \in Batches |-> None] /\ network = {}

Choose(b) ==
    /\ choice[b] = None
    /\ choice'[b] \in {t \in Txs : t.batch = b}
    /\ choice' = [choice EXCEPT ![b] = choice'[b]]
    /\ UNCHANGED network

Broadcast(b) ==
    /\ choice[b] # None
    /\ network' = network \cup {choice[b]}
    /\ UNCHANGED choice

Next == \E b \in Batches : Choose(b) \/ Broadcast(b)

Spec == Init /\ [][Next]_vars
=============================================================================
