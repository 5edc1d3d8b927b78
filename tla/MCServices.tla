---------------------------- MODULE MCServices ----------------------------
(***************************************************************************)
(* The parts that share no state with the evidence worker and none with    *)
(* each other, checked in one run: a behaviour follows one of them and the *)
(* others rest where they begin, so the run explores the sum of their      *)
(* state spaces.  Parts that do interact are composed in their own modules *)
(* (ProjectKeys with CustomerDirectory, the worker with PublisherRelease's *)
(* gate, ReceiptIngress with its queue).                                   *)
(***************************************************************************)
EXTENDS RevocationReplay, ProjectKeys, EventIndexer, ReceiptIngress,
        CappedRelayer, VerifierRegistry, HistoricalAuthority, PublisherRelease,
        DeliveryQueue, BackupSets, TLC

VARIABLE part

Parts == {"replay", "directory", "keys", "indexer", "ingress", "relayer",
          "registry", "authority", "recovery", "delivery", "backups"}

\* The keys part is about the keys alone, with the owners it begins with.
KeyRequests == \A o \in Operations : operation[o].body \in KeyBodies \cup {NoBody}

\* In the directory part every customer acts once, under whichever id.
OneId == Cardinality(({operation[o].id : o \in Operations} \cup {e[2] : e \in actions})
                       \ {Nothing}) <= 1

Init ==
    /\ part \in Parts
    /\ ReplayInit /\ KeysInit /\ IndexerInit /\ IngressInit
    /\ RelayerInit /\ RegistryInit /\ AuthorityInit /\ RecoveryInit
    /\ DeliveryInit /\ BackupInit
    /\ part # "replay" => time = Baseline
    /\ part # "directory" => invitation = [i \in Invitations |-> NoInvitation]
    /\ part # "keys" => key = [k \in Keys |-> "unused"]
    /\ part = "keys" => created /\ Owners = Customers
    /\ part \notin {"directory", "keys"} => ~created
    /\ part # "registry" => office.owner = CHOOSE a \in Accounts : TRUE

\* Receipts, which are numbers here, come in their order: which is which makes
\* no difference.
ReceiptsInOrder == \A r \in Known(memory.queue) : r > 1 => r - 1 \in Known(memory.queue)

\* A process delivers or imports, one at a time.
OneCallEach == \A s \in Senders : flush[s].busy => import[s].at = "idle"

\* Writers are met by the first capture, transfers are of sets that met none.
WritesApart ==
    /\ source' # source => sets = <<>> \/ capture.set = 1
    /\ transfer' # NoTransfer => source = NoData

Next ==
    /\ UNCHANGED part
    /\ \/ part = "replay" /\ ReplayNext
          /\ UNCHANGED <<directory, keys, indexer, ingress, relayer, registry, authority, recovery, delivery, backups>>
       \/ part = "directory" /\ DirectoryNext /\ OneId'
          /\ UNCHANGED <<replay, keys, indexer, ingress, relayer, registry, authority, recovery, delivery, backups>>
       \/ part = "keys" /\ KeysNext
          /\ UNCHANGED <<replay, indexer, ingress, relayer, registry, authority, recovery, delivery, backups>>
          /\ KeyRequests' /\ barred' = barred
       \/ part = "indexer" /\ IndexerNext
          /\ UNCHANGED <<replay, directory, keys, ingress, relayer, registry, authority, recovery, delivery, backups>>
       \/ part = "ingress" /\ IngressNext /\ ReceiptsInOrder'
          /\ UNCHANGED <<replay, directory, keys, indexer, relayer, registry, authority, recovery, delivery, backups>>
       \/ part = "relayer" /\ RelayerNext
          /\ UNCHANGED <<replay, directory, keys, indexer, ingress, registry, authority, recovery, delivery, backups>>
       \/ part = "registry" /\ RegistryNext
          /\ UNCHANGED <<replay, directory, keys, indexer, ingress, relayer, authority, recovery, delivery, backups>>
       \/ part = "authority" /\ AuthorityNext
          /\ UNCHANGED <<replay, directory, keys, indexer, ingress, relayer, registry, recovery, delivery, backups>>
       \/ part = "recovery" /\ RecoveryNext
          /\ UNCHANGED <<replay, directory, keys, indexer, ingress, relayer, registry, authority, delivery, backups>>
       \/ part = "delivery" /\ DeliveryNext /\ OneCallEach'
          /\ UNCHANGED <<replay, directory, keys, indexer, ingress, relayer, registry, authority,
                         recovery, backups>>
       \/ part = "backups" /\ BackupNext /\ WritesApart
          /\ UNCHANGED <<replay, directory, keys, indexer, ingress, relayer, registry, authority,
                         recovery, delivery>>

Spec == Init /\ [][Next]_<<part, replay, directory, keys, indexer, ingress, relayer,
                           registry, authority, recovery, delivery, backups>>

\* Steps, operations and senders are told apart by nothing but their own
\* states, the contents of a record, the keys and the ids of actions by being
\* different.
Symmetry == Permutations(Steps \cup Operations) \cup Permutations(EventBodies)

-----------------------------------------------------------------------------
\* The part that moves keeps its types.
ServicesTypeOK ==
    \/ part = "replay" /\ ReplayTypeOK
    \/ part \in {"directory", "keys"} /\ DirectoryTypeOK
    \/ part = "indexer" /\ IndexerTypeOK
    \/ part = "ingress" /\ IngressTypeOK
    \/ part = "relayer" /\ RelayerTypeOK
    \/ part = "registry" /\ RegistryTypeOK
    \/ part = "authority" /\ AuthorityTypeOK
    \/ part = "recovery" /\ RecoveryTypeOK
    \/ part = "delivery" /\ DeliveryTypeOK
    \/ part = "backups" /\ BackupTypeOK

\* A record or a receipt that was accepted survives the process; the one is
\* delivered in its turn, the other anchored under the batch it was told, and
\* the relayer that pays for it keeps to its budget.
OutboundSafe == DeliveriesKept /\ ReceiptsKept /\ IncludedWasAnchored /\ BudgetHolds

\* What was recorded for later was right when it was and stays of use: what a
\* contract verified or anchored, and the backup sets.
RecordedRightly == VerifiedInForce /\ AnchorsStayAuthorised /\ BackupsSound
=============================================================================
