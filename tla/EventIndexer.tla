---------------------------- MODULE EventIndexer ----------------------------
(***************************************************************************)
(* The index of anchored receipts and batches                              *)
(* (sdk/typescript/avr-event-indexer.js, run by                            *)
(* scripts/base-sepolia-avr-indexer.cjs under an exclusive lock), which    *)
(* scans ranges of blocks of a chain that may be reorganised between any   *)
(* two calls of the RPC.                                                   *)
(*                                                                         *)
(* A block's hash is its serial number: serials are never used twice, as a *)
(* hash commits to the history of its block.  The endpoints agree on the   *)
(* chain of the moment.  Of the checkpoints only the newest is kept, the   *)
(* one that rewindForReorg looks at.                                       *)
(***************************************************************************)
EXTENDS Integers, Sequences, FiniteSetsExt

CONSTANTS
    Anchored,    \* receipt and batch ids
    Contracts,   \* anchor contracts, 1 up, in the order they are scanned
    Manifests,   \* ids whose manifest lies in the directory
    MaxRange,    \* blocks of a range (1000)
    MaxHeight,   \* bound: the height of the chain
    MaxSerial,   \* bound: the blocks ever made
    Undercut     \* a block that is scanned already may be undone during a sync

ASSUME IndexerAssumption ==
    /\ Contracts \in Nat /\ MaxRange \in Nat \ {0}
    /\ MaxHeight \in Nat /\ MaxSerial \in Nat /\ Undercut \in BOOLEAN

VARIABLES
    chain,    \* sequence of blocks; the first is the deployment's, startBlock
    serial,   \* the blocks ever made
    file,     \* the index on disk
    sync      \* the sync under way, with the index in memory

indexer == <<chain, serial, file, sync>>

Event == (1..Contracts) \X Anchored
NoHash == 0
NoEntry == [block |-> 0, hash |-> NoHash, contract |-> 0, manifest |-> FALSE]

\* The newest checkpoint is that of block next - 1.
NewState == [next |-> 1, hash |-> NoHash, entries |-> [a \in Anchored |-> NoEntry]]
NoSync == [at |-> "idle", index |-> NewState, latest |-> 0, to |-> 0, end |-> NoHash,
           contract |-> 0, logs |-> {}]

IndexType == [next: 1..(MaxHeight + 1), hash: 0..MaxSerial,
              entries: [Anchored -> [block: 0..MaxHeight, hash: 0..MaxSerial,
                                     contract: 0..Contracts, manifest: BOOLEAN]]]

IndexerTypeOK ==
    /\ \A n \in DOMAIN chain : chain[n].hash \in 1..MaxSerial /\ chain[n].events \subseteq Event
    /\ Len(chain) <= MaxHeight
    /\ serial \in 0..MaxSerial
    /\ file \in IndexType
    /\ sync.at \in {"idle", "check", "latest", "range", "logs", "events", "end", "manifests"}
    /\ sync.index \in IndexType /\ sync.latest \in 0..MaxHeight /\ sync.to \in 0..MaxHeight
    /\ sync.end \in 0..MaxSerial /\ sync.contract \in 0..(Contracts + 1)

IndexerInit ==
    /\ chain = <<>> /\ serial = 0
    /\ file = NewState
    /\ sync = NoSync

Hash(n) == IF n \in DOMAIN chain THEN chain[n].hash ELSE NoHash
EventsUpTo(n) == UNION {chain[m].events : m \in (1..n) \cap DOMAIN chain}

-----------------------------------------------------------------------------
(* The chain: a contract anchors an id once *)

Block(n, events) == [hash |-> serial + 1, events |-> events]

Extend(events) ==
    /\ serial < MaxSerial /\ Len(chain) < MaxHeight
    /\ events \cap EventsUpTo(Len(chain)) = {}
    /\ chain' = Append(chain, Block(Len(chain) + 1, events))
    /\ serial' = serial + 1
    /\ UNCHANGED <<file, sync>>

\* How much of the chain a reorganisation leaves alone, unless Undercut: what
\* the sync under way has found canonical.
Settled == IF sync.at \in {"idle", "check"} THEN 0 ELSE sync.index.next - 1

\* The blocks after block n are replaced by another one.
Reorganise(n, events) ==
    /\ serial < MaxSerial
    /\ Undercut \/ n >= Settled
    /\ events \cap EventsUpTo(n) = {}
    /\ chain' = Append(SubSeq(chain, 1, n), Block(n + 1, events))
    /\ serial' = serial + 1
    /\ UNCHANGED <<file, sync>>

-----------------------------------------------------------------------------
(* A sync, one call of the RPC at a time *)

StartSync ==
    /\ sync.at = "idle"
    /\ sync' = [NoSync EXCEPT !.at = "check", !.index = file]
    /\ UNCHANGED <<chain, serial, file>>

StillCanonical(index) == index.next = 1 \/ Hash(index.next - 1) = index.hash

\* A newest checkpoint that is gone rebuilds the index from the first block.
RewindForReorg ==
    /\ sync.at = "check"
    /\ IF StillCanonical(sync.index)
       THEN file' = file /\ sync' = [sync EXCEPT !.at = "latest"]
       ELSE file' = NewState /\ sync' = [sync EXCEPT !.at = "latest", !.index = NewState]
    /\ UNCHANGED <<chain, serial>>

ReadLatest ==
    /\ sync.at = "latest"
    /\ sync' = [sync EXCEPT !.at = "range", !.latest = Len(chain)]
    /\ UNCHANGED <<chain, serial, file>>

\* The hashes of the first and the last block of the range.
OpenRange ==
    LET to == Min({sync.latest, sync.index.next + MaxRange - 1})
    IN  /\ sync.at = "range" /\ sync.index.next <= sync.latest
        /\ sync.index.next \in DOMAIN chain /\ to \in DOMAIN chain
        /\ sync' = [sync EXCEPT !.at = "logs", !.to = to, !.end = Hash(to), !.contract = 1]
        /\ UNCHANGED <<chain, serial, file>>

\* The logs of one contract in a range of blocks.
Log(n, a) == [block |-> n, hash |-> chain[n].hash, id |-> a]
LogsOf(c, from, to) ==
    {log \in {Log(n, a) : n \in (from..to) \cap DOMAIN chain, a \in Anchored} :
        <<c, log.id>> \in chain[log.block].events}

GetLogs ==
    /\ sync.at = "logs" /\ sync.contract <= Contracts
    /\ sync' = [sync EXCEPT !.at = "events",
                            !.logs = LogsOf(sync.contract, sync.index.next, sync.to)]
    /\ UNCHANGED <<chain, serial, file>>

\* One event of the logs, in the order of the chain: its block must still be
\* there.
ApplyLog ==
    /\ sync.at = "events"
    /\ \E log \in sync.logs :
          /\ \A other \in sync.logs : log.block <= other.block
          /\ Hash(log.block) = log.hash
          /\ sync' = [sync EXCEPT !.logs = @ \ {log},
                !.index.entries[log.id] = [block |-> log.block, hash |-> log.hash,
                                           contract |-> sync.contract, manifest |-> FALSE]]
    /\ UNCHANGED <<chain, serial, file>>

NextContract ==
    /\ sync.at = "events" /\ sync.logs = {}
    /\ sync' = [sync EXCEPT !.at = "logs", !.contract = @ + 1]
    /\ UNCHANGED <<chain, serial, file>>

\* Seeded fault: the end of the range is not read again.
RangeStoodUnchecked == TRUE

RangeStood == Hash(sync.to) = sync.end

CloseRange ==
    /\ sync.at = "logs" /\ sync.contract > Contracts
    /\ RangeStood
    /\ LET index == [sync.index EXCEPT !.next = sync.to + 1, !.hash = sync.end]
       IN  /\ file' = index
           /\ sync' = [sync EXCEPT !.at = "range", !.index = index]
    /\ UNCHANGED <<chain, serial>>

\* A manifest whose anchor is not indexed is left out.
AttachManifests ==
    LET Attached(a, entry) ==
            [entry EXCEPT !.manifest = @ \/ (a \in Manifests /\ entry # NoEntry)]
    IN  /\ sync.at = "range" /\ sync.index.next > sync.latest
        /\ file' = [sync.index EXCEPT !.entries = [a \in Anchored |-> Attached(a, @[a])]]
        /\ sync' = NoSync
        /\ UNCHANGED <<chain, serial>>

\* A block is missing, a hash has changed, a call fails or the process dies:
\* the next sync starts from the file.
GiveUp ==
    /\ sync.at # "idle"
    /\ sync' = NoSync
    /\ UNCHANGED <<chain, serial, file>>

Sync ==
    \/ StartSync \/ RewindForReorg \/ ReadLatest \/ OpenRange \/ GetLogs
    \/ ApplyLog \/ NextContract \/ CloseRange \/ AttachManifests \/ GiveUp

IndexerNext ==
    \/ Sync
    \/ \E events \in {{}} \cup {{e} : e \in Event} :
          Extend(events) \/ \E n \in 0..(Len(chain) - 1) : Reorganise(n, events)

IndexerSpec == IndexerInit /\ [][IndexerNext]_indexer

-----------------------------------------------------------------------------
Indexed(index, a) == index.entries[a] # NoEntry

Canonical(a, entry) ==
    /\ Hash(entry.block) = entry.hash
    /\ <<entry.contract, a>> \in chain[entry.block].events

\* While the newest checkpoint on disk is a block of the chain, the index says
\* exactly what the chain says up to it: every entry is the event of a
\* canonical block and no anchored id is missing, whatever was reorganised
\* during the scans that led to it (syncIndex, rewindForReorg).
IndexFollowsChain ==
    StillCanonical(file) =>
        /\ \A a \in Anchored : Indexed(file, a) => Canonical(a, file.entries[a])
        /\ \A e \in EventsUpTo(file.next - 1) : Indexed(file, e[2])
=============================================================================
