----------------------------- MODULE BackupSets -----------------------------
(***************************************************************************)
(* Encrypted backup sets: the capture of the PostgreSQL database with the  *)
(* journals of the workers (services/governance/postgres-backup.cjs,       *)
(* recovery.cjs), their copies to another file system                      *)
(* (backup-custody-copy.cjs), under another key (backup-key-rotation.cjs), *)
(* to object storage and back (backup-object-storage.cjs), and the pointer *)
(* to the latest upload (backup-object-pointer.cjs).                       *)
(*                                                                         *)
(* Every set is a fresh directory or key prefix.  Writers of the databases *)
(* go on as if nobody had stopped them: createBackup only asks whether     *)
(* they were.  The workers of the projects share nothing: one stands for   *)
(* all.  A file may go bad at any time, and stays so.                      *)
(***************************************************************************)
EXTENDS Integers, Sequences, FiniteSets, SequencesExt

CONSTANTS
    MaxWrites,  \* bound: batches committed
    MaxSets,    \* bound: sets ever begun
    MaxDamage   \* bound: files that go bad

ASSUME BackupAssumption == MaxWrites \in Nat /\ MaxSets \in Nat /\ MaxDamage \in Nat

VARIABLES
    source,    \* the databases: how far each has come
    locked,    \* the SHARE lock on the tables of PostgreSQL
    sets,      \* sequence of the sets ever begun
    capture,   \* the capture under way
    transfer,  \* the transfer under way
    verified,  \* sets that an operation has reported as verified
    pointer,   \* the set named by the pointer to the latest upload
    damage     \* files that have gone bad

backups == <<source, locked, sets, capture, transfer, verified, pointer, damage>>

\* A set's files; one stands for the encrypted journals with their manifest.
Files == {"postgres", "journals", "manifest", "complete"}
Contents == {"none", "whole", "damaged"}
NoFiles == [f \in Files |-> "none"]

Kind == {"copy", "rotate", "upload", "download"}

\* PostgreSQL holds the batches of evidence and the hashes attached to them,
\* the worker's journal the transactions it signed.
NoData == [batched |-> 0, attached |-> 0, signed |-> 0]
EmptySet == [remote |-> FALSE, data |-> NoData, files |-> NoFiles,
             written |-> NoFiles, index |-> NoFiles]
NoCapture == [at |-> "idle", set |-> 0]
NoTransfer == [phases |-> <<>>, kind |-> "none", from |-> 0, to |-> 0,
               todo |-> <<>>, before |-> NoFiles]

BackupTypeOK ==
    /\ source \in [{"batched", "attached", "signed"} -> 0..MaxWrites]
    /\ locked \in BOOLEAN /\ Len(sets) <= MaxSets
    /\ \A s \in DOMAIN sets : /\ sets[s].files \in [Files -> Contents]
                              /\ sets[s].written \in [Files -> Contents]
                              /\ sets[s].index \in [Files -> Contents]
    /\ capture.at \in {"idle", "dump", "journals", "commit", "manifest", "mark"}
    /\ transfer.kind \in Kind \cup {"none"} /\ ToSet(transfer.todo) \subseteq Files
    /\ verified \subseteq DOMAIN sets /\ pointer \in {0} \cup DOMAIN sets
    /\ damage \in 0..MaxDamage

BackupInit ==
    /\ source = NoData /\ locked = FALSE
    /\ sets = <<>>
    /\ capture = NoCapture /\ transfer = NoTransfer
    /\ verified = {} /\ pointer = 0 /\ damage = 0

-----------------------------------------------------------------------------
(* The writers of the databases: the tables are written only unlocked *)

CommitBatch == source.batched < MaxWrites /\ ~locked /\ source' = [source EXCEPT !.batched = @ + 1]
SignBatch == source.signed < source.batched /\ source' = [source EXCEPT !.signed = @ + 1]
AttachHash ==
    source.attached < source.signed /\ ~locked /\ source' = [source EXCEPT !.attached = @ + 1]

WriteSource ==
    /\ CommitBatch \/ SignBatch \/ AttachHash
    /\ UNCHANGED <<locked, sets, capture, transfer, verified, pointer, damage>>

-----------------------------------------------------------------------------
(* The capture *)

Written(s, f, content) ==
    [sets EXCEPT ![s].files[f] = content, ![s].written[f] = content]

StartCapture ==
    /\ capture.at = "idle" /\ transfer = NoTransfer /\ Len(sets) < MaxSets
    /\ locked' = TRUE
    /\ sets' = Append(sets, EmptySet)
    /\ capture' = [at |-> "dump", set |-> Len(sets) + 1]
    /\ UNCHANGED <<source, transfer, verified, pointer, damage>>

Dump ==
    /\ capture.at = "dump"
    /\ sets' = [Written(capture.set, "postgres", "whole") EXCEPT
                   ![capture.set].data.batched = source.batched,
                   ![capture.set].data.attached = source.attached]
    /\ capture' = [capture EXCEPT !.at = "journals"]
    /\ UNCHANGED <<source, locked, transfer, verified, pointer, damage>>

SnapshotJournal ==
    /\ capture.at = "journals"
    /\ sets' = [Written(capture.set, "journals", "whole") EXCEPT
                   ![capture.set].data.signed = source.signed]
    /\ capture' = [capture EXCEPT !.at = "commit"]
    /\ UNCHANGED <<source, locked, transfer, verified, pointer, damage>>

ReleaseTables ==
    /\ capture.at = "commit"
    /\ locked' = FALSE
    /\ capture' = [capture EXCEPT !.at = "manifest"]
    /\ UNCHANGED <<source, sets, transfer, verified, pointer, damage>>

FinishCapture ==
    /\ \/ /\ capture.at = "manifest"
          /\ sets' = Written(capture.set, "manifest", "whole")
          /\ capture' = [capture EXCEPT !.at = "mark"]
       \/ /\ capture.at = "mark"
          /\ sets' = Written(capture.set, "complete", "whole")
          /\ capture' = NoCapture
    /\ UNCHANGED <<source, locked, transfer, verified, pointer, damage>>

\* A step fails and the directory is removed, or the process dies and leaves it.
EndCapture ==
    /\ capture.at # "idle"
    /\ capture' = NoCapture /\ locked' = FALSE
    /\ sets' = sets \/ sets' = [sets EXCEPT ![capture.set] = EmptySet]
    /\ UNCHANGED <<source, transfer, verified, pointer, damage>>

-----------------------------------------------------------------------------
(* Transfers, one file at a time within each phase *)

Phases(kind) ==
    CASE kind = "copy"     -> <<"inspect", "inventory", "write", "mark", "inspectCopy",
                                "compareSource", "compareCopy">>
      [] kind = "rotate"   -> <<"inspect", "inventory", "write", "mark", "inspectCopy",
                                "compareSource">>
      [] kind = "upload"   -> <<"inspect", "inventory", "write", "compareSource", "mark">>
      [] kind = "download" -> <<"index", "write", "mark", "compareCopy", "inspectCopy">>

\* What a phase has to go through.
Todo(phase) ==
    CASE phase \in {"mark", "index"} -> <<"complete">>
      [] phase = "write" -> <<"postgres", "manifest", "journals">>
      [] phase \in {"inspect", "inspectCopy"} -> <<"complete", "manifest", "postgres", "journals">>
      [] OTHER -> <<"postgres", "manifest", "journals", "complete">>

\* A transfer reads a set with its marker, from where it finds it.
StartTransfer(kind, s) ==
    /\ transfer = NoTransfer /\ capture.at = "idle" /\ Len(sets) < MaxSets
    /\ sets[s].files["complete"] # "none"
    /\ sets[s].remote <=> kind = "download"
    /\ sets' = Append(sets, [EmptySet EXCEPT !.remote = (kind = "upload"), !.data = sets[s].data])
    /\ transfer' = [NoTransfer EXCEPT !.phases = Phases(kind), !.kind = kind,
                        !.from = s, !.to = Len(sets) + 1, !.todo = Todo(Phases(kind)[1])]
    /\ UNCHANGED <<source, locked, capture, verified, pointer, damage>>

Phase == Head(transfer.phases)
Here(f) == sets[transfer.from].files[f]
There(f) == sets[transfer.to].files[f]

\* The file whose turn it is, and on to the next one or to the next phase.
Turn(f) == transfer.todo # <<>> /\ Head(transfer.todo) = f
Onward ==
    LET left == Tail(transfer.todo)
        rest == Tail(transfer.phases)
    IN  IF left # <<>> \/ rest = <<>> THEN [transfer EXCEPT !.todo = left]
        ELSE [transfer EXCEPT !.phases = rest, !.todo = Todo(Head(rest))]

\* Files that are read and found in order; what is found is kept in before.
Check(f) ==
    /\ Turn(f)
    /\ \/ Phase = "inspect" /\ Here(f) = "whole" /\ transfer' = Onward
       \/ Phase = "inspectCopy" /\ There(f) = "whole" /\ transfer' = Onward
       \/ Phase = "inventory" /\ transfer' = [Onward EXCEPT !.before[f] = Here(f)]
       \/ Phase = "compareSource" /\ Here(f) = transfer.before[f] /\ transfer' = Onward
       \/ Phase = "compareCopy" /\ There(f) = transfer.before[f] /\ transfer' = Onward
       \/ /\ Phase = "index" /\ Here(f) = sets[transfer.from].index[f]
          /\ transfer' = [Onward EXCEPT !.before = sets[transfer.from].index]
    /\ UNCHANGED <<source, locked, sets, capture, verified, pointer, damage>>

\* What a write demands of the file it reads: a rotation decrypts it, a
\* download and the marker of an upload compare its digest.  A download keeps
\* the marker that it read with the index.
Writable(f) ==
    /\ transfer.kind = "rotate" /\ f # "complete" => Here(f) = "whole"
    /\ transfer.kind = "download" /\ f # "complete" => Here(f) = transfer.before[f]
    /\ transfer.kind = "upload" /\ f = "complete" => Here(f) = transfer.before[f]

\* The index of an upload follows its files.
WriteFile(f) ==
    LET content == IF transfer.kind = "download" THEN transfer.before[f] ELSE Here(f)
        copied == Written(transfer.to, f, content)
    IN  /\ Turn(f) /\ Phase \in {"write", "mark"}
        /\ Writable(f)
        /\ sets' = IF transfer.kind = "upload" /\ Phase = "write" /\ Tail(transfer.todo) = <<>>
                   THEN [copied EXCEPT ![transfer.to].index = transfer.before] ELSE copied
        /\ transfer' = Onward
        /\ UNCHANGED <<source, locked, capture, verified, pointer, damage>>

\* The report, and after an upload the pointer, if one is kept, which is
\* replaced as a whole.
FinishTransfer ==
    /\ transfer # NoTransfer /\ transfer.todo = <<>>
    /\ IF transfer.kind = "upload"
       THEN pointer' \in {pointer, transfer.to} /\ UNCHANGED verified
       ELSE verified' = verified \cup {transfer.to} /\ UNCHANGED pointer
    /\ transfer' = NoTransfer
    /\ UNCHANGED <<source, locked, sets, capture, damage>>

\* A check or a request fails, or the process dies: a directory is removed if
\* it can be, objects stay.
EndTransfer ==
    /\ transfer # NoTransfer
    /\ transfer' = NoTransfer
    /\ \/ UNCHANGED sets
       \/ ~sets[transfer.to].remote /\ sets' = [sets EXCEPT ![transfer.to] = EmptySet]
    /\ UNCHANGED <<source, locked, capture, verified, pointer, damage>>

GoBad(s, f) ==
    /\ damage < MaxDamage /\ sets[s].files[f] = "whole"
    /\ sets' = [sets EXCEPT ![s].files[f] = "damaged"]
    /\ damage' = damage + 1
    /\ UNCHANGED <<source, locked, capture, transfer, verified, pointer>>

BackupNext ==
    \/ WriteSource
    \/ StartCapture \/ Dump \/ SnapshotJournal \/ ReleaseTables \/ FinishCapture \/ EndCapture
    \/ \E s \in DOMAIN sets :
          \/ \E kind \in Kind : StartTransfer(kind, s)
          \/ \E f \in Files : GoBad(s, f)
    \/ \E f \in Files : Check(f) \/ WriteFile(f)
    \/ FinishTransfer \/ EndTransfer

BackupSpec == BackupInit /\ [][BackupNext]_backups

-----------------------------------------------------------------------------
Complete(s) == sets[s].files["complete"] # "none"

\* The worker can be started from a complete set, even if somebody wrote while
\* it was captured: its journal has every hash that the store has, so that
\* nothing is signed twice, and knows no batch that the store lacks, of which
\* every tick would fail (createBackup: lock, dump, journals; worker.run).
CaptureCoherent ==
    \A s \in DOMAIN sets : Complete(s) =>
        /\ sets[s].data.attached <= sets[s].data.signed
        /\ sets[s].data.signed <= sets[s].data.batched

\* The marker is written last wherever a set is written, so a set that has it
\* has all its files, and a remote one its index; the pointer names such a set
\* (createBackup, copyBackupSet, rotateBackupKey, uploadBackupSet, savePointer).
MarkerIsLast ==
    /\ \A s \in DOMAIN sets : Complete(s) =>
          /\ \A f \in Files : sets[s].files[f] # "none"
          /\ sets[s].remote => sets[s].index # NoFiles
    /\ pointer # 0 => Complete(pointer) /\ sets[pointer].remote

\* What was reported as verified was written whole, whenever and wherever a
\* file of its source went bad (copyBackupSet, rotateBackupKey, downloadBackupSet).
VerifiedIsWhole ==
    \A s \in verified, f \in Files : sets[s].written[f] = "whole"

BackupsSound == CaptureCoherent /\ MarkerIsLast /\ VerifiedIsWhole
=============================================================================
