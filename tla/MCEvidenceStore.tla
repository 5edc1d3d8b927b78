--------------------------- MODULE MCEvidenceStore ---------------------------
(* Small instances of EvidenceStore: what clients may submit. *)
EXTENDS EvidenceStore, TLC

Content(id, digest, slot, bytes) ==
    [id |-> id, digest |-> digest, slot |-> slot, bytes |-> bytes]

\* Event 1 in two versions, event 2 in its own place or in
\* event 1's place.
Contested == {Content(1, "a", 1, 2), Content(1, "b", 1, 1), Content(2, "a", 1, 1),
              Content(2, "b", 2, 2)}

\* Submissions received around midnight: distinct events, all small.
Distinct == {Content(e, "a", e, 1) : e \in Ids}

\* Calls, batches and hashes are interchangeable.
Symmetry == Permutations(Calls) \cup Permutations(Batches) \cup Permutations(Hashes)
=============================================================================
