------------------------- MODULE MCGovernanceRules -------------------------
(* Small instances of GovernanceRules: which events match which rules. *)
EXTENDS GovernanceRules, TLC

CONSTANTS e1, e2, r1

Breach(e, r, v) == [event |-> e, rule |-> r, version |-> v]

\* Event 1 matches the first version of rule 1, which names a destination, and
\* event 2 the second one, which names none.
OneRule == {Breach(e1, r1, 1), Breach(e2, r1, 2)}
FirstVersion == {Breach(e1, r1, 1)}

\* Both events match the rule.
TwoEvents == {Breach(e1, r1, 1), Breach(e2, r1, 1)}

Symmetry == Permutations(Processors)
=============================================================================
