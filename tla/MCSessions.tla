---------------------------- MODULE MCSessions ----------------------------
(***************************************************************************)
(* ProviderSessions for model checking.  Tokens, flows and requests are    *)
(* drawn at random and tell nothing apart.                                 *)
(***************************************************************************)
EXTENDS ProviderSessions, TLC

Symmetry == Permutations(Tokens) \cup Permutations(Requests) \cup Permutations(Flows)
=============================================================================
