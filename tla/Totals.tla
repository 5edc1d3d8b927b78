------------------------------- MODULE Totals -------------------------------
(***************************************************************************)
(* Sums of natural numbers, counted unit by unit: member x of S stands for *)
(* f[x] pairs, and the pairs are counted.  TLC counts them as well as it   *)
(* sums, and of finite sets, unlike of recursive sums, there are theorems. *)
(***************************************************************************)
EXTENDS Integers, FiniteSets

Units(f, S) == UNION {{x} \X (1..f[x]) : x \in S}

Total(f, S) == Cardinality(Units(f, S))
=============================================================================
