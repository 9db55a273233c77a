------------------------------ MODULE JobOrder ------------------------------
(***************************************************************************)
(* Jobs keep the order of their projects, and what is left of them when    *)
(* some are taken out keeps that order too (Array.prototype.filter over    *)
(* indices, src/executor.ts).                                              *)
(***************************************************************************)
EXTENDS Naturals, FiniteSets

Ascending(s) == \A i, j \in DOMAIN s : i < j => s[i] < s[j]

InOrder(S) == CHOOSE s \in [1..Cardinality(S) -> S] : Ascending(s)
=============================================================================
