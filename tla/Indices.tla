------------------------------- MODULE Indices -------------------------------
(***************************************************************************)
(* What a loop over indices finds, and what it collects.                   *)
(***************************************************************************)
EXTENDS Integers, FiniteSets

(* The first index in S, or 0. *)
First(S) == IF S = {} THEN 0 ELSE CHOOSE x \in S : \A y \in S : x <= y

(* The indices in S, in their order. *)
Ascending(S) ==
  CHOOSE s \in [1 .. Cardinality(S) -> S] : \A j, k \in DOMAIN s : j < k => s[j] < s[k]
=============================================================================
