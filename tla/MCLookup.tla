------------------------------ MODULE MCLookup ------------------------------
(***************************************************************************)
(* Lookups for TLC: two names, which is one batch where there are batches. *)
(***************************************************************************)
EXTENDS Lookup

Batches == [f \in Forges |-> IF f \in {"github", "gitlab"} THEN 2 ELSE 1]

\* Whatever stands under the first name; the other is one like any.
Firsts == {[n \in Names |-> IF n = 1 THEN k ELSE "full"] : k \in Kinds \ {"leaving"}}
=============================================================================
