------------------------------ MODULE MCDestroy ------------------------------
(***************************************************************************)
(* Namespaces for TLC: one inside another, with a repository in each, one  *)
(* beside them all, and one that is not declared.                          *)
(***************************************************************************)
EXTENDS Destroy

Homes ==
  [r \in Repos |->
     CASE r \in {"a/b/api", "a/b/theirs"} -> <<"a", "b">>
       [] r = "a/a" -> <<"a">>
       [] OTHER -> Top]
=============================================================================
