------------------------------- MODULE MCLab -------------------------------
(***************************************************************************)
(* Two tasks behind a fault layer whose rules are of the kinds that        *)
(* testdata's rule files are made of.                                      *)
(***************************************************************************)
EXTENDS Lab, TLC

Alike == Permutations(Clients)

Often ==
  [methods |-> Methods, parts |-> Parts, chance |-> TRUE,
   nth |-> {}, first |-> {}, total |-> {}, each |-> {1},
   fault |-> "reset", trigger |-> "same_path", lasts |-> 0, pass |-> FALSE, body |-> FALSE]

Always == [Often EXCEPT !.chance = FALSE, !.each = {}]

OldReads == [Always EXCEPT !.methods = {"GET"}, !.fault = "stale"]

\* Connections to git reset, one of each kind; a limit on the writes of all; stale reads of
\* a repository after a write, and a branch listing that is masked after a push.
Mixed == <<
  [Often EXCEPT !.parts = {"info/refs", "git-receive-pack"}],
  [Often EXCEPT !.methods = {"PATCH"}, !.parts = ApiParts, !.fault = "limited",
                !.chance = FALSE, !.each = {}, !.total = {1}],
  [OldReads EXCEPT !.parts = {"object"}, !.trigger = "same_repo", !.lasts = 2],
  [OldReads EXCEPT !.parts = {"branches"}, !.trigger = "git_receive_pack_same_repo",
                   !.lasts = 1, !.body = TRUE]>>

ASSUME CapsAreOutlasted == Outlasted
=============================================================================
