------------------------------- MODULE Answers -------------------------------
(***************************************************************************)
(* What a lookup of repositories by name promises, whatever it asks the    *)
(* forge, how often, and in which order.  The world changes under it, and  *)
(* caches show for a while what a repository was.                          *)
(***************************************************************************)
CONSTANTS
  Names,
  Kinds,      \* how something may stand under a name
  Gone        \* those of them that count as missing

VARIABLES
  world,      \* what stands under a name
  shadows,    \* kinds of before that a cache may still show
  open,       \* a call is being answered
  promise,    \* what its answers vouch for
  calm,       \* names written to neither since it began nor, unless it confirms, of late
  since,      \* kinds a name has had since it began
  shown,      \* those, and what caches showed of before
  answers     \* what the last call said of each name; "none" of those not asked

callVars == <<open, promise, calm, since, shown, answers>>
vars == <<world, shadows, callVars>>

\* What a call vouches for: that "missing" is no echo of an earlier write, which kinds of
\* answers say that something is there now, and that "bare" says so of its commits.
Promises == [confirms : BOOLEAN, rereads : SUBSET (Kinds \ Gone), counts : BOOLEAN]

NoPromise == [confirms |-> FALSE, rereads |-> {}, counts |-> FALSE]

Silence == [n \in Names |-> "none"]

Forgotten == [n \in Names |-> {}]

Init ==
  /\ world \in [Names -> Kinds] /\ shadows = Forgotten
  /\ open = FALSE /\ promise = NoPromise /\ calm = {}
  /\ since = Forgotten /\ shown = Forgotten /\ answers = Silence

\* Somebody writes to a repository, and maybe makes it one of another kind.
Write(n, k) ==
  /\ world' = [world EXCEPT ![n] = k]
  /\ shadows' = [shadows EXCEPT ![n] = @ \cup {world[n]}]
  /\ calm' = calm \ {n}
  /\ since' = IF open THEN [since EXCEPT ![n] = @ \cup {k}] ELSE since
  /\ shown' = IF open THEN [shown EXCEPT ![n] = @ \cup {k}] ELSE shown
  /\ UNCHANGED <<open, promise, answers>>

\* Caches catch up.
Fade ==
  /\ \E S \in SUBSET Names :
       shadows' = [n \in Names |-> IF n \in S THEN {} ELSE shadows[n]]
  /\ UNCHANGED <<world, callVars>>

Begin(p) ==
  /\ ~open /\ open' = TRUE /\ promise' = p /\ answers' = Silence
  /\ calm' = {n \in Names : p.confirms \/ shadows[n] = {}}
  /\ since' = [n \in Names |-> {world[n]}]
  /\ shown' = [n \in Names |-> {world[n]} \cup shadows[n]]
  /\ UNCHANGED <<world, shadows>>

\* What may be said of n: "missing" unless it has been there all along, and of what there
\* is or was nothing the call vouches not to say.
MaySay(n, a) ==
  \/ a = "missing" /\ (n \in calm => since[n] \cap Gone # {})
  \/ /\ a \in shown[n] \ Gone
     /\ a \in promise.rereads => since[n] # {"nothing"}
     /\ a = "bare" /\ promise.counts => since[n] \cap ({"bare"} \cup Gone) # {}

\* The call is answered, or given up.
End ==
  /\ open /\ open' = FALSE /\ promise' = NoPromise /\ calm' = {}
  /\ since' = Forgotten /\ shown' = Forgotten
  /\ answers' \in [Names -> {"none", "missing"} \cup (Kinds \ Gone)]
  /\ \A n \in Names : answers'[n] = "none" \/ MaySay(n, answers'[n])
  /\ UNCHANGED <<world, shadows>>

Next ==
  \/ \E n \in Names, k \in Kinds : Write(n, k)
  \/ \E p \in Promises : Begin(p)
  \/ Fade \/ End

Spec == Init /\ [][Next]_vars
=============================================================================
