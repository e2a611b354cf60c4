-------------------------------- MODULE Reset --------------------------------
(***************************************************************************)
(* reset: compare the whole fleet, refuse if anything in it is not         *)
(* forgelab's business, put every drifted repository back to its baseline, *)
(* wait, compare again.                                                    *)
(***************************************************************************)
EXTENDS Command

StartReset ==
  /\ cmd = "none"
  /\ IF LockHolds
     THEN /\ cmd' = "reset"
          /\ phase' = "survey"
          /\ task' = Each(Declared, "compare")
          /\ UNCHANGED <<forgeVars, diskVars, exit, result, change, state, faults>>
     ELSE Refuse

Rewinding(n) == IF state[n].dirty THEN "push" ELSE "settings"

\* A slip: an archived repository is not lifted first.
FirstRepairArchived(n) == Rewinding(n)

FirstRepair(n) == IF state[n].archived THEN "unarchive" ELSE Rewinding(n)

Drifted == {n \in Declared : state[n].drift}

\* Any guard failure, and nothing is reset; no drift, and there is nothing to.
StartRepairs ==
  /\ phase = "survey"
  /\ PhaseOver /\ AllWell
  /\ IF Verdict # "drift" THEN Finish(Verdict)
     ELSE /\ Enter("reset", [n \in Names |->
                               IF n \in Drifted THEN FirstRepair(n)
                               ELSE "done"])
          /\ UNCHANGED <<change, state>>
  /\ UNCHANGED <<forgeVars, diskVars, faults>>

LiftedForReset(n) == cmd = "reset" /\ Replied(n, "unarchiving", Rewinding(n))

\* reset_to_baseline: whatever the forge's baseline tag is at is fetched, and
\* pushed to the default branch and every declared tag.
Rewind(n) ==
  LET base == repo[n].tags[Baseline]
  IN /\ cmd = "reset"
     /\ IF base = NoCommit
        THEN /\ task[n] \in {"push", "push again"}
             /\ IF task[n] = "push" THEN Goes(n, "lift") ELSE Ends(n, "failed")
             /\ UNCHANGED <<forgeVars, diskVars, runVars, change, state, faults>>
        ELSE ForcePush(n, base, Want(n).tags)

RewindDone(n) ==
  /\ cmd = "reset" /\ task[n] = "pushed"
  /\ Goes(n, "wait")
  /\ UNCHANGED <<forgeVars, diskVars, runVars, change, state, faults>>

WaitRewound(n) ==
  /\ cmd = "reset" /\ task[n] = "wait"
  /\ visible[n] /\ Reports(Want(n), repo[n])
  /\ Goes(n, "settings")
  /\ UNCHANGED <<forgeVars, diskVars, runVars, change, state, faults>>

WaitRewoundTimesOut(n) == cmd = "reset" /\ task[n] = "wait" /\ GivesUp(n)

\* Visibility and default branch are written whether they drifted or not.
RestoreSettings(n) ==
  LET default == IF Want(n).empty THEN {} ELSE {Want(n).default}
      taken == Writable(n) /\ default \subseteq Has(repo[n].branches)
  IN /\ cmd = "reset" /\ task[n] = "settings"
     /\ IF taken
        THEN /\ ForgeReadsRow(n, IF HasVisibility THEN {Want(n).visibility}
                                 ELSE {}, default, {})
             /\ Goes(n, "saving")
        ELSE Ends(n, "failed") /\ UNCHANGED forgeVars
     /\ UNCHANGED <<diskVars, runVars, change, state, faults>>

SettingsRestored(n) == cmd = "reset" /\ Replied(n, "saving", "requests")

\* A slip: branches go before the requests that point at them.
SkipRequests(n) ==
  /\ task[n] = "requests"
  /\ Goes(n, "branches")
  /\ UNCHANGED <<forgeVars, state, diskVars, runVars, change, faults>>

\* What the comparison found is done away with one by one; `state` keeps what
\* is left to do.
CloseRequests(n) ==
  /\ task[n] = "requests"
  /\ \/ /\ state[n].requests = {}
        /\ Goes(n, "branches")
        /\ UNCHANGED <<forgeVars, state>>
     \/ \E b \in state[n].requests :
          /\ Writable(n)
          /\ Write(n, [repo[n] EXCEPT !.requests = @ \ {b}])
          /\ state' = [state EXCEPT ![n].requests = @ \ {b}]
          /\ UNCHANGED poolVars
     \/ /\ state[n].requests # {} /\ ~Writable(n)
        /\ Ends(n, "failed")
        /\ UNCHANGED <<forgeVars, state>>
  /\ UNCHANGED <<diskVars, runVars, change, faults>>

\* The forge keeps its default branch, one an open request points at, and one
\* that is protected (GitLab lets a maintainer delete that one, not with git).
Deletable(n, b) ==
  /\ Writable(n)
  /\ b # repo[n].default /\ b \notin repo[n].requests
  /\ AutoProtect \/ repo[n].protected[b] = "no"

DeleteBranches(n) ==
  /\ task[n] = "branches"
  /\ \/ /\ state[n].branches = {}
        /\ Goes(n, "tags")
        /\ UNCHANGED <<forgeVars, state>>
     \/ \E b \in state[n].branches :
          IF Deletable(n, b)
          THEN /\ Write(n, [repo[n] EXCEPT !.branches[b] = NoCommit])
               /\ state' = [state EXCEPT ![n].branches = @ \ {b}]
               /\ UNCHANGED poolVars
          ELSE Ends(n, "failed") /\ UNCHANGED <<forgeVars, state>>
  /\ UNCHANGED <<diskVars, runVars, change, faults>>

DeleteTags(n) ==
  /\ task[n] = "tags"
  /\ \/ /\ state[n].tags = {}
        /\ Goes(n, "topics")
        /\ UNCHANGED <<forgeVars, state>>
     \/ \E t \in state[n].tags :
          IF Writable(n)
          THEN /\ Write(n, [repo[n] EXCEPT !.tags[t] = NoCommit])
               /\ state' = [state EXCEPT ![n].tags = @ \ {t}]
               /\ UNCHANGED poolVars
          ELSE Ends(n, "failed") /\ UNCHANGED <<forgeVars, state>>
  /\ UNCHANGED <<diskVars, runVars, change, faults>>

\* A slip: topics are not put back.
ForgetTopics(n) ==
  /\ cmd = "reset" /\ task[n] = "topics"
  /\ Goes(n, "archive")
  /\ UNCHANGED <<forgeVars, diskVars, runVars, change, state, faults>>

RestoreTopics(n) ==
  /\ cmd = "reset" /\ task[n] = "topics"
  /\ \/ ~HasTopics /\ Goes(n, "archive") /\ UNCHANGED forgeVars
     \/ /\ HasTopics /\ Writable(n)
        /\ Write(n, [repo[n] EXCEPT !.topics = Want(n).topics])
        /\ Goes(n, "archive")
     \/ HasTopics /\ ~Writable(n) /\ Ends(n, "failed") /\ UNCHANGED forgeVars
  /\ UNCHANGED <<diskVars, runVars, change, state, faults>>

\* Only what was touched is waited for.
StartReady ==
  /\ phase = "reset"
  /\ PhaseOver /\ AllWell
  /\ Enter("ready", Each(Drifted, "await"))
  /\ UNCHANGED <<forgeVars, diskVars, change, state, faults>>

ResetTask(n) ==
  \/ LiftedForReset(n) \/ Rewind(n) \/ RewindDone(n) \/ WaitRewound(n)
  \/ WaitRewoundTimesOut(n) \/ RestoreSettings(n) \/ SettingsRestored(n)
  \/ CloseRequests(n) \/ DeleteBranches(n) \/ DeleteTags(n)
  \/ RestoreTopics(n)

ResetStep == StartRepairs \/ StartReady
=============================================================================
