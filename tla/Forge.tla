-------------------------------- MODULE Forge --------------------------------
(***************************************************************************)
(* One organisation on a forge, as far as forgelab's requests can tell:    *)
(* what stands under each declared name, what the API already answers for, *)
(* and what the forge still does in the background after a request has     *)
(* returned.  The forge itself is not part of the repository: its          *)
(* behaviour is taken from what the clients under forge/ and the comments  *)
(* beside their calls rely on.                                             *)
(***************************************************************************)
EXTENDS Repository, Naturals

CONSTANTS
  Names,        \* repository names
  Background,   \* a push returns before the API reflects it (Forgejo, GitLab)
  SavesRow,     \* a settings write saves the whole row it read (Forgejo)
  AutoProtect,  \* the default branch is protected on first push (GitLab)
  PartialPush,  \* a refused branch does not refuse the other refs of a push
  StaleReads    \* the API may answer 404 for what was just created

ASSUME ForgeAssumption ==
  {Background, SavesRow, AutoProtect, PartialPush, StaleReads} \subseteq BOOLEAN

VARIABLES
  owner,    \* owner[n]: who made what stands under n
  repo,     \* repo[n]: its contents (arbitrary while nobody holds n)
  visible,  \* visible[n]: the API answers for it
  patch     \* patch[n]: a settings write under way on the forge

forgeVars == <<owner, repo, visible, patch>>

\* A settings write.  `empty` is the row's flag as it was read when the
\* request began; the other fields are the ones asked for ({}: left alone).
Patches ==
  [busy : BOOLEAN, empty : BOOLEAN, visibility : SUBSET Visibilities,
   default : SUBSET Branches, archived : SUBSET BOOLEAN]

NoPatch == [busy |-> FALSE, empty |-> FALSE, visibility |-> {},
            default |-> {}, archived |-> {}]

ForgeTypeOK ==
  /\ owner \in [Names -> Owners]
  /\ repo \in [Names -> Repos]
  /\ visible \in [Names -> BOOLEAN]
  /\ patch \in [Names -> Patches]

-----------------------------------------------------------------------------
(* Answers *)

\* Forge::get and Forge::get_many: "missing" also for what the API does not
\* answer for yet.
Lookup(n) == IF visible[n] THEN owner[n] ELSE "nobody"

\* An archived repository rejects every write but the one that lifts it.
Writable(n) == owner[n] # "nobody" /\ ~repo[n].archived

-----------------------------------------------------------------------------
(* Requests that change something.  Each says what the forge does when it  *)
(* takes the request in; the caller checks first that it is taken.         *)

NewRepo(want, branch, topics) ==
  [visibility |-> want.visibility, topics |-> topics,
   archived |-> FALSE, default |-> branch, empty |-> TRUE, pending |-> FALSE,
   protected |-> [b \in Branches |-> "no"],
   branches |-> [b \in Branches |-> NoCommit],
   tags |-> [t \in AllTags |-> NoCommit], requests |-> {}]

\* POST: the marker goes on with the creation; the topics come after it, and
\* the forge may give it a default branch of its own.
ForgeCreates(n, want) ==
  /\ owner[n] = "nobody"
  /\ owner' = [owner EXCEPT ![n] = "forgelab"]
  /\ \E branch \in Branches, topics \in Topics :
       repo' = [repo EXCEPT ![n] = NewRepo(want, branch, topics)]
  /\ \E seen \in {TRUE, ~StaleReads} : visible' = [visible EXCEPT ![n] = seen]
  /\ UNCHANGED patch

\* What a first push brings about.  Where the forge protects the default branch,
\* the first branch pushed is that, unless it has been created since.
Begun(r) ==
  LET default == IF ~AutoProtect \/ r.default \in Has(r.branches)
                      \/ Has(r.branches) = {}
                 THEN r.default ELSE CHOOSE b \in Has(r.branches) : TRUE
  IN [r EXCEPT !.empty = FALSE, !.default = default,
               !.protected[default] = IF AutoProtect THEN "yes" ELSE @]

\* A push: git has the new refs at once, the API has them later.  One that
\* changes no ref is not processed at all.
Pushed(r, branches, tags) ==
  LET s == [r EXCEPT !.branches = branches, !.tags = tags]
  IN IF branches = r.branches /\ tags = r.tags THEN r
     ELSE IF Background THEN [s EXCEPT !.pending = TRUE]
     ELSE IF r.empty THEN Begun(s) ELSE s

\* allow_force_push.  GitLab's client installs a rule even where there is none.
Relaxed(r, b) ==
  [r EXCEPT !.protected[b] =
     IF AutoProtect \/ @ # "no" THEN "relaxed" ELSE "no"]

\* The push of commit `c` to `branch` and to `tags`.
PushRefs(r, c, branch, tags) ==
  Pushed(r, [r.branches EXCEPT ![branch] = c],
         [t \in AllTags |-> IF t \in tags THEN c ELSE r.tags[t]])

\* A push refused at a protected branch: nothing lands, or only the tags do.
PushTags(r, c, tags) ==
  Pushed(r, r.branches, [t \in AllTags |-> IF t \in tags THEN c ELSE r.tags[t]])

\* PATCH: the whole row is read now and saved by ForgeSaves.  One at a time
\* per repository: a second one waits for the first.
ForgeReadsRow(n, visibility, default, archived) ==
  /\ ~patch[n].busy
  /\ patch' = [patch EXCEPT ![n] =
                 [busy |-> TRUE, empty |-> repo[n].empty,
                  visibility |-> visibility, default |-> default,
                  archived |-> archived]]
  /\ UNCHANGED <<owner, repo, visible>>

Asked(value, wish) == IF wish = {} THEN value ELSE CHOOSE w \in wish : TRUE

-----------------------------------------------------------------------------
(* What the forge does by itself *)

\* The row is saved: on Forgejo `empty` too, as it was read when the PATCH began.
\* GitLab's client relaxes the default branch it has set in the same call.
Saved(n) ==
  LET r == repo[n]
      default == Asked(r.default, patch[n].default)
      s == [r EXCEPT
              !.visibility = Asked(r.visibility, patch[n].visibility),
              !.default = default,
              !.archived = Asked(r.archived, patch[n].archived),
              !.empty = IF SavesRow THEN patch[n].empty ELSE r.empty]
  IN IF AutoProtect /\ patch[n].default # {} THEN Relaxed(s, default) ELSE s

ForgeSaves(n) ==
  /\ patch[n].busy
  /\ repo' = [repo EXCEPT ![n] = Saved(n)]
  /\ patch' = [patch EXCEPT ![n] = NoPatch]
  /\ UNCHANGED <<owner, visible>>

\* A push is applied: listings show it, and the first one clears `empty`.
ForgeReflects(n) ==
  /\ repo[n].pending
  /\ LET r == [repo[n] EXCEPT !.pending = FALSE]
     IN repo' = [repo EXCEPT ![n] = IF r.empty THEN Begun(r) ELSE r]
  /\ UNCHANGED <<owner, visible, patch>>

\* A cache catches up.
ForgeAnswers(n) ==
  /\ ~visible[n]
  /\ visible' = [visible EXCEPT ![n] = TRUE]
  /\ UNCHANGED <<owner, repo, patch>>

ForgeStep(n) == ForgeSaves(n) \/ ForgeReflects(n) \/ ForgeAnswers(n)
=============================================================================
