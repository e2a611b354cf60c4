---------------------------- MODULE DestroyProofs ----------------------------
(*************************************************************************)
(* destroy and apply leave what others made alone; however many tasks    *)
(* need a namespace it is made once, and is there while the client       *)
(* remembers it; and a command that ends well has done what it was to    *)
(* do -- for any tree of namespaces, any number of tasks, of failures    *)
(* and of edits.                                                         *)
(*************************************************************************)
EXTENDS Destroy, SequenceTheorems, TLAPS

Names == Seq(STRING)

-----------------------------------------------------------------------------
(* Namespaces and those they are in *)

LEMMA PrefixIs ==
  ASSUME NEW s \in Names, NEW l \in 0 .. Len(s)
  PROVE  /\ SubSeq(s, 1, l) \in Names /\ Len(SubSeq(s, 1, l)) = l
         /\ \A i \in 1 .. l : SubSeq(s, 1, l)[i] = s[i]
<1>1. \A i \in 1 .. l : s[i] \in STRING
  BY DEF Names
<1> QED BY <1>1, SubSeqProperties DEF Names

LEMMA PrefixOf ==
  ASSUME NEW s \in Names, NEW p \in Prefixes(s)
  PROVE  /\ p \in Names /\ Len(p) \in 0 .. Len(s) /\ p = SubSeq(s, 1, Len(p))
         /\ \A i \in 1 .. Len(p) : p[i] = s[i]
<1>1. PICK l \in 0 .. Len(s) : p = SubSeq(s, 1, l)
  BY DEF Prefixes
<1> QED BY <1>1, PrefixIs

LEMMA ItselfPrefix ==
  ASSUME NEW s \in Names
  PROVE  s \in Prefixes(s) /\ Top \in Prefixes(s)
<1>1. Len(s) \in 0 .. Len(s) /\ 0 \in 0 .. Len(s)
  BY DEF Names
<1>2. s = SubSeq(s, 1, Len(s))
  BY SubSeqFull DEF Names
<1>3. Top = SubSeq(s, 1, 0)
  BY SubSeqEmpty DEF Top
<1> QED BY <1>1, <1>2, <1>3 DEF Prefixes

LEMMA PrefixOfPrefix ==
  ASSUME NEW s \in Names, NEW p \in Prefixes(s), NEW q \in Prefixes(p)
  PROVE  q \in Prefixes(s)
<1>1. p \in Names /\ Len(p) \in 0 .. Len(s) /\ \A i \in 1 .. Len(p) : p[i] = s[i]
  BY PrefixOf
<1>2. q \in Names /\ Len(q) \in 0 .. Len(p) /\ \A i \in 1 .. Len(q) : q[i] = p[i]
  BY <1>1, PrefixOf
<1>3. Len(q) \in 0 .. Len(s) /\ \A i \in 1 .. Len(q) : q[i] = s[i]
  BY <1>1, <1>2 DEF Names
<1>4. q = SubSeq(s, 1, Len(q))
  BY <1>2, <1>3, PrefixIs, SeqEqual DEF Names
<1> QED BY <1>3, <1>4 DEF Prefixes

LEMMA SameLength ==
  ASSUME NEW s \in Names, NEW p \in Prefixes(s), NEW q \in Prefixes(s), Len(p) = Len(q)
  PROVE  p = q
BY PrefixOf

\* The namespace a namespace is in.
LEMMA FrontIs ==
  ASSUME NEW s \in Names, NEW p \in Prefixes(s)
  PROVE  /\ Front(p) \in Prefixes(s)
         /\ p # Top => Len(Front(p)) = Len(p) - 1
         /\ p = Top => Front(p) = Top
         /\ Prefixes(p) = {p} \cup Prefixes(Front(p))
<1>1. p \in Names /\ Len(p) \in 0 .. Len(s)
  BY PrefixOf
<1>2. CASE p = Top
  <2>1. Len(p) = 0
    BY <1>2 DEF Top
  <2>2. Front(p) = Top
    BY <1>2, <2>1, SubSeqEmpty DEF Front, Top
  <2>3. p \in Prefixes(p)
    BY <1>1, ItselfPrefix
  <2> QED BY <1>2, <2>2, <2>3
<1>3. CASE p # Top
  <2>1. Len(p) > 0
    BY <1>1, <1>3, EmptySeq DEF Names, Top
  <2>2. Len(p) - 1 \in 0 .. Len(p)
    BY <1>1, <2>1
  <2>3. Front(p) \in Prefixes(p) /\ Len(Front(p)) = Len(p) - 1
    BY <1>1, <2>2, PrefixIs DEF Front, Prefixes
  <2>4. Front(p) \in Prefixes(s)
    BY <2>3, PrefixOfPrefix
  <2>5. ASSUME NEW q \in Prefixes(p) PROVE q = p \/ q \in Prefixes(Front(p))
    <3>1. q \in Names /\ Len(q) \in 0 .. Len(p) /\ \A i \in 1 .. Len(q) : q[i] = p[i]
      BY <1>1, PrefixOf
    <3>2. CASE Len(q) = Len(p)
      BY <1>1, <3>2, ItselfPrefix, SameLength
    <3>3. CASE Len(q) # Len(p)
      <4>1. Front(p) \in Names /\ \A i \in 1 .. Len(p) - 1 : Front(p)[i] = p[i]
        BY <1>1, <2>2, PrefixIs DEF Front
      <4>2. Len(q) \in 0 .. Len(Front(p)) /\ \A i \in 1 .. Len(q) : Front(p)[i] = q[i]
        BY <1>1, <2>3, <3>1, <3>3, <4>1
      <4>3. q = SubSeq(Front(p), 1, Len(q))
        BY <3>1, <4>1, <4>2, PrefixIs, SeqEqual DEF Names
      <4> QED BY <4>2, <4>3 DEF Prefixes
    <3> QED BY <3>2, <3>3
  <2>6. ASSUME NEW q \in Prefixes(Front(p)) PROVE q \in Prefixes(p)
    BY <1>1, <2>3, PrefixOfPrefix
  <2> QED BY <1>1, <1>3, <2>3, <2>4, <2>5, <2>6, ItselfPrefix
<1> QED BY <1>2, <1>3

\* The next one on the way to s.
LEMMA NextIs ==
  ASSUME NEW s \in Names, NEW p \in Prefixes(s), p # s
  PROVE  LET q == SubSeq(s, 1, Len(p) + 1) IN
         q \in Prefixes(s) /\ Len(q) = Len(p) + 1 /\ Front(q) = p
<1> DEFINE q == SubSeq(s, 1, Len(p) + 1)
<1>1. p \in Names /\ Len(p) \in 0 .. Len(s) /\ p = SubSeq(s, 1, Len(p))
  BY PrefixOf
<1>2. Len(p) # Len(s)
  BY ItselfPrefix, SameLength
<1>3. Len(p) + 1 \in 0 .. Len(s)
  BY <1>1, <1>2 DEF Names
<1>4. q \in Prefixes(s) /\ Len(q) = Len(p) + 1
  BY <1>3, PrefixIs DEF Prefixes
<1> HIDE DEF q
<1>5. q # Top /\ q \in Names
  BY <1>1, <1>4, PrefixOf DEF Top
<1>6. Front(q) \in Prefixes(s) /\ Len(Front(q)) = Len(p)
  BY <1>1, <1>4, <1>5, FrontIs
<1>7. Front(q) = p
  BY <1>6, SameLength
<1> QED BY <1>4, <1>7 DEF q
LEMMA HomeIs ==
  ASSUME NEW r \in Repos
  PROVE  Home[r] \in Names /\ Prefixes(Home[r]) \subseteq Places
BY NamespacesAssumption DEF Places, Names

LEMMA PlacesAre == Places \subseteq Names /\ Top \in Places
<1>1. Top \in Names
  BY DEF Top, Names
<1>2. \A r \in Repos : Prefixes(Home[r]) \subseteq Names
  BY HomeIs, PrefixOf
<1> QED BY <1>1, <1>2 DEF Places

\* What a name lands in is a namespace, with all those it is in.
LEMMA LandIs ==
  ASSUME NEW r \in Repos
  PROVE  Land(r) \in Names /\ Land(r) \in Places /\ Prefixes(Land(r)) \subseteq Places
<1>1. Home[r] \in Names /\ Prefixes(Home[r]) \subseteq Places
  BY HomeIs
<1>2. Land(r) \in Prefixes(Home[r])
  <2>1. CASE forge = "gitlab" \/ Home[r] = Top
    BY <1>1, <2>1, ItselfPrefix DEF Land
  <2>2. CASE ~(forge = "gitlab" \/ Home[r] = Top)
    <3>1. Len(Home[r]) > 0 /\ Len(Home[r]) \in Nat
      BY <1>1, <2>2, EmptySeq DEF Names, Top
    <3>2. 1 \in 0 .. Len(Home[r])
      BY <3>1
    <3>3. /\ SubSeq(Home[r], 1, 1) \in Names /\ Len(SubSeq(Home[r], 1, 1)) = 1
          /\ SubSeq(Home[r], 1, 1)[1] = Home[r][1]
      BY <1>1, <3>2, PrefixIs
    <3>4. Head(Home[r]) = Home[r][1] /\ Head(Home[r]) \in STRING
      BY <1>1, <3>1 DEF Names
    <3>5. <<Head(Home[r])>> = SubSeq(Home[r], 1, 1)
      BY <3>3, <3>4, SeqEqual DEF Names
    <3>6. SubSeq(Home[r], 1, 1) \in Prefixes(Home[r])
      BY <3>2 DEF Prefixes
    <3> QED BY <2>2, <3>5, <3>6 DEF Land
  <2> QED BY <2>1, <2>2
<1>3. Land(r) \in Names /\ Prefixes(Land(r)) \subseteq Prefixes(Home[r])
  BY <1>1, <1>2, PrefixOf, PrefixOfPrefix
<1> QED BY <1>1, <1>2, <1>3

LEMMA AroundIs ==
  ASSUME NEW n \in Places
  PROVE  /\ n \in Around(n) /\ Around(n) \subseteq Places
         /\ \A m \in Around(n) : Around(m) \subseteq Around(n)
<1>1. n \in Names /\ Top \in Places
  BY PlacesAre
<1>2. Prefixes(n) \subseteq Places
  <2>1. CASE n = Top
    <3>1. Len(n) = 0
      BY <2>1 DEF Top
    <3> QED BY <1>1, <2>1, <3>1, PrefixOf, ItselfPrefix, SameLength
  <2>2. CASE \E r \in Repos : n \in Prefixes(Home[r])
    BY <2>2, HomeIs, PrefixOfPrefix
  <2> QED BY <2>1, <2>2 DEF Places
<1> QED BY <1>1, <1>2, ItselfPrefix, PrefixOfPrefix, PrefixOf DEF Around
-----------------------------------------------------------------------------
(* The invariant *)

\* A task at one of these holds the namespace it is about.
Making == {"fetch", "purge", "gone", "post", "turn", "make", "again"}

CreateStages == Making \cup {"resolve", "create", "check"}

DeleteStages == {"look", "enable", "drop", "readback", "bury"}

\* What a task holds: the namespace it is about, and those it came from.
HeldBy(r) ==
  /\ task[r] \in Making => holder[at[r]] = r
  /\ task[r] \in Making \cup {"resolve"} =>
       /\ at[r] \in Prefixes(Land(r))
       /\ \A m \in Prefixes(Land(r)) : Len(m) > Len(at[r]) => holder[m] = r
  /\ task[r] = "check" => at[r] = Land(r)

\* Whose tasks run when, and that they are about what is forgelab's.
Staged(r) ==
  /\ task[r] \in CreateStages => phase = "creating"
  /\ task[r] \in DeleteStages =>
       /\ phase \in {"asking", "deleting"} /\ r \in Fleet
       /\ forge = "gitlab" => repo[r] # "foreign"

\* Only what is going, or gone, is removed on apply's way.
InTheWay(r) == task[r] = "purge" => Says(at[r]) # "there"

\* A repository is somewhere.
Somewhere(r) == repo[r] # "none" => group[Land(r)] # "none"

\* What destroy removes it may.
Condemned ==
  /\ todo \subseteq Doomed
  /\ step # "idle" => phase = "removing" /\ doing \in todo
  /\ step \in {"drop", "purge"} => doing \in marked \/ group[doing] = "none"

IInv ==
  /\ TypeOK /\ Condemned
  /\ \A r \in Repos : HeldBy(r) /\ Staged(r) /\ InTheWay(r) /\ Somewhere(r)

-----------------------------------------------------------------------------
(* Apply: what its tasks hold *)

ForgeType ==
  /\ group \in [Places -> {"none", "there", "scheduled", "going"}]
  /\ marked \subseteq Places
  /\ repo \in [Repos -> {"none", "ours", "foreign", "disabled"}]
  /\ ghosts \subseteq Repos

Stages == {"idle", "resolve", "turn", "look", "enable", "drop", "readback", "bury",
           "done", "failed"} \cup Asking

ClientType ==
  /\ task \in [Repos -> Stages]
  /\ at \in [Repos -> Places] /\ known \subseteq Places
  /\ holder \in [Places -> Repos \cup {NoOne}] /\ turn \in Repos \cup {NoOne}
  /\ tries \in [Repos -> 1 .. Attempts]
  /\ faults \in 0 .. MaxFaults

\* What another task holds it keeps, and what it is at; one that is through is at nothing.
Apart(r) ==
  /\ \A x \in Repos \ {r} : task'[x] = task[x] /\ at'[x] = at[x]
  /\ \A m \in Places : holder[m] \notin {r, NoOne} => holder'[m] = holder[m]
  /\ task'[r] \in CreateStages \cup {"done", "failed"}

\* A step of the task of r in the middle of which the forge stays as it is.
MoveOn(r, s) ==
  /\ Goto(r, s) /\ UNCHANGED <<at, known, holder, turn>>

LEMMA ForgeAndClient ==
  ASSUME IInv
  PROVE  ForgeType /\ ClientType /\ forge \in Forges
BY DEF IInv, TypeOK, NamespacesTypeOK, ForgeType, ClientType, Stages

LEMMA HeldIs ==
  ASSUME IInv, NEW r \in Repos, task[r] \in Making
  PROVE  at[r] \in Places /\ holder[at[r]] = r
BY DEF IInv, HeldBy, TypeOK, NamespacesTypeOK

LEMMA MoveOnHolds ==
  ASSUME IInv, NEW r \in Repos, task[r] \in Making, UNCHANGED forge,
         NEW s \in Making, MoveOn(r, s)
  PROVE  Apart(r) /\ HeldBy(r)' /\ task' \in [Repos -> Stages]
<1>1. task'[r] = s /\ (\A x \in Repos \ {r} : task'[x] = task[x]) /\ task' \in [Repos -> Stages]
  BY DEF MoveOn, Goto, IInv, TypeOK, NamespacesTypeOK, Stages, Making, Asking
<1>2. Land(r)' = Land(r)
  BY DEF Land
<1> QED BY <1>1, <1>2 DEF MoveOn, Apart, IInv, HeldBy, CreateStages, Making

LEMMA ParentHolds ==
  ASSUME IInv, NEW r \in Repos, task[r] \in Making, UNCHANGED <<forge, known, holder, turn>>,
         ParentOf(r, at[r])
  PROVE  /\ Apart(r) /\ HeldBy(r)' /\ task'[r] = "resolve"
         /\ task' \in [Repos -> Stages] /\ at' \in [Repos -> Places]
<1>1. /\ Land(r)' = Land(r) /\ Land(r) \in Names /\ Prefixes(Land(r)) \subseteq Places
      /\ at[r] \in Prefixes(Land(r)) /\ holder[at[r]] = r
      /\ \A m \in Prefixes(Land(r)) : Len(m) > Len(at[r]) => holder[m] = r
  BY LandIs DEF Land, IInv, HeldBy
<1>2. /\ Front(at[r]) \in Prefixes(Land(r))
      /\ at[r] # Top => Len(Front(at[r])) = Len(at[r]) - 1
      /\ at[r] = Top => Front(at[r]) = Top
  BY <1>1, FrontIs
<1>3. /\ task' \in [Repos -> Stages] /\ at' \in [Repos -> Places]
      /\ task'[r] = "resolve" /\ at'[r] = Front(at[r])
      /\ \A x \in Repos \ {r} : task'[x] = task[x] /\ at'[x] = at[x]
  BY <1>1, <1>2 DEF ParentOf, Goto, IInv, TypeOK, NamespacesTypeOK, Stages, Asking
<1>4. ASSUME NEW m \in Prefixes(Land(r)), Len(m) > Len(Front(at[r])) PROVE holder[m] = r
  <2>1. Len(m) \in Nat /\ Len(at[r]) \in Nat
    BY <1>1, PrefixOf
  <2>2. CASE Len(m) = Len(at[r])
    BY <1>1, <2>2, SameLength
  <2>3. CASE Len(m) # Len(at[r])
    BY <1>1, <1>2, <1>4, <2>1, <2>3
  <2> QED BY <2>2, <2>3
<1> QED BY <1>1, <1>2, <1>3, <1>4 DEF Apart, HeldBy, Making, CreateStages

\* A namespace is known now, and the next one is held already.
LEMMA ProceedHolds ==
  ASSUME IInv, NEW r \in Repos, task[r] \in Making \cup {"resolve"}, UNCHANGED forge,
         Proceed(r, at[r]),
         \A m \in Places : holder[m] \notin {r, NoOne} => holder'[m] = holder[m],
         \A m \in Places \ {at[r]} : holder[m] = r => holder'[m] = r
  PROVE  /\ Apart(r) /\ HeldBy(r)' /\ task'[r] \in {"create", "post"}
         /\ task' \in [Repos -> Stages] /\ at' \in [Repos -> Places]
<1>1. /\ Land(r)' = Land(r) /\ Land(r) \in Names /\ Prefixes(Land(r)) \subseteq Places
      /\ at[r] \in Prefixes(Land(r))
      /\ \A m \in Prefixes(Land(r)) : Len(m) > Len(at[r]) => holder[m] = r
  BY LandIs DEF Land, IInv, HeldBy
<1>2. CASE at[r] = Land(r)
  <2>1. /\ task' \in [Repos -> Stages] /\ at' = at /\ task'[r] = "create"
        /\ \A x \in Repos \ {r} : task'[x] = task[x]
    BY <1>2 DEF Proceed, Goto, IInv, TypeOK, NamespacesTypeOK, Stages, Asking
  <2> QED BY <2>1 DEF Apart, HeldBy, Making, CreateStages, IInv, TypeOK, NamespacesTypeOK
<1>3. CASE at[r] # Land(r)
  <2> DEFINE n == SubSeq(Land(r), 1, Len(at[r]) + 1)
  <2>1. n \in Prefixes(Land(r)) /\ Len(n) = Len(at[r]) + 1
    BY <1>1, <1>3, NextIs
  <2>2. Goto(r, "post") /\ at' = [at EXCEPT ![r] = n]
    BY <1>3 DEF Proceed
  <2> HIDE DEF n
  <2>3. /\ task' \in [Repos -> Stages] /\ at' \in [Repos -> Places]
        /\ task'[r] = "post" /\ at'[r] = n
        /\ \A x \in Repos \ {r} : task'[x] = task[x] /\ at'[x] = at[x]
    BY <1>1, <2>1, <2>2 DEF Goto, IInv, TypeOK, NamespacesTypeOK, Stages, Asking
  <2>4. ASSUME NEW m \in Prefixes(Land(r)), Len(m) >= Len(n) PROVE holder'[m] = r
    <3>1. Len(m) \in Nat /\ Len(at[r]) \in Nat
      BY <1>1, PrefixOf
    <3>2. holder[m] = r /\ m # at[r] /\ m \in Places
      BY <1>1, <2>1, <2>4, <3>1
    <3> QED BY <3>2
  <2>5. \A m \in Prefixes(Land(r)) : Len(m) \in Nat
    BY <1>1, PrefixOf
  <2> QED BY <1>1, <2>1, <2>3, <2>4, <2>5 DEF Apart, HeldBy, Making, CreateStages
<1> QED BY <1>2, <1>3

LEMMA LearnHolds ==
  ASSUME IInv, NEW r \in Repos, task[r] \in Making, UNCHANGED forge, Learn(r, at[r])
  PROVE  /\ Apart(r) /\ HeldBy(r)' /\ task'[r] \in {"create", "post"}
         /\ task' \in [Repos -> Stages] /\ at' \in [Repos -> Places]
         /\ known' \subseteq Places /\ turn' \in Repos \cup {NoOne}
         /\ holder' \in [Places -> Repos \cup {NoOne}]
<1>1. at[r] \in Places /\ holder[at[r]] = r /\ holder' = [holder EXCEPT ![at[r]] = NoOne]
  BY HeldIs DEF Learn
<1>2. /\ \A m \in Places : holder[m] \notin {r, NoOne} => holder'[m] = holder[m]
      /\ \A m \in Places \ {at[r]} : holder[m] = r => holder'[m] = r
      /\ holder' \in [Places -> Repos \cup {NoOne}]
  BY <1>1 DEF IInv, TypeOK, NamespacesTypeOK
<1>3. known' \subseteq Places /\ turn' \in Repos \cup {NoOne} /\ Proceed(r, at[r])
  BY <1>1 DEF Learn, IInv, TypeOK, NamespacesTypeOK
<1> QED BY <1>2, <1>3, ProceedHolds

LEMMA UnwindHolds ==
  ASSUME IInv, NEW r \in Repos, UNCHANGED forge, NEW s \in {"failed", "check"}, Unwind(r, s)
  PROVE  /\ Apart(r) /\ HeldBy(r)' /\ task'[r] = s
         /\ task' \in [Repos -> Stages] /\ at' \in [Repos -> Places]
         /\ known' \subseteq Places /\ turn' \in Repos \cup {NoOne}
         /\ holder' \in [Places -> Repos \cup {NoOne}]
<1>1. Land(r)' = Land(r) /\ Land(r) \in Places
  BY LandIs DEF Land
<1>2. /\ task' \in [Repos -> Stages] /\ at' \in [Repos -> Places]
      /\ task'[r] = s /\ at'[r] = Land(r)
      /\ \A x \in Repos \ {r} : task'[x] = task[x] /\ at'[x] = at[x]
  BY <1>1 DEF Unwind, Goto, IInv, TypeOK, NamespacesTypeOK, Stages, Asking
<1>3. /\ holder' \in [Places -> Repos \cup {NoOne}]
      /\ \A m \in Places : holder[m] \notin {r, NoOne} => holder'[m] = holder[m]
  BY DEF Unwind, IInv, TypeOK, NamespacesTypeOK
<1>4. known' \subseteq Places /\ turn' \in Repos \cup {NoOne}
  BY DEF Unwind, IInv, TypeOK, NamespacesTypeOK
<1> QED BY <1>1, <1>2, <1>3, <1>4 DEF Apart, HeldBy, Making, CreateStages
\* What a task of apply does to the forge.
Effect(r) ==
  \/ UNCHANGED forgeVars
  \/ task[r] \in {"post", "make"} /\ MakeGroup(at[r])
  \/ task[r] = "purge" /\ AskToPurge(at[r])
  \/ /\ task[r] = "create" /\ repo[r] = "none" /\ Says(Land(r)) = "there"
     /\ repo' = [repo EXCEPT ![r] = "ours"] /\ UNCHANGED <<group, marked, ghosts>>

LEMMA CreatingIs ==
  ASSUME IInv, NEW r \in Repos, Creating(r)
  PROVE  /\ UNCHANGED forge /\ task[r] \in CreateStages
         /\ ClientType' /\ Apart(r) /\ HeldBy(r)' /\ Effect(r)
         /\ task'[r] = "purge" =>
              Says(at[r]) = "leaving" /\ at'[r] = at[r] /\ UNCHANGED forgeVars
<1> USE DEF Making, CreateStages
<1>1. ClientType /\ NoOne \notin Repos
  BY ForgeAndClient, NamespacesAssumption
<1>2. CASE Resolve(r)
  <2>1. CASE at[r] \in known /\ Proceed(r, at[r]) /\ UNCHANGED holder
    BY <1>1, <1>2, <2>1, ProceedHolds DEF Resolve, ClientType, Effect
  <2>2. CASE Free(at[r]) /\ holder' = [holder EXCEPT ![at[r]] = r] /\ Goto(r, "fetch")
             /\ UNCHANGED at
    <3>1. /\ task' \in [Repos -> Stages] /\ task'[r] = "fetch"
          /\ \A x \in Repos \ {r} : task'[x] = task[x]
      BY <1>1, <2>2 DEF Goto, ClientType, Stages, Asking
    <3>2. /\ holder' \in [Places -> Repos \cup {NoOne}] /\ holder'[at[r]] = r
          /\ \A m \in Places \ {at[r]} : holder'[m] = holder[m]
          /\ holder[at[r]] = NoOne
      BY <1>1, <2>2 DEF ClientType, Free
    <3>3. /\ Land(r)' = Land(r) /\ Prefixes(Land(r)) \subseteq Places
      BY <1>2, LandIs DEF Resolve, Land
    <3>4. HeldBy(r)'
      BY <1>2, <2>2, <3>1, <3>2, <3>3 DEF Resolve, IInv, HeldBy
    <3> QED BY <1>1, <1>2, <2>2, <3>1, <3>2, <3>4 DEF Resolve, ClientType, Effect, Apart
  <2> QED BY <1>2, <2>1, <2>2 DEF Resolve
<1>3. CASE Fetch(r)
  <2>1. CASE Learn(r, at[r])
    BY <1>1, <1>3, <2>1, LearnHolds DEF Fetch, ClientType, Effect
  <2>2. CASE ParentOf(r, at[r]) /\ UNCHANGED <<known, holder, turn>>
    BY <1>1, <1>3, <2>2, ParentHolds DEF Fetch, ClientType, Effect
  <2>3. CASE Says(at[r]) = "leaving" /\ MoveOn(r, "purge")
    BY <1>1, <1>3, <2>3, MoveOnHolds DEF Fetch, ClientType, Effect, MoveOn
  <2>4. CASE MoveOn(r, "turn")
    <3>1. task'[r] # "purge"
      BY <1>1, <2>4 DEF MoveOn, Goto, ClientType
    <3> QED BY <1>1, <1>3, <2>4, <3>1, MoveOnHolds DEF Fetch, ClientType, Effect, MoveOn
  <2> QED BY <1>3, <2>1, <2>2, <2>3, <2>4 DEF Fetch, MoveOn
<1>4. CASE Purge(r)
  <2>1. MoveOn(r, "gone") /\ UNCHANGED <<forge, tries, faults>> /\ AskToPurge(at[r])
    BY <1>4 DEF Purge, MoveOn, cellVars
  <2>2. task'[r] # "purge"
    BY <1>1, <2>1 DEF MoveOn, Goto, ClientType
  <2> QED BY <1>1, <1>4, <2>1, <2>2, MoveOnHolds DEF Purge, ClientType, Effect, MoveOn
<1>5. CASE AwaitGone(r)
  <2>1. CASE ParentOf(r, at[r]) /\ UNCHANGED <<known, holder, turn>>
    BY <1>1, <1>5, <2>1, ParentHolds DEF AwaitGone, ClientType, Effect
  <2>2. CASE GiveUp(r)
    BY <1>1, <1>5, <2>2, UnwindHolds DEF AwaitGone, ClientType, Effect, GiveUp
  <2> QED BY <1>5, <2>1, <2>2 DEF AwaitGone
<1>6. CASE Post(r)
  <2>1. CASE MakeGroup(at[r]) /\ Learn(r, at[r])
    BY <1>1, <1>6, <2>1, LearnHolds DEF Post, ClientType, Effect
  <2>2. CASE GiveUp(r) /\ UNCHANGED forgeVars
    BY <1>1, <1>6, <2>2, UnwindHolds DEF Post, ClientType, Effect, GiveUp
  <2> QED BY <1>6, <2>1, <2>2 DEF Post
<1>7. CASE Turn(r)
  <2>1. /\ task'[r] = "make" /\ (\A x \in Repos \ {r} : task'[x] = task[x])
        /\ task' \in [Repos -> Stages] /\ tries' \in [Repos -> 1 .. Attempts]
    BY <1>1, <1>7, NamespacesAssumption DEF Turn, Goto, ClientType, Stages, Asking
  <2>2. Land(r)' = Land(r)
    BY <1>7 DEF Turn, Land
  <2>3. HeldBy(r)'
    BY <1>7, <2>1, <2>2 DEF Turn, IInv, HeldBy
  <2> QED BY <1>1, <1>7, <2>1, <2>3 DEF Turn, ClientType, Effect, Apart
<1>8. CASE Make(r)
  <2>1. CASE MakeGroup(at[r]) /\ Learn(r, at[r])
    BY <1>1, <1>8, <2>1, LearnHolds DEF Make, ClientType, Effect
  <2>2. CASE GiveUp(r) /\ UNCHANGED forgeVars
    BY <1>1, <1>8, <2>2, UnwindHolds DEF Make, ClientType, Effect, GiveUp
  <2> QED BY <1>8, <2>1, <2>2 DEF Make
<1>9. CASE MakeFails(r)
  <2>1. Effect(r) /\ faults' \in 0 .. MaxFaults /\ UNCHANGED forge /\ task[r] = "make"
    BY <1>1, <1>9, NamespacesAssumption DEF MakeFails, Effect, ClientType
  <2>2. CASE tries[r] < Attempts /\ tries' = [tries EXCEPT ![r] = @ + 1] /\ MoveOn(r, "again")
    <3>1. tries' \in [Repos -> 1 .. Attempts]
      BY <1>1, <2>2, NamespacesAssumption DEF ClientType
    <3>2. task'[r] # "purge"
      BY <1>1, <2>2 DEF MoveOn, Goto, ClientType
    <3> QED BY <1>1, <2>1, <2>2, <3>1, <3>2, MoveOnHolds DEF ClientType, MoveOn
  <2>3. CASE GiveUp(r) /\ UNCHANGED tries
    BY <1>1, <2>1, <2>3, UnwindHolds DEF ClientType, GiveUp
  <2> QED BY <1>9, <2>2, <2>3 DEF MakeFails, MoveOn
<1>10. CASE Again(r)
  <2>1. CASE Learn(r, at[r])
    BY <1>1, <1>10, <2>1, LearnHolds DEF Again, ClientType, Effect
  <2>2. CASE MoveOn(r, "make")
    <3>1. task'[r] # "purge"
      BY <1>1, <2>2 DEF MoveOn, Goto, ClientType
    <3> QED BY <1>1, <1>10, <2>2, <3>1, MoveOnHolds DEF Again, ClientType, Effect, MoveOn
  <2> QED BY <1>10, <2>1, <2>2 DEF Again, MoveOn
<1>11. CASE Create(r)
  <2>1. CASE Goto(r, "done") /\ UNCHANGED <<at, known, holder, turn>>
    <3>1. /\ task'[r] = "done" /\ (\A x \in Repos \ {r} : task'[x] = task[x])
          /\ task' \in [Repos -> Stages]
      BY <1>1, <2>1 DEF Goto, ClientType, Stages, Asking
    <3>2. Effect(r) /\ UNCHANGED <<forge, tries, faults>> /\ task[r] \in CreateStages
      BY <1>11 DEF Create, Effect, forgeVars
    <3>3. HeldBy(r)'
      BY <3>1 DEF HeldBy
    <3> QED BY <1>1, <2>1, <3>1, <3>2, <3>3 DEF ClientType, Apart
  <2>2. CASE GiveUp(r)
    BY <1>1, <1>11, <2>2, UnwindHolds DEF Create, ClientType, Effect, GiveUp, forgeVars, Goto
  <2> QED BY <1>11, <2>1, <2>2 DEF Create
<1>12. CASE CreateFails(r)
  <2>1. /\ Effect(r) /\ faults' \in 0 .. MaxFaults /\ UNCHANGED <<forge, tries>>
        /\ task[r] \in CreateStages
    BY <1>1, <1>12, NamespacesAssumption DEF CreateFails, Effect, ClientType, Asking
  <2>2. PICK s \in {"failed", "check"} : Unwind(r, s)
    BY <1>12 DEF CreateFails, GiveUp
  <2> QED BY <1>1, <2>1, <2>2, UnwindHolds DEF ClientType
<1>13. CASE Check(r)
  <2>1. PICK s \in {"done", "resolve"} : Goto(r, s)
    BY <1>13 DEF Check
  <2>2. /\ task'[r] = s /\ (\A x \in Repos \ {r} : task'[x] = task[x])
        /\ task' \in [Repos -> Stages]
    BY <1>1, <2>1 DEF Goto, ClientType, Stages, Asking
  <2>3. UNCHANGED <<forge, forgeVars, at, known, holder, turn, tries, faults>>
    BY <1>13 DEF Check, cellVars
  <2>4. /\ Land(r)' = Land(r) /\ Land(r) \in Names /\ at[r] = Land(r)
    BY <1>13, <2>3, LandIs DEF Check, Land, IInv, HeldBy
  <2>5. /\ at[r] \in Prefixes(Land(r))
        /\ \A m \in Prefixes(Land(r)) : ~(Len(m) > Len(at[r]))
    <3>1. Len(Land(r)) \in Nat
      BY <2>4 DEF Names
    <3> QED BY <2>4, <3>1, ItselfPrefix, PrefixOf
  <2>6. HeldBy(r)'
    BY <2>2, <2>3, <2>4, <2>5 DEF HeldBy
  <2> QED BY <1>1, <1>13, <2>2, <2>3, <2>6 DEF Check, ClientType, Effect, Apart
<1> QED BY <1>2, <1>3, <1>4, <1>5, <1>6, <1>7, <1>8, <1>9, <1>10, <1>11, <1>12, <1>13
    DEF Creating
-----------------------------------------------------------------------------
(* What a step may do to others *)

OursStep ==
  /\ \A n \in Places :
       phase \notin {"idle", "asking"} /\ Says(n) = "there" /\ Leaving(n)' =>
         n \in marked \cap Doomed
  /\ \A r \in Repos : repo[r] = "foreign" /\ repo'[r] # "foreign" =>
       \/ \E n \in Around(Land(r)) : Leaving(n)
       \/ forge = "azuredevops" /\ r \in Fleet

\* Where a namespace is in use neither it nor, with InheritsMark, one it is in is going.
LEMMA ThereIs ==
  ASSUME NEW n \in Places, Says(n) = "there"
  PROVE  group[n] # "none" /\ ~Leaving(n) /\ (InheritsMark => \A m \in Around(n) : ~Leaving(m))
BY AroundIs DEF Says, Around

\* What is not in use nobody brings back but who makes it.
LEMMA StaysAway ==
  ASSUME NEW n \in Places, NEW m \in Places, Says(n) # "there", UNCHANGED forge,
         (MakeGroup(m) /\ m # n) \/ AskToPurge(m) \/ UNCHANGED group,
         group \in [Places -> {"none", "there", "scheduled", "going"}]
  PROVE  Says(n)' # "there"
<1>1. ASSUME NEW x \in Places, Leaving(x) PROVE Leaving(x)'
  BY <1>1 DEF MakeGroup, CanMake, AskToPurge, Leaving
<1>2. group[n] = "none" => group'[n] = "none"
  BY DEF MakeGroup, AskToPurge
<1>3. Around(n)' = Around(n) /\ n \in Places
  BY DEF Around
<1>4. group[n] = "none" \/ Leaving(n) \/ (InheritsMark /\ \E x \in Around(n) : Leaving(x))
  BY DEF Says
<1>5. ASSUME NEW x \in Around(n), Leaving(x), InheritsMark PROVE Leaving(x)'
  BY <1>1, <1>5, AroundIs
<1> QED BY <1>1, <1>2, <1>3, <1>4, <1>5, AroundIs DEF Says

LEMMA EffectType ==
  ASSUME IInv, NEW r \in Repos, Effect(r)
  PROVE  ForgeType'
<1>1. ForgeType /\ at[r] \in Places
  BY ForgeAndClient DEF ClientType
<1> QED BY <1>1 DEF Effect, MakeGroup, AskToPurge, ForgeType, forgeVars

LEMMA CreatingStep ==
  ASSUME IInv, NEW r \in Repos, Creating(r), UNCHANGED <<phase, loopVars, exit, before, edits>>
  PROVE  IInv' /\ OursStep
<1>1. /\ UNCHANGED forge /\ task[r] \in CreateStages
      /\ ClientType' /\ Apart(r) /\ HeldBy(r)' /\ Effect(r)
      /\ task'[r] = "purge" =>
           Says(at[r]) = "leaving" /\ at'[r] = at[r] /\ UNCHANGED forgeVars
  BY CreatingIs
<1>2. ForgeType /\ ClientType /\ ForgeType' /\ phase = "creating" /\ step = "idle"
  BY <1>1, ForgeAndClient, EffectType DEF IInv, Staged, Condemned
<1>3. TypeOK'
  BY <1>1, <1>2 DEF IInv, TypeOK, NamespacesTypeOK, ForgeType, ClientType, Stages, loopVars
<1>4. Doomed' = Doomed /\ \A x \in Repos : Land(x)' = Land(x)
  BY <1>1 DEF Doomed, Land
<1>5. Condemned'
  BY <1>2, <1>4 DEF IInv, Condemned, loopVars
<1>6. ASSUME NEW x \in Repos PROVE HeldBy(x)'
  <2>1. CASE x # r
    <3>1. task'[x] = task[x] /\ at'[x] = at[x] /\ HeldBy(x) /\ x # NoOne
      BY <1>1, <2>1, NamespacesAssumption DEF Apart, IInv
    <3>2. \A m \in Places : holder[m] = x => holder'[m] = x
      BY <1>1, <2>1, <3>1 DEF Apart
    <3>3. Prefixes(Land(x)) \subseteq Places /\ at[x] \in Places
      BY <1>2, LandIs DEF ClientType
    <3> QED BY <1>4, <3>1, <3>2, <3>3 DEF HeldBy
  <2> QED BY <1>1, <2>1
<1>7. ASSUME NEW x \in Repos PROVE Staged(x)'
  <2>1. task[x] \notin DeleteStages /\ Staged(x)
    BY <1>2 DEF IInv, Staged
  <2>2. task'[x] \notin DeleteStages
    BY <1>1, <2>1 DEF Apart, DeleteStages, CreateStages, Making
  <2> QED BY <1>2, <2>2 DEF Staged
<1>8. ASSUME NEW x \in Repos PROVE InTheWay(x)'
  <2>1. CASE x = r
    <3>1. task'[r] = "purge" => Says(at[r])' = Says(at[r])
      BY <1>1 DEF Says, Around, Leaving, forgeVars
    <3> QED BY <1>1, <2>1, <3>1 DEF InTheWay, Says
  <2>2. CASE x # r
    <3> SUFFICES ASSUME task'[x] = "purge" PROVE Says(at[x])' # "there"
      BY DEF InTheWay
    <3>1. task[x] = "purge" /\ at'[x] = at[x] /\ Says(at[x]) # "there"
      BY <1>1, <2>2 DEF Apart, IInv, InTheWay
    <3>2. at[x] \in Places /\ at[r] \in Places /\ holder[at[x]] = x
      BY <1>2, <3>1, HeldIs DEF ClientType, Making
    <3>3. task[r] \in {"post", "make"} => at[r] # at[x]
      BY <2>2, <3>2, HeldIs DEF Making
    <3>4. (MakeGroup(at[r]) /\ at[r] # at[x]) \/ AskToPurge(at[r]) \/ UNCHANGED group
      BY <1>1, <3>3 DEF Effect, forgeVars
    <3>5. Says(at[x]) # "there" => (\A n \in Places : n = at[x] => Says(n)' # "there")
      BY <1>1, <1>2, <3>2, <3>4, StaysAway DEF ForgeType
    <3> QED BY <3>1, <3>2, <3>5
  <2> QED BY <2>1, <2>2
<1>9. ASSUME NEW x \in Repos PROVE Somewhere(x)'
  <2>1. Somewhere(x) /\ Land(x) \in Places /\ Land(r) \in Places
    BY LandIs DEF IInv
  <2>2. Says(Land(r)) = "there" => group[Land(r)] # "none"
    BY DEF Says
  <2> QED BY <1>1, <1>2, <1>4, <2>1, <2>2
      DEF Effect, Somewhere, MakeGroup, AskToPurge, forgeVars, ForgeType, ClientType
<1>10. OursStep
  <2>1. ASSUME NEW n \in Places, Says(n) = "there", Leaving(n)' PROVE FALSE
    <3>1. ~Leaving(n) /\ group[n] # "none"
      BY <2>1, ThereIs
    <3>2. task[r] = "purge" => n # at[r]
      BY <2>1 DEF IInv, InTheWay
    <3> QED BY <1>1, <1>2, <2>1, <3>1, <3>2
        DEF Effect, MakeGroup, AskToPurge, forgeVars, ForgeType, Leaving
  <2>2. ASSUME NEW x \in Repos, repo[x] = "foreign", repo'[x] # "foreign" PROVE FALSE
    <3>1. group[Land(x)] # "none"
      BY <2>2 DEF IInv, Somewhere
    <3> QED BY <1>1, <1>2, <2>2, <3>1
        DEF Effect, MakeGroup, CanMake, AskToPurge, forgeVars, ForgeType
  <2> QED BY <2>1, <2>2 DEF OursStep
<1> QED BY <1>3, <1>5, <1>6, <1>7, <1>8, <1>9, <1>10 DEF IInv
-----------------------------------------------------------------------------
(* The other steps *)

\* Where the forge stays as it is nobody's is gone.
LEMMA NothingGone ==
  ASSUME UNCHANGED <<group, repo>>
  PROVE  OursStep
<1>1. ASSUME NEW n \in Places, Says(n) = "there", Leaving(n)' PROVE FALSE
  BY <1>1, ThereIs DEF Leaving
<1> QED BY <1>1 DEF OursStep

LEMMA DeletingStep ==
  ASSUME IInv, NEW r \in Repos, Deleting(r)
  PROVE  IInv' /\ OursStep
<1>1. /\ ForgeType /\ ClientType /\ forge \in {"gitlab", "azuredevops"}
      /\ UNCHANGED <<forge, at, known, holder, turn, tries, phase, loopVars, exit, before, edits,
                     group, marked>>
  BY ForgeAndClient, NamespacesAssumption
  DEF Deleting, cellVars, Look, Enable, Drop, ReadBack, Bury, DeleteFails, forgeVars
<1>2. task[r] \in DeleteStages
  BY DEF Deleting, Look, Enable, Drop, ReadBack, Bury, DeleteFails, DeleteStages
<1>3. PICK s \in {"done", "failed", "enable", "drop", "readback", "bury"} : Goto(r, s)
  BY DEF Deleting, Look, Enable, Drop, ReadBack, Bury, DeleteFails
<1>4. /\ task' \in [Repos -> Stages] /\ task'[r] = s
      /\ \A x \in Repos \ {r} : task'[x] = task[x]
  BY <1>1, <1>3 DEF Goto, ClientType, Stages, Asking
<1>5. /\ repo' \in [Repos -> {"none", "ours", "foreign", "disabled"}]
      /\ \A x \in Repos \ {r} : repo'[x] = repo[x]
      /\ repo'[r] \in {"none", repo[r]} \cup IF repo[r] = "disabled" THEN {"ours"} ELSE {}
  BY <1>1 DEF Deleting, Look, Enable, Drop, ReadBack, Bury, DeleteFails, forgeVars, ForgeType
<1>6. ghosts' \subseteq Repos /\ faults' \in 0 .. MaxFaults
  BY <1>1, NamespacesAssumption
  DEF Deleting, Look, Enable, Drop, ReadBack, Bury, DeleteFails, forgeVars, ForgeType, ClientType
<1>7. TypeOK'
  BY <1>1, <1>4, <1>5, <1>6
  DEF IInv, TypeOK, NamespacesTypeOK, loopVars, ForgeType, ClientType, Stages
<1>8. phase \in {"asking", "deleting"} /\ r \in Fleet /\ (forge = "gitlab" => repo[r] # "foreign")
  BY <1>2 DEF IInv, Staged
<1>9. Condemned'
  BY <1>1 DEF IInv, Condemned, loopVars, Doomed
<1>10. ASSUME NEW x \in Repos PROVE HeldBy(x)' /\ Staged(x)' /\ InTheWay(x)' /\ Somewhere(x)'
  <2>1. HeldBy(x) /\ Staged(x) /\ InTheWay(x) /\ Somewhere(x)
    BY DEF IInv
  <2>2. task'[x] \in CreateStages => task'[x] = task[x]
    BY <1>4 DEF CreateStages, Making
  <2>3. Land(x)' = Land(x)
    BY <1>1 DEF Land
  <2>4. HeldBy(x)'
    BY <1>1, <2>1, <2>2, <2>3 DEF HeldBy, CreateStages, Making
  <2>5. Staged(x)'
    BY <1>1, <1>4, <1>5, <1>8, <2>1, <2>2 DEF Staged
  <2>6. InTheWay(x)'
    <3>1. Says(at[x])' = Says(at[x])
      BY <1>1 DEF Says, Around, Leaving
    <3> QED BY <2>1, <2>2, <3>1 DEF InTheWay, CreateStages, Making
  <2>7. Somewhere(x)'
    BY <1>1, <1>5, <2>1, <2>3 DEF Somewhere
  <2> QED BY <2>4, <2>5, <2>6, <2>7
<1>11. OursStep
  <2>1. ASSUME NEW n \in Places, Says(n) = "there", Leaving(n)' PROVE FALSE
    BY <1>1, <2>1, ThereIs DEF Leaving
  <2>2. ASSUME NEW x \in Repos, repo[x] = "foreign", repo'[x] # "foreign"
        PROVE  forge = "azuredevops" /\ x \in Fleet
    BY <1>1, <1>5, <1>8, <2>2
  <2> QED BY <2>1, <2>2 DEF OursStep
<1> QED BY <1>7, <1>9, <1>10, <1>11 DEF IInv

LEMMA RemovingStep ==
  ASSUME IInv, NEW n \in Places, Removing(n)
  PROVE  IInv' /\ OursStep
<1>1. /\ ForgeType /\ ClientType /\ phase = "removing" /\ Condemned
      /\ UNCHANGED <<forge, task, at, holder, turn, tries, phase, exit, before, edits,
                     marked, repo, ghosts>>
  BY ForgeAndClient
  DEF Removing, Examine, DropGroup, PurgeGroup, AwaitGroup, RemoveFails, AskToPurge, forgeVars, IInv
<1>2. faults' \in 0 .. MaxFaults /\ n \in todo
  <2>1. faults' = faults \/ (faults < MaxFaults /\ faults' = faults + 1)
    BY DEF Removing, RemoveFails
  <2>2. faults' \in 0 .. MaxFaults
    BY <1>1, <2>1, NamespacesAssumption DEF ClientType
  <2>3. n \in todo
    BY <1>1 DEF Removing, Examine, DropGroup, PurgeGroup, AwaitGroup, RemoveFails, Condemned
  <2> QED BY <2>2, <2>3
<1>3. known' \subseteq Places
  BY <1>1 DEF Removing, Examine, DropGroup, PurgeGroup, AwaitGroup, RemoveFails, ClientType, Forget
<1>4. /\ group' \in [Places -> {"none", "there", "scheduled", "going"}]
      /\ \A m \in Places \ {n} : group'[m] = group[m]
      /\ group'[n] = "none" <=> group[n] = "none"
      /\ Leaving(n)' => Leaving(n) \/ (step \in {"drop", "purge"} /\ doing = n)
  BY <1>1
  DEF Removing, Examine, DropGroup, PurgeGroup, AwaitGroup, RemoveFails, AskToPurge, forgeVars,
      ForgeType, Leaving
<1>5. \/ todo' = todo \ {n} /\ doing' = NoOne /\ step' = "idle"
      \/ /\ todo' = todo /\ doing' = n /\ step' \in {"drop", "purge", "gone"}
         /\ step' \in {"drop", "purge"} => n \in marked \/ group'[n] = "none"
  BY <1>1, <1>4
  DEF Removing, Examine, DropGroup, PurgeGroup, AwaitGroup, RemoveFails, Leave, On, Removable,
      Condemned
<1>6. failed' \in BOOLEAN
  BY DEF Removing, Examine, DropGroup, PurgeGroup, AwaitGroup, RemoveFails, Leave, On, IInv, TypeOK
<1>7. TypeOK'
  BY <1>1, <1>2, <1>3, <1>4, <1>5, <1>6
  DEF IInv, TypeOK, NamespacesTypeOK, ForgeType, ClientType, Stages
<1>8. Condemned'
  <2>1. Doomed' = Doomed
    BY <1>1 DEF Doomed
  <2> QED BY <1>1, <1>2, <1>5, <2>1 DEF Condemned
<1>9. ASSUME NEW x \in Repos PROVE HeldBy(x)' /\ Staged(x)' /\ InTheWay(x)' /\ Somewhere(x)'
  <2>1. Staged(x) /\ Somewhere(x)
    BY DEF IInv
  <2>2. task'[x] \notin CreateStages \cup DeleteStages
    BY <1>1, <2>1 DEF Staged
  <2>3. Land(x)' = Land(x) /\ Land(x) \in Places
    BY <1>1, LandIs DEF Land
  <2> QED BY <1>1, <1>4, <2>1, <2>2, <2>3
      DEF HeldBy, Staged, InTheWay, Somewhere, CreateStages, Making
<1>10. OursStep
  <2>1. ASSUME NEW m \in Places, Says(m) = "there", Leaving(m)' PROVE m \in marked \cap Doomed
    <3>1. group[m] # "none" /\ ~Leaving(m)
      BY <2>1, ThereIs
    <3>2. m = n /\ step \in {"drop", "purge"} /\ doing = n
      BY <1>4, <2>1, <3>1 DEF Leaving
    <3> QED BY <1>1, <1>2, <3>1, <3>2 DEF Condemned
  <2> QED BY <1>1, <2>1 DEF OursStep
<1> QED BY <1>7, <1>8, <1>9, <1>10 DEF IInv

LEMMA EndStep ==
  ASSUME IInv, NEW result \in {"none", "applied", "destroyed", "failed"}, End(result),
         faults' \in 0 .. MaxFaults
  PROVE  IInv' /\ OursStep
<1>1. ForgeType /\ ClientType /\ UNCHANGED <<forge, group, marked, repo, ghosts, before, edits>>
  BY ForgeAndClient DEF End, forgeVars
<1>2. /\ task' \in [Repos -> Stages] /\ at' \in [Repos -> Places]
      /\ holder' \in [Places -> Repos \cup {NoOne}] /\ tries' \in [Repos -> 1 .. Attempts]
  BY PlacesAre, NamespacesAssumption DEF End, Stages
<1>3. TypeOK'
  BY <1>1, <1>2 DEF End, IInv, TypeOK, NamespacesTypeOK, ForgeType, ClientType, Stages
<1>4. Condemned'
  BY DEF End, Condemned
<1>5. ASSUME NEW x \in Repos PROVE HeldBy(x)' /\ Staged(x)' /\ InTheWay(x)' /\ Somewhere(x)'
  <2>1. task'[x] = "idle" /\ Land(x)' = Land(x) /\ Somewhere(x)
    BY <1>1 DEF End, Land, IInv
  <2> QED BY <1>1, <2>1
      DEF HeldBy, Staged, InTheWay, Somewhere, CreateStages, DeleteStages, Making
<1> QED BY <1>1, <1>3, <1>4, <1>5, NothingGone DEF IInv

\* A task that begins is on its way from the name itself.
LEMMA BeginHolds ==
  ASSUME NEW r \in Repos, UNCHANGED forge, at'[r] = Land(r), task'[r] \notin Making
  PROVE  HeldBy(r)'
<1>1. Land(r)' = Land(r) /\ Land(r) \in Names
  BY LandIs DEF Land
<1>2. Len(Land(r)) \in Nat
  BY <1>1 DEF Names
<1>3. at'[r] \in Prefixes(Land(r)) /\ \A m \in Prefixes(Land(r)) : ~(Len(m) > Len(at'[r]))
  BY <1>1, <1>2, ItselfPrefix, PrefixOf
<1> QED BY <1>1, <1>3 DEF HeldBy

LEMMA BeginType ==
  ASSUME IInv, NEW p, NEW tasks \in SUBSET Repos, NEW s \in {"resolve", "look"},
         Begin(p, tasks, s), UNCHANGED forge
  PROVE  /\ task' \in [Repos -> Stages] /\ at' \in [Repos -> Places]
         /\ exit' = "none" /\ before' \subseteq Repos /\ phase' = p
         /\ \A x \in Repos : /\ HeldBy(x)'
                             /\ task'[x] = IF x \in tasks THEN s ELSE "idle"
<1>1. /\ task' \in [Repos -> Stages] /\ exit' = "none" /\ before' \subseteq Repos /\ phase' = p
      /\ \A x \in Repos : task'[x] = IF x \in tasks THEN s ELSE "idle"
  BY DEF Begin, Stages, IInv, TypeOK, NamespacesTypeOK
<1>2. at' \in [Repos -> Places]
  BY LandIs, PlacesAre DEF Begin
<1>3. ASSUME NEW x \in Repos PROVE HeldBy(x)'
  <2>1. CASE x \in tasks
    BY <1>1, <2>1, BeginHolds DEF Begin, Making
  <2>2. CASE x \notin tasks
    BY <1>1, <2>2 DEF HeldBy, Making
  <2> QED BY <2>1, <2>2
<1> QED BY <1>1, <1>2, <1>3

LEMMA StartApplyStep ==
  ASSUME IInv, StartApply
  PROVE  IInv' /\ OursStep
<1>1. /\ ForgeType /\ ClientType /\ phase = "idle" /\ step = "idle"
      /\ UNCHANGED <<forge, group, marked, repo, ghosts, holder, turn, tries, faults, todo, doing,
                     step, failed, edits>>
  BY ForgeAndClient DEF StartApply, forgeVars, loopVars, IInv, Condemned
<1>2. known' \subseteq Places
  BY PlacesAre DEF StartApply
<1> DEFINE tasks == {r \in Fleet : ~Found(r)}
<1>3. tasks \in SUBSET Repos /\ Begin("creating", tasks, "resolve")
  BY NamespacesAssumption DEF StartApply
<1> HIDE DEF tasks
<1>4. /\ task' \in [Repos -> Stages] /\ at' \in [Repos -> Places]
      /\ exit' = "none" /\ before' \subseteq Repos /\ phase' = "creating"
      /\ \A x \in Repos : HeldBy(x)' /\ task'[x] \in {"resolve", "idle"}
  BY <1>1, <1>3, BeginType
<1>5. TypeOK'
  BY <1>1, <1>2, <1>4 DEF IInv, TypeOK, NamespacesTypeOK, ForgeType, ClientType, Stages
<1>6. Condemned'
  BY <1>1 DEF IInv, Condemned, Doomed
<1>7. ASSUME NEW x \in Repos PROVE Staged(x)' /\ InTheWay(x)' /\ Somewhere(x)'
  <2>1. Somewhere(x) /\ Land(x)' = Land(x)
    BY <1>1 DEF IInv, Land
  <2> QED BY <1>1, <1>4, <2>1 DEF Staged, InTheWay, Somewhere, DeleteStages
<1> QED BY <1>1, <1>4, <1>5, <1>6, <1>7, NothingGone DEF IInv

LEMMA DoomedAre == Doomed \subseteq Places
<1>1. \A r \in Fleet : Prefixes(Home[r]) \subseteq Places
  BY HomeIs, NamespacesAssumption
<1> QED BY <1>1, PlacesAre DEF Doomed

LEMMA StartDestroyStep ==
  ASSUME IInv, StartDestroy
  PROVE  IInv' /\ OursStep
<1>1. /\ ForgeType /\ ClientType /\ phase = "idle" /\ step = "idle"
      /\ UNCHANGED <<forge, group, marked, repo, ghosts, known, holder, turn, tries, faults, doing,
                     step, failed, edits>>
  BY ForgeAndClient DEF StartDestroy, forgeVars, IInv, Condemned
<1> DEFINE tasks == {r \in Fleet : Found(r) /\ IsOurs(r)}
           p == IF tasks = {} THEN "removing" ELSE "asking"
<1>2. tasks \in SUBSET Repos /\ Begin(p, tasks, "look") /\ todo' = Doomed
  BY NamespacesAssumption DEF StartDestroy
<1>3. p \in {"removing", "asking"} /\ (tasks # {} => p = "asking")
  OBVIOUS
<1>4. \A x \in tasks : x \in Fleet /\ (forge = "gitlab" => repo[x] # "foreign")
  BY DEF IsOurs
<1> HIDE DEF tasks, p
<1>5. /\ task' \in [Repos -> Stages] /\ at' \in [Repos -> Places]
      /\ exit' = "none" /\ before' \subseteq Repos /\ phase' = p
      /\ \A x \in Repos : HeldBy(x)' /\ task'[x] = IF x \in tasks THEN "look" ELSE "idle"
  BY <1>1, <1>2, BeginType
<1>6. TypeOK'
  BY <1>1, <1>2, <1>3, <1>5, DoomedAre
  DEF IInv, TypeOK, NamespacesTypeOK, ForgeType, ClientType, Stages
<1>7. Condemned'
  BY <1>1, <1>2 DEF IInv, Condemned, Doomed
<1>8. ASSUME NEW x \in Repos PROVE Staged(x)' /\ InTheWay(x)' /\ Somewhere(x)'
  <2>1. Somewhere(x) /\ Land(x)' = Land(x)
    BY <1>1 DEF IInv, Land
  <2>2. Staged(x)'
    BY <1>1, <1>3, <1>4, <1>5 DEF Staged, DeleteStages, CreateStages, Making
  <2> QED BY <1>1, <1>5, <2>1, <2>2 DEF InTheWay, Somewhere
<1> QED BY <1>1, <1>5, <1>6, <1>7, <1>8, NothingGone DEF IInv

\* Between the question, the deletions and the namespaces.
LEMMA PhaseStep ==
  ASSUME IInv, NEW p \in {"deleting", "removing"}, phase' = p, phase \in {"asking", "deleting"},
         UNCHANGED <<forge, forgeVars, clientVars, faults, loopVars, exit, before, edits>>,
         p = "deleting" \/ TasksOver
  PROVE  IInv' /\ OursStep
<1>1. UNCHANGED <<forge, group, marked, repo, ghosts, task, at, known, holder, turn, tries, faults,
                  todo, doing, step, failed, exit, before, edits>>
  BY DEF forgeVars, clientVars, cellVars, loopVars
<1>2. TypeOK' /\ Condemned'
  BY <1>1 DEF IInv, TypeOK, NamespacesTypeOK, Condemned, Doomed
<1>3. ASSUME NEW x \in Repos PROVE HeldBy(x)' /\ Staged(x)' /\ InTheWay(x)' /\ Somewhere(x)'
  <2>1. HeldBy(x) /\ Staged(x) /\ InTheWay(x) /\ Somewhere(x) /\ Land(x)' = Land(x)
    BY <1>1 DEF IInv, Land
  <2>2. Says(at[x])' = Says(at[x])
    BY <1>1 DEF Says, Around, Leaving
  <2>3. Staged(x)'
    BY <1>1, <2>1 DEF Staged, TasksOver, CreateStages, DeleteStages, Making
  <2> QED BY <1>1, <2>1, <2>2, <2>3 DEF HeldBy, InTheWay, Somewhere
<1> QED BY <1>1, <1>2, <1>3, NothingGone DEF IInv

LEMMA OthersStep ==
  ASSUME IInv, Patient, Others
  PROVE  IInv' /\ OursStep
<1>1. /\ ForgeType /\ phase = "idle" /\ step = "idle" /\ edits' \in 0 .. MaxEdits
      /\ UNCHANGED <<forge, task, at, known, holder, turn, tries, faults, phase, todo, doing, step,
                     failed, before>>
      /\ exit' = "none"
  BY ForgeAndClient, DestroyAssumption
  DEF Others, clientVars, cellVars, loopVars, IInv, Condemned, TypeOK
<1>2. /\ ForgeType'
      /\ \A r \in Repos : repo'[r] # "none" => repo[r] # "none" \/ Says(Land(r)) = "there"
      /\ \A r \in Repos : repo[r] = "foreign" => repo'[r] = "foreign"
      /\ \A n \in Places : group'[n] = "none" => group[n] = "none"
  BY <1>1 DEF Others, Edit, ForgeType
<1>3. TypeOK' /\ Condemned'
  BY <1>1, <1>2 DEF IInv, TypeOK, NamespacesTypeOK, ForgeType, Condemned, Doomed
<1>4. ASSUME NEW x \in Repos PROVE HeldBy(x)' /\ Staged(x)' /\ InTheWay(x)' /\ Somewhere(x)'
  <2>1. Staged(x) /\ Somewhere(x) /\ Land(x)' = Land(x) /\ Land(x) \in Places
    BY <1>1, LandIs DEF IInv, Land
  <2>2. task'[x] \notin CreateStages \cup DeleteStages
    BY <1>1, <2>1 DEF Staged
  <2>3. Says(Land(x)) = "there" => group[Land(x)] # "none"
    BY DEF Says
  <2>4. Somewhere(x)'
    BY <1>2, <2>1, <2>3 DEF Somewhere
  <2> QED BY <2>2, <2>4 DEF HeldBy, Staged, InTheWay, CreateStages, Making
<1>5. OursStep
  BY <1>1, <1>2 DEF OursStep
<1> QED BY <1>3, <1>4, <1>5 DEF IInv

LEMMA ForgeStep ==
  ASSUME IInv, NEW n \in Places, ForgeRemoves(n),
         UNCHANGED <<phase, loopVars, exit, before, edits>>
  PROVE  IInv' /\ OursStep
<1>1. /\ ForgeType /\ Leaving(n)
      /\ UNCHANGED <<forge, task, at, known, holder, turn, tries, faults, phase, todo, doing, step,
                     failed, exit, before, edits>>
  BY ForgeAndClient DEF ForgeRemoves, clientVars, cellVars, loopVars
<1>2. /\ \A m \in Places : group'[m] = IF n \in Around(m) THEN "none" ELSE group[m]
      /\ \A m \in marked : m \in marked' \/ n \in Around(m)
      /\ marked' \subseteq marked
      /\ \A x \in Repos : repo'[x] = IF n \in Around(Land(x)) THEN "none" ELSE repo[x]
      /\ ForgeType'
  BY <1>1 DEF ForgeRemoves, Vanish, ForgeType
<1>3. TypeOK'
  BY <1>1, <1>2 DEF IInv, TypeOK, NamespacesTypeOK, ForgeType
<1>4. Condemned'
  BY <1>1, <1>2 DEF IInv, Condemned, Doomed, TypeOK
<1>5. ASSUME NEW x \in Repos PROVE HeldBy(x)' /\ Staged(x)' /\ InTheWay(x)' /\ Somewhere(x)'
  <2>1. HeldBy(x) /\ Staged(x) /\ InTheWay(x) /\ Somewhere(x) /\ Land(x)' = Land(x)
        /\ Land(x) \in Places /\ at[x] \in Places
    BY <1>1, LandIs DEF IInv, Land, TypeOK, NamespacesTypeOK
  <2>2. InTheWay(x)'
    <3>1. CASE n \in Around(at[x])
      BY <1>1, <1>2, <2>1, <3>1 DEF InTheWay, Says
    <3>2. CASE n \notin Around(at[x])
      <4>1. \A m \in Around(at[x]) : group'[m] = group[m]
        BY <1>2, <2>1, <3>2, AroundIs
      <4>2. at[x] \in Around(at[x]) /\ Around(at[x])' = Around(at[x])
        BY <1>1, <2>1, AroundIs DEF Around
      <4>3. Says(at[x])' = Says(at[x])
        BY <1>1, <4>1, <4>2 DEF Says, Leaving
      <4> QED BY <1>1, <2>1, <4>3 DEF InTheWay
    <3> QED BY <3>1, <3>2
  <2> QED BY <1>1, <1>2, <2>1, <2>2 DEF HeldBy, Staged, Somewhere
<1>6. OursStep
  <2>1. ASSUME NEW m \in Places, Says(m) = "there", Leaving(m)' PROVE FALSE
    BY <1>2, <2>1, ThereIs DEF Leaving
  <2>2. ASSUME NEW x \in Repos, repo[x] = "foreign", repo'[x] # "foreign"
        PROVE  n \in Around(Land(x)) /\ Leaving(n)
    BY <1>1, <1>2, <2>2
  <2> QED BY <2>1, <2>2 DEF OursStep
<1> QED BY <1>3, <1>4, <1>5, <1>6 DEF IInv

LEMMA InitInv == Init => IInv
<1> SUFFICES ASSUME Init PROVE IInv
  OBVIOUS
<1>1. ForgeType /\ ClientType
  BY PlacesAre, NamespacesAssumption DEF Init, ForgeType, ClientType, Stages
<1>2. /\ phase = "idle" /\ todo = {} /\ doing = NoOne /\ step = "idle" /\ failed = FALSE
      /\ exit = "none" /\ before = {} /\ edits = 0 /\ forge \in Forges
  BY DEF Init
<1>3. TypeOK
  <2>1. edits \in 0 .. MaxEdits
    BY <1>2, DestroyAssumption
  <2> QED BY <1>1, <1>2, <2>1 DEF TypeOK, NamespacesTypeOK, ForgeType, ClientType, Stages
<1> QED BY <1>3 DEF Init, IInv, Condemned, HeldBy, Staged, InTheWay, Somewhere, CreateStages,
        DeleteStages, Making

LEMMA StepInv ==
  ASSUME Patient
  PROVE  IInv /\ [Next]_vars => IInv' /\ [OursStep]_vars
<1> SUFFICES ASSUME IInv, [Next]_vars PROVE IInv' /\ [OursStep]_vars
  OBVIOUS
<1>1. faults \in 0 .. MaxFaults /\ MaxFaults \in Nat
  BY NamespacesAssumption DEF IInv, TypeOK, NamespacesTypeOK
<1>2. CASE ApplyEnds \/ DestroyEnds \/ Kill
  <2>1. \E result \in {"none", "applied", "destroyed", "failed"} : End(result)
    BY <1>2 DEF ApplyEnds, DestroyEnds, Kill
  <2>2. faults' \in 0 .. MaxFaults
    BY <1>1, <1>2 DEF ApplyEnds, DestroyEnds, Kill
  <2> QED BY <2>1, <2>2, EndStep
<1>3. CASE Answer
  <2>1. CASE End("failed")
    BY <1>1, <1>3, <2>1, EndStep DEF Answer
  <2>2. CASE phase' = "deleting"
             /\ UNCHANGED <<forge, forgeVars, clientVars, loopVars, exit, before, edits>>
    BY <1>3, <2>2, PhaseStep DEF Answer
  <2> QED BY <1>3, <2>1, <2>2 DEF Answer
<1>4. CASE DeletesOver
  BY <1>4, PhaseStep DEF DeletesOver
<1>5. CASE UNCHANGED vars
  <2>1. UNCHANGED <<forge, group, marked, repo, ghosts, task, at, known, holder, turn, tries,
                    faults, phase, todo, doing, step, failed, exit, before, edits>>
    BY <1>5 DEF vars, forgeVars, clientVars, cellVars, loopVars
  <2> QED BY <1>5, <2>1
      DEF IInv, TypeOK, NamespacesTypeOK, Condemned, Doomed, HeldBy, Staged, InTheWay, Somewhere,
          Land, Says, Around, Leaving
<1> QED BY <1>2, <1>3, <1>4, <1>5, CreatingStep, DeletingStep, RemovingStep, StartApplyStep,
        StartDestroyStep, OthersStep, ForgeStep DEF Next, Commands

\* Every variable of destroy, apply and their forge keeps its type.
THEOREM TypeCorrect ==
  ASSUME Patient
  PROVE  Spec => []TypeOK
<1>1. IInv => TypeOK
  BY DEF IInv
<1> QED BY <1>1, InitInv, StepInv, PTL DEF Spec

\* Commands begin to delete a namespace, of those that are not going anyway, only if
\* forgelab made it for a declared repository, and of others' repositories take only what
\* is in one that is going, while nobody meddles with an open question.
THEOREM OthersSafe ==
  ASSUME Patient
  PROVE  Spec => OnlyOursGoes
<1>1. IInv /\ [Next]_vars => IInv' /\ [OursStep]_vars
  BY StepInv
<1> QED BY <1>1, InitInv, PTL DEF Spec, OnlyOursGoes, OursStep

-----------------------------------------------------------------------------
(* A namespace is made once, and is there while the client remembers it *)

\* A task that is on its way to its namespace.
Underway == Making \cup {"resolve"}

\* What a task has come from is not there; what it asks for is its to make, in one
\* that the client knows.
Way(r) ==
  /\ task[r] \in Underway =>
       /\ \A m \in Prefixes(Land(r)) : Len(m) > Len(at[r]) => group[m] = "none"
       /\ forge = "azuredevops" => at[r] = Land(r)
  /\ task[r] \in {"purge", "gone", "post"} => forge = "gitlab"
  /\ task[r] \in {"turn", "make", "again"} => forge = "azuredevops"
  /\ task[r] = "post" => group[at[r]] = "none" /\ Front(at[r]) \in known
  /\ task[r] \in {"turn", "make"} => group[at[r]] # "there"

\* What the client remembers is there and not to be removed; the sandbox's own group stays.
Remembered ==
  /\ \A n \in known : Says(n) = "there"
  /\ phase \notin {"creating", "removing"} => known = {}
  /\ step # "idle" => \A m \in known : doing \notin Around(m)
  /\ forge = "gitlab" => group[Top] = "there"

CreationInv == Remembered /\ \A r \in Repos : Way(r)

-----------------------------------------------------------------------------
(* Namespaces *)

LEMMA ForgesAre ==
  ASSUME IInv
  PROVE  forge \in {"gitlab", "azuredevops"}
BY NamespacesAssumption DEF IInv, TypeOK, NamespacesTypeOK

\* Where nothing around it begins to go, a namespace stays.
LEMMA Stays ==
  ASSUME NEW n \in Places, Says(n) = "there", InheritsMark, UNCHANGED forge,
         group'[n] # "none", \A m \in Around(n) : Leaving(m)' => Leaving(m)
  PROVE  Says(n)' = "there"
<1>1. \A m \in Around(n) : ~Leaving(m)'
  BY ThereIs
<1>2. n \in Around(n) /\ Around(n)' = Around(n)
  BY AroundIs DEF Around
<1> QED BY <1>1, <1>2 DEF Says

\* Nothing is in the sandbox's own group's way.
LEMMA TopIs ==
  ASSUME forge = "gitlab", group[Top] = "there"
  PROVE  Around(Top) = {Top} /\ Says(Top) = "there"
<1>1. \A m \in Prefixes(Top) : m = Top
  <2>1. Top \in Names /\ Len(Top) = 0
    BY PlacesAre DEF Top
  <2> QED BY <2>1, PrefixOf, ItselfPrefix, SameLength
<1>2. Around(Top) = {Top}
  BY <1>1, PlacesAre, AroundIs DEF Around
<1> QED BY <1>2 DEF Says, Leaving

\* A namespace that is made where it should be is in use.
LEMMA MadeIs ==
  ASSUME NEW n \in Places, MakeGroup(n), ForgeType, UNCHANGED forge, InheritsMark,
         forge \in {"gitlab", "azuredevops"},
         forge = "gitlab" => Says(Front(n)) = "there"
  PROVE  Says(n)' = "there"
<1>1. /\ group[n] = "none" /\ group'[n] = "there"
      /\ \A m \in Places \ {n} : group'[m] = group[m]
  BY DEF MakeGroup, CanMake, ForgeType
<1>2. Around(n)' = Around(n) /\ n \in Names /\ Around(n) \subseteq Places
  BY PlacesAre, AroundIs DEF Around
<1>3. ASSUME NEW m \in Around(n), m # n PROVE ~Leaving(m)
  <2>1. forge = "gitlab" /\ m \in Prefixes(n)
    BY <1>3 DEF Around
  <2>2. m \in Prefixes(Front(n)) /\ Front(n) \in Places
    BY <1>2, <1>3, <2>1, FrontIs, ItselfPrefix DEF Around
  <2>3. m \in Around(Front(n))
    BY <2>1, <2>2 DEF Around
  <2> QED BY <2>1, <2>2, <2>3, ThereIs
<1>4. \A m \in Around(n) : ~Leaving(m)'
  BY <1>1, <1>2, <1>3 DEF Leaving
<1> QED BY <1>1, <1>2, <1>4, AroundIs DEF Says

\* What is in use stays so, and what is known with it, whatever a task of apply does.
LEMMA KnownStays ==
  ASSUME IInv, Remembered, InheritsMark, NEW r \in Repos, Effect(r), UNCHANGED forge
  PROVE  /\ \A n \in known : Says(n)' = "there"
         /\ \A n \in Places : Says(n) = "there" => Says(n)' = "there"
         /\ forge = "gitlab" => group'[Top] = "there"
<1>1. ForgeType /\ ClientType /\ at[r] \in Places /\ known \subseteq Places
  BY ForgeAndClient DEF ClientType
<1>2. task[r] = "purge" => Says(at[r]) # "there"
  BY DEF IInv, InTheWay
<1>3. ASSUME NEW n \in Places, Says(n) = "there" PROVE Says(n)' = "there"
  <2>1. group[n] # "none" /\ (\A m \in Around(n) : ~Leaving(m)) /\ Around(n) \subseteq Places
    BY <1>3, ThereIs, AroundIs
  <2>2. CASE AskToPurge(at[r]) /\ task[r] = "purge"
    <3>1. at[r] \in Around(n) => group[at[r]] = "none"
      <4> SUFFICES ASSUME at[r] \in Around(n), group[at[r]] # "none" PROVE FALSE
        OBVIOUS
      <4>1. Around(at[r]) \subseteq Around(n) /\ ~Leaving(at[r])
        BY <1>1, <1>3, <2>1, AroundIs
      <4>2. \E k \in Around(at[r]) : Leaving(k)
        BY <1>2, <2>2, <4>1 DEF Says
      <4> QED BY <2>1, <4>1, <4>2
    <3>2. \A m \in Around(n) : group'[m] = group[m]
      BY <1>1, <2>1, <2>2, <3>1 DEF AskToPurge, ForgeType
    <3> QED BY <1>3, <2>1, <3>2, Stays, AroundIs DEF Leaving
  <2>3. CASE MakeGroup(at[r])
    <3>1. \A m \in Places : group'[m] = group[m] \/ (m = at[r] /\ group'[m] = "there")
      BY <1>1, <2>3 DEF MakeGroup, ForgeType
    <3> QED BY <1>3, <2>1, <3>1, Stays DEF Leaving
  <2>4. CASE UNCHANGED group
    BY <1>3, <2>1, <2>4, Stays DEF Leaving
  <2> QED BY <2>2, <2>3, <2>4 DEF Effect, forgeVars
<1>4. ASSUME forge = "gitlab" PROVE group'[Top] = "there"
  <2>1. Says(Top)' = "there" /\ Top \in Places /\ group[Top] = "there"
    BY <1>3, <1>4, TopIs, PlacesAre DEF Remembered
  <2>2. ~Leaving(Top)' /\ group'[Top] # "none"
    BY <1>4, <2>1, TopIs DEF Says, Around
  <2> QED BY <1>1, <2>1, <2>2 DEF Effect, MakeGroup, AskToPurge, forgeVars, ForgeType, Leaving
<1> QED BY <1>1, <1>3, <1>4 DEF Remembered

-----------------------------------------------------------------------------
(* Tasks of apply *)

\* A task changes nothing but what it is about.
LEMMA OnlyIts ==
  ASSUME IInv, NEW r \in Repos, Effect(r)
  PROVE  /\ \A m \in Places \ {at[r]} : group'[m] = group[m]
         /\ group[at[r]] = "none" /\ task[r] \notin {"post", "make"} => group'[at[r]] = "none"
<1>1. ForgeType /\ ClientType
  BY ForgeAndClient
<1> QED BY <1>1 DEF Effect, MakeGroup, AskToPurge, forgeVars, ForgeType, ClientType

\* Those it has come from are longer than the one it is at.
LEMMA LongerStay ==
  ASSUME IInv, NEW r \in Repos, Way(r), task[r] \in Underway, Effect(r)
  PROVE  \A m \in Prefixes(Land(r)) : Len(m) > Len(at[r]) => group'[m] = "none"
<1> SUFFICES ASSUME NEW m \in Prefixes(Land(r)), Len(m) > Len(at[r]) PROVE group'[m] = "none"
  OBVIOUS
<1>1. Land(r) \in Names /\ Prefixes(Land(r)) \subseteq Places /\ at[r] \in Prefixes(Land(r))
  BY LandIs DEF IInv, HeldBy, Underway
<1>2. Len(m) \in Nat /\ Len(at[r]) \in Nat
  BY <1>1, PrefixOf
<1>3. m # at[r] /\ m \in Places /\ group[m] = "none"
  BY <1>1, <1>2 DEF Way
<1> QED BY <1>3, OnlyIts

\* What another task is about, and has come from, it holds.
LEMMA OtherWay ==
  ASSUME IInv, NEW r \in Repos, NEW x \in Repos \ {r}, Way(x), Effect(r), Apart(r),
         UNCHANGED forge, known \subseteq known'
  PROVE  Way(x)'
<1>1. /\ ForgeType /\ ClientType /\ HeldBy(x) /\ task'[x] = task[x] /\ at'[x] = at[x]
      /\ Land(x)' = Land(x) /\ Prefixes(Land(x)) \subseteq Places
  BY ForgeAndClient, LandIs DEF IInv, Apart, Land
<1>2. ASSUME NEW m \in Places, holder[m] = x
      PROVE  /\ group[m] = "none" => group'[m] = "none"
             /\ group[m] # "there" => group'[m] # "there"
  <2>1. task[r] \in {"post", "make"} => at[r] # m
    BY <1>2, HeldIs DEF Making
  <2> QED BY <1>1, <2>1 DEF Effect, MakeGroup, AskToPurge, forgeVars, ForgeType, ClientType
<1>3. task[x] \in Making => holder[at[x]] = x /\ at[x] \in Places
  BY HeldIs
<1>4. task[x] \in Underway =>
        \A m \in Prefixes(Land(x)) : Len(m) > Len(at[x]) => group'[m] = "none"
  BY <1>1, <1>2 DEF HeldBy, Way, Underway
<1> QED BY <1>1, <1>2, <1>3, <1>4 DEF Way, Making

\* Where a task stays at its namespace.
LEMMA SameWay ==
  ASSUME IInv, NEW r \in Repos, Way(r), task[r] \in Underway, Effect(r), UNCHANGED forge,
         at'[r] = at[r], task'[r] \in Underway \ {"post"},
         task'[r] \in {"purge", "gone"} => forge = "gitlab",
         task'[r] \in {"turn", "make", "again"} => forge = "azuredevops",
         task'[r] \in {"turn", "make"} => group'[at[r]] # "there"
  PROVE  Way(r)'
<1>1. Land(r)' = Land(r)
  BY DEF Land
<1> QED BY <1>1, LongerStay DEF Way

\* Up to the namespace it is in.
LEMMA ParentWay ==
  ASSUME IInv, NEW r \in Repos, Way(r), task[r] \in Making, UNCHANGED <<forge, group>>,
         ParentOf(r, at[r]), group[at[r]] = "none", forge = "gitlab"
  PROVE  Way(r)'
<1>1. /\ Land(r)' = Land(r) /\ Land(r) \in Names /\ at[r] \in Prefixes(Land(r))
      /\ at \in [Repos -> Places] /\ task \in [Repos -> Stages]
  BY LandIs, ForgeAndClient DEF Land, IInv, HeldBy, ClientType
<1>2. /\ at[r] # Top => Len(Front(at[r])) = Len(at[r]) - 1
      /\ at[r] = Top => Front(at[r]) = Top
  BY <1>1, FrontIs
<1>3. task'[r] = "resolve" /\ at'[r] = Front(at[r])
  BY <1>1 DEF ParentOf, Goto
<1>4. ASSUME NEW m \in Prefixes(Land(r)), Len(m) > Len(Front(at[r])) PROVE group[m] = "none"
  <2>1. Len(m) \in Nat /\ Len(at[r]) \in Nat
    BY <1>1, PrefixOf
  <2>2. CASE Len(m) = Len(at[r])
    BY <1>1, <2>2, SameLength
  <2>3. CASE Len(m) # Len(at[r])
    BY <1>2, <1>4, <2>1, <2>3 DEF Way, Underway
  <2> QED BY <2>2, <2>3
<1> QED BY <1>1, <1>3, <1>4 DEF Way

\* Down to the next one, from one that is known now.
LEMMA ProceedWay ==
  ASSUME IInv, NEW r \in Repos, Way(r), task[r] \in Underway, UNCHANGED forge, Effect(r),
         Proceed(r, at[r]), at[r] \in known', forge \in {"gitlab", "azuredevops"}
  PROVE  Way(r)'
<1>1. /\ Land(r)' = Land(r) /\ Land(r) \in Names /\ at[r] \in Prefixes(Land(r))
      /\ at \in [Repos -> Places] /\ task \in [Repos -> Stages]
  BY LandIs, ForgeAndClient DEF Land, IInv, HeldBy, Underway, ClientType
<1>2. CASE at[r] = Land(r)
  <2>1. task'[r] = "create"
    BY <1>1, <1>2 DEF Proceed, Goto
  <2> QED BY <2>1 DEF Way, Underway, Making
<1>3. CASE at[r] # Land(r)
  <2> DEFINE n == SubSeq(Land(r), 1, Len(at[r]) + 1)
  <2>1. n \in Prefixes(Land(r)) /\ Len(n) = Len(at[r]) + 1 /\ Front(n) = at[r]
    BY <1>1, <1>3, NextIs
  <2>2. Goto(r, "post") /\ at' = [at EXCEPT ![r] = n]
    BY <1>3 DEF Proceed
  <2> HIDE DEF n
  <2>3. task'[r] = "post" /\ at'[r] = n /\ forge = "gitlab"
    BY <1>1, <1>3, <2>2 DEF Goto, Way
  <2>4. \A m \in Prefixes(Land(r)) : Len(m) \in Nat
    BY <1>1, PrefixOf
  <2>5. \A m \in Prefixes(Land(r)) : Len(m) >= Len(n) => group'[m] = "none"
    BY <1>1, <2>1, <2>4, LongerStay
  <2> QED BY <1>1, <2>1, <2>3, <2>4, <2>5 DEF Way
<1> QED BY <1>2, <1>3

\* A failed task, or one that starts over, has nothing behind it.
LEMMA UnwindWay ==
  ASSUME IInv, NEW r \in Repos, NEW s \in {"failed", "check"}, Unwind(r, s)
  PROVE  Way(r)' /\ known' = known
<1>1. task'[r] = s /\ known' = known
  BY DEF Unwind, Goto, IInv, TypeOK, NamespacesTypeOK
<1> QED BY <1>1 DEF Way, Underway, Making

LEMMA SameSays ==
  ASSUME NEW n, UNCHANGED <<forge, group>>
  PROVE  Says(n)' = Says(n)
BY DEF Says, Around, Leaving

\* What a task of apply leaves behind it.
Fine(r) ==
  /\ Way(r)'
  /\ known \subseteq known'
  /\ \A n \in known' \ known : Says(n)' = "there"

LEMMA LearnWay ==
  ASSUME IInv, NEW r \in Repos, Way(r), task[r] \in Making, UNCHANGED forge, Effect(r),
         Learn(r, at[r]), \A n \in Places : n = at[r] => Says(n)' = "there"
  PROVE  Fine(r)
<1>1. known' = known \cup {at[r]} /\ Proceed(r, at[r])
  BY DEF Learn
<1>2. at[r] \in Places
  BY HeldIs
<1> QED BY <1>1, <1>2, ProceedWay, ForgesAre DEF Fine, Underway

LEMMA MakeWay ==
  ASSUME IInv, CreationInv, InheritsMark, NEW r \in Repos, task[r] \in {"post", "make"},
         UNCHANGED forge, MakeGroup(at[r]), Learn(r, at[r])
  PROVE  Fine(r)
<1>1. /\ Way(r) /\ Remembered /\ ForgeType /\ at[r] \in Places /\ Effect(r)
      /\ forge \in {"gitlab", "azuredevops"} /\ task[r] \in Making
  BY ForgeAndClient, ForgesAre DEF CreationInv, ClientType, Effect, Making
<1>2. forge = "gitlab" => Says(Front(at[r])) = "there"
  BY <1>1 DEF Way, Remembered
<1>3. \A n \in Places : n = at[r] => Says(n)' = "there"
  BY <1>1, <1>2, MadeIs
<1> QED BY <1>1, <1>3, LearnWay

LEMMA CreatingFine ==
  ASSUME IInv, CreationInv, InheritsMark, NEW r \in Repos, Creating(r)
  PROVE  Fine(r)
<1> USE DEF Making, Underway
<1>1. /\ UNCHANGED forge /\ Effect(r) /\ ForgeType /\ ClientType /\ Way(r)
      /\ forge \in {"gitlab", "azuredevops"}
  BY CreatingIs, ForgeAndClient, ForgesAre DEF CreationInv
<1>2. ASSUME NEW s \in {"failed", "check"}, Unwind(r, s) PROVE Fine(r)
  BY <1>2, UnwindWay DEF Fine
<1>3. Says(at[r]) = "none" =>
        /\ forge = "gitlab" => group[at[r]] = "none"
        /\ group[at[r]] # "there"
  BY DEF Says, Leaving
<1>4. CASE Resolve(r)
  <2>1. CASE at[r] \in known /\ Proceed(r, at[r])
    BY <1>1, <1>4, <2>1, ProceedWay DEF Resolve, Fine
  <2>2. CASE Goto(r, "fetch") /\ UNCHANGED at
    <3>1. task'[r] = "fetch" /\ UNCHANGED known
      BY <1>1, <1>4, <2>2 DEF Goto, ClientType, Resolve
    <3> QED BY <1>1, <1>4, <2>2, <3>1, SameWay DEF Resolve, Fine
  <2> QED BY <1>4, <2>1, <2>2 DEF Resolve
<1>5. CASE Fetch(r)
  <2>1. UNCHANGED <<forge, group>> /\ task[r] = "fetch"
    BY <1>5 DEF Fetch, forgeVars
  <2>2. CASE Says(at[r]) = "there" /\ Learn(r, at[r])
    <3>1. \A n \in Places : n = at[r] => Says(n)' = "there"
      BY <1>1, <2>1, <2>2, SameSays
    <3> QED BY <1>1, <2>1, <2>2, <3>1, LearnWay
  <2>3. CASE /\ Says(at[r]) = "none" /\ forge = "gitlab"
             /\ ParentOf(r, at[r]) /\ UNCHANGED <<known, holder, turn>>
    BY <1>1, <1>3, <2>1, <2>3, ParentWay DEF Fine
  <2>4. CASE Says(at[r]) = "leaving" /\ MoveOn(r, "purge")
    <3>1. task'[r] = "purge" /\ UNCHANGED <<at, known>>
      BY <1>1, <2>4 DEF MoveOn, Goto, ClientType
    <3>2. forge = "gitlab"
      BY <1>1, <2>4 DEF Says, Around
    <3> QED BY <1>1, <2>1, <3>1, <3>2, SameWay DEF Fine
  <2>5. CASE Says(at[r]) = "none" /\ forge = "azuredevops" /\ MoveOn(r, "turn")
    <3>1. task'[r] = "turn" /\ UNCHANGED <<at, known>>
      BY <1>1, <2>5 DEF MoveOn, Goto, ClientType
    <3> QED BY <1>1, <1>3, <2>1, <2>5, <3>1, SameWay DEF Fine
  <2> QED BY <1>5, <2>2, <2>3, <2>4, <2>5 DEF Fetch, MoveOn
<1>6. CASE Purge(r)
  <2>1. task[r] = "purge" /\ task'[r] = "gone" /\ UNCHANGED <<at, known>>
    BY <1>1, <1>6 DEF Purge, Goto, ClientType, cellVars
  <2> QED BY <1>1, <2>1, SameWay DEF Fine, Way
<1>7. CASE AwaitGone(r)
  <2>1. CASE group[at[r]] = "none" /\ ParentOf(r, at[r]) /\ UNCHANGED <<known, holder, turn>>
    <3>1. UNCHANGED <<forge, group>> /\ task[r] = "gone"
      BY <1>7 DEF AwaitGone, forgeVars
    <3> QED BY <1>1, <2>1, <3>1, ParentWay DEF Fine, Way
  <2>2. CASE GiveUp(r)
    BY <1>2, <2>2 DEF GiveUp
  <2> QED BY <1>7, <2>1, <2>2 DEF AwaitGone
<1>8. CASE Post(r)
  BY <1>1, <1>2, <1>8, MakeWay DEF Post, GiveUp
<1>9. CASE Turn(r)
  <2>1. /\ task[r] = "turn" /\ task'[r] = "make" /\ UNCHANGED <<at, known, group>>
    BY <1>1, <1>9 DEF Turn, Goto, ClientType, forgeVars
  <2> QED BY <1>1, <2>1, SameWay DEF Fine, Way
<1>10. CASE Make(r)
  BY <1>1, <1>2, <1>10, MakeWay DEF Make, GiveUp
<1>11. CASE MakeFails(r)
  <2>1. CASE MoveOn(r, "again")
    <3>1. task[r] = "make" /\ task'[r] = "again" /\ UNCHANGED <<at, known>>
      BY <1>1, <1>11, <2>1 DEF MakeFails, MoveOn, Goto, ClientType
    <3> QED BY <1>1, <3>1, SameWay DEF Fine, Way
  <2>2. CASE GiveUp(r)
    BY <1>2, <2>2 DEF GiveUp
  <2> QED BY <1>11, <2>1, <2>2 DEF MakeFails, MoveOn
<1>12. CASE Again(r)
  <2>1. UNCHANGED <<forge, group>> /\ task[r] = "again"
    BY <1>12 DEF Again, forgeVars
  <2>2. CASE Says(at[r]) = "there" /\ Learn(r, at[r])
    <3>1. \A n \in Places : n = at[r] => Says(n)' = "there"
      BY <1>1, <2>1, <2>2, SameSays
    <3> QED BY <1>1, <2>1, <2>2, <3>1, LearnWay
  <2>3. CASE Says(at[r]) = "none" /\ MoveOn(r, "make")
    <3>1. task'[r] = "make" /\ UNCHANGED <<at, known>>
      BY <1>1, <2>3 DEF MoveOn, Goto, ClientType
    <3> QED BY <1>1, <1>3, <2>1, <2>3, <3>1, SameWay DEF Fine, Way
  <2> QED BY <1>12, <2>2, <2>3 DEF Again, MoveOn
<1>13. CASE Create(r)
  <2>1. CASE Goto(r, "done") /\ UNCHANGED known
    <3>1. task'[r] = "done"
      BY <1>1, <2>1 DEF Goto, ClientType
    <3> QED BY <2>1, <3>1 DEF Fine, Way
  <2>2. CASE GiveUp(r)
    BY <1>2, <2>2 DEF GiveUp
  <2> QED BY <1>13, <2>1, <2>2 DEF Create
<1>14. CASE CreateFails(r)
  BY <1>2, <1>14 DEF CreateFails, GiveUp
<1>15. CASE Check(r)
  <2>1. PICK s \in {"done", "resolve"} : task'[r] = s
    BY <1>1, <1>15 DEF Check, Goto, ClientType
  <2>2. UNCHANGED <<forge, at, known>> /\ task[r] = "check"
    BY <1>15 DEF Check, cellVars
  <2>3. /\ Land(r)' = Land(r) /\ Land(r) \in Names /\ at[r] = Land(r)
    BY <2>2, LandIs DEF Land, IInv, HeldBy
  <2>4. \A m \in Prefixes(Land(r)) : ~(Len(m) > Len(at[r]))
    <3>1. Len(Land(r)) \in Nat
      BY <2>3 DEF Names
    <3> QED BY <2>3, <3>1, PrefixOf
  <2> QED BY <2>1, <2>2, <2>3, <2>4 DEF Fine, Way
<1> QED BY <1>4, <1>5, <1>6, <1>7, <1>8, <1>9, <1>10, <1>11, <1>12, <1>13, <1>14, <1>15, CreatingIs
    DEF Creating

LEMMA CreatingKeeps ==
  ASSUME IInv, CreationInv, InheritsMark, NEW r \in Repos, Creating(r),
         UNCHANGED <<phase, loopVars, exit, before, edits>>
  PROVE  CreationInv'
<1>1. UNCHANGED forge /\ task[r] \in CreateStages /\ Apart(r) /\ Effect(r) /\ Fine(r)
  BY CreatingIs, CreatingFine
<1>2. phase' = "creating" /\ step' = "idle"
  BY <1>1 DEF IInv, Staged, Condemned, loopVars
<1>3. Remembered'
  BY <1>1, <1>2, KnownStays DEF CreationInv, Remembered, Fine
<1>4. ASSUME NEW x \in Repos PROVE Way(x)'
  BY <1>1, OtherWay DEF CreationInv, Fine
<1> QED BY <1>3, <1>4 DEF CreationInv

-----------------------------------------------------------------------------
(* The other steps *)

\* Where groups stay and tasks stay at theirs or end, their ways do.
LEMMA SameWays ==
  ASSUME CreationInv, NEW x \in Repos, UNCHANGED <<forge, group, at>>, known \subseteq known',
         task'[x] \in Underway => task'[x] = task[x]
  PROVE  Way(x)'
BY DEF CreationInv, Way, Land, Underway, Making

LEMMA NoWay ==
  ASSUME NEW x \in Repos, task'[x] \notin Underway
  PROVE  Way(x)'
BY DEF Way, Underway, Making

LEMMA NotUnderway ==
  ASSUME IInv, phase # "creating", NEW x \in Repos
  PROVE  task[x] \notin Underway
BY DEF IInv, Staged, Underway, CreateStages

LEMMA DeletingKeeps ==
  ASSUME IInv, CreationInv, NEW r \in Repos, Deleting(r)
  PROVE  CreationInv'
<1>1. UNCHANGED <<forge, group, at, known, phase, step, doing>>
  BY DEF Deleting, cellVars, loopVars, Look, Enable, Drop, ReadBack, Bury, DeleteFails, forgeVars
<1>2. PICK s \in {"done", "failed", "enable", "drop", "readback", "bury"} : Goto(r, s)
  BY DEF Deleting, Look, Enable, Drop, ReadBack, Bury, DeleteFails
<1>3. Remembered'
  BY <1>1, SameSays DEF CreationInv, Remembered, Around
<1>4. ASSUME NEW x \in Repos PROVE Way(x)'
  <2>1. task'[x] \in Underway => task'[x] = task[x]
    BY <1>2, ForgeAndClient DEF Goto, ClientType, Underway, Making
  <2> QED BY <1>1, <2>1, SameWays
<1> QED BY <1>3, <1>4 DEF CreationInv

\* destroy forgets a namespace, and what is in it, before it removes it.
LEMMA RemovingKeeps ==
  ASSUME IInv, CreationInv, InheritsMark, NEW n \in Places, Removing(n)
  PROVE  CreationInv'
<1>1. /\ ForgeType /\ ClientType /\ phase = "removing" /\ Condemned /\ Remembered
      /\ forge \in {"gitlab", "azuredevops"}
      /\ UNCHANGED <<forge, task, at, phase>>
  BY ForgeAndClient, ForgesAre
  DEF Removing, Examine, DropGroup, PurgeGroup, AwaitGroup, RemoveFails, IInv, CreationInv
<1>2. ASSUME NEW x \in Repos PROVE Way(x)'
  BY <1>1, NoWay, NotUnderway
<1>3. CASE Examine(n)
  <2>1. UNCHANGED group /\ step = "idle"
    BY <1>3 DEF Examine, forgeVars
  <2>2. \A m \in known' : m \in known \/ (m = n /\ Says(m) = "there" /\ step' = "idle")
    BY <1>3 DEF Examine, Leave, Forget
  <2>3. step' # "idle" => \A m \in known' : doing' \notin Around(m)
    BY <1>3 DEF Examine, Leave, On, Forget
  <2> QED BY <1>1, <1>2, <2>1, <2>2, <2>3, SameSays DEF CreationInv, Remembered, Around
<1>4. CASE ~Examine(n)
  <2>1. /\ UNCHANGED known
        /\ step' = "idle" \/ doing' = n
        /\ \A m \in Places \ {n} : group'[m] = group[m]
        /\ UNCHANGED group \/ (step # "idle" /\ doing = n /\ n \in todo)
        /\ UNCHANGED group \/ n # Top \/ forge # "gitlab"
    <3>1. forge = "gitlab" => Top \notin Doomed
      BY DEF Doomed
    <3>2. n \in todo /\ forge = "gitlab" => n # Top
      BY <1>1, <3>1 DEF Condemned
    <3> QED BY <1>1, <1>4, <3>2
      DEF Removing, DropGroup, PurgeGroup, AwaitGroup, RemoveFails, AskToPurge, ForgeType, Leave,
          On, Condemned, forgeVars
  <2>2. step' = "idle" \/ (step # "idle" /\ doing' = doing)
    BY <1>1, <1>4
    DEF Removing, DropGroup, PurgeGroup, AwaitGroup, RemoveFails, Leave, On
  <2>3. ASSUME NEW m \in known PROVE Says(m)' = "there"
    <3>1. m \in Places /\ Says(m) = "there"
      BY <1>1 DEF ClientType, Remembered
    <3>2. CASE UNCHANGED group
      BY <1>1, <3>1, <3>2, SameSays
    <3>3. CASE step # "idle" /\ doing = n
      <4>1. n \notin Around(m) /\ m \in Around(m) /\ Around(m) \subseteq Places
        BY <1>1, <3>1, <3>3, AroundIs DEF Remembered
      <4>2. \A k \in Around(m) : group'[k] = group[k]
        BY <2>1, <4>1
      <4> QED BY <1>1, <3>1, <4>1, <4>2, Stays, ThereIs DEF Leaving
    <3> QED BY <2>1, <3>2, <3>3
  <2>4. forge = "gitlab" => group'[Top] = "there"
    BY <1>1, <2>1, PlacesAre DEF Remembered
  <2> QED BY <1>1, <1>2, <2>1, <2>2, <2>3, <2>4 DEF CreationInv, Remembered, Around
<1> QED BY <1>3, <1>4

LEMMA EndKeeps ==
  ASSUME IInv, CreationInv, NEW result, End(result)
  PROVE  CreationInv'
<1>1. /\ UNCHANGED <<forge, group>> /\ known' = {} /\ step' = "idle"
      /\ \A x \in Repos : task'[x] = "idle"
  BY DEF End, forgeVars
<1>2. Remembered'
  BY <1>1 DEF CreationInv, Remembered
<1>3. \A x \in Repos : Way(x)'
  BY <1>1, NoWay DEF Underway, Making
<1> QED BY <1>2, <1>3 DEF CreationInv

LEMMA StartApplyKeeps ==
  ASSUME IInv, CreationInv, StartApply
  PROVE  CreationInv'
<1>1. /\ UNCHANGED <<forge, group>> /\ step' = "idle" /\ phase' = "creating"
      /\ known' = IF forge = "gitlab" THEN {Top} ELSE {}
  BY DEF StartApply, Begin, forgeVars, loopVars, IInv, Condemned
<1>2. Remembered'
  BY <1>1, TopIs, SameSays DEF CreationInv, Remembered
<1>3. ASSUME NEW x \in Repos PROVE Way(x)'
  <2> DEFINE tasks == {r \in Fleet : ~Found(r)}
  <2>1. Begin("creating", tasks, "resolve")
    BY DEF StartApply
  <2> HIDE DEF tasks
  <2>2. /\ task'[x] = "idle" \/ task'[x] = "resolve"
        /\ task'[x] = "resolve" => at'[x] = Land(x)
    BY <2>1 DEF Begin
  <2>3. Land(x)' = Land(x) /\ Land(x) \in Names
    BY <1>1, LandIs DEF Land
  <2>4. Len(Land(x)) \in Nat /\ \A m \in Prefixes(Land(x)) : ~(Len(m) > Len(Land(x)))
    BY <2>3, PrefixOf DEF Names
  <2> QED BY <2>2, <2>3, <2>4 DEF Way, Underway, Making
<1> QED BY <1>2, <1>3 DEF CreationInv

LEMMA StartDestroyKeeps ==
  ASSUME IInv, CreationInv, StartDestroy
  PROVE  CreationInv'
<1>1. UNCHANGED <<forge, group, known>> /\ step' = "idle" /\ known = {}
  BY DEF StartDestroy, forgeVars, IInv, Condemned, CreationInv, Remembered
<1>2. Remembered'
  BY <1>1 DEF CreationInv, Remembered
<1>3. \A x \in Repos : task'[x] \in {"idle", "look"}
  BY DEF StartDestroy, Begin
<1> QED BY <1>2, <1>3, NoWay DEF CreationInv, Underway, Making

LEMMA PhaseKeeps ==
  ASSUME IInv, CreationInv, phase \in {"asking", "deleting"},
         UNCHANGED <<forge, forgeVars, clientVars, loopVars>>
  PROVE  CreationInv'
<1>1. UNCHANGED <<forge, group, known, step, task>> /\ step = "idle" /\ known = {}
  BY DEF forgeVars, clientVars, cellVars, loopVars, IInv, Condemned, CreationInv, Remembered
<1>2. Remembered'
  BY <1>1 DEF CreationInv, Remembered
<1> QED BY <1>1, <1>2, NoWay, NotUnderway DEF CreationInv

LEMMA OthersKeep ==
  ASSUME IInv, CreationInv, Patient, Others
  PROVE  CreationInv'
<1>1. /\ UNCHANGED <<forge, known, step, task, phase>> /\ phase = "idle" /\ step = "idle"
      /\ known = {} /\ Edit /\ ForgeType /\ Remembered
  BY ForgeAndClient
  DEF Others, clientVars, cellVars, loopVars, IInv, Condemned, CreationInv, Remembered
<1>2. forge = "gitlab" => group'[Top] = "there"
  BY <1>1, PlacesAre DEF Edit, CanMake, ForgeType, Remembered
<1>3. Remembered'
  BY <1>1, <1>2 DEF Remembered
<1> QED BY <1>1, <1>3, NoWay, NotUnderway DEF CreationInv

\* What goes is in nothing that is known.
LEMMA ForgeKeeps ==
  ASSUME IInv, CreationInv, InheritsMark, NEW n \in Places, ForgeRemoves(n),
         UNCHANGED <<phase, loopVars>>
  PROVE  CreationInv'
<1>1. /\ ForgeType /\ ClientType /\ Leaving(n) /\ Remembered
      /\ UNCHANGED <<forge, task, at, known, phase, step, doing>>
  BY ForgeAndClient DEF ForgeRemoves, clientVars, cellVars, loopVars, CreationInv
<1>2. \A m \in Places : group'[m] = IF n \in Around(m) THEN "none" ELSE group[m]
  BY <1>1 DEF ForgeRemoves, Vanish
<1>3. ASSUME NEW m \in Places, Says(m) = "there" PROVE Says(m)' = "there" /\ group'[m] = group[m]
  <2>1. n \notin Around(m) /\ group[m] # "none" /\ m \in Around(m) /\ Around(m) \subseteq Places
    BY <1>1, <1>3, ThereIs, AroundIs
  <2>2. group'[m] = group[m]
    BY <1>2, <2>1
  <2>3. \A k \in Around(m) : Leaving(k)' => Leaving(k)
    BY <1>2, <2>1 DEF Leaving
  <2> QED BY <1>1, <1>3, <2>1, <2>2, <2>3, Stays
<1>4. Remembered'
  BY <1>1, <1>3, TopIs, PlacesAre DEF Remembered, ClientType, Around
<1>5. ASSUME NEW x \in Repos PROVE Way(x)'
  <2>1. Way(x) /\ Land(x)' = Land(x) /\ Prefixes(Land(x)) \subseteq Places /\ at[x] \in Places
    BY <1>1, LandIs DEF CreationInv, Land, ClientType
  <2>2. \A m \in Places : group'[m] \in {"none", group[m]}
    BY <1>2
  <2> QED BY <1>1, <2>1, <2>2 DEF Way
<1> QED BY <1>4, <1>5 DEF CreationInv

-----------------------------------------------------------------------------

LEMMA InitCreation == Init => CreationInv
<1> SUFFICES ASSUME Init PROVE CreationInv
  OBVIOUS
<1>1. \A x \in Repos : Way(x)
  BY DEF Init, Way, Underway, Making
<1>2. Remembered
  BY PlacesAre DEF Init, Remembered
<1> QED BY <1>1, <1>2 DEF CreationInv

LEMMA StepCreation ==
  ASSUME Patient, InheritsMark
  PROVE  IInv /\ CreationInv /\ [Next]_vars => CreationInv'
<1> SUFFICES ASSUME IInv, CreationInv, [Next]_vars PROVE CreationInv'
  OBVIOUS
<1>1. CASE ApplyEnds \/ DestroyEnds \/ Kill
  BY <1>1, EndKeeps DEF ApplyEnds, DestroyEnds, Kill
<1>2. CASE Answer \/ DeletesOver
  BY <1>2, EndKeeps, PhaseKeeps DEF Answer, DeletesOver
<1>3. CASE UNCHANGED vars
  <2>1. UNCHANGED <<forge, group, known, at, task, phase, step, doing>>
    BY <1>3 DEF vars, forgeVars, clientVars, cellVars, loopVars
  <2>2. Remembered'
    BY <2>1, SameSays DEF CreationInv, Remembered, Around
  <2> QED BY <2>1, <2>2, SameWays DEF CreationInv
<1> QED BY <1>1, <1>2, <1>3, CreatingKeeps, DeletingKeeps, RemovingKeeps, StartApplyKeeps,
        StartDestroyKeeps, OthersKeep, ForgeKeeps DEF Next, Commands

\* Tasks that need the same new namespace make it once and use it only while it is
\* there, where what is in a group to be deleted says so and nobody meddles with an
\* open question.
THEOREM OnceMade ==
  ASSUME Patient, InheritsMark
  PROVE  Spec => []MadeOnce
<1>1. CreationInv => MadeOnce
  BY DEF CreationInv, Way, Remembered, MadeOnce
<1> QED BY <1>1, InitInv, StepInv, InitCreation, StepCreation, PTL DEF Spec
-----------------------------------------------------------------------------
(* What the exit code says *)

Deletion == {"asking", "deleting", "removing"}

\* Of forgelab's, and still there.
Standing(r) == Found(r) /\ IsOurs(r)

\* A task of apply makes its repository in what the client knows, and one that is through,
\* or was not needed, has it.
CreateDone ==
  \A r \in Repos :
    /\ task[r] = "create" => Land(r) \in known
    /\ r \in Fleet /\ task[r] \in {"idle", "done"} => Found(r)

\* Nothing has been left standing by a task of destroy that is through, ...
Deleted == \A r \in Fleet : task[r] \in {"idle", "done"} => ~Standing(r)

\* ... nor by the loop over the namespaces, ...
Removed == \A n \in (Doomed \ todo) \cap marked : Says(n) = "none"

\* ... and what is deleted but lingers is still being dealt with, or has failed.
Buried ==
  /\ \A r \in Repos : task[r] \in {"readback", "bury"} => repo[r] = "none"
  /\ forge = "gitlab" => \A r \in ghosts \ before : task[r] \in {"readback", "bury", "failed"}

OkInv ==
  /\ phase = "creating" => CreateDone
  /\ phase \in Deletion => Buried /\ (failed \/ (Deleted /\ Removed))
  /\ exit # "none" => phase = "idle"
  /\ OkIsTrue

\* Nothing is found that was not, and of what is not forgelab's nothing becomes it.
LEMMA StandsNot ==
  ASSUME NEW r \in Repos, UNCHANGED forge,
         \A m \in Places : Says(m)' = "there" => Says(m) = "there",
         repo'[r] # "none" => repo[r] # "none",
         repo[r] = "foreign" => repo'[r] \in {"foreign", "none"},
         ~Standing(r)
  PROVE  ~Standing(r)'
<1>1. Land(r)' = Land(r) /\ Land(r) \in Places
  BY LandIs DEF Land
<1>2. \A m \in Places : m = Land(r) => (Says(m)' = "there" => Says(m) = "there")
  OBVIOUS
<1>3. Found(r)' => repo'[r] # "none" /\ Says(Land(r)) = "there"
  BY <1>1, <1>2 DEF Found
<1> QED BY <1>3 DEF Standing, Found, IsOurs

LEMMA FoundStays ==
  ASSUME NEW r \in Repos, UNCHANGED forge, Found(r), repo'[r] # "none",
         \A m \in Places : Says(m) = "there" => Says(m)' = "there"
  PROVE  Found(r)'
<1>1. Land(r)' = Land(r) /\ Land(r) \in Places
  BY LandIs DEF Land
<1>2. \A m \in Places : m = Land(r) => (Says(m) = "there" => Says(m)' = "there")
  OBVIOUS
<1> QED BY <1>1, <1>2 DEF Found

\* What is not there, or going, stays so where nothing is made.
LEMMA AwayStays ==
  ASSUME NEW n \in Places, UNCHANGED forge, group[n] = "none" => group'[n] = "none",
         \A m \in Places : Leaving(m) => Leaving(m)'
  PROVE  /\ Says(n)' = "there" => Says(n) = "there"
         /\ Says(n) = "none" => Says(n)' = "none"
<1>1. n \in Around(n) /\ Around(n) \subseteq Places /\ Around(n)' = Around(n)
  BY AroundIs DEF Around
<1> QED BY <1>1 DEF Says

\* What the forge removes is not in use, nor is anything in it.
LEMMA ForgeTakes ==
  ASSUME IInv, InheritsMark, NEW n \in Places, ForgeRemoves(n)
  PROVE  /\ \A m \in Places : /\ Says(m) = "there" => Says(m)' = "there"
                              /\ Says(m)' = "there" => Says(m) = "there"
                              /\ Says(m) = "none" => Says(m)' = "none"
         /\ \A r \in Repos : /\ repo'[r] \in {repo[r], "none"}
                             /\ Says(Land(r)) = "there" => repo'[r] = repo[r]
         /\ marked' \subseteq marked /\ ghosts' \subseteq ghosts
<1>1. ForgeType /\ Leaving(n) /\ UNCHANGED forge
  BY ForgeAndClient DEF ForgeRemoves
<1>2. /\ \A m \in Places : group'[m] = IF n \in Around(m) THEN "none" ELSE group[m]
      /\ \A r \in Repos : repo'[r] = IF n \in Around(Land(r)) THEN "none" ELSE repo[r]
      /\ marked' \subseteq marked /\ ghosts' \subseteq ghosts
  BY <1>1 DEF ForgeRemoves, Vanish, ForgeType
<1>3. ASSUME NEW m \in Places
      PROVE  /\ Says(m)' = IF n \in Around(m) THEN "none" ELSE Says(m)
             /\ Says(m) = "there" => n \notin Around(m)
  <2>1. CASE n \in Around(m)
    BY <1>1, <1>2, <2>1, ThereIs DEF Says
  <2>2. CASE n \notin Around(m)
    <3>1. \A k \in Around(m) : group'[k] = group[k]
      BY <1>2, <2>2, AroundIs
    <3>2. m \in Around(m) /\ Around(m)' = Around(m)
      BY <1>1, AroundIs DEF Around
    <3> QED BY <1>1, <2>2, <3>1, <3>2 DEF Says, Leaving
  <2> QED BY <2>1, <2>2
<1>4. \A m \in Places : /\ Says(m) = "there" => Says(m)' = "there"
                        /\ Says(m)' = "there" => Says(m) = "there"
                        /\ Says(m) = "none" => Says(m)' = "none"
  BY <1>3
<1>5. \A r \in Repos : /\ repo'[r] \in {repo[r], "none"}
                       /\ Says(Land(r)) = "there" => repo'[r] = repo[r]
  BY <1>2, <1>3, LandIs
<1> QED BY <1>2, <1>4, <1>5

\* Where the forge stays as it is.
LEMMA SameForge ==
  ASSUME UNCHANGED <<forge, forgeVars>>
  PROVE  /\ \A r : Found(r)' = Found(r) /\ IsOurs(r)' = IsOurs(r) /\ Standing(r)' = Standing(r)
         /\ \A n : Says(n)' = Says(n)
         /\ Doomed' = Doomed
BY DEF Found, IsOurs, Standing, Says, Around, Leaving, Land, Doomed, forgeVars

\* Whoever is to make a repository has just learnt of its namespace, or knew it.
LEMMA CreateKnown ==
  ASSUME IInv, NEW r \in Repos, Creating(r), task'[r] = "create"
  PROVE  Land(r) \in known'
<1>1. ClientType
  BY ForgeAndClient
<1>2. \/ Proceed(r, at[r]) /\ at[r] \in known'
      \/ \E s \in {"fetch", "purge", "turn", "resolve", "gone", "make", "again", "done", "check",
                   "failed"} : Goto(r, s)
  BY DEF Creating, Resolve, Fetch, Purge, AwaitGone, Post, Turn, Make, MakeFails, Again, Create,
     CreateFails, Check, Learn, GiveUp, Unwind, ParentOf
<1>3. CASE Proceed(r, at[r]) /\ at[r] \in known'
  BY <1>1, <1>3 DEF Proceed, Goto, ClientType
<1> QED BY <1>1, <1>2, <1>3 DEF Goto, ClientType

LEMMA CreatingDone ==
  ASSUME IInv, CreationInv, OkInv, InheritsMark, NEW r \in Repos, Creating(r),
         UNCHANGED <<phase, loopVars, exit, before, edits>>
  PROVE  OkInv'
<1>1. /\ UNCHANGED forge /\ task[r] \in CreateStages /\ Apart(r) /\ Effect(r) /\ Fine(r)
      /\ ForgeType /\ ClientType
  BY CreatingIs, CreatingFine, ForgeAndClient
<1>2. phase = "creating" /\ phase' = "creating" /\ exit = "none" /\ exit' = "none" /\ CreateDone
  BY <1>1 DEF IInv, Staged, OkInv
<1>3. \A m \in Places : Says(m) = "there" => Says(m)' = "there"
  BY <1>1, KnownStays DEF CreationInv
<1>4. ASSUME NEW x \in Repos, repo[x] # "none" PROVE repo'[x] # "none"
  BY <1>1, <1>4 DEF Effect, MakeGroup, AskToPurge, forgeVars, ForgeType
<1>5. ASSUME NEW x \in Repos, x # r
      PROVE  /\ task'[x] = "create" => Land(x)' \in known'
             /\ x \in Fleet /\ task'[x] \in {"idle", "done"} => Found(x)'
  <2>1. task'[x] = task[x] /\ Land(x)' = Land(x) /\ known \subseteq known'
    BY <1>1, <1>5 DEF Apart, Fine, Land
  <2>2. Found(x) => Found(x)'
    BY <1>1, <1>3, <1>4, FoundStays DEF Found
  <2> QED BY <1>2, <2>1, <2>2 DEF CreateDone
<1>6. task'[r] = "create" => Land(r)' \in known'
  BY <1>1, CreateKnown DEF Land
<1>7. ASSUME task'[r] \in {"idle", "done"} PROVE Found(r)'
  <2>1. task'[r] = "done"
    BY <1>1, <1>7 DEF Apart, CreateStages, Making
  <2>2. CASE Create(r)
    <3>1. Land(r) \in known /\ Land(r) \in Places /\ Land(r)' = Land(r)
      BY <1>1, <1>2, <2>2, LandIs DEF Create, CreateDone, Land
    <3>2. \A m \in Places : m = Land(r) => Says(m)' = "there"
      BY <1>3, <3>1 DEF CreationInv, Remembered
    <3>3. repo'[r] # "none"
      BY <1>1, <2>1, <2>2
      DEF Create, GiveUp, Unwind, Goto, ClientType, ForgeType, forgeVars
    <3> QED BY <3>1, <3>2, <3>3 DEF Found
  <2>3. CASE Check(r)
    BY <1>1, <2>1, <2>3, SameForge DEF Check, Goto, ClientType
  <2>4. \/ Create(r) \/ Check(r)
    <3>1. \/ Create(r) \/ Check(r)
          \/ \E s \in {"create", "fetch", "purge", "turn", "resolve", "gone", "make", "again",
                       "check", "failed", "post"} : Goto(r, s)
      BY DEF Creating, Resolve, Fetch, Purge, AwaitGone, Post, Turn, Make, MakeFails, Again,
         CreateFails, Learn, GiveUp, Unwind, ParentOf, Proceed
    <3> QED BY <1>1, <2>1, <3>1 DEF Goto, ClientType
  <2> QED BY <2>2, <2>3, <2>4
<1>8. CreateDone'
  BY <1>5, <1>6, <1>7 DEF CreateDone
<1> QED BY <1>2, <1>8 DEF OkInv, OkIsTrue, Deletion

LEMMA DeletingDone ==
  ASSUME IInv, OkInv, NEW r \in Repos, Deleting(r)
  PROVE  OkInv'
<1>1. /\ UNCHANGED <<forge, phase, exit, before, group, marked, todo, failed>>
      /\ ForgeType /\ ClientType
  BY ForgeAndClient
  DEF Deleting, cellVars, loopVars, Look, Enable, Drop, ReadBack, Bury, DeleteFails, forgeVars
<1>2. /\ task[r] \in DeleteStages
      /\ \E s \in {"done", "failed", "enable", "drop", "readback", "bury"} : Goto(r, s)
  BY DEF Deleting, Look, Enable, Drop, ReadBack, Bury, DeleteFails, DeleteStages
<1>3. \A x \in Repos \ {r} : task'[x] = task[x]
  BY <1>1, <1>2 DEF Goto, ClientType
<1>4. /\ phase \in {"asking", "deleting"} /\ exit = "none" /\ Buried
      /\ failed \/ (Deleted /\ Removed)
  BY <1>2 DEF IInv, Staged, OkInv, Deletion
<1>5. /\ \A x \in Repos \ {r} : repo'[x] = repo[x]
      /\ repo'[r] # "none" => repo[r] # "none"
      /\ repo[r] = "foreign" => repo'[r] \in {"foreign", "none"}
      /\ ghosts' \subseteq ghosts \cup {r}
  BY <1>1 DEF Deleting, Look, Enable, Drop, ReadBack, Bury, DeleteFails, forgeVars, ForgeType
<1>6. \A m \in Places : Says(m)' = Says(m)
  BY <1>1, SameSays
<1>7. task'[r] \in {"readback", "bury"} => repo'[r] = "none"
  BY <1>1, <1>4
  DEF Deleting, Look, Enable, Drop, ReadBack, Bury, DeleteFails, Goto, Buried, forgeVars, ForgeType,
      ClientType
<1>8. forge = "gitlab" /\ r \in ghosts' \ before => task'[r] \in {"readback", "bury", "failed"}
  BY <1>1, <1>4
  DEF Deleting, Look, Enable, Drop, ReadBack, Bury, DeleteFails, Goto, Buried, forgeVars, ForgeType,
      ClientType
<1>9. Buried'
  BY <1>1, <1>3, <1>4, <1>5, <1>7, <1>8 DEF Buried, ForgeType
<1>10. ASSUME task'[r] \in {"idle", "done"} PROVE ~Standing(r)
  <2>1. ~Found(r) \/ repo[r] = "none"
    BY <1>1, <1>4, <1>10
    DEF Deleting, Look, Enable, Drop, ReadBack, Bury, DeleteFails, Goto, Buried, ClientType
  <2> QED BY <2>1 DEF Standing, Found
<1>11. ASSUME Deleted, NEW x \in Fleet, task'[x] \in {"idle", "done"} PROVE ~Standing(x)'
  <2>1. x \in Repos /\ ~Standing(x)
    BY <1>3, <1>10, <1>11, NamespacesAssumption DEF Deleted
  <2> QED BY <1>1, <1>5, <1>6, <2>1, StandsNot
<1>12. Removed => Removed'
  <2>1. Doomed' = Doomed /\ Doomed \subseteq Places
    BY <1>1, DoomedAre DEF Doomed
  <2> QED BY <1>1, <1>6, <2>1 DEF Removed
<1>13. Deleted => Deleted'
  BY <1>11 DEF Deleted
<1> QED BY <1>1, <1>4, <1>9, <1>12, <1>13 DEF OkInv, OkIsTrue

LEMMA RemovingDone ==
  ASSUME IInv, OkInv, NEW n \in Places, Removing(n)
  PROVE  OkInv'
<1>1. /\ UNCHANGED <<forge, task, phase, exit, before, marked, repo, ghosts>>
      /\ phase = "removing" /\ ForgeType /\ Condemned
  BY ForgeAndClient
  DEF Removing, Examine, DropGroup, PurgeGroup, AwaitGroup, RemoveFails, AskToPurge, forgeVars, IInv
<1>2. exit = "none" /\ Buried /\ (failed \/ (Deleted /\ Removed))
  BY <1>1 DEF OkInv, Deletion
<1>3. Buried'
  BY <1>1, <1>2 DEF Buried
<1>4. failed \in BOOLEAN
  BY DEF IInv, TypeOK
<1>5. ASSUME ~failed' PROVE Deleted' /\ Removed'
  <2>1. ~RemoveFails(n) /\ ~failed
    <3>1. \/ \E ok \in BOOLEAN : Leave(n, ok)
          \/ \E s : On(n, s)
      BY DEF Removing, Examine, DropGroup, PurgeGroup, AwaitGroup, RemoveFails
    <3>2. \A ok \in BOOLEAN : Leave(n, ok) => ok /\ ~failed
      BY <1>4, <1>5, Zenon DEF Leave
    <3>3. \A s : On(n, s) => ~failed
      BY <1>5, Zenon DEF On
    <3> QED BY <3>1, <3>2, <3>3 DEF RemoveFails
  <2>2. /\ \A m \in Places : group[m] = "none" => group'[m] = "none"
        /\ \A m \in Places : Leaving(m) => Leaving(m)'
    BY <1>1, <2>1
    DEF Removing, Examine, DropGroup, PurgeGroup, AwaitGroup, AskToPurge, Leaving, forgeVars,
        ForgeType
  <2>3. ASSUME NEW m \in Places
        PROVE  /\ Says(m)' = "there" => Says(m) = "there"
               /\ Says(m) = "none" => Says(m)' = "none"
    BY <1>1, <2>2, AwayStays
  <2>4. ASSUME NEW x \in Fleet, task'[x] \in {"idle", "done"} PROVE ~Standing(x)'
    <3>1. x \in Repos /\ ~Standing(x)
      BY <1>1, <1>2, <2>1, <2>4, NamespacesAssumption DEF Deleted
    <3> QED BY <1>1, <2>3, <3>1, StandsNot
  <2>5. Doomed' = Doomed /\ Doomed \subseteq Places
    BY <1>1, DoomedAre DEF Doomed
  <2>6. /\ todo' = todo \/ todo' = todo \ {n}
        /\ n \notin todo' => n \notin todo \/ n \notin marked \/ Says(n) = "none"
    BY <1>1, <1>5, <2>1
    DEF Removing, Examine, DropGroup, PurgeGroup, AwaitGroup, Leave, On, Removable, Says
  <2>7. ASSUME NEW m \in (Doomed \ todo') \cap marked PROVE Says(m) = "none"
    BY <1>2, <2>1, <2>6, <2>7 DEF Removed
  <2>8. Removed'
    BY <1>1, <2>3, <2>5, <2>7 DEF Removed
  <2> QED BY <2>4, <2>8 DEF Deleted
<1>6. failed' \/ (Deleted' /\ Removed')
  BY <1>5, Zenon
<1>7. phase' = "removing" /\ exit' = "none"
  BY <1>1, <1>2
<1> QED BY <1>3, <1>6, <1>7 DEF OkInv, OkIsTrue

\* Exit 0 is what is left of a command that has run to its end.
LEMMA EndDone ==
  ASSUME IInv, OkInv, ApplyEnds \/ DestroyEnds \/ Kill \/ (Answer /\ End("failed"))
  PROVE  OkInv'
<1>1. PICK result : End(result) /\ (result = "applied" => ApplyEnds /\ ~TaskFailed)
                    /\ (result = "destroyed" => DestroyEnds /\ ~TaskFailed /\ ~failed)
  BY DEF ApplyEnds, DestroyEnds, Kill
<1>2. /\ UNCHANGED <<forge, forgeVars>> /\ phase' = "idle" /\ exit' = result /\ before' = before
      /\ ClientType
  BY <1>1, ForgeAndClient DEF End
<1>3. ASSUME result = "applied", NEW r \in Fleet PROVE Found(r)
  <2>1. phase = "creating" /\ r \in Repos /\ task[r] \in {"idle", "done"}
    BY <1>1, <1>3, NamespacesAssumption DEF ApplyEnds, TasksOver, TaskFailed
  <2> QED BY <2>1 DEF OkInv, CreateDone
<1>4. ASSUME result = "destroyed"
      PROVE  /\ \A r \in Fleet : ~Standing(r)
             /\ \A n \in Doomed : n \in marked => Says(n) = "none"
             /\ forge = "gitlab" => ghosts \subseteq before
  <2>1. phase = "removing" /\ todo = {} /\ ~failed /\ ~TaskFailed
    BY <1>1, <1>4 DEF DestroyEnds
  <2>2. Buried /\ Deleted /\ Removed
    BY <2>1 DEF OkInv, Deletion
  <2>3. ASSUME NEW r \in Repos PROVE task[r] \in {"idle", "done"}
    <3>1. task[r] \notin CreateStages \cup DeleteStages \cup {"failed"} /\ task[r] \in Stages
      BY <1>2, <2>1 DEF IInv, Staged, TaskFailed, ClientType
    <3> QED BY <3>1 DEF Stages, Asking, CreateStages, DeleteStages, Making
  <2>4. Fleet \subseteq Repos /\ ghosts \subseteq Repos
    BY ForgeAndClient, NamespacesAssumption DEF ForgeType
  <2> QED BY <2>1, <2>2, <2>3, <2>4 DEF Buried, Deleted, Removed
<1>5. OkIsTrue'
  BY <1>2, <1>3, <1>4, SameForge DEF OkIsTrue, Standing, forgeVars
<1> QED BY <1>2, <1>5 DEF OkInv, Deletion

LEMMA StartApplyDone ==
  ASSUME OkInv, StartApply
  PROVE  OkInv'
<1>1. /\ UNCHANGED <<forge, forgeVars>> /\ phase' = "creating" /\ exit' = "none"
      /\ \A r \in Repos : task'[r] = IF r \in Fleet /\ ~Found(r) THEN "resolve" ELSE "idle"
  BY NamespacesAssumption DEF StartApply, Begin
<1>2. CreateDone'
  BY <1>1, SameForge DEF CreateDone
<1> QED BY <1>1, <1>2 DEF OkInv, OkIsTrue, Deletion

LEMMA StartDestroyDone ==
  ASSUME IInv, OkInv, StartDestroy
  PROVE  OkInv'
<1> DEFINE targets == {r \in Fleet : Found(r) /\ IsOurs(r)}
           p == IF targets = {} THEN "removing" ELSE "asking"
<1>1. UNCHANGED <<forge, forgeVars>> /\ todo' = Doomed /\ Begin(p, targets, "look")
  BY DEF StartDestroy
<1>2. p \in {"removing", "asking"} /\ \A r \in Fleet : r \in targets <=> Standing(r)
  BY DEF Standing
<1> HIDE DEF targets, p
<1>3. /\ phase' = p /\ exit' = "none" /\ before' = ghosts /\ ghosts' = ghosts
      /\ \A r \in Repos : task'[r] = IF r \in targets THEN "look" ELSE "idle"
  BY <1>1 DEF Begin, forgeVars
<1>4. Buried'
  BY <1>3 DEF Buried
<1>5. Deleted'
  BY <1>1, <1>2, <1>3, SameForge, NamespacesAssumption DEF Deleted
<1>6. Removed'
  BY <1>1, SameForge DEF Removed
<1> QED BY <1>2, <1>3, <1>4, <1>5, <1>6 DEF OkInv, OkIsTrue

\* A command goes on with its next part.
LEMMA PhaseDone ==
  ASSUME OkInv, phase \in Deletion, phase' \in Deletion,
         UNCHANGED <<forge, forgeVars, task, loopVars, exit, before>>
  PROVE  OkInv'
<1>1. exit' = "none" /\ Buried /\ (failed \/ (Deleted /\ Removed))
  BY DEF OkInv, Deletion
<1>2. UNCHANGED <<repo, ghosts, marked, todo, failed, task, before, forge>>
  BY DEF forgeVars, loopVars
<1>3. Buried' /\ (failed' \/ (Deleted' /\ Removed'))
  BY <1>1, <1>2, SameForge DEF Buried, Deleted, Removed
<1> QED BY <1>1, <1>3 DEF OkInv, OkIsTrue, Deletion

\* What was done stays done, whatever of it goes later.
LEMMA ForgeDone ==
  ASSUME IInv, OkInv, InheritsMark, NEW n \in Places, ForgeRemoves(n),
         UNCHANGED <<phase, loopVars, exit, before, edits>>
  PROVE  OkInv'
<1>1. UNCHANGED <<forge, task, known, phase, todo, failed, exit, before>>
  BY DEF ForgeRemoves, clientVars, cellVars, loopVars
<1>2. /\ \A m \in Places : /\ Says(m) = "there" => Says(m)' = "there"
                           /\ Says(m)' = "there" => Says(m) = "there"
                           /\ Says(m) = "none" => Says(m)' = "none"
      /\ \A r \in Repos : /\ repo'[r] \in {repo[r], "none"}
                          /\ Says(Land(r)) = "there" => repo'[r] = repo[r]
      /\ marked' \subseteq marked /\ ghosts' \subseteq ghosts /\ ghosts \subseteq Repos
  BY ForgeTakes, ForgeAndClient DEF ForgeType
<1>3. ASSUME NEW r \in Repos, Found(r) PROVE Found(r)'
  BY <1>1, <1>2, <1>3, FoundStays DEF Found
<1>4. ASSUME NEW r \in Repos, ~Standing(r) PROVE ~Standing(r)'
  BY <1>1, <1>2, <1>4, StandsNot
<1>5. Doomed' = Doomed /\ Doomed \subseteq Places /\ Fleet \subseteq Repos
  BY <1>1, DoomedAre, NamespacesAssumption DEF Doomed
<1>6. CreateDone => CreateDone'
  <2>1. \A r : Land(r)' = Land(r)
    BY <1>1 DEF Land
  <2> QED BY <1>1, <1>3, <2>1 DEF CreateDone
<1>7. Buried => Buried'
  BY <1>1, <1>2 DEF Buried
<1>8. (Deleted => Deleted') /\ (Removed => Removed')
  BY <1>1, <1>2, <1>4, <1>5 DEF Deleted, Removed
<1>9. OkIsTrue'
  <2>1. exit = "applied" => \A r \in Fleet : Found(r)'
    BY <1>3, <1>5 DEF OkInv, OkIsTrue
  <2>2. ASSUME exit = "destroyed" PROVE \A r \in Fleet : ~Standing(r)'
    BY <1>4, <1>5, <2>2 DEF OkInv, OkIsTrue, Standing
  <2>3. ASSUME exit = "destroyed", NEW m \in Doomed, m \in marked' PROVE Says(m)' = "none"
    BY <1>2, <1>5, <2>3 DEF OkInv, OkIsTrue
  <2>4. exit = "destroyed" /\ forge = "gitlab" => ghosts' \subseteq before
    BY <1>2 DEF OkInv, OkIsTrue
  <2> QED BY <1>1, <1>5, <2>1, <2>2, <2>3, <2>4 DEF OkIsTrue, Standing
<1> QED BY <1>1, <1>6, <1>7, <1>8, <1>9 DEF OkInv

LEMMA InitOk == Init => OkInv
BY DEF Init, OkInv, OkIsTrue, Deletion

LEMMA StepOk ==
  ASSUME Patient, InheritsMark
  PROVE  IInv /\ CreationInv /\ OkInv /\ [Next]_vars => OkInv'
<1> SUFFICES ASSUME IInv, CreationInv, OkInv, [Next]_vars PROVE OkInv'
  OBVIOUS
<1>1. CASE Answer \/ DeletesOver
  BY <1>1, EndDone, PhaseDone DEF Answer, DeletesOver, Deletion, clientVars
<1>2. CASE Others
  BY <1>2 DEF Others, OkInv, OkIsTrue, Deletion
<1>3. CASE UNCHANGED vars
  <2>1. UNCHANGED <<forge, forgeVars, marked, repo, ghosts, task, known, phase, todo, failed, exit,
                    before>>
    BY <1>3 DEF vars, forgeVars, clientVars, cellVars, loopVars
  <2>2. (CreateDone => CreateDone') /\ (Buried => Buried')
        /\ (Deleted => Deleted') /\ (Removed => Removed')
    BY <2>1, SameForge DEF CreateDone, Buried, Deleted, Removed, Land
  <2>3. OkIsTrue'
    BY <2>1, SameForge DEF OkInv, OkIsTrue
  <2> QED BY <2>1, <2>2, <2>3 DEF OkInv
<1> QED BY <1>1, <1>2, <1>3, CreatingDone, DeletingDone, RemovingDone, StartApplyDone,
        StartDestroyDone, EndDone, ForgeDone DEF Next, Commands

\* Exit 0 can be trusted: after apply every declared repository is there, after destroy
\* nothing of forgelab's is, nor what was just deleted under another name, whatever failed,
\* was killed or left half done before, and whatever the forge is still removing.
THEOREM OkCounts ==
  ASSUME Patient, InheritsMark
  PROVE  Spec => []OkIsTrue
<1>1. OkInv => OkIsTrue
  BY DEF OkInv
<1> QED BY <1>1, InitInv, StepInv, InitCreation, StepCreation, InitOk, StepOk, PTL DEF Spec
=============================================================================
