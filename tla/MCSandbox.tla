------------------------------ MODULE MCSandbox ------------------------------
(***************************************************************************)
(* Instances of Sandbox for TLC: fleets small enough to check, chosen so   *)
(* that editing the fleet changes what matters.                            *)
(***************************************************************************)
EXTENDS Sandbox

CONSTANTS
  s1, s2,  \* the seed commits of two versions of a fixture
  t1       \* a commit a test makes

Plain(seed) ==
  [default |-> "main", visibility |-> "private", topics |-> "none",
   archived |-> FALSE, empty |-> FALSE, tags |-> {"v1"}, baseline |-> seed]

\* The default branch is renamed, a tag dropped, the content edited.
Renamed == [Plain(s2) EXCEPT !.default = "dev", !.tags = {}]

Empty == [Plain(s1) EXCEPT !.empty = TRUE, !.tags = {}]

Frozen == [Plain(s1) EXCEPT !.archived = TRUE]

Labelled == [Plain(s2) EXCEPT !.topics = "some", !.visibility = "public"]

\* One repository, edited once or twice.
One(want) == [n \in {"a"} |-> want]

OneRenamed == << One(Plain(s1)), One(Renamed) >>

OneFrozen == << One(Plain(s1)), One(Frozen) >>

OneReshaped == << One(Plain(s1)), One(Renamed), One(Frozen) >>

OneRelabelled == << One(Plain(s1)), One(Labelled) >>

OneFilled == << One(Empty), One(Plain(s2)) >>

\* Two repositories, one of them empty: that one is given content, or dropped.
Two ==
  << [n \in {"a", "b"} |-> IF n = "a" THEN Plain(s1) ELSE Empty],
     [n \in {"a", "b"} |-> IF n = "a" THEN Renamed ELSE Plain(s2)],
     [n \in {"a"} |-> Renamed] >>

\* Two repositories with content; one has it edited,
\* is labelled and made public, and loses its tag.
Both ==
  << [n \in {"a", "b"} |-> Plain(s1)],
     [n \in {"a", "b"} |-> IF n = "a" THEN [Labelled EXCEPT !.tags = {}] ELSE Plain(s1)] >>
=============================================================================
