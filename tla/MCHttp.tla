-------------------------------- MODULE MCHttp --------------------------------
(***************************************************************************)
(* GitHub for TLC: three writes that want the lane of the REST client, one *)
(* of them a create, and a GraphQL query beside them.                      *)
(***************************************************************************)
EXTENDS Http

Methods == [r \in Requests |-> IF r \in {"create", "query"} THEN "POST" ELSE "PUT"]

Classifiers ==
  [r \in Requests |-> IF r = "query" THEN "github_graphql" ELSE "github"]

Answer(status, after, exhausted, reset, body) ==
  [status |-> status, after |-> after, exhausted |-> exhausted, reset |-> reset,
   body |-> body]

\* One of each kind a classifier tells apart, rate limits short and long.
GitHubAnswers ==
  {Answer(200, {}, FALSE, {}, "some"),
   Answer(200, {}, FALSE, {}, "empty"),
   Answer(200, {}, TRUE, {1}, "RATE_LIMITED"),
   Answer(422, {}, FALSE, {}, "some"),
   Answer(403, {}, FALSE, {1}, "secondary rate limit"),
   Answer(403, {}, TRUE, {-1}, "some"),
   Answer(403, {}, TRUE, {4}, "some"),
   Answer(429, {0}, FALSE, {}, "some"),
   Answer(503, {}, FALSE, {}, "some")}
=============================================================================
