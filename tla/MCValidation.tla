---------------------------- MODULE MCValidation ----------------------------
(* Three jobs with every choice of up to two dependencies, and two jobs with *)
(* equal or different names, artifacts, requirements and releases.           *)
EXTENDS Validation

CONSTANTS a, b, c, z, u, v

Upto(S, n) == UNION {[1..k -> S] : k \in 0..n}

Graphs ==
  LET Lists == {[i \in DOMAIN s |-> [job |-> s[i], requires |-> <<>>]] : s \in Upto({a, b, c, z}, 2)} IN
  {[fields |-> TRUE, releases |-> <<>>,
    jobs |-> [i \in 1..3 |-> [name |-> <<a, b, c>>[i], artifacts |-> <<>>, deps |-> f[i]]]] :
     f \in [1..3 -> Lists]}

Lists ==
  LET Requires == {<<>>, <<u>>, <<u, u>>, <<v>>}
      Deps == {<<>>} \cup {<<[job |-> n, requires |-> r]>> : n \in {a, z}, r \in Requires}
      SmallJobs == [name : {a, b}, artifacts : {<<>>, <<u>>, <<u, u>>}, deps : Deps]
      R == [job |-> a, name |-> u]
  IN [fields : {TRUE}, jobs : Upto(SmallJobs, 2), releases : {<<>>, <<R>>, <<R, R>>}]

Bad == {[fields |-> FALSE, jobs |-> p.jobs, releases |-> <<>>] : p \in {q \in Lists : Len(q.jobs) < 2}}

MCInputs == Graphs \cup Lists \cup Bad
=============================================================================
