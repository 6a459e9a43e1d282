------------------------- MODULE MCGitHubIntegration -------------------------
(* A delivery that finds one or two rows: a push to main selects two pipelines  *)
(* of one user, a tag one, and a release the same pipeline of both users, whose *)
(* runs replace each other's asset.                                             *)
EXTENDS GitHubIntegration

CONSTANTS d1, o1, o2, main, dev, any, none

Ref(kind, name) == [kind |-> kind, name |-> name]
MCEvents ==
  {[kind |-> "push", ref |-> Ref("branch", main)], [kind |-> "push", ref |-> Ref("tag", main)]}
  \cup {[kind |-> "release", action |-> "published", draft |-> b] : b \in BOOLEAN}

\* o1 tracks main or every ref, o2 another branch or nothing.
MCRows == {[o \in {o1, o2} |-> IF o = o1 THEN b ELSE c] : b \in {main, any}, c \in {dev, none}}

Release(names) == [on |-> "unset", artifacts |-> names]
MCPipelines == <<
  [name |-> "app", github |-> TRUE, push |-> [branches |-> {{main}}, tags |-> {}],
   release |-> Release(<<[asset |-> "app.tar"], [asset |-> "docs.tar"]>>)],
  [name |-> "lint", github |-> FALSE, push |-> none, release |-> none] >>
==============================================================================
