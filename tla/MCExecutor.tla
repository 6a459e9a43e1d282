----------------------------- MODULE MCExecutor -----------------------------
(* Small instances of Executor: a diamond a -> {b, c} -> d, and a pipeline x, *)
(* y of independent jobs that competes with it for the workers.               *)
EXTENDS ExecutorInvariant, TLC

CONSTANTS P, Q, a, b, c, d, x, y, w1, w2

DiamondOf == (a :> P) @@ (b :> P) @@ (c :> P) @@ (d :> P)
DiamondDeps == (a :> {}) @@ (b :> {a}) @@ (c :> {a}) @@ (d :> {b, c})

TwoOf == DiamondOf @@ (x :> Q)
TwoDeps == DiamondDeps @@ (x :> {})

WorkerSymmetry == Permutations(Workers)
=============================================================================
