--------------------------- MODULE MCJobExecution ---------------------------
(* A job that makes two artifacts and a job that needs both and makes one. *)
EXTENDS JobExecution, TLC

CONSTANTS p, q, x, y, z

MCSteps == (p :> 2) @@ (q :> 1)
MCMakes == (p :> <<x, y>>) @@ (q :> <<z>>)
MCNeeds == (p :> <<>>) @@ (q :> <<x, y>>)
=============================================================================
