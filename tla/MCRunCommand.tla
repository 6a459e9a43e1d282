----------------------------- MODULE MCRunCommand -----------------------------
(* A project with two pipelines.                                                *)
EXTENDS RunCommand
===============================================================================
