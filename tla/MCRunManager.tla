---------------------------- MODULE MCRunManager ----------------------------
(* Two runs: they share the map, the signal, crashes and restarts. *)
EXTENDS RunManager, TLC

CONSTANTS r1, r2
=============================================================================
