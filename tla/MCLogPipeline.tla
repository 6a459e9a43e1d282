---------------------------- MODULE MCLogPipeline ----------------------------
(* Two streams, two live readers with a channel of one line, and chunks that *)
(* hold part of a line, its end, and two lines at once.                      *)
EXTENDS LogPipeline, TLC

CONSTANTS s1, s2

MCChunks == {<<"c">>, <<"c", "n">>, <<"n", "n", "c">>}
=============================================================================
