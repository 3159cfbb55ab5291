------------------------------- MODULE MCPerf -------------------------------
(* Two streams; plans with a spread of sizes, with ties among the smallest *)
(* files, and with one size only.                                          *)
EXTENDS Perf

Plans == {<<2, 1, 1>>, <<1, 1>>, <<2, 0>>}
=============================================================================
