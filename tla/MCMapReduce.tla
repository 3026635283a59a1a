---------------------------- MODULE MCMapReduce ----------------------------
(***************************************************************************)
(* MapReduce for TLC: the workers are the model values w1 and w2.          *)
(***************************************************************************)
EXTENDS MapReduce

CONSTANTS w1, w2

=============================================================================
