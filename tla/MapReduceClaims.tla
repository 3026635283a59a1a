-------------------------- MODULE MapReduceClaims --------------------------
(***************************************************************************)
(* What the tests of the MapReduce library wait for and the code does not  *)
(* always do.  TLC refutes it.                                             *)
(***************************************************************************)
EXTENDS MCMapReduce

\* test_test.go, TestOneFailure: with one worker that leaves and one that stays, the
\* master gets to send on DoneChannel ("Wait until MR is done").
DoneDespiteFailure == <>(mpc = "end")

=============================================================================
