---------------------------- MODULE MCMutationGate ----------------------------
(* MutationGate for TLC: a request thread, the scheduler thread and the two   *)
(* executor threads.                                                          *)
EXTENDS MutationGate

CONSTANT r1

MCOneRequest == {r1}
=============================================================================
