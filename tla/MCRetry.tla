-------------------------------- MODULE MCRetry --------------------------------
(* A small instance of Retry for TLC: the two tasks that hold an NpmClient.   *)
EXTENDS Retry, TLC

CONSTANTS writer, reconciler

TaskSymmetry == Permutations({writer, reconciler})
=============================================================================
