-------------------------- MODULE MCExecutionQueue --------------------------
(* Model values and symmetry for the TLC runs of ExecutionQueue.           *)
EXTENDS ExecutionQueue, TLC

CONSTANTS w1, w2, e1, e2, s1, s2, r1, r2

TwoWorkers == {w1, w2}
OneWorker == {w1}
TwoExecutions == {e1, e2}
TwoSandboxes == {s1, s2}
OneSandbox == {s1}
TwoResults == {r1, r2}
OneResult == {r1}

(* The members of each set play the same part in Init, Next and the        *)
(* properties checked with the symmetry: only safety properties are.       *)
ContentionSymmetry == Permutations(TwoWorkers) \union Permutations(TwoExecutions)
=============================================================================
