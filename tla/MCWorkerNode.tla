---------------------------- MODULE MCWorkerNode ----------------------------
(* Small instances of WorkerNode.  Slots, Executions and Sandbox ids are   *)
(* interchangeable.                                                        *)
EXTENDS WorkerNode, TLC

NodeSymmetry ==
    Permutations(Slots) \union Permutations(Executions) \union Permutations(Sandboxes)
=============================================================================
