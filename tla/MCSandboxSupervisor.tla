------------------------ MODULE MCSandboxSupervisor ------------------------
(* Small instances of SandboxSupervisor.  Connections, Sandbox ids and     *)
(* Execution ids are interchangeable.                                      *)
EXTENDS SandboxSupervisor, TLC

Perms ==
    Permutations(Operations) \union Permutations(SandboxIds) \union Permutations(ExecutionIds)
=============================================================================
