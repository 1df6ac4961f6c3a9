------------------------- MODULE MCMigrationRunner -------------------------
(***************************************************************************)
(* Three releases: one with two files, its successor, and one that differs *)
(* in its second file; and a directory that does not load.                 *)
(***************************************************************************)
EXTENDS MigrationRunner

Row(n, file) == [version |-> n, file |-> file, blank |-> FALSE]

MCSources ==
    {<<Row(1, "a"), Row(2, "b")>>,
     <<Row(1, "a"), Row(2, "b"), Row(3, "c")>>,
     <<Row(1, "a"), Row(2, "x")>>,
     <<Row(1, "a"), Row(3, "c")>>}
=============================================================================
