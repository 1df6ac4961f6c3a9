--------------------------- MODULE MCInitHandshake ---------------------------
(* The TLC run of InitHandshake: handshake.cfg names the processes.        *)
EXTENDS InitHandshake
=============================================================================
