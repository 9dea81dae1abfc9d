------------------------------ MODULE MCDaemon ------------------------------
(***************************************************************************)
(* Two daemon processes in turn or at once, and two commands.            *)
(***************************************************************************)
EXTENDS Daemon

CONSTANTS d1, d2, k1, k2

MCPids == {d1, d2}
MCCtls == {k1, k2}

=============================================================================
