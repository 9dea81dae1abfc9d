---------------------------- MODULE MCUpdateLock ----------------------------
(***************************************************************************)
(* The update lock with one daemon and one or two commands.                *)
(***************************************************************************)
EXTENDS UpdateLock

CONSTANTS d, c1, c2

MCPids == {d, c1, c2}
MCCli == {c1, c2}
MCDaemon == {d}
MCRecycled == {d, c1}

=============================================================================
