----------------------------- MODULE UpdateSlot -----------------------------
(***************************************************************************)
(* What src/update_lock.rs promises its callers: one update slot, held by  *)
(* at most one process at a time, for as long as nobody deletes the lock   *)
(* file of a process that is using it.  The flag `broken` records that     *)
(* such a deletion happened; from then on the slot promises nothing.       *)
(***************************************************************************)
CONSTANT Pids

VARIABLES
  owners,   \* the processes that hold a guard
  broken    \* a lock file in use has been deleted under its owner

slotVars == <<owners, broken>>

SlotInit ==
  /\ owners = {}
  /\ broken = FALSE

Take(p) ==
  /\ p \notin owners
  /\ broken \/ owners = {}
  /\ owners' = owners \cup {p}
  /\ UNCHANGED broken

\* The guard is dropped, or its process dies.
Leave(p) ==
  /\ p \in owners
  /\ owners' = owners \ {p}
  /\ UNCHANGED broken

\* An owner may drop its own guard with the very deletion that breaks the slot.
Break ==
  /\ broken' = TRUE
  /\ \/ UNCHANGED owners
     \/ \E p \in owners : owners' = owners \ {p}

SlotNext ==
  \/ Break
  \/ \E p \in Pids : Take(p) \/ Leave(p)

SlotSpec == SlotInit /\ [][SlotNext]_slotVars

=============================================================================
