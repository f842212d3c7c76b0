----------------------------- MODULE AsyncTrap -------------------------------
(***************************************************************************)
(* async_trap_and_reset, a binary in the repository: it traps a rising     *)
(* edge of its input and gives one pulse in step with its output clock     *)
(* some cycles later.  A trap counts down to its pulse; 0 is an idle trap. *)
(***************************************************************************)
EXTENDS Naturals

CONSTANT Sync           \* the longest time to the pulse

ASSUME SyncAssumption == Sync \in Nat \ {0}

Trap == 0 .. Sync

Fires(trap) == trap = 1

\* The values a trap may have after a cycle in which its input rose or not.
Trapped(trap, rose) ==
  IF rose THEN 1 .. Sync ELSE {IF trap = 0 THEN 0 ELSE trap - 1}
=============================================================================
