------------------------------ MODULE FsmSlave -------------------------------
(***************************************************************************)
(* The flash reader of the iPod player (FSM_Slave): it answers one start   *)
(* pulse with a read request on the Avalon bus and a one-cycle finish      *)
(* pulse.  return_data is clocked by the flash's readdatavalid, not by the *)
(* state machine.                                                          *)
(***************************************************************************)
VARIABLES
  slave,                \* state of the slave
  return_data           \* word last delivered by the flash

slaveVars == <<slave, return_data>>

SlaveStates == {"idle", "handle_read_op", "wait_read", "strobe_read", "finished"}

\* Moore outputs: bits 1 and 0 of the state encoding.
flash_read == slave \in {"handle_read_op", "wait_read", "strobe_read"}
slave_finish == slave = "finished"

SlaveInit(noWord) ==
  /\ slave = "idle"
  /\ return_data = noWord

SlaveMove(from, cond, to) ==
  /\ slave = from
  /\ slave' = IF cond THEN to ELSE from

SlaveAwaitsWait(start, waitrequest) ==          \* mutant: waitrequest inverted
  \/ SlaveMove("idle", start, "handle_read_op")
  \/ SlaveMove("handle_read_op", TRUE, "wait_read")
  \/ SlaveMove("wait_read", waitrequest, "strobe_read")
  \/ SlaveMove("strobe_read", TRUE, "finished")
  \/ SlaveMove("finished", TRUE, "idle")

SlaveStep(start, waitrequest) ==
  \/ SlaveMove("idle", start, "handle_read_op")
  \/ SlaveMove("handle_read_op", TRUE, "wait_read")
  \/ SlaveMove("wait_read", ~waitrequest, "strobe_read")
  \/ SlaveMove("strobe_read", TRUE, "finished")
  \/ SlaveMove("finished", TRUE, "idle")

\* always_ff @(posedge ready_to_read): the data bus is latched when
\* readdatavalid rises, and ignored while it stays high.
LatchReturnData(rising, flash_data) ==
  return_data' = IF rising THEN flash_data ELSE return_data
=============================================================================
