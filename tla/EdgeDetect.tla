----------------------------- MODULE EdgeDetect ------------------------------
(***************************************************************************)
(* edge_detect: turns a rising edge of async_sig into a pulse of one cycle *)
(* of outclk.  FF_A is clocked by async_sig and cleared asynchronously;    *)
(* the other three are clocked by outclk, one behind the other.            *)
(***************************************************************************)
EXTENDS Naturals

VARIABLES Q_A, Q_B, Q_C, Q_D

detectorVars == <<Q_A, Q_B, Q_C, Q_D>>

DetectorInit == Q_A = FALSE /\ Q_B = FALSE /\ Q_C = FALSE /\ Q_D = FALSE

out_sync_sigLong == Q_C                         \* mutant: a level for a pulse
out_sync_sig == ~Q_D /\ Q_C

\* FF_A around an edge of outclk at which async_sig goes from was to is.
\* Where the clear ends at the very edge that clocks the flip-flop, which of
\* the two wins is not defined.
FF_AUncleared(was, is) ==                       \* mutant: the clear is left open
  Q_A' = (Q_A \/ (is /\ ~was))

FF_A(was, is) ==
  LET clocked == is /\ ~was
      clear == ~is /\ Q_C'
  IN \/ clear /\ Q_A' = FALSE
     \/ clocked /\ Q_A' = TRUE
     \/ clocked /\ Q_C /\ Q_A' = FALSE
     \/ ~clear /\ ~clocked /\ UNCHANGED Q_A

DetectorStepShort(was, is) ==                   \* mutant: one flip-flop left out
  /\ Q_B' = Q_A
  /\ Q_C' = Q_A
  /\ Q_D' = Q_C
  /\ FF_A(was, is)

DetectorStep(was, is) ==
  /\ Q_B' = Q_A
  /\ Q_C' = Q_B
  /\ Q_D' = Q_C
  /\ FF_A(was, is)
=============================================================================
