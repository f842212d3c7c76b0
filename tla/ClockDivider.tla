---------------------------- MODULE ClockDivider -----------------------------
(***************************************************************************)
(* Clock_Divider: outclk toggles every div_clk_count + 1 cycles of inclk.  *)
(* Every instance of the labs holds Reset low.                             *)
(***************************************************************************)
EXTENDS Naturals

VARIABLES count, outclk

dividerVars == <<count, outclk>>

DividerInit == count = 0 /\ outclk = FALSE

DividerStep(div_clk_count) ==
  IF count < div_clk_count
    THEN count' = count + 1 /\ UNCHANGED outclk
    ELSE count' = 0 /\ outclk' = ~outclk
=============================================================================
