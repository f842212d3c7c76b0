------------------------------- MODULE MCIPod --------------------------------
(***************************************************************************)
(* Instances of the iPod player for TLC.  TightGap is the shortest spacing *)
(* of sample pulses at which a whole read of the flash fits between two of *)
(* them; one cycle less and FirstSampleFresh fails.                        *)
(***************************************************************************)
EXTENDS IPod

TightGap == Latency + MaxWait + 5
TightGapPlusOne == TightGap + 1
=============================================================================
