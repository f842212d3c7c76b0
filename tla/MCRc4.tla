-------------------------------- MODULE MCRc4 --------------------------------
(***************************************************************************)
(* The RC4 state machine on a memory of eight words.  The first byte of    *)
(* the key is zero, as the constant of the top level makes it.             *)
(***************************************************************************)
EXTENDS Rc4Fsm

SmallKeys == {k \in [0 .. 2 -> Cells] : k[0] = 0}
=============================================================================
