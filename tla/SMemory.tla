------------------------------ MODULE SMemory --------------------------------
(***************************************************************************)
(* The S memory of the RC4 lab: a single-port RAM of N words that are      *)
(* themselves addresses.  Its address, data and write-enable inputs are    *)
(* sampled at the clock edge; after the edge q shows the word addressed    *)
(* before it, and a write shows the word just written.                     *)
(***************************************************************************)
EXTENDS Naturals

CONSTANT N              \* words of the memory: 256

ASSUME NAssumption == N \in Nat \ {0, 1}

VARIABLES
  mem,                  \* contents
  q,                    \* output
  address,              \* address register of the state machine
  data                  \* data register of the state machine

memoryVars == <<mem, q>>

Cells == 0 .. N - 1

MemoryTypeOK ==
  /\ mem \in [Cells -> Cells]
  /\ q \in Cells
  /\ address \in Cells
  /\ data \in Cells

MemoryInit ==
  /\ mem = [c \in Cells |-> 0]
  /\ q = 0
  /\ address = 0
  /\ data = 0

MemoryStep(wren) ==
  /\ mem' = IF wren THEN [mem EXCEPT ![address] = data] ELSE mem
  /\ q' = IF wren THEN data ELSE mem[address]

\* Counters as wide as an address.
Plus(a, b) == (a + b) % N
=============================================================================
