---------------------------- MODULE Rc4Fsm_proofs ----------------------------
(***************************************************************************)
(* What one pass of the RC4 state machine does to S, for every size of the *)
(* memory and every key.                                                   *)
(***************************************************************************)
EXTENDS Rc4Fsm, TLAPS

\* A counter is as wide as an address.
LEMMA PlusInCells == \A a, b \in Nat : Plus(a, b) \in Cells
  BY NAssumption DEF Plus, Cells

\* Below the last word a counter does not wrap.
LEMMA PlusOne == \A a \in Cells : a # N - 1 => Plus(a, 1) = a + 1
  BY NAssumption DEF Plus, Cells

\* What the fill has done when it has counted to counter_i.
Filling ==
  /\ state = "Loop1_main" /\ counter_i # 0 =>
       /\ address = counter_i - 1
       /\ data = counter_i - 1
       /\ \A c \in 0 .. counter_i - 2 : mem[c] = c
  /\ FillsAllButLast

\* The states of an iteration up to the first write, and what they add.
Reading ==
  {"Loop2_get_key", "Loop2_read_i", "Loop2_wait_i", "Loop2_read_j", "Loop2_wait_j",
   "Loop2_get_j", "Loop2_swap_j"}

Key == secret_key[counter_i % Key_length]
Si == begun.mem[counter_i]
Sj == begun.mem[begun.j]
NextJ == Plus(begun.j + Key, Si)

Iterating ==
  /\ state \in Reading => mem = begun.mem /\ data = begun.owed
  /\ state \in {"Loop2_get_key", "Loop2_read_i", "Loop2_wait_i", "Loop2_read_j"}
       => counter_j = begun.j
  /\ state = "Loop2_get_key" => key_num = counter_i % Key_length
  /\ state \in {"Loop2_read_i", "Loop2_wait_i", "Loop2_read_j"} => single_sec_key = Key
  /\ state \in {"Loop2_wait_i", "Loop2_read_j"} => address = counter_i
  /\ state = "Loop2_read_j" => q = Si
  /\ state \in {"Loop2_wait_j", "Loop2_get_j", "Loop2_swap_j", "Loop2_swap_i"}
       => counter_j = NextJ /\ data_i = Si
  /\ state \in {"Loop2_wait_j", "Loop2_get_j", "Loop2_swap_j"} => address = begun.j
  /\ state = "Loop2_get_j" => q = Sj
  /\ state \in {"Loop2_swap_j", "Loop2_swap_i"} => data_j = Sj
  /\ state = "Loop2_swap_i" =>
       /\ mem = [begun.mem EXCEPT ![begun.j] = begun.owed]
       /\ address = counter_i
       /\ data = Sj
  /\ IterationEffect

LEMMA Rc4TypeInit == Init => TypeOK
<1> SUFFICES ASSUME Init PROVE TypeOK
  OBVIOUS
<1>1. 0 \in Cells /\ N - 1 \in Cells
  BY NAssumption DEF Cells
<1>2. MemoryTypeOK /\ counter_j \in Cells
  BY <1>1 DEF Init, MemoryInit, MemoryTypeOK
<1>3. begun \in [mem : [Cells -> Cells], j : Cells, owed : Cells]
  BY <1>2 DEF Init, Snapshot, MemoryTypeOK
<1> QED
  BY <1>1, <1>2, <1>3 DEF Init, TypeOK, States, Key_length

LEMMA Rc4TypeNext == TypeOK /\ [Next]_vars => TypeOK'
<1> SUFFICES ASSUME TypeOK, [Next]_vars PROVE TypeOK'
  OBVIOUS
<1> USE DEF TypeOK
<1>1. CASE UNCHANGED vars
  BY <1>1 DEF vars, registers, MemoryTypeOK
<1>2. CASE Next
  <2> USE DEF Pass, Go, registers
  <2>1. /\ counter_i \in Cells /\ counter_j \in Cells /\ single_sec_key \in Cells
        /\ data_i \in Cells /\ data_j \in Cells /\ address \in Cells /\ data \in Cells
        /\ q \in Cells /\ mem \in [Cells -> Cells] /\ 0 \in Cells
    <3>1. 0 \in Cells
      BY NAssumption DEF Cells
    <3> QED
      BY <3>1 DEF MemoryTypeOK
  <2>2. mem' \in [Cells -> Cells] /\ q' \in Cells
    BY <1>2, <2>1 DEF Next, MemoryStep
  <2>3. /\ Plus(counter_i, 1) \in Cells
        /\ Plus(counter_j + single_sec_key, q) \in Cells
    <3>1. Cells \subseteq Nat
      BY NAssumption DEF Cells
    <3>2. counter_j + single_sec_key \in Nat /\ counter_i \in Nat /\ q \in Nat
      BY <2>1, <3>1
    <3> QED
      BY <3>2, PlusInCells
  <2>4. counter_i % Key_length \in 0 .. Key_length - 1
    BY <2>1 DEF Key_length, Cells
  <2>5. secret_key[key_num] \in Cells
    BY SecretsAssumption DEF Key_length
  <2>6. CASE Loop1 \/ Pass("Finish", "Idle")
    BY <1>2, <2>6, <2>1, <2>2, <2>3
       DEF Next, Loop1, Loop1_init, Loop1_main, States, MemoryTypeOK
  <2>7. CASE Loop2
    <3>1. Snapshot \in [mem : [Cells -> Cells], j : Cells, owed : Cells]
      BY <2>1 DEF Snapshot
    <3>2. state' \in States /\ begun' \in [mem : [Cells -> Cells], j : Cells, owed : Cells]
      BY <2>7, <3>1
         DEF Loop2, Loop2_init, Loop2_start, Loop2_get_key, Loop2_read_i, Loop2_read_j,
             Loop2_get_j, Loop2_swap_j, Loop2_swap_i, Loop2_done, States
    <3>3. /\ counter_i' \in Cells /\ counter_j' \in Cells /\ single_sec_key' \in Cells
          /\ data_i' \in Cells /\ data_j' \in Cells
          /\ address' \in Cells /\ data' \in Cells
      BY <2>7, <2>1, <2>3, <2>5
         DEF Loop2, Loop2_init, Loop2_start, Loop2_get_key, Loop2_read_i, Loop2_read_j,
             Loop2_get_j, Loop2_swap_j, Loop2_swap_i, Loop2_done
    <3>4. key_num' \in 0 .. Key_length - 1
      BY <2>7, <2>4
         DEF Loop2, Loop2_init, Loop2_start, Loop2_get_key, Loop2_read_i, Loop2_read_j,
             Loop2_get_j, Loop2_swap_j, Loop2_swap_i, Loop2_done
    <3> QED
      BY <1>2, <3>2, <3>3, <3>4, <2>2 DEF Next, MemoryTypeOK
  <2> QED
    BY <1>2, <2>6, <2>7 DEF Next
<1> QED
  BY <1>1, <1>2

LEMMA FillingNext == TypeOK /\ Filling /\ [Next]_vars => Filling'
<1> SUFFICES ASSUME TypeOK, Filling, [Next]_vars PROVE Filling'
  OBVIOUS
<1>1. CASE UNCHANGED vars
  BY <1>1 DEF vars, registers, Filling, FillsAllButLast
<1>2. CASE Next
  <2>1. /\ counter_i \in Cells /\ counter_i \in Nat /\ address \in Cells
        /\ mem \in [Cells -> Cells] /\ N \in Nat /\ N >= 2
    <3>1. counter_i \in Cells /\ address \in Cells /\ mem \in [Cells -> Cells]
      BY DEF TypeOK, MemoryTypeOK
    <3> QED
      BY <3>1, NAssumption DEF Cells
  <2>2. CASE Loop1_main
    <3>1. /\ address' = counter_i /\ data' = counter_i
          /\ counter_i' = Plus(counter_i, 1)
          /\ state' = IF counter_i = N - 1 THEN "Loop1_done" ELSE "Loop1_main"
          /\ mem' = [mem EXCEPT ![address] = data]
      BY <1>2, <2>2 DEF Loop1_main, Go, Next, MemoryStep, wren
    <3>2. \A c \in 0 .. counter_i - 1 : mem'[c] = c
      <4> SUFFICES ASSUME NEW c \in 0 .. counter_i - 1 PROVE mem'[c] = c
        OBVIOUS
      <4>1. c \in Cells /\ counter_i # 0
        BY <2>1 DEF Cells
      <4>2. address = counter_i - 1 /\ data = counter_i - 1
            /\ \A d \in 0 .. counter_i - 2 : mem[d] = d
        BY <2>2, <4>1 DEF Filling, Loop1_main, Go
      <4>3. CASE c = address
        BY <2>1, <3>1, <4>1, <4>2, <4>3
      <4>4. CASE c # address
        BY <2>1, <3>1, <4>1, <4>2, <4>4
      <4> QED
        BY <4>3, <4>4
    <3>3. CASE counter_i = N - 1
      BY <3>1, <3>2, <3>3, <2>1 DEF Filling, FillsAllButLast
    <3>4. CASE counter_i # N - 1
      <4>1. counter_i' = counter_i + 1 /\ state' = "Loop1_main"
        BY <3>1, <3>4, <2>1, PlusOne
      <4> QED
        BY <3>1, <3>2, <4>1, <2>1 DEF Filling, FillsAllButLast
    <3> QED
      BY <3>3, <3>4
  <2>3. CASE Loop1_init
    BY <2>3 DEF Loop1_init, Go, Filling, FillsAllButLast
  <2>4. CASE ~Loop1_main /\ ~Loop1_init
    <3>1. state' \notin {"Loop1_main", "Loop1_done"}
      BY <1>2, <2>4
         DEF Next, Loop1, Loop2, Loop2_init, Loop2_start, Loop2_get_key, Loop2_read_i,
             Loop2_read_j, Loop2_get_j, Loop2_swap_j, Loop2_swap_i, Loop2_done, Pass, Go
    <3> QED
      BY <3>1 DEF Filling, FillsAllButLast
  <2> QED
    BY <2>2, <2>3, <2>4
<1> QED
  BY <1>1, <1>2

\* The fill leaves the identity in every word but the last, whatever the
\* memory held before.
THEOREM FillCorrect == Spec => []FillsAllButLast
<1>1. Init => Filling
  BY DEF Init, Filling, FillsAllButLast
<1>2. Filling => FillsAllButLast
  BY DEF Filling
<1> QED
  BY <1>1, <1>2, Rc4TypeInit, Rc4TypeNext, FillingNext, PTL DEF Spec
-----------------------------------------------------------------------------
\* Before the iteration starts, and after it, nothing is claimed.
Outside == States \ (Reading \cup {"Loop2_swap_i", "Loop2_done"})

LEMMA OutsideIterating == state \in Outside => Iterating
  BY DEF Outside, Reading, Iterating, IterationEffect

LEMMA IteratingNext == TypeOK /\ Iterating /\ [Next]_vars => Iterating'
<1> SUFFICES ASSUME TypeOK, Iterating, [Next]_vars PROVE Iterating'
  OBVIOUS
<1>1. CASE UNCHANGED vars
  BY <1>1 DEF vars, registers, Iterating, IterationEffect, LateSwap, Key, Si, Sj, NextJ, Reading, Plus, Key_length
<1>2. CASE Next
  <2>1. /\ mem \in [Cells -> Cells] /\ counter_i \in Cells
        /\ begun \in [mem : [Cells -> Cells], j : Cells, owed : Cells]
    BY DEF TypeOK, MemoryTypeOK
  <2>2. UNCHANGED secret_key /\ MemoryStep(wren)
    BY <1>2 DEF Next
  <2>3. CASE state' \in Outside
    BY <2>3 DEF Outside, Reading, Iterating, IterationEffect
  <2>4. CASE Loop2_start
    BY <2>1, <2>2, <2>4
       DEF Loop2_start, Go, Snapshot, MemoryStep, wren, Iterating, IterationEffect, Reading
  <2>5. CASE Loop2_get_key
    <3>1. /\ state' = "Loop2_read_i" /\ single_sec_key' = Key
          /\ mem' = mem /\ mem = begun.mem /\ data = begun.owed /\ counter_j = begun.j
          /\ UNCHANGED <<counter_i, counter_j, data, begun, secret_key>>
      BY <2>2, <2>5 DEF Loop2_get_key, Go, MemoryStep, wren, Iterating, Reading, Key
    <3> QED
      BY <3>1 DEF Iterating, IterationEffect, Reading, Key
  <2>6. CASE Loop2_read_i
    <3>1. /\ state' = "Loop2_wait_i" /\ single_sec_key = Key
          /\ mem' = mem /\ mem = begun.mem /\ data = begun.owed /\ counter_j = begun.j
          /\ address' = counter_i
          /\ UNCHANGED <<counter_i, counter_j, single_sec_key, data, begun, secret_key>>
      BY <2>2, <2>6 DEF Loop2_read_i, Go, MemoryStep, wren, Iterating, Reading, registers
    <3> QED
      BY <3>1 DEF Iterating, IterationEffect, Reading, Key
  <2>7. CASE Pass("Loop2_wait_i", "Loop2_read_j")
    <3>1. /\ state' = "Loop2_read_j" /\ single_sec_key = Key
          /\ mem' = mem /\ mem = begun.mem /\ data = begun.owed /\ counter_j = begun.j
          /\ address = counter_i /\ q' = mem[counter_i]
          /\ UNCHANGED <<counter_i, counter_j, single_sec_key, address, data, begun, secret_key>>
      BY <2>2, <2>7 DEF Pass, Go, MemoryStep, wren, Iterating, Reading, registers
    <3> QED
      BY <3>1 DEF Iterating, IterationEffect, Reading, Key, Si
  <2>8. CASE Loop2_read_j
    <3>1. /\ state' = "Loop2_wait_j" /\ mem' = mem /\ mem = begun.mem /\ data = begun.owed
          /\ counter_j' = Plus(begun.j + Key, Si) /\ data_i' = Si /\ address' = begun.j
          /\ UNCHANGED <<counter_i, data, begun, secret_key>>
      BY <2>2, <2>8 DEF Loop2_read_j, Go, MemoryStep, wren, Iterating, Reading
    <3> QED
      BY <3>1 DEF Iterating, IterationEffect, Reading, Key, Si, NextJ, Plus
  <2>9. CASE Pass("Loop2_wait_j", "Loop2_get_j")
    <3>1. /\ state' = "Loop2_get_j" /\ mem' = mem /\ mem = begun.mem /\ data = begun.owed
          /\ counter_j = NextJ /\ data_i = Si /\ address = begun.j /\ q' = Sj
          /\ UNCHANGED <<counter_i, counter_j, data_i, address, data, begun, secret_key>>
      BY <2>2, <2>9 DEF Pass, Go, MemoryStep, wren, Iterating, Reading, registers, Sj
    <3> QED
      BY <3>1 DEF Iterating, IterationEffect, Reading, Key, Si, Sj, NextJ, Plus
  <2>10. CASE Loop2_get_j
    <3>1. /\ state' = "Loop2_swap_j" /\ mem' = mem /\ mem = begun.mem /\ data = begun.owed
          /\ counter_j = NextJ /\ data_i = Si /\ address = begun.j /\ data_j' = Sj
          /\ UNCHANGED <<counter_i, counter_j, data_i, address, data, begun, secret_key>>
      BY <2>2, <2>10 DEF Loop2_get_j, Go, MemoryStep, wren, Iterating, Reading
    <3> QED
      BY <3>1 DEF Iterating, IterationEffect, Reading, Key, Si, Sj, NextJ, Plus
  <2>11. CASE Loop2_swap_j
    <3>1. /\ state' = "Loop2_swap_i" /\ mem' = [begun.mem EXCEPT ![begun.j] = begun.owed]
          /\ counter_j = NextJ /\ data_i = Si /\ data_j = Sj
          /\ address' = counter_i /\ data' = Sj
          /\ UNCHANGED <<counter_i, counter_j, data_i, data_j, begun, secret_key>>
      BY <2>2, <2>11 DEF Loop2_swap_j, Go, MemoryStep, wren, Iterating, Reading, registers
    <3> QED
      BY <3>1 DEF Iterating, IterationEffect, Reading, Key, Si, Sj, NextJ, Plus
  <2>12. CASE Loop2_swap_i
    <3>1. /\ state' = "Loop2_done"
          /\ mem' = [[begun.mem EXCEPT ![begun.j] = begun.owed] EXCEPT ![counter_i] = Sj]
          /\ counter_j = NextJ /\ address' = counter_j /\ data' = Si
          /\ UNCHANGED <<counter_i, counter_j, begun, secret_key>>
      BY <2>2, <2>12 DEF Loop2_swap_i, Go, MemoryStep, wren, Iterating, registers
    <3> QED
      BY <3>1 DEF Iterating, IterationEffect, LateSwap, Reading, Key, Si, Sj, NextJ, Plus
  <2>13. CASE Loop1 \/ Loop2_init \/ Loop2_done \/ Pass("Finish", "Idle")
    <3>1. state' \in Outside
      BY <2>13 DEF Loop1, Loop1_init, Loop1_main, Loop2_init, Loop2_done, Pass, Go, Outside, States, Reading
    <3> QED
      BY <3>1, <2>3
  <2> QED
    BY <1>2, <2>4, <2>5, <2>6, <2>7, <2>8, <2>9, <2>10, <2>11, <2>12, <2>13 DEF Next, Loop2
<1> QED
  BY <1>1, <1>2

LEMMA AlwaysIterating == Spec => [](TypeOK /\ Iterating)
<1>1. Init => Iterating
  BY OutsideIterating DEF Init, Outside, States, Reading
<1> QED
  BY <1>1, Rc4TypeInit, Rc4TypeNext, IteratingNext, PTL DEF Spec

\* The word taken for S[i] is S[i] at the start of the iteration and still now.
THEOREM ReadsSiCorrect == Spec => []ReadsSi
<1>1. Iterating => ReadsSi
  BY DEF Iterating, ReadsSi, Reading, Si
<1> QED
  BY <1>1, AlwaysIterating, PTL

\* Every iteration of the key schedule, of any key on a memory of any size,
\* has the effect LateSwap and not that of a swap.
THEOREM IterationCorrect == Spec => []IterationEffect
<1>1. Iterating => IterationEffect
  BY DEF Iterating
<1> QED
  BY <1>1, AlwaysIterating, PTL

(* The registers and the memory of rc4_FSM keep to their widths, for every  *)
(* size of the memory and every key.                                        *)
THEOREM Rc4TypeCorrect == Spec => []TypeOK
  BY Rc4TypeInit, Rc4TypeNext, PTL DEF Spec
=============================================================================
