--------------------------- MODULE Rc4Task1_proofs ---------------------------
(***************************************************************************)
(* The fill of task 1, for every size of the memory.                       *)
(***************************************************************************)
EXTENDS Rc4Task1, TLAPS

LEMMA CellFacts ==
  /\ 0 \in Cells
  /\ \A c \in Cells : Plus(c, 1) \in Cells
  /\ \A c \in Cells : c # N - 1 => Plus(c, 1) = c + 1
  BY NAssumption DEF Cells, Plus

(* What the pass has done when it has counted to counter; the word chosen  *)
(* last is still in the registers.                                         *)
Filling ==
  /\ address = data
  /\ state = "counter_increment" /\ counter # 0 =>
       /\ address = counter - 1
       /\ \A c \in 0 .. counter - 2 : mem[c] = c
  /\ PassFillsAllButLast

Inv == TypeOK /\ Filling

LEMMA Task1Init == Init => Inv
<1> SUFFICES ASSUME Init PROVE Inv
  OBVIOUS
<1>1. MemoryTypeOK
  BY CellFacts DEF Init, MemoryInit, MemoryTypeOK
<1>2. TypeOK
  BY <1>1, CellFacts DEF Init, TypeOK, States
<1>3. Filling
  BY DEF Init, MemoryInit, Filling, PassFillsAllButLast
<1> QED
  BY <1>2, <1>3 DEF Inv

(* What the memory does in a cycle, the registers being alike.             *)
LEMMA WriteFacts ==
  ASSUME Inv, MemoryStep(wren)
  PROVE  /\ mem' \in [Cells -> Cells] /\ q' \in Cells
         /\ \A c \in Cells : mem[c] = c => mem'[c] = c
         /\ wren => mem'[address] = address
  BY DEF Inv, TypeOK, MemoryTypeOK, Filling, MemoryStep

LEMMA Task1Next == Inv /\ [Next]_vars => Inv'
<1> SUFFICES ASSUME Inv, [Next]_vars PROVE Inv'
  OBVIOUS
<1>1. CASE UNCHANGED vars
  BY <1>1 DEF Inv, vars, TypeOK, MemoryTypeOK, Filling, PassFillsAllButLast
<1>2. CASE Next
  <2>1. /\ mem' \in [Cells -> Cells] /\ q' \in Cells
        /\ \A c \in Cells : mem[c] = c => mem'[c] = c
        /\ wren => mem'[address] = address
    BY <1>2, WriteFacts DEF Next
  <2>2. /\ mem \in [Cells -> Cells] /\ address \in Cells /\ data \in Cells
        /\ counter \in Cells /\ address = data
    BY DEF Inv, TypeOK, MemoryTypeOK, Filling
  <2>3. CASE Idle
    BY <2>1, <2>2, <2>3
       DEF Idle, Inv, TypeOK, MemoryTypeOK, States, Filling, PassFillsAllButLast
  <2>4. CASE InitCounter
    BY <2>1, <2>2, <2>4, CellFacts
       DEF InitCounter, Inv, TypeOK, MemoryTypeOK, States, Filling, PassFillsAllButLast
  <2>5. CASE CounterIncrement
    <3>1. TypeOK'
      BY <2>1, <2>2, <2>5, CellFacts DEF CounterIncrement, TypeOK, MemoryTypeOK, States
    <3>2. \A c \in 0 .. counter - 1 : mem'[c] = c
      <4>1. CASE counter = 0
        BY <4>1
      <4>2. CASE counter # 0
        <5>1. address = counter - 1 /\ \A c \in 0 .. counter - 2 : mem[c] = c
          BY <2>5, <4>2 DEF CounterIncrement, Inv, Filling
        <5>2. mem'[counter - 1] = counter - 1
          BY <2>1, <2>5, <5>1 DEF CounterIncrement, wren
        <5>3. \A c \in 0 .. counter - 2 : c \in Cells /\ mem'[c] = c
          BY <2>1, <2>2, <5>1, NAssumption DEF Cells
        <5>4. \A c \in 0 .. counter - 1 : c \in 0 .. counter - 2 \/ c = counter - 1
          BY <2>2, NAssumption DEF Cells
        <5> QED
          BY <5>2, <5>3, <5>4
      <4> QED
        BY <4>1, <4>2
    <3>3. CASE counter = N - 1
      <4>1. \A c \in 0 .. N - 2 : mem'[c] = c
        <5>1. counter - 1 = N - 2
          BY <3>3, NAssumption
        <5> QED
          BY <3>2, <5>1
      <4>2. state' = "finish" /\ address' = data'
        BY <2>5, <3>3 DEF CounterIncrement
      <4> QED
        BY <3>1, <4>1, <4>2 DEF Inv, Filling, PassFillsAllButLast
    <3>4. CASE counter # N - 1
      <4>1. counter' = counter + 1 /\ counter' - 1 = counter /\ counter' - 2 = counter - 1
        <5>1. counter' = counter + 1
          BY <2>2, <2>5, <3>4, CellFacts DEF CounterIncrement
        <5>2. counter \in Nat
          BY <2>2, NAssumption DEF Cells
        <5> QED
          BY <5>1, <5>2
      <4> QED
        BY <2>5, <3>1, <3>2, <3>4, <4>1 DEF CounterIncrement, Inv, Filling, PassFillsAllButLast
    <3> QED
      BY <3>3, <3>4
  <2>6. CASE Finish
    BY <2>1, <2>2, <2>6
       DEF Finish, Inv, TypeOK, MemoryTypeOK, States, Filling, PassFillsAllButLast
  <2> QED
    BY <1>2, <2>3, <2>4, <2>5, <2>6 DEF Next
<1> QED
  BY <1>1, <1>2

LEMMA AlwaysInv == Spec => []Inv
  BY Task1Init, Task1Next, PTL DEF Spec

(* The registers and the memory of rc4_task1 keep to their widths.         *)
THEOREM Task1TypeCorrect == Spec => []TypeOK
<1>1. Inv => TypeOK
  BY DEF Inv
<1> QED
  BY <1>1, AlwaysInv, PTL

(* When a pass of rc4_task1 reaches finish, every word but the last is     *)
(* written.                                                                *)
THEOREM Task1FillCorrect == Spec => []PassFillsAllButLast
<1>1. Inv => PassFillsAllButLast
  BY DEF Inv, Filling
<1> QED
  BY <1>1, AlwaysInv, PTL

(* Later passes of rc4_task1, which fill S over and over, undo nothing.    *)
THEOREM Task1StableCorrect == Spec => WordsStayRight
<1>1. Inv /\ [Next]_vars => [\A c \in Cells : mem[c] = c => mem'[c] = c]_vars
  <2> SUFFICES ASSUME Inv, [Next]_vars
               PROVE  [\A c \in Cells : mem[c] = c => mem'[c] = c]_vars
    OBVIOUS
  <2> QED
    BY WriteFacts DEF Next
<1> QED
  BY <1>1, AlwaysInv, PTL DEF Spec, WordsStayRight
=============================================================================
