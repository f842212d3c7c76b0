------------------------------- MODULE Rc4Fsm --------------------------------
(***************************************************************************)
(* The state machine of the RC4 lab (rc4_FSM): fill S (Loop1), schedule    *)
(* the key (Loop2), start again.  The write enable is a bit of the state,  *)
(* address and data are registers, so a write goes to the address of the   *)
(* cycle before.                                                           *)
(***************************************************************************)
EXTENDS SMemory

CONSTANT Secrets        \* the keys considered: functions from 0..2 to words

ASSUME SecretsAssumption == Secrets \subseteq [0 .. 2 -> Cells]

VARIABLES
  state,
  counter_i, counter_j,
  key_num, single_sec_key,
  data_i, data_j,       \* S[i] and what is taken for S[j]
  secret_key,           \* constant during a run
  begun                 \* history: S, j, address and data when the iteration began

registers == <<counter_i, counter_j, key_num, single_sec_key, data_i, data_j>>
vars == <<state, registers, secret_key, mem, q, address, data, begun>>

States ==
  {"Idle", "Loop1_init", "Loop1_main", "Loop1_done", "Loop2_init", "Loop2_start",
   "Loop2_get_key", "Loop2_read_i", "Loop2_wait_i", "Loop2_read_j", "Loop2_wait_j",
   "Loop2_get_j", "Loop2_swap_j", "Loop2_swap_i", "Loop2_done", "Finish"}

Key_length == 3

\* Bit 1 of the state encoding.
wren == state \in {"Loop1_init", "Loop1_main", "Loop2_swap_j", "Loop2_swap_i"}

Snapshot == [mem |-> mem, j |-> counter_j, owed |-> data]

Init ==
  /\ MemoryInit
  /\ state = "Idle"
  /\ counter_i = 0 /\ counter_j = 0
  /\ key_num = 0 /\ single_sec_key = 0
  /\ data_i = 0 /\ data_j = 0
  /\ secret_key \in Secrets
  /\ begun = Snapshot

Go(from, to) == state = from /\ state' = to

\* A state that only waits.
Pass(from, to) == Go(from, to) /\ UNCHANGED <<registers, address, data, begun>>

Loop1_init ==
  /\ Go("Loop1_init", "Loop1_main")
  /\ counter_i' = 0
  /\ UNCHANGED <<counter_j, key_num, single_sec_key, data_i, data_j, address, data, begun>>

Loop1_mainShort ==                              \* mutant: leaves one word early
  /\ Go("Loop1_main", IF counter_i = N - 2 THEN "Loop1_done" ELSE "Loop1_main")
  /\ data' = counter_i
  /\ address' = counter_i
  /\ counter_i' = Plus(counter_i, 1)
  /\ UNCHANGED <<counter_j, key_num, single_sec_key, data_i, data_j, begun>>

Loop1_main ==
  /\ Go("Loop1_main", IF counter_i = N - 1 THEN "Loop1_done" ELSE "Loop1_main")
  /\ data' = counter_i
  /\ address' = counter_i
  /\ counter_i' = Plus(counter_i, 1)
  /\ UNCHANGED <<counter_j, key_num, single_sec_key, data_i, data_j, begun>>

Loop2_init ==
  /\ Go("Loop2_init", "Loop2_start")
  /\ counter_i' = 0
  /\ counter_j' = 0
  /\ UNCHANGED <<key_num, single_sec_key, data_i, data_j, address, data, begun>>

Loop2_start ==
  /\ Go("Loop2_start", "Loop2_get_key")
  /\ key_num' = counter_i % Key_length
  /\ address' = counter_i
  /\ begun' = Snapshot
  /\ UNCHANGED <<counter_i, counter_j, single_sec_key, data_i, data_j, data>>

Loop2_get_key ==
  /\ Go("Loop2_get_key", "Loop2_read_i")
  /\ single_sec_key' = secret_key[key_num]
  /\ UNCHANGED <<counter_i, counter_j, key_num, data_i, data_j, address, data, begun>>

Loop2_read_i ==
  /\ Go("Loop2_read_i", "Loop2_wait_i")
  /\ address' = counter_i
  /\ UNCHANGED <<registers, data, begun>>

Loop2_read_j ==
  /\ Go("Loop2_read_j", "Loop2_wait_j")
  /\ data_i' = q
  /\ counter_j' = Plus(counter_j + single_sec_key, q)
  /\ address' = counter_j
  /\ UNCHANGED <<counter_i, key_num, single_sec_key, data_j, data, begun>>

Loop2_get_j ==
  /\ Go("Loop2_get_j", "Loop2_swap_j")
  /\ data_j' = q
  /\ UNCHANGED <<counter_i, counter_j, key_num, single_sec_key, data_i, address, data, begun>>

Loop2_swap_j ==
  /\ Go("Loop2_swap_j", "Loop2_swap_i")
  /\ data' = data_j
  /\ address' = counter_i
  /\ UNCHANGED <<registers, begun>>

Loop2_swap_iSame ==                             \* mutant: owes S[j] its own word
  /\ Go("Loop2_swap_i", "Loop2_done")
  /\ data' = data_j
  /\ address' = counter_j
  /\ UNCHANGED <<registers, begun>>

Loop2_swap_i ==
  /\ Go("Loop2_swap_i", "Loop2_done")
  /\ data' = data_i
  /\ address' = counter_j
  /\ UNCHANGED <<registers, begun>>

Loop2_doneNever ==                              \* mutant: compares with N itself
  /\ Go("Loop2_done", IF counter_i = N THEN "Finish" ELSE "Loop2_start")
  /\ counter_i' = Plus(counter_i, 1)
  /\ UNCHANGED <<counter_j, key_num, single_sec_key, data_i, data_j, address, data, begun>>

Loop2_done ==
  /\ Go("Loop2_done", IF counter_i = N - 1 THEN "Finish" ELSE "Loop2_start")
  /\ counter_i' = Plus(counter_i, 1)
  /\ UNCHANGED <<counter_j, key_num, single_sec_key, data_i, data_j, address, data, begun>>

Loop1 == Pass("Idle", "Loop1_init") \/ Loop1_init \/ Loop1_main
           \/ Pass("Loop1_done", "Loop2_init")

Loop2 ==
  \/ Loop2_init \/ Loop2_start \/ Loop2_get_key
  \/ Loop2_read_i \/ Pass("Loop2_wait_i", "Loop2_read_j")
  \/ Loop2_read_j \/ Pass("Loop2_wait_j", "Loop2_get_j") \/ Loop2_get_j
  \/ Loop2_swap_j \/ Loop2_swap_i \/ Loop2_done

Next ==
  /\ Loop1 \/ Loop2 \/ Pass("Finish", "Idle")
  /\ MemoryStep(wren)
  /\ UNCHANGED secret_key

Spec == Init /\ [][Next]_vars /\ WF_vars(Next)
-----------------------------------------------------------------------------
TypeOK ==
  /\ MemoryTypeOK
  /\ state \in States
  /\ counter_i \in Cells /\ counter_j \in Cells
  /\ single_sec_key \in Cells /\ data_i \in Cells /\ data_j \in Cells
  /\ key_num \in 0 .. Key_length - 1
  /\ secret_key \in Secrets
  /\ begun \in [mem : [Cells -> Cells], j : Cells, owed : Cells]

\* Loop1 leaves the identity in every word but the last, which the fill does
\* not write.
FillsAllButLast == state = "Loop1_done" => \A c \in 0 .. N - 2 : mem[c] = c

\* The memory needs a cycle to answer: what is taken for S[i] is S[i].
ReadsSi == state = "Loop2_read_j" => q = mem[counter_i]

\* What one iteration does: the write of S[j] comes one iteration late, at
\* the j of the iteration before, which is also the word read as S[j].
LateSwap(b, i) == [[b.mem EXCEPT ![b.j] = b.owed] EXCEPT ![i] = b.mem[b.j]]

IterationEffect ==
  state = "Loop2_done" =>
    /\ mem = LateSwap(begun, counter_i)
    /\ counter_j = Plus(begun.j + secret_key[counter_i % Key_length], begun.mem[counter_i])
    /\ address = counter_j
    /\ data = begun.mem[counter_i]

\* What the comments of Loop2_swap_j and Loop2_swap_i say an iteration does:
\* s[i] <= s[j] and s[j] = temp, the old s[i].
SwapsIAndJ ==
  state = "Loop2_done" =>
    mem = [begun.mem EXCEPT ![counter_i] = begun.mem[counter_j],
                            ![counter_j] = begun.mem[counter_i]]

\* The machine schedules the key again and again.
SchedulesForever == []<>(state = "Finish")
=============================================================================
