# A verification project for the CPEN 311 labs

TLA+ models of the hardware and firmware under `src/`, TLC configurations that
check them on small instances, and TLAPS proofs about them for every size.

The repository is a course of FPGA labs for the DE1-SoC board: a tone organ
(Lab 1), an iPod that plays a song from flash memory (Lab 2), the same player
with a PicoBlaze microcontroller that shows its volume on LEDs (Lab 3), the key
schedule of RC4 in hardware (Lab 4), and a modulator for a signal generator with
firmware on uC/OS-II (Lab 5). Nearly all of its files are tool output, vendored
IP, fonts and images. The logic written for the labs is what this project is
about.

## 1. Inventory

| component | source | state | operations | hard behaviour | what makes it correct | status |
|---|---|---|---|---|---|---|
| iPod player | `Lab2/FSM_Master.sv`, `Slave.sv`, `Kayboard_Ctrl.sv`, wiring in `simple_ipod_solution.v` | master state, address, sample; reader state, returned word; mode of play; reads under way in the flash | a clock edge; a sample pulse; a key; the flash stalls, accepts, answers | pulses of one cycle that nobody acknowledges; flash latency against the sample clock; a restart that must wait for the end of a word; turning in the middle of a word | no pulse lost, no sample of the wrong word, restarts obeyed, the song played in order, progress | modelled |
| sample clock | `Lab2/Speed_Control.sv`, `Clock_Divider.sv`, `edge_detect_stackflow.sv` | the count, the divider, four flip-flops | a clock edge; faster, slower, default | the limit moves under a running count; the count reaches 0; a flip-flop whose clear is made of its clock | a pulse per edge, pulses apart, pulses for ever | modelled |
| keyboard path | `Lab2/Kbd_ctrl.v`, `key2ascii.v`, `Write_Kbd_To_Scope_LCD.v` | frames received and their count, ready flag, three synchronisers, LCD writer, scope line, character | a frame on the wire; a clock edge; presses, repeats and releases | recognition by counting frames; flag and character from registers clocked at different times; overlapping keys | keys shown once, in order; recovery after rollover; comes to rest | partly (frames are atomic) |
| LED meter | `lab3/pracPICO.psm`, `picoblaze_template.v`, `pacoblaze.v`, `interrupt_event` of `lab3/Lab3/FSM_Master.sv` | registers, flags, scratchpad, interrupt latch and enable | an instruction; a sample interrupts | an interrupt between any two instructions of delay loops; a sample lost while the routine runs; a sum over two bytes | the main program undisturbed, every sample counted, the sum and the bar right | modelled |
| RC4 key schedule | `Lab4/rc4_FSM.sv`, `rc4_task1.sv`, `s_memory.vhd` | state, counters, address and data registers, 256 words | a clock edge | registers that lag the state by a cycle; a memory that answers a cycle later; loops that end on equality | the fill and the swap do what RC4 asks, or exactly what they do instead | modelled |
| LED sweep | `LED_display.sv` | position, direction | a clock edge | blocking and non-blocking assignments mixed | one light, up and down | not modelled |
| pacing of the speed keys | `Lab2/simple_ipod_solution.v` 573-598 | a counter, two triggers | a 1 kHz edge | - | ten events a second at most | not modelled; `SampleClock` assumes less |
| tone organ | `lab1/` | a divider | a clock edge | - | the frequencies | not modelled; the divider's successor is |
| modulator | `Lab5/New/Modulation.sv`, `LFSR.sv` | a shift register, two clock crossings | edges of two clocks | twelve bits cross from a fast to a slow clock | no word torn | not modelled but for the register's lowest bit |
| firmware | `Lab5/New/software/lab5`: `hello_ucosii.c`, `student_code.c`, `mouse_pos` of `drivers.c` | three flags, an index, the place in the song, an edge capture register | two tasks, an interrupt, the space bar and the button under the pointer | flags set one by one under a task of higher priority; an edge during the handler; a busy wait at the highest priority | the tone follows the register, buttons are carried out, the song is sent whole, the pointer is looked at for ever | partly (nothing that is drawn) |
| kernel uC/OS-II | `lab5_bsp/UCOSII/src`: `os_core.c`, `os_sem.c`, `os_mbox.c`, `os_q.c`, `os_flag.c`, `os_mutex.c`, `os_task.c`, `os_time.c` | control blocks of tasks and events, the ready table, wait lists, rings of messages, flags | some forty services from tasks and interrupts, the tick | preemption between the sections of a service; a tick, a post, an abort, a deletion and a resume that reach one task in any order; priorities that move | ready means runnable, the highest runs, no permit or message lost, queues are sequences, waits end | partly (no memory partitions, software timers, statistics or queries) |
| keyboard, pointer, graphs (Lab 5) | `Keyboard_Controller.v`, `PS2_ScanCodeReader.v`, `Cursor.v`, `plot_graph.v` | bytes of a scan code, position, scroll | edges, bytes | an unknown scan code is never cleared; positions wrap | - | third-party, not modelled |
| copies and superseded files | `lab4-github`, files Lab 3 shares with Lab 2, `Address_*`, `widereg`, `*.bak` | - | - | - | - | the same text again, or instantiated nowhere |
| binaries, vendored and generated code | `*.qxp`, HAL, QSYS, reports, fonts, images | - | - | - | - | flash and synchronisers modelled as external, the rest not |

How they interact. In Lab 2 everything is clocked by `CLK_50M`. The keyboard
path turns PS/2 frames into a ready flag and a character; the keyboard control
makes of these a direction, a play level and a restart level, which the master
reads. The master starts the reader with a pulse, the reader reads the flash
over an Avalon bus and answers with a pulse, and the master hands over one half
of the word at each of the next two pulses of the sample clock. In Lab 3 each
word played interrupts the PicoBlaze. The two machines of Lab 4 are top-level
entities of their own (`lab4-github` and `Lab4`), alone with their memory.

In Lab 5 a Nios II runs two tasks on uC/OS-II. `task1` sends the song to the
audio controller's fifo, `task2` polls the pointer and sets the flags that
`task1` reads; each gives the processor up only by `OSTimeDly`. The clock of the
shift register raises an interrupt, whose handler sets the tuning word of the
FSK modulation. Of the kernel the firmware uses no more than task creation,
delays and the scheduler; `Ucos` models the rest of its services too, because
they are built into the same image and share its tables.

`PROJECT.json` lists the hazards of this code with the line at which each of
them bites and the properties that would catch it.

## 2. Modules

A module for a clocked block declares its registers and one operator per state
of its machine; the operator takes the block's inputs as arguments. A composing
module conjoins these operators: all of them read the values before the edge
and prime the values after it, which is what non-blocking assignments do.

| module | models | state to code |
|---|---|---|
| `FsmMaster` | `FSM_master` | `master`, `addr`, `audio_signal`; the outputs are operators on the state. `address_change` and the read-enable outputs are constants and left out |
| `FsmSlave` | `FSM_Slave` | `slave`, `return_data` (the word's address stands for its contents) |
| `KeyboardCtrl` | `Kayboard_Ctrl` | `keyboard`; `dir`, `play`, `rst` are the bits of its encoding |
| `FlashMem` (external) | `flash_inst` | accepted reads with their ages, the answer strobe |
| `IPod` | the wiring in `simple_ipod_solution.v` | adds `gap`, the sample clock as a spacing of pulses, and the history `rested` |
| `SongPlayer` | nothing: what a listener is promised | position, direction, sample last heard |
| `SpeedControl`, `ClockDivider`, `EdgeDetect`, `SampleClock` | the modules of these names and their wiring | the registers; histories of pulses and edges |
| `AsyncTrap` (external) | `async_trap_and_reset` | 0 when idle, else the cycles left to its pulse, one to `Sync` |
| `KbdCtrl`, `KbdToScope`, `KeyPath` | `Kbd_Ctrl`, the LCD writer, both with `key2ascii` and the keyboard control | the registers; `wire` is what the keyboard still has to send |
| `LedBlinker` | the main program of `pracPICO.psm` | `at` is the program counter as a label; registers, the zero flag, `led_0` |
| `LedMeter` | the program with its interrupt routine, PicoBlaze's latch, Lab 3's player as source of samples | register bank, scratchpad, `interrupt_latch`, `interrupt_enable`, saved flag |
| `SMemory`, `Rc4Task1`, `Rc4Fsm` | `s_memory`, `rc4_task1`, `rc4_FSM` | the registers and the memory; `begun` is a history |
| `UcosCore` | `os_core.c`: wait lists, scheduler, scheduler lock, end of an interrupt, tick, and what the delete, create, abort and return of semaphores, mailboxes and queues have in common | the fields of `OS_TCB` and `OS_EVENT` as functions; ready table and wait lists as sets of priorities; `pc`, `call`, `code` say where each task stands in which call; `credit`, `deferred` are histories |
| `UcosSem`, `UcosMbox`, `UcosQ`, `UcosFlag`, `UcosMutex`, `UcosTask` | the services of `os_sem.c`, `os_mbox.c`, `os_q.c`, `os_flag.c`, `os_mutex.c`, `os_task.c` with `os_time.c` | their own fields |
| `UcosMulti` | `OSEventPendMulti` | - |
| `Ucos` | the services with an application that calls them | `app` is the application: which task may make which calls, which calls interrupts make |
| `UcosFifo` | nothing: what a queue promises | the sequence of messages |
| `UcosProperties` | - | the kernel's properties, its fairness, and `UcosQ` mapped to `UcosFifo` |
| `LfsrInterrupt` | `student_code.c` with the lowest bit of `LFSR.sv` | the handler's place, capture register, output port; `missed` is a history |
| `SongTasks` | `task1` and `task2` of `hello_ucosii.c`, `mouse_pos` | `flag` is the three variables, `todo` the stores still to be made, `dly` the two delays; `command`, `covered` are histories |
| `Lab5` | the two on one processor with `main` | adds the place in `main` |
| `MC*` | - | values of constants for TLC |
| `*_proofs` | - | theorems |

An action of the kernel is one critical section, or a whole interrupt, which
the Nios II runs with interrupts disabled. A service is `Call` (its argument
checks), its sections, and `OS_Sched` where the code calls it; ticks and other
interrupts come in between. A pend has a section that makes the task wait and
one behind the scheduler that looks at how the wait has ended; a task is created
in three sections and deleted in two.

`IPod` composes four modules, `SampleClock` three, `KeyPath` three and the
`KeyboardCtrl` of the player, `LedMeter` builds on `LedBlinker`, which serves at
the same time as its abstract specification. An operator marked "mutant" is a
variant of the one after it, a slip that could have been made in the code; no
specification uses it. Each property is known to fail for one of them.

## 3. Abstractions and assumptions

* Registers that the code does not initialise start at zero, as they do on this
  FPGA. The memory and the LED meter's scratchpad do too.
* A word of the flash is represented by its address; a sample by a word and a
  half. Silence before the first word has a name of its own.
* `return_data` is clocked by the rising edge of `readdatavalid`, so two answers
  in adjacent cycles latch one word (`LatchReturnData`).
* In `IPod` any key may be ready in any cycle, which includes everything the
  keyboard path does. `KeyPath` looks at what it does do.
* PS/2 frames are received in one step and only when the circuit is at rest:
  a frame takes about a millisecond, the circuit a few cycles.
* A clear that meets the clock of the flip-flop it clears (`FF_A`), and an
  interrupt pulse that meets a change of the enable flag, go either way.
* A step of `LedMeter` is an instruction. The routine's own instructions are
  grouped: `busy` counts the ones that touch nothing else, with the counts
  taken from the program; only four of them do anything that can be seen.
* In the kernel the order of a wait list and of the array of a multiple pend is
  left out, since only the highest priority counts; a status byte is the set of
  its bits. Argument checks that need an invalid pointer, message or priority are
  left out: `WellFormed` says which calls pass them, `EventFormed` what events
  there may be before `OSStart`, `PipsFormed` that a priority is given once, to a
  task or to a mutex (`os_mutex.c:191-195`), and `AppsAssumption` that
  applications keep to these and give the idle task nothing to call. Applications keep the
  rules the comments give for mutexes (`Permitted`), and only the owner deletes
  one.
* NULL is a message that queues carry like any other (`os_q.c:566`); a mailbox
  refuses it (`os_mbox.c:467`). `QueueApp` posts it.
* Source lines are counted by newlines. The kernel's files contain form feeds,
  which some editors count as lines too.
* A block of the kernel that is freed keeps its name. The free list is the set
  of unused blocks.
* `Lab5` takes from the kernel that `task1` runs before `task2` and that a delay
  ends after its ticks; the former is `HighestRuns`. A critical section of the
  firmware is a statement that touches something the other task, the handler or
  the hardware sees. `SongDly` and `PollDly` stand for 10 and 100 ticks; the
  proofs need only that the first is shorter. Any button may be under the
  pointer. The array with the song is not in the repository.
* The speed events of `SampleClock` may come in every cycle, oftener than the
  top level lets them.

## 4. Runs

| run | question | bounds, and why they are enough |
|---|---|---|
| `ipod_sampling` | are samples right and pulses safe with the flash as slow as it may be? | song of three words (both ends and a middle); latency 7 exceeds the master's own cycle; spacing `Latency + MaxWait + 5` and one more, so that phases drift. One cycle tighter and `FirstSampleFresh` fails |
| `ipod_liveness` | does the player go on when samples come faster than the flash? | spacing 2 to 4 against a latency of 2 and a wait of 1 |
| `ipod_backward_restart` | is a restart played backwards obeyed? No (finding 1) | |
| `rc4_task1` | what does a pass leave, what do later passes do? | 64 words; the machine is deterministic and compares with the last index only |
| `rc4_fsm` | what do the fill and an iteration do, exactly? | 8 words, every key of three with a zero first byte (the top level's constant); all of memory reachable by schedules on schedules |
| `rc4_swap` | does an iteration swap? No (finding 2) | |
| `sample_clock` | one pulse per edge, whatever the speed keys do? | counts 0, 16, 32 and 48 with the code's step of 16 and default 32 for 1136: 0 and the top are what matters, between them a count is only a delay |
| `keys_typing` | is each key shown once and in order, is a pause heeded, does the controller recover from overlapping and prefixed keys? | a typist who presses pause, play and restart one at a time, and one who overlaps two plain keys and one with prefix in any order of presses, repeats and releases: frame counts of all residues; a scope line of two characters, so that it wraps |
| `keys_restart` | does only R restart? No (finding 3) | |
| `led` | are samples, bars and main program right under interrupts? | base 4 instead of 256, width 2: the sum reaches its largest value 8 and carries; a delay of two nested loops; samples `Longest + 1` instructions apart. At `Longest` the run finds a lost sample |
| `ucos` | do the kernel's tables stay consistent whatever three tasks and interrupts call? | twelve applications, one for each kind of service and one for each mix that shares a table; in `MultiDelApp` an event is deleted, and created again, between the check and the section of a multiple pend on it: priorities 0 to 4, two events, one flag group, rings of two messages, counts up to 2, timeouts of 1 and 2 ticks. Three tasks are what it takes for one to post, one to wait and one to be preempted in between |
| `lab5` | does the tone follow the register, are buttons carried out, is the song sent whole? | a song of three samples in blocks of two, so that the last block reads past its end; a fifo of one; delays of 1 and 2 ticks; edges at any time |

What the passing runs show: the handshakes of the player are never lost; the
second sample of a word is always right, the first one unless the player has
rested; the player implements `SongPlayer`; away from the lowest count each
edge of the sample clock makes one pulse, and at the lowest count, where the
divider runs at half of the frequency that samples it, edges are lost but never
all of them (`PulsePerEdge` is stated with this exception); typed keys arrive
once and in order; the meter's arithmetic is exact and its interrupts are
invisible to the main program.
The kernel keeps a task in the ready table exactly when nothing holds it, gives
the processor to the highest one at every scheduling point but two, loses no
permit and no message, and its queues are sequences (`UcosFifo`) whatever meets
whatever, in the applications of `MCUcos`. What lies outside them is told below.
Of the firmware: the tone is that of the last bit unless an edge fell between
the handler's read of the register and its clearing of the capture bit
(`student_code.c:24-37`), a second too long; a stop or a pause is carried out
however the three stores are interrupted, since `task2` sleeps longer than
`task1`; the song is never rewound before all of it was sent, although the
sender goes past its end (`hello_ucosii.c:176`): the last block reads behind the
array and the next starts inside the song.

### Findings

1. `Kayboard_Ctrl.sv:56` leaves `Reset_Backward` on a constant that is true, so
   a restart while playing backwards is withdrawn within cycles and usually lost.
2. `rc4_FSM.sv:109-123` reads `S[j]` at the j of the iteration before and writes
   it in the next iteration; `IterationEffect` is what it does.
3. `Kayboard_Ctrl.sv:37`: the first key after R restarts the song again,
   because the ready flag of the new key meets the character of the old one.

Read in the same code, and why no run shows it:

* `Slave.sv:35-37` reports finish when the read was accepted, not when the word
  has come. Outside a rest the spacing of samples makes up for it
  (`ReadsCorrect`, `FirstSampleCorrect`).
* `os_mutex.c:598`: `OSMutexPost` puts a raised caller back to its priority and,
  when nobody waits any more, returns without `OS_Sched`. `HighestRuns` excepts
  this path and posts with `OS_POST_OPT_NO_SCHED` (the history `deferred`).
* `os_core.c:1026`: a post to a multiple pend leaves `OS_STAT_MULTI` and the
  other pend bits set until the task runs; one that was suspended meanwhile is
  not readied by `OSTaskResume`. `MultiApp` has no suspension.
* `os_core.c:466-537`: when the event that ended a multiple pend has been
  deleted since, the call returns before it clears the task's state.
* `os_task.c:134`: a task that was given what it waited for keeps its event
  pointer until it runs; a change of its priority meanwhile puts it back into
  the wait list. `PrioApp` cannot reach a task in that state.
* `os_mutex.c:302`: `OSMutexDel` without waiters by a raised owner clears the
  entry of the pip in the priority table while the owner still has it.
  `OSMutexDel` with `OS_DEL_ALWAYS` readies the owner whatever it is doing,
  which the comments warn of; so they do of changing an owner's priority.
* `os_sem.c:302` and its like check the type of an event before the critical
  section. In `DelApp` the task that deletes has the lowest priority, so it
  never runs between the check and the section of another. Only
  `OSEventPendMulti` looks again inside its section (`os_core.c:431-440`); it
  then returns, having taken what the events before the deleted one held.
* `os_mutex.c:475`: a task that was given a mutex by a post and is suspended
  before it runs keeps its event pointer and is not ready. A pend of a higher
  task then raises it and puts the priority of the mutex into the wait list of
  the mutex it owns itself.
* `os_mutex.c:112-114` and `437-439` record the owner's present priority as its
  own. A raised task that accepts a second mutex is therefore taken, after its
  post of the first, for one that has been raised for the second already
  (`450-454`), and a waiter of the second outranks it.
* `os_time.c:43-67`: `OSTimeDly` does not look at `OSLockNesting`. A raised task
  that locks the scheduler, delays itself and posts its mutex is put back into
  the ready table by `OSMutex_RdyAtPrio` (`os_mutex.c:579`) while its delay runs.
* `os_task.c:964-987`: `OSTaskSuspend` compares its argument with `OSTCBPrio`, so a
  raised task that suspends itself by its own priority is not rescheduled.
* `os_core.c` and `os_task.c`: with the scheduler locked, a task that changes its
  own priority and creates a task at its old one has `OSPrioCur` equal to the
  new task's priority, so the unlock sees no reason to switch.
* `os_flag.c:703`: flags that a pend consumes may satisfy tasks that wait for
  cleared flags, but their list is not gone through. `FlagApp` waits for set
  flags only.
* Waiters of a deleted event return `OS_ERR_NONE` as if they had been posted to;
  `credit` counts them so.

## 5. Fairness

The clock does not stop: weak fairness of `Next` in every model whose step is a
clock edge or an instruction. It says nothing about inputs. Beyond that:

* `FlashMem` answers and accepts within its bounds; these are guards.
* `KeyPath`: the keyboard sends what it has begun (strong fairness, since
  frames wait for the circuit to be at rest), and the player goes on finishing
  words, which a forward restart waits for (`PlayingProgresses` is that promise
  on the player's side).
* `LedMeter`: weak fairness of `Tick(TRUE)`, samples go on coming. `BarRenewed`
  needs it.
* The kernel: weak fairness of `Tick`, and of the step of whatever task has the
  processor. `TimedPendReturns` is stated for the highest task only: a busy task
  above it may starve any other.
* `Lab5`: the handler ends and the audio controller takes samples (weak).
  Edges are a second apart and a tick leaves time for the task whose turn it is,
  but in the model both may come again before it moves; hence strong fairness of
  `main`, of each task and of the tick. `KeepsPolling` and `SilenceObeyed` need
  it.

## 6. Proofs

Eight modules, all obligations proved, from the named assumptions on constants.

* `IPod_proofs`. `TypeCorrect`: the length of `pending` is bounded because the
  ages in it are strictly decreasing (`AgesDecrease`) and at most `Latency`, a
  bound that is not inductive without the order. `HandshakeCorrect` and
  `RestartForwardCorrect` follow from `Typed` with `Lockstep`: the master waits
  exactly while the reader works.

  `Drained`, `Aging`, `OfAddr` and `Delivering` relate the master's state to the
  age of what is outstanding: under `Latency <= MinGap + 1` every read is of the
  current address (`ReadsCorrect`) and the second sample is right
  (`SecondSampleCorrect`). With the assumption `ReadFits`, `Clocked` and `Prompt`
  count the cycles from a sample pulse to the answer, which gives
  `FirstSampleCorrect`, and the step simulation `PlaysTheSongCorrect` (each step
  of `IPod` is one of `SongPlayer` or none) rests on all of them.
* `Rc4Fsm_proofs`. `Filling`, `Reading` and `Iterating` say for each state what
  memory, registers and the pending write hold: `FillCorrect`, `ReadsSiCorrect`,
  `IterationCorrect`, for every memory size and key; `Rc4TypeCorrect` is the type
  invariant they rest on.
* `Rc4Task1_proofs`. A pass fills all but the last word (`Task1FillCorrect`), by
  the invariant that the word chosen last is still in the registers; later passes
  undo nothing (`Task1StableCorrect`), because address and data are always alike.
* `SampleClock_proofs`. `Detected` relates the flip-flops to the age of the last
  pulse; `PulsesApartCorrect` holds for all counts, steps and outcomes of the
  race. `PulsePerEdgeCorrect` and `SampleClockTypeCorrect` need a step of at least
  three (`WideStep`; the code's is 16): then a phase of any count but 0 outlasts
  the detector. `Flushed` says what the flip-flops hold a given number of cycles
  after the clock has toggled, which is what the divider counts, and `Clean` that
  they hold nothing older once a phase had its full length. That no two pulses are
  more than `2 * Longest` cycles apart, part of the type invariant, is `Due`: a
  rise that is lost follows a short phase, and the next one is not.
* `LedMeter_proofs`. `NoNestingCorrect`, and `BlinksUndisturbedCorrect`: the meter
  implements `LedBlinker` under the mapping that looks through a running routine
  at what it has saved. Neither needs an assumption on the spacing of samples.
  `SumExactCorrect` and `BarShowsAverageCorrect` do (`Unhurried`: the spacing
  exceeds the longest routine, 50 instructions at the code's width of 8, against
  thousands between two samples of the player): `Punctual` bounds what the routine
  has still to do by the time left, so no sample is overwritten, and `Summed` says
  in which register or cell the two bytes of the sum are, and that they suffice
  for `Base` samples. That the bar is the average needs shifts as powers of two,
  which the library has no theory of; here 2^k is the number of subsets of a set
  of k. `MeterTypeCorrect` is the type invariant.
* `KeyPath_proofs`. The circuit is in one of five stages with a frame (`Staged`),
  and `Settled` is the count of bits it will be left with. `InStepCorrect`:
  however keys are typed, with or without a prefix, overlapping or not, the count
  is never one frame off when the keyboard has nothing to send (`Counted`).
  `OneAtATime` adds what a keyboard used one key at a time has still to send and
  which press is where, which gives `NoPressMissedCorrect` and
  `ShowsPressesOnlyCorrect`. These two assume `PlainKeys`, typists who use keys
  with a prefix only among others: the press of such a key is two frames, in which
  the count sees no key (`KeyReady` asks for a plain frame, for one behind the
  prefix of a release, or for three frames).
* `Lab5_proofs`. `ToneCorrect` from `ToneFollows`, which says for each place of
  the handler what its copy, the register and the capture bit have to do with each
  other. `StopCorrect` and `RewindCorrect` from `TasksInv`: the stores not yet
  made and the flags together spell the last button (`CarriesOut`); once the
  stores of a stop are made, `task1` has fewer ticks to sleep than `task2`
  (`Rewinds`), which is where `SongDly < PollDly` is used; what has been sent
  since the last rewind is everything before the index (`Covers`).
  `FirmwareTypeCorrect` is the type invariant.
* `Ucos_proofs`, the rings. `QueuesFifoCorrect`: the rings of `os_q.c` implement
  `UcosFifo`, initial states and steps, for every size of the ring, every number
  of tasks and events and every application with well-formed calls. `InStep` says
  that the two indices are as far apart as there are entries, modulo the size;
  lemmas on the ring as a sequence (`TakeIsTail`, `PutBackIsAppend`,
  `PutFrontIsPrefix`) turn each move into one of the sequence; `CallsInv` follows
  calls through the sections, so that what arrives at a ring is a message and an
  existing queue. All other services are shown to leave the rings alone.
* `Ucos_proofs`, the tables. The invariants of the ready table, the wait lists and
  the mutexes hold only in applications that stay clear of what is told in section
  4, so they are proved under conditions on the application, each with every
  number of tasks, events and messages and with any other calls, from tasks and
  from interrupts:
  - `FixedTasks`: tasks are created before `OSStart` and keep their priorities,
    and there are no mutexes, which move priorities. `HighestRunsCorrect`: the
    priority table is then the identity on the tasks that exist (`Tabled`), the
    ready table has no other (`Lists`), and a section that returns without
    `OS_Sched` makes nothing ready unless that is put off (`Outcome`, `Unraised`).
    Deletions of events and of flag groups and multiple pends are covered.
    `KernelTypeCorrect` is the type invariant, among it the bounds of counts and
    indices.
  - `Discipline`, with mutexes. Tasks and events are there for good and no task
    waits for several events at once, since what section 4 tells of these leaves a
    task with a stale status or an event of another type. A mutex has a priority
    above the tasks that ask for it, as the comment of `OSMutexCreate` demands
    (`os_mutex.c:138-143`). The other three conditions are ones no comment states
    and the proof found necessary, each from a step that could not be proved and a
    run that then failed: a task that may own a mutex without having waited for it
    (`OSMutexAccept`) asks for no other; nobody suspends a task that asks for
    mutexes; and such a task does not delay itself if it ever locks the scheduler
    (`os_mutex.c:475`, `os_mutex.c:437`, `os_time.c:43` above).

    The invariant is `StageInv`. Its tables (`TableInv`): every task is found
    under its own priority and under the one it has (`Numbered`); each mutex has
    its priority reserved, and its owner is at its own priority or at that of the
    mutex and above all waiters (`Owned`, `Owns`); an owner is in no pend but the
    one that gave it the mutex (`OwnerCalls`); the ready table holds present
    priorities of tasks, and a wait list its waiters' own (`ReadyRow`,
    `ListRows`); and the priority the scheduler compares with is that of the
    running task, or else one the task was put back from since and to which nobody
    could have been raised (`Dispatched`, `Stale`). Its data (`DataInv`): every
    task is in one of four stages of a wait (`AtWork`, `Waiting`, `TimedOut`,
    `Answered`), which fix its status, its delay, its place in lists and whether
    it is ready; posts, aborts, timeouts, resumptions, raises and suspensions take
    it from one to another. None of the parts is inductive alone: a task leaves a
    list by its present priority and becomes ready by its status; the pend that
    raises a sleeping owner moves it in the list its event pointer names, and only
    its stage says that there is none; and that a post finds the owner raised or
    not is read off the priority table. `StageInv` gives
    `OwnerOutranksWaitersCorrect`, `ReadyIffRunnableCorrect`,
    `WaitListsExactCorrect` and `HighestRunsWithMutexes`. `NothingLostCorrect`
    adds the stock of every event (`StockInv`): what was accepted and not taken is
    what the event holds and the tasks that were given something and have not
    returned, and an event with waiters holds nothing.
  - `LastingFlags`: besides, flag groups are not deleted, and flags are consumed
    only in the sense (set or cleared) in which their group is waited for, which
    `os_flag.c:703` makes necessary. Then no task waits for flags that are as it
    wants them (`Unmet`, in `FlagInv`), which with the stock is
    `NoWaiterWhileAvailableCorrect`.

  The firmware of Lab 5 meets all of them; it has no mutexes. Of the applications
  of `MCUcos`, all but those with mutexes, with creation and deletion of tasks and
  with changes of priority are of `FixedTasks`; the ones with semaphores,
  mailboxes, queues, flags, delays and mutexes (`MutexApp`) keep to `Discipline`.

The theorems `ReadsCorrect`, `ReadsSiCorrect`, `NoNestingCorrect`,
`FirmwareTypeCorrect`, `Rc4TypeCorrect` and those of `Rc4Task1_proofs` state
properties that no run repeats.

Only model-checked: every liveness property, since TLAPS does not reason about
`ENABLED`; and the kernel's tables in applications whose tasks are created,
deleted or moved while others run, that delete mutexes, or that suspend tasks
that wait for them, and, but for `HighestRuns` and the types, with deleted events
and multiple pends; the types also in applications with mutexes. Every safety
property of every passing run is stated by a theorem. Each of the violated
properties is a statement of the code's own comments.

## 7. Order of work, and what is left

The player came first, since it is the part of the hardware with the most
concurrency; then the machines that feed it (sample clock, keyboard path), the
LED meter that it feeds, and the RC4 machines, which stand alone. The firmware
of Lab 5 and the kernel below it followed, then the proofs. What could still be
proved, most useful first:

1. `ReadyIffRunnable` and `WaitListsExact` with multiple pends, whose stages have
   several lists each.
2. The same with deletions of events whose type is not given to another while a
   pend on them is under way, and of mutexes by owners that are not raised.
3. The type invariant under `Discipline`.

### Not modelled

* The clock crossing of `Modulation.sv:36-52`. Its slow clock is a clock of
  25 MHz divided by 70000 (`dds_and_nios_lab.v:553`): thousands of fast cycles
  lie between its edges, and the enable, two cycles late, has long fallen at a
  rising edge. What remains is metastability, which needs real time.
* The bits of a PS/2 frame in `KbdCtrl`, and frames cut short.
* `LED_display.sv`, the pacing of the speed keys and the tone organ of Lab 1:
  one counter each, with nothing that interacts.
* Of the kernel: memory partitions (`os_mem.c`), statistics, names, stack checks
  and queries, which change none of the state modelled; `os_tmr.c`, which the
  configuration compiles out; context switching, which is the HAL's assembly.
* Of the firmware: everything drawn, and the arithmetic that finds the button
  under the pointer.
* Lab 5's keyboard, pointer and graph modules, which carry the header of another
  project; binaries; generated and vendored code other than the kernel.

Of the repository's C files nearly all lines are fonts, images and the HAL,
which hold no behaviour to model; the hardware modules and
`hello_ucosii.c`, `student_code.c` and the kernel are what the map refers to.
