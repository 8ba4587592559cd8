# Formal models of the ILA modelling and verification cases

The repository collects modelling and verification cases for Instruction-Level
Abstractions (ILAs): firmware that talks to hardware through memory-mapped
registers, accelerators written in SystemC, Verilog or Halide, and ILA models of
processors, accelerators and uncore units. There is no single program. The cases
that carry their own control logic (threads, handshakes, buffers, pipelines) are
what this directory models in TLA+, checks with TLC and proves with TLAPS.

Contents: 1 inventory, 2 plan, 3 the models, 4 runs and bounds, 5 fairness,
6 proofs, 7 what the code was found to do, 8 what is not modelled.

## 1. Inventory

| component (under `src/`) | state | operations | interaction | status |
|---|---|---|---|---|
| `others/fw-verif/demo-system/fwsrc` | fabric registers, interrupt line, message-buffer registers, `gMbCtx`, flags, context lock | master and slave firmware, interrupt handler, register reads and writes | three threads, doorbells, an interrupt, an optional context lock | modelled: `FwSystem`, `ImageExchange` |
| `accls/RBM/SystemC` | handshake signals, ping-pong user buffer, prediction buffer, weights, five threads | configure, load, train, predict, store, DMA, reset | four-phase handshakes between clocked threads | modelled: `RbmAccel`, `RbmJob`, `RbmWeights` |
| `accls/GB-Halide/ila_spec_b` | three streams of two slots, line buffers, shift register, kernel pipeline | two port instructions and four child instructions | producer and consumer through full and empty flags | modelled: `BlurPipe` |
| `accls/GB-Halide/ila_spec_a` | line buffers, stencil, one result | two port instructions with children | the abstract side of the equivalence with `ila_spec_b` | not modelled (section 8) |
| `tutorials/aes` (copied in `accls/AES/AES-ILA-RTL`) | configuration registers, engine state, byte and block counters, the cipher's pipeline, block buffers | register writes, start, block steps, XRAM acknowledges, reset | processor writes race the running engine; the engine waits for the XRAM but not for the cipher | modelled: `AesEngine`, `AesIla` |
| `examples/Simple-Pipe` | register file, two pipeline stages, scoreboard | ADD, SUB, AND, NOP with forwarding, reset | pipeline against the instruction set | modelled: `SimplePipe`, `SimpleIsa` |
| `examples/Spec-Pipe` | two program counters, flush flag, execution and commit registers, cache | fetch, execute, commit, flush of NOP, branch, load, move | instructions and child instructions in lockstep; a taken branch drops what follows | modelled: `SpecPipe`, `InOrder` |
| `examples/FIFO-BMC` | read and write pointers, memory | push, pop | two FIFOs compared | planned |
| `others/fw-verif/8051secureboot` | SHA and RSA engine state, XRAM, image header | load, check, copy and start an image | firmware polls engines | planned |
| `others/fw-verif/demo-msg`, `demo-por`, `demo-atomic`, `toy` | doorbell and data registers, an accumulator | two firmware threads, a register machine | threads, atomic blocks | planned, last |
| `uncores/Piton-pmesh`, `uncores/lmac` | L1.5 lines, MSHRs, NoC buffers; MAC registers, an asynchronous FIFO | one load request; register reads and writes | NoC messages | not modelled |
| `accls/NVDLA/pdp`, `accls/RBM/ILA`, `cores/*`, `accls/SHA`, `examples/ALU` | architectural state of each unit | one instruction per command | none (sequential semantics) | not modelled |
| generated, vendored and tool code | - | - | - | not modelled |

`PROJECT.json` lists every component with its files, and under `hazards` what is
hard to test in this code, each at its line: register accesses of several threads
between two statements of the firmware, an interrupt line cleared late, a
doorbell that is several stores, a lock held across a wait, handshakes between
clocked threads, a buffer that one side fills while the other reads it, counters
of one image kept by four units that run on their own, a cipher that is given a
fixed number of cycles, a scoreboard kept beside the pipeline it describes, and
instructions executed before it is known whether they are to be.

Correctness, per component:

* multi-firmware demo - every message is delivered once, intact and in order; no
  interrupt is lost; the two users of the message buffer never overlap; the
  assertions in the code hold; the exchange ends.
* RBM accelerator - every user record is trained on and predicted with exactly as
  often as configured, never while it is being overwritten; results leave in
  order; the accelerator finishes, and starts afresh after a reset.
* Halide blur - pixels, slices and stencils arrive once and in order, whatever the
  interleaving of the units, and a slice is a column of the image; exactly the
  results of the image leave. (Not: that a stencil is a window of the image. The units
  disagree about the column, section 7.)
* AES - the engine encrypts, in counter mode, exactly the bytes the registers named
  when it was started, whatever is written meanwhile; each block with its own counter;
  a job ends; the circuit is an implementation of the ILA.
* pipelines - what is executed is the instruction set, one instruction after another:
  forwarding never takes a stale value, nothing executed behind a taken branch is seen.
  (A branch of `Spec-Pipe` takes its condition one instruction late, section 7.)
* FIFO - first in, first out, within its size.

## 2. Plan

| step | module | what it adds |
|---|---|---|
| done | `FwSystem`, `ImageExchange`, `FwSystem_proofs` | the firmware demo and the exchange it implements |
| done | `RbmAccel`, `RbmJob`, `RbmAccelInv`, `RbmAccel_proofs` | the accelerator's threads, the job they implement, and the proof |
| done | `RbmWeights`, `RbmWeights_proofs` | the arithmetic of one training step |
| done | `BlurPipe`, `BlurPipe_proofs` | the blur pipeline, all of its safety properties proved |
| done | `FwExchange_proofs` | every safety property of the exchange, and that `FwSystem` implements it |
| done | `AesEngine`, `AesIla`, `AesEngine_proofs` | the clocked engine against a host, an XRAM and its ILA |
| done | `SimplePipe`, `SimpleIsa`, `SimplePipe_proofs` | forwarding and scoreboard against the instruction set |
| done | `SpecPipe`, `InOrder`, `SpecPipe_proofs` | speculation and flush against in-order execution |
| done | the *Progress* parts of the proofs | that no component is ever stuck and all work is bounded |
| 1 | `BootCheck` | the boot firmware and the engines it polls |
| 2 | `FifoPair` | the two FIFOs of `FIFO-BMC` and the relation they are compared under |
| 3 | small firmware examples | two threads over a few shared variables |

Each detailed module is composed with its abstract one through `INSTANCE ... WITH`:
`FwSystem` with `ImageExchange`, `RbmAccel` with `RbmJob`, `AesEngine` with `AesIla`,
`SimplePipe` with `SimpleIsa`, `SpecPipe` with `InOrder`. The project keeps to about a
dozen runs: each component brings one run of its properties and, where a document
disagrees with the code, one that shows it.
Modules about which something is to be proved use recursive functions or
quantifiers, never `RECURSIVE` operators.

## 3. The models

### Multi-firmware demo: `FwSystem` and `ImageExchange`

`main.c` starts three threads: the master firmware (`mst.c`), the slave firmware
and its interrupt handler (`slv.c`, with the message buffer of `mb.c`). They share
the fabric registers of `fabric.c`. In the model

* `pc[t]` is where thread `t` is; there is one action per access to a register or
  a variable that two threads share, and none for purely local statements;
* a spin loop is a guard where a poll that fails leaves the state as it was. That is
  so in builds without `CTX_LOCK`, and for the loops over plain variables;
* `mode[t]` tells whether the thread is in the section of `ctx_lock` (`main.c`),
  outside, or asking for it. A register access at a context-switch point leaves
  and re-enters the section (`fabric.c`): `SwitchRead`, `SwitchWrite`. So does each
  turn of a loop that polls a register (`Polls`): `Unlock`, then, if the register does
  not hold what is waited for when the section is got again, `PollFails`, and from
  there the next turn;
* the `-D` flags of `run.sh` and the sources are a variable: `build` is one of the
  sets in `Builds` and never changes. `CTX_LOCK` makes the firmware a critical
  section, `MUTEX` makes that section a mutex instead of a verifier atomic block,
  `POR_OPT` removes the switch points at data registers, `FAB_LOCK` makes a
  doorbell write (doorbell, mirror, interrupt) one step;
* `assert`s that state something add to `failed` when they do not hold; the
  `assert(0)` with which `mst.c` probes that its end is reachable does nothing;
* the memory copy of the image (`MEM_OP`) is abstracted: its size is what is
  checked.

`ImageExchange` is the exchange without registers: two requests, each answered
once, every message delivered once and intact. `FwSystem` implements it with
`sent` and `rcvd` per direction as `req`, `got`, `rep`, `ans`: `ExchangeSafe`, and
`ExchangeFair` with its progress.

### RBM accelerator: `RbmAccel`, `RbmJob`, `RbmAccelInv`, `RbmWeights`

The five threads of `rbm.cpp` are `SC_CTHREAD`s: at a clock edge each runs to its
next `wait()` and sees the signals as they were before the edge. `Clock` is
therefore the conjunction of one step of each thread and of the DMA controller,
which is environment. A thread's `pc` names the `wait()` it is suspended in.
Computations and transfers, whose length depends on sizes and data, take any
number of cycles. `Reset` is the synchronous reset of every thread, at any edge; the
weights, the buffers and `num_testusers` survive it, as in the code.

Data are reduced to what the properties tell apart. A half of the ping-pong buffer
holds the number of a record, or `Torn` while it is being filled. The weights are
the sequence of records they were trained on; a result is the record and the
weights it was computed from. So a stale, repeated, skipped or mixed record
anywhere between memory and memory is visible.

`RbmJob` is what a job promises: train on each record, in order, loop after loop,
then predict with each test record, in order, with those weights. Where the test
records lie is its parameter `TestPlace`, since the repository has two answers: the
accelerator reads test `j` at `users + j` (`rbm.cpp:639`), the ILA at `j`
(`rbm_template.py:196`; section 7). `RbmAccel` implements `RbmJob` with its own place
(`JobDone`), with `Abandon` for a reset; with `TestPlace(c, j) == j` it does not. Jobs with `num_users` = 0 are
not among the configurations (`train_rbm` would not start the handshake `load` waits
in); with `num_loops` = 0 the first test record is fetched from index 0, not from
behind the training records, so the refinement promises nothing of such a job and
`TestRecord` says what happens.

`RbmWeights` is the training step itself, for one user after another: associations,
reconstruction and the move of each weight by one `LEARN_RATE` up or down, in
fixed point with wrap-around. The activations depend on random draws, so any
outcome is possible. `pos` and `neg` start with any contents, as nothing resets them.

### Gaussian blur: `BlurPipe`

Each instruction of `ila_spec_b` is atomic; they interleave as their decode
functions allow. Two instructions are the ports (`WRI` writes a pixel, `RDI` reads
a result), four move data: `U1` from the input to the first stream, `U2` through
the rotating line buffers to slices, `U3` through the shift register to stencils,
`U4` through the kernel's pipeline. A pixel is its number in the order it was
written (the units never look at its value), and the kernel is uninterpreted, as
in the ILA. The state after reset is the one `scripts_a_b/init_w.tcl` assumes.

Details that are in the code and in the model: `U1` passes on the pixel before the
one it takes, so the first is one nobody wrote and lands at column -1, a word of the
line buffer no slice reads; columns are counted from 1 in `U2` and from 0 in `U3`,
so `U3` starts each row one column later than the last (`PerRound`); the pipeline
shows the kernel a stencil when it is popped and `gb_pp_it` counts until the
first result, so the ILA does not delay data; once an image is drained
`gb_exit_it` keeps the kernel stopped: the model is of one image.

The high-level ILA (`ila_spec_a`) does not serve as the abstract specification here
(section 8). What stands in for it is stated directly: `PixelsInOrder`,
`SlicesInOrder` and `StencilsInOrder` give the contents of each stream as a function
of how many values went in and out. For stencils that function is the code's own: the
last `W` slices at each column as `U3` counts it (`StencilSlice`). It says that none is
lost, repeated or mixed on the way, and not that it is a window of the image: some
stencils hold slices of two rows. What the repository claims of the columns is
`ColumnsAgree`, which does not hold.

### AES engine: `AesEngine` and `AesIla`

`aes_top.v` is clocked: a step of `AesEngine` is one cycle, in which the host may write
one register (or ask for a start) and the XRAM may acknowledge one byte, both at
once. The operators are the wires of the circuit under their names, the groups of
registers (`HostRegisters`, `Counters`, `Timer`, `Cipher`, `Buffers`) their
conjuncts. `aes_128.v` is its delay: `stages` are the inputs it took in the last
`Latency` cycles. `Xram` acknowledges at any pace, but not before a request has
waited `AckGap` cycles; `oc8051_xram.v` needs one (`DELAY` = 1).

Data is symbolic: a byte is a set of symbols under exclusive or, one for each byte of
the plaintext and one for each byte of AES128(counter, key). So a block encrypted with
the wrong counter, the old key or twice is visible, and the cipher itself is not
needed. A register of several bytes is written at once. The history variables `job...`
remember registers and XRAM at the last accepted start, and `CounterMode` compares
the XRAM with them byte for byte, in the middle of a job and after it.

`AesIla` is the ILA of `aes_ila.cc` and `aes_child.cc`: five instructions that write and
the three child instructions that load, operate and store. `START_ENCRYPT` is decoded by
`cmddata == 1` (`aes_ila.cc:83-84`), while the circuit starts on bit 0 of the data
(`aes_top.v:134`): the host may write any of `HostStarts`, and `start_data`, a history
variable, tells the ILA what it wrote. `RefinesIla` says that
each cycle is an instruction or leaves the ILA's state alone, under the mapping of
`ref-rel-var-map-uaes.json`, except for a start by an odd byte other than 1 (`OddStart`),
which is no instruction (section 7); in OPERATE the circuit overwrites its result in every
cycle, so the encrypted block counts only while it is written back. `Reset` is allowed
in any cycle and is not an instruction. `Bounded` excludes lengths within one block of
2^16, for which the 16-bit counts wrap and the job never ends.

### Pipelines: `SimplePipe`, `SimpleIsa`, `SpecPipe`, `InOrder`

`SimplePipe` is `simple_pipe.v`, one step a cycle: decode with forwarding, execute,
write back and the scoreboard, a set of stages for each register. What ADD, SUB and
AND compute is a table (`Result`), a NOP computes the value `Undef`, as in the Verilog
(`'bx`). `View` is the mapping of `ref-rel-var-map.json`: the latest value of each
register, wherever it is. Initially the pipeline is empty and the registers hold
anything, as in `vlg-verif.py`: after a reset all registers are zero, and ADD, SUB and
AND of zeros leave them so, which would check nothing. `simple_pipe_wrong.v`, which
forwards the second operand by the scoreboard entry of the first, is the mutant
`ForwardByFirst`.

In `SpecPipe` each step is one top instruction (fetch), one `...Exec` and one `...Comm`
child instruction of `Spec-Pipe/src/main.cc`, all reading the state before the
step: exactly one of each group decodes in every state and no state is updated by two
groups. `InOrder` is the same program executed one instruction after another, with
one particularity of the code: there is no forwarding, so a branch reads its register
before the instruction in front of it has written it (`main.cc:176`). `lastRegs` is that
earlier register file. This is what the code computes and not what the example program
in its comment expects: there "br %0 4", right behind "mv %0 1", is "taken -- jump to
4 (nop)" and the load behind it "should not be reached" (`main.cc:71-73`). The run
`spec_pipe_branch` executes that program and reaches the load.

## 4. Runs and bounds

| run | module | states | what it checks |
|---|---|---|---|
| `fw_exchange` | `FwSystem` | 2,609 | types, assertions (with the sizes of messages), the message buffer's two users, interrupts, stable waits, `ExchangeSafe`, `ExchangeFair` and `Completes`, in ten builds |
| `fw_slave_first` | `FwSystem` | violation | the slave firmware may spin inside the section for ever |
| `fw_split_doorbell` | `FwSystem` | violation | without `FAB_LOCK` a late store of the mirror blocks the next sender |
| `rbm_job` | `RbmAccelInv` | 55,136 | types, the shared buffers, the weights, `JobDone`, `JobEnds` |
| `rbm_unrated` | `RbmWeights` | violation | weights of unrated movies move by stale associations |
| `gb_blur` | `BlurPipe` | 4,773 | types, the three streams, the count of results, `ImageLeaves` |
| `gb_columns` | `BlurPipe` | violation | `U2` and `U3` do not stay at one row and column |
| `aes_engine` | `AesEngine` | 588,954 | counter mode, each block its counter, counts in step, `JobEnds`, `RefinesIla` |
| `aes_fast_xram` | `AesEngine` | violation | with a fast XRAM a block is written back before the cipher has answered for it |
| `pipe_isa` | `MCSimplePipe` | 3,150 | scoreboard, draining, `RefinesIsa` |
| `spec_pipe` | `MCSpecPipe` | 143,034 | what is in flight, the cache, `RefinesInOrder`, `Progress` |
| `spec_pipe_branch` | `MCSpecPipe` | violation | the branch of the example program is not taken |

Why the bounds are enough:

* `FwSystem` has none: the exchange is finite and the runs are exhaustive. In
  `fw_exchange` the slave's buffer (40) is larger than the SRAM (32), which makes the
  master fall back to `MAX_SRAM_SIZE`; in the others it is smaller, as in the code.
  The ten builds are every combination of `CTX_LOCK`, `FAB_LOCK`, and, under
  `CTX_LOCK`, `MUTEX` and `POR_OPT`.
* `RbmAccel`: two users, two loops, two tests make both halves of the buffer wrap,
  the parity of `loop * users + user` differ between loops, and prediction start
  in either half; one reset hits every reachable state. The theorems drop the bounds.
  `num_loops` = 0 is among the configurations, but as its first test record is fetched
  from index 0 and `TestRecord` says so, no property fails because of it.
* `RbmWeights`: one rated or unrated movie and one hidden unit besides the bias
  units; updates of different weights are independent. `EdgeMax` = 3 and four users
  trained on let a weight reach its limit and wrap. What holds of the training step
  is proved for every size and has no run.
* `BlurPipe`: 5 x 6 pixels with a 4 x 4 kernel gives three rows of two results,
  the line buffers rotate more than once, and the pipeline is shorter (3) than an
  image's results (6). 30 pixels are an image; 33 are written, so that units also
  meet pixels behind the end. The image's own pixels make more stencils (9 here,
  307,846 with the sizes of the code) than `U4` takes to see the end (7, and
  307,201). `Pixels <= X * (Y + 1)` keeps to one image, before `LB2D_proc_y` starts
  again; the theorems hold for all sizes. `ResultsCounted` and `ImageLeaves` count
  results; which stencil a result is of follows from `StencilsInOrder`.
* `AesEngine`: blocks of 2 bytes, addresses of 6 and a cipher of 3 cycles. A job starts at
  address 5, so it wraps around; lengths 3 and 5 make two blocks and one length beyond
  `Bounded`; the counter 4 wraps as well. The start register is
  written with 0 (which starts nothing), 1 and 3.
  Two starts let a second job meet the first
  one's counts and buffers, with a reset in any cycle. As in the code the timer ends one
  cycle early (`TimeEnough` = 2, `Latency` = 3) and the XRAM is slow enough (`AckGap` = 1,
  two bytes take four cycles); `aes_fast_xram` has `AckGap` = 0. The theorems hold for all
  sizes with `Pace` (section 6).
* `SimplePipe`: three registers let two operands and the destination be in different
  stages. Words of one bit suffice for it to be visible where a value came from, though
  SUB is then ADD and the order of operands cannot be seen; the theorem is for every
  table.
* `SpecPipe`: all programs of four words out of eleven instructions that include
  branches forward and to the start, on a register set by a load or a move or on one
  that does not exist; a program runs on around the end of memory, so branches are
  taken behind branches. The data memory is fixed, each word different.
  `spec_pipe_branch` has the one program of `main.cc`, with its sizes as far as that
  program uses them.

`CHECK_DEADLOCK FALSE` is set for `FwSystem`, `BlurPipe` and `RbmWeights`, where the
threads end, the image ends and the users end. The clocked modules never stop.

Each property of a passing run has a mutant in `PROJECT.json`: a definition changed
the way a bug would change the code (a wait skipped, a guard dropped, a signal
kept up, an address without its offset), under which the run finds the property
violated.

## 5. Fairness

* `FwSystem!FairSpec`: weak fairness of each thread, as the code runs on `pthread`s,
  relies on the scheduler and waits in spin loops; and in builds with `CTX_LOCK` strong
  fairness of each thread. There a thread that polls leaves the section only to ask for
  it again (`fabric.c:303-314` and the other `read_reg_*`), so that another thread that
  asks can get in again and again but never all the time. That the section is then
  given to it at some time is more than a POSIX mutex or a verifier's atomic block
  promises: it is an assumption about the platform, and the demo rests on it. With weak
  fairness alone `Completes` and `ExchangeFair` are violated, by a master that polls for
  ever while the handler asks for the section.
  `Completes` and `ExchangeFair` also allow for the two states in which the
  demo stops whatever the scheduler does (`Blocked`): `SlaveInFirst`, the slave firmware
  spinning inside the section, and `MirrorLeft`, a mirror nobody will clear, the
  endings that `fw_slave_first` and `fw_split_doorbell` show. Without either of
  the two the run finds a violation; there is no third.
* `RbmAccel!FairSpec`: the clock never stops, the host configures, the DMA controller
  answers requests and moves words, and loops over data end. Nothing is assumed of
  the handshakes: each step follows from the signals at the next clock edge.
* `BlurPipe!FairSpec`: each unit runs again and again when its decode function allows
  it, and the host writes its image and reads the results.
* `AesEngine!FairSpec`: the clock never stops, and a request that may be acknowledged is
  at some time (`oc8051_xram.v` acknowledges after `DELAY` cycles). Nothing is assumed of
  the host, which may write in every cycle and reset at any.
* `SpecPipe!FairSpec`: the clock never stops.

## 6. Proofs

The provers check eight modules. The constants are those of the modules, with the
named assumptions `SizeAssumption` (`FwSystem`, `BlurPipe`, `AesEngine`),
`BoundAssumption` (`RbmAccel`), `TimeAssumption` and `HostAssumption` (`AesEngine`),
`PipeAssumption` (`SimplePipe`) and `ProgramAssumption` (`SpecPipe`), which TLC evaluates
on the runs. Two theorems state a condition of their own: those of `RbmWeights` hold for
`Sizes`, three of `AesEngine` with `Pace`.

| module | theorems | for every |
|---|---|---|
| `RbmAccel_proofs` | `TypeCorrect`, `LoadNeverFarAhead`, `Invariant`, `RecordsHeld`, `PredictsWithSettledWeights`, `ResultsHeld`, `DoneWhenComplete`, `ImplementsJob`, `HandshakesNeverBlock`, `WorkStaysBounded`, `JobComesNearer` | bound on users, loops and tests, number of resets |
| `RbmWeights_proofs` | `TypeCorrect`, `RatedMove`, `Drift` | width of a weight, number of users |
| `BlurPipe_proofs` | `PipeInvariant`, `TypeCorrect`, `PixelsStayInOrder`, `SlicesStayInOrder`, `StencilsStayInOrder`, `ResultsStayCounted`, `PipelineNeverStuck`, `WorkIsBounded`, `ImageComesNearer` | size of the image and the kernel, depth of its pipeline |
| `FwSystem_proofs` | `TypeCorrect` | set of builds, buffer sizes |
| `FwExchange_proofs` | `ExchangeInvariant`, `NoAssertion`, `SendersAlwaysExclude`, `InterruptNeverLost`, `AnnouncedSizeUsed`, `WaitsStayStable`, `ImplementsExchange`, `SectionIsExclusive`, `OnlyPollsRepeat`, `ThreadsNeverBlock`, `ThreadsComeNearer` | set of builds, buffer sizes |
| `AesEngine_proofs` | `TypeCorrect`, `CoreInvariant`, `CountersAlwaysAgree`, `BlockAlwaysCipher`, `AlwaysCounterMode`, `ImplementsIla`, `JobAlwaysCountsDown`, `CyclesStayBounded`, `JobComesNearer` | sizes of block, address and counter, latencies (`BlockAlwaysCipher`, `AlwaysCounterMode`, `ImplementsIla` with `Pace`), host values, number of jobs |
| `SimplePipe_proofs` | `PipeInvariant`, `TypeCorrect`, `ScoreboardAlwaysTracks`, `FlushAlwaysAgrees`, `ImplementsIsa` | registers, words, tables of ADD, SUB and AND |
| `SpecPipe_proofs` | `PipelineInvariant`, `TypeCorrect`, `InFlightAlways`, `CacheAlwaysMemory`, `ImplementsInOrder`, `CommitIsNear`, `ClockMakesProgress` | program, memory, size of word and register file |

**RBM accelerator.** None of the safety properties is inductive: that `load` does not
overwrite the record in use follows from where the two threads may be, which follows
from the signals, which follow from where the threads are. `IInv` (`RbmAccelInv`)
states these together: `SignalInv` says at which steps each signal is up;
`LoadTrainInv`, `LoadPredictInv` and `PredictStoreInv` say which pairs of steps two
threads can be in and how their counters differ then; `DataInv`, `EdgesInv`,
`ResultInv` and `WrittenInv` say what is in the buffers, the weights, the result and
memory. Every part is shown from the steps of the threads it relates, with the
others' signals left as they were, because a clock edge is the conjunction of all
threads' steps. `PingpongAlternates` is the arithmetic behind the double buffer: two
consecutive users, also across the end of a loop and from training to prediction,
are in different halves. `ImplementsJob` (`Spec => Job!JSpec`) shows that each edge is
a training step, a result, the beginning or the end of a job, or a stutter of
`RbmJob`, with the test records where the code looks for them; with the run's
`JobDone` this is the safety half of the refinement.

**Training step.** `Drift` is from the number of users trained on; `RatedMove` from
`PosIsFresh`: for a movie the user rated, both associations are of this user.

**Gaussian blur.** `PipeInv` has a part for each unit. `InInv`, `SliceInv` and
`StencilInv` say what a stream's slots hold, as a function of the counts of values
that went in and out. `PlaceInv` relates the row and column `U2` counts to the number
of pixels it took; `LinesInv` says which row of the image each rotating buffer
holds, left and right of the current column; from it `SliceIsImage` follows, that the
words `U2` collects are one column of the image. `ShiftInv` is the same for the shift
register, and `NextStencil` is the arithmetic of `U3`'s column: where a stencil is
made, it is the next one. `KernelInv` describes the pipeline after `f` steps, filled
and drained, for some `f`; a step of `U4` is `f + 1`.

**Multi-firmware demo.** `TypeOK` is made inductive with `HandlerHasCall` (the interrupt
thread runs only while it has a call left) and `MstHasData` (the master writes data
only for the message that has some). Everything else follows from `ExchangeInv`. It
counts, from the places of the three threads alone, how often the master rang
(`Rings`, `Raises`) and had an answer (`Answers`), how often the handler served a call
and acknowledged (`Serves`, `Acks`) and how many replies were sent (`Replies`).
`OrderInv` says how far these counts can be apart; the other parts say what doorbells,
mirrors, data registers, interrupt line, message buffer, flags and histories are, as
functions of the counts. The locks play no part in it: the theorems hold for every set
of builds, also those without `CTX_LOCK` and those that store a doorbell in several
steps. A step of a thread changes one count by one or none (`CountStep`); these are the
steps of `ImageExchange`, which gives `ImplementsExchange`.

**AES engine.** `CoreInv` says, besides how the counts relate, which of the cipher's
`stages` hold the counter and key of this block: as many as the timer has counted
cycles since the block began. With `TimeInv` (loading a block has taken as long as the
XRAM makes it take) the last stage is this block's when OPERATE ends, if `Pace` holds:
`Latency <= TimeEnough`, or `Latency <= Block * (AckGap + 1)`. The code satisfies only the
second: it waits 20 cycles for a cipher of 21 and relies on the XRAM, which needs
two cycles for each of 16 bytes. `CountersAgree` is the repository's relation
`uaes_ctr` = `ctr` + `block_counter` with the byte count beside it; the repository states
it of every state, here it is for lengths that are `Bounded`. `ImplementsIla` has the
same two exceptions as the run, resets and odd starts. `DataInv` is `CounterMode` with what is in the two
buffers while a block is loaded and written back.

**Pipelines.** `ScoreboardTracks` is inductive with `WritesHaveValue`: what is enabled to
be written is never the unknown result of a NOP. Forwarding by the
scoreboard then equals draining the pipeline, from which each cycle is the decoded
instruction on the forwarded view. For `SpecPipe` the invariant is `InFlight`
with the cache, the types and `BubbleInv` (what a flush leaves behind it); a taken
branch leaves the pipeline wrong but flagged, and `vpc` becomes `pc` in the next step,
so that the commits, and only they, are steps of `InOrder`.

### Progress

That a component ends its work is proved as far as the prover goes, in the same three
parts for each: it is never stuck before the end, every step raises a bounded measure,
and under the fairness of the run a step follows. Fairness is stated with the guards
of the steps spelled out (`[]<>~Ready \/ []<><<Step>>_vars`) where the specification
says `WF_vars(Step)`, since `ENABLED` is out of the prover's reach.

| component | never stuck | measure and bound | a step follows |
|---|---|---|---|
| `FwSystem` | `ThreadsNeverBlock` | `OnlyPollsRepeat`: at most 1644 steps that are not turns of a poll | `ThreadsComeNearer` |
| `RbmAccel` | `HandshakesNeverBlock` | `WorkStaysBounded`: `WorkLimit` | `JobComesNearer` |
| `BlurPipe` | `PipelineNeverStuck` | `WorkIsBounded`: `EffortLimit` | `ImageComesNearer` |
| `AesEngine` | within `JobAlwaysCountsDown` | `JobAlwaysCountsDown`, `CyclesStayBounded` | `JobComesNearer` |
| `SpecPipe` | within `CommitIsNear` | `CommitIsNear`: at most 3 cycles | `ClockMakesProgress` |

**Firmware.** `OnlyPollsRepeat` holds in every build and under any scheduler: `Effort` adds
up the places of the three threads, the stores of a doorbell write and the steps in and
out of the section outside of polls, and every step raises it, but for the turns of a
poll that fails (`PollTurn`), which go around in a circle of two states.
`ThreadsNeverBlock` is about builds with `FAB_LOCK`, by which a doorbell and its mirror
are equal (`MirrorInv`), until all threads have ended or the slave firmware spins inside
the section: some thread waits for nothing but the section, whoever is in the section
can go on or leave it, and if it is free whoever waits for nothing else can enter.
`WaitsEnd` is the argument about the registers: each wait that is not over says
something of the counts of `ExchangeInv`, and for no combination of places do these
agree. `SomeoneCanStep` adds the lock. It rests on `ModeInv`, `MirrorInv` and `BusyInv`.
`ThreadsComeNearer` is the step of `Completes` for these builds. With strong fairness of
each thread the effort grows: a thread that waits for nothing but the section goes on
waiting for nothing else (`WaitsAreStable`), is able to enter whenever the pollers are
out of it, and they leave it again and again.

**RBM accelerator.** `LoadStops` strengthens `IInv`: `load` asks for no record behind the
last. Then in every state of a job that is not finished one handshake is over, a
transfer or computation is under way, or the DMA owes a grant. `Work` counts records
loaded, trained on and predicted, results stored, and the places of the threads.

**Gaussian blur.** `StepsInv` ties the kernel's position to the number of results shown
until it knows of the end. The kernel is emptied by further stencils and not by a
flush, so `PipelineNeverStuck` needs one more stencil than there are results:
`EnoughPixels`. It holds for the run's sizes (11 stencils, 6 results) and for the
code's (307846 and 307200).

**AES engine.** `CyclesLeft` is the number of cycles the job still needs with an XRAM that
acknowledges as soon as it can. Only a cycle in which it could and does not leaves the
number as it is. The theorem is about lengths that are `Bounded`; for others the
counts wrap and the engine runs on.

**Speculative pipeline.** `Distance` is the number of cycles to the next commit, 3 after a
taken branch at most. Here the whole of a liveness property is proved, `Progress` from
`Spec` and a clock that ticks.

Only model-checked: `ExchangeFair`, `Completes`, `JobEnds` of both accelerators, the
fairness in `JobDone`, and `ImageLeaves`. What is missing from the parts above is the
induction over the bound, whose statement is a temporal formula and which the library's
induction theorems cannot be applied to, and `ENABLED`. The builds without `FAB_LOCK`
are in `Completes` and not in the theorems on progress. Every safety property of a
passing run is a theorem. Only proved, and not in a run: the training step.

## 7. What the code was found to do

| run | finding |
|---|---|
| `fw_slave_first` | `mainSlv` spins on the image-ready flag inside the section of `ctx_lock` (`slv.c:16`, `main.c:65`); scheduled first, it keeps the other threads out for ever |
| `fw_split_doorbell` | without `FAB_LOCK` a doorbell and its mirror are two stores (`fabric.c:208-209`); an acknowledgement in between leaves the mirror set and the next sender waits for ever |
| `rbm_unrated` | weights of movies a user did not rate move by what an earlier user left in `pos` and `neg`, where the ILA computes them for every movie |
| `gb_columns` | `LB2D_shift_x` has 489 columns, 0 to 488 (`gb_u3.py:103`), `LB2D_proc_x` 488 from 1 on, so `U3` falls one column behind with every row and its windows straddle two rows, where `invariant_w.tcl:118-124` and `init_w.tcl:196-208` claim the columns equal. The slices that wait between the units do not break the claim: with columns counted from 1 it holds in the same run |
| `spec_pipe_branch` | a branch takes its condition from the registers before the instruction in front of it (`main.cc:176`), so in the example program the branch behind `mv %0 1` falls through, where `main.cc:71-73` calls it taken |
| `aes_fast_xram` | the engine leaves OPERATE when its timer is at 20 (`aes_top.v:301`), but `aes_128` takes 21 edges; if the XRAM acknowledged fast enough, what is written back would be the block under the counter before. The repository's XRAM acknowledges every second cycle and hides it |

The first two concern builds the firmware can be compiled as, and are the only ways in
which it stops: in every other schedule of the ten builds that is fair to the threads,
all messages are delivered and the threads end (`Completes`), and what is delivered is
intact in all of them.

Two more disagreements are described here and have no run of their own, since the
properties of a passing run carry them as an exception or a parameter:

* AES: the ILA decodes a start by `cmddata == 1` (`aes_ila.cc:83-84`), and
  `tutorials/aes/README.md:321` says "Write 1 to start encryption"; the circuit starts
  with any odd byte (`aes_top.v:134`). After a write of 3 the engine runs without
  an instruction of the ILA that started it. `RefinesIla` excepts this step (`OddStart`);
  without the exception the run `aes_engine` finds the property violated. What the
  engine then encrypts is as for a start by 1: `CounterMode` and the other properties make
  no exception.
* RBM: the accelerator reads test record `j` behind the training records, at
  `num_users + j` (`rbm.cpp:639`, times `num_visible` in words); the ILA reads at the index
  itself (`rbm_template.py:196`, `rd_index = index`), where the training records are, and
  `SysCV/InstVerify/Compute.I0/verifyExample.cpp:166` asserts that the two places are
  equal (`rd_index_match`). `JobDone` takes the accelerator's place, as the value of
  `TestPlace` in `RbmAccel`; with the ILA's the run `rbm_job` finds it violated.

## 8. What is not modelled

* Within the modelled components: the values of pixels, records and activations
  (uninterpreted, or reduced to what identifies them); the copy of the image in the
  firmware demo (`MEM_OP`) beyond its size; the mutex of
  `INT_LOCK` builds, which only `mainSlv` ever takes (the handler's use of it at
  `main.c:94-105` is commented out), so that it excludes nobody; a second
  image in `BlurPipe` (`gb_exit_it` stops the kernel after the first); weak memory, as
  the firmware's shared variables are verified as sequentially consistent.
* `AesEngine`: the rounds of the cipher (`aes_128.v` is its delay and a symbol for its
  result; the ILA's `IntermediateRound` likewise), lengths beyond `Bounded` in `CounterMode`,
  `JobEnds`, `CountersAgree` and the refinement, so that the wrap of the 16-bit counts has
  no property; the repository's relation on `aes_time_enough` in OPERATE; register reads, which change no state (`aes_ila.cc:170` decodes
  GET_STATUS at the addresses of the counter, so the status has no instruction).
* `ila_spec_a` is not an abstraction of `ila_spec_b` from the reset state: it makes a
  stencil when the column `LB2D` counts from 1 has passed, `U3` at a column of its own
  that is counted from 0 and starts each row one later. The equivalence scripts assume
  the two columns equal (`scripts_a_b/init_w.tcl:196-201`); from reset they differ from the
  first row of slices on.
* Planned (section 2): secure boot, the FIFO comparison and the small firmware examples.
* Most of the repository's lines are generated or vendored (simulators of RTL, front-end
  output of a CUDA compiler, HLS wrappers, third-party cores): the files modelled here
  are the hand-written ones with control logic of their own.
* Not planned, with the reasons in `PROJECT.json`: sequential ILAs of processors and
  of NVDLA, SHA and the ALU, whose instructions are functions of the state with no
  interaction; Piton and LMAC, whose behaviour is mostly third-party RTL; generated
  Verilog and simulators, vendored libraries, templates for synthesis, scripts.
