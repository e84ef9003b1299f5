# A verification model of the mos6502 emulator

TLA+ models of the 6502 core in `src/include/mos6502/`, the TLC runs that check
them, and TLAPS proofs of their main invariants. Paths below are relative to
`src/`, and a bare header name stands for `include/mos6502/<name>`.

## 1. The system

A header-only emulator. `Cpu<Bus, Variant, Hooks>` is a template; opcodes are
composed at compile time from an operation, an addressing mode and an
instruction shape; there is no cycle table, the cycle count of an instruction is
the number of bus accesses it makes.

| Component | State | Operations | Interacts with |
|---|---|---|---|
| Interrupt logic (`cpu.hpp`) | `nmiLine_`, `nmiEdge_`, `irqLine_`, `pendingNmi_`, `pendingIrq_`, `pollI_`, `jammed_` | `setNmi`, `setIrq`, `pollInterrupts`, `pollImmediate`, the choice at the top of `step`, `reset`, `jam` | pins are moved by the host, and by devices and hooks that a bus access calls |
| Core (`cpu.hpp`, `operations.hpp`) | `regs`, `cycles_` | `step`, `reset`, `read`, `write`, `push`, `pull`, `interruptSequence`, the control-flow instructions | the bus, once per cycle |
| `run` (`cpu.hpp`) | budget and start, local | the loop around `step` | the cycle counter |
| Registers (`registers.hpp`) | the register file | `pack`, `unpack` | the stack |
| Operations (`operations.hpp`) | none | ALU, loads, shifts, transfers, branch conditions | the register file |
| Addressing modes, shapes (`addressing.hpp`, `instructions.hpp`) | locals of one instruction | `effective`, `resolve`, `execute` | the core's `read`, `write`, `fetch` |
| Instruction table (`instruction_table.def`) | constant | dispatch, `instructionLength` | core and disassembler |
| Variants (`variants.hpp`) | constant traits | | operations, shapes, `interruptSequence` |
| Bus (`bus.hpp`) | memory; devices behind it | `read`, `write`, `tick`, `load`, `setVector` | the core |
| Hooks, tracing, disassembler | log lines | callbacks per access and instruction; one line per instruction | the core, and the bus through `peek` |
| `run_klaus` | a loop counter | load, reset, step until pc stands still | the core |
| `run_harte`, `json.hpp` | files, the `TestCase` and `TestBus` of a file, counts | parse a case, step once, compare | `step`, its exit code |
| `harte.sh` | the cache directory, a count of failures | download a batch, run it, delete it | `curl`, the runner's exit code |
| Benchmark, tests, build files | | | `step`, `reset` |

The core runs in one thread. What makes it hard is *order*: a pin may move in
any bus cycle of a call; the poll sees a value of I latched at another moment
than the pins; an interrupt decided at the end of one call is entered by the
next; the accesses of an instruction are visible one by one, discarded ones
included; widths wrap in the middle of an instruction; and interrupts,
subroutines and BRK share one 256-byte stack. A device behind the bus changes
state and pins *inside* an access, and the tracing hook reads the bus of the
machine it observes. `harte.sh` is concurrent: its downloads are background jobs,
they fail, and they outlive a script that is interrupted.

What makes each part correct:

* **Interrupts**: an NMI edge is neither lost nor counted twice; IRQ is a masked
  level with a one-instruction delay; a held, unmasked IRQ is not put off; JAM
  ends only with `reset()`; `reset()` runs its handler first.
* **`run`**: returns, with at least the budget and less than one instruction more.
* **ALU**: binary and decimal arithmetic is the arithmetic of numbers, with the
  flag behaviour the comments describe.
* **Addressing and shapes**: published cycle counts; discarded reads at the
  addresses the hardware uses; the writes of each shape, in order.
* **Core**: the accesses of an instruction add up to what the instruction means;
  every return finds its caller; nothing damages a return address; the main
  program resumes.
* **Disassembler**: a line never disagrees with what the core does.
* **Core, hook and device together**: every event of a device is taken once and in
  order, every interrupt is served, a critical section is not entered.
* **Test runners**: a verdict depends on the case alone; a trap is a trap; "ALL
  PASS" is said only of what was compared; a failed download is repaired by
  running again.

## 2. Modules

| Module | Models | Builds on |
|---|---|---|
| `Interrupts` | pins, latches, poll, `step`'s choice, `reset`, JAM. The abstract specification of when the core does what. | |
| `RunLoop` | `run(budget)` | `Interrupts` |
| `Memory` | `FlatBus`, addresses, vectors | |
| `Alu` | operations, status byte, variants | |
| `Arithmetic` | enumeration of the inputs of the arithmetic and its properties | `Alu` |
| `InstructionTable` | operation, mode and shape of the 256 opcodes | |
| `Isa` | each instruction, entry and reset as one step. The abstract specification of what the core does. | `Memory`, `Alu`, `InstructionTable` |
| `Cpu` | the whole core, one action per kind of bus cycle | `Interrupts`, `Memory`, `Alu`, `InstructionTable`; implements `Interrupts` and `Isa` |
| `Disassembler` | what a line of the listing says | `Memory`, `InstructionTable` |
| `BusCycles` | one instruction and what it shows on the bus | `Cpu`, `Disassembler` |
| `Calls` | a running program, with a stack of frames as history | `Cpu` |
| `System` | the core on a bus with a device, with the tracing hook | `Cpu`, `Disassembler` |
| `Klaus` | `run_klaus` | `Isa` |
| `HarteRunner` | `run_harte` and the cursor of `json.hpp` | |
| `HarteScript` | `harte.sh` around the runner | `HarteRunner` |
| `InterruptsProofs`, `RunLoopProofs`, `AluProofs`, `ArithmeticProofs`, `CpuProofs`, `IsaProofs`, `ProgramProofs`, `HarteProofs` | theorems | the module they are named for; `IsaProofs` is about `Cpu` as an implementation of `Isa`, and about `BusCycles`; `ProgramProofs` is about `Calls` and `System` |
| `MC*` | finite instances for TLC | |

**`Interrupts`.** A call of `step()` or `reset()` begins (`Begin` and the `Step*`
actions, `Reset`), performs bus cycles (`Fetch`, `Cycle`) and ends (`End*`). `unit`
says what the call does and `used` how many cycles it has performed. An
instruction is only its effect on I and its length; `IAfter` says after which
cycle I may change. `SetNmi` and `SetIrq` are enabled in every state, because
`tick`, `read`, `write` and the hooks hand control to the host in every cycle.
`owed`, `credit`, `irqSeen`, `irqSolid`, `last` and `iBefore` are history, read only
by properties.

**`Cpu`.** The call in progress is a list `todo` of bus cycles. Each action
performs the head of the list: one access, with the register updates the code
makes before the next one. `InstructionCycles` builds the list from the mode and
the shape, as the templates do; `Resolve` and `FetchOffset` add the cycles that
depend on data (page cross, taken branch). The pin, begin and end actions are
those of `Interrupts` themselves, and `regI` of that module is `regs.i`. Memory is
a function on the addresses that were ever set, 0 elsewhere, as `FlatBus` clears
it.

**`Isa` and the two refinements.** `Cpu` implements two abstract specifications.
`Spec` of `Interrupts` shares its variables with `Cpu`, so the mapping is the
identity: every bus cycle of every real instruction must be a step of the
interrupt logic. `Isa` knows no bus cycles: `IsaImplemented` (`Reference` in `Cpu`,
an `INSTANCE ... WITH`) maps a state between calls to itself and a state inside a
call to the machine the call began with (`Shown`), so all the accesses of a call
have to add up to one instruction, one entry or one reset, and a jammed step to
nothing.

**`Alu`.** `u8` and `u16` are numbers with explicit truncation; the nibble
computations of decimal mode are kept step by step. `Registers` leaves out `pc`
and `i`, which the other modules own.

**`InstructionTable`.** The table is written by columns (the low five bits of the
opcode), with the exceptions of the modes listed apart.

**`System`.** The device holds a queue of events; a read of its data register takes
the first one out, a 1 written to its latch register acknowledges its interrupt,
and both move the IRQ pin in the cycle of the access. A timer pulses NMI. The
core's access is performed by `Cpu`; before the core may go on, `Serve` does what
the device (and, after the fetch, the reads of `TracingHooks::onInstruction`) does.
The device and the program are of the model, not of the repository: they are the
surroundings `BusLike` and `Hooks` are made for. The IRQ vector leads to
a JMP that ends just below the data register, and the handler loads from this
register with an index that crosses a page, so a `peek` one byte too far or a
discarded read at the corrected address takes an event away.

**`Klaus`.** The tool's loop over `Isa`'s instructions; it moves no pin, so no
interrupt is entered.

**`HarteRunner`, `HarteScript`.** A file is the cases that can be read from it and
whether its array is closed; a case is the members its object has. `test` and
`bus` are the `TestCase` and the `TestBus` that one call of `runFile` uses for all its
cases, and `Parsed` replaces only what a case gives, as `parseState` does. `Core`, a
constant operator, is the processor. `ShortRead` is a file that is cut between the
measuring of its size and the read. In the script each background job is a record
in `downloads`, and has four steps: its `-s` test (`Cached`, `Download`), the creation of the
file by curl (`Opens`, which empties a file that is there by now), bytes written to it
(`Writes`), and its end (`Downloaded`, `DownloadFails`). Jobs outlive an interrupted script
at each of these steps (background jobs of a shell without job control ignore
Ctrl-C), so a job of the run before and one of this run may both write a file, and a
file may come back after the `rm` of its batch. `torn` is the history of the files
that two curls had open at once. Each of them writes at its own offset, which leaves
NUL bytes between the two; the cursor fails at these outside of a string (`Cut`, the
cases before them), but inside one it reads on to the next quotation mark, and the
cases between are not there (`Spliced`). A gap that ends inside another string than
a case's name gives one case made of two; it counts as missing too. The models take a
fixed cache directory (`CACHE` set); by default every run has a new one.

Operators marked "mutant" in the modules are altered copies of the definition
that follows them. No specification uses them; each documents a bug that a
property of the runs must notice.

## 3. Runs

All runs finish within about a minute on a laptop.

| Run | Question | Instance |
|---|---|---|
| `interrupts` | is the interrupt logic right, is each latched NMI answered, does `run` return and with how much? | ordinary instructions of 2 and 3 cycles; budgets 0 and 7; all pin schedules; the NMI credit saturates at 2 |
| `masked_irq` | is a masked IRQ ever taken? (expected violation) | the same lengths |
| `arithmetic` | is the arithmetic exact? | all 256 x 256 x 2 x 2 inputs |
| `bus_cycles_nmos` | cycle counts, accesses, writes and listing of one instruction; is it what `Isa` says? | 256 opcodes x 2 code addresses x 3 operands x 2 index values x 2 stack pointers x flags clear or set, and every opcode in page one under its own stack |
| `bus_cycles_cmos` | the same, for what the CMOS traits change | the same |
| `undocumented_cmos` | are undocumented opcodes NOPs on the CMOS part? (expected violation) | the same |
| `calls` | do returns find their callers, under interrupts and resets, in a program that keeps the stack discipline? both refinements | one program, up to 3 pin changes or resets, at most 1 reset |
| `reset_stack_pointer` | is S $FD after reset? (expected violation) | the same program, 2 resets |
| `jam_address_bus` | does the bus stay on the vectors after JAM? (expected violation) | a program that jams |
| `system` | are events taken once, in order, and all served? | one interrupt-driven program, 2 events and 1 NMI at any cycle |
| `harte` | is ALL PASS to be trusted, and does running again help? | 3 opcodes in batches of 2, a good and a bad server, 1 interrupt, 1 failed download, KEEP on and off |
| `klaus_trap` | is what stops the runner a branch to itself? (expected violation) | two images |

**Bounds.** In `interrupts` the latches do not depend on the length of an ordinary
instruction, so two lengths stand for all; the theorems of section 5 hold for
every set of lengths. The budgets are one that no step fits and one that an
instruction, an interrupt entry or a JAM may straddle. In `bus_cycles_*` code lies
in the middle of memory and across $FFFF/$0000; operands at $00, $F0 and $FF with
an index of 0 or 32 give every combination of page cross, zero-page wrap of the
index and of the pointer, and forward and backward branches with and without a
page cross; the stack pointer is at either end, so that pushes and pulls wrap; in
page one the pushes of a JSR or BRK hit its own second or third byte. The program
of `calls` has a subroutine with a PHP/SEI/PLP section, a BRK, an IRQ handler that
uses the stack and stores elsewhere in page one, and an NMI handler that lets itself
be interrupted; its stack wraps at its third byte. Three changes of the pins (`MaxMoves`) are what an NMI inside
an IRQ handler, or an IRQ held, released and met by an NMI, takes; they may fall
between any two bus cycles. `MaxMoves` and `MaxResets` bound the environment.
`MaxFrames` stops a program that nests more than six calls; deadlock is checked, so
the run also shows that no behaviour of the model reaches this depth. In `system`
the second event may come while the handler of the first runs, before or after its
acknowledgement, and the NMI in the middle of either (`MaxEvents`, `MaxTicks`). In
`harte` the second batch is shorter than the first. One interrupt (`MaxInterrupts`) makes
the jobs of one run meet those of the next, at every pair of steps and at every
step of the script and the runner; with one failed download (`MaxFailures`) either of
the two gives up, or a third leaves a cut file. A second interrupt would add a third
writer, which tears a file no other way; the theorem holds for any number. A file
of two cases, of which the first or the second is missing, is the shortest that can
be torn and still pass. The bad server has a case that lacks its final state and cycles, one that is wrong in a
cell and one that is wrong in a cycle. `MaxInstructions` of `klaus_trap` stands for
the 500 million of the tool.

`CHECK_DEADLOCK FALSE` appears where the enumeration ends by itself: after the one
instruction of `bus_cycles_*`, after the last operand of `arithmetic`, after the
verdict of `klaus_trap`.

**Fairness.** `step()` and `run()` are ordinary calls in one thread: once begun, a
call performs its cycles and returns, and the loops in `run`,
`tools/benchmark.cpp` and `tools/run_klaus.cpp` call the next one. Hence weak
fairness on the cycles, the end of a call and the next step (`CallsFairness`,
`SystemRun`), and on a device's answer to an access, which is part of the call
(`Serve`). In `RunLoop` the host may also call `run` with a budget of 0, which steps
nothing; that it does not do so for ever is the strong fairness of `RunStep`.
Nothing is assumed of the pins, and `reset` is never fair. `FairScriptSpec` is weakly
fair in what the script and its jobs do by themselves and in the user starting the
script again; a download that does not fail ends, and interrupts and failures are
finitely many. `Writes`, `DownloadFails` and `Interrupt` (`Unfair`) need not happen.

**Liveness.** `NmiServiced`: a latched NMI edge is answered unless the processor
jams or is reset. `RunReturns`. `MainLoopResumes`: the main program gets control
again and again with no frame open, unless IRQ is left asserted.
`EverythingServed`: every event is stored and every NMI counted in the end.
`RetryHeals`: on a server whose cases agree, without KEEP=1, the script gets to ALL
PASS.

## 4. Where the code and its documentation differ

* **A masked IRQ can be taken after BRK** (`masked_irq`). `tests/test_cpu.cpp:463`
  and `README.md:91`: a masked IRQ is ignored, CLI, SEI and PLP are delayed by one
  instruction. `step()` latches I before the fetch (`cpu.hpp:84`), BRK sets I, and
  the poll at `cpu.hpp:91` uses the old value: an IRQ asserted during a BRK enters the
  handler again before its first instruction. `ReturnsToCaller` shows that both
  entries still return properly.
* **JAM does not park the bus on the vectors** (`jam_address_bus`):
  `operations.hpp:374`, `README.md:93` against `cpu.hpp:59`.
* **Undocumented opcodes are not NOPs on the CMOS part** (`undocumented_cmos`):
  `variants.hpp:16` against the dispatch, which does not read `illegalOpcodes`.
* **S is not always $FD after reset** (`reset_stack_pointer`): `registers.hpp:15`
  against `cpu.hpp:43`.
* **A trap need not be a branch to itself** (`klaus_trap`): `run_klaus.cpp:44` against
  the test on that line. An RTS at $0403 that pulls $0402 stops the tool; the
  compiled tool prints "FAIL - trapped at $0403" for the image of `MCKlaus`.

Noticed, without a run of their own: "ALL PASS - $total opcodes" (`harte.sh:54`) may be
said without some of the cases. A curl of an interrupted run and one of the next write
one file (line 39); where the gap between them begins and ends in names of cases, the
cases of the gap are skipped (`json.hpp:47-55`), and nothing counts them. TLC finds
such a run in seconds if the exception for `torn` files is taken out of `AllPassSound`, and the
compiled `run_harte` passes six of the ten cases of such a file and exits with 0.
`AllPassSound` says that nothing but such a file, after an interrupt, can make the
verdict wrong. `bus.hpp:14` says that internal cycles tick
with no access following, but every cycle of the code is a read or a write.
`disassembler.hpp:34` asks for a `peek` without side effects and `tracing.hpp:21`
passes the bus's `read`; `EventsInOrder` shows, for the program of `system`, that it
is harmless as long as no instruction lies on a device register. The listing gives BRK one byte while the
core skips two; `AsDisassembled` leaves BRK out with the other jumps, whose
destination is not printed.

## 5. Proofs

Eight modules are checked by `tlapm`. The assumptions are those the modules state:
`LengthsAssumption` (an ordinary instruction takes 2 to 8 cycles) and
`CpuLengthsAssumption` (in `Cpu`, all of these), `BudgetsAssumption` (a budget is a
natural number), `VariantAssumption` (one of the two chips), `MachinesAssumption` (the
host's machines have bytes and words), `BoundsAssumption` (the bounds of `Calls` are natural numbers), `DeviceAssumption` (the
registers of the device are two different addresses, its bounds are bytes) and `ScriptAssumption` (the opcodes given are
different, a batch is not empty, the server has them).

*Type correctness* (`TypeCorrect`) needs that no unit performs more cycles than
`Lengths` allows (`LengthBounds`).

*The interrupt invariant* (`JustifiedCorrect`) is `LatchesJustified`. The properties one
wants about IRQ speak of the moment a handler is entered; the decision was made
one call earlier, so they are not inductive. `LatchesJustified` adds what carries
the reason over:

* `IrqWindow`: the history of the line since the call began brackets its level, and
  a commitment stems from a level seen in this window;
* `PollMask`: inside an instruction `pollI` is the I it began with; at the end of an
  entry I is set, so the entry's own poll never commits to IRQ;
* `IrqDecided`: between calls the IRQ latch answers for the call just completed;
* `JammedUnit`: a jammed call runs only on a jammed processor.

There is one lemma per group of actions (`JustifiedPins`, `JustifiedBegin`,
`JustifiedCycle`, `JustifiedEnd`). From the invariant follow `PendingCorrect`,
`NmiCorrect`, `NmiJustified` and the action properties `IrqNotStaleCorrect`,
`IrqMaskCorrect`, `IrqPromptCorrect`. `JamCorrect` and `ResetRunsHandlerCorrect` use two small
invariants of their own, `JamHolds` and `ResetForgets`.

*The run loop*: `RunImplementsSpec` shows that `run` adds no behaviour, so all of the
above holds inside it. `RunBounded` is inductive with the fact that a fetch is the
first cycle of its call, and gives `RunOvershootCorrect` for every budget.

*Operations* (`AluProofs`): every read and read-modify-write operation, the decimal
ones included, keeps the register file in its type (`ReadsTyped`, `ModifiesTyped`),
from lemmas about each operator of the arithmetic.

*Arithmetic* (`ArithmeticProofs`): what the operations compute, for every operand,
carry and mode and for both chips: `AddExactCorrect`, `SubtractFlagsCorrect`,
`DecimalExactCorrect`, `DecimalAdderCorrect`, `ArrDoublesCorrect`, `RotationsCorrect`.
`DecimalAdderCorrect` is about all that decimal ADC sets, V included (`HalfOverflows`: the
signed overflow of the half-corrected sum is the one the code reads off three sign
bits), `ArrDoublesCorrect` about both modes of ARR (`DigitsSkip` gives the digits of the
decimal one), `RotationsCorrect` about the shifts too (`ShiftsRotate`). The
properties are about quotients and remainders of sums, so each operator gets a
lemma that gives its result without them, case by case. `Arithmetic` iterates the
rotations with a recursive function; `Chain` says what such a function is at the
nine arguments used, so no induction is needed.

*The core* (`CpuProofs`): `CpuTypeCorrect`, and `CpuImplementsInterrupts`, that every
cycle of every program on every memory is a step of `Interrupts`. Neither follows
from the types: whether `Cycle` may change I, and whether a call may end, depends on
how many cycles `Cpu` has left. The inductive invariant is `CpuTypeOK /\ Scheduled`.
`Scheduled` says that the list of cycles left is the one the unit has at this
point: for CLI, SEI, PLP, RTI, BRK, JAM, the entries, reset and a jammed step the
rest of a fixed plan (`OnPlan`); for the other instructions one that ends in time
whatever page crossings and taken branches add to it (`InTime`), and whose results
come from operations that have one (`HasResult`). One lemma per group of cycle
actions shows that it keeps the types (`...Keep`), one that it stays on schedule
(`ScheduledCycle`), one that it maps to a step of `Interrupts` (`CycleSimulates`). The
theorems about the interrupt logic then hold of the core itself: `CpuLosesNoNmi`,
`CpuMasksIrq`, and with `CpuKeepsGuarantees` the rest of them.

*The core and the instruction set* (`IsaProofs`): `CpuImplementsIsa` states
`IsaImplemented`, that every call of `step()` or `reset()`, performed cycle by cycle with
pins changing in between, is one step of `Isa` for every program, memory and chip. It
is not inductive: the reference moves only when the call returns, and only then
does the mapping show the machine. The inductive invariant is `OnCourse`: between
the begin and the return of a call, the registers, memory, pc and the locals are
what the cycles still to come, read off `todo`, and the machine at the start say
of one another. It has one disjunct per point of each family of instructions
(reads, stores, read-modify-writes, unstable stores, branches, the stack
instructions, the entries), so that the last disjunct of a family is the effect
`Isa` gives it. `Isa` has its own copies of the operators of `Alu` and `Memory`
(it instantiates them), and the lemmas `Same...` say that they are those of `Cpu`.

*What the bus shows* (`IsaProofs`): `CyclesPublished`, `AccessesInPlace`, `WritesInOrder`
and `ListingAgrees` state the four properties of `BusCycles` for every opcode, operand,
register file, memory and chip, and for `CpuSpec`, whose calls may also be entries,
resets and steps of a jammed core. Each is about an instruction that has just ended
and none is inductive: what was on the bus earlier is in `trace`, and only the course
of the instruction says that it was right. The invariant adds `OnBus` to `OnCourse`:
the trace has as many accesses as cycles were spent; memory differs from `before`
only where a write of the trace went (`Unstained`, so a later read of the program
sees the same bytes); cycles spent and cycles to do add up to the length of the
instruction's list, and one more once a fixup is due (`Timed`, for branches
`BranchTimed`); and every access so far lies where the mode puts it, a write only
where the shape has one (`OperandTraced`, `StackTraced`). The published times are
then those of the lists: `LowerPublished` and `UpperPublished` compare the 256
entries of the table with `InstructionCycles`. The table itself is transcribed from
the tests, not derived.

*Calls and returns* (`ProgramProofs`): `CallsReturn` and `ReturnAddressesKept` state
`ReturnsToCaller` and `ReturnAddressesIntact` of `CallsSpec`, for every program, memory,
chip, nesting and schedule of the pins, **under the hypothesis** `[]StackDiscipline`. Some
hypothesis is needed: a program may pull its own return address, jump with RTS,
switch stacks with TXS, or store into page one, and then it is meant not to return.
`StackDiscipline` binds the program alone: while a call is open, an instruction begins
with room in page one for one more entry (at most 252 bytes below the outermost
caller); an RTS or RTI meets the kind of frame it is for, at the S below it, and an
RTI with A, X and Y put back; other instructions leave S below the open frames; and a
store or read-modify-write misses their bytes. What the core does is proved: what JSR, BRK and
the entries save and where, that pushes, dummy cycles and nested entries damage none
of it, that S wraps properly, and that RTS and RTI make of the bytes they
pull the pc, the S and every flag of the caller. The run `calls` checks
`StackDiscipline` as an invariant of its program, which has all of these, so the
hypothesis can be met. The inductive invariant is `CallsInv`: `OnCourse`, and `Kept` of
the machine a call began with. `Kept` says that the frames lie one below the other, as
measured by the distance of their S from the outermost caller's modulo 256
(`Nested`; a plain order of addresses would break where the stack wraps), and that
memory holds each frame's return address and flags (`SavedIn`). B is left open
there, since BRK pushes it set, an interrupt clear.
`KeptOpens`, `KeptCloses` and `KeptStays` are the three things the end of a call does to
the frames. `CallsImplement`: with its frames as history, a program is still a behaviour
of both references.

*The bus* (`ProgramProofs`): for a core on a bus with a device, types are right, and the
core with its bus implements `Interrupts` whatever the device answers: the device and
the tracing hook are one of the environments of `Interrupts`, so its theorems hold
there too.

*The script* (`HarteProofs`): `AllPassCorrect` and `VerdictsCorrect`, for every list of
opcodes, batch size, server, processor and number of faults. ALL PASS rests on
`Soundness`: a file whose array is closed is the server's, or torn (so a file that is
only cut can never count as whole), and while nothing has failed every file before
the cursor is `Settled`: all its cases have passed, or it is torn. `OneEach` is why an
interrupt is needed for that: a run has at most one job for each file, and before
the first interrupt there are no others. The independence of verdicts rests
on `NoneAhead`: no case has been counted before the cursor reaches it.

Only model-checked: the liveness properties, `MainLoopResumes`, `NmiServiced`,
`RunReturns`, `EverythingServed` and `RetryHeals` (they need fairness, which the prover
does not treat), and `EventsInOrder` and `CriticalSectionHolds`, which say what one
program of `MCSystem` computes. What they rest on for any program and device is
proved: `SystemMasksIrq`, `SystemIrqNotStale`, `SystemLosesNoNmi`.

## 6. Not modelled

* The layout of the disassembler's and the tracer's text, and the mismatch reports
  of `run_harte`: output only.
* JSON at the level of characters, and how `run_harte` finds its directory and turns
  an opcode into a file name: string handling. A malformed text is one whose array
  is not closed where the reading stops.
* A hook that writes registers or calls `reset()` from inside a step; `jam()` called
  by the host.
* Two opcodes alike on the command line of `harte.sh` (two downloads of one file, as
  after an interrupt, but in one run), and two values of `BASE` on one cache: both can
  leave a wrong file, and nothing in the script treats them.
* The wrap of the 64-bit cycle counter; `FlatBus`'s own counter.
* The benchmark (it measures time), the unit tests (their cycle table is the
  reference of `CyclesAsPublished`), build files, the umbrella header.

The behaviour of `Cpu` was compared with the compiled headers on 25600 random single
instructions (registers and the full list of accesses, both variants).
