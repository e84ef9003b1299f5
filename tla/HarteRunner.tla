----------------------------- MODULE HarteRunner -----------------------------
(***************************************************************************)
(* tools/run_harte.cpp with the cursor of tools/json.hpp: the files named  *)
(* on the command line, the test cases of each, the comparison and the     *)
(* exit code.                                                              *)
(*                                                                         *)
(* A file is the cases that can be read from it, whether its array is      *)
(* closed behind them, and whether it is empty; the cursor throws where    *)
(* the array is not closed, and nobody catches.  A case is the members its *)
(* JSON object has; one TestCase and one TestBus serve all the cases of a  *)
(* file.  The processor is a function of the registers and the memory,     *)
(* Core.                                                                   *)
(***************************************************************************)
EXTENDS Naturals, Sequences

CONSTANTS
  Addresses,    \* of the test bus
  Core(_, _)    \* what one step() makes of registers and memory: [regs, memory, log]

VARIABLES
  disk,         \* the files that exist: [cases, closed, empty]
  runner,       \* "idle", "running", and the exit: "passed" 0, "failed" 1, "aborted"
  files, at,    \* the files named, the one in turn
  reading,      \* it has been read, and is being walked through
  text,         \* what was read of it
  done,         \* the cases read from it
  test, bus,    \* runFile's TestCase and the memory of its TestBus
  failed,       \* total.failed
  passed        \* the cases counted as passed, <<file, number>>

runnerVars == <<runner, files, at, reading, text, done, test, bus, failed, passed>>

Zeroed     == [a \in Addresses |-> 0]
NoRam      == [a \in {} |-> 0]
FreshState == [regs |-> 0, ram |-> NoRam]
FreshTest  == [initial |-> FreshState, final |-> FreshState, cycles |-> <<>>]
Empty      == [cases |-> <<>>, closed |-> FALSE, empty |-> TRUE]

RunnerInit ==
  /\ runner = "idle" /\ files = <<>> /\ at = 1 /\ reading = FALSE /\ text = Empty /\ done = 0
  /\ test = FreshTest /\ bus = Zeroed /\ failed = 0 /\ passed = {}

Case == text.cases[done + 1]

-----------------------------------------------------------------------------
(* parseState: the register members that are given replace the old ones,   *)
(* the ram list is always cleared first.                                   *)
ParsedState(given, old) ==
  [regs |-> IF "regs" \in DOMAIN given THEN given.regs ELSE old.regs,
   ram  |-> IF "ram" \in DOMAIN given THEN given.ram ELSE NoRam]

(* parseCase; mutant: the cycles of the case before stay. *)
CyclesAppended(cycles) == test.cycles \o cycles
CyclesRead(cycles)     == cycles

Parsed(case) ==
  [initial |-> IF "initial" \in DOMAIN case
                 THEN ParsedState(case.initial, test.initial) ELSE test.initial,
   final   |-> IF "final" \in DOMAIN case
                 THEN ParsedState(case.final, test.final) ELSE test.final,
   cycles  |-> CyclesRead(IF "cycles" \in DOMAIN case THEN case.cycles ELSE <<>>)]

(* The memory before the initial ram is stored. *)
ClearedBus == Zeroed

Stored(memory, ram) == [a \in Addresses |-> IF a \in DOMAIN ram THEN ram[a] ELSE memory[a]]

(* Registers, the listed memory and every cycle: the comparison. *)
Same(out, final, cycles) ==
  /\ out.regs = final.regs
  /\ \A a \in DOMAIN final.ram : out.memory[a] = final.ram[a]
  /\ out.log = cycles

-----------------------------------------------------------------------------
(* runFile ends, by returning, by an exception or with its process: its    *)
(* text, TestCase and TestBus are gone.                                    *)
Returned == reading' = FALSE /\ text' = Empty /\ done' = 0 /\ test' = FreshTest /\ bus' = Zeroed

RunnerStart(names) ==
  /\ runner \in {"idle", "passed", "failed", "aborted"}
  /\ runner' = "running" /\ files' = names /\ at' = 1 /\ failed' = 0
  /\ UNCHANGED <<reading, text, done, test, bus, passed>>

(* A file that cannot be opened is a failure. *)
CannotOpen ==
  /\ runner = "running" /\ ~reading /\ at <= Len(files) /\ files[at] \notin DOMAIN disk
  /\ failed' = failed + 1 /\ at' = at + 1
  /\ UNCHANGED <<runner, files, reading, text, done, test, bus, passed>>

Open ==
  /\ runner = "running" /\ ~reading /\ at <= Len(files) /\ files[at] \in DOMAIN disk
  /\ reading' = TRUE /\ text' = disk[files[at]] /\ done' = 0 /\ test' = FreshTest /\ bus' = Zeroed
  /\ UNCHANGED <<runner, files, at, failed, passed>>

(* So is one that somebody has cut between the measuring of its size and   *)
(* the end of the read: there are fewer bytes than text has room for.      *)
Shorter(file, measured) ==
  /\ ~file.closed
  /\ \/ measured.closed
     \/ file.empty /\ ~measured.empty
     \/ Len(file.cases) < Len(measured.cases)

ShortRead ==
  /\ reading /\ done = 0
  /\ files[at] \in DOMAIN disk /\ Shorter(disk[files[at]], text)
  /\ Returned /\ failed' = failed + 1 /\ at' = at + 1
  /\ UNCHANGED <<runner, files, passed>>

(* One element of the array: parse, set up, step, compare. *)
RunCase ==
  /\ reading /\ done < Len(text.cases)
  /\ test' = Parsed(Case)
  /\ LET out == Core(test'.initial.regs, Stored(ClearedBus, test'.initial.ram))
     IN  /\ bus' = out.memory
         /\ IF Same(out, test'.final, test'.cycles)
              THEN passed' = passed \cup {<<files[at], done + 1>>} /\ failed' = failed
              ELSE failed' = failed + 1 /\ passed' = passed
  /\ done' = done + 1
  /\ UNCHANGED <<runner, files, at, reading, text>>

Close ==
  /\ reading /\ done = Len(text.cases) /\ text.closed
  /\ Returned /\ at' = at + 1
  /\ UNCHANGED <<runner, files, failed, passed>>

(* The end of an array that is not closed: the cursor throws. *)
OnUnclosed == "aborted"

Abort ==
  /\ reading /\ done = Len(text.cases) /\ ~text.closed
  /\ Returned /\ runner' = OnUnclosed
  /\ UNCHANGED <<files, at, failed, passed>>

Exit ==
  /\ runner = "running" /\ ~reading /\ at > Len(files)
  /\ runner' = (IF failed = 0 THEN "passed" ELSE "failed")
  /\ UNCHANGED <<files, at, reading, text, done, test, bus, failed, passed>>

RunnerNext == CannotOpen \/ Open \/ ShortRead \/ RunCase \/ Close \/ Abort \/ Exit

-----------------------------------------------------------------------------
(* A case that has all its members, judged alone on a fresh machine. *)
Complete(case) ==
  /\ {"initial", "final", "cycles"} \subseteq DOMAIN case
  /\ \A side \in {"initial", "final"} : {"regs", "ram"} \subseteq DOMAIN case[side]

Agrees(case) ==
  Same(Core(case.initial.regs, Stored(Zeroed, case.initial.ram)), case.final, case.cycles)

(* Nothing of one case leaks into the next through the TestCase and the bus *)
(* they share: a case that has all its members is counted as passed exactly *)
(* if the processor agrees with it on a machine of its own, also after a    *)
(* case that lacks some.                                                    *)
VerdictsIndependent ==
  reading => \A k \in 1 .. done :
    Complete(text.cases[k]) => (<<files[at], k>> \in passed <=> Agrees(text.cases[k]))
=============================================================================
