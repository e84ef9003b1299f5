------------------------------- MODULE Klaus --------------------------------
(***************************************************************************)
(* tools/run_klaus.cpp: runs a test image until it traps, that is until an *)
(* instruction leaves pc where it was, and compares the address.           *)
(***************************************************************************)
EXTENDS Isa

CONSTANTS
  Images,           \* the memories a file loaded at $0000 can give
  StartPc,          \* the start_pc argument
  SuccessPc,        \* the success_pc argument
  MaxInstructions   \* the loop's bound, 500 million in the code

VARIABLES
  instructions,     \* the loop counter
  verdict           \* "running", or how the runner ended

klausVars == <<isaVars, instructions, verdict>>

(* The constructed registers, reset, and the start address put into pc. *)
ResetRegisters ==
  Moved([a |-> 0, x |-> 0, y |-> 0, s |-> 0,
         n |-> FALSE, v |-> FALSE, d |-> FALSE, z |-> FALSE, c |-> FALSE], -3)

KlausInit ==
  /\ mem \in Images /\ regs = ResetRegisters /\ regI = TRUE /\ jammed = FALSE
  /\ pc = StartPc /\ instructions = 0 /\ verdict = "running"

Judged ==
  CASE pc' = pc -> (IF pc = SuccessPc THEN "passed" ELSE "trapped elsewhere")
    [] pc' # pc /\ jammed' -> "jammed"
    [] OTHER -> "running"

Step ==
  /\ verdict = "running" /\ instructions < MaxInstructions
  /\ Instruction
  /\ instructions' = instructions + 1
  /\ verdict' = Judged

GiveUp ==
  /\ verdict = "running" /\ instructions = MaxInstructions
  /\ verdict' = "no trap reached"
  /\ UNCHANGED <<isaVars, instructions>>

KlausNext == Step \/ GiveUp

KlausSpec == KlausInit /\ [][KlausNext]_klausVars

(* What the runner takes for a trap is a branch or a jump to itself, as the *)
(* comment of run_klaus.cpp:44 has it.                                      *)
TrapIsBranchToSelf ==
  [][verdict' \in {"passed", "trapped elsewhere"} =>
       Shape = "Branch" \/ Does("JMP_ABS") \/ Does("JMP_IND")]_klausVars
=============================================================================
