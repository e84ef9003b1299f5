------------------------------ MODULE RunLoop -------------------------------
(***************************************************************************)
(* Cpu::run(budget) around the steps of module Interrupts: it calls step() *)
(* until the cycles spent reach the budget.  The host may also call step() *)
(* and reset() directly, but only while no run() is in progress.           *)
(***************************************************************************)
EXTENDS Interrupts

CONSTANT Budgets   \* the budgets the host passes to run()

ASSUME BudgetsAssumption == Budgets \subseteq Nat

VARIABLES
  running,   \* a run() is in progress
  budget,    \* its argument
  elapsed    \* cycles_ - start

run     == <<running, budget, elapsed>>
runVars == <<vars, run>>

RunInit == Init /\ running = FALSE /\ budget = 0 /\ elapsed = 0

(* run() reads the cycle counter and enters its loop. *)
CallRun(b) ==
  /\ ~running /\ unit = "idle"
  /\ running' = TRUE /\ budget' = b /\ elapsed' = 0
  /\ UNCHANGED vars

(* The loop's test.  Mutants: run() gives up on a jammed processor, or goes *)
(* on for one step too many.                                                *)
SpentOrJammed == elapsed >= budget \/ jammed
BelowOrAt     == elapsed <= budget

Spent       == elapsed >= budget
BelowBudget == elapsed < budget

(* It fails: run() returns the cycles it spent. *)
RunReturn ==
  /\ running /\ unit = "idle" /\ Spent
  /\ running' = FALSE
  /\ UNCHANGED <<vars, budget, elapsed>>

(* It succeeds, or the host steps the processor itself. *)
RunStep ==
  /\ running => BelowBudget
  /\ Step
  /\ UNCHANGED run

(* Every bus cycle ticks the counter; only run() compares it. *)
RunCycle ==
  /\ FetchAny \/ Cycle
  /\ elapsed' = IF running THEN elapsed + 1 ELSE elapsed
  /\ UNCHANGED <<running, budget>>

RunPins  == Pins /\ UNCHANGED run
RunEnd   == End /\ UNCHANGED run
RunReset == ~running /\ Reset /\ UNCHANGED run

RunNext ==
  \/ \E b \in Budgets : CallRun(b)
  \/ RunReturn \/ RunStep \/ RunCycle \/ RunPins \/ RunEnd \/ RunReset

(* One thread: a call that was made runs on to its return.  The host goes  *)
(* on stepping the processor: it does not call run(0) for ever.            *)
RunFairness ==
  SF_runVars(RunStep) /\ WF_runVars(RunCycle) /\ WF_runVars(RunEnd) /\ WF_runVars(RunReturn)

RunSpec     == RunInit /\ [][RunNext]_runVars
FairRunSpec == RunSpec /\ RunFairness

-----------------------------------------------------------------------------
RunTypeOK == running \in BOOLEAN /\ budget \in Nat /\ elapsed \in Nat

(* A step is begun only below the budget, so inside it run() has spent less *)
(* than the budget and the cycles of this step, and between steps less than *)
(* the budget and one longest instruction.                                  *)
RunBounded ==
  running => elapsed < budget + (IF unit = "idle" THEN MaxLength ELSE used)

(* run() "overshoots by at most one instruction": what it returns is at     *)
(* least the budget and less than the budget plus the longest instruction,  *)
(* also when interrupts are entered or the processor jams on the way.       *)
RunOvershoot ==
  [][running /\ ~running' => budget <= elapsed /\ elapsed < budget + MaxLength]_runVars

(* run() returns, even on a jammed processor and whatever the pins do:      *)
(* there is no step that spends no cycle.                                   *)
RunReturns == running ~> ~running
=============================================================================
