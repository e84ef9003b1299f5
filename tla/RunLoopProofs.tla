---------------------------- MODULE RunLoopProofs ----------------------------
(***************************************************************************)
(* Proofs about RunLoop, for every set of budgets and of lengths: run()    *)
(* adds no behaviour to the processor, and overshoots by less than the     *)
(* longest instruction.                                                    *)
(***************************************************************************)
EXTENDS RunLoop, InterruptsProofs

USE DEF Spent, BelowBudget

-----------------------------------------------------------------------------
(* What a step of the run loop is to the processor. *)
LEMMA RunStepIsStep == [RunNext]_runVars => [Next]_vars
BY DEF RunNext, CallRun, RunReturn, RunStep, RunCycle, RunPins, RunEnd, RunReset, Next, runVars

(* run() only chooses when to call step(): the processor inside it behaves  *)
(* as module Interrupts says, so every theorem about Spec holds in a run.   *)
THEOREM RunImplementsSpec == RunSpec => Spec
<1>1. RunInit => Init
  BY DEF RunInit
<1> QED
  BY <1>1, RunStepIsStep, PTL DEF RunSpec, Spec

-----------------------------------------------------------------------------
(* The strengthening: the opcode fetch is the first cycle of its call. *)
FetchIsFirst == unit = "fetch" => used = 0
RunInv == RunTypeOK /\ RunBounded /\ FetchIsFirst

LEMMA RunInvInit == RunInit => RunInv
<1> SUFFICES ASSUME RunInit PROVE RunInv
  OBVIOUS
<1>1. unit = "idle" /\ used = 0 /\ running = FALSE /\ budget = 0 /\ elapsed = 0
  BY DEF RunInit, Init
<1> QED
  BY <1>1 DEF RunInv, RunTypeOK, RunBounded, FetchIsFirst

LEMMA RunInvStep == TypeOK /\ RunInv /\ [RunNext]_runVars => RunInv'
<1> SUFFICES ASSUME TypeOK, RunInv, [RunNext]_runVars PROVE RunInv'
  OBVIOUS
<1> USE DEF RunInv, RunTypeOK, RunBounded, FetchIsFirst, MaxLength
<1>0. used \in 0 .. MaxLength
  BY DEF TypeOK
<1>1. ASSUME NEW b \in Budgets, CallRun(b) PROVE RunInv'
  BY <1>1, BudgetsAssumption DEF CallRun, vars, control
<1>2. CASE RunReturn
  BY <1>2 DEF RunReturn, vars, control
<1>3. CASE RunStep
  <2>1. unit' # "idle" /\ used' = 0
    BY <1>3 DEF RunStep, Step, StepJammed, StepNmi, StepIrq, StepInstruction, Begin
  <2> QED
    BY <1>3, <2>1 DEF RunStep, run
<1>4. CASE RunCycle
  <2>1. unit # "idle" /\ unit' # "idle" /\ unit' # "fetch" /\ used' = used + 1
    <3>1. CASE FetchAny
      BY <3>1 DEF FetchAny, Fetch, Instructions
    <3>2. CASE Cycle
      BY <3>2 DEF Cycle, Lengths
    <3> QED
      BY <1>4, <3>1, <3>2 DEF RunCycle
  <2> QED
    BY <1>0, <1>4, <2>1 DEF RunCycle
<1>5. CASE RunPins
  BY <1>5 DEF RunPins, run, Pins, SetNmi, SetIrq, control
<1>6. CASE RunEnd
  <2>1. unit # "idle" /\ unit' = "idle"
    BY <1>6 DEF RunEnd, End, EndCall, EndInstruction, EndReloadingI, EndReset, EndJammed,
                Return, Instructions, Entries
  <2> QED
    BY <1>0, <1>6, <2>1 DEF RunEnd, run
<1>7. CASE RunReset
  BY <1>7 DEF RunReset, run, Reset, Begin
<1>8. CASE UNCHANGED runVars
  BY <1>8 DEF runVars, run, vars, control
<1> QED
  BY <1>1, <1>2, <1>3, <1>4, <1>5, <1>6, <1>7, <1>8 DEF RunNext

LEMMA RunInvCorrect == RunSpec => [](TypeOK /\ RunInv)
<1>1. RunInit => TypeOK
  BY TypeOKInit DEF RunInit
<1>2. TypeOK /\ [RunNext]_runVars => TypeOK'
  BY RunStepIsStep, TypeOKStep
<1> QED
  BY <1>1, <1>2, RunInvInit, RunInvStep, PTL DEF RunSpec

(* Inside a step run() is below the budget by more than the step spent. *)
THEOREM RunBoundedCorrect == RunSpec => []RunBounded
<1>1. RunInv => RunBounded
  BY DEF RunInv
<1> QED
  BY <1>1, RunInvCorrect, PTL

(* What run() returns is at least the budget and less than the budget plus  *)
(* the longest instruction.                                                 *)
THEOREM RunOvershootCorrect == RunSpec => RunOvershoot
<1>1. RunInv /\ [RunNext]_runVars =>
        [running /\ ~running' => budget <= elapsed /\ elapsed < budget + MaxLength]_runVars
  <2> SUFFICES ASSUME RunInv, RunNext, running, ~running'
               PROVE  budget <= elapsed /\ elapsed < budget + MaxLength
    OBVIOUS
  <2>1. RunReturn
    BY DEF RunNext, CallRun, RunStep, RunCycle, RunPins, RunEnd, RunReset, run
  <2> QED
    BY <2>1 DEF RunReturn, RunInv, RunTypeOK, RunBounded
<1> QED
  BY <1>1, RunInvCorrect, PTL DEF RunSpec, RunOvershoot
=============================================================================
