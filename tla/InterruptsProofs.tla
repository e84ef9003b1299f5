-------------------------- MODULE InterruptsProofs ---------------------------
(***************************************************************************)
(* Proofs about Interrupts, for every set of ordinary instruction lengths. *)
(***************************************************************************)
EXTENDS Interrupts, TLAPS

(* The conditions and values that have a name of their own are expanded    *)
(* everywhere.                                                             *)
USE DEF JamLength, JammedLength, Latched, NmiEdgeAfterReset, IrqLatchAfterReset, AnswersNmi,
        LatchedI, TakesNmi, DelayedI, ImmediateI, PollAfterReset

-----------------------------------------------------------------------------
(* Every unit takes between 1 and MaxLength bus cycles. *)
LEMMA LengthBounds ==
  ASSUME NEW u \in Units, NEW n \in Lengths(u)
  PROVE  n \in 1 .. MaxLength
<1>1. CASE u = "other"
  BY <1>1, LengthsAssumption DEF Lengths, MaxLength
<1>2. CASE u # "other"
  BY <1>2 DEF Lengths, MaxLength, Units, Instructions, Entries
<1> QED
  BY <1>1, <1>2

(* A bus cycle leaves I a Boolean. *)
LEMMA IAfterBoolean ==
  ASSUME regI \in BOOLEAN, NEW u, NEW n, NEW i \in IAfter(u, n)
  PROVE  i \in BOOLEAN
BY DEF IAfter

-----------------------------------------------------------------------------
LEMMA TypeOKInit == Init => TypeOK
<1> SUFFICES ASSUME Init PROVE TypeOK
  OBVIOUS
<1>1. unit \in Units /\ last \in Units
  BY DEF Init, Units
<1>2. used \in 0 .. MaxLength /\ credit \in 0 .. 2
  BY DEF Init, MaxLength
<1> QED
  BY <1>1, <1>2, Zenon DEF Init, TypeOK

LEMMA TypeOKStep == TypeOK /\ [Next]_vars => TypeOK'
<1> SUFFICES ASSUME TypeOK, [Next]_vars PROVE TypeOK'
  OBVIOUS
<1> USE DEF TypeOK, MaxLength
<1>1. ASSUME NEW asserted \in BOOLEAN, SetNmi(asserted) PROVE TypeOK'
  BY <1>1 DEF SetNmi, control, flags, pending, window
<1>2. ASSUME NEW asserted \in BOOLEAN, SetIrq(asserted) PROVE TypeOK'
  BY <1>2 DEF SetIrq, control, flags, pending, nmiHist
<1>3. CASE Reset \/ Step
  <2>1. /\ unit' \in Units /\ used' = 0
        /\ iBefore' = regI /\ irqSeen' = irqLine /\ irqSolid' = irqLine
        /\ UNCHANGED <<regI, nmiLine, irqLine, last>>
    BY <1>3 DEF Reset, Step, StepJammed, StepNmi, StepIrq, StepInstruction, Begin,
                Units, Entries
  <2>2. credit' \in 0 .. 2
    BY <1>3 DEF Reset, Step, StepJammed, StepNmi, StepIrq, StepInstruction, nmiHist
  <2>3. /\ pollI' \in BOOLEAN /\ nmiEdge' \in BOOLEAN /\ pendingNmi' \in BOOLEAN
        /\ pendingIrq' \in BOOLEAN /\ jammed' \in BOOLEAN /\ owed' \in BOOLEAN
    BY <1>3, Zenon
       DEF Reset, Step, StepJammed, StepNmi, StepIrq, StepInstruction, Begin, nmiHist, pending
  <2> QED
    BY <2>1, <2>2, <2>3
<1>4. ASSUME NEW op \in Instructions, Fetch(op) PROVE TypeOK'
  BY <1>4 DEF Fetch, Units, flags, pins, pending, history, nmiHist, window
<1>5. CASE Cycle
  <2>1. used' \in 0 .. 11
    BY <1>5, LengthBounds DEF Cycle
  <2>2. regI' \in BOOLEAN
    BY <1>5, IAfterBoolean DEF Cycle
  <2>3. jammed' \in BOOLEAN
    BY <1>5 DEF Cycle
  <2> QED
    BY <1>5, <2>1, <2>2, <2>3 DEF Cycle, pins, pending, history, nmiHist, window
<1>6. CASE End
  <2>1. /\ unit' = "idle" /\ used' = 0 /\ last' = unit
        /\ UNCHANGED <<regI, nmiLine, irqLine, jammed, nmiHist, window, iBefore>>
    BY <1>6 DEF End, EndCall, EndInstruction, EndReloadingI, EndReset, EndJammed, Return
  <2>2. pollI' \in BOOLEAN /\ nmiEdge' \in BOOLEAN
        /\ pendingNmi' \in BOOLEAN /\ pendingIrq' \in BOOLEAN
    BY <1>6 DEF End, EndCall, EndInstruction, EndReloadingI, EndReset, EndJammed, Poll, pending
  <2> QED
    BY <2>1, <2>2 DEF Units, nmiHist, window
<1>7. CASE UNCHANGED vars
  BY <1>7 DEF vars, control, flags, pins, pending, history, nmiHist, window
<1> QED
  BY <1>1, <1>2, <1>3, <1>4, <1>5, <1>6, <1>7 DEF Next, Pins, FetchAny

(* The type invariant. *)
THEOREM TypeCorrect == Spec => []TypeOK
BY TypeOKInit, TypeOKStep, PTL DEF Spec

-----------------------------------------------------------------------------
(* The latches are justified at power-on: nothing is pending. *)
LEMMA JustifiedInit == Init => LatchesJustified
<1> SUFFICES ASSUME Init PROVE LatchesJustified
  OBVIOUS
<1>1. NmiNotInvented
  BY DEF Init, NmiNotInvented
<1>2. unit = "idle" /\ unit # "jammed" /\ unit # "fetch" /\ unit \notin Instructions \cup Entries
  BY DEF Init, Instructions, Entries
<1>3. PendingOnlyBetweenSteps /\ NmiNotLost /\ JammedUnit /\ IrqWindow /\ PollMask /\ IrqDecided
  BY <1>2, Zenon DEF Init, PendingOnlyBetweenSteps, NmiNotLost, JammedUnit, IrqWindow, PollMask, IrqDecided
<1> QED
  BY <1>1, <1>3 DEF LatchesJustified

(* A change of the pins. *)
LEMMA JustifiedPins ==
  ASSUME TypeOK, LatchesJustified, Pins PROVE LatchesJustified'
<1> USE DEF TypeOK, LatchesJustified
<1>1. ASSUME NEW asserted \in BOOLEAN, SetNmi(asserted) PROVE LatchesJustified'
  <2>1. UNCHANGED <<unit, used, regI, pollI, irqLine, pendingNmi, pendingIrq, jammed,
                    irqSeen, irqSolid, last, iBefore>>
    BY <1>1 DEF SetNmi, control, flags, pending, window
  <2>2. NmiNotLost'
    BY <1>1, <2>1 DEF SetNmi, NmiNotLost
  <2>3. NmiNotInvented'
    BY <1>1, <2>1 DEF SetNmi, NmiNotInvented
  <2>4. /\ PendingOnlyBetweenSteps' /\ JammedUnit' /\ IrqWindow' /\ PollMask' /\ IrqDecided'
    BY <2>1 DEF PendingOnlyBetweenSteps, JammedUnit, IrqWindow, PollMask, IrqDecided, LastLetsIrqIn
  <2> QED
    BY <2>2, <2>3, <2>4
<1>2. ASSUME NEW asserted \in BOOLEAN, SetIrq(asserted) PROVE LatchesJustified'
  <2>1. UNCHANGED <<unit, used, regI, pollI, nmiEdge, pendingNmi, pendingIrq, jammed,
                    owed, credit, last, iBefore>>
    BY <1>2 DEF SetIrq, control, flags, pending, nmiHist
  <2>2. irqLine' = asserted /\ (irqSeen' <=> irqSeen \/ asserted)
        /\ (irqSolid' <=> irqSolid /\ asserted)
    BY <1>2, Zenon DEF SetIrq
  <2>3. IrqWindow' /\ IrqDecided'
    BY <2>1, <2>2 DEF IrqWindow, IrqDecided, LastLetsIrqIn
  <2>4. /\ PendingOnlyBetweenSteps' /\ JammedUnit' /\ PollMask' /\ NmiNotLost' /\ NmiNotInvented'
    BY <2>1 DEF PendingOnlyBetweenSteps, JammedUnit, PollMask, NmiNotLost, NmiNotInvented
  <2> QED
    BY <2>2, <2>3, <2>4
<1> QED
  BY <1>1, <1>2 DEF Pins

(* The beginning of a call: it consumes what the last poll left. *)
LEMMA JustifiedBegin ==
  ASSUME TypeOK, LatchesJustified, Reset \/ Step PROVE LatchesJustified'
<1> USE DEF TypeOK, LatchesJustified
<1>1. /\ unit = "idle" /\ unit' # "idle" /\ used' = 0
      /\ unit' \in {"reset", "jammed", "NMI", "IRQ", "fetch"}
      /\ iBefore' = regI /\ irqSeen' = irqLine /\ irqSolid' = irqLine
      /\ UNCHANGED <<regI, nmiLine, irqLine, last>>
  BY DEF Reset, Step, StepJammed, StepNmi, StepIrq, StepInstruction, Begin
<1>2. PendingOnlyBetweenSteps'
  BY <1>1 DEF Reset, Step, StepJammed, StepNmi, StepIrq, StepInstruction, Begin,
              pending, PendingOnlyBetweenSteps
<1>3. NmiNotLost'
  BY DEF Reset, Step, StepJammed, StepNmi, StepIrq, StepInstruction, Begin,
         pending, nmiHist, NmiNotLost, PendingOnlyBetweenSteps
<1>4. NmiNotInvented'
  BY DEF Reset, Step, StepJammed, StepNmi, StepIrq, StepInstruction, Begin,
         pending, nmiHist, NmiNotInvented
<1>5. JammedUnit'
  BY <1>1 DEF Reset, Step, StepJammed, StepNmi, StepIrq, StepInstruction, Begin, JammedUnit
<1>6. IrqWindow'
  BY <1>1, <1>2, <1>5 DEF IrqWindow, PendingOnlyBetweenSteps, JammedUnit
<1>7. PollMask'
  BY <1>1 DEF Reset, Step, StepJammed, StepNmi, StepIrq, StepInstruction, Begin,
              PollMask, Instructions, Entries
<1>8. IrqDecided'
  BY <1>1 DEF IrqDecided
<1> QED
  BY <1>2, <1>3, <1>4, <1>5, <1>6, <1>7, <1>8

(* A bus cycle, the opcode fetch included: the latches do not move. *)
LEMMA JustifiedCycle ==
  ASSUME TypeOK, LatchesJustified, FetchAny \/ Cycle PROVE LatchesJustified'
<1> USE DEF TypeOK, LatchesJustified
<1>1. /\ unit \notin {"idle", "jammed"} => unit' \notin {"idle", "jammed"}
      /\ unit' # "idle" /\ (unit' = "jammed" => unit = "jammed") /\ (jammed => jammed')
      /\ UNCHANGED <<pollI, nmiLine, nmiEdge, irqLine, pendingNmi, pendingIrq,
                     owed, credit, irqSeen, irqSolid, last, iBefore>>
  BY DEF FetchAny, Fetch, Cycle, Lengths, Instructions, flags, pins, pending, history, nmiHist, window
<1>2. PollMask'
  <2>1. CASE FetchAny
    BY <2>1 DEF FetchAny, Fetch, flags, history, PollMask, Instructions, Entries
  <2>2. CASE Cycle
    <3>1. unit' = unit /\ used' = used + 1 /\ regI' \in IAfter(unit, used')
      BY <2>2 DEF Cycle
    <3>2. ASSUME unit \in Entries, used' >= 5 PROVE regI'
      <4>1. unit \notin {"CLI", "SEI", "PLP", "RTI"}
        BY <3>2 DEF Entries
      <4>2. CASE used' = 5
        BY <3>1, <3>2, <4>1, <4>2, Zenon DEF IAfter
      <4>3. CASE used' # 5
        <5>1. regI' = regI
          BY <3>1, <4>1, <4>3 DEF IAfter
        <5> QED
          BY <3>1, <3>2, <4>3, <5>1 DEF PollMask
      <4> QED
        BY <4>2, <4>3
    <3> QED
      BY <1>1, <3>1, <3>2 DEF PollMask
  <2> QED
    BY <2>1, <2>2
<1>3. PendingOnlyBetweenSteps' /\ JammedUnit'
  BY <1>1 DEF FetchAny, Fetch, Cycle, Lengths, PendingOnlyBetweenSteps, JammedUnit
<1>4. NmiNotLost' /\ NmiNotInvented' /\ IrqWindow' /\ IrqDecided'
  BY <1>1 DEF NmiNotLost, NmiNotInvented, IrqWindow, IrqDecided
<1> QED
  BY <1>2, <1>3, <1>4

(* The end of a call: the poll decides from the pins of this moment. *)
LEMMA JustifiedEnd ==
  ASSUME TypeOK, LatchesJustified, End PROVE LatchesJustified'
<1> USE DEF TypeOK, LatchesJustified
<1>1. /\ unit' = "idle" /\ last' = unit
      /\ UNCHANGED <<regI, irqLine, jammed, owed, credit, irqSeen, irqSolid, iBefore>>
  BY DEF End, EndCall, EndInstruction, EndReloadingI, EndReset, EndJammed, Return, nmiHist, window
<1>2. unit # "jammed" => ~pendingNmi /\ ~pendingIrq
  BY DEF End, EndCall, EndInstruction, EndReloadingI, EndReset, EndJammed, Return,
         PendingOnlyBetweenSteps, Instructions, Entries
<1>3. PendingOnlyBetweenSteps'
  BY <1>1, <1>2 DEF End, EndCall, EndInstruction, EndReloadingI, EndReset, EndJammed, Poll,
                    pending, PendingOnlyBetweenSteps, Instructions, Entries
<1>4. NmiNotLost' /\ NmiNotInvented'
  BY <1>1, <1>2 DEF End, EndCall, EndInstruction, EndReloadingI, EndReset, EndJammed, Poll,
                    pending, NmiNotLost, NmiNotInvented, Instructions, Entries
<1>5. JammedUnit' /\ PollMask'
  BY <1>1 DEF JammedUnit, PollMask, Instructions, Entries
<1>6. IrqWindow'
  BY <1>1, <1>2 DEF End, EndCall, EndInstruction, EndReloadingI, EndReset, EndJammed, Poll, pending, IrqWindow
<1>7. IrqDecided'
  <2>1. CASE EndInstruction
    BY <1>1, <1>2, <2>1 DEF EndInstruction, Poll, PollMask, IrqWindow, IrqDecided, LastLetsIrqIn, Instructions
  <2>2. CASE EndReloadingI
    <3>1. unit \in Entries => used = 7
      BY DEF End, Lengths, Entries
    <3>2. unit \in Entries => regI
      BY <3>1 DEF PollMask
    <3> QED
      BY <1>1, <1>2, <2>2, <3>2
         DEF EndReloadingI, Poll, IrqWindow, IrqDecided, LastLetsIrqIn, Instructions, Entries
  <2>3. CASE EndReset
    BY <1>1, <1>2, <2>3 DEF EndReset, pending, IrqDecided, LastLetsIrqIn, Instructions
  <2>4. CASE EndJammed
    BY <1>1, <2>4 DEF EndJammed, JammedUnit, IrqDecided
  <2> QED
    BY <2>1, <2>2, <2>3, <2>4 DEF End, EndCall
<1> QED
  BY <1>3, <1>4, <1>5, <1>6, <1>7

LEMMA JustifiedStep ==
  TypeOK /\ LatchesJustified /\ [Next]_vars => LatchesJustified'
<1> SUFFICES ASSUME TypeOK, LatchesJustified, [Next]_vars PROVE LatchesJustified'
  OBVIOUS
<1>1. CASE Next
  BY <1>1, JustifiedPins, JustifiedBegin, JustifiedCycle, JustifiedEnd DEF Next
<1>2. CASE UNCHANGED vars
  BY <1>2 DEF vars, control, flags, pins, pending, history, nmiHist, window, LatchesJustified,
              PendingOnlyBetweenSteps, NmiNotLost, NmiNotInvented, JammedUnit, IrqWindow,
              PollMask, IrqDecided, LastLetsIrqIn
<1> QED
  BY <1>1, <1>2

(* Every request a latch holds has its reason in the pins and in I. *)
THEOREM JustifiedCorrect == Spec => []LatchesJustified
BY TypeOKInit, TypeOKStep, JustifiedInit, JustifiedStep, PTL DEF Spec

(* No instruction runs on top of a stale request. *)
THEOREM PendingCorrect == Spec => []PendingOnlyBetweenSteps
<1>1. LatchesJustified => PendingOnlyBetweenSteps
  BY DEF LatchesJustified
<1> QED
  BY <1>1, JustifiedCorrect, PTL

(* An NMI edge, wherever it falls, is remembered until it is answered. *)
THEOREM NmiCorrect == Spec => []NmiNotLost
<1>1. LatchesJustified => NmiNotLost
  BY DEF LatchesJustified
<1> QED
  BY <1>1, JustifiedCorrect, PTL

(* No NMI is entered without an edge of its own. *)
THEOREM NmiJustified == Spec => []NmiNotInvented
<1>1. LatchesJustified => NmiNotInvented
  BY DEF LatchesJustified
<1> QED
  BY <1>1, JustifiedCorrect, PTL

-----------------------------------------------------------------------------
(* Only step() with the IRQ latch set enters the IRQ handler, and only     *)
(* step() with both latches clear executes an instruction.                 *)
LEMMA WhoBegins ==
  ASSUME [Next]_vars
  PROVE  /\ Begins("IRQ") => ~jammed /\ ~pendingNmi /\ pendingIrq
         /\ Begins("fetch") => ~jammed /\ ~pendingNmi /\ ~pendingIrq
<1>1. CASE Reset \/ Step
  BY <1>1 DEF Begins, Reset, Step, StepJammed, StepNmi, StepIrq, StepInstruction, Begin
<1>2. CASE Pins \/ FetchAny \/ Cycle \/ End \/ UNCHANGED vars
  BY <1>2 DEF Begins, Pins, SetNmi, SetIrq, FetchAny, Fetch, Cycle, End, EndCall, EndInstruction,
              EndReloadingI, EndReset, EndJammed, Return, vars, control
<1> QED
  BY <1>1, <1>2 DEF Next

(* The IRQ handler is entered only for a level seen in the last call. *)
THEOREM IrqNotStaleCorrect == Spec => IrqNotStale
<1>1. LatchesJustified /\ [Next]_vars => [Begins("IRQ") => irqSeen]_vars
  BY WhoBegins DEF LatchesJustified, IrqWindow
<1> QED
  BY <1>1, JustifiedCorrect, PTL DEF Spec, IrqNotStale

(* The IRQ handler is entered only after a call that let it in. *)
THEOREM IrqMaskCorrect == Spec => IrqMask
<1>1. LatchesJustified /\ [Next]_vars => [Begins("IRQ") => LastLetsIrqIn]_vars
  BY WhoBegins DEF LatchesJustified, IrqDecided, Begins
<1> QED
  BY <1>1, JustifiedCorrect, PTL DEF Spec, IrqMask

(* An IRQ that was let in is not put off. *)
THEOREM IrqPromptCorrect == Spec => IrqPrompt
<1>1. LatchesJustified /\ [Next]_vars => [Begins("fetch") => ~(irqSolid /\ LastLetsIrqIn)]_vars
  BY WhoBegins DEF LatchesJustified, IrqDecided, Begins
<1> QED
  BY <1>1, JustifiedCorrect, PTL DEF Spec, IrqPrompt

-----------------------------------------------------------------------------
(* What JAM and reset() leave behind: a jammed processor is in the JAM     *)
(* instruction, in a jammed step or between calls, and nothing is pending  *)
(* between a reset and the call after it.                                  *)
JamHolds     == jammed => unit \in {"idle", "jammed", "JAM"}
ResetForgets == unit = "idle" /\ last = "reset" => ~pendingNmi /\ ~pendingIrq

LEMMA AftermathInit == Init => JamHolds /\ ResetForgets
<1> SUFFICES ASSUME Init PROVE JamHolds /\ ResetForgets
  OBVIOUS
<1>1. ~jammed /\ last = "idle"
  BY Zenon DEF Init
<1> QED
  BY <1>1 DEF JamHolds, ResetForgets

LEMMA AftermathStep ==
  LatchesJustified /\ JamHolds /\ ResetForgets /\ [Next]_vars => JamHolds' /\ ResetForgets'
<1> SUFFICES ASSUME LatchesJustified, JamHolds, ResetForgets, [Next]_vars
             PROVE  JamHolds' /\ ResetForgets'
  OBVIOUS
<1> USE DEF JamHolds, ResetForgets
<1>1. CASE Pins \/ UNCHANGED vars
  BY <1>1 DEF Pins, SetNmi, SetIrq, vars, control, pending, history
<1>2. CASE Reset \/ Step
  <2>1. unit' # "idle" /\ (jammed' => unit' = "jammed")
    BY <1>2 DEF Reset, Step, StepJammed, StepNmi, StepIrq, StepInstruction, Begin
  <2> QED
    BY <2>1
<1>3. CASE FetchAny
  <2>1. unit' # "idle" /\ ~jammed'
    BY <1>3 DEF FetchAny, Fetch, Instructions
  <2> QED
    BY <2>1
<1>4. CASE Cycle
  <2>1. unit' = unit /\ (jammed' => jammed \/ unit = "JAM")
    BY <1>4, Zenon DEF Cycle
  <2>2. unit # "idle"
    BY <1>4 DEF Cycle, Lengths
  <2> QED
    BY <2>1, <2>2
<1>5. CASE End
  <2>1. unit' = "idle" /\ last' = unit
    BY <1>5 DEF End, EndCall, EndInstruction, EndReloadingI, EndReset, EndJammed, Return
  <2>2. unit = "reset" => pendingNmi' = pendingNmi /\ pendingIrq' = pendingIrq
    BY <1>5 DEF End, EndCall, EndInstruction, EndReloadingI, EndReset, EndJammed, pending,
                Instructions, Entries
  <2>3. unit = "reset" => ~pendingNmi /\ ~pendingIrq
    BY DEF LatchesJustified, PendingOnlyBetweenSteps
  <2> QED
    BY <2>1, <2>2, <2>3
<1> QED
  BY <1>1, <1>2, <1>3, <1>4, <1>5 DEF Next

LEMMA AftermathCorrect == Spec => [](JamHolds /\ ResetForgets)
BY AftermathInit, AftermathStep, JustifiedCorrect, PTL DEF Spec

(* After JAM only reset() gets the processor out. *)
THEOREM JamCorrect == Spec => JamUntilReset
<1>1. JamHolds /\ [Next]_vars =>
        [/\ jammed /\ unit' # unit => unit' \in {"jammed", "reset", "idle"}
         /\ jammed /\ ~jammed' => unit' = "reset"]_vars
  <2> SUFFICES ASSUME JamHolds, Next, jammed
               PROVE  /\ unit' # unit => unit' \in {"jammed", "reset", "idle"}
                      /\ ~jammed' => unit' = "reset"
    OBVIOUS
  <2>1. CASE Reset \/ Step
    BY <2>1 DEF Reset, Step, StepJammed, StepNmi, StepIrq, StepInstruction, Begin
  <2>2. CASE Pins \/ FetchAny
    BY <2>2 DEF JamHolds, Pins, SetNmi, SetIrq, FetchAny, Fetch, control
  <2>3. CASE Cycle \/ End
    BY <2>3 DEF Cycle, End, EndCall, EndInstruction, EndReloadingI, EndReset, EndJammed, Return
  <2> QED
    BY <2>1, <2>2, <2>3 DEF Next
<1> QED
  BY <1>1, AftermathCorrect, PTL DEF Spec, JamUntilReset

(* The first call after reset() is not an interrupt entry. *)
THEOREM ResetRunsHandlerCorrect == Spec => ResetRunsHandler
<1>1. ResetForgets /\ [Next]_vars =>
        [last = "reset" /\ unit = "idle" => ~(unit' \in Entries)]_vars
  <2> SUFFICES ASSUME ResetForgets, Next, last = "reset", unit = "idle"
               PROVE  ~(unit' \in Entries)
    OBVIOUS
  <2>1. CASE Reset \/ Step
    BY <2>1 DEF ResetForgets, Reset, Step, StepJammed, StepNmi, StepIrq, StepInstruction,
                Begin, Entries
  <2>2. CASE Pins \/ FetchAny \/ Cycle \/ End
    BY <2>2 DEF Pins, SetNmi, SetIrq, FetchAny, Fetch, Cycle, Lengths, End, EndCall,
                EndInstruction, EndReloadingI, EndReset, EndJammed, Return, control, Entries
  <2> QED
    BY <2>1, <2>2 DEF Next
<1> QED
  BY <1>1, AftermathCorrect, PTL DEF Spec, ResetRunsHandler
=============================================================================
