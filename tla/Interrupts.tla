----------------------------- MODULE Interrupts -----------------------------
(***************************************************************************)
(* The interrupt logic of mos6502::Cpu (include/mos6502/cpu.hpp): the NMI  *)
(* and IRQ pins, the poll at the end of a step, the latches it fills, the  *)
(* choice step() makes from them, reset() and the JAM state.               *)
(*                                                                         *)
(* The program and the memory are abstracted: an instruction is its effect *)
(* on the I flag and its number of bus cycles, and a flag byte pulled from *)
(* the stack holds any I.  One action is one bus cycle, because every      *)
(* cycle calls the bus and the hooks, and either may move a pin: SetNmi    *)
(* and SetIrq interleave with the cycles of a step.  Module Cpu puts the   *)
(* registers, the memory and the opcodes back.                             *)
(***************************************************************************)
EXTENDS Naturals

CONSTANT OrdinaryLengths   \* bus cycles of the instructions of class "other"

ASSUME LengthsAssumption == OrdinaryLengths \subseteq 2 .. 8

VARIABLES
  unit,        \* what the call in progress does; "idle" between calls
  used,        \* bus cycles this call has performed
  regI,        \* regs.i, the interrupt-disable flag
  pollI,       \* pollI_, the I value the next poll looks at
  nmiLine, nmiEdge, irqLine,   \* the pins and the NMI edge latch
  pendingNmi, pendingIrq,      \* what the last poll committed to
  jammed

control == <<unit, used>>
flags   == <<regI, pollI>>
pins    == <<nmiLine, nmiEdge, irqLine>>
pending == <<pendingNmi, pendingIrq>>

(***************************************************************************)
(* History variables, read only by the properties.                         *)
(***************************************************************************)
VARIABLES
  owed,       \* an NMI edge has come and no NMI entry has begun since
  credit,     \* NMI edges less NMI entries since reset, saturated at 2
  irqSeen,    \* IRQ was asserted at some moment since the last step began
  irqSolid,   \* IRQ has been asserted at every moment since then
  last,       \* what the last completed call did
  iBefore     \* I when that call began

window  == <<irqSeen, irqSolid>>
nmiHist == <<owed, credit>>
history == <<nmiHist, window, last, iBefore>>

vars == <<control, flags, pins, pending, jammed, history>>

-----------------------------------------------------------------------------
(* The instructions the interrupt logic tells apart, and the other units.  *)
Instructions == {"CLI", "SEI", "PLP", "RTI", "BRK", "JAM", "other"}
Entries      == {"NMI", "IRQ"}
Units        == Instructions \cup Entries \cup {"idle", "fetch", "reset", "jammed"}

(* Bus cycles a unit takes, its opcode fetch included.  Mutants: JAM reads  *)
(* the vector once too often; a jammed step() spends no cycle.              *)
JamLengthOneMore == 12
JammedLengthNone == 0

JamLength    == 11
JammedLength == 1

Lengths(u) ==
  CASE u = "other"                     -> OrdinaryLengths
    [] u \in {"CLI", "SEI"}            -> {2}
    [] u = "PLP"                       -> {4}
    [] u = "RTI"                       -> {6}
    [] u \in {"BRK", "reset"} \cup Entries -> {7}
    [] u = "JAM"                       -> {JamLength}
    [] u = "jammed"                    -> {JammedLength}
    [] u \in {"idle", "fetch"}         -> {}

MaxLength == 11

(* I as it may stand once a unit has performed its n-th bus cycle. *)
IAfter(u, n) ==
  CASE u = "CLI" /\ n = 2                    -> {FALSE}
    [] u = "SEI" /\ n = 2                    -> {TRUE}
    [] u \in {"PLP", "RTI"} /\ n = 4         -> BOOLEAN
    [] u \in {"BRK", "reset"} \cup Entries /\ n = 5 -> {TRUE}
    [] OTHER                                 -> {regI}

-----------------------------------------------------------------------------
(* Power-on.  The host owns regs, so I is whatever it put there. *)
Init ==
  /\ unit = "idle" /\ used = 0
  /\ regI \in BOOLEAN /\ pollI = TRUE
  /\ nmiLine = FALSE /\ nmiEdge = FALSE /\ irqLine = FALSE
  /\ pendingNmi = FALSE /\ pendingIrq = FALSE
  /\ jammed = FALSE
  /\ owed = FALSE /\ credit = 0
  /\ irqSeen = FALSE /\ irqSolid = FALSE
  /\ last = "idle" /\ iBefore = TRUE

(* setNmi: a device or the host drives the NMI pin; only an edge latches.   *)
(* Mutant: the latch follows the pin, a release of the line clears it.      *)
LatchedWhileHeld(edge) == edge
Latched(edge)          == nmiEdge \/ edge

SetNmi(asserted) ==
  /\ LET edge == asserted /\ ~nmiLine
     IN  /\ nmiEdge' = Latched(edge)
         /\ owed'    = (owed \/ edge)
         /\ credit'  = IF edge /\ credit < 2 THEN credit + 1 ELSE credit
  /\ nmiLine' = asserted
  /\ UNCHANGED <<control, flags, irqLine, pending, jammed, window, last, iBefore>>

(* setIrq: the IRQ pin is a level. *)
SetIrq(asserted) ==
  /\ irqLine'  = asserted
  /\ irqSeen'  = (irqSeen \/ asserted)
  /\ irqSolid' = (irqSolid /\ asserted)
  /\ UNCHANGED <<control, flags, nmiLine, nmiEdge, pending, jammed, nmiHist, last, iBefore>>

-----------------------------------------------------------------------------
(* A call begins: no bus cycle has been performed, a new window opens. *)
Begin(u) ==
  /\ unit = "idle"
  /\ unit' = u /\ used' = 0
  /\ iBefore' = regI
  /\ irqSeen' = irqLine /\ irqSolid' = irqLine
  /\ UNCHANGED <<regI, nmiLine, irqLine, last>>

(* reset() forgets every latch but not the level of the pins.  Mutants: it  *)
(* keeps the NMI edge, or the decision to enter the IRQ handler.            *)
NmiEdgeKept  == nmiEdge
IrqLatchKept == pendingIrq

NmiEdgeAfterReset  == FALSE
IrqLatchAfterReset == FALSE

Reset ==
  /\ Begin("reset")
  /\ jammed' = FALSE /\ nmiEdge' = NmiEdgeAfterReset
  /\ pendingNmi' = FALSE /\ pendingIrq' = IrqLatchAfterReset
  /\ owed' = FALSE /\ credit' = 0
  /\ UNCHANGED pollI

(* step() once a JAM opcode has executed: one read, nothing else. *)
StepJammed ==
  /\ jammed
  /\ Begin("jammed")
  /\ UNCHANGED <<pollI, nmiEdge, pending, jammed, nmiHist>>

(* step() that enters the NMI handler; mutant: it looks at the NMI latch    *)
(* before it looks at jammed_.                                              *)
AnswersNmiFirst == pendingNmi
AnswersNmi      == ~jammed /\ pendingNmi

StepNmi ==
  /\ AnswersNmi
  /\ Begin("NMI")
  /\ pendingNmi' = FALSE
  /\ owed' = FALSE /\ credit' = IF credit > 0 THEN credit - 1 ELSE 0
  /\ UNCHANGED <<pollI, nmiEdge, pendingIrq, jammed>>

(* step() that enters the IRQ handler. *)
StepIrq ==
  /\ ~jammed /\ ~pendingNmi /\ pendingIrq
  /\ Begin("IRQ")
  /\ pendingIrq' = FALSE
  /\ UNCHANGED <<pollI, nmiEdge, pendingNmi, jammed, nmiHist>>

(* step() that executes an instruction: I is latched before the fetch;      *)
(* mutant: it is not.                                                       *)
LatchedIStale == pollI
LatchedI      == regI

StepInstruction ==
  /\ ~jammed /\ ~pendingNmi /\ ~pendingIrq
  /\ Begin("fetch")
  /\ pollI' = LatchedI
  /\ UNCHANGED <<nmiEdge, pending, jammed, nmiHist>>

Step == StepJammed \/ StepNmi \/ StepIrq \/ StepInstruction

-----------------------------------------------------------------------------
(* The opcode fetch: the bus answers with any instruction. *)
Fetch(op) ==
  /\ unit = "fetch"
  /\ unit' = op /\ used' = 1
  /\ UNCHANGED <<flags, pins, pending, jammed, history>>

(* One more bus cycle of the unit, with what the code does right after it. *)
Cycle ==
  /\ \E n \in Lengths(unit) : used < n
  /\ used' = used + 1
  /\ regI' \in IAfter(unit, used')
  /\ jammed' = (jammed \/ (unit = "JAM" /\ used' = JamLength))
  /\ UNCHANGED <<unit, pollI, pins, pending, history>>

(* pollInterrupts: an NMI edge wins over the IRQ level, and is consumed.    *)
(* Mutant: I masks NMI too.                                                 *)
TakesNmiUnlessMasked(mask) == nmiEdge /\ ~mask
TakesNmi(mask)             == nmiEdge

Poll(mask) ==
  \/ /\ TakesNmi(mask)
     /\ nmiEdge' = FALSE /\ pendingNmi' = TRUE
     /\ UNCHANGED pendingIrq
  \/ /\ ~TakesNmi(mask)
     /\ pendingIrq' = (pendingIrq \/ (irqLine /\ ~mask))
     /\ UNCHANGED <<nmiEdge, pendingNmi>>

(* The call returns to its caller. *)
Return ==
  /\ unit' = "idle" /\ used' = 0
  /\ last' = unit
  /\ UNCHANGED <<regI, nmiLine, irqLine, jammed, nmiHist, window, iBefore>>

(* The poll that ends an instruction uses the I latched before it; mutant:  *)
(* CLI, SEI and PLP take effect without their delay.                        *)
DelayedIAtOnce == regI
DelayedI       == pollI

EndInstruction ==
  /\ unit \in Instructions \ {"RTI"}
  /\ Return
  /\ Poll(DelayedI)
  /\ UNCHANGED pollI

(* RTI (pollImmediate) and the two interrupt entries poll with the new I;   *)
(* mutant: RTI forgets pollImmediate.                                       *)
ImmediateIOfEntries == IF unit = "RTI" THEN pollI ELSE regI
ImmediateI          == regI

EndReloadingI ==
  /\ unit \in Entries \cup {"RTI"}
  /\ Return
  /\ pollI' = regI
  /\ Poll(ImmediateI)

(* reset() takes the new I too, and polls nothing; mutant: it polls the pins *)
(* as step() does.                                                           *)
PollAfterResetDone == Poll(regI)
PollAfterReset     == UNCHANGED <<nmiEdge, pending>>

EndReset ==
  /\ unit = "reset"
  /\ Return
  /\ pollI' = regI
  /\ PollAfterReset

(* A jammed step returns without polling. *)
EndJammed ==
  /\ unit = "jammed"
  /\ Return
  /\ UNCHANGED <<pollI, nmiEdge, pending>>

EndCall == EndInstruction \/ EndReloadingI \/ EndReset \/ EndJammed

(* A unit ends once it has performed its bus cycles. *)
End == used \in Lengths(unit) /\ EndCall

-----------------------------------------------------------------------------
Pins == \E asserted \in BOOLEAN : SetNmi(asserted) \/ SetIrq(asserted)

FetchAny == \E op \in Instructions : Fetch(op)

Next == Pins \/ Reset \/ Step \/ FetchAny \/ Cycle \/ End

Spec == Init /\ [][Next]_vars

(* A call that has begun runs to its end, and the host keeps stepping: the *)
(* loops of run(), tools/benchmark.cpp and tools/run_klaus.cpp.            *)
Fairness == WF_vars(FetchAny) /\ WF_vars(Cycle) /\ WF_vars(End) /\ WF_vars(Step)

FairSpec == Spec /\ Fairness

-----------------------------------------------------------------------------
(* The type invariant. *)
TypeOK ==
  /\ unit \in Units /\ used \in 0 .. MaxLength
  /\ regI \in BOOLEAN /\ pollI \in BOOLEAN
  /\ nmiLine \in BOOLEAN /\ nmiEdge \in BOOLEAN /\ irqLine \in BOOLEAN
  /\ pendingNmi \in BOOLEAN /\ pendingIrq \in BOOLEAN /\ jammed \in BOOLEAN
  /\ owed \in BOOLEAN /\ credit \in 0 .. 2
  /\ irqSeen \in BOOLEAN /\ irqSolid \in BOOLEAN
  /\ last \in Units /\ iBefore \in BOOLEAN

(* A call of kind u begins in this step. *)
Begins(u) == unit = "idle" /\ unit' = u

(* pollInterrupts commits to at most one interrupt, and step() consumes the *)
(* commitment at once: while a call other than a jammed step runs, neither  *)
(* latch is set, so no instruction ever runs on top of a stale request.     *)
PendingOnlyBetweenSteps ==
  /\ ~(pendingNmi /\ pendingIrq)
  /\ unit \notin {"idle", "jammed"} => ~pendingNmi /\ ~pendingIrq

(* setNmi: the edge "latches, so it cannot be missed".  Wherever in a step  *)
(* the edge falls, until an NMI entry begins (or reset() forgets it) one of *)
(* the two latches remembers it.                                            *)
NmiNotLost == owed => nmiEdge \/ pendingNmi

(* Holding the line, releasing it, a reset or a jam never makes an NMI of   *)
(* its own: every request the latches hold has an edge of its own, later    *)
(* than the last reset, that no entry has answered.                         *)
NmiNotInvented ==
  credit >= (IF nmiEdge THEN 1 ELSE 0) + (IF pendingNmi THEN 1 ELSE 0)

(* IRQ is a level: the handler is entered only if the line was asserted at  *)
(* some moment since the preceding call began.                              *)
IrqNotStale == [][Begins("IRQ") => irqSeen]_vars

(* The call just completed leaves IRQ unmasked at its poll: an instruction  *)
(* that began with I clear, or an RTI that cleared it.                      *)
LastLetsIrqIn ==
  \/ last \in Instructions \ {"RTI"} /\ ~iBefore
  \/ last = "RTI" /\ ~regI

(* The mask and its one-instruction delay: an IRQ handler is entered only   *)
(* after an instruction that began with I clear, or after an RTI that       *)
(* cleared it; never straight after another entry or after reset().         *)
IrqMask == [][Begins("IRQ") => LastLetsIrqIn]_vars

(* Conversely, an IRQ held through an instruction that lets it in is not    *)
(* put off: no further instruction executes before an interrupt entry.      *)
IrqPrompt == [][Begins("fetch") => ~(irqSolid /\ LastLetsIrqIn)]_vars

(* After JAM only reset() gets the processor out: no interrupt, pending or  *)
(* new, and no instruction.                                                 *)
JamUntilReset ==
  [][/\ jammed /\ unit' # unit => unit' \in {"jammed", "reset", "idle"}
     /\ jammed /\ ~jammed' => unit' = "reset"]_vars

(* The first thing to happen after reset() is an instruction of the reset   *)
(* handler, whatever the pins did before and during the reset.              *)
ResetRunsHandler == [][last = "reset" /\ unit = "idle" => ~(unit' \in Entries)]_vars

(***************************************************************************)
(* The inductive strengthening of the IRQ properties: what makes them true *)
(* at the moment a handler is entered, stated for every state before it.   *)
(***************************************************************************)
JammedUnit == unit = "jammed" => jammed

(* The two window variables bracket the line, and a commitment outside JAM *)
(* stems from a level seen in the current window.                          *)
IrqWindow ==
  /\ irqSolid => irqLine
  /\ irqLine => irqSeen
  /\ pendingIrq /\ ~jammed => irqSeen

(* The I a poll will look at: the latched one in an instruction, the new,  *)
(* set one at the end of an entry.                                         *)
PollMask ==
  /\ unit \in (Instructions \ {"RTI"}) \cup {"fetch"} => pollI = iBefore
  /\ unit \in Entries /\ used >= 5 => regI

(* Between calls the IRQ latch answers for the call just completed.        *)
IrqDecided ==
  unit = "idle" /\ ~jammed =>
    /\ pendingIrq => LastLetsIrqIn
    /\ irqSolid /\ LastLetsIrqIn => pendingNmi \/ pendingIrq

(* The conjunction that every step preserves: each latch is justified by   *)
(* the pins seen since the call began and by the I that call began with.   *)
LatchesJustified ==
  /\ PendingOnlyBetweenSteps /\ NmiNotLost /\ NmiNotInvented
  /\ JammedUnit /\ IrqWindow /\ PollMask /\ IrqDecided

(* A latched NMI edge is answered, unless the processor jams or is reset.   *)
NmiServiced == owed ~> (unit = "NMI" \/ unit = "reset" \/ jammed)

(* tests/test_cpu.cpp: "A masked IRQ is ignored, however long it is held",  *)
(* with the delay README.md grants to CLI, SEI and PLP.  BRK sets I too and *)
(* polls with the I latched before it, so an IRQ held across a BRK enters   *)
(* the handler a second time, on top of the first, with I already set.      *)
MaskedIrqIgnored == [][Begins("IRQ") /\ regI => last \in {"SEI", "PLP"}]_vars
=============================================================================
