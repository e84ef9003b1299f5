------------------------------- MODULE System -------------------------------
(***************************************************************************)
(* The core on a bus with a device, traced by TracingHooks                 *)
(* (include/mos6502/tracing.hpp).  The bus and the hook are not passive    *)
(* here: a read of the data register takes an event out of the device, a   *)
(* write to the latch register acknowledges its interrupt, and both move   *)
(* the IRQ pin inside the bus cycle, as a device behind a BusLike does.    *)
(*                                                                         *)
(* Module Cpu performs the accesses; Serve is what the device and the hook *)
(* do before the core goes on.  What the device shows in memory is always  *)
(* its head event and its latch.                                           *)
(***************************************************************************)
EXTENDS Cpu, Disassembler

CONSTANTS
  Data, Latch,           \* the addresses of the device's registers
  MaxEvents, MaxTicks    \* how many events and how many NMI edges come

ASSUME DeviceAssumption ==
  {Data, Latch} \subseteq Word /\ Data # Latch /\ MaxEvents \in Byte /\ MaxTicks \in Byte

VARIABLES
  queue,     \* the events the device holds: 1, 2, ... in the order they came
  raised,    \* how many have come
  ticks,     \* how many NMI edges have come
  served     \* the accesses of the call in progress the device has answered

device     == <<queue, raised, ticks>>
systemVars == <<cpuVars, device, served>>

SystemInit == CpuInit /\ queue = <<>> /\ raised = 0 /\ ticks = 0 /\ served = 0

-----------------------------------------------------------------------------
(* The device: what its registers read as, and its IRQ output. *)
Shows(events, latched) ==
  /\ queue' = events
  /\ mem' = Put(Put(mem, Data, IF events = <<>> THEN 0 ELSE Head(events)), Latch, One(latched))
  /\ irqLine' = latched
  /\ irqSeen' = (irqSeen \/ latched) /\ irqSolid' = (irqSolid /\ latched)
  /\ UNCHANGED <<control, flags, nmiLine, nmiEdge, pending, jammed, nmiHist, last, iBefore,
                 regs, pc, local, trace, before>>

(* An access of the core is waiting for the device, or the opcode has been *)
(* fetched and the hook runs.                                              *)
Access  == trace[Len(trace)]
Fetched == unit \in Instructions /\ Len(trace) = 1
Waiting ==
  /\ served < Len(trace)
  /\ Fetched \/ Access.addr \in {Data, Latch}

(* reset() has been called. *)
PoweredOn == last # "idle" \/ unit # "idle"

Event ==
  /\ PoweredOn /\ ~Waiting /\ raised < MaxEvents
  /\ raised' = raised + 1
  /\ Shows(Append(queue, raised'), TRUE)
  /\ UNCHANGED <<ticks, served>>

(* The timer pulses the NMI pin, for as short a time as a bus cycle. *)
Pulse(asserted) ==
  /\ SetNmi(asserted)
  /\ UNCHANGED <<data, local, trace, before, queue, raised, served>>

Tick    == PoweredOn /\ ~Waiting /\ ticks < MaxTicks /\ ticks' = ticks + 1 /\ Pulse(TRUE)
Release == nmiLine /\ ~Waiting /\ ticks' = ticks /\ Pulse(FALSE)

-----------------------------------------------------------------------------
(* onInstruction disassembles through bus().read, at the instruction's own *)
(* addresses; mutant: at the address after them too.                       *)
HookReadsPast == Peeked(mem, before.pc) \cup {U16(before.pc + 3)}
HookReads     == Peeked(mem, before.pc)

Taking ==
  One(Access.kind = "read" /\ Access.addr = Data) + One(Fetched /\ Data \in HookReads)

Acknowledged == Access.kind = "write" /\ Access.addr = Latch /\ Bit(Access.value, 1)

(* A read of the data register takes the head event out, and latches again *)
(* when there is another; a 1 written to the latch register clears it.     *)
Serve ==
  /\ Waiting
  /\ served' = Len(trace)
  /\ LET left == SubSeq(queue, Taking + 1, Len(queue))
     IN  Shows(left, (irqLine /\ ~Acknowledged) \/ (Taking > 0 /\ left # <<>>))
  /\ UNCHANGED <<raised, ticks>>

(* The host: reset(), then step() for ever. *)
Host == IF PoweredOn THEN CpuStep ELSE CpuReset

SystemRun ==
  /\ ~Waiting
  /\ \/ (Host \/ CpuFetch \/ CpuCycle) /\ UNCHANGED served
     \/ CpuEnd /\ served' = 0
  /\ UNCHANGED device

SystemNext == Event \/ Tick \/ Release \/ Serve \/ SystemRun

SystemSpec ==
  SystemInit /\ [][SystemNext]_systemVars /\ WF_systemVars(Serve) /\ WF_systemVars(SystemRun)

-----------------------------------------------------------------------------
(* The program of MCSystem keeps the number of events it has taken at      *)
(* Count, the events from Buffer on, and counts the NMIs at Timer.         *)
Count  == 16
Timer  == 17
Buffer == 32

(* Side effects of the bus happen once: the discarded read of an indexed    *)
(* load, the tracing hook and an NMI in the middle of the handler take no   *)
(* event away and store none twice.                                         *)
EventsInOrder ==
  \A k \in 1 .. At(mem, Count) : k <= raised /\ At(mem, Buffer + k - 1) = k

(* A program may trust SEI ... CLI: no IRQ handler runs between the two     *)
(* reads of Count inside it, although one may run just after SEI; the       *)
(* program jams when it sees Count change.                                  *)
CriticalSectionHolds == ~jammed

(* The device, the pins, the poll, the handlers and their returns together  *)
(* lose nothing: every event is stored in the end and every NMI counted.    *)
(* The handler acknowledges with a read-modify-write, whose double write on *)
(* the NMOS part writes the 1 back.                                         *)
EverythingServed ==
  \A e \in 0 .. MaxEvents, k \in 0 .. MaxTicks :
    raised = e /\ ticks = k ~> At(mem, Count) >= e /\ At(mem, Timer) >= k
=============================================================================
