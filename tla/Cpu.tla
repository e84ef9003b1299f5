-------------------------------- MODULE Cpu ---------------------------------
(***************************************************************************)
(* The core of include/mos6502/cpu.hpp with its addressing modes           *)
(* (addressing.hpp), instruction shapes (instructions.hpp) and control     *)
(* flow instructions (operations.hpp), on a FlatBus (bus.hpp).             *)
(*                                                                         *)
(* A call of step() or reset() is a list of bus cycles still to do, todo.  *)
(* One action performs the head of the list: one read or one write, with   *)
(* the register updates the code makes before the next access.  Between    *)
(* two cycles a device may move the pins, as a bus or a hook can.          *)
(*                                                                         *)
(* Module Interrupts gives the pins, the latches and the poll; this module *)
(* takes those actions as they are and replaces its abstract instructions  *)
(* by real ones.  regI of Interrupts is regs.i.                            *)
(***************************************************************************)
EXTENDS Interrupts, Alu, InstructionTable, Memory

CONSTANT Machines   \* the register files and memories the host sets up

ASSUME MachinesAssumption ==
  \A m \in Machines :
    /\ m.regs \in Registers /\ m.pc \in Word /\ m.i \in BOOLEAN
    /\ DOMAIN m.mem \subseteq Word /\ \A addr \in DOMAIN m.mem : m.mem[addr] \in Byte

(* The instructions that are not told apart take from two to eight cycles. *)
ASSUME CpuLengthsAssumption == OrdinaryLengths = 2 .. 8

VARIABLES
  regs,    \* the register file, pc and i apart
  pc,
  mem,     \* the memory of the FlatBus
  opcode,  \* of the instruction in progress
  todo,    \* the bus cycles it has still to perform
  t        \* its locals: the low byte, the base and the effective address, the value

data  == <<regs, pc, mem>>
local == <<opcode, todo, t>>

(***************************************************************************)
(* History: the accesses of the call in progress, and the machine at its   *)
(* beginning.                                                              *)
(***************************************************************************)
VARIABLES trace, before

cpuVars == <<vars, data, local, trace, before>>

NoLocals == [lo |-> 0, base |-> 0, addr |-> 0, value |-> 0]

Peek(addr) == At(mem, addr)

Now == [regs |-> regs, pc |-> pc, i |-> regI, mem |-> mem, jammed |-> jammed]

CpuInit ==
  /\ Init
  /\ \E m \in Machines : regs = m.regs /\ pc = m.pc /\ mem = m.mem /\ regI = m.i
  /\ opcode = 0 /\ todo = <<>> /\ t = NoLocals
  /\ trace = <<>> /\ before = Now

-----------------------------------------------------------------------------
(* The bus cycles of an addressing mode, of an operation and of a call.    *)
ModeCycles(mode) ==
  CASE mode = "ZeroPage"                          -> <<"FetchZeroPage">>
    [] mode \in {"ZeroPageX", "ZeroPageY"}        -> <<"FetchZeroPage", "IndexZeroPage">>
    [] mode \in {"Absolute", "AbsoluteX", "AbsoluteY"} -> <<"FetchLow", "FetchHigh">>
    [] mode = "IndirectX" -> <<"FetchZeroPage", "IndexZeroPage", "PointerLow", "PointerHigh">>
    [] mode = "IndirectY" -> <<"FetchZeroPage", "PointerLow", "PointerHigh">>
    [] OTHER              -> <<>>

ImpliedCycles(op) ==
  CASE op = "PHA" -> <<"ImpliedRead", "PushA">>
    [] op = "PHP" -> <<"ImpliedRead", "PushFlags">>
    [] op = "PLA" -> <<"ImpliedRead", "PeekStack", "PullA">>
    [] op = "PLP" -> <<"ImpliedRead", "PeekStack", "PullFlags">>
    [] OTHER      -> <<"ImpliedRead">>

EntryCycles == <<"IdleRead", "IdleRead", "PushHigh", "PushLow", "PushFlags",
                 "VectorLow", "VectorHigh">>

SpecialCycles(op) ==
  CASE op = "BRK"     -> <<"SkipByte", "PushHigh", "PushLow", "PushFlags", "VectorLow", "VectorHigh">>
    [] op = "JSR"     -> <<"FetchLow", "PeekStack", "PushHigh", "PushLow", "JumpHigh">>
    [] op = "RTS"     -> <<"IdleRead", "PeekStack", "PullLow", "PullHigh", "SkipByte">>
    [] op = "RTI"     -> <<"IdleRead", "PeekStack", "PullFlags", "PullLow", "PullHigh">>
    [] op = "JMP_ABS" -> <<"FetchLow", "JumpHigh">>
    [] op = "JMP_IND" -> IF Variant.jmpIndirectPageBug
                           THEN <<"FetchLow", "FetchHigh", "IndirectLow", "IndirectHigh">>
                           ELSE <<"FetchLow", "FetchHigh", "IndirectLow", "IdleRead", "IndirectHigh">>
    [] op = "JAM"     -> <<"IdleRead", "JamHigh", "JamLow", "JamLow", "JamHigh", "JamHigh",
                           "JamHigh", "JamHigh", "JamHigh", "JamHigh">>

InstructionCycles(code) ==
  LET shape == ShapeOf(code)
      tail  ==
        CASE shape = "Read"          -> <<"ReadOperand">>
          [] shape = "Write"         -> <<"WriteOperand">>
          [] shape = "UnstableStore" -> <<"WriteUnstable">>
          [] shape = "Rmw"           -> <<"RmwRead", "RmwDummy", "RmwWrite">>
          [] shape = "Accum"         -> <<"AccumRead">>
          [] shape = "Implied"       -> ImpliedCycles(OpOf(code))
          [] shape = "Branch"        -> <<"FetchOffset">>
          [] shape = "Special"       -> SpecialCycles(OpOf(code))
  IN  IF shape \in {"Read", "Write", "UnstableStore", "Rmw"}
        THEN ModeCycles(ModeOf(code)) \o tail ELSE tail

ResetCycles == <<"IdleRead", "IdleRead", "ResetStack", "ResetStack", "ResetStack",
                 "VectorLow", "VectorHigh">>

(* The unit of module Interrupts an opcode belongs to. *)
UnitOf(code) == IF OpOf(code) \in Instructions THEN OpOf(code) ELSE "other"

-----------------------------------------------------------------------------
(* The calls of the host. *)
Start(cycles) ==
  /\ todo' = cycles
  /\ before' = Now
  /\ UNCHANGED <<data, opcode, t, trace>>

CpuReset       == Reset /\ Start(ResetCycles)
CpuJammed      == StepJammed /\ Start(<<"IdleRead">>)
CpuNmi         == StepNmi /\ Start(EntryCycles)
CpuIrq         == StepIrq /\ Start(EntryCycles)
CpuInstruction == StepInstruction /\ Start(<<>>)

(* step() returns: the poll of module Interrupts, and the locals are gone. *)
CpuEnd ==
  /\ unit \notin {"idle", "fetch"} /\ todo = <<>>
  /\ EndCall
  /\ opcode' = 0 /\ t' = NoLocals /\ trace' = <<>>
  /\ UNCHANGED <<data, todo, before>>

CpuPins == Pins /\ UNCHANGED <<data, local, trace, before>>

-----------------------------------------------------------------------------
(* One bus cycle, a read or a write. *)
Reads(addr) ==
  /\ trace' = Append(trace, [kind |-> "read", addr |-> addr, value |-> Peek(addr)])
  /\ mem' = mem

Writes(addr, value) ==
  /\ trace' = Append(trace, [kind |-> "write", addr |-> addr, value |-> value])
  /\ mem' = Put(mem, addr, value)

(* The opcode fetch, the dispatch through the table included. *)
CpuFetch ==
  /\ unit = "fetch"
  /\ Reads(pc)
  /\ opcode' = Peek(pc) /\ unit' = UnitOf(opcode') /\ used' = 1
  /\ todo' = InstructionCycles(opcode')
  /\ pc' = U16(pc + 1)
  /\ UNCHANGED <<flags, pins, pending, jammed, history, regs, t, before>>

(* The head of the list is one of the kinds: it is performed now. *)
Kind == Head(todo)
On(kinds) ==
  /\ todo # <<>> /\ Kind \in kinds
  /\ used' = used + 1
  /\ UNCHANGED <<unit, pollI, pins, pending, history, opcode, before>>

Done      == todo' = Tail(todo)
Then(k)   == todo' = <<k>> \o Tail(todo)
SameState == UNCHANGED <<regs, regI, jammed>>

Mode == ModeOf(opcode)
Op   == OpOf(opcode)

PreIndex ==
  CASE Mode \in {"ZeroPageX", "IndirectX"} -> regs.x
    [] Mode = "ZeroPageY"                  -> regs.y
    [] OTHER                               -> 0

PostIndex ==
  CASE Mode = "AbsoluteX"                  -> regs.x
    [] Mode \in {"AbsoluteY", "IndirectY"} -> regs.y
    [] OTHER                               -> 0

Indexed == Mode \in {"AbsoluteX", "AbsoluteY", "IndirectY"}

(* Mutant: a write pays for the fixup only when the index crosses a page. *)
PaysFixupAlike(base, addr) == Indexed /\ CrossesPage(base, addr)

(* A read pays for the fixup of the high byte only when the index crosses  *)
(* a page, a write always.                                                 *)
PaysFixup(base, addr) == Indexed /\ (AccessOf(opcode) = "Read" => CrossesPage(base, addr))

(* The base address is known: index it. *)
Resolve(base) ==
  LET addr == U16(base + PostIndex)
  IN  /\ t' = [t EXCEPT !.base = base, !.addr = addr]
      /\ IF PaysFixup(base, addr) THEN Then("Unfixed") ELSE Done

(* Operand fetches. *)
FetchZeroPage ==
  /\ On({"FetchZeroPage"}) /\ Reads(pc)
  /\ pc' = U16(pc + 1) /\ t' = [t EXCEPT !.addr = Peek(pc)]
  /\ Done /\ SameState

FetchLow ==
  /\ On({"FetchLow"}) /\ Reads(pc)
  /\ pc' = U16(pc + 1) /\ t' = [t EXCEPT !.lo = Peek(pc)]
  /\ Done /\ SameState

FetchHigh ==
  /\ On({"FetchHigh"}) /\ Reads(pc)
  /\ pc' = U16(pc + 1) /\ Resolve(WordOf(t.lo, Peek(pc)))
  /\ SameState

(* zp,X and (zp,X): a discarded read of the unindexed address. *)
IndexZeroPage ==
  /\ On({"IndexZeroPage"}) /\ Reads(t.addr)
  /\ t' = [t EXCEPT !.addr = U8(t.addr + PreIndex)]
  /\ Done /\ SameState /\ UNCHANGED pc

(* The pointer of an indirect mode lies in page zero, both bytes of it. *)
PointerLow ==
  /\ On({"PointerLow"}) /\ Reads(t.addr)
  /\ t' = [t EXCEPT !.lo = Peek(t.addr)]
  /\ Done /\ SameState /\ UNCHANGED pc

PointerHigh ==
  /\ On({"PointerHigh"}) /\ Reads(U8(t.addr + 1))
  /\ Resolve(WordOf(t.lo, Peek(U8(t.addr + 1))))
  /\ SameState /\ UNCHANGED pc

(* The discarded read before the high byte is fixed up; mutant: after it. *)
UnfixedAddrCorrected == t.addr
UnfixedAddr          == WordOf(U8(t.addr), Page(t.base))

Unfixed ==
  /\ On({"Unfixed"}) /\ Reads(UnfixedAddr)
  /\ Done /\ SameState /\ UNCHANGED <<pc, t>>

-----------------------------------------------------------------------------
(* In the immediate mode the operand follows the opcode and is stepped over. *)
PastOperand == IF Mode = "Immediate" THEN U16(pc + 1) ELSE pc

ReadOperand ==
  LET addr == IF Mode = "Immediate" THEN pc ELSE t.addr
  IN  /\ On({"ReadOperand"}) /\ Reads(addr)
      /\ pc' = PastOperand
      /\ regs' = ReadOp(Op, regs, Peek(addr))
      /\ Done /\ UNCHANGED <<t, regI, jammed>>

WriteOperand ==
  /\ On({"WriteOperand"}) /\ Writes(t.addr, StoreOp(Op, regs))
  /\ Done /\ SameState /\ UNCHANGED <<pc, t>>

(* SHA, SHX, SHY, TAS: the value depends on the high byte before indexing, *)
(* and replaces the high byte of the address when the index crosses a page.*)
WriteUnstable ==
  LET source == StoreOp(Op, regs)
      value  == And(source, U8(Page(t.base) + 1))
  IN  /\ On({"WriteUnstable"})
      /\ Writes(IF CrossesPage(t.base, t.addr) THEN WordOf(U8(t.addr), value) ELSE t.addr, value)
      /\ regs' = (IF Op = "TAS" THEN [regs EXCEPT !.s = source] ELSE regs)
      /\ Done /\ UNCHANGED <<pc, t, regI, jammed>>

RmwRead ==
  /\ On({"RmwRead"}) /\ Reads(t.addr)
  /\ t' = [t EXCEPT !.value = Peek(t.addr)]
  /\ Done /\ SameState /\ UNCHANGED pc

(* Mutant: rmwDummyWriteBack is tested the wrong way round. *)
WritesBackSwapped == ~Variant.rmwDummyWriteBack
WritesBack        == Variant.rmwDummyWriteBack

RmwDummy ==
  /\ On({"RmwDummy"})
  /\ IF WritesBack THEN Writes(t.addr, t.value) ELSE Reads(t.addr)
  /\ Done /\ SameState /\ UNCHANGED <<pc, t>>

RmwWrite ==
  LET result == RmwOp(Op, regs, t.value)
  IN  /\ On({"RmwWrite"}) /\ Writes(t.addr, result[2])
      /\ regs' = result[1]
      /\ Done /\ UNCHANGED <<pc, t, regI, jammed>>

AccumRead ==
  LET result == RmwOp(Op, regs, regs.a)
  IN  /\ On({"AccumRead"}) /\ Reads(pc)
      /\ regs' = [result[1] EXCEPT !.a = result[2]]
      /\ Done /\ UNCHANGED <<pc, t, regI, jammed>>

ImpliedRead ==
  /\ On({"ImpliedRead"}) /\ Reads(pc)
  /\ regs' = ImpliedOp(Op, regs)
  /\ regI' = ImpliedI(Op, regI)
  /\ Done /\ UNCHANGED <<pc, t, jammed>>

(* BranchInstr: the offset is signed; a taken branch reads on at the       *)
(* untaken path, and once more when it leaves the page.                    *)
FetchOffset ==
  LET offset == IF Negative(Peek(pc)) THEN Peek(pc) - 256 ELSE Peek(pc)
      from   == U16(pc + 1)
  IN  /\ On({"FetchOffset"}) /\ Reads(pc)
      /\ pc' = from /\ t' = [t EXCEPT !.addr = U16(from + offset)]
      /\ IF Taken(Op, regs) THEN Then("BranchTaken") ELSE Done
      /\ SameState

BranchTaken ==
  /\ On({"BranchTaken"}) /\ Reads(pc)
  /\ IF CrossesPage(pc, t.addr)
       THEN pc' = pc /\ Then("BranchFixup")
       ELSE pc' = t.addr /\ Done
  /\ SameState /\ UNCHANGED t

BranchFixup ==
  /\ On({"BranchFixup"}) /\ Reads(WordOf(U8(t.addr), Page(pc)))
  /\ pc' = t.addr
  /\ Done /\ SameState /\ UNCHANGED t

-----------------------------------------------------------------------------
(* The B bit of the flags pushed; mutant: an interrupt entry sets it too. *)
BreakFlagAlways == TRUE
BreakFlag       == unit \notin Entries

PushedByte ==
  CASE Kind = "PushA"     -> regs.a
    [] Kind = "PushHigh"  -> Page(pc)
    [] Kind = "PushLow"   -> U8(pc)
    [] Kind = "PushFlags" -> Pack(regs, regI, BreakFlag)

(* Mutants: S leaves its byte; I is set before the flags are pushed. *)
BelowNoWrap(s)       == s - 1
MasksInterruptsEarly == Kind = "PushLow" /\ unit \in Entries \cup {"BRK"}

Below(s)        == U8(s - 1)
MasksInterrupts == Kind = "PushFlags" /\ unit \in Entries \cup {"BRK"}

(* push(): the flags pushed by an entry have B clear; after them BRK and   *)
(* the entries set I, and the CMOS part clears D.                          *)
Push ==
  /\ On({"PushA", "PushHigh", "PushLow", "PushFlags"})
  /\ Writes(StackAddr(regs.s), PushedByte)
  /\ regs' = [regs EXCEPT !.s = Below(@),
                          !.d = @ /\ ~(MasksInterrupts /\ Variant.clearDecimalOnInterrupt)]
  /\ regI' = (regI \/ MasksInterrupts)
  /\ Done /\ UNCHANGED <<pc, t, jammed>>

(* Mutant: the byte is read before S is incremented. *)
PulledAddrPostIncrement == StackAddr(regs.s)
PulledAddr              == StackAddr(U8(regs.s + 1))

(* pull() and what its caller does with the byte. *)
Pull ==
  LET value == Peek(PulledAddr)
      up    == [regs EXCEPT !.s = U8(@ + 1)]
  IN  /\ On({"PullA", "PullFlags", "PullLow", "PullHigh"})
      /\ Reads(PulledAddr)
      /\ regs' = (CASE Kind = "PullA"     -> LoadA(up, value)
                    [] Kind = "PullFlags" -> Unpack(up, value)
                    [] OTHER              -> up)
      /\ regI' = (IF Kind = "PullFlags" THEN UnpackI(value) ELSE regI)
      /\ t' = (IF Kind = "PullLow" THEN [t EXCEPT !.lo = value] ELSE t)
      /\ pc' = (IF Kind = "PullHigh" THEN WordOf(t.lo, value) ELSE pc)
      /\ Done /\ UNCHANGED jammed

(* Discarded reads; the last of JAM wedges the processor. *)
Discard ==
  /\ On({"IdleRead", "PeekStack", "JamHigh", "JamLow"})
  /\ Reads(CASE Kind = "IdleRead"  -> pc
             [] Kind = "PeekStack" -> StackAddr(regs.s)
             [] Kind = "JamHigh"   -> 65535
             [] Kind = "JamLow"    -> 65534)
  /\ jammed' = (jammed \/ (unit = "JAM" /\ Tail(todo) = <<>>))
  /\ Done /\ UNCHANGED <<regs, regI, pc, t>>

(* The padding byte of BRK, and the read with which RTS passes the last    *)
(* operand byte of JSR.                                                    *)
SkipByte ==
  /\ On({"SkipByte"}) /\ Reads(pc)
  /\ pc' = U16(pc + 1)
  /\ Done /\ SameState /\ UNCHANGED t

(* The phantom pushes of reset(); I is set after the last of them. *)
ResetStack ==
  /\ On({"ResetStack"}) /\ Reads(StackAddr(regs.s))
  /\ regs' = [regs EXCEPT !.s = Below(@)]
  /\ regI' = (regI \/ Head(Tail(todo)) = "VectorLow")
  /\ Done /\ UNCHANGED <<pc, t, jammed>>

Vector == CASE unit = "NMI"   -> NmiVector
            [] unit = "reset" -> ResetVector
            [] OTHER          -> IrqVector

VectorLow ==
  /\ On({"VectorLow"}) /\ Reads(Vector)
  /\ t' = [t EXCEPT !.lo = Peek(Vector)]
  /\ Done /\ SameState /\ UNCHANGED pc

VectorHigh ==
  /\ On({"VectorHigh"}) /\ Reads(Vector + 1)
  /\ pc' = WordOf(t.lo, Peek(Vector + 1))
  /\ Done /\ SameState /\ UNCHANGED t

(* The high byte of a JMP or JSR target; mutant: JSR has it before it pushes. *)
TargetHighEarly == At(before.mem, pc)
TargetHigh      == Peek(pc)

JumpHigh ==
  /\ On({"JumpHigh"}) /\ Reads(pc)
  /\ pc' = WordOf(t.lo, TargetHigh)
  /\ Done /\ SameState /\ UNCHANGED t

(* JMP ($xxFF): the NMOS part fetches the high byte from the same page;    *)
(* mutant: so does the CMOS part.                                          *)
IndirectHighAddrSamePage == WordOf(U8(t.addr + 1), Page(t.addr))
IndirectHighAddr ==
  IF Variant.jmpIndirectPageBug THEN WordOf(U8(t.addr + 1), Page(t.addr)) ELSE U16(t.addr + 1)

IndirectLow ==
  /\ On({"IndirectLow"}) /\ Reads(t.addr)
  /\ t' = [t EXCEPT !.lo = Peek(t.addr)]
  /\ Done /\ SameState /\ UNCHANGED pc

IndirectHigh ==
  /\ On({"IndirectHigh"}) /\ Reads(IndirectHighAddr)
  /\ pc' = WordOf(t.lo, Peek(IndirectHighAddr))
  /\ Done /\ SameState /\ UNCHANGED t

-----------------------------------------------------------------------------
CpuCycle ==
  \/ FetchZeroPage \/ FetchLow \/ FetchHigh \/ IndexZeroPage \/ PointerLow \/ PointerHigh
  \/ Unfixed \/ ReadOperand \/ WriteOperand \/ WriteUnstable \/ RmwRead \/ RmwDummy \/ RmwWrite
  \/ AccumRead \/ ImpliedRead \/ FetchOffset \/ BranchTaken \/ BranchFixup
  \/ Push \/ Pull \/ Discard \/ SkipByte \/ ResetStack \/ VectorLow \/ VectorHigh
  \/ JumpHigh \/ IndirectLow \/ IndirectHigh

CpuStep == CpuJammed \/ CpuNmi \/ CpuIrq \/ CpuInstruction

CpuNext == CpuReset \/ CpuStep \/ CpuFetch \/ CpuCycle \/ CpuEnd \/ CpuPins

CpuSpec == CpuInit /\ [][CpuNext]_cpuVars

-----------------------------------------------------------------------------
(* The type invariant: every register, address and byte keeps its width.   *)
CpuTypeOK ==
  /\ TypeOK
  /\ regs \in Registers /\ pc \in Word /\ opcode \in Byte
  /\ DOMAIN mem \subseteq Word /\ \A addr \in DOMAIN mem : mem[addr] \in Byte
  /\ t \in [lo : Byte, base : Word, addr : Word, value : Byte]
  /\ trace \in Seq([kind : {"read", "write"}, addr : Word, value : Byte])

(***************************************************************************)
(* The instruction-level reference.  A call of step() or reset() shows its *)
(* effect when it returns: while it runs, the reference is where the call  *)
(* began.                                                                  *)
(***************************************************************************)
Shown == IF unit = "idle" THEN Now ELSE before

Reference == INSTANCE Isa WITH
  regs <- Shown.regs, pc <- Shown.pc, regI <- Shown.i, mem <- Shown.mem, jammed <- Shown.jammed

(* Whatever the cycles of a call, its discarded accesses and the pins in    *)
(* between, what it has done when it returns is one instruction, interrupt  *)
(* entry or reset of the reference, or nothing on a jammed processor.  The  *)
(* order of the accesses shows: JSR in page one fetches the high byte of    *)
(* its target after its pushes, which may have replaced it.                 *)
IsaImplemented == Reference!IsaSpec
=============================================================================
