----------------------------- MODULE BusCycles ------------------------------
(***************************************************************************)
(* What one instruction of module Cpu shows on the bus: how many cycles it *)
(* takes, which addresses it touches, in which order it writes.  The       *)
(* properties compare the accesses performed with a reading of the operand *)
(* bytes that knows nothing of bus cycles.                                 *)
(***************************************************************************)
EXTENDS Cpu, Disassembler

(* One call of step() that executes an instruction, and no more. *)
OneInstruction ==
  /\ last = "idle"
  /\ CpuInstruction \/ CpuFetch \/ CpuCycle \/ CpuEnd

InstructionSpec == CpuInit /\ [][OneInstruction]_cpuVars

(* The instruction has performed its last cycle. *)
Finished == unit \in Instructions /\ todo = <<>>

-----------------------------------------------------------------------------
(* The operand and the addresses, as the reference has them: during a call *)
(* it stands where the call began.                                         *)
Old(addr)   == At(before.mem, addr)
Operand8    == Reference!Operand8
BaseAddress == Reference!BaseAddress
Effective   == Reference!Effective
Code        == {U16(before.pc + k) : k \in 0 .. 2}

(* The bytes of the pointer an indirect mode reads, and the addresses its  *)
(* discarded reads may touch.                                              *)
Pointer ==
  CASE Mode = "IndirectX" -> {U8(Operand8 + before.regs.x + k) : k \in {0, 1}}
    [] Mode = "IndirectY" -> {U8(Operand8 + k) : k \in {0, 1}}
    [] OTHER              -> {}

Discarded ==
  CASE Mode \in {"ZeroPageX", "ZeroPageY", "IndirectX"} -> {Operand8}
    [] Mode \in {"AbsoluteX", "AbsoluteY", "IndirectY"}
         -> {WordOf(U8(Effective), Page(BaseAddress))}
    [] OTHER -> {}

Writings == {k \in DOMAIN trace : trace[k].kind = "write"}

-----------------------------------------------------------------------------
(* tests/test_cpu.cpp, kBaseCycles: the published cycle counts, row by row. *)
BaseCycles == <<
  7, 6,11, 8, 3, 3, 5, 5, 3, 2, 2, 2, 4, 4, 6, 6,  2, 5,11, 8, 4, 4, 6, 6, 2, 4, 2, 7, 4, 4, 7, 7,
  6, 6,11, 8, 3, 3, 5, 5, 4, 2, 2, 2, 4, 4, 6, 6,  2, 5,11, 8, 4, 4, 6, 6, 2, 4, 2, 7, 4, 4, 7, 7,
  6, 6,11, 8, 3, 3, 5, 5, 3, 2, 2, 2, 3, 4, 6, 6,  2, 5,11, 8, 4, 4, 6, 6, 2, 4, 2, 7, 4, 4, 7, 7,
  6, 6,11, 8, 3, 3, 5, 5, 4, 2, 2, 2, 5, 4, 6, 6,  2, 5,11, 8, 4, 4, 6, 6, 2, 4, 2, 7, 4, 4, 7, 7,
  2, 6, 2, 6, 3, 3, 3, 3, 2, 2, 2, 2, 4, 4, 4, 4,  2, 6,11, 6, 4, 4, 4, 4, 2, 5, 2, 5, 5, 5, 5, 5,
  2, 6, 2, 6, 3, 3, 3, 3, 2, 2, 2, 2, 4, 4, 4, 4,  2, 5,11, 5, 4, 4, 4, 4, 2, 4, 2, 4, 4, 4, 4, 4,
  2, 6, 2, 8, 3, 3, 5, 5, 2, 2, 2, 2, 4, 4, 6, 6,  2, 5,11, 8, 4, 4, 6, 6, 2, 4, 2, 7, 4, 4, 7, 7,
  2, 6, 2, 8, 3, 3, 5, 5, 2, 2, 2, 2, 4, 4, 6, 6,  2, 5,11, 8, 4, 4, 6, 6, 2, 4, 2, 7, 4, 4, 7, 7>>

(* The extra cycles: a read that crosses a page, a taken branch, a taken   *)
(* branch that leaves its page, the repaired indirect jump of the CMOS part.*)
ExtraCycles ==
  CASE /\ AccessOf(opcode) = "Read" /\ Mode \in {"AbsoluteX", "AbsoluteY", "IndirectY"}
       -> One(CrossesPage(BaseAddress, Effective))
    [] Mode = "Relative" /\ Taken(Op, before.regs)
       -> 1 + One(CrossesPage(U16(before.pc + 2), Reference!BranchTarget))
    [] Mode = "Indirect" -> One(~Variant.jmpIndirectPageBug)
    [] OTHER -> 0

(* "Cycle counts are never looked up in a table": the number of accesses an *)
(* instruction performs is the published count, for every opcode, with the  *)
(* page-cross asymmetry between reads and writes and the branch timing.     *)
CyclesAsPublished ==
  Finished => used = BaseCycles[opcode + 1] + ExtraCycles /\ Len(trace) = used

(* Discarded reads land where the hardware puts them: besides its own bytes *)
(* (and the one after), its pointer and its operand, an instruction with an *)
(* addressing mode reads only the unindexed zero-page address or the        *)
(* address whose high byte has not been corrected, and the latter comes     *)
(* just before the operand whenever it is paid for.                         *)
NoStrayAccess ==
  Finished /\ ShapeOf(opcode) \in {"Read", "Write", "Rmw"} =>
    LET operand == Len(trace) - (IF ShapeOf(opcode) = "Rmw" THEN 2 ELSE 0)
        indexed == Mode \in {"AbsoluteX", "AbsoluteY", "IndirectY"}
        paid    == CrossesPage(BaseAddress, Effective) \/ AccessOf(opcode) # "Read"
    IN  /\ \A k \in DOMAIN trace :
              trace[k].addr \in Code \cup Pointer \cup Discarded \cup {Effective}
        /\ trace[operand].addr = Effective
        /\ indexed /\ paid => trace[operand - 1].addr \in Discarded

(* A read instruction never writes; a store writes once, at its end; a      *)
(* read-modify-write reads the operand, then on the NMOS part writes the    *)
(* old value and the new one, on the CMOS part reads again and writes once. *)
WriteCycles ==
  LET n == Len(trace)
  IN  Finished =>
        CASE ShapeOf(opcode) \in {"Read", "Accum", "Branch"} -> Writings = {}
          [] ShapeOf(opcode) = "Write" -> Writings = {n} /\ trace[n].addr = Effective
          [] ShapeOf(opcode) = "UnstableStore" ->
               /\ Writings = {n}
               /\ U8(trace[n].addr) = U8(Effective)
               /\ ~CrossesPage(BaseAddress, Effective) => trace[n].addr = Effective
          [] ShapeOf(opcode) = "Rmw" ->
               /\ Writings = (IF Variant.rmwDummyWriteBack THEN {n - 1, n} ELSE {n})
               /\ \A k \in n - 2 .. n : trace[k].addr = Effective
               /\ trace[n - 1].value = Old(Effective) /\ trace[n - 2].value = Old(Effective)
               /\ trace[n].value = RmwOp(Op, before.regs, Old(Effective))[2]
          [] OTHER -> \A k \in Writings : Page(trace[k].addr) = 1

(* "A mnemonic can never disagree with what the CPU actually executes": the *)
(* listing continues where the processor does, the number it prints is the  *)
(* target a jump, a call or a taken branch reaches and the address an       *)
(* unindexed instruction accesses, and instructions that print alike do the *)
(* same.  A JSR that pushes over its own operand goes elsewhere.            *)
AsDisassembled ==
  LET line == Disassemble(before.mem, before.pc)
  IN  Finished =>
        /\ ShapeOf(opcode) \notin {"Branch", "Special"} => pc = line.next
        /\ ShapeOf(opcode) = "Branch" =>
             pc = (IF Taken(Op, before.regs) THEN line.operand ELSE line.next)
        /\ \/ Op = "JMP_ABS"
           \/ Op = "JSR" /\ U16(before.pc + 2) \notin {trace[k].addr : k \in Writings}
           => pc = line.operand
        /\ ShapeOf(opcode) \in {"Read", "Write", "Rmw"} /\ line.syntax \in {"ZeroPage", "Absolute"} =>
             trace[Len(trace)].addr = line.operand
        /\ \A code \in Byte :
             Mnemonic(code) = line.mnemonic /\ ModeOf(code) = line.syntax => OpOf(code) = Op

(* variants.hpp says of the CMOS part: "undocumented opcodes become NOPs".  *)
(* The dispatch does not look at illegalOpcodes.                            *)
Undocumented ==
  {"SLO", "RLA", "SRE", "RRA", "DCP", "ISC", "LAX", "SAX", "ANC", "ALR", "ARR", "SBX",
   "LAS", "ANE", "LXA", "SHA", "SHX", "SHY", "TAS", "JAM"}

UndocumentedAreNops ==
  Finished /\ ~Variant.illegalOpcodes /\ Op \in Undocumented =>
    regs = before.regs /\ regI = before.i /\ mem = before.mem /\ ~jammed
=============================================================================
