--------------------------------- MODULE Isa --------------------------------
(***************************************************************************)
(* The processor as its programmer knows it: every instruction, interrupt  *)
(* entry and reset is one step on the registers and the memory.  There are *)
(* no bus cycles here, no discarded accesses and no locals; module Cpu has *)
(* them, and implements this specification.                                *)
(*                                                                         *)
(* When an interrupt is entered is the matter of module Interrupts; here   *)
(* one may be entered before any instruction.                              *)
(***************************************************************************)
EXTENDS Memory, Alu, InstructionTable

VARIABLES regs, pc, regI, mem, jammed

isaVars == <<regs, pc, regI, mem, jammed>>

IsaInit ==
  /\ regs \in Registers /\ pc \in Word /\ regI \in BOOLEAN /\ jammed = FALSE
  /\ \A addr \in DOMAIN mem : addr \in Word /\ mem[addr] \in Byte

-----------------------------------------------------------------------------
(* The instruction at pc, its operand and its effective address.           *)
CodeByte(k)     == At(mem, U16(pc + k))
Opcode          == CodeByte(0)
Does(op)        == OpOf(Opcode) = op
Mode            == ModeOf(Opcode)
Shape           == ShapeOf(Opcode)
Operand8        == CodeByte(1)
Operand16       == WordOf(CodeByte(1), CodeByte(2))
ZeroPageWord(p) == WordOf(At(mem, p), At(mem, U8(p + 1)))
Following       == U16(pc + InstructionLength(Opcode))
BranchTarget    == U16(pc + 2 + (IF Negative(Operand8) THEN Operand8 - 256 ELSE Operand8))

(* The address before and after the indexing that can leave a page. *)
BaseAddress ==
  CASE Mode \in {"Absolute", "AbsoluteX", "AbsoluteY", "Indirect"} -> Operand16
    [] Mode = "IndirectY" -> ZeroPageWord(Operand8)
    [] OTHER              -> 0

Effective ==
  CASE Mode = "Immediate" -> U16(pc + 1)
    [] Mode = "ZeroPage"  -> Operand8
    [] Mode = "ZeroPageX" -> U8(Operand8 + regs.x)
    [] Mode = "ZeroPageY" -> U8(Operand8 + regs.y)
    [] Mode = "AbsoluteX" -> U16(BaseAddress + regs.x)
    [] Mode \in {"AbsoluteY", "IndirectY"} -> U16(BaseAddress + regs.y)
    [] Mode = "IndirectX" -> ZeroPageWord(U8(Operand8 + regs.x))
    [] OTHER              -> BaseAddress

(* The stack. *)
PushByte(m, s, value) == Put(m, StackAddr(s), value)
PushWord(m, s, word)  == PushByte(PushByte(m, s, Page(word)), U8(s - 1), U8(word))
Pulled(k)             == At(mem, StackAddr(U8(regs.s + k)))
Moved(r, n)           == [r EXCEPT !.s = U8(@ + n)]

-----------------------------------------------------------------------------
Reading ==
  /\ Shape = "Read"
  /\ regs' = ReadOp(OpOf(Opcode), regs, At(mem, Effective))
  /\ pc' = Following /\ UNCHANGED <<regI, mem, jammed>>

Storing ==
  /\ Shape = "Write"
  /\ mem' = Put(mem, Effective, StoreOp(OpOf(Opcode), regs))
  /\ pc' = Following /\ UNCHANGED <<regs, regI, jammed>>

(* SHA, SHX, SHY, TAS: ANDed with the page after the base address, and the *)
(* result takes the place of the page when the index leaves it.            *)
StoringUnstable ==
  LET source == StoreOp(OpOf(Opcode), regs)
      value  == And(source, U8(Page(BaseAddress) + 1))
      addr   == IF CrossesPage(BaseAddress, Effective)
                  THEN WordOf(U8(Effective), value) ELSE Effective
  IN  /\ Shape = "UnstableStore"
      /\ mem' = Put(mem, addr, value)
      /\ regs' = (IF Does("TAS") THEN [regs EXCEPT !.s = source] ELSE regs)
      /\ pc' = Following /\ UNCHANGED <<regI, jammed>>

Modifying ==
  LET result == RmwOp(OpOf(Opcode), regs, At(mem, Effective))
  IN  /\ Shape = "Rmw"
      /\ regs' = result[1] /\ mem' = Put(mem, Effective, result[2])
      /\ pc' = Following /\ UNCHANGED <<regI, jammed>>

ModifyingA ==
  LET result == RmwOp(OpOf(Opcode), regs, regs.a)
  IN  /\ Shape = "Accum"
      /\ regs' = [result[1] EXCEPT !.a = result[2]]
      /\ pc' = Following /\ UNCHANGED <<regI, mem, jammed>>

(* Transfers, steps and flags; the four stack instructions. *)
Plain ==
  /\ Shape = "Implied" /\ OpOf(Opcode) \notin {"PHA", "PHP", "PLA", "PLP"}
  /\ regs' = ImpliedOp(OpOf(Opcode), regs) /\ regI' = ImpliedI(OpOf(Opcode), regI)
  /\ pc' = Following /\ UNCHANGED <<mem, jammed>>

Saving ==
  /\ Does("PHA") \/ Does("PHP")
  /\ mem' = PushByte(mem, regs.s, IF Does("PHA") THEN regs.a ELSE Pack(regs, regI, TRUE))
  /\ regs' = Moved(regs, -1)
  /\ pc' = Following /\ UNCHANGED <<regI, jammed>>

Restoring ==
  /\ \/ Does("PLA") /\ regs' = LoadA(Moved(regs, 1), Pulled(1)) /\ regI' = regI
     \/ Does("PLP") /\ regs' = Unpack(Moved(regs, 1), Pulled(1)) /\ regI' = UnpackI(Pulled(1))
  /\ pc' = Following /\ UNCHANGED <<mem, jammed>>

-----------------------------------------------------------------------------
Branching ==
  /\ Shape = "Branch"
  /\ pc' = (IF Taken(OpOf(Opcode), regs) THEN BranchTarget ELSE Following)
  /\ UNCHANGED <<regs, regI, mem, jammed>>

Jumping ==
  LET low  == Operand16
      high == IF Variant.jmpIndirectPageBug THEN 256 * Page(low) + U8(low + 1) ELSE U16(low + 1)
  IN  /\ \/ Does("JMP_ABS") /\ pc' = Operand16
         \/ Does("JMP_IND") /\ pc' = WordOf(At(mem, low), At(mem, high))
      /\ UNCHANGED <<regs, regI, mem, jammed>>

(* JSR saves the address of its own last byte, and reads this byte, the    *)
(* high byte of the target, last of all: its pushes may have replaced it.  *)
Calling ==
  /\ Does("JSR")
  /\ mem' = PushWord(mem, regs.s, U16(pc + 2)) /\ regs' = Moved(regs, -2)
  /\ pc' = WordOf(Operand8, At(mem', U16(pc + 2)))
  /\ UNCHANGED <<regI, jammed>>

Returning ==
  /\ \/ /\ Does("RTS") /\ regs' = Moved(regs, 2) /\ regI' = regI
        /\ pc' = U16(WordOf(Pulled(1), Pulled(2)) + 1)
     \/ /\ Does("RTI") /\ regs' = Unpack(Moved(regs, 3), Pulled(1)) /\ regI' = UnpackI(Pulled(1))
        /\ pc' = WordOf(Pulled(2), Pulled(3))
  /\ UNCHANGED <<mem, jammed>>

Entering(back, vector, isBreak) ==
  /\ mem' = PushByte(PushWord(mem, regs.s, back), U8(regs.s - 2), Pack(regs, regI, isBreak))
  /\ regs' = [Moved(regs, -3) EXCEPT !.d = @ /\ ~Variant.clearDecimalOnInterrupt]
  /\ pc' = WordOf(At(mem', vector), At(mem', vector + 1))
  /\ regI' = TRUE /\ UNCHANGED jammed

Breaking == Does("BRK") /\ Entering(U16(pc + 2), IrqVector, TRUE)

Jamming ==
  /\ Does("JAM")
  /\ pc' = U16(pc + 1) /\ jammed' = TRUE
  /\ UNCHANGED <<regs, regI, mem>>

Instruction ==
  /\ ~jammed
  /\ \/ Reading \/ Storing \/ StoringUnstable \/ Modifying \/ ModifyingA
     \/ Plain \/ Saving \/ Restoring
     \/ Branching \/ Jumping \/ Calling \/ Returning \/ Breaking \/ Jamming

Interrupt == ~jammed /\ \E vector \in {NmiVector, IrqVector} : Entering(pc, vector, FALSE)

Resetting ==
  /\ regs' = Moved(regs, -3) /\ regI' = TRUE /\ jammed' = FALSE
  /\ pc' = WordOf(At(mem, ResetVector), At(mem, ResetVector + 1))
  /\ UNCHANGED mem

IsaNext == Instruction \/ Interrupt \/ Resetting

IsaSpec == IsaInit /\ [][IsaNext]_isaVars
=============================================================================
