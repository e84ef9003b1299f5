---------------------------- MODULE Disassembler ----------------------------
(***************************************************************************)
(* include/mos6502/disassembler.hpp: what one line of the listing says of  *)
(* the instruction at pc.  The text itself is left out: a line is its      *)
(* mnemonic, the syntax of its operand, the number printed there and the   *)
(* address of the next line.                                               *)
(***************************************************************************)
EXTENDS Memory, InstructionTable

Mnemonic(opcode) ==
  LET op == OpOf(opcode)
  IN  CASE op = "NOP_R"                -> "NOP"
        [] op \in {"JMP_ABS", "JMP_IND"} -> "JMP"
        [] OTHER                       -> op

(* The target of a branch, from its signed offset; mutant: unsigned. *)
PrintedTargetUnsigned(pc, lo) == U16(pc + 2 + lo)
PrintedTarget(pc, lo)         == U16(pc + 2 + (IF lo >= 128 THEN lo - 256 ELSE lo))

(* The addresses it looks at: the opcode, and the operand bytes it has. *)
Peeked(memory, pc) == {U16(pc + k) : k \in 0 .. OperandBytes(ModeOf(At(memory, pc)))}

Disassemble(memory, pc) ==
  LET opcode  == At(memory, pc)
      byte(k) == IF U16(pc + k) \in Peeked(memory, pc) THEN At(memory, U16(pc + k)) ELSE 0
  IN  [mnemonic |-> Mnemonic(opcode),
       syntax   |-> ModeOf(opcode),
       operand  |-> IF ModeOf(opcode) = "Relative"
                      THEN PrintedTarget(pc, byte(1)) ELSE WordOf(byte(1), byte(2)),
       next     |-> U16(pc + InstructionLength(opcode))]
=============================================================================
