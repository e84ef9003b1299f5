--------------------------- MODULE InstructionTable --------------------------
(***************************************************************************)
(* include/mos6502/instruction_table.def: the operation, the addressing    *)
(* mode and the shape of each of the 256 opcodes, with the operand bytes   *)
(* the modes of include/mos6502/addressing.hpp declare.                    *)
(*                                                                         *)
(* The low five bits of an opcode choose a column, the high three a row.   *)
(* A column holds one addressing mode and the operations of its rows; the  *)
(* opcodes whose mode is not their column's are listed apart.              *)
(***************************************************************************)
EXTENDS Naturals, Sequences

(* Rows 0 to 3, opcodes $00 - $7F. *)
LowerColumns == <<
  <<"Implied", "BRK", "JSR", "RTI", "RTS">>, <<"IndirectX", "ORA", "AND", "EOR", "ADC">>,
  <<"Implied", "JAM", "JAM", "JAM", "JAM">>, <<"IndirectX", "SLO", "RLA", "SRE", "RRA">>,
  <<"ZeroPage", "NOP_R", "BIT", "NOP_R", "NOP_R">>, <<"ZeroPage", "ORA", "AND", "EOR", "ADC">>,
  <<"ZeroPage", "ASL", "ROL", "LSR", "ROR">>, <<"ZeroPage", "SLO", "RLA", "SRE", "RRA">>,
  <<"Implied", "PHP", "PLP", "PHA", "PLA">>, <<"Immediate", "ORA", "AND", "EOR", "ADC">>,
  <<"Accumulator", "ASL", "ROL", "LSR", "ROR">>, <<"Immediate", "ANC", "ANC", "ALR", "ARR">>,
  <<"Absolute", "NOP_R", "BIT", "JMP_ABS", "JMP_IND">>, <<"Absolute", "ORA", "AND", "EOR", "ADC">>,
  <<"Absolute", "ASL", "ROL", "LSR", "ROR">>, <<"Absolute", "SLO", "RLA", "SRE", "RRA">>,
  <<"Relative", "BPL", "BMI", "BVC", "BVS">>, <<"IndirectY", "ORA", "AND", "EOR", "ADC">>,
  <<"Implied", "JAM", "JAM", "JAM", "JAM">>, <<"IndirectY", "SLO", "RLA", "SRE", "RRA">>,
  <<"ZeroPageX", "NOP_R", "NOP_R", "NOP_R", "NOP_R">>, <<"ZeroPageX", "ORA", "AND", "EOR", "ADC">>,
  <<"ZeroPageX", "ASL", "ROL", "LSR", "ROR">>, <<"ZeroPageX", "SLO", "RLA", "SRE", "RRA">>,
  <<"Implied", "CLC", "SEC", "CLI", "SEI">>, <<"AbsoluteY", "ORA", "AND", "EOR", "ADC">>,
  <<"Implied", "NOP", "NOP", "NOP", "NOP">>, <<"AbsoluteY", "SLO", "RLA", "SRE", "RRA">>,
  <<"AbsoluteX", "NOP_R", "NOP_R", "NOP_R", "NOP_R">>, <<"AbsoluteX", "ORA", "AND", "EOR", "ADC">>,
  <<"AbsoluteX", "ASL", "ROL", "LSR", "ROR">>, <<"AbsoluteX", "SLO", "RLA", "SRE", "RRA">>>>

(* Rows 4 to 7, opcodes $80 - $FF. *)
UpperColumns == <<
  <<"Immediate", "NOP_R", "LDY", "CPY", "CPX">>, <<"IndirectX", "STA", "LDA", "CMP", "SBC">>,
  <<"Immediate", "NOP_R", "LDX", "NOP_R", "NOP_R">>, <<"IndirectX", "SAX", "LAX", "DCP", "ISC">>,
  <<"ZeroPage", "STY", "LDY", "CPY", "CPX">>, <<"ZeroPage", "STA", "LDA", "CMP", "SBC">>,
  <<"ZeroPage", "STX", "LDX", "DEC", "INC">>, <<"ZeroPage", "SAX", "LAX", "DCP", "ISC">>,
  <<"Implied", "DEY", "TAY", "INY", "INX">>, <<"Immediate", "NOP_R", "LDA", "CMP", "SBC">>,
  <<"Implied", "TXA", "TAX", "DEX", "NOP">>, <<"Immediate", "ANE", "LXA", "SBX", "SBC">>,
  <<"Absolute", "STY", "LDY", "CPY", "CPX">>, <<"Absolute", "STA", "LDA", "CMP", "SBC">>,
  <<"Absolute", "STX", "LDX", "DEC", "INC">>, <<"Absolute", "SAX", "LAX", "DCP", "ISC">>,
  <<"Relative", "BCC", "BCS", "BNE", "BEQ">>, <<"IndirectY", "STA", "LDA", "CMP", "SBC">>,
  <<"Implied", "JAM", "JAM", "JAM", "JAM">>, <<"IndirectY", "SHA", "LAX", "DCP", "ISC">>,
  <<"ZeroPageX", "STY", "LDY", "NOP_R", "NOP_R">>, <<"ZeroPageX", "STA", "LDA", "CMP", "SBC">>,
  <<"ZeroPageX", "STX", "LDX", "DEC", "INC">>, <<"ZeroPageX", "SAX", "LAX", "DCP", "ISC">>,
  <<"Implied", "TYA", "CLV", "CLD", "SED">>, <<"AbsoluteY", "STA", "LDA", "CMP", "SBC">>,
  <<"Implied", "TXS", "TSX", "NOP", "NOP">>, <<"AbsoluteY", "TAS", "LAS", "DCP", "ISC">>,
  <<"AbsoluteX", "SHY", "LDY", "NOP_R", "NOP_R">>, <<"AbsoluteX", "STA", "LDA", "CMP", "SBC">>,
  <<"AbsoluteX", "SHX", "LDX", "DEC", "INC">>, <<"AbsoluteX", "SHA", "LAX", "DCP", "ISC">>>>

Column(opcode) ==
  (IF opcode < 128 THEN LowerColumns ELSE UpperColumns)[(opcode % 32) + 1]

OpOf(opcode) == Column(opcode)[((opcode \div 32) % 4) + 2]

ModeOf(opcode) ==
  CASE opcode = \h20                          -> "Absolute"
    [] opcode = \h6C                          -> "Indirect"
    [] opcode \in {\h96, \h97, \hB6, \hB7}    -> "ZeroPageY"
    [] opcode \in {\h9E, \h9F, \hBE, \hBF}    -> "AbsoluteY"
    [] OTHER                                  -> Column(opcode)[1]

-----------------------------------------------------------------------------
WriteOps    == {"STA", "STX", "STY", "SAX"}
UnstableOps == {"SHA", "SHX", "SHY", "TAS"}
RmwOps      == {"ASL", "LSR", "ROL", "ROR", "INC", "DEC",
                "SLO", "RLA", "SRE", "RRA", "DCP", "ISC"}
BranchOps   == {"BPL", "BMI", "BVC", "BVS", "BCC", "BCS", "BNE", "BEQ"}
SpecialOps  == {"BRK", "JSR", "RTS", "RTI", "JMP_ABS", "JMP_IND", "JAM"}

(* The instruction shape: a function of the operation and the mode. *)
ShapeOf(opcode) ==
  LET op   == OpOf(opcode)
      mode == ModeOf(opcode)
  IN  CASE op \in RmwOps       -> IF mode = "Accumulator" THEN "Accum" ELSE "Rmw"
        [] op \in WriteOps      -> "Write"
        [] op \in UnstableOps   -> "UnstableStore"
        [] op \in BranchOps     -> "Branch"
        [] op \in SpecialOps    -> "Special"
        [] mode = "Implied" /\ op \notin SpecialOps -> "Implied"
        [] OTHER                -> "Read"

(* How the shape touches the effective address: the Access tag. *)
AccessOf(opcode) ==
  LET shape == ShapeOf(opcode)
  IN  CASE shape \in {"Write", "UnstableStore"} -> "Write"
        [] shape = "Rmw" -> "ReadModifyWrite"
        [] OTHER         -> "Read"

OperandBytes(mode) ==
  CASE mode \in {"Implied", "Accumulator"} -> 0
    [] mode \in {"Absolute", "AbsoluteX", "AbsoluteY", "Indirect"} -> 2
    [] OTHER -> 1

(* The disassembler's instructionLength. *)
InstructionLength(opcode) == 1 + OperandBytes(ModeOf(opcode))
=============================================================================
