-------------------------------- MODULE Alu ---------------------------------
(***************************************************************************)
(* The operations of include/mos6502/operations.hpp that compute, and the  *)
(* status byte of include/mos6502/registers.hpp, as functions of the       *)
(* register file.  A byte is a number 0 .. 255, a flag a Boolean; u8 and   *)
(* u16 arithmetic is taken modulo 2^8 and 2^16.                            *)
(*                                                                         *)
(* r is the register file of Registers without pc and i, which the         *)
(* modules that use these operators keep apart.                            *)
(***************************************************************************)
EXTENDS Integers

CONSTANT Variant   \* the chip: Nmos6502 or Cmos65C02

(* include/mos6502/variants.hpp *)
Nmos6502 ==
  [decimalMode |-> TRUE, jmpIndirectPageBug |-> TRUE, clearDecimalOnInterrupt |-> FALSE,
   illegalOpcodes |-> TRUE, rmwDummyWriteBack |-> TRUE]
Cmos65C02 ==
  [decimalMode |-> TRUE, jmpIndirectPageBug |-> FALSE, clearDecimalOnInterrupt |-> TRUE,
   illegalOpcodes |-> FALSE, rmwDummyWriteBack |-> FALSE]

ASSUME VariantAssumption == Variant \in {Nmos6502, Cmos65C02}

Byte == 0 .. 255
Word == 0 .. 65535

Registers ==
  [a : Byte, x : Byte, y : Byte, s : Byte,
   n : BOOLEAN, v : BOOLEAN, d : BOOLEAN, z : BOOLEAN, c : BOOLEAN]

-----------------------------------------------------------------------------
(* Bits of a byte: a bit is named by its weight. *)
One(flag)     == IF flag THEN 1 ELSE 0
Bit(b, w)     == (b \div w) % 2 = 1
Negative(b)   == b >= 128
Low(b)        == b % 16
High(b)       == b \div 16
U8(n)         == n % 256   \* static_cast<u8>
Both(b, m, w) == IF Bit(b, w) /\ Bit(m, w) THEN w ELSE 0
And(b, m)     == Both(b, m, 1) + Both(b, m, 2) + Both(b, m, 4) + Both(b, m, 8)
                   + Both(b, m, 16) + Both(b, m, 32) + Both(b, m, 64) + Both(b, m, 128)
Or(b, m)      == 255 - And(255 - b, 255 - m)
Xor(b, m)     == And(Or(b, m), 255 - And(b, m))

(* The P byte: bit 5 always 1, bit 4 only in the pushed copy. *)
Pack(r, i, breakFlag) ==
  128 * One(r.n) + 64 * One(r.v) + 32 + 16 * One(breakFlag)
    + 8 * One(r.d) + 4 * One(i) + 2 * One(r.z) + One(r.c)

(* Mutant: D is taken from the B bit. *)
UnpackDFromB(r, p) ==
  [r EXCEPT !.n = Bit(p, 128), !.v = Bit(p, 64), !.d = Bit(p, 16), !.z = Bit(p, 2), !.c = Bit(p, 1)]

Unpack(r, p) ==
  [r EXCEPT !.n = Bit(p, 128), !.v = Bit(p, 64), !.d = Bit(p, 8), !.z = Bit(p, 2), !.c = Bit(p, 1)]
UnpackI(p) == Bit(p, 4)

-----------------------------------------------------------------------------
SetZN(r, value) == [r EXCEPT !.z = (value = 0), !.n = Negative(value)]

Compare(r, reg, value) ==
  [SetZN(r, U8(reg - value)) EXCEPT !.c = (reg >= value)]

(* Mutant: V whenever the sign changes. *)
OverflowsSignChange(a, value, negative) == Negative(a) # negative

(* V: two operands of one sign give the other sign. *)
Overflows(a, value, negative) == Negative(a) = Negative(value) /\ Negative(a) # negative

AddBinary(r, value) ==
  LET bin == r.a + value + One(r.c)
      sum == U8(bin)
  IN  [SetZN(r, sum) EXCEPT !.a = sum, !.c = (bin > 255), !.v = Overflows(r.a, value, Negative(sum))]

(* Mutants: a digit of 10 is not corrected; N is that of the corrected digit. *)
TooLargeTen(digit) == digit > 10
SignDigitLate(hi)  == IF hi > 9 THEN hi + 6 ELSE hi

TooLarge(digit) == digit > 9
SignDigit(hi)   == hi

(* Decimal addition: Z from the binary sum, N and V from the high nibble   *)
(* after the carry of the low one and before its own correction.           *)
AddDecimal(r, value) ==
  LET lo     == Low(r.a) + Low(value) + One(r.c)
      hi     == High(r.a) + High(value) + One(TooLarge(lo))
      low    == IF TooLarge(lo) THEN lo + 6 ELSE lo
      high   == IF TooLarge(hi) THEN hi + 6 ELSE hi
      minus  == Low(SignDigit(hi)) >= 8
  IN  [r EXCEPT
        !.z = (U8(r.a + value + One(r.c)) = 0),
        !.n = minus, !.v = Overflows(r.a, value, minus),
        !.c = (high > 15), !.a = 16 * Low(high) + Low(low)]

InDecimal(r) == Variant.decimalMode /\ r.d

AddWithCarry(r, value) == IF InDecimal(r) THEN AddDecimal(r, value) ELSE AddBinary(r, value)

(* Decimal subtraction: a digit below zero borrows, and skips six. *)
SubtractDecimal(r, value) ==
  LET lo   == Low(r.a) - Low(value) - One(~r.c)
      hi   == High(r.a) - High(value) - One(Bit(lo, 16))
      low  == IF Bit(lo, 16) THEN lo - 6 ELSE lo
      high == IF Bit(hi, 16) THEN hi - 6 ELSE hi
  IN  16 * Low(high) + Low(low)

(* Mutant: N and Z describe the corrected result. *)
SubtractLateFlags(r, value) ==
  LET binary == AddBinary(r, 255 - value)
  IN  IF InDecimal(r) THEN [SetZN(binary, SubtractDecimal(r, value)) EXCEPT !.a = SubtractDecimal(r, value)] ELSE binary

(* Every flag of a subtraction is the binary one, in decimal mode too. *)
SubtractWithBorrow(r, value) ==
  LET binary == AddBinary(r, 255 - value)
  IN  IF InDecimal(r) THEN [binary EXCEPT !.a = SubtractDecimal(r, value)] ELSE binary

-----------------------------------------------------------------------------
(* Mutant: ARR takes its carry from the bit shifted out, as ROR does. *)
ArrCarryOut(t, result) == Bit(t, 1)

ArrCarry(t, result) == Bit(result, 64)

(* AND then rotate right through carry, with flags of its own. *)
Arr(r, value) ==
  LET t      == And(r.a, value)
      result == t \div 2 + 128 * One(r.c)
      over5(nibble) == nibble + (nibble % 2) > 5
      low    == IF over5(Low(t)) THEN 16 * High(result) + Low(result + 6) ELSE result
      carry  == over5(High(t))
  IN  IF InDecimal(r)
        THEN [SetZN(r, result) EXCEPT
               !.n = r.c, !.v = (Bit(t, 64) # Bit(result, 64)), !.c = carry,
               !.a = IF carry THEN U8(low + 96) ELSE low]
        ELSE [SetZN(r, result) EXCEPT
               !.a = result, !.c = ArrCarry(t, result), !.v = (Bit(result, 64) # Bit(result, 32))]

(* A load: the named registers take the value, N and Z follow it. *)
LoadA(r, value)  == SetZN([r EXCEPT !.a = value], value)
LoadX(r, value)  == SetZN([r EXCEPT !.x = value], value)
LoadY(r, value)  == SetZN([r EXCEPT !.y = value], value)
LoadAX(r, value) == SetZN([r EXCEPT !.a = value, !.x = value], value)

(* The read operations: what op::NAME::apply(cpu, value) does to the registers. *)
ReadOp(op, r, value) ==
  CASE op = "LDA" -> LoadA(r, value)
    [] op = "LDX" -> LoadX(r, value)
    [] op = "LDY" -> LoadY(r, value)
    [] op = "ORA" -> LoadA(r, Or(r.a, value))
    [] op = "AND" -> LoadA(r, And(r.a, value))
    [] op = "EOR" -> LoadA(r, Xor(r.a, value))
    [] op = "ADC" -> AddWithCarry(r, value)
    [] op = "SBC" -> SubtractWithBorrow(r, value)
    [] op = "CMP" -> Compare(r, r.a, value)
    [] op = "CPX" -> Compare(r, r.x, value)
    [] op = "CPY" -> Compare(r, r.y, value)
    [] op = "BIT" -> [r EXCEPT !.z = (And(r.a, value) = 0),
                               !.n = Negative(value), !.v = Bit(value, 64)]
    [] op = "LAX" -> LoadAX(r, value)
    [] op = "ANC" -> LET m == And(r.a, value) IN [LoadA(r, m) EXCEPT !.c = Negative(m)]
    [] op = "ALR" -> LET m == And(r.a, value) IN [LoadA(r, m \div 2) EXCEPT !.c = (m % 2 = 1)]
    [] op = "ARR" -> Arr(r, value)
    [] op = "SBX" -> LET m == And(r.a, r.x)
                     IN  [LoadX(r, U8(m - value)) EXCEPT !.c = (m >= value)]
    [] op = "LAS" -> LET m == And(r.s, value) IN [LoadAX(r, m) EXCEPT !.s = m]
    [] op = "ANE" -> LoadA(r, And(And(Or(r.a, 238), r.x), value))
    [] op = "LXA" -> LoadAX(r, And(Or(r.a, 238), value))
    [] OTHER -> r

(* The shifts and steps: the register file and the result. *)
Shift(r, carry, result) == <<[SetZN(r, result) EXCEPT !.c = carry], result>>
Asl(r, value) == Shift(r, Negative(value), U8(2 * value))
Lsr(r, value) == Shift(r, value % 2 = 1, value \div 2)
RolCarryFirst(r, value) == Negative(value)   \* mutant: the new carry is shifted in
RolCarryIn(r, value)    == r.c
Rol(r, value) == Shift(r, Negative(value), U8(2 * value) + One(RolCarryIn(r, value)))
Ror(r, value) == Shift(r, value % 2 = 1, value \div 2 + 128 * One(r.c))

(* The read-modify-write operations: <<registers, byte written back>>. *)
RmwOp(op, r, value) ==
  LET up   == U8(value + 1)
      down == U8(value - 1)
      shifted ==
        CASE op \in {"ASL", "SLO"} -> Asl(r, value)
          [] op \in {"LSR", "SRE"} -> Lsr(r, value)
          [] op \in {"ROL", "RLA"} -> Rol(r, value)
          [] op \in {"ROR", "RRA"} -> Ror(r, value)
      after == shifted[1]
      out   == shifted[2]
  IN  CASE op \in {"ASL", "LSR", "ROL", "ROR"} -> shifted
        [] op = "INC" -> <<SetZN(r, up), up>>
        [] op = "DEC" -> <<SetZN(r, down), down>>
        [] op = "SLO" -> <<ReadOp("ORA", after, out), out>>
        [] op = "RLA" -> <<ReadOp("AND", after, out), out>>
        [] op = "SRE" -> <<ReadOp("EOR", after, out), out>>
        [] op = "RRA" -> <<AddWithCarry(after, out), out>>
        [] op = "DCP" -> <<Compare(r, r.a, down), down>>
        [] op = "ISC" -> <<SubtractWithBorrow(r, up), up>>

(* The implied operations on registers and on the flags other than I. *)
ImpliedOp(op, r) ==
  CASE op = "TAX" -> LoadX(r, r.a)
    [] op = "TAY" -> LoadY(r, r.a)
    [] op = "TXA" -> LoadA(r, r.x)
    [] op = "TYA" -> LoadA(r, r.y)
    [] op = "TSX" -> LoadX(r, r.s)
    [] op = "TXS" -> [r EXCEPT !.s = r.x]
    [] op = "INX" -> LoadX(r, U8(r.x + 1))
    [] op = "INY" -> LoadY(r, U8(r.y + 1))
    [] op = "DEX" -> LoadX(r, U8(r.x - 1))
    [] op = "DEY" -> LoadY(r, U8(r.y - 1))
    [] op = "CLC" -> [r EXCEPT !.c = FALSE]
    [] op = "SEC" -> [r EXCEPT !.c = TRUE]
    [] op = "CLV" -> [r EXCEPT !.v = FALSE]
    [] op = "CLD" -> [r EXCEPT !.d = FALSE]
    [] op = "SED" -> [r EXCEPT !.d = TRUE]
    [] OTHER -> r

(* The implied operations on I, which the interrupt logic keeps. *)
ImpliedI(op, i) == CASE op = "CLI" -> FALSE [] op = "SEI" -> TRUE [] OTHER -> i

(* The byte a store takes from the registers; the unstable stores mask it. *)
StoreOp(op, r) ==
  CASE op = "STA"                  -> r.a
    [] op \in {"STX", "SHX"}       -> r.x
    [] op \in {"STY", "SHY"}       -> r.y
    [] op \in {"SAX", "SHA", "TAS"} -> And(r.a, r.x)

(* The branch conditions. *)
Taken(op, r) ==
  CASE op = "BPL" -> ~r.n
    [] op = "BMI" -> r.n
    [] op = "BVC" -> ~r.v
    [] op = "BVS" -> r.v
    [] op = "BCC" -> ~r.c
    [] op = "BCS" -> r.c
    [] op = "BNE" -> ~r.z
    [] op = "BEQ" -> r.z
=============================================================================
