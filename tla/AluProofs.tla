------------------------------- MODULE AluProofs ------------------------------
(***************************************************************************)
(* Proofs about Alu: every operation, on every register file and byte and  *)
(* for either chip, leaves a register file whose registers are bytes, and  *)
(* writes back a byte.                                                     *)
(***************************************************************************)
EXTENDS Alu, InstructionTable, TLAPS

(* The conditions that have a name of their own are expanded everywhere. *)
USE DEF Overflows, TooLarge, SignDigit, ArrCarry, RolCarryIn

-----------------------------------------------------------------------------
(* A range between numerals is a long disjunction to the SMT solver: what  *)
(* a byte and a word are is stated once, by their bounds.                  *)
LEMMA InRange ==
  ASSUME NEW m \in Int, NEW n
  PROVE  n \in 0 .. m <=> n \in Int /\ 0 <= n /\ n <= m
OBVIOUS

LEMMA ByteRange == ASSUME NEW n PROVE n \in Byte <=> n \in Int /\ 0 <= n /\ n <= 255
<1> DEFINE m == 255
<1>1. m \in Int
  OBVIOUS
<1>2. Byte = 0 .. m
  BY DEF Byte
<1> HIDE DEF m
<1>3. n \in Byte <=> n \in Int /\ 0 <= n /\ n <= m
  BY <1>1, <1>2, InRange
<1> QED
  BY <1>3 DEF m

LEMMA WordRange == ASSUME NEW n PROVE n \in Word <=> n \in Int /\ 0 <= n /\ n <= 65535
<1> DEFINE m == 65535
<1>1. m \in Int
  OBVIOUS
<1>2. Word = 0 .. m
  BY DEF Word
<1> HIDE DEF m
<1>3. n \in Word <=> n \in Int /\ 0 <= n /\ n <= m
  BY <1>1, <1>2, InRange
<1> QED
  BY <1>3 DEF m

LEMMA AndByte == ASSUME NEW b, NEW m PROVE And(b, m) \in Byte
<1>1. ASSUME NEW w PROVE Both(b, m, w) = 0 \/ Both(b, m, w) = w
  BY DEF Both
<1>2. And(b, m) \in Int /\ 0 <= And(b, m) /\ And(b, m) <= 255
  BY <1>1 DEF And
<1> QED
  BY <1>2, ByteRange

LEMMA OrByte == ASSUME NEW b, NEW m PROVE Or(b, m) \in Byte
BY AndByte, ByteRange DEF Or

LEMMA XorByte == ASSUME NEW b, NEW m PROVE Xor(b, m) \in Byte
BY AndByte DEF Xor

LEMMA U8Byte == ASSUME NEW n \in Int PROVE U8(n) \in Byte
BY ByteRange DEF U8

LEMMA HalfByte == ASSUME NEW b \in Byte PROVE b \div 2 \in Int /\ 0 <= b \div 2 /\ b \div 2 <= 127
BY ByteRange

LEMMA NibblesByte == ASSUME NEW h \in Int, NEW l \in Int PROVE 16 * Low(h) + Low(l) \in Byte
BY ByteRange DEF Low

LEMMA DigitInt == ASSUME NEW b \in Byte PROVE Low(b) \in 0 .. 15 /\ High(b) \in 0 .. 15
BY ByteRange DEF Low, High

LEMMA OneBit == ASSUME NEW flag PROVE One(flag) \in {0, 1}
BY DEF One

LEMMA PackByte == ASSUME NEW r, NEW i, NEW b PROVE Pack(r, i, b) \in Byte
BY OneBit, ByteRange DEF Pack

-----------------------------------------------------------------------------
LEMMA Flagged ==
  ASSUME NEW r \in Registers, NEW n \in Int
  PROVE  /\ SetZN(r, n) \in Registers
         /\ SetZN(r, n).a = r.a
<1>1. ASSUME NEW z \in BOOLEAN, NEW m \in BOOLEAN
      PROVE  /\ [r EXCEPT !.z = z, !.n = m] \in Registers
             /\ [r EXCEPT !.z = z, !.n = m].a = r.a
  BY DEF Registers
<1>2. (n = 0) \in BOOLEAN /\ Negative(n) \in BOOLEAN
  BY DEF Negative
<1> QED
  BY <1>1, <1>2, Zenon DEF SetZN

LEMMA Loads ==
  ASSUME NEW r \in Registers, NEW b \in Byte
  PROVE  /\ LoadA(r, b) \in Registers /\ LoadX(r, b) \in Registers
         /\ LoadY(r, b) \in Registers /\ LoadAX(r, b) \in Registers
<1>1. /\ [r EXCEPT !.a = b] \in Registers /\ [r EXCEPT !.x = b] \in Registers
      /\ [r EXCEPT !.y = b] \in Registers /\ [r EXCEPT !.a = b, !.x = b] \in Registers
  BY DEF Registers
<1> QED
  BY <1>1, Flagged, ByteRange DEF LoadA, LoadX, LoadY, LoadAX

LEMMA Compares ==
  ASSUME NEW r \in Registers, NEW reg \in Byte, NEW b \in Byte
  PROVE  Compare(r, reg, b) \in Registers
<1>1. reg - b \in Int
  BY ByteRange
<1>2. U8(reg - b) \in Int
  BY <1>1, U8Byte, ByteRange
<1>3. SetZN(r, U8(reg - b)) \in Registers
  BY <1>2, Flagged
<1>4. (reg >= b) \in BOOLEAN
  OBVIOUS
<1> QED
  BY <1>3, <1>4 DEF Compare, Registers

LEMMA AddsBinary ==
  ASSUME NEW r \in Registers, NEW b \in Byte
  PROVE  AddBinary(r, b) \in Registers
<1> DEFINE bin == r.a + b + One(r.c)
<1>1. bin \in Int
  BY OneBit, ByteRange DEF Registers
<1>2. U8(bin) \in Byte /\ U8(bin) \in Int
  BY <1>1, U8Byte, ByteRange
<1>3. SetZN(r, U8(bin)) \in Registers
  BY <1>2, Flagged
<1>4. Overflows(r.a, b, Negative(U8(bin))) \in BOOLEAN /\ (bin > 255) \in BOOLEAN
  OBVIOUS
<1> HIDE DEF bin, Overflows
<1> DEFINE set      == SetZN(r, U8(bin))
           sum      == U8(bin)
           carry    == (bin > 255)
           overflow == Overflows(r.a, b, Negative(U8(bin)))
<1>5. AddBinary(r, b) = [set EXCEPT !.a = sum, !.c = carry, !.v = overflow]
  BY Zenon DEF AddBinary, bin
<1>6. set \in Registers /\ sum \in Byte /\ carry \in BOOLEAN /\ overflow \in BOOLEAN
  BY <1>2, <1>3, <1>4, Zenon
<1> HIDE DEF set, sum, carry, overflow
<1> QED
  BY <1>5, <1>6 DEF Registers

LEMMA AddsDecimal ==
  ASSUME NEW r \in Registers, NEW b \in Byte
  PROVE  AddDecimal(r, b) \in Registers
<1> DEFINE lo   == Low(r.a) + Low(b) + One(r.c)
           hi   == High(r.a) + High(b) + One(TooLarge(lo))
           low  == IF TooLarge(lo) THEN lo + 6 ELSE lo
           high == IF TooLarge(hi) THEN hi + 6 ELSE hi
<1>1. r.a \in Byte
  BY DEF Registers
<1>2. lo \in Int /\ hi \in Int
  BY <1>1, DigitInt, OneBit
<1> HIDE DEF lo, hi
<1>3. low \in Int /\ high \in Int
  BY <1>2
<1>4. 16 * Low(high) + Low(low) \in Byte
  BY <1>3, NibblesByte
<1> HIDE DEF low, high
<1>5. AddDecimal(r, b)
        = [r EXCEPT !.z = (U8(r.a + b + One(r.c)) = 0),
                    !.n = (Low(SignDigit(hi)) >= 8),
                    !.v = Overflows(r.a, b, Low(SignDigit(hi)) >= 8),
                    !.c = (high > 15), !.a = 16 * Low(high) + Low(low)]
  BY Zenon DEF AddDecimal, lo, hi, low, high
<1> HIDE DEF SignDigit, Overflows
<1>6. (Low(SignDigit(hi)) >= 8) \in BOOLEAN /\ (high > 15) \in BOOLEAN
      /\ (U8(r.a + b + One(r.c)) = 0) \in BOOLEAN
  OBVIOUS
<1>7. Overflows(r.a, b, Low(SignDigit(hi)) >= 8) \in BOOLEAN
  BY DEF Overflows
<1> QED
  BY <1>4, <1>5, <1>6, <1>7 DEF Registers

(* ADC, in binary and in decimal mode. *)
LEMMA Adds ==
  ASSUME NEW r \in Registers, NEW b \in Byte
  PROVE  AddWithCarry(r, b) \in Registers
BY AddsBinary, AddsDecimal DEF AddWithCarry

LEMMA SubtractsDecimal ==
  ASSUME NEW r \in Registers, NEW b \in Byte
  PROVE  SubtractDecimal(r, b) \in Byte
<1> DEFINE lo   == Low(r.a) - Low(b) - One(~r.c)
           hi   == High(r.a) - High(b) - One(Bit(lo, 16))
           low  == IF Bit(lo, 16) THEN lo - 6 ELSE lo
           high == IF Bit(hi, 16) THEN hi - 6 ELSE hi
<1>1. r.a \in Byte
  BY DEF Registers
<1>2. lo \in Int /\ hi \in Int
  BY <1>1, DigitInt, OneBit
<1> HIDE DEF lo, hi
<1>3. low \in Int /\ high \in Int
  BY <1>2
<1> HIDE DEF low, high
<1>4. SubtractDecimal(r, b) = 16 * Low(high) + Low(low)
  BY Zenon DEF SubtractDecimal, lo, hi, low, high
<1> QED
  BY <1>3, <1>4, NibblesByte

(* SBC, in binary and in decimal mode. *)
LEMMA Subtracts ==
  ASSUME NEW r \in Registers, NEW b \in Byte
  PROVE  SubtractWithBorrow(r, b) \in Registers
<1>1. AddBinary(r, 255 - b) \in Registers
  BY AddsBinary, ByteRange
<1> QED
  BY <1>1, SubtractsDecimal DEF SubtractWithBorrow, Registers

LEMMA Rotates ==
  ASSUME NEW r \in Registers, NEW b \in Byte
  PROVE  Arr(r, b) \in Registers
<1> DEFINE m      == And(r.a, b)
           result == m \div 2 + 128 * One(r.c)
           over5(nibble) == nibble + (nibble % 2) > 5
           low    == IF over5(Low(m)) THEN 16 * High(result) + Low(result + 6) ELSE result
           carry  == over5(High(m))
<1>1. result \in Byte
  BY AndByte, HalfByte, OneBit, ByteRange
<1> HIDE DEF result
<1>2. low \in Byte
  <2>1. High(result) \in 0 .. 15 /\ Low(result + 6) \in 0 .. 15
    BY <1>1, DigitInt, ByteRange DEF Low
  <2> QED
    BY <1>1, <2>1, ByteRange
<1> HIDE DEF low
<1>3. U8(low + 96) \in Byte
  BY <1>2, U8Byte, ByteRange
<1>4. SetZN(r, result) \in Registers
  BY <1>1, Flagged, ByteRange
<1>5. carry \in BOOLEAN
  OBVIOUS
<1> HIDE DEF carry, ArrCarry
<1>6. Arr(r, b)
        = IF InDecimal(r)
            THEN [SetZN(r, result) EXCEPT
                    !.n = r.c, !.v = (Bit(m, 64) # Bit(result, 64)), !.c = carry,
                    !.a = IF carry THEN U8(low + 96) ELSE low]
            ELSE [SetZN(r, result) EXCEPT
                    !.a = result, !.c = ArrCarry(m, result),
                    !.v = (Bit(result, 64) # Bit(result, 32))]
  BY Zenon DEF Arr, low, carry, result
<1>7. /\ (Bit(m, 64) # Bit(result, 64)) \in BOOLEAN
      /\ (Bit(result, 64) # Bit(result, 32)) \in BOOLEAN
      /\ ArrCarry(m, result) \in BOOLEAN
      /\ r.c \in BOOLEAN
  BY DEF ArrCarry, Bit, Registers
<1> HIDE DEF m
<1>8. (IF carry THEN U8(low + 96) ELSE low) \in Byte
  BY <1>2, <1>3
<1> DEFINE set    == SetZN(r, result)
           stored == IF carry THEN U8(low + 96) ELSE low
           v10    == (Bit(m, 64) # Bit(result, 64))
           v2     == (Bit(result, 64) # Bit(result, 32))
           c2     == ArrCarry(m, result)
<1>9. CASE InDecimal(r)
  <2>1. set \in Registers /\ stored \in Byte /\ v10 \in BOOLEAN /\ r.c \in BOOLEAN
    BY <1>4, <1>7, <1>8
  <2>2. Arr(r, b) = [set EXCEPT !.n = r.c, !.v = v10, !.c = carry, !.a = stored]
    BY <1>6, <1>9, Zenon
  <2> HIDE DEF set, stored, v10
  <2> QED
    BY <1>5, <2>1, <2>2 DEF Registers
<1>10. CASE ~InDecimal(r)
  <2>1. set \in Registers /\ v2 \in BOOLEAN /\ c2 \in BOOLEAN
    BY <1>4, <1>7
  <2>2. Arr(r, b) = [set EXCEPT !.a = result, !.c = c2, !.v = v2]
    BY <1>6, <1>10, Zenon
  <2> HIDE DEF set, v2, c2
  <2> QED
    BY <1>1, <2>1, <2>2 DEF Registers
<1> QED
  BY <1>9, <1>10

-----------------------------------------------------------------------------
LEMMA CarryOnly ==
  ASSUME NEW r \in Registers, NEW c \in BOOLEAN
  PROVE  [r EXCEPT !.c = c] \in Registers
BY DEF Registers

LEMMA AndLoads ==
  ASSUME NEW r \in Registers, NEW b \in Byte,
         NEW op \in {"ORA", "AND", "EOR", "ANC", "ALR", "ANE", "LXA", "LAS", "SBX"}
  PROVE  ReadOp(op, r, b) \in Registers
<1> DEFINE m == And(r.a, b)
<1>0. m \in Byte
  BY AndByte
<1>1. CASE op = "ORA"
  <2>1. LoadA(r, Or(r.a, b)) \in Registers
    BY Loads, OrByte
  <2> QED
    BY <1>1, <2>1 DEF ReadOp
<1>2. CASE op = "AND"
  <2>1. LoadA(r, m) \in Registers
    BY Loads, AndByte
  <2> QED
    BY <1>2, <2>1 DEF ReadOp
<1>3. CASE op = "EOR"
  <2>1. LoadA(r, Xor(r.a, b)) \in Registers
    BY Loads, XorByte
  <2> QED
    BY <1>3, <2>1 DEF ReadOp
<1>4. CASE op = "ANC"
  <2>1. LoadA(r, m) \in Registers /\ Negative(m) \in BOOLEAN
    BY Loads, AndByte DEF Negative
  <2>2. ReadOp(op, r, b) = [LoadA(r, m) EXCEPT !.c = Negative(m)]
    BY <1>4 DEF ReadOp
  <2> HIDE DEF m
  <2> QED
    BY <2>1, <2>2, CarryOnly
<1>5. CASE op = "ALR"
  <2>1. LoadA(r, m \div 2) \in Registers /\ (m % 2 = 1) \in BOOLEAN
    BY <1>0, Loads, HalfByte, ByteRange
  <2>2. ReadOp(op, r, b) = [LoadA(r, m \div 2) EXCEPT !.c = (m % 2 = 1)]
    BY <1>5 DEF ReadOp
  <2> HIDE DEF m
  <2> QED
    BY <2>1, <2>2, CarryOnly
<1>6. CASE op = "ANE"
  <2>1. LoadA(r, And(And(Or(r.a, 238), r.x), b)) \in Registers
    BY Loads, AndByte
  <2> QED
    BY <1>6, <2>1 DEF ReadOp
<1>7. CASE op = "LXA"
  <2>1. LoadAX(r, And(Or(r.a, 238), b)) \in Registers
    BY Loads, AndByte
  <2> QED
    BY <1>7, <2>1 DEF ReadOp
<1>8. CASE op = "LAS"
  <2>1. And(r.s, b) \in Byte /\ LoadAX(r, And(r.s, b)) \in Registers
    BY Loads, AndByte
  <2>2. ReadOp(op, r, b) = [LoadAX(r, And(r.s, b)) EXCEPT !.s = And(r.s, b)]
    BY <1>8 DEF ReadOp
  <2>3. ASSUME NEW q \in Registers, NEW s \in Byte PROVE [q EXCEPT !.s = s] \in Registers
    BY DEF Registers
  <2> QED
    BY <2>1, <2>2, <2>3
<1>9. CASE op = "SBX"
  <2> DEFINE ax == And(r.a, r.x)
  <2>1. U8(ax - b) \in Byte
    <3>1. ax \in Byte
      BY AndByte
    <3>2. ax - b \in Int
      BY <3>1, ByteRange
    <3> QED
      BY <3>2, U8Byte
  <2>2. LoadX(r, U8(ax - b)) \in Registers /\ (ax >= b) \in BOOLEAN
    BY <2>1, Loads
  <2>3. ReadOp(op, r, b) = [LoadX(r, U8(ax - b)) EXCEPT !.c = (ax >= b)]
    BY <1>9 DEF ReadOp
  <2> HIDE DEF ax
  <2> QED
    BY <2>2, <2>3, CarryOnly
<1> QED
  BY <1>1, <1>2, <1>3, <1>4, <1>5, <1>6, <1>7, <1>8, <1>9

(* Whatever the operation, a read leaves registers that are bytes. *)
THEOREM ReadsTyped ==
  ASSUME NEW op, NEW r \in Registers, NEW b \in Byte
  PROVE  ReadOp(op, r, b) \in Registers
<1>1. CASE op \in {"ORA", "AND", "EOR", "ANC", "ALR", "ANE", "LXA", "LAS", "SBX"}
  BY <1>1, AndLoads
<1>2. CASE op \in {"LDA", "LDX", "LDY", "LAX"}
  BY <1>2, Loads DEF ReadOp
<1>3. CASE op \in {"CMP", "CPX", "CPY"}
  <2>1. r.a \in Byte /\ r.x \in Byte /\ r.y \in Byte
    BY DEF Registers
  <2>2. Compare(r, r.a, b) \in Registers /\ Compare(r, r.x, b) \in Registers
        /\ Compare(r, r.y, b) \in Registers
    BY <2>1, Compares
  <2> QED
    BY <1>3, <2>2 DEF ReadOp
<1>4. CASE op = "ADC"
  BY <1>4, Adds DEF ReadOp
<1>5. CASE op = "SBC"
  BY <1>5, Subtracts DEF ReadOp
<1>6. CASE op = "ARR"
  BY <1>6, Rotates DEF ReadOp
<1>7. CASE op = "BIT"
  <2>1. ReadOp(op, r, b)
          = [r EXCEPT !.z = (And(r.a, b) = 0), !.n = Negative(b), !.v = Bit(b, 64)]
    BY <1>7 DEF ReadOp
  <2> DEFINE zero == (And(r.a, b) = 0)
             bit7 == Negative(b)
             bit6 == Bit(b, 64)
  <2>2. zero \in BOOLEAN /\ bit7 \in BOOLEAN /\ bit6 \in BOOLEAN
    BY DEF Negative, Bit
  <2> HIDE DEF zero, bit7, bit6
  <2>4. ReadOp(op, r, b) = [r EXCEPT !.z = zero, !.n = bit7, !.v = bit6]
    BY <2>1, Zenon DEF zero, bit7, bit6
  <2>3. ASSUME NEW z \in BOOLEAN, NEW n \in BOOLEAN, NEW v \in BOOLEAN
        PROVE  [r EXCEPT !.z = z, !.n = n, !.v = v] \in Registers
    BY DEF Registers
  <2> QED
    BY <2>2, <2>3, <2>4, Zenon
<1>8. CASE op \notin {"LDA", "LDX", "LDY", "ORA", "AND", "EOR", "ADC", "SBC", "CMP", "CPX", "CPY",
                      "BIT", "LAX", "ANC", "ALR", "ARR", "SBX", "LAS", "ANE", "LXA"}
  BY <1>8 DEF ReadOp
<1> QED
  BY <1>1, <1>2, <1>3, <1>4, <1>5, <1>6, <1>7, <1>8

-----------------------------------------------------------------------------
LEMMA Shifts ==
  ASSUME NEW r \in Registers, NEW c \in BOOLEAN, NEW b \in Byte
  PROVE  /\ Shift(r, c, b)[1] \in Registers
         /\ Shift(r, c, b)[2] \in Byte
<1>1. SetZN(r, b) \in Registers
  BY Flagged, ByteRange
<1>2. [SetZN(r, b) EXCEPT !.c = c] \in Registers
  BY <1>1, CarryOnly
<1> QED
  BY <1>2 DEF Shift

LEMMA FourShifts ==
  ASSUME NEW r \in Registers, NEW b \in Byte,
         NEW q \in {Asl(r, b), Lsr(r, b), Rol(r, b), Ror(r, b)}
  PROVE  q[1] \in Registers /\ q[2] \in Byte
<1>1. Negative(b) \in BOOLEAN /\ (b % 2 = 1) \in BOOLEAN
  BY DEF Negative
<1>2. U8(2 * b) \in Byte
  BY U8Byte, ByteRange
<1>3. b \div 2 \in Byte /\ b \div 2 + 128 * One(r.c) \in Byte
  BY HalfByte, OneBit, ByteRange
<1>4. U8(2 * b) + One(r.c) \in Byte
  <2>1. U8(2 * b) \in Int /\ 0 <= U8(2 * b) /\ U8(2 * b) <= 254
    BY ByteRange DEF U8
  <2> QED
    BY <2>1, OneBit, ByteRange
<1> DEFINE seventh == Negative(b)
           first   == (b % 2 = 1)
           left    == U8(2 * b)
           right   == b \div 2
           rolled  == left + One(r.c)
           rored   == right + 128 * One(r.c)
<1>5. /\ Asl(r, b) = Shift(r, seventh, left) /\ Lsr(r, b) = Shift(r, first, right)
      /\ Rol(r, b) = Shift(r, seventh, rolled) /\ Ror(r, b) = Shift(r, first, rored)
  BY Zenon DEF Asl, Lsr, Rol, Ror
<1>6. /\ seventh \in BOOLEAN /\ first \in BOOLEAN /\ left \in Byte /\ right \in Byte
      /\ rolled \in Byte /\ rored \in Byte
  BY <1>1, <1>2, <1>3, <1>4, Zenon
<1> HIDE DEF seventh, first, left, right, rolled, rored
<1>7. q \in {Shift(r, seventh, left), Shift(r, first, right),
            Shift(r, seventh, rolled), Shift(r, first, rored)}
  BY <1>5, Zenon
<1> QED
  BY <1>6, <1>7, Shifts, Zenon

(* A read-modify-write operation writes a byte back. *)
THEOREM ModifiesTyped ==
  ASSUME NEW op \in RmwOps, NEW r \in Registers, NEW b \in Byte
  PROVE  /\ RmwOp(op, r, b)[1] \in Registers
         /\ RmwOp(op, r, b)[2] \in Byte
<1> DEFINE up   == U8(b + 1)
           down == U8(b - 1)
<1>1. up \in Byte /\ down \in Byte
  BY U8Byte, ByteRange
<1>2. up \in Int /\ down \in Int
  BY <1>1, ByteRange
<1> HIDE DEF up, down
<1>3. CASE op \in {"ASL", "LSR", "ROL", "ROR"}
  <2>1. RmwOp(op, r, b) \in {Asl(r, b), Lsr(r, b), Rol(r, b), Ror(r, b)}
    BY <1>3, Zenon DEF RmwOp
  <2> QED
    BY <2>1, FourShifts
<1>4. CASE op = "INC"
  <2>1. RmwOp(op, r, b) = <<SetZN(r, up), up>>
    BY <1>4 DEF RmwOp, up
  <2> QED
    BY <1>1, <1>2, <2>1, Flagged
<1>5. CASE op = "DEC"
  <2>1. RmwOp(op, r, b) = <<SetZN(r, down), down>>
    BY <1>5 DEF RmwOp, down
  <2> QED
    BY <1>1, <1>2, <2>1, Flagged
<1>6. CASE op = "DCP"
  <2>1. RmwOp(op, r, b) = <<Compare(r, r.a, down), down>>
    BY <1>6 DEF RmwOp, down
  <2>2. r.a \in Byte
    BY DEF Registers
  <2> QED
    BY <1>1, <2>1, <2>2, Compares
<1>7. CASE op = "ISC"
  <2>1. RmwOp(op, r, b) = <<SubtractWithBorrow(r, up), up>>
    BY <1>7 DEF RmwOp, up
  <2> QED
    BY <1>1, <2>1, Subtracts
<1>8. CASE op \in {"SLO", "SRE", "RLA", "RRA"}
  <2>1. PICK q \in {Asl(r, b), Lsr(r, b), Rol(r, b), Ror(r, b)} :
          \/ RmwOp(op, r, b) = <<ReadOp("ORA", q[1], q[2]), q[2]>>
          \/ RmwOp(op, r, b) = <<ReadOp("AND", q[1], q[2]), q[2]>>
          \/ RmwOp(op, r, b) = <<ReadOp("EOR", q[1], q[2]), q[2]>>
          \/ RmwOp(op, r, b) = <<AddWithCarry(q[1], q[2]), q[2]>>
    <3>1. CASE op = "SLO"
      <4>1. RmwOp(op, r, b) = <<ReadOp("ORA", Asl(r, b)[1], Asl(r, b)[2]), Asl(r, b)[2]>>
        BY <3>1 DEF RmwOp
      <4> QED
        BY <4>1
    <3>2. CASE op = "RLA"
      <4>1. RmwOp(op, r, b) = <<ReadOp("AND", Rol(r, b)[1], Rol(r, b)[2]), Rol(r, b)[2]>>
        BY <3>2 DEF RmwOp
      <4> QED
        BY <4>1
    <3>3. CASE op = "SRE"
      <4>1. RmwOp(op, r, b) = <<ReadOp("EOR", Lsr(r, b)[1], Lsr(r, b)[2]), Lsr(r, b)[2]>>
        BY <3>3 DEF RmwOp
      <4> QED
        BY <4>1
    <3>4. CASE op = "RRA"
      <4>1. RmwOp(op, r, b) = <<AddWithCarry(Ror(r, b)[1], Ror(r, b)[2]), Ror(r, b)[2]>>
        BY <3>4 DEF RmwOp
      <4> QED
        BY <4>1
    <3> QED
      BY <1>8, <3>1, <3>2, <3>3, <3>4
  <2>2. q[1] \in Registers /\ q[2] \in Byte
    BY FourShifts
  <2>3. AddWithCarry(q[1], q[2]) \in Registers
    BY <2>2, Adds
  <2>4. ReadOp("ORA", q[1], q[2]) \in Registers /\ ReadOp("AND", q[1], q[2]) \in Registers
        /\ ReadOp("EOR", q[1], q[2]) \in Registers
    BY <2>2, ReadsTyped
  <2> QED
    BY <2>1, <2>2, <2>3, <2>4
<1> QED
  BY <1>3, <1>4, <1>5, <1>6, <1>7, <1>8 DEF RmwOps

LEMMA ImpliedTyped ==
  ASSUME NEW op, NEW r \in Registers
  PROVE  ImpliedOp(op, r) \in Registers
<1>1. /\ r.a \in Byte /\ r.x \in Byte /\ r.y \in Byte /\ r.s \in Byte
  BY DEF Registers
<1>2. /\ U8(r.x + 1) \in Byte /\ U8(r.y + 1) \in Byte
      /\ U8(r.x - 1) \in Byte /\ U8(r.y - 1) \in Byte
  <2>1. r.x + 1 \in Int /\ r.y + 1 \in Int /\ r.x - 1 \in Int /\ r.y - 1 \in Int
    BY <1>1, ByteRange
  <2> QED
    BY <2>1, U8Byte
<1>3. CASE op \in {"TAX", "TAY", "TXA", "TYA", "TSX", "INX", "INY", "DEX", "DEY"}
  <2>1. ASSUME NEW b \in Byte,
               ImpliedOp(op, r) \in {LoadA(r, b), LoadX(r, b), LoadY(r, b)}
        PROVE  ImpliedOp(op, r) \in Registers
    BY <2>1, Loads
  <2>2. \E b \in {r.a, r.x, r.y, r.s, U8(r.x + 1), U8(r.y + 1), U8(r.x - 1), U8(r.y - 1)} :
          ImpliedOp(op, r) \in {LoadA(r, b), LoadX(r, b), LoadY(r, b)}
    BY <1>3 DEF ImpliedOp
  <2> QED
    BY <1>1, <1>2, <2>1, <2>2
<1>4. CASE op \in {"CLC", "SEC", "CLV", "CLD", "SED", "TXS"}
  <2>1. /\ [r EXCEPT !.c = FALSE] \in Registers /\ [r EXCEPT !.c = TRUE] \in Registers
        /\ [r EXCEPT !.v = FALSE] \in Registers /\ [r EXCEPT !.d = FALSE] \in Registers
        /\ [r EXCEPT !.d = TRUE] \in Registers /\ [r EXCEPT !.s = r.x] \in Registers
    BY DEF Registers
  <2> QED
    BY <1>4, <2>1 DEF ImpliedOp
<1>5. CASE op \notin {"TAX", "TAY", "TXA", "TYA", "TSX", "TXS", "INX", "INY", "DEX", "DEY",
                      "CLC", "SEC", "CLV", "CLD", "SED"}
  BY <1>5 DEF ImpliedOp
<1> QED
  BY <1>3, <1>4, <1>5

LEMMA StoresTyped ==
  ASSUME NEW op \in WriteOps \cup UnstableOps, NEW r \in Registers
  PROVE  StoreOp(op, r) \in Byte
<1>1. r.a \in Byte /\ r.x \in Byte /\ r.y \in Byte /\ And(r.a, r.x) \in Byte
  BY AndByte DEF Registers
<1>2. StoreOp(op, r) \in {r.a, r.x, r.y, And(r.a, r.x)}
  BY DEF StoreOp, WriteOps, UnstableOps
<1> QED
  BY <1>1, <1>2

LEMMA UnpacksTyped ==
  ASSUME NEW r \in Registers, NEW p
  PROVE  Unpack(r, p) \in Registers
<1>1. /\ Bit(p, 128) \in BOOLEAN /\ Bit(p, 64) \in BOOLEAN /\ Bit(p, 8) \in BOOLEAN
      /\ Bit(p, 2) \in BOOLEAN /\ Bit(p, 1) \in BOOLEAN
  BY DEF Bit
<1>2. SUFFICES ASSUME NEW n \in BOOLEAN, NEW v \in BOOLEAN, NEW d \in BOOLEAN,
                      NEW z \in BOOLEAN, NEW c \in BOOLEAN,
                      n = Bit(p, 128), v = Bit(p, 64), d = Bit(p, 8),
                      z = Bit(p, 2), c = Bit(p, 1)
               PROVE  Unpack(r, p) \in Registers
  BY <1>1
<1>3. Unpack(r, p) = [r EXCEPT !.n = n, !.v = v, !.d = d, !.z = z, !.c = c]
  BY <1>2, Zenon DEF Unpack
<1> QED
  BY <1>3 DEF Registers
=============================================================================
