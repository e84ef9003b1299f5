--------------------------- MODULE ArithmeticProofs ---------------------------
(***************************************************************************)
(* Proofs about Arithmetic: the flags and results of ADC, SBC, ARR and the *)
(* rotations are those of the arithmetic of numbers, on either chip and    *)
(* for every accumulator, operand, carry and decimal flag.                 *)
(***************************************************************************)
EXTENDS Arithmetic, AluProofs

InputsOK == a \in Byte /\ value \in Byte /\ c \in BOOLEAN /\ d \in BOOLEAN

LEMMA InputsInvariant == Spec => []InputsOK
<1>1. Init => InputsOK
  BY ByteRange DEF Init, InputsOK
<1>2. InputsOK /\ [Next]_inputs => InputsOK'
  BY ByteRange DEF InputsOK, Next, inputs
<1> QED
  BY <1>1, <1>2, PTL DEF Spec

(* The register file before the operation. *)
LEMMA Before ==
  ASSUME InputsOK
  PROVE  R \in Registers /\ R.a = a /\ R.c = c /\ R.d = d
<1>1. 0 \in Byte
  BY ByteRange
<1> QED
  BY <1>1 DEF InputsOK, R, Registers

-----------------------------------------------------------------------------
(* The fields of the results, one by one. *)
LEMMA BinaryFields ==
  ASSUME NEW r \in Registers, NEW b
  PROVE  LET bin == r.a + b + One(r.c)
             res == AddBinary(r, b)
         IN  /\ res.a = U8(bin) /\ res.c = (bin > 255)
             /\ res.z = (U8(bin) = 0) /\ res.n = Negative(U8(bin))
             /\ res.v = Overflows(r.a, b, Negative(U8(bin)))
<1> DEFINE bin   == r.a + b + One(r.c)
           sum   == U8(bin)
           carry == (bin > 255)
           over  == Overflows(r.a, b, Negative(sum))
           zero  == (sum = 0)
           minus == Negative(sum)
<1>1. AddBinary(r, b) = [[r EXCEPT !.z = zero, !.n = minus]
                           EXCEPT !.a = sum, !.c = carry, !.v = over]
  BY Zenon DEF AddBinary, SetZN
<1> HIDE DEF sum, carry, over, zero, minus
<1>2. LET res == AddBinary(r, b)
      IN  /\ res.a = sum /\ res.c = carry /\ res.z = zero /\ res.n = minus /\ res.v = over
  BY <1>1 DEF Registers
<1> QED
  BY <1>2, Zenon DEF sum, carry, over, zero, minus

LEMMA DecimalFields ==
  ASSUME NEW r \in Registers, NEW b
  PROVE  LET lo   == Low(r.a) + Low(b) + One(r.c)
             hi   == High(r.a) + High(b) + One(TooLarge(lo))
             low  == IF TooLarge(lo) THEN lo + 6 ELSE lo
             high == IF TooLarge(hi) THEN hi + 6 ELSE hi
             res  == AddDecimal(r, b)
         IN  /\ res.a = 16 * Low(high) + Low(low) /\ res.c = (high > 15)
             /\ res.n = (Low(hi) >= 8)
             /\ res.v = Overflows(r.a, b, Low(hi) >= 8)
             /\ res.z = (U8(r.a + b + One(r.c)) = 0)
<1> DEFINE lo    == Low(r.a) + Low(b) + One(r.c)
           hi    == High(r.a) + High(b) + One(TooLarge(lo))
           low   == IF TooLarge(lo) THEN lo + 6 ELSE lo
           high  == IF TooLarge(hi) THEN hi + 6 ELSE hi
           sum   == 16 * Low(high) + Low(low)
           carry == (high > 15)
           minus == Low(SignDigit(hi)) >= 8
           over  == Overflows(r.a, b, minus)
           zero  == (U8(r.a + b + One(r.c)) = 0)
<1>1. AddDecimal(r, b) = [r EXCEPT !.z = zero, !.n = minus, !.v = over, !.c = carry, !.a = sum]
  BY Zenon DEF AddDecimal
<1>2. minus = (Low(hi) >= 8)
  BY DEF SignDigit
<1>3. over = Overflows(r.a, b, Low(hi) >= 8)
  BY <1>2, Zenon DEF over
<1> HIDE DEF sum, carry, over, zero, minus
<1>4. LET res == AddDecimal(r, b)
      IN  res.a = sum /\ res.c = carry /\ res.z = zero /\ res.n = minus /\ res.v = over
  BY <1>1 DEF Registers
<1> QED
  BY <1>2, <1>3, <1>4, Zenon DEF sum, carry, zero

(* A carry is one or nothing, and both chips have the decimal mode. *)
LEMMA Modes == ASSUME NEW r PROVE InDecimal(r) <=> r.d
<1>1. Variant.decimalMode = TRUE
  BY VariantAssumption DEF Nmos6502, Cmos65C02
<1> QED
  BY <1>1 DEF InDecimal

LEMMA SumFields ==
  ASSUME InputsOK
  PROVE  /\ d  => Sum = AddDecimal(R, value)
         /\ ~d => Sum = AddBinary(R, value)
BY Before, Modes DEF Sum, AddWithCarry

LEMMA DifferenceFields ==
  ASSUME InputsOK
  PROVE  LET binary == AddBinary(R, 255 - value)
         IN  /\ Difference.a = (IF d THEN SubtractDecimal(R, value) ELSE binary.a)
             /\ Difference.c = binary.c /\ Difference.v = binary.v
             /\ Difference.z = binary.z /\ Difference.n = binary.n
<1> DEFINE binary == AddBinary(R, 255 - value)
           tens   == SubtractDecimal(R, value)
<1>1. binary \in Registers
  <2>1. 255 - value \in Byte
    BY ByteRange DEF InputsOK
  <2> QED
    BY <2>1, Before, AddsBinary
<1>2. Difference = IF d THEN [binary EXCEPT !.a = tens] ELSE binary
  BY Before, Modes DEF Difference, SubtractWithBorrow
<1> HIDE DEF binary, tens
<1>3. /\ Difference.a = (IF d THEN tens ELSE binary.a)
      /\ Difference.c = binary.c /\ Difference.v = binary.v
      /\ Difference.z = binary.z /\ Difference.n = binary.n
  BY <1>1, <1>2 DEF Registers
<1> QED
  BY <1>3, Zenon DEF binary, tens

-----------------------------------------------------------------------------
(* The signed range is a long disjunction to the SMT solver, as Byte is.   *)
LEMMA SignedRange == ASSUME NEW n \in Int PROVE n \in -128 .. 127 <=> -128 <= n /\ n <= 127
<1>1. \A lo, hi \in Int : n \in lo .. hi <=> lo <= n /\ n <= hi
  OBVIOUS
<1>2. -128 \in Int /\ 127 \in Int
  OBVIOUS
<1> QED
  BY <1>1, <1>2, Zenon

LEMMA BinarySum ==
  ASSUME NEW x \in Byte, NEW y \in Byte, NEW k \in {0, 1}
  PROVE  LET bin == x + y + k
         IN  /\ U8(bin) + 256 * One(bin > 255) = bin
             /\ Overflows(x, y, Negative(U8(bin)))
                  <=> (Signed(x) + Signed(y) + k) \notin -128 .. 127
             /\ Negative(U8(bin)) <=> Signed(U8(bin)) < 0
<1> DEFINE bin == x + y + k
           signed == Signed(x) + Signed(y) + k
<1>1. x \in Int /\ 0 <= x /\ x <= 255 /\ y \in Int /\ 0 <= y /\ y <= 255
  BY ByteRange
<1>2. U8(bin) = (IF bin > 255 THEN bin - 256 ELSE bin)
  BY <1>1 DEF U8
<1>3. signed \in Int /\ (signed \in -128 .. 127 <=> -128 <= signed /\ signed <= 127)
  <2>1. signed \in Int
    BY <1>1 DEF Signed
  <2> HIDE DEF signed
  <2> QED
    BY <2>1, SignedRange
<1>4. Overflows(x, y, Negative(U8(bin))) <=> ~(-128 <= signed /\ signed <= 127)
  BY <1>1, <1>2 DEF Overflows, Negative, Signed
<1>5. U8(bin) + 256 * One(bin > 255) = bin
  BY <1>1, <1>2 DEF One
<1>6. Negative(U8(bin)) <=> Signed(U8(bin)) < 0
  BY <1>1, <1>2 DEF Negative, Signed
<1> HIDE DEF bin, signed
<1> QED
  BY <1>3, <1>4, <1>5, <1>6, Zenon DEF bin, signed

(* addWithCarry in binary mode: the carry and the byte are the sum, V is    *)
(* signed overflow, N and Z describe the byte.                             *)
THEOREM AddExactCorrect == Spec => []AddExact
<1>1. ASSUME InputsOK PROVE AddExact
  <2> SUFFICES ASSUME ~d PROVE AddExact
    BY DEF AddExact
  <2> DEFINE bin == a + value + One(c)
  <2>1. One(c) \in {0, 1} /\ a \in Byte /\ value \in Byte
    BY <1>1, OneBit DEF InputsOK
  <2>2. /\ Sum.a = U8(bin) /\ Sum.c = (bin > 255) /\ Sum.z = (U8(bin) = 0)
        /\ Sum.n = Negative(U8(bin)) /\ Sum.v = Overflows(a, value, Negative(U8(bin)))
    BY <1>1, SumFields, Before, BinaryFields
  <2>3. /\ U8(bin) + 256 * One(bin > 255) = bin
        /\ Overflows(a, value, Negative(U8(bin)))
             <=> (Signed(a) + Signed(value) + One(c)) \notin -128 .. 127
        /\ Negative(U8(bin)) <=> Signed(U8(bin)) < 0
    BY <2>1, BinarySum
  <2> QED
    BY <2>2, <2>3, ZenonT(40) DEF AddExact
<1> QED
  BY <1>1, InputsInvariant, PTL

LEMMA CompareFields ==
  ASSUME NEW r \in Registers, NEW reg, NEW b
  PROVE  LET cmp == Compare(r, reg, b)
         IN  cmp.c = (reg >= b) /\ cmp.z = (U8(reg - b) = 0) /\ cmp.n = Negative(U8(reg - b))
<1> DEFINE carry == (reg >= b)
           zero  == (U8(reg - b) = 0)
           minus == Negative(U8(reg - b))
<1>1. Compare(r, reg, b) = [[r EXCEPT !.z = zero, !.n = minus] EXCEPT !.c = carry]
  BY Zenon DEF Compare, SetZN
<1> HIDE DEF carry, zero, minus
<1>2. LET cmp == Compare(r, reg, b)
      IN  cmp.c = carry /\ cmp.z = zero /\ cmp.n = minus
  BY <1>1 DEF Registers
<1> QED
  BY <1>2, Zenon DEF carry, zero, minus

(* Adding the complement and the carry is subtracting with the borrow. *)
LEMMA Complement ==
  ASSUME NEW x \in Byte, NEW y \in Byte, NEW flag \in BOOLEAN
  PROVE  LET bin   == x + (255 - y) + One(flag)
             exact == x - y - One(~flag)
         IN  /\ bin \in Int /\ exact \in Int /\ bin = exact + 256 /\ U8(bin) = U8(exact)
             /\ Signed(x) + Signed(255 - y) + One(flag) = Signed(x) - Signed(y) - One(~flag)
             /\ flag => exact = x - y
<1>1. x \in Int /\ 0 <= x /\ x <= 255 /\ y \in Int /\ 0 <= y /\ y <= 255
  BY ByteRange
<1> QED
  BY <1>1 DEF U8, One, Signed, Negative

(* subtractWithBorrow, and CMP beside it: C is "no borrow", V is signed     *)
(* overflow, in decimal mode too.                                          *)
THEOREM SubtractFlagsCorrect == Spec => []SubtractFlags
<1>1. ASSUME InputsOK PROVE SubtractFlags
  <2> DEFINE bin   == a + (255 - value) + One(c)
             exact == a - value - One(~c)
             cmp   == Compare(R, a, value)
  <2>1. a \in Byte /\ value \in Byte /\ c \in BOOLEAN /\ One(c) \in {0, 1}
    BY <1>1, OneBit DEF InputsOK
  <2>2. 255 - value \in Byte
    BY <2>1, ByteRange
  <2>3. /\ bin \in Int /\ exact \in Int /\ bin = exact + 256 /\ U8(bin) = U8(exact)
        /\ Signed(a) + Signed(255 - value) + One(c) = Signed(a) - Signed(value) - One(~c)
        /\ c => exact = a - value
    BY <2>1, Complement
  <2>4. /\ Difference.c = (bin > 255) /\ Difference.z = (U8(exact) = 0)
        /\ Difference.n = Negative(U8(exact))
        /\ Difference.v = Overflows(a, 255 - value, Negative(U8(bin)))
        /\ ~d => Difference.a = U8(exact)
    BY <1>1, <2>3, DifferenceFields, Before, BinaryFields
  <2>5. Difference.v <=> (Signed(a) - Signed(value) - One(~c)) \notin -128 .. 127
    <3>1. Overflows(a, 255 - value, Negative(U8(bin)))
            <=> (Signed(a) + Signed(255 - value) + One(c)) \notin -128 .. 127
      BY <2>1, <2>2, BinarySum
    <3> DEFINE V == Overflows(a, 255 - value, Negative(U8(bin)))
               signed == Signed(a) - Signed(value) - One(~c)
    <3>2. V <=> signed \notin -128 .. 127
      BY <2>3, <3>1
    <3>3. Difference.v = V
      BY <2>4
    <3> HIDE DEF V, signed
    <3>4. Difference.v <=> signed \notin -128 .. 127
      BY <3>2, <3>3, Zenon
    <3> QED
      BY <3>4, Zenon DEF signed
  <2>6. cmp.c = (a >= value) /\ cmp.z = (U8(a - value) = 0) /\ cmp.n = Negative(U8(a - value))
    BY <1>1, Before, CompareFields
  <2> HIDE DEF bin, exact, cmp
  <2>7. Difference.c = (exact >= 0)
    BY <2>3, <2>4
  <2>8. c => cmp.c = Difference.c /\ cmp.z = Difference.z /\ cmp.n = Difference.n
    <3> SUFFICES ASSUME c
                 PROVE  cmp.c = Difference.c /\ cmp.z = Difference.z /\ cmp.n = Difference.n
      OBVIOUS
    <3>1. exact = a - value
      BY <2>3
    <3>2. (a >= value) = (exact >= 0)
      BY <2>1, <3>1, ByteRange
    <3>3. cmp.c = Difference.c
      BY <2>6, <2>7, <3>2
    <3>4. U8(a - value) = U8(exact)
      BY <3>1
    <3> QED
      BY <2>4, <2>6, <3>3, <3>4, ZenonT(40)
  <2>9. Difference.n <=> U8(exact) >= 128
    BY <2>4, Zenon DEF Negative
  <2> QED
    BY <2>4, <2>5, <2>7, <2>8, <2>9, Zenon DEF SubtractFlags, exact, cmp
<1> QED
  BY <1>1, InputsInvariant, PTL

-----------------------------------------------------------------------------
(* Decimal mode, digit by digit. *)
LEMMA Digits ==
  ASSUME NEW b \in Byte
  PROVE  /\ Low(b) \in Int /\ 0 <= Low(b) /\ Low(b) <= 15
         /\ High(b) \in Int /\ 0 <= High(b) /\ High(b) <= 15
         /\ b = 16 * High(b) + Low(b)
BY ByteRange DEF Low, High

LEMMA TwoDigits ==
  ASSUME NEW h \in Int, NEW l \in Int, 0 <= l, l <= 15
  PROVE  High(16 * h + l) = h /\ Low(16 * h + l) = l
BY DEF Low, High

LEMMA LowDigit ==
  ASSUME NEW n \in Int
  PROVE  /\ Low(n) \in Int /\ 0 <= Low(n) /\ Low(n) <= 15
         /\ 0 <= n /\ n <= 15 => Low(n) = n
         /\ 16 <= n /\ n <= 31 => Low(n) = n - 16
         /\ -16 <= n /\ n <= -1 => Low(n) = n + 16
BY DEF Low

LEMMA Borrows ==
  ASSUME NEW n \in Int, -16 <= n, n <= 15
  PROVE  Bit(n, 16) <=> n < 0
BY DEF Bit

(* One digit of the sum and of the difference, on decimal digits. *)
LEMMA SumDigit ==
  ASSUME NEW p \in Int, NEW q \in Int, NEW k \in {0, 1}, 0 <= p, p <= 9, 0 <= q, q <= 9
  PROVE  LET s == p + q + k
             e == IF TooLarge(s) THEN s + 6 ELSE s
         IN  /\ 0 <= Low(e) /\ Low(e) <= 9 /\ Low(e) \in Int
             /\ Low(e) + 10 * One(TooLarge(s)) = s
             /\ TooLarge(s) <=> e > 15
<1> DEFINE s == p + q + k
           e == IF TooLarge(s) THEN s + 6 ELSE s
<1>1. s \in Int /\ e \in Int /\ 0 <= s /\ s <= 19 /\ (s > 9 => e = s + 6) /\ (s <= 9 => e = s)
  BY DEF TooLarge
<1>2. (s > 9 => Low(e) = s - 10) /\ (s <= 9 => Low(e) = s)
  BY <1>1, LowDigit
<1> HIDE DEF s, e
<1>3. /\ 0 <= Low(e) /\ Low(e) <= 9 /\ Low(e) \in Int
      /\ Low(e) + 10 * One(TooLarge(s)) = s
      /\ TooLarge(s) <=> e > 15
  BY <1>1, <1>2 DEF TooLarge, One
<1> QED
  BY <1>3, Zenon DEF s, e

LEMMA DifferenceDigit ==
  ASSUME NEW p \in Int, NEW q \in Int, NEW k \in {0, 1}, 0 <= p, p <= 9, 0 <= q, q <= 9
  PROVE  LET s == p - q - k
             e == IF Bit(s, 16) THEN s - 6 ELSE s
         IN  /\ 0 <= Low(e) /\ Low(e) <= 9 /\ Low(e) \in Int
             /\ Low(e) - 10 * One(Bit(s, 16)) = s
             /\ Bit(s, 16) <=> s < 0
<1> DEFINE s == p - q - k
           e == IF Bit(s, 16) THEN s - 6 ELSE s
<1>1. s \in Int /\ -10 <= s /\ s <= 9
  OBVIOUS
<1> HIDE DEF s
<1>2. Bit(s, 16) <=> s < 0
  BY <1>1, Borrows
<1>3. e \in Int /\ (s < 0 => e = s - 6) /\ (s >= 0 => e = s)
  BY <1>1, <1>2
<1>4. (s < 0 => Low(e) = s + 10) /\ (s >= 0 => Low(e) = s)
  BY <1>1, <1>3, LowDigit
<1> HIDE DEF e
<1>5. /\ 0 <= Low(e) /\ Low(e) <= 9 /\ Low(e) \in Int
      /\ Low(e) - 10 * One(Bit(s, 16)) = s
  BY <1>1, <1>2, <1>4 DEF One
<1> QED
  BY <1>2, <1>5, Zenon DEF s, e

(* The decimal mode on decimal operands: ADC and SBC compute the decimal    *)
(* sum and difference, digits and carry.                                   *)
THEOREM DecimalExactCorrect == Spec => []DecimalExact
<1>1. ASSUME InputsOK PROVE DecimalExact
  <2> SUFFICES ASSUME d, IsBcd(a), IsBcd(value) PROVE DecimalExact
    BY DEF DecimalExact
  <2> DEFINE la == Low(a)  lv == Low(value)  ha == High(a)  hv == High(value)
  <2> DEFINE borrow == One(~c)
  <2>1. /\ a \in Byte /\ value \in Byte /\ One(c) \in {0, 1} /\ borrow \in {0, 1}
        /\ One(c) = 1 - borrow
    BY <1>1 DEF InputsOK, One
  <2> HIDE DEF borrow
  <2>2. /\ la \in Int /\ 0 <= la /\ la <= 9 /\ lv \in Int /\ 0 <= lv /\ lv <= 9
        /\ ha \in Int /\ 0 <= ha /\ ha <= 9 /\ hv \in Int /\ 0 <= hv /\ hv <= 9
    BY <2>1, Digits DEF IsBcd
  <2>5. /\ a = 16 * ha + la /\ value = 16 * hv + lv
        /\ Decimal(a) = 10 * ha + la /\ Decimal(value) = 10 * hv + lv
    BY <2>1, Digits DEF Decimal
  <2> HIDE DEF la, lv, ha, hv
  <2>3. /\ IsBcd(Sum.a)
        /\ Decimal(Sum.a) + 100 * One(Sum.c) = Decimal(a) + Decimal(value) + One(c)
    <3> DEFINE lo   == la + lv + One(c)
               hi   == ha + hv + One(TooLarge(lo))
               low  == IF TooLarge(lo) THEN lo + 6 ELSE lo
               high == IF TooLarge(hi) THEN hi + 6 ELSE hi
    <3>1. Sum.a = 16 * Low(high) + Low(low) /\ Sum.c = (high > 15)
      <4>1. R \in Registers /\ R.a = a /\ R.c = c /\ Sum = AddDecimal(R, value)
        BY <1>1, Before, SumFields
      <4> QED
        BY <4>1, DecimalFields DEF la, lv, ha, hv
    <3>2. /\ 0 <= Low(low) /\ Low(low) <= 9 /\ Low(low) \in Int
          /\ Low(low) + 10 * One(TooLarge(lo)) = lo
      BY <2>1, <2>2, SumDigit
    <3>3. /\ 0 <= Low(high) /\ Low(high) <= 9 /\ Low(high) \in Int
          /\ Low(high) + 10 * One(TooLarge(hi)) = hi
          /\ TooLarge(hi) <=> high > 15
      <4>1. One(TooLarge(lo)) \in {0, 1}
        BY OneBit
      <4> QED
        BY <2>2, <4>1, SumDigit
    <3>4. Low(high) \in Int /\ High(Sum.a) = Low(high) /\ Low(Sum.a) = Low(low)
      BY <3>1, <3>2, <3>3, TwoDigits
    <3>5. One(Sum.c) = One(TooLarge(hi))
      <4>1. Sum.c <=> TooLarge(hi)
        BY <3>1, <3>3, Zenon
      <4> QED
        BY <4>1 DEF One
    <3>9. One(TooLarge(hi)) \in {0, 1} /\ One(TooLarge(lo)) \in {0, 1}
      BY OneBit
    <3>6. lo = la + lv + One(c) /\ hi = ha + hv + One(TooLarge(lo))
      OBVIOUS
    <3> HIDE DEF lo, hi, low, high
    <3>7. IsBcd(Sum.a)
      BY <3>2, <3>3, <3>4 DEF IsBcd
    <3>8. Decimal(Sum.a) = 10 * Low(high) + Low(low)
      BY <3>4 DEF Decimal
    <3>10. 10 * Low(high) + Low(low) + 100 * One(TooLarge(hi))
             = 10 * ha + la + 10 * hv + lv + One(c)
      BY <2>1, <2>2, <3>2, <3>3, <3>6, <3>9
    <3> QED
      BY <2>1, <2>2, <2>5, <3>5, <3>7, <3>8, <3>10
  <2>4. /\ IsBcd(Difference.a)
        /\ Decimal(Difference.a) - 100 * One(~Difference.c)
             = Decimal(a) - Decimal(value) - borrow
    <3> DEFINE lo   == la - lv - borrow
               hi   == ha - hv - One(Bit(lo, 16))
               low  == IF Bit(lo, 16) THEN lo - 6 ELSE lo
               high == IF Bit(hi, 16) THEN hi - 6 ELSE hi
               bin  == a + (255 - value) + One(c)
    <3>1. Difference.a = 16 * Low(high) + Low(low) /\ Difference.c = (bin > 255)
      <4>1. SubtractDecimal(R, value) = 16 * Low(high) + Low(low)
        BY <1>1, Before DEF SubtractDecimal, borrow, la, lv, ha, hv
      <4>2. AddBinary(R, 255 - value).c = (bin > 255)
        BY <1>1, Before, BinaryFields
      <4> QED
        BY <1>1, <4>1, <4>2, DifferenceFields
    <3>2. /\ 0 <= Low(low) /\ Low(low) <= 9 /\ Low(low) \in Int
          /\ Low(low) - 10 * One(Bit(lo, 16)) = lo
          /\ Bit(lo, 16) <=> lo < 0
      BY <2>1, <2>2, DifferenceDigit
    <3>3. /\ 0 <= Low(high) /\ Low(high) <= 9 /\ Low(high) \in Int
          /\ Low(high) - 10 * One(Bit(hi, 16)) = hi
          /\ Bit(hi, 16) <=> hi < 0
      <4>1. One(Bit(lo, 16)) \in {0, 1}
        BY OneBit
      <4> HIDE DEF lo, low
      <4> QED
        BY <2>2, <4>1, DifferenceDigit
    <3>4. High(Difference.a) = Low(high) /\ Low(Difference.a) = Low(low)
      <4>1. Low(high) \in Int /\ Low(low) \in Int /\ 0 <= Low(low) /\ Low(low) <= 15
        BY <3>2, <3>3
      <4> HIDE DEF lo, hi, low, high
      <4>2. /\ High(16 * Low(high) + Low(low)) = Low(high)
            /\ Low(16 * Low(high) + Low(low)) = Low(low)
        BY <4>1, TwoDigits
      <4> QED
        BY <3>1, <4>2
    <3>5. lo = la - lv - borrow /\ hi = ha - hv - One(Bit(lo, 16))
      OBVIOUS
    <3>7. bin = a - value - borrow + 256
      BY <2>1, ByteRange
    <3>8. Decimal(Difference.a) = 10 * Low(high) + Low(low)
      BY <3>4 DEF Decimal
    <3>9. IsBcd(Difference.a)
      BY <3>2, <3>3, <3>4 DEF IsBcd
    <3> HIDE DEF lo, hi, low, high, bin
    <3>6. One(Bit(hi, 16)) \in {0, 1} /\ One(Bit(lo, 16)) \in {0, 1}
      BY OneBit
    <3> DEFINE owes == One(~Difference.c)
    <3>10. owes = One(Bit(hi, 16))
      <4> DEFINE rest == lo + 16 * One(Bit(lo, 16))
      <4>1. hi \in Int /\ lo \in Int
        BY <2>1, <2>2, <3>5, <3>6
      <4>2. bin = 16 * hi + rest + 256
        BY <2>1, <2>2, <2>5, <3>5, <3>6, <3>7
      <4>3. One(Bit(lo, 16)) = IF lo < 0 THEN 1 ELSE 0
        BY <3>2 DEF One
      <4>4. rest \in Int /\ 0 <= rest /\ rest <= 15
        BY <2>1, <2>2, <3>5, <4>1, <4>3
      <4> HIDE DEF rest
      <4>5. bin > 255 <=> ~(hi < 0)
        BY <4>1, <4>2, <4>4
      <4>6. ~Difference.c <=> Bit(hi, 16)
        BY <3>1, <3>3, <4>5, Zenon
      <4> QED
        BY <4>6 DEF One
    <3>11. 10 * Low(high) + Low(low) - 100 * One(Bit(hi, 16))
             = 10 * ha + la - (10 * hv + lv) - borrow
      BY <2>1, <2>2, <3>2, <3>3, <3>5, <3>6
    <3> HIDE DEF owes
    <3>12. Decimal(Difference.a) - 100 * owes = Decimal(a) - Decimal(value) - borrow
      BY <2>1, <2>2, <2>5, <3>2, <3>3, <3>6, <3>8, <3>10, <3>11
    <3> QED
      BY <3>9, <3>12, Zenon DEF owes
  <2> QED
    BY <2>3, <2>4 DEF DecimalExact, borrow
<1> QED
  BY <1>1, InputsInvariant, PTL

(* The digits of a sum of any two nibbles, and of the adder's half sum. *)
LEMMA AnyDigit ==
  ASSUME NEW s \in Int, 0 <= s, s <= 31
  PROVE  LET e == IF TooLarge(s) THEN s + 6 ELSE s
         IN  /\ e \in Int /\ 0 <= Low(e) /\ Low(e) <= 15 /\ Low(e) \in Int
             /\ Low(e) = (IF s >= 10 THEN Low(s + 6) ELSE s)
             /\ TooLarge(s) <=> s >= 10
BY LowDigit DEF TooLarge

LEMMA HalfSum ==
  ASSUME NEW h \in Int, NEW l \in Int, 0 <= h, h <= 31, 0 <= l, l <= 15
  PROVE  LET half == 16 * h + l
             full == IF half >= 160 THEN half + 96 ELSE half
             high == IF TooLarge(h) THEN h + 6 ELSE h
         IN  /\ U8(full) = 16 * Low(high) + l
             /\ (full >= 256) = (high > 15)
             /\ (U8(half) >= 128) = (Low(h) >= 8)
BY DEF TooLarge, U8, Low

(* Operands of one sign whose half sum has the other: signed overflow. *)
LEMMA HalfOverflows ==
  ASSUME NEW x \in Byte, NEW y \in Byte, NEW k \in Int, 0 <= k, k <= 31
  PROVE  LET half   == 16 * High(x) + 16 * High(y) + k
             signed == Signed(16 * High(x)) + Signed(16 * High(y)) + k
         IN  Overflows(x, y, U8(half) >= 128) <=> signed \notin -128 .. 127
<1> DEFINE p      == 16 * High(x)
           q      == 16 * High(y)
           half   == 16 * High(x) + 16 * High(y) + k
           signed == Signed(p) + Signed(q) + k
<1>1. /\ p \in Int /\ 0 <= p /\ p <= 240 /\ (p >= 128 \/ p <= 112)
      /\ Negative(x) = (p >= 128)
  BY ByteRange DEF High, Negative
<1>2. /\ q \in Int /\ 0 <= q /\ q <= 240 /\ (q >= 128 \/ q <= 112)
      /\ Negative(y) = (q >= 128)
  BY ByteRange DEF High, Negative
<1>3. half = p + q + k
  OBVIOUS
<1> HIDE DEF p, q, half
<1>4. U8(half) = (IF half >= 256 THEN half - 256 ELSE half)
  BY <1>1, <1>2, <1>3 DEF U8
<1>5. signed = p + q + k - (IF p >= 128 THEN 256 ELSE 0) - (IF q >= 128 THEN 256 ELSE 0)
  BY <1>1, <1>2 DEF Signed, Negative
<1> HIDE DEF signed
<1>6. signed \in Int
  BY <1>1, <1>2, <1>5
<1>7. Overflows(x, y, U8(half) >= 128) <=> ~(-128 <= signed /\ signed <= 127)
  BY <1>1, <1>2, <1>3, <1>4, <1>5 DEF Overflows
<1>8. Overflows(x, y, U8(half) >= 128) <=> signed \notin -128 .. 127
  BY <1>6, <1>7, SignedRange
<1> QED
  BY <1>8, Zenon DEF half, signed, p, q

(* The decimal mode on any operands: ADC is the adder with two corrections  *)
(* that the comment above addWithCarry describes.                          *)
THEOREM DecimalAdderCorrect == Spec => []DecimalAdder
<1>1. ASSUME InputsOK PROVE DecimalAdder
  <2> SUFFICES ASSUME d PROVE DecimalAdder
    BY DEF DecimalAdder
  <2> DEFINE al     == Low(a) + Low(value) + One(c)
             hi     == High(a) + High(value) + One(TooLarge(al))
             low    == IF TooLarge(al) THEN al + 6 ELSE al
             high   == IF TooLarge(hi) THEN hi + 6 ELSE hi
             ones   == IF al >= 10 THEN 16 + Low(al + 6) ELSE al
             half   == 16 * High(a) + 16 * High(value) + ones
             full   == IF half >= 160 THEN half + 96 ELSE half
             signed == Signed(16 * High(a)) + Signed(16 * High(value)) + ones
  <2>1. a \in Byte /\ value \in Byte /\ One(c) \in {0, 1}
    BY <1>1, OneBit DEF InputsOK
  <2>2. al \in Int /\ 0 <= al /\ al <= 31 /\ hi \in Int /\ 0 <= hi /\ hi <= 31
    BY <2>1, OneBit, Digits
  <2>3. /\ Sum.a = 16 * Low(high) + Low(low) /\ Sum.c = (high > 15)
        /\ Sum.n = (Low(hi) >= 8) /\ Sum.v = Overflows(a, value, Low(hi) >= 8)
        /\ Sum.z = (U8(a + value + One(c)) = 0)
    <3>1. R \in Registers /\ R.a = a /\ R.c = c /\ Sum = AddDecimal(R, value)
      BY <1>1, Before, SumFields
    <3> QED
      BY <3>1, DecimalFields
  <2>A. /\ Low(low) \in Int /\ Low(low) = (IF al >= 10 THEN Low(al + 6) ELSE al)
        /\ TooLarge(al) <=> al >= 10
        /\ 0 <= Low(low) /\ Low(low) <= 15
    <3> HIDE DEF al
    <3> QED
      BY <2>2, AnyDigit
  <2>4. half = 16 * hi + Low(low)
    <3> DEFINE two == High(a) + High(value)
    <3>1. two \in Int /\ 16 * High(a) + 16 * High(value) = 16 * two
      BY <2>1, Digits
    <3> HIDE DEF al
    <3>3. One(TooLarge(al)) = (IF al >= 10 THEN 1 ELSE 0)
      BY <2>A DEF One
    <3> QED
      BY <2>A, <3>1, <3>3
  <2>B. ones \in Int /\ 0 <= ones /\ ones <= 31
    <3> HIDE DEF al, low
    <3> QED
      BY <2>2, <2>A
  <2>C. Overflows(a, value, U8(half) >= 128) <=> signed \notin -128 .. 127
    <3> HIDE DEF ones
    <3> QED
      BY <2>1, <2>B, HalfOverflows
  <2> HIDE DEF al, hi, low, half, signed
  <2>6. /\ U8(full) = 16 * Low(high) + Low(low)
        /\ (full >= 256) = (high > 15)
        /\ (U8(half) >= 128) = (Low(hi) >= 8)
    BY <2>2, <2>4, <2>A, HalfSum
  <2>7. Sum.v = (signed \notin -128 .. 127)
    <3> DEFINE outside == signed \notin -128 .. 127
    <3>1. Overflows(a, value, U8(half) >= 128) <=> outside
      BY <2>C
    <3> HIDE DEF outside
    <3>2. Overflows(a, value, Low(hi) >= 8) <=> outside
      BY <2>6, <3>1, Zenon
    <3>3. Sum.v = outside
      <4>1. Overflows(a, value, Low(hi) >= 8) \in BOOLEAN /\ outside \in BOOLEAN
        BY DEF Overflows, outside
      <4> QED
        BY <2>3, <3>2, <4>1
    <3> QED
      BY <3>3, Zenon DEF outside
  <2> HIDE DEF high, full
  <2>8. /\ Sum.a = U8(full) /\ Sum.c = (full >= 256) /\ Sum.n = (U8(half) >= 128)
        /\ Sum.v = (signed \notin -128 .. 127) /\ Sum.z = (U8(a + value + One(c)) = 0)
    BY <2>3, <2>6, <2>7, Zenon
  <2> QED
    BY <2>8, Zenon DEF DecimalAdder, al, ones, half, full, signed
<1> QED
  BY <1>1, InputsInvariant, PTL

-----------------------------------------------------------------------------
(* ARR and the rotations. *)
LEMMA ArrFields ==
  ASSUME NEW r \in Registers, NEW b
  PROVE  LET t      == And(r.a, b)
             result == t \div 2 + 128 * One(r.c)
             over5(nibble) == nibble + (nibble % 2) > 5
             low    == IF over5(Low(t)) THEN 16 * High(result) + Low(result + 6) ELSE result
             carry  == over5(High(t))
             from   == ReadOp("ARR", r, b)
         IN  /\ ~r.d => /\ from.a = result /\ from.c = Bit(result, 64)
                        /\ from.v = (Bit(result, 64) # Bit(result, 32))
                        /\ from.n = Negative(result) /\ from.z = (result = 0)
             /\ r.d => /\ from.a = (IF carry THEN U8(low + 96) ELSE low) /\ from.c = carry
                       /\ from.v = (Bit(t, 64) # Bit(result, 64))
                       /\ from.n = r.c /\ from.z = (result = 0)
<1> DEFINE t      == And(r.a, b)
           result == t \div 2 + 128 * One(r.c)
           over5(nibble) == nibble + (nibble % 2) > 5
           low    == IF over5(Low(t)) THEN 16 * High(result) + Low(result + 6) ELSE result
           carry  == over5(High(t))
           byte   == IF carry THEN U8(low + 96) ELSE low
           out    == Bit(result, 64)
           over   == (Bit(result, 64) # Bit(result, 32))
           moved  == (Bit(t, 64) # Bit(result, 64))
           zero   == (result = 0)
           minus  == Negative(result)
           from   == ReadOp("ARR", r, b)
<1>1. from = Arr(r, b)
  BY DEF ReadOp
<1>2. ~r.d => from = [[r EXCEPT !.z = zero, !.n = minus] EXCEPT !.a = result, !.c = out, !.v = over]
  BY <1>1, Modes, Zenon DEF Arr, SetZN, ArrCarry
<1>3. r.d => from = [[r EXCEPT !.z = zero, !.n = minus]
                      EXCEPT !.n = r.c, !.v = moved, !.c = carry, !.a = byte]
  BY <1>1, Modes, Zenon DEF Arr, SetZN
<1> HIDE DEF result, out, over, moved, zero, minus, carry, byte, from
<1>4. ~r.d => from.a = result /\ from.c = out /\ from.v = over /\ from.n = minus /\ from.z = zero
  BY <1>2 DEF Registers
<1>5. r.d => from.a = byte /\ from.c = carry /\ from.v = moved /\ from.n = r.c /\ from.z = zero
  BY <1>3 DEF Registers
<1> QED
  BY <1>4, <1>5, Zenon DEF from, byte, carry, result, out, over, moved, zero, minus

LEMMA DoublesAndHalves ==
  ASSUME NEW m \in Byte, NEW k \in {0, 1}
  PROVE  LET result == m \div 2 + 128 * k
             bin    == m + m + 0
         IN  /\ Bit(result, 64) = (bin > 255)
             /\ (Bit(result, 64) # Bit(result, 32)) = Overflows(m, m, Negative(U8(bin)))
<1> DEFINE result == m \div 2 + 128 * k
           bin    == m + m + 0
<1>1. m \in Int /\ 0 <= m /\ m <= 255
  BY ByteRange
<1>2. Bit(result, 64) <=> m >= 128
  BY <1>1 DEF Bit
<1>3. Bit(result, 32) <=> (m >= 192 \/ (64 <= m /\ m <= 127))
  BY <1>1 DEF Bit
<1>4. U8(bin) = IF m >= 128 THEN 2 * m - 256 ELSE 2 * m
  BY <1>1 DEF U8
<1>5. bin > 255 <=> m >= 128
  BY <1>1
<1>6. Negative(U8(bin)) <=> (m >= 192 \/ (64 <= m /\ m <= 127))
  BY <1>1, <1>4 DEF Negative
<1> HIDE DEF result, bin
<1>7. (Bit(result, 64) # Bit(result, 32)) = Overflows(m, m, Negative(U8(bin)))
  <2>1. Negative(m) <=> Bit(result, 64)
    BY <1>2 DEF Negative
  <2>2. Negative(U8(bin)) <=> Bit(result, 32)
    BY <1>3, <1>6, Zenon
  <2>3. ASSUME NEW p, NEW q, NEW u, NEW v, p <=> u, q <=> v,
               p \in BOOLEAN, q \in BOOLEAN, u \in BOOLEAN, v \in BOOLEAN
        PROVE  (u # v) = (p = p /\ p # q)
    BY <2>3
  <2>4. /\ Negative(m) \in BOOLEAN /\ Negative(U8(bin)) \in BOOLEAN
        /\ Bit(result, 64) \in BOOLEAN /\ Bit(result, 32) \in BOOLEAN
    BY DEF Negative, Bit
  <2> QED
    BY <2>1, <2>2, <2>3, <2>4, Zenon DEF Overflows
<1>8. Bit(result, 64) = (bin > 255)
  BY <1>2, <1>5 DEF Bit
<1> QED
  BY <1>7, <1>8, Zenon DEF result, bin

(* The decimal fixups, on the digits of the rotated byte. *)
LEMMA DigitsSkip ==
  ASSUME NEW m \in Byte, NEW k \in {0, 1}
  PROVE  LET result == m \div 2 + 128 * k
             over5(nibble) == nibble + (nibble % 2) > 5
             low    == IF over5(Low(m)) THEN 16 * High(result) + Low(result + 6) ELSE result
             carry  == over5(High(m))
             Skipped(digit, doubled) == Low(IF doubled >= 5 THEN digit + 6 ELSE digit)
         IN  /\ (IF carry THEN U8(low + 96) ELSE low)
                  = 16 * Skipped(High(result), High(m)) + Skipped(Low(result), Low(m))
             /\ carry = (High(m) >= 5)
             /\ Bit(m, 64) = Bit(result, 32) /\ Negative(result) = (result >= 128)
<1> DEFINE result == m \div 2 + 128 * k
           over5(nibble) == nibble + (nibble % 2) > 5
           hr == High(result)
           lr == Low(result)
           low    == IF over5(Low(m)) THEN 16 * High(result) + Low(result + 6) ELSE result
           carry  == over5(High(m))
           Skipped(digit, doubled) == Low(IF doubled >= 5 THEN digit + 6 ELSE digit)
<1>1. m \in Int /\ 0 <= m /\ m <= 255
  BY ByteRange
<1>2. result \in Byte
  BY <1>1, ByteRange
<1>3. ASSUME NEW n \in Int, 0 <= n, n <= 15 PROVE over5(n) <=> n >= 5
  BY <1>3
<1>4. over5(Low(m)) <=> Low(m) >= 5
  BY <1>3, Digits
<1>5. carry <=> High(m) >= 5
  BY <1>3, Digits
<1>6. Bit(m, 64) = Bit(result, 32)
  BY <1>1 DEF Bit
<1>7. /\ hr \in Int /\ 0 <= hr /\ hr <= 15 /\ lr \in Int /\ 0 <= lr /\ lr <= 15
      /\ result = 16 * hr + lr
  BY <1>2, Digits
<1> HIDE DEF result, hr, lr
<1>8. Low(result + 6) = Low(lr + 6)
  BY <1>7 DEF Low
<1>9. low = 16 * hr + Skipped(lr, Low(m))
  BY <1>4, <1>7, <1>8, LowDigit DEF hr
<1> HIDE DEF low
<1>10. ASSUME NEW l \in Int, 0 <= l, l <= 15
       PROVE  U8(16 * hr + l + 96) = 16 * Low(hr + 6) + l
  BY <1>7, <1>10 DEF U8, Low
<1>11. Skipped(lr, Low(m)) \in Int /\ 0 <= Skipped(lr, Low(m)) /\ Skipped(lr, Low(m)) <= 15
  BY <1>7, LowDigit
<1>12. (IF carry THEN U8(low + 96) ELSE low) = 16 * Skipped(hr, High(m)) + Skipped(lr, Low(m))
  BY <1>5, <1>7, <1>9, <1>10, <1>11, LowDigit
<1>13. carry = (High(m) >= 5) /\ Negative(result) = (result >= 128)
  BY <1>5 DEF Negative
<1> HIDE DEF carry, over5
<1> QED
  BY <1>6, <1>12, <1>13, Zenon DEF low, carry, hr, lr, result, over5

(* op::ARR in both modes: the flags, the rotated byte, and the digits that  *)
(* decimal mode corrects.                                                  *)
THEOREM ArrDoublesCorrect == Spec => []ArrDoubles
<1>1. ASSUME InputsOK PROVE ArrDoubles
  <2> DEFINE masked  == And(a, value)
             rotated == Ror(R, masked)[2]
             double  == [R EXCEPT !.a = masked, !.c = FALSE, !.d = FALSE]
             twice   == AddWithCarry(double, masked)
             result  == masked \div 2 + 128 * One(c)
             bin     == masked + masked + 0
             arr     == ReadOp("ARR", R, value)
             over5(nibble) == nibble + (nibble % 2) > 5
             low     == IF over5(Low(masked)) THEN 16 * High(result) + Low(result + 6) ELSE result
             carry   == over5(High(masked))
             byte    == IF carry THEN U8(low + 96) ELSE low
             Skipped(digit, doubled) == Low(IF doubled >= 5 THEN digit + 6 ELSE digit)
             digits  == 16 * Skipped(High(rotated), High(masked))
                          + Skipped(Low(rotated), Low(masked))
  <2>1. masked \in Byte /\ One(c) \in {0, 1}
    BY AndByte, OneBit
  <2>2. /\ ~d => /\ arr.a = result /\ arr.c = Bit(result, 64)
                 /\ arr.v = (Bit(result, 64) # Bit(result, 32))
                 /\ arr.n = Negative(result) /\ arr.z = (result = 0)
        /\ d => /\ arr.a = byte /\ arr.c = carry
                /\ arr.v = (Bit(masked, 64) # Bit(result, 64))
                /\ arr.n = c /\ arr.z = (result = 0)
    BY <1>1, Before, ArrFields
  <2>3. rotated = result
    BY <1>1, Before DEF Ror, Shift
  <2>4. /\ byte = 16 * Skipped(High(result), High(masked)) + Skipped(Low(result), Low(masked))
        /\ carry = (High(masked) >= 5)
        /\ Bit(masked, 64) = Bit(result, 32) /\ Negative(result) = (result >= 128)
    BY <2>1, DigitsSkip, ZenonT(40)
  <2> HIDE DEF masked
  <2>5. c = (result >= 128)
    BY <1>1, <2>1, ByteRange DEF InputsOK, One
  <2>6. double \in Registers /\ double.a = masked /\ double.c = FALSE /\ ~double.d
    BY <1>1, <2>1, Before DEF Registers
  <2> HIDE DEF double
  <2>7. One(double.c) = 0
    BY <2>6 DEF One
  <2>8. twice = AddBinary(double, masked)
    BY <2>6, Modes DEF AddWithCarry
  <2>9. twice.c = (bin > 255) /\ twice.v = Overflows(masked, masked, Negative(U8(bin)))
    BY <2>6, <2>7, <2>8, BinaryFields
  <2>10. /\ Bit(result, 64) = (bin > 255)
         /\ (Bit(result, 64) # Bit(result, 32)) = Overflows(masked, masked, Negative(U8(bin)))
    BY <2>1, DoublesAndHalves, ZenonT(40)
  <2>11. (Bit(masked, 64) # Bit(result, 64)) = (Bit(result, 64) # Bit(result, 32))
    BY <2>4
  <2>12. digits = 16 * Skipped(High(result), High(masked)) + Skipped(Low(result), Low(masked))
    BY <2>3
  <2> HIDE DEF result, bin, twice, arr, byte, carry, rotated, digits, low, over5
  <2>13. arr.n = (rotated >= 128) /\ arr.z = (rotated = 0) /\ arr.v = twice.v
    <3>1. CASE d
      BY <2>2, <2>3, <2>5, <2>9, <2>10, <2>11, <3>1
    <3>2. CASE ~d
      BY <2>2, <2>3, <2>4, <2>9, <2>10, <3>2
    <3> QED
      BY <3>1, <3>2
  <2>14. ~d => arr.a = rotated /\ arr.c = twice.c
    BY <2>2, <2>3, <2>9, <2>10
  <2>15. d => arr.a = digits /\ arr.c = (High(masked) >= 5)
    BY <2>2, <2>4, <2>12
  <2> HIDE DEF Skipped
  <2>16. /\ arr.n = (rotated >= 128) /\ arr.z = (rotated = 0) /\ arr.v = twice.v
         /\ ~d => arr.a = rotated /\ arr.c = twice.c
         /\ d => arr.a = digits /\ arr.c = (High(masked) >= 5)
    BY <2>13, <2>14, <2>15, Zenon
  <2> QED
    BY <2>16, ZenonT(60) DEF ArrDoubles, masked, double, twice, arr, rotated, digits, Skipped
<1> QED
  BY <1>1, InputsInvariant, PTL

(* A rotation to the left of the nine bits of the carry and the byte. *)
Nine(pair) == 256 * One(pair[1].c) + pair[2]

LEMMA RotatesLeft ==
  ASSUME NEW r \in Registers, NEW b \in Byte
  PROVE  LET to == Rol(r, b)
         IN  /\ to[1] \in Registers /\ to[1].c = Negative(b) /\ to[2] \in Byte
             /\ to[2] = U8(2 * b) + One(r.c)
<1> DEFINE carry  == Negative(b)
           result == U8(2 * b) + One(r.c)
<1>1. result \in Byte /\ result \in Int /\ carry \in BOOLEAN
  <2>1. One(r.c) \in {0, 1}
    BY OneBit
  <2> QED
    BY <2>1, ByteRange DEF U8, Negative
<1>2. Rol(r, b) = <<[SetZN(r, result) EXCEPT !.c = carry], result>>
  BY Zenon DEF Rol, Shift, RolCarryIn
<1> HIDE DEF carry, result
<1>3. SetZN(r, result) \in Registers
  BY <1>1, Flagged
<1>4. LET to == Rol(r, b)
      IN  to[1] \in Registers /\ to[1].c = carry /\ to[2] = result
  BY <1>1, <1>2, <1>3 DEF Registers
<1> QED
  BY <1>1, <1>4, Zenon DEF carry, result

(* As numbers of nine bits: doubled, and the bit that falls out comes in.  *)
LEMMA NineBits ==
  ASSUME NEW r \in Registers, NEW b \in Byte
  PROVE  LET n  == Nine(<<r, b>>)
             to == Rol(r, b)
         IN  /\ n \in Int /\ 0 <= n /\ n <= 511
             /\ Nine(to) = (IF n >= 256 THEN 2 * n - 511 ELSE 2 * n)
             /\ to[1] \in Registers /\ to[2] \in Byte
<1> DEFINE to == Rol(r, b)
<1>1. b \in Int /\ 0 <= b /\ b <= 255
  BY ByteRange
<1>2. /\ to[1] \in Registers /\ to[1].c = Negative(b) /\ to[2] \in Byte
      /\ to[2] = U8(2 * b) + One(r.c)
  BY RotatesLeft
<1>3. One(r.c) \in {0, 1} /\ Nine(<<r, b>>) = 256 * One(r.c) + b
  BY OneBit DEF Nine
<1>4. U8(2 * b) = (IF b >= 128 THEN 2 * b - 256 ELSE 2 * b)
  BY <1>1 DEF U8
<1>5. One(to[1].c) = (IF b >= 128 THEN 1 ELSE 0)
  BY <1>2 DEF One, Negative
<1> HIDE DEF to
<1>6. Nine(to) = 2 * b + One(r.c)
  BY <1>1, <1>2, <1>3, <1>4, <1>5 DEF Nine
<1>7. LET n == Nine(<<r, b>>)
      IN  /\ n \in Int /\ 0 <= n /\ n <= 511
          /\ Nine(to) = (IF n >= 256 THEN 2 * n - 511 ELSE 2 * n)
  BY <1>1, <1>3, <1>6
<1> QED
  BY <1>2, <1>7, Zenon DEF to

(* The nine bits tell the byte and the carry. *)
LEMMA NineTells ==
  ASSUME NEW p, NEW q, p[2] \in Byte, q[2] \in Byte, p[1].c \in BOOLEAN, q[1].c \in BOOLEAN,
         Nine(p) = Nine(q)
  PROVE  p[2] = q[2] /\ p[1].c = q[1].c
<1>1. /\ p[2] \in Int /\ 0 <= p[2] /\ p[2] <= 255
      /\ q[2] \in Int /\ 0 <= q[2] /\ q[2] <= 255
  BY ByteRange
<1> QED
  BY <1>1 DEF Nine, One

Turned(n) == IF n >= 256 THEN 2 * n - 511 ELSE 2 * n

LEMMA ThreeTurns ==
  ASSUME NEW n \in Int, 0 <= n, n <= 511
  PROVE  LET m == Turned(Turned(Turned(n)))
         IN  m = 8 * (n % 64) + n \div 64 /\ m \in Int /\ 0 <= m /\ m <= 511
<1> DEFINE p == Turned(n)
           q == Turned(p)
           m == Turned(q)
<1>1. p \in Int /\ 0 <= p /\ p <= 511 /\ p = 2 * (n % 256) + n \div 256
  BY DEF Turned
<1> HIDE DEF p
<1>2. q \in Int /\ 0 <= q /\ q <= 511 /\ q = 4 * (n % 128) + n \div 128
  BY <1>1 DEF Turned
<1> HIDE DEF q
<1>3. m \in Int /\ 0 <= m /\ m <= 511 /\ m = 8 * (n % 64) + n \div 64
  BY <1>2 DEF Turned
<1> QED
  BY <1>3, Zenon DEF m, q, p

LEMMA NineTurns ==
  ASSUME NEW n \in Int, 0 <= n, n <= 511
  PROVE  Turned(Turned(Turned(Turned(Turned(Turned(Turned(Turned(Turned(n))))))))) = n
<1> DEFINE p == Turned(Turned(Turned(n)))
           q == Turned(Turned(Turned(p)))
           m == Turned(Turned(Turned(q)))
<1>1. p = 8 * (n % 64) + n \div 64 /\ p \in Int /\ 0 <= p /\ p <= 511
  BY ThreeTurns
<1> HIDE DEF p
<1>2. q = 8 * (p % 64) + p \div 64 /\ q \in Int /\ 0 <= q /\ q <= 511
  BY <1>1, ThreeTurns
<1> HIDE DEF q
<1>3. m = 8 * (q % 64) + q \div 64
  BY <1>2, ThreeTurns
<1> HIDE DEF m
<1>4. m = n
  BY <1>1, <1>2, <1>3
<1> QED
  BY <1>4, Zenon DEF m, q, p

(* A rotation one way and one the other. *)
LEMMA ThereAndBack ==
  ASSUME NEW r \in Registers, NEW b \in Byte
  PROVE  LET to   == Rol(r, b)
             back == Ror(to[1], to[2])
         IN  back[2] = b /\ back[1].c = r.c
<1> DEFINE to     == Rol(r, b)
           carry  == (to[2] % 2 = 1)
           result == to[2] \div 2 + 128 * One(to[1].c)
           set    == SetZN(to[1], result)
<1>1. /\ to[1] \in Registers /\ to[1].c = Negative(b) /\ to[2] \in Byte
      /\ to[2] = U8(2 * b) + One(r.c)
  BY RotatesLeft
<1>2. b \in Int /\ 0 <= b /\ b <= 255 /\ r.c \in BOOLEAN
  BY ByteRange DEF Registers
<1>3. Ror(to[1], to[2]) = <<[set EXCEPT !.c = carry], result>>
  BY Zenon DEF Ror, Shift
<1>4. One(r.c) \in {0, 1} /\ (One(r.c) = 1 <=> r.c)
  BY DEF One
<1>5. One(to[1].c) = IF b >= 128 THEN 1 ELSE 0
  BY <1>1 DEF One, Negative
<1>6. to[2] = (IF b >= 128 THEN 2 * b - 256 ELSE 2 * b) + One(r.c)
  BY <1>1, <1>2 DEF U8
<1>7. result = b /\ carry = r.c
  <2>1. result = b
    BY <1>2, <1>4, <1>5, <1>6
  <2>2. carry <=> One(r.c) = 1
    BY <1>2, <1>4, <1>6
  <2> QED
    BY <1>2, <1>4, <2>1, <2>2
<1>8. set \in Registers
  BY <1>1, <1>2, <1>7, Flagged
<1> HIDE DEF to, result, carry, set
<1>9. LET back == Ror(to[1], to[2])
      IN  back[2] = result /\ back[1].c = carry
  BY <1>3, <1>8 DEF Registers
<1> QED
  BY <1>7, <1>9, Zenon DEF to

Good(p) == p[1] \in Registers /\ p[2] \in Byte
Left(p) == Rol(p[1], p[2])

LEMMA LeftTurns ==
  ASSUME NEW p, Good(p)
  PROVE  /\ Good(Left(p)) /\ Nine(Left(p)) = Turned(Nine(p))
         /\ Nine(p) \in Int /\ 0 <= Nine(p) /\ Nine(p) <= 511
<1>1. Nine(<<p[1], p[2]>>) = Nine(p)
  BY DEF Nine
<1> QED
  BY <1>1, NineBits DEF Good, Left, Turned

LEMMA NineLefts ==
  ASSUME NEW p, Good(p)
  PROVE  LET q == Left(Left(Left(Left(Left(Left(Left(Left(Left(p)))))))))
         IN  q[2] = p[2] /\ q[1].c = p[1].c
<1> DEFINE q == Left(Left(Left(p)))
           r == Left(Left(Left(q)))
           s == Left(Left(Left(r)))
<1>1. ASSUME NEW u, Good(u)
      PROVE  /\ Good(Left(Left(Left(u))))
             /\ Nine(Left(Left(Left(u)))) = Turned(Turned(Turned(Nine(u))))
  <2>1. Good(Left(u)) /\ Nine(Left(u)) = Turned(Nine(u))
    BY <1>1, LeftTurns
  <2>2. Good(Left(Left(u))) /\ Nine(Left(Left(u))) = Turned(Turned(Nine(u)))
    BY <2>1, LeftTurns
  <2> QED
    BY <2>2, LeftTurns
<1>2. Good(q) /\ Nine(q) = Turned(Turned(Turned(Nine(p))))
  BY <1>1
<1> HIDE DEF q
<1>3. Good(r) /\ Nine(r) = Turned(Turned(Turned(Nine(q))))
  BY <1>1, <1>2
<1> HIDE DEF r
<1>4. Good(s) /\ Nine(s) = Turned(Turned(Turned(Nine(r))))
  BY <1>1, <1>3
<1> HIDE DEF s
<1>5. Nine(s) = Nine(p)
  BY <1>2, <1>3, <1>4, LeftTurns, NineTurns
<1>6. s[1].c \in BOOLEAN /\ p[1].c \in BOOLEAN /\ s[2] \in Byte /\ p[2] \in Byte
  BY <1>4 DEF Good, Registers
<1>7. s[2] = p[2] /\ s[1].c = p[1].c
  BY <1>5, <1>6, NineTells
<1> QED
  BY <1>7, Zenon DEF s, r, q

(* The chain of rotations as the property writes it. *)
LEMMA Chain ==
  ASSUME NEW start, NEW round,
         round = CHOOSE f : f = [k \in 0 .. 9 |-> IF k = 0 THEN start ELSE Left(f[k - 1])]
  PROVE  /\ round[1] = Left(start)
         /\ round[9] = Left(Left(Left(Left(Left(Left(Left(Left(Left(start)))))))))
<1> DEFINE F(f) == [k \in 0 .. 9 |-> IF k = 0 THEN start ELSE Left(f[k - 1])]
           s1 == Left(start)  s2 == Left(s1)  s3 == Left(s2)  s4 == Left(s3)  s5 == Left(s4)
           s6 == Left(s5)  s7 == Left(s6)  s8 == Left(s7)  s9 == Left(s8)
           g == [k \in 0 .. 9 |->
                  CASE k = 0 -> start [] k = 1 -> s1 [] k = 2 -> s2 [] k = 3 -> s3 [] k = 4 -> s4
                    [] k = 5 -> s5 [] k = 6 -> s6 [] k = 7 -> s7 [] k = 8 -> s8 [] k = 9 -> s9]
<1>1. /\ s1 = Left(start) /\ s2 = Left(s1) /\ s3 = Left(s2)
      /\ s4 = Left(s3) /\ s5 = Left(s4) /\ s6 = Left(s5)
      /\ s7 = Left(s6) /\ s8 = Left(s7) /\ s9 = Left(s8)
  OBVIOUS
<1> HIDE DEF s1, s2, s3, s4, s5, s6, s7, s8, s9
<1>2. g = F(g)
  <2>1. /\ g[0] = start /\ g[1] = s1 /\ g[2] = s2 /\ g[3] = s3 /\ g[4] = s4
        /\ g[5] = s5 /\ g[6] = s6 /\ g[7] = s7 /\ g[8] = s8 /\ g[9] = s9
    OBVIOUS
  <2>2. g = [k \in 0 .. 9 |-> g[k]]
    OBVIOUS
  <2> HIDE DEF g
  <2>3. ASSUME NEW k \in 0 .. 9
        PROVE  g[k] = IF k = 0 THEN start ELSE Left(g[k - 1])
    BY <1>1, <2>1
  <2> QED
    BY <2>2, <2>3
<1> HIDE DEF g
<1>3. round = F(round)
  BY <1>2, Zenon
<1> DEFINE Index == 0 .. 9
<1>4. ASSUME NEW k \in Index, NEW j, j = k - 1
      PROVE  round[k] = IF k = 0 THEN start ELSE Left(round[j])
  BY <1>3, <1>4
<1>0. /\ 0 \in Index /\ 1 \in Index /\ 2 \in Index /\ 3 \in Index /\ 4 \in Index
      /\ 5 \in Index /\ 6 \in Index /\ 7 \in Index /\ 8 \in Index /\ 9 \in Index
  OBVIOUS
<1> HIDE DEF Index
<1>5. round[0] = start /\ round[1] = Left(round[0])
  BY <1>0, <1>4
<1>6. round[2] = Left(round[1]) /\ round[3] = Left(round[2]) /\ round[4] = Left(round[3])
  BY <1>0, <1>4
<1>7. round[5] = Left(round[4]) /\ round[6] = Left(round[5]) /\ round[7] = Left(round[6])
  BY <1>0, <1>4
<1>8. round[8] = Left(round[7]) /\ round[9] = Left(round[8])
  BY <1>0, <1>4
<1>9. round[1] = s1 /\ round[9] = s9
  BY <1>1, <1>5, <1>6, <1>7, <1>8
<1> QED
  BY <1>9, Zenon DEF s1, s2, s3, s4, s5, s6, s7, s8, s9

(* A clear carry shifted in, and the carry the register file had is gone.   *)
LEMMA ShiftsRotate ==
  ASSUME NEW r \in Registers, NEW b \in Byte
  PROVE  LET clear == [r EXCEPT !.c = FALSE]
         IN  Asl(r, b) = Rol(clear, b) /\ Lsr(r, b) = Ror(clear, b)
<1> DEFINE clear == [r EXCEPT !.c = FALSE]
<1>1. clear \in Registers /\ One(clear.c) = 0
  BY DEF Registers, One
<1>2. ASSUME NEW carry, NEW result
      PROVE  Shift(r, carry, result) = Shift(clear, carry, result)
  BY DEF Shift, SetZN, Registers
<1>3. U8(2 * b) + 0 = U8(2 * b) /\ b \div 2 + 128 * 0 = b \div 2
  BY ByteRange DEF U8
<1> HIDE DEF clear
<1>4. /\ Rol(clear, b) = Shift(clear, Negative(b), U8(2 * b))
      /\ Ror(clear, b) = Shift(clear, b % 2 = 1, b \div 2)
  BY <1>1, <1>3 DEF Rol, RolCarryIn, Ror
<1> DEFINE out  == Negative(b)
           odd  == b % 2 = 1
           up   == U8(2 * b)
           down == b \div 2
<1>5. Asl(r, b) = Shift(r, out, up) /\ Lsr(r, b) = Shift(r, odd, down)
  BY Zenon DEF Asl, Lsr
<1>6. Rol(clear, b) = Shift(clear, out, up) /\ Ror(clear, b) = Shift(clear, odd, down)
  BY <1>4
<1> HIDE DEF out, odd, up, down
<1>7. Shift(r, out, up) = Shift(clear, out, up) /\ Shift(r, odd, down) = Shift(clear, odd, down)
  BY <1>2
<1>8. Asl(r, b) = Rol(clear, b) /\ Lsr(r, b) = Ror(clear, b)
  BY <1>5, <1>6, <1>7
<1> QED
  BY <1>8, Zenon DEF clear

(* op::ROL and op::ROR: one undoes the other, and nine of one restore the   *)
(* byte and the carry; op::ASL and op::LSR are these with a clear carry.    *)
THEOREM RotationsCorrect == Spec => []Rotations
<1>1. ASSUME InputsOK PROVE Rotations
  <2> DEFINE start == <<R, value>>
             round[k \in 0 .. 9] == IF k = 0 THEN start ELSE Rol(round[k - 1][1], round[k - 1][2])
             back == Ror(round[1][1], round[1][2])
  <2>1. Good(start) /\ start[1].c = c /\ start[2] = value
    BY <1>1, Before DEF Good, InputsOK
  <2>2. /\ round[1] = Left(start)
        /\ round[9] = Left(Left(Left(Left(Left(Left(Left(Left(Left(start)))))))))
    <3>1. round = CHOOSE f : f = [k \in 0 .. 9 |-> IF k = 0 THEN start ELSE Left(f[k - 1])]
      BY Zenon DEF Left
    <3> HIDE DEF round, start
    <3> QED
      BY <3>1, Chain
  <2> HIDE DEF round, start
  <2>3. back[2] = value /\ back[1].c = c
    <3>1. start[1] \in Registers /\ start[2] \in Byte
      BY <2>1 DEF Good
    <3>2. LET to == Rol(start[1], start[2])
          IN  Ror(to[1], to[2])[2] = start[2] /\ Ror(to[1], to[2])[1].c = start[1].c
      BY <3>1, ThereAndBack
    <3> QED
      BY <2>1, <2>2, <3>2, Zenon DEF Left
  <2>4. round[9][2] = value /\ round[9][1].c = c
    BY <2>1, <2>2, NineLefts
  <2>5. LET clear == [R EXCEPT !.c = FALSE]
        IN  Asl(R, value) = Rol(clear, value) /\ Lsr(R, value) = Ror(clear, value)
    BY <1>1, Before, ShiftsRotate DEF InputsOK
  <2> QED
    BY <2>3, <2>4, <2>5, Zenon DEF Rotations, round, start
<1> QED
  BY <1>1, InputsInvariant, PTL
=============================================================================
