----------------------------- MODULE Arithmetic -----------------------------
(***************************************************************************)
(* The arithmetic of module Alu against the arithmetic of numbers: every   *)
(* accumulator, operand, carry and decimal flag, and chains of operations  *)
(* as a program uses them for numbers wider than a byte.                   *)
(***************************************************************************)
EXTENDS Alu

VARIABLES a, value, c, d

inputs == <<a, value, c, d>>

(* The register file before the operation; the rest of it is arbitrary.    *)
R == [a |-> a, x |-> a, y |-> 0, s |-> 0,
      n |-> FALSE, v |-> FALSE, d |-> d, z |-> FALSE, c |-> c]

Init == a \in Byte /\ value = 0 /\ c \in BOOLEAN /\ d \in BOOLEAN

(* The next operand. *)
Next == value < 255 /\ value' = value + 1 /\ UNCHANGED <<a, c, d>>

Spec == Init /\ [][Next]_inputs

-----------------------------------------------------------------------------
Signed(b)  == IF Negative(b) THEN b - 256 ELSE b
IsBcd(b)   == High(b) <= 9 /\ Low(b) <= 9
Decimal(b) == 10 * High(b) + Low(b)

Sum        == AddWithCarry(R, value)
Difference == SubtractWithBorrow(R, value)

(* Binary ADC: sum and carry out are the 9-bit sum, V is signed overflow,   *)
(* N and Z describe the stored byte.                                        *)
AddExact ==
  ~d => /\ Sum.a + 256 * One(Sum.c) = a + value + One(c)
        /\ Sum.v <=> (Signed(a) + Signed(value) + One(c)) \notin -128 .. 127
        /\ Sum.z <=> Sum.a = 0
        /\ Sum.n <=> Signed(Sum.a) < 0

(* SBC: C is "no borrow" and V is signed overflow of the binary difference, *)
(* and N and Z describe it, in decimal mode as well; with the carry set the *)
(* three flags a comparison gives are those of CMP.                         *)
SubtractFlags ==
  LET exact == a - value - One(~c)
      cmp   == Compare(R, a, value)
  IN  /\ Difference.c <=> exact >= 0
      /\ Difference.v <=> (Signed(a) - Signed(value) - One(~c)) \notin -128 .. 127
      /\ Difference.z <=> U8(exact) = 0
      /\ Difference.n <=> U8(exact) >= 128
      /\ ~d => Difference.a = U8(exact)
      /\ c => <<cmp.c, cmp.z, cmp.n>> = <<Difference.c, Difference.z, Difference.n>>

(* Decimal mode computes with decimal numbers: on valid operands the digits *)
(* and the carry are those of the decimal sum and of the decimal difference.*)
DecimalExact ==
  d /\ IsBcd(a) /\ IsBcd(value) =>
    /\ IsBcd(Sum.a) /\ IsBcd(Difference.a)
    /\ Decimal(Sum.a) + 100 * One(Sum.c) = Decimal(a) + Decimal(value) + One(c)
    /\ Decimal(Difference.a) - 100 * One(~Difference.c)
         = Decimal(a) - Decimal(value) - One(~c)

(* Decimal ADC on any operands, digits above 9 included, is the adder the   *)
(* comment above addWithCarry describes: one correction of the whole sum    *)
(* for the low digit, N and V, one for the high digit.  V is the signed     *)
(* overflow of the sum between the two corrections.                         *)
DecimalAdder ==
  LET al     == Low(a) + Low(value) + One(c)
      ones   == IF al >= 10 THEN 16 + Low(al + 6) ELSE al
      half   == 16 * High(a) + 16 * High(value) + ones
      full   == IF half >= 160 THEN half + 96 ELSE half
      signed == Signed(16 * High(a)) + Signed(16 * High(value)) + ones
  IN  d => /\ Sum.a = U8(full) /\ Sum.c = (full >= 256)
           /\ Sum.n = (U8(half) >= 128)
           /\ Sum.v = (signed \notin -128 .. 127)
           /\ Sum.z = (U8(a + value + One(c)) = 0)

(* ARR in both modes is a ROR of A AND value whose N and Z describe the     *)
(* rotated byte and whose V is that of A AND value added to itself.  In     *)
(* binary mode C is the carry of that sum; in decimal mode it is the carry  *)
(* of its high digit, 5 or more, and a digit that carries skips six.        *)
ArrDoubles ==
  LET masked  == And(a, value)
      rotated == Ror(R, masked)[2]
      twice   == AddWithCarry([R EXCEPT !.a = masked, !.c = FALSE, !.d = FALSE], masked)
      arr     == ReadOp("ARR", R, value)
      Skipped(digit, doubled) == Low(IF doubled >= 5 THEN digit + 6 ELSE digit)
  IN  /\ arr.n = (rotated >= 128) /\ arr.z = (rotated = 0) /\ arr.v = twice.v
      /\ ~d => arr.a = rotated /\ arr.c = twice.c
      /\ d => /\ arr.a = 16 * Skipped(High(rotated), High(masked))
                           + Skipped(Low(rotated), Low(masked))
              /\ arr.c = (High(masked) >= 5)

(* A rotation through carry and back, and nine in one direction, restore    *)
(* the byte and the carry; a shift is the rotation of a clear carry.        *)
(* (A is not read: one value of it is enough.)                              *)
Rotations ==
  a = 0 =>
    LET round[k \in 0 .. 9] ==
          IF k = 0 THEN <<R, value>> ELSE Rol(round[k - 1][1], round[k - 1][2])
        back  == Ror(round[1][1], round[1][2])
        clear == [R EXCEPT !.c = FALSE]
    IN  /\ back[2] = value /\ back[1].c = c
        /\ round[9][2] = value /\ round[9][1].c = c
        /\ Asl(R, value) = Rol(clear, value) /\ Lsr(R, value) = Ror(clear, value)
=============================================================================
