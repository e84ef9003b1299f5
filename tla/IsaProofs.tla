------------------------------ MODULE IsaProofs -------------------------------
(***************************************************************************)
(* The cycle-by-cycle core implements the instruction-level reference, and *)
(* an instruction shows on the bus what BusCycles says: how many cycles it *)
(* takes, which addresses they touch, what is written and when.            *)
(***************************************************************************)
EXTENDS BusCycles, CpuProofs

-----------------------------------------------------------------------------
(* Module Isa has its own copies of the operators of Alu, InstructionTable *)
(* and Memory; they are the same ones.                                     *)
LEMMA SameMemory ==
  ASSUME NEW m, NEW k, NEW l, NEW b
  PROVE  /\ Reference!At(m, k) = At(m, k) /\ Reference!Put(m, k, b) = Put(m, k, b)
         /\ Reference!U16(k) = U16(k) /\ Reference!Page(k) = Page(k)
         /\ Reference!WordOf(k, l) = WordOf(k, l) /\ Reference!StackAddr(k) = StackAddr(k)
         /\ Reference!CrossesPage(k, l) = CrossesPage(k, l)
         /\ Reference!NmiVector = NmiVector /\ Reference!ResetVector = ResetVector
         /\ Reference!IrqVector = IrqVector
<1>1. Reference!At(m, k) = At(m, k)
  BY Zenon DEF Reference!At, At
<1>2. Reference!Put(m, k, b) = Put(m, k, b)
  BY Zenon DEF Reference!Put, Put
<1>3. /\ Reference!U16(k) = U16(k) /\ Reference!Page(k) = Page(k)
      /\ Reference!WordOf(k, l) = WordOf(k, l) /\ Reference!StackAddr(k) = StackAddr(k)
  BY DEF Reference!U16, U16, Reference!Page, Page, Reference!WordOf, WordOf,
         Reference!StackAddr, StackAddr
<1>4. Reference!CrossesPage(k, l) = CrossesPage(k, l)
  BY Zenon DEF Reference!CrossesPage, CrossesPage, Reference!Page, Page
<1>5. /\ Reference!NmiVector = NmiVector /\ Reference!ResetVector = ResetVector
      /\ Reference!IrqVector = IrqVector
  BY DEF Reference!NmiVector, NmiVector, Reference!ResetVector, ResetVector,
         Reference!IrqVector, IrqVector
<1> QED
  BY <1>1, <1>2, <1>3, <1>4, <1>5

LEMMA SameTable ==
  ASSUME NEW code
  PROVE  /\ Reference!OpOf(code) = OpOf(code) /\ Reference!ModeOf(code) = ModeOf(code)
         /\ Reference!ShapeOf(code) = ShapeOf(code)
         /\ Reference!InstructionLength(code) = InstructionLength(code)
<1>1. Reference!LowerColumns = LowerColumns
  BY Zenon DEF Reference!LowerColumns, LowerColumns
<1>2. Reference!UpperColumns = UpperColumns
  BY Zenon DEF Reference!UpperColumns, UpperColumns
<1>3. Reference!Column(code) = Column(code)
  BY <1>1, <1>2, Zenon DEF Reference!Column, Column
<1>4. Reference!OpOf(code) = OpOf(code)
  BY <1>3, Zenon DEF Reference!OpOf, OpOf
<1>5. Reference!ModeOf(code) = ModeOf(code)
  BY <1>3, Zenon DEF Reference!ModeOf, ModeOf
<1>6. Reference!ShapeOf(code) = ShapeOf(code)
  BY <1>4, <1>5, Zenon
     DEF Reference!ShapeOf, ShapeOf, Reference!RmwOps, RmwOps, Reference!WriteOps, WriteOps,
         Reference!UnstableOps, UnstableOps, Reference!BranchOps, BranchOps,
         Reference!SpecialOps, SpecialOps
<1>7. Reference!InstructionLength(code) = InstructionLength(code)
  BY <1>5, Zenon
     DEF Reference!InstructionLength, InstructionLength, Reference!OperandBytes, OperandBytes
<1> QED
  BY <1>4, <1>5, <1>6, <1>7

LEMMA SameBits ==
  ASSUME NEW b, NEW m
  PROVE  /\ Reference!U8(b) = U8(b) /\ Reference!Negative(b) = Negative(b)
         /\ Reference!And(b, m) = And(b, m) /\ Reference!Bit(b, m) = Bit(b, m)
         /\ Reference!One(b) = One(b) /\ Reference!Low(b) = Low(b) /\ Reference!High(b) = High(b)
<1>1. /\ Reference!U8(b) = U8(b) /\ Reference!Negative(b) = Negative(b)
      /\ Reference!One(b) = One(b) /\ Reference!Low(b) = Low(b) /\ Reference!High(b) = High(b)
  BY DEF Reference!U8, U8, Reference!Negative, Negative, Reference!One, One, Reference!Low, Low,
         Reference!High, High
<1>2. ASSUME NEW p, NEW w PROVE Reference!Bit(p, w) = Bit(p, w)
  BY DEF Reference!Bit, Bit
<1>3. ASSUME NEW p, NEW q, NEW w PROVE Reference!Both(p, q, w) = Both(p, q, w)
  BY <1>2, Zenon DEF Reference!Both, Both
<1>4. Reference!And(b, m) = And(b, m)
  BY <1>3 DEF Reference!And, And
<1> QED
  BY <1>1, <1>2, <1>4

LEMMA SameLoads ==
  ASSUME NEW r, NEW v
  PROVE  /\ Reference!SetZN(r, v) = SetZN(r, v) /\ Reference!LoadA(r, v) = LoadA(r, v)
         /\ Reference!LoadX(r, v) = LoadX(r, v) /\ Reference!LoadY(r, v) = LoadY(r, v)
         /\ Reference!LoadAX(r, v) = LoadAX(r, v)
<1>1. ASSUME NEW q PROVE Reference!SetZN(q, v) = SetZN(q, v)
  BY Zenon DEF Reference!SetZN, SetZN, Reference!Negative, Negative
<1>2. Reference!LoadA(r, v) = LoadA(r, v)
  BY <1>1, Zenon DEF Reference!LoadA, LoadA
<1>3. Reference!LoadX(r, v) = LoadX(r, v)
  BY <1>1, Zenon DEF Reference!LoadX, LoadX
<1>4. Reference!LoadY(r, v) = LoadY(r, v)
  BY <1>1, Zenon DEF Reference!LoadY, LoadY
<1>5. Reference!LoadAX(r, v) = LoadAX(r, v)
  BY <1>1, Zenon DEF Reference!LoadAX, LoadAX
<1> QED
  BY <1>1, <1>2, <1>3, <1>4, <1>5

LEMMA SameStatus ==
  ASSUME NEW r, NEW i, NEW b, NEW v
  PROVE  /\ Reference!Pack(r, i, b) = Pack(r, i, b) /\ Reference!Unpack(r, v) = Unpack(r, v)
         /\ Reference!UnpackI(v) = UnpackI(v)
<1>1. Reference!Pack(r, i, b) = Pack(r, i, b)
  <2>1. ASSUME NEW f PROVE Reference!One(f) = One(f)
    BY DEF Reference!One, One
  <2> QED
    BY <2>1, Zenon DEF Reference!Pack, Pack
<1>2. Reference!Unpack(r, v) = Unpack(r, v)
  BY Zenon DEF Reference!Unpack, Unpack, Reference!Bit, Bit
<1>3. Reference!UnpackI(v) = UnpackI(v)
  BY Zenon DEF Reference!UnpackI, UnpackI, Reference!Bit, Bit
<1> QED
  BY <1>1, <1>2, <1>3

LEMMA SameLogic ==
  ASSUME NEW b, NEW m
  PROVE  Reference!Or(b, m) = Or(b, m) /\ Reference!Xor(b, m) = Xor(b, m)
<1>1. ASSUME NEW p, NEW q PROVE Reference!And(p, q) = And(p, q)
  BY SameBits
<1>2. ASSUME NEW p, NEW q PROVE Reference!Or(p, q) = Or(p, q)
  BY <1>1 DEF Reference!Or, Or
<1> QED
  BY <1>1, <1>2 DEF Reference!Xor, Xor

LEMMA SameSums ==
  ASSUME NEW r, NEW v
  PROVE  /\ Reference!AddWithCarry(r, v) = AddWithCarry(r, v)
         /\ Reference!SubtractWithBorrow(r, v) = SubtractWithBorrow(r, v)
         /\ Reference!Arr(r, v) = Arr(r, v)
<1>1. ASSUME NEW b PROVE Reference!AddBinary(r, b) = AddBinary(r, b)
  BY Zenon DEF Reference!AddBinary, AddBinary, Reference!SetZN, SetZN, Reference!Overflows, Overflows,
               Reference!Negative, Negative, Reference!U8, U8, Reference!One, One
<1>2. Reference!AddDecimal(r, v) = AddDecimal(r, v)
  BY Zenon DEF Reference!AddDecimal, AddDecimal, Reference!Low, Low, Reference!High, High,
               Reference!TooLarge, TooLarge, Reference!SignDigit, SignDigit,
               Reference!Overflows, Overflows, Reference!Negative, Negative, Reference!U8, U8,
               Reference!One, One
<1>3. Reference!SubtractDecimal(r, v) = SubtractDecimal(r, v)
  BY Zenon DEF Reference!SubtractDecimal, SubtractDecimal, Reference!Low, Low, Reference!High, High,
               Reference!Bit, Bit, Reference!One, One
<1>4. Reference!InDecimal(r) <=> InDecimal(r)
  BY Zenon DEF Reference!InDecimal, InDecimal
<1>5. Reference!AddWithCarry(r, v) = AddWithCarry(r, v)
  BY <1>1, <1>2, <1>4 DEF Reference!AddWithCarry, AddWithCarry
<1>6. Reference!SubtractWithBorrow(r, v) = SubtractWithBorrow(r, v)
  <2> DEFINE binary == AddBinary(r, 255 - v)
  <2>1. Reference!AddBinary(r, 255 - v) = binary
    BY <1>1
  <2> HIDE DEF binary
  <2>2. Reference!SubtractWithBorrow(r, v)
          = IF InDecimal(r) THEN [binary EXCEPT !.a = SubtractDecimal(r, v)] ELSE binary
    BY <1>3, <1>4, <2>1, Zenon DEF Reference!SubtractWithBorrow
  <2> QED
    BY <2>2, Zenon DEF SubtractWithBorrow, binary
<1>7. Reference!Arr(r, v) = Arr(r, v)
  BY Zenon
     DEF Reference!Arr, Arr, Reference!SetZN, SetZN, Reference!Negative, Negative, Reference!Bit, Bit,
         Reference!U8, U8, Reference!One, One, Reference!Low, Low, Reference!High, High,
         Reference!ArrCarry, ArrCarry, Reference!InDecimal, InDecimal, Reference!And, And,
         Reference!Both, Both
<1> QED
  BY <1>5, <1>6, <1>7

LEMMA SameOperations ==
  ASSUME NEW op, NEW r, NEW v
  PROVE  /\ Reference!ReadOp(op, r, v) = ReadOp(op, r, v)
         /\ Reference!RmwOp(op, r, v) = RmwOp(op, r, v)
         /\ Reference!ImpliedOp(op, r) = ImpliedOp(op, r)
         /\ Reference!StoreOp(op, r) = StoreOp(op, r)
         /\ Reference!Taken(op, r) = Taken(op, r)
<1>1. Reference!ImpliedOp(op, r) = ImpliedOp(op, r)
  BY Zenon DEF Reference!ImpliedOp, ImpliedOp, Reference!LoadA, LoadA, Reference!LoadX, LoadX,
               Reference!LoadY, LoadY, Reference!SetZN, SetZN, Reference!Negative, Negative,
               Reference!U8, U8
<1>2. Reference!StoreOp(op, r) = StoreOp(op, r)
  BY Zenon DEF Reference!StoreOp, StoreOp, Reference!And, And, Reference!Both, Both, Reference!Bit, Bit
<1>3. Reference!Taken(op, r) = Taken(op, r)
  BY Zenon DEF Reference!Taken, Taken
<1>4. ASSUME NEW o, NEW q, NEW b
      PROVE  Reference!ReadOp(o, q, b) = ReadOp(o, q, b)
  <2>1. ASSUME NEW x, NEW y
        PROVE  /\ Reference!And(x, y) = And(x, y) /\ Reference!Or(x, y) = Or(x, y)
               /\ Reference!Xor(x, y) = Xor(x, y)
    BY SameBits, SameLogic
  <2>2. ASSUME NEW x
        PROVE  /\ Reference!LoadA(q, x) = LoadA(q, x) /\ Reference!LoadX(q, x) = LoadX(q, x)
               /\ Reference!LoadY(q, x) = LoadY(q, x) /\ Reference!LoadAX(q, x) = LoadAX(q, x)
               /\ Reference!Negative(x) = Negative(x) /\ Reference!U8(x) = U8(x)
               /\ Reference!Bit(x, 64) = Bit(x, 64)
    BY SameLoads, SameBits
  <2>3. ASSUME NEW x PROVE Reference!Compare(q, x, b) = Compare(q, x, b)
    BY Zenon DEF Reference!Compare, Compare, Reference!SetZN, SetZN, Reference!Negative, Negative,
                 Reference!U8, U8
  <2>4. /\ Reference!AddWithCarry(q, b) = AddWithCarry(q, b)
        /\ Reference!SubtractWithBorrow(q, b) = SubtractWithBorrow(q, b)
        /\ Reference!Arr(q, b) = Arr(q, b)
    BY SameSums
  <2>5. CASE o \in {"LDA", "LDX", "LDY", "ORA", "AND", "EOR", "LAX"}
    BY <2>1, <2>2, <2>5 DEF Reference!ReadOp, ReadOp
  <2>6. CASE o \in {"ADC", "SBC", "ARR", "CMP", "CPX", "CPY"}
    BY <2>3, <2>4, <2>6 DEF Reference!ReadOp, ReadOp
  <2>7. CASE o = "BIT"
    <3>1. ReadOp("BIT", q, b) = [q EXCEPT !.z = (And(q.a, b) = 0), !.n = Negative(b), !.v = Bit(b, 64)]
      BY DEF ReadOp
    <3>2. Reference!ReadOp("BIT", q, b)
            = [q EXCEPT !.z = (Reference!And(q.a, b) = 0), !.n = Reference!Negative(b),
                        !.v = Reference!Bit(b, 64)]
      BY DEF Reference!ReadOp
    <3> QED
      BY <2>7, <3>1, <3>2, Zenon
         DEF Reference!And, And, Reference!Both, Both, Reference!Bit, Bit, Reference!Negative, Negative
  <2>8. CASE o \in {"ANC", "ALR"}
    BY <2>1, <2>2, <2>8 DEF Reference!ReadOp, ReadOp
  <2>9. CASE o \in {"SBX", "LAS"}
    BY <2>1, <2>2, <2>9 DEF Reference!ReadOp, ReadOp
  <2>10. CASE o \in {"ANE", "LXA"}
    BY <2>1, <2>2, <2>10 DEF Reference!ReadOp, ReadOp
  <2>11. CASE o \notin {"LDA", "LDX", "LDY", "ORA", "AND", "EOR", "LAX", "ADC", "SBC", "ARR", "CMP",
                        "CPX", "CPY", "BIT", "ANC", "ALR", "SBX", "LAS", "ANE", "LXA"}
    BY <2>11 DEF Reference!ReadOp, ReadOp
  <2> QED
    BY <2>5, <2>6, <2>7, <2>8, <2>9, <2>10, <2>11
<1>5. Reference!RmwOp(op, r, v) = RmwOp(op, r, v)
  BY <1>4, SameSums, ZenonT(40)
     DEF Reference!RmwOp, RmwOp, Reference!Asl, Asl, Reference!Lsr, Lsr, Reference!Rol, Rol,
         Reference!Ror, Ror, Reference!Shift, Shift, Reference!RolCarryIn, RolCarryIn,
         Reference!SetZN, SetZN, Reference!Negative, Negative, Reference!U8, U8,
         Reference!One, One, Reference!Compare, Compare
<1> QED
  BY <1>1, <1>2, <1>3, <1>4, <1>5

-----------------------------------------------------------------------------
(* The instruction at the pc of a machine, its operand and its address.    *)
CodeAt(m, k)    == At(m.mem, U16(m.pc + k))
WordIn(m, p)    == WordOf(At(m.mem, p), At(m.mem, U8(p + 1)))
OperandWord(m)  == WordOf(CodeAt(m, 1), CodeAt(m, 2))
PointerOf(m, mode) == IF mode = "IndirectX" THEN U8(CodeAt(m, 1) + m.regs.x) ELSE CodeAt(m, 1)

BaseOf(m, mode) ==
  CASE mode \in {"Absolute", "AbsoluteX", "AbsoluteY", "Indirect"} -> OperandWord(m)
    [] mode = "IndirectY" -> WordIn(m, CodeAt(m, 1))
    [] OTHER              -> 0

AddrOf(m, mode) ==
  CASE mode = "Immediate" -> U16(m.pc + 1)
    [] mode = "ZeroPage"  -> CodeAt(m, 1)
    [] mode = "ZeroPageX" -> U8(CodeAt(m, 1) + m.regs.x)
    [] mode = "ZeroPageY" -> U8(CodeAt(m, 1) + m.regs.y)
    [] mode = "AbsoluteX" -> U16(BaseOf(m, mode) + m.regs.x)
    [] mode \in {"AbsoluteY", "IndirectY"} -> U16(BaseOf(m, mode) + m.regs.y)
    [] mode = "IndirectX" -> WordIn(m, U8(CodeAt(m, 1) + m.regs.x))
    [] OTHER              -> BaseOf(m, mode)

TargetOf(m) ==
  U16(m.pc + 2 + (IF Negative(CodeAt(m, 1)) THEN CodeAt(m, 1) - 256 ELSE CodeAt(m, 1)))

(* Registers and memory after pushes and pulls. *)
Shifted(r, n)       == [r EXCEPT !.s = U8(@ + n)]
Saved(m, s, value)  == Put(m, StackAddr(s), value)
SavedWord(m, s, w)  == Saved(Saved(m, s, Page(w)), U8(s - 1), U8(w))
Popped(m, k)        == At(m.mem, StackAddr(U8(m.regs.s + k)))
EntryMemory(m, back, isBreak) ==
  Saved(SavedWord(m.mem, m.regs.s, back), U8(m.regs.s - 2), Pack(m.regs, m.i, isBreak))
EntryRegisters(m) == [Shifted(m.regs, -3) EXCEPT !.d = @ /\ ~Variant.clearDecimalOnInterrupt]

-----------------------------------------------------------------------------
(* The machine compared with the one at the start of the call, "before".    *)
SameRegs  == regs = before.regs /\ regI = before.i
SameJam   == jammed = before.jammed
Untouched == SameRegs /\ SameJam /\ mem = before.mem
Ahead(k)  == U16(before.pc + k)

(* The entries and BRK, from their first push on. *)
Back == IF unit = "BRK" THEN Ahead(2) ELSE before.pc

EntryCourse ==
  LET s    == before.regs.s
      done == EntryMemory(before, Back, unit = "BRK")
  IN  /\ SameJam
      /\ \/ /\ todo = <<"PushHigh", "PushLow", "PushFlags", "VectorLow", "VectorHigh">>
            /\ pc = Back /\ SameRegs /\ mem = before.mem
         \/ /\ todo = <<"PushLow", "PushFlags", "VectorLow", "VectorHigh">>
            /\ pc = Back /\ regs = Shifted(before.regs, -1) /\ regI = before.i
            /\ mem = Saved(before.mem, s, Page(Back))
         \/ /\ todo = <<"PushFlags", "VectorLow", "VectorHigh">>
            /\ pc = Back /\ regs = Shifted(before.regs, -2) /\ regI = before.i
            /\ mem = SavedWord(before.mem, s, Back)
         \/ /\ todo = <<"VectorLow", "VectorHigh">>
            /\ regs = EntryRegisters(before) /\ regI = TRUE /\ mem = done
         \/ /\ todo = <<"VectorHigh">>
            /\ regs = EntryRegisters(before) /\ regI = TRUE /\ mem = done
            /\ t.lo = At(mem, Vector)
         \/ /\ todo = <<>>
            /\ regs = EntryRegisters(before) /\ regI = TRUE /\ mem = done
            /\ pc = WordOf(At(mem, Vector), At(mem, Vector + 1))

(* An interrupt entry: two discarded reads, then the pushes and the vector. *)
InterruptCourse ==
  \/ /\ todo \in {EntryCycles, Tail(EntryCycles)}
     /\ Untouched /\ pc = before.pc
  \/ EntryCourse

(* BRK skips a byte, then enters the handler as an interrupt does.          *)
BreakCourse ==
  \/ todo = SpecialCycles("BRK") /\ Untouched /\ pc = Ahead(1)
  \/ EntryCourse

(* Reset: the pushes are reads, the stack pointer moves all the same.       *)
ResetCourse ==
  /\ jammed = FALSE /\ mem = before.mem
  /\ \/ /\ todo \in {ResetCycles, Tail(ResetCycles), Tail(Tail(ResetCycles))}
        /\ SameRegs
     \/ /\ todo = <<"ResetStack", "ResetStack", "VectorLow", "VectorHigh">>
        /\ regs = Shifted(before.regs, -1) /\ regI = before.i
     \/ /\ todo = <<"ResetStack", "VectorLow", "VectorHigh">>
        /\ regs = Shifted(before.regs, -2) /\ regI = before.i
     \/ /\ todo = <<"VectorLow", "VectorHigh">>
        /\ regs = Shifted(before.regs, -3) /\ regI = TRUE
     \/ /\ todo = <<"VectorHigh">>
        /\ regs = Shifted(before.regs, -3) /\ regI = TRUE /\ t.lo = At(mem, ResetVector)
     \/ /\ todo = <<>>
        /\ regs = Shifted(before.regs, -3) /\ regI = TRUE
        /\ pc = WordOf(At(mem, ResetVector), At(mem, ResetVector + 1))

-----------------------------------------------------------------------------
(* JSR, RTS and RTI, cycle by cycle.                                        *)
CallCourse ==
  LET back == Ahead(2)
      done == SavedWord(before.mem, before.regs.s, back)
  IN  /\ SameJam /\ regI = before.i
      /\ \/ todo = SpecialCycles("JSR") /\ Untouched /\ pc = Ahead(1)
         \/ /\ todo \in {<<"PeekStack", "PushHigh", "PushLow", "JumpHigh">>,
                         <<"PushHigh", "PushLow", "JumpHigh">>}
            /\ Untouched /\ pc = back /\ t.lo = CodeAt(before, 1)
         \/ /\ todo = <<"PushLow", "JumpHigh">>
            /\ regs = Shifted(before.regs, -1) /\ mem = Saved(before.mem, before.regs.s, Page(back))
            /\ pc = back /\ t.lo = CodeAt(before, 1)
         \/ /\ todo = <<"JumpHigh">>
            /\ regs = Shifted(before.regs, -2) /\ mem = done
            /\ pc = back /\ t.lo = CodeAt(before, 1)
         \/ /\ todo = <<>>
            /\ regs = Shifted(before.regs, -2) /\ mem = done
            /\ pc = WordOf(CodeAt(before, 1), At(mem, back))

ReturnCourse ==
  LET target == WordOf(Popped(before, 1), Popped(before, 2))
  IN  /\ SameJam /\ regI = before.i /\ mem = before.mem
      /\ \/ /\ todo \in {SpecialCycles("RTS"), <<"PeekStack", "PullLow", "PullHigh", "SkipByte">>,
                         <<"PullLow", "PullHigh", "SkipByte">>}
            /\ Untouched
         \/ /\ todo = <<"PullHigh", "SkipByte">>
            /\ regs = Shifted(before.regs, 1) /\ t.lo = Popped(before, 1)
         \/ /\ todo = <<"SkipByte">>
            /\ regs = Shifted(before.regs, 2) /\ pc = target
         \/ /\ todo = <<>>
            /\ regs = Shifted(before.regs, 2) /\ pc = U16(target + 1)

ReturnFromInterruptCourse ==
  LET flagged(n) == Unpack(Shifted(before.regs, n), Popped(before, 1))
  IN  /\ SameJam /\ mem = before.mem
      /\ \/ /\ todo \in {SpecialCycles("RTI"), <<"PeekStack", "PullFlags", "PullLow", "PullHigh">>,
                         <<"PullFlags", "PullLow", "PullHigh">>}
            /\ Untouched
         \/ /\ todo = <<"PullLow", "PullHigh">>
            /\ regs = flagged(1) /\ regI = UnpackI(Popped(before, 1))
         \/ /\ todo = <<"PullHigh">>
            /\ regs = flagged(2) /\ regI = UnpackI(Popped(before, 1)) /\ t.lo = Popped(before, 2)
         \/ /\ todo = <<>>
            /\ regs = flagged(3) /\ regI = UnpackI(Popped(before, 1))
            /\ pc = WordOf(Popped(before, 2), Popped(before, 3))

(* The jumps, and the sequence that jams the processor.                     *)
JumpCourse ==
  /\ Untouched
  /\ \/ todo = SpecialCycles("JMP_ABS") /\ pc = Ahead(1)
     \/ todo = <<"JumpHigh">> /\ pc = Ahead(2) /\ t.lo = CodeAt(before, 1)
     \/ todo = <<>> /\ pc = OperandWord(before)

IndirectJumpCourse ==
  LET low  == OperandWord(before)
      high == IF Variant.jmpIndirectPageBug THEN WordOf(U8(low + 1), Page(low)) ELSE U16(low + 1)
  IN  /\ Untouched
      /\ \/ todo = SpecialCycles("JMP_IND") /\ pc = Ahead(1)
         \/ todo = Tail(SpecialCycles("JMP_IND")) /\ pc = Ahead(2) /\ t.lo = CodeAt(before, 1)
         \/ todo = Tail(Tail(SpecialCycles("JMP_IND"))) /\ t.addr = low
         \/ /\ todo \in {<<"IdleRead", "IndirectHigh">>, <<"IndirectHigh">>}
            /\ t.addr = low /\ t.lo = At(mem, low)
         \/ todo = <<>> /\ pc = WordOf(At(mem, low), At(mem, high))

JamCourse ==
  /\ SameRegs /\ mem = before.mem /\ pc = Ahead(1)
  /\ todo = <<>> => jammed
  /\ unit = "JAM"
  /\ \A k \in 1 .. Len(todo) : todo[k] \in {"IdleRead", "JamHigh", "JamLow"}

(* The instructions with cycles of their own.                               *)
SpecialCourse ==
  CASE Op = "BRK"     -> BreakCourse
    [] Op = "JSR"     -> CallCourse
    [] Op = "RTS"     -> ReturnCourse
    [] Op = "RTI"     -> ReturnFromInterruptCourse
    [] Op = "JMP_ABS" -> JumpCourse
    [] Op = "JMP_IND" -> IndirectJumpCourse
    [] Op = "JAM"     -> JamCourse

-----------------------------------------------------------------------------
(* Branches, and the instructions without an operand.                       *)
BranchCourse ==
  LET taken  == Taken(Op, before.regs)
      target == TargetOf(before)
  IN  /\ Untouched
      /\ \/ todo = <<"FetchOffset">> /\ pc = Ahead(1)
         \/ todo = <<"BranchTaken">> /\ taken /\ pc = Ahead(2) /\ t.addr = target
         \/ todo = <<"BranchFixup">> /\ taken /\ pc = Ahead(2) /\ t.addr = target
         \/ todo = <<>> /\ pc = (IF taken THEN target ELSE Ahead(2))

AccumCourse ==
  LET result == RmwOp(Op, before.regs, before.regs.a)
  IN  /\ SameJam /\ regI = before.i /\ mem = before.mem /\ pc = Ahead(1)
      /\ \/ todo = <<"AccumRead">> /\ regs = before.regs
         \/ todo = <<>> /\ regs = [result[1] EXCEPT !.a = result[2]]

PushCourse ==
  /\ SameJam /\ regI = before.i /\ pc = Ahead(1)
  /\ \/ todo \in {ImpliedCycles(Op), Tail(ImpliedCycles(Op))} /\ Untouched
     \/ /\ todo = <<>> /\ regs = Shifted(before.regs, -1)
        /\ mem = Saved(before.mem, before.regs.s,
                       IF Op = "PHA" THEN before.regs.a ELSE Pack(before.regs, before.i, TRUE))

PullCourse ==
  LET value == Popped(before, 1)
      up    == Shifted(before.regs, 1)
  IN  /\ SameJam /\ mem = before.mem /\ pc = Ahead(1)
      /\ \/ /\ todo \in {ImpliedCycles(Op), Tail(ImpliedCycles(Op)), Tail(Tail(ImpliedCycles(Op)))}
            /\ Untouched
         \/ /\ todo = <<>>
            /\ \/ Op = "PLA" /\ regs = LoadA(up, value) /\ regI = before.i
               \/ Op = "PLP" /\ regs = Unpack(up, value) /\ regI = UnpackI(value)

PlainCourse ==
  /\ SameJam /\ mem = before.mem /\ pc = Ahead(1)
  /\ \/ todo = <<"ImpliedRead">> /\ Untouched
     \/ todo = <<>> /\ regs = ImpliedOp(Op, before.regs) /\ regI = ImpliedI(Op, before.i)

ImpliedCourse ==
  CASE Op \in {"PHA", "PHP"} -> PushCourse
    [] Op \in {"PLA", "PLP"} -> PullCourse
    [] OTHER                 -> PlainCourse

-----------------------------------------------------------------------------
(* The instructions with an operand: the cycles that follow its address,   *)
(* the address once it is known, and the way there, mode by mode.           *)
OperandCycles(shape) ==
  CASE shape = "Read"          -> <<"ReadOperand">>
    [] shape = "Write"         -> <<"WriteOperand">>
    [] shape = "UnstableStore" -> <<"WriteUnstable">>
    [] shape = "Rmw"           -> <<"RmwRead", "RmwDummy", "RmwWrite">>

Rest      == OperandCycles(ShapeOf(opcode))
Behind    == Ahead(InstructionLength(opcode))
Addressed ==
  IF Mode = "Immediate" THEN pc = Ahead(1)
  ELSE pc = Behind /\ t.addr = AddrOf(before, Mode) /\ (Indexed => t.base = BaseOf(before, Mode))

AddressCourse ==
  /\ Untouched
  /\ \/ Mode # "Immediate" /\ todo = ModeCycles(Mode) \o Rest /\ pc = Ahead(1)
     \/ /\ Mode \in {"Absolute", "AbsoluteX", "AbsoluteY"}
        /\ todo = <<"FetchHigh">> \o Rest /\ pc = Ahead(2) /\ t.lo = CodeAt(before, 1)
     \/ /\ Mode \in {"ZeroPageX", "ZeroPageY"}
        /\ todo = <<"IndexZeroPage">> \o Rest /\ pc = Ahead(2) /\ t.addr = CodeAt(before, 1)
     \/ /\ Mode = "IndirectX" /\ todo = <<"IndexZeroPage", "PointerLow", "PointerHigh">> \o Rest
        /\ pc = Ahead(2) /\ t.addr = CodeAt(before, 1)
     \/ /\ Mode \in {"IndirectX", "IndirectY"}
        /\ todo = <<"PointerLow", "PointerHigh">> \o Rest
        /\ pc = Ahead(2) /\ t.addr = PointerOf(before, Mode)
     \/ /\ Mode \in {"IndirectX", "IndirectY"} /\ todo = <<"PointerHigh">> \o Rest
        /\ pc = Ahead(2) /\ t.addr = PointerOf(before, Mode) /\ t.lo = At(mem, t.addr)
     \/ todo \in {Rest, <<"Unfixed">> \o Rest} /\ Addressed

(* What the four kinds of access leave behind.                              *)
ReadDone ==
  /\ regs = ReadOp(Op, before.regs, At(before.mem, AddrOf(before, Mode)))
  /\ mem = before.mem

WriteDone ==
  /\ regs = before.regs
  /\ mem = Put(before.mem, AddrOf(before, Mode), StoreOp(Op, before.regs))

UnstableDone ==
  LET source == StoreOp(Op, before.regs)
      base   == BaseOf(before, Mode)
      addr   == AddrOf(before, Mode)
      value  == And(source, U8(Page(base) + 1))
  IN  /\ regs = (IF Op = "TAS" THEN [before.regs EXCEPT !.s = source] ELSE before.regs)
      /\ mem = Put(before.mem, IF CrossesPage(base, addr) THEN WordOf(U8(addr), value) ELSE addr,
                   value)

RmwDone ==
  LET addr   == AddrOf(before, Mode)
      result == RmwOp(Op, before.regs, At(before.mem, addr))
  IN  regs = result[1] /\ mem = Put(before.mem, addr, result[2])

(* Between the read and the last write of a read-modify-write.              *)
RmwCourse ==
  LET addr == AddrOf(before, Mode)
      old  == At(before.mem, addr)
  IN  /\ ShapeOf(opcode) = "Rmw" /\ SameRegs /\ Addressed /\ t.value = old
      /\ \/ todo = <<"RmwDummy", "RmwWrite">> /\ mem = before.mem
         \/ todo = <<"RmwWrite">> /\ mem \in {before.mem, Put(before.mem, addr, old)}

OperandCourse ==
  /\ SameJam /\ regI = before.i
  /\ \/ AddressCourse
     \/ RmwCourse
     \/ /\ todo = <<>> /\ pc = Behind
        /\ CASE ShapeOf(opcode) = "Read"          -> ReadDone
             [] ShapeOf(opcode) = "Write"         -> WriteDone
             [] ShapeOf(opcode) = "UnstableStore" -> UnstableDone
             [] ShapeOf(opcode) = "Rmw"           -> RmwDone

-----------------------------------------------------------------------------
(* An instruction is on course in its own family.                           *)
InstructionCourse ==
  /\ before.jammed = FALSE /\ opcode = CodeAt(before, 0) /\ unit = UnitOf(opcode)
  /\ CASE ShapeOf(opcode) = "Special" -> SpecialCourse
       [] ShapeOf(opcode) = "Branch"  -> BranchCourse
       [] ShapeOf(opcode) = "Accum"   -> AccumCourse
       [] ShapeOf(opcode) = "Implied" -> ImpliedCourse
       [] OTHER                       -> OperandCourse

(* The invariant: at every point of a call the registers, the memory and    *)
(* the locals are what the cycles still to do say of the machine at the    *)
(* start of the call.                                                      *)
BeforeOK ==
  /\ before.regs \in Registers /\ before.pc \in Word /\ before.i \in BOOLEAN
  /\ before.jammed \in BOOLEAN
  /\ DOMAIN before.mem \subseteq Word /\ \A addr \in DOMAIN before.mem : before.mem[addr] \in Byte

OnCourse ==
  /\ BeforeOK
  /\ unit = "fetch" => ~jammed /\ Now = before
  /\ unit = "jammed" => Now = before /\ jammed
  /\ unit \in Entries => before.jammed = FALSE /\ InterruptCourse
  /\ unit = "reset" => ResetCourse
  /\ unit \in Instructions => InstructionCourse

-----------------------------------------------------------------------------
(* Lists of cycles, and the action that performs the head of one. *)
LEMMA Lists ==
  ASSUME NEW a, NEW b, NEW c, NEW d, NEW e, NEW f
  PROVE  /\ <<a>> # <<>> /\ Head(<<a>>) = a /\ Tail(<<a>>) = <<>>
         /\ <<a, b>> # <<>> /\ Head(<<a, b>>) = a /\ Tail(<<a, b>>) = <<b>>
         /\ <<a, b, c>> # <<>> /\ Head(<<a, b, c>>) = a /\ Tail(<<a, b, c>>) = <<b, c>>
         /\ Head(<<a, b, c, d>>) = a /\ Tail(<<a, b, c, d>>) = <<b, c, d>>
         /\ Head(<<a, b, c, d, e>>) = a /\ Tail(<<a, b, c, d, e>>) = <<b, c, d, e>>
         /\ Head(<<a, b, c, d, e, f>>) = a /\ Tail(<<a, b, c, d, e, f>>) = <<b, c, d, e, f>>
OBVIOUS

LEMMA WhichCycle ==
  ASSUME CpuCycle
  PROVE  /\ todo # <<>> /\ unit' = unit /\ opcode' = opcode /\ before' = before
         /\ Kind = "FetchZeroPage" => FetchZeroPage
         /\ Kind = "FetchLow" => FetchLow
         /\ Kind = "FetchHigh" => FetchHigh
         /\ Kind = "IndexZeroPage" => IndexZeroPage
         /\ Kind = "PointerLow" => PointerLow
         /\ Kind = "PointerHigh" => PointerHigh
         /\ Kind = "Unfixed" => Unfixed
         /\ Kind = "ReadOperand" => ReadOperand
         /\ Kind = "WriteOperand" => WriteOperand
         /\ Kind = "WriteUnstable" => WriteUnstable
         /\ Kind = "RmwRead" => RmwRead
         /\ Kind = "RmwDummy" => RmwDummy
         /\ Kind = "RmwWrite" => RmwWrite
         /\ Kind = "AccumRead" => AccumRead
         /\ Kind = "ImpliedRead" => ImpliedRead
         /\ Kind = "FetchOffset" => FetchOffset
         /\ Kind = "BranchTaken" => BranchTaken
         /\ Kind = "BranchFixup" => BranchFixup
         /\ Kind = "SkipByte" => SkipByte
         /\ Kind = "ResetStack" => ResetStack
         /\ Kind = "VectorLow" => VectorLow
         /\ Kind = "VectorHigh" => VectorHigh
         /\ Kind = "JumpHigh" => JumpHigh
         /\ Kind = "IndirectLow" => IndirectLow
         /\ Kind = "IndirectHigh" => IndirectHigh
         /\ Kind \in {"PushA", "PushHigh", "PushLow", "PushFlags"} => Push
         /\ Kind \in {"PullA", "PullFlags", "PullLow", "PullHigh"} => Pull
         /\ Kind \in {"IdleRead", "PeekStack", "JamHigh", "JamLow"} => Discard
<1> DEFINE Frame == todo # <<>> /\ unit' = unit /\ opcode' = opcode /\ before' = before
<1>1. FetchZeroPage => Frame /\ Kind = "FetchZeroPage"
  BY DEF FetchZeroPage, On
<1>2. FetchLow => Frame /\ Kind = "FetchLow"
  BY DEF FetchLow, On
<1>3. FetchHigh => Frame /\ Kind = "FetchHigh"
  BY DEF FetchHigh, On
<1>4. IndexZeroPage => Frame /\ Kind = "IndexZeroPage"
  BY DEF IndexZeroPage, On
<1>5. PointerLow => Frame /\ Kind = "PointerLow"
  BY DEF PointerLow, On
<1>6. PointerHigh => Frame /\ Kind = "PointerHigh"
  BY DEF PointerHigh, On
<1>7. Unfixed => Frame /\ Kind = "Unfixed"
  BY DEF Unfixed, On
<1>8. ReadOperand => Frame /\ Kind = "ReadOperand"
  BY DEF ReadOperand, On
<1>9. WriteOperand => Frame /\ Kind = "WriteOperand"
  BY DEF WriteOperand, On
<1>10. WriteUnstable => Frame /\ Kind = "WriteUnstable"
  BY DEF WriteUnstable, On
<1>11. RmwRead => Frame /\ Kind = "RmwRead"
  BY DEF RmwRead, On
<1>12. RmwDummy => Frame /\ Kind = "RmwDummy"
  BY DEF RmwDummy, On
<1>13. RmwWrite => Frame /\ Kind = "RmwWrite"
  BY DEF RmwWrite, On
<1>14. AccumRead => Frame /\ Kind = "AccumRead"
  BY DEF AccumRead, On
<1>15. ImpliedRead => Frame /\ Kind = "ImpliedRead"
  BY DEF ImpliedRead, On
<1>16. FetchOffset => Frame /\ Kind = "FetchOffset"
  BY DEF FetchOffset, On
<1>17. BranchTaken => Frame /\ Kind = "BranchTaken"
  BY DEF BranchTaken, On
<1>18. BranchFixup => Frame /\ Kind = "BranchFixup"
  BY DEF BranchFixup, On
<1>19. SkipByte => Frame /\ Kind = "SkipByte"
  BY DEF SkipByte, On
<1>20. ResetStack => Frame /\ Kind = "ResetStack"
  BY DEF ResetStack, On
<1>21. VectorLow => Frame /\ Kind = "VectorLow"
  BY DEF VectorLow, On
<1>22. VectorHigh => Frame /\ Kind = "VectorHigh"
  BY DEF VectorHigh, On
<1>23. JumpHigh => Frame /\ Kind = "JumpHigh"
  BY DEF JumpHigh, On
<1>24. IndirectLow => Frame /\ Kind = "IndirectLow"
  BY DEF IndirectLow, On
<1>25. IndirectHigh => Frame /\ Kind = "IndirectHigh"
  BY DEF IndirectHigh, On
<1>26. Push => Frame /\ Kind \in {"PushA", "PushHigh", "PushLow", "PushFlags"}
  BY DEF Push, On
<1>27. Pull => Frame /\ Kind \in {"PullA", "PullFlags", "PullLow", "PullHigh"}
  BY DEF Pull, On
<1>28. Discard => Frame /\ Kind \in {"IdleRead", "PeekStack", "JamHigh", "JamLow"}
  BY DEF Discard, On
<1> HIDE DEF Frame
<1>29. Frame
  BY <1>1, <1>2, <1>3, <1>4, <1>5, <1>6, <1>7, <1>8, <1>9, <1>10, <1>11, <1>12,
     <1>13, <1>14, <1>15, <1>16, <1>17, <1>18, <1>19, <1>20, <1>21, <1>22,
     <1>23, <1>24, <1>25, <1>26, <1>27, <1>28
    DEF CpuCycle
<1> QED
  BY <1>1, <1>2, <1>3, <1>4, <1>5, <1>6, <1>7, <1>8, <1>9, <1>10, <1>11, <1>12,
     <1>13, <1>14, <1>15, <1>16, <1>17, <1>18, <1>19, <1>20, <1>21, <1>22,
     <1>23, <1>24, <1>25, <1>26, <1>27, <1>28, <1>29
    DEF CpuCycle, Frame

(* What a push, a pull and a discarded read do, in terms of the reference. *)
LEMMA ShiftedRegisters ==
  ASSUME NEW r \in Registers, NEW n \in Int
  PROVE  /\ Shifted(r, n) \in Registers
         /\ Shifted(r, n).a = r.a /\ Shifted(r, n).x = r.x /\ Shifted(r, n).y = r.y
         /\ Shifted(r, n).s = U8(r.s + n)
         /\ \A k \in Int : Shifted(Shifted(r, n), k) = Shifted(r, n + k)
<1>1. r.s \in Int /\ r.s + n \in Int
  BY ByteRange DEF Registers
<1>2. U8(r.s + n) \in Byte
  BY <1>1, U8Byte
<1>3. ASSUME NEW k \in Int PROVE U8(U8(r.s + n) + k) = U8(r.s + (n + k))
  BY <1>1 DEF U8
<1> HIDE DEF Byte
<1>4. Shifted(r, n) = [r EXCEPT !.s = U8(r.s + n)]
  BY Zenon DEF Shifted
<1>5. ASSUME NEW k \in Int PROVE Shifted(Shifted(r, n), k) = Shifted(r, n + k)
  <2> DEFINE u == U8(r.s + n)
             v == U8(r.s + (n + k))
  <2>1. [r EXCEPT !.s = u].s = u
    BY DEF Registers
  <2>2. [[r EXCEPT !.s = u] EXCEPT !.s = v] = [r EXCEPT !.s = v]
    BY DEF Registers
  <2>3. Shifted(r, n) = [r EXCEPT !.s = u]
    BY Zenon DEF Shifted
  <2>4. U8(u + k) = v
    BY <1>3
  <2> HIDE DEF u, v
  <2>5. Shifted(Shifted(r, n), k) = [[r EXCEPT !.s = u] EXCEPT !.s = U8([r EXCEPT !.s = u].s + k)]
    BY <2>3, Zenon DEF Shifted
  <2>6. Shifted(r, n + k) = [r EXCEPT !.s = v]
    BY Zenon DEF Shifted, v
  <2> QED
    BY <2>1, <2>2, <2>4, <2>5, <2>6
<1> QED
  BY <1>2, <1>4, <1>5 DEF Registers

LEMMA ShiftedSteps ==
  ASSUME NEW r \in Registers
  PROVE  /\ Shifted(r, -1).s = U8(r.s - 1) /\ Shifted(r, -2).s = U8(r.s - 2)
         /\ Shifted(Shifted(r, -1), -1) = Shifted(r, -2)
         /\ Shifted(Shifted(r, -2), -1) = Shifted(r, -3)
         /\ Shifted(r, 1).s = U8(r.s + 1) /\ Shifted(r, 2).s = U8(r.s + 2)
         /\ Shifted(Shifted(r, 1), 1) = Shifted(r, 2)
         /\ Shifted(Shifted(r, 2), 1) = Shifted(r, 3)
<1> DEFINE plus(n, k) == n + k
<1>1. ASSUME NEW n \in {-1, -2, 1, 2}, NEW k \in {-1, 1}
      PROVE  Shifted(Shifted(r, n), k) = Shifted(r, plus(n, k)) /\ Shifted(r, n).s = U8(r.s + n)
  <2>1. n \in Int /\ k \in Int
    OBVIOUS
  <2> QED
    BY <2>1, ShiftedRegisters, Zenon
<1>2. /\ plus(-1, -1) = -2 /\ plus(-2, -1) = -3 /\ plus(1, 1) = 2 /\ plus(2, 1) = 3
      /\ r.s + (-1) = r.s - 1 /\ r.s + (-2) = r.s - 2
  BY ByteRange DEF Registers
<1> HIDE DEF plus
<1>3. /\ Shifted(Shifted(r, -1), -1) = Shifted(r, -2) /\ Shifted(Shifted(r, -2), -1) = Shifted(r, -3)
      /\ Shifted(r, -1).s = U8(r.s - 1) /\ Shifted(r, -2).s = U8(r.s - 2)
  BY <1>1, <1>2
<1>4. /\ Shifted(Shifted(r, 1), 1) = Shifted(r, 2) /\ Shifted(Shifted(r, 2), 1) = Shifted(r, 3)
      /\ Shifted(r, 1).s = U8(r.s + 1) /\ Shifted(r, 2).s = U8(r.s + 2)
  BY <1>1, <1>2
<1> QED
  BY <1>3, <1>4

LEMMA Pushes ==
  ASSUME CpuTypeOK, Push
  PROVE  /\ mem' = Saved(mem, regs.s, PushedByte)
         /\ Done /\ pc' = pc /\ t' = t /\ jammed' = jammed
         /\ ~MasksInterrupts => regs' = Shifted(regs, -1) /\ regI' = regI
         /\ MasksInterrupts =>
              /\ regs' = [Shifted(regs, -1) EXCEPT !.d = @ /\ ~Variant.clearDecimalOnInterrupt]
              /\ regI' = TRUE
<1>1. /\ mem' = Put(mem, StackAddr(regs.s), PushedByte)
      /\ Done /\ pc' = pc /\ t' = t /\ jammed' = jammed /\ regI' = (regI \/ MasksInterrupts)
      /\ regs' = [regs EXCEPT !.s = U8(regs.s - 1),
                              !.d = regs.d /\ ~(MasksInterrupts /\ Variant.clearDecimalOnInterrupt)]
  BY DEF Push, Writes, Below
<1>2. regs \in Registers /\ regI \in BOOLEAN /\ regs.d \in BOOLEAN
  BY DEF CpuTypeOK, TypeOK, Registers
<1>3. regs.s + (-1) = regs.s - 1
  BY ByteRange, <1>2 DEF Registers
<1> DEFINE s == U8(regs.s - 1)
           clear == Variant.clearDecimalOnInterrupt
<1>4. Shifted(regs, -1) = [regs EXCEPT !.s = s]
  BY <1>3 DEF Shifted
<1> HIDE DEF s, clear
<1>5. ASSUME ~MasksInterrupts PROVE regs' = Shifted(regs, -1) /\ regI' = regI
  <2>1. (regs.d /\ ~(MasksInterrupts /\ clear)) = regs.d
    BY <1>2, <1>5
  <2>2. regs' = [regs EXCEPT !.s = s, !.d = regs.d]
    BY <1>1, <2>1 DEF s, clear
  <2> QED
    BY <1>1, <1>2, <1>4, <1>5, <2>2, ZenonT(40) DEF Registers
<1>6. ASSUME MasksInterrupts
      PROVE  /\ regs' = [Shifted(regs, -1) EXCEPT !.d = @ /\ ~Variant.clearDecimalOnInterrupt]
             /\ regI' = TRUE
  <2> DEFINE d == regs.d /\ ~clear
  <2>1. (regs.d /\ ~(MasksInterrupts /\ clear)) = d
    BY <1>6
  <2>2. regs' = [regs EXCEPT !.s = s, !.d = d]
    BY <1>1, <2>1 DEF s, clear
  <2>3. Shifted(regs, -1).d = regs.d
    BY <1>2, <1>4 DEF Registers
  <2>4. [Shifted(regs, -1) EXCEPT !.d = @ /\ ~clear] = [[regs EXCEPT !.s = s] EXCEPT !.d = d]
    BY <1>4, <2>3
  <2> HIDE DEF d
  <2>5. [[regs EXCEPT !.s = s] EXCEPT !.d = d] = [regs EXCEPT !.s = s, !.d = d]
    BY <1>2 DEF Registers
  <2> QED
    BY <1>1, <1>6, <2>2, <2>4, <2>5 DEF clear
<1> QED
  BY <1>1, <1>5, <1>6 DEF Saved

(* The processor status is the same byte wherever the stack pointer is. *)
LEMMA PackIgnoresStack ==
  ASSUME NEW r \in Registers, NEW n \in Int, NEW i, NEW b
  PROVE  Pack(Shifted(r, n), i, b) = Pack(r, i, b)
<1> DEFINE q == Shifted(r, n)
<1>1. q.n = r.n /\ q.v = r.v /\ q.d = r.d /\ q.z = r.z /\ q.c = r.c
  BY DEF Shifted, Registers
<1> HIDE DEF q
<1>2. Pack(q, i, b) = Pack(r, i, b)
  BY <1>1, Zenon DEF Pack
<1> QED
  BY <1>2 DEF q

LEMMA EntryKeeps ==
  ASSUME CpuTypeOK, BeforeOK, CpuCycle, unit \in Entries \cup {"BRK"}, EntryCourse
  PROVE  EntryCourse'
<1> DEFINE s == before.regs.s
<1>1. /\ todo # <<>> /\ unit' = unit /\ before' = before
      /\ Back' = Back /\ (SameJam <=> jammed = before.jammed)
  BY WhichCycle DEF Back, Ahead, SameJam
<1>2. before.regs \in Registers /\ s \in Int /\ regs \in Registers
  BY ByteRange DEF BeforeOK, Registers, CpuTypeOK
<1>3. /\ Shifted(before.regs, -1).s = U8(s - 1) /\ Shifted(before.regs, -2).s = U8(s - 2)
      /\ Shifted(Shifted(before.regs, -1), -1) = Shifted(before.regs, -2)
      /\ Shifted(Shifted(before.regs, -2), -1) = Shifted(before.regs, -3)
  BY <1>2, ShiftedSteps
<1>4. CASE todo = <<"PushHigh", "PushLow", "PushFlags", "VectorLow", "VectorHigh">>
  <2>1. /\ pc = Back /\ regs = before.regs /\ regI = before.i /\ mem = before.mem
        /\ jammed = before.jammed
    BY <1>4, Lists DEF EntryCourse, SameRegs, SameJam
  <2>2. Kind = "PushHigh" /\ Push
    BY <1>4, Lists, WhichCycle DEF Kind
  <2>3. ~MasksInterrupts /\ PushedByte = Page(pc)
    BY <2>2 DEF MasksInterrupts, PushedByte
  <2>4. /\ todo' = <<"PushLow", "PushFlags", "VectorLow", "VectorHigh">>
        /\ pc' = pc /\ jammed' = jammed /\ regs' = Shifted(regs, -1) /\ regI' = regI
        /\ mem' = Saved(mem, regs.s, Page(pc))
    BY <1>4, <2>2, <2>3, Pushes, Lists DEF Done
  <2> QED
    BY <1>1, <2>1, <2>4 DEF EntryCourse, SameJam
<1>5. CASE todo = <<"PushLow", "PushFlags", "VectorLow", "VectorHigh">>
  <2>1. /\ pc = Back /\ regs = Shifted(before.regs, -1) /\ regI = before.i
        /\ mem = Saved(before.mem, s, Page(Back)) /\ jammed = before.jammed
    BY <1>5, Lists DEF EntryCourse, SameRegs, SameJam
  <2>2. Kind = "PushLow" /\ Push
    BY <1>5, Lists, WhichCycle DEF Kind
  <2>3. ~MasksInterrupts /\ PushedByte = U8(pc)
    BY <2>2 DEF MasksInterrupts, PushedByte
  <2>4. /\ todo' = <<"PushFlags", "VectorLow", "VectorHigh">>
        /\ pc' = pc /\ jammed' = jammed /\ regs' = Shifted(regs, -1) /\ regI' = regI
        /\ mem' = Saved(mem, regs.s, U8(pc))
    BY <1>5, <2>2, <2>3, Pushes, Lists DEF Done
  <2>5. mem' = SavedWord(before.mem, s, Back)
    BY <1>3, <2>1, <2>4 DEF SavedWord
  <2> QED
    BY <1>1, <1>3, <2>1, <2>4, <2>5 DEF EntryCourse, SameJam
<1>6. CASE todo = <<"PushFlags", "VectorLow", "VectorHigh">>
  <2>1. /\ pc = Back /\ regs = Shifted(before.regs, -2) /\ regI = before.i
        /\ mem = SavedWord(before.mem, s, Back) /\ jammed = before.jammed
    BY <1>6, Lists DEF EntryCourse, SameRegs, SameJam
  <2>2. Kind = "PushFlags" /\ Push
    BY <1>6, Lists, WhichCycle DEF Kind
  <2>3. MasksInterrupts /\ PushedByte = Pack(regs, regI, unit = "BRK")
    BY <2>2 DEF MasksInterrupts, PushedByte, BreakFlag, Entries
  <2>4. /\ todo' = <<"VectorLow", "VectorHigh">>
        /\ pc' = pc /\ jammed' = jammed /\ regI' = TRUE
        /\ regs' = [Shifted(regs, -1) EXCEPT !.d = @ /\ ~Variant.clearDecimalOnInterrupt]
        /\ mem' = Saved(mem, regs.s, Pack(regs, regI, unit = "BRK"))
    BY <1>6, <2>2, <2>3, Pushes, Lists DEF Done
  <2>5. regs' = EntryRegisters(before)
    BY <1>3, <2>1, <2>4, Zenon DEF EntryRegisters
  <2>6. mem' = EntryMemory(before, Back, unit = "BRK")
    BY <1>2, <1>3, <2>1, <2>4, PackIgnoresStack DEF EntryMemory
  <2> QED
    BY <1>1, <2>1, <2>4, <2>5, <2>6 DEF EntryCourse, SameJam
<1>7. CASE todo = <<"VectorLow", "VectorHigh">>
  <2>1. /\ regs = EntryRegisters(before) /\ regI = TRUE /\ jammed = before.jammed
        /\ mem = EntryMemory(before, Back, unit = "BRK")
    BY <1>7, Lists DEF EntryCourse, SameJam
  <2>2. VectorLow
    BY <1>7, Lists, WhichCycle DEF Kind
  <2>3. /\ todo' = <<"VectorHigh">> /\ regs' = regs /\ regI' = regI /\ jammed' = jammed
        /\ mem' = mem /\ t'.lo = At(mem, Vector) /\ Vector' = Vector
    BY <1>1, <1>7, <2>2, Lists
       DEF VectorLow, Done, SameState, Reads, Peek, CpuTypeOK, Vector
  <2> QED
    BY <1>1, <2>1, <2>3 DEF EntryCourse, SameJam
<1>8. CASE todo = <<"VectorHigh">>
  <2>1. /\ regs = EntryRegisters(before) /\ regI = TRUE /\ jammed = before.jammed
        /\ mem = EntryMemory(before, Back, unit = "BRK") /\ t.lo = At(mem, Vector)
    BY <1>8, Lists DEF EntryCourse, SameJam
  <2>2. VectorHigh
    BY <1>8, Lists, WhichCycle DEF Kind
  <2>3. /\ todo' = <<>> /\ regs' = regs /\ regI' = regI /\ jammed' = jammed
        /\ mem' = mem /\ pc' = WordOf(t.lo, At(mem, Vector + 1)) /\ Vector' = Vector
    BY <1>1, <1>8, <2>2, Lists
       DEF VectorHigh, Done, SameState, Reads, Peek, Vector
  <2> QED
    BY <1>1, <2>1, <2>3 DEF EntryCourse, SameJam
<1> QED
  BY <1>1, <1>4, <1>5, <1>6, <1>7, <1>8 DEF EntryCourse

LEMMA Discards ==
  ASSUME CpuTypeOK, Discard
  PROVE  /\ Done /\ regs' = regs /\ regI' = regI /\ pc' = pc /\ t' = t /\ mem' = mem
         /\ unit # "JAM" => jammed' = jammed
         /\ unit = "JAM" => jammed' = (jammed \/ Tail(todo) = <<>>)
<1>1. jammed \in BOOLEAN
  BY DEF CpuTypeOK, TypeOK
<1> QED
  BY <1>1 DEF Discard, Reads

LEMMA InterruptKeeps ==
  ASSUME CpuTypeOK, BeforeOK, CpuCycle, unit \in Entries, InterruptCourse
  PROVE  InterruptCourse'
<1>1. unit' = unit /\ before' = before /\ unit # "JAM" /\ unit # "BRK" /\ Back = before.pc
  BY WhichCycle DEF Back, Entries
<1>2. CASE EntryCourse
  BY <1>2, EntryKeeps DEF InterruptCourse
<1>3. CASE todo \in {EntryCycles, Tail(EntryCycles)} /\ Untouched /\ pc = before.pc
  <2> DEFINE two == <<"IdleRead", "PushHigh", "PushLow", "PushFlags", "VectorLow", "VectorHigh">>
             one == <<"PushHigh", "PushLow", "PushFlags", "VectorLow", "VectorHigh">>
  <2>1. /\ Tail(EntryCycles) = two /\ Tail(two) = one /\ Head(EntryCycles) = "IdleRead"
        /\ Head(two) = "IdleRead"
    BY Lists DEF EntryCycles
  <2>2. Kind = "IdleRead" /\ Discard
    BY <1>3, <2>1, WhichCycle DEF Kind
  <2>3. /\ regs' = regs /\ regI' = regI /\ pc' = pc /\ mem' = mem /\ jammed' = jammed
        /\ todo' = Tail(todo)
    BY <1>1, <2>2, Discards DEF Done
  <2>4. Untouched' /\ pc' = before'.pc
    BY <1>1, <1>3, <2>3 DEF Untouched, SameRegs, SameJam
  <2>5. CASE todo = EntryCycles
    BY <2>3, <2>4, <2>5 DEF InterruptCourse, EntryCycles
  <2>6. CASE todo = two
    <3>1. todo' = one
      BY <2>1, <2>3, <2>6
    <3>2. Back' = pc'
      BY <1>1, <1>3, <2>3 DEF Back
    <3> QED
      BY <2>4, <3>1, <3>2 DEF InterruptCourse, EntryCourse, Untouched
  <2> QED
    BY <1>3, <2>1, <2>5, <2>6
<1> QED
  BY <1>2, <1>3 DEF InterruptCourse

LEMMA Further ==
  ASSUME NEW w \in Word
  PROVE  U16(w + 0) = w /\ U16(U16(w + 1) + 1) = U16(w + 2) /\ U16(U16(w + 2) + 1) = U16(w + 3)
BY WordRange DEF U16

LEMMA BreakKeeps ==
  ASSUME CpuTypeOK, BeforeOK, CpuCycle, unit = "BRK", BreakCourse
  PROVE  BreakCourse'
<1>1. unit' = unit /\ before' = before /\ Back = Ahead(2)
  BY WhichCycle DEF Back
<1>2. CASE EntryCourse
  BY <1>2, EntryKeeps DEF BreakCourse
<1>3. CASE todo = SpecialCycles("BRK") /\ Untouched /\ pc = Ahead(1)
  <2>1. /\ Head(SpecialCycles("BRK")) = "SkipByte"
        /\ Tail(SpecialCycles("BRK"))
             = <<"PushHigh", "PushLow", "PushFlags", "VectorLow", "VectorHigh">>
    BY Lists DEF SpecialCycles
  <2>2. Kind = "SkipByte" /\ SkipByte
    BY <1>3, <2>1, WhichCycle DEF Kind
  <2>3. /\ regs' = regs /\ regI' = regI /\ pc' = U16(pc + 1) /\ mem' = mem /\ jammed' = jammed
        /\ todo' = <<"PushHigh", "PushLow", "PushFlags", "VectorLow", "VectorHigh">>
    BY <1>3, <2>1, <2>2 DEF SkipByte, Done, SameState, Reads
  <2>4. pc' = Back'
    BY <1>1, <1>3, <2>3, Further DEF Back, Ahead, BeforeOK
  <2> QED
    BY <1>1, <1>3, <2>3, <2>4
       DEF BreakCourse, EntryCourse, Untouched, SameRegs, SameJam
<1> QED
  BY <1>2, <1>3 DEF BreakCourse

LEMMA ResetKeeps ==
  ASSUME CpuTypeOK, BeforeOK, CpuCycle, unit = "reset", ResetCourse
  PROVE  ResetCourse'
<1> DEFINE two == <<"IdleRead", "ResetStack", "ResetStack", "ResetStack", "VectorLow", "VectorHigh">>
           one == <<"ResetStack", "ResetStack", "ResetStack", "VectorLow", "VectorHigh">>
<1>1. unit' = unit /\ before' = before /\ jammed = FALSE /\ mem = before.mem
  BY WhichCycle DEF ResetCourse
<1>2. /\ ResetCycles = <<"IdleRead", "IdleRead", "ResetStack", "ResetStack", "ResetStack",
                         "VectorLow", "VectorHigh">>
      /\ Head(ResetCycles) = "IdleRead" /\ Tail(ResetCycles) = two
      /\ Head(two) = "IdleRead" /\ Tail(two) = one /\ Head(one) = "ResetStack"
  BY Lists DEF ResetCycles
<1>3. before.regs \in Registers /\ regs \in Registers /\ regI \in BOOLEAN
  BY DEF BeforeOK, CpuTypeOK, TypeOK
<1>4. ASSUME Kind = "IdleRead"
      PROVE  /\ todo' = Tail(todo) /\ regs' = regs /\ regI' = regI /\ pc' = pc /\ mem' = mem
             /\ jammed' = jammed
  BY <1>1, <1>4, WhichCycle, Discards DEF Done
<1>5. ASSUME Kind = "ResetStack"
      PROVE  /\ todo' = Tail(todo) /\ regs' = Shifted(regs, -1) /\ mem' = mem /\ jammed' = jammed
             /\ regI' = (regI \/ Head(Tail(todo)) = "VectorLow")
  <2>1. ResetStack
    BY <1>5, WhichCycle
  <2>2. regs.s + (-1) = regs.s - 1
    BY <1>3, ByteRange DEF Registers
  <2> QED
    BY <2>1, <2>2 DEF ResetStack, Done, Reads, Shifted, Below
<1>6. CASE todo \in {ResetCycles, two} /\ SameRegs
  <2>1. Kind = "IdleRead" /\ Tail(todo) \in {two, one}
    BY <1>2, <1>6 DEF Kind
  <2>2. todo' \in {Tail(ResetCycles), Tail(Tail(ResetCycles))} /\ SameRegs'
    BY <1>1, <1>2, <1>4, <1>6, <2>1 DEF SameRegs
  <2> QED
    BY <1>1, <1>4, <2>1, <2>2 DEF ResetCourse
<1>7. CASE todo = one /\ SameRegs
  <2>1. Kind = "ResetStack" /\ Tail(todo) = <<"ResetStack", "ResetStack", "VectorLow", "VectorHigh">>
        /\ Head(Tail(todo)) = "ResetStack"
    BY <1>2, <1>7, Lists DEF Kind
  <2> QED
    BY <1>1, <1>3, <1>5, <1>7, <2>1 DEF ResetCourse, SameRegs
<1>8. CASE /\ todo = <<"ResetStack", "ResetStack", "VectorLow", "VectorHigh">>
           /\ regs = Shifted(before.regs, -1) /\ regI = before.i
  <2>1. Kind = "ResetStack" /\ Tail(todo) = <<"ResetStack", "VectorLow", "VectorHigh">>
        /\ Head(Tail(todo)) = "ResetStack"
    BY <1>8, Lists DEF Kind
  <2> QED
    BY <1>1, <1>3, <1>5, <1>8, <2>1, ShiftedSteps DEF ResetCourse
<1>9. CASE /\ todo = <<"ResetStack", "VectorLow", "VectorHigh">>
           /\ regs = Shifted(before.regs, -2) /\ regI = before.i
  <2>1. Kind = "ResetStack" /\ Tail(todo) = <<"VectorLow", "VectorHigh">>
        /\ Head(Tail(todo)) = "VectorLow"
    BY <1>9, Lists DEF Kind
  <2> QED
    BY <1>1, <1>3, <1>5, <1>9, <2>1, ShiftedSteps DEF ResetCourse
<1>10. CASE /\ todo = <<"VectorLow", "VectorHigh">>
            /\ regs = Shifted(before.regs, -3) /\ regI = TRUE
  <2>1. Vector = ResetVector /\ VectorLow
    BY <1>10, Lists, WhichCycle DEF Kind, Vector
  <2>2. /\ todo' = <<"VectorHigh">> /\ regs' = regs /\ regI' = regI /\ jammed' = jammed
        /\ mem' = mem /\ t'.lo = At(mem, ResetVector)
    BY <1>10, <2>1, Lists DEF VectorLow, Done, SameState, Reads, Peek, CpuTypeOK
  <2> QED
    BY <1>1, <1>10, <2>2 DEF ResetCourse
<1>11. CASE /\ todo = <<"VectorHigh">>
            /\ regs = Shifted(before.regs, -3) /\ regI = TRUE /\ t.lo = At(mem, ResetVector)
  <2>1. Vector = ResetVector /\ VectorHigh
    BY <1>11, Lists, WhichCycle DEF Kind, Vector
  <2>2. /\ todo' = <<>> /\ regs' = regs /\ regI' = regI /\ jammed' = jammed
        /\ mem' = mem /\ pc' = WordOf(t.lo, At(mem, ResetVector + 1))
    BY <1>11, <2>1, Lists DEF VectorHigh, Done, SameState, Reads, Peek
  <2> QED
    BY <1>1, <1>11, <2>2 DEF ResetCourse
<1>12. todo # <<>>
  BY WhichCycle
<1> QED
  BY <1>2, <1>6, <1>7, <1>8, <1>9, <1>10, <1>11, <1>12 DEF ResetCourse

(* A pull, and what becomes of the byte. *)
LEMMA Pulls ==
  ASSUME CpuTypeOK, Pull
  PROVE  LET value == At(mem, StackAddr(U8(regs.s + 1)))
             up    == Shifted(regs, 1)
         IN  /\ Done /\ mem' = mem /\ jammed' = jammed
             /\ Kind = "PullA" => regs' = LoadA(up, value) /\ regI' = regI /\ pc' = pc
             /\ Kind = "PullFlags" => /\ regs' = Unpack(up, value) /\ regI' = UnpackI(value)
                                      /\ pc' = pc
             /\ Kind = "PullLow" => regs' = up /\ regI' = regI /\ pc' = pc /\ t'.lo = value
             /\ Kind = "PullHigh" => regs' = up /\ regI' = regI /\ pc' = WordOf(t.lo, value)
<1>1. t \in [lo : Byte, base : Word, addr : Word, value : Byte]
  BY DEF CpuTypeOK
<1> QED
  BY <1>1, Zenon DEF Pull, Reads, Peek, PulledAddr, Shifted

LEMMA StackSteps ==
  ASSUME NEW s \in Byte
  PROVE  /\ U8(U8(s + 1) + 1) = U8(s + 2) /\ U8(U8(s + 2) + 1) = U8(s + 3)
         /\ U8(U8(s - 1) - 1) = U8(s - 2)
BY ByteRange DEF U8

LEMMA UnpackShifted ==
  ASSUME NEW r \in Registers, NEW n \in Int, NEW v
  PROVE  Shifted(Unpack(r, v), n) = Unpack(Shifted(r, n), v) /\ Unpack(r, v).s = r.s
<1> DEFINE u == U8(r.s + n)
           fn == Bit(v, 128)
           fv == Bit(v, 64)
           fd == Bit(v, 8)
           fz == Bit(v, 2)
           fc == Bit(v, 1)
           q == [r EXCEPT !.n = fn, !.v = fv, !.d = fd, !.z = fz, !.c = fc]
<1>1. Unpack(r, v) = q
  BY Zenon DEF Unpack
<1>2. Unpack(Shifted(r, n), v)
        = [[r EXCEPT !.s = u] EXCEPT !.n = fn, !.v = fv, !.d = fd, !.z = fz, !.c = fc]
  BY Zenon DEF Unpack, Shifted
<1> HIDE DEF u, fn, fv, fd, fz, fc
<1>3. q.s = r.s
  BY DEF Registers
<1>4. Shifted(q, n) = [q EXCEPT !.s = u]
  BY <1>3, Zenon DEF Shifted, u
<1>5. [q EXCEPT !.s = u]
        = [[r EXCEPT !.s = u] EXCEPT !.n = fn, !.v = fv, !.d = fd, !.z = fz, !.c = fc]
  BY DEF Registers
<1> QED
  BY <1>1, <1>2, <1>3, <1>4, <1>5

LEMMA CallKeeps ==
  ASSUME CpuTypeOK, BeforeOK, CpuCycle, unit = "other", CallCourse
  PROVE  CallCourse'
<1> DEFINE back == Ahead(2)
           s    == before.regs.s
<1>1. /\ unit' = unit /\ before' = before /\ jammed = before.jammed /\ regI = before.i
      /\ back' = back
  BY WhichCycle DEF CallCourse, SameJam, Ahead
<1>2. before.regs \in Registers /\ regs \in Registers /\ s \in Byte
      /\ t \in [lo : Byte, base : Word, addr : Word, value : Byte]
  BY DEF BeforeOK, CpuTypeOK, Registers
<1>3. /\ Head(SpecialCycles("JSR")) = "FetchLow"
      /\ Tail(SpecialCycles("JSR")) = <<"PeekStack", "PushHigh", "PushLow", "JumpHigh">>
  BY Lists DEF SpecialCycles
<1>4. CASE todo = SpecialCycles("JSR") /\ Untouched /\ pc = Ahead(1)
  <2>1. FetchLow /\ todo' = <<"PeekStack", "PushHigh", "PushLow", "JumpHigh">>
    BY <1>3, <1>4, WhichCycle DEF Kind, FetchLow, Done
  <2>2. Untouched' /\ pc' = U16(pc + 1) /\ t'.lo = At(mem, pc) /\ SameJam'
    BY <1>1, <1>2, <1>4, <2>1
       DEF FetchLow, Reads, Peek, SameState, Untouched, SameRegs, SameJam
  <2>3. pc' = back' /\ t'.lo = CodeAt(before', 1)
    BY <1>1, <1>4, <2>2, Further DEF Ahead, CodeAt, BeforeOK, Untouched
  <2> QED
    BY <1>1, <2>1, <2>2, <2>3 DEF CallCourse, Untouched, SameRegs
<1>5. CASE /\ todo = <<"PeekStack", "PushHigh", "PushLow", "JumpHigh">>
           /\ Untouched /\ pc = back /\ t.lo = CodeAt(before, 1)
  <2>1. Kind = "PeekStack" /\ Discard
    BY <1>5, Lists, WhichCycle DEF Kind
  <2>2. todo' = <<"PushHigh", "PushLow", "JumpHigh">>
    BY <1>5, <2>1, Discards, Lists DEF Done
  <2>3. Untouched' /\ pc' = pc /\ t' = t /\ SameJam' /\ regI' = regI
    BY <1>1, <1>5, <2>1, Discards DEF Untouched, SameRegs, SameJam
  <2> QED
    BY <1>1, <1>5, <2>2, <2>3 DEF CallCourse
<1>6. CASE /\ todo = <<"PushHigh", "PushLow", "JumpHigh">>
           /\ Untouched /\ pc = back /\ t.lo = CodeAt(before, 1)
  <2>1. Kind = "PushHigh" /\ Push
    BY <1>6, Lists, WhichCycle DEF Kind
  <2>2. ~MasksInterrupts /\ PushedByte = Page(pc)
    BY <2>1 DEF MasksInterrupts, PushedByte
  <2>3. /\ todo' = <<"PushLow", "JumpHigh">>
        /\ pc' = pc /\ jammed' = jammed /\ regs' = Shifted(regs, -1) /\ regI' = regI /\ t' = t
        /\ mem' = Saved(mem, regs.s, Page(pc))
    BY <1>6, <2>1, <2>2, Pushes, Lists DEF Done
  <2> QED
    BY <1>1, <1>6, <2>3 DEF CallCourse, SameJam, Untouched, SameRegs
<1>7. CASE /\ todo = <<"PushLow", "JumpHigh">>
           /\ regs = Shifted(before.regs, -1) /\ mem = Saved(before.mem, s, Page(back))
           /\ pc = back /\ t.lo = CodeAt(before, 1)
  <2>1. Kind = "PushLow" /\ Push
    BY <1>7, Lists, WhichCycle DEF Kind
  <2>2. ~MasksInterrupts /\ PushedByte = U8(pc)
    BY <1>1, <2>1 DEF MasksInterrupts, PushedByte, Entries
  <2>3. /\ todo' = <<"JumpHigh">>
        /\ pc' = pc /\ jammed' = jammed /\ regs' = Shifted(regs, -1) /\ regI' = regI /\ t' = t
        /\ mem' = Saved(mem, regs.s, U8(pc))
    BY <1>7, <2>1, <2>2, Pushes, Lists DEF Done
  <2>4. mem' = SavedWord(before.mem, s, back) /\ regs' = Shifted(before.regs, -2)
    BY <1>2, <1>7, <2>3, ShiftedSteps DEF SavedWord
  <2> QED
    BY <1>1, <1>7, <2>3, <2>4 DEF CallCourse, SameJam
<1>8. CASE /\ todo = <<"JumpHigh">>
           /\ regs = Shifted(before.regs, -2) /\ mem = SavedWord(before.mem, s, back)
           /\ pc = back /\ t.lo = CodeAt(before, 1)
  <2>1. JumpHigh
    BY <1>8, Lists, WhichCycle DEF Kind
  <2>2. /\ todo' = <<>> /\ regs' = regs /\ regI' = regI /\ jammed' = jammed /\ mem' = mem
        /\ pc' = WordOf(t.lo, At(mem, pc))
    BY <1>8, <2>1, Lists DEF JumpHigh, Done, SameState, Reads, TargetHigh, Peek
  <2> QED
    BY <1>1, <1>8, <2>2 DEF CallCourse, SameJam
<1>9. todo # <<>>
  BY WhichCycle
<1> QED
  BY <1>4, <1>5, <1>6, <1>7, <1>8, <1>9 DEF CallCourse

LEMMA ReturnKeeps ==
  ASSUME CpuTypeOK, BeforeOK, CpuCycle, unit = "other", ReturnCourse
  PROVE  ReturnCourse'
<1> DEFINE low    == Popped(before, 1)
           high   == Popped(before, 2)
           target == WordOf(low, high)
<1>1. /\ unit' = unit /\ before' = before /\ jammed = before.jammed /\ regI = before.i
      /\ mem = before.mem /\ target' = target
  BY WhichCycle DEF ReturnCourse, SameJam
<1>2. before.regs \in Registers /\ before.regs.s \in Byte
  BY DEF BeforeOK, Registers
<1>3. /\ Head(SpecialCycles("RTS")) = "IdleRead"
      /\ Tail(SpecialCycles("RTS")) = <<"PeekStack", "PullLow", "PullHigh", "SkipByte">>
      /\ Head(<<"PeekStack", "PullLow", "PullHigh", "SkipByte">>) = "PeekStack"
      /\ Tail(<<"PeekStack", "PullLow", "PullHigh", "SkipByte">>)
           = <<"PullLow", "PullHigh", "SkipByte">>
  BY Lists DEF SpecialCycles
<1>4. CASE /\ todo \in {SpecialCycles("RTS"), <<"PeekStack", "PullLow", "PullHigh", "SkipByte">>}
           /\ Untouched
  <2>1. /\ Kind \in {"IdleRead", "PeekStack"}
        /\ Tail(todo) \in {<<"PeekStack", "PullLow", "PullHigh", "SkipByte">>,
                           <<"PullLow", "PullHigh", "SkipByte">>}
    BY <1>3, <1>4, Zenon DEF Kind
  <2>2. Discard /\ unit # "JAM"
    BY <1>1, <2>1, WhichCycle
  <2>3. Untouched' /\ SameJam' /\ regI' = regI /\ mem' = mem /\ todo' = Tail(todo)
    BY <1>1, <1>4, <2>2, Discards DEF Untouched, SameRegs, SameJam, Done
  <2> QED
    BY <1>1, <2>1, <2>3 DEF ReturnCourse
<1>5. CASE todo = <<"PullLow", "PullHigh", "SkipByte">> /\ Untouched
  <2>1. Kind = "PullLow" /\ Pull
    BY <1>5, Lists, WhichCycle DEF Kind
  <2>2. /\ regs' = Shifted(regs, 1) /\ regI' = regI /\ mem' = mem /\ jammed' = jammed
        /\ t'.lo = At(mem, StackAddr(U8(regs.s + 1))) /\ todo' = <<"PullHigh", "SkipByte">>
    BY <1>5, <2>1, Pulls, Lists DEF Done
  <2> QED
    BY <1>1, <1>5, <2>2 DEF ReturnCourse, SameJam, Untouched, SameRegs, Popped
<1>6. CASE todo = <<"PullHigh", "SkipByte">> /\ regs = Shifted(before.regs, 1) /\ t.lo = low
  <2>1. Kind = "PullHigh" /\ Pull
    BY <1>6, Lists, WhichCycle DEF Kind
  <2>2. /\ regs' = Shifted(regs, 1) /\ regI' = regI /\ mem' = mem /\ jammed' = jammed
        /\ pc' = WordOf(t.lo, At(mem, StackAddr(U8(regs.s + 1)))) /\ todo' = <<"SkipByte">>
    BY <1>6, <2>1, Pulls, Lists DEF Done
  <2>3. U8(regs.s + 1) = U8(before.regs.s + 2)
    BY <1>2, <1>6, ShiftedSteps, StackSteps
  <2>4. pc' = target
    BY <1>1, <1>6, <2>2, <2>3 DEF Popped
  <2> QED
    BY <1>1, <1>2, <1>6, <2>2, <2>4, ShiftedSteps DEF ReturnCourse, SameJam
<1>7. CASE todo = <<"SkipByte">> /\ regs = Shifted(before.regs, 2) /\ pc = target
  <2>1. SkipByte
    BY <1>7, Lists, WhichCycle DEF Kind
  <2>2. /\ todo' = <<>> /\ regs' = regs /\ regI' = regI /\ jammed' = jammed /\ mem' = mem
        /\ pc' = U16(pc + 1)
    BY <1>7, <2>1, Lists DEF SkipByte, Done, SameState, Reads
  <2> QED
    BY <1>1, <1>7, <2>2 DEF ReturnCourse, SameJam
<1>8. todo # <<>>
  BY WhichCycle
<1> QED
  BY <1>4, <1>5, <1>6, <1>7, <1>8 DEF ReturnCourse

LEMMA ReturnFromInterruptKeeps ==
  ASSUME CpuTypeOK, BeforeOK, CpuCycle, unit = "RTI", ReturnFromInterruptCourse
  PROVE  ReturnFromInterruptCourse'
<1> DEFINE flags1     == Popped(before, 1)
           flagged(n) == Unpack(Shifted(before.regs, n), flags1)
<1>1. /\ unit' = unit /\ before' = before /\ jammed = before.jammed /\ mem = before.mem
      /\ flags1' = flags1
  BY WhichCycle DEF ReturnFromInterruptCourse, SameJam
<1>2. before.regs \in Registers /\ before.regs.s \in Byte
  BY DEF BeforeOK, Registers
<1>3. /\ Head(SpecialCycles("RTI")) = "IdleRead"
      /\ Tail(SpecialCycles("RTI")) = <<"PeekStack", "PullFlags", "PullLow", "PullHigh">>
      /\ Head(<<"PeekStack", "PullFlags", "PullLow", "PullHigh">>) = "PeekStack"
      /\ Tail(<<"PeekStack", "PullFlags", "PullLow", "PullHigh">>)
           = <<"PullFlags", "PullLow", "PullHigh">>
  BY Lists DEF SpecialCycles
<1>4. /\ Shifted(flagged(1), 1) = flagged(2) /\ Shifted(flagged(2), 1) = flagged(3)
      /\ flagged(1).s = U8(before.regs.s + 1) /\ flagged(2).s = U8(before.regs.s + 2)
  <2>1. Shifted(before.regs, 1) \in Registers /\ Shifted(before.regs, 2) \in Registers
    BY <1>2, ShiftedRegisters
  <2> QED
    BY <1>2, <2>1, ShiftedSteps, UnpackShifted
<1>5. CASE /\ todo \in {SpecialCycles("RTI"), <<"PeekStack", "PullFlags", "PullLow", "PullHigh">>}
           /\ Untouched
  <2>1. /\ Kind \in {"IdleRead", "PeekStack"}
        /\ Tail(todo) \in {<<"PeekStack", "PullFlags", "PullLow", "PullHigh">>,
                           <<"PullFlags", "PullLow", "PullHigh">>}
    BY <1>3, <1>5, Zenon DEF Kind
  <2>2. Discard /\ unit # "JAM"
    BY <1>1, <2>1, WhichCycle
  <2>3. Untouched' /\ SameJam' /\ mem' = mem /\ todo' = Tail(todo)
    BY <1>1, <1>5, <2>2, Discards DEF Untouched, SameRegs, SameJam, Done
  <2> QED
    BY <1>1, <2>1, <2>3 DEF ReturnFromInterruptCourse
<1>6. CASE todo = <<"PullFlags", "PullLow", "PullHigh">> /\ Untouched
  <2>1. Kind = "PullFlags" /\ Pull
    BY <1>6, Lists, WhichCycle DEF Kind
  <2>2. LET value == At(mem, StackAddr(U8(regs.s + 1)))
        IN  /\ regs' = Unpack(Shifted(regs, 1), value) /\ regI' = UnpackI(value)
            /\ mem' = mem /\ jammed' = jammed /\ todo' = <<"PullLow", "PullHigh">>
    BY <1>6, <2>1, Pulls, Lists DEF Done
  <2>3. At(mem, StackAddr(U8(regs.s + 1))) = flags1
    BY <1>6 DEF Untouched, SameRegs, Popped
  <2> QED
    BY <1>1, <1>6, <2>2, <2>3 DEF ReturnFromInterruptCourse, SameJam, Untouched, SameRegs
<1>7. CASE todo = <<"PullLow", "PullHigh">> /\ regs = flagged(1) /\ regI = UnpackI(flags1)
  <2>1. Kind = "PullLow" /\ Pull
    BY <1>7, Lists, WhichCycle DEF Kind
  <2>2. /\ regs' = Shifted(regs, 1) /\ regI' = regI /\ mem' = mem /\ jammed' = jammed
        /\ t'.lo = At(mem, StackAddr(U8(regs.s + 1))) /\ todo' = <<"PullHigh">>
    BY <1>7, <2>1, Pulls, Lists DEF Done
  <2>3. U8(regs.s + 1) = U8(before.regs.s + 2)
    BY <1>2, <1>4, <1>7, StackSteps
  <2>4. t'.lo = Popped(before, 2) /\ regs' = flagged(2)
    BY <1>1, <1>4, <1>7, <2>2, <2>3 DEF Popped
  <2> QED
    BY <1>1, <1>7, <2>2, <2>4 DEF ReturnFromInterruptCourse, SameJam
<1>8. CASE /\ todo = <<"PullHigh">> /\ regs = flagged(2) /\ regI = UnpackI(flags1)
           /\ t.lo = Popped(before, 2)
  <2>1. Kind = "PullHigh" /\ Pull
    BY <1>8, Lists, WhichCycle DEF Kind
  <2>2. /\ regs' = Shifted(regs, 1) /\ regI' = regI /\ mem' = mem /\ jammed' = jammed
        /\ pc' = WordOf(t.lo, At(mem, StackAddr(U8(regs.s + 1)))) /\ todo' = <<>>
    BY <1>8, <2>1, Pulls, Lists DEF Done
  <2>3. U8(regs.s + 1) = U8(before.regs.s + 3)
    BY <1>2, <1>4, <1>8, StackSteps
  <2>4. pc' = WordOf(Popped(before, 2), Popped(before, 3)) /\ regs' = flagged(3)
    BY <1>1, <1>4, <1>8, <2>2, <2>3 DEF Popped
  <2> QED
    BY <1>1, <1>8, <2>2, <2>4 DEF ReturnFromInterruptCourse, SameJam
<1>9. todo # <<>>
  BY WhichCycle
<1> QED
  BY <1>5, <1>6, <1>7, <1>8, <1>9 DEF ReturnFromInterruptCourse

LEMMA JumpKeeps ==
  ASSUME CpuTypeOK, BeforeOK, CpuCycle, JumpCourse
  PROVE  JumpCourse'
<1>1. before' = before /\ Untouched
  BY WhichCycle DEF JumpCourse
<1>2. t \in [lo : Byte, base : Word, addr : Word, value : Byte]
  BY DEF CpuTypeOK
<1>3. Head(SpecialCycles("JMP_ABS")) = "FetchLow" /\ Tail(SpecialCycles("JMP_ABS")) = <<"JumpHigh">>
  BY Lists DEF SpecialCycles
<1>4. CASE todo = SpecialCycles("JMP_ABS") /\ pc = Ahead(1)
  <2>1. FetchLow
    BY <1>3, <1>4, WhichCycle DEF Kind
  <2>2. todo' = <<"JumpHigh">>
    BY <1>3, <1>4, <2>1 DEF FetchLow, Done
  <2>3. Untouched' /\ pc' = U16(pc + 1) /\ t'.lo = At(mem, pc)
    BY <1>1, <1>2, <2>1 DEF FetchLow, Reads, Peek, SameState, Untouched, SameRegs, SameJam
  <2>4. pc' = (Ahead(2))' /\ t'.lo = CodeAt(before', 1)
    BY <1>1, <1>4, <2>3, Further DEF Ahead, CodeAt, BeforeOK, Untouched
  <2> QED
    BY <2>2, <2>3, <2>4 DEF JumpCourse
<1>5. CASE todo = <<"JumpHigh">> /\ pc = Ahead(2) /\ t.lo = CodeAt(before, 1)
  <2>1. JumpHigh
    BY <1>5, Lists, WhichCycle DEF Kind
  <2>2. todo' = <<>>
    BY <1>5, <2>1, Lists DEF JumpHigh, Done
  <2>3. Untouched' /\ pc' = WordOf(t.lo, At(mem, pc))
    BY <1>1, <2>1 DEF JumpHigh, Reads, TargetHigh, Peek, SameState, Untouched, SameRegs, SameJam
  <2>4. pc' = OperandWord(before')
    BY <1>1, <1>5, <2>3 DEF Ahead, CodeAt, OperandWord, Untouched
  <2> QED
    BY <2>2, <2>3, <2>4 DEF JumpCourse
<1>6. todo # <<>>
  BY WhichCycle
<1> QED
  BY <1>4, <1>5, <1>6 DEF JumpCourse

-----------------------------------------------------------------------------
(* What an operation says about its mode, and a mode about its operations. *)
RowOf(code)    == ((code \div 32) % 4) + 2
ColumnOf(code) == (code % 32) + 1

LEMMA TablePlace ==
  ASSUME NEW code \in Byte
  PROVE  /\ ColumnOf(code) \in 1 .. 32 /\ RowOf(code) \in 2 .. 5
         /\ Column(code) \in {LowerColumns[ColumnOf(code)], UpperColumns[ColumnOf(code)]}
         /\ OpOf(code) = Column(code)[RowOf(code)]
<1>1. ColumnOf(code) \in 1 .. 32 /\ RowOf(code) \in 2 .. 5
  BY ByteRange DEF ColumnOf, RowOf
<1> QED
  BY <1>1, Zenon DEF Column, OpOf, ColumnOf, RowOf

(* The modes that head the columns of the table.                            *)
Regular ==
  {"Implied", "IndirectX", "ZeroPage", "Immediate", "Accumulator", "Absolute", "Relative",
   "IndirectY", "ZeroPageX", "AbsoluteY", "AbsoluteX"}

(* Modes and operations agree, in every column and row of the table.       *)
Fits(column, r) ==
  /\ column[1] = "Accumulator" => column[r] \in RmwOps
  /\ column[1] = "Relative" <=> column[r] \in BranchOps
  /\ column[r] \in WriteOps => column[1] \notin {"Implied", "Immediate"}
  /\ column[r] \in RmwOps => column[1] \notin {"Implied", "Immediate"}
  /\ column[r] \in UnstableOps => column[1] \in {"AbsoluteX", "AbsoluteY", "IndirectY"}
  /\ column[1] \in Regular

LEMMA LowerFits ==
  ASSUME NEW c \in 1 .. 32, NEW r \in 2 .. 5
  PROVE  Fits(LowerColumns[c], r)
BY SMTT(60) DEF Fits, LowerColumns, WriteOps, RmwOps, UnstableOps, BranchOps, Regular

LEMMA UpperFits ==
  ASSUME NEW c \in 1 .. 32, NEW r \in 2 .. 5
  PROVE  Fits(UpperColumns[c], r)
BY SMTT(60) DEF Fits, UpperColumns, WriteOps, RmwOps, UnstableOps, BranchOps, Regular

LEMMA JumpIndirectPlace ==
  ASSUME NEW c \in 1 .. 32, NEW r \in 2 .. 5
  PROVE  /\ LowerColumns[c][r] = "JMP_IND" => c = 13 /\ r = 5
         /\ UpperColumns[c][r] # "JMP_IND"
BY DEF LowerColumns, UpperColumns

(* The opcodes whose mode is not their column's. *)
LEMMA Irregular ==
  /\ OpOf(32) = "JSR" /\ OpOf(108) = "JMP_IND"
  /\ OpOf(150) = "STX" /\ OpOf(151) = "SAX" /\ OpOf(182) = "LDX" /\ OpOf(183) = "LAX"
  /\ OpOf(158) = "SHX" /\ OpOf(159) = "SHA" /\ OpOf(190) = "LDX" /\ OpOf(191) = "LAX"
BY DEF OpOf, Column, LowerColumns, UpperColumns

(* The modes that end in an address of memory.                              *)
MemoryModes ==
  {"ZeroPage", "ZeroPageX", "ZeroPageY", "Absolute", "AbsoluteX", "AbsoluteY", "IndirectX",
   "IndirectY"}

LEMMA TableModes ==
  ASSUME NEW code \in Byte
  PROVE  /\ OpOf(code) = "JMP_IND" => ModeOf(code) = "Indirect"
         /\ ShapeOf(code) = "Branch" => ModeOf(code) = "Relative"
         /\ ShapeOf(code) = "Accum" => ModeOf(code) = "Accumulator"
         /\ ShapeOf(code) = "Implied" => ModeOf(code) = "Implied"
         /\ ShapeOf(code) \in {"Write", "Rmw"} => ModeOf(code) \in MemoryModes
         /\ ShapeOf(code) = "UnstableStore" => ModeOf(code) \in {"AbsoluteX", "AbsoluteY", "IndirectY"}
         /\ ShapeOf(code) = "Read" => ModeOf(code) \in MemoryModes \cup {"Immediate"}
<1> DEFINE op   == OpOf(code)
           mode == ModeOf(code)
           Irregulars == {32, 108, 150, 151, 182, 183, 158, 159, 190, 191}
<1>1. CASE code \in Irregulars
  <2>1. /\ op \in {"JSR", "JMP_IND", "STX", "SAX", "LDX", "LAX", "SHX", "SHA"}
        /\ op = "JMP_IND" => mode = "Indirect"
        /\ op = "JSR" => mode = "Absolute"
        /\ op \in {"SHX", "SHA"} => mode = "AbsoluteY"
        /\ op \in {"STX", "SAX", "LDX", "LAX"} => mode \in {"ZeroPageY", "AbsoluteY"}
    BY <1>1, Irregular DEF ModeOf
  <2> QED
    BY <2>1 DEF ShapeOf, WriteOps, RmwOps, UnstableOps, BranchOps, SpecialOps, MemoryModes
<1>2. CASE code \notin Irregulars
  <2>1. mode = Column(code)[1] /\ op = Column(code)[RowOf(code)]
    BY <1>2, TablePlace DEF ModeOf
  <2>2. Fits(Column(code), RowOf(code))
    BY TablePlace, LowerFits, UpperFits
  <2>3. op # "JMP_IND"
    <3> SUFFICES ASSUME op = "JMP_IND" PROVE FALSE
      OBVIOUS
    <3>1. code < 128 /\ ColumnOf(code) = 13 /\ RowOf(code) = 5
      BY TablePlace, JumpIndirectPlace DEF OpOf, Column, ColumnOf, RowOf
    <3> QED
      BY <1>2, <3>1, ByteRange DEF ColumnOf, RowOf
  <2>4. /\ mode = "Accumulator" => op \in RmwOps
        /\ mode = "Relative" <=> op \in BranchOps
        /\ op \in WriteOps => mode \notin {"Implied", "Immediate"}
        /\ op \in RmwOps => mode \notin {"Implied", "Immediate"}
        /\ op \in UnstableOps => mode \in {"AbsoluteX", "AbsoluteY", "IndirectY"}
        /\ mode \in Regular
    BY <2>1, <2>2 DEF Fits
  <2> HIDE DEF op, mode
  <2>5. /\ WriteOps \cap RmwOps = {} /\ WriteOps \cap BranchOps = {} /\ RmwOps \cap BranchOps = {}
    BY DEF WriteOps, RmwOps, BranchOps
  <2>6. ShapeOf(code)
          = CASE op \in RmwOps -> IF mode = "Accumulator" THEN "Accum" ELSE "Rmw"
              [] op \in WriteOps -> "Write"
              [] op \in UnstableOps -> "UnstableStore"
              [] op \in BranchOps -> "Branch"
              [] op \in SpecialOps -> "Special"
              [] mode = "Implied" /\ op \notin SpecialOps -> "Implied"
              [] OTHER -> "Read"
    BY Zenon DEF ShapeOf, op, mode
  <2>7. /\ op = "JMP_IND" => mode = "Indirect"
        /\ ShapeOf(code) = "Branch" => mode = "Relative"
        /\ ShapeOf(code) = "Accum" => mode = "Accumulator"
        /\ ShapeOf(code) = "Implied" => mode = "Implied"
        /\ ShapeOf(code) = "UnstableStore" => mode \in {"AbsoluteX", "AbsoluteY", "IndirectY"}
    BY <2>3, <2>4, <2>6
  <2>8. ShapeOf(code) \in {"Write", "Rmw"} => mode \in MemoryModes
    BY <2>4, <2>5, <2>6 DEF Regular, MemoryModes
  <2>9. ShapeOf(code) = "Read" => mode \in MemoryModes \cup {"Immediate"}
    BY <2>4, <2>6 DEF Regular, MemoryModes
  <2> QED
    BY <2>7, <2>8, <2>9 DEF op, mode
<1> QED
  BY <1>1, <1>2

LEMMA IndirectJumpKeeps ==
  ASSUME CpuTypeOK, BeforeOK, CpuCycle, unit = "other", Op = "JMP_IND", IndirectJumpCourse
  PROVE  IndirectJumpCourse'
<1> DEFINE low    == OperandWord(before)
           high   == IF Variant.jmpIndirectPageBug THEN WordOf(U8(low + 1), Page(low)) ELSE U16(low + 1)
           cycles == SpecialCycles("JMP_IND")
           last1  == <<"IndirectHigh">>
           last2  == <<"IdleRead", "IndirectHigh">>
<1>1. /\ before' = before /\ opcode' = opcode /\ unit' = unit /\ todo # <<>> /\ Untouched
      /\ Mode = "Indirect"
  BY WhichCycle, TableModes DEF IndirectJumpCourse, Op, Mode, CpuTypeOK
<1>2. t \in [lo : Byte, base : Word, addr : Word, value : Byte]
  BY DEF CpuTypeOK
<1>3. low \in Word /\ CodeAt(before, 1) \in Byte
  <2>1. ASSUME NEW k PROVE CodeAt(before, k) \in Byte
    <3>1. 0 \in Byte
      BY ByteRange
    <3> QED
      BY <3>1 DEF BeforeOK, CodeAt, At
  <2> QED
    BY <2>1, WordOfWord DEF OperandWord
<1>4. /\ Head(cycles) = "FetchLow" /\ Head(Tail(cycles)) = "FetchHigh"
      /\ Head(Tail(Tail(cycles))) = "IndirectLow"
      /\ Tail(Tail(Tail(cycles))) \in {last1, last2}
  <2>1. CASE Variant.jmpIndirectPageBug
    <3>1. cycles = <<"FetchLow", "FetchHigh", "IndirectLow", "IndirectHigh">>
      BY <2>1 DEF SpecialCycles
    <3>2. Head(<<"FetchLow", "FetchHigh", "IndirectLow", "IndirectHigh">>) = "FetchLow"
          /\ Tail(<<"FetchLow", "FetchHigh", "IndirectLow", "IndirectHigh">>)
               = <<"FetchHigh", "IndirectLow", "IndirectHigh">>
      BY Lists
    <3>3. Head(<<"FetchHigh", "IndirectLow", "IndirectHigh">>) = "FetchHigh"
          /\ Tail(<<"FetchHigh", "IndirectLow", "IndirectHigh">>) = <<"IndirectLow", "IndirectHigh">>
      BY Lists
    <3>4. Head(<<"IndirectLow", "IndirectHigh">>) = "IndirectLow"
          /\ Tail(<<"IndirectLow", "IndirectHigh">>) = <<"IndirectHigh">>
      BY Lists
    <3> HIDE DEF cycles
    <3>5. /\ Head(cycles) = "FetchLow" /\ Head(Tail(cycles)) = "FetchHigh"
          /\ Head(Tail(Tail(cycles))) = "IndirectLow"
          /\ Tail(Tail(Tail(cycles))) = <<"IndirectHigh">>
      BY <3>1, <3>2, <3>3, <3>4, Zenon
    <3> QED
      BY <3>5
  <2>2. CASE ~Variant.jmpIndirectPageBug
    <3>1. cycles = <<"FetchLow", "FetchHigh", "IndirectLow", "IdleRead", "IndirectHigh">>
      BY <2>2 DEF SpecialCycles
    <3>2. Head(<<"FetchLow", "FetchHigh", "IndirectLow", "IdleRead", "IndirectHigh">>) = "FetchLow"
          /\ Tail(<<"FetchLow", "FetchHigh", "IndirectLow", "IdleRead", "IndirectHigh">>)
               = <<"FetchHigh", "IndirectLow", "IdleRead", "IndirectHigh">>
      BY Lists
    <3>3. Head(<<"FetchHigh", "IndirectLow", "IdleRead", "IndirectHigh">>) = "FetchHigh"
          /\ Tail(<<"FetchHigh", "IndirectLow", "IdleRead", "IndirectHigh">>) = <<"IndirectLow", "IdleRead", "IndirectHigh">>
      BY Lists
    <3>4. Head(<<"IndirectLow", "IdleRead", "IndirectHigh">>) = "IndirectLow"
          /\ Tail(<<"IndirectLow", "IdleRead", "IndirectHigh">>) = <<"IdleRead", "IndirectHigh">>
      BY Lists
    <3> HIDE DEF cycles
    <3>5. /\ Head(cycles) = "FetchLow" /\ Head(Tail(cycles)) = "FetchHigh"
          /\ Head(Tail(Tail(cycles))) = "IndirectLow"
          /\ Tail(Tail(Tail(cycles))) = <<"IdleRead", "IndirectHigh">>
      BY <3>1, <3>2, <3>3, <3>4, Zenon
    <3> QED
      BY <3>5
  <2> QED
    BY <2>1, <2>2
<1>5. /\ Head(last2) = "IdleRead" /\ Tail(last2) = last1
      /\ Head(last1) = "IndirectHigh" /\ Tail(last1) = <<>>
  BY Lists
<1> HIDE DEF cycles, last1, last2
<1>6. /\ IndirectJumpCourse <=>
           /\ Untouched
           /\ \/ todo = cycles /\ pc = Ahead(1)
              \/ todo = Tail(cycles) /\ pc = Ahead(2) /\ t.lo = CodeAt(before, 1)
              \/ todo = Tail(Tail(cycles)) /\ t.addr = low
              \/ todo \in {last2, last1} /\ t.addr = low /\ t.lo = At(mem, low)
              \/ todo = <<>> /\ pc = WordOf(At(mem, low), At(mem, high))
  BY DEF IndirectJumpCourse, cycles, last1, last2
<1>7. /\ IndirectJumpCourse' <=>
           /\ Untouched'
           /\ \/ todo' = cycles /\ pc' = (Ahead(1))'
              \/ todo' = Tail(cycles) /\ pc' = (Ahead(2))' /\ t'.lo = CodeAt(before', 1)
              \/ todo' = Tail(Tail(cycles)) /\ t'.addr = low
              \/ todo' \in {last2, last1} /\ t'.addr = low /\ t'.lo = At(mem', low)
              \/ todo' = <<>> /\ pc' = WordOf(At(mem', low), At(mem', high))
  BY <1>1 DEF IndirectJumpCourse, cycles, last1, last2
<1>8. CASE todo = cycles /\ pc = Ahead(1)
  <2>1. FetchLow /\ todo' = Tail(cycles)
    BY <1>4, <1>8, WhichCycle DEF Kind, FetchLow, Done
  <2>2. Untouched' /\ pc' = U16(pc + 1) /\ t'.lo = At(mem, pc)
    BY <1>1, <1>2, <2>1 DEF FetchLow, Reads, Peek, SameState, Untouched, SameRegs, SameJam
  <2>3. pc' = (Ahead(2))' /\ t'.lo = CodeAt(before', 1)
    BY <1>1, <1>8, <2>2, Further DEF Ahead, CodeAt, BeforeOK, Untouched
  <2> QED
    BY <1>7, <2>1, <2>2, <2>3
<1>9. CASE todo = Tail(cycles) /\ pc = Ahead(2) /\ t.lo = CodeAt(before, 1)
  <2>1. FetchHigh
    BY <1>4, <1>9, WhichCycle DEF Kind
  <2>2. WordOf(t.lo, Peek(pc)) = low
    BY <1>1, <1>9 DEF Peek, Ahead, CodeAt, OperandWord, Untouched
  <2>3. PostIndex = 0 /\ ~Indexed /\ low + 0 = low /\ U16(low + 0) = low
    BY <1>1, <1>3, WordInt, Further DEF PostIndex, Indexed
  <2>4. todo' = Tail(Tail(cycles)) /\ t'.addr = low
    BY <1>2, <1>9, <2>1, <2>2, <2>3 DEF FetchHigh, Resolve, PaysFixup, Done
  <2>5. Untouched'
    BY <1>1, <2>1 DEF FetchHigh, Reads, SameState, Untouched, SameRegs, SameJam
  <2> QED
    BY <1>7, <2>4, <2>5
<1>10. CASE todo = Tail(Tail(cycles)) /\ t.addr = low
  <2>1. IndirectLow /\ todo' = Tail(Tail(Tail(cycles)))
    BY <1>4, <1>10, WhichCycle DEF Kind, IndirectLow, Done
  <2>2. Untouched' /\ t'.addr = t.addr /\ t'.lo = At(mem, t.addr) /\ mem' = mem
    BY <1>1, <1>2, <2>1 DEF IndirectLow, Reads, Peek, SameState, Untouched, SameRegs, SameJam
  <2> QED
    BY <1>4, <1>7, <1>10, <2>1, <2>2
<1>11. CASE todo = last2 /\ t.addr = low /\ t.lo = At(mem, low)
  <2>1. Discard /\ unit # "JAM"
    BY <1>1, <1>5, <1>11, WhichCycle DEF Kind
  <2>2. todo' = last1 /\ Untouched' /\ t' = t /\ mem' = mem
    BY <1>1, <1>5, <1>11, <2>1, Discards DEF Done, Untouched, SameRegs, SameJam
  <2> QED
    BY <1>7, <1>11, <2>2
<1>12. CASE todo = last1 /\ t.addr = low /\ t.lo = At(mem, low)
  <2>1. IndirectHigh
    BY <1>5, <1>12, WhichCycle DEF Kind
  <2>2. todo' = <<>> /\ Untouched' /\ mem' = mem /\ pc' = WordOf(t.lo, At(mem, IndirectHighAddr))
    BY <1>1, <1>5, <1>12, <2>1
       DEF IndirectHigh, Done, Reads, Peek, SameState, Untouched, SameRegs, SameJam
  <2>3. IndirectHighAddr = high
    BY <1>12 DEF IndirectHighAddr
  <2> QED
    BY <1>7, <1>12, <2>2, <2>3
<1> QED
  BY <1>1, <1>6, <1>8, <1>9, <1>10, <1>11, <1>12

LEMMA JamKeeps ==
  ASSUME CpuTypeOK, Scheduled, CpuCycle, JamCourse
  PROVE  JamCourse'
<1>1. before' = before /\ unit = "JAM" /\ unit' = unit /\ todo # <<>> /\ todo \in Seq(CycleKinds)
  BY WhichCycle DEF JamCourse, Scheduled
<1>2. Kind \in {"IdleRead", "JamHigh", "JamLow"}
  BY <1>1, TailFacts DEF JamCourse, Kind
<1>3. /\ todo' = Tail(todo) /\ regs' = regs /\ regI' = regI /\ pc' = pc /\ mem' = mem
      /\ jammed' = (jammed \/ Tail(todo) = <<>>)
  BY <1>1, <1>2, WhichCycle, Discards DEF Done
<1>4. \A k \in 1 .. Len(todo') : todo'[k] \in {"IdleRead", "JamHigh", "JamLow"}
  <2>1. DOMAIN todo' = 1 .. Len(todo') /\ DOMAIN todo = 1 .. Len(todo)
        /\ \A k \in DOMAIN todo' : k + 1 \in DOMAIN todo /\ todo'[k] = todo[k + 1]
    BY <1>1, <1>3, TailFacts
  <2> QED
    BY <2>1 DEF JamCourse
<1> QED
  BY <1>1, <1>3, <1>4 DEF JamCourse, SameRegs, Ahead

LEMMA Alone == ASSUME NEW k PROVE <<k>> \o <<>> = <<k>>
OBVIOUS

LEMMA BranchKeeps ==
  ASSUME CpuTypeOK, BeforeOK, CpuCycle, BranchCourse
  PROVE  BranchCourse'
<1> DEFINE taken  == Taken(Op, before.regs)
           target == TargetOf(before)
<1>1. /\ before' = before /\ opcode' = opcode /\ todo # <<>> /\ Untouched
      /\ regs = before.regs /\ mem = before.mem
      /\ Op' = Op /\ target' = target /\ (Ahead(2))' = Ahead(2)
  BY WhichCycle DEF BranchCourse, Op, Ahead, Untouched, SameRegs
<1>2. t \in [lo : Byte, base : Word, addr : Word, value : Byte]
  BY DEF CpuTypeOK
<1>3. /\ Ahead(2) = U16(Ahead(1) + 1) /\ Ahead(2) \in Word
  BY Further, U16Word, WordInt DEF Ahead, BeforeOK
<1>4. CASE todo = <<"FetchOffset">> /\ pc = Ahead(1)
  <2> DEFINE byte   == CodeAt(before, 1)
             offset == IF Negative(byte) THEN byte - 256 ELSE byte
  <2>1. FetchOffset /\ Peek(pc) = byte /\ Tail(todo) = <<>>
    BY <1>1, <1>4, Lists, WhichCycle DEF Kind, Peek, CodeAt, Ahead
  <2>2. /\ pc' = Ahead(2) /\ t'.addr = U16(Ahead(2) + offset)
        /\ todo' = (IF taken THEN <<"BranchTaken">> ELSE <<>>)
    BY <1>1, <1>2, <1>3, <1>4, <2>1, Alone DEF FetchOffset, Then, Done
  <2>3. Untouched'
    BY <1>1, <2>1 DEF FetchOffset, Reads, SameState, Untouched, SameRegs, SameJam
  <2>4. U16(Ahead(2) + offset) = target
    <3>1. byte \in Int /\ before.pc \in Word
      <4>1. byte \in Byte
        BY ByteRange DEF BeforeOK, CodeAt, At
      <4> QED
        BY <4>1, ByteRange DEF BeforeOK
    <3>2. ASSUME NEW p \in Int, NEW o \in Int PROVE U16(U16(p + 2) + o) = U16(p + 2 + o)
      BY DEF U16
    <3>3. offset \in Int /\ before.pc \in Int
      BY <3>1, WordInt
    <3> HIDE DEF offset, byte
    <3>4. U16(U16(before.pc + 2) + offset) = U16(before.pc + 2 + offset)
      BY <3>2, <3>3
    <3> QED
      BY <3>4, Zenon DEF TargetOf, Ahead, offset, byte
  <2> QED
    BY <1>1, <2>2, <2>3, <2>4 DEF BranchCourse
<1>5. CASE todo = <<"BranchTaken">> /\ taken /\ pc = Ahead(2) /\ t.addr = target
  <2>1. BranchTaken /\ Tail(todo) = <<>>
    BY <1>5, Lists, WhichCycle DEF Kind
  <2>2. \/ pc' = pc /\ todo' = <<"BranchFixup">>
        \/ pc' = t.addr /\ todo' = <<>>
    BY <2>1, Alone DEF BranchTaken, Then, Done
  <2>3. Untouched' /\ t' = t
    BY <1>1, <2>1 DEF BranchTaken, Reads, SameState, Untouched, SameRegs, SameJam
  <2> QED
    BY <1>1, <1>5, <2>2, <2>3 DEF BranchCourse
<1>6. CASE todo = <<"BranchFixup">> /\ taken /\ pc = Ahead(2) /\ t.addr = target
  <2>1. BranchFixup /\ Tail(todo) = <<>>
    BY <1>6, Lists, WhichCycle DEF Kind
  <2>2. Untouched' /\ pc' = t.addr /\ todo' = <<>>
    BY <1>1, <2>1 DEF BranchFixup, Done, Reads, SameState, Untouched, SameRegs, SameJam
  <2> QED
    BY <1>1, <1>6, <2>2 DEF BranchCourse
<1> QED
  BY <1>1, <1>4, <1>5, <1>6 DEF BranchCourse

LEMMA AccumKeeps ==
  ASSUME CpuCycle, AccumCourse
  PROVE  AccumCourse'
<1>1. /\ before' = before /\ opcode' = opcode /\ todo # <<>> /\ jammed = before.jammed
      /\ regI = before.i /\ mem = before.mem /\ pc = Ahead(1)
  BY WhichCycle DEF AccumCourse, SameJam
<1>2. todo = <<"AccumRead">> /\ regs = before.regs
  BY <1>1 DEF AccumCourse
<1>3. AccumRead /\ Tail(todo) = <<>>
  BY <1>2, Lists, WhichCycle DEF Kind
<1>4. /\ regs' = [RmwOp(Op, regs, regs.a)[1] EXCEPT !.a = RmwOp(Op, regs, regs.a)[2]]
      /\ mem' = mem /\ pc' = pc /\ regI' = regI /\ jammed' = jammed /\ todo' = <<>>
  BY <1>3 DEF AccumRead, Reads, Done
<1> QED
  BY <1>1, <1>2, <1>4 DEF AccumCourse, SameJam, Ahead, Op

LEMMA PlainKeeps ==
  ASSUME CpuCycle, PlainCourse
  PROVE  PlainCourse'
<1>1. /\ before' = before /\ opcode' = opcode /\ todo # <<>> /\ jammed = before.jammed
      /\ mem = before.mem /\ pc = Ahead(1)
  BY WhichCycle DEF PlainCourse, SameJam
<1>2. todo = <<"ImpliedRead">> /\ Untouched
  BY <1>1 DEF PlainCourse
<1>3. ImpliedRead /\ Tail(todo) = <<>>
  BY <1>2, Lists, WhichCycle DEF Kind
<1>4. /\ regs' = ImpliedOp(Op, regs) /\ regI' = ImpliedI(Op, regI)
      /\ mem' = mem /\ pc' = pc /\ jammed' = jammed /\ todo' = <<>>
  BY <1>3 DEF ImpliedRead, Reads, Done
<1> QED
  BY <1>1, <1>2, <1>4 DEF PlainCourse, SameJam, Ahead, Op, Untouched, SameRegs

(* The discarded read of the four stack instructions does nothing else. *)
LEMMA PlainRead ==
  ASSUME CpuCycle, Kind = "ImpliedRead", Op \in {"PHA", "PHP", "PLA", "PLP"}
  PROVE  /\ regs' = regs /\ regI' = regI /\ mem' = mem /\ pc' = pc /\ jammed' = jammed
         /\ todo' = Tail(todo)
BY WhichCycle DEF ImpliedRead, ImpliedOp, ImpliedI, Reads, Done

LEMMA PushKeeps ==
  ASSUME CpuTypeOK, BeforeOK, CpuCycle, Op \in {"PHA", "PHP"}, unit = "other", PushCourse
  PROVE  PushCourse'
<1> DEFINE push == IF Op = "PHA" THEN "PushA" ELSE "PushFlags"
<1>1. /\ before' = before /\ Op' = Op /\ todo # <<>> /\ jammed = before.jammed
      /\ regI = before.i /\ pc = Ahead(1)
  BY WhichCycle DEF PushCourse, SameJam, Op
<1>2. /\ Head(ImpliedCycles(Op)) = "ImpliedRead" /\ Tail(ImpliedCycles(Op)) = <<push>>
      /\ Head(<<push>>) = push /\ Tail(<<push>>) = <<>>
  BY Lists DEF ImpliedCycles
<1>3. Untouched /\ todo \in {ImpliedCycles(Op), <<push>>}
  BY <1>1, <1>2 DEF PushCourse
<1>4. CASE todo = ImpliedCycles(Op)
  <2>1. /\ regs' = regs /\ regI' = regI /\ mem' = mem /\ pc' = pc /\ jammed' = jammed
        /\ todo' = Tail(ImpliedCycles(Op))
    BY <1>2, <1>4, PlainRead DEF Kind
  <2> QED
    BY <1>1, <1>3, <2>1 DEF PushCourse, SameJam, Ahead, Untouched, SameRegs
<1>5. CASE todo = <<push>>
  <2>1. Kind = push /\ Push
    BY <1>2, <1>5, WhichCycle DEF Kind
  <2>2. /\ ~MasksInterrupts
        /\ PushedByte = (IF Op = "PHA" THEN regs.a ELSE Pack(regs, regI, TRUE))
    BY <2>1 DEF MasksInterrupts, PushedByte, BreakFlag, Entries
  <2>3. /\ todo' = <<>> /\ pc' = pc /\ jammed' = jammed /\ regs' = Shifted(regs, -1) /\ regI' = regI
        /\ mem' = Saved(mem, regs.s, IF Op = "PHA" THEN regs.a ELSE Pack(regs, regI, TRUE))
    BY <1>2, <1>5, <2>1, <2>2, Pushes DEF Done
  <2> QED
    BY <1>1, <1>3, <2>3 DEF PushCourse, SameJam, Ahead, Untouched, SameRegs
<1> QED
  BY <1>3, <1>4, <1>5

LEMMA PullKeeps ==
  ASSUME CpuTypeOK, BeforeOK, CpuCycle, Op \in {"PLA", "PLP"}, unit # "JAM", PullCourse
  PROVE  PullCourse'
<1> DEFINE pull == IF Op = "PLA" THEN "PullA" ELSE "PullFlags"
<1>1. /\ before' = before /\ Op' = Op /\ todo # <<>> /\ jammed = before.jammed
      /\ mem = before.mem /\ pc = Ahead(1)
  BY WhichCycle DEF PullCourse, SameJam, Op
<1>2. /\ Head(ImpliedCycles(Op)) = "ImpliedRead" /\ Tail(ImpliedCycles(Op)) = <<"PeekStack", pull>>
      /\ Head(<<"PeekStack", pull>>) = "PeekStack" /\ Tail(<<"PeekStack", pull>>) = <<pull>>
      /\ Head(<<pull>>) = pull /\ Tail(<<pull>>) = <<>>
  BY Lists DEF ImpliedCycles
<1>3. Untouched /\ todo \in {ImpliedCycles(Op), <<"PeekStack", pull>>, <<pull>>}
  BY <1>1, <1>2 DEF PullCourse
<1>4. CASE todo \in {ImpliedCycles(Op), <<"PeekStack", pull>>}
  <2>1. /\ regs' = regs /\ regI' = regI /\ mem' = mem /\ pc' = pc /\ jammed' = jammed
        /\ todo' = Tail(todo)
    <3>1. CASE todo = ImpliedCycles(Op)
      BY <1>2, <3>1, PlainRead DEF Kind
    <3>2. CASE todo = <<"PeekStack", pull>>
      BY <1>2, <3>2, WhichCycle, Discards DEF Kind, Done
    <3> QED
      BY <1>4, <3>1, <3>2
  <2>2. todo' \in {Tail(ImpliedCycles(Op)), Tail(Tail(ImpliedCycles(Op)))}
    BY <1>2, <1>4, <2>1
  <2> QED
    BY <1>1, <1>3, <2>1, <2>2 DEF PullCourse, SameJam, Ahead, Untouched, SameRegs
<1>5. CASE todo = <<pull>>
  <2>1. Kind = pull /\ Pull
    BY <1>2, <1>5, WhichCycle DEF Kind
  <2>2. /\ At(mem, StackAddr(U8(regs.s + 1))) = Popped(before, 1)
        /\ Shifted(regs, 1) = Shifted(before.regs, 1)
    BY <1>1, <1>3 DEF Popped, Untouched, SameRegs
  <2>3. /\ todo' = <<>> /\ pc' = pc /\ jammed' = jammed /\ mem' = mem
        /\ Op = "PLA" => regs' = LoadA(Shifted(before.regs, 1), Popped(before, 1)) /\ regI' = regI
        /\ Op = "PLP" => /\ regs' = Unpack(Shifted(before.regs, 1), Popped(before, 1))
                         /\ regI' = UnpackI(Popped(before, 1))
    BY <1>2, <1>5, <2>1, <2>2, Pulls DEF Done
  <2> QED
    BY <1>1, <1>3, <2>3 DEF PullCourse, SameJam, Ahead, Untouched, SameRegs
<1> QED
  BY <1>3, <1>4, <1>5

-----------------------------------------------------------------------------
(* Instructions with an addressing mode: the list is what is left of the   *)
(* mode, then the cycles of the operation.                                 *)
Memorial == {"Read", "Write", "UnstableStore", "Rmw"}

LEMMA Joined ==
  ASSUME NEW a \in CycleKinds, NEW b \in CycleKinds, NEW c \in CycleKinds, NEW d \in CycleKinds,
         NEW r \in Seq(CycleKinds)
  PROVE  /\ <<a>> \o r # <<>> /\ Head(<<a>> \o r) = a /\ Tail(<<a>> \o r) = r
         /\ <<a, b>> \o r # <<>> /\ Head(<<a, b>> \o r) = a /\ Tail(<<a, b>> \o r) = <<b>> \o r
         /\ <<a, b, c>> \o r # <<>> /\ Head(<<a, b, c>> \o r) = a
         /\ Tail(<<a, b, c>> \o r) = <<b, c>> \o r
         /\ <<a, b, c, d>> \o r # <<>> /\ Head(<<a, b, c, d>> \o r) = a
         /\ Tail(<<a, b, c, d>> \o r) = <<b, c, d>> \o r
<1> HIDE DEF CycleKinds
<1>1. /\ <<a>> \o r # <<>> /\ Head(<<a>> \o r) = a /\ Tail(<<a>> \o r) = r
  OBVIOUS
<1>2. <<a, b>> \o r # <<>> /\ Head(<<a, b>> \o r) = a /\ Tail(<<a, b>> \o r) = <<b>> \o r
  OBVIOUS
<1>3. /\ <<a, b, c>> \o r # <<>> /\ Head(<<a, b, c>> \o r) = a
      /\ Tail(<<a, b, c>> \o r) = <<b, c>> \o r
  OBVIOUS
<1>4. /\ <<a, b, c, d>> \o r # <<>> /\ Head(<<a, b, c, d>> \o r) = a
      /\ Tail(<<a, b, c, d>> \o r) = <<b, c, d>> \o r
  OBVIOUS
<1> QED
  BY <1>1, <1>2, <1>3, <1>4

(* The cycles of the addressing modes.                                      *)
AddressKinds ==
  {"FetchZeroPage", "IndexZeroPage", "PointerLow", "PointerHigh", "FetchLow", "FetchHigh", "Unfixed"}

LEMMA AddressKindsOK == AddressKinds \subseteq CycleKinds
BY DEF AddressKinds, CycleKinds

LEMMA OperandTails ==
  ASSUME NEW shape \in Memorial
  PROVE  OperandCycles(shape) \in Seq(CycleKinds) /\ OperandCycles(shape) # <<>>
<1>1. {"ReadOperand", "WriteOperand", "WriteUnstable", "RmwRead", "RmwDummy", "RmwWrite"}
        \subseteq CycleKinds
  BY DEF CycleKinds
<1> HIDE DEF CycleKinds
<1>2. CASE shape = "Read"
  BY <1>1, <1>2 DEF OperandCycles
<1>3. CASE shape = "Write"
  BY <1>1, <1>3 DEF OperandCycles
<1>4. CASE shape = "UnstableStore"
  BY <1>1, <1>4 DEF OperandCycles
<1>5. CASE shape = "Rmw"
  BY <1>1, <1>5 DEF OperandCycles
<1> QED
  BY <1>2, <1>3, <1>4, <1>5 DEF Memorial

(* What is known at the beginning of a call. *)
LEMMA BeforeFacts ==
  ASSUME BeforeOK
  PROVE  /\ \A k : CodeAt(before, k) \in Byte
         /\ \A addr : At(before.mem, addr) \in Byte
         /\ \A p : WordIn(before, p) \in Word
         /\ OperandWord(before) \in Word
         /\ \A mode : BaseOf(before, mode) \in Word
         /\ before.regs.x \in Byte /\ before.regs.y \in Byte /\ before.regs.s \in Byte
<1>1. 0 \in Byte /\ 0 \in Word
  BY ByteRange, WordRange
<1>2. ASSUME NEW addr PROVE At(before.mem, addr) \in Byte
  BY <1>1 DEF BeforeOK, At
<1>3. ASSUME NEW k PROVE CodeAt(before, k) \in Byte
  BY <1>2 DEF CodeAt
<1>4. ASSUME NEW p PROVE WordIn(before, p) \in Word
  BY <1>2, WordOfWord DEF WordIn
<1>5. OperandWord(before) \in Word
  BY <1>3, WordOfWord DEF OperandWord
<1>6. ASSUME NEW mode PROVE BaseOf(before, mode) \in Word
  BY <1>1, <1>4, <1>5 DEF BaseOf
<1>7. before.regs.x \in Byte /\ before.regs.y \in Byte /\ before.regs.s \in Byte
  BY DEF BeforeOK, Registers
<1> QED
  BY <1>2, <1>3, <1>4, <1>5, <1>6, <1>7

LEMMA IndexedBase ==
  ASSUME BeforeOK, regs = before.regs,
         Mode \in {"Absolute", "AbsoluteX", "AbsoluteY", "IndirectX", "IndirectY"}
  PROVE  LET base == IF Mode = "IndirectX" THEN WordIn(before, PointerOf(before, Mode))
                     ELSE BaseOf(before, Mode)
         IN  base \in Word /\ U16(base + PostIndex) = AddrOf(before, Mode)
<1> DEFINE base == IF Mode = "IndirectX" THEN WordIn(before, PointerOf(before, Mode))
                   ELSE BaseOf(before, Mode)
<1>1. base \in Word
  BY BeforeFacts
<1>2. base + 0 = base /\ U16(base + 0) = base
  BY <1>1, WordInt, Further
<1> HIDE DEF base
<1>3. CASE Mode \in {"Absolute", "IndirectX"}
  <2>1. U16(base + PostIndex) = base
    BY <1>2, <1>3 DEF PostIndex
  <2>2. AddrOf(before, Mode) = base
    BY <1>3 DEF AddrOf, base, PointerOf
  <2> QED
    BY <1>1, <2>1, <2>2 DEF base
<1>4. CASE Mode = "AbsoluteX"
  <2>1. PostIndex = before.regs.x
    BY <1>4 DEF PostIndex
  <2>2. AddrOf(before, Mode) = U16(base + before.regs.x)
    BY <1>4 DEF AddrOf, base
  <2> QED
    BY <1>1, <2>1, <2>2 DEF base
<1>5. CASE Mode \in {"AbsoluteY", "IndirectY"}
  <2>1. PostIndex = before.regs.y
    BY <1>5 DEF PostIndex
  <2>2. AddrOf(before, Mode) = U16(base + before.regs.y)
    BY <1>5 DEF AddrOf, base
  <2> QED
    BY <1>1, <2>1, <2>2 DEF base
<1> QED
  BY <1>3, <1>4, <1>5

(* Indexing the base: the effective address, with or without a fixup to come. *)
LEMMA Resolves ==
  ASSUME CpuTypeOK, BeforeOK, regs = before.regs,
         Mode \in {"Absolute", "AbsoluteX", "AbsoluteY", "IndirectX", "IndirectY"},
         NEW base, Resolve(base),
         base = IF Mode = "IndirectX" THEN WordIn(before, PointerOf(before, Mode))
                ELSE BaseOf(before, Mode)
  PROVE  /\ t'.addr = AddrOf(before, Mode) /\ (Indexed => t'.base = BaseOf(before, Mode))
         /\ todo' \in {Tail(todo), <<"Unfixed">> \o Tail(todo)}
<1>1. U16(base + PostIndex) = AddrOf(before, Mode)
  BY IndexedBase
<1>2. t'.addr = U16(base + PostIndex) /\ t'.base = base
  BY DEF Resolve, CpuTypeOK
<1>3. todo' \in {Tail(todo), <<"Unfixed">> \o Tail(todo)}
  BY DEF Resolve, Then, Done
<1>4. Indexed => base = BaseOf(before, Mode)
  BY DEF Indexed
<1> QED
  BY <1>1, <1>2, <1>3, <1>4

LEMMA FirstCycles ==
  ASSUME CpuTypeOK, BeforeOK, CpuCycle, ShapeOf(opcode) \in Memorial,
         Untouched, Mode # "Immediate", todo = ModeCycles(Mode) \o Rest, pc = Ahead(1)
  PROVE  AddressCourse'
<1>1. /\ before' = before /\ opcode' = opcode /\ Mode' = Mode /\ Rest' = Rest
      /\ Rest \in Seq(CycleKinds) /\ Mode \in MemoryModes
      /\ Ahead(2) = U16(Ahead(1) + 1)
  <2>1. Mode \in MemoryModes
    BY TableModes DEF Mode, Memorial, CpuTypeOK, MemoryModes
  <2> QED
    BY <2>1, WhichCycle, OperandTails, Further DEF Mode, Rest, Ahead, BeforeOK
<1>2. t \in [lo : Byte, base : Word, addr : Word, value : Byte]
  BY DEF CpuTypeOK
<1>3. Peek(pc) = CodeAt(before, 1)
  BY DEF Peek, CodeAt, Untouched, Ahead
<1> HIDE DEF CycleKinds
<1>4. ASSUME FetchZeroPage
      PROVE  /\ pc' = (Ahead(2))' /\ t'.addr = CodeAt(before, 1) /\ Untouched' /\ todo' = Tail(todo)
  BY <1>1, <1>2, <1>3, <1>4
     DEF FetchZeroPage, Done, SameState, Reads, Untouched, SameRegs, SameJam, Ahead
<1>5. CASE Mode = "ZeroPage"
  <2>1. todo = <<"FetchZeroPage">> \o Rest
    BY <1>5 DEF ModeCycles
  <2>2. Kind = "FetchZeroPage" /\ Tail(todo) = Rest
    BY <1>1, <2>1, Joined, AddressKindsOK DEF Kind, AddressKinds
  <2>3. FetchZeroPage /\ todo' = Rest
    BY <1>4, <2>2, WhichCycle
  <2>4. Behind = Ahead(2) /\ AddrOf(before, Mode) = CodeAt(before, 1) /\ ~Indexed
    BY <1>5 DEF Behind, InstructionLength, OperandBytes, Mode, AddrOf, Indexed
  <2>5. Addressed'
    BY <1>1, <1>4, <1>5, <2>3, <2>4 DEF Addressed, Behind, Indexed, Ahead
  <2> QED
    BY <1>1, <1>4, <2>3, <2>5 DEF AddressCourse
<1>6. CASE Mode \in {"ZeroPageX", "ZeroPageY"}
  <2>1. todo = <<"FetchZeroPage", "IndexZeroPage">> \o Rest
    BY <1>6 DEF ModeCycles
  <2>2. Kind = "FetchZeroPage" /\ Tail(todo) = <<"IndexZeroPage">> \o Rest
    BY <1>1, <2>1, Joined, AddressKindsOK DEF Kind, AddressKinds
  <2>3. FetchZeroPage /\ todo' = <<"IndexZeroPage">> \o Rest
    BY <1>4, <2>2, WhichCycle
  <2> QED
    BY <1>1, <1>4, <1>6, <2>3 DEF AddressCourse
<1>7. CASE Mode = "IndirectX"
  <2>1. todo = <<"FetchZeroPage", "IndexZeroPage", "PointerLow", "PointerHigh">> \o Rest
    BY <1>7 DEF ModeCycles
  <2>2. Kind = "FetchZeroPage"
        /\ Tail(todo) = <<"IndexZeroPage", "PointerLow", "PointerHigh">> \o Rest
    BY <1>1, <2>1, Joined, AddressKindsOK DEF Kind, AddressKinds
  <2>3. FetchZeroPage /\ todo' = <<"IndexZeroPage", "PointerLow", "PointerHigh">> \o Rest
    BY <1>4, <2>2, WhichCycle
  <2> QED
    BY <1>1, <1>4, <1>7, <2>3 DEF AddressCourse
<1>8. CASE Mode = "IndirectY"
  <2>1. todo = <<"FetchZeroPage", "PointerLow", "PointerHigh">> \o Rest
    BY <1>8 DEF ModeCycles
  <2>2. Kind = "FetchZeroPage" /\ Tail(todo) = <<"PointerLow", "PointerHigh">> \o Rest
    BY <1>1, <2>1, Joined, AddressKindsOK DEF Kind, AddressKinds
  <2>3. FetchZeroPage /\ todo' = <<"PointerLow", "PointerHigh">> \o Rest
    BY <1>4, <2>2, WhichCycle
  <2>4. PointerOf(before, Mode) = CodeAt(before, 1)
    BY <1>8 DEF PointerOf
  <2> QED
    BY <1>1, <1>4, <1>8, <2>3, <2>4 DEF AddressCourse
<1>9. CASE Mode \in {"Absolute", "AbsoluteX", "AbsoluteY"}
  <2>1. todo = <<"FetchLow", "FetchHigh">> \o Rest
    BY <1>9 DEF ModeCycles
  <2>2. Kind = "FetchLow" /\ Tail(todo) = <<"FetchHigh">> \o Rest
    BY <1>1, <2>1, Joined, AddressKindsOK DEF Kind, AddressKinds
  <2>3. FetchLow
    BY <2>2, WhichCycle
  <2>4. /\ pc' = (Ahead(2))' /\ t'.lo = CodeAt(before, 1) /\ Untouched'
        /\ todo' = <<"FetchHigh">> \o Rest
    BY <1>1, <1>2, <1>3, <2>2, <2>3
       DEF FetchLow, Done, SameState, Reads, Untouched, SameRegs, SameJam, Ahead
  <2> QED
    BY <1>1, <1>9, <2>4 DEF AddressCourse
<1> QED
  BY <1>1, <1>5, <1>6, <1>7, <1>8, <1>9 DEF MemoryModes

LEMMA LaterCycles ==
  ASSUME CpuTypeOK, BeforeOK, CpuCycle, ShapeOf(opcode) \in Memorial, AddressCourse,
         ~(Mode # "Immediate" /\ todo = ModeCycles(Mode) \o Rest /\ pc = Ahead(1)),
         ~(todo = Rest /\ Addressed)
  PROVE  AddressCourse'
<1>1. /\ before' = before /\ opcode' = opcode /\ Mode' = Mode /\ Rest' = Rest
      /\ Rest \in Seq(CycleKinds) /\ Mode \in MemoryModes \cup {"Immediate"}
      /\ Untouched /\ regs = before.regs /\ mem = before.mem
  <2>1. Mode \in MemoryModes \cup {"Immediate"}
    BY TableModes DEF Mode, Memorial, CpuTypeOK, MemoryModes
  <2> QED
    BY <2>1, WhichCycle, OperandTails DEF Mode, Rest, AddressCourse, Untouched, SameRegs
<1>2. t \in [lo : Byte, base : Word, addr : Word, value : Byte]
  BY DEF CpuTypeOK
<1> HIDE DEF CycleKinds
<1>3. CASE /\ Mode \in {"Absolute", "AbsoluteX", "AbsoluteY"}
           /\ todo = <<"FetchHigh">> \o Rest /\ pc = Ahead(2) /\ t.lo = CodeAt(before, 1)
  <2>1. Kind = "FetchHigh" /\ Tail(todo) = Rest
    BY <1>1, <1>3, Joined, AddressKindsOK DEF Kind, AddressKinds
  <2>2. FetchHigh
    BY <2>1, WhichCycle
  <2>3. WordOf(t.lo, Peek(pc)) = BaseOf(before, Mode)
    BY <1>1, <1>3 DEF Peek, CodeAt, Ahead, OperandWord, BaseOf
  <2>4. Resolve(BaseOf(before, Mode)) /\ pc' = U16(pc + 1) /\ Untouched'
    BY <1>1, <2>2, <2>3 DEF FetchHigh, SameState, Reads, Untouched, SameRegs, SameJam
  <2>5. /\ t'.addr = AddrOf(before, Mode) /\ (Indexed => t'.base = BaseOf(before, Mode))
        /\ todo' \in {Rest, <<"Unfixed">> \o Rest}
    BY <1>1, <1>3, <2>1, <2>4, Resolves
  <2>6. pc' = Behind
    BY <1>3, <2>4, Further DEF Behind, Ahead, InstructionLength, OperandBytes, Mode, BeforeOK
  <2>7. Addressed'
    BY <1>1, <1>3, <2>5, <2>6 DEF Addressed, Behind, Ahead, Indexed
  <2> QED
    BY <1>1, <2>4, <2>5, <2>7 DEF AddressCourse
<1>4. CASE /\ Mode \in {"ZeroPageX", "ZeroPageY"}
           /\ todo = <<"IndexZeroPage">> \o Rest /\ pc = Ahead(2) /\ t.addr = CodeAt(before, 1)
  <2>1. Kind = "IndexZeroPage" /\ Tail(todo) = Rest
    BY <1>1, <1>4, Joined, AddressKindsOK DEF Kind, AddressKinds
  <2>2. IndexZeroPage
    BY <2>1, WhichCycle
  <2>3. U8(t.addr + PreIndex) = AddrOf(before, Mode) /\ Behind = Ahead(2) /\ ~Indexed
    BY <1>1, <1>4 DEF PreIndex, AddrOf, Behind, InstructionLength, OperandBytes, Mode, Indexed
  <2>4. t'.addr = AddrOf(before, Mode) /\ pc' = Behind /\ Untouched' /\ todo' = Rest
    BY <1>1, <1>2, <1>4, <2>1, <2>2, <2>3
       DEF IndexZeroPage, Done, SameState, Reads, Untouched, SameRegs, SameJam
  <2>5. Addressed'
    BY <1>1, <1>4, <2>3, <2>4 DEF Addressed, Behind, Ahead, Indexed
  <2> QED
    BY <1>1, <2>4, <2>5 DEF AddressCourse
<1>5. CASE /\ Mode = "IndirectX" /\ todo = <<"IndexZeroPage", "PointerLow", "PointerHigh">> \o Rest
           /\ pc = Ahead(2) /\ t.addr = CodeAt(before, 1)
  <2>1. Kind = "IndexZeroPage" /\ Tail(todo) = <<"PointerLow", "PointerHigh">> \o Rest
    BY <1>1, <1>5, Joined, AddressKindsOK DEF Kind, AddressKinds
  <2>2. IndexZeroPage
    BY <2>1, WhichCycle
  <2>3. U8(t.addr + PreIndex) = PointerOf(before, Mode)
    BY <1>1, <1>5 DEF PreIndex, PointerOf
  <2>4. /\ t'.addr = PointerOf(before, Mode) /\ pc' = Ahead(2) /\ Untouched'
        /\ todo' = <<"PointerLow", "PointerHigh">> \o Rest
    BY <1>1, <1>2, <1>5, <2>1, <2>2, <2>3
       DEF IndexZeroPage, Done, SameState, Reads, Untouched, SameRegs, SameJam
  <2> QED
    BY <1>1, <1>5, <2>4 DEF AddressCourse, Ahead
<1>6. CASE /\ Mode \in {"IndirectX", "IndirectY"}
           /\ todo = <<"PointerLow", "PointerHigh">> \o Rest
           /\ pc = Ahead(2) /\ t.addr = PointerOf(before, Mode)
  <2>1. Kind = "PointerLow" /\ Tail(todo) = <<"PointerHigh">> \o Rest
    BY <1>1, <1>6, Joined, AddressKindsOK DEF Kind, AddressKinds
  <2>2. PointerLow
    BY <2>1, WhichCycle
  <2>3. /\ t'.addr = t.addr /\ t'.lo = At(mem', t'.addr) /\ pc' = Ahead(2) /\ Untouched'
        /\ todo' = <<"PointerHigh">> \o Rest
    BY <1>1, <1>2, <1>6, <2>1, <2>2
       DEF PointerLow, Done, SameState, Reads, Peek, Untouched, SameRegs, SameJam
  <2> QED
    BY <1>1, <1>6, <2>3 DEF AddressCourse, Ahead
<1>7. CASE /\ Mode \in {"IndirectX", "IndirectY"} /\ todo = <<"PointerHigh">> \o Rest
           /\ pc = Ahead(2) /\ t.addr = PointerOf(before, Mode) /\ t.lo = At(mem, t.addr)
  <2> DEFINE base == IF Mode = "IndirectX" THEN WordIn(before, PointerOf(before, Mode))
                     ELSE BaseOf(before, Mode)
  <2>1. Kind = "PointerHigh" /\ Tail(todo) = Rest
    BY <1>1, <1>7, Joined, AddressKindsOK DEF Kind, AddressKinds
  <2>2. PointerHigh
    BY <2>1, WhichCycle
  <2>3. WordOf(t.lo, Peek(U8(t.addr + 1))) = base
    BY <1>1, <1>7 DEF Peek, WordIn, BaseOf, PointerOf
  <2>4. Resolve(base) /\ pc' = Ahead(2) /\ Untouched'
    BY <1>1, <1>7, <2>2, <2>3 DEF PointerHigh, SameState, Reads, Untouched, SameRegs, SameJam
  <2>5. /\ t'.addr = AddrOf(before, Mode) /\ (Indexed => t'.base = BaseOf(before, Mode))
        /\ todo' \in {Rest, <<"Unfixed">> \o Rest}
    BY <1>1, <1>7, <2>1, <2>4, Resolves
  <2>6. pc' = Behind
    BY <1>7, <2>4 DEF Behind, InstructionLength, OperandBytes, Mode
  <2>7. Addressed'
    BY <1>1, <1>7, <2>5, <2>6 DEF Addressed, Behind, Ahead, Indexed
  <2> QED
    BY <1>1, <2>4, <2>5, <2>7 DEF AddressCourse
<1>8. CASE todo = <<"Unfixed">> \o Rest /\ Addressed
  <2>1. Kind = "Unfixed" /\ Tail(todo) = Rest
    BY <1>1, <1>8, Joined, AddressKindsOK DEF Kind, AddressKinds
  <2>2. Unfixed
    BY <2>1, WhichCycle
  <2>3. /\ t' = t /\ pc' = pc /\ Untouched' /\ todo' = Rest
    BY <1>1, <2>1, <2>2 DEF Unfixed, Done, SameState, Reads, Untouched, SameRegs, SameJam
  <2>4. Addressed'
    BY <1>1, <1>8, <2>3 DEF Addressed, Behind, Ahead, Indexed
  <2> QED
    BY <1>1, <2>3, <2>4 DEF AddressCourse
<1> QED
  BY <1>3, <1>4, <1>5, <1>6, <1>7, <1>8 DEF AddressCourse

(* The operation, once the operand has its address. *)
LEMMA OperandFacts ==
  ASSUME CpuTypeOK, BeforeOK, CpuCycle, ShapeOf(opcode) \in Memorial
  PROVE  /\ before' = before /\ opcode' = opcode /\ Mode' = Mode /\ Op' = Op
         /\ Behind' = Behind /\ AddrOf(before, Mode)' = AddrOf(before, Mode)
         /\ ShapeOf(opcode) # "Read" => Mode # "Immediate"
         /\ ShapeOf(opcode) = "UnstableStore" => Indexed
         /\ t \in [lo : Byte, base : Word, addr : Word, value : Byte]
<1>1. /\ ShapeOf(opcode) # "Read" => Mode # "Immediate"
      /\ ShapeOf(opcode) = "UnstableStore" => Indexed
  BY TableModes DEF Mode, Memorial, CpuTypeOK, MemoryModes, Indexed
<1> QED
  BY <1>1, WhichCycle DEF Mode, Op, Behind, Ahead, CpuTypeOK

LEMMA ReadKeeps ==
  ASSUME CpuTypeOK, BeforeOK, CpuCycle, ShapeOf(opcode) = "Read", Untouched, Addressed, todo = Rest
  PROVE  OperandCourse'
<1> DEFINE addr == AddrOf(before, Mode)
<1>1. /\ before' = before /\ opcode' = opcode /\ Mode' = Mode /\ Op' = Op /\ Behind' = Behind
      /\ addr' = addr
  BY OperandFacts DEF Memorial
<1>2. todo = <<"ReadOperand">>
  BY DEF Rest, OperandCycles
<1>3. ReadOperand /\ Tail(todo) = <<>>
  BY <1>2, Lists, WhichCycle DEF Kind
<1>4. /\ regs = before.regs /\ regI = before.i /\ mem = before.mem /\ jammed = before.jammed
  BY DEF Untouched, SameRegs, SameJam
<1>5. CASE Mode = "Immediate"
  <2>1. pc = addr /\ pc = Ahead(1) /\ Behind = Ahead(2)
    BY <1>5 DEF AddrOf, Addressed, Ahead, Behind, InstructionLength, OperandBytes, Mode
  <2>2. /\ regs' = ReadOp(Op, regs, At(mem, addr)) /\ pc' = U16(pc + 1) /\ mem' = mem
        /\ regI' = regI /\ jammed' = jammed /\ todo' = <<>>
    BY <1>3, <1>5, <2>1 DEF ReadOperand, PastOperand, Reads, Peek, Done
  <2>3. pc' = Behind
    BY <2>1, <2>2, Further DEF Ahead, BeforeOK
  <2> HIDE DEF addr
  <2>4. ReadDone'
    BY <1>1, <1>4, <2>2 DEF ReadDone, addr
  <2> QED
    BY <1>1, <1>4, <2>2, <2>3, <2>4 DEF OperandCourse, SameJam
<1>6. CASE Mode # "Immediate"
  <2>1. t.addr = addr /\ pc = Behind
    BY <1>6 DEF Addressed
  <2>2. /\ regs' = ReadOp(Op, regs, At(mem, addr)) /\ pc' = pc /\ mem' = mem
        /\ regI' = regI /\ jammed' = jammed /\ todo' = <<>>
    BY <1>3, <1>6, <2>1 DEF ReadOperand, PastOperand, Reads, Peek, Done
  <2> HIDE DEF addr
  <2>3. ReadDone'
    BY <1>1, <1>4, <2>2 DEF ReadDone, addr
  <2> QED
    BY <1>1, <1>4, <2>1, <2>2, <2>3 DEF OperandCourse, SameJam
<1> QED
  BY <1>5, <1>6

LEMMA WriteKeeps ==
  ASSUME CpuTypeOK, BeforeOK, CpuCycle, ShapeOf(opcode) = "Write", Untouched, Addressed, todo = Rest
  PROVE  OperandCourse'
<1> DEFINE addr == AddrOf(before, Mode)
<1>1. /\ before' = before /\ opcode' = opcode /\ Mode' = Mode /\ Op' = Op /\ Behind' = Behind
      /\ addr' = addr /\ Mode # "Immediate"
  BY OperandFacts DEF Memorial
<1>2. todo = <<"WriteOperand">>
  BY DEF Rest, OperandCycles
<1>3. WriteOperand /\ Tail(todo) = <<>>
  BY <1>2, Lists, WhichCycle DEF Kind
<1>4. /\ regs = before.regs /\ regI = before.i /\ mem = before.mem /\ jammed = before.jammed
  BY DEF Untouched, SameRegs, SameJam
<1>5. t.addr = addr /\ pc = Behind
  BY <1>1 DEF Addressed
<1>6. /\ mem' = Put(mem, addr, StoreOp(Op, regs)) /\ pc' = pc /\ regs' = regs
      /\ regI' = regI /\ jammed' = jammed /\ todo' = <<>>
  BY <1>3, <1>5 DEF WriteOperand, Writes, SameState, Done
<1> HIDE DEF addr
<1>7. WriteDone'
  BY <1>1, <1>4, <1>6 DEF WriteDone, addr
<1> QED
  BY <1>1, <1>4, <1>5, <1>6, <1>7 DEF OperandCourse, SameJam

LEMMA UnstableKeeps ==
  ASSUME CpuTypeOK, BeforeOK, CpuCycle, ShapeOf(opcode) = "UnstableStore", Untouched, Addressed,
         todo = Rest
  PROVE  OperandCourse'
<1> DEFINE addr   == AddrOf(before, Mode)
           base   == BaseOf(before, Mode)
           source == StoreOp(Op, before.regs)
           value  == And(source, U8(Page(base) + 1))
           place  == IF CrossesPage(base, addr) THEN WordOf(U8(addr), value) ELSE addr
<1>1. /\ before' = before /\ opcode' = opcode /\ Mode' = Mode /\ Op' = Op /\ Behind' = Behind
      /\ addr' = addr /\ Mode # "Immediate" /\ Indexed
  BY OperandFacts DEF Memorial
<1>2. todo = <<"WriteUnstable">>
  BY DEF Rest, OperandCycles
<1>3. WriteUnstable /\ Tail(todo) = <<>>
  BY <1>2, Lists, WhichCycle DEF Kind
<1>4. /\ regs = before.regs /\ regI = before.i /\ mem = before.mem /\ jammed = before.jammed
  BY DEF Untouched, SameRegs, SameJam
<1>5. t.addr = addr /\ pc = Behind /\ t.base = base
  BY <1>1 DEF Addressed
<1>6. /\ mem' = Put(mem, place, value) /\ pc' = pc
      /\ regs' = (IF Op = "TAS" THEN [before.regs EXCEPT !.s = source] ELSE before.regs)
      /\ regI' = regI /\ jammed' = jammed /\ todo' = <<>>
  <2> HIDE DEF addr, base
  <2> QED
    BY <1>3, <1>4, <1>5 DEF WriteUnstable, Writes, Done
<1>7. UnstableDone'
  <2>1. base' = base /\ source' = source
    BY <1>1
  <2> HIDE DEF addr, base, source
  <2>2. UnstableDone' <=>
          /\ regs' = (IF Op' = "TAS" THEN [before'.regs EXCEPT !.s = source'] ELSE before'.regs)
          /\ mem' = Put(before'.mem, place', value')
    BY DEF UnstableDone, addr, base, source
  <2>3. value' = value /\ place' = place
    BY <1>1, <2>1
  <2> HIDE DEF place, value
  <2> QED
    BY <1>1, <1>4, <1>6, <2>1, <2>2, <2>3
<1> QED
  BY <1>1, <1>4, <1>5, <1>6, <1>7 DEF OperandCourse, SameJam

LEMMA PutTwice ==
  ASSUME NEW m, NEW a, NEW u, NEW v
  PROVE  Put(Put(m, a, u), a, v) = Put(m, a, v)
BY Zenon DEF Put

LEMMA RmwKeeps ==
  ASSUME CpuTypeOK, BeforeOK, CpuCycle, ShapeOf(opcode) = "Rmw", SameJam, regI = before.i,
         \/ Untouched /\ Addressed /\ todo = Rest
         \/ RmwCourse
  PROVE  OperandCourse'
<1> DEFINE addr == AddrOf(before, Mode)
           old  == At(before.mem, addr)
<1>1. /\ before' = before /\ opcode' = opcode /\ Mode' = Mode /\ Op' = Op /\ Behind' = Behind
      /\ addr' = addr /\ Mode # "Immediate" /\ Indexed' = Indexed
      /\ BaseOf(before, Mode)' = BaseOf(before, Mode)
  BY OperandFacts DEF Memorial, Indexed
<1>2. t \in [lo : Byte, base : Word, addr : Word, value : Byte]
  BY DEF CpuTypeOK
<1>3. CASE Untouched /\ Addressed /\ todo = Rest
  <2>1. todo = <<"RmwRead", "RmwDummy", "RmwWrite">>
    BY <1>3 DEF Rest, OperandCycles
  <2>2. RmwRead /\ Tail(todo) = <<"RmwDummy", "RmwWrite">>
    BY <2>1, Lists, WhichCycle DEF Kind
  <2>3. t.addr = addr /\ mem = before.mem
    BY <1>1, <1>3 DEF Addressed, Untouched
  <2>4. /\ t'.addr = t.addr /\ t'.base = t.base /\ t'.value = old /\ pc' = pc /\ mem' = mem
        /\ regs' = regs /\ regI' = regI /\ jammed' = jammed
        /\ todo' = <<"RmwDummy", "RmwWrite">>
    BY <1>2, <2>2, <2>3 DEF RmwRead, Reads, Peek, SameState, Done
  <2> HIDE DEF addr
  <2>5. Addressed'
    BY <1>1, <1>3, <2>4 DEF Addressed, addr
  <2>6. RmwCourse'
    BY <1>1, <1>3, <2>3, <2>4, <2>5 DEF RmwCourse, Untouched, SameRegs, addr
  <2> QED
    BY <1>1, <2>4, <2>6 DEF OperandCourse, SameJam
<1>4. CASE RmwCourse
  <2>1. /\ regs = before.regs /\ t.addr = addr /\ t.value = old /\ Addressed /\ pc = Behind
    BY <1>1, <1>4 DEF RmwCourse, SameRegs, Addressed
  <2>2. CASE todo = <<"RmwDummy", "RmwWrite">> /\ mem = before.mem
    <3>1. RmwDummy /\ Tail(todo) = <<"RmwWrite">>
      BY <2>2, Lists, WhichCycle DEF Kind
    <3>2. /\ t' = t /\ pc' = pc /\ regs' = regs /\ regI' = regI /\ jammed' = jammed
          /\ mem' \in {before.mem, Put(before.mem, addr, old)} /\ todo' = <<"RmwWrite">>
      BY <2>1, <2>2, <3>1 DEF RmwDummy, Reads, Writes, SameState, Done
    <3> HIDE DEF addr
    <3>3. Addressed'
      BY <1>1, <2>1, <3>2 DEF Addressed, addr
    <3>4. RmwCourse'
      BY <1>1, <2>1, <3>2, <3>3 DEF RmwCourse, SameRegs, addr
    <3> QED
      BY <1>1, <3>2, <3>4 DEF OperandCourse, SameJam
  <2>3. CASE todo = <<"RmwWrite">> /\ mem \in {before.mem, Put(before.mem, addr, old)}
    <3> DEFINE result == RmwOp(Op, before.regs, old)
    <3>1. RmwWrite /\ Tail(todo) = <<>>
      BY <2>3, Lists, WhichCycle DEF Kind
    <3>2. /\ pc' = pc /\ regs' = result[1] /\ regI' = regI /\ jammed' = jammed
          /\ mem' = Put(mem, addr, result[2]) /\ todo' = <<>>
      BY <2>1, <3>1 DEF RmwWrite, Writes, Done
    <3>3. mem' = Put(before.mem, addr, result[2])
      BY <2>3, <3>2, PutTwice
    <3> HIDE DEF addr
    <3>4. RmwDone'
      BY <1>1, <3>2, <3>3 DEF RmwDone, addr
    <3> QED
      BY <1>1, <2>1, <3>2, <3>4 DEF OperandCourse, SameJam
  <2>4. todo # <<>>
    BY WhichCycle
  <2> QED
    BY <1>4, <2>2, <2>3 DEF RmwCourse
<1> QED
  BY <1>3, <1>4

LEMMA OperandKeeps ==
  ASSUME CpuTypeOK, BeforeOK, CpuCycle, ShapeOf(opcode) \in Memorial, OperandCourse
  PROVE  OperandCourse'
<1>1. todo # <<>> /\ SameJam /\ regI = before.i /\ before' = before
  BY WhichCycle DEF OperandCourse
<1>2. ASSUME AddressCourse' PROVE OperandCourse'
  BY <1>2 DEF OperandCourse, AddressCourse, Untouched, SameRegs
<1>3. CASE AddressCourse
  <2>1. Untouched
    BY <1>3 DEF AddressCourse
  <2>2. CASE Mode # "Immediate" /\ todo = ModeCycles(Mode) \o Rest /\ pc = Ahead(1)
    BY <1>2, <2>1, <2>2, FirstCycles
  <2>3. CASE todo = Rest /\ Addressed
    BY <1>1, <2>1, <2>3, ReadKeeps, WriteKeeps, UnstableKeeps, RmwKeeps DEF Memorial
  <2> QED
    BY <1>2, <1>3, <2>2, <2>3, LaterCycles
<1>4. CASE RmwCourse
  BY <1>1, <1>4, RmwKeeps DEF RmwCourse
<1> QED
  BY <1>1, <1>3, <1>4 DEF OperandCourse

-----------------------------------------------------------------------------
(* Every family together. *)
LEMMA Families ==
  ASSUME NEW code
  PROVE  /\ ShapeOf(code) \in Memorial \cup {"Special", "Branch", "Accum", "Implied"}
         /\ ShapeOf(code) = "Special" <=> OpOf(code) \in SpecialOps
         /\ OpOf(code) \in {"BRK", "RTI", "JAM"} => UnitOf(code) = OpOf(code)
         /\ OpOf(code) \in {"JSR", "RTS", "JMP_ABS", "JMP_IND", "PHA", "PHP", "PLA"} =>
              UnitOf(code) = "other"
         /\ OpOf(code) = "PLP" => UnitOf(code) = "PLP"
         /\ UnitOf(code) \in Instructions
<1> DEFINE op == OpOf(code)
<1>1. ShapeOf(code) \in Memorial \cup {"Special", "Branch", "Accum", "Implied"}
  BY DEF ShapeOf, Memorial
<1>2. op \in SpecialOps => op \notin RmwOps \cup WriteOps \cup UnstableOps \cup BranchOps
  BY DEF SpecialOps, RmwOps, WriteOps, UnstableOps, BranchOps
<1>3. ShapeOf(code) = "Special" <=> op \in SpecialOps
  BY <1>2 DEF ShapeOf
<1>4. UnitOf(code) = (IF op \in Instructions THEN op ELSE "other")
  BY DEF UnitOf
<1> HIDE DEF op
<1>5. /\ op \in {"BRK", "RTI", "JAM"} => UnitOf(code) = op
      /\ op \in {"JSR", "RTS", "JMP_ABS", "JMP_IND", "PHA", "PHP", "PLA"} => UnitOf(code) = "other"
      /\ op = "PLP" => UnitOf(code) = "PLP"
      /\ UnitOf(code) \in Instructions
  BY <1>4 DEF Instructions
<1> QED
  BY <1>1, <1>3, <1>5 DEF op

LEMMA InstructionKeeps ==
  ASSUME CpuTypeOK, BeforeOK, Scheduled, CpuCycle, InstructionCourse
  PROVE  InstructionCourse'
<1> DEFINE shape == ShapeOf(opcode)
<1>1. /\ before' = before /\ opcode' = opcode /\ unit' = unit /\ Op' = Op /\ shape' = shape
      /\ unit = UnitOf(opcode)
      /\ before.jammed = FALSE /\ opcode = CodeAt(before, 0)
  BY WhichCycle DEF Op, InstructionCourse
<1>2. ASSUME shape = "Special" PROVE SpecialCourse'
  <2>1. SpecialCourse /\ Op \in SpecialOps
    BY <1>2, Families DEF InstructionCourse, Op
  <2>2. CASE Op = "BRK"
    BY <1>1, <2>1, <2>2, Families, BreakKeeps DEF SpecialCourse, Op
  <2>3. CASE Op = "JSR"
    BY <1>1, <2>1, <2>3, Families, CallKeeps DEF SpecialCourse, Op
  <2>4. CASE Op = "RTS"
    BY <1>1, <2>1, <2>4, Families, ReturnKeeps DEF SpecialCourse, Op
  <2>5. CASE Op = "RTI"
    BY <1>1, <2>1, <2>5, Families, ReturnFromInterruptKeeps DEF SpecialCourse, Op
  <2>6. CASE Op = "JMP_ABS"
    BY <1>1, <2>1, <2>6, Families, JumpKeeps DEF SpecialCourse, Op
  <2>7. CASE Op = "JMP_IND"
    BY <1>1, <2>1, <2>7, Families, IndirectJumpKeeps DEF SpecialCourse, Op
  <2>8. CASE Op = "JAM"
    BY <1>1, <2>1, <2>8, Families, JamKeeps DEF SpecialCourse, Op
  <2> QED
    BY <2>1, <2>2, <2>3, <2>4, <2>5, <2>6, <2>7, <2>8 DEF SpecialOps
<1>3. ASSUME shape = "Branch" PROVE BranchCourse'
  BY <1>3, BranchKeeps DEF InstructionCourse
<1>4. ASSUME shape = "Accum" PROVE AccumCourse'
  BY <1>4, AccumKeeps DEF InstructionCourse
<1>5. ASSUME shape = "Implied" PROVE ImpliedCourse'
  <2>1. ImpliedCourse
    BY <1>5 DEF InstructionCourse
  <2>2. CASE Op \in {"PHA", "PHP"}
    <3>1. PushCourse
      BY <2>1, <2>2 DEF ImpliedCourse
    <3>2. CASE Op = "PHA"
      BY <1>1, <2>2, <3>1, <3>2, Families, PushKeeps DEF ImpliedCourse, Op
    <3>3. CASE Op = "PHP"
      BY <1>1, <2>2, <3>1, <3>3, Families, PushKeeps DEF ImpliedCourse, Op
    <3> QED
      BY <2>2, <3>2, <3>3
  <2>3. CASE Op \in {"PLA", "PLP"}
    <3>1. PullCourse /\ unit # "JAM"
      BY <1>1, <2>1, <2>3, Families DEF ImpliedCourse, Op
    <3> QED
      BY <1>1, <2>3, <3>1, PullKeeps DEF ImpliedCourse
  <2>4. CASE Op \notin {"PHA", "PHP", "PLA", "PLP"}
    BY <1>1, <2>1, <2>4, PlainKeeps DEF ImpliedCourse
  <2> QED
    BY <2>2, <2>3, <2>4
<1>6. ASSUME shape \in Memorial PROVE OperandCourse'
  BY <1>6, OperandKeeps DEF InstructionCourse, Memorial
<1> HIDE DEF shape
<1>7. shape \in Memorial \cup {"Special", "Branch", "Accum", "Implied"}
  BY Families DEF shape
<1>8. CodeAt(before, 0)' = CodeAt(before, 0) /\ UnitOf(opcode)' = UnitOf(opcode)
  BY <1>1
<1> QED
  BY <1>1, <1>2, <1>3, <1>4, <1>5, <1>6, <1>7, <1>8 DEF InstructionCourse, Memorial, shape

(* The opcode fetch begins the course of its instruction. *)
LEMMA JamList == \A k \in 1 .. Len(SpecialCycles("JAM")) :
                   SpecialCycles("JAM")[k] \in {"IdleRead", "JamHigh", "JamLow"}
BY DEF SpecialCycles

LEMMA SpecialStarts ==
  ASSUME before.jammed = FALSE, UnitOf(opcode) = unit, Op \in SpecialOps, Untouched, pc = Ahead(1),
         todo = SpecialCycles(Op)
  PROVE  SpecialCourse
<1>1. CASE Op = "BRK"
  BY <1>1 DEF SpecialCourse, BreakCourse
<1>2. CASE Op = "JSR"
  BY <1>2 DEF SpecialCourse, CallCourse, Untouched, SameRegs
<1>3. CASE Op = "RTS"
  BY <1>3 DEF SpecialCourse, ReturnCourse, Untouched, SameRegs
<1>4. CASE Op = "RTI"
  BY <1>4 DEF SpecialCourse, ReturnFromInterruptCourse, Untouched
<1>5. CASE Op = "JMP_ABS"
  BY <1>5 DEF SpecialCourse, JumpCourse
<1>6. CASE Op = "JMP_IND"
  BY <1>6 DEF SpecialCourse, IndirectJumpCourse
<1>7. CASE Op = "JAM"
  <2>1. unit = "JAM"
    BY <1>7, Families DEF Op
  <2>2. todo # <<>>
    BY <1>7 DEF SpecialCycles
  <2> HIDE DEF Op
  <2>3. JamCourse
    BY <1>7, <2>1, <2>2, JamList DEF JamCourse, Untouched
  <2> QED
    BY <1>7, <2>3 DEF SpecialCourse
<1> QED
  BY <1>1, <1>2, <1>3, <1>4, <1>5, <1>6, <1>7 DEF SpecialOps

LEMMA InstructionStarts ==
  ASSUME CpuTypeOK, before.jammed = FALSE, opcode = CodeAt(before, 0), unit = UnitOf(opcode),
         Untouched, pc = Ahead(1), todo = InstructionCycles(opcode)
  PROVE  InstructionCourse
<1> DEFINE shape == ShapeOf(opcode)
<1>1. CASE shape = "Special"
  <2>1. todo = SpecialCycles(Op) /\ Op \in SpecialOps
    BY <1>1, Families DEF InstructionCycles, Op
  <2>2. SpecialCourse
    BY <2>1, SpecialStarts
  <2> QED
    BY <1>1, <2>2 DEF InstructionCourse
<1>2. CASE shape = "Branch"
  <2>1. todo = <<"FetchOffset">>
    BY <1>2 DEF InstructionCycles
  <2> QED
    BY <1>2, <2>1 DEF InstructionCourse, BranchCourse
<1>3. CASE shape = "Accum"
  <2>1. todo = <<"AccumRead">>
    BY <1>3 DEF InstructionCycles
  <2> QED
    BY <1>3, <2>1 DEF InstructionCourse, AccumCourse, Untouched, SameRegs
<1>4. CASE shape = "Implied"
  <2>1. todo = ImpliedCycles(Op)
    BY <1>4 DEF InstructionCycles, Op
  <2>2. Op \notin {"PHA", "PHP", "PLA", "PLP"} => todo = <<"ImpliedRead">>
    BY <2>1 DEF ImpliedCycles
  <2>3. ImpliedCourse
    BY <2>1, <2>2 DEF ImpliedCourse, PushCourse, PullCourse, PlainCourse, Untouched, SameRegs
  <2> QED
    BY <1>4, <2>3 DEF InstructionCourse
<1>5. CASE shape \in Memorial
  <2>1. todo = ModeCycles(Mode) \o Rest
    BY <1>5 DEF InstructionCycles, Rest, OperandCycles, Mode, Memorial
  <2>2. AddressCourse
    <3>1. CASE Mode = "Immediate"
      <4>1. Rest \in Seq(CycleKinds) /\ ModeCycles(Mode) = <<>>
        BY <1>5, <3>1, OperandTails DEF Rest, ModeCycles
      <4> HIDE DEF CycleKinds
      <4>2. todo = Rest
        BY <2>1, <4>1
      <4> QED
        BY <3>1, <4>2 DEF AddressCourse, Addressed
    <3>2. CASE Mode # "Immediate"
      BY <2>1, <3>2 DEF AddressCourse
    <3> QED
      BY <3>1, <3>2
  <2>3. OperandCourse
    BY <2>2 DEF OperandCourse, Untouched, SameRegs
  <2> QED
    BY <1>5, <2>3 DEF InstructionCourse, Memorial
<1> QED
  BY <1>1, <1>2, <1>3, <1>4, <1>5, Families

(* The state in which the opcode has just been fetched.                     *)
Starting ==
  /\ CpuTypeOK /\ before.jammed = FALSE /\ opcode = CodeAt(before, 0) /\ unit = UnitOf(opcode)
  /\ Untouched /\ pc = Ahead(1) /\ todo = InstructionCycles(opcode)

LEMMA StartingCourse == Starting => InstructionCourse
BY InstructionStarts DEF Starting

LEMMA FetchStarts ==
  ASSUME CpuTypeOK, CpuTypeOK', CpuFetch, ~jammed, Now = before
  PROVE  Starting'
<1>1. /\ before.regs = regs /\ before.pc = pc /\ before.i = regI /\ before.mem = mem
      /\ before.jammed = jammed /\ jammed \in BOOLEAN /\ pc \in Word
  BY DEF Now, CpuTypeOK, TypeOK
<1>2. /\ regs' = regs /\ regI' = regI /\ mem' = mem /\ jammed' = jammed /\ before' = before
      /\ opcode' = At(mem, pc) /\ unit' = UnitOf(opcode') /\ todo' = InstructionCycles(opcode')
      /\ pc' = U16(pc + 1)
  BY DEF CpuFetch, Reads, Peek, flags
<1>3. CodeAt(before, 0) = At(mem, pc)
  BY <1>1, Further DEF CodeAt
<1> QED
  BY <1>1, <1>2, <1>3 DEF Starting, Untouched, SameRegs, SameJam, Ahead

(* The pins change nothing the course looks at. *)
LEMMA Steady ==
  ASSUME UNCHANGED <<unit, jammed, regs, regI, pc, mem, opcode, todo, t, before>>, OnCourse
  PROVE  OnCourse'
<1>1. /\ SameRegs' = SameRegs /\ SameJam' = SameJam /\ Untouched' = Untouched
      /\ Back' = Back /\ Op' = Op /\ Mode' = Mode /\ Rest' = Rest /\ Behind' = Behind
      /\ Vector' = Vector /\ Indexed' = Indexed
  BY DEF SameRegs, SameJam, Untouched, Back, Ahead, Op, Mode, Rest, Behind, Vector, Indexed
<1>2. EntryCourse' = EntryCourse
  BY <1>1, Zenon DEF EntryCourse
<1>3. InterruptCourse' = InterruptCourse /\ BreakCourse' = BreakCourse
  BY <1>1, <1>2 DEF InterruptCourse, BreakCourse, Ahead
<1>4. ResetCourse' = ResetCourse
  BY <1>1 DEF ResetCourse
<1>5. CallCourse' = CallCourse
  BY <1>1 DEF CallCourse, Ahead
<1>6. ReturnCourse' = ReturnCourse
  BY <1>1 DEF ReturnCourse
<1>7. ReturnFromInterruptCourse' = ReturnFromInterruptCourse
  BY <1>1 DEF ReturnFromInterruptCourse
<1>8. JumpCourse' = JumpCourse /\ IndirectJumpCourse' = IndirectJumpCourse
  BY <1>1 DEF JumpCourse, IndirectJumpCourse, Ahead
<1>9. JamCourse' = JamCourse
  BY <1>1 DEF JamCourse, Ahead
<1>10. SpecialCourse' = SpecialCourse
  BY <1>1, <1>3, <1>5, <1>6, <1>7, <1>8, <1>9, Zenon DEF SpecialCourse
<1>11. BranchCourse' = BranchCourse
  BY <1>1 DEF BranchCourse, Ahead
<1>12. AccumCourse' = AccumCourse
  BY <1>1 DEF AccumCourse, Ahead
<1>13. ImpliedCourse' = ImpliedCourse
  BY <1>1 DEF ImpliedCourse, PushCourse, PullCourse, PlainCourse, Ahead
<1>14. Addressed' = Addressed
  BY <1>1 DEF Addressed, Ahead
<1>15. AddressCourse' = AddressCourse
  BY <1>1, <1>14 DEF AddressCourse, Ahead
<1>16. RmwCourse' = RmwCourse
  BY <1>1, <1>14 DEF RmwCourse
<1>17. /\ ReadDone' = ReadDone /\ WriteDone' = WriteDone /\ UnstableDone' = UnstableDone
       /\ RmwDone' = RmwDone
  BY <1>1 DEF ReadDone, WriteDone, UnstableDone, RmwDone
<1>18. OperandCourse' = OperandCourse
  BY <1>1, <1>15, <1>16, <1>17 DEF OperandCourse
<1>19. InstructionCourse' = InstructionCourse
  BY <1>10, <1>11, <1>12, <1>13, <1>18 DEF InstructionCourse
<1>20. BeforeOK' = BeforeOK /\ Now' = Now
  BY DEF BeforeOK, Now
<1> QED
  BY <1>3, <1>4, <1>19, <1>20 DEF OnCourse

(* The cycle of a jammed step. *)
LEMMA JammedCycle ==
  ASSUME CpuTypeOK, Scheduled, CpuCycle, unit = "jammed"
  PROVE  Now' = Now /\ jammed' = jammed
<1>1. Kind = "IdleRead"
  <2>1. Plan("jammed") = <<"IdleRead">> /\ Len(<<"IdleRead">>) = 1 /\ <<"IdleRead">>[1] = "IdleRead"
    BY DEF Plan, Entries
  <2>2. unit \in Fixed /\ TypeOK /\ todo # <<>>
    BY WhichCycle DEF Fixed, CpuTypeOK
  <2>3. used + 1 \in 1 .. Len(Plan(unit)) /\ Kind = Plan(unit)[used + 1]
    BY <2>2, AtHead
  <2>4. used \in Nat
    BY <2>2 DEF TypeOK, MaxLength
  <2> QED
    BY <2>1, <2>3, <2>4
<1>2. Discard
  BY <1>1, WhichCycle
<1> QED
  BY <1>2, Discards DEF Now

LEMMA OnCourseStep ==
  ASSUME CpuTypeOK, CpuTypeOK', Scheduled, OnCourse, [CpuNext]_cpuVars
  PROVE  OnCourse'
<1>1. CASE CpuPins \/ UNCHANGED cpuVars
  <2>1. UNCHANGED <<unit, jammed, regs, regI, pc, mem, opcode, todo, t, before>>
    BY <1>1 DEF CpuPins, Pins, SetNmi, SetIrq, control, flags, data, local, cpuVars, vars
  <2> QED
    BY <2>1, Steady
<1>2. CASE CpuCycle
  <2>1. unit' = unit /\ before' = before /\ BeforeOK /\ todo # <<>>
    BY <1>2, WhichCycle DEF OnCourse
  <2>2. unit \notin {"idle", "fetch"}
    BY <2>1 DEF Scheduled
  <2>3. unit = "jammed" => Now' = before' /\ jammed'
    BY <1>2, <2>1, JammedCycle DEF OnCourse
  <2>4. unit \in Entries => InterruptCourse' /\ before'.jammed = FALSE
    BY <1>2, <2>1, InterruptKeeps DEF OnCourse
  <2>5. unit = "reset" => ResetCourse'
    BY <1>2, <2>1, ResetKeeps DEF OnCourse
  <2>6. unit \in Instructions => InstructionCourse'
    BY <1>2, <2>1, InstructionKeeps DEF OnCourse
  <2>7. BeforeOK'
    BY <2>1 DEF BeforeOK
  <2> QED
    BY <2>1, <2>2, <2>3, <2>4, <2>5, <2>6, <2>7 DEF OnCourse
<1>3. CASE CpuFetch
  <2>1. unit = "fetch" /\ unit' \in Instructions /\ before' = before /\ BeforeOK
        /\ ~jammed /\ Now = before
    BY <1>3, Families DEF CpuFetch, OnCourse
  <2>2. InstructionCourse'
    <3>1. Starting'
      BY <1>3, <2>1, FetchStarts
    <3>2. Starting' => InstructionCourse'
      BY StartingCourse, PTL
    <3> QED
      BY <3>1, <3>2
  <2>3. BeforeOK'
    BY <2>1 DEF BeforeOK
  <2> QED
    BY <2>1, <2>2, <2>3 DEF OnCourse, Instructions, Entries
<1>4. CASE CpuEnd
  <2>1. unit' = "idle" /\ before' = before /\ BeforeOK
    BY <1>4 DEF CpuEnd, EndCall, EndInstruction, EndReloadingI, EndReset, EndJammed, Return, OnCourse
  <2>2. BeforeOK'
    BY <2>1 DEF BeforeOK
  <2> QED
    BY <2>1, <2>2 DEF OnCourse, Instructions, Entries
<1>5. CASE CpuReset \/ CpuStep
  <2>1. /\ regs' = regs /\ pc' = pc /\ mem' = mem /\ regI' = regI /\ before' = Now
    BY <1>5 DEF CpuReset, CpuStep, CpuJammed, CpuNmi, CpuIrq, CpuInstruction, Start, data,
                Reset, StepJammed, StepNmi, StepIrq, StepInstruction, Begin
  <2>2. BeforeOK'
    BY <2>1 DEF CpuTypeOK, TypeOK, Now, BeforeOK
  <2>3. SameRegs' /\ mem' = before'.mem /\ pc' = before'.pc
    BY <2>1 DEF SameRegs, Now
  <2>4. CASE CpuReset
    <3>1. unit' = "reset" /\ jammed' = FALSE /\ todo' = ResetCycles
      BY <2>4 DEF CpuReset, Reset, Begin, Start
    <3>2. ResetCourse'
      BY <2>3, <3>1 DEF ResetCourse
    <3> QED
      BY <2>2, <3>1, <3>2 DEF OnCourse, Instructions, Entries
  <2>5. CASE CpuStep
    <3>1. jammed' = jammed /\ SameJam' /\ Now' = Now /\ before'.jammed = jammed
      BY <2>1, <2>5 DEF CpuStep, CpuJammed, CpuNmi, CpuIrq, CpuInstruction, Start, StepJammed,
                  StepNmi, StepIrq, StepInstruction, SameJam, Now
    <3>2. CASE CpuJammed
      <4>1. unit' = "jammed" /\ jammed
        BY <3>2 DEF CpuJammed, StepJammed, Begin
      <4> QED
        BY <2>1, <2>2, <3>1, <4>1 DEF OnCourse, Instructions, Entries
    <3>3. CASE CpuInstruction
      <4>1. unit' = "fetch" /\ ~jammed
        BY <3>3 DEF CpuInstruction, StepInstruction, Begin
      <4> QED
        BY <2>1, <2>2, <3>1, <4>1 DEF OnCourse, Instructions, Entries
    <3>4. CASE CpuNmi \/ CpuIrq
      <4>1. unit' \in Entries /\ ~jammed /\ todo' = EntryCycles
        BY <3>4 DEF CpuNmi, CpuIrq, StepNmi, StepIrq, Begin, AnswersNmi, Start, Entries
      <4>2. InterruptCourse'
        BY <2>3, <3>1, <4>1 DEF InterruptCourse, Untouched
      <4>3. before'.jammed = FALSE
        BY <3>1, <4>1 DEF CpuTypeOK, TypeOK
      <4> QED
        BY <2>2, <4>1, <4>2, <4>3 DEF OnCourse, Instructions, Entries
    <3> QED
      BY <2>5, <3>2, <3>3, <3>4 DEF CpuStep
  <2> QED
    BY <1>5, <2>4, <2>5
<1> QED
  BY <1>1, <1>2, <1>3, <1>4, <1>5 DEF CpuNext

LEMMA OnCourseInit == CpuInit => OnCourse
<1> SUFFICES ASSUME CpuInit PROVE OnCourse
  OBVIOUS
<1>1. unit = "idle" /\ jammed = FALSE
  BY DEF CpuInit, Init
<1>2. before = Now
  BY DEF CpuInit
<1>3. CpuTypeOK
  BY TypeOKInit, DataInit, DataIsTyped DEF CpuInit
<1>4. BeforeOK
  BY <1>2, <1>3 DEF BeforeOK, Now, CpuTypeOK, TypeOK
<1> QED
  BY <1>1, <1>2, <1>4 DEF OnCourse, Instructions, Entries

LEMMA CourseInvariant == CpuSpec => [](CpuTypeOK /\ Scheduled /\ OnCourse)
<1>1. CpuTypeOK /\ CpuTypeOK' /\ Scheduled /\ OnCourse /\ [CpuNext]_cpuVars => OnCourse'
  BY OnCourseStep
<1> QED
  BY <1>1, OnCourseInit, CpuInvariant, PTL DEF CpuSpec

-----------------------------------------------------------------------------
(* The step of the reference when a call returns: it goes from the machine *)
(* at the beginning of the call to the machine as it is now.               *)
Returned ==
  /\ Shown = before
  /\ Shown'.regs = regs /\ Shown'.pc = pc /\ Shown'.i = regI /\ Shown'.mem = mem
  /\ Shown'.jammed = jammed

(* The operators of the reference at the beginning of a call. *)
LEMMA ReferenceStack ==
  ASSUME NEW m, NEW s, NEW w, NEW r, NEW n
  PROVE  /\ Reference!PushByte(m, s, w) = Saved(m, s, w)
         /\ Reference!PushWord(m, s, w) = SavedWord(m, s, w)
         /\ Reference!Moved(r, n) = Shifted(r, n)
<1>1. ASSUME NEW l, NEW a, NEW b PROVE Reference!PushByte(l, a, b) = Saved(l, a, b)
  BY SameMemory DEF Reference!PushByte, Saved
<1>2. Reference!Page(w) = Page(w) /\ Reference!U8(s - 1) = U8(s - 1) /\ Reference!U8(w) = U8(w)
  BY SameMemory, SameBits
<1>3. Reference!PushWord(m, s, w) = SavedWord(m, s, w)
  BY <1>1, <1>2 DEF Reference!PushWord, SavedWord
<1>4. Reference!Moved(r, n) = Shifted(r, n)
  BY SameBits, Zenon DEF Reference!Moved, Shifted, Reference!U8, U8
<1> QED
  BY <1>1, <1>3, <1>4

LEMMA ReferenceCode ==
  ASSUME Shown = before, opcode = CodeAt(before, 0)
  PROVE  /\ \A k : Reference!CodeByte(k) = CodeAt(before, k)
         /\ Reference!Opcode = opcode /\ Reference!Mode = Mode /\ Reference!Shape = ShapeOf(opcode)
         /\ Reference!OpOf(opcode) = Op /\ \A op : Reference!Does(op) <=> Op = op
         /\ Reference!Operand8 = CodeAt(before, 1) /\ Reference!Operand16 = OperandWord(before)
         /\ Reference!Following = Behind /\ Reference!BranchTarget = TargetOf(before)
         /\ \A p : Reference!ZeroPageWord(p) = WordIn(before, p)
         /\ \A k : Reference!Pulled(k) = Popped(before, k)
<1> HIDE DEF Shown
<1>1. ASSUME NEW k PROVE Reference!CodeByte(k) = CodeAt(before, k)
  BY SameMemory DEF Reference!CodeByte, CodeAt
<1>2. Reference!Opcode = opcode
  BY <1>1 DEF Reference!Opcode
<1>3. Reference!Mode = Mode /\ Reference!Shape = ShapeOf(opcode) /\ Reference!OpOf(opcode) = Op
  BY <1>2, SameTable DEF Reference!Mode, Mode, Reference!Shape, Op
<1>4. ASSUME NEW op PROVE Reference!Does(op) <=> Op = op
  BY <1>2, <1>3 DEF Reference!Does
<1>5. Reference!Operand8 = CodeAt(before, 1) /\ Reference!Operand16 = OperandWord(before)
  BY <1>1, SameMemory DEF Reference!Operand8, Reference!Operand16, OperandWord
<1>6. Reference!Following = Behind
  BY <1>2, SameMemory, SameTable DEF Reference!Following, Behind, Ahead
<1>7. Reference!BranchTarget = TargetOf(before)
  BY <1>5, SameMemory, SameBits DEF Reference!BranchTarget, TargetOf
<1>8. ASSUME NEW p PROVE Reference!ZeroPageWord(p) = WordIn(before, p)
  BY SameMemory, SameBits DEF Reference!ZeroPageWord, WordIn
<1>9. ASSUME NEW k PROVE Reference!Pulled(k) = Popped(before, k)
  BY SameMemory, SameBits DEF Reference!Pulled, Popped
<1> QED
  BY <1>1, <1>2, <1>3, <1>4, <1>5, <1>6, <1>7, <1>8, <1>9

LEMMA ReferenceAddress ==
  ASSUME Shown = before, opcode = CodeAt(before, 0)
  PROVE  /\ Reference!BaseAddress = BaseOf(before, Mode)
         /\ Reference!Effective = AddrOf(before, Mode)
<1> HIDE DEF Shown
<1>1. Reference!BaseAddress = BaseOf(before, Mode)
  BY ReferenceCode DEF Reference!BaseAddress, BaseOf
<1>2. Reference!Effective = AddrOf(before, Mode)
  BY <1>1, ReferenceCode, SameMemory, SameBits DEF Reference!Effective, AddrOf
<1> QED
  BY <1>1, <1>2

LEMMA OperandDone ==
  ASSUME CpuTypeOK, BeforeOK, ShapeOf(opcode) \in Memorial, OperandCourse, todo = <<>>
  PROVE  /\ pc = Behind /\ regI = before.i /\ jammed = before.jammed
         /\ ShapeOf(opcode) = "Read" => ReadDone
         /\ ShapeOf(opcode) = "Write" => WriteDone
         /\ ShapeOf(opcode) = "UnstableStore" => UnstableDone
         /\ ShapeOf(opcode) = "Rmw" => RmwDone
<1> HIDE DEF CycleKinds
<1>1. Rest \in Seq(CycleKinds) /\ Rest # <<>>
  BY OperandTails DEF Rest
<1>2. Mode # "Immediate" => Mode \in MemoryModes
  BY TableModes DEF Mode, Memorial, CpuTypeOK, MemoryModes
<1>3. AddressKinds \subseteq CycleKinds
  BY AddressKindsOK
<1>4. /\ <<"Unfixed">> \o Rest # <<>> /\ <<"FetchHigh">> \o Rest # <<>>
      /\ <<"IndexZeroPage">> \o Rest # <<>> /\ <<"PointerHigh">> \o Rest # <<>>
      /\ <<"PointerLow", "PointerHigh">> \o Rest # <<>>
      /\ <<"IndexZeroPage", "PointerLow", "PointerHigh">> \o Rest # <<>>
  BY <1>1, <1>3, Joined DEF AddressKinds
<1>5. Mode # "Immediate" => ModeCycles(Mode) \o Rest # <<>>
  <2>1. /\ <<"FetchZeroPage">> \o Rest # <<>> /\ <<"FetchLow", "FetchHigh">> \o Rest # <<>>
        /\ <<"FetchZeroPage", "IndexZeroPage">> \o Rest # <<>>
        /\ <<"FetchZeroPage", "PointerLow", "PointerHigh">> \o Rest # <<>>
        /\ <<"FetchZeroPage", "IndexZeroPage", "PointerLow", "PointerHigh">> \o Rest # <<>>
    BY <1>1, <1>3, Joined DEF AddressKinds
  <2> QED
    BY <1>2, <2>1 DEF ModeCycles, MemoryModes
<1>6. ~AddressCourse
  BY <1>1, <1>4, <1>5 DEF AddressCourse
<1>7. ~RmwCourse
  BY DEF RmwCourse
<1> QED
  BY <1>6, <1>7 DEF OperandCourse, SameJam

LEMMA OperandEnds ==
  ASSUME CpuTypeOK, BeforeOK, Returned, opcode = CodeAt(before, 0),
         ShapeOf(opcode) \in Memorial, OperandCourse, todo = <<>>
  PROVE  \/ Reference!Reading \/ Reference!Storing \/ Reference!StoringUnstable
         \/ Reference!Modifying
<1> DEFINE addr == AddrOf(before, Mode)
           base == BaseOf(before, Mode)
<1> HIDE DEF Shown
<1>1. /\ pc = Behind /\ regI = before.i /\ jammed = before.jammed
      /\ ShapeOf(opcode) = "Read" => ReadDone
      /\ ShapeOf(opcode) = "Write" => WriteDone
      /\ ShapeOf(opcode) = "UnstableStore" => UnstableDone
      /\ ShapeOf(opcode) = "Rmw" => RmwDone
  BY OperandDone
<1>2. /\ Shown = before /\ Shown'.regs = regs /\ Shown'.pc = pc /\ Shown'.i = regI
      /\ Shown'.mem = mem /\ Shown'.jammed = jammed
  BY DEF Returned
<1>3. /\ Reference!Opcode = opcode /\ Reference!Shape = ShapeOf(opcode)
      /\ Reference!OpOf(opcode) = Op /\ (Reference!Does("TAS") <=> Op = "TAS")
      /\ Reference!Following = Behind /\ Reference!BaseAddress = base /\ Reference!Effective = addr
  BY <1>2, ReferenceCode, ReferenceAddress
<1> HIDE DEF addr, base
<1>4. CASE ShapeOf(opcode) = "Read"
  <2>1. regs = ReadOp(Op, before.regs, At(before.mem, addr)) /\ mem = before.mem
    BY <1>1, <1>4 DEF ReadDone, addr
  <2> QED
    BY <1>1, <1>2, <1>3, <1>4, <2>1, SameOperations, SameMemory DEF Reference!Reading
<1>5. CASE ShapeOf(opcode) = "Write"
  <2>1. regs = before.regs /\ mem = Put(before.mem, addr, StoreOp(Op, before.regs))
    BY <1>1, <1>5 DEF WriteDone, addr
  <2> QED
    BY <1>1, <1>2, <1>3, <1>5, <2>1, SameOperations, SameMemory DEF Reference!Storing
<1>6. CASE ShapeOf(opcode) = "Rmw"
  <2> DEFINE result == RmwOp(Op, before.regs, At(before.mem, addr))
  <2>1. regs = result[1] /\ mem = Put(before.mem, addr, result[2])
    BY <1>1, <1>6 DEF RmwDone, addr
  <2>2. Reference!RmwOp(Op, before.regs, At(before.mem, addr)) = result
        /\ Reference!At(before.mem, addr) = At(before.mem, addr)
    BY SameOperations, SameMemory
  <2> HIDE DEF result
  <2> QED
    BY <1>1, <1>2, <1>3, <1>6, <2>1, <2>2, SameMemory DEF Reference!Modifying
<1>7. CASE ShapeOf(opcode) = "UnstableStore"
  <2> DEFINE source == StoreOp(Op, before.regs)
             value  == And(source, U8(Page(base) + 1))
             place  == IF CrossesPage(base, addr) THEN WordOf(U8(addr), value) ELSE addr
  <2>1. /\ regs = (IF Op = "TAS" THEN [before.regs EXCEPT !.s = source] ELSE before.regs)
        /\ mem = Put(before.mem, place, value)
    BY <1>1, <1>7 DEF UnstableDone, addr, base
  <2>2. Reference!StoreOp(Op, before.regs) = source
    BY SameOperations
  <2> HIDE DEF source
  <2>3. Reference!And(source, Reference!U8(Reference!Page(base) + 1)) = value
    BY SameBits, SameMemory
  <2> HIDE DEF value
  <2>4. (IF Reference!CrossesPage(base, addr)
           THEN Reference!WordOf(Reference!U8(addr), value) ELSE addr) = place
    BY SameBits, SameMemory
  <2> HIDE DEF place
  <2>5. Reference!Put(before.mem, place, value) = Put(before.mem, place, value)
    BY SameMemory
  <2> QED
    BY <1>1, <1>2, <1>3, <1>7, <2>1, <2>2, <2>3, <2>4, <2>5 DEF Reference!StoringUnstable
<1> QED
  BY <1>4, <1>5, <1>6, <1>7 DEF Memorial

LEMMA OneByteEnds ==
  ASSUME CpuTypeOK, BeforeOK, Returned, opcode = CodeAt(before, 0), todo = <<>>,
         \/ ShapeOf(opcode) = "Branch" /\ BranchCourse
         \/ ShapeOf(opcode) = "Accum" /\ AccumCourse
         \/ ShapeOf(opcode) = "Implied" /\ ImpliedCourse
  PROVE  \/ Reference!Branching \/ Reference!ModifyingA \/ Reference!Plain
         \/ Reference!Saving \/ Reference!Restoring
<1> HIDE DEF Shown
<1>1. /\ Shown = before /\ Shown'.regs = regs /\ Shown'.pc = pc /\ Shown'.i = regI
      /\ Shown'.mem = mem /\ Shown'.jammed = jammed
  BY DEF Returned
<1>2. /\ Reference!Opcode = opcode /\ Reference!Shape = ShapeOf(opcode)
      /\ Reference!OpOf(opcode) = Op /\ (\A op : Reference!Does(op) <=> Op = op)
      /\ Reference!Following = Behind /\ Reference!BranchTarget = TargetOf(before)
      /\ Reference!Pulled(1) = Popped(before, 1)
  BY <1>1, ReferenceCode
<1>3. /\ ShapeOf(opcode) = "Branch" => Behind = Ahead(2)
      /\ ShapeOf(opcode) \in {"Accum", "Implied"} => Behind = Ahead(1)
  BY TableModes DEF CpuTypeOK, Behind, InstructionLength, OperandBytes
<1>4. CASE ShapeOf(opcode) = "Branch" /\ BranchCourse
  <2>1. /\ regs = before.regs /\ regI = before.i /\ mem = before.mem /\ jammed = before.jammed
        /\ pc = (IF Taken(Op, before.regs) THEN TargetOf(before) ELSE Ahead(2))
    BY <1>4 DEF BranchCourse, Untouched, SameRegs, SameJam
  <2>2. Reference!Taken(Op, before.regs) = Taken(Op, before.regs)
    BY SameOperations
  <2> QED
    BY <1>1, <1>2, <1>3, <1>4, <2>1, <2>2 DEF Reference!Branching
<1>5. CASE ShapeOf(opcode) = "Accum" /\ AccumCourse
  <2> DEFINE result == RmwOp(Op, before.regs, before.regs.a)
  <2>1. /\ regI = before.i /\ mem = before.mem /\ jammed = before.jammed /\ pc = Ahead(1)
        /\ regs = [result[1] EXCEPT !.a = result[2]]
    BY <1>5 DEF AccumCourse, SameJam
  <2>2. Reference!RmwOp(Op, before.regs, before.regs.a) = result
    BY SameOperations
  <2> HIDE DEF result
  <2> QED
    BY <1>1, <1>2, <1>3, <1>5, <2>1, <2>2 DEF Reference!ModifyingA
<1>6. CASE ShapeOf(opcode) = "Implied" /\ ImpliedCourse
  <2>1. CASE Op \in {"PHA", "PHP"}
    <3> DEFINE value == IF Op = "PHA" THEN before.regs.a ELSE Pack(before.regs, before.i, TRUE)
    <3>1. ImpliedCycles(Op) # <<>> /\ Tail(ImpliedCycles(Op)) # <<>>
      BY <2>1, Lists DEF ImpliedCycles
    <3>2. /\ regs = Shifted(before.regs, -1) /\ mem = Saved(before.mem, before.regs.s, value)
          /\ regI = before.i /\ jammed = before.jammed /\ pc = Ahead(1)
      BY <1>6, <2>1, <3>1 DEF ImpliedCourse, PushCourse, SameJam
    <3>3. (IF Reference!Does("PHA") THEN Shown.regs.a
             ELSE Reference!Pack(Shown.regs, Shown.i, TRUE)) = value
      BY <1>1, <1>2, SameStatus
    <3> HIDE DEF value
    <3>4. /\ Reference!PushByte(before.mem, before.regs.s, value)
               = Saved(before.mem, before.regs.s, value)
          /\ Reference!Moved(before.regs, -1) = Shifted(before.regs, -1)
      BY ReferenceStack
    <3>5. Reference!Does("PHA") \/ Reference!Does("PHP")
      BY <1>2, <2>1
    <3>6. Reference!Saving
      BY <1>1, <1>2, <1>3, <1>6, <3>2, <3>3, <3>4, <3>5 DEF Reference!Saving
    <3> QED
      BY <3>6
  <2>2. CASE Op \in {"PLA", "PLP"}
    <3>1. /\ ImpliedCycles(Op) # <<>> /\ Tail(ImpliedCycles(Op)) # <<>>
          /\ Tail(Tail(ImpliedCycles(Op))) # <<>>
      BY <2>2, Lists DEF ImpliedCycles
    <3> DEFINE up    == Shifted(before.regs, 1)
               value == Popped(before, 1)
    <3>2. /\ \/ Op = "PLA" /\ regs = LoadA(up, value) /\ regI = before.i
             \/ Op = "PLP" /\ regs = Unpack(up, value) /\ regI = UnpackI(value)
          /\ mem = before.mem /\ jammed = before.jammed /\ pc = Ahead(1)
      BY <1>6, <2>2, <3>1 DEF ImpliedCourse, PullCourse, SameJam
    <3>3. Reference!Moved(before.regs, 1) = up /\ Reference!Pulled(1) = value
      BY <1>2, ReferenceStack
    <3> HIDE DEF up, value
    <3>4. /\ Reference!LoadA(up, value) = LoadA(up, value)
          /\ Reference!Unpack(up, value) = Unpack(up, value)
          /\ Reference!UnpackI(value) = UnpackI(value)
      BY SameLoads, SameStatus
    <3> QED
      BY <1>1, <1>2, <1>3, <1>6, <3>2, <3>3, <3>4 DEF Reference!Restoring
  <2>3. CASE Op \notin {"PHA", "PHP", "PLA", "PLP"}
    <3>1. /\ regs = ImpliedOp(Op, before.regs) /\ regI = ImpliedI(Op, before.i)
          /\ mem = before.mem /\ jammed = before.jammed /\ pc = Ahead(1)
      BY <1>6, <2>3 DEF ImpliedCourse, PlainCourse, SameJam
    <3>2. /\ Reference!ImpliedOp(Op, before.regs) = ImpliedOp(Op, before.regs)
          /\ Reference!ImpliedI(Op, before.i) = ImpliedI(Op, before.i)
      BY SameOperations DEF Reference!ImpliedI, ImpliedI
    <3> QED
      BY <1>1, <1>2, <1>3, <1>6, <2>3, <3>1, <3>2 DEF Reference!Plain
  <2> QED
    BY <2>1, <2>2, <2>3
<1> QED
  BY <1>4, <1>5, <1>6

(* An entry, an interrupt's or BRK's. *)
LEMMA EntryEnds ==
  ASSUME Returned, todo = <<>>, EntryCourse, unit \in Entries \cup {"BRK"}
  PROVE  Reference!Entering(Back, Vector, unit = "BRK")
<1> HIDE DEF Shown
<1>1. /\ Shown = before /\ Shown'.regs = regs /\ Shown'.pc = pc /\ Shown'.i = regI
      /\ Shown'.mem = mem /\ Shown'.jammed = jammed
  BY DEF Returned
<1> DEFINE done == EntryMemory(before, Back, unit = "BRK")
<1>2. /\ regs = EntryRegisters(before) /\ regI = TRUE /\ mem = done /\ jammed = before.jammed
      /\ pc = WordOf(At(mem, Vector), At(mem, Vector + 1))
  BY DEF EntryCourse, SameJam
<1>3. Reference!PushByte(Reference!PushWord(before.mem, before.regs.s, Back),
                         Reference!U8(before.regs.s - 2),
                         Reference!Pack(before.regs, before.i, unit = "BRK")) = done
  <2>1. Reference!PushWord(before.mem, before.regs.s, Back) = SavedWord(before.mem, before.regs.s, Back)
    BY ReferenceStack
  <2>2. /\ Reference!U8(before.regs.s - 2) = U8(before.regs.s - 2)
        /\ Reference!Pack(before.regs, before.i, unit = "BRK") = Pack(before.regs, before.i, unit = "BRK")
    BY SameBits, SameStatus
  <2> QED
    BY <2>1, <2>2, ReferenceStack DEF EntryMemory
<1>4. [Reference!Moved(before.regs, -3) EXCEPT !.d = @ /\ ~Variant.clearDecimalOnInterrupt]
        = EntryRegisters(before)
  <2>1. Reference!Moved(before.regs, -3) = Shifted(before.regs, -3)
    BY ReferenceStack
  <2> QED
    BY <2>1, Zenon DEF EntryRegisters
<1>5. Reference!WordOf(Reference!At(mem, Vector), Reference!At(mem, Vector + 1)) = pc
  BY <1>2, SameMemory
<1> HIDE DEF done
<1> QED
  BY <1>1, <1>2, <1>3, <1>4, <1>5 DEF Reference!Entering

LEMMA InterruptEnds ==
  ASSUME Returned, todo = <<>>, unit \in Entries, before.jammed = FALSE, InterruptCourse
  PROVE  Reference!Interrupt
<1>1. EntryCourse
  BY Lists DEF InterruptCourse, EntryCycles
<1>2. Back = before.pc /\ unit # "BRK" /\ Vector \in {NmiVector, IrqVector}
  BY DEF Back, Vector, Entries
<1>3. Reference!Entering(before.pc, Vector, FALSE)
  BY <1>1, <1>2, EntryEnds
<1>4. Reference!NmiVector = NmiVector /\ Reference!IrqVector = IrqVector
  BY SameMemory
<1>5. Shown = before
  BY DEF Returned
<1> HIDE DEF Shown
<1> QED
  BY <1>2, <1>3, <1>4, <1>5 DEF Reference!Interrupt

LEMMA ResetEnds ==
  ASSUME Returned, todo = <<>>, ResetCourse
  PROVE  Reference!Resetting
<1> HIDE DEF Shown
<1>1. /\ Shown = before /\ Shown'.regs = regs /\ Shown'.pc = pc /\ Shown'.i = regI
      /\ Shown'.mem = mem /\ Shown'.jammed = jammed
  BY DEF Returned
<1>2. ResetCycles # <<>> /\ Tail(ResetCycles) # <<>> /\ Tail(Tail(ResetCycles)) # <<>>
  BY Lists DEF ResetCycles
<1>3. /\ regs = Shifted(before.regs, -3) /\ regI = TRUE /\ mem = before.mem /\ jammed = FALSE
      /\ pc = WordOf(At(mem, ResetVector), At(mem, ResetVector + 1))
  BY <1>2 DEF ResetCourse
<1>4. /\ Reference!Moved(before.regs, -3) = Shifted(before.regs, -3)
      /\ Reference!WordOf(Reference!At(mem, Reference!ResetVector),
                          Reference!At(mem, Reference!ResetVector + 1)) = pc
  BY <1>3, ReferenceStack, SameMemory
<1> QED
  BY <1>1, <1>3, <1>4 DEF Reference!Resetting

(* The instructions that have a sequence of cycles of their own. *)
LEMMA SpecialEnds ==
  ASSUME Returned, opcode = CodeAt(before, 0), unit = UnitOf(opcode), BeforeOK, todo = <<>>,
         Op \in SpecialOps, SpecialCourse
  PROVE  \/ Reference!Jumping \/ Reference!Calling \/ Reference!Returning \/ Reference!Breaking
         \/ Reference!Jamming
<1> HIDE DEF Shown
<1>1. /\ Shown = before /\ Shown'.regs = regs /\ Shown'.pc = pc /\ Shown'.i = regI
      /\ Shown'.mem = mem /\ Shown'.jammed = jammed
  BY DEF Returned
<1>2. /\ \A op : Reference!Does(op) <=> Op = op
      /\ Reference!Operand8 = CodeAt(before, 1) /\ Reference!Operand16 = OperandWord(before)
      /\ \A k : Reference!Pulled(k) = Popped(before, k)
  BY <1>1, ReferenceCode
<1>3. CASE Op = "BRK"
  <2>1. unit = "BRK" /\ BreakCourse /\ SpecialCycles("BRK") # <<>>
    BY <1>3, Families DEF Op, SpecialCourse, SpecialCycles
  <2>2. EntryCourse /\ Back = Ahead(2) /\ Vector = IrqVector
    BY <2>1 DEF BreakCourse, Back, Vector
  <2>3. Reference!Entering(Ahead(2), IrqVector, TRUE)
    BY <2>1, <2>2, EntryEnds
  <2>4. Reference!U16(Shown.pc + 2) = Ahead(2) /\ Reference!IrqVector = IrqVector
    BY <1>1, SameMemory DEF Ahead
  <2> QED
    BY <1>2, <1>3, <2>3, <2>4 DEF Reference!Breaking
<1>4. CASE Op = "JSR"
  <2> DEFINE back == Ahead(2)
             done == SavedWord(before.mem, before.regs.s, back)
  <2>1. CallCourse /\ SpecialCycles("JSR") # <<>>
    BY <1>4 DEF SpecialCourse, SpecialCycles
  <2>2. /\ regs = Shifted(before.regs, -2) /\ mem = done /\ regI = before.i
        /\ jammed = before.jammed /\ pc = WordOf(CodeAt(before, 1), At(mem, back))
    BY <2>1 DEF CallCourse, SameJam
  <2>3. /\ Reference!U16(before.pc + 2) = back
        /\ Reference!PushWord(before.mem, before.regs.s, back) = done
        /\ Reference!Moved(before.regs, -2) = Shifted(before.regs, -2)
        /\ Reference!WordOf(CodeAt(before, 1), Reference!At(mem, back)) = pc
    BY <2>2, SameMemory, ReferenceStack DEF Ahead
  <2> HIDE DEF back, done
  <2>4. Reference!Calling
    BY <1>1, <1>2, <1>4, <2>2, <2>3 DEF Reference!Calling
  <2> QED
    BY <2>4
<1>5. CASE Op = "RTS"
  <2> DEFINE target == WordOf(Popped(before, 1), Popped(before, 2))
  <2>1. ReturnCourse /\ SpecialCycles("RTS") # <<>>
    BY <1>5 DEF SpecialCourse, SpecialCycles
  <2>2. /\ regs = Shifted(before.regs, 2) /\ mem = before.mem /\ regI = before.i
        /\ jammed = before.jammed /\ pc = U16(target + 1)
    BY <2>1 DEF ReturnCourse, SameJam, Untouched
  <2>3. /\ Reference!Moved(before.regs, 2) = Shifted(before.regs, 2)
        /\ Reference!U16(Reference!WordOf(Popped(before, 1), Popped(before, 2)) + 1) = pc
    BY <2>2, SameMemory, ReferenceStack
  <2> HIDE DEF target
  <2>4. Reference!Returning
    BY <1>1, <1>2, <1>5, <2>2, <2>3 DEF Reference!Returning
  <2> QED
    BY <2>4
<1>6. CASE Op = "RTI"
  <2> DEFINE flagged == Unpack(Shifted(before.regs, 3), Popped(before, 1))
  <2>1. ReturnFromInterruptCourse /\ SpecialCycles("RTI") # <<>>
    BY <1>6 DEF SpecialCourse, SpecialCycles
  <2>2. /\ regs = flagged /\ mem = before.mem /\ regI = UnpackI(Popped(before, 1))
        /\ jammed = before.jammed /\ pc = WordOf(Popped(before, 2), Popped(before, 3))
    BY <2>1 DEF ReturnFromInterruptCourse, SameJam
  <2>3. /\ Reference!Unpack(Reference!Moved(before.regs, 3), Popped(before, 1)) = flagged
        /\ Reference!UnpackI(Popped(before, 1)) = UnpackI(Popped(before, 1))
        /\ Reference!WordOf(Popped(before, 2), Popped(before, 3)) = pc
    BY <2>2, SameMemory, SameStatus, ReferenceStack
  <2> HIDE DEF flagged
  <2>4. Reference!Returning
    BY <1>1, <1>2, <1>6, <2>2, <2>3 DEF Reference!Returning
  <2> QED
    BY <2>4
<1>7. CASE Op = "JMP_ABS"
  <2>1. JumpCourse /\ SpecialCycles("JMP_ABS") # <<>>
    BY <1>7 DEF SpecialCourse, SpecialCycles
  <2>2. /\ regs = before.regs /\ mem = before.mem /\ regI = before.i
        /\ jammed = before.jammed /\ pc = OperandWord(before)
    BY <2>1 DEF JumpCourse, Untouched, SameRegs, SameJam
  <2>3. Reference!Jumping
    BY <1>1, <1>2, <1>7, <2>2 DEF Reference!Jumping
  <2> QED
    BY <2>3
<1>8. CASE Op = "JMP_IND"
  <2> DEFINE low  == OperandWord(before)
             high == IF Variant.jmpIndirectPageBug THEN WordOf(U8(low + 1), Page(low))
                     ELSE U16(low + 1)
  <2>1. /\ IndirectJumpCourse /\ SpecialCycles("JMP_IND") # <<>>
        /\ Tail(SpecialCycles("JMP_IND")) # <<>> /\ Tail(Tail(SpecialCycles("JMP_IND"))) # <<>>
    <3>1. CASE Variant.jmpIndirectPageBug
      BY <1>8, <3>1 DEF SpecialCourse, SpecialCycles
    <3>2. CASE ~Variant.jmpIndirectPageBug
      BY <1>8, <3>2 DEF SpecialCourse, SpecialCycles
    <3> QED
      BY <3>1, <3>2
  <2>2. /\ regs = before.regs /\ mem = before.mem /\ regI = before.i
        /\ jammed = before.jammed /\ pc = WordOf(At(before.mem, low), At(before.mem, high))
    BY <2>1 DEF IndirectJumpCourse, Untouched, SameRegs, SameJam
  <2> HIDE DEF low
  <2>3. (IF Variant.jmpIndirectPageBug THEN 256 * Reference!Page(low) + Reference!U8(low + 1)
         ELSE Reference!U16(low + 1)) = high
    BY SameMemory, SameBits DEF WordOf
  <2> HIDE DEF high
  <2>4. Reference!WordOf(Reference!At(before.mem, low), Reference!At(before.mem, high)) = pc
    BY <2>2, SameMemory
  <2>5. Reference!Operand16 = low
    BY <1>2 DEF low
  <2>6. Reference!Jumping
    BY <1>1, <1>2, <1>8, <2>2, <2>3, <2>4, <2>5 DEF Reference!Jumping
  <2> QED
    BY <2>6
<1>9. CASE Op = "JAM"
  <2>1. JamCourse
    BY <1>9 DEF SpecialCourse
  <2>2. /\ regs = before.regs /\ mem = before.mem /\ regI = before.i /\ pc = Ahead(1) /\ jammed
    BY <2>1 DEF JamCourse, SameRegs
  <2>3. Reference!U16(before.pc + 1) = Ahead(1)
    BY SameMemory DEF Ahead
  <2> QED
    BY <1>1, <1>2, <1>9, <2>2, <2>3 DEF Reference!Jamming
<1> QED
  BY <1>3, <1>4, <1>5, <1>6, <1>7, <1>8, <1>9 DEF SpecialOps

-----------------------------------------------------------------------------
(* Every step of the core maps to a step of the reference, or to none. *)
LEMMA EndReturns ==
  ASSUME CpuEnd
  PROVE  /\ Returned /\ unit \notin {"idle", "fetch"} /\ todo = <<>> /\ Shown' = Now
<1>1. /\ unit \notin {"idle", "fetch"} /\ todo = <<>> /\ unit' = "idle"
      /\ regs' = regs /\ pc' = pc /\ mem' = mem /\ regI' = regI /\ jammed' = jammed
  BY DEF CpuEnd, EndCall, EndInstruction, EndReloadingI, EndReset, EndJammed, Return, data
<1>2. Shown' = Now' /\ Now' = Now /\ Shown = before
  BY <1>1 DEF Shown, Now
<1> QED
  BY <1>1, <1>2 DEF Returned, Now

LEMMA InstructionEnds ==
  ASSUME CpuTypeOK, BeforeOK, Returned, todo = <<>>, InstructionCourse
  PROVE  Reference!Instruction
<1> HIDE DEF Shown
<1>1. /\ before.jammed = FALSE /\ opcode = CodeAt(before, 0) /\ unit = UnitOf(opcode)
      /\ Shown = before
  BY DEF InstructionCourse, Returned
<1>2. CASE ShapeOf(opcode) = "Special"
  <2>1. SpecialCourse /\ Op \in SpecialOps
    BY <1>2, Families DEF InstructionCourse, Op
  <2>2. \/ Reference!Jumping \/ Reference!Calling \/ Reference!Returning \/ Reference!Breaking
        \/ Reference!Jamming
    BY <1>1, <2>1, SpecialEnds
  <2> QED
    BY <1>1, <2>2 DEF Reference!Instruction
<1>3. CASE ShapeOf(opcode) \in {"Branch", "Accum", "Implied"}
  <2>1. \/ ShapeOf(opcode) = "Branch" /\ BranchCourse
        \/ ShapeOf(opcode) = "Accum" /\ AccumCourse
        \/ ShapeOf(opcode) = "Implied" /\ ImpliedCourse
    BY <1>3 DEF InstructionCourse
  <2>2. \/ Reference!Branching \/ Reference!ModifyingA \/ Reference!Plain
        \/ Reference!Saving \/ Reference!Restoring
    BY <1>1, <2>1, OneByteEnds
  <2> QED
    BY <1>1, <2>2 DEF Reference!Instruction
<1>4. CASE ShapeOf(opcode) \in Memorial
  <2>1. OperandCourse
    BY <1>4 DEF InstructionCourse, Memorial
  <2>2. \/ Reference!Reading \/ Reference!Storing \/ Reference!StoringUnstable
        \/ Reference!Modifying
    BY <1>1, <1>4, <2>1, OperandEnds
  <2> QED
    BY <1>1, <2>2 DEF Reference!Instruction
<1> QED
  BY <1>2, <1>3, <1>4, Families

(* Between the returns of two calls the reference stays where it is. *)
LEMMA ShownStays ==
  ASSUME Scheduled,
         CpuPins \/ UNCHANGED cpuVars \/ CpuReset \/ CpuStep \/ CpuFetch \/ CpuCycle
  PROVE  Shown' = Shown
<1>1. CASE CpuPins \/ UNCHANGED cpuVars
  <2>1. UNCHANGED <<unit, jammed, regs, regI, pc, mem, before>>
    BY <1>1 DEF CpuPins, Pins, SetNmi, SetIrq, control, flags, data, local, cpuVars, vars
  <2> QED
    BY <2>1 DEF Shown, Now
<1>2. CASE CpuReset \/ CpuStep
  <2>1. unit = "idle" /\ unit' # "idle" /\ before' = Now
    BY <1>2 DEF CpuReset, CpuStep, CpuJammed, CpuNmi, CpuIrq, CpuInstruction, Start,
                Reset, StepJammed, StepNmi, StepIrq, StepInstruction, Begin
  <2> QED
    BY <2>1 DEF Shown
<1>3. CASE CpuFetch \/ CpuCycle
  <2>1. unit # "idle" /\ unit' # "idle" /\ before' = before
    <3>1. CASE CpuFetch
      BY <3>1, Families DEF CpuFetch, Instructions
    <3>2. CASE CpuCycle
      BY <3>2, WhichCycle DEF Scheduled
    <3> QED
      BY <1>3, <3>1, <3>2
  <2> QED
    BY <2>1 DEF Shown
<1> QED
  BY <1>1, <1>2, <1>3

LEMMA IsaStep ==
  ASSUME CpuTypeOK, Scheduled, OnCourse, [CpuNext]_cpuVars
  PROVE  [Reference!IsaNext]_Reference!isaVars
<1> HIDE DEF Shown
<1>1. ASSUME Shown' = Shown PROVE UNCHANGED Reference!isaVars
  BY <1>1 DEF Reference!isaVars
<1>2. CASE CpuPins \/ UNCHANGED cpuVars \/ CpuReset \/ CpuStep \/ CpuFetch \/ CpuCycle
  BY <1>1, <1>2, ShownStays
<1>3. CASE CpuEnd
  <2>1. /\ Returned /\ unit \notin {"idle", "fetch"} /\ todo = <<>> /\ Shown' = Now
        /\ Shown = before
    BY <1>3, EndReturns DEF Returned
  <2>2. unit \in Instructions \cup Entries \cup {"reset", "jammed"}
    BY <2>1 DEF CpuTypeOK, TypeOK, Units
  <2>3. BeforeOK
    BY DEF OnCourse
  <2>4. CASE unit \in Instructions
    <3>1. Reference!Instruction
      BY <2>1, <2>3, <2>4, InstructionEnds DEF OnCourse
    <3> QED
      BY <3>1 DEF Reference!IsaNext
  <2>5. CASE unit \in Entries
    <3>1. Reference!Interrupt
      BY <2>1, <2>5, InterruptEnds DEF OnCourse
    <3> QED
      BY <3>1 DEF Reference!IsaNext
  <2>6. CASE unit = "reset"
    <3>1. Reference!Resetting
      BY <2>1, <2>6, ResetEnds DEF OnCourse
    <3> QED
      BY <3>1 DEF Reference!IsaNext
  <2>7. CASE unit = "jammed"
    <3>1. Shown' = Shown
      BY <2>1, <2>7 DEF OnCourse
    <3> QED
      BY <1>1, <3>1
  <2> QED
    BY <2>2, <2>4, <2>5, <2>6, <2>7
<1> QED
  BY <1>2, <1>3 DEF CpuNext

LEMMA IsaStart == CpuInit => Reference!IsaInit
<1> SUFFICES ASSUME CpuInit PROVE Reference!IsaInit
  OBVIOUS
<1>1. unit = "idle" /\ jammed = FALSE
  BY DEF CpuInit, Init
<1>2. CpuTypeOK
  BY TypeOKInit, DataInit, DataIsTyped DEF CpuInit
<1>3. Shown.regs = regs /\ Shown.pc = pc /\ Shown.i = regI /\ Shown.mem = mem /\ Shown.jammed = jammed
  BY <1>1 DEF Shown, Now
<1> HIDE DEF Shown
<1>4. Reference!Byte = Byte /\ Reference!Word = Word
  BY DEF Reference!Byte, Byte, Reference!Word, Word
<1>5. Reference!Registers = Registers
  BY <1>4, Zenon DEF Reference!Registers, Registers
<1>6. regs \in Reference!Registers /\ pc \in Reference!Word /\ regI \in BOOLEAN
  BY <1>2, <1>4, <1>5 DEF CpuTypeOK, TypeOK
<1>7. \A addr \in DOMAIN mem : addr \in Reference!Word /\ mem[addr] \in Reference!Byte
  BY <1>2, <1>4 DEF CpuTypeOK
<1> QED
  BY <1>1, <1>3, <1>6, <1>7 DEF Reference!IsaInit

(* Whatever the program, the memory, the chip and the pins, the effect of  *)
(* a call of step() or reset(), with all its bus cycles, is one step of    *)
(* the instruction-level reference, or none on a jammed processor.         *)
THEOREM CpuImplementsIsa == CpuSpec => IsaImplemented
<1>1. CpuTypeOK /\ Scheduled /\ OnCourse /\ [CpuNext]_cpuVars
        => [Reference!IsaNext]_Reference!isaVars
  BY IsaStep
<1> QED
  BY <1>1, IsaStart, CourseInvariant, PTL DEF CpuSpec, IsaImplemented, Reference!IsaSpec
-----------------------------------------------------------------------------
(* The bus cycles of an instruction, counted and listed.  An index pays    *)
(* for a fixup once the base of the address is known.                      *)
Fixes   == PaysFixup(BaseOf(before, Mode), AddrOf(before, Mode))
Settled == todo = <<>> \/ Kind \notin AddressKinds \ {"Unfixed"}
Whole   == 1 + Len(InstructionCycles(opcode))

BranchTimed ==
  LET leaves == CrossesPage(Ahead(2), TargetOf(before))
  IN  \/ todo = <<"FetchOffset">> /\ used = 1
      \/ todo = <<"BranchTaken">> /\ used = 2
      \/ todo = <<"BranchFixup">> /\ used = 3 /\ leaves
      \/ todo = <<>> /\ used = 2 + (IF Taken(Op, before.regs) THEN 1 + One(leaves) ELSE 0)

Timed ==
  IF ShapeOf(opcode) = "Branch" THEN BranchTimed
  ELSE used + Len(todo) = Whole + One(Fixes /\ Settled)

(* The addresses an instruction with an operand may touch. *)
PointerBytes ==
  CASE Mode = "IndirectX" -> {U8(CodeAt(before, 1) + before.regs.x + k) : k \in {0, 1}}
    [] Mode = "IndirectY" -> {U8(CodeAt(before, 1) + k) : k \in {0, 1}}
    [] OTHER              -> {}

DiscardedBytes ==
  CASE Mode \in {"ZeroPageX", "ZeroPageY", "IndirectX"} -> {CodeAt(before, 1)}
    [] Mode \in {"AbsoluteX", "AbsoluteY", "IndirectY"}
         -> {WordOf(U8(AddrOf(before, Mode)), Page(BaseOf(before, Mode)))}
    [] OTHER -> {}

Allowed == Code \cup PointerBytes \cup DiscardedBytes \cup {AddrOf(before, Mode)}

(* The k-th access is the discarded one that pays for the fixup, if one does. *)
PaidAt(k) == Fixes => k \in DOMAIN trace /\ trace[k].addr \in DiscardedBytes

(* What an operation has put on the bus when it is done. *)
ReadTraced ==
  LET n == Len(trace)
  IN  Writings = {} /\ trace[n].addr = AddrOf(before, Mode) /\ PaidAt(n - 1)

WriteTraced ==
  LET n == Len(trace)
  IN  Writings = {n} /\ trace[n].addr = AddrOf(before, Mode) /\ PaidAt(n - 1)

UnstableTraced ==
  LET n    == Len(trace)
      base == BaseOf(before, Mode)
      addr == AddrOf(before, Mode)
  IN  /\ Writings = {n} /\ U8(trace[n].addr) = U8(addr)
      /\ ~CrossesPage(base, addr) => trace[n].addr = addr

(* A read-modify-write after its read, after its second access, at its end. *)
RmwTraced(n) ==
  LET addr == AddrOf(before, Mode)
  IN  /\ n \in DOMAIN trace /\ PaidAt(n - 1)
      /\ trace[n].addr = addr /\ trace[n].value = At(before.mem, addr)

RmwTracedTwice(n) ==
  LET addr == AddrOf(before, Mode)
  IN  /\ RmwTraced(n - 1)
      /\ trace[n].addr = addr /\ trace[n].value = At(before.mem, addr)

RmwTracedAll(n) ==
  LET addr == AddrOf(before, Mode)
  IN  /\ RmwTracedTwice(n - 1)
      /\ trace[n].addr = addr
      /\ trace[n].value = RmwOp(Op, before.regs, At(before.mem, addr))[2]

RmwOnBus ==
  LET n == Len(trace)
  IN  /\ todo = <<"RmwDummy", "RmwWrite">> => RmwTraced(n) /\ Writings = {}
      /\ todo = <<"RmwWrite">> =>
           RmwTracedTwice(n) /\ Writings = (IF Variant.rmwDummyWriteBack THEN {n} ELSE {})
      /\ todo = <<>> =>
           /\ RmwTracedAll(n)
           /\ Writings = (IF Variant.rmwDummyWriteBack THEN {n - 1, n} ELSE {n})

OperandTraced ==
  /\ todo # <<>> \/ ShapeOf(opcode) # "UnstableStore" =>
       \A k \in DOMAIN trace : trace[k].addr \in Allowed
  /\ todo \notin {<<>>, <<"RmwWrite">>} => Writings = {}
  /\ todo # <<>> /\ Kind = "Unfixed" => Fixes
  /\ todo = Rest => PaidAt(Len(trace))
  /\ CASE ShapeOf(opcode) = "Read"          -> todo = <<>> => ReadTraced
       [] ShapeOf(opcode) = "Write"         -> todo = <<>> => WriteTraced
       [] ShapeOf(opcode) = "UnstableStore" -> todo = <<>> => UnstableTraced
       [] ShapeOf(opcode) = "Rmw"           -> RmwOnBus

(* The other instructions write to the stack, if at all. *)
StoreKinds == {"WriteOperand", "WriteUnstable", "RmwDummy", "RmwWrite"}
PushKinds  == {"PushA", "PushHigh", "PushLow", "PushFlags"}

StackTraced ==
  /\ \A k \in DOMAIN todo : todo[k] \notin StoreKinds \cup {"FetchOffset", "BranchTaken"}
  /\ \A k \in Writings : Page(trace[k].addr) = 1

(* The invariant: the accesses so far are counted, the memory has changed  *)
(* where one of them wrote, and they are those of the instruction.         *)
Stained   == {trace[k].addr : k \in Writings}
Unstained == \A addr \in Word \ Stained : At(mem, addr) = At(before.mem, addr)

InstructionTraced ==
  /\ used >= 1 /\ Timed
  /\ CASE ShapeOf(opcode) \in Memorial            -> OperandTraced
       [] ShapeOf(opcode) \in {"Branch", "Accum"} -> Writings = {}
       [] OTHER                                   -> StackTraced

OnBus ==
  /\ Len(trace) = used
  /\ unit \in {"idle", "fetch"} => used = 0
  /\ unit # "idle" => Unstained
  /\ unit \in Instructions => InstructionTraced

-----------------------------------------------------------------------------
(* One access more on the trace. *)
LEMMA Recorded ==
  ASSUME CpuTypeOK, CpuTypeOK', NEW e, trace' = Append(trace, e)
  PROVE  LET n == Len(trace)
         IN  /\ n \in Nat /\ Len(trace') = n + 1
             /\ DOMAIN trace = 1 .. n /\ DOMAIN trace' = 1 .. n + 1
             /\ \A k \in 1 .. n : trace'[k] = trace[k]
             /\ trace'[n + 1] = e
             /\ Writings' = IF e.kind = "write" THEN Writings \cup {n + 1} ELSE Writings
<1> DEFINE S == [kind : {"read", "write"}, addr : Word, value : Byte]
           n == Len(trace)
<1>1. trace \in Seq(S) /\ trace' \in Seq(S)
  BY DEF CpuTypeOK
<1> HIDE DEF S
<1>2. /\ n \in Nat /\ Len(trace') = n + 1 /\ DOMAIN trace = 1 .. n /\ DOMAIN trace' = 1 .. n + 1
      /\ \A k \in 1 .. n : trace'[k] = trace[k]
      /\ trace'[n + 1] = e
  BY <1>1
<1> HIDE DEF n
<1>3. DOMAIN trace' = DOMAIN trace \cup {n + 1} /\ n + 1 \notin DOMAIN trace
  BY <1>2
<1>4. Writings' = IF e.kind = "write" THEN Writings \cup {n + 1} ELSE Writings
  BY <1>2, <1>3 DEF Writings
<1> QED
  BY <1>2, <1>4 DEF n

LEMMA ReadRecorded ==
  ASSUME CpuTypeOK, CpuTypeOK', NEW a, Reads(a)
  PROVE  LET n == Len(trace)
         IN  /\ n \in Nat /\ Len(trace') = n + 1
             /\ DOMAIN trace = 1 .. n /\ DOMAIN trace' = 1 .. n + 1
             /\ \A k \in 1 .. n : trace'[k] = trace[k]
             /\ trace'[n + 1].addr = a /\ trace'[n + 1].value = At(mem, a)
             /\ Writings' = Writings /\ mem' = mem
<1> DEFINE e == [kind |-> "read", addr |-> a, value |-> Peek(a)]
<1>1. trace' = Append(trace, e) /\ mem' = mem
  BY DEF Reads
<1>2. e.kind = "read" /\ e.addr = a /\ e.value = At(mem, a)
  BY DEF Peek
<1> HIDE DEF e
<1> QED
  BY <1>1, <1>2, Recorded

LEMMA WriteRecorded ==
  ASSUME CpuTypeOK, CpuTypeOK', NEW a, NEW v, Writes(a, v)
  PROVE  LET n == Len(trace)
         IN  /\ n \in Nat /\ Len(trace') = n + 1
             /\ DOMAIN trace = 1 .. n /\ DOMAIN trace' = 1 .. n + 1
             /\ \A k \in 1 .. n : trace'[k] = trace[k]
             /\ trace'[n + 1].addr = a /\ trace'[n + 1].value = v
             /\ Writings' = Writings \cup {n + 1} /\ mem' = Put(mem, a, v)
<1> DEFINE e == [kind |-> "write", addr |-> a, value |-> v]
<1>1. trace' = Append(trace, e) /\ mem' = Put(mem, a, v)
  BY DEF Writes
<1>2. e.kind = "write" /\ e.addr = a /\ e.value = v
  OBVIOUS
<1> HIDE DEF e
<1> QED
  BY <1>1, <1>2, Recorded

(* A write changes the memory at its address only. *)
Logs(e) ==
  /\ trace' = Append(trace, e)
  /\ \/ e.kind = "read" /\ mem' = mem /\ Kind \notin PushKinds
     \/ /\ e.kind = "write" /\ mem' = Put(mem, e.addr, e.value)
        /\ Kind \in StoreKinds \cup PushKinds
        /\ Kind \in PushKinds => e.addr = StackAddr(regs.s)

LEMMA ReadShows ==
  ASSUME NEW a, Reads(a), Kind \notin PushKinds
  PROVE  \E e : Logs(e)
<1> DEFINE e == [kind |-> "read", addr |-> a, value |-> Peek(a)]
<1>1. trace' = Append(trace, e) /\ mem' = mem /\ e.kind = "read"
  BY DEF Reads
<1> HIDE DEF e
<1> QED
  BY <1>1 DEF Logs

LEMMA WriteShows ==
  ASSUME NEW a, NEW v, Writes(a, v), Kind \in StoreKinds \cup PushKinds,
         Kind \in PushKinds => a = StackAddr(regs.s)
  PROVE  \E e : Logs(e)
<1> DEFINE e == [kind |-> "write", addr |-> a, value |-> v]
<1>1. /\ trace' = Append(trace, e) /\ mem' = Put(mem, e.addr, e.value)
      /\ e.kind = "write" /\ e.addr = a
  BY DEF Writes
<1> HIDE DEF e
<1> QED
  BY <1>1 DEF Logs

LEMMA CycleShows ==
  ASSUME CpuCycle
  PROVE  used' = used + 1 /\ \E e : Logs(e)
<1> USE DEF PushKinds, StoreKinds
<1>1. ASSUME NEW k, On(k) PROVE used' = used + 1 /\ Kind \in k
  BY <1>1 DEF On
<1>2. CASE FetchZeroPage \/ FetchLow \/ FetchHigh
  <2>1. Reads(pc) /\ used' = used + 1 /\ Kind \in {"FetchZeroPage", "FetchLow", "FetchHigh"}
    BY <1>1, <1>2 DEF FetchZeroPage, FetchLow, FetchHigh
  <2> QED
    BY <2>1, ReadShows
<1>3. CASE IndexZeroPage \/ PointerLow \/ PointerHigh \/ Unfixed
  <2>1. /\ Reads(t.addr) \/ Reads(U8(t.addr + 1)) \/ Reads(UnfixedAddr)
        /\ used' = used + 1 /\ Kind \in {"IndexZeroPage", "PointerLow", "PointerHigh", "Unfixed"}
    BY <1>1, <1>3 DEF IndexZeroPage, PointerLow, PointerHigh, Unfixed
  <2> QED
    BY <2>1, ReadShows
<1>4. CASE ReadOperand \/ RmwRead \/ AccumRead \/ ImpliedRead
  <2>1. /\ Reads(IF Mode = "Immediate" THEN pc ELSE t.addr) \/ Reads(t.addr) \/ Reads(pc)
        /\ used' = used + 1 /\ Kind \in {"ReadOperand", "RmwRead", "AccumRead", "ImpliedRead"}
    BY <1>1, <1>4 DEF ReadOperand, RmwRead, AccumRead, ImpliedRead
  <2> QED
    BY <2>1, ReadShows
<1>5. CASE FetchOffset \/ BranchTaken \/ BranchFixup
  <2>1. /\ Reads(pc) \/ Reads(WordOf(U8(t.addr), Page(pc)))
        /\ used' = used + 1 /\ Kind \in {"FetchOffset", "BranchTaken", "BranchFixup"}
    BY <1>1, <1>5 DEF FetchOffset, BranchTaken, BranchFixup
  <2> QED
    BY <2>1, ReadShows
<1>6. CASE WriteOperand
  <2>1. Writes(t.addr, StoreOp(Op, regs)) /\ used' = used + 1 /\ Kind = "WriteOperand"
    BY <1>1, <1>6 DEF WriteOperand
  <2> QED
    BY <2>1, WriteShows
<1>7. CASE WriteUnstable
  <2>1. used' = used + 1 /\ Kind = "WriteUnstable" /\ \E a, v : Writes(a, v)
    BY <1>1, <1>7 DEF WriteUnstable
  <2> QED
    BY <2>1, WriteShows
<1>8. CASE RmwDummy
  <2>1. /\ Writes(t.addr, t.value) \/ Reads(t.addr)
        /\ used' = used + 1 /\ Kind = "RmwDummy"
    BY <1>1, <1>8 DEF RmwDummy
  <2> QED
    BY <2>1, ReadShows, WriteShows
<1>9. CASE RmwWrite
  <2>1. used' = used + 1 /\ Kind = "RmwWrite" /\ \E v : Writes(t.addr, v)
    BY <1>1, <1>9 DEF RmwWrite
  <2> QED
    BY <2>1, WriteShows
<1>10. CASE Push
  <2>1. /\ Writes(StackAddr(regs.s), PushedByte) /\ used' = used + 1
        /\ Kind \in {"PushA", "PushHigh", "PushLow", "PushFlags"}
    BY <1>1, <1>10 DEF Push
  <2> QED
    BY <2>1, WriteShows
<1>11. CASE Pull \/ SkipByte \/ ResetStack
  <2>1. /\ Reads(PulledAddr) \/ Reads(pc) \/ Reads(StackAddr(regs.s))
        /\ used' = used + 1
        /\ Kind \in {"PullA", "PullFlags", "PullLow", "PullHigh", "SkipByte", "ResetStack"}
    BY <1>1, <1>11 DEF Pull, SkipByte, ResetStack
  <2> QED
    BY <2>1, ReadShows
<1>12. CASE Discard
  <2>1. /\ \E a : Reads(a)
        /\ used' = used + 1 /\ Kind \in {"IdleRead", "PeekStack", "JamHigh", "JamLow"}
    BY <1>1, <1>12 DEF Discard
  <2> QED
    BY <2>1, ReadShows
<1>13. CASE VectorLow \/ VectorHigh
  <2>1. /\ Reads(Vector) \/ Reads(Vector + 1)
        /\ used' = used + 1 /\ Kind \in {"VectorLow", "VectorHigh"}
    BY <1>1, <1>13 DEF VectorLow, VectorHigh
  <2> QED
    BY <2>1, ReadShows
<1>14. CASE JumpHigh \/ IndirectLow \/ IndirectHigh
  <2>1. /\ Reads(pc) \/ Reads(t.addr) \/ Reads(IndirectHighAddr)
        /\ used' = used + 1 /\ Kind \in {"JumpHigh", "IndirectLow", "IndirectHigh"}
    BY <1>1, <1>14 DEF JumpHigh, IndirectLow, IndirectHigh
  <2> QED
    BY <2>1, ReadShows
<1> QED
  BY <1>2, <1>3, <1>4, <1>5, <1>6, <1>7, <1>8, <1>9, <1>10, <1>11, <1>12, <1>13, <1>14 DEF CpuCycle

(* Every bus cycle adds one access to the trace and one to the count. *)
LEMMA CycleRecorded ==
  ASSUME CpuTypeOK, CpuTypeOK', CpuCycle
  PROVE  LET n == Len(trace)
         IN  /\ used' = used + 1
             /\ n \in Nat /\ Len(trace') = n + 1
             /\ DOMAIN trace = 1 .. n /\ DOMAIN trace' = 1 .. n + 1
             /\ \A k \in 1 .. n : trace'[k] = trace[k]
             /\ \/ mem' = mem /\ Writings' = Writings /\ Kind \notin PushKinds
                \/ /\ mem' = Put(mem, trace'[n + 1].addr, trace'[n + 1].value)
                   /\ Writings' = Writings \cup {n + 1}
                   /\ Kind \in StoreKinds \cup PushKinds
                   /\ Kind \in PushKinds => trace'[n + 1].addr = StackAddr(regs.s)
<1> DEFINE n == Len(trace)
<1>1. used' = used + 1
  BY CycleShows
<1>2. PICK e : Logs(e)
  BY CycleShows
<1>3. /\ n \in Nat /\ Len(trace') = n + 1 /\ DOMAIN trace = 1 .. n /\ DOMAIN trace' = 1 .. n + 1
      /\ \A k \in 1 .. n : trace'[k] = trace[k]
      /\ trace'[n + 1] = e
      /\ Writings' = IF e.kind = "write" THEN Writings \cup {n + 1} ELSE Writings
  BY <1>2, Recorded DEF Logs
<1> HIDE DEF n
<1>4. \/ mem' = mem /\ Writings' = Writings /\ Kind \notin PushKinds
      \/ /\ mem' = Put(mem, trace'[n + 1].addr, trace'[n + 1].value)
         /\ Writings' = Writings \cup {n + 1}
         /\ Kind \in StoreKinds \cup PushKinds
         /\ Kind \in PushKinds => trace'[n + 1].addr = StackAddr(regs.s)
  BY <1>2, <1>3 DEF Logs
<1> QED
  BY <1>1, <1>3, <1>4 DEF n

LEMMA PutElsewhere ==
  ASSUME NEW m, NEW a, NEW v, NEW b, a # b
  PROVE  At(Put(m, a, v), b) = At(m, b)
BY DEF Put, At

LEMMA UnstainedKeeps ==
  ASSUME CpuTypeOK, CpuTypeOK', CpuCycle, Unstained
  PROVE  Unstained'
<1> DEFINE n == Len(trace)
<1>1. before' = before
  BY WhichCycle
<1>2. /\ n \in Nat /\ DOMAIN trace = 1 .. n
      /\ \A k \in 1 .. n : trace'[k] = trace[k]
      /\ \/ mem' = mem /\ Writings' = Writings
         \/ /\ mem' = Put(mem, trace'[n + 1].addr, trace'[n + 1].value)
            /\ Writings' = Writings \cup {n + 1}
  BY CycleRecorded
<1> HIDE DEF n
<1>3. \A k \in Writings : k \in 1 .. n /\ trace'[k].addr = trace[k].addr
  BY <1>2 DEF Writings
<1>4. CASE mem' = mem /\ Writings' = Writings
  <2>1. Stained' = Stained
    BY <1>3, <1>4 DEF Stained
  <2> QED
    BY <1>1, <1>4, <2>1 DEF Unstained
<1>5. CASE /\ mem' = Put(mem, trace'[n + 1].addr, trace'[n + 1].value)
           /\ Writings' = Writings \cup {n + 1}
  <2>1. Stained' = Stained \cup {trace'[n + 1].addr}
    BY <1>3, <1>5 DEF Stained
  <2>2. ASSUME NEW addr \in Word \ Stained' PROVE At(mem', addr) = At(before'.mem, addr)
    <3>1. addr \in Word \ Stained /\ trace'[n + 1].addr # addr
      BY <2>1
    <3> QED
      BY <1>1, <1>5, <3>1, PutElsewhere DEF Unstained
  <2> QED
    BY <2>2 DEF Unstained
<1> QED
  BY <1>2, <1>4, <1>5

-----------------------------------------------------------------------------
(* The modes of the special instructions, and those of operations that     *)
(* print alike.                                                            *)
Prints(column, r) ==
  /\ column[r] \in SpecialOps => column[1] \in {"Implied", "Absolute"}
  /\ column[r] = "JMP_ABS" => column[1] = "Absolute"
  /\ column[r] = "NOP" => column[1] = "Implied"
  /\ column[r] = "NOP_R" => column[1] # "Implied"
  /\ column[r] # "JMP"

LEMMA LowerPrints ==
  ASSUME NEW c \in 1 .. 32, NEW r \in 2 .. 5
  PROVE  Prints(LowerColumns[c], r)
BY SMTT(60) DEF Prints, LowerColumns, SpecialOps

LEMMA UpperPrints ==
  ASSUME NEW c \in 1 .. 32, NEW r \in 2 .. 5
  PROVE  Prints(UpperColumns[c], r)
BY SMTT(60) DEF Prints, UpperColumns, SpecialOps

LEMMA PrintedModes ==
  ASSUME NEW code \in Byte
  PROVE  /\ OpOf(code) \in SpecialOps => ModeOf(code) \in {"Implied", "Absolute", "Indirect"}
         /\ OpOf(code) = "JMP_ABS" => ModeOf(code) = "Absolute"
         /\ OpOf(code) = "NOP" => ModeOf(code) = "Implied"
         /\ OpOf(code) = "NOP_R" => ModeOf(code) # "Implied"
         /\ OpOf(code) # "JMP"
<1> DEFINE Irregulars == {32, 108, 150, 151, 182, 183, 158, 159, 190, 191}
<1>1. CASE code \in Irregulars
  <2>1. /\ OpOf(code) \in {"JSR", "JMP_IND", "STX", "SAX", "LDX", "LAX", "SHX", "SHA"}
        /\ OpOf(code) = "JMP_IND" => ModeOf(code) = "Indirect"
        /\ OpOf(code) = "JSR" => ModeOf(code) = "Absolute"
    BY <1>1, Irregular DEF ModeOf
  <2> QED
    BY <2>1 DEF SpecialOps
<1>2. CASE code \notin Irregulars
  <2>1. ModeOf(code) = Column(code)[1] /\ OpOf(code) = Column(code)[RowOf(code)]
    BY <1>2, TablePlace DEF ModeOf
  <2>2. Prints(Column(code), RowOf(code))
    BY TablePlace, LowerPrints, UpperPrints
  <2> QED
    BY <2>1, <2>2 DEF Prints
<1> QED
  BY <1>1, <1>2

LEMMA NotIndexed ==
  ASSUME CpuTypeOK, ShapeOf(opcode) \notin Memorial
  PROVE  ~Indexed
<1>1. ShapeOf(opcode) \in {"Special", "Branch", "Accum", "Implied"}
  BY Families
<1>2. ShapeOf(opcode) = "Special" => Mode \in {"Implied", "Absolute", "Indirect"}
  BY Families, PrintedModes DEF Mode, CpuTypeOK
<1>3. Mode \in {"Implied", "Absolute", "Indirect", "Relative", "Accumulator"}
  BY <1>1, <1>2, TableModes DEF Mode, CpuTypeOK
<1> QED
  BY <1>3 DEF Indexed

(* One cycle less to do, but for the cycles that find out about more. *)
LEMMA CycleDone ==
  ASSUME CpuCycle
  PROVE  /\ Kind \notin {"FetchHigh", "PointerHigh", "FetchOffset", "BranchTaken"} =>
              todo' = Tail(todo)
         /\ Kind \in {"FetchHigh", "PointerHigh"} /\ ~Indexed => todo' = Tail(todo)
<1> USE DEF Done, On
<1>1. CASE FetchHigh \/ PointerHigh
  <2>1. Kind \in {"FetchHigh", "PointerHigh"} /\ \E base : Resolve(base)
    BY <1>1 DEF FetchHigh, PointerHigh
  <2> QED
    BY <2>1 DEF Resolve, PaysFixup
<1>2. CASE FetchOffset \/ BranchTaken
  BY <1>2 DEF FetchOffset, BranchTaken
<1>3. CASE FetchZeroPage \/ FetchLow \/ IndexZeroPage \/ PointerLow \/ Unfixed
  BY <1>3 DEF FetchZeroPage, FetchLow, IndexZeroPage, PointerLow, Unfixed
<1>4. CASE ReadOperand \/ WriteOperand \/ WriteUnstable
  BY <1>4 DEF ReadOperand, WriteOperand, WriteUnstable
<1>5. CASE RmwRead \/ RmwDummy \/ RmwWrite \/ AccumRead \/ ImpliedRead \/ BranchFixup
  BY <1>5 DEF RmwRead, RmwDummy, RmwWrite, AccumRead, ImpliedRead, BranchFixup
<1>6. CASE Push \/ Pull \/ Discard \/ SkipByte \/ ResetStack
  BY <1>6 DEF Push, Pull, Discard, SkipByte, ResetStack
<1>7. CASE VectorLow \/ VectorHigh \/ JumpHigh \/ IndirectLow \/ IndirectHigh
  BY <1>7 DEF VectorLow, VectorHigh, JumpHigh, IndirectLow, IndirectHigh
<1> QED
  BY <1>1, <1>2, <1>3, <1>4, <1>5, <1>6, <1>7 DEF CpuCycle

(* The instructions without an address keep their length. *)
LEMMA StackTimed ==
  ASSUME CpuTypeOK, CpuTypeOK', Scheduled, CpuCycle,
         ShapeOf(opcode) \notin Memorial \cup {"Branch"},
         Timed, Kind \notin {"FetchOffset", "BranchTaken"}
  PROVE  Timed'
<1>1. todo' = Tail(todo) /\ used' = used + 1 /\ opcode' = opcode /\ before' = before /\ todo # <<>>
  BY NotIndexed, CycleDone, CycleShows, WhichCycle
<1>2. Len(todo') = Len(todo) - 1 /\ Len(todo) \in Nat /\ used \in Nat
  <2>1. todo \in Seq(CycleKinds)
    BY DEF Scheduled
  <2> QED
    BY <1>1, <2>1, TailFacts DEF CpuTypeOK, TypeOK, MaxLength
<1>3. ~Fixes /\ ~Fixes'
  <2>1. ~Indexed /\ ~Indexed'
    BY <1>1, NotIndexed DEF Indexed, Mode
  <2> QED
    BY <2>1 DEF Fixes, PaysFixup
<1>4. Whole' = Whole
  BY <1>1 DEF Whole
<1>5. One(Fixes /\ Settled) = 0 /\ One(Fixes /\ Settled)' = 0
  BY <1>3 DEF One
<1>6. used + Len(todo) = Whole + 0
  BY <1>2, <1>5 DEF Timed
<1>7. used' + Len(todo') = Whole' + 0
  BY <1>1, <1>2, <1>4, <1>6
<1> QED
  BY <1>1, <1>5, <1>7 DEF Timed

-----------------------------------------------------------------------------
(* The instructions without an operand in memory write to the stack only.  *)
Quiet == StoreKinds \cup {"FetchOffset", "BranchTaken"}

LEMMA StackPage == ASSUME NEW s \in Byte PROVE Page(StackAddr(s)) = 1
BY ByteRange DEF Page, StackAddr

LEMMA StackTracedKeeps ==
  ASSUME CpuTypeOK, CpuTypeOK', Scheduled, CpuCycle, ShapeOf(opcode) \notin Memorial,
         StackTraced
  PROVE  StackTraced' /\ Kind \notin Quiet /\ (Kind \notin PushKinds => Writings' = Writings)
<1> DEFINE n == Len(trace)
<1>1. todo \in Seq(CycleKinds) /\ todo # <<>>
  BY WhichCycle DEF Scheduled
<1>2. Kind \notin Quiet
  BY <1>1, TailFacts DEF StackTraced, Kind, Quiet
<1>3. todo' = Tail(todo)
  BY <1>2, NotIndexed, CycleDone DEF Quiet
<1>4. \A k \in DOMAIN todo' : todo'[k] \notin Quiet
  BY <1>1, <1>3, TailFacts DEF StackTraced, Quiet
<1>5. /\ n \in Nat /\ DOMAIN trace = 1 .. n
      /\ \A k \in 1 .. n : trace'[k] = trace[k]
      /\ \/ Writings' = Writings
         \/ /\ Writings' = Writings \cup {n + 1} /\ Kind \in PushKinds
            /\ trace'[n + 1].addr = StackAddr(regs.s)
  BY <1>2, CycleRecorded DEF Quiet
<1>6. Page(StackAddr(regs.s)) = 1
  BY StackPage DEF CpuTypeOK, Registers
<1> HIDE DEF n
<1>7. \A k \in Writings : k \in 1 .. n /\ Page(trace'[k].addr) = 1
  BY <1>5 DEF StackTraced, Writings
<1>8. \A k \in Writings' : Page(trace'[k].addr) = 1
  BY <1>5, <1>6, <1>7
<1> QED
  BY <1>2, <1>4, <1>5, <1>8 DEF StackTraced, Quiet

LEMMA ImpliedQuiet ==
  ASSUME NEW op
  PROVE  \A k \in DOMAIN ImpliedCycles(op) : ImpliedCycles(op)[k] \notin Quiet
BY DEF ImpliedCycles, Quiet, StoreKinds

LEMMA SpecialQuiet ==
  ASSUME NEW op \in SpecialOps
  PROVE  \A k \in DOMAIN SpecialCycles(op) : SpecialCycles(op)[k] \notin Quiet
<1> USE DEF SpecialCycles, Quiet, StoreKinds
<1>1. CASE op \in {"BRK", "JSR"}
  BY <1>1
<1>2. CASE op \in {"RTS", "RTI"}
  BY <1>2
<1>3. CASE op \in {"JMP_ABS", "JMP_IND"}
  BY <1>3
<1>4. CASE op = "JAM"
  BY <1>4
<1> QED
  BY <1>1, <1>2, <1>3, <1>4 DEF SpecialOps

LEMMA QuietStarts ==
  ASSUME CpuTypeOK, ShapeOf(opcode) \in {"Special", "Implied"}, todo = InstructionCycles(opcode)
  PROVE  \A k \in DOMAIN todo : todo[k] \notin Quiet
<1>1. CASE ShapeOf(opcode) = "Special"
  <2>1. todo = SpecialCycles(OpOf(opcode)) /\ OpOf(opcode) \in SpecialOps
    BY <1>1, Families DEF InstructionCycles
  <2> QED
    BY <2>1, SpecialQuiet
<1>2. CASE ShapeOf(opcode) = "Implied"
  <2>1. todo = ImpliedCycles(OpOf(opcode))
    BY <1>2 DEF InstructionCycles
  <2> QED
    BY <2>1, ImpliedQuiet
<1> QED
  BY <1>1, <1>2

(* The accumulator instructions never write. *)
LEMMA AccumQuiet ==
  ASSUME CpuTypeOK, CpuTypeOK', CpuCycle, AccumCourse, Writings = {}
  PROVE  Writings' = {} /\ Kind = "AccumRead"
<1>1. todo = <<"AccumRead">>
  BY WhichCycle DEF AccumCourse
<1>2. Kind = "AccumRead"
  BY <1>1, Lists DEF Kind
<1> QED
  BY <1>2, CycleRecorded DEF StoreKinds, PushKinds

-----------------------------------------------------------------------------
(* The cycles of a branch: one more when taken, another when it leaves the *)
(* page of the next instruction.                                           *)
LEMMA BranchTimedKeeps ==
  ASSUME CpuTypeOK, CpuTypeOK', BeforeOK, CpuCycle, BranchCourse, BranchTimed, Writings = {}
  PROVE  BranchTimed' /\ Writings' = {}
<1> DEFINE taken  == Taken(Op, before.regs)
           target == TargetOf(before)
           leaves == CrossesPage(Ahead(2), target)
<1>1. /\ before' = before /\ opcode' = opcode /\ todo # <<>> /\ regs = before.regs
      /\ Op' = Op /\ target' = target /\ leaves' = leaves /\ taken' = taken
  BY WhichCycle DEF BranchCourse, Op, Ahead, Untouched, SameRegs
<1>2. used' = used + 1
  BY CycleShows
<1>3. Kind \in {"FetchOffset", "BranchTaken", "BranchFixup"}
  BY <1>1, Lists DEF BranchTimed, Kind
<1>4. Writings' = {}
  BY <1>3, CycleRecorded DEF StoreKinds, PushKinds
<1> SUFFICES BranchTimed'
  BY <1>4
<1>5. \/ todo' = <<"BranchTaken">> /\ used' = 2
      \/ todo' = <<"BranchFixup">> /\ used' = 3 /\ leaves
      \/ todo' = <<>> /\ used' = 2 + (IF taken THEN 1 + One(leaves) ELSE 0)
      => BranchTimed'
  BY <1>1, Zenon DEF BranchTimed
<1>6. CASE todo = <<"FetchOffset">> /\ used = 1
  <2>1. FetchOffset /\ Tail(todo) = <<>>
    BY <1>6, Lists, WhichCycle DEF Kind
  <2>2. todo' = (IF taken THEN <<"BranchTaken">> ELSE <<>>)
    BY <1>1, <2>1, Alone DEF FetchOffset, Then, Done
  <2> HIDE DEF taken, leaves
  <2> QED
    BY <1>2, <1>6, <1>5, <2>2
<1>7. CASE todo = <<"BranchTaken">> /\ used = 2
  <2>1. BranchTaken /\ Tail(todo) = <<>>
    BY <1>7, Lists, WhichCycle DEF Kind
  <2>2. taken /\ pc = Ahead(2) /\ t.addr = target
    BY <1>7, Lists DEF BranchCourse
  <2>3. todo' = (IF leaves THEN <<"BranchFixup">> ELSE <<>>)
    BY <2>1, <2>2, Alone DEF BranchTaken, Then, Done
  <2> HIDE DEF taken, leaves
  <2> QED
    BY <1>2, <1>7, <1>5, <2>2, <2>3 DEF One
<1>8. CASE todo = <<"BranchFixup">> /\ used = 3 /\ leaves
  <2>1. BranchFixup /\ Tail(todo) = <<>>
    BY <1>8, Lists, WhichCycle DEF Kind
  <2>2. taken
    BY <1>8, Lists DEF BranchCourse
  <2>3. todo' = <<>>
    BY <2>1 DEF BranchFixup, Done
  <2> HIDE DEF taken, leaves
  <2> QED
    BY <1>2, <1>8, <1>5, <2>2, <2>3 DEF One
<1> QED
  BY <1>1, <1>6, <1>7, <1>8 DEF BranchTimed

-----------------------------------------------------------------------------
(* The instructions with an operand.  What depends on the start of the call *)
(* and the opcode only does not change in a cycle.                          *)
LEMMA SameOperand ==
  ASSUME before' = before, opcode' = opcode
  PROVE  /\ Mode' = Mode /\ Op' = Op /\ Rest' = Rest /\ Whole' = Whole /\ Fixes' = Fixes
         /\ Allowed' = Allowed /\ DiscardedBytes' = DiscardedBytes
         /\ AddrOf(before, Mode)' = AddrOf(before, Mode)
         /\ BaseOf(before, Mode)' = BaseOf(before, Mode)
<1>1. Mode' = Mode /\ Op' = Op /\ Rest' = Rest /\ Whole' = Whole
  BY DEF Mode, Op, Rest, Whole
<1>2. /\ AddrOf(before, Mode)' = AddrOf(before, Mode)
      /\ BaseOf(before, Mode)' = BaseOf(before, Mode)
  BY <1>1
<1>3. Fixes' = Fixes
  BY <1>1, <1>2 DEF Fixes, PaysFixup, Indexed
<1>4. DiscardedBytes' = DiscardedBytes /\ PointerBytes' = PointerBytes /\ Code' = Code
  BY <1>1, <1>2 DEF DiscardedBytes, PointerBytes, Code
<1> QED
  BY <1>1, <1>2, <1>3, <1>4 DEF Allowed

LEMMA AllowedWords ==
  ASSUME BeforeOK
  PROVE  /\ Allowed \subseteq Word /\ AddrOf(before, Mode) \in Word
         /\ \A k \in 0 .. 2 : Ahead(k) \in Allowed
<1>1. /\ \A k : CodeAt(before, k) \in Byte
      /\ \A p : WordIn(before, p) \in Word
      /\ \A mode : BaseOf(before, mode) \in Word
      /\ before.regs.x \in Byte /\ before.regs.y \in Byte
      /\ before.pc \in Word
  BY BeforeFacts DEF BeforeOK
<1>2. ASSUME NEW b \in Byte, NEW c \in Byte PROVE U8(b + c) \in Byte
  BY ByteWord, U8Byte
<1>3. ASSUME NEW w \in Word, NEW b \in Byte PROVE U16(w + b) \in Word
  BY ByteWord, WordInt, U16Word
<1>4. AddrOf(before, Mode) \in Word
  <2>1. U16(before.pc + 1) \in Word
    BY <1>1, WordInt, U16Word
  <2> QED
    BY <1>1, <1>2, <1>3, <2>1, ByteWord DEF AddrOf
<1>5. ASSUME NEW k \in 0 .. 2 PROVE U16(before.pc + k) \in Word
  BY <1>1, WordInt, U16Word
<1>6. Code \subseteq Word
  BY <1>5 DEF Code
<1>7. PointerBytes \subseteq Word
  <2>1. ASSUME NEW b \in Byte, NEW c \in Byte, NEW k \in {0, 1}
        PROVE  U8(b + c + k) \in Word /\ U8(b + k) \in Word
    BY ByteWord, U8Byte
  <2> QED
    BY <1>1, <2>1 DEF PointerBytes
<1>8. DiscardedBytes \subseteq Word
  <2>1. U8(AddrOf(before, Mode)) \in Byte /\ Page(BaseOf(before, Mode)) \in Byte
    BY <1>1, <1>4, WordInt, U8Byte, PageByte
  <2> QED
    BY <1>1, <2>1, ByteWord, WordOfWord DEF DiscardedBytes
<1>9. \A k \in 0 .. 2 : Ahead(k) \in Allowed
  BY DEF Ahead, Allowed, Code
<1> QED
  BY <1>4, <1>6, <1>7, <1>8, <1>9 DEF Allowed

(* The cycles of the operation are none of those of the address. *)
LEMMA RestHead ==
  ASSUME ShapeOf(opcode) \in Memorial
  PROVE  /\ Rest \in Seq(CycleKinds) /\ Rest # <<>> /\ Head(Rest) \notin AddressKinds
         /\ Rest \notin {<<"RmwWrite">>, <<"RmwDummy", "RmwWrite">>}
<1> USE DEF Rest, OperandCycles, AddressKinds
<1> HIDE DEF CycleKinds
<1>1. Rest \in Seq(CycleKinds) /\ Rest # <<>>
  BY OperandTails
<1>2. CASE ShapeOf(opcode) = "Read"
  BY <1>1, <1>2
<1>3. CASE ShapeOf(opcode) = "Write"
  BY <1>1, <1>3
<1>4. CASE ShapeOf(opcode) = "UnstableStore"
  BY <1>1, <1>4
<1>5. CASE ShapeOf(opcode) = "Rmw"
  BY <1>1, <1>5
<1> QED
  BY <1>2, <1>3, <1>4, <1>5 DEF Memorial

(* A cycle of the address reads at a; what comes next is another one, the  *)
(* operation, or the discarded read if one is due.                         *)
AddressCycle(a) ==
  /\ Reads(a) /\ a \in Allowed /\ todo # <<>> /\ Kind \in AddressKinds
  /\ \/ /\ Kind # "Unfixed" /\ todo' = Tail(todo) /\ todo' # <<>>
        /\ Head(todo') \in AddressKinds \ {"Unfixed"}
     \/ Kind # "Unfixed" /\ todo' = Tail(todo) /\ todo' = Rest /\ ~Fixes
     \/ Kind # "Unfixed" /\ Tail(todo) = Rest /\ todo' = <<"Unfixed">> \o Rest /\ Fixes
     \/ Kind = "Unfixed" /\ todo' = Tail(todo) /\ todo' = Rest /\ a \in DiscardedBytes

LEMMA WholeInt == Whole \in Int
<1> HIDE DEF CycleKinds
<1>1. InstructionCycles(opcode) \in Seq(CycleKinds)
  BY InstructionList
<1> QED
  BY <1>1 DEF Whole

LEMMA AddressTimed ==
  ASSUME CpuTypeOK, Scheduled, CpuCycle, ShapeOf(opcode) \in Memorial, Timed, NEW a, AddressCycle(a)
  PROVE  Timed'
<1>1. /\ used' = used + 1 /\ before' = before /\ opcode' = opcode
      /\ Fixes' = Fixes /\ Whole' = Whole
  BY CycleShows, WhichCycle, SameOperand
<1>2. todo \in Seq(CycleKinds) /\ todo # <<>> /\ used \in Nat
  BY WhichCycle DEF Scheduled, CpuTypeOK, TypeOK, MaxLength
<1>3. /\ Rest \in Seq(CycleKinds) /\ Rest # <<>> /\ Head(Rest) \notin AddressKinds
  BY RestHead
<1>4. Len(todo) \in Nat /\ Len(Tail(todo)) = Len(todo) - 1
  BY <1>2, TailFacts
<1>5. /\ used + Len(todo) = Whole + One(Fixes /\ Settled)
      /\ Timed' <=> used' + Len(todo') = Whole + One(Fixes /\ Settled')
  <2>1. ShapeOf(opcode) # "Branch"
    BY DEF Memorial
  <2> QED
    BY <1>1, <2>1 DEF Timed, One
<1>6. Settled <=> Kind = "Unfixed"
  BY <1>2 DEF Settled, AddressCycle
<1>7. Settled' <=> todo' = <<>> \/ Head(todo') \notin AddressKinds \ {"Unfixed"}
  BY DEF Settled, Kind
<1>8. CASE /\ Kind # "Unfixed" /\ todo' = Tail(todo) /\ todo' # <<>>
           /\ Head(todo') \in AddressKinds \ {"Unfixed"}
  BY <1>1, <1>2, <1>4, <1>5, <1>6, <1>7, <1>8 DEF One
<1>9. CASE Kind # "Unfixed" /\ todo' = Tail(todo) /\ todo' = Rest /\ ~Fixes
  BY <1>1, <1>2, <1>4, <1>5, <1>9 DEF One
<1>10. CASE Kind # "Unfixed" /\ Tail(todo) = Rest /\ todo' = <<"Unfixed">> \o Rest /\ Fixes
  <2>1. Head(todo') = "Unfixed" /\ Len(todo') = Len(Rest) + 1 /\ Len(Rest) \in Nat
    <3> HIDE DEF CycleKinds
    <3>1. "Unfixed" \in CycleKinds
      BY AddressKindsOK DEF AddressKinds
    <3> QED
      BY <1>3, <1>10, <3>1, Joined
  <2>2. One(Fixes /\ Settled) = 0 /\ One(Fixes /\ Settled)' = 1
    BY <1>1, <1>6, <1>7, <1>10, <2>1 DEF One
  <2>3. used' + Len(todo') = Whole + 1
    <3>1. used + Len(todo) = Whole + 0
      BY <1>5, <2>2
    <3>2. Len(Rest) = Len(todo) - 1
      BY <1>4, <1>10, Zenon
    <3>3. Len(todo') = Len(todo)
      BY <1>4, <2>1, <3>2
    <3> QED
      BY <1>1, <1>2, <1>4, <3>1, <3>3, WholeInt
  <2> QED
    BY <1>1, <1>5, <1>6, <1>7, <1>10, <2>1, <2>3 DEF One
<1>11. CASE Kind = "Unfixed" /\ todo' = Tail(todo) /\ todo' = Rest
  BY <1>1, <1>2, <1>3, <1>4, <1>5, <1>6, <1>7, <1>11 DEF One
<1> QED
  BY <1>8, <1>9, <1>10, <1>11 DEF AddressCycle

LEMMA AddressTraced ==
  ASSUME CpuTypeOK, CpuTypeOK', BeforeOK, CpuCycle, ShapeOf(opcode) \in Memorial, OperandTraced,
         NEW a, AddressCycle(a)
  PROVE  OperandTraced'
<1> DEFINE n == Len(trace)
<1>1. /\ before' = before /\ opcode' = opcode
      /\ Fixes' = Fixes /\ Rest' = Rest /\ Allowed' = Allowed /\ DiscardedBytes' = DiscardedBytes
  BY WhichCycle, SameOperand
<1>2. a \in Allowed /\ a \in Word /\ Reads(a) /\ todo # <<>> /\ Kind \in AddressKinds
  BY AllowedWords DEF AddressCycle
<1>3. /\ n \in Nat /\ Len(trace') = n + 1 /\ DOMAIN trace = 1 .. n /\ DOMAIN trace' = 1 .. n + 1
      /\ \A k \in 1 .. n : trace'[k] = trace[k]
      /\ trace'[n + 1].addr = a /\ Writings' = Writings
  BY <1>2, ReadRecorded
<1> HIDE DEF n
<1>4. todo # <<"RmwWrite">>
  BY <1>2, Lists DEF Kind, AddressKinds
<1>5. \A k \in DOMAIN trace : trace[k].addr \in Allowed
  BY <1>2 DEF OperandTraced
<1>6. Writings' = {}
  BY <1>2, <1>3, <1>4 DEF OperandTraced
<1>7. \A k \in DOMAIN trace' : trace'[k].addr \in Allowed'
  BY <1>1, <1>2, <1>3, <1>5
<1>8. /\ Rest \in Seq(CycleKinds) /\ Rest # <<>> /\ Head(Rest) \notin AddressKinds
      /\ Rest \notin {<<"RmwWrite">>, <<"RmwDummy", "RmwWrite">>}
  BY RestHead
<1>9. Head(<<"Unfixed">> \o Rest) = "Unfixed" /\ <<"Unfixed">> \o Rest # <<>>
  <2> HIDE DEF CycleKinds
  <2>1. "Unfixed" \in CycleKinds
    BY AddressKindsOK DEF AddressKinds
  <2> QED
    BY <1>8, <2>1, Joined
<1>10. \/ todo' = Rest /\ (Fixes => a \in DiscardedBytes)
       \/ todo' # <<>> /\ Head(todo') \in AddressKinds /\ (Head(todo') = "Unfixed" => Fixes)
  BY <1>9 DEF AddressCycle, AddressKinds
<1>11. todo' \notin {<<>>, <<"RmwWrite">>, <<"RmwDummy", "RmwWrite">>}
  BY <1>8, <1>10, Lists DEF AddressKinds
<1>12. todo' # <<>> /\ Kind' = "Unfixed" => Fixes'
  BY <1>1, <1>8, <1>10 DEF Kind, AddressKinds
<1>13. todo' = Rest' => PaidAt(Len(trace))'
  BY <1>1, <1>3, <1>8, <1>10 DEF PaidAt
<1>14. RmwOnBus'
  BY <1>11 DEF RmwOnBus
<1>15. ShapeOf(opcode)' \in Memorial
  BY <1>1
<1> QED
  BY <1>6, <1>7, <1>11, <1>12, <1>13, <1>14, <1>15 DEF OperandTraced, Memorial

(* The bytes of a pointer are where they may be. *)
LEMMA PointerAllowed ==
  ASSUME BeforeOK, Mode \in {"IndirectX", "IndirectY"}
  PROVE  PointerOf(before, Mode) \in Allowed /\ U8(PointerOf(before, Mode) + 1) \in Allowed
<1> DEFINE byte == CodeAt(before, 1)
           x    == before.regs.x
<1>1. byte \in Byte /\ x \in Byte
  BY BeforeFacts
<1>2. ASSUME NEW b \in Byte, NEW c \in Byte
      PROVE  /\ U8(b + c) = U8(b + c + 0) /\ U8(U8(b + c) + 1) = U8(b + c + 1)
             /\ b = U8(b + 0)
  BY ByteRange DEF U8
<1>3. CASE Mode = "IndirectX"
  <2>1. PointerBytes = {U8(byte + x + k) : k \in {0, 1}} /\ PointerOf(before, Mode) = U8(byte + x)
    BY <1>3 DEF PointerBytes, PointerOf
  <2> HIDE DEF byte, x
  <2>2. PointerOf(before, Mode) \in PointerBytes /\ U8(PointerOf(before, Mode) + 1) \in PointerBytes
    BY <1>1, <1>2, <2>1
  <2> QED
    BY <2>2 DEF Allowed
<1>4. CASE Mode = "IndirectY"
  <2>1. PointerBytes = {U8(byte + k) : k \in {0, 1}} /\ PointerOf(before, Mode) = byte
    BY <1>4 DEF PointerBytes, PointerOf
  <2> HIDE DEF byte, x
  <2>2. PointerOf(before, Mode) \in PointerBytes /\ U8(PointerOf(before, Mode) + 1) \in PointerBytes
    BY <1>1, <1>2, <2>1
  <2> QED
    BY <2>2 DEF Allowed
<1> QED
  BY <1>3, <1>4

(* Indexing pays for the fixup exactly when one is due. *)
LEMMA ResolvesFixup ==
  ASSUME CpuTypeOK, BeforeOK, regs = before.regs,
         Mode \in {"Absolute", "AbsoluteX", "AbsoluteY", "IndirectX", "IndirectY"},
         NEW base, Resolve(base),
         base = IF Mode = "IndirectX" THEN WordIn(before, PointerOf(before, Mode))
                ELSE BaseOf(before, Mode)
  PROVE  todo' = IF Fixes THEN <<"Unfixed">> \o Tail(todo) ELSE Tail(todo)
<1>1. U16(base + PostIndex) = AddrOf(before, Mode)
  BY IndexedBase
<1>2. todo' = IF PaysFixup(base, U16(base + PostIndex)) THEN <<"Unfixed">> \o Tail(todo)
              ELSE Tail(todo)
  BY DEF Resolve, Then, Done
<1>3. Indexed => base = BaseOf(before, Mode)
  BY DEF Indexed
<1>4. PaysFixup(base, AddrOf(before, Mode)) <=> Fixes
  <2>1. CASE Indexed
    BY <1>3, <2>1 DEF Fixes
  <2>2. CASE ~Indexed
    BY <2>2 DEF Fixes, PaysFixup
  <2> QED
    BY <2>1, <2>2
<1> QED
  BY <1>1, <1>2, <1>4

LEMMA FirstTraced ==
  ASSUME CpuTypeOK, BeforeOK, CpuCycle, ShapeOf(opcode) \in Memorial,
         Untouched, Mode # "Immediate", todo = ModeCycles(Mode) \o Rest, pc = Ahead(1)
  PROVE  \E a : AddressCycle(a)
<1>1. Rest \in Seq(CycleKinds) /\ Mode \in MemoryModes /\ Ahead(1) \in Allowed /\ todo # <<>>
  <2>1. Mode \in MemoryModes
    BY TableModes DEF Mode, Memorial, CpuTypeOK, MemoryModes
  <2> QED
    BY <2>1, WhichCycle, AllowedWords, OperandTails DEF Rest
<1> HIDE DEF CycleKinds
<1>2. ASSUME Kind \in {"FetchZeroPage", "FetchLow"}
      PROVE  Reads(pc) /\ todo' = Tail(todo) /\ Kind \in AddressKinds \ {"Unfixed"}
  BY <1>2, WhichCycle DEF FetchZeroPage, FetchLow, Done, AddressKinds
<1>3. ASSUME Kind \in {"FetchZeroPage", "FetchLow"},
             \/ todo' # <<>> /\ Head(todo') \in AddressKinds \ {"Unfixed"}
             \/ todo' = Rest /\ ~Fixes
      PROVE  AddressCycle(pc)
  BY <1>1, <1>2, <1>3 DEF AddressCycle
<1>4. CASE Mode = "ZeroPage"
  <2>1. todo = <<"FetchZeroPage">> \o Rest /\ ~Fixes
    BY <1>4 DEF ModeCycles, Fixes, PaysFixup, Indexed
  <2>2. Kind = "FetchZeroPage" /\ Tail(todo) = Rest
    BY <1>1, <2>1, Joined, AddressKindsOK DEF Kind, AddressKinds
  <2> QED
    BY <1>2, <1>3, <2>1, <2>2
<1>5. CASE Mode \in {"ZeroPageX", "ZeroPageY"}
  <2>1. todo = <<"FetchZeroPage", "IndexZeroPage">> \o Rest
    BY <1>5 DEF ModeCycles
  <2>2. Kind = "FetchZeroPage" /\ Tail(todo) = <<"IndexZeroPage">> \o Rest
    BY <1>1, <2>1, Joined, AddressKindsOK DEF Kind, AddressKinds
  <2>3. todo' = <<"IndexZeroPage">> \o Rest
    BY <1>2, <2>2
  <2>4. todo' # <<>> /\ Head(todo') = "IndexZeroPage"
    BY <1>1, <2>3, Joined, AddressKindsOK DEF AddressKinds
  <2> QED
    BY <1>3, <2>2, <2>4 DEF AddressKinds
<1>6. CASE Mode = "IndirectX"
  <2>1. todo = <<"FetchZeroPage", "IndexZeroPage", "PointerLow", "PointerHigh">> \o Rest
    BY <1>6 DEF ModeCycles
  <2>2. /\ Kind = "FetchZeroPage"
        /\ Tail(todo) = <<"IndexZeroPage", "PointerLow", "PointerHigh">> \o Rest
    BY <1>1, <2>1, Joined, AddressKindsOK DEF Kind, AddressKinds
  <2>3. todo' = <<"IndexZeroPage", "PointerLow", "PointerHigh">> \o Rest
    BY <1>2, <2>2
  <2>4. todo' # <<>> /\ Head(todo') = "IndexZeroPage"
    BY <1>1, <2>3, Joined, AddressKindsOK DEF AddressKinds
  <2> QED
    BY <1>3, <2>2, <2>4 DEF AddressKinds
<1>7. CASE Mode = "IndirectY"
  <2>1. todo = <<"FetchZeroPage", "PointerLow", "PointerHigh">> \o Rest
    BY <1>7 DEF ModeCycles
  <2>2. Kind = "FetchZeroPage" /\ Tail(todo) = <<"PointerLow", "PointerHigh">> \o Rest
    BY <1>1, <2>1, Joined, AddressKindsOK DEF Kind, AddressKinds
  <2>3. todo' = <<"PointerLow", "PointerHigh">> \o Rest
    BY <1>2, <2>2
  <2>4. todo' # <<>> /\ Head(todo') = "PointerLow"
    BY <1>1, <2>3, Joined, AddressKindsOK DEF AddressKinds
  <2> QED
    BY <1>3, <2>2, <2>4 DEF AddressKinds
<1>8. CASE Mode \in {"Absolute", "AbsoluteX", "AbsoluteY"}
  <2>1. todo = <<"FetchLow", "FetchHigh">> \o Rest
    BY <1>8 DEF ModeCycles
  <2>2. Kind = "FetchLow" /\ Tail(todo) = <<"FetchHigh">> \o Rest
    BY <1>1, <2>1, Joined, AddressKindsOK DEF Kind, AddressKinds
  <2>3. todo' = <<"FetchHigh">> \o Rest
    BY <1>2, <2>2
  <2>4. todo' # <<>> /\ Head(todo') = "FetchHigh"
    BY <1>1, <2>3, Joined, AddressKindsOK DEF AddressKinds
  <2> QED
    BY <1>3, <2>2, <2>4 DEF AddressKinds
<1> QED
  BY <1>1, <1>4, <1>5, <1>6, <1>7, <1>8 DEF MemoryModes

LEMMA LaterTraced ==
  ASSUME CpuTypeOK, BeforeOK, CpuCycle, ShapeOf(opcode) \in Memorial, AddressCourse, OperandTraced,
         ~(Mode # "Immediate" /\ todo = ModeCycles(Mode) \o Rest /\ pc = Ahead(1)),
         ~(todo = Rest /\ Addressed)
  PROVE  \E a : AddressCycle(a)
<1>1. Rest \in Seq(CycleKinds) /\ Ahead(2) \in Allowed /\ Untouched /\ regs = before.regs
      /\ mem = before.mem /\ todo # <<>>
  BY WhichCycle, OperandTails, AllowedWords DEF Rest, AddressCourse, Untouched, SameRegs
<1> HIDE DEF CycleKinds
<1>2. CASE /\ Mode \in {"Absolute", "AbsoluteX", "AbsoluteY"}
           /\ todo = <<"FetchHigh">> \o Rest /\ pc = Ahead(2) /\ t.lo = CodeAt(before, 1)
  <2>1. Kind = "FetchHigh" /\ Tail(todo) = Rest
    BY <1>1, <1>2, Joined, AddressKindsOK DEF Kind, AddressKinds
  <2>2. FetchHigh
    BY <2>1, WhichCycle
  <2>3. WordOf(t.lo, Peek(pc)) = BaseOf(before, Mode)
    BY <1>1, <1>2 DEF Peek, CodeAt, Ahead, OperandWord, BaseOf
  <2>4. Resolve(BaseOf(before, Mode)) /\ Reads(pc)
    BY <2>2, <2>3 DEF FetchHigh
  <2>5. todo' = IF Fixes THEN <<"Unfixed">> \o Tail(todo) ELSE Tail(todo)
    BY <1>1, <1>2, <2>4, ResolvesFixup
  <2>6. AddressCycle(pc)
    BY <1>1, <1>2, <2>1, <2>4, <2>5 DEF AddressCycle, AddressKinds
  <2> QED
    BY <2>6
<1>3. CASE /\ Mode \in {"ZeroPageX", "ZeroPageY"}
           /\ todo = <<"IndexZeroPage">> \o Rest /\ pc = Ahead(2) /\ t.addr = CodeAt(before, 1)
  <2>1. Kind = "IndexZeroPage" /\ Tail(todo) = Rest
    BY <1>1, <1>3, Joined, AddressKindsOK DEF Kind, AddressKinds
  <2>2. Reads(t.addr) /\ todo' = Tail(todo)
    BY <2>1, WhichCycle DEF IndexZeroPage, Done
  <2>3. t.addr \in Allowed /\ ~Fixes
    BY <1>3 DEF Allowed, DiscardedBytes, Fixes, PaysFixup, Indexed
  <2>4. AddressCycle(t.addr)
    BY <1>1, <2>1, <2>2, <2>3 DEF AddressCycle, AddressKinds
  <2> QED
    BY <2>4
<1>4. CASE /\ Mode = "IndirectX" /\ todo = <<"IndexZeroPage", "PointerLow", "PointerHigh">> \o Rest
           /\ pc = Ahead(2) /\ t.addr = CodeAt(before, 1)
  <2>1. Kind = "IndexZeroPage" /\ Tail(todo) = <<"PointerLow", "PointerHigh">> \o Rest
    BY <1>1, <1>4, Joined, AddressKindsOK DEF Kind, AddressKinds
  <2>2. Reads(t.addr) /\ todo' = Tail(todo)
    BY <2>1, WhichCycle DEF IndexZeroPage, Done
  <2>3. todo' = <<"PointerLow", "PointerHigh">> \o Rest
    BY <2>2, <2>1
  <2>4. todo' # <<>> /\ Head(todo') = "PointerLow"
    BY <1>1, <2>3, Joined, AddressKindsOK DEF AddressKinds
  <2>5. t.addr \in Allowed
    BY <1>4 DEF Allowed, DiscardedBytes
  <2>6. AddressCycle(t.addr)
    BY <1>1, <2>1, <2>2, <2>5, <2>4 DEF AddressCycle, AddressKinds
  <2> QED
    BY <2>6
<1>5. CASE /\ Mode \in {"IndirectX", "IndirectY"}
           /\ todo = <<"PointerLow", "PointerHigh">> \o Rest
           /\ pc = Ahead(2) /\ t.addr = PointerOf(before, Mode)
  <2>1. Kind = "PointerLow" /\ Tail(todo) = <<"PointerHigh">> \o Rest
    BY <1>1, <1>5, Joined, AddressKindsOK DEF Kind, AddressKinds
  <2>2. Reads(t.addr) /\ todo' = Tail(todo)
    BY <2>1, WhichCycle DEF PointerLow, Done
  <2>3. todo' = <<"PointerHigh">> \o Rest
    BY <2>2, <2>1
  <2>4. todo' # <<>> /\ Head(todo') = "PointerHigh"
    BY <1>1, <2>3, Joined, AddressKindsOK DEF AddressKinds
  <2>5. t.addr \in Allowed
    BY <1>5, PointerAllowed
  <2>6. AddressCycle(t.addr)
    BY <1>1, <2>1, <2>2, <2>5, <2>4 DEF AddressCycle, AddressKinds
  <2> QED
    BY <2>6
<1>6. CASE /\ Mode \in {"IndirectX", "IndirectY"} /\ todo = <<"PointerHigh">> \o Rest
           /\ pc = Ahead(2) /\ t.addr = PointerOf(before, Mode) /\ t.lo = At(mem, t.addr)
  <2> DEFINE base == IF Mode = "IndirectX" THEN WordIn(before, PointerOf(before, Mode))
                     ELSE BaseOf(before, Mode)
             high == U8(t.addr + 1)
  <2>1. Kind = "PointerHigh" /\ Tail(todo) = Rest
    BY <1>1, <1>6, Joined, AddressKindsOK DEF Kind, AddressKinds
  <2>2. PointerHigh
    BY <2>1, WhichCycle
  <2>3. WordOf(t.lo, Peek(U8(t.addr + 1))) = base
    BY <1>1, <1>6 DEF Peek, WordIn, BaseOf, PointerOf
  <2>4. Resolve(base) /\ Reads(high)
    BY <2>2, <2>3 DEF PointerHigh
  <2>5. todo' = IF Fixes THEN <<"Unfixed">> \o Tail(todo) ELSE Tail(todo)
    BY <1>1, <1>6, <2>4, ResolvesFixup
  <2>6. high \in Allowed
    BY <1>6, PointerAllowed
  <2> HIDE DEF high, base
  <2>7. AddressCycle(high)
    BY <1>1, <2>1, <2>4, <2>5, <2>6 DEF AddressCycle, AddressKinds
  <2> QED
    BY <2>7
<1>7. CASE todo = <<"Unfixed">> \o Rest /\ Addressed
  <2>1. Kind = "Unfixed" /\ Tail(todo) = Rest
    BY <1>1, <1>7, Joined, AddressKindsOK DEF Kind, AddressKinds
  <2>2. Reads(UnfixedAddr) /\ todo' = Tail(todo)
    BY <2>1, WhichCycle DEF Unfixed, Done
  <2>3. Indexed
    BY <1>1, <2>1 DEF OperandTraced, Fixes, PaysFixup
  <2>4. UnfixedAddr \in DiscardedBytes
    BY <1>7, <2>3 DEF UnfixedAddr, DiscardedBytes, Indexed, Addressed
  <2>5. UnfixedAddr \in Allowed
    BY <2>4 DEF Allowed
  <2>6. AddressCycle(UnfixedAddr)
    BY <1>1, <2>1, <2>2, <2>4, <2>5 DEF AddressCycle, AddressKinds
  <2> QED
    BY <2>6
<1> QED
  BY <1>2, <1>3, <1>4, <1>5, <1>6, <1>7 DEF AddressCourse

-----------------------------------------------------------------------------
(* The operation, once the operand has its address. *)
LEMMA OperationTimed ==
  ASSUME CpuTypeOK, Scheduled, CpuCycle, ShapeOf(opcode) \in Memorial, Timed,
         Kind \notin AddressKinds \cup {"FetchOffset", "BranchTaken"},
         todo' = <<>> \/ Head(todo') \notin AddressKinds
  PROVE  Timed'
<1>1. /\ used' = used + 1 /\ before' = before /\ opcode' = opcode
      /\ Fixes' = Fixes /\ Whole' = Whole /\ todo' = Tail(todo)
  BY CycleShows, WhichCycle, SameOperand, CycleDone DEF AddressKinds
<1>2. todo \in Seq(CycleKinds) /\ todo # <<>> /\ used \in Nat
  BY WhichCycle DEF Scheduled, CpuTypeOK, TypeOK, MaxLength
<1>3. Len(todo) \in Nat /\ Len(todo') = Len(todo) - 1
  BY <1>1, <1>2, TailFacts
<1>4. Settled /\ Settled'
  BY DEF Settled, Kind
<1>5. /\ used + Len(todo) = Whole + One(Fixes)
      /\ Timed' <=> used' + Len(todo') = Whole + One(Fixes)
  <2>1. ShapeOf(opcode) # "Branch"
    BY DEF Memorial
  <2> QED
    BY <1>1, <1>4, <2>1 DEF Timed, One
<1> QED
  BY <1>1, <1>2, <1>3, <1>5

(* One access more, at the address of the operand or the discarded one     *)
(* before it: what was known of the earlier ones is still known.           *)
LEMMA PaidStill ==
  ASSUME CpuTypeOK, CpuTypeOK', CpuCycle, NEW k, PaidAt(k)
  PROVE  Fixes' => k \in DOMAIN trace' /\ trace'[k].addr \in DiscardedBytes'
<1> DEFINE n == Len(trace)
<1>1. Fixes' = Fixes /\ DiscardedBytes' = DiscardedBytes
  BY WhichCycle, SameOperand
<1>2. /\ n \in Nat /\ DOMAIN trace = 1 .. n /\ DOMAIN trace' = 1 .. n + 1
      /\ \A j \in 1 .. n : trace'[j] = trace[j]
  BY CycleRecorded
<1> HIDE DEF n
<1>3. ASSUME k \in 1 .. n PROVE k \in 1 .. n + 1
  BY <1>2, <1>3
<1> QED
  BY <1>1, <1>2, <1>3 DEF PaidAt

LEMMA ReadTracedKeeps ==
  ASSUME CpuTypeOK, CpuTypeOK', BeforeOK, Scheduled, CpuCycle, ShapeOf(opcode) = "Read",
         Untouched, Addressed, todo = Rest, Timed, OperandTraced, Len(trace) >= 1
  PROVE  Timed' /\ OperandTraced'
<1> DEFINE n    == Len(trace)
           addr == AddrOf(before, Mode)
<1>1. /\ before' = before /\ opcode' = opcode /\ addr' = addr /\ Rest' = Rest
      /\ Allowed' = Allowed /\ addr \in Allowed
  BY WhichCycle, SameOperand DEF Allowed
<1>2. todo = <<"ReadOperand">>
  BY DEF Rest, OperandCycles
<1>3. ReadOperand /\ Tail(todo) = <<>> /\ Kind = "ReadOperand"
  BY <1>2, Lists, WhichCycle DEF Kind
<1>4. Reads(addr) /\ todo' = <<>>
  BY <1>3 DEF ReadOperand, Done, Addressed, AddrOf, Ahead
<1>5. Timed'
  BY <1>3, <1>4, OperationTimed DEF Memorial, AddressKinds
<1> HIDE DEF addr
<1>6. /\ n \in Nat /\ Len(trace') = n + 1 /\ DOMAIN trace = 1 .. n /\ DOMAIN trace' = 1 .. n + 1
      /\ \A k \in 1 .. n : trace'[k] = trace[k]
      /\ trace'[n + 1].addr = addr /\ Writings' = Writings
  BY <1>4, ReadRecorded
<1>7. /\ Writings = {} /\ PaidAt(n) /\ \A k \in DOMAIN trace : trace[k].addr \in Allowed
  BY <1>2, Lists DEF OperandTraced
<1>8. Fixes' => n \in DOMAIN trace' /\ trace'[n].addr \in DiscardedBytes'
  BY <1>7, PaidStill
<1> HIDE DEF n
<1>9. Len(trace') - 1 = n
  BY <1>6
<1>10. ReadTraced'
  BY <1>1, <1>6, <1>7, <1>8, <1>9 DEF ReadTraced, PaidAt, addr
<1>11. \A k \in DOMAIN trace' : trace'[k].addr \in Allowed'
  BY <1>1, <1>6, <1>7
<1>12. Rest # <<>>
  BY RestHead DEF Memorial
<1> QED
  BY <1>1, <1>4, <1>5, <1>10, <1>11, <1>12 DEF OperandTraced

LEMMA WriteTracedKeeps ==
  ASSUME CpuTypeOK, CpuTypeOK', BeforeOK, Scheduled, CpuCycle, ShapeOf(opcode) = "Write",
         Untouched, Addressed, todo = Rest, Timed, OperandTraced, Len(trace) >= 1
  PROVE  Timed' /\ OperandTraced'
<1> DEFINE n    == Len(trace)
           addr == AddrOf(before, Mode)
<1>1. /\ before' = before /\ opcode' = opcode /\ addr' = addr /\ Rest' = Rest
      /\ Allowed' = Allowed /\ addr \in Allowed /\ Mode # "Immediate"
  BY WhichCycle, SameOperand, OperandFacts DEF Allowed, Memorial
<1>2. todo = <<"WriteOperand">>
  BY DEF Rest, OperandCycles
<1>3. WriteOperand /\ Tail(todo) = <<>> /\ Kind = "WriteOperand"
  BY <1>2, Lists, WhichCycle DEF Kind
<1>4. Writes(addr, StoreOp(Op, regs)) /\ todo' = <<>>
  BY <1>1, <1>3 DEF WriteOperand, Done, Addressed
<1>5. Timed'
  BY <1>3, <1>4, OperationTimed DEF Memorial, AddressKinds
<1> HIDE DEF addr
<1>6. /\ n \in Nat /\ Len(trace') = n + 1 /\ DOMAIN trace = 1 .. n /\ DOMAIN trace' = 1 .. n + 1
      /\ \A k \in 1 .. n : trace'[k] = trace[k]
      /\ trace'[n + 1].addr = addr /\ Writings' = Writings \cup {n + 1}
  BY <1>4, WriteRecorded
<1>7. /\ Writings = {} /\ PaidAt(n) /\ \A k \in DOMAIN trace : trace[k].addr \in Allowed
  BY <1>2, Lists DEF OperandTraced
<1>8. Fixes' => n \in DOMAIN trace' /\ trace'[n].addr \in DiscardedBytes'
  BY <1>7, PaidStill
<1> HIDE DEF n
<1>9. Len(trace') - 1 = n
  BY <1>6
<1>10. WriteTraced'
  BY <1>1, <1>6, <1>7, <1>8, <1>9 DEF WriteTraced, PaidAt, addr
<1>11. \A k \in DOMAIN trace' : trace'[k].addr \in Allowed'
  BY <1>1, <1>6, <1>7
<1>12. Rest # <<>>
  BY RestHead DEF Memorial
<1> QED
  BY <1>1, <1>4, <1>5, <1>10, <1>11, <1>12 DEF OperandTraced

LEMMA UnstableTracedKeeps ==
  ASSUME CpuTypeOK, CpuTypeOK', BeforeOK, Scheduled, CpuCycle, ShapeOf(opcode) = "UnstableStore",
         Untouched, Addressed, todo = Rest, Timed, OperandTraced
  PROVE  Timed' /\ OperandTraced'
<1> DEFINE n    == Len(trace)
           addr == AddrOf(before, Mode)
           base == BaseOf(before, Mode)
<1>1. /\ before' = before /\ opcode' = opcode /\ addr' = addr /\ base' = base /\ Rest' = Rest
      /\ Mode # "Immediate" /\ Indexed
  BY WhichCycle, SameOperand, OperandFacts DEF Memorial
<1>2. todo = <<"WriteUnstable">>
  BY DEF Rest, OperandCycles
<1>3. WriteUnstable /\ Tail(todo) = <<>> /\ Kind = "WriteUnstable"
  BY <1>2, Lists, WhichCycle DEF Kind
<1>4. t.addr = addr /\ t.base = base
  BY <1>1 DEF Addressed
<1> HIDE DEF addr, base
<1>5. PICK value : Writes(IF CrossesPage(base, addr) THEN WordOf(U8(addr), value) ELSE addr, value)
  BY <1>3, <1>4 DEF WriteUnstable
<1>6. todo' = <<>>
  BY <1>3 DEF WriteUnstable, Done
<1>7. Timed'
  BY <1>3, <1>6, OperationTimed DEF Memorial, AddressKinds
<1> DEFINE place == IF CrossesPage(base, addr) THEN WordOf(U8(addr), value) ELSE addr
<1>8. /\ n \in Nat /\ Len(trace') = n + 1
      /\ trace'[n + 1].addr = place /\ trace'[n + 1].value = value
      /\ Writings' = Writings \cup {n + 1}
      /\ trace'[n + 1].value \in Byte
  <2>1. Writes(place, value)
    BY <1>5
  <2> HIDE DEF place
  <2>2. /\ n \in Nat /\ Len(trace') = n + 1 /\ DOMAIN trace' = 1 .. n + 1
        /\ trace'[n + 1].addr = place /\ trace'[n + 1].value = value
        /\ Writings' = Writings \cup {n + 1}
    BY <2>1, WriteRecorded
  <2>3. n + 1 \in DOMAIN trace'
    BY <2>2
  <2> DEFINE S == [kind : {"read", "write"}, addr : Word, value : Byte]
  <2>4. trace' \in Seq(S)
    BY DEF CpuTypeOK
  <2> HIDE DEF S, n
  <2>5. trace'[n + 1] \in S
    BY <2>3, <2>4
  <2>6. trace'[n + 1].value \in Byte
    BY <2>5 DEF S
  <2> QED
    BY <2>2, <2>6
<1>9. U8(place) = U8(addr) /\ (~CrossesPage(base, addr) => place = addr)
  <2>1. addr \in Word /\ value \in Byte
    BY <1>8, AllowedWords DEF addr
  <2>2. ASSUME NEW w \in Word, NEW v \in Byte PROVE U8(WordOf(U8(w), v)) = U8(w)
    BY ByteRange, WordRange DEF U8, WordOf
  <2> QED
    BY <2>1, <2>2
<1>10. Writings = {}
  BY <1>2, Lists DEF OperandTraced
<1> HIDE DEF n, place
<1>11. UnstableTraced'
  BY <1>1, <1>8, <1>9, <1>10 DEF UnstableTraced, addr, base
<1>12. Rest # <<>>
  BY RestHead DEF Memorial
<1> QED
  BY <1>1, <1>6, <1>7, <1>11, <1>12 DEF OperandTraced

(* The old value and the new one, or the old one read twice. *)
LEMMA RmwStill ==
  ASSUME CpuTypeOK, CpuTypeOK', CpuCycle
  PROVE  /\ \A k : RmwTraced(k) =>
              LET addr == AddrOf(before, Mode)
              IN  /\ k \in DOMAIN trace' /\ (Fixes' => k - 1 \in DOMAIN trace'
                                               /\ trace'[k - 1].addr \in DiscardedBytes')
                  /\ trace'[k].addr = addr /\ trace'[k].value = At(before.mem, addr)
         /\ AddrOf(before, Mode)' = AddrOf(before, Mode) /\ before' = before
<1> DEFINE n == Len(trace)
<1>1. /\ AddrOf(before, Mode)' = AddrOf(before, Mode) /\ before' = before
  BY WhichCycle, SameOperand
<1>2. /\ n \in Nat /\ DOMAIN trace = 1 .. n /\ DOMAIN trace' = 1 .. n + 1
      /\ \A j \in 1 .. n : trace'[j] = trace[j]
  BY CycleRecorded
<1> HIDE DEF n
<1>3. ASSUME NEW k, RmwTraced(k)
      PROVE  LET addr == AddrOf(before, Mode)
             IN  /\ k \in DOMAIN trace' /\ (Fixes' => k - 1 \in DOMAIN trace'
                                              /\ trace'[k - 1].addr \in DiscardedBytes')
                 /\ trace'[k].addr = addr /\ trace'[k].value = At(before.mem, addr)
  <2>1. k \in 1 .. n /\ trace'[k] = trace[k]
    BY <1>2, <1>3 DEF RmwTraced
  <2>2. Fixes' => k - 1 \in DOMAIN trace' /\ trace'[k - 1].addr \in DiscardedBytes'
    BY <1>3, PaidStill DEF RmwTraced
  <2>3. k \in DOMAIN trace'
    BY <1>2, <2>1
  <2> QED
    BY <1>3, <2>1, <2>2, <2>3 DEF RmwTraced
<1> QED
  BY <1>1, <1>3

LEMMA RmwTracedKeeps ==
  ASSUME CpuTypeOK, CpuTypeOK', BeforeOK, Scheduled, CpuCycle, ShapeOf(opcode) = "Rmw",
         \/ Untouched /\ Addressed /\ todo = Rest
         \/ RmwCourse,
         Timed, OperandTraced, Len(trace) >= 1
  PROVE  Timed' /\ OperandTraced'
<1> DEFINE n    == Len(trace)
           addr == AddrOf(before, Mode)
           old  == At(before.mem, addr)
<1>1. /\ before' = before /\ opcode' = opcode /\ addr' = addr /\ Rest' = Rest /\ Op' = Op
      /\ Allowed' = Allowed /\ addr \in Allowed /\ Mode # "Immediate"
  BY WhichCycle, SameOperand, OperandFacts DEF Allowed, Memorial
<1>2. Rest = <<"RmwRead", "RmwDummy", "RmwWrite">>
  BY DEF Rest, OperandCycles
<1>3. t.addr = addr /\ todo # <<>>
  BY <1>1, WhichCycle DEF Addressed, RmwCourse
<1> HIDE DEF addr
<1>4. \A k \in DOMAIN trace : trace[k].addr \in Allowed
  BY <1>3 DEF OperandTraced
<1>5. CASE todo = Rest
  <2>1. Kind = "RmwRead" /\ Tail(todo) = <<"RmwDummy", "RmwWrite">>
    BY <1>2, <1>5, Lists DEF Kind
  <2>2. RmwRead /\ mem = before.mem
    <3>1. todo # <<"RmwDummy", "RmwWrite">> /\ todo # <<"RmwWrite">>
      BY <2>1, Lists DEF Kind
    <3> QED
      BY <2>1, <3>1, WhichCycle DEF RmwCourse, Untouched
  <2>3. Reads(addr) /\ todo' = <<"RmwDummy", "RmwWrite">>
    BY <1>3, <2>1, <2>2 DEF RmwRead, Done
  <2>4. Timed'
    <3>1. Head(todo') = "RmwDummy"
      BY <2>3, Lists
    <3> QED
      BY <2>1, <3>1, OperationTimed DEF Memorial, AddressKinds
  <2>5. /\ n \in Nat /\ Len(trace') = n + 1 /\ DOMAIN trace = 1 .. n /\ DOMAIN trace' = 1 .. n + 1
        /\ \A k \in 1 .. n : trace'[k] = trace[k]
        /\ trace'[n + 1].addr = addr /\ trace'[n + 1].value = old /\ Writings' = Writings
    BY <2>2, <2>3, ReadRecorded
  <2>6. Writings = {} /\ PaidAt(n)
    BY <1>2, <1>5, Lists DEF OperandTraced
  <2>7. Fixes' => n \in DOMAIN trace' /\ trace'[n].addr \in DiscardedBytes'
    BY <2>6, PaidStill
  <2> HIDE DEF n
  <2>8. Len(trace') - 1 = n /\ Len(trace') \in DOMAIN trace'
    BY <2>5
  <2>9. RmwTraced(Len(trace))'
    BY <1>1, <2>5, <2>7, <2>8 DEF RmwTraced, PaidAt, addr
  <2>10. \A k \in DOMAIN trace' : trace'[k].addr \in Allowed'
    BY <1>1, <1>4, <2>5
  <2>11. todo' # <<>> /\ todo' # <<"RmwWrite">> /\ todo' # Rest'
    BY <1>1, <1>2, <2>3, Lists
  <2>12. RmwOnBus'
    BY <2>5, <2>6, <2>9, <2>11 DEF RmwOnBus
  <2>13. Kind' # "Unfixed"
    BY <2>3, Lists DEF Kind
  <2> QED
    BY <1>1, <2>4, <2>5, <2>6, <2>10, <2>11, <2>12, <2>13 DEF OperandTraced
<1>6. CASE RmwCourse /\ todo = <<"RmwDummy", "RmwWrite">>
  <2>1. Kind = "RmwDummy" /\ Tail(todo) = <<"RmwWrite">>
    BY <1>6, Lists DEF Kind
  <2>2. RmwDummy /\ mem = before.mem /\ t.value = old
    <3>1. RmwDummy /\ todo # <<"RmwWrite">>
      BY <1>6, <2>1, Lists, WhichCycle
    <3> QED
      BY <1>6, <3>1 DEF RmwCourse, addr
  <2>3. /\ IF Variant.rmwDummyWriteBack THEN Writes(addr, old) ELSE Reads(addr)
        /\ todo' = <<"RmwWrite">>
    BY <1>3, <2>1, <2>2 DEF RmwDummy, Done, WritesBack
  <2>4. Timed'
    <3>1. Head(todo') = "RmwWrite"
      BY <2>3, Lists
    <3> QED
      BY <2>1, <3>1, OperationTimed DEF Memorial, AddressKinds
  <2>5. /\ n \in Nat /\ Len(trace') = n + 1 /\ DOMAIN trace = 1 .. n /\ DOMAIN trace' = 1 .. n + 1
        /\ \A k \in 1 .. n : trace'[k] = trace[k]
        /\ trace'[n + 1].addr = addr /\ trace'[n + 1].value = old
        /\ Writings' = (IF Variant.rmwDummyWriteBack THEN Writings \cup {n + 1} ELSE Writings)
    BY <2>2, <2>3, ReadRecorded, WriteRecorded
  <2>6. Writings = {} /\ RmwTraced(n)
    BY <1>6 DEF OperandTraced, RmwOnBus
  <2> HIDE DEF n
  <2>7. Len(trace') - 1 = n
    BY <2>5
  <2>8. RmwTraced(Len(trace) - 1)'
    BY <1>1, <2>6, <2>7, RmwStill DEF RmwTraced, PaidAt
  <2>9. RmwTracedTwice(Len(trace))'
    BY <1>1, <2>5, <2>8 DEF RmwTracedTwice, addr
  <2>10. \A k \in DOMAIN trace' : trace'[k].addr \in Allowed'
    BY <1>1, <1>4, <2>5
  <2>11. todo' # <<>> /\ todo' # <<"RmwDummy", "RmwWrite">> /\ todo' # Rest'
    BY <1>1, <1>2, <2>3, Lists
  <2>12. RmwOnBus'
    BY <2>5, <2>6, <2>9, <2>11 DEF RmwOnBus
  <2>13. Kind' # "Unfixed"
    BY <2>3, Lists DEF Kind
  <2> QED
    BY <1>1, <2>3, <2>4, <2>10, <2>11, <2>12, <2>13 DEF OperandTraced
<1>7. CASE RmwCourse /\ todo = <<"RmwWrite">>
  <2> DEFINE new == RmwOp(Op, before.regs, old)[2]
  <2>1. Kind = "RmwWrite" /\ Tail(todo) = <<>>
    BY <1>7, Lists DEF Kind
  <2>2. RmwWrite /\ t.value = old /\ regs = before.regs
    BY <1>7, <2>1, WhichCycle DEF RmwCourse, addr, SameRegs
  <2>3. Writes(addr, new) /\ todo' = <<>>
    BY <1>3, <2>1, <2>2 DEF RmwWrite, Done
  <2>4. Timed'
    BY <2>1, <2>3, OperationTimed DEF Memorial, AddressKinds
  <2> HIDE DEF new
  <2>5. /\ n \in Nat /\ Len(trace') = n + 1 /\ DOMAIN trace = 1 .. n /\ DOMAIN trace' = 1 .. n + 1
        /\ \A k \in 1 .. n : trace'[k] = trace[k]
        /\ trace'[n + 1].addr = addr /\ trace'[n + 1].value = new
        /\ Writings' = Writings \cup {n + 1}
    BY <2>3, WriteRecorded
  <2>6. Writings = (IF Variant.rmwDummyWriteBack THEN {n} ELSE {}) /\ RmwTracedTwice(n)
    BY <1>7 DEF OperandTraced, RmwOnBus
  <2> HIDE DEF n
  <2>7. Len(trace') - 1 = n /\ n \in 1 .. n
    BY <2>5 DEF n
  <2>8. RmwTraced(Len(trace) - 1 - 1)'
    BY <1>1, <2>6, <2>7, RmwStill DEF RmwTraced, RmwTracedTwice, PaidAt
  <2>9. RmwTracedTwice(Len(trace) - 1)'
    BY <1>1, <2>5, <2>6, <2>7, <2>8 DEF RmwTracedTwice, addr
  <2>10. new' = new
    BY <1>1 DEF new
  <2>11. RmwTracedAll(Len(trace))'
    BY <1>1, <2>5, <2>9, <2>10 DEF RmwTracedAll, addr, new
  <2>12. \A k \in DOMAIN trace' : trace'[k].addr \in Allowed'
    BY <1>1, <1>4, <2>5
  <2>13. todo' # <<"RmwWrite">> /\ todo' # <<"RmwDummy", "RmwWrite">> /\ todo' # Rest'
    BY <1>1, <1>2, <2>3, Lists
  <2>14. Writings' = (IF Variant.rmwDummyWriteBack THEN {Len(trace') - 1, Len(trace')}
                      ELSE {Len(trace')})
    BY <2>5, <2>6, <2>7
  <2>15. RmwOnBus'
    BY <2>11, <2>13, <2>14 DEF RmwOnBus
  <2> QED
    BY <1>1, <2>3, <2>4, <2>12, <2>13, <2>15 DEF OperandTraced
<1> QED
  BY <1>5, <1>6, <1>7 DEF RmwCourse

-----------------------------------------------------------------------------
(* Every instruction, cycle by cycle. *)
LEMMA OperandTracedKeeps ==
  ASSUME CpuTypeOK, CpuTypeOK', BeforeOK, Scheduled, CpuCycle, ShapeOf(opcode) \in Memorial,
         OperandCourse, Timed, OperandTraced, Len(trace) >= 1
  PROVE  Timed' /\ OperandTraced'
<1>1. todo # <<>>
  BY WhichCycle
<1>2. CASE AddressCourse /\ ~(todo = Rest /\ Addressed)
  <2>1. Untouched
    BY <1>2 DEF AddressCourse
  <2>2. \E a : AddressCycle(a)
    BY <1>2, <2>1, FirstTraced, LaterTraced
  <2> QED
    BY <2>2, AddressTimed, AddressTraced
<1>3. CASE AddressCourse /\ todo = Rest /\ Addressed
  <2>1. Untouched
    BY <1>3 DEF AddressCourse
  <2> QED
    BY <1>3, <2>1, ReadTracedKeeps, WriteTracedKeeps, UnstableTracedKeeps, RmwTracedKeeps
       DEF Memorial
<1>4. CASE RmwCourse
  BY <1>4, RmwTracedKeeps DEF RmwCourse
<1> QED
  BY <1>1, <1>2, <1>3, <1>4 DEF OperandCourse

LEMMA InstructionTracedKeeps ==
  ASSUME CpuTypeOK, CpuTypeOK', BeforeOK, Scheduled, CpuCycle, InstructionCourse,
         InstructionTraced, Len(trace) = used
  PROVE  InstructionTraced'
<1> DEFINE shape == ShapeOf(opcode)
<1>1. used' = used + 1 /\ opcode' = opcode /\ used \in Nat
  BY CycleShows, WhichCycle DEF CpuTypeOK, TypeOK, MaxLength
<1>2. used' >= 1
  BY <1>1
<1>3. shape \in Memorial \cup {"Special", "Branch", "Accum", "Implied"}
  BY Families
<1>4. CASE shape \in Memorial
  <2>1. OperandCourse /\ OperandTraced /\ Timed /\ Len(trace) >= 1
    BY <1>4 DEF InstructionCourse, InstructionTraced, Memorial
  <2>2. Timed' /\ OperandTraced'
    BY <1>4, <2>1, OperandTracedKeeps
  <2>3. ShapeOf(opcode)' \in Memorial
    BY <1>1, <1>4
  <2> QED
    BY <1>2, <2>2, <2>3 DEF InstructionTraced, Memorial
<1>5. CASE shape = "Branch"
  <2>1. BranchCourse /\ Writings = {} /\ BranchTimed
    BY <1>5 DEF InstructionCourse, InstructionTraced, Memorial, Timed
  <2>2. BranchTimed' /\ Writings' = {}
    BY <2>1, BranchTimedKeeps
  <2>3. Timed'
    BY <1>1, <1>5, <2>2 DEF Timed
  <2> QED
    BY <1>1, <1>2, <1>5, <2>2, <2>3 DEF InstructionTraced, Memorial
<1>6. CASE shape = "Accum"
  <2>1. AccumCourse /\ Writings = {} /\ Timed
    BY <1>6 DEF InstructionCourse, InstructionTraced, Memorial
  <2>2. Writings' = {} /\ Kind = "AccumRead"
    BY <2>1, AccumQuiet
  <2>3. Timed'
    BY <1>6, <2>1, <2>2, StackTimed DEF Memorial
  <2> QED
    BY <1>1, <1>2, <1>6, <2>2, <2>3 DEF InstructionTraced, Memorial
<1>7. CASE shape \in {"Special", "Implied"}
  <2>1. StackTraced /\ Timed
    BY <1>7 DEF InstructionTraced, Memorial
  <2>2. StackTraced' /\ Kind \notin {"FetchOffset", "BranchTaken"}
    BY <1>7, <2>1, StackTracedKeeps DEF Memorial, Quiet
  <2>3. Timed'
    BY <1>7, <2>1, <2>2, StackTimed DEF Memorial
  <2> QED
    BY <1>1, <1>2, <1>7, <2>2, <2>3 DEF InstructionTraced, Memorial
<1> QED
  BY <1>3, <1>4, <1>5, <1>6, <1>7

-----------------------------------------------------------------------------
(* The fetch: one cycle, one access, and the memory as it was. *)
JustFetched ==
  /\ Starting /\ BeforeOK /\ used = 1
  /\ Len(trace) = 1 /\ trace[1].addr = Ahead(0) /\ Writings = {}

LEMMA FirstKind ==
  ASSUME CpuTypeOK, ShapeOf(opcode) \in Memorial, todo = InstructionCycles(opcode)
  PROVE  /\ todo # <<>>
         /\ \/ todo = Rest /\ ~Indexed
            \/ Kind \in {"FetchZeroPage", "FetchLow"}
<1>1. /\ todo = ModeCycles(Mode) \o Rest /\ Rest \in Seq(CycleKinds) /\ Rest # <<>>
      /\ Mode \in MemoryModes \cup {"Immediate"}
  <2>1. Mode \in MemoryModes \cup {"Immediate"}
    BY TableModes DEF Mode, Memorial, CpuTypeOK, MemoryModes
  <2>2. todo = ModeCycles(Mode) \o Rest
    BY DEF InstructionCycles, Rest, OperandCycles, Mode, Memorial
  <2> QED
    BY <2>1, <2>2, RestHead
<1> HIDE DEF CycleKinds
<1>2. CASE Mode = "Immediate"
  <2>1. ModeCycles(Mode) = <<>> /\ ~Indexed
    BY <1>2 DEF ModeCycles, Indexed
  <2>2. todo = Rest
    BY <1>1, <2>1
  <2> QED
    BY <1>1, <2>1, <2>2
<1>3. CASE Mode = "ZeroPage"
  <2>1. todo = <<"FetchZeroPage">> \o Rest
    BY <1>1, <1>3 DEF ModeCycles
  <2> QED
    BY <1>1, <2>1, Joined, AddressKindsOK DEF Kind, AddressKinds
<1>4. CASE Mode \in {"ZeroPageX", "ZeroPageY"}
  <2>1. todo = <<"FetchZeroPage", "IndexZeroPage">> \o Rest
    BY <1>1, <1>4 DEF ModeCycles
  <2> QED
    BY <1>1, <2>1, Joined, AddressKindsOK DEF Kind, AddressKinds
<1>5. CASE Mode = "IndirectX"
  <2>1. todo = <<"FetchZeroPage", "IndexZeroPage", "PointerLow", "PointerHigh">> \o Rest
    BY <1>1, <1>5 DEF ModeCycles
  <2> QED
    BY <1>1, <2>1, Joined, AddressKindsOK DEF Kind, AddressKinds
<1>6. CASE Mode = "IndirectY"
  <2>1. todo = <<"FetchZeroPage", "PointerLow", "PointerHigh">> \o Rest
    BY <1>1, <1>6 DEF ModeCycles
  <2> QED
    BY <1>1, <2>1, Joined, AddressKindsOK DEF Kind, AddressKinds
<1>7. CASE Mode \in {"Absolute", "AbsoluteX", "AbsoluteY"}
  <2>1. todo = <<"FetchLow", "FetchHigh">> \o Rest
    BY <1>1, <1>7 DEF ModeCycles
  <2> QED
    BY <1>1, <2>1, Joined, AddressKindsOK DEF Kind, AddressKinds
<1> QED
  BY <1>1, <1>2, <1>3, <1>4, <1>5, <1>6, <1>7 DEF MemoryModes

LEMMA FetchedOperand ==
  ASSUME JustFetched, ShapeOf(opcode) \in Memorial
  PROVE  OperandTraced /\ ~(Fixes /\ Settled)
<1>1. CpuTypeOK /\ BeforeOK /\ todo = InstructionCycles(opcode)
  BY DEF JustFetched, Starting
<1>2. /\ todo # <<>>
      /\ \/ todo = Rest /\ ~Fixes
         \/ Kind \in {"FetchZeroPage", "FetchLow"}
  BY <1>1, FirstKind DEF Fixes, PaysFixup
<1>3. /\ Rest # <<>> /\ Head(Rest) \notin AddressKinds
      /\ Rest \notin {<<"RmwWrite">>, <<"RmwDummy", "RmwWrite">>}
  BY RestHead
<1>4. todo \notin {<<>>, <<"RmwWrite">>, <<"RmwDummy", "RmwWrite">>}
  BY <1>2, <1>3, Lists DEF Kind
<1>5. Kind # "Unfixed" /\ (todo = Rest => ~Fixes)
  BY <1>2, <1>3 DEF Kind, AddressKinds
<1>6. ~(Fixes /\ Settled)
  BY <1>2, <1>4, <1>5 DEF Settled, AddressKinds
<1>7. \A k \in DOMAIN trace : trace[k].addr \in Allowed
  <2>1. DOMAIN trace = 1 .. Len(trace)
    BY <1>1 DEF CpuTypeOK
  <2>2. Ahead(0) \in Allowed
    BY <1>1, AllowedWords
  <2> QED
    BY <2>1, <2>2 DEF JustFetched
<1>8. PaidAt(Len(trace)) \/ todo # Rest
  BY <1>5 DEF PaidAt
<1>9. RmwOnBus /\ Writings = {}
  BY <1>4 DEF RmwOnBus, JustFetched
<1> QED
  BY <1>4, <1>5, <1>6, <1>7, <1>8, <1>9 DEF OperandTraced, Memorial

LEMMA FetchedTraced == JustFetched => InstructionTraced
<1> SUFFICES ASSUME JustFetched PROVE InstructionTraced
  OBVIOUS
<1>1. CpuTypeOK /\ todo = InstructionCycles(opcode) /\ used = 1 /\ Writings = {}
  BY DEF JustFetched, Starting
<1>2. Len(todo) \in Nat
  <2> HIDE DEF CycleKinds
  <2>1. todo \in Seq(CycleKinds)
    BY <1>1, InstructionList
  <2> QED
    BY <2>1
<1>3. ASSUME ShapeOf(opcode) # "Branch", ~(Fixes /\ Settled) PROVE Timed
  BY <1>1, <1>2, <1>3 DEF Timed, One, Whole
<1>4. CASE ShapeOf(opcode) \in Memorial
  <2>1. OperandTraced /\ Timed
    BY <1>3, <1>4, FetchedOperand DEF Memorial
  <2> QED
    BY <1>1, <1>4, <2>1 DEF InstructionTraced
<1>5. CASE ShapeOf(opcode) = "Branch"
  <2>1. todo = <<"FetchOffset">>
    BY <1>1, <1>5 DEF InstructionCycles
  <2>2. Timed
    BY <1>1, <1>5, <2>1 DEF Timed, BranchTimed
  <2> QED
    BY <1>1, <1>5, <2>2 DEF InstructionTraced, Memorial
<1>6. CASE ShapeOf(opcode) \in {"Special", "Implied", "Accum"}
  <2>1. Timed
    BY <1>1, <1>3, <1>6, NotIndexed DEF Fixes, PaysFixup, Memorial
  <2>2. ShapeOf(opcode) # "Accum" => StackTraced
    BY <1>1, <1>6, QuietStarts DEF StackTraced, Quiet
  <2> QED
    BY <1>1, <1>6, <2>1, <2>2 DEF InstructionTraced, Memorial
<1> QED
  BY <1>4, <1>5, <1>6, Families

LEMMA FetchTraced ==
  ASSUME CpuTypeOK, CpuTypeOK', CpuFetch, BeforeOK, ~jammed, Now = before, Len(trace) = 0
  PROVE  Len(trace') = used' /\ used' = 1 /\ Unstained' /\ InstructionTraced'
<1>1. Starting' /\ used' = 1 /\ before' = before /\ Reads(pc) /\ mem = before.mem /\ pc = before.pc
  BY FetchStarts DEF CpuFetch, Now
<1>2. /\ Len(trace') = 1 /\ trace'[1].addr = pc /\ Writings' = Writings /\ mem' = mem
      /\ DOMAIN trace = 1 .. 0
  BY <1>1, ReadRecorded
<1>3. Writings' = {}
  BY <1>2 DEF Writings
<1>4. Ahead(0)' = pc
  BY <1>1, Further DEF Ahead, CpuTypeOK
<1>5. BeforeOK'
  BY <1>1 DEF BeforeOK
<1>6. JustFetched'
  BY <1>1, <1>2, <1>3, <1>4, <1>5 DEF JustFetched
<1>7. JustFetched' => InstructionTraced'
  BY FetchedTraced, PTL
<1>8. Unstained'
  BY <1>1, <1>2 DEF Unstained
<1> QED
  BY <1>1, <1>2, <1>6, <1>7, <1>8

(* The pins change nothing of this. *)
LEMMA SteadyBus ==
  ASSUME UNCHANGED <<unit, used, mem, opcode, todo, trace, before>>, OnBus
  PROVE  OnBus'
<1>1. /\ before' = before /\ opcode' = opcode /\ todo' = todo /\ used' = used /\ mem' = mem
      /\ trace' = trace /\ unit' = unit
  OBVIOUS
<1>2. /\ Mode' = Mode /\ Op' = Op /\ Rest' = Rest /\ Whole' = Whole /\ Fixes' = Fixes
      /\ Allowed' = Allowed /\ DiscardedBytes' = DiscardedBytes
      /\ AddrOf(before, Mode)' = AddrOf(before, Mode)
      /\ BaseOf(before, Mode)' = BaseOf(before, Mode)
  BY <1>1, SameOperand
<1>3. Writings' = Writings /\ Kind' = Kind /\ Settled' = Settled
  BY <1>1 DEF Writings, Kind, Settled
<1>4. BranchTimed' = BranchTimed
  BY <1>1, <1>2 DEF BranchTimed, Ahead
<1>5. Timed' = Timed
  BY <1>1, <1>2, <1>3, <1>4 DEF Timed
<1>6. \A k : PaidAt(k)' = PaidAt(k)
  BY <1>1, <1>2 DEF PaidAt
<1>7. ReadTraced' = ReadTraced /\ WriteTraced' = WriteTraced
  BY <1>1, <1>2, <1>3 DEF ReadTraced, WriteTraced, PaidAt
<1>8. UnstableTraced' = UnstableTraced
  BY <1>1, <1>2, <1>3 DEF UnstableTraced
<1>9. RmwOnBus' = RmwOnBus
  BY <1>1, <1>2, <1>3 DEF RmwOnBus, RmwTraced, RmwTracedTwice, RmwTracedAll, PaidAt
<1>10. OperandTraced' = OperandTraced
  BY <1>1, <1>2, <1>3, <1>7, <1>8, <1>9 DEF OperandTraced, PaidAt
<1>11. StackTraced' = StackTraced
  BY <1>1, <1>3 DEF StackTraced
<1>12. InstructionTraced' = InstructionTraced
  BY <1>1, <1>3, <1>5, <1>10, <1>11, Zenon DEF InstructionTraced
<1>13. Unstained' = Unstained
  BY <1>1, <1>3 DEF Unstained, Stained
<1> QED
  BY <1>1, <1>12, <1>13 DEF OnBus

LEMMA OnBusStep ==
  ASSUME CpuTypeOK, CpuTypeOK', Scheduled, OnCourse, OnBus, [CpuNext]_cpuVars
  PROVE  OnBus'
<1>1. CASE CpuPins \/ UNCHANGED cpuVars
  <2>1. UNCHANGED <<unit, used, mem, opcode, todo, trace, before>>
    BY <1>1 DEF CpuPins, Pins, SetNmi, SetIrq, control, flags, data, local, cpuVars, vars
  <2> QED
    BY <2>1, SteadyBus
<1>2. CASE CpuCycle
  <2>1. unit' = unit /\ todo # <<>> /\ BeforeOK
    BY <1>2, WhichCycle DEF OnCourse
  <2>2. unit \notin {"idle", "fetch"}
    BY <2>1 DEF Scheduled
  <2>3. Len(trace') = used'
    BY <1>2, CycleRecorded DEF OnBus
  <2>4. Unstained'
    BY <1>2, <2>2, UnstainedKeeps DEF OnBus
  <2>5. unit \in Instructions => InstructionTraced'
    BY <1>2, <2>1, InstructionTracedKeeps DEF OnBus, OnCourse
  <2> QED
    BY <2>1, <2>2, <2>3, <2>4, <2>5 DEF OnBus
<1>3. CASE CpuFetch
  <2>1. /\ BeforeOK /\ ~jammed /\ Now = before /\ Len(trace) = 0
        /\ unit' \in Instructions
    BY <1>3, Families DEF CpuFetch, OnCourse, OnBus
  <2>2. Len(trace') = used' /\ Unstained' /\ InstructionTraced'
    BY <1>3, <2>1, FetchTraced
  <2>3. unit' \notin {"idle", "fetch"}
    BY <2>1 DEF Instructions
  <2> QED
    BY <2>2, <2>3 DEF OnBus
<1>4. CASE CpuEnd
  <2>1. unit' = "idle" /\ used' = 0 /\ trace' = <<>>
    BY <1>4 DEF CpuEnd, EndCall, EndInstruction, EndReloadingI, EndReset, EndJammed, Return
  <2> QED
    BY <2>1 DEF OnBus, Instructions
<1>5. CASE CpuReset \/ CpuStep
  <2>1. /\ unit = "idle" /\ used' = 0 /\ trace' = trace /\ mem' = mem /\ before' = Now
        /\ unit' \in Entries \cup {"reset", "jammed", "fetch"}
    BY <1>5 DEF CpuReset, CpuStep, CpuJammed, CpuNmi, CpuIrq, CpuInstruction, Start, data,
                Reset, StepJammed, StepNmi, StepIrq, StepInstruction, Begin, Entries
  <2>2. Len(trace') = used'
    BY <2>1 DEF OnBus
  <2>3. Unstained'
    BY <2>1 DEF Unstained, Now
  <2>4. unit' \notin Instructions
    BY <2>1 DEF Instructions, Entries
  <2> QED
    BY <2>1, <2>2, <2>3, <2>4 DEF OnBus
<1> QED
  BY <1>1, <1>2, <1>3, <1>4, <1>5 DEF CpuNext

LEMMA OnBusInit == CpuInit => OnBus
<1> SUFFICES ASSUME CpuInit PROVE OnBus
  OBVIOUS
<1>1. unit = "idle" /\ used = 0 /\ trace = <<>>
  BY DEF CpuInit, Init
<1> QED
  BY <1>1 DEF OnBus, Instructions

LEMMA BusInvariant == CpuSpec => [](CpuTypeOK /\ Scheduled /\ OnCourse /\ OnBus)
<1>1. CpuTypeOK /\ CpuTypeOK' /\ Scheduled /\ OnCourse /\ OnBus /\ [CpuNext]_cpuVars => OnBus'
  BY OnBusStep
<1> QED
  BY <1>1, OnBusInit, CourseInvariant, PTL DEF CpuSpec

-----------------------------------------------------------------------------
(* The properties of BusCycles, read off the invariant. *)
LEMMA AtFinish ==
  ASSUME CpuTypeOK, Scheduled, OnCourse, OnBus, Finished
  PROVE  /\ Reference!BaseAddress = BaseOf(before, Mode)
         /\ Reference!Effective = AddrOf(before, Mode)
         /\ Reference!Operand8 = CodeAt(before, 1) /\ Reference!BranchTarget = TargetOf(before)
         /\ InstructionTraced /\ InstructionCourse /\ BeforeOK /\ opcode = CodeAt(before, 0)
         /\ todo = <<>> /\ Settled
<1>1. unit # "idle" /\ unit \in Instructions /\ todo = <<>>
  BY DEF Finished, Instructions
<1>2. Shown = before
  BY <1>1 DEF Shown
<1>3. InstructionTraced /\ InstructionCourse /\ BeforeOK /\ opcode = CodeAt(before, 0)
  BY <1>1 DEF OnBus, OnCourse, InstructionCourse
<1> HIDE DEF Shown
<1> QED
  BY <1>1, <1>2, <1>3, ReferenceAddress, ReferenceCode DEF Settled

LEMMA AllTraced ==
  ASSUME CpuTypeOK, Scheduled, OnCourse, OnBus, Finished, ShapeOf(opcode) = "Rmw"
  PROVE  LET n    == Len(trace)
             addr == AddrOf(before, Mode)
         IN  /\ n \in Nat /\ RmwOnBus /\ OperandTraced /\ PaidAt(n - 3)
             /\ trace[n - 2].addr = addr /\ trace[n - 1].addr = addr /\ trace[n].addr = addr
             /\ trace[n - 2].value = At(before.mem, addr)
             /\ trace[n - 1].value = At(before.mem, addr)
             /\ trace[n].value = RmwOp(Op, before.regs, At(before.mem, addr))[2]
             /\ Writings = (IF Variant.rmwDummyWriteBack THEN {n - 1, n} ELSE {n})
<1> DEFINE n == Len(trace)
<1>1. n \in Nat /\ todo = <<>>
  BY AtFinish DEF CpuTypeOK
<1>2. OperandTraced /\ RmwOnBus
  BY AtFinish DEF InstructionTraced, OperandTraced, Memorial
<1> HIDE DEF n
<1>3. /\ RmwTracedAll(n)
      /\ Writings = (IF Variant.rmwDummyWriteBack THEN {n - 1, n} ELSE {n})
  BY <1>1, <1>2 DEF RmwOnBus, n
<1>4. RmwTracedTwice(n - 1)
  BY <1>3 DEF RmwTracedAll
<1>5. n - 1 - 1 = n - 2 /\ n - 2 - 1 = n - 3
  BY <1>1
<1>6. RmwTraced(n - 2)
  BY <1>4, <1>5 DEF RmwTracedTwice
<1>7. PaidAt(n - 3)
  BY <1>5, <1>6 DEF RmwTraced
<1> QED
  BY <1>1, <1>2, <1>3, <1>4, <1>6, <1>7 DEF RmwTracedAll, RmwTracedTwice, RmwTraced, n

LEMMA FinishWrites ==
  ASSUME CpuTypeOK, Scheduled, OnCourse, OnBus
  PROVE  WriteCycles
<1> SUFFICES ASSUME Finished PROVE WriteCycles
  BY DEF WriteCycles
<1> DEFINE n    == Len(trace)
           addr == AddrOf(before, Mode)
<1>1. /\ Effective = addr /\ BaseAddress = BaseOf(before, Mode) /\ InstructionTraced /\ todo = <<>>
      /\ Old(addr) = At(before.mem, addr)
  BY AtFinish DEF Effective, BaseAddress, Old
<1>2. CASE ShapeOf(opcode) = "Read"
  BY <1>1, <1>2 DEF WriteCycles, InstructionTraced, Memorial, OperandTraced, ReadTraced
<1>3. CASE ShapeOf(opcode) \in {"Accum", "Branch"}
  BY <1>1, <1>3 DEF WriteCycles, InstructionTraced, Memorial
<1>4. CASE ShapeOf(opcode) = "Write"
  BY <1>1, <1>4 DEF WriteCycles, InstructionTraced, Memorial, OperandTraced, WriteTraced
<1>5. CASE ShapeOf(opcode) = "UnstableStore"
  BY <1>1, <1>5 DEF WriteCycles, InstructionTraced, Memorial, OperandTraced, UnstableTraced
<1>6. CASE ShapeOf(opcode) = "Rmw"
  <2>1. /\ n \in Nat
        /\ trace[n - 2].addr = addr /\ trace[n - 1].addr = addr /\ trace[n].addr = addr
        /\ trace[n - 2].value = Old(addr) /\ trace[n - 1].value = Old(addr)
        /\ trace[n].value = RmwOp(Op, before.regs, Old(addr))[2]
        /\ Writings = (IF Variant.rmwDummyWriteBack THEN {n - 1, n} ELSE {n})
    BY <1>1, <1>6, AllTraced
  <2> HIDE DEF n, addr
  <2>2. \A k \in n - 2 .. n : k = n - 2 \/ k = n - 1 \/ k = n
    BY <2>1
  <2>3. \A k \in n - 2 .. n : trace[k].addr = Effective
    BY <1>1, <2>1, <2>2
  <2> QED
    BY <1>1, <1>6, <2>1, <2>3 DEF WriteCycles, n
<1>7. CASE ShapeOf(opcode) \in {"Special", "Implied"}
  BY <1>1, <1>7 DEF WriteCycles, InstructionTraced, Memorial, StackTraced
<1> QED
  BY <1>2, <1>3, <1>4, <1>5, <1>6, <1>7, Families DEF Memorial

LEMMA FinishStrays ==
  ASSUME CpuTypeOK, Scheduled, OnCourse, OnBus
  PROVE  NoStrayAccess
<1> DEFINE n       == Len(trace)
           addr    == AddrOf(before, Mode)
           operand == n - (IF ShapeOf(opcode) = "Rmw" THEN 2 ELSE 0)
           indexed == Mode \in {"AbsoluteX", "AbsoluteY", "IndirectY"}
           paid    == CrossesPage(BaseAddress, Effective) \/ AccessOf(opcode) # "Read"
<1> SUFFICES ASSUME Finished, ShapeOf(opcode) \in {"Read", "Write", "Rmw"}
             PROVE  /\ \A k \in DOMAIN trace :
                          trace[k].addr \in Code \cup Pointer \cup Discarded \cup {Effective}
                    /\ trace[operand].addr = Effective
                    /\ indexed /\ paid => trace[operand - 1].addr \in Discarded
  BY DEF NoStrayAccess
<1>1. /\ Effective = addr /\ BaseAddress = BaseOf(before, Mode) /\ Operand8 = CodeAt(before, 1)
      /\ InstructionTraced /\ todo = <<>>
  BY AtFinish DEF Effective, BaseAddress, Operand8
<1>2. Pointer = PointerBytes /\ Discarded = DiscardedBytes
  BY <1>1 DEF Pointer, PointerBytes, Discarded, DiscardedBytes
<1>3. indexed /\ paid <=> Fixes
  BY <1>1 DEF Fixes, PaysFixup, Indexed
<1>4. OperandTraced /\ n \in Nat
  BY <1>1 DEF InstructionTraced, Memorial, CpuTypeOK
<1>5. \A k \in DOMAIN trace :
        trace[k].addr \in Code \cup Pointer \cup Discarded \cup {Effective}
  BY <1>1, <1>2, <1>4 DEF OperandTraced, Allowed
<1> HIDE DEF indexed, paid, n, addr
<1>6. trace[operand].addr = addr /\ PaidAt(operand - 1)
  <2>1. CASE ShapeOf(opcode) = "Read"
    BY <1>1, <1>4, <2>1 DEF OperandTraced, ReadTraced, n, addr
  <2>2. CASE ShapeOf(opcode) = "Write"
    BY <1>1, <1>4, <2>2 DEF OperandTraced, WriteTraced, n, addr
  <2>3. CASE ShapeOf(opcode) = "Rmw"
    <3>1. trace[n - 2].addr = addr /\ PaidAt(n - 3) /\ operand = n - 2 /\ operand - 1 = n - 3
      BY <1>4, <2>3, AllTraced DEF n, addr
    <3> QED
      BY <3>1
  <2> QED
    BY <2>1, <2>2, <2>3
<1> QED
  BY <1>1, <1>2, <1>3, <1>5, <1>6 DEF PaidAt

-----------------------------------------------------------------------------
(* The published table agrees with the lists of cycles.  What a mode takes *)
(* to find its address, and what an operation takes in all; a store and a  *)
(* read-modify-write always pay for the fixup of an index.                 *)
Indexes == {"AbsoluteX", "AbsoluteY", "IndirectY"}
AddressTakes(mode, n) ==
  /\ mode \in {"Immediate", "Implied", "Accumulator", "Relative"} => n = 0
  /\ mode = "ZeroPage" => n = 1
  /\ mode \in {"ZeroPageX", "ZeroPageY", "Absolute", "AbsoluteX", "AbsoluteY"} => n = 2
  /\ mode = "IndirectY" => n = 3
  /\ mode = "IndirectX" => n = 4

Published(mode, op, n) ==
  /\ n \in Nat
  /\ op \in RmwOps /\ mode = "Accumulator" => n = 2
  /\ op \in RmwOps /\ mode \in Indexes => AddressTakes(mode, n - 5)
  /\ op \in RmwOps /\ mode \notin Indexes \cup {"Accumulator"} => AddressTakes(mode, n - 4)
  /\ op \in WriteOps \cup UnstableOps /\ mode \in Indexes => AddressTakes(mode, n - 3)
  /\ op \in WriteOps \cup UnstableOps /\ mode \notin Indexes => AddressTakes(mode, n - 2)
  /\ op \in BranchOps => n = 2
  /\ op = "BRK" => n = 7
  /\ op \in {"JSR", "RTS", "RTI"} => n = 6
  /\ op = "JMP_ABS" => n = 3
  /\ op = "JMP_IND" => n = 5
  /\ op = "JAM" => n = 11
  /\ op \in {"PHA", "PHP"} => n = 3
  /\ op \in {"PLA", "PLP"} => n = 4
  /\ mode = "Implied" /\ op \notin SpecialOps \cup {"PHA", "PHP", "PLA", "PLP"} => n = 2
  /\ op \notin RmwOps \cup WriteOps \cup UnstableOps \cup BranchOps \cup SpecialOps
       /\ mode # "Implied" => AddressTakes(mode, n - 2)


LEMMA LowerPublished ==
  ASSUME NEW c \in 1 .. 32, NEW r \in 2 .. 5
  PROVE  Published(LowerColumns[c][1], LowerColumns[c][r], BaseCycles[32 * (r - 2) + c])
<1> DEFINE op   == LowerColumns[c][r]
           mode == LowerColumns[c][1]
           n    == BaseCycles[32 * (r - 2) + c]
<1> USE DEF LowerColumns, BaseCycles, Indexes, AddressTakes, RmwOps, WriteOps, UnstableOps,
            BranchOps, SpecialOps
<1>1. op \in RmwOps /\ mode = "Accumulator" => n = 2
  BY SMTT(120)
<1>2. op \in RmwOps /\ mode \in Indexes => AddressTakes(mode, n - 5)
  BY SMTT(120)
<1>3. op \in RmwOps /\ mode \notin Indexes \cup {"Accumulator"} => AddressTakes(mode, n - 4)
  BY SMTT(120)
<1>4. op \in WriteOps \cup UnstableOps /\ mode \in Indexes => AddressTakes(mode, n - 3)
  BY SMTT(120)
<1>5. op \in WriteOps \cup UnstableOps /\ mode \notin Indexes => AddressTakes(mode, n - 2)
  BY SMTT(120)
<1>6. /\ op \in BranchOps => n = 2
      /\ op = "BRK" => n = 7
      /\ op \in {"JSR", "RTS", "RTI"} => n = 6
      /\ op = "JMP_ABS" => n = 3
      /\ op = "JMP_IND" => n = 5
      /\ op = "JAM" => n = 11
      /\ op \in {"PHA", "PHP"} => n = 3
      /\ op \in {"PLA", "PLP"} => n = 4
  BY SMTT(120)
<1>7. mode = "Implied" /\ op \notin SpecialOps \cup {"PHA", "PHP", "PLA", "PLP"} => n = 2
  BY SMTT(120)
<1>8. /\ op \notin RmwOps \cup WriteOps \cup UnstableOps \cup BranchOps \cup SpecialOps
      /\ mode # "Implied"
      => AddressTakes(mode, n - 2)
  BY SMTT(120)
<1>9. n \in Nat
  BY SMTT(120)
<1> HIDE DEF op, mode, n
<1>10. Published(mode, op, n)
  BY <1>1, <1>2, <1>3, <1>4, <1>5, <1>6, <1>7, <1>8, <1>9, Zenon DEF Published
<1> QED
  BY <1>10 DEF op, mode, n

LEMMA UpperPublished ==
  ASSUME NEW c \in 1 .. 32, NEW r \in 2 .. 5
  PROVE  Published(UpperColumns[c][1], UpperColumns[c][r], BaseCycles[32 * (r + 2) + c])
<1> DEFINE op   == UpperColumns[c][r]
           mode == UpperColumns[c][1]
           n    == BaseCycles[32 * (r + 2) + c]
<1> USE DEF UpperColumns, BaseCycles, Indexes, AddressTakes, RmwOps, WriteOps, UnstableOps,
            BranchOps, SpecialOps
<1>1. op \in RmwOps /\ mode = "Accumulator" => n = 2
  BY SMTT(120)
<1>2. op \in RmwOps /\ mode \in Indexes => AddressTakes(mode, n - 5)
  BY SMTT(120)
<1>3. op \in RmwOps /\ mode \notin Indexes \cup {"Accumulator"} => AddressTakes(mode, n - 4)
  BY SMTT(120)
<1>4. op \in WriteOps \cup UnstableOps /\ mode \in Indexes => AddressTakes(mode, n - 3)
  BY SMTT(120)
<1>5. op \in WriteOps \cup UnstableOps /\ mode \notin Indexes => AddressTakes(mode, n - 2)
  BY SMTT(120)
<1>6. /\ op \in BranchOps => n = 2
      /\ op = "BRK" => n = 7
      /\ op \in {"JSR", "RTS", "RTI"} => n = 6
      /\ op = "JMP_ABS" => n = 3
      /\ op = "JMP_IND" => n = 5
      /\ op = "JAM" => n = 11
      /\ op \in {"PHA", "PHP"} => n = 3
      /\ op \in {"PLA", "PLP"} => n = 4
  BY SMTT(120)
<1>7. mode = "Implied" /\ op \notin SpecialOps \cup {"PHA", "PHP", "PLA", "PLP"} => n = 2
  BY SMTT(120)
<1>8. /\ op \notin RmwOps \cup WriteOps \cup UnstableOps \cup BranchOps \cup SpecialOps
      /\ mode # "Implied"
      => AddressTakes(mode, n - 2)
  BY SMTT(120)
<1>9. n \in Nat
  BY SMTT(120)
<1> HIDE DEF op, mode, n
<1>10. Published(mode, op, n)
  BY <1>1, <1>2, <1>3, <1>4, <1>5, <1>6, <1>7, <1>8, <1>9, Zenon DEF Published
<1> QED
  BY <1>10 DEF op, mode, n

LEMMA PublishedCycles ==
  ASSUME NEW code \in Byte
  PROVE  Published(ModeOf(code), OpOf(code), BaseCycles[code + 1])
<1> DEFINE Irregulars == {32, 108, 150, 151, 182, 183, 158, 159, 190, 191}
           c == ColumnOf(code)
           r == RowOf(code)
<1>1. c \in 1 .. 32 /\ r \in 2 .. 5 /\ OpOf(code) = Column(code)[r]
  BY TablePlace
<1>2. Published(Column(code)[1], OpOf(code), BaseCycles[code + 1])
  <2>1. CASE code < 128
    <3>1. Column(code) = LowerColumns[c]
      BY <2>1, Zenon DEF Column, ColumnOf
    <3>2. 32 * (r - 2) + c = code + 1
      BY <2>1, ByteRange DEF ColumnOf, RowOf
    <3> HIDE DEF c, r
    <3> QED
      BY <1>1, <3>1, <3>2, LowerPublished
  <2>2. CASE ~(code < 128)
    <3>1. Column(code) = UpperColumns[c]
      BY <2>2, Zenon DEF Column, ColumnOf
    <3>2. 32 * (r + 2) + c = code + 1
      BY <2>2, ByteRange DEF ColumnOf, RowOf
    <3> HIDE DEF c, r
    <3> QED
      BY <1>1, <3>1, <3>2, UpperPublished
  <2> QED
    BY <2>1, <2>2
<1> HIDE DEF c, r
<1>3. CASE code \notin Irregulars
  <2>1. ModeOf(code) = Column(code)[1]
    BY <1>3 DEF ModeOf
  <2> QED
    BY <1>2, <2>1
<1>4. CASE code \in Irregulars
  <2>1. \/ OpOf(code) \in {"JSR", "JMP_IND"}
        \/ /\ ModeOf(code) = "ZeroPageY" /\ Column(code)[1] = "ZeroPageX"
           /\ OpOf(code) \in {"STX", "SAX", "LDX", "LAX"}
        \/ /\ ModeOf(code) = "AbsoluteY" /\ Column(code)[1] = "AbsoluteX"
           /\ OpOf(code) \in {"SHX", "SHA", "LDX", "LAX"}
    BY <1>4 DEF ModeOf, OpOf, Column, LowerColumns, UpperColumns
  <2>2. ASSUME NEW n, NEW op, Published("ZeroPageX", op, n) PROVE Published("ZeroPageY", op, n)
    BY <2>2 DEF Published, AddressTakes, Indexes
  <2>3. ASSUME NEW n, NEW op, Published("AbsoluteX", op, n) PROVE Published("AbsoluteY", op, n)
    BY <2>3 DEF Published, AddressTakes, Indexes
  <2>4. ASSUME NEW n, NEW op \in {"JSR", "JMP_IND"}, NEW mode, NEW other, Published(mode, op, n)
        PROVE  Published(other, op, n)
    BY <2>4 DEF Published, RmwOps, WriteOps, UnstableOps, BranchOps, SpecialOps
  <2> QED
    BY <1>2, <2>1, <2>2, <2>3, <2>4
<1> QED
  BY <1>3, <1>4

LEMMA IndirectOnly ==
  ASSUME NEW code \in Byte
  PROVE  OpOf(code) = "JMP_IND" <=> ModeOf(code) = "Indirect"
<1>1. Column(code)[1] # "Indirect"
  <2>1. Fits(Column(code), RowOf(code))
    BY TablePlace, LowerFits, UpperFits
  <2> QED
    BY <2>1 DEF Fits, Regular
<1>2. ModeOf(code) = "Indirect" => code = 108
  BY <1>1 DEF ModeOf
<1> QED
  BY <1>2, Irregular, TableModes

LEMMA ModeTakes ==
  ASSUME NEW mode \in MemoryModes \cup {"Immediate"}, NEW n \in Int, AddressTakes(mode, n)
  PROVE  Len(ModeCycles(mode)) = n
<1> USE DEF ModeCycles, AddressTakes, MemoryModes
<1>1. CASE mode \in {"Immediate", "ZeroPage"}
  BY <1>1
<1>2. CASE mode \in {"ZeroPageX", "ZeroPageY"}
  BY <1>2
<1>3. CASE mode \in {"Absolute", "AbsoluteX", "AbsoluteY"}
  BY <1>3
<1>4. CASE mode \in {"IndirectX", "IndirectY"}
  BY <1>4
<1> QED
  BY <1>1, <1>2, <1>3, <1>4

LEMMA OperandTakes ==
  ASSUME NEW code \in Byte, ShapeOf(code) \in Memorial
  PROVE  Len(InstructionCycles(code))
           = Len(ModeCycles(ModeOf(code))) + (IF ShapeOf(code) = "Rmw" THEN 3 ELSE 1)
<1> DEFINE list == ModeCycles(ModeOf(code))
           rest == OperandCycles(ShapeOf(code))
<1>1. InstructionCycles(code) = list \o rest
  BY DEF InstructionCycles, OperandCycles, Memorial
<1>2. Len(rest) = (IF ShapeOf(code) = "Rmw" THEN 3 ELSE 1)
  BY DEF OperandCycles, Memorial
<1> HIDE DEF CycleKinds
<1>3. rest \in Seq(CycleKinds)
  BY OperandTails
<1>4. list \in Seq(CycleKinds)
  <2>1. {"FetchZeroPage", "FetchLow", "FetchHigh", "IndexZeroPage", "PointerLow", "PointerHigh"}
          \subseteq CycleKinds
    BY AddressKindsOK DEF AddressKinds
  <2> QED
    BY <2>1 DEF ModeCycles
<1> HIDE DEF list, rest
<1>5. Len(list \o rest) = Len(list) + Len(rest)
  BY <1>3, <1>4
<1> QED
  BY <1>1, <1>2, <1>5 DEF list

LEMMA SpecialTakes ==
  ASSUME NEW op \in SpecialOps, NEW mode, NEW n, Published(mode, op, n)
  PROVE  1 + Len(SpecialCycles(op)) = n + One(op = "JMP_IND" /\ ~Variant.jmpIndirectPageBug)
<1> USE DEF SpecialCycles, Published, One
<1>1. CASE op \in {"BRK", "JSR"}
  BY <1>1
<1>2. CASE op \in {"RTS", "RTI"}
  BY <1>2
<1>3. CASE op = "JMP_ABS"
  BY <1>3
<1>4. CASE op = "JMP_IND" /\ Variant.jmpIndirectPageBug
  BY <1>4
<1>5. CASE op = "JMP_IND" /\ ~Variant.jmpIndirectPageBug
  BY <1>5
<1>6. CASE op = "JAM"
  BY <1>6
<1> QED
  BY <1>1, <1>2, <1>3, <1>4, <1>5, <1>6 DEF SpecialOps

LEMMA InstructionTakes ==
  ASSUME NEW code \in Byte, ShapeOf(code) # "Branch"
  PROVE  1 + Len(InstructionCycles(code)) + One(ModeOf(code) \in Indexes /\ AccessOf(code) # "Read")
           = BaseCycles[code + 1] + One(OpOf(code) = "JMP_IND" /\ ~Variant.jmpIndirectPageBug)
<1> DEFINE shape == ShapeOf(code)
           op    == OpOf(code)
           mode  == ModeOf(code)
           n     == BaseCycles[code + 1]
           paid  == mode \in Indexes /\ AccessOf(code) # "Read"
           extra == op = "JMP_IND" /\ ~Variant.jmpIndirectPageBug
<1>1. Published(mode, op, n)
  BY PublishedCycles
<1>2. n \in Nat
  BY <1>1 DEF Published
<1>3. ~paid \/ shape \in Memorial
  BY DEF AccessOf, Memorial
<1>4. extra => shape = "Special"
  BY Families DEF SpecialOps
<1>5. CASE shape = "Special"
  <2>1. InstructionCycles(code) = SpecialCycles(op) /\ op \in SpecialOps
    BY <1>5, Families DEF InstructionCycles
  <2>2. 1 + Len(SpecialCycles(op)) = n + One(extra)
    BY <1>1, <2>1, SpecialTakes
  <2>3. One(paid) = 0
    BY <1>3, <1>5 DEF One, Memorial
  <2>4. Len(SpecialCycles(op)) \in Nat
    <3> HIDE DEF CycleKinds
    <3>1. InstructionCycles(code) \in Seq(CycleKinds)
      BY InstructionList
    <3> QED
      BY <2>1, <3>1
  <2> HIDE DEF n, paid, extra
  <2>5. 1 + Len(InstructionCycles(code)) + One(paid) = n + One(extra)
    BY <2>1, <2>2, <2>3, <2>4
  <2> QED
    BY <2>5 DEF n, paid, extra
<1>6. CASE shape \in {"Accum", "Implied"}
  <2>1. One(paid) = 0 /\ One(extra) = 0
    BY <1>3, <1>4, <1>6 DEF One, Memorial
  <2>2. 1 + Len(InstructionCycles(code)) = n
    <3>1. CASE shape = "Accum"
      <4>1. op \in RmwOps /\ mode = "Accumulator"
        BY <3>1 DEF ShapeOf
      <4>2. Len(InstructionCycles(code)) = 1
        BY <3>1 DEF InstructionCycles
      <4> QED
        BY <1>1, <4>1, <4>2 DEF Published
    <3>2. CASE shape = "Implied"
      <4>1. mode = "Implied" /\ op \notin SpecialOps
        BY <3>2 DEF ShapeOf
      <4>2. InstructionCycles(code) = ImpliedCycles(op)
        BY <3>2 DEF InstructionCycles
      <4>3. 1 + Len(ImpliedCycles(op)) = IF op \in {"PHA", "PHP"} THEN 3
                                         ELSE IF op \in {"PLA", "PLP"} THEN 4 ELSE 2
        BY DEF ImpliedCycles
      <4> HIDE DEF op, mode, n
      <4> QED
        BY <1>1, <4>1, <4>2, <4>3 DEF Published
    <3> QED
      BY <1>6, <3>1, <3>2
  <2> HIDE DEF n, paid, extra
  <2>3. 1 + Len(InstructionCycles(code)) + One(paid) = n + One(extra)
    BY <1>2, <2>1, <2>2
  <2> QED
    BY <2>3 DEF n, paid, extra
<1>7. CASE shape \in Memorial
  <2> DEFINE k == IF shape = "Rmw" THEN 4 ELSE 2
  <2>1. mode \in MemoryModes \cup {"Immediate"} /\ One(extra) = 0
    BY <1>4, <1>7, TableModes DEF MemoryModes, Memorial, One
  <2>2. /\ shape = "Rmw" => op \in RmwOps /\ mode # "Accumulator"
        /\ shape = "Write" => op \in WriteOps
        /\ shape = "UnstableStore" => op \in UnstableOps
        /\ shape = "Read" =>
             /\ op \notin RmwOps \cup WriteOps \cup UnstableOps \cup BranchOps \cup SpecialOps
             /\ mode # "Implied"
    BY <2>1 DEF ShapeOf, MemoryModes
  <2>3. paid <=> mode \in Indexes /\ shape # "Read"
    BY <1>7 DEF AccessOf, Memorial
  <2>4. AddressTakes(mode, n - (k + One(paid)))
    <3> HIDE DEF op, mode, n, shape
    <3>1. CASE shape = "Rmw"
      BY <1>1, <1>2, <2>2, <2>3, <3>1 DEF Published, One
    <3>2. CASE shape \in {"Write", "UnstableStore"}
      BY <1>1, <1>2, <2>2, <2>3, <3>2 DEF Published, One
    <3>3. CASE shape = "Read"
      BY <1>1, <1>2, <2>2, <2>3, <3>3 DEF Published, One
    <3> QED
      BY <1>7, <3>1, <3>2, <3>3 DEF Memorial
  <2>5. n - (k + One(paid)) \in Int /\ One(paid) \in Int
    BY <1>2 DEF One
  <2>6. Len(ModeCycles(mode)) = n - (k + One(paid))
    BY <2>1, <2>4, <2>5, ModeTakes
  <2>7. Len(InstructionCycles(code)) = Len(ModeCycles(mode)) + (k - 1)
    BY <1>7, OperandTakes
  <2> HIDE DEF n, mode, paid, extra
  <2>8. 1 + Len(InstructionCycles(code)) + One(paid) = n + One(extra)
    BY <1>2, <2>1, <2>5, <2>6, <2>7
  <2> QED
    BY <2>8 DEF n, mode, paid, extra
<1> QED
  BY <1>5, <1>6, <1>7, Families

LEMMA FinishCycles ==
  ASSUME CpuTypeOK, Scheduled, OnCourse, OnBus
  PROVE  CyclesAsPublished
<1> SUFFICES ASSUME Finished
             PROVE  used = BaseCycles[opcode + 1] + ExtraCycles /\ Len(trace) = used
  BY DEF CyclesAsPublished
<1> DEFINE n     == BaseCycles[opcode + 1]
           paid  == Mode \in Indexes /\ AccessOf(opcode) # "Read"
           extra == Op = "JMP_IND" /\ ~Variant.jmpIndirectPageBug
<1>1. /\ Effective = AddrOf(before, Mode) /\ BaseAddress = BaseOf(before, Mode)
      /\ Reference!BranchTarget = TargetOf(before) /\ Timed /\ todo = <<>> /\ Settled
      /\ opcode \in Byte /\ used \in Nat
  BY AtFinish DEF Effective, BaseAddress, InstructionTraced, CpuTypeOK, TypeOK, MaxLength
<1>2. Len(trace) = used
  BY DEF OnBus
<1>3. Published(Mode, Op, n) /\ n \in Nat
  BY <1>1, PublishedCycles DEF Published, Mode, Op
<1>4. CASE ShapeOf(opcode) = "Branch"
  <2>1. Mode = "Relative" /\ Op \in BranchOps
    BY <1>1, <1>4, TableModes DEF Mode, Op, ShapeOf
  <2>2. n = 2
    BY <1>3, <2>1 DEF Published
  <2>3. used = 2 + (IF Taken(Op, before.regs) THEN 1 + One(CrossesPage(Ahead(2), TargetOf(before)))
                    ELSE 0)
    BY <1>1, <1>4, Lists DEF Timed, BranchTimed
  <2>4. ExtraCycles = IF Taken(Op, before.regs)
                        THEN 1 + One(CrossesPage(Ahead(2), TargetOf(before))) ELSE 0
    BY <1>1, <2>1 DEF ExtraCycles, Ahead
  <2> QED
    BY <1>2, <2>2, <2>3, <2>4
<1>5. CASE ShapeOf(opcode) # "Branch"
  <2>1. used = Whole + One(Fixes)
    BY <1>1, <1>5 DEF Timed, One
  <2>2. Whole + One(paid) = n + One(extra)
    BY <1>1, <1>5, InstructionTakes DEF Whole, Mode, Op
  <2>3. Mode # "Relative" /\ (Mode = "Indirect" <=> Op = "JMP_IND")
    <3>1. ShapeOf(opcode) = "Special" =>
            Mode \in {"Implied", "Absolute", "Indirect"}
      BY <1>1, Families, PrintedModes DEF Mode
    <3>2. ShapeOf(opcode) # "Special" =>
            Mode \in MemoryModes \cup {"Immediate", "Accumulator", "Implied"}
      BY <1>1, <1>5, Families, TableModes DEF Mode, Memorial, MemoryModes
    <3>3. Op = "JMP_IND" <=> Mode = "Indirect"
      BY <1>1, IndirectOnly DEF Op, Mode
    <3> QED
      BY <3>1, <3>2, <3>3 DEF MemoryModes
  <2>4. ExtraCycles = IF AccessOf(opcode) = "Read" /\ Mode \in Indexes
                        THEN One(CrossesPage(BaseAddress, Effective)) ELSE One(extra)
    BY <2>3 DEF ExtraCycles, Indexes, One
  <2>5. One(Fixes) = One(paid) + (IF AccessOf(opcode) = "Read" /\ Mode \in Indexes
                                    THEN One(CrossesPage(BaseAddress, Effective)) ELSE 0)
    BY <1>1 DEF Fixes, PaysFixup, Indexed, Indexes, One
  <2>6. Mode \in Indexes => One(extra) = 0
    BY <2>3 DEF One, Indexes
  <2>7. One(extra) \in Nat /\ One(paid) \in Nat /\ One(CrossesPage(BaseAddress, Effective)) \in Nat
    BY DEF One
  <2> HIDE DEF n, paid, extra
  <2>8. used = n + ExtraCycles
    BY <1>1, <1>3, <2>1, <2>2, <2>4, <2>5, <2>6, <2>7, WholeInt
  <2> QED
    BY <1>2, <2>8 DEF n
<1> QED
  BY <1>4, <1>5

-----------------------------------------------------------------------------
(* The listing: the operand bytes it reads, and the number it prints.      *)
LEMMA PrintedBytes ==
  ASSUME CpuTypeOK, BeforeOK, opcode = CodeAt(before, 0),
         NEW line, line = Disassemble(before.mem, before.pc)
  PROVE  /\ line.mnemonic = Mnemonic(opcode) /\ line.syntax = Mode /\ line.next = Behind
         /\ Mode = "Relative" => line.operand = TargetOf(before)
         /\ Mode = "ZeroPage" => line.operand = CodeAt(before, 1)
         /\ Mode \in {"Absolute", "Indirect"} => line.operand = OperandWord(before)
<1> DEFINE m       == before.mem
           p       == before.pc
           byte(k) == IF U16(p + k) \in Peeked(m, p) THEN At(m, U16(p + k)) ELSE 0
<1>1. p \in Word /\ At(m, p) = opcode
  BY Further DEF BeforeOK, CodeAt
<1>2. \A k : CodeAt(before, k) = At(m, U16(p + k)) /\ CodeAt(before, k) \in Byte
  BY BeforeFacts DEF CodeAt
<1>3. Peeked(m, p) = {U16(p + k) : k \in 0 .. OperandBytes(Mode)}
  BY <1>1 DEF Peeked, Mode
<1>4. line = [mnemonic |-> Mnemonic(opcode), syntax |-> Mode,
              operand |-> IF Mode = "Relative" THEN PrintedTarget(p, byte(1))
                          ELSE WordOf(byte(1), byte(2)),
              next |-> U16(p + InstructionLength(opcode))]
  BY <1>1 DEF Disassemble, Mode
<1>5. Mode \in {"Relative", "ZeroPage"} => byte(1) = CodeAt(before, 1) /\ byte(2) = 0
  <2> SUFFICES ASSUME Mode \in {"Relative", "ZeroPage"}
               PROVE  byte(1) = CodeAt(before, 1) /\ byte(2) = 0
    OBVIOUS
  <2>1. OperandBytes(Mode) = 1
    BY DEF OperandBytes
  <2>2. Peeked(m, p) = {U16(p + 0), U16(p + 1)}
    BY <1>3, <2>1
  <2>3. U16(p + 2) # U16(p + 0) /\ U16(p + 2) # U16(p + 1)
    BY <1>1, WordRange DEF U16
  <2> QED
    BY <1>2, <2>2, <2>3
<1>6. Mode \in {"Absolute", "Indirect"} =>
        byte(1) = CodeAt(before, 1) /\ byte(2) = CodeAt(before, 2)
  <2> SUFFICES ASSUME Mode \in {"Absolute", "Indirect"}
               PROVE  byte(1) = CodeAt(before, 1) /\ byte(2) = CodeAt(before, 2)
    OBVIOUS
  <2>1. OperandBytes(Mode) = 2
    BY DEF OperandBytes
  <2>2. 1 \in 0 .. OperandBytes(Mode) /\ 2 \in 0 .. OperandBytes(Mode)
    BY <2>1
  <2>3. U16(p + 1) \in Peeked(m, p) /\ U16(p + 2) \in Peeked(m, p)
    BY <1>3, <2>2
  <2> QED
    BY <1>2, <2>3
<1> HIDE DEF byte, m
<1>7. line.mnemonic = Mnemonic(opcode) /\ line.syntax = Mode /\ line.next = Behind
  BY <1>4 DEF Behind, Ahead
<1>8. Mode = "Relative" => line.operand = TargetOf(before)
  <2> SUFFICES ASSUME Mode = "Relative" PROVE PrintedTarget(p, byte(1)) = TargetOf(before)
    BY <1>4
  <2> QED
    BY <1>2, <1>5 DEF PrintedTarget, TargetOf, Negative
<1>9. Mode = "ZeroPage" => line.operand = CodeAt(before, 1)
  <2> SUFFICES ASSUME Mode = "ZeroPage" PROVE line.operand = CodeAt(before, 1)
    OBVIOUS
  <2>1. CodeAt(before, 1) \in Int
    BY <1>2, ByteWord
  <2> QED
    BY <1>4, <1>5, <2>1 DEF WordOf
<1>10. Mode \in {"Absolute", "Indirect"} => line.operand = OperandWord(before)
  BY <1>4, <1>6 DEF OperandWord
<1> QED
  BY <1>7, <1>8, <1>9, <1>10

LEMMA CallPlace ==
  ASSUME NEW c \in 1 .. 32, NEW r \in 2 .. 5
  PROVE  (LowerColumns[c][r] = "JSR" => c = 1 /\ r = 3) /\ UpperColumns[c][r] # "JSR"
BY DEF LowerColumns, UpperColumns

LEMMA CallMode ==
  ASSUME NEW code \in Byte, OpOf(code) = "JSR"
  PROVE  ModeOf(code) = "Absolute"
<1>1. code < 128 /\ ColumnOf(code) = 1 /\ RowOf(code) = 3
  BY TablePlace, CallPlace DEF OpOf, Column, ColumnOf, RowOf
<1>2. code = 32
  BY <1>1, ByteRange DEF ColumnOf, RowOf
<1> QED
  BY <1>2 DEF ModeOf

LEMMA PrintsAlike ==
  ASSUME NEW code \in Byte, NEW other \in Byte,
         Mnemonic(code) = Mnemonic(other), ModeOf(code) = ModeOf(other)
  PROVE  OpOf(code) = OpOf(other)
<1>1. /\ OpOf(code) \notin {"NOP_R", "JMP_ABS", "JMP_IND"} => Mnemonic(code) = OpOf(code)
      /\ OpOf(other) \notin {"NOP_R", "JMP_ABS", "JMP_IND"} => Mnemonic(other) = OpOf(other)
      /\ OpOf(code) = "NOP_R" => Mnemonic(code) = "NOP"
      /\ OpOf(other) = "NOP_R" => Mnemonic(other) = "NOP"
      /\ OpOf(code) \in {"JMP_ABS", "JMP_IND"} => Mnemonic(code) = "JMP"
      /\ OpOf(other) \in {"JMP_ABS", "JMP_IND"} => Mnemonic(other) = "JMP"
  BY DEF Mnemonic
<1> QED
  BY <1>1, PrintedModes, IndirectOnly

LEMMA FinishListing ==
  ASSUME CpuTypeOK, Scheduled, OnCourse, OnBus
  PROVE  AsDisassembled
<1> DEFINE line == Disassemble(before.mem, before.pc)
<1> SUFFICES ASSUME Finished PROVE AsDisassembled
  BY DEF AsDisassembled
<1>1. /\ InstructionTraced /\ InstructionCourse /\ BeforeOK /\ opcode = CodeAt(before, 0)
      /\ opcode \in Byte /\ todo = <<>>
  BY AtFinish DEF CpuTypeOK
<1>2. /\ line.mnemonic = Mnemonic(opcode) /\ line.syntax = Mode /\ line.next = Behind
      /\ Mode = "Relative" => line.operand = TargetOf(before)
      /\ Mode = "ZeroPage" => line.operand = CodeAt(before, 1)
      /\ Mode \in {"Absolute", "Indirect"} => line.operand = OperandWord(before)
  BY <1>1, PrintedBytes
<1> HIDE DEF line
<1>3. ShapeOf(opcode) \notin {"Branch", "Special"} => pc = line.next
  <2>1. CASE ShapeOf(opcode) \in Memorial
    <3>1. OperandCourse
      BY <1>1, <2>1 DEF InstructionCourse, Memorial
    <3> QED
      BY <1>1, <1>2, <2>1, <3>1, OperandDone
  <2>2. CASE ShapeOf(opcode) \in {"Accum", "Implied"}
    <3>1. Mode \in {"Accumulator", "Implied"}
      BY <1>1, <2>2, TableModes DEF Mode
    <3>2. InstructionLength(opcode) = 1
      BY <3>1 DEF InstructionLength, OperandBytes, Mode
    <3>3. pc = Ahead(1)
      BY <1>1, <2>2 DEF InstructionCourse, AccumCourse, ImpliedCourse, PushCourse,
                             PullCourse, PlainCourse
    <3> QED
      BY <1>2, <3>2, <3>3 DEF Behind
  <2> QED
    BY <2>1, <2>2, Families
<1>4. ShapeOf(opcode) = "Branch" =>
        pc = (IF Taken(Op, before.regs) THEN line.operand ELSE line.next)
  <2> SUFFICES ASSUME ShapeOf(opcode) = "Branch"
               PROVE  pc = (IF Taken(Op, before.regs) THEN line.operand ELSE line.next)
    OBVIOUS
  <2>1. BranchCourse /\ Mode = "Relative"
    BY <1>1, TableModes DEF InstructionCourse, Mode
  <2>2. pc = (IF Taken(Op, before.regs) THEN TargetOf(before) ELSE Ahead(2))
    BY <1>1, <2>1, Lists DEF BranchCourse
  <2>3. Behind = Ahead(2)
    BY <2>1 DEF Behind, InstructionLength, OperandBytes, Mode
  <2> QED
    BY <1>2, <2>1, <2>2, <2>3
<1>5. Op = "JMP_ABS" => pc = line.operand
  <2> SUFFICES ASSUME Op = "JMP_ABS" PROVE pc = line.operand
    OBVIOUS
  <2>1. ShapeOf(opcode) = "Special" /\ Mode = "Absolute"
    BY <1>1, Families, PrintedModes DEF Op, SpecialOps, Mode
  <2>2. JumpCourse
    BY <1>1, <2>1 DEF InstructionCourse, SpecialCourse
  <2>3. pc = OperandWord(before)
    BY <1>1, <2>2, Lists DEF JumpCourse, SpecialCycles
  <2> QED
    BY <1>2, <2>1, <2>3
<1>6. Op = "JSR" /\ U16(before.pc + 2) \notin {trace[k].addr : k \in Writings} => pc = line.operand
  <2> SUFFICES ASSUME Op = "JSR", U16(before.pc + 2) \notin Stained PROVE pc = line.operand
    BY DEF Stained
  <2>1. ShapeOf(opcode) = "Special" /\ Mode = "Absolute"
    BY <1>1, Families, CallMode DEF Op, SpecialOps, Mode
  <2>2. CallCourse
    BY <1>1, <2>1 DEF InstructionCourse, SpecialCourse
  <2>3. pc = WordOf(CodeAt(before, 1), At(mem, Ahead(2)))
    BY <1>1, <2>2, Lists DEF CallCourse, SpecialCycles
  <2>4. Unstained
    BY DEF OnBus, Finished, Instructions
  <2>5. before.pc + 2 \in Int
    BY <1>1, WordInt DEF BeforeOK
  <2>6. Ahead(2) \in Word \ Stained
    BY <2>5, U16Word DEF Ahead
  <2>7. At(mem, Ahead(2)) = CodeAt(before, 2)
    BY <2>4, <2>6 DEF Unstained, CodeAt, Ahead
  <2> QED
    BY <1>2, <2>1, <2>3, <2>7 DEF OperandWord
<1>7. ShapeOf(opcode) \in {"Read", "Write", "Rmw"} /\ line.syntax \in {"ZeroPage", "Absolute"} =>
        trace[Len(trace)].addr = line.operand
  <2> SUFFICES ASSUME ShapeOf(opcode) \in {"Read", "Write", "Rmw"},
                      Mode \in {"ZeroPage", "Absolute"}
               PROVE  trace[Len(trace)].addr = line.operand
    BY <1>2
  <2>1. AddrOf(before, Mode) = line.operand
    BY <1>2 DEF AddrOf, BaseOf
  <2>2. trace[Len(trace)].addr = AddrOf(before, Mode)
    <3>1. CASE ShapeOf(opcode) = "Rmw"
      BY <3>1, AllTraced
    <3>2. CASE ShapeOf(opcode) = "Read"
      BY <1>1, <3>2 DEF InstructionTraced, Memorial, OperandTraced, ReadTraced
    <3>3. CASE ShapeOf(opcode) = "Write"
      BY <1>1, <3>3 DEF InstructionTraced, Memorial, OperandTraced, WriteTraced
    <3> QED
      BY <3>1, <3>2, <3>3
  <2> QED
    BY <2>1, <2>2
<1>8. \A code \in Byte :
        Mnemonic(code) = line.mnemonic /\ ModeOf(code) = line.syntax => OpOf(code) = Op
  BY <1>1, <1>2, PrintsAlike DEF Mode, Op
<1> QED
  BY <1>3, <1>4, <1>5, <1>6, <1>7, <1>8 DEF AsDisassembled, line

(* Every instruction takes the published number of bus cycles, the page    *)
(* crossings and the taken branches counted, whatever it executes next to. *)
THEOREM CyclesPublished == CpuSpec => []CyclesAsPublished
BY BusInvariant, FinishCycles, PTL

(* An instruction touches its own bytes, its pointer, its operand and the  *)
(* address of the discarded read, and pays for the fixup just before the   *)
(* operand.                                                                *)
THEOREM AccessesInPlace == CpuSpec => []NoStrayAccess
BY BusInvariant, FinishStrays, PTL

(* Reads do not write, a store writes in its last cycle, the two kinds of  *)
(* read-modify-write write as the chips do, the rest on the stack only.    *)
THEOREM WritesInOrder == CpuSpec => []WriteCycles
BY BusInvariant, FinishWrites, PTL

(* A line of the listing names the address the processor accesses or goes  *)
(* to next, unless a JSR pushes over its own operand.                      *)
THEOREM ListingAgrees == CpuSpec => []AsDisassembled
BY BusInvariant, FinishListing, PTL
=============================================================================
