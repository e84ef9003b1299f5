------------------------------ MODULE CpuProofs ------------------------------
(***************************************************************************)
(* Proofs about Cpu, for every program, memory and register file and every *)
(* behaviour of the pins: the core takes only the steps the interrupt      *)
(* logic of module Interrupts allows, and every byte and address keeps its *)
(* width.                                                                  *)
(***************************************************************************)
EXTENDS Cpu, InterruptsProofs, AluProofs

-----------------------------------------------------------------------------
CycleKinds ==
  {"FetchZeroPage", "FetchLow", "FetchHigh", "IndexZeroPage", "PointerLow", "PointerHigh",
   "Unfixed", "ReadOperand", "WriteOperand", "WriteUnstable", "RmwRead", "RmwDummy", "RmwWrite",
   "AccumRead", "ImpliedRead", "FetchOffset", "BranchTaken", "BranchFixup", "PushA", "PushHigh",
   "PushLow", "PushFlags", "PullA", "PullFlags", "PullLow", "PullHigh", "IdleRead", "PeekStack",
   "JamHigh", "JamLow", "SkipByte", "ResetStack", "VectorLow", "VectorHigh", "JumpHigh",
   "IndirectLow", "IndirectHigh"}

(* The strengthening: the bus cycles still to do are those the unit has    *)
(* left.  Of the units with a fixed sequence of cycles, the fetch included:*)
Fixed == (Instructions \ {"other"}) \cup Entries \cup {"reset", "jammed"}

Plan(u) ==
  CASE u \in {"CLI", "SEI"} -> <<"Fetch", "ImpliedRead">>
    [] u = "PLP" -> <<"Fetch", "ImpliedRead", "PeekStack", "PullFlags">>
    [] u = "RTI" -> <<"Fetch", "IdleRead", "PeekStack", "PullFlags", "PullLow", "PullHigh">>
    [] u = "BRK" -> <<"Fetch", "SkipByte", "PushHigh", "PushLow", "PushFlags",
                      "VectorLow", "VectorHigh">>
    [] u = "JAM" -> <<"Fetch", "IdleRead", "JamHigh", "JamLow", "JamLow", "JamHigh", "JamHigh",
                      "JamHigh", "JamHigh", "JamHigh", "JamHigh">>
    [] u = "reset" -> <<"IdleRead", "IdleRead", "ResetStack", "ResetStack", "ResetStack",
                        "VectorLow", "VectorHigh">>
    [] u = "jammed" -> <<"IdleRead">>
    [] u \in Entries -> <<"IdleRead", "IdleRead", "PushHigh", "PushLow", "PushFlags",
                          "VectorLow", "VectorHigh">>

OnPlan ==
  unit \in Fixed =>
    /\ Len(todo) = Len(Plan(unit)) - used
    /\ \A k \in 1 .. Len(todo) : todo[k] = Plan(unit)[used + k]

(* The other instructions take at most eight cycles, though four kinds of  *)
(* cycle may put one or two more into the list; none of them moves I.      *)
Grows == {"FetchHigh", "PointerHigh", "FetchOffset", "BranchTaken"}

Growth(kind, code) ==
  CASE kind = "FetchOffset" -> 2
    [] kind = "BranchTaken" -> 1
    [] OTHER -> IF ModeOf(code) \in {"AbsoluteX", "AbsoluteY", "IndirectY"} THEN 1 ELSE 0

InTime(n, list, code) ==
  /\ n >= 1 /\ n + Len(list) \in 2 .. 8
  /\ \A k \in DOMAIN list :
       /\ list[k] \notin {"PullFlags", "ResetStack"}
       /\ list[k] \in Grows => /\ n + Len(list) + Growth(list[k], code) <= 8
                              /\ \A j \in DOMAIN list : j > k => list[j] \notin Grows

(* A cycle that writes a result belongs to an operation that has one. *)
HasResult(kind, code) ==
  /\ kind \in {"RmwWrite", "AccumRead"} => OpOf(code) \in RmwOps
  /\ kind \in {"WriteOperand", "WriteUnstable"} => OpOf(code) \in WriteOps \cup UnstableOps

Scheduled ==
  /\ todo \in Seq(CycleKinds)
  /\ unit \in {"idle", "fetch"} => todo = <<>>
  /\ unit \in Instructions => unit = UnitOf(opcode)
  /\ OnPlan
  /\ unit = "other" => InTime(used, todo, opcode)
  /\ \A k \in DOMAIN todo : HasResult(todo[k], opcode)

-----------------------------------------------------------------------------
(* The instructions told apart have their fixed sequences in the table. *)
LEMMA ImpliedColumns ==
  ASSUME NEW code \in Byte, OpOf(code) \in {"CLI", "SEI", "PLP"}
  PROVE  ModeOf(code) = "Implied"
<1> DEFINE c == (code % 32) + 1
           r == ((code \div 32) % 4) + 2
<1>1. c \in 1 .. 32 /\ r \in 2 .. 5
  BY ByteRange
<1>2. OpOf(code) = (IF code < 128 THEN LowerColumns ELSE UpperColumns)[c][r]
  BY DEF OpOf, Column
<1> HIDE DEF r
<1>3. ASSUME NEW col \in 1 .. 32, LowerColumns[col][r] \in {"CLI", "SEI", "PLP"}
      PROVE  col \in {9, 25}
  BY <1>1, <1>3 DEF LowerColumns
<1>4. ASSUME NEW col \in 1 .. 32
      PROVE  UpperColumns[col][r] \notin {"CLI", "SEI", "PLP"}
  BY <1>1 DEF UpperColumns
<1>5. code < 128 /\ c \in {9, 25}
  BY <1>1, <1>2, <1>3, <1>4
<1>6. Column(code)[1] = "Implied"
  <2>1. Column(code) = LowerColumns[c]
    BY <1>5 DEF Column
  <2>2. LowerColumns[9][1] = "Implied" /\ LowerColumns[25][1] = "Implied"
    BY DEF LowerColumns
  <2> QED
    BY <1>5, <2>1, <2>2
<1>7. code % 32 \in {8, 24}
  BY <1>5, ByteRange
<1>8. code \notin {\h20, \h6C, \h96, \h97, \hB6, \hB7, \h9E, \h9F, \hBE, \hBF}
  BY <1>7
<1> QED
  BY <1>6, <1>8 DEF ModeOf

LEMMA FixedCycles ==
  ASSUME NEW code \in Byte, UnitOf(code) \in Fixed
  PROVE  /\ Len(InstructionCycles(code)) = Len(Plan(UnitOf(code))) - 1
         /\ \A k \in 1 .. Len(InstructionCycles(code)) :
              InstructionCycles(code)[k] = Plan(UnitOf(code))[1 + k]
<1>1. OpOf(code) = UnitOf(code)
      /\ UnitOf(code) \in {"CLI", "SEI", "PLP", "RTI", "BRK", "JAM"}
  BY DEF UnitOf, Fixed, Instructions, Entries
<1>2. CASE OpOf(code) \in {"CLI", "SEI", "PLP"}
  <2>1. ModeOf(code) = "Implied" /\ ShapeOf(code) = "Implied"
    BY <1>2, ImpliedColumns
       DEF ShapeOf, WriteOps, UnstableOps, RmwOps, BranchOps, SpecialOps
  <2>2. InstructionCycles(code) = ImpliedCycles(OpOf(code))
    BY <2>1 DEF InstructionCycles
  <2>3. CASE OpOf(code) = "PLP"
    <3>1. InstructionCycles(code) = <<"ImpliedRead", "PeekStack", "PullFlags">>
      BY <2>2, <2>3 DEF ImpliedCycles
    <3>2. Plan(UnitOf(code)) = <<"Fetch", "ImpliedRead", "PeekStack", "PullFlags">>
      BY <1>1, <2>3 DEF Plan, Entries
    <3> QED
      BY <3>1, <3>2
  <2>4. CASE OpOf(code) # "PLP"
    <3>1. InstructionCycles(code) = <<"ImpliedRead">>
      BY <1>2, <2>2, <2>4 DEF ImpliedCycles
    <3>2. Plan(UnitOf(code)) = <<"Fetch", "ImpliedRead">>
      BY <1>1, <1>2, <2>4 DEF Plan, Entries
    <3> QED
      BY <3>1, <3>2
  <2> QED
    BY <1>2, <2>3, <2>4
<1>3. CASE OpOf(code) \in {"RTI", "BRK", "JAM"}
  <2>1. ShapeOf(code) = "Special"
    BY <1>3 DEF ShapeOf, WriteOps, UnstableOps, RmwOps, BranchOps, SpecialOps
  <2>2. InstructionCycles(code) = SpecialCycles(OpOf(code))
    BY <2>1 DEF InstructionCycles
  <2>3. CASE OpOf(code) = "RTI"
    <3>1. InstructionCycles(code) = <<"IdleRead", "PeekStack", "PullFlags", "PullLow", "PullHigh">>
      BY <2>2, <2>3 DEF SpecialCycles
    <3>2. Plan(UnitOf(code))
            = <<"Fetch", "IdleRead", "PeekStack", "PullFlags", "PullLow", "PullHigh">>
      BY <1>1, <2>3 DEF Plan, Entries
    <3> QED
      BY <3>1, <3>2
  <2>4. CASE OpOf(code) = "BRK"
    <3>1. InstructionCycles(code)
            = <<"SkipByte", "PushHigh", "PushLow", "PushFlags", "VectorLow", "VectorHigh">>
      BY <2>2, <2>4 DEF SpecialCycles
    <3>2. Plan(UnitOf(code)) = <<"Fetch", "SkipByte", "PushHigh", "PushLow", "PushFlags",
                                 "VectorLow", "VectorHigh">>
      BY <1>1, <2>4 DEF Plan, Entries
    <3> QED
      BY <3>1, <3>2
  <2>5. CASE OpOf(code) = "JAM"
    <3>1. InstructionCycles(code)
            = <<"IdleRead", "JamHigh", "JamLow", "JamLow", "JamHigh", "JamHigh", "JamHigh",
                "JamHigh", "JamHigh", "JamHigh">>
      BY <2>2, <2>5 DEF SpecialCycles
    <3>2. Plan(UnitOf(code))
            = <<"Fetch", "IdleRead", "JamHigh", "JamLow", "JamLow", "JamHigh", "JamHigh",
                "JamHigh", "JamHigh", "JamHigh", "JamHigh">>
      BY <1>1, <2>5 DEF Plan, Entries
    <3> QED
      BY <3>1, <3>2
  <2> QED
    BY <1>3, <2>3, <2>4, <2>5
<1> QED
  BY <1>1, <1>2, <1>3
-----------------------------------------------------------------------------
(* The lists of the other instructions are short. *)
LEMMA Concatenation ==
  ASSUME NEW S, NEW p \in Seq(S), NEW q \in Seq(S)
  PROVE  /\ p \o q \in Seq(S) /\ Len(p \o q) = Len(p) + Len(q)
         /\ \A k \in DOMAIN (p \o q) :
              \/ k \in DOMAIN p /\ (p \o q)[k] = p[k]
              \/ k - Len(p) \in DOMAIN q /\ (p \o q)[k] = q[k - Len(p)]
OBVIOUS

ModeKinds ==
  {"FetchZeroPage", "FetchLow", "FetchHigh", "IndexZeroPage", "PointerLow", "PointerHigh"}

LEMMA ModeList ==
  ASSUME NEW mode
  PROVE  /\ ModeCycles(mode) \in Seq(ModeKinds)
         /\ Len(ModeCycles(mode)) <= 4
         /\ mode \in {"AbsoluteX", "AbsoluteY", "IndirectY"} => Len(ModeCycles(mode)) <= 3
         /\ \A k \in DOMAIN ModeCycles(mode) :
              ModeCycles(mode)[k] \in Grows => k = Len(ModeCycles(mode))
<1> USE DEF ModeKinds, Grows
<1>1. CASE mode = "ZeroPage"
  <2> DEFINE l == <<"FetchZeroPage">>
  <2>1. ModeCycles(mode) = l
    BY <1>1 DEF ModeCycles
  <2>2. l \in Seq(ModeKinds) /\ Len(l) <= 4 /\ Len(l) <= 3
    OBVIOUS
  <2>3. \A k \in DOMAIN l : l[k] \in Grows => k = Len(l)
    OBVIOUS
  <2> HIDE DEF l
  <2> QED
    BY <2>1, <2>2, <2>3, Zenon
<1>2. CASE mode \in {"ZeroPageX", "ZeroPageY"}
  <2> DEFINE l == <<"FetchZeroPage", "IndexZeroPage">>
  <2>1. ModeCycles(mode) = l
    BY <1>2 DEF ModeCycles
  <2>2. l \in Seq(ModeKinds) /\ Len(l) <= 4 /\ Len(l) <= 3
    OBVIOUS
  <2>3. \A k \in DOMAIN l : l[k] \in Grows => k = Len(l)
    OBVIOUS
  <2> HIDE DEF l
  <2> QED
    BY <2>1, <2>2, <2>3, Zenon
<1>3. CASE mode \in {"Absolute", "AbsoluteX", "AbsoluteY"}
  <2> DEFINE l == <<"FetchLow", "FetchHigh">>
  <2>1. ModeCycles(mode) = l
    BY <1>3 DEF ModeCycles
  <2>2. l \in Seq(ModeKinds) /\ Len(l) <= 4 /\ Len(l) <= 3
    OBVIOUS
  <2>3. \A k \in DOMAIN l : l[k] \in Grows => k = Len(l)
    OBVIOUS
  <2> HIDE DEF l
  <2> QED
    BY <2>1, <2>2, <2>3, Zenon
<1>4. CASE mode = "IndirectX"
  <2> DEFINE l == <<"FetchZeroPage", "IndexZeroPage", "PointerLow", "PointerHigh">>
  <2>1. ModeCycles(mode) = l
    BY <1>4 DEF ModeCycles
  <2>2. l \in Seq(ModeKinds) /\ Len(l) <= 4
    OBVIOUS
  <2>3. \A k \in DOMAIN l : l[k] \in Grows => k = Len(l)
    OBVIOUS
  <2> HIDE DEF l
  <2> QED
    BY <1>4, <2>1, <2>2, <2>3, Zenon
<1>5. CASE mode = "IndirectY"
  <2> DEFINE l == <<"FetchZeroPage", "PointerLow", "PointerHigh">>
  <2>1. ModeCycles(mode) = l
    BY <1>5 DEF ModeCycles
  <2>2. l \in Seq(ModeKinds) /\ Len(l) <= 4 /\ Len(l) <= 3
    OBVIOUS
  <2>3. \A k \in DOMAIN l : l[k] \in Grows => k = Len(l)
    OBVIOUS
  <2> HIDE DEF l
  <2> QED
    BY <2>1, <2>2, <2>3, Zenon
<1>6. CASE mode \notin {"ZeroPage", "ZeroPageX", "ZeroPageY", "Absolute", "AbsoluteX",
                        "AbsoluteY", "IndirectX", "IndirectY"}
  <2> DEFINE l == <<>>
  <2>1. ModeCycles(mode) = l
    BY <1>6 DEF ModeCycles
  <2>2. l \in Seq(ModeKinds) /\ Len(l) <= 4 /\ Len(l) <= 3
    OBVIOUS
  <2>3. \A k \in DOMAIN l : l[k] \in Grows => k = Len(l)
    OBVIOUS
  <2> HIDE DEF l
  <2> QED
    BY <2>1, <2>2, <2>3, Zenon
<1> QED
  BY <1>1, <1>2, <1>3, <1>4, <1>5, <1>6

LEMMA ListSums ==
  ASSUME NEW a \in 0 .. 4, NEW b \in 1 .. 3, NEW n, n = a + b
  PROVE  1 + n \in 2 .. 8 /\ 1 + n + 0 <= 8 /\ (a <= 3 => 1 + n + 1 <= 8)
OBVIOUS

LEMMA OneMore == ASSUME NEW n \in 1 .. 7 PROVE 1 + n \in 2 .. 8 /\ 1 >= 1
OBVIOUS

(* A list of one to seven cycles that cannot grow is in time. *)
LEMMA PlainList ==
  ASSUME NEW code, NEW l \in Seq(CycleKinds), Len(l) \in 1 .. 7,
         \A k \in DOMAIN l : l[k] \notin Grows \cup {"PullFlags", "ResetStack"}
  PROVE  InTime(1, l, code)
<1>1. 1 + Len(l) \in 2 .. 8 /\ 1 >= 1
  BY OneMore
<1> QED
  BY <1>1, Zenon DEF InTime

OperandKinds ==
  {"ReadOperand", "WriteOperand", "WriteUnstable", "RmwRead", "RmwDummy", "RmwWrite"}

LEMMA OperandList ==
  ASSUME NEW code, NEW tail \in Seq(OperandKinds), Len(tail) \in 1 .. 3,
         \A k \in DOMAIN tail : HasResult(tail[k], code)
  PROVE  LET l == ModeCycles(ModeOf(code)) \o tail
         IN  /\ l \in Seq(CycleKinds)
             /\ \A k \in DOMAIN l : HasResult(l[k], code)
             /\ InTime(1, l, code)
<1> DEFINE m == ModeCycles(ModeOf(code))
           l == m \o tail
<1>1. m \in Seq(ModeKinds) /\ Len(m) \in 0 .. 4
      /\ \A k \in DOMAIN m : m[k] \in Grows => k = Len(m)
  <2>1. m \in Seq(ModeKinds) /\ Len(m) <= 4
        /\ \A k \in DOMAIN m : m[k] \in Grows => k = Len(m)
    BY ModeList, Zenon
  <2> HIDE DEF m
  <2>2. Len(m) \in Nat
    BY <2>1
  <2>3. ASSUME NEW n \in Nat, n <= 4 PROVE n \in 0 .. 4
    BY <2>3
  <2> QED
    BY <2>1, <2>2, <2>3
<1>2. ModeOf(code) \in {"AbsoluteX", "AbsoluteY", "IndirectY"} => Len(m) <= 3
  BY ModeList
<1> HIDE DEF m
<1>3. m \in Seq(CycleKinds) /\ tail \in Seq(CycleKinds)
  <2>1. ModeKinds \subseteq CycleKinds /\ OperandKinds \subseteq CycleKinds
    BY DEF ModeKinds, OperandKinds, CycleKinds
  <2> QED
    BY <1>1, <2>1
<1>4. /\ l \in Seq(CycleKinds) /\ Len(l) = Len(m) + Len(tail)
      /\ \A k \in DOMAIN l : \/ k \in DOMAIN m /\ l[k] = m[k]
                             \/ k - Len(m) \in DOMAIN tail /\ l[k] = tail[k - Len(m)]
  BY <1>3, Concatenation
<1> HIDE DEF l
<1>5. DOMAIN l = 1 .. Len(l) /\ DOMAIN m = 1 .. Len(m) /\ DOMAIN tail = 1 .. Len(tail)
  BY <1>3, <1>4
<1>6. ASSUME NEW k \in DOMAIN l
      PROVE  /\ l[k] \in ModeKinds \cup OperandKinds
             /\ HasResult(l[k], code)
             /\ l[k] \in Grows => k = Len(m) /\ l[k] \in ModeKinds
  <2>1. CASE k \in DOMAIN m /\ l[k] = m[k]
    <3>1. m[k] \in ModeKinds
      BY <1>1, <2>1
    <3> QED
      BY <1>1, <2>1, <3>1 DEF HasResult, ModeKinds
  <2>2. CASE k - Len(m) \in DOMAIN tail /\ l[k] = tail[k - Len(m)]
    <3>1. tail[k - Len(m)] \in OperandKinds /\ HasResult(tail[k - Len(m)], code)
      BY <2>2
    <3> QED
      BY <2>2, <3>1 DEF OperandKinds, Grows
  <2> QED
    BY <1>4, <2>1, <2>2
<1>7. InTime(1, l, code)
  <2>1. /\ 1 + Len(l) \in 2 .. 8 /\ 1 + Len(l) + 0 <= 8
        /\ Len(m) <= 3 => 1 + Len(l) + 1 <= 8
    BY <1>1, <1>4, ListSums
  <2>2. ASSUME NEW k \in DOMAIN l
        PROVE  l[k] \notin {"PullFlags", "ResetStack"}
    BY <1>6 DEF ModeKinds, OperandKinds
  <2>3. ASSUME NEW k \in DOMAIN l, l[k] \in Grows
        PROVE  /\ 1 + Len(l) + Growth(l[k], code) <= 8
               /\ \A j \in DOMAIN l : j > k => l[j] \notin Grows
    <3>1. k = Len(m) /\ l[k] \notin {"FetchOffset", "BranchTaken"}
      BY <1>6, <2>3 DEF ModeKinds
    <3>2. Growth(l[k], code)
            = IF ModeOf(code) \in {"AbsoluteX", "AbsoluteY", "IndirectY"} THEN 1 ELSE 0
      BY <3>1 DEF Growth
    <3>3. 1 + Len(l) + Growth(l[k], code) <= 8
      BY <1>2, <2>1, <3>2, Zenon
    <3>4. ASSUME NEW j \in DOMAIN l, j > k, l[j] \in Grows PROVE FALSE
      BY <1>1, <1>6, <3>1, <3>4
    <3> QED
      BY <3>3, <3>4
  <2> QED
    BY <2>1, <2>2, <2>3 DEF InTime
<1> QED
  BY <1>4, <1>6, <1>7 DEF l, m

LEMMA ImpliedList ==
  ASSUME NEW code, NEW l, l = ImpliedCycles(OpOf(code))
  PROVE  /\ l \in Seq(CycleKinds)
         /\ \A k \in DOMAIN l : HasResult(l[k], code)
         /\ OpOf(code) # "PLP" => InTime(1, l, code)
<1>1. l \in {<<"ImpliedRead", "PushA">>, <<"ImpliedRead", "PushFlags">>,
            <<"ImpliedRead", "PeekStack", "PullA">>, <<"ImpliedRead">>,
            <<"ImpliedRead", "PeekStack", "PullFlags">>}
  BY DEF ImpliedCycles
<1>2. l \in Seq(CycleKinds) /\ Len(l) \in 1 .. 7
  <2>1. LET q == <<"ImpliedRead", "PushA">> IN q \in Seq(CycleKinds) /\ Len(q) \in 1 .. 7
    BY DEF CycleKinds
  <2>2. LET q == <<"ImpliedRead", "PushFlags">> IN q \in Seq(CycleKinds) /\ Len(q) \in 1 .. 7
    BY DEF CycleKinds
  <2>3. LET q == <<"ImpliedRead", "PeekStack", "PullA">> IN q \in Seq(CycleKinds) /\ Len(q) \in 1 .. 7
    BY DEF CycleKinds
  <2>4. LET q == <<"ImpliedRead">> IN q \in Seq(CycleKinds) /\ Len(q) \in 1 .. 7
    BY DEF CycleKinds
  <2>5. LET q == <<"ImpliedRead", "PeekStack", "PullFlags">> IN q \in Seq(CycleKinds) /\ Len(q) \in 1 .. 7
    BY DEF CycleKinds
  <2> QED
    BY <1>1, <2>1, <2>2, <2>3, <2>4, <2>5, Zenon
<1>3. \A k \in DOMAIN l : HasResult(l[k], code)
  BY <1>1 DEF HasResult
<1>4. ASSUME OpOf(code) # "PLP"
      PROVE  InTime(1, l, code)
  <2>1. l \in {<<"ImpliedRead", "PushA">>, <<"ImpliedRead", "PushFlags">>,
              <<"ImpliedRead", "PeekStack", "PullA">>, <<"ImpliedRead">>}
    BY <1>4 DEF ImpliedCycles
  <2>2. \A k \in DOMAIN l : l[k] \notin Grows \cup {"PullFlags", "ResetStack"}
    BY <2>1 DEF Grows
  <2> QED
    BY <1>2, <2>2, PlainList
<1> QED
  BY <1>2, <1>3, <1>4

LEMMA SpecialList ==
  ASSUME NEW code, OpOf(code) \in SpecialOps, NEW l, l = SpecialCycles(OpOf(code))
  PROVE  /\ l \in Seq(CycleKinds)
         /\ \A k \in DOMAIN l : HasResult(l[k], code)
         /\ OpOf(code) \notin Instructions => InTime(1, l, code)
<1>1. CASE OpOf(code) \in {"JSR", "RTS", "JMP_ABS"}
  <2>1. l \in {<<"FetchLow", "PeekStack", "PushHigh", "PushLow", "JumpHigh">>,
              <<"IdleRead", "PeekStack", "PullLow", "PullHigh", "SkipByte">>,
              <<"FetchLow", "JumpHigh">>}
    BY <1>1 DEF SpecialCycles
  <2>2. l \in Seq(CycleKinds) /\ Len(l) \in 1 .. 7
    <3>1. LET q == <<"FetchLow", "PeekStack", "PushHigh", "PushLow", "JumpHigh">> IN q \in Seq(CycleKinds) /\ Len(q) \in 1 .. 7
      BY DEF CycleKinds
    <3>2. LET q == <<"IdleRead", "PeekStack", "PullLow", "PullHigh", "SkipByte">> IN q \in Seq(CycleKinds) /\ Len(q) \in 1 .. 7
      BY DEF CycleKinds
    <3>3. LET q == <<"FetchLow", "JumpHigh">> IN q \in Seq(CycleKinds) /\ Len(q) \in 1 .. 7
      BY DEF CycleKinds
    <3> QED
      BY <2>1, <3>1, <3>2, <3>3, Zenon
  <2>3. \A k \in DOMAIN l : HasResult(l[k], code)
    BY <2>1 DEF HasResult
  <2>4. \A k \in DOMAIN l : l[k] \notin Grows \cup {"PullFlags", "ResetStack"}
    BY <2>1 DEF Grows
  <2> QED
    BY <2>2, <2>3, <2>4, PlainList
<1>2. CASE OpOf(code) = "JMP_IND"
  <2>1. l \in {<<"FetchLow", "FetchHigh", "IndirectLow", "IndirectHigh">>,
              <<"FetchLow", "FetchHigh", "IndirectLow", "IdleRead", "IndirectHigh">>}
    BY <1>2 DEF SpecialCycles
  <2>2. l \in Seq(CycleKinds) /\ Len(l) \in {4, 5}
    <3>1. LET q == <<"FetchLow", "FetchHigh", "IndirectLow", "IndirectHigh">> IN q \in Seq(CycleKinds) /\ Len(q) \in {4, 5}
      BY DEF CycleKinds
    <3>2. LET q == <<"FetchLow", "FetchHigh", "IndirectLow", "IdleRead", "IndirectHigh">> IN q \in Seq(CycleKinds) /\ Len(q) \in {4, 5}
      BY DEF CycleKinds
    <3> QED
      BY <2>1, <3>1, <3>2, Zenon
  <2>3. \A k \in DOMAIN l : HasResult(l[k], code)
    BY <2>1 DEF HasResult
  <2>4. \A k \in DOMAIN l : l[k] \notin {"PullFlags", "ResetStack", "FetchOffset", "BranchTaken"}
    BY <2>1
  <2>5. \A k \in DOMAIN l : l[k] \in Grows => k = 2
    BY <2>1 DEF Grows
  <2>6. ASSUME NEW k \in DOMAIN l PROVE Growth(l[k], code) \in {0, 1}
    BY <2>4 DEF Growth
  <2>7. ASSUME NEW n \in {4, 5}, NEW g \in {0, 1}
        PROVE  1 >= 1 /\ 1 + n \in 2 .. 8 /\ 1 + n + g <= 8
    BY <2>7
  <2>8. \A k \in DOMAIN l : 1 + Len(l) + Growth(l[k], code) <= 8
    BY <2>2, <2>6, <2>7
  <2>9. ASSUME NEW j \in DOMAIN l, NEW k \in DOMAIN l, l[k] \in Grows, j > k
        PROVE  l[j] \notin Grows
    BY <2>2, <2>5, <2>9
  <2> QED
    BY <1>2, <2>2, <2>3, <2>4, <2>7, <2>8, <2>9, Zenon DEF InTime
<1>3. CASE OpOf(code) \in {"BRK", "RTI"}
  <2>1. l \in {<<"SkipByte", "PushHigh", "PushLow", "PushFlags", "VectorLow", "VectorHigh">>,
              <<"IdleRead", "PeekStack", "PullFlags", "PullLow", "PullHigh">>}
    BY <1>3 DEF SpecialCycles
  <2>2. l \in Seq(CycleKinds)
    <3>1. LET q == <<"SkipByte", "PushHigh", "PushLow", "PushFlags", "VectorLow", "VectorHigh">> IN q \in Seq(CycleKinds)
      BY DEF CycleKinds
    <3>2. LET q == <<"IdleRead", "PeekStack", "PullFlags", "PullLow", "PullHigh">> IN q \in Seq(CycleKinds)
      BY DEF CycleKinds
    <3> QED
      BY <2>1, <3>1, <3>2, Zenon
  <2>3. \A k \in DOMAIN l : HasResult(l[k], code)
    BY <2>1 DEF HasResult
  <2> QED
    BY <1>3, <2>2, <2>3 DEF Instructions
<1>4. CASE OpOf(code) = "JAM"
  <2>1. l = <<"IdleRead", "JamHigh", "JamLow", "JamLow", "JamHigh", "JamHigh",
              "JamHigh", "JamHigh", "JamHigh", "JamHigh">>
    BY <1>4 DEF SpecialCycles
  <2>2. l \in Seq(CycleKinds)
    BY <2>1 DEF CycleKinds
  <2>3. \A k \in DOMAIN l : HasResult(l[k], code)
    BY <2>1 DEF HasResult
  <2> QED
    BY <1>4, <2>2, <2>3 DEF Instructions
<1> QED
  BY <1>1, <1>2, <1>3, <1>4 DEF SpecialOps

(* What the fetch puts into the list. *)
LEMMA InstructionList ==
  ASSUME NEW code, NEW l, l = InstructionCycles(code)
  PROVE  /\ l \in Seq(CycleKinds)
         /\ \A k \in DOMAIN l : HasResult(l[k], code)
         /\ UnitOf(code) = "other" => InTime(1, l, code)
<1>0. UnitOf(code) = "other" => OpOf(code) \notin Instructions \ {"other"}
  BY DEF UnitOf
<1>1. ASSUME NEW tail \in Seq(OperandKinds), Len(tail) \in 1 .. 3,
             \A k \in DOMAIN tail : HasResult(tail[k], code),
             l = ModeCycles(ModeOf(code)) \o tail
      PROVE  /\ l \in Seq(CycleKinds)
             /\ \A k \in DOMAIN l : HasResult(l[k], code)
             /\ InTime(1, l, code)
  BY <1>1, OperandList
<1>2. CASE ShapeOf(code) = "Read"
  <2> DEFINE tail == <<"ReadOperand">>
  <2>1. l = ModeCycles(ModeOf(code)) \o tail
    BY <1>2 DEF InstructionCycles
  <2>2. tail \in Seq(OperandKinds) /\ Len(tail) \in 1 .. 3
        /\ \A k \in DOMAIN tail : HasResult(tail[k], code)
    BY DEF OperandKinds, HasResult
  <2> HIDE DEF tail
  <2> QED
    BY <1>1, <2>1, <2>2
<1>3. CASE ShapeOf(code) = "Write"
  <2> DEFINE tail == <<"WriteOperand">>
  <2>1. l = ModeCycles(ModeOf(code)) \o tail
    BY <1>3 DEF InstructionCycles
  <2>2. OpOf(code) \in WriteOps
    BY <1>3 DEF ShapeOf
  <2>3. tail \in Seq(OperandKinds) /\ Len(tail) \in 1 .. 3
        /\ \A k \in DOMAIN tail : HasResult(tail[k], code)
    BY <2>2 DEF OperandKinds, HasResult
  <2> HIDE DEF tail
  <2> QED
    BY <1>1, <2>1, <2>3
<1>4. CASE ShapeOf(code) = "UnstableStore"
  <2> DEFINE tail == <<"WriteUnstable">>
  <2>1. l = ModeCycles(ModeOf(code)) \o tail
    BY <1>4 DEF InstructionCycles
  <2>2. OpOf(code) \in UnstableOps
    BY <1>4 DEF ShapeOf
  <2>3. tail \in Seq(OperandKinds) /\ Len(tail) \in 1 .. 3
        /\ \A k \in DOMAIN tail : HasResult(tail[k], code)
    BY <2>2 DEF OperandKinds, HasResult
  <2> HIDE DEF tail
  <2> QED
    BY <1>1, <2>1, <2>3
<1>5. CASE ShapeOf(code) = "Rmw"
  <2> DEFINE tail == <<"RmwRead", "RmwDummy", "RmwWrite">>
  <2>1. l = ModeCycles(ModeOf(code)) \o tail
    BY <1>5 DEF InstructionCycles
  <2>2. OpOf(code) \in RmwOps
    BY <1>5 DEF ShapeOf
  <2>3. tail \in Seq(OperandKinds) /\ Len(tail) \in 1 .. 3
        /\ \A k \in DOMAIN tail : HasResult(tail[k], code)
    BY <2>2 DEF OperandKinds, HasResult
  <2> HIDE DEF tail
  <2> QED
    BY <1>1, <2>1, <2>3
<1>6. CASE ShapeOf(code) = "Accum"
  <2>1. l = <<"AccumRead">>
    BY <1>6 DEF InstructionCycles
  <2>2. OpOf(code) \in RmwOps
    BY <1>6 DEF ShapeOf
  <2>3. l \in Seq(CycleKinds) /\ Len(l) \in 1 .. 7
    BY <2>1 DEF CycleKinds
  <2>4. \A k \in DOMAIN l : HasResult(l[k], code)
    BY <2>1, <2>2 DEF HasResult
  <2>5. \A k \in DOMAIN l : l[k] \notin Grows \cup {"PullFlags", "ResetStack"}
    BY <2>1 DEF Grows
  <2> QED
    BY <2>3, <2>4, <2>5, PlainList
<1>7. CASE ShapeOf(code) = "Implied"
  <2>1. l = ImpliedCycles(OpOf(code))
    BY <1>7 DEF InstructionCycles
  <2>2. UnitOf(code) = "other" => OpOf(code) # "PLP"
    BY <1>0 DEF Instructions
  <2> QED
    BY <2>1, <2>2, ImpliedList
<1>8. CASE ShapeOf(code) = "Branch"
  <2>1. l = <<"FetchOffset">>
    BY <1>8 DEF InstructionCycles
  <2>2. l \in Seq(CycleKinds) /\ Len(l) = 1
    BY <2>1 DEF CycleKinds
  <2>3. \A k \in DOMAIN l : k = 1 /\ l[k] = "FetchOffset"
    BY <2>1
  <2>4. \A k \in DOMAIN l : HasResult(l[k], code)
    BY <2>3 DEF HasResult
  <2>5. 1 + Len(l) \in 2 .. 8 /\ 1 >= 1 /\ 1 + Len(l) + 2 <= 8 /\ ~(1 > 1)
    BY <2>2
  <2>6. Growth("FetchOffset", code) = 2
    BY DEF Growth
  <2>7. InTime(1, l, code)
    BY <2>3, <2>5, <2>6 DEF InTime
  <2> QED
    BY <2>2, <2>4, <2>7
<1>9. CASE ShapeOf(code) = "Special"
  <2>1. l = SpecialCycles(OpOf(code)) /\ OpOf(code) \in SpecialOps
    BY <1>9 DEF InstructionCycles, ShapeOf
  <2>2. UnitOf(code) = "other" => OpOf(code) \notin Instructions
    BY <1>0, <2>1 DEF Instructions, SpecialOps
  <2> QED
    BY <2>1, <2>2, SpecialList
<1> QED
  <2>1. ShapeOf(code) \in {"Read", "Write", "UnstableStore", "Rmw", "Accum", "Implied",
                          "Branch", "Special"}
    BY DEF ShapeOf
  <2> QED
    BY <1>2, <1>3, <1>4, <1>5, <1>6, <1>7, <1>8, <1>9, <2>1

-----------------------------------------------------------------------------
(* Where the cycles that move I, and the last of JAM, lie in the sequences. *)
LEMMA PlanLengths ==
  ASSUME NEW u \in Fixed
  PROVE  Len(Plan(u)) \in 1 .. 11 /\ Lengths(u) = {Len(Plan(u))}
<1>1. CASE u \in {"CLI", "SEI"}
  <2>1. Len(Plan(u)) = 2
    BY <1>1 DEF Plan, Entries
  <2>2. Lengths(u) = {2}
    BY <1>1 DEF Lengths, Entries, JamLength, JammedLength
  <2> QED
    BY <2>1, <2>2
<1>2. CASE u = "PLP"
  <2>1. Len(Plan(u)) = 4
    BY <1>2 DEF Plan, Entries
  <2>2. Lengths(u) = {4}
    BY <1>2 DEF Lengths, Entries, JamLength, JammedLength
  <2> QED
    BY <2>1, <2>2
<1>3. CASE u = "RTI"
  <2>1. Len(Plan(u)) = 6
    BY <1>3 DEF Plan, Entries
  <2>2. Lengths(u) = {6}
    BY <1>3 DEF Lengths, Entries, JamLength, JammedLength
  <2> QED
    BY <2>1, <2>2
<1>4. CASE u = "BRK"
  <2>1. Len(Plan(u)) = 7
    BY <1>4 DEF Plan, Entries
  <2>2. Lengths(u) = {7}
    BY <1>4 DEF Lengths, Entries, JamLength, JammedLength
  <2> QED
    BY <2>1, <2>2
<1>5. CASE u = "JAM"
  <2>1. Len(Plan(u)) = 11
    BY <1>5 DEF Plan, Entries
  <2>2. Lengths(u) = {11}
    BY <1>5 DEF Lengths, Entries, JamLength, JammedLength
  <2> QED
    BY <2>1, <2>2
<1>6. CASE u = "reset"
  <2>1. Len(Plan(u)) = 7
    BY <1>6 DEF Plan, Entries
  <2>2. Lengths(u) = {7}
    BY <1>6 DEF Lengths, Entries, JamLength, JammedLength
  <2> QED
    BY <2>1, <2>2
<1>7. CASE u = "jammed"
  <2>1. Len(Plan(u)) = 1
    BY <1>7 DEF Plan, Entries
  <2>2. Lengths(u) = {1}
    BY <1>7 DEF Lengths, Entries, JamLength, JammedLength
  <2> QED
    BY <2>1, <2>2
<1>8. CASE u \in Entries
  <2>1. Len(Plan(u)) = 7
    BY <1>8 DEF Plan, Entries
  <2>2. Lengths(u) = {7}
    BY <1>8 DEF Lengths, Entries, JamLength, JammedLength
  <2> QED
    BY <2>1, <2>2
<1> QED
  BY <1>1, <1>2, <1>3, <1>4, <1>5, <1>6, <1>7, <1>8 DEF Fixed, Instructions

LEMMA Positions ==
  ASSUME NEW u \in Fixed, NEW n \in 1 .. Len(Plan(u)), NEW k, k = Plan(u)[n]
  PROVE  /\ k \notin Grows
         /\ k = "ImpliedRead" => u \in {"CLI", "SEI", "PLP"} /\ n = 2
         /\ k = "PushFlags" <=> u \in Entries \cup {"BRK"} /\ n = 5
         /\ k = "PullFlags" <=> u \in {"PLP", "RTI"} /\ n = 4
         /\ k = "ResetStack" <=> u = "reset" /\ n \in 3 .. 5
         /\ k = "JamHigh" => u = "JAM"
         /\ u \in {"CLI", "SEI"} /\ n = 2 => k = "ImpliedRead"
         /\ u = "JAM" /\ n = 11 => k = "JamHigh"
<1>1. CASE u \in {"CLI", "SEI"}
  <2> DEFINE l == <<"Fetch", "ImpliedRead">>
  <2>1. Plan(u) = l
    BY <1>1 DEF Plan, Entries
  <2>2. Len(l) = 2
    OBVIOUS
  <2>3. /\ l[1] = "Fetch"
        /\ l[2] = "ImpliedRead"
    OBVIOUS
  <2> HIDE DEF l
  <2>4. n \in {1, 2}
    BY <2>1, <2>2
  <2> QED
    BY <1>1, <2>1, <2>3, <2>4 DEF Grows, Entries
<1>2. CASE u = "PLP"
  <2> DEFINE l == <<"Fetch", "ImpliedRead", "PeekStack", "PullFlags">>
  <2>1. Plan(u) = l
    BY <1>2 DEF Plan, Entries
  <2>2. Len(l) = 4
    OBVIOUS
  <2>3. /\ l[1] = "Fetch"
        /\ l[2] = "ImpliedRead"
        /\ l[3] = "PeekStack"
        /\ l[4] = "PullFlags"
    OBVIOUS
  <2> HIDE DEF l
  <2>4. n \in {1, 2, 3, 4}
    BY <2>1, <2>2
  <2> QED
    BY <1>2, <2>1, <2>3, <2>4 DEF Grows, Entries
<1>3. CASE u = "RTI"
  <2> DEFINE l == <<"Fetch", "IdleRead", "PeekStack", "PullFlags", "PullLow", "PullHigh">>
  <2>1. Plan(u) = l
    BY <1>3 DEF Plan, Entries
  <2>2. Len(l) = 6
    OBVIOUS
  <2>3. /\ l[1] = "Fetch"
        /\ l[2] = "IdleRead"
        /\ l[3] = "PeekStack"
        /\ l[4] = "PullFlags"
        /\ l[5] = "PullLow"
        /\ l[6] = "PullHigh"
    OBVIOUS
  <2> HIDE DEF l
  <2>4. n \in {1, 2, 3, 4, 5, 6}
    BY <2>1, <2>2
  <2> QED
    BY <1>3, <2>1, <2>3, <2>4 DEF Grows, Entries
<1>4. CASE u = "BRK"
  <2> DEFINE l == <<"Fetch", "SkipByte", "PushHigh", "PushLow", "PushFlags",
                    "VectorLow", "VectorHigh">>
  <2>1. Plan(u) = l
    BY <1>4 DEF Plan, Entries
  <2>2. Len(l) = 7
    OBVIOUS
  <2>3. /\ l[1] = "Fetch"
        /\ l[2] = "SkipByte"
        /\ l[3] = "PushHigh"
        /\ l[4] = "PushLow"
        /\ l[5] = "PushFlags"
        /\ l[6] = "VectorLow"
        /\ l[7] = "VectorHigh"
    OBVIOUS
  <2> HIDE DEF l
  <2>4. n \in {1, 2, 3, 4, 5, 6, 7}
    BY <2>1, <2>2
  <2> QED
    BY <1>4, <2>1, <2>3, <2>4 DEF Grows, Entries
<1>5. CASE u = "JAM"
  <2> DEFINE l == <<"Fetch", "IdleRead", "JamHigh", "JamLow", "JamLow", "JamHigh", "JamHigh",
                    "JamHigh", "JamHigh", "JamHigh", "JamHigh">>
  <2>1. Plan(u) = l
    BY <1>5 DEF Plan, Entries
  <2>2. Len(l) = 11
    OBVIOUS
  <2>3. /\ l[1] = "Fetch"
        /\ l[2] = "IdleRead"
        /\ l[3] = "JamHigh"
        /\ l[4] = "JamLow"
        /\ l[5] = "JamLow"
        /\ l[6] = "JamHigh"
        /\ l[7] = "JamHigh"
        /\ l[8] = "JamHigh"
        /\ l[9] = "JamHigh"
        /\ l[10] = "JamHigh"
        /\ l[11] = "JamHigh"
    OBVIOUS
  <2> HIDE DEF l
  <2>4. n \in {1, 2, 3, 4, 5, 6, 7, 8, 9, 10, 11}
    BY <2>1, <2>2
  <2>5. Plan(u)[n] \in {"Fetch", "IdleRead", "JamHigh", "JamLow"} /\ (n = 11 => Plan(u)[n] = "JamHigh")
    BY <2>1, <2>3, <2>4
  <2> QED
    BY <1>5, <2>5 DEF Grows, Entries
<1>6. CASE u = "reset"
  <2> DEFINE l == <<"IdleRead", "IdleRead", "ResetStack", "ResetStack", "ResetStack",
                    "VectorLow", "VectorHigh">>
  <2>1. Plan(u) = l
    BY <1>6 DEF Plan, Entries
  <2>2. Len(l) = 7
    OBVIOUS
  <2>3. /\ l[1] = "IdleRead"
        /\ l[2] = "IdleRead"
        /\ l[3] = "ResetStack"
        /\ l[4] = "ResetStack"
        /\ l[5] = "ResetStack"
        /\ l[6] = "VectorLow"
        /\ l[7] = "VectorHigh"
    OBVIOUS
  <2> HIDE DEF l
  <2>4. n \in {1, 2, 3, 4, 5, 6, 7}
    BY <2>1, <2>2
  <2> QED
    BY <1>6, <2>1, <2>3, <2>4 DEF Grows, Entries
<1>7. CASE u = "jammed"
  <2> DEFINE l == <<"IdleRead">>
  <2>1. Plan(u) = l
    BY <1>7 DEF Plan, Entries
  <2>2. Len(l) = 1
    OBVIOUS
  <2>3. /\ l[1] = "IdleRead"
    OBVIOUS
  <2> HIDE DEF l
  <2>4. n \in {1}
    BY <2>1, <2>2
  <2> QED
    BY <1>7, <2>1, <2>3, <2>4 DEF Grows, Entries
<1>8. CASE u \in Entries
  <2> DEFINE l == <<"IdleRead", "IdleRead", "PushHigh", "PushLow", "PushFlags",
                    "VectorLow", "VectorHigh">>
  <2>1. Plan(u) = l
    BY <1>8 DEF Plan, Entries
  <2>2. Len(l) = 7
    OBVIOUS
  <2>3. /\ l[1] = "IdleRead"
        /\ l[2] = "IdleRead"
        /\ l[3] = "PushHigh"
        /\ l[4] = "PushLow"
        /\ l[5] = "PushFlags"
        /\ l[6] = "VectorLow"
        /\ l[7] = "VectorHigh"
    OBVIOUS
  <2> HIDE DEF l
  <2>4. n \in {1, 2, 3, 4, 5, 6, 7}
    BY <2>1, <2>2
  <2> QED
    BY <1>8, <2>1, <2>3, <2>4 DEF Grows, Entries
<1> QED
  BY <1>1, <1>2, <1>3, <1>4, <1>5, <1>6, <1>7, <1>8 DEF Fixed, Instructions

LEMMA ResetPlan ==
  ASSUME NEW n \in 3 .. 5
  PROVE  Len(Plan("reset")) = 7 /\ (Plan("reset")[n + 1] = "VectorLow" <=> n = 5)
BY DEF Plan, Entries

-----------------------------------------------------------------------------
(* Performing the head of the list. *)
LEMMA TailFacts ==
  ASSUME NEW S, NEW l \in Seq(S), l # <<>>
  PROVE  /\ Tail(l) \in Seq(S) /\ Len(l) \in Nat \ {0} /\ Len(Tail(l)) = Len(l) - 1
         /\ 1 \in DOMAIN l /\ Head(l) = l[1] /\ l[1] \in S
         /\ DOMAIN l = 1 .. Len(l) /\ DOMAIN Tail(l) = 1 .. Len(l) - 1
         /\ \A k \in DOMAIN Tail(l) : k + 1 \in DOMAIN l /\ Tail(l)[k] = l[k + 1]
OBVIOUS

LEMMA AtHead ==
  ASSUME TypeOK, Scheduled, todo # <<>>
  PROVE  /\ Kind = todo[1] /\ 1 \in DOMAIN todo /\ Kind \in CycleKinds
         /\ unit \in Fixed \cup {"other"}
         /\ unit \in Fixed => /\ used + 1 \in 1 .. Len(Plan(unit))
                              /\ used + Len(todo) = Len(Plan(unit))
                              /\ Kind = Plan(unit)[used + 1]
         /\ unit = "other" => used + 1 \in 2 .. 8
<1>1. /\ Kind = todo[1] /\ 1 \in DOMAIN todo /\ Kind \in CycleKinds
      /\ Len(todo) \in Nat \ {0} /\ DOMAIN todo = 1 .. Len(todo)
  BY TailFacts DEF Scheduled, Kind
<1>2. unit \in Fixed \cup {"other"}
  BY DEF Scheduled, TypeOK, Units, Fixed
<1>3. used \in 0 .. 11
  BY DEF TypeOK, MaxLength
<1>4. ASSUME unit \in Fixed
      PROVE  /\ used + 1 \in 1 .. Len(Plan(unit))
             /\ used + Len(todo) = Len(Plan(unit))
             /\ Kind = Plan(unit)[used + 1]
  <2>1. Len(Plan(unit)) \in 1 .. 11
    BY <1>4, PlanLengths
  <2>2. Len(todo) = Len(Plan(unit)) - used /\ todo[1] = Plan(unit)[used + 1]
    BY <1>1, <1>4 DEF Scheduled, OnPlan
  <2>3. ASSUME NEW a \in 1 .. 11, NEW b \in Nat \ {0}, b = a - used
        PROVE  used + 1 \in 1 .. a /\ used + b = a
    BY <1>3, <2>3
  <2> QED
    BY <1>1, <2>1, <2>2, <2>3
<1>5. ASSUME unit = "other"
      PROVE  used + 1 \in 2 .. 8
  <2>1. used >= 1 /\ used + Len(todo) \in 2 .. 8
    BY <1>5 DEF Scheduled, InTime
  <2>2. ASSUME NEW b \in Nat \ {0}, used + b \in 2 .. 8
        PROVE  used + 1 \in 2 .. 8
    BY <1>3, <2>1, <2>2
  <2> QED
    BY <1>1, <2>1, <2>2
<1> QED
  BY <1>1, <1>2, <1>4, <1>5

LEMMA DoneKeeps ==
  ASSUME TypeOK, Scheduled, todo # <<>>, Done, used' = used + 1, unit' = unit, opcode' = opcode
  PROVE  Scheduled'
<1>1. /\ todo' \in Seq(CycleKinds) /\ Len(todo) \in Nat \ {0} /\ Len(todo') = Len(todo) - 1
      /\ DOMAIN todo = 1 .. Len(todo) /\ DOMAIN todo' = 1 .. Len(todo')
      /\ \A k \in DOMAIN todo' : k + 1 \in DOMAIN todo /\ todo'[k] = todo[k + 1]
  BY TailFacts DEF Scheduled, Done
<1>2. used \in 0 .. 11
  BY DEF TypeOK, MaxLength
<1>3. unit \notin {"idle", "fetch"} /\ (unit' \in Instructions => unit' = UnitOf(opcode'))
  BY AtHead DEF Scheduled, Fixed, Instructions, Entries
<1>4. OnPlan'
  <2> SUFFICES ASSUME unit \in Fixed
               PROVE  /\ Len(todo') = Len(Plan(unit)) - (used + 1)
                      /\ \A k \in 1 .. Len(todo') : todo'[k] = Plan(unit)[used + 1 + k]
    BY DEF OnPlan
  <2>1. used + Len(todo) = Len(Plan(unit)) /\ Len(Plan(unit)) \in 1 .. 11
    BY AtHead, PlanLengths
  <2>2. ASSUME NEW a \in Int, NEW b \in Int, NEW c \in Int, used + a = b, c = a - 1
        PROVE  c = b - (used + 1)
    BY <1>2, <2>2
  <2>3. Len(todo') = Len(Plan(unit)) - (used + 1)
    BY <1>1, <2>1, <2>2
  <2>4. ASSUME NEW k \in 1 .. Len(todo')
        PROVE  todo'[k] = Plan(unit)[used + 1 + k]
    <3>1. k + 1 \in 1 .. Len(todo) /\ todo'[k] = todo[k + 1]
      BY <1>1
    <3>2. todo[k + 1] = Plan(unit)[used + (k + 1)]
      BY <3>1 DEF Scheduled, OnPlan
    <3>3. used + (k + 1) = used + 1 + k
      BY <1>2
    <3> QED
      BY <3>1, <3>2, <3>3
  <2> QED
    BY <2>3, <2>4
<1>5. ASSUME unit = "other"
      PROVE  InTime(used + 1, todo', opcode)
  <2>1. /\ used >= 1 /\ used + Len(todo) \in 2 .. 8
        /\ \A k \in DOMAIN todo :
             /\ todo[k] \notin {"PullFlags", "ResetStack"}
             /\ todo[k] \in Grows => /\ used + Len(todo) + Growth(todo[k], opcode) <= 8
                                     /\ \A j \in DOMAIN todo : j > k => todo[j] \notin Grows
    BY <1>5 DEF Scheduled, InTime
  <2>2. ASSUME NEW a \in Nat, NEW b, b = a - 1
        PROVE  used + 1 + b = used + a
    BY <1>2, <2>2
  <2>3. used + 1 + Len(todo') = used + Len(todo) /\ used + 1 >= 1
    BY <1>1, <1>2, <2>2
  <2>4. ASSUME NEW k \in DOMAIN todo', todo'[k] \in Grows, NEW j \in DOMAIN todo', j > k
        PROVE  todo'[j] \notin Grows
    <3>1. k + 1 \in DOMAIN todo /\ j + 1 \in DOMAIN todo
          /\ todo'[k] = todo[k + 1] /\ todo'[j] = todo[j + 1]
      BY <1>1
    <3>2. j + 1 > k + 1
      BY <1>1, <2>4
    <3> QED
      BY <2>1, <2>4, <3>1, <3>2
  <2>5. ASSUME NEW k \in DOMAIN todo'
        PROVE  /\ todo'[k] \notin {"PullFlags", "ResetStack"}
               /\ todo'[k] \in Grows => used + Len(todo) + Growth(todo'[k], opcode) <= 8
    BY <1>1, <2>1
  <2> QED
    BY <2>1, <2>3, <2>4, <2>5 DEF InTime
<1>6. \A k \in DOMAIN todo' : HasResult(todo'[k], opcode)
  BY <1>1 DEF Scheduled
<1> QED
  BY <1>1, <1>3, <1>4, <1>5, <1>6 DEF Scheduled

LEMMA ThenFacts ==
  ASSUME NEW S, NEW l \in Seq(S), l # <<>>, NEW k \in S
  PROVE  LET m == <<k>> \o Tail(l)
         IN  /\ m \in Seq(S) /\ Len(m) = Len(l) /\ DOMAIN m = DOMAIN l /\ m[1] = k
             /\ \A j \in DOMAIN m : j # 1 => m[j] = l[j]
OBVIOUS

(* A cycle put in for the fixup of an address or for a taken branch. *)
LEMMA ThenKeeps ==
  ASSUME TypeOK, Scheduled, todo # <<>>, NEW k \in {"Unfixed", "BranchTaken", "BranchFixup"},
         Kind \in Grows, Growth(Kind, opcode) \in {1, 2},
         k = "BranchTaken" => Kind = "FetchOffset",
         Then(k), used' = used + 1, unit' = unit, opcode' = opcode
  PROVE  Scheduled'
<1>1. k \in CycleKinds
  BY DEF CycleKinds
<1>2. /\ todo' \in Seq(CycleKinds) /\ Len(todo') = Len(todo) /\ DOMAIN todo' = DOMAIN todo
      /\ todo'[1] = k /\ \A j \in DOMAIN todo' : j # 1 => todo'[j] = todo[j]
  <2>1. todo \in Seq(CycleKinds) /\ todo' = <<k>> \o Tail(todo)
    BY DEF Scheduled, Then
  <2> QED
    BY <1>1, <2>1, ThenFacts
<1>3. used \in 0 .. 11
  BY DEF TypeOK, MaxLength
<1>4. Kind = todo[1] /\ 1 \in DOMAIN todo /\ DOMAIN todo = 1 .. Len(todo) /\ Len(todo) \in Nat
  BY AtHead DEF Scheduled
<1>5. unit = "other"
  <2>1. ASSUME unit \in Fixed PROVE FALSE
    <3>1. used + 1 \in 1 .. Len(Plan(unit)) /\ Kind = Plan(unit)[used + 1]
      BY <2>1, AtHead
    <3> QED
      BY <2>1, <3>1, Positions
  <2> QED
    BY <2>1, AtHead
<1>6. /\ used >= 1
      /\ \A j \in DOMAIN todo : todo[j] \notin {"PullFlags", "ResetStack"}
      /\ used + Len(todo) + Growth(Kind, opcode) <= 8
      /\ \A j \in DOMAIN todo : j > 1 => todo[j] \notin Grows
  BY <1>4, <1>5 DEF Scheduled, InTime
<1>7. InTime(used + 1, todo', opcode)
  <2>1. ASSUME NEW a \in Nat, NEW g \in {1, 2}, used + a + g <= 8, a >= 1
        PROVE  /\ used + 1 + a \in 2 .. 8 /\ used + 1 >= 1
               /\ g = 2 => used + 1 + a + 1 <= 8
    BY <1>3, <1>6, <2>1
  <2>2. Len(todo) >= 1
    BY <1>4
  <2>3. /\ used + 1 + Len(todo') \in 2 .. 8 /\ used + 1 >= 1
        /\ Growth(Kind, opcode) = 2 => used + 1 + Len(todo') + 1 <= 8
    BY <1>2, <1>4, <1>6, <2>1, <2>2
  <2>4. \A j \in DOMAIN todo' : todo'[j] \notin {"PullFlags", "ResetStack"}
    BY <1>2, <1>6
  <2>5. ASSUME NEW j \in DOMAIN todo', todo'[j] \in Grows
        PROVE  j = 1 /\ k = "BranchTaken"
    <3>1. j = 1
      BY <1>2, <1>4, <1>6, <2>5
    <3> QED
      BY <1>2, <2>5, <3>1 DEF Grows
  <2>6. k = "BranchTaken" => Growth(Kind, opcode) = 2 /\ Growth(k, opcode) = 1
    BY DEF Growth
  <2>7. \A j \in DOMAIN todo' :
           todo'[j] \in Grows => /\ used + 1 + Len(todo') + Growth(todo'[j], opcode) <= 8
                                 /\ \A i \in DOMAIN todo' : i > j => todo'[i] \notin Grows
    <3> SUFFICES ASSUME NEW j \in DOMAIN todo', todo'[j] \in Grows
                 PROVE  /\ used + 1 + Len(todo') + Growth(todo'[j], opcode) <= 8
                        /\ \A i \in DOMAIN todo' : i > j => todo'[i] \notin Grows
      OBVIOUS
    <3>1. j = 1 /\ k = "BranchTaken" /\ todo'[j] = k
      BY <1>2, <2>5
    <3>2. used + 1 + Len(todo') + Growth(todo'[j], opcode) <= 8
      BY <2>3, <2>6, <3>1
    <3>3. ASSUME NEW i \in DOMAIN todo', i > 1 PROVE todo'[i] \notin Grows
      BY <2>5, <3>3
    <3> QED
      BY <3>1, <3>2, <3>3
  <2> QED
    BY <2>3, <2>4, <2>7 DEF InTime
<1>8. \A j \in DOMAIN todo' : HasResult(todo'[j], opcode)
  BY <1>2 DEF Scheduled, HasResult
<1> QED
  BY <1>2, <1>5, <1>7, <1>8 DEF Scheduled, OnPlan, Fixed, Entries, Instructions

-----------------------------------------------------------------------------
(* Every bus cycle is one of the interrupt logic's. *)
LEMMA CycleAt ==
  ASSUME TypeOK, Scheduled, todo # <<>>
  PROVE  /\ \E n \in Lengths(unit) : used < n
         /\ Kind \notin {"ImpliedRead", "PushFlags", "PullFlags", "ResetStack"} =>
              IAfter(unit, used + 1) = {regI}
         /\ unit = "JAM" => (used + 1 = 11 <=> Tail(todo) = <<>>)
         /\ Kind # "JamHigh" => ~(unit = "JAM" /\ used + 1 = 11)
<1>1. used \in 0 .. 11
  BY DEF TypeOK, MaxLength
<1>2. CASE unit \in Fixed
  <2>1. /\ used + 1 \in 1 .. Len(Plan(unit)) /\ used + Len(todo) = Len(Plan(unit))
        /\ Kind = Plan(unit)[used + 1]
    BY <1>2, AtHead
  <2>2. /\ Kind = "PushFlags" <=> unit \in Entries \cup {"BRK"} /\ used + 1 = 5
        /\ Kind = "PullFlags" <=> unit \in {"PLP", "RTI"} /\ used + 1 = 4
        /\ Kind = "ResetStack" <=> unit = "reset" /\ used + 1 \in 3 .. 5
        /\ unit \in {"CLI", "SEI"} /\ used + 1 = 2 => Kind = "ImpliedRead"
        /\ unit = "JAM" /\ used + 1 = 11 => Kind = "JamHigh"
    BY <1>2, <2>1, Positions
  <2>3. Len(Plan(unit)) \in 1 .. 11 /\ Lengths(unit) = {Len(Plan(unit))}
    BY <1>2, PlanLengths
  <2>4. used < Len(Plan(unit))
    BY <1>1, <2>1, <2>3
  <2>5. ASSUME unit = "JAM" PROVE used + 1 = 11 <=> Tail(todo) = <<>>
    <3>1. Len(Plan(unit)) = 11
      BY <2>5 DEF Plan, Entries
    <3>2. Len(todo) \in Nat \ {0} /\ Len(Tail(todo)) = Len(todo) - 1 /\ Tail(todo) \in Seq(CycleKinds)
      BY TailFacts DEF Scheduled
    <3>3. Tail(todo) = <<>> <=> Len(Tail(todo)) = 0
      BY <3>2
    <3>4. used + Len(todo) = 11
      BY <2>1, <3>1
    <3>5. ASSUME NEW n \in Nat \ {0}, used + n = 11 PROVE used + 1 = 11 <=> n - 1 = 0
      BY <1>1, <3>5
    <3> QED
      BY <3>2, <3>3, <3>4, <3>5
  <2>6. ASSUME Kind \notin {"ImpliedRead", "PushFlags", "PullFlags", "ResetStack"}
        PROVE  IAfter(unit, used + 1) = {regI}
    <3>1. used + 1 = 5 => used + 1 \in 3 .. 5
      OBVIOUS
    <3> QED
      BY <2>2, <2>6, <3>1 DEF IAfter
  <2> QED
    BY <2>2, <2>3, <2>4, <2>5, <2>6
<1>3. CASE unit = "other"
  <2>0. Lengths(unit) = OrdinaryLengths
    BY <1>3 DEF Lengths, Entries
  <2>1. used + 1 \in 2 .. 8 /\ Lengths(unit) = 2 .. 8
    BY <1>3, <2>0, AtHead, CpuLengthsAssumption
  <2>2. used < used + 1
    BY <1>1
  <2> QED
    BY <1>3, <2>1, <2>2 DEF IAfter, Entries
<1> QED
  BY <1>2, <1>3, AtHead

LEMMA NonEmpty ==
  ASSUME NEW S, NEW l \in Seq(S), Len(l) >= 1
  PROVE  l # <<>> /\ 1 \in DOMAIN l
OBVIOUS

LEMMA CycleSimulates ==
  ASSUME TypeOK, Scheduled, CpuCycle
  PROVE  Cycle
<1> USE DEF On, SameState
<1>1. /\ todo # <<>> /\ used' = used + 1
      /\ UNCHANGED <<unit, pollI, pins, pending, history>>
  BY DEF CpuCycle, FetchZeroPage, FetchLow, FetchHigh, IndexZeroPage, PointerLow, PointerHigh,
         Unfixed, ReadOperand, WriteOperand, WriteUnstable, RmwRead, RmwDummy, RmwWrite,
         AccumRead, ImpliedRead, FetchOffset, BranchTaken, BranchFixup, Push, Pull, Discard,
         SkipByte, ResetStack, VectorLow, VectorHigh, JumpHigh, IndirectLow, IndirectHigh
<1>2. regI \in BOOLEAN /\ jammed \in BOOLEAN
  BY DEF TypeOK
<1>3. regI' \in IAfter(unit, used + 1)
  <2>1. CASE ImpliedRead
    <3>1. Kind = "ImpliedRead" /\ regI' = ImpliedI(Op, regI)
      BY <2>1 DEF ImpliedRead
    <3>2. CASE unit \in Fixed
      <4>1. unit \in {"CLI", "SEI", "PLP"} /\ used + 1 = 2
        BY <1>1, <3>1, <3>2, AtHead, Positions
      <4>2. Op = unit
        BY <4>1 DEF Scheduled, Instructions, UnitOf, Op
      <4>3. regI' = (IF unit = "CLI" THEN FALSE ELSE IF unit = "SEI" THEN TRUE ELSE regI)
        BY <3>1, <4>1, <4>2 DEF ImpliedI
      <4>4. IAfter(unit, used + 1)
              = {IF unit = "CLI" THEN FALSE ELSE IF unit = "SEI" THEN TRUE ELSE regI}
        <5>1. ASSUME unit = "CLI" PROVE IAfter(unit, used + 1) = {FALSE}
          <6>1. IAfter("CLI", 2) = {FALSE}
            BY DEF IAfter, Entries
          <6> QED
            BY <4>1, <5>1, <6>1
        <5>2. ASSUME unit = "SEI" PROVE IAfter(unit, used + 1) = {TRUE}
          BY <4>1, <5>2 DEF IAfter
        <5>3. ASSUME unit = "PLP" PROVE IAfter(unit, used + 1) = {regI}
          BY <4>1, <5>3 DEF IAfter, Entries
        <5> QED
          BY <4>1, <5>1, <5>2, <5>3
      <4> QED
        BY <4>3, <4>4
    <3>3. CASE unit = "other"
      <4>1. Op \notin {"CLI", "SEI"}
        BY <3>3 DEF Scheduled, Instructions, UnitOf, Op
      <4> QED
        BY <3>1, <3>3, <4>1 DEF ImpliedI, IAfter, Entries
    <3> QED
      BY <1>1, <3>2, <3>3, AtHead
  <2>2. CASE Push
    <3>1. regI' = (regI \/ MasksInterrupts)
      BY <2>2 DEF Push
    <3>2. CASE Kind = "PushFlags" /\ unit \in Fixed
      <4>1. unit \in Entries \cup {"BRK"} /\ used + 1 = 5
        BY <1>1, <3>2, AtHead, Positions
      <4>2. regI' = TRUE
        BY <3>1, <3>2, <4>1 DEF MasksInterrupts
      <4> QED
        BY <4>1, <4>2 DEF IAfter, Entries
    <3>3. CASE Kind = "PushFlags" /\ unit = "other"
      <4>1. regI' = regI
        BY <1>2, <3>1, <3>3 DEF MasksInterrupts, Entries
      <4> QED
        BY <3>3, <4>1 DEF IAfter, Entries
    <3>4. CASE Kind # "PushFlags"
      <4>1. regI' = regI
        BY <1>2, <3>1, <3>4 DEF MasksInterrupts
      <4>2. Kind \notin {"ImpliedRead", "PushFlags", "PullFlags", "ResetStack"}
        BY <2>2, <3>4 DEF Push
      <4> QED
        BY <1>1, <4>1, <4>2, CycleAt
    <3> QED
      BY <1>1, <3>2, <3>3, <3>4, AtHead
  <2>3. CASE Pull
    <3>1. CASE Kind = "PullFlags"
      <4>1. unit \in {"PLP", "RTI"} /\ used + 1 = 4
        <5>1. ASSUME unit = "other" PROVE FALSE
          <6>1. \A k \in DOMAIN todo : todo[k] # "PullFlags"
            BY <5>1 DEF Scheduled, InTime
          <6> QED
            BY <1>1, <3>1, <6>1, AtHead
        <5> QED
          BY <1>1, <3>1, <5>1, AtHead, Positions
      <4>2. regI' \in BOOLEAN
        BY <2>3, <3>1 DEF Pull, UnpackI, Bit
      <4>3. IAfter(unit, used + 1) = BOOLEAN
        BY <4>1 DEF IAfter
      <4> QED
        BY <4>2, <4>3
    <3>2. CASE Kind # "PullFlags"
      <4>1. regI' = regI /\ Kind \notin {"ImpliedRead", "PushFlags", "PullFlags", "ResetStack"}
        BY <2>3, <3>2 DEF Pull
      <4> QED
        BY <1>1, <4>1, CycleAt
    <3> QED
      BY <3>1, <3>2
  <2>4. CASE ResetStack
    <3>1. Kind = "ResetStack" /\ regI' = (regI \/ Head(Tail(todo)) = "VectorLow")
      BY <2>4 DEF ResetStack
    <3>2. unit = "reset" /\ used + 1 \in 3 .. 5
      <4>1. ASSUME unit = "other" PROVE FALSE
        <5>1. \A k \in DOMAIN todo : todo[k] # "ResetStack"
          BY <4>1 DEF Scheduled, InTime
        <5> QED
          BY <1>1, <3>1, <5>1, AtHead
      <4> QED
        BY <1>1, <3>1, <4>1, AtHead, Positions
    <3>3. Head(Tail(todo)) = Plan("reset")[(used + 1) + 1] /\ Len(Plan("reset")) = 7
      <4>1. unit \in Fixed
        BY <3>2 DEF Fixed
      <4>2. used + Len(todo) = 7 /\ Len(Plan("reset")) = 7
        BY <1>1, <3>2, <4>1, AtHead, ResetPlan
      <4>3. todo \in Seq(CycleKinds) /\ Len(todo) \in Nat
        BY DEF Scheduled
      <4>4. used \in 0 .. 11
        BY DEF TypeOK, MaxLength
      <4>5. ASSUME NEW n \in Nat, used + n = 7 PROVE n - 1 >= 1 /\ 2 \in 1 .. n
        BY <3>2, <4>4, <4>5
      <4>6. Len(todo) - 1 >= 1 /\ 2 \in 1 .. Len(todo)
        BY <4>2, <4>3, <4>5
      <4>7. /\ Tail(todo) \in Seq(CycleKinds) /\ Len(Tail(todo)) = Len(todo) - 1
            /\ DOMAIN Tail(todo) = 1 .. Len(todo) - 1
            /\ \A k \in DOMAIN Tail(todo) : Tail(todo)[k] = todo[k + 1]
        BY <1>1, <4>3, TailFacts
      <4>8. Tail(todo) # <<>> /\ 1 \in DOMAIN Tail(todo)
        BY <4>6, <4>7, NonEmpty
      <4>9. Head(Tail(todo)) = Tail(todo)[1]
        BY <4>7, <4>8, TailFacts
      <4>10. todo[2] = Plan("reset")[used + 2]
        BY <3>2, <4>1, <4>6 DEF Scheduled, OnPlan
      <4>11. (used + 1) + 1 = used + 2 /\ 1 + 1 = 2
        BY <4>4
      <4> QED
        BY <4>2, <4>7, <4>8, <4>9, <4>10, <4>11
    <3>4. Head(Tail(todo)) = "VectorLow" <=> used + 1 = 5
      BY <3>2, <3>3, ResetPlan
    <3> QED
      BY <1>2, <3>1, <3>2, <3>4 DEF IAfter, Entries
  <2>5. CASE ~(ImpliedRead \/ Push \/ Pull \/ ResetStack)
    <3>1. regI' = regI /\ Kind \notin {"ImpliedRead", "PushFlags", "PullFlags", "ResetStack"}
      BY <2>5
         DEF CpuCycle, FetchZeroPage, FetchLow, FetchHigh, IndexZeroPage, PointerLow,
             PointerHigh, Unfixed, ReadOperand, WriteOperand, WriteUnstable, RmwRead, RmwDummy,
             RmwWrite, AccumRead, FetchOffset, BranchTaken, BranchFixup, Discard, SkipByte,
             VectorLow, VectorHigh, JumpHigh, IndirectLow, IndirectHigh
    <3> QED
      BY <1>1, <3>1, CycleAt
  <2> QED
    BY <2>1, <2>2, <2>3, <2>4, <2>5
<1>4. jammed' = (jammed \/ (unit = "JAM" /\ used + 1 = 11))
  <2>1. CASE Discard
    BY <1>1, <2>1, CycleAt DEF Discard
  <2>2. CASE ~Discard
    <3>1. jammed' = jammed /\ Kind # "JamHigh"
      BY <2>2
         DEF CpuCycle, FetchZeroPage, FetchLow, FetchHigh, IndexZeroPage, PointerLow,
             PointerHigh, Unfixed, ReadOperand, WriteOperand, WriteUnstable, RmwRead, RmwDummy,
             RmwWrite, AccumRead, ImpliedRead, FetchOffset, BranchTaken, BranchFixup, Push, Pull,
             SkipByte, ResetStack, VectorLow, VectorHigh, JumpHigh, IndirectLow, IndirectHigh
    <3> QED
      BY <1>1, <1>2, <3>1, CycleAt
  <2> QED
    BY <2>1, <2>2
<1>5. \E n \in Lengths(unit) : used < n
  BY <1>1, CycleAt
<1> QED
  BY <1>1, <1>3, <1>4, <1>5 DEF Cycle, JamLength

-----------------------------------------------------------------------------
(* The list of cycles stays in step with the unit. *)
LEMMA PeekByte ==
  ASSUME CpuTypeOK, NEW addr
  PROVE  Peek(addr) \in Byte
<1>1. 0 \in Byte
  BY ByteRange
<1> QED
  BY <1>1 DEF CpuTypeOK, Peek, At

LEMMA FetchSimulates ==
  ASSUME CpuFetch
  PROVE  FetchAny
<1>1. unit' \in Instructions
  BY DEF CpuFetch, UnitOf, Instructions
<1> QED
  BY <1>1 DEF CpuFetch, FetchAny, Fetch

LEMMA ScheduledInit == CpuInit => Scheduled
<1> SUFFICES ASSUME CpuInit PROVE Scheduled
  OBVIOUS
<1>1. unit = "idle" /\ todo = <<>>
  BY DEF CpuInit, Init
<1>2. <<>> \in Seq(CycleKinds) /\ DOMAIN <<>> = {}
  OBVIOUS
<1> QED
  BY <1>1, <1>2 DEF Scheduled, OnPlan, Fixed, Instructions, Entries

(* A call begins with its own list, or with none before a fetch. *)
LEMMA ScheduledBegin ==
  ASSUME NEW cycles, NEW u \in Entries \cup {"reset", "jammed", "fetch"},
         unit' = u, used' = 0, todo' = cycles,
         cycles = IF u = "fetch" THEN <<>> ELSE Plan(u)
  PROVE  Scheduled'
<1>1. CASE u = "fetch"
  <2>1. <<>> \in Seq(CycleKinds) /\ DOMAIN <<>> = {}
    OBVIOUS
  <2> QED
    BY <1>1, <2>1 DEF Scheduled, OnPlan, Fixed, Instructions, Entries
<1>2. CASE u # "fetch"
  <2>1. Plan(u) \in {EntryCycles, ResetCycles, <<"IdleRead">>}
    BY <1>2 DEF Plan, Entries, EntryCycles, ResetCycles
  <2>2. EntryCycles \in Seq(CycleKinds)
    BY DEF EntryCycles, CycleKinds
  <2>3. ResetCycles \in Seq(CycleKinds)
    BY DEF ResetCycles, CycleKinds
  <2>4. <<"IdleRead">> \in Seq(CycleKinds)
    BY DEF CycleKinds
  <2>5. \A k \in DOMAIN EntryCycles : HasResult(EntryCycles[k], opcode')
    BY DEF EntryCycles, HasResult
  <2>6. \A k \in DOMAIN ResetCycles : HasResult(ResetCycles[k], opcode')
    BY DEF ResetCycles, HasResult
  <2>7. \A k \in DOMAIN <<"IdleRead">> : HasResult(<<"IdleRead">>[k], opcode')
    BY DEF HasResult
  <2>8. /\ todo' \in Seq(CycleKinds)
        /\ \A k \in DOMAIN todo' : HasResult(todo'[k], opcode')
    BY <1>2, <2>1, <2>2, <2>3, <2>4, <2>5, <2>6, <2>7, Zenon
  <2>9. OnPlan'
    <3>1. Len(Plan(u)) = Len(Plan(u)) - 0 /\ \A k \in 1 .. Len(Plan(u)) : 0 + k = k
      <4>1. Len(Plan(u)) \in Nat
        BY <1>2, <2>8
      <4> QED
        BY <4>1
    <3> QED
      BY <1>2, <3>1 DEF OnPlan
  <2> QED
    BY <1>2, <2>8, <2>9 DEF Scheduled, Instructions, Entries
<1> QED
  BY <1>1, <1>2

LEMMA ScheduledFetch ==
  ASSUME CpuTypeOK, CpuFetch
  PROVE  Scheduled'
<1> DEFINE code == opcode'
           l    == InstructionCycles(code)
<1>1. code \in Byte
  BY PeekByte DEF CpuFetch
<1>2. unit' = UnitOf(code) /\ used' = 1 /\ todo' = l
  BY DEF CpuFetch
<1>3. unit' \in Instructions
  BY <1>2 DEF UnitOf, Instructions
<1> HIDE DEF code
<1>4. /\ l \in Seq(CycleKinds) /\ \A k \in DOMAIN l : HasResult(l[k], code)
      /\ UnitOf(code) = "other" => InTime(1, l, code)
  BY InstructionList
<1>5. UnitOf(code) \in Fixed =>
        /\ Len(l) = Len(Plan(UnitOf(code))) - 1
        /\ \A k \in 1 .. Len(l) : l[k] = Plan(UnitOf(code))[1 + k]
  BY <1>1, FixedCycles
<1>6. OnPlan'
  BY <1>2, <1>5 DEF OnPlan
<1> QED
  BY <1>2, <1>3, <1>4, <1>6 DEF Scheduled, Instructions, code

LEMMA ScheduledCycle ==
  ASSUME CpuTypeOK, Scheduled, CpuCycle
  PROVE  Scheduled'
<1> USE DEF On
<1>1. TypeOK
  BY DEF CpuTypeOK
<1>2. todo # <<>> /\ used' = used + 1 /\ unit' = unit /\ opcode' = opcode
  BY DEF CpuCycle, FetchZeroPage, FetchLow, FetchHigh, IndexZeroPage, PointerLow, PointerHigh,
         Unfixed, ReadOperand, WriteOperand, WriteUnstable, RmwRead, RmwDummy, RmwWrite,
         AccumRead, ImpliedRead, FetchOffset, BranchTaken, BranchFixup, Push, Pull, Discard,
         SkipByte, ResetStack, VectorLow, VectorHigh, JumpHigh, IndirectLow, IndirectHigh
<1>3. CASE Done
  BY <1>1, <1>2, <1>3, DoneKeeps
<1>4. ASSUME NEW base, Resolve(base), Kind \in {"FetchHigh", "PointerHigh"}
      PROVE  Scheduled'
  <2>1. CASE PaysFixup(base, U16(base + PostIndex))
    <3>1. Then("Unfixed") /\ Indexed
      BY <1>4, <2>1 DEF Resolve, PaysFixup
    <3>2. Growth(Kind, opcode) = 1 /\ Kind \in Grows
      BY <1>4, <3>1 DEF Growth, Grows, Indexed, Mode
    <3> QED
      BY <1>1, <1>2, <3>1, <3>2, ThenKeeps
  <2>2. CASE ~PaysFixup(base, U16(base + PostIndex))
    BY <1>3, <1>4, <2>2 DEF Resolve
  <2> QED
    BY <2>1, <2>2
<1>5. CASE FetchHigh \/ PointerHigh
  BY <1>4, <1>5 DEF FetchHigh, PointerHigh
<1>6. CASE FetchOffset
  <2>1. CASE Then("BranchTaken")
    <3>1. Kind = "FetchOffset"
      BY <1>6 DEF FetchOffset
    <3>2. Growth(Kind, opcode) = 2 /\ Kind \in Grows
      BY <3>1 DEF Growth, Grows
    <3> QED
      BY <1>1, <1>2, <2>1, <3>1, <3>2, ThenKeeps
  <2> QED
    BY <1>3, <1>6, <2>1 DEF FetchOffset
<1>7. CASE BranchTaken
  <2>1. CASE Then("BranchFixup")
    <3>1. Kind = "BranchTaken"
      BY <1>7 DEF BranchTaken
    <3>2. Growth(Kind, opcode) = 1 /\ Kind \in Grows
      BY <3>1 DEF Growth, Grows
    <3> QED
      BY <1>1, <1>2, <2>1, <3>2, ThenKeeps
  <2> QED
    BY <1>3, <1>7, <2>1 DEF BranchTaken
<1>8. CASE ~(FetchHigh \/ PointerHigh \/ FetchOffset \/ BranchTaken)
  <2>1. Done
    BY <1>8
       DEF CpuCycle, FetchZeroPage, FetchLow, IndexZeroPage, PointerLow, Unfixed, ReadOperand,
           WriteOperand, WriteUnstable, RmwRead, RmwDummy, RmwWrite, AccumRead, ImpliedRead,
           BranchFixup, Push, Pull, Discard, SkipByte, ResetStack, VectorLow, VectorHigh,
           JumpHigh, IndirectLow, IndirectHigh
  <2> QED
    BY <1>3, <2>1
<1> QED
  BY <1>5, <1>6, <1>7, <1>8

LEMMA ScheduledStep ==
  ASSUME CpuTypeOK, Scheduled, [CpuNext]_cpuVars
  PROVE  Scheduled'
<1>1. CASE CpuReset \/ CpuStep
  <2>1. /\ CpuReset => unit' = "reset" /\ used' = 0 /\ todo' = ResetCycles
        /\ CpuJammed => unit' = "jammed" /\ used' = 0 /\ todo' = <<"IdleRead">>
        /\ CpuNmi => unit' = "NMI" /\ used' = 0 /\ todo' = EntryCycles
        /\ CpuIrq => unit' = "IRQ" /\ used' = 0 /\ todo' = EntryCycles
        /\ CpuInstruction => unit' = "fetch" /\ used' = 0 /\ todo' = <<>>
    BY DEF CpuReset, CpuJammed, CpuNmi, CpuIrq, CpuInstruction, Reset, StepJammed, StepNmi,
           StepIrq, StepInstruction, Begin, Start
  <2>2. /\ Plan("reset") = ResetCycles /\ Plan("jammed") = <<"IdleRead">>
        /\ Plan("NMI") = EntryCycles /\ Plan("IRQ") = EntryCycles
    BY DEF Plan, Entries, ResetCycles, EntryCycles
  <2>3. /\ "NMI" \in Entries /\ "IRQ" \in Entries
    BY DEF Entries
  <2> QED
    BY <1>1, <2>1, <2>2, <2>3, ScheduledBegin DEF CpuStep
<1>2. CASE CpuFetch
  BY <1>2, ScheduledFetch
<1>3. CASE CpuCycle
  BY <1>3, ScheduledCycle
<1>4. CASE CpuEnd
  <2>1. unit' = "idle" /\ todo' = <<>>
    BY <1>4 DEF CpuEnd, EndCall, EndInstruction, EndReloadingI, EndReset, EndJammed, Return
  <2>2. <<>> \in Seq(CycleKinds) /\ DOMAIN <<>> = {}
    OBVIOUS
  <2> QED
    BY <2>1, <2>2 DEF Scheduled, OnPlan, Fixed, Instructions, Entries
<1>5. CASE CpuPins \/ UNCHANGED cpuVars
  <2>1. UNCHANGED <<unit, used, todo, opcode>>
    BY <1>5 DEF CpuPins, Pins, SetNmi, SetIrq, control, local, cpuVars, vars
  <2> QED
    BY <2>1 DEF Scheduled, OnPlan
<1> QED
  BY <1>1, <1>2, <1>3, <1>4, <1>5 DEF CpuNext

-----------------------------------------------------------------------------
(* Every byte and address keeps its width. *)
Locals   == [lo : Byte, base : Word, addr : Word, value : Byte]
Accesses == [kind : {"read", "write"}, addr : Word, value : Byte]

Cells ==
  /\ DOMAIN mem \subseteq Word /\ \A addr \in DOMAIN mem : mem[addr] \in Byte
  /\ trace \in Seq(Accesses)

DataOK ==
  /\ regs \in Registers /\ pc \in Word /\ opcode \in Byte
  /\ t \in Locals
  /\ Cells

LEMMA DataIsTyped == CpuTypeOK <=> TypeOK /\ DataOK
BY Zenon DEF CpuTypeOK, DataOK, Cells, Accesses, Locals

LEMMA U16Word == ASSUME NEW n \in Int PROVE U16(n) \in Word
BY WordRange DEF U16

LEMMA PageByte == ASSUME NEW w \in Word PROVE Page(w) \in Byte
BY WordRange, ByteRange DEF Page

LEMMA WordOfWord == ASSUME NEW lo \in Byte, NEW hi \in Byte PROVE WordOf(lo, hi) \in Word
BY WordRange, ByteRange DEF WordOf

LEMMA StackWord == ASSUME NEW s \in Byte PROVE StackAddr(s) \in Word
BY WordRange, ByteRange DEF StackAddr

LEMMA VectorWords ==
  ASSUME NEW v \in {65530, 65532, 65534}
  PROVE  v \in Word /\ v + 1 \in Word
BY WordRange

LEMMA ByteWord == ASSUME NEW b \in Byte PROVE b \in Word /\ b \in Int
BY WordRange, ByteRange

LEMMA WordInt == ASSUME NEW w \in Word PROVE w \in Int
BY WordRange

LEMMA Appended ==
  ASSUME NEW S, NEW l \in Seq(S), NEW e \in S
  PROVE  Append(l, e) \in Seq(S)
OBVIOUS

LEMMA ReadsKeep ==
  ASSUME CpuTypeOK, NEW addr \in Word, Reads(addr)
  PROVE  Cells'
<1>1. [kind |-> "read", addr |-> addr, value |-> Peek(addr)] \in Accesses
  BY PeekByte DEF Accesses
<1>2. trace \in Seq(Accesses)
  BY DEF CpuTypeOK, Accesses
<1>3. trace' \in Seq(Accesses)
  BY <1>1, <1>2, Appended DEF Reads
<1> QED
  BY <1>3 DEF Cells, Reads, CpuTypeOK

LEMMA WritesKeep ==
  ASSUME CpuTypeOK, NEW addr \in Word, NEW value \in Byte, Writes(addr, value)
  PROVE  Cells'
<1>1. [kind |-> "write", addr |-> addr, value |-> value] \in Accesses
  BY DEF Accesses
<1>2. trace \in Seq(Accesses)
  BY DEF CpuTypeOK, Accesses
<1>3. trace' \in Seq(Accesses)
  BY <1>1, <1>2, Appended DEF Writes
<1>4. DOMAIN mem' = DOMAIN mem \cup {addr}
      /\ \A x \in DOMAIN mem' : mem'[x] = IF x = addr THEN value ELSE mem[x]
  BY DEF Writes, Put
<1>5. DOMAIN mem \subseteq Word /\ \A x \in DOMAIN mem : mem[x] \in Byte
  BY DEF CpuTypeOK
<1>6. DOMAIN mem' \subseteq Word
  BY <1>4, <1>5
<1>7. ASSUME NEW x \in DOMAIN mem' PROVE mem'[x] \in Byte
  BY <1>4, <1>5
<1> QED
  BY <1>3, <1>6, <1>7 DEF Cells

LEMMA LocalsKeep ==
  ASSUME CpuTypeOK
  PROVE  /\ t \in Locals
         /\ \A b \in Byte : [t EXCEPT !.lo = b] \in Locals /\ [t EXCEPT !.value = b] \in Locals
         /\ \A w \in Word : [t EXCEPT !.addr = w] \in Locals
         /\ \A x, w \in Word : [t EXCEPT !.base = x, !.addr = w] \in Locals
BY DEF CpuTypeOK, Locals

-----------------------------------------------------------------------------
(* One bus cycle, action by action. *)
LEMMA DataFacts ==
  ASSUME CpuTypeOK
  PROVE  /\ regs \in Registers /\ pc \in Word /\ opcode \in Byte
         /\ regs.a \in Byte /\ regs.x \in Byte /\ regs.y \in Byte /\ regs.s \in Byte
         /\ t.lo \in Byte /\ t.base \in Word /\ t.addr \in Word /\ t.value \in Byte
         /\ U16(pc + 1) \in Word /\ StackAddr(regs.s) \in Word
         /\ U8(regs.s + 1) \in Byte /\ U8(regs.s - 1) \in Byte
         /\ StackAddr(U8(regs.s + 1)) \in Word /\ Page(pc) \in Byte /\ U8(pc) \in Byte
<1>1. regs \in Registers /\ pc \in Word /\ opcode \in Byte
  BY DEF CpuTypeOK
<1>2. regs.a \in Byte /\ regs.x \in Byte /\ regs.y \in Byte /\ regs.s \in Byte
  BY <1>1 DEF Registers
<1>3. t.lo \in Byte /\ t.base \in Word /\ t.addr \in Word /\ t.value \in Byte
  BY DEF CpuTypeOK
<1>4. pc + 1 \in Int /\ pc \in Int
  BY <1>1, WordRange
<1>5. regs.s + 1 \in Int /\ regs.s - 1 \in Int
  BY <1>2, ByteRange
<1> QED
  BY <1>1, <1>2, <1>3, <1>4, <1>5, U16Word, U8Byte, StackWord, PageByte

LEMMA ResolveKeeps ==
  ASSUME CpuTypeOK, NEW base \in Word, Resolve(base)
  PROVE  t' \in Locals
<1>1. PostIndex \in Byte
  <2>1. PostIndex \in {regs.x, regs.y, 0}
    BY DEF PostIndex
  <2>2. 0 \in Byte
    BY ByteRange
  <2> QED
    BY <2>1, <2>2, DataFacts
<1>2. base + PostIndex \in Int
  BY <1>1, ByteRange, WordRange
<1>3. U16(base + PostIndex) \in Word
  BY <1>2, U16Word
<1> QED
  BY <1>3, LocalsKeep DEF Resolve

LEMMA OperandFetchesKeep ==
  ASSUME CpuTypeOK,
         FetchZeroPage \/ FetchLow \/ FetchHigh \/ IndexZeroPage \/ PointerLow \/ PointerHigh
           \/ Unfixed
  PROVE  DataOK'
<1> USE DEF On, SameState, DataOK
<1>1. Peek(pc) \in Byte /\ Peek(pc) \in Word /\ Peek(t.addr) \in Byte
  BY PeekByte, ByteWord
<1>2. CASE FetchZeroPage
  <2>1. Cells'
    BY <1>2, ReadsKeep, DataFacts DEF FetchZeroPage
  <2>2. t' \in Locals
    BY <1>1, <1>2, LocalsKeep DEF FetchZeroPage
  <2> QED
    BY <1>2, <2>1, <2>2, DataFacts DEF FetchZeroPage
<1>3. CASE FetchLow
  <2>1. Cells'
    BY <1>3, ReadsKeep, DataFacts DEF FetchLow
  <2>2. t' \in Locals
    BY <1>1, <1>3, LocalsKeep DEF FetchLow
  <2> QED
    BY <1>3, <2>1, <2>2, DataFacts DEF FetchLow
<1>4. CASE FetchHigh
  <2>1. Cells'
    BY <1>4, ReadsKeep, DataFacts DEF FetchHigh
  <2>2. WordOf(t.lo, Peek(pc)) \in Word
    BY <1>1, DataFacts, WordOfWord
  <2>3. t' \in Locals
    BY <1>4, <2>2, ResolveKeeps DEF FetchHigh
  <2> QED
    BY <1>4, <2>1, <2>3, DataFacts DEF FetchHigh
<1>5. CASE IndexZeroPage
  <2>1. Cells'
    BY <1>5, ReadsKeep, DataFacts DEF IndexZeroPage
  <2>2. PreIndex \in Byte
    <3>1. PreIndex \in {regs.x, regs.y, 0}
      BY DEF PreIndex
    <3>2. 0 \in Byte
      BY ByteRange
    <3> QED
      BY <3>1, <3>2, DataFacts
  <2>3. t.addr + PreIndex \in Int
    BY <2>2, DataFacts, ByteWord, WordInt
  <2>4. U8(t.addr + PreIndex) \in Word
    BY <2>3, U8Byte, ByteWord
  <2>5. t' \in Locals
    BY <1>5, <2>4, LocalsKeep DEF IndexZeroPage
  <2> QED
    BY <1>5, <2>1, <2>5, DataFacts DEF IndexZeroPage
<1>6. CASE PointerLow
  <2>1. Cells'
    BY <1>6, ReadsKeep, DataFacts DEF PointerLow
  <2>2. t' \in Locals
    BY <1>1, <1>6, LocalsKeep DEF PointerLow
  <2> QED
    BY <1>6, <2>1, <2>2, DataFacts DEF PointerLow
<1>7. CASE PointerHigh
  <2> DEFINE addr == U8(t.addr + 1)
  <2>1. addr \in Word
    <3>1. t.addr + 1 \in Int
      BY DataFacts, WordInt
    <3> QED
      BY <3>1, U8Byte, ByteWord
  <2>2. Reads(addr) /\ Resolve(WordOf(t.lo, Peek(addr))) /\ UNCHANGED <<regs, pc, opcode>>
    BY <1>7 DEF PointerHigh
  <2> HIDE DEF addr
  <2>3. Cells'
    BY <2>1, <2>2, ReadsKeep
  <2>4. WordOf(t.lo, Peek(addr)) \in Word
    BY PeekByte, DataFacts, WordOfWord
  <2>5. t' \in Locals
    BY <2>2, <2>4, ResolveKeeps
  <2> QED
    BY <2>2, <2>3, <2>5, DataFacts
<1>8. CASE Unfixed
  <2>1. UnfixedAddr \in Word
    <3>1. U8(t.addr) \in Byte /\ Page(t.base) \in Byte
      BY DataFacts, WordInt, U8Byte, PageByte
    <3> QED
      BY <3>1, WordOfWord DEF UnfixedAddr
  <2>2. Cells'
    BY <1>8, <2>1, ReadsKeep DEF Unfixed
  <2> QED
    BY <1>8, <2>2, DataFacts, LocalsKeep DEF Unfixed, CpuTypeOK
<1> QED
  BY <1>2, <1>3, <1>4, <1>5, <1>6, <1>7, <1>8

LEMMA ResultAtHead ==
  ASSUME CpuTypeOK, Scheduled, todo # <<>>
  PROVE  HasResult(Kind, opcode)
BY AtHead DEF Scheduled, CpuTypeOK

LEMMA OperationsKeep ==
  ASSUME CpuTypeOK, Scheduled,
         ReadOperand \/ WriteOperand \/ WriteUnstable \/ RmwRead \/ RmwDummy \/ RmwWrite
           \/ AccumRead \/ ImpliedRead
  PROVE  DataOK'
<1> USE DEF On, SameState, DataOK
<1>1. t \in Locals
  BY LocalsKeep
<1>2. CASE ReadOperand
  <2> DEFINE addr == IF Mode = "Immediate" THEN pc ELSE t.addr
  <2>1. /\ Reads(addr) /\ regs' = ReadOp(Op, regs, Peek(addr)) /\ pc' = PastOperand
        /\ UNCHANGED <<t, opcode>>
    BY <1>2 DEF ReadOperand
  <2>2. addr \in Word
    BY DataFacts
  <2> HIDE DEF addr
  <2>3. Cells'
    BY <2>1, <2>2, ReadsKeep
  <2>4. regs' \in Registers
    BY <2>1, PeekByte, DataFacts, ReadsTyped
  <2>5. pc' \in Word
    BY <2>1, DataFacts DEF PastOperand
  <2> QED
    BY <1>1, <2>1, <2>3, <2>4, <2>5, DataFacts
<1>3. CASE WriteOperand
  <2>1. Kind = "WriteOperand" /\ todo # <<>>
    BY <1>3 DEF WriteOperand
  <2>2. StoreOp(Op, regs) \in Byte
    BY <2>1, ResultAtHead, DataFacts, StoresTyped DEF HasResult, Op
  <2>3. Cells'
    BY <1>3, <2>2, DataFacts, WritesKeep DEF WriteOperand
  <2> QED
    BY <1>1, <1>3, <2>3, DataFacts DEF WriteOperand
<1>4. CASE WriteUnstable
  <2> DEFINE source == StoreOp(Op, regs)
             value  == And(source, U8(Page(t.base) + 1))
             addr   == IF CrossesPage(t.base, t.addr) THEN WordOf(U8(t.addr), value) ELSE t.addr
  <2>1. Kind = "WriteUnstable" /\ todo # <<>>
    BY <1>4 DEF WriteUnstable
  <2>2. source \in Byte
    BY <2>1, ResultAtHead, DataFacts, StoresTyped DEF HasResult, Op
  <2>3. value \in Byte
    BY AndByte
  <2>4. /\ Writes(addr, value) /\ UNCHANGED <<pc, t, opcode>>
        /\ regs' = (IF Op = "TAS" THEN [regs EXCEPT !.s = source] ELSE regs)
    BY <1>4 DEF WriteUnstable
  <2> HIDE DEF value, source
  <2>5. addr \in Word
    BY <2>3, DataFacts, WordInt, U8Byte, WordOfWord
  <2> HIDE DEF addr
  <2>6. Cells'
    BY <2>3, <2>4, <2>5, WritesKeep
  <2>7. regs' \in Registers
    BY <2>2, <2>4, DataFacts DEF Registers
  <2> QED
    BY <1>1, <2>4, <2>6, <2>7, DataFacts
<1>5. CASE RmwRead
  <2>1. Cells'
    BY <1>5, ReadsKeep, DataFacts DEF RmwRead
  <2>2. t' \in Locals
    BY <1>5, PeekByte, DataFacts, LocalsKeep DEF RmwRead
  <2> QED
    BY <1>5, <2>1, <2>2, DataFacts DEF RmwRead
<1>6. CASE RmwDummy
  <2>1. Cells'
    BY <1>6, ReadsKeep, WritesKeep, DataFacts DEF RmwDummy
  <2> QED
    BY <1>1, <1>6, <2>1, DataFacts DEF RmwDummy
<1>7. CASE RmwWrite
  <2>1. Kind = "RmwWrite" /\ todo # <<>>
    BY <1>7 DEF RmwWrite
  <2>2. RmwOp(Op, regs, t.value)[1] \in Registers /\ RmwOp(Op, regs, t.value)[2] \in Byte
    BY <2>1, ResultAtHead, DataFacts, ModifiesTyped DEF HasResult, Op
  <2>3. Cells'
    BY <1>7, <2>2, DataFacts, WritesKeep DEF RmwWrite
  <2> QED
    BY <1>1, <1>7, <2>2, <2>3, DataFacts DEF RmwWrite
<1>8. CASE AccumRead
  <2> DEFINE result == RmwOp(Op, regs, regs.a)
  <2>1. Kind = "AccumRead" /\ todo # <<>>
    BY <1>8 DEF AccumRead
  <2>2. result[1] \in Registers /\ result[2] \in Byte
    BY <2>1, ResultAtHead, DataFacts, ModifiesTyped DEF HasResult, Op
  <2>3. Cells'
    BY <1>8, DataFacts, ReadsKeep DEF AccumRead
  <2>4. regs' = [result[1] EXCEPT !.a = result[2]] /\ UNCHANGED <<pc, t, opcode>>
    BY <1>8 DEF AccumRead
  <2> HIDE DEF result
  <2>5. regs' \in Registers
    BY <2>2, <2>4 DEF Registers
  <2> QED
    BY <1>1, <2>3, <2>4, <2>5, DataFacts
<1>9. CASE ImpliedRead
  <2>1. Cells'
    BY <1>9, DataFacts, ReadsKeep DEF ImpliedRead
  <2>2. regs' \in Registers
    BY <1>9, DataFacts, ImpliedTyped DEF ImpliedRead
  <2> QED
    BY <1>1, <1>9, <2>1, <2>2, DataFacts DEF ImpliedRead
<1> QED
  BY <1>2, <1>3, <1>4, <1>5, <1>6, <1>7, <1>8, <1>9

LEMMA BranchesKeep ==
  ASSUME CpuTypeOK, FetchOffset \/ BranchTaken \/ BranchFixup
  PROVE  DataOK'
<1> USE DEF On, SameState, DataOK
<1>1. t \in Locals
  BY LocalsKeep
<1>2. CASE FetchOffset
  <2> DEFINE offset == IF Negative(Peek(pc)) THEN Peek(pc) - 256 ELSE Peek(pc)
             target == U16(U16(pc + 1) + offset)
  <2>1. offset \in Int
    BY PeekByte, ByteWord
  <2> HIDE DEF offset
  <2>2. target \in Word
    BY <2>1, DataFacts, WordInt, U16Word
  <2>3. /\ Reads(pc) /\ pc' = U16(pc + 1) /\ t' = [t EXCEPT !.addr = target]
        /\ UNCHANGED <<regs, opcode>>
    BY <1>2 DEF FetchOffset, offset
  <2> HIDE DEF target
  <2>4. Cells'
    BY <2>3, DataFacts, ReadsKeep
  <2>5. t' \in Locals
    BY <2>2, <2>3, DataFacts, LocalsKeep
  <2> QED
    BY <2>3, <2>4, <2>5, DataFacts
<1>3. CASE BranchTaken
  <2>1. Cells'
    BY <1>3, DataFacts, ReadsKeep DEF BranchTaken
  <2> QED
    BY <1>1, <1>3, <2>1, DataFacts DEF BranchTaken
<1>4. CASE BranchFixup
  <2>1. WordOf(U8(t.addr), Page(pc)) \in Word
    BY DataFacts, WordInt, U8Byte, PageByte, WordOfWord
  <2>2. Cells'
    BY <1>4, <2>1, ReadsKeep DEF BranchFixup
  <2> QED
    BY <1>1, <1>4, <2>2, DataFacts DEF BranchFixup
<1> QED
  BY <1>2, <1>3, <1>4

LEMMA StackKeeps ==
  ASSUME CpuTypeOK, Push \/ Pull \/ ResetStack
  PROVE  DataOK'
<1> USE DEF On, SameState, DataOK
<1>1. t \in Locals
  BY LocalsKeep
<1>2. ASSUME NEW s \in Byte PROVE [regs EXCEPT !.s = s] \in Registers
  BY DataFacts DEF Registers
<1>3. Below(regs.s) \in Byte
  BY DataFacts DEF Below
<1>4. CASE Push
  <2>1. PushedByte \in Byte
    <3>1. PushedByte \in {regs.a, Page(pc), U8(pc), Pack(regs, regI, BreakFlag)}
      BY <1>4 DEF Push, PushedByte
    <3> QED
      BY <3>1, DataFacts, PackByte
  <2>2. Cells'
    BY <1>4, <2>1, DataFacts, WritesKeep DEF Push
  <2>3. regs' \in Registers
    <3> DEFINE d == regs.d /\ ~(MasksInterrupts /\ Variant.clearDecimalOnInterrupt)
    <3>1. d \in BOOLEAN
      OBVIOUS
    <3>2. regs' = [regs EXCEPT !.s = Below(regs.s), !.d = d]
      BY <1>4 DEF Push
    <3> HIDE DEF d
    <3> QED
      BY <1>3, <3>1, <3>2, DataFacts DEF Registers
  <2>4. UNCHANGED <<pc, t, opcode>>
    BY <1>4 DEF Push
  <2> QED
    BY <1>1, <2>2, <2>3, <2>4, DataFacts
<1>5. CASE Pull
  <2> DEFINE value == Peek(PulledAddr)
             up    == [regs EXCEPT !.s = U8(regs.s + 1)]
  <2>1. value \in Byte /\ PulledAddr \in Word
    BY PeekByte, DataFacts DEF PulledAddr
  <2>2. up \in Registers
    BY <1>2, DataFacts
  <2>3. /\ Reads(PulledAddr) /\ opcode' = opcode
        /\ regs' \in {LoadA(up, value), Unpack(up, value), up}
        /\ t' \in {[t EXCEPT !.lo = value], t}
        /\ pc' \in {WordOf(t.lo, value), pc}
    BY <1>5 DEF Pull
  <2> HIDE DEF value, up
  <2>4. Cells'
    BY <2>1, <2>3, ReadsKeep
  <2>5. regs' \in Registers
    BY <2>1, <2>2, <2>3, Loads, UnpacksTyped
  <2>6. t' \in Locals /\ pc' \in Word
    BY <1>1, <2>1, <2>3, LocalsKeep, DataFacts, WordOfWord
  <2> QED
    BY <2>3, <2>4, <2>5, <2>6, DataFacts
<1>6. CASE ResetStack
  <2>1. Cells'
    BY <1>6, DataFacts, ReadsKeep DEF ResetStack
  <2>2. regs' \in Registers
    BY <1>2, <1>3, <1>6 DEF ResetStack
  <2>3. UNCHANGED <<pc, t, opcode>>
    BY <1>6 DEF ResetStack
  <2> QED
    BY <1>1, <2>1, <2>2, <2>3, DataFacts
<1> QED
  BY <1>4, <1>5, <1>6

LEMMA JumpsKeep ==
  ASSUME CpuTypeOK,
         Discard \/ SkipByte \/ VectorLow \/ VectorHigh \/ JumpHigh \/ IndirectLow \/ IndirectHigh
  PROVE  DataOK'
<1> USE DEF On, SameState, DataOK
<1>1. t \in Locals
  BY LocalsKeep
<1>2. ASSUME NEW addr PROVE WordOf(t.lo, Peek(addr)) \in Word
  BY PeekByte, DataFacts, WordOfWord
<1>3. Vector \in Word /\ Vector + 1 \in Word
  <2>1. Vector \in {65530, 65532, 65534}
    BY DEF Vector, NmiVector, ResetVector, IrqVector
  <2> QED
    BY <2>1, VectorWords
<1>4. CASE Discard
  <2>1. PICK addr \in {pc, StackAddr(regs.s), 65535, 65534} : Reads(addr)
    BY <1>4 DEF Discard
  <2>2. addr \in Word
    <3>1. 65535 \in Word /\ 65534 \in Word
      BY WordRange
    <3> QED
      BY <2>1, <3>1, DataFacts
  <2>3. Cells'
    BY <2>1, <2>2, ReadsKeep
  <2> QED
    BY <1>1, <1>4, <2>3, DataFacts DEF Discard
<1>5. CASE SkipByte
  <2>1. Cells'
    BY <1>5, DataFacts, ReadsKeep DEF SkipByte
  <2> QED
    BY <1>1, <1>5, <2>1, DataFacts DEF SkipByte
<1>6. CASE VectorLow
  <2>1. Cells'
    BY <1>3, <1>6, ReadsKeep DEF VectorLow
  <2>2. t' \in Locals
    BY <1>6, PeekByte, LocalsKeep DEF VectorLow
  <2> QED
    BY <1>6, <2>1, <2>2, DataFacts DEF VectorLow
<1>7. CASE VectorHigh
  <2>1. Cells'
    BY <1>3, <1>7, ReadsKeep DEF VectorHigh
  <2> QED
    BY <1>1, <1>2, <1>7, <2>1, DataFacts DEF VectorHigh
<1>8. CASE JumpHigh
  <2>1. Cells'
    BY <1>8, DataFacts, ReadsKeep DEF JumpHigh
  <2> QED
    BY <1>1, <1>2, <1>8, <2>1, DataFacts DEF JumpHigh, TargetHigh
<1>9. CASE IndirectLow
  <2>1. Cells'
    BY <1>9, DataFacts, ReadsKeep DEF IndirectLow
  <2>2. t' \in Locals
    BY <1>9, PeekByte, LocalsKeep DEF IndirectLow
  <2> QED
    BY <1>9, <2>1, <2>2, DataFacts DEF IndirectLow
<1>10. CASE IndirectHigh
  <2>1. t.addr + 1 \in Int
    BY DataFacts, WordInt
  <2>2. IndirectHighAddr \in Word
    BY <2>1, DataFacts, U8Byte, U16Word, PageByte, WordOfWord DEF IndirectHighAddr
  <2>3. Cells'
    BY <1>10, <2>2, ReadsKeep DEF IndirectHigh
  <2> QED
    BY <1>1, <1>2, <1>10, <2>3, DataFacts DEF IndirectHigh
<1> QED
  BY <1>4, <1>5, <1>6, <1>7, <1>8, <1>9, <1>10

-----------------------------------------------------------------------------
(* The calls, the fetch and the return; then the two invariants together. *)
LEMMA DataInit == CpuInit => DataOK
<1> SUFFICES ASSUME CpuInit PROVE DataOK
  OBVIOUS
<1>1. PICK m \in Machines : regs = m.regs /\ pc = m.pc /\ mem = m.mem
  BY DEF CpuInit
<1>2. m.regs \in Registers /\ m.pc \in Word
      /\ DOMAIN m.mem \subseteq Word /\ \A addr \in DOMAIN m.mem : m.mem[addr] \in Byte
  BY MachinesAssumption
<1>3. opcode = 0 /\ t = NoLocals /\ trace = <<>>
  BY DEF CpuInit
<1>4. opcode \in Byte /\ t \in Locals
  BY <1>3, ByteRange, WordRange DEF NoLocals, Locals
<1>5. trace \in Seq(Accesses)
  BY <1>3
<1> QED
  BY <1>1, <1>2, <1>4, <1>5 DEF DataOK, Cells

LEMMA DataStep ==
  ASSUME CpuTypeOK, Scheduled, [CpuNext]_cpuVars
  PROVE  DataOK'
<1>1. DataOK
  BY DataIsTyped
<1>2. CASE CpuCycle
  BY <1>2, OperandFetchesKeep, OperationsKeep, BranchesKeep, StackKeeps, JumpsKeep DEF CpuCycle
<1>3. CASE CpuFetch
  <2>1. Cells'
    BY <1>3, DataFacts, ReadsKeep DEF CpuFetch
  <2> QED
    BY <1>3, <2>1, PeekByte, DataFacts, LocalsKeep DEF CpuFetch, DataOK
<1>4. CASE CpuEnd
  <2>1. opcode' = 0 /\ t' = NoLocals /\ trace' = <<>> /\ UNCHANGED data
    BY <1>4 DEF CpuEnd
  <2>2. opcode' \in Byte /\ t' \in Locals
    BY <2>1, ByteRange, WordRange DEF NoLocals, Locals
  <2>3. trace' \in Seq(Accesses)
    BY <2>1
  <2> QED
    BY <1>1, <2>1, <2>2, <2>3 DEF DataOK, Cells, data
<1>5. CASE CpuReset \/ CpuStep \/ CpuPins \/ UNCHANGED cpuVars
  <2>1. UNCHANGED <<data, opcode, t, trace>>
    BY <1>5 DEF CpuReset, CpuStep, CpuJammed, CpuNmi, CpuIrq, CpuInstruction, Start, CpuPins,
                local, cpuVars
  <2> QED
    BY <1>1, <2>1 DEF DataOK, Cells, data
<1> QED
  BY <1>2, <1>3, <1>4, <1>5 DEF CpuNext

(* Every step of the core is a step of the interrupt logic, or none. *)
LEMMA StepSimulates ==
  ASSUME TypeOK, Scheduled, [CpuNext]_cpuVars
  PROVE  [Next]_vars
<1>1. CASE CpuReset \/ CpuStep \/ CpuPins
  BY <1>1 DEF CpuReset, CpuStep, CpuJammed, CpuNmi, CpuIrq, CpuInstruction, CpuPins, Step, Next
<1>2. CASE CpuFetch
  BY <1>2, FetchSimulates DEF Next
<1>3. CASE CpuCycle
  BY <1>3, CycleSimulates DEF Next
<1>4. CASE CpuEnd
  <2>1. EndCall /\ todo = <<>> /\ unit \notin {"idle", "fetch"}
    BY <1>4 DEF CpuEnd
  <2>2. unit \in Fixed \cup {"other"}
    BY <2>1 DEF TypeOK, Units, Fixed
  <2>3. used \in 0 .. 11 /\ Len(todo) = 0
    BY <2>1 DEF TypeOK, MaxLength
  <2>4. CASE unit \in Fixed
    <3>1. Len(Plan(unit)) \in 1 .. 11 /\ Lengths(unit) = {Len(Plan(unit))}
      BY <2>4, PlanLengths
    <3>2. Len(todo) = Len(Plan(unit)) - used
      BY <2>4 DEF Scheduled, OnPlan
    <3>3. used = Len(Plan(unit))
      BY <2>3, <3>1, <3>2
    <3> QED
      BY <2>1, <3>1, <3>3 DEF End, Next
  <2>5. CASE unit = "other"
    <3>1. used + Len(todo) \in 2 .. 8
      BY <2>5 DEF Scheduled, InTime
    <3>2. used \in 2 .. 8
      BY <2>3, <3>1
    <3>3. Lengths(unit) = 2 .. 8
      BY <2>5, CpuLengthsAssumption DEF Lengths, Entries
    <3> QED
      BY <2>1, <3>2, <3>3 DEF End, Next
  <2> QED
    BY <2>2, <2>4, <2>5
<1>5. CASE UNCHANGED cpuVars
  BY <1>5 DEF cpuVars
<1> QED
  BY <1>1, <1>2, <1>3, <1>4, <1>5 DEF CpuNext

LEMMA CpuInvariant == CpuSpec => [](CpuTypeOK /\ Scheduled)
<1>1. CpuInit => CpuTypeOK /\ Scheduled
  <2>1. CpuInit => Init
    BY DEF CpuInit
  <2> QED
    BY <2>1, TypeOKInit, DataInit, DataIsTyped, ScheduledInit
<1>2. CpuTypeOK /\ Scheduled /\ [CpuNext]_cpuVars => (CpuTypeOK /\ Scheduled)'
  <2> SUFFICES ASSUME CpuTypeOK, Scheduled, [CpuNext]_cpuVars
               PROVE  CpuTypeOK' /\ Scheduled'
    OBVIOUS
  <2>1. TypeOK
    BY DataIsTyped
  <2>2. TypeOK'
    BY <2>1, StepSimulates, TypeOKStep
  <2>3. DataOK' /\ Scheduled'
    BY DataStep, ScheduledStep
  <2>4. CpuTypeOK' <=> TypeOK' /\ DataOK'
    BY Zenon DEF CpuTypeOK, DataOK, Cells, Accesses, Locals
  <2> QED
    BY <2>2, <2>3, <2>4
<1> QED
  BY <1>1, <1>2, PTL DEF CpuSpec

(* Whatever the program, the memory and the pins, every register, address  *)
(* and byte of the core keeps its width.                                   *)
THEOREM CpuTypeCorrect == CpuSpec => []CpuTypeOK
BY CpuInvariant, PTL

(* The cycle-by-cycle core, executing any program of any of the 256        *)
(* opcodes, moves the pins, the latches, I and jammed_ only as the         *)
(* abstract interrupt logic does: what is proved of that logic holds of    *)
(* the core.                                                               *)
THEOREM CpuImplementsInterrupts == CpuSpec => Spec
<1>1. CpuInit => Init
  BY DEF CpuInit
<1>2. CpuTypeOK /\ Scheduled /\ [CpuNext]_cpuVars => [Next]_vars
  BY StepSimulates, DataIsTyped
<1> QED
  BY <1>1, <1>2, CpuInvariant, PTL DEF CpuSpec, Spec

(* The NMI guarantee, of the core itself: no edge is lost. *)
THEOREM CpuLosesNoNmi == CpuSpec => []NmiNotLost
BY CpuImplementsInterrupts, NmiCorrect

(* The mask and its delay, of the core itself. *)
THEOREM CpuMasksIrq == CpuSpec => IrqMask
BY CpuImplementsInterrupts, IrqMaskCorrect

(* The rest of what module Interrupts promises, of the core itself: every  *)
(* latch is justified, an IRQ handler is entered on a line that was up and *)
(* without delay, JAM holds until reset(), whose handler runs first.       *)
THEOREM CpuKeepsGuarantees ==
  CpuSpec => []LatchesJustified /\ IrqNotStale /\ IrqPrompt /\ JamUntilReset /\ ResetRunsHandler
BY CpuImplementsInterrupts, JustifiedCorrect, IrqNotStaleCorrect, IrqPromptCorrect, JamCorrect,
   ResetRunsHandlerCorrect
=============================================================================
