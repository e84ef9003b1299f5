-------------------------------- MODULE Calls --------------------------------
(***************************************************************************)
(* A running program on module Cpu: subroutines, BRK, interrupts between   *)
(* any two instructions, resets.  The stack of the 6502 is bytes in page   *)
(* one; here it is compared with a stack of frames, one for each JSR, BRK  *)
(* and interrupt entry that has not returned.                              *)
(***************************************************************************)
EXTENDS Cpu

CONSTANTS
  MaxMoves,    \* how often a device moves a pin or the host resets
  MaxResets,   \* how often the host resets
  MaxFrames    \* how deep calls may nest; a program that nests deeper stops

ASSUME BoundsAssumption == MaxMoves \in Nat /\ MaxResets \in Nat /\ MaxFrames \in Nat

VARIABLES
  frames,      \* the calls not yet returned from, the innermost last
  moves, resets

callVars == <<cpuVars, frames, moves, resets>>

CallsInit == CpuInit /\ frames = <<>> /\ moves = 0 /\ resets = 0

(* A frame: where to return to, and the machine of the caller. *)
Frame(kind, back) == [kind |-> kind, back |-> U16(back), regs |-> before.regs, i |-> before.i]

Top == frames[Len(frames)]
Pop == SubSeq(frames, 1, Len(frames) - 1)

(* The end of a call of step() or reset() opens a frame or closes one. *)
CallsEnd ==
  /\ CpuEnd
  /\ frames' =
       CASE unit \in Entries -> Append(frames, Frame("interrupt", before.pc))
         [] unit = "BRK"     -> Append(frames, Frame("interrupt", before.pc + 2))
         [] unit = "other" /\ Op = "JSR" -> Append(frames, Frame("call", before.pc + 3))
         [] unit = "RTI" \/ (unit = "other" /\ Op = "RTS") ->
              IF frames = <<>> THEN frames ELSE Pop
         [] unit = "reset"   -> <<>>
         [] OTHER            -> frames
  /\ UNCHANGED <<moves, resets>>

CallsPins ==
  /\ moves < MaxMoves /\ moves' = moves + 1
  /\ CpuPins
  /\ <<nmiLine, irqLine>>' # <<nmiLine, irqLine>>
  /\ UNCHANGED <<frames, resets>>

CallsReset ==
  /\ resets < MaxResets /\ resets' = resets + 1
  /\ moves < MaxMoves /\ moves' = moves + 1
  /\ CpuReset
  /\ UNCHANGED frames

CallsRun ==
  /\ Len(frames) < MaxFrames
  /\ CpuStep \/ CpuFetch \/ CpuCycle
  /\ UNCHANGED <<frames, moves, resets>>

CallsNext == CallsEnd \/ CallsPins \/ CallsReset \/ CallsRun

(* The host keeps stepping, and a call runs to its end. *)
CallsFairness == WF_callVars(CallsRun) /\ WF_callVars(CallsEnd)

CallsSpec == CallsInit /\ [][CallsNext]_callVars /\ CallsFairness

-----------------------------------------------------------------------------
(* How far s lies below the S of the outermost caller; the bytes of a frame, *)
(* which hold its return address and, of an interrupt, its flags.          *)
Depth(s) == U8(frames[1].regs.s - s)
Size(f)  == IF f.kind = "call" THEN 2 ELSE 3
Slots(f) == {StackAddr(U8(f.regs.s - k)) : k \in 0 .. Size(f) - 1}

(* What a return asks of the program: it has pulled all it pushed since the *)
(* frame opened, and a handler has put A, X and Y back.                     *)
Balanced ==
  /\ Top.kind = (IF Op = "RTS" THEN "call" ELSE "interrupt")
  /\ before.regs.s = U8(Top.regs.s - Size(Top))
  /\ Op = "RTI" =>
       before.regs.a = Top.regs.a /\ before.regs.x = Top.regs.x /\ before.regs.y = Top.regs.y

(* The discipline of a program that leaves the stack to its calls: page one *)
(* keeps room for an interrupt entry, returns are balanced, other           *)
(* instructions leave S below the open frames, and stores miss the frames.  *)
(* It binds the program and not the core: what JSR, BRK, the entries and    *)
(* the returns do to S and to memory, and what the pushes write, is free.   *)
StackDiscipline ==
  frames # <<>> =>
    /\ unit = "idle" => Depth(regs.s) <= 252
    /\ unit \in Instructions /\ todo = <<>> =>
         /\ Op \in {"RTS", "RTI"} => Balanced
         /\ Op \notin {"JSR", "BRK", "RTS", "RTI"} =>
              Depth(regs.s) >= Depth(Top.regs.s) + Size(Top)
         /\ ShapeOf(opcode) \in {"Write", "UnstableStore", "Rmw"} =>
              \A k \in DOMAIN trace, j \in DOMAIN frames :
                trace[k].kind = "write" => trace[k].addr \notin Slots(frames[j])

(* A subroutine comes back to the instruction after its JSR, with the S of  *)
(* the caller; an interrupt handler or a BRK comes back with every flag, I  *)
(* and D included, and to the very instruction it interrupted (BRK: past    *)
(* its padding byte).  So does the handler that was itself interrupted.     *)
ReturnsToCaller ==
  unit \in Instructions /\ todo = <<>> /\ Op \in {"RTS", "RTI"} /\ frames # <<>> =>
    /\ Top.kind = (IF Op = "RTS" THEN "call" ELSE "interrupt")
    /\ pc = Top.back /\ regs.s = Top.regs.s
    /\ Op = "RTI" => regs = Top.regs /\ regI = Top.i

(* The bytes of page one between the S of the outermost caller and S are    *)
(* the return addresses of the open frames, innermost first: nothing the    *)
(* program, a dummy cycle or an interrupt does in between damages them.     *)
ReturnAddressesIntact ==
  \A k \in 1 .. Len(frames) :
    LET s    == frames[k].regs.s
        back == IF frames[k].kind = "call" THEN U16(frames[k].back - 1) ELSE frames[k].back
    IN  unit = "idle" =>
          /\ Peek(StackAddr(s)) = Page(back)
          /\ Peek(StackAddr(U8(s - 1))) = U8(back)

(* Interrupts and subroutines nest properly and the main program goes on:   *)
(* once the pins are quiet the processor gets back to the main loop, with   *)
(* no frame left open.                                                      *)
MainLoopResumes == []<>(frames = <<>> \/ irqLine)

(* registers.hpp: S is "undefined at power-on, $FD after reset".            *)
ResetSetsStackPointer == unit = "reset" /\ todo = <<>> => regs.s = 253

(* operations.hpp, of JAM: "the address bus parks on the vector pins".      *)
JamParksOnVectors ==
  unit = "jammed" => \A k \in DOMAIN trace : trace[k].addr \in {65534, 65535}
=============================================================================
