------------------------------- MODULE MCCalls -------------------------------
(***************************************************************************)
(* A program with a subroutine, a critical section, a BRK and handlers for *)
(* the three vectors, and a stack that wraps from $0100 to $01FF.          *)
(*                                                                         *)
(*   0400  CLI              0500  PHA        IRQ and BRK handler           *)
(*   0401  JSR $0410        0501  LDA #$5A                                 *)
(*   0404  BRK, padding     0503  STA $0110  in page one, off the frames   *)
(*   0406  JMP $0401        0506  PLA                                      *)
(*   0410  PHP              0507  RTI                                      *)
(*   0411  SEI              0600  CLI        NMI handler, interruptible    *)
(*   0412  PLP              0601  RTI                                      *)
(*   0413  RTS              0700  JAM           not reached from $0400     *)
(***************************************************************************)
EXTENDS Calls

MCNmos == Nmos6502
MCOrdinaryLengths == 2 .. 8

MCCode ==
  Load(Load(Load(Load(Load(Cleared,
    \h0400, <<\h58, \h20, \h10, \h04, \h00, \hEA, \h4C, \h01, \h04>>),
    \h0410, <<\h08, \h78, \h28, \h60>>),
    \h0500, <<\h48, \hA9, \h5A, \h8D, \h10, \h01, \h68, \h40>>),
    \h0600, <<\h58, \h40>>),
    \h0700, <<\h02>>)

MCProgram ==
  SetVector(SetVector(SetVector(MCCode, NmiVector, \h0600), ResetVector, \h0400), IrqVector, \h0500)

MCMachine(s, start) ==
  [regs |-> [a |-> 1, x |-> 0, y |-> 0, s |-> s,
             n |-> FALSE, v |-> FALSE, d |-> TRUE, z |-> FALSE, c |-> TRUE],
   i |-> TRUE, pc |-> start, mem |-> MCProgram]

(* The stack begins where its third byte wraps. *)
MCMachines == { MCMachine(2, \h0400) }

(* The S that Registers is constructed with; the host resets twice. *)
MCPowerOnMachines == { MCMachine(0, \h0400) }

(* The JAM opcode at $0700. *)
MCJamMachines == { MCMachine(2, \h0700) }
=============================================================================
