------------------------------ MODULE MCSystem ------------------------------
(***************************************************************************)
(* A program for the device.  The IRQ vector leads to the last three bytes *)
(* below the data register; the load indexes across the page before it.    *)
(*                                                                         *)
(*   0400  CLI               0500  PHA            IRQ handler              *)
(*   0401  SEI               0501  TXA                                     *)
(*   0402  LDX $10           0502  PHA                                     *)
(*   0404  CPX $10           0503  ASL $C001      acknowledge              *)
(*   0406  BNE $0410         0506  LDX $10                                 *)
(*   0408  CLI               0508  LDY #1                                  *)
(*   0409  JMP $0401         050A  LDA $BFFF,Y    take the event           *)
(*   0410  JAM               050D  STA $20,X                               *)
(*   BFFD  JMP $0500         050F  INX                                     *)
(*                           0510  STX $10                                 *)
(*   0600  INC $11  (NMI)    0512  PLA                                     *)
(*   0602  RTI               0513  TAX                                     *)
(*                           0514  PLA                                     *)
(*                           0515  RTI                                     *)
(***************************************************************************)
EXTENDS System

MCNmos == Nmos6502
MCOrdinaryLengths == 2 .. 8
MCData  == \hC000
MCLatch == \hC001

MCCode ==
  Load(Load(Load(Load(Load(Cleared,
    \h0400, <<\h58, \h78, \hA6, \h10, \hE4, \h10, \hD0, \h08, \h58, \h4C, \h01, \h04>>),
    \h0410, <<\h02>>),
    \h0500, <<\h48, \h8A, \h48, \h0E, \h01, \hC0, \hA6, \h10, \hA0, \h01, \hB9, \hFF, \hBF,
              \h95, \h20, \hE8, \h86, \h10, \h68, \hAA, \h68, \h40>>),
    \h0600, <<\hE6, \h11, \h40>>),
    \hBFFD, <<\h4C, \h00, \h05>>)

MCMachines ==
  { [regs |-> [a |-> 0, x |-> 0, y |-> 0, s |-> 0,
               n |-> FALSE, v |-> FALSE, d |-> FALSE, z |-> FALSE, c |-> FALSE],
     i |-> FALSE, pc |-> 0,
     mem |-> SetVector(SetVector(SetVector(MCCode,
               NmiVector, \h0600), ResetVector, \h0400), IrqVector, \hBFFD)] }
=============================================================================
