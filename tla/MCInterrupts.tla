---------------------------- MODULE MCInterrupts ----------------------------
(* A finite instance of Interrupts: instructions of 2 and 3 cycles stand   *)
(* for the ordinary ones, the rest keep their lengths.                     *)
EXTENDS Interrupts

MCOrdinaryLengths == {2, 3}
=============================================================================
