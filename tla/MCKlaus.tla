------------------------------- MODULE MCKlaus ------------------------------
(***************************************************************************)
(* Two images that reach their success trap at $0600, by a jump and by a   *)
(* dispatch through the stack.  The second one's first return lands on     *)
(* itself.                                                                 *)
(*                                                                         *)
(*   0400  JMP $0600        0400  LDX #$05                                 *)
(*                          0402  TXS                                      *)
(*   0600  JMP $0600        0403  RTS       to $0403, then to $0600        *)
(***************************************************************************)
EXTENDS Klaus

MCNmos == Nmos6502
MCStart   == \h0400
MCSuccess == \h0600

MCTrap == Load(Cleared, \h0600, <<\h4C, \h00, \h06>>)
MCImages == {
  Load(MCTrap, \h0400, <<\h4C, \h00, \h06>>),
  Load(Load(MCTrap, \h0400, <<\hA2, \h05, \h9A, \h60>>),
       \h0106, <<\h02, \h04, \hFF, \h05>>) }
=============================================================================
