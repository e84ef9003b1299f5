---------------------------- MODULE MCArithmetic ----------------------------
(* Every input of the arithmetic, on the NMOS part: decimalMode is the only *)
(* trait it looks at, and both variants set it.                             *)
EXTENDS Arithmetic

MCVariant == Nmos6502
=============================================================================
