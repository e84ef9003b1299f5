----------------------------- MODULE MCRunLoop ------------------------------
(* A finite instance of RunLoop.  The budgets are none, and one of more    *)
(* cycles than two ordinary instructions take but fewer than one JAM.      *)
EXTENDS RunLoop

MCOrdinaryLengths == {2, 3}
MCBudgets == {0, 7}
=============================================================================
