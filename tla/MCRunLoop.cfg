SPECIFICATION FairRunSpec
CONSTANTS
  OrdinaryLengths <- MCOrdinaryLengths
  Budgets <- MCBudgets
INVARIANTS TypeOK NmiNotLost NmiNotInvented LatchesJustified RunBounded
PROPERTIES IrqNotStale IrqMask IrqPrompt JamUntilReset ResetRunsHandler RunOvershoot RunReturns NmiServiced
