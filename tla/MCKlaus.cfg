SPECIFICATION KlausSpec
CONSTANTS
  Variant <- MCNmos
  Images <- MCImages
  StartPc <- MCStart
  SuccessPc <- MCSuccess
  MaxInstructions = 6
PROPERTY TrapIsBranchToSelf
CHECK_DEADLOCK FALSE
