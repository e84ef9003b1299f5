SPECIFICATION CallsSpec
CONSTANTS
  Variant <- MCNmos
  Machines <- MCPowerOnMachines
  OrdinaryLengths <- MCOrdinaryLengths
  MaxMoves = 2
  MaxResets = 2
  MaxFrames = 6
INVARIANT ResetSetsStackPointer
