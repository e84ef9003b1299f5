SPECIFICATION CallsSpec
CONSTANTS
  Variant <- MCNmos
  Machines <- MCJamMachines
  OrdinaryLengths <- MCOrdinaryLengths
  MaxMoves = 1
  MaxResets = 1
  MaxFrames = 6
INVARIANT JamParksOnVectors
