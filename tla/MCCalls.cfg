SPECIFICATION CallsSpec
CONSTANTS
  Variant <- MCNmos
  Machines <- MCMachines
  OrdinaryLengths <- MCOrdinaryLengths
  MaxMoves = 3
  MaxResets = 1
  MaxFrames = 6
INVARIANTS StackDiscipline ReturnsToCaller ReturnAddressesIntact
PROPERTIES Spec MainLoopResumes IsaImplemented
