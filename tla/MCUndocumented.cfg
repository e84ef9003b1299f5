SPECIFICATION InstructionSpec
CONSTANTS
  Variant <- MCCmos
  Machines <- MCMachines
  OrdinaryLengths <- MCOrdinaryLengths
INVARIANT UndocumentedAreNops
CHECK_DEADLOCK FALSE
