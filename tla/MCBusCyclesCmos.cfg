SPECIFICATION InstructionSpec
CONSTANTS
  Variant <- MCCmos
  Machines <- MCMachines
  OrdinaryLengths <- MCOrdinaryLengths
INVARIANTS CyclesAsPublished WriteCycles
PROPERTY IsaImplemented
CHECK_DEADLOCK FALSE
