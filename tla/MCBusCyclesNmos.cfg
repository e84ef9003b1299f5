SPECIFICATION InstructionSpec
CONSTANTS
  Variant <- MCNmos
  Machines <- MCMachines
  OrdinaryLengths <- MCOrdinaryLengths
INVARIANTS CpuTypeOK CyclesAsPublished NoStrayAccess WriteCycles AsDisassembled
PROPERTY IsaImplemented
CHECK_DEADLOCK FALSE
