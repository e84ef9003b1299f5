SPECIFICATION FairScriptSpec
CONSTANTS
  Addresses <- MCAddresses
  Core <- MCCore
  Opcodes <- MCOpcodes
  Batch = 2
  Suites <- MCSuites
  MaxInterrupts = 1
  MaxFailures = 1
INVARIANTS VerdictsIndependent AllPassSound
PROPERTY RetryHeals
