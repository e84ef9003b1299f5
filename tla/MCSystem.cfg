SPECIFICATION SystemSpec
CONSTANTS
  Variant <- MCNmos
  Machines <- MCMachines
  OrdinaryLengths <- MCOrdinaryLengths
  Data <- MCData
  Latch <- MCLatch
  MaxEvents = 2
  MaxTicks = 1
INVARIANTS EventsInOrder CriticalSectionHolds
PROPERTY EverythingServed
