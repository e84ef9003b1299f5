SPECIFICATION Spec
CONSTANT Variant <- MCVariant
INVARIANTS AddExact SubtractFlags DecimalExact DecimalAdder
  ArrDoubles Rotations
CHECK_DEADLOCK FALSE
