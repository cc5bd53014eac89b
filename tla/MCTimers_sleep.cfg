SPECIFICATION Spec
CONSTANTS
  Second = 3
  Fine = 2
  IntRange = 16
  Delays <- Some
  MaxTimers = 2
  MaxTime = 9
INVARIANTS TypeOK Punctual WaitsAsTold IdsAreUnique
