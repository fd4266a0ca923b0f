\* Every line of up to five arguments, well-formed or not.
CONSTANTS
  Text <- MCText
  MaxArgs = 5
  atoi <- MCatoi
  SizeT = 1000000
  Uint32 = 60000
  HasRocksDB = TRUE
  None = None
SPECIFICATION Spec
INVARIANTS
  TypeOK
  RefusesExactlyMalformed
  LastValueCounts
CHECK_DEADLOCK FALSE
