\* Every line of up to two arguments, well-formed or not.
CONSTANTS
  Text <- MCText
  MaxArgs = 2
  atoi <- MCatoi
  SizeT = 1000000
  Uint32 = 60000
  HasRocksDB = TRUE
  None = None
SPECIFICATION Spec
INVARIANT RunsAsAsked
CHECK_DEADLOCK FALSE
