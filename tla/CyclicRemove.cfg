\* Every vector of up to four requests, with every subset of them completed.
CONSTANTS
  Request = {r1, r2, r3, r4}
  MaxRequests = 4
  SizeModulus <- MCSizeModulus
SPECIFICATION FairScanSpec
INVARIANTS
  ScanTypeOK
  UncompletedKept
  CompletedReleased
PROPERTY ScanEnds
CHECK_DEADLOCK FALSE
