\* Two keys, two WALs, and up to two requests at a time, their addresses
\* used again; any key with any sequence number in any order.
CONSTANTS
  Key = {k1, k2}
  Blob = {b1}
  None = None
  Request = {r1, r2}
  WAL = {w1, w2}
  MaxSeq = 2
SPECIFICATION FairSpec
INVARIANTS
  TypeOK
  NoDanglingRequest
PROPERTIES
  RequestsReleased
  ImplementsBlobStore
