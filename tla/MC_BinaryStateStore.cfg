\* Three identities for two records: one left by a former firmware can fill
\* the store, whichever of the two firmwares that was.
SPECIFICATION Spec
CONSTANTS
  a = a
  b = b
  c = c
  Ids = {a, b, c}
  Firmwares = {{a, b}, {c}}
  NoId = NoId
  MaxRecords = 2
  LegacyMaxRecords = 1
INVARIANTS TypeOK UniqueRecords CommittedIsDurable NoLostWakeup
PROPERTIES RecordsKept ImplementsDurableState RequestResolves
