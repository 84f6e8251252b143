SPECIFICATION Spec
CONSTANTS
  a = a
  b = b
  c = c
  Ids = {a, b}
  Firmwares = {{a}, {b}, {a, b}}
  NoId = NoId
  MaxRecords = 2
  LegacyMaxRecords = 1
PROPERTIES ConfirmedRecordSurvives
