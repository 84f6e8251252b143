\* Six bytes of buffer, five of message.
SPECIFICATION OpenPortSpec
CONSTANTS
  RxBytes = 6
  RawBytes = 5
  Lines <- MCLines
  CommandNames = {"lamp"}
  MaxLines = 1
CHECK_DEADLOCK FALSE
INVARIANTS WholeLines
