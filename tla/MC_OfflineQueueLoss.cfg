\* What publish() accepts is kept until it is sent.
SPECIFICATION Spec
CONSTANTS
  loop = loop
  transport = transport
  m1 = m1
  m2 = m2
  m3 = m3
  Producers = {loop, transport}
  Transport = transport
  Msgs = {m1, m2, m3}
  NoMsg = NoMsg
  QueueLen = 2
CHECK_DEADLOCK FALSE
INVARIANTS AcceptedIsKept
