SPECIFICATION Spec
CONSTANTS
  m1 = m1
  r1 = r1
  Mqtts = {m1}
  NoMqtt = NoMqtt
  Rests = {r1}
  NoRest = NoRest
INVARIANTS RestartApplies
