CONSTANTS
  p1 = p1
  p2 = p2
  a1 = a1
  a2 = a2
  d1 = d1
  t1 = t1
  t2 = t2
  t3 = t3
  t4 = t4
  Process = {p1}
  Action = {a1, a2}
  Device = {d1}
  NoDevice = NoDevice
  DeviceOf <- OneDevice
  Token = {t1, t2, t3}
  NoToken = NoToken
  Nobody = Nobody
  Quiet = Quiet
  Legacy = {}
  Shower = {a1}
  Faults = {}
SPECIFICATION Spec
PROPERTIES RescheduleKeepsRestoreClaimable
CHECK_DEADLOCK FALSE
