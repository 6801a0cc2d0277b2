\* Three requests of one to three callers around two window boundaries.
CONSTANTS
  t1 = t1
  ip1 = ip1
  ip2 = ip2
  Request = {r1, r2, r3}
  Address = {ip1, ip2}
  Token = {t1}
  NoToken = NoToken
  Proxy = ip2
  Proxies = 2
  Caller <- MCCaller
  AnonLimit = 1
  AuthLimit = 2
  Window = 2
  Horizon = 4
  MaxMishaps = 1
SYMMETRY Interchangeable
SPECIFICATION Spec
INVARIANTS WithinBudget RefusalIsEarned WaitingHelps
CHECK_DEADLOCK FALSE
