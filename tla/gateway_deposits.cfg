SPECIFICATION Spec
CONSTANTS
  x = x
  u1 = u1
  n1 = n1
  n2 = n2
  n3 = n3
  n4 = n4
  n5 = n5
  n6 = n6
  n7 = n7
  s1 = s1
  s2 = s2
  usdt = usdt
  doge = doge
  None = None
  Requests = {q1, q2}
  IPs = {x}
  Users = {u1}
  IPOf <- MCIPOf
  UserOf <- MCUserOf
  RPS = 1
  ConfBurst = 0
  Expiry = 2
  MaxRetries = 1
  MaxDelay = 1
  MaxClock = 4
  Deliveries <- MCDeliveries
  Nonces = {n1, n2, n3, n4, n5, n6, n7}
  SysNos = {s1, s2, s0}
  NoSysNo = s0
  BetRefs = {s1}
  Pairs = {usdt, doge}
  SupportedPairs = {usdt}
  Addresses = {d1, d2}
  MinDeposit = 2
  MaxDeposit = 3
  DailyDeposit = None
  Window = 2
  FutureTolerance = 1
SYMMETRY RequestSymmetry
INVARIANTS TypeOK WindowBound CreditedOnce CreditsJustified AckedIsCredited ToldIsStored
CHECK_DEADLOCK FALSE
