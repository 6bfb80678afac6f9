SPECIFICATION RetrySpec
CONSTANTS
  u1 = u1
  r1 = r1
  r2 = r2
  o1 = o1
  h1 = h1
  h2 = h2
  NoRef = NoRef
  NoWallet = NoWallet
  Wallets = {u1}
  BetRefs = {r1}
  Refs <- MCRefs
  Requests = {}
  Amounts = {1, 2, 3, 4, 6}
  Scale = 1
  Outcomes = {o1}
  Odds = {2}
  BetCalls <- OneBet
  Handlers = {h1}
  Schedulers = {s1}
  AdminResults = {"won"}
  FinalResults = TRUE
  Deposit = 3
  MaxFaults = 1
PROPERTIES WinningsCredited
CHECK_DEADLOCK FALSE
