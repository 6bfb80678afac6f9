SPECIFICATION Spec
CONSTANTS
  u1 = u1
  r1 = r1
  r2 = r2
  o1 = o1
  h1 = h1
  h2 = h2
  NoRef = NoRef
  NoWallet = NoWallet
  Wallets = {u1}
  BetRefs = {r1, r2}
  Refs <- MCRefs
  Requests = {}
  Amounts = {1, 2, 3, 4, 6}
  Scale = 1
  Outcomes = {o1}
  Odds = {2}
  BetCalls <- TwoBets
  Handlers = {h1}
  Schedulers = {}
  AdminResults = {"won", "lost", "cancelled"}
  FinalResults = FALSE
  Deposit = 3
  MaxFaults = 2
INVARIANTS PaidOnce PayoutBacked
CHECK_DEADLOCK FALSE
