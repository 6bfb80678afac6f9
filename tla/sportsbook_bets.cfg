SPECIFICATION FairSpec
CONSTANTS
  u1 = u1
  r1 = r1
  r2 = r2
  o1 = o1
  h1 = h1
  h2 = h2
  NoRef = NoRef
  NoWallet = NoWallet
  Wallets = {u1}
  BetRefs = {r1}
  Refs <- MCRefs
  Requests = {}
  Amounts = {1, 2, 3, 4, 6}
  Scale = 1
  Outcomes = {o1}
  Odds = {2, 3}
  BetCalls <- OneBet
  Handlers = {h1, h2}
  Schedulers = {s1}
  AdminResults = {}
  FinalResults = TRUE
  Deposit = 3
  MaxFaults = 1
INVARIANTS TypeOK StakeBacked PaidAsRecorded
PROPERTIES StatusForward EveryBetAnswered DecidedBetsPaid
CHECK_DEADLOCK FALSE
