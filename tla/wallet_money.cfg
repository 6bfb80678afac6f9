SPECIFICATION Spec
CONSTANTS
  w1 = w1
  r1 = r1
  r2 = r2
  q1 = q1
  NoRef = NoRef
  NoWallet = NoWallet
  Wallets = {w1}
  Refs = {r1, r2}
  Requests = {q1}
  Amounts = {1, 5, 7}
  Scale = 2
  Procs = {p1, p2, p3}
  MaxCalls = 5
  Faults = TRUE
  Calls <- MoneyMix
SYMMETRY ProcSymmetry
INVARIANTS TypeOK NoWalletConflict AckedIsPosted ChainedRows PostedOnce
  NoOverdraft RowsExplainBalances
CHECK_DEADLOCK FALSE
