SPECIFICATION Spec
CONSTANTS
  Procs = {p1, p2}
  Cryptos = {btc}
  Fiats = {eur}
  CryptoProviders <- MCCryptoProviders
  ForexProviders <- MCForexProviders
  Ttl = 2
  StaleLimit = 3
  Timeout = 1
SYMMETRY ProcSymmetry
INVARIANTS TypeOK RateAge AnswerInTime
