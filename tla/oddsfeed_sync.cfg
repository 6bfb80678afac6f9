SPECIFICATION FairSpec
CONSTANTS
  g1 = g1
  g2 = g2
  p1 = p1
  p2 = p2
  Games = {g1, g2}
  Odds = {2, 3}
  OpeningOdds = 2
  Vocabulary <- MCVocabulary
  Fragile = {g2}
  Syncers = {p1}
  MaxChanges = 3
  MaxFaults = 1
INVARIANTS TypeOK ResultsTrue RowsLinked
PROPERTIES NoStepBack LiveConverges EveryGameOffered
