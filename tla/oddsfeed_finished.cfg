SPECIFICATION FairSpec
CONSTANTS
  g1 = g1
  g2 = g2
  p1 = p1
  p2 = p2
  Games = {g1}
  Odds = {2}
  OpeningOdds = 2
  Vocabulary <- MCVocabulary
  Fragile = {}
  Syncers = {p1}
  MaxChanges = 2
  MaxFaults = 0
PROPERTIES FinishedNoticed
