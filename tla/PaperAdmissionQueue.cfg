SPECIFICATION Spec
CONSTANTS
  e1 = e1
  e2 = e2
  k1 = k1
  k2 = k2
  r1 = r1
  r2 = r2
  market = market
  root = root
  Episodes = {e1, e2}
  Keys = {k1, k2}
  Market <- MCMarket
  Lineage <- MCLineage
  Radars = {r1, r2}
  MaxOpen = 2
  None = None
SYMMETRY Symmetry
INVARIANTS QueueTypeOK OneFillPerEpisode OneTradePerKey NoDuplicateExposure TradesAreFollowed
PROPERTY EndedEpisodesStay
