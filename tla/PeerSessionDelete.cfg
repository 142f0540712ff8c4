SPECIFICATION FairSpec
CONSTANTS
  Ids = {i1, i2}
  Cams = {c1}
  Workers = {w1, w2}
  MaxOffers = 3
  OfferMayFail = FALSE
  ReOffer = TRUE
  i1 = i1
  i2 = i2
  c1 = c1
  w1 = w1
  w2 = w2
INVARIANT NoSilentCutOff
INVARIANT OnlyStopRaces
PROPERTY CapturesShared
PROPERTY LoopReturns
PROPERTY SourceFreed
CHECK_DEADLOCK FALSE
