SPECIFICATION Spec
CONSTANTS
  Ids = {i1, i2}
  Cams = {c1, c2}
  Workers = {}
  MaxOffers = 2
  OfferMayFail = TRUE
  ReOffer = FALSE
  i1 = i1
  i2 = i2
  c1 = c1
  c2 = c2
SYMMETRY Symmetry
INVARIANT NoLockCycle
CHECK_DEADLOCK FALSE
