SPECIFICATION Spec
CONSTANTS
  Ids = {i1, i2}
  Cams = {c1}
  Workers = {}
  MaxOffers = 2
  OfferMayFail = TRUE
  ReOffer = TRUE
  i1 = i1
  i2 = i2
  c1 = c1
SYMMETRY Symmetry
INVARIANT NoPeerMismatch
CHECK_DEADLOCK FALSE
