SPECIFICATION Spec
CONSTANTS
  Ids = {i1, i2}
  Cams = {c1}
  Workers = {}
  MaxOffers = 2
  OfferMayFail = FALSE
  ReOffer = FALSE
  i1 = i1
  i2 = i2
  c1 = c1
SYMMETRY Symmetry
INVARIANT NoLateCallback
CHECK_DEADLOCK FALSE
