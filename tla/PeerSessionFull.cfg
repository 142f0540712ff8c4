SPECIFICATION Spec
CONSTANTS
  Ids = {i1, i2, i3}
  Cams = {c1, c2}
  Workers = {w1}
  MaxOffers = 3
  OfferMayFail = TRUE
  ReOffer = TRUE
  i1 = i1
  i2 = i2
  i3 = i3
  c1 = c1
  c2 = c2
  w1 = w1
SYMMETRY Symmetry
INVARIANT TypeOK
INVARIANT PeerOwnedOnce
INVARIANT CallbackPeerAlive
INVARIANT NoSourceLeak
 
CHECK_DEADLOCK FALSE
