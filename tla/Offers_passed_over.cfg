SPECIFICATION OffersSpec
CONSTANTS
  None = None
  Titles = {b1, b2}
  Ticks = {t1}
  Answerers = {"card", "page"}
  MaxOffers = 2
  MaxGrants = 2
  MaxFailures = 0
  MaxRestarts = 0
INVARIANT FreeSlotMeansNoOffer
CHECK_DEADLOCK FALSE
