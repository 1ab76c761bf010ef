SPECIFICATION FairSpec
CONSTANTS
  Seats = {s1}
  Users = {u1}
  Bookings = {b1, b2}
  Keys = {k1}
  Workers = {w1, w2}
  Prices = {1}
  Fees = {0}
  PatchStatuses = {"OPEN", "FULL", "DEPARTED", "COMPLETED"}
  MaxVersion = 1
  None = None
INVARIANTS
  IInv
PROPERTIES
  TripHeldStill
  SalesFrozenAfterDeparture
  ExpiredHoldEnds
CHECK_DEADLOCK FALSE
