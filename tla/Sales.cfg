SPECIFICATION SalesSpec
CONSTANTS
  Seats = {s1, s2}
  Users = {u1, u2}
  Bookings = {b1, b2}
  Keys = {k1}
  Workers = {w1, w2}
  Prices = {1}
  Fees = {0, 6000, 10000}
  PatchStatuses = {}
  MaxVersion = 0
  None = None
SYMMETRY Symmetry
INVARIANTS
  SeatSoldOnce
  BooksAgree
  ReplayedCancelHappened
  CancelledTripHasNoSale
PROPERTIES
  HoldRespected
  BookingEndsOnce
  ImplementsInventory
CHECK_DEADLOCK FALSE
