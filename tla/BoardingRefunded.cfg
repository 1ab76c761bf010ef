SPECIFICATION Spec
CONSTANTS
  Seats = {s1}
  Users = {u1}
  Bookings = {b1}
  Keys = {k1}
  Workers = {w1, w2}
  Prices = {1}
  Fees = {0}
  PatchStatuses = {}
  MaxVersion = 0
  None = None
SYMMETRY Symmetry
INVARIANTS
  EndedTicketNeverBoards
CHECK_DEADLOCK FALSE
