SPECIFICATION Spec
CONSTANTS
  Seats = {s1}
  Users = {u1}
  Bookings = {b1}
  Keys = {k1}
  Workers = {w1, w2}
  Prices = {1}
  Fees = {0}
  PatchStatuses = {"DEPARTED"}
  MaxVersion = 1
  None = None
PROPERTIES
  SaleOnlyWhileOpen
CHECK_DEADLOCK FALSE
