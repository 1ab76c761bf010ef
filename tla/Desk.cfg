SPECIFICATION DeskSpec
CONSTANTS
  Nothing = Nothing
  Desks = {d1, d2}
  Seats = {a, b}
  Keys = {k1, k2, k3}
  Calls = {c1, c2}
SYMMETRY Symmetry
CHECK_DEADLOCK FALSE
INVARIANTS
  DeskInv
  ShownIsAsked
PROPERTIES
  NotRefusedByItself
