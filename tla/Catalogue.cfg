CONSTANTS
  br1 = br1  br2 = br2  t1 = t1  t2 = t2  b1 = b1  d1 = d1  r1 = r1  v1 = v1
  w1 = w1  w2 = w2
  None = None
  Branches = {br1, br2}
  Templates = {t1, t2}
  Buses = {b1}
  Drivers = {d1}
  Routes = {r1}
  Trips = {v1}
  Workers = {w1, w2}
  Grids <- TwoGrids
  Listed <- OneList
SPECIFICATION Spec
SYMMETRY Symmetry
CHECK_DEADLOCK FALSE
INVARIANTS
  IInv
  TripsStayInBranch
  OneSeatPerLabel
