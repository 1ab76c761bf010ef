SPECIFICATION Spec
CONSTANTS
  cash = cash
  sales = sales
  e1 = e1
  e2 = e2
  e3 = e3
  Entries <- MCEntries
  Accounts <- MCAccounts
  Lines <- MCLines
  Periods = {p1, p2}
  Sources = {x1}
  Keys = {k1, k2}
  Requests = {w1, w2}
  None = None
SYMMETRY Symmetry
INVARIANTS
  IInv
  ReversedOnce
  ReplayedReversalHappened
  TrialBalance
PROPERTIES
  ClosedPeriodIsFinal
CHECK_DEADLOCK FALSE
