SPECIFICATION Spec
CONSTANTS
  Expenses = {e1, e2}
  Adjustments = {j1, j2}
  Amounts = {1, 2}
  Requests = {w1, w2, w3}
  None = None
SYMMETRY Symmetry
INVARIANTS
  IInv
  ApprovedIsInOutbox
PROPERTIES
  AdjustmentsStay
CHECK_DEADLOCK FALSE
