SPECIFICATION Spec
CONSTANTS
  c1 = c1
  c2 = c2
  Agents = {a1}
  Commissions <- MCCommissions
  Fare <- MCFare
  Rates <- MCRates
  Days <- MCDays
  Periods <- MCPeriods
  Requests = {w1, w2, w3}
  None = None
SYMMETRY Symmetry
INVARIANTS
  IInv
  PeriodsDisjoint
  AmountsMatchLines
PROPERTIES
  SettledIsFinal
