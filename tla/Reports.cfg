SPECIFICATION ReportsSpec
CONSTANTS
  Bookings = {b1}
  Expenses = {e1}
  Fare = 1
  Earned = 1
  Cost = 2
  Departs = 3
  DayLength = 2
  Today = 1
  MaxAdjusted = 1
  SeriesDays = 2
  MaxDays = 2
  Lag = 1
  NoDay = NoDay
SYMMETRY Symmetry
INVARIANTS
  ReportsInv
  FiguresAreBracketed
  SeriesIsBracketed
