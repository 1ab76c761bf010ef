SPECIFICATION FairSpec
CONSTANTS
  Events = {1, 2}
  Workers = {w1}
  Requests = {r1}
  MaxAttempts = 2
  NoAmount = {2}
  Requeuable = {1}
  None = None
INVARIANTS
  PostedOnce
  IInv
PROPERTIES
  ImplementsBooks
  TriedToTheEnd
