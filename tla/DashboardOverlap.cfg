CONSTANTS
  t1 = t1
  t2 = t2
  Tab <- OneTab
  Slots = 2
  Capacity = 2
  ListLimit = 2
  MaxAdded = 2
  MaxReplays = 1
  MaxRestarts = 0
SPECIFICATION Spec
INVARIANTS PollingDoesNotOverlap
