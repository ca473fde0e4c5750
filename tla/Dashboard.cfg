CONSTANTS
  t1 = t1
  t2 = t2
  Tab <- TwoTabs
  Slots = 2
  Capacity = 3
  ListLimit = 2
  MaxAdded = 4
  MaxReplays = 2
  MaxRestarts = 1
SPECIFICATION Spec
INVARIANTS TypeOK StoreIsNewest ListingIsSound PollingNeverStops OneReplayPerTab
PROPERTIES ShowsLatest
