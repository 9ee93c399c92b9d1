CONSTANT MaxUpdates = 3
SPECIFICATION FairSpec
PROPERTY SnapshotReturns
CHECK_DEADLOCK FALSE
