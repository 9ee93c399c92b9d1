CONSTANT MaxUpdates = 6
SPECIFICATION FairSpec
INVARIANTS TypeOK WholeMessages LatestTaken
PROPERTIES NeverOlder FlipReturns
CHECK_DEADLOCK FALSE
