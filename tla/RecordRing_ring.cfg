\* Records of two, four and six units of a ring of eight, and one too large for it.
CONSTANTS
    RingSize = 64
    RecSizes = {12, 28, 44, 64}
    Payloads = {5}
    StaleWords <- MCStaleWords
SPECIFICATION FairSpec
INVARIANTS TypeOK RecordsIntact ReaderHasOldest EmptyIsHeadEqTail WriteSpaceSuffices
PROPERTIES ImplementsFIFO RecordsReachReader WriteSucceeds
