CONSTANTS
    RingSize = 64
    RecSizes = {12, 28}
    Payloads = {5}
    StaleWords <- MCStaleWords
SPECIFICATION FlushReaderSpec
INVARIANT ShiftNeedsRecord
