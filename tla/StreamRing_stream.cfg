\* The non-copying calls, peek and flush, on the smallest ring the code allocates.
SPECIFICATION FairSpec
CONSTANTS
    Asked = 33
    WriteCounts = {9, 64}
    ReadCounts = {27}
    WriteCalls = {"vector"}
    ReadCalls = {"vector", "peek", "flush"}
    Labels = 5
INVARIANTS TypeOK UnreadIntact InOrder SpacesApart
PROPERTIES BytesMove
