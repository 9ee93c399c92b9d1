\* stream_write(), and a reader that does not copy.
SPECIFICATION Spec
CONSTANTS
    Asked = 33
    WriteCounts = {9, 64}
    ReadCounts = {27}
    WriteCalls = {"copy"}
    ReadCalls = {"vector", "peek", "flush"}
    Labels = 5
INVARIANT UnreadIntact
