SPECIFICATION Spec
CONSTANTS
    Desc = {d1, d2, d3, d4}
    RtComps = {c}
    RemoteComps = {r}
    Insts = {i}
    Pins = {p}
    Functs = {f}
    Signals = {s}
    Groups = {g, k}
    OnChange = {g}
    Pids = {h1, h2, u}
    RtAppPid = a
    HtPids = {h1, h2}
    MaxRefs = 2
    DeleteThroughOther = FALSE
    None = None
SYMMETRY DescSymmetry
INVARIANTS TalkTypeOK OwnersValid MembersHoldSignals ServedKept
