SPECIFICATION Spec
CONSTANTS
    Procs = {p}
    RtApp = rt
    Names = {a, h}
    Halmem = {h}
    Owners = {o1, o2}
    OtherKeys = {x}
    MaxRings = 3
    MaxShmems = 3
    MaxCount = 2
    MaxOthers = 1
    MaxRefs = 2
    None = None
SYMMETRY RingSymmetry
INVARIANTS AttachedKept MarksRight
