\* Two pins and two signals, references, barriers, and a type that no signal has.
CONSTANTS
    Pins = {p1, p2}
    Signals = {s1, s2}
    Types = {"bit", "s64"}
    SigTypes = {"bit"}
    Values = {0, 1}
    Zero = 0
    BarrierArgs = {1}
    MaxRefs = 1
    None = None
SPECIFICATION Spec
INVARIANTS TypeOK CountsRight OneDriver PointersAgree OutputKept ReadBarrierInherited
SYMMETRY MCSymmetry
