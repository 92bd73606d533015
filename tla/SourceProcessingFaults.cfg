\* What survives database errors and crashes.
SPECIFICATION Spec
CONSTANTS
    s1 = s1  p1 = p1  p2 = p2  p3 = p3  a = a  b = b
    Sources = {s1}
    Profiles = {p1, p2, p3}
    Segments = {a, b}
    Requests = {r1, r2, r3}
    NoRun = NoRun
    Unparseable = Unparseable
    Parse <- MCParseFails
    Extractions <- MCExtractions
    DbMayFail = TRUE
    MayCrash = TRUE
SYMMETRY RequestSymmetry
INVARIANTS OneActiveRunPerKey CitationsResolve
PROPERTIES SegmentsAreImmutable
