\* The ledger refinement, over every outcome of the graph and with crashes.
SPECIFICATION Spec
CONSTANTS
    s1 = s1  p1 = p1  p2 = p2  p3 = p3  a = a  b = b
    Sources = {s1}
    Profiles = {p1, p2}
    Segments = {a, b}
    Requests = {r1, r2, r3}
    NoRun = NoRun
    Unparseable = Unparseable
    Parse <- MCParseDrift
    Extractions <- MCExtractions
    DbMayFail = FALSE
    MayCrash = TRUE
SYMMETRY RequestSymmetry
INVARIANTS FailClosed SourceStatusBacked EarlyFailuresAreLocated
PROPERTIES ImplementsLedger
