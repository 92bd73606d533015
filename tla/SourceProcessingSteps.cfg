\* An exception outside the list is recorded as a failure of the last step.
SPECIFICATION Spec
CONSTANTS
    s1 = s1  p1 = p1  p2 = p2  p3 = p3  a = a  b = b
    Sources = {s1}
    Profiles = {p1, p2}
    Segments = {a, b}
    Requests = {r1, r2}
    NoRun = NoRun
    Unparseable = Unparseable
    Parse <- MCParseStable
    Extractions <- MCGoodExtractions
    DbMayFail = FALSE
    MayCrash = FALSE
SYMMETRY RequestSymmetry
INVARIANTS SucceededStepsRan
