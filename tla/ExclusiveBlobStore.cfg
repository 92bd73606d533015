\* Five calls that may raise or be killed.
SPECIFICATION Spec
CONSTANTS
    Writers = {w1, w2, w3, w4, w5}
    WriteMayFail = TRUE
    MayCrash = TRUE
SYMMETRY WriterSymmetry
INVARIANTS ExclusiveTypeOK OneOwner CleanedUp StoredIsReadable
