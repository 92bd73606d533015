\* Three uploads of one or two contents, of which one may fail and all may die.
SPECIFICATION FairSpec
CONSTANTS
    u1 = u1  u2 = u2  u3 = u3  c1 = c1  c2 = c2
    Uploads = {u1, u2, u3}
    Contents = {c1, c2}
    Faulty <- MCFaulty
    MayCrash = TRUE
INVARIANTS BlobTypeOK BlobsAreWhole SourcesHaveBytes PutsAreIdempotent TempFilesRemoved
PROPERTIES UploadsEnd
