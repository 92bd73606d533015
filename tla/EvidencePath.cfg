SPECIFICATION Spec
CONSTANTS
    MaxLength = 4
    Documents <- MCDocuments
    Configurations <- MCConfigurations
    Observations = {o1, o2}
    EvidenceLimit <- MCEvidenceLimit
    MaxRuns = 2
    Cases <- MCCases
    Controls <- MCControls
INVARIANTS
    PathTypeOK
    SegmentsCoverSource
    ContextReplaysQuote
    PublishedExactlyWhenSound
    ContextBudgetKept
    EvaluationHonest
CHECK_DEADLOCK FALSE
