\* Two studies, one with two items, and one upload at a time.
SPECIFICATION Spec
CONSTANTS
    a = a  b = b  demo = demo  a1 = a1  a2 = a2  b1 = b1
    sample = sample  file = file  None = None
    Studies = {a, b}
    DemoStudies = {demo}
    DemoStudy = demo
    Evidence = {a1, a2, b1}
    DemoItem = sample
    StudyOf <- MCStudyOf
    EvidenceLists <- MCEvidenceLists
    Uploads = {file}
    MaxPending = 3
INVARIANTS WorkbenchTypeOK EvidenceOfSelection SourcesOfSelection ContextOfActive SpinnersAreBacked SelectionIsListed
