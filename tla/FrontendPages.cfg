SPECIFICATION Spec
CONSTANTS
    None = None
    Items = {i1, i2}
    MaxCalls = 2
    MaxPage = 2
SYMMETRY Symmetry
INVARIANTS
    DoneOnce
    CalmListFresh
    
    OwnPanels
    ToldTruth
    SignInsKeptApart
CHECK_DEADLOCK FALSE
