\* Two entries, two set-ups each, one change of the data of each, one restart.
SPECIFICATION StoreSpec
CONSTANTS
    Entry = {a, b}
    Flow = Flow
    Key = {k1, k2, k3}
    NoKey = NoKey
    NoFile = NoFile
    AtOnce = FALSE
    MaxSetUps = 2
    MaxVersion = 2
    MaxPending = 2
    MaxCrashes = 1
SYMMETRY Symmetry
INVARIANTS
    StoreTypeOK
    
    SavedAtRest

    
CHECK_DEADLOCK FALSE
