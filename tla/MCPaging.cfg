\* Walks over a list of up to five rows, with pages of one or two, and bad arguments.
SPECIFICATION Spec
CONSTANTS
    Keys = {1, 2, 3, 4, 5}
    Dates = {1, 5}
    Searches = {{1, 2, 3, 4, 5}, {1, 2, 4, 5}}
    Pages = {0, 1, 2}
    PerPages <- PerPagesMC
INVARIANTS
    TypeOK
    WalkIsComplete
    RepeatsAreArrivals
    NextHasRows
CHECK_DEADLOCK FALSE
