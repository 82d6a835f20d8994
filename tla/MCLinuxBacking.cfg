SPECIFICATION FairSpec
CONSTANTS
    Names = {n1, n2, n3}
    Graphs <- MCGraphs
INVARIANTS TypeOK NoReentry NothingLost NothingSkipped
PROPERTIES ImplementsBacking Terminates
CHECK_DEADLOCK FALSE
