CONSTANTS
    a = a
    w = w
    p = p
    r = r
    Nodes = {1, 2, 3}
    Calls = {a, w, p, r}
    From <- FromNodes
    To <- ToNodes
    Kind <- Methods
    ProofSets <- SomeProofs
    Room = 1
    Retries = 10
    Heard <- Asked
    Droppable = {2}
SPECIFICATION FairSpec
CHECK_DEADLOCK FALSE
INVARIANTS RejectedForCause
PROPERTIES RefinesDelivery EveryCallEnds
