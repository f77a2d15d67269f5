CONSTANTS
    x = x
    k1 = k1
    k2 = k2
    p = p
    b = b
    h1 = h1
    h2 = h2
    Nil = Nil
    NoKey = NoKey
    None = None
    Nodes = {p, b}
    Primary = p
    Keys = {k1, k2}
    Initial <- NoKeys
    Requests <- IssueAndReplace
    Handlers = {h1, h2}
    Asks <- AskBackup
    REQUESTS = 1
    RESPONSES = 2
    CHECKPOINT = 2
    MaxSeq = 3
    Trusting = {b}
    Droppable = {b}
    Halting = {b}
SPECIFICATION FairSpec
CHECK_DEADLOCK FALSE
INVARIANTS TypeOK CommittedMeansApplied NoStaleWaiter
PROPERTIES UpdatesGoOn EveryRequestAnswered
