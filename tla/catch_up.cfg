CONSTANTS
    n1 = n1
    n2 = n2
    n3 = n3
    n4 = n4
    n5 = n5
    a = a
    b = b
    c = c
    NoOp = NoOp
    Nil = Nil
    Nodes = {n1, n2, n3}
    LeaderFor <- Leaders3
    Requests = {a, b}
    CHECKPOINT = 1
    MaxView = 0
    MaxSeq = 3
    MaxOutstanding = 1
    Clients = {n2}
    Droppable = {}
    Links <- TwoCheckpoints
SPECIFICATION Spec
CHECK_DEADLOCK FALSE
SYMMETRY Operations
INVARIANTS ReachedCheckpoint CaughtUpBehindPeer ResentAsProposed AgreementInFirstView
PROPERTIES CheckpointMonotonic RefinesLedger AppliedOnce
