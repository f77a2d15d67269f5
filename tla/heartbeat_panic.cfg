CONSTANTS
    n1 = n1
    n2 = n2
    n3 = n3
    n4 = n4
    n5 = n5
    a = a
    b = b
    c = c
    NoOp = NoOp
    Nil = Nil
    Nodes = {n1, n2, n3, n4}
    LeaderFor <- Leaders4
    Requests = {a}
    CHECKPOINT = 4
    MaxView = 0
    MaxSeq = 2
    MaxOutstanding = 1
    Clients = {n4}
    Droppable = {}
    Links <- Heartbeats
SPECIFICATION Spec
CHECK_DEADLOCK FALSE
INVARIANTS NeverPanics
