CONSTANTS
    n1 = n1
    n2 = n2
    n3 = n3
    n4 = n4
    n5 = n5
    a = a
    b = b
    c = c
    NoOp = NoOp
    Nil = Nil
    Nodes = {n1, n2, n3, n4}
    LeaderFor <- Leaders4
    Requests = {a, b}
    CHECKPOINT = 4
    MaxView = 0
    MaxSeq = 3
    MaxOutstanding = 0
    Clients = {n4}
    Droppable = {}
    Links <- OneCutOff
SPECIFICATION Spec
CHECK_DEADLOCK FALSE
INVARIANTS Consistency
