CONSTANTS
    n1 = n1
    n2 = n2
    n3 = n3
    n4 = n4
    n5 = n5
    a = a
    b = b
    c = c
    NoOp = NoOp
    Nil = Nil
    Nodes = {n1, n2, n3, n4, n5}
    LeaderFor <- Leaders5
    Requests = {a, b}
    CHECKPOINT = 4
    MaxView = 1
    MaxSeq = 2
    MaxOutstanding = 0
    Clients = {n1, n5}
    Droppable = {}
    Links <- LostQuorum
SPECIFICATION Spec
CHECK_DEADLOCK FALSE
INVARIANTS OneRequestPerNumber
