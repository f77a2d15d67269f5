CONSTANTS
    n1 = n1
    n2 = n2
    n3 = n3
    n4 = n4
    n5 = n5
    a = a
    b = b
    c = c
    NoOp = NoOp
    Nil = Nil
    Nodes = {n1, n2, n3, n4, n5}
    LeaderFor <- Leaders5
    Requests = {a}
    CHECKPOINT = 4
    MaxView = 1
    MaxSeq = 2
    MaxOutstanding = 1
    Clients = {n1}
    Droppable = {n5}
    Links <- ViewChanges
SPECIFICATION Spec
CHECK_DEADLOCK FALSE
INVARIANTS TypeOK ViewCertificate ReproposalCertificate
PROPERTIES QuietWhileChanging ProgressMonotonic DownAsksForNoView CommitsCarriedOver
