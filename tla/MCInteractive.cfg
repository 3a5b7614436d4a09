CONSTANTS
    Nodes = {n1}
    m1 = m1
    Models = {m1}
    NodeModel <- AllServeM1
    Requests = {s1}
    Pieces = 2
    None = None
    MaxConns = 3
SPECIFICATION FairSpec
INVARIANTS TypeOK NoneLeftHanging NoRepeats
PROPERTY RequestsEnd
CHECK_DEADLOCK FALSE
