CONSTANTS
    Nodes = {n1}
    m1 = m1
    Models = {m1}
    NodeModel <- AllServeM1
    Requests = {s1}
    Pieces = 2
    None = None
    MaxConns = 2
SPECIFICATION Spec
INVARIANT WholeAnswer
CHECK_DEADLOCK FALSE
