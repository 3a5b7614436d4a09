CONSTANTS
    Nodes = {n1, n2}
    BatchIds = {b1}
    m1 = m1
    Models = {m1}
    Texts = {t1}
    None = None
    MaxUnits = 1
    MaxCanaries = 0
    LeaseTicks = 1
    MaxUnitAttempts = 2
    Plant <- Spread
    NodeModel <- AllServeM1
    BatchSize = 1
    MaxLeasePerRequest = 64
    Wedged = {n1}
    MaxConns = 1
    AttemptsBound = 2
    LeasesBound = 4
SPECIFICATION MCFairFleetSpec
PROPERTIES BatchesFinish LeasesEnd
