CONSTANTS
    Nodes = {n1}
    BatchIds = {b1}
    m1 = m1
    Models = {m1, m2}
    Texts = {t1}
    None = None
    MaxUnits = 1
    MaxCanaries = 0
    LeaseTicks = 1
    MaxUnitAttempts = 1
    Plant <- Spread
    NodeModel <- AllServeM1
    BatchSize = 1
    MaxLeasePerRequest = 64
    Wedged = {}
    MaxConns = 2
    AttemptsBound = 2
    LeasesBound = 4
SPECIFICATION FleetSpec
INVARIANT ServedByItsModel
