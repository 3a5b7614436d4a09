CONSTANTS
    n1 = n1  n2 = n2  b1 = b1  b2 = b2  m1 = m1  m2 = m2  t1 = t1  t2 = t2
    None = None
    Nodes = {n1, n2}
    BatchIds = {b1, b2}
    Models = {m1, m2}
    Texts = {t1, t2}
    MaxUnits = 2
    MaxCanaries = 1
    LeaseTicks = 1
    MaxUnitAttempts = 2
    LeasesBound = 4
    QueueBound = 3
    Plant <- Spread
SPECIFICATION MCSpec
INVARIANTS TypeOK NoUnitLost BatchStateAgrees FailedForCause FieldsFitState LeaseFollowsLoop
PROPERTIES ResultsAreFinal NoLeaseStolen ImplementsLedger
SYMMETRY Symmetric
