CONSTANTS
    None = None
    BatchIds = {"b1"}
    UnitIds = {1, 2}
    Texts = {"t1", "t2"}
    MaxFailures = 5
    MaxRestarts = 1
SPECIFICATION CommandSpec
INVARIANTS CommandTypeOK FileMatchesExit CancelledMeansStopped
PROPERTY CommandEnds
CHECK_DEADLOCK FALSE
