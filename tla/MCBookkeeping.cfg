CONSTANTS
    good = good  bad = bad  b1 = b1
    p1 = p1  p2 = p2  long1 = long1  long2 = long2  yes = yes
    None = None
    Nodes = {good, bad}
    BatchIds = {b1}
    Models = {}
    Texts <- MCTexts
    Prompts <- MCPrompts
    Canaries <- MCCanaries
    Agree <- SameText
    Short <- MCShort
    Replies <- MCReplies
    Honest = {good}
    MaxUnits = 2
    MaxCanaries = 1
    LeaseTicks = 1
    MaxUnitAttempts = 1
    LatencySamples = 1
    MaxHandlers = 2
    LeasesBound = 2
    QueueBound = 2
    Flaky = {bad}
    Plant <- Spread
SPECIFICATION MCBookSpec
INVARIANTS BookTypeOK VerdictsMatch CopiesNoticed HonestBlamedOnlyForCopies NoInflation CreditExact CountsMatch TotalsMatch
