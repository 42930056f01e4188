CONSTANTS
    w1 = w1
    w2 = w2
    w3 = w3
    k1 = k1
    k2 = k2
    n1 = n1
    n2 = n2
    Workers <- Threads
    Conns <- Processes
    ConnOf <- SharedAndAlone
    AgentOf <- DefaultAndOwn
    Targets = {"t1"}
    Finals <- ResolvedStatuses
    MaxDeclares = 2
    NoIntent = NoIntent
    NoView = NoView
    Nonces <- TwoApprovals
    NoNonce = NoNonce
SPECIFICATION FairGateSpec
INVARIANTS
    GateIntentInv
    OneRequestPerApproval
    ToolRunsUnderIntent
    SentIsRecorded
    IntentsAreNotShared
    StatusIsHonest
    ToldIsRecorded
PROPERTIES
    GateReturns
CHECK_DEADLOCK FALSE
