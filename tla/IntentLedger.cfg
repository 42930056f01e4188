CONSTANTS
    w1 = w1
    w2 = w2
    w3 = w3
    k1 = k1
    k2 = k2
    k3 = k3
    Workers <- Threads
    Conns <- Processes
    ConnOf <- SharedAndAlone
    AgentOf <- OwnAgents
    Targets = {"t1"}
    Finals = {"resolved"}
    MaxDeclares = 4
    NoIntent = NoIntent
    NoView = NoView
SPECIFICATION FairSpec
INVARIANTS
    IntentInv
    RespectsEarlierHolders
    HeldIsCommitted
    NoSilentLeak
PROPERTIES
    ResolvedIsFinal
    CallsReturn
CHECK_DEADLOCK FALSE
