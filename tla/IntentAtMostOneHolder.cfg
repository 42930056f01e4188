CONSTANTS
    w1 = w1
    w2 = w2
    w3 = w3
    k1 = k1
    k2 = k2
    k3 = k3
    Workers <- Threads
    Conns <- ThreeProcesses
    ConnOf <- AllAlone
    AgentOf <- OwnAgents
    Targets = {"t1"}
    Finals = {"resolved"}
    MaxDeclares = 3
    NoIntent = NoIntent
    NoView = NoView
SPECIFICATION Spec
INVARIANT
    AtMostOneHolder
CHECK_DEADLOCK FALSE
