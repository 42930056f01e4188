CONSTANTS
    Clients = {c1, c2}
    Nonces = {n1}
    Grants <- TwoGrants
    Calls <- ThreeCalls
    MaxClock = 1
    MaxLosses = 1
    Nobody = Nobody
    NoRow = NoRow
SPECIFICATION Spec
INVARIANT
    SingleUse
