CONSTANTS
    x = x
    i1 = i1
    i2 = i2
    MaxForks = 2
    Ids <- TwoIds
    NodeIds = {x}
    MaxCells = 2
    Values = {0, 1}
    Written = {1}
    InitialNodes <- FirstCell
    Edges = {"e1"}
    MaxWrites = 3
    Dispositions = {"CONFIRMED", "other"}
    MaxChanges = 1
    NoNode = NoNode
    Untouched = Untouched
    NoHash = NoHash
    None = None
SYMMETRY EitherId
SPECIFICATION Spec
PROPERTY
    ParentIsUntouched
