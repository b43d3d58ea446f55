SPECIFICATION SafetySpec
CHECK_DEADLOCK FALSE
SYMMETRY Interchangeable
CONSTANTS
    Nil = Nil
    Keys = {n1, n2}
    Uids = {u1, u2}
    Slugs <- MCSlugs
    Places <- MCPlaces
    Specs <- Moved
    Ids = {i1, i2}
    PageSize = 50
    Fragile = {}
    Disturb = {"edit", "node", "recreate", "fault", "crash"}
INVARIANTS
    NodesTypeOK
    OneObjectPerNode
    NodeReportIsReal
PROPERTIES
    LiveNodeKept
