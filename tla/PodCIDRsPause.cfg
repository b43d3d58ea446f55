SPECIFICATION SafetySpec
CHECK_DEADLOCK FALSE
SYMMETRY Interchangeable
CONSTANTS
    Nil = Nil
    Keys = {n1, n2}
    Ids = {i1, i2}
    PageSize = 50
    ipv4 = ipv4
    ipv6 = ipv6
    Families = {ipv4}
    Width <- SmallWidth
    Cidrs <- SmallCidrs
    Slugs <- MCSlugs
    Specs <- Pausing
    Disturb = {"edit", "status", "crash"}
INVARIANTS
    NothingWrongReported
PROPERTIES
    PausedKeepsObjects
