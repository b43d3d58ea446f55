SPECIFICATION SafetySpec
CHECK_DEADLOCK FALSE
CONSTANTS
    Nil = Nil
    Keys = {s1}
    Addrs = {a1, a2}
    Unparseable = {}
    Slugs <- MCSlugs
    Specs <- OnlyOn
    Shapes <- AllShapes
    Ids = {i1, i2, i3}
    Foreign = {}
    PageSize = 1
    Disturb = {"service"}
INVARIANTS
    ReportedSyncIsReal
