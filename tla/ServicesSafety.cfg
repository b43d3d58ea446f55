SPECIFICATION SafetySpec
CHECK_DEADLOCK FALSE
SYMMETRY Interchangeable
CONSTANTS
    Nil = Nil
    Keys = {s1}
    Addrs = {a1, bad}
    Unparseable = {bad}
    Slugs <- MCSlugs
    Specs <- OnlyOn
    Shapes <- AllShapes
    Ids = {i1, i2, i3, i4}
    Foreign = {}
    PageSize = 50
    Disturb = {"service", "fault", "drift", "race", "untag", "crash"}
INVARIANTS
    ServicesTypeOK
    NoDuplicates
