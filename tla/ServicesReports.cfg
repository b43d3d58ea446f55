SPECIFICATION SafetySpec
CHECK_DEADLOCK FALSE
SYMMETRY Interchangeable
CONSTANTS
    Nil = Nil
    Keys = {s1}
    Addrs = {a1, a2}
    Unparseable = {}
    Slugs <- MCSlugs
    Specs <- OnKeep
    Shapes <- AllShapes
    Ids = {f, i1, i2}
    Foreign = {f}
    PageSize = 50
    Disturb = {"edit", "remove", "service", "fault", "kube", "crash"}
INVARIANTS
    ReportedSyncIsReal
PROPERTIES
    UnmanagedUntouched
    PausedUntouched
