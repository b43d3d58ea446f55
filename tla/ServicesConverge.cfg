SPECIFICATION Spec
CONSTANTS
    Nil = Nil
    Keys = {s1}
    Addrs = {a1}
    Unparseable = {}
    Slugs <- MCSlugs
    Specs <- OnOff
    Shapes <- AllShapes
    Ids = {i1, i2}
    Foreign = {}
    PageSize = 50
    Disturb = {"edit", "remove", "service", "outage", "kube", "status", "drift"}
INVARIANTS
    NothingForgotten
PROPERTIES
    Converges
