SPECIFICATION Spec
CONSTANTS
    Nil = Nil
    Keys = {n1}
    Uids = {u1, u2}
    Slugs <- MCSlugs
    Places <- MCPlaces
    Specs <- EveryMapping
    Ids = {i1, i2, i3}
    PageSize = 50
    Fragile = {"cluster", "site"}
    Disturb = {"node", "recreate", "fault", "drift", "crash", "resync"}
PROPERTIES
    ExistingNodesConverge
