SPECIFICATION Spec
CONSTANTS
    Nil = Nil
    Keys = {n1}
    Uids = {u1, u2}
    Slugs <- MCSlugs
    Places <- MCPlaces
    Specs <- OnOffKeep
    Ids = {i1, i2}
    PageSize = 50
    Fragile = {}
    Disturb = {"edit", "remove", "node", "outage", "kube", "status"}
INVARIANTS
    NodeReportIsReal
PROPERTIES
    DepartedNodesGone
    DisabledMeansGone
