SPECIFICATION Spec
CONSTANTS
    Nil = Nil
    Singleton = default
    Keys = {default}
    Uid = u1
    OtherUid = u2
    f = f
    Foreign <- MCForeign
    Ids = {f, i1, i2}
    PageSize = 50
    Names <- MCNames
    Slugs <- MCSlugs
    Specs <- MCSpecs
    Fragile = {"site"}
    Disturb = {"edit", "remove", "fault", "drift", "kube", "status", "crash"}
INVARIANTS
    ClusterTypeOK
    OneClusterPerUid
    ClusterReportIsReal
PROPERTIES
    OtherClustersUntouched
    ClusterConverges
