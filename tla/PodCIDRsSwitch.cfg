SPECIFICATION Spec
CONSTANTS
    Nil = Nil
    Keys = {n1}
    Ids = {i1, i2}
    PageSize = 50
    ipv4 = ipv4
    ipv6 = ipv6
    Families = {ipv4, ipv6}
    Width <- SingleWidth
    Cidrs <- SingleCidrs
    Slugs <- MCSlugs
    Specs <- Switching
    Disturb = {"edit", "node", "fault", "race", "drift", "kube", "rir", "crash", "resync"}
INVARIANTS
    PodCIDRsTypeOK
    OneObjectPerExternalID
    NothingWrongReported
PROPERTIES
    PodCIDRsConverge
