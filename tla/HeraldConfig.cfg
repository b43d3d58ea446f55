SPECIFICATION Spec
CHECK_DEADLOCK FALSE
CONSTANTS
    Nil = Nil
    Slugs <- MCSlugs
    Specs <- MCSpecs
    Disturb <- MCDisturb
    OtherNames = {other}
INVARIANTS
    HeraldConfigTypeOK
    PublishedIsBootstrapped
PROPERTIES
    ImplementsStore
    PublishedCatchesUp
    ReadyCatchesUp
