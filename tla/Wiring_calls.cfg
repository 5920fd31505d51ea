SPECIFICATION WFairSpec
CONSTANTS
    Caller = {g1, g2}
    Region <- OneRegion
    Static <- Accounts
    Ambient = "ambient"
    None = None
    Error = Error
    Free = Free
    MaxBuilds = 3
    Namespace <- Namespaces
    Own = "own"
    NoRef = "no ref"
    Issuers <- MCIssuers
    Given <- MCGiven
    MaxEdits = 1
INVARIANTS WTypeOK ClientFitsCaller OwnCredentials BootstrapComesFirst
PROPERTIES BuildsOnce CallsReturn
CHECK_DEADLOCK FALSE
