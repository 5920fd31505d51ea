SPECIFICATION FairSpec
CONSTANTS
    Gone = Gone
    None = None
    Syncer <- BothSyncers
    Payload = {p1}
    Keyless = {p1}
    Nonce <- FourNonces
    Namespace = {"home"}
    Home = "home"
    ClusterIssuer = FALSE
    Filter <- NoFilter
    Refusing = {}
    Meddling = {"lifetime", "issuer"}
    MaxEdits = 2
    MaxOutages = 0
    MaxFaults = 1
INVARIANTS TypeOK AlwaysComesBack
PROPERTIES FinalizerGuardsWrites DeletionEnds
CHECK_DEADLOCK FALSE
