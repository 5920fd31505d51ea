SPECIFICATION FairSpec
CONSTANTS
    Gone = Gone
    None = None
    Syncer <- OneSyncer
    Payload = {p1, p2}
    Keyless = {}
    Nonce <- FourNonces
    Namespace = {"home", "far", "shut"}
    Home = "home"
    ClusterIssuer = TRUE
    Filter <- AnyFilter
    Refusing = {"shut"}
    Meddling = {"filter", "namespace", "request", "annotation"}
    MaxEdits = 1
    MaxOutages = 1
    MaxFaults = 1
PROPERTIES HomeMirrored FanOutComplete KeystoresAgree ConditionTellsOutcome RequestsCleared
CHECK_DEADLOCK FALSE
