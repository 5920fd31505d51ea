SPECIFICATION Spec
CONSTANTS
    Gone = Gone
    Cloud <- AllClouds
    Resyncs = TRUE
    Revision = {1}
    Meddling = {"spec","issuer","lifetime","conditions","force"}
    MaxEdits = 2
    MaxOutages = 0
    MaxFaults = 0
    MaxCrashes = 1
INVARIANTS TypeOK NoOrphanedFailure
PROPERTIES ForceSyncHeard
CHECK_DEADLOCK FALSE
