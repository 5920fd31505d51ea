SPECIFICATION FairSpec
CONSTANTS
    Gone = Gone
    Cloud <- KeyedClouds
    Resyncs = TRUE
    Revision = {1}
    Meddling = {"force","spec","lifetime","request"}
    MaxEdits = 1
    MaxOutages = 1
    MaxFaults = 1
    MaxCrashes = 0
PROPERTIES ConditionTellsTruth RequestsAreSigned ComesToRest DeletedIsForgotten
CHECK_DEADLOCK FALSE
