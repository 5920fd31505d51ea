SPECIFICATION FairSpec
CONSTANTS
    Absent = Absent
    Junk = Junk
    NoSecret = NoSecret
    c1 = c1
    c2 = c2
    k1 = k1
    k2 = k2
    pkcs1 = pkcs1
    short = short
    full = full
    other = other
    queue = queue
    resync = resync
    Completed <- MCCompleted
    PKCS8Key <- MCPKCS8Key
    Nonce = {0,1,2,3,4,5,6,7,8,9}
    Worker = {queue,resync}
    Ticking = {resync}
    Payload <- TwoCerts
    EditField <- TLSEdits
    Lagging = FALSE
    MaxTime = 0
    MaxRotations = 1
    MaxEdits = 1
    MaxFaults = 0
INVARIANTS TypeOK TamperEvident
PROPERTIES EventuallyMirrored
