SPECIFICATION Spec
CONSTANTS
    site = site
    inter = inter
    root = root
    own = own
    bad = bad
    k = k
    Cert = {site, inter, root, own}
    Malformed = {bad}
    Key = {k}
    KnownRoots = {root}
    Signer <- MCSigner
    File <- AllFiles
    MaxFiles = 3
    Blob <- AcmBlobs
    Field <- JsonFields
INVARIANT LeafComesFirst
