SPECIFICATION ToolSpec
CONSTANTS
    site = site
    inter = inter
    root = root
    own = own
    bad = bad
    k = k
    k2 = k2
    Cert = {site, inter, root, own}
    Malformed = {bad}
    Key = {k, k2}
    KnownRoots = {root}
    Signer <- MCSigner
    File <- ZipFiles
    MaxFiles = 6
    Blob <- AcmBlobs
    Field <- JsonFields
    Keystore <- MCKeystore
    Truststore <- MCTruststore
    NoFile = NoFile
    NoDoc = NoDoc
INVARIANTS TypeOK NothingLost OneOfEach SigningPath KeystoreCarriesChain CompositionTold NoFalseAlarm
INVARIANTS CAsArriveOnPath KeyFitsCertificate AlarmHasCause PathsConvert
