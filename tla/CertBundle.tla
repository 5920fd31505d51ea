----------------------------- MODULE CertBundle -----------------------------
(***************************************************************************)
(* From what a cloud returns to what the Secret holds: the download of a    *)
(* certificate from Tencent SSL (a ZIP, read file by file), AWS ACM (one    *)
(* PEM text) or a secret manager (a JSON payload), its normalisation and    *)
(* verification, and the certificates that end up in tls.crt, ca.crt, the   *)
(* chain annotation and the keystores.                                      *)
(***************************************************************************)
EXTENDS PEM

CONSTANTS
    File,      \* entries of a ZIP: what the name contains, and the text
    MaxFiles,  \* entries of one ZIP
    Blob,      \* texts ACM returns
    Field      \* texts of a JSON payload's certificate and chain

NameParts == SUBSET {"chain", "key", "binary"}

ASSUME BundleConstants ==
    /\ File \subseteq [name : NameParts, text : Text]
    /\ MaxFiles \in Nat
    /\ Blob \subseteq Text /\ Field \subseteq Text

\* SplitPEM decodes what ACM returns before anybody has normalised it.
ASSUME AcmEndsItsLines ==
    \A blob \in Blob : \A i \in DOMAIN blob.blocks : ~blob.blocks[i].glued

VARIABLES
    stage,   \* where the reconcile is
    files,   \* entries read from the ZIP
    parts,   \* leaf, chain and private key: ExportedParts, FetchResult, extracted
    given,   \* history: what the source supplied as leaf and as chain
    secret   \* what Reconcile is about to write

vars == <<stage, files, parts, given, secret>>

NoParts  == [leaf |-> Empty, chain |-> Empty, key |-> Empty]
NoSecret == [tls |-> Empty, ca |-> Empty, chain |-> {}, store |-> <<>>, keystore |-> "none"]
Nothing  == [leaf |-> {}, chain |-> {}]

Init ==
    /\ stage = "start"
    /\ files = 0
    /\ parts = NoParts
    /\ given = Nothing
    /\ secret = NoSecret

----------------------------------------------------------------------------
(* Tencent SSL *)

Bucket(name) ==
    IF "binary" \in name THEN "none"
    ELSE IF "chain" \in name THEN "chain"
    ELSE IF "key" \in name THEN "key"
    ELSE "leaf"

AppendPEM(dst, data) == Concat([dst EXCEPT !.open = FALSE], data)

\* One turn of ExtractFromZIP's loop, the ZIP's next entry being f.
ReadFile(f) ==
    /\ stage \in {"start", "zip"}
    /\ files < MaxFiles
    /\ stage' = "zip"
    /\ files' = files + 1
    /\ LET b == Bucket(f.name)
       IN  /\ parts' = IF b = "none" THEN parts
                       ELSE [parts EXCEPT ![b] = AppendPEM(@, f.text)]
           /\ given' = IF b \in {"none", "key"} THEN given
                       ELSE [given EXCEPT ![b] = @ \cup CertsOf(f.text)]
    /\ UNCHANGED secret

Normalized(p) ==
    [leaf  |-> NormalizePEM(p.leaf),
     chain |-> NormalizePEM(p.chain),
     key   |-> NormalizePEM(p.key)]

\* Mutant: the path is verified before the repetitions are dropped.
VerifyRaw(p) ==
    /\ stage' = IF VerifyChain(p.leaf, p.chain) THEN "fetched" ELSE "refused"
    /\ parts' = Normalized(p)

Checked(p) ==
    /\ stage' = IF VerifyChain(NormalizePEM(p.leaf), NormalizePEM(p.chain))
                THEN "fetched" ELSE "refused"
    /\ parts' = Normalized(p)

\* The ZIP has been read.
TencentFetch ==
    /\ stage = "zip"
    /\ IF parts.leaf = Empty \/ parts.key = Empty
       THEN stage' = "refused" /\ UNCHANGED parts
       ELSE Checked(parts)
    /\ UNCHANGED <<files, given, secret>>

----------------------------------------------------------------------------
(* AWS ACM *)

\* The first block, opened with the passphrase.  A key is one element, sealed or not.
DecryptPKCS8(sealed) == Encode(<<Decode(sealed)[1]>>)

\* No certificate, or a key that the passphrase does not open, is refused.
AwsFetch(blob) ==
    /\ stage = "start"
    /\ given' = [Nothing EXCEPT !.leaf = CertsOf(blob)]
    /\ LET raw   == SplitPEM(blob)
           split == SplitLeafAndChain(NormalizePEM(raw.cert))
       IN  \/ /\ raw.cert = Empty \/ raw.key # Empty
              /\ stage' = "refused" /\ UNCHANGED parts
           \/ /\ raw.cert # Empty
              /\ stage' = IF VerifyChain(split.leaf, split.chain)
                          THEN "fetched" ELSE "refused"
              /\ parts' = [leaf |-> split.leaf, chain |-> split.chain,
                           key |-> IF raw.key = Empty THEN Empty ELSE DecryptPKCS8(raw.key)]
    /\ UNCHANGED <<files, secret>>

----------------------------------------------------------------------------
(* CertSyncer, for both *)

\* The outcome of Build, and the certificates in the keystores beside the leaf.
Build(leaf, chain, key) ==
    [keystore |-> IF key = Empty THEN "skipped"
                  ELSE IF \/ Decode(leaf) = <<>> \/ ~Parses(Decode(leaf)[1])
                          \/ Decode(key) = <<>> \/ ~IsKey(Decode(key)[1])
                          \/ ParseChainFails(chain) THEN "failed"
                  ELSE "built",
     store    |-> ParseChainDER(chain)]

\* Mutant: the keystore's chain is the one that was downloaded.
DownloadedStore(tls, p) == Build(SplitLeafAndChain(tls).leaf, p.chain, p.key)

\* Build for the leaf and the chain that tls.crt consists of.
Keystores(tls, p) ==
    LET split == SplitLeafAndChain(tls) IN Build(split.leaf, split.chain, p.key)

VerifySecretData(tls, key) ==
    /\ Decode(tls) # <<>> /\ Parses(Decode(tls)[1])
    /\ key # Empty => Decode(key) # <<>> /\ IsKey(Decode(key)[1])

CertSyncBuild ==
    /\ stage = "fetched"
    /\ LET tls == CompleteChain(NormalizePEM(Concat(parts.leaf, parts.chain)))
           ks  == Keystores(tls, parts)
       IN  /\ secret' = [tls |-> tls, ca |-> Empty, chain |-> ChainComposition(tls),
                         store |-> ks.store, keystore |-> ks.keystore]
           /\ stage' = IF VerifySecretData(tls, parts.key) THEN "synced" ELSE "refused"
    /\ UNCHANGED <<files, parts, given>>

----------------------------------------------------------------------------
(* IssuerReconciler *)

\* A certificate or key that is missing or "" is refused; a JSON null is not, and
\* reads as an empty text.
Extract(cert, chain, key) ==
    /\ stage = "start"
    /\ given' = [leaf |-> CertsOf(cert), chain |-> CertsOf(chain)]
    /\ \/ Empty \in {cert, key} /\ stage' = "refused" /\ UNCHANGED parts
       \/ /\ stage' = IF VerifyChain(NormalizePEM(cert), NormalizePEM(chain))
                       THEN "parsed" ELSE "refused"
          /\ parts' = Normalized([leaf |-> cert, chain |-> chain, key |-> key])
    /\ UNCHANGED <<files, secret>>

IssuerBuild ==
    /\ stage = "parsed"
    /\ LET completed == CompleteChain(Concat(parts.leaf, parts.chain))
           ca        == SplitLeafAndChain(completed).chain
           ks        == Build(parts.leaf, ca, parts.key)
       IN  /\ secret' = [tls |-> parts.leaf, ca |-> ca,
                         chain |-> ChainComposition(completed),
                         store |-> ks.store, keystore |-> ks.keystore]
           /\ stage' = IF VerifySecretData(parts.leaf, parts.key) THEN "issued" ELSE "refused"
    /\ UNCHANGED <<files, parts, given>>

----------------------------------------------------------------------------

\* The reconcile returns, and another begins.
Return ==
    /\ stage \in {"synced", "issued", "refused"}
    /\ stage' = "start" /\ files' = 0 /\ parts' = NoParts
    /\ given' = Nothing /\ secret' = NoSecret

KeyText == {Empty} \cup {Encode(<<[der |-> k, glued |-> FALSE]>>) : k \in Key}

Next ==
    \/ \E f \in File : ReadFile(f)
    \/ TencentFetch
    \/ \E blob \in Blob : AwsFetch(blob)
    \/ CertSyncBuild
    \/ \E cert, chain \in Field \cup {Empty}, key \in KeyText : Extract(cert, chain, key)
    \/ IssuerBuild
    \/ Return

Spec == Init /\ [][Next]_vars

----------------------------------------------------------------------------
(* Properties *)

Shipped == stage \in {"synced", "issued"}

TypeOK ==
    /\ stage \in {"start", "zip", "fetched", "parsed", "synced", "issued", "refused"}
    /\ files \in 0 .. MaxFiles
    /\ parts \in [leaf : Text, chain : Text, key : Text]
    /\ given \in [leaf : SUBSET (Cert \cup Malformed), chain : SUBSET (Cert \cup Malformed)]
    /\ secret \in [tls : Text, ca : Text,
                   chain : SUBSET {"leaf", "intermediate", "root"},
                   store : Seq({b \in Block : Parses(b)}),
                   keystore : {"none", "skipped", "failed", "built"}]

\* The certificates of tls.crt and ca.crt together, in the order a server sends them.
Served == IF stage = "issued"
          THEN Dedup(Certs(secret.tls) \o Certs(secret.ca))
          ELSE Certs(secret.tls)

Serves == Ders(Served)

(* Every certificate the source supplied reaches the consumer, and nothing   *)
(* is added but the known root of the last: neither a mash inside a file nor *)
(* the joining of files and parts makes a decoder drop blocks.               *)
(* parse.go:64-96, ssl.go:87-99, roots.go:44-72.                             *)
NothingLost ==
    Shipped =>
        /\ given.leaf \cup given.chain \subseteq Serves
        /\ Serves \ (given.leaf \cup given.chain) \subseteq KnownRoots

(* A ZIP holds the same files once per server type: tls.crt and tls.key still *)
(* ship each block once.  tencentcert/issuer.go:155-161.                     *)
OneOfEach ==
    stage = "synced" =>
        \A t \in {secret.tls, parts.key} : \A i, j \in DOMAIN t.blocks :
            t.blocks[i].der = t.blocks[j].der => i = j

(* When the leaf came by itself, what is shipped is a signing path, also     *)
(* after a root was appended.  verify.go:13-17, roots.go:44-49.              *)
SigningPath ==
    Shipped /\ Len(parts.leaf.blocks) = 1 =>
        IsPath(Select(Served, Parses))

(* The keystores carry the chain that tls.crt and ca.crt ship, with the root *)
(* that was appended to it.  certsync.go:150-155, issuer.go:114-119.         *)
KeystoreCarriesChain ==
    Shipped /\ secret.keystore = "built" =>
        /\ Ders(secret.store) \cup {Served[1].der} = Serves \cap Cert
        /\ stage = "synced" => secret.store = Tail(Select(Served, Parses))

(* For such a path the chain annotation tells what it is made of: a root     *)
(* exactly when the path ends in one, intermediates exactly when something    *)
(* is left between that and the leaf.  Only IssuerReconciler lets a leaf     *)
(* repeated as its own chain pass for a root.  verify.go:78-120.             *)
CompositionTold ==
    (/\ Shipped /\ Len(parts.leaf.blocks) = 1
     /\ stage = "synced" \/ given.leaf \cap given.chain = {}) =>
        LET path  == Select(Served, Parses)
            ended == SelfSigned(Last(path).der)
        IN  /\ "leaf" \in secret.chain
            /\ "root" \in secret.chain <=> Len(path) > 1 /\ ended
            /\ "intermediate" \in secret.chain <=> Len(path) > IF ended THEN 2 ELSE 1

(* A download is only refused for a cause that is in it: a leaf that parses, *)
(* a key, and chain files that hold the path up from the leaf, however often *)
(* they are repeated, are accepted.  Of chain files without a malformed      *)
(* certificate, the cause is a certificate that signed neither the leaf nor  *)
(* another of them.  ssl.go:81-84, tencentcert/issuer.go:155-165.            *)
NoFalseAlarm ==
    (/\ stage = "refused" /\ files > 0
     /\ parts.leaf # Empty /\ parts.key # Empty) =>
        LET leaf == Decode(NormalizePEM(parts.leaf))
            key  == Decode(NormalizePEM(parts.key))
        IN  \/ leaf = <<>> \/ ~Parses(leaf[1])
            \/ key = <<>> \/ ~IsKey(key[1])
            \/ given.chain \cap Malformed # {}
            \/ \E c \in given.chain : /\ c # Signer[leaf[1].der]
                                      /\ \A d \in given.chain \ {c} : Signer[d] # c

\* Each block is c or the signer of the block before it, and of these c signed at
\* most itself: the path up from c, once or several times.
Upwards(bs, c) ==
    \A i \in DOMAIN bs :
        /\ Parses(bs[i])
        /\ bs[i].der = c \/ (i > 1 /\ Signer[bs[i - 1].der] = bs[i].der)
        /\ Signer[bs[i].der] = c => bs[i].der = c

\* What NoFalseAlarm is about: the chain files of a ZIP begin at one certificate,
\* unless there is a malformed one among them.
OrderlyFiles(c) ==
    \A f \in File :
        Bucket(f.name) = "chain" /\ CertsOf(f.text) \cap Malformed = {} =>
            Upwards(f.text.blocks, c)

----------------------------------------------------------------------------
(* What a comment in the code says, and the code does not do. *)

(* verify.go:144-145: the check of the Secret "guards against ... a           *)
(* mis-extracted provider zip silently shipping a broken Secret".  The        *)
(* certificate that is presented first is the one the key belongs to, here    *)
(* the one that signs no other.                                              *)
LeafComesFirst ==
    stage = "synced" =>
        \A c \in Serves \cap Cert : Signer[c] # Certs(secret.tls)[1].der \/ SelfSigned(c)

=============================================================================
