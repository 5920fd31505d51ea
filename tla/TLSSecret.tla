----------------------------- MODULE TLSSecret -----------------------------
(***************************************************************************)
(* The kubernetes.io/tls Secret that the controller keeps, and the pure    *)
(* functions the reconcilers apply to it: the two digests, the keystore    *)
(* builder, the verification of what is about to be written, the           *)
(* comparison that decides whether to write, and the JSON merge patch the  *)
(* API server applies.                                                     *)
(*                                                                         *)
(* Bytes are abstract.  A field of a Secret is Absent (missing or empty),  *)
(* Junk (bytes no parser accepts, left by a hand edit or a broken source)  *)
(* or a value the controller wrote.  SHA-256 is taken to be injective, so  *)
(* a digest is represented by what it digests.                             *)
(***************************************************************************)
CONSTANTS
    Absent,     \* a field, an annotation or a source that is not there
    Junk,       \* bytes that do not parse
    NoSecret,   \* the API server, or the cache, holds no Secret of this name
    Payload,    \* what the cloud source may hold, after Extract
    PKCS8Key,   \* the private keys that come in a "PRIVATE KEY" block
    Nonce,      \* the random choices of one keystore build, as numbers
    Completed   \* chain |-> the chain after CompleteChain and SplitLeafAndChain

(***************************************************************************)
(* A payload is [crt, key, chain].  The key may be Absent: a JSON null     *)
(* passes Extract, and a public ACM certificate has no exportable key.  A  *)
(* chain that does not parse is no payload: VerifyChain refuses it before  *)
(* CompleteChain.                                                          *)
(***************************************************************************)
ASSUME TLSSecretAssumption ==
    /\ Absent # Junk
    /\ NoSecret \notin {Absent, Junk}
    /\ Payload \cap {Absent, Junk} = {}
    /\ \A m \in Payload : /\ m.crt # Absent
                          /\ m.chain \in DOMAIN Completed
                          /\ Completed[m.chain] # Junk
    /\ PKCS8Key \cap {Absent, Junk} = {}
    /\ Nonce \cap {Absent, Junk} = {}

DataField == {"crt", "key", "ca", "jks", "p12", "pw"}
KeystoreField == {"jks", "p12", "pw"}

\* The annotations the reconciler always sets, of which only these three vary
\* for one Certificate and one payload, and the drift marker set on failure.
StampedAnnotation == {"sourceHash", "secretHash", "syncTime"}
Field == DataField \cup StampedAnnotation \cup {"drift"}

----------------------------------------------------------------------------
(* Digests. *)

SourceHash(m) == m

\* Mutant: the private key is left out of the hash.
HashWithoutKey(s) == [f \in DataField |-> IF f = "key" THEN Absent ELSE s[f]]

HashSecretData(s) == [f \in DataField |-> s[f]]

----------------------------------------------------------------------------
(* Keystores. *)

CaBundle(m) == Completed[m.chain]

\* A JKS or PKCS#12 file: its content and the password that opens it.  The
\* salt stands for the creation time and the salts that make two builds from
\* the same input differ.
Store(m, pw, n) ==
    [salt |-> n, pw |-> pw, crt |-> m.crt, key |-> m.key, ca |-> CaBundle(m)]

\* Mutant: a new password on every build.
AlwaysGeneratePassword(m, existing, n) == n

\* keystore.go: the password survives while certificate and key are the same.
ReuseOrGeneratePassword(m, existing, n) ==
    IF /\ existing # NoSecret
       /\ existing["pw"] # Absent
       /\ existing["crt"] = m.crt
       /\ existing["key"] = m.key
    THEN existing["pw"]
    ELSE n

Skipped == [jks |-> Absent, p12 |-> Absent, pw |-> Absent, outcome |-> "skipped"]
Failed  == [jks |-> Absent, p12 |-> Absent, pw |-> Absent, outcome |-> "failed"]

\* Without a key there is nothing to build; a key that is not PKCS#8 or a
\* leaf that does not parse is a build error.
Build(m, existing, n) ==
    IF m.key = Absent THEN Skipped
    ELSE IF m.crt = Junk \/ m.key \notin PKCS8Key THEN Failed
    ELSE LET pw == ReuseOrGeneratePassword(m, existing, n)
         IN  [jks |-> Store(m, pw, n), p12 |-> Store(m, pw, n), pw |-> pw,
              outcome |-> "built"]

\* The random choices that occur in the keystores of d.
NoncesOf(d) ==
    {d["pw"]} \cup UNION {
        IF d[f] \in {Absent, Junk} THEN {} ELSE {d[f].salt, d[f].pw} : f \in {"jks", "p12"}}

\* Mutant: the keystore is that of the certificate and its key, whatever the chain.
ReuseForCertificate(m, existing, n) ==
    IF /\ existing # NoSecret
       /\ existing["crt"] = m.crt /\ existing["key"] = m.key
       /\ \A f \in KeystoreField : existing[f] # Absent
    THEN [jks |-> existing["jks"], p12 |-> existing["p12"],
          pw |-> existing["pw"], outcome |-> "built"]
    ELSE Build(m, existing, n)

\* The existing keystore is kept byte for byte when its Secret carries the
\* source hash of this payload and none of its three entries is empty.
BuildKeystore(m, existing, n) ==
    IF /\ existing # NoSecret
       /\ existing["sourceHash"] = SourceHash(m)
       /\ \A f \in KeystoreField : existing[f] # Absent
    THEN [jks |-> existing["jks"], p12 |-> existing["p12"],
          pw |-> existing["pw"], outcome |-> "built"]
    ELSE Build(m, existing, n)

----------------------------------------------------------------------------
(* The desired Secret. *)

\* Mutant: no last-sync-time.
UntimedTemplate(m, keystore, t) ==
    [f \in Field |->
        CASE f = "crt" -> m.crt
          [] f = "key" -> m.key
          [] f = "ca"  -> CaBundle(m)
          [] f \in KeystoreField -> keystore[f]
          [] f = "sourceHash" -> SourceHash(m)
          [] OTHER -> Absent]

\* The template of Reconcile together with the hash that WriteSecret stamps.
Template(m, keystore, t) ==
    LET data == [f \in DataField |->
                    CASE f = "crt" -> m.crt
                      [] f = "key" -> m.key
                      [] f = "ca"  -> CaBundle(m)
                      [] f \in KeystoreField -> keystore[f]]
    IN  [f \in Field |->
            CASE f \in DataField    -> data[f]
              [] f = "sourceHash"   -> SourceHash(m)
              [] f = "secretHash"   -> HashSecretData(data)
              [] f = "syncTime"     -> t
              [] f = "drift"        -> Absent]

\* A JKS loads with a password only if it was stored under it.
Opens(jks, pw) == jks # Junk /\ jks.pw = pw

\* Mutant: a certificate without a private key is refused.
VerifyWithKey(s) ==
    /\ s["crt"] \notin {Absent, Junk}
    /\ s["key"] \notin {Absent, Junk}
    /\ s["jks"] # Absent => Opens(s["jks"], s["pw"])

\* verify.go: leaf and key parse, and the JKS opens.  The PKCS#12 file is
\* not looked at.
VerifySecretData(s) ==
    /\ s["crt"] \notin {Absent, Junk}
    /\ s["key"] # Junk
    /\ s["jks"] # Absent => Opens(s["jks"], s["pw"])

\* Mutant: the annotations are believed, the data is not hashed again.
AnnotationsUpToDate(existing, desired) ==
    \A a \in StampedAnnotation : existing[a] = desired[a]

\* secretUpToDate, the loop over the desired annotations included.
SecretUpToDate(existing, desired) ==
    /\ HashSecretData(existing) = existing["secretHash"]
    /\ \A a \in StampedAnnotation : existing[a] = desired[a]

----------------------------------------------------------------------------
(* The API server. *)

\* The merge patch computed from orig to new names only the fields in which
\* the two differ; the server applies those to the live object.
MergePatch(live, orig, new) ==
    [f \in Field |-> IF new[f] # orig[f] THEN new[f] ELSE live[f]]

=============================================================================
