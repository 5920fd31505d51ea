----------------------------- MODULE Jks2Secret -----------------------------
(***************************************************************************)
(* The program jks2secret, which turns a keystore file into the JSON       *)
(* payload that a secret manager holds, and the controller that reads the  *)
(* payload.                                                                *)
(*                                                                         *)
(* The program writes its payload, to a file or into the pipe of an        *)
(* upload, before it compares it with what it has read, so the controller  *)
(* may be at it already.  The controller's other sources rest meanwhile:   *)
(* the two share nothing but the payload.                                  *)
(***************************************************************************)
EXTENDS CertBundle

CONSTANTS
    Keystore,    \* the files given as -source
    Truststore,  \* and those given as -truststore
    NoFile, NoDoc

(***************************************************************************)
(* A keystore file has private key entries, each with its chain from the   *)
(* leaf upwards, and trusted certificates.  A PKCS#12 file has at most one *)
(* of the former, and no trusted certificates beside it.                   *)
(***************************************************************************)
KeyBlock  == {b \in Block : IsKey(b) /\ ~b.glued}
CertBlock == {b \in Block : IsCert(b) /\ ~b.glued}

KeystoreFile ==
    {f \in [format  : {"JKS", "PKCS#12"},
            keys    : Seq([key : KeyBlock, certs : Seq(CertBlock)]),
            trusted : Seq(CertBlock)] :
        f.format = "PKCS#12" /\ f.keys # <<>> => Len(f.keys) = 1 /\ f.trusted = <<>>}

ASSUME Jks2SecretConstants ==
    /\ Keystore \cup Truststore \subseteq KeystoreFile
    /\ NoFile \notin Keystore \cup Truststore

VARIABLES
    tool,        \* where the program is
    source,      \* its -source
    truststore,  \* its -truststore
    sk,          \* sourceKeystore
    doc          \* the payload it has written

toolVars == <<tool, source, truststore, sk, doc>>

NoKeystore == [leaf |-> <<>>, chain |-> <<>>, key |-> <<>>, keyless |-> FALSE]

ToolInit ==
    /\ Init
    /\ tool = "out"
    /\ source = NoFile /\ truststore = NoFile
    /\ sk = NoKeystore
    /\ doc = NoDoc

----------------------------------------------------------------------------
(* Reading a keystore.  A leaf and a key are sequences of at most one.     *)

First(s) == SubSeq(s, 1, Min({1, Len(s)}))
Rest(s)  == SubSeq(s, 2, Len(s))

\* store.Aliases() ranges over a map.
AnyOrder(entries) ==
    {[i \in DOMAIN entries |-> entries[p[i]]] : p \in SetToSeqs(DOMAIN entries)}

\* A truststore's first certificate is taken for the leaf.
Promoted(trusted) ==
    [leaf    |-> First(trusted),
     chain   |-> Rest(trusted),
     key     |-> <<>>,
     keyless |-> trusted # <<>>]

Keyed(key, certs, chain) ==
    [leaf |-> First(certs), chain |-> chain, key |-> <<key>>, keyless |-> FALSE]

\* Mutants: the trusted certificates beside a key are passed over; the chain is that
\* of another private key entry.
FromJKSKeyOnly(f) ==
    IF f.keys = <<>> THEN {Promoted(t) : t \in AnyOrder(f.trusted)}
    ELSE {Keyed(e.key, e.certs, Tail(e.certs)) : e \in {e \in ToSet(f.keys) : e.certs # <<>>}}
FromJKSMixed(f) ==
    IF f.keys = <<>> THEN {Promoted(t) : t \in AnyOrder(f.trusted)}
    ELSE {Keyed(e.key, f.keys[1].certs, t \o Rest(f.keys[1].certs)) :
             e \in ToSet(f.keys), t \in AnyOrder(f.trusted)}

\* The last private key entry that the map yields is the one that counts.
FromJKS(f) ==
    IF f.keys = <<>> THEN {Promoted(t) : t \in AnyOrder(f.trusted)}
    ELSE {Keyed(e.key, e.certs, t \o Rest(e.certs)) :
             e \in ToSet(f.keys), t \in AnyOrder(f.trusted)}

\* Mutant: a leaf that the file repeats among the CAs stays there.
FromPKCS12Unstripped(f) ==
    IF f.keys = <<>> THEN Promoted(f.trusted)
    ELSE Keyed(f.keys[1].key, f.keys[1].certs, Tail(f.keys[1].certs))

FromPKCS12(f) ==
    IF f.keys = <<>> THEN Promoted(f.trusted)
    ELSE LET certs == f.keys[1].certs
         IN  Keyed(f.keys[1].key, certs,
                   Select(certs, LAMBDA c : c.der # certs[1].der))

\* What loadSource may return; without one of these it fails.
LoadSource(f) ==
    {s \in IF f.format = "JKS" THEN FromJKS(f) ELSE {FromPKCS12(f)} :
        Ders(s.leaf \o s.chain) \cap Malformed = {}}

----------------------------------------------------------------------------
(* Main. *)

\* log.Fatalf.
Fatal == tool' = "failed" /\ UNCHANGED <<source, truststore, sk, doc>>

\* The flags, the passwords and the source.
ReadSource(f) ==
    /\ tool = "out"
    /\ \/ /\ tool' = "loaded"
          /\ source' = f
          /\ sk' \in {s \in LoadSource(f) : s.leaf # <<>>}
          /\ UNCHANGED <<truststore, doc>>
       \/ Fatal

\* The truststore's certificates that are neither the leaf nor in the chain.
Unseen(ts) ==
    Dedup(Select(ts.leaf \o ts.chain,
                    LAMBDA c : c.der \notin Ders(sk.leaf \o sk.chain)))

ReadTruststore(f) ==
    /\ tool = "loaded" /\ truststore = NoFile
    /\ \/ \E ts \in LoadSource(f) :
              /\ ts.keyless
              /\ truststore' = f
              /\ sk' = [sk EXCEPT !.chain = @ \o Unseen(ts)]
              /\ UNCHANGED <<tool, source, doc>>
       \/ Fatal

WritePayload ==
    /\ tool = "loaded"
    /\ tool' = "written"
    /\ doc' = [certificate |-> Encode(sk.leaf), private_key |-> Encode(sk.key),
               certificate_chain |-> Encode(sk.chain)]
    /\ UNCHANGED <<source, truststore, sk>>

TruststoreCerts == IF truststore = NoFile THEN {} ELSE Ders(truststore.trusted)

\* Mutant: a chain in which a certificate comes twice is not the source's.
VerifyCounted ==
    /\ Decode(doc.certificate) = sk.leaf
    /\ Ders(Certs(doc.certificate_chain)) = Ders(sk.chain)
    /\ Len(doc.certificate_chain.blocks) = Cardinality(Ders(sk.chain))
    /\ sk.leaf[1].der \notin Ders(Certs(doc.certificate_chain))
    /\ Decode(doc.private_key) = sk.key
    /\ TruststoreCerts \subseteq Ders(Certs(doc.certificate_chain))

VerifyPayload ==
    LET chain == Ders(Certs(doc.certificate_chain))
    IN  /\ Decode(doc.certificate) # <<>>
        /\ IsCert(Decode(doc.certificate)[1])
        /\ Decode(doc.certificate)[1].der = sk.leaf[1].der
        /\ chain = Ders(sk.chain)
        /\ sk.leaf[1].der \notin chain
        /\ IF sk.keyless THEN doc.private_key = Empty
                         ELSE Decode(doc.private_key) = sk.key
        /\ TruststoreCerts \subseteq chain

Verify ==
    /\ tool = "written"
    /\ tool' = IF VerifyPayload THEN "verified" ELSE "failed"
    /\ UNCHANGED <<source, truststore, sk, doc>>

SkipVerify ==
    /\ tool = "written"
    /\ tool' = "skipped"
    /\ UNCHANGED <<source, truststore, sk, doc>>

----------------------------------------------------------------------------
(* The program and the controller. *)

\* The keystores of the Secret that was written last.
OwnKeystores ==
    IF Shipped /\ secret.keystore = "built"
    THEN LET leaf == Certs(secret.tls)[1]
             key  == [key |-> Decode(parts.key)[1], certs |-> <<leaf>> \o secret.store]
         IN  {[format |-> "JKS", keys |-> <<key>>, trusted |-> secret.store],
              [format |-> "PKCS#12", keys |-> <<key>>, trusted |-> <<>>]}
    ELSE {}

\* A payload from a file, or from what the controller has built.
Run ==
    \/ \E f \in Keystore : stage = "start" /\ ReadSource(f) /\ UNCHANGED vars
    \/ \E f \in OwnKeystores : Return /\ ReadSource(f)
    \/ \E f \in Truststore : ReadTruststore(f) /\ UNCHANGED vars
    \/ (WritePayload \/ Verify \/ SkipVerify) /\ UNCHANGED vars

\* The controller reads what was written.  An empty string is no null.
Upload ==
    /\ doc # NoDoc
    /\ Extract(doc.certificate, doc.certificate_chain, doc.private_key)
    /\ doc.private_key = Empty => stage' = "refused"
    /\ UNCHANGED toolVars

\* The end of both.
Done ==
    /\ tool \in {"verified", "skipped", "failed"}
    /\ (stage = "start" /\ UNCHANGED vars) \/ Return
    /\ tool' = "out" /\ source' = NoFile /\ truststore' = NoFile
    /\ sk' = NoKeystore /\ doc' = NoDoc

ToolNext ==
    \/ Run
    \/ Upload
    \/ doc # NoDoc /\ IssuerBuild /\ UNCHANGED toolVars
    \/ Done
    \/ tool = "out" /\ Next /\ UNCHANGED toolVars

ToolSpec == ToolInit /\ [][ToolNext]_<<vars, toolVars>>

----------------------------------------------------------------------------
(* Properties *)

Issued == doc # NoDoc /\ stage = "issued"

FileCerts(f) == Ders(f.trusted) \cup UNION {Ders(f.keys[i].certs) : i \in DOMAIN f.keys}

\* The leaf with its CAs, in the order they came: the truststore's behind the source's.
OnPath == IsPath(sk.leaf \o Dedup(sk.chain))

(* The controller issues what passed the cross-check exactly if the CAs      *)
(* found beside the key continue its path, the truststore's behind the       *)
(* source's; then every one of them reaches the application, those of the    *)
(* truststore in the keystores too.  Of several private key entries only     *)
(* one does.  main.go:109-127, 295-345, verify.go:43-49, issuer.go:114-119.  *)
CAsArriveOnPath ==
    tool = "verified" /\ Len(source.keys) = 1 =>
        /\ stage = "refused" => ~OnPath
        /\ stage = "issued" =>
               /\ OnPath
               /\ FileCerts(source) \cup TruststoreCerts \subseteq Serves
               /\ secret.keystore = "built" => TruststoreCerts \subseteq Ders(secret.store)

(* Whichever private key entry the map yields last, the certificate that is  *)
(* issued is the one its key belongs to.  main.go:297-335.                   *)
KeyFitsCertificate ==
    Issued => \E i \in DOMAIN source.keys :
        /\ Decode(parts.key)[1] = source.keys[i].key
        /\ Certs(secret.tls)[1] = source.keys[i].certs[1]

(* The verification only fails where a certificate is the leaf and a trusted *)
(* one at once, so the keystores of the controller, which hold each CA       *)
(* twice, pass.  main.go:377-388.                                            *)
AlarmHasCause ==
    tool = "failed" /\ doc # NoDoc =>
        sk.leaf[1].der \in Ders(source.trusted) \cup TruststoreCerts
            \cup UNION {Ders(Tail(source.keys[i].certs)) :
                           i \in {j \in DOMAIN source.keys : source.format = "JKS"}}

(* A PKCS#12 file with a key and a signing path is converted, verified and   *)
(* accepted, also when it repeats its leaf among the CAs.                    *)
(* main.go:271-282, verify.go:13-17.                                         *)
PathsConvert ==
    (/\ doc # NoDoc /\ source.format = "PKCS#12" /\ truststore = NoFile
     /\ source.keys # <<>>
     /\ IsPath(Dedup(source.keys[1].certs))) =>
        tool # "failed" /\ stage # "refused"

----------------------------------------------------------------------------
(* What comments say, and the code does not do. *)

(* main.go:5-8: the cross-check is there "so a broken conversion fails       *)
(* loudly instead of silently shipping a corrupt payload"; main.go:139-142:  *)
(* the payload "matches the upstream source shape the controller reads".  A  *)
(* JKS with a signing path, whose trusted certificates are all on that path, *)
(* makes a payload that passes the cross-check and the controller accepts.   *)
VerifiedIsAccepted ==
    (/\ tool = "verified" /\ truststore = NoFile
     /\ Len(source.keys) = 1 /\ IsPath(source.keys[1].certs)
     /\ Ders(source.trusted) \subseteq Ders(source.keys[1].certs)) => stage # "refused"

(* main.go:95-97: with a truststore "the generated JKS / P12 then carry every *)
(* CA the application needs to trust, not just the ones bundled with the      *)
(* leaf"; README.md:100-102: a keyed PKCS#12 with a keyless truststore is     *)
(* "the typical bootstrap path".  Once the controller has dealt with such a   *)
(* payload, from a file with a signing path, the truststore's CAs are in the  *)
(* keystores.                                                                 *)
EveryCAArrives ==
    (/\ tool = "verified" /\ truststore # NoFile
     /\ source.format = "PKCS#12" /\ source.keys # <<>>
     /\ IsPath(Dedup(source.keys[1].certs))
     /\ stage \in {"issued", "refused"}) =>
        TruststoreCerts \subseteq Ders(secret.store)

(* main.go:5-8 again, with README.md:147-158: what fails the cross-check is  *)
(* not in the cloud by then.                                                 *)
FailedIsNotShipped == tool = "failed" => stage \notin {"parsed", "issued"}

=============================================================================
