-------------------------- MODULE Jks2SecretProofs --------------------------
(***************************************************************************)
(* What jks2secret promises together with the controller, for all keystores *)
(* and truststores: the CAs arrive, the certificate is that of the key, and *)
(* the cross-check and the controller only refuse what they should.        *)
(*                                                                         *)
(* TInv follows the certificates from the files to the payload (LoadOK,    *)
(* DocOK), knows that what the controller parsed is that payload            *)
(* (UploadOK), what the cross-check has found (VerdictOK), and that what   *)
(* has a key was accepted exactly if its CAs continue its path             *)
(* (AcceptedOK).  With it comes the invariant of the download, which the   *)
(* program's payloads keep as any other texts do.                          *)
(***************************************************************************)
EXTENDS Jks2Secret, CertBundleProofs

SkType == [leaf : Seq(CertBlock), chain : Seq(CertBlock), key : Seq(KeyBlock), keyless : BOOLEAN]

SkCerts(s) == Ders(s.leaf) \cup Ders(s.chain)

\* Where the file itself puts a certificate beside the leaf.
Beside(f) ==
    Ders(f.trusted)
        \cup UNION {Ders(Tail(f.keys[i].certs)) :
                       i \in {j \in DOMAIN f.keys : f.format = "JKS"}}

Stripped(certs) == Select(certs, LAMBDA c : c.der # certs[1].der)

\* The key is one of the file's, with its certificate.
KeyOf(s, f) ==
    \E i \in DOMAIN f.keys : /\ f.keys[i].certs # <<>>
                             /\ s.key = <<f.keys[i].key>>
                             /\ s.leaf = <<f.keys[i].certs[1]>>

\* A leaf, keys and CAs as they come out of a keystore file.
LoadedFrom(s, f) ==
    /\ s \in SkType
    /\ Len(s.leaf) = 1
    /\ SkCerts(s) \subseteq Cert
    /\ s.keyless => s.key = <<>>
    /\ s.key # <<>> => KeyOf(s, f)
    /\ Len(f.keys) = 1 => s.key # <<>> /\ FileCerts(f) \subseteq SkCerts(s)
    /\ s.leaf[1].der \in Ders(s.chain) => s.leaf[1].der \in Beside(f) \cup TruststoreCerts
    /\ f.format = "PKCS#12" /\ f.keys # <<>> /\ truststore = NoFile =>
           s.chain = Stripped(f.keys[1].certs)

Payload(s) == [certificate |-> Encode(s.leaf), private_key |-> Encode(s.key),
               certificate_chain |-> Encode(s.chain)]

PayloadParts(d) == [leaf |-> d.certificate, chain |-> d.certificate_chain, key |-> d.private_key]

Convertible == /\ source.format = "PKCS#12" /\ truststore = NoFile /\ source.keys # <<>>
               /\ IsPath(Dedup(source.keys[1].certs))

ToolTyped == /\ tool \in {"out", "loaded", "written", "verified", "skipped", "failed"}
             /\ truststore \in Truststore \cup {NoFile}
             /\ tool = "out" => truststore = NoFile

LoadOK == tool = "loaded" \/ doc # NoDoc => /\ source \in KeystoreFile
                                            /\ LoadedFrom(sk, source)
                                            /\ TruststoreCerts \subseteq SkCerts(sk)

DocOK ==
    /\ tool # "out" /\ doc = NoDoc => stage = "start"
    /\ doc # NoDoc => /\ tool \notin {"out", "loaded"}
                      /\ doc = Payload(sk)
                      /\ stage \in {"start", "parsed", "issued", "refused"}

UploadOK == doc # NoDoc /\ stage \in {"parsed", "issued"} =>
                /\ parts = Normalized(PayloadParts(doc))
                /\ given = [leaf  |-> CertsOf(doc.certificate),
                            chain |-> CertsOf(doc.certificate_chain)]
                /\ sk.key # <<>>

VerdictOK == /\ tool = "verified" /\ doc # NoDoc => VerifyPayload
             /\ tool = "failed" /\ doc # NoDoc => ~VerifyPayload

AcceptedOK == doc # NoDoc /\ sk.key # <<>> =>
                  /\ stage = "refused" => ~OnPath
                  /\ stage \in {"parsed", "issued"} => OnPath

ToolOK == ToolTyped /\ LoadOK /\ DocOK /\ UploadOK /\ VerdictOK /\ AcceptedOK

TInv == IInv /\ ToolOK

-----------------------------------------------------------------------------
(* What a keystore file yields. *)

LEMMA BlocksOfFiles ==
    ASSUME NEW s \in Seq(CertBlock)
    PROVE  /\ s \in Seq(Block) /\ Plain(s)
           /\ \A i \in DOMAIN s : s[i] \in CertBlock /\ IsCert(s[i])
           /\ Ders(s) \subseteq Cert \cup Malformed
<1>1. /\ DOMAIN s = 1 .. Len(s) /\ Len(s) \in Nat
      /\ \A i \in DOMAIN s : s[i] \in CertBlock
  OBVIOUS
<1>2. \A b \in CertBlock : b \in Block /\ IsCert(b) /\ ~b.glued /\ b.der # Binary
  BY PEMConstants DEF CertBlock, IsCert, Binary
<1>3. s \in Seq(Block)
  <2>1. \A i \in 1 .. Len(s) : s[i] \in Block
    BY <1>1, <1>2
  <2>2. QED
    BY <1>1, <2>1
<1>4. Plain(s)
  BY <1>1, <1>2 DEF Plain, IsBlock
<1>5. \A i \in DOMAIN s : s[i].der \in Cert \cup Malformed
  BY <1>1, <1>2 DEF IsCert
<1>6. Ders(s) \subseteq Cert \cup Malformed
  BY <1>5 DEF Ders
<1>7. QED
  BY <1>1, <1>2, <1>3, <1>4, <1>6

LEMMA OneElement ==
    ASSUME NEW S, NEW s \in Seq(S), Len(s) = 1
    PROVE  s # <<>> /\ DOMAIN s = {1}
<1> DEFINE n == Len(s)
<1>1. s = <<>> <=> n = 0
  OBVIOUS
<1>2. DOMAIN s = 1 .. n
  OBVIOUS
<1>3. n = 1
  OBVIOUS
<1> HIDE DEF n
<1>4. QED
  BY <1>1, <1>2, <1>3

LEMMA FirstAndRest ==
    ASSUME NEW S, NEW s \in Seq(S)
    PROVE  /\ First(s) = IF s = <<>> THEN <<>> ELSE <<s[1]>>
           /\ Rest(s) \in Seq(S)
           /\ s # <<>> => Rest(s) = Tail(s)
           /\ s = <<>> => Rest(s) = <<>>
<1>1. Len(s) \in Nat /\ (s = <<>> <=> Len(s) = 0)
  OBVIOUS
<1> DEFINE n == Len(s)
           m == Min({1, n})
<1> HIDE DEF n
<1>2. n \in Nat
  BY <1>1 DEF n
<1>3. \E x \in {1, n} : \A y \in {1, n} : x =< y
  <2>1. CASE n = 0
    BY <2>1
  <2>2. CASE n >= 1
    BY <2>2
  <2>3. QED
    BY <1>2, <2>1, <2>2
<1>4. m \in {1, n} /\ \A y \in {1, n} : m =< y
  BY <1>3 DEF Min
<1> HIDE DEF m
<1>5. m = IF n = 0 THEN 0 ELSE 1
  BY <1>2, <1>4
<1>6. First(s) = SubSeq(s, 1, m)
  BY DEF First, m, n
<1>7. SubSeq(s, 1, 0) = <<>>
  OBVIOUS
<1>8. ASSUME s # <<>> PROVE SubSeq(s, 1, 1) = <<s[1]>>
  <2> DEFINE u == SubSeq(s, 1, 1)
  <2>1. s[1] \in S /\ Len(s) >= 1
    BY <1>1, <1>8
  <2>2. u \in Seq(S) /\ Len(u) = 1 /\ u[1] = s[1]
    BY <1>1, <2>1, SubSeqProperties
  <2> HIDE DEF u
  <2>3. u = <<s[1]>>
    BY <2>2
  <2>4. QED
    BY <2>3 DEF u
<1>9. Rest(s) \in Seq(S)
  BY DEF Rest
<1>10. s # <<>> => Rest(s) = Tail(s)
  BY DEF Rest
<1>11. s = <<>> => Rest(s) = <<>>
  BY DEF Rest
<1>12. QED
  BY <1>1, <1>5, <1>6, <1>7, <1>8, <1>9, <1>10, <1>11 DEF n

(* A permutation has the elements of the sequence.                         *)
LEMMA AnyOrderFacts ==
    ASSUME NEW e \in Seq(CertBlock), NEW t \in AnyOrder(e)
    PROVE  t \in Seq(CertBlock) /\ Ders(t) = Ders(e)
<1> DEFINE D == DOMAIN e
           n == Len(e)
<1>1. D = 1 .. n /\ n \in Nat /\ \A i \in D : e[i] \in CertBlock
  OBVIOUS
<1>2. IsFiniteSet(D) /\ Cardinality(D) = n
  BY <1>1, FS_Interval
<1>3. PICK p \in SetToSeqs(D) : t = [i \in D |-> e[p[i]]]
  BY DEF AnyOrder
<1> HIDE DEF D, n
<1>4. /\ p \in [D -> D]
      /\ \A i, j \in D : i # j => p[i] # p[j]
  BY <1>1, <1>2, <1>3 DEF SetToSeqs
<1>5. p \in Injection(D, D)
  <2>1. IsInjective(p)
    BY <1>4 DEF IsInjective
  <2>2. QED
    BY <1>4, <2>1 DEF Injection
<1>6. \A j \in D : \E i \in D : p[i] = j
  <2>1. p \in Surjection(D, D)
    BY <1>2, <1>5, FS_Injection
  <2>2. QED
    BY <2>1 DEF Surjection
<1>7. DOMAIN t = D /\ \A i \in D : t[i] = e[p[i]] /\ t[i] \in CertBlock
  BY <1>1, <1>3, <1>4
<1>8. t \in Seq(CertBlock)
  BY <1>1, <1>3, <1>7
<1>9. Ders(t) \subseteq Ders(e)
  BY <1>4, <1>7 DEF Ders, D
<1>10. Ders(e) \subseteq Ders(t)
  <2> SUFFICES ASSUME NEW j \in D PROVE e[j].der \in Ders(t)
    BY DEF Ders, D
  <2>1. PICK i \in D : p[i] = j
    BY <1>6
  <2>2. t[i].der = e[j].der
    BY <1>7, <2>1
  <2>3. QED
    BY <1>7, <2>2 DEF Ders
<1>11. QED
  BY <1>8, <1>9, <1>10

(* Without the certificates that are the leaf.                             *)
LEMMA StrippedFacts ==
    ASSUME NEW s \in Seq(CertBlock)
    PROVE  /\ Stripped(s) \in Seq(CertBlock)
           /\ Ders(Stripped(s)) = Ders(s) \ {s[1].der}
           /\ Stripped(s) = Pick(s, {i \in DOMAIN s : s[i].der # s[1].der})
<1> DEFINE I == {i \in DOMAIN s : s[i].der # s[1].der}
<1>1. Stripped(s) = Pick(s, I)
  BY DEF Stripped, Select
<1>2. I \in SUBSET (DOMAIN s)
  OBVIOUS
<1>3. Pick(s, I) \in Seq(CertBlock)
  BY <1>2, PickFacts
<1>4. s \in Seq(Block)
  BY BlocksOfFiles
<1>5. Ders(Pick(s, I)) = {s[i].der : i \in I}
  BY <1>2, <1>4, DersOfPick
<1>6. {s[i].der : i \in I} = Ders(s) \ {s[1].der}
  BY DEF Ders
<1>7. QED
  BY <1>1, <1>3, <1>5, <1>6

LEMMA FileFacts ==
    ASSUME NEW f \in KeystoreFile
    PROVE  /\ f.format \in {"JKS", "PKCS#12"}
           /\ f.trusted \in Seq(CertBlock)
           /\ f.keys = <<>> <=> DOMAIN f.keys = {}
           /\ Len(f.keys) = 1 => DOMAIN f.keys = {1}
           /\ \A i \in DOMAIN f.keys : f.keys[i].key \in KeyBlock
                                       /\ f.keys[i].certs \in Seq(CertBlock)
           /\ f.format = "PKCS#12" /\ f.keys # <<>> => Len(f.keys) = 1 /\ f.trusted = <<>>
<1> DEFINE Entry == [key : KeyBlock, certs : Seq(CertBlock)]
<1>1. /\ f \in [format : {"JKS", "PKCS#12"}, keys : Seq(Entry), trusted : Seq(CertBlock)]
      /\ f.format = "PKCS#12" /\ f.keys # <<>> => Len(f.keys) = 1 /\ f.trusted = <<>>
  BY DEF KeystoreFile
<1>2. f.keys \in Seq(Entry)
  BY <1>1
<1>3. \A x \in Entry : x.key \in KeyBlock /\ x.certs \in Seq(CertBlock)
  OBVIOUS
<1> HIDE DEF Entry
<1> DEFINE ks == f.keys
<1>4. /\ DOMAIN ks = 1 .. Len(ks) /\ Len(ks) \in Nat /\ (ks = <<>> <=> Len(ks) = 0)
      /\ \A i \in DOMAIN ks : ks[i] \in Entry
  BY <1>2
<1> HIDE DEF ks
<1>5. ks = <<>> <=> DOMAIN ks = {}
  BY <1>4
<1>6. Len(ks) = 1 => DOMAIN ks = {1}
  BY <1>4
<1>7. QED
  BY <1>1, <1>3, <1>4, <1>5, <1>6 DEF ks

LEMMA OneKeyCerts ==
    ASSUME NEW f, DOMAIN f.keys = {1}
    PROVE  FileCerts(f) = Ders(f.keys[1].certs) \cup Ders(f.trusted)
BY DEF FileCerts

(* A file without keys.                                                    *)
LEMMA PromotedFacts ==
    ASSUME NEW t \in Seq(CertBlock)
    PROVE  /\ Promoted(t) \in SkType
           /\ Promoted(t).leaf = IF t = <<>> THEN <<>> ELSE <<t[1]>>
           /\ Promoted(t).key = <<>>
           /\ SkCerts(Promoted(t)) = Ders(t)
<1>1. /\ Promoted(t).leaf = First(t) /\ Promoted(t).chain = Rest(t)
      /\ Promoted(t).key = <<>> /\ Promoted(t).keyless \in BOOLEAN
      /\ Promoted(t) = [leaf |-> First(t), chain |-> Rest(t), key |-> <<>>,
                        keyless |-> t # <<>>]
  BY DEF Promoted
<1>2. /\ First(t) = IF t = <<>> THEN <<>> ELSE <<t[1]>>
      /\ Rest(t) \in Seq(CertBlock)
      /\ t # <<>> => Rest(t) = Tail(t)
      /\ t = <<>> => Rest(t) = <<>>
  BY FirstAndRest
<1>3. t # <<>> => t[1] \in CertBlock
  OBVIOUS
<1>4. First(t) \in Seq(CertBlock)
  BY <1>2, <1>3
<1>5. <<>> \in Seq(KeyBlock)
  OBVIOUS
<1>6. Promoted(t) \in SkType
  BY <1>1, <1>2, <1>4, <1>5 DEF SkType
<1>7. Ders(First(t)) \cup Ders(Rest(t)) = Ders(t)
  <2>1. t \in Seq(Block)
    BY BlocksOfFiles
  <2>2. CASE t = <<>>
    BY <1>2, <2>2
  <2>3. CASE t # <<>>
    <3>1. Ders(t) = {t[1].der} \cup Ders(Tail(t))
      BY <2>1, <2>3, TailFacts
    <3>2. Ders(<<t[1]>>) = {t[1].der}
      BY DEF Ders
    <3>3. QED
      BY <1>2, <2>3, <3>1, <3>2
  <2>4. QED
    BY <2>2, <2>3
<1>8. QED
  BY <1>1, <1>2, <1>6, <1>7 DEF SkCerts

(* A key with its certificates, and a chain beside the leaf.               *)
LEMMA KeyedFacts ==
    ASSUME NEW key \in KeyBlock, NEW certs \in Seq(CertBlock), NEW chain \in Seq(CertBlock)
    PROVE  LET s == Keyed(key, certs, chain)
           IN  /\ s \in SkType /\ ~s.keyless
               /\ s.leaf = IF certs = <<>> THEN <<>> ELSE <<certs[1]>>
               /\ s.chain = chain
               /\ s.key = <<key>> /\ s.key # <<>>
<1> DEFINE s == Keyed(key, certs, chain)
<1>1. s = [leaf |-> First(certs), chain |-> chain, key |-> <<key>>, keyless |-> FALSE]
  BY DEF Keyed
<1>2. First(certs) = IF certs = <<>> THEN <<>> ELSE <<certs[1]>>
  BY FirstAndRest
<1>3. certs # <<>> => certs[1] \in CertBlock
  OBVIOUS
<1>4. First(certs) \in Seq(CertBlock) /\ <<key>> \in Seq(KeyBlock)
  BY <1>2, <1>3
<1> HIDE DEF s
<1>5. s \in SkType
  BY <1>1, <1>4 DEF SkType
<1>6. QED
  BY <1>1, <1>2, <1>5 DEF s

(* What a file without keys yields, certificate by certificate.            *)
LEMMA LoadedTrust ==
    ASSUME NEW f \in KeystoreFile, f.keys = <<>>,
           NEW t \in Seq(CertBlock), Ders(t) = Ders(f.trusted),
           Ders(t) \cap Malformed = {}, t # <<>>
    PROVE  LoadedFrom(Promoted(t), f)
<1> DEFINE s == Promoted(t)
<1>1. /\ s \in SkType /\ s.leaf = <<t[1]>> /\ s.key = <<>> /\ SkCerts(s) = Ders(t)
  BY PromotedFacts
<1>2. SkCerts(s) \subseteq Cert
  BY <1>1, BlocksOfFiles
<1>3. Len(f.keys) # 1
  BY FileFacts
<1>4. s.leaf[1].der \in Beside(f)
  <2>1. t[1].der \in Ders(t)
    BY DEF Ders
  <2>2. s.leaf[1] = t[1]
    BY <1>1
  <2>3. QED
    BY <2>1, <2>2 DEF Beside
<1> HIDE DEF s
<1>5. Len(s.leaf) = 1
  BY <1>1
<1>6. QED
  BY <1>1, <1>2, <1>3, <1>4, <1>5 DEF LoadedFrom, s

(* And what one with keys yields for that of i.                            *)
LEMMA LoadedKey ==
    ASSUME NEW f \in KeystoreFile, NEW i \in DOMAIN f.keys,
           f.keys[i].certs # <<>>,
           NEW chain \in Seq(CertBlock),
           Ders(<<f.keys[i].certs[1]>>) \cup Ders(chain) \subseteq Cert,
           f.keys[i].certs[1].der \in Ders(chain) => f.keys[i].certs[1].der \in Beside(f),
           FileCerts(f) \subseteq {f.keys[i].certs[1].der} \cup Ders(chain)
               \/ Len(f.keys) # 1,
           f.format = "PKCS#12" => chain = Stripped(f.keys[1].certs)
    PROVE  LoadedFrom(Keyed(f.keys[i].key, f.keys[i].certs, chain), f)
<1> DEFINE certs == f.keys[i].certs
           key == f.keys[i].key
           s == Keyed(key, certs, chain)
<1>1. key \in KeyBlock /\ certs \in Seq(CertBlock)
  BY FileFacts
<1>2. /\ s \in SkType /\ ~s.keyless /\ s.leaf = <<certs[1]>> /\ s.chain = chain
      /\ s.key = <<key>> /\ s.key # <<>>
  BY <1>1, KeyedFacts
<1>3. KeyOf(s, f)
  BY <1>2 DEF KeyOf
<1>4. Ders(<<certs[1]>>) = {certs[1].der}
  BY DEF Ders
<1> HIDE DEF s, certs, key
<1>5. SkCerts(s) = {certs[1].der} \cup Ders(chain) /\ SkCerts(s) \subseteq Cert
  BY <1>2, <1>4 DEF SkCerts, certs
<1>6. Len(f.keys) = 1 => FileCerts(f) \subseteq SkCerts(s)
  BY <1>5 DEF certs
<1>7. s.leaf[1].der = certs[1].der /\ Len(s.leaf) = 1
  BY <1>2
<1>8. s.leaf[1].der \in Ders(s.chain) => s.leaf[1].der \in Beside(f)
  BY <1>2, <1>7 DEF certs
<1>9. QED
  BY <1>2, <1>3, <1>5, <1>6, <1>7, <1>8 DEF LoadedFrom, s, certs, key

(* What loadSource returns of a file, if there is a leaf.                  *)
LEMMA LoadFacts ==
    ASSUME NEW f \in KeystoreFile, NEW s \in LoadSource(f), s.leaf # <<>>
    PROVE  LoadedFrom(s, f)
<1>1. Ders(s.leaf \o s.chain) \cap Malformed = {}
  BY DEF LoadSource
<1>2. CASE f.keys = <<>>
  <2>1. PICK t \in Seq(CertBlock) : s = Promoted(t) /\ Ders(t) = Ders(f.trusted)
    <3>1. CASE f.format = "JKS"
      <4>1. PICK t \in AnyOrder(f.trusted) : s = Promoted(t)
        BY <1>2, <3>1 DEF LoadSource, FromJKS
      <4>2. QED
        BY <4>1, FileFacts, AnyOrderFacts
    <3>2. CASE f.format # "JKS"
      <4>1. s = Promoted(f.trusted)
        BY <1>2, <3>2 DEF LoadSource, FromPKCS12
      <4>2. QED
        BY <4>1, FileFacts
    <3>3. QED
      BY <3>1, <3>2
  <2>2. /\ s \in SkType /\ SkCerts(s) = Ders(t)
        /\ s.leaf = IF t = <<>> THEN <<>> ELSE <<t[1]>>
    BY <2>1, PromotedFacts
  <2>3. s.leaf \in Seq(Block) /\ s.chain \in Seq(Block)
    BY <2>2, BlocksOfFiles DEF SkType
  <2>4. Ders(s.leaf \o s.chain) = Ders(t)
    BY <2>2, <2>3, DersOfConcat DEF SkCerts
  <2>5. QED
    BY <1>1, <1>2, <2>1, <2>2, <2>4, LoadedTrust
<1>3. CASE f.keys # <<>> /\ f.format = "JKS"
  <2>1. PICK i \in DOMAIN f.keys, t \in AnyOrder(f.trusted) :
            s = Keyed(f.keys[i].key, f.keys[i].certs, t \o Rest(f.keys[i].certs))
    <3>1. s \in {Keyed(e.key, e.certs, t \o Rest(e.certs)) :
                     e \in ToSet(f.keys), t \in AnyOrder(f.trusted)}
      BY <1>3 DEF LoadSource, FromJKS
    <3>2. QED
      BY <3>1 DEF ToSet
  <2> DEFINE certs == f.keys[i].certs
             key == f.keys[i].key
             chain == t \o Rest(certs)
  <2>2. certs \in Seq(CertBlock) /\ key \in KeyBlock /\ f.trusted \in Seq(CertBlock)
    BY FileFacts
  <2> HIDE DEF certs, key
  <2>3. t \in Seq(CertBlock) /\ Ders(t) = Ders(f.trusted)
    BY <2>2, AnyOrderFacts
  <2>4. Rest(certs) \in Seq(CertBlock) /\ chain \in Seq(CertBlock)
    BY <2>2, <2>3, FirstAndRest
  <2>5. s = Keyed(key, certs, chain)
    BY <2>1 DEF certs, key
  <2> HIDE DEF chain
  <2>6. /\ s \in SkType /\ s.chain = chain
        /\ s.leaf = IF certs = <<>> THEN <<>> ELSE <<certs[1]>>
    BY <2>2, <2>4, <2>5, KeyedFacts
  <2>7. certs # <<>> /\ s.leaf = <<certs[1]>> /\ Rest(certs) = Tail(certs)
    BY <2>2, <2>6, FirstAndRest
  <2>8. /\ t \in Seq(Block) /\ Tail(certs) \in Seq(Block) /\ certs \in Seq(Block)
        /\ s.leaf \in Seq(Block) /\ chain \in Seq(Block)
    BY <2>2, <2>3, <2>4, <2>6, <2>7, BlocksOfFiles DEF SkType
  <2>9. Ders(chain) = Ders(f.trusted) \cup Ders(Tail(certs))
    BY <2>3, <2>7, <2>8, DersOfConcat DEF chain
  <2>10. Ders(certs) = {certs[1].der} \cup Ders(Tail(certs)) /\ Ders(<<certs[1]>>) = {certs[1].der}
    <3>1. Ders(certs) = {certs[1].der} \cup Ders(Tail(certs))
      BY <2>7, <2>8, TailFacts
    <3>2. Ders(<<certs[1]>>) = {certs[1].der}
      BY DEF Ders
    <3>3. QED
      BY <3>1, <3>2
  <2>11. Ders(<<certs[1]>>) \cup Ders(chain) \subseteq Cert
    <3>1. Ders(s.leaf \o s.chain) = Ders(<<certs[1]>>) \cup Ders(chain)
      BY <2>6, <2>7, <2>8, DersOfConcat
    <3>2. Ders(s.leaf) \cup Ders(chain) \subseteq Cert \cup Malformed
      BY <2>4, <2>6, BlocksOfFiles DEF SkType
    <3>3. QED
      BY <1>1, <2>7, <3>1, <3>2
  <2>12. Ders(Tail(certs)) \subseteq Beside(f)
    BY <1>3 DEF Beside, certs
  <2>13. Len(f.keys) = 1 => FileCerts(f) \subseteq {certs[1].der} \cup Ders(chain)
    <3>1. SUFFICES ASSUME Len(f.keys) = 1 PROVE FileCerts(f) \subseteq {certs[1].der} \cup Ders(chain)
      OBVIOUS
    <3>2. DOMAIN f.keys = {1} /\ i = 1
      BY <3>1, FileFacts
    <3>3. certs = f.keys[1].certs
      BY <3>2 DEF certs
    <3>4. FileCerts(f) = Ders(f.keys[1].certs) \cup Ders(f.trusted)
      BY <3>2, OneKeyCerts
    <3>5. QED
      BY <2>9, <2>10, <3>3, <3>4
  <2>14. Ders(chain) \subseteq Beside(f)
    BY <2>9, <2>12 DEF Beside
  <2>15. QED
    BY <1>3, <2>4, <2>5, <2>7, <2>11, <2>13, <2>14, LoadedKey DEF certs, key
<1>4. CASE f.keys # <<>> /\ f.format = "PKCS#12"
  <2> DEFINE certs == f.keys[1].certs
             key == f.keys[1].key
             chain == Stripped(certs)
  <2>1. s = Keyed(key, certs, chain)
    BY <1>4 DEF LoadSource, FromPKCS12, Stripped
  <2>2. DOMAIN f.keys = {1} /\ f.trusted = <<>> /\ certs \in Seq(CertBlock) /\ key \in KeyBlock
    BY <1>4, FileFacts
  <2>3. chain \in Seq(CertBlock) /\ Ders(chain) = Ders(certs) \ {certs[1].der}
    <3> HIDE DEF certs
    <3>1. QED
      BY <2>2, StrippedFacts
  <2> HIDE DEF certs, key, chain
  <2>4. /\ s \in SkType /\ s.chain = chain
        /\ s.leaf = IF certs = <<>> THEN <<>> ELSE <<certs[1]>>
    BY <2>1, <2>2, <2>3, KeyedFacts
  <2>5. certs # <<>> /\ s.leaf = <<certs[1]>>
    BY <2>4
  <2>6. s.leaf \in Seq(Block) /\ chain \in Seq(Block)
    BY <2>3, <2>4, BlocksOfFiles DEF SkType
  <2>7. Ders(<<certs[1]>>) = {certs[1].der}
    BY DEF Ders
  <2>8. Ders(<<certs[1]>>) \cup Ders(chain) \subseteq Cert
    <3>1. Ders(s.leaf \o s.chain) = Ders(<<certs[1]>>) \cup Ders(chain)
      BY <2>4, <2>5, <2>6, DersOfConcat
    <3>2. Ders(s.leaf) \cup Ders(chain) \subseteq Cert \cup Malformed
      BY <2>3, <2>4, BlocksOfFiles DEF SkType
    <3>3. QED
      BY <1>1, <2>5, <3>1, <3>2
  <2>9. FileCerts(f) = Ders(certs)
    <3>1. Ders(f.trusted) = {}
      BY <2>2 DEF Ders
    <3>2. QED
      BY <2>2, <3>1, OneKeyCerts DEF certs
  <2>10. FileCerts(f) \subseteq {certs[1].der} \cup Ders(chain)
    BY <2>3, <2>9
  <2>11. 1 \in DOMAIN f.keys
    BY <2>2
  <2>12. QED
    BY <2>1, <2>3, <2>5, <2>8, <2>10, <2>11, LoadedKey DEF certs, key, chain
<1>5. QED
  BY <1>2, <1>3, <1>4, FileFacts

(* A truststore's certificates.                                            *)
LEMMA TrustFacts ==
    ASSUME NEW f \in KeystoreFile, NEW s \in LoadSource(f), s.keyless
    PROVE  /\ s.leaf \o s.chain \in Seq(CertBlock)
           /\ Ders(s.leaf \o s.chain) = Ders(f.trusted)
           /\ Ders(f.trusted) \subseteq Cert
<1>1. f.keys = <<>>
  <2> SUFFICES ASSUME f.keys # <<>> PROVE FALSE
    OBVIOUS
  <2>1. CASE f.format = "JKS"
    <3>1. s \in {Keyed(e.key, e.certs, t \o Rest(e.certs)) :
                     e \in ToSet(f.keys), t \in AnyOrder(f.trusted)}
      BY <2>1 DEF LoadSource, FromJKS
    <3>2. QED
      BY <3>1 DEF Keyed
  <2>2. CASE f.format # "JKS"
    <3>1. s = FromPKCS12(f)
      BY <2>2 DEF LoadSource
    <3>2. QED
      BY <3>1 DEF FromPKCS12, Keyed
  <2>3. QED
    BY <2>1, <2>2
<1>2. PICK t \in Seq(CertBlock) : s = Promoted(t) /\ Ders(t) = Ders(f.trusted)
  <2>1. CASE f.format = "JKS"
    <3>1. PICK t \in AnyOrder(f.trusted) : s = Promoted(t)
      BY <1>1, <2>1 DEF LoadSource, FromJKS
    <3>2. QED
      BY <3>1, FileFacts, AnyOrderFacts
  <2>2. CASE f.format # "JKS"
    <3>1. s = Promoted(f.trusted)
      BY <1>1, <2>2 DEF LoadSource, FromPKCS12
    <3>2. QED
      BY <3>1, FileFacts
  <2>3. QED
    BY <2>1, <2>2
<1>3. s \in SkType /\ SkCerts(s) = Ders(t)
  BY <1>2, PromotedFacts
<1>4. s.leaf \in Seq(CertBlock) /\ s.chain \in Seq(CertBlock)
  BY <1>3 DEF SkType
<1>5. Ders(s.leaf \o s.chain) = Ders(t)
  BY <1>3, <1>4, BlocksOfFiles, DersOfConcat DEF SkCerts
<1>6. Ders(t) \subseteq Cert \cup Malformed /\ Ders(t) \cap Malformed = {}
  BY <1>5, BlocksOfFiles DEF LoadSource
<1>7. s.leaf \o s.chain \in Seq(CertBlock)
  BY <1>4
<1>8. QED
  BY <1>2, <1>5, <1>6, <1>7

-----------------------------------------------------------------------------
(* The payload, read back. *)

LEMMA KeysAreBlocks ==
    ASSUME NEW s \in Seq(KeyBlock)
    PROVE  s \in Seq(Block) /\ Plain(s) /\ \A i \in DOMAIN s : s[i] \in Block /\ IsKey(s[i])
<1>1. /\ DOMAIN s = 1 .. Len(s) /\ Len(s) \in Nat
      /\ \A i \in DOMAIN s : s[i] \in KeyBlock
  OBVIOUS
<1>2. \A b \in KeyBlock : b \in Block /\ IsKey(b) /\ ~b.glued /\ b.der # Binary
  BY PEMConstants DEF KeyBlock, IsKey, Binary
<1>3. s \in Seq(Block)
  <2>1. \A i \in 1 .. Len(s) : s[i] \in Block
    BY <1>1, <1>2
  <2>2. QED
    BY <1>1, <2>1
<1>4. Plain(s)
  BY <1>1, <1>2 DEF Plain, IsBlock
<1>5. QED
  BY <1>1, <1>2, <1>3, <1>4

LEMMA EncodedPlain ==
    ASSUME NEW bs \in Seq(Block), Plain(bs)
    PROVE  /\ Encode(bs) \in Text /\ Encode(bs).blocks = bs /\ Decode(Encode(bs)) = bs
           /\ Closed(Encode(bs))
           /\ Encode(bs) = Empty <=> bs = <<>>
<1>1. Encode(bs) \in Text /\ Encode(bs).blocks = bs /\ ~Encode(bs).open
  BY EncodeFacts
<1>2. Decode(Encode(bs)) = Encode(bs).blocks
  BY <1>1, DecodeFacts
<1>3. Closed(Encode(bs))
  BY <1>1 DEF Closed
<1>4. QED
  BY <1>1, <1>2, <1>3, EncodeFacts

LEMMA PayloadFacts ==
    ASSUME NEW s \in SkType
    PROVE  LET d == Payload(s)
           IN  /\ PayloadParts(d) \in PartsType
               /\ Closed(d.certificate) /\ d.certificate.blocks = s.leaf
               /\ Decode(d.certificate) = s.leaf
               /\ CertsOf(d.certificate) = Ders(s.leaf)
               /\ d.certificate = Empty <=> s.leaf = <<>>
               /\ Closed(d.certificate_chain) /\ d.certificate_chain.blocks = s.chain
               /\ Certs(d.certificate_chain) = s.chain
               /\ CertsOf(d.certificate_chain) = Ders(s.chain)
               /\ d.certificate_chain = Empty <=> s.chain = <<>>
               /\ Closed(d.private_key) /\ d.private_key.blocks = s.key
               /\ Decode(d.private_key) = s.key
               /\ d.private_key = Empty <=> s.key = <<>>
<1>1. s.leaf \in Seq(CertBlock) /\ s.chain \in Seq(CertBlock) /\ s.key \in Seq(KeyBlock)
  BY DEF SkType
<1>2. ASSUME NEW c \in Seq(CertBlock)
      PROVE  /\ Encode(c) \in Text /\ Closed(Encode(c)) /\ Encode(c).blocks = c
             /\ Decode(Encode(c)) = c /\ Certs(Encode(c)) = c
             /\ CertsOf(Encode(c)) = Ders(c)
             /\ Encode(c) = Empty <=> c = <<>>
  <2>1. /\ c \in Seq(Block) /\ Plain(c) /\ \A i \in DOMAIN c : IsCert(c[i])
        /\ Ders(c) \subseteq Cert \cup Malformed
    BY BlocksOfFiles
  <2>2. /\ Encode(c) \in Text /\ Closed(Encode(c)) /\ Encode(c).blocks = c
        /\ Decode(Encode(c)) = c /\ (Encode(c) = Empty <=> c = <<>>)
    BY <2>1, EncodedPlain
  <2>3. Certs(Encode(c)) = c
    BY <2>1, <2>2, CertSelection DEF Certs
  <2>4. CertsOf(Encode(c)) = Ders(c)
    BY <2>1, <2>2 DEF CertsOf
  <2>5. QED
    BY <2>2, <2>3, <2>4
<1>3. /\ Encode(s.key) \in Text /\ Closed(Encode(s.key)) /\ Encode(s.key).blocks = s.key
      /\ Decode(Encode(s.key)) = s.key
      /\ Encode(s.key) = Empty <=> s.key = <<>>
  BY <1>1, KeysAreBlocks, EncodedPlain
<1> DEFINE d == Payload(s)
<1>4. /\ d.certificate = Encode(s.leaf) /\ d.certificate_chain = Encode(s.chain)
      /\ d.private_key = Encode(s.key)
  BY DEF Payload
<1> HIDE DEF d
<1>5. PayloadParts(d) \in PartsType
  BY <1>1, <1>2, <1>3, <1>4 DEF PayloadParts, PartsType
<1>6. QED
  BY <1>1, <1>2, <1>3, <1>4, <1>5 DEF d

(* What the cross-check amounts to.                                        *)
LEMMA VerdictFacts ==
    ASSUME sk \in SkType, Len(sk.leaf) = 1, sk.keyless => sk.key = <<>>, doc = Payload(sk)
    PROVE  VerifyPayload <=> /\ sk.leaf[1].der \notin Ders(sk.chain)
                             /\ TruststoreCerts \subseteq Ders(sk.chain)
<1>1. /\ Decode(doc.certificate) = sk.leaf
      /\ Certs(doc.certificate_chain) = sk.chain
      /\ Decode(doc.private_key) = sk.key
      /\ sk.key = <<>> => doc.private_key = Empty
  BY PayloadFacts
<1>2. sk.leaf \in Seq(CertBlock)
  BY DEF SkType
<1>3. sk.leaf # <<>> /\ IsCert(sk.leaf[1])
  <2>1. sk.leaf # <<>> /\ 1 \in DOMAIN sk.leaf
    BY <1>2
  <2>2. QED
    BY <1>2, <2>1, BlocksOfFiles
<1>4. QED
  BY <1>1, <1>3 DEF VerifyPayload

-----------------------------------------------------------------------------
(* A path that repeats its leaf among the CAs. *)

LEMMA DedupStripped ==
    ASSUME NEW bs \in Seq(CertBlock), bs # <<>>
    PROVE  Dedup(bs) = <<bs[1]>> \o Dedup(Stripped(bs))
<1> DEFINE J == {i \in DOMAIN bs : bs[i].der # bs[1].der}
           u == Pick(bs, J)
           at == Ascending(J)
           m == Cardinality(J)
           K == {k \in DOMAIN u : \A l \in DOMAIN u : l < k => u[l].der # u[k].der}
           bt == Ascending(K)
           n == Cardinality(K)
           D == {i \in DOMAIN bs : \A j \in DOMAIN bs : j < i => bs[j].der # bs[i].der}
           dt == [k \in 1 .. n + 1 |-> IF k = 1 THEN 1 ELSE at[bt[k - 1]]]
<1>1. bs \in Seq(Block) /\ DOMAIN bs = 1 .. Len(bs) /\ Len(bs) \in Nat /\ 1 \in DOMAIN bs
  <2>1. bs \in Seq(Block)
    BY BlocksOfFiles
  <2>2. QED
    BY <2>1
<1>2. J \in SUBSET (DOMAIN bs) /\ D \in SUBSET (DOMAIN bs) /\ K \in SUBSET (DOMAIN u)
  OBVIOUS
<1>3. Stripped(bs) = u
  BY StrippedFacts
<1>4. Dedup(bs) = Pick(bs, D) /\ Dedup(u) = Pick(u, K)
  BY DEF Dedup
<1>5. /\ Lists(at, m, J) /\ u \in Seq(Block) /\ Len(u) = m
      /\ \A k \in 1 .. m : u[k] = bs[at[k]]
  <2> HIDE DEF J
  <2>1. QED
    BY <1>1, <1>2, PickFacts
<1>6. DOMAIN u = 1 .. m /\ m \in Nat
  BY <1>5
<1>7. J \subseteq DOMAIN bs /\ (\A i \in J : bs[i].der # bs[1].der)
      /\ \A i \in DOMAIN bs : bs[i].der # bs[1].der => i \in J
  OBVIOUS
<1>8. \A k \in 1 .. m : k \in K <=> \A l \in 1 .. m : l < k => u[l].der # u[k].der
  BY <1>6
<1>9. \A i \in DOMAIN bs : i \in D <=> \A j \in DOMAIN bs : j < i => bs[j].der # bs[i].der
  OBVIOUS
<1> HIDE DEF J, u, at, m
<1>10. /\ Lists(bt, n, K) /\ Pick(u, K) \in Seq(Block) /\ Len(Pick(u, K)) = n
       /\ \A k \in 1 .. n : Pick(u, K)[k] = u[bt[k]]
  <2> HIDE DEF K
  <2>1. QED
    BY <1>2, <1>5, PickFacts
<1> HIDE DEF K, bt, n, D
<1>11. /\ n \in Nat /\ \A k \in 1 .. n : bt[k] \in K /\ bt[k] \in 1 .. m
       /\ \A k, l \in 1 .. n : k < l => bt[k] < bt[l]
       /\ \A k \in K : \E l \in 1 .. n : bt[l] = k
  BY <1>2, <1>6, <1>10 DEF Lists
<1>12. /\ \A k \in 1 .. m : at[k] \in J /\ at[k] \in DOMAIN bs /\ at[k] \in Nat /\ at[k] > 1
       /\ \A k, l \in 1 .. m : k < l => at[k] < at[l]
       /\ \A i \in J : \E k \in 1 .. m : at[k] = i
  <2>1. /\ \A k \in 1 .. m : at[k] \in J
        /\ \A k, l \in 1 .. m : k < l => at[k] < at[l]
        /\ \A i \in J : \E k \in 1 .. m : at[k] = i
    BY <1>5 DEF Lists
  <2>2. \A i \in J : i \in DOMAIN bs /\ i # 1
    BY <1>7
  <2>3. QED
    BY <1>1, <2>1, <2>2
<1>13. 1 \in D
  BY <1>1, <1>9
<1>14. ASSUME NEW k \in K PROVE at[k] \in D
  <2>1. k \in 1 .. m
    BY <1>2, <1>6
  <2> SUFFICES ASSUME NEW j \in DOMAIN bs, j < at[k], bs[j].der = bs[at[k]].der
               PROVE  FALSE
    BY <1>9, <1>12, <2>1
  <2>2. j \in J
    BY <1>7, <1>12, <2>1
  <2>3. PICK l \in 1 .. m : at[l] = j
    BY <1>12, <2>2
  <2>4. l < k
    BY <1>12, <2>1, <2>3
  <2>5. QED
    BY <1>5, <1>8, <2>1, <2>3, <2>4
<1>15. ASSUME NEW i \in D, i # 1 PROVE \E k \in K : at[k] = i
  <2>1. i \in DOMAIN bs /\ i > 1
    BY <1>1, <1>2, <1>15
  <2>2. i \in J
    BY <1>1, <1>7, <1>9, <2>1
  <2>3. PICK k \in 1 .. m : at[k] = i
    BY <1>12, <2>2
  <2>4. ASSUME NEW l \in 1 .. m, l < k PROVE u[l].der # u[k].der
    <3>1. at[l] \in DOMAIN bs /\ at[l] < i
      BY <1>12, <2>3, <2>4
    <3>2. bs[at[l]].der # bs[i].der
      BY <1>9, <2>1, <3>1
    <3>3. QED
      BY <1>5, <2>3, <3>2
  <2>5. QED
    BY <1>8, <2>3, <2>4
<1>16. \A k \in 1 .. n : at[bt[k]] \in D /\ at[bt[k]] > 1 /\ at[bt[k]] \in Nat
  BY <1>11, <1>12, <1>14
<1>17. Lists(dt, n + 1, D)
  <2>1. /\ dt \in [1 .. n + 1 -> D]
        /\ dt[1] = 1
        /\ \A k \in 1 .. n : dt[k + 1] = at[bt[k]]
    <3>1. \A k \in 1 .. n + 1 : dt[k] = IF k = 1 THEN 1 ELSE at[bt[k - 1]]
      OBVIOUS
    <3>2. \A k \in 1 .. n + 1 : k # 1 => k - 1 \in 1 .. n
      BY <1>11
    <3>3. \A k \in 1 .. n + 1 : dt[k] \in D
      BY <1>13, <1>16, <3>1, <3>2
    <3>4. dt \in [1 .. n + 1 -> D]
      BY <3>3
    <3>5. \A k \in 1 .. n : k + 1 \in 1 .. n + 1 /\ k + 1 # 1 /\ k + 1 - 1 = k
      BY <1>11
    <3>6. 1 \in 1 .. n + 1
      BY <1>11
    <3>7. QED
      BY <3>1, <3>4, <3>5, <3>6
  <2> HIDE DEF dt
  <2>2. ASSUME NEW k \in 1 .. n + 1, NEW l \in 1 .. n + 1, k < l
        PROVE  dt[k] < dt[l]
    <3>1. l - 1 \in 1 .. n /\ dt[l] = at[bt[l - 1]]
      BY <1>11, <2>1, <2>2
    <3>2. CASE k = 1
      BY <1>16, <2>1, <3>1, <3>2
    <3>3. CASE k # 1
      <4>1. k - 1 \in 1 .. n /\ k - 1 < l - 1 /\ dt[k] = at[bt[k - 1]]
        BY <1>11, <2>1, <2>2, <3>3
      <4>2. bt[k - 1] < bt[l - 1]
        BY <1>11, <3>1, <4>1
      <4>3. QED
        BY <1>11, <1>12, <3>1, <4>1, <4>2
    <3>4. QED
      BY <3>2, <3>3
  <2>3. ASSUME NEW i \in D PROVE \E k \in 1 .. n + 1 : dt[k] = i
    <3>1. CASE i = 1
      BY <1>11, <2>1, <3>1
    <3>2. CASE i # 1
      <4>1. PICK k \in K : at[k] = i
        BY <1>15, <3>2
      <4>2. PICK l \in 1 .. n : bt[l] = k
        BY <1>11
      <4>3. l + 1 \in 1 .. n + 1 /\ dt[l + 1] = i
        BY <1>11, <2>1, <4>1, <4>2
      <4>4. QED
        BY <4>3
    <3>3. QED
      BY <3>1, <3>2
  <2>4. QED
    BY <1>11, <2>1, <2>2, <2>3 DEF Lists
<1>18. /\ Pick(bs, D) \in Seq(Block) /\ Len(Pick(bs, D)) = n + 1
       /\ \A k \in 1 .. n + 1 : Pick(bs, D)[k] = bs[dt[k]]
  <2> DEFINE N == n + 1
  <2> HIDE DEF dt
  <2>1. Lists(dt, N, D)
    BY <1>17
  <2> HIDE DEF N
  <2>2. /\ Pick(bs, D) \in Seq(Block) /\ Len(Pick(bs, D)) = N
        /\ \A k \in 1 .. N : Pick(bs, D)[k] = bs[dt[k]]
    BY <1>1, <1>2, <2>1, PickByList
  <2>3. QED
    BY <2>2 DEF N
<1>19. /\ dt[1] = 1
       /\ \A k \in 1 .. n + 1 : k # 1 => dt[k] = at[bt[k - 1]] /\ k - 1 \in 1 .. n
  BY <1>11
<1> DEFINE v == Pick(u, K)
           w == <<bs[1]>> \o v
<1> HIDE DEF dt, v
<1>20. v \in Seq(Block) /\ Len(v) = n /\ \A k \in 1 .. n : v[k] = bs[at[bt[k]]]
  BY <1>5, <1>10, <1>11 DEF v
<1>21. <<bs[1]>> \in Seq(Block) /\ Len(<<bs[1]>>) = 1 /\ <<bs[1]>>[1] = bs[1]
  BY <1>1
<1>22. /\ w \in Seq(Block) /\ Len(w) = n + 1
       /\ \A k \in 1 .. n + 1 : w[k] = IF k <= 1 THEN <<bs[1]>>[k] ELSE v[k - 1]
  BY <1>11, <1>20, <1>21, ConcatProperties
<1> HIDE DEF w
<1>23. \A k \in 1 .. n + 1 : w[k] = Pick(bs, D)[k]
  <2> SUFFICES ASSUME NEW k \in 1 .. n + 1 PROVE w[k] = Pick(bs, D)[k]
    OBVIOUS
  <2>1. CASE k = 1
    BY <1>11, <1>18, <1>19, <1>21, <1>22, <2>1
  <2>2. CASE k # 1
    <3>1. w[k] = v[k - 1] /\ k - 1 \in 1 .. n
      BY <1>11, <1>19, <1>22, <2>2
    <3>2. QED
      BY <1>18, <1>19, <1>20, <2>2, <3>1
  <2>3. QED
    BY <2>1, <2>2
<1>24. w = Pick(bs, D)
  BY <1>18, <1>22, <1>23, SeqEqual
<1>25. QED
  BY <1>3, <1>4, <1>24 DEF w, v

-----------------------------------------------------------------------------
(* The payload, as the controller parses it. *)

LEMMA ParsedPayload ==
    ASSUME NEW s \in SkType, Len(s.leaf) = 1, SkCerts(s) \subseteq Cert
    PROVE  LET p == Normalized(PayloadParts(Payload(s)))
           IN  /\ Clean(p.leaf) /\ p.leaf.blocks = s.leaf /\ Decode(p.leaf) = s.leaf
               /\ Parses(s.leaf[1])
               /\ p.chain = Empty <=> s.chain = <<>>
               /\ s.chain # <<>> => Decode(p.chain) = Dedup(s.chain)
               /\ s.key # <<>> => /\ Decode(p.key) # <<>> /\ Decode(p.key)[1] = s.key[1]
                                  /\ p.key # Empty /\ IsKey(s.key[1])
<1> DEFINE d == Payload(s)
           p == Normalized(PayloadParts(d))
<1>1. /\ PayloadParts(d) \in PartsType
      /\ Closed(d.certificate) /\ d.certificate.blocks = s.leaf
      /\ d.certificate = Empty <=> s.leaf = <<>>
      /\ Closed(d.certificate_chain) /\ d.certificate_chain.blocks = s.chain
      /\ d.certificate_chain = Empty <=> s.chain = <<>>
      /\ Closed(d.private_key) /\ d.private_key.blocks = s.key
      /\ d.private_key = Empty <=> s.key = <<>>
  BY PayloadFacts
<1> HIDE DEF d
<1>2. /\ p.leaf = NormalizePEM(d.certificate)
      /\ p.chain = NormalizePEM(d.certificate_chain)
      /\ p.key = NormalizePEM(d.private_key)
  BY DEF Normalized, PayloadParts
<1> HIDE DEF p
<1>3. /\ d.certificate \in Text /\ d.certificate_chain \in Text /\ d.private_key \in Text
      /\ Plain(s.leaf) /\ Plain(s.chain) /\ Plain(s.key)
  BY <1>1 DEF Closed
<1>4. /\ s.leaf \in Seq(CertBlock) /\ s.leaf \in Seq(Block)
      /\ s.key \in Seq(KeyBlock)
  BY BlocksOfFiles DEF SkType
<1>5. s.leaf # <<>> /\ DOMAIN s.leaf = {1}
  BY <1>4, OneElement
<1>6. Parses(s.leaf[1])
  <2>1. s.leaf[1].der \in Ders(s.leaf)
    BY <1>5 DEF Ders
  <2>2. QED
    BY <2>1 DEF SkCerts, Parses
<1>7. Dedup(s.leaf) = s.leaf
  <2>1. Distinct(s.leaf)
    BY <1>5 DEF Distinct
  <2>2. QED
    BY <1>4, <2>1, DedupFacts
<1>8. Clean(p.leaf) /\ p.leaf.blocks = s.leaf
  BY <1>1, <1>2, <1>3, <1>5, <1>7, NormalizePlain
<1>9. Decode(p.leaf) = s.leaf
  BY <1>8, CleanFacts
<1>10. p.chain = Empty <=> s.chain = <<>>
  BY <1>1, <1>2, <1>3, NormalizeFacts
<1>11. s.chain # <<>> => Decode(p.chain) = Dedup(s.chain)
  BY <1>1, <1>2, <1>3, NormalizePlain, CleanFacts
<1>12. ASSUME s.key # <<>>
       PROVE  /\ Decode(p.key) # <<>> /\ Decode(p.key)[1] = s.key[1]
              /\ p.key # Empty /\ IsKey(s.key[1])
  <2>1. /\ Clean(p.key) /\ p.key.blocks # <<>> /\ p.key.blocks[1] = s.key[1]
    BY <1>1, <1>2, <1>3, <1>12, NormalizePlain
  <2>2. Decode(p.key) = p.key.blocks
    BY <2>1, CleanFacts
  <2>3. p.key # Empty
    BY <2>1 DEF Empty
  <2>4. 1 \in DOMAIN s.key
    BY <1>4, <1>12
  <2>5. IsKey(s.key[1])
    BY <1>4, <2>4, KeysAreBlocks
  <2>6. QED
    BY <2>1, <2>2, <2>3, <2>5
<1>13. QED
  BY <1>6, <1>8, <1>9, <1>10, <1>11, <1>12 DEF p, d

(* The controller sees the path that the program has read.                 *)
LEMMA PayloadOnPath ==
    ASSUME sk \in SkType, Len(sk.leaf) = 1, SkCerts(sk) \subseteq Cert
    PROVE  LET p == Normalized(PayloadParts(Payload(sk)))
           IN  VerifyChain(p.leaf, p.chain) <=> OnPath
<1> DEFINE p == Normalized(PayloadParts(Payload(sk)))
           ds == Dedup(sk.chain)
<1>1. /\ Decode(p.leaf) = sk.leaf /\ Parses(sk.leaf[1])
      /\ p.chain = Empty <=> sk.chain = <<>>
      /\ sk.chain # <<>> => Decode(p.chain) = ds
  BY ParsedPayload
<1>2. sk.leaf # <<>> /\ sk.leaf = <<sk.leaf[1]>> /\ sk.chain \in Seq(Block)
  <2>1. sk.leaf \in Seq(CertBlock)
    BY DEF SkType
  <2>2. sk.leaf # <<>> /\ DOMAIN sk.leaf = {1}
    BY <2>1, OneElement
  <2>3. sk.leaf = <<sk.leaf[1]>>
    BY <2>1
  <2>4. sk.chain \in Seq(Block)
    BY BlocksOfFiles DEF SkType
  <2>5. QED
    BY <2>2, <2>3, <2>4
<1>3. /\ ds \in Seq(Block) /\ Ders(ds) = Ders(sk.chain)
      /\ ds = <<>> <=> sk.chain = <<>>
  BY <1>2, DedupFacts
<1> HIDE DEF p, ds
<1>4. OnPath <=> IsPath(sk.leaf \o ds)
  BY DEF OnPath, ds
<1>5. CASE sk.chain = <<>>
  <2>1. sk.leaf \o ds = <<sk.leaf[1]>>
    <3>1. ds = <<>>
      BY <1>3, <1>5
    <3>2. <<sk.leaf[1]>> \o <<>> = <<sk.leaf[1]>>
      OBVIOUS
    <3>3. QED
      BY <1>2, <3>1, <3>2
  <2>2. IsPath(<<sk.leaf[1]>>)
    BY DEF IsPath
  <2>3. QED
    BY <1>1, <1>4, <1>5, <2>1, <2>2 DEF VerifyChain, p
<1>6. CASE sk.chain # <<>>
  <2>1. ds # <<>> /\ \A i \in DOMAIN ds : Parses(ds[i])
    <3>1. \A i \in DOMAIN ds : ds[i].der \in Ders(ds)
      BY DEF Ders
    <3>2. QED
      BY <1>3, <1>6, <3>1 DEF SkCerts, Parses
  <2>2. Decode(p.chain) = ds /\ p.chain # Empty
    BY <1>1, <1>6
  <2>3. <<Decode(p.leaf)[1]>> \o Decode(p.chain) = sk.leaf \o ds
    BY <1>1, <1>2, <2>2
  <2>4. VerifyChain(p.leaf, p.chain) <=> IsPath(<<Decode(p.leaf)[1]>> \o Decode(p.chain))
    BY <1>1, <1>2, <2>1, <2>2 DEF VerifyChain
  <2>5. QED
    BY <1>4, <2>3, <2>4 DEF p
<1>7. QED
  BY <1>5, <1>6

(* A path out of a PKCS#12 file is one for the controller too.             *)
LEMMA ConvertibleOnPath ==
    ASSUME source \in KeystoreFile, LoadedFrom(sk, source), Convertible
    PROVE  sk.key # <<>> /\ OnPath
<1> DEFINE certs == source.keys[1].certs
<1>1. source.format = "PKCS#12" /\ source.keys # <<>> /\ IsPath(Dedup(certs))
  BY DEF Convertible
<1>2. DOMAIN source.keys = {1} /\ Len(source.keys) = 1 /\ certs \in Seq(CertBlock)
  BY <1>1, FileFacts
<1>3. sk.key # <<>> /\ KeyOf(sk, source) /\ sk.chain = Stripped(certs)
  BY <1>2 DEF LoadedFrom, Convertible
<1>4. certs # <<>> /\ sk.leaf = <<certs[1]>>
  BY <1>2, <1>3 DEF KeyOf
<1> HIDE DEF certs
<1>5. Dedup(certs) = <<certs[1]>> \o Dedup(sk.chain)
  BY <1>2, <1>3, <1>4, DedupStripped
<1>6. QED
  BY <1>1, <1>3, <1>4, <1>5 DEF OnPath

-----------------------------------------------------------------------------
(* What the controller built is a keystore file. *)

LEMMA ServedLeaf ==
    ASSUME IInv, Shipped
    PROVE  Certs(secret.tls) # <<>> /\ Certs(secret.tls)[1] \in CertBlock
<1>1. CASE stage = "synced"
  <2>1. /\ Certs(secret.tls) = Served /\ Served # <<>>
        /\ Served \in Seq(Block) /\ Plain(Served) /\ \A i \in DOMAIN Served : IsCert(Served[i])
    BY <1>1, SyncedFacts
  <2> DEFINE cs == Served
  <2> HIDE DEF cs
  <2>2. cs \in Seq(Block) /\ cs # <<>> => cs[1] \in Block /\ 1 \in DOMAIN cs
    OBVIOUS
  <2>3. QED
    BY <2>1, <2>2 DEF cs, CertBlock, Plain
<1>2. CASE stage = "issued"
  <2>1. /\ secret.tls = parts.leaf /\ Clean(parts.leaf)
        /\ parts.leaf.blocks # <<>> /\ Parses(parts.leaf.blocks[1])
    BY <1>2, IssuedFacts
  <2> DEFINE t == secret.tls
             cs == Certs(t)
  <2>2. t \in Text /\ t.blocks \in Seq(Block) /\ Decode(t) = t.blocks
    BY <2>1, CleanFacts
  <2>3. IsCert(t.blocks[1])
    BY <2>1 DEF IsCert, Parses
  <2>4. /\ cs \in Seq(Block) /\ Plain(cs) /\ cs # <<>> /\ cs[1] = t.blocks[1]
    BY <2>1, <2>2, <2>3, CertsFacts
  <2> HIDE DEF cs
  <2>5. cs[1] \in Block /\ 1 \in DOMAIN cs
    BY <2>4
  <2>6. QED
    BY <2>3, <2>4, <2>5 DEF cs, CertBlock, Plain
<1>3. QED
  BY <1>1, <1>2 DEF Shipped

LEMMA StoreIsPlain ==
    ASSUME NEW t \in Text
    PROVE  ParseChainDER(t) \in Seq(CertBlock)
<1> DEFINE u == ParseChainDER(t)
<1>1. u \in Seq(Block) /\ Plain(u)
  BY ParsedFacts, DedupFacts DEF ParseChainDER
<1>2. u \in Seq({b \in Block : Parses(b)})
  BY ParseChainFacts
<1> HIDE DEF u
<1>3. /\ DOMAIN u = 1 .. Len(u) /\ Len(u) \in Nat
      /\ \A i \in DOMAIN u : u[i] \in Block /\ Parses(u[i])
  BY <1>2
<1>4. \A i \in 1 .. Len(u) : u[i] \in CertBlock
  BY <1>1, <1>3 DEF Plain, Parses, IsCert, CertBlock
<1>5. u \in Seq(CertBlock)
  BY <1>1, <1>3, <1>4
<1>6. QED
  BY <1>5 DEF u

LEMMA OwnFiles ==
    ASSUME IInv
    PROVE  OwnKeystores \subseteq KeystoreFile
<1> SUFFICES ASSUME Shipped, secret.keystore = "built" PROVE OwnKeystores \subseteq KeystoreFile
  BY DEF OwnKeystores
<1> DEFINE leaf == Certs(secret.tls)[1]
           key == Decode(parts.key)[1]
           store == secret.store
           entry == [key |-> key, certs |-> <<leaf>> \o store]
<1>1. leaf \in CertBlock
  BY ServedLeaf
<1>2. /\ Ready(parts)
      /\ stage = "synced" => /\ secret = SyncedSecret(parts)
                             /\ VerifySecretData(secret.tls, parts.key)
      /\ stage = "issued" => /\ secret = IssuedSecret(parts)
                             /\ VerifySecretData(secret.tls, parts.key)
  BY DEF Shipped, IInv, ReadyOK, SyncedOK, IssuedOK
<1>3. parts.leaf \in Text /\ parts.chain \in Text /\ parts.key \in Text
  BY <1>2 DEF Ready, PartsType
<1>4. /\ \E t \in Text : store = ParseChainDER(t)
      /\ parts.key # Empty
  <2>1. Concat(parts.leaf, parts.chain) \in Text
    BY <1>3, ConcatFacts
  <2>2. SyncedTls(parts) \in Text /\ Completed(parts) \in Text
    BY <1>3, <2>1, NormalizeFacts, CompleteFacts DEF SyncedTls, Joined, Completed
  <2>3. /\ SplitLeafAndChain(SyncedTls(parts)).chain \in Text
        /\ IssuedCA(parts) \in Text
    BY <2>2, SplitFacts DEF IssuedCA
  <2>4. CASE stage = "synced"
    <3>1. /\ secret.store = Keystores(SyncedTls(parts), parts).store
          /\ secret.keystore = Keystores(SyncedTls(parts), parts).keystore
      BY <1>2, <2>4 DEF SyncedSecret
    <3>2. /\ secret.store = ParseChainDER(SplitLeafAndChain(SyncedTls(parts)).chain)
          /\ parts.key # Empty
      BY <3>1 DEF Keystores, Build
    <3>3. QED
      BY <2>3, <3>2
  <2>5. CASE stage = "issued"
    <3>1. /\ secret.store = Build(parts.leaf, IssuedCA(parts), parts.key).store
          /\ secret.keystore = Build(parts.leaf, IssuedCA(parts), parts.key).keystore
      BY <1>2, <2>5 DEF IssuedSecret
    <3>2. /\ secret.store = ParseChainDER(IssuedCA(parts))
          /\ parts.key # Empty
      BY <3>1 DEF Build
    <3>3. QED
      BY <2>3, <3>2
  <2>6. QED
    BY <2>4, <2>5 DEF Shipped
<1>5. store \in Seq(CertBlock)
  BY <1>4, StoreIsPlain
<1>6. key \in KeyBlock
  <2> DEFINE ks == Decode(parts.key)
  <2>1. ks # <<>> /\ IsKey(ks[1])
    BY <1>2, <1>4 DEF VerifySecretData, Shipped
  <2>2. ks \in Seq(Block) /\ Plain(ks)
    BY <1>3, DecodeFacts
  <2> HIDE DEF ks
  <2>3. ks[1] \in Block /\ 1 \in DOMAIN ks
    BY <2>1, <2>2
  <2>4. ks[1] \in KeyBlock
    BY <2>1, <2>2, <2>3 DEF KeyBlock, Plain
  <2>5. QED
    BY <2>4 DEF ks
<1>7. OwnKeystores = {[format |-> "JKS", keys |-> <<entry>>, trusted |-> store],
                      [format |-> "PKCS#12", keys |-> <<entry>>, trusted |-> <<>>]}
  BY DEF OwnKeystores
<1> HIDE DEF leaf, key, store
<1>8. <<leaf>> \o store \in Seq(CertBlock)
  BY <1>1, <1>5
<1>9. entry \in [key : KeyBlock, certs : Seq(CertBlock)]
  BY <1>6, <1>8
<1> HIDE DEF entry
<1>10. /\ <<entry>> \in Seq([key : KeyBlock, certs : Seq(CertBlock)])
       /\ Len(<<entry>>) = 1 /\ <<>> \in Seq(CertBlock)
  BY <1>9
<1>11. QED
  BY <1>5, <1>7, <1>10 DEF KeystoreFile

-----------------------------------------------------------------------------
(* The steps. *)

LEMMA ToolStart == ToolInit => TInv
<1> SUFFICES ASSUME ToolInit PROVE TInv
  OBVIOUS
<1>1. IInv
  BY InitInv DEF ToolInit
<1>2. tool = "out" /\ truststore = NoFile /\ doc = NoDoc
  BY DEF ToolInit
<1>3. ToolOK
  BY <1>2 DEF ToolOK, ToolTyped, LoadOK, DocOK, UploadOK, VerdictOK, AcceptedOK
<1>4. QED
  BY <1>1, <1>3 DEF TInv

LEMMA ReadSourceKeeps ==
    ASSUME ToolOK, NEW f \in KeystoreFile, ReadSource(f), stage' = "start"
    PROVE  ToolOK'
<1>1. /\ tool = "out" /\ doc = NoDoc /\ doc' = NoDoc
      /\ truststore = NoFile /\ truststore' = NoFile
  BY DEF ReadSource, Fatal, ToolOK, ToolTyped, DocOK
<1>2. tool' \in {"loaded", "failed"}
  BY DEF ReadSource, Fatal
<1>3. ToolTyped'
  BY <1>1, <1>2 DEF ToolTyped
<1>4. ASSUME tool' = "loaded" PROVE LoadOK'
  <2>1. PICK s \in LoadSource(f) : s.leaf # <<>> /\ sk' = s /\ source' = f
    BY <1>4 DEF ReadSource, Fatal
  <2>2. LoadedFrom(s, f)
    BY <2>1, LoadFacts
  <2>3. LoadedFrom(s, f)'
    BY <1>1, <2>2 DEF LoadedFrom, TruststoreCerts
  <2>4. LoadedFrom(sk, source)'
    BY <2>1, <2>3 DEF LoadedFrom, TruststoreCerts
  <2>5. (TruststoreCerts \subseteq SkCerts(sk))'
    BY <1>1 DEF TruststoreCerts
  <2>6. QED
    BY <2>1, <2>4, <2>5 DEF LoadOK
<1>5. QED
  BY <1>1, <1>3, <1>4 DEF ToolOK, LoadOK, DocOK, UploadOK, VerdictOK, AcceptedOK

LEMMA ReadTruststoreKeeps ==
    ASSUME ToolOK, NEW f \in Truststore, ReadTruststore(f), UNCHANGED vars
    PROVE  ToolOK'
<1>1. /\ tool = "loaded" /\ truststore = NoFile /\ doc = NoDoc /\ doc' = NoDoc
      /\ stage = "start" /\ stage' = "start"
  BY DEF ReadTruststore, Fatal, ToolOK, DocOK, vars
<1>2. f # NoFile /\ f \in KeystoreFile
  BY Jks2SecretConstants
<1>3. source \in KeystoreFile /\ LoadedFrom(sk, source) /\ TruststoreCerts \subseteq SkCerts(sk)
  BY <1>1 DEF ToolOK, LoadOK
<1>4. CASE Fatal
  BY <1>1, <1>4 DEF Fatal, ToolOK, ToolTyped, LoadOK, DocOK, UploadOK, VerdictOK, AcceptedOK
<1>5. CASE ~Fatal
  <2>1. PICK ts \in LoadSource(f) :
            /\ ts.keyless /\ truststore' = f
            /\ sk' = [sk EXCEPT !.chain = @ \o Unseen(ts)]
            /\ tool' = tool /\ source' = source
    BY <1>5 DEF ReadTruststore
  <2> DEFINE more == Unseen(ts)
             both == ts.leaf \o ts.chain
             sees == Ders(sk.leaf \o sk.chain)
             I == {i \in DOMAIN both : both[i].der \notin sees}
             new == Pick(both, I)
  <2>2. /\ both \in Seq(CertBlock) /\ Ders(both) = Ders(f.trusted) /\ Ders(f.trusted) \subseteq Cert
    BY <1>2, <2>1, TrustFacts
  <2>3. /\ sk \in SkType /\ Len(sk.leaf) = 1 /\ SkCerts(sk) \subseteq Cert
        /\ sk.leaf \in Seq(CertBlock) /\ sk.chain \in Seq(CertBlock)
    BY <1>3 DEF LoadedFrom, SkType
  <2>4. sees = SkCerts(sk)
    BY <2>3, BlocksOfFiles, DersOfConcat DEF SkCerts
  <2>5. more = Dedup(new)
    BY DEF Unseen, Select
  <2> HIDE DEF both
  <2>6. I \in SUBSET (DOMAIN both) /\ both \in Seq(Block)
    BY <2>2, BlocksOfFiles
  <2>7. Ders(new) = Ders(f.trusted) \ sees
    <3>1. Ders(new) = {both[i].der : i \in I}
      <4> HIDE DEF I
      <4>1. QED
        BY <2>6, DersOfPick
    <3>2. {both[i].der : i \in I} = Ders(both) \ sees
      <4> HIDE DEF sees
      <4>1. QED
        BY DEF Ders
    <3>3. QED
      BY <2>2, <3>1, <3>2
  <2>8. new \in Seq(CertBlock) /\ new \in Seq(Block)
    <3> HIDE DEF I
    <3>1. QED
      BY <2>2, <2>6, PickFacts
  <2> HIDE DEF new, sees, more
  <2>9. more \in Seq(CertBlock) /\ Ders(more) = Ders(f.trusted) \ sees
    <3>1. Ders(more) = Ders(new)
      BY <2>5, <2>8, DedupFacts
    <3> DEFINE K == {k \in DOMAIN new : \A j \in DOMAIN new : j < k => new[j].der # new[k].der}
    <3>2. more = Pick(new, K) /\ K \in SUBSET (DOMAIN new)
      BY <2>5 DEF Dedup
    <3> HIDE DEF K
    <3>3. more \in Seq(CertBlock)
      BY <2>8, <3>2, PickFacts
    <3>4. QED
      BY <2>7, <3>1, <3>3
  <2> DEFINE chain == sk.chain \o more
  <2>10. /\ chain \in Seq(CertBlock)
         /\ Ders(chain) = Ders(sk.chain) \cup (Ders(f.trusted) \ sees)
    BY <2>3, <2>9, BlocksOfFiles, DersOfConcat
  <2> HIDE DEF chain
  <2>11. sk' = [sk EXCEPT !.chain = chain]
    BY <2>1 DEF more, chain
  <2>12. /\ sk' \in SkType /\ sk'.leaf = sk.leaf /\ sk'.key = sk.key
         /\ sk'.keyless = sk.keyless /\ sk'.chain = chain
    BY <2>3, <2>10, <2>11 DEF SkType
  <2>13. SkCerts(sk') = SkCerts(sk) \cup Ders(f.trusted)
    <3>1. SkCerts(sk') = Ders(sk.leaf) \cup Ders(chain)
      BY <2>12 DEF SkCerts
    <3>2. QED
      BY <2>4, <2>10, <3>1 DEF SkCerts
  <2>14. TruststoreCerts' = Ders(f.trusted)
    BY <1>2, <2>1 DEF TruststoreCerts
  <2>15. sk.leaf[1].der \in Ders(chain) => sk.leaf[1].der \in Beside(source)
    <3>1. sk.leaf[1].der \in sees
      <4>1. 1 \in DOMAIN sk.leaf
        BY <2>3
      <4>2. sk.leaf[1].der \in Ders(sk.leaf)
        BY <4>1 DEF Ders
      <4>3. QED
        BY <2>4, <4>2 DEF SkCerts
    <3>2. TruststoreCerts = {}
      BY <1>1 DEF TruststoreCerts
    <3>3. sk.leaf[1].der \in Ders(sk.chain) => sk.leaf[1].der \in Beside(source)
      BY <1>3, <3>2 DEF LoadedFrom
    <3>4. QED
      BY <2>10, <3>1, <3>3
  <2>16. LoadedFrom(sk, source)'
    <3>1. /\ (sk \in SkType)' /\ (Len(sk.leaf) = 1)' /\ (SkCerts(sk) \subseteq Cert)'
      BY <2>2, <2>3, <2>12, <2>13
    <3>2. (sk.keyless => sk.key = <<>>)'
      BY <1>3, <2>12 DEF LoadedFrom
    <3>3. (sk.key # <<>> => KeyOf(sk, source))'
      BY <1>3, <2>1, <2>12 DEF LoadedFrom, KeyOf
    <3>4. (Len(source.keys) = 1 => sk.key # <<>> /\ FileCerts(source) \subseteq SkCerts(sk))'
      <4>1. Len(source.keys) = 1 => sk.key # <<>> /\ FileCerts(source) \subseteq SkCerts(sk)
        BY <1>3 DEF LoadedFrom
      <4>2. source' = source /\ sk'.key = sk.key
        BY <2>1, <2>12
      <4>3. Len(source'.keys) = 1 => sk'.key # <<>> /\ FileCerts(source') \subseteq SkCerts(sk')
        BY <2>13, <4>1, <4>2
      <4>4. QED
        BY <4>3
    <3>5. (sk.leaf[1].der \in Ders(sk.chain) =>
              sk.leaf[1].der \in Beside(source) \cup TruststoreCerts)'
      <4>1. sk.leaf[1].der \in Ders(chain) => sk.leaf[1].der \in Beside(source) \cup TruststoreCerts'
        BY <2>15
      <4>2. QED
        BY <2>1, <2>12, <4>1
    <3>6. truststore' # NoFile
      BY <1>2, <2>1
    <3>7. QED
      BY <3>1, <3>2, <3>3, <3>4, <3>5, <3>6 DEF LoadedFrom
  <2>17. LoadOK'
    <3>1. (source \in KeystoreFile)'
      BY <1>3, <2>1
    <3>2. (TruststoreCerts \subseteq SkCerts(sk))'
      BY <2>13, <2>14
    <3>3. QED
      BY <2>16, <3>1, <3>2 DEF LoadOK
  <2>18. ToolTyped'
    BY <1>1, <2>1 DEF ToolTyped
  <2>19. QED
    BY <1>1, <2>17, <2>18 DEF ToolOK, DocOK, UploadOK, VerdictOK, AcceptedOK
<1>6. QED
  BY <1>4, <1>5

\* The program's state before the payload is written, and after.
LEMMA WrittenFacts ==
    ASSUME ToolOK, doc # NoDoc
    PROVE  /\ source \in KeystoreFile /\ LoadedFrom(sk, source)
           /\ TruststoreCerts \subseteq SkCerts(sk)
           /\ doc = Payload(sk) /\ PayloadParts(doc) \in PartsType
           /\ sk \in SkType /\ Len(sk.leaf) = 1 /\ SkCerts(sk) \subseteq Cert
           /\ sk.keyless => sk.key = <<>>
           /\ tool \notin {"out", "loaded"}
           /\ stage \in {"start", "parsed", "issued", "refused"}
           /\ VerifyPayload <=> /\ sk.leaf[1].der \notin Ders(sk.chain)
                                /\ TruststoreCerts \subseteq Ders(sk.chain)
<1>1. /\ source \in KeystoreFile /\ LoadedFrom(sk, source)
      /\ TruststoreCerts \subseteq SkCerts(sk)
  BY DEF ToolOK, LoadOK
<1>2. /\ doc = Payload(sk) /\ tool \notin {"out", "loaded"}
      /\ stage \in {"start", "parsed", "issued", "refused"}
  BY DEF ToolOK, DocOK
<1>3. /\ sk \in SkType /\ Len(sk.leaf) = 1 /\ SkCerts(sk) \subseteq Cert
      /\ sk.keyless => sk.key = <<>>
  BY <1>1 DEF LoadedFrom
<1>4. PayloadParts(doc) \in PartsType
  BY <1>2, <1>3, PayloadFacts
<1>5. QED
  BY <1>1, <1>2, <1>3, <1>4, VerdictFacts

LEMMA WritePayloadKeeps ==
    ASSUME ToolOK, WritePayload, UNCHANGED vars
    PROVE  ToolOK'
<1>1. /\ tool = "loaded" /\ tool' = "written" /\ doc = NoDoc
      /\ doc' = Payload(sk)
      /\ source' = source /\ truststore' = truststore /\ sk' = sk
      /\ stage' = stage /\ parts' = parts /\ given' = given
  BY DEF WritePayload, ToolOK, DocOK, Payload, vars
<1>2. stage = "start"
  BY <1>1 DEF ToolOK, DocOK
<1>3. ToolTyped'
  BY <1>1 DEF ToolOK, ToolTyped
<1>4. LoadOK'
  BY <1>1 DEF ToolOK, LoadOK, LoadedFrom, TruststoreCerts
<1>5. DocOK'
  BY <1>1, <1>2 DEF DocOK
<1>6. QED
  BY <1>1, <1>2, <1>3, <1>4, <1>5 DEF ToolOK, UploadOK, VerdictOK, AcceptedOK

\* The program's files rest, and so does what the controller knows of them.
LEMMA FilesRest ==
    ASSUME ToolOK, UNCHANGED <<source, truststore, sk, doc>>, doc # NoDoc
    PROVE  /\ LoadOK' /\ (doc' = Payload(sk'))
           /\ (VerifyPayload' <=> VerifyPayload) /\ (OnPath' <=> OnPath)
BY DEF ToolOK, LoadOK, DocOK, LoadedFrom, TruststoreCerts, VerifyPayload, OnPath

LEMMA CheckKeeps ==
    ASSUME ToolOK, Verify \/ SkipVerify, UNCHANGED vars
    PROVE  ToolOK'
<1>1. /\ tool = "written" /\ tool' \in {"verified", "failed", "skipped"}
      /\ tool' = "verified" => VerifyPayload
      /\ tool' = "failed" => ~VerifyPayload
      /\ source' = source /\ truststore' = truststore /\ sk' = sk /\ doc' = doc
      /\ stage' = stage /\ parts' = parts /\ given' = given
  BY DEF Verify, SkipVerify, vars
<1>2. ToolTyped'
  BY <1>1 DEF ToolOK, ToolTyped
<1>3. CASE doc = NoDoc
  BY <1>1, <1>2, <1>3 DEF ToolOK, LoadOK, DocOK, UploadOK, VerdictOK, AcceptedOK
<1>4. CASE doc # NoDoc
  <2>1. /\ LoadOK' /\ (doc' = Payload(sk'))
        /\ (VerifyPayload' <=> VerifyPayload) /\ (OnPath' <=> OnPath)
    BY <1>1, <1>4, FilesRest
  <2>2. DocOK'
    BY <1>1, <1>4, <2>1 DEF ToolOK, DocOK
  <2>3. UploadOK' /\ AcceptedOK'
    BY <1>1, <2>1 DEF ToolOK, UploadOK, AcceptedOK
  <2>4. VerdictOK'
    BY <1>1, <2>1 DEF VerdictOK
  <2>5. QED
    BY <1>2, <2>1, <2>2, <2>3, <2>4 DEF ToolOK
<1>5. QED
  BY <1>3, <1>4

LEMMA UploadKeeps ==
    ASSUME ToolOK, Upload
    PROVE  ToolOK'
<1>1. /\ doc # NoDoc
      /\ Extract(doc.certificate, doc.certificate_chain, doc.private_key)
      /\ doc.private_key = Empty => stage' = "refused"
      /\ tool' = tool /\ source' = source /\ truststore' = truststore
      /\ sk' = sk /\ doc' = doc
  BY DEF Upload, toolVars
<1> DEFINE p == Normalized(PayloadParts(doc))
<1>2. /\ source \in KeystoreFile /\ LoadedFrom(sk, source) /\ doc = Payload(sk)
      /\ sk \in SkType /\ Len(sk.leaf) = 1 /\ SkCerts(sk) \subseteq Cert
      /\ tool \notin {"out", "loaded"}
  BY <1>1, WrittenFacts
<1>3. /\ doc.certificate # Empty
      /\ doc.private_key = Empty <=> sk.key = <<>>
  <2>1. /\ doc.certificate = Empty <=> sk.leaf = <<>>
        /\ doc.private_key = Empty <=> sk.key = <<>>
    BY <1>2, PayloadFacts
  <2>2. sk.leaf # <<>>
    BY <1>2, OneElement DEF SkType
  <2>3. QED
    BY <2>1, <2>2
<1>4. /\ stage' \in {"parsed", "refused"}
      /\ stage' = "parsed" => /\ VerifyChain(p.leaf, p.chain) /\ parts' = p
                              /\ given' = [leaf  |-> CertsOf(doc.certificate),
                                           chain |-> CertsOf(doc.certificate_chain)]
                              /\ sk.key # <<>>
      /\ stage' = "refused" => sk.key = <<>> \/ ~VerifyChain(p.leaf, p.chain)
  <2>1. /\ p.leaf = NormalizePEM(doc.certificate)
        /\ p.chain = NormalizePEM(doc.certificate_chain)
        /\ p = Normalized([leaf |-> doc.certificate, chain |-> doc.certificate_chain,
                           key |-> doc.private_key])
    BY DEF Normalized, PayloadParts
  <2> HIDE DEF p
  <2>2. QED
    BY <1>1, <1>3, <2>1 DEF Extract
<1>5. /\ LoadOK' /\ (doc' = Payload(sk'))
      /\ (VerifyPayload' <=> VerifyPayload) /\ (OnPath' <=> OnPath)
  BY <1>1, FilesRest
<1>6. ToolTyped'
  BY <1>1 DEF ToolOK, ToolTyped
<1>7. DocOK'
  BY <1>1, <1>2, <1>4, <1>5 DEF DocOK
<1>8. UploadOK'
  <2>1. p' = p
    BY <1>1
  <2> HIDE DEF p
  <2>2. stage' \in {"parsed", "issued"} =>
            /\ parts' = p
            /\ given' = [leaf  |-> CertsOf(doc.certificate),
                         chain |-> CertsOf(doc.certificate_chain)]
            /\ sk'.key # <<>>
    BY <1>1, <1>4
  <2>3. QED
    BY <1>1, <2>1, <2>2 DEF UploadOK, p
<1>9. VerdictOK'
  BY <1>1, <1>5 DEF ToolOK, VerdictOK
<1>10. AcceptedOK'
  <2>1. VerifyChain(p.leaf, p.chain) <=> OnPath
    BY <1>2, PayloadOnPath
  <2> HIDE DEF p
  <2>2. QED
    BY <1>1, <1>4, <1>5, <2>1 DEF AcceptedOK
<1>11. QED
  BY <1>5, <1>6, <1>7, <1>8, <1>9, <1>10 DEF ToolOK

LEMMA ToolBuildKeeps ==
    ASSUME ToolOK, doc # NoDoc, IssuerBuild, UNCHANGED toolVars
    PROVE  ToolOK'
<1>1. /\ tool' = tool /\ source' = source /\ truststore' = truststore
      /\ sk' = sk /\ doc' = doc
      /\ stage = "parsed" /\ stage' \in {"issued", "refused"}
      /\ parts' = parts /\ given' = given
      /\ VerifySecretData(parts.leaf, parts.key) => stage' = "issued"
  BY DEF IssuerBuild, toolVars
<1>2. /\ sk \in SkType /\ Len(sk.leaf) = 1 /\ SkCerts(sk) \subseteq Cert /\ doc = Payload(sk)
      /\ tool \notin {"out", "loaded"}
  BY WrittenFacts
<1>3. parts = Normalized(PayloadParts(doc)) /\ sk.key # <<>>
  BY <1>1 DEF ToolOK, UploadOK
<1>4. /\ Decode(parts.leaf) = sk.leaf /\ Parses(sk.leaf[1])
      /\ Decode(parts.key) # <<>> /\ Decode(parts.key)[1] = sk.key[1]
      /\ IsKey(sk.key[1])
  BY <1>2, <1>3, ParsedPayload
<1>5. sk.leaf # <<>>
  BY <1>2, OneElement DEF SkType
<1>6. stage' = "issued"
  BY <1>1, <1>4, <1>5 DEF VerifySecretData
<1>7. /\ LoadOK' /\ (doc' = Payload(sk'))
      /\ (VerifyPayload' <=> VerifyPayload) /\ (OnPath' <=> OnPath)
  BY <1>1, FilesRest
<1>8. ToolTyped'
  BY <1>1 DEF ToolOK, ToolTyped
<1>9. DocOK'
  BY <1>1, <1>2, <1>6, <1>7 DEF DocOK
<1>10. UploadOK' /\ VerdictOK' /\ AcceptedOK'
  BY <1>1, <1>6, <1>7 DEF ToolOK, UploadOK, VerdictOK, AcceptedOK
<1>11. QED
  BY <1>7, <1>8, <1>9, <1>10 DEF ToolOK

LEMMA IdleToolKeeps ==
    ASSUME ToolOK, tool = "out" \/ UNCHANGED vars, UNCHANGED toolVars
    PROVE  ToolOK'
<1>1. /\ tool' = tool /\ source' = source /\ truststore' = truststore
      /\ sk' = sk /\ doc' = doc
  BY DEF toolVars
<1>2. CASE tool = "out"
  <2>1. doc = NoDoc
    BY <1>2 DEF ToolOK, DocOK
  <2>2. QED
    BY <1>1, <1>2, <2>1
       DEF ToolOK, ToolTyped, LoadOK, DocOK, UploadOK, VerdictOK, AcceptedOK
<1>3. CASE UNCHANGED vars
  <2>1. stage' = stage /\ parts' = parts /\ given' = given
    BY <1>3 DEF vars
  <2>2. CASE doc = NoDoc
    <3>1. LoadOK'
      BY <1>1, <2>2 DEF ToolOK, LoadOK, LoadedFrom, TruststoreCerts
    <3>2. QED
      BY <1>1, <2>1, <2>2, <3>1
         DEF ToolOK, ToolTyped, DocOK, UploadOK, VerdictOK, AcceptedOK
  <2>3. CASE doc # NoDoc
    <3>1. /\ LoadOK' /\ (doc' = Payload(sk'))
          /\ (VerifyPayload' <=> VerifyPayload) /\ (OnPath' <=> OnPath)
      BY <1>1, <2>3, FilesRest
    <3>2. QED
      BY <1>1, <2>1, <3>1
         DEF ToolOK, ToolTyped, DocOK, UploadOK, VerdictOK, AcceptedOK
  <2>4. QED
    BY <2>2, <2>3
<1>4. QED
  BY <1>2, <1>3

LEMMA DoneKeeps ==
    ASSUME Done
    PROVE  ToolOK'
<1>1. tool' = "out" /\ truststore' = NoFile /\ doc' = NoDoc
  BY DEF Done
<1>2. QED
  BY <1>1 DEF ToolOK, ToolTyped, LoadOK, DocOK, UploadOK, VerdictOK, AcceptedOK

LEMMA RestKeeps ==
    ASSUME IInv, UNCHANGED vars
    PROVE  IInv'
BY StepInv

LEMMA ToolStep == TInv /\ [ToolNext]_<<vars, toolVars>> => TInv'
<1> SUFFICES ASSUME TInv, [ToolNext]_<<vars, toolVars>> PROVE TInv'
  OBVIOUS
<1>1. IInv /\ ToolOK
  BY DEF TInv
<1>2. CASE Run
  <2>1. CASE \E f \in Keystore : stage = "start" /\ ReadSource(f) /\ UNCHANGED vars
    <3>1. PICK f \in Keystore : stage = "start" /\ ReadSource(f) /\ UNCHANGED vars
      BY <2>1
    <3>2. f \in KeystoreFile /\ stage' = "start"
      BY <3>1, Jks2SecretConstants DEF vars
    <3>3. QED
      BY <1>1, <3>1, <3>2, ReadSourceKeeps, RestKeeps DEF TInv
  <2>2. CASE \E f \in OwnKeystores : Return /\ ReadSource(f)
    <3>1. PICK f \in OwnKeystores : Return /\ ReadSource(f)
      BY <2>2
    <3>2. f \in KeystoreFile /\ stage' = "start"
      BY <1>1, <3>1, OwnFiles DEF Return
    <3>3. QED
      BY <1>1, <3>1, <3>2, ReadSourceKeeps, ReturnKeeps DEF TInv
  <2>3. CASE \E f \in Truststore : ReadTruststore(f) /\ UNCHANGED vars
    BY <1>1, <2>3, ReadTruststoreKeeps, RestKeeps DEF TInv
  <2>4. CASE (WritePayload \/ Verify \/ SkipVerify) /\ UNCHANGED vars
    BY <1>1, <2>4, WritePayloadKeeps, CheckKeeps, RestKeeps DEF TInv
  <2>5. QED
    BY <1>2, <2>1, <2>2, <2>3, <2>4 DEF Run
<1>3. CASE Upload
  <2>1. /\ doc # NoDoc
        /\ Extract(doc.certificate, doc.certificate_chain, doc.private_key)
    BY <1>3 DEF Upload
  <2>2. PayloadParts(doc) \in PartsType
    BY <1>1, <2>1, WrittenFacts
  <2>3. doc.certificate \in Text /\ doc.certificate_chain \in Text /\ doc.private_key \in Text
    BY <2>2 DEF PayloadParts, PartsType
  <2>4. IInv'
    BY <1>1, <2>1, <2>3, ExtractKeeps
  <2>5. QED
    BY <1>1, <1>3, <2>4, UploadKeeps DEF TInv
<1>4. CASE doc # NoDoc /\ IssuerBuild /\ UNCHANGED toolVars
  BY <1>1, <1>4, ToolBuildKeeps, IssuerBuildKeeps DEF TInv
<1>5. CASE Done
  <2>1. IInv'
    BY <1>1, <1>5, RestKeeps, ReturnKeeps DEF Done
  <2>2. QED
    BY <1>5, <2>1, DoneKeeps DEF TInv
<1>6. CASE tool = "out" /\ Next /\ UNCHANGED toolVars
  BY <1>1, <1>6, StepInv, IdleToolKeeps DEF TInv
<1>7. CASE UNCHANGED <<vars, toolVars>>
  BY <1>1, <1>7, RestKeeps, IdleToolKeeps DEF TInv
<1>8. QED
  BY <1>2, <1>3, <1>4, <1>5, <1>6, <1>7 DEF ToolNext

LEMMA ToolInvariance == ToolSpec => []TInv
BY ToolStart, ToolStep, PTL DEF ToolSpec

-----------------------------------------------------------------------------
(* What follows for the two together. *)

\* An issued Secret whose payload the program wrote.
LEMMA IssuedPayload ==
    ASSUME TInv, Issued
    PROVE  LET p == Normalized(PayloadParts(Payload(sk)))
           IN  /\ parts = p /\ sk \in SkType /\ Len(sk.leaf) = 1 /\ SkCerts(sk) \subseteq Cert
               /\ sk.key # <<>> /\ KeyOf(sk, source)
               /\ given.leaf = Ders(sk.leaf) /\ given.chain = Ders(sk.chain)
               /\ Served[1] = sk.leaf[1]
               /\ Certs(secret.tls)[1] = sk.leaf[1]
               /\ Decode(parts.key)[1] = sk.key[1]
<1>1. IInv /\ ToolOK /\ doc # NoDoc /\ stage = "issued"
  BY DEF TInv, Issued
<1>2. /\ sk \in SkType /\ Len(sk.leaf) = 1 /\ SkCerts(sk) \subseteq Cert /\ doc = Payload(sk)
      /\ LoadedFrom(sk, source)
  BY <1>1, WrittenFacts
<1>3. /\ parts = Normalized(PayloadParts(doc)) /\ sk.key # <<>>
      /\ given = [leaf  |-> CertsOf(doc.certificate),
                  chain |-> CertsOf(doc.certificate_chain)]
  BY <1>1 DEF ToolOK, UploadOK
<1>4. KeyOf(sk, source)
  BY <1>2, <1>3 DEF LoadedFrom
<1>5. given.leaf = Ders(sk.leaf) /\ given.chain = Ders(sk.chain)
  BY <1>2, <1>3, PayloadFacts
<1>6. /\ parts.leaf.blocks = sk.leaf /\ Clean(parts.leaf) /\ Decode(parts.leaf) = sk.leaf
      /\ Parses(sk.leaf[1]) /\ Decode(parts.key)[1] = sk.key[1]
  BY <1>2, <1>3, ParsedPayload
<1>7. Served[1] = sk.leaf[1]
  BY <1>1, <1>6, IssuedServes
<1>8. secret.tls = parts.leaf
  BY <1>1, IssuedFacts
<1>9. Certs(parts.leaf)[1] = sk.leaf[1]
  <2>1. sk.leaf # <<>> /\ IsCert(sk.leaf[1])
    BY <1>2, <1>6, OneElement DEF SkType, IsCert, Parses
  <2>2. QED
    BY <1>6, <2>1, CertsFacts DEF Clean
<1>10. QED
  BY <1>2, <1>3, <1>4, <1>5, <1>6, <1>7, <1>8, <1>9

LEMMA AllArrive ==
    ASSUME TInv, Issued, tool = "verified", Len(source.keys) = 1
    PROVE  /\ FileCerts(source) \cup TruststoreCerts \subseteq Serves
           /\ secret.keystore = "built" => TruststoreCerts \subseteq Ders(secret.store)
<1>1. IInv /\ ToolOK /\ doc # NoDoc /\ stage = "issued"
  BY DEF TInv, Issued
<1>2. /\ SkCerts(sk) \subseteq Cert /\ LoadedFrom(sk, source)
      /\ TruststoreCerts \subseteq SkCerts(sk)
      /\ VerifyPayload <=> /\ sk.leaf[1].der \notin Ders(sk.chain)
                           /\ TruststoreCerts \subseteq Ders(sk.chain)
  BY <1>1, WrittenFacts
<1>3. /\ given.leaf \cup given.chain = SkCerts(sk) /\ Served[1] = sk.leaf[1]
  BY IssuedPayload DEF SkCerts
<1>4. SkCerts(sk) \subseteq Serves
  BY <1>1, <1>3, NothingIsLost DEF NothingLost, Shipped
<1>5. FileCerts(source) \cup TruststoreCerts \subseteq Serves
  BY <1>2, <1>4 DEF LoadedFrom
<1>6. ASSUME secret.keystore = "built" PROVE TruststoreCerts \subseteq Ders(secret.store)
  <2>1. Ders(secret.store) \cup {Served[1].der} = Serves \cap Cert
    BY <1>1, <1>6, ChainInKeystores DEF KeystoreCarriesChain, Shipped
  <2>2. VerifyPayload
    BY <1>1 DEF ToolOK, VerdictOK
  <2>3. TruststoreCerts \subseteq Ders(sk.chain) /\ sk.leaf[1].der \notin Ders(sk.chain)
    BY <1>2, <2>2
  <2>4. TruststoreCerts \subseteq Serves \cap Cert
    BY <1>2, <1>4
  <2>5. QED
    BY <1>3, <2>1, <2>3, <2>4
<1>7. QED
  BY <1>5, <1>6

LEMMA ArriveOnPath == TInv => CAsArriveOnPath
<1> SUFFICES ASSUME TInv, tool = "verified", Len(source.keys) = 1, stage \in {"issued", "refused"}
             PROVE  /\ stage = "refused" => ~OnPath
                    /\ stage = "issued" =>
                           /\ OnPath
                           /\ FileCerts(source) \cup TruststoreCerts \subseteq Serves
                           /\ secret.keystore = "built" =>
                                  TruststoreCerts \subseteq Ders(secret.store)
  BY DEF CAsArriveOnPath
<1>1. ToolOK
  BY DEF TInv
<1>2. doc # NoDoc
  BY <1>1 DEF ToolOK, DocOK
<1>3. sk.key # <<>>
  BY <1>1, <1>2, WrittenFacts DEF LoadedFrom
<1>4. (stage = "refused" => ~OnPath) /\ (stage = "issued" => OnPath)
  BY <1>1, <1>2, <1>3 DEF ToolOK, AcceptedOK
<1>5. QED
  BY <1>2, <1>4, AllArrive DEF Issued

LEMMA KeyFits == TInv => KeyFitsCertificate
<1> SUFFICES ASSUME TInv, Issued
             PROVE  \E i \in DOMAIN source.keys :
                        /\ Decode(parts.key)[1] = source.keys[i].key
                        /\ Certs(secret.tls)[1] = source.keys[i].certs[1]
  BY DEF KeyFitsCertificate
<1>1. /\ KeyOf(sk, source)
      /\ Certs(secret.tls)[1] = sk.leaf[1]
      /\ Decode(parts.key)[1] = sk.key[1]
  BY IssuedPayload
<1>2. PICK i \in DOMAIN source.keys : /\ sk.key = <<source.keys[i].key>>
                                      /\ sk.leaf = <<source.keys[i].certs[1]>>
  BY <1>1 DEF KeyOf
<1>3. sk.key[1] = source.keys[i].key /\ sk.leaf[1] = source.keys[i].certs[1]
  BY <1>2
<1>4. QED
  BY <1>1, <1>3

LEMMA AlarmCaused == TInv => AlarmHasCause
<1> SUFFICES ASSUME TInv, tool = "failed", doc # NoDoc
             PROVE  sk.leaf[1].der \in Beside(source) \cup TruststoreCerts
  BY DEF AlarmHasCause, Beside
<1>1. ToolOK
  BY DEF TInv
<1>2. ~VerifyPayload
  BY <1>1 DEF ToolOK, VerdictOK
<1>3. /\ sk \in SkType /\ Len(sk.leaf) = 1 /\ LoadedFrom(sk, source)
      /\ TruststoreCerts \subseteq SkCerts(sk)
      /\ VerifyPayload <=> /\ sk.leaf[1].der \notin Ders(sk.chain)
                           /\ TruststoreCerts \subseteq Ders(sk.chain)
  BY <1>1, WrittenFacts
<1>4. CASE sk.leaf[1].der \in Ders(sk.chain)
  BY <1>3, <1>4 DEF LoadedFrom
<1>5. CASE sk.leaf[1].der \notin Ders(sk.chain)
  <2>1. PICK c \in TruststoreCerts : c \notin Ders(sk.chain)
    BY <1>2, <1>3, <1>5
  <2>2. c \in Ders(sk.leaf)
    BY <1>3, <2>1 DEF SkCerts
  <2>3. DOMAIN sk.leaf = {1}
    BY <1>3, OneElement DEF SkType
  <2>4. c = sk.leaf[1].der
    BY <2>2, <2>3 DEF Ders
  <2>5. QED
    BY <2>1, <2>4
<1>6. QED
  BY <1>4, <1>5

LEMMA PathsPass == TInv => PathsConvert
<1> SUFFICES ASSUME TInv, doc # NoDoc, Convertible
             PROVE  tool # "failed" /\ stage # "refused"
  BY DEF PathsConvert, Convertible
<1>1. ToolOK
  BY DEF TInv
<1>2. stage # "refused"
  <2>1. sk.key # <<>> /\ OnPath
    BY <1>1, WrittenFacts, ConvertibleOnPath
  <2>2. QED
    BY <1>1, <2>1 DEF ToolOK, AcceptedOK
<1>3. /\ source \in KeystoreFile /\ LoadedFrom(sk, source)
      /\ VerifyPayload <=> /\ sk.leaf[1].der \notin Ders(sk.chain)
                           /\ TruststoreCerts \subseteq Ders(sk.chain)
  BY <1>1, WrittenFacts
<1>4. sk.key # <<>> /\ KeyOf(sk, source) /\ sk.chain = Stripped(source.keys[1].certs)
  BY <1>3, ConvertibleOnPath DEF LoadedFrom, Convertible
<1>5. DOMAIN source.keys = {1} /\ source.keys[1].certs \in Seq(CertBlock)
  BY <1>3, FileFacts DEF Convertible
<1>6. sk.leaf = <<source.keys[1].certs[1]>>
  BY <1>4, <1>5 DEF KeyOf
<1>7. sk.leaf[1].der \notin Ders(sk.chain)
  <2>1. Ders(sk.chain) = Ders(source.keys[1].certs) \ {source.keys[1].certs[1].der}
    BY <1>4, <1>5, StrippedFacts
  <2>2. QED
    BY <1>6, <2>1
<1>8. TruststoreCerts = {}
  BY DEF TruststoreCerts, Convertible
<1>9. VerifyPayload
  BY <1>3, <1>7, <1>8
<1>10. QED
  BY <1>1, <1>2, <1>9 DEF ToolOK, VerdictOK

(* A verified payload of a keystore with one key is issued exactly if the  *)
(* CAs, with those of a truststore behind them, continue the leaf's path;  *)
(* one off it has the payload refused.  What is issued has all of them,    *)
(* the truststore's in the keystores too: main.go:109-127, 295-345,        *)
(* verify.go:43-49, issuer.go:114-119.                                     *)
THEOREM CAsArrive == ToolSpec => []CAsArriveOnPath
BY ToolInvariance, ArriveOnPath, PTL

(* The certificate that is issued is the one that the file keeps with the  *)
(* key, whichever key the map yields last: main.go:297-335.                *)
THEOREM IssuedKeyFits == ToolSpec => []KeyFitsCertificate
BY ToolInvariance, KeyFits, PTL

(* A conversion is only said to be broken where a certificate is the leaf  *)
(* and a trusted one at once: main.go:358-420.                             *)
THEOREM AlarmsAreCaused == ToolSpec => []AlarmHasCause
BY ToolInvariance, AlarmCaused, PTL

(* A signing path from a PKCS#12 file passes the cross-check and is not    *)
(* refused by the controller: main.go:253-293, verify.go:13-17.            *)
THEOREM PathsAreConverted == ToolSpec => []PathsConvert
BY ToolInvariance, PathsPass, PTL

(* The payloads of jks2secret, whatever is in the files, are like any other *)
(* to the controller: what it promises of a download holds of them.        *)
(* main.go:139-142, issuer.go:86-187.                                      *)
THEOREM PayloadsAreServed ==
  ToolSpec => [](/\ TypeOK /\ NothingLost /\ OneOfEach /\ SigningPath
                 /\ KeystoreCarriesChain /\ CompositionTold)
<1> DEFINE AllSix == /\ TypeOK /\ NothingLost /\ OneOfEach /\ SigningPath
                     /\ KeystoreCarriesChain /\ CompositionTold
<1>1. TInv => AllSix
  BY NothingIsLost, OneOfEachKept, ChainInKeystores, PathIsShipped, CompositionFollows
     DEF TInv, IInv
<1> HIDE DEF AllSix
<1>2. ToolSpec => []AllSix
  BY <1>1, ToolInvariance, PTL
<1>3. QED
  BY <1>2 DEF AllSix

\* Beside the controller's own steps there is the upload: it reads no ZIP file.
LEMMA ToolOrderStep ==
    ASSUME NEW c \in Cert, OrderlyFiles(c)
    PROVE  TInv /\ OrderInv(c) /\ [ToolNext]_<<vars, toolVars>> => OrderInv(c)'
<1> SUFFICES ASSUME TInv, OrderInv(c), [ToolNext]_<<vars, toolVars>>
             PROVE  OrderInv(c)'
  OBVIOUS
<1>1. CASE Upload
  <2>1. IInv'
    BY <1>1, ToolStep DEF TInv
  <2>2. /\ stage = "start" /\ stage' \in {"refused", "parsed"}
        /\ files' = files
    BY <1>1 DEF Upload, Extract
  <2>3. files' = 0
    BY <2>2 DEF OrderInv, FilesOK
  <2>4. QED
    BY <2>1, <2>2, <2>3 DEF OrderInv, FilesOK, ChainOK, NoFalseAlarm
<1>2. CASE ~Upload
  <2>1. [Next]_vars
    <3>1. Run \/ Done => Return \/ UNCHANGED vars
      BY DEF Run, Done
    <3>2. QED
      BY <1>2, <3>1 DEF ToolNext, Next
  <2>2. QED
    BY <2>1, OrderStep
<1>3. QED
  BY <1>1, <1>2

(* Where the chain files of a ZIP begin at one certificate and follow the  *)
(* signatures, none is refused without a cause while jks2secret is at work *)
(* too, whatever payloads it writes: ssl.go:81-84, tencentcert/issuer.go   *)
(* 155-165, issuer.go:86-112.                                              *)
THEOREM NoFalseAlarmBeside ==
    ASSUME NEW c \in Cert, OrderlyFiles(c)
    PROVE  ToolSpec => []NoFalseAlarm
<1>1. ToolInit => TInv /\ OrderInv(c)
  BY ToolStart, InitInv DEF ToolInit, Init, OrderInv, FilesOK, ChainOK, NoFalseAlarm
<1>2. TInv /\ OrderInv(c) /\ [ToolNext]_<<vars, toolVars>> => (TInv /\ OrderInv(c))'
  BY ToolStep, ToolOrderStep
<1>3. OrderInv(c) => NoFalseAlarm
  BY DEF OrderInv
<1>4. QED
  BY <1>1, <1>2, <1>3, PTL DEF ToolSpec

=============================================================================
