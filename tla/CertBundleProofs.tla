-------------------------- MODULE CertBundleProofs --------------------------
(***************************************************************************)
(* What the downloads promise, for every ZIP, every text of ACM whose lines *)
(* are ended, every JSON payload and every set of certificates.            *)
(*                                                                         *)
(* IInv says, stage by stage, which certificates the parts hold, that the  *)
(* parts a reconcile goes on with are normalised and verified, and that    *)
(* the Secret is computed from them and passed its own check.  The         *)
(* properties follow from it and from the lemmas about texts and paths of  *)
(* PEMProofs.                                                              *)
(***************************************************************************)
EXTENDS CertBundle, PEMProofs

-----------------------------------------------------------------------------
(***************************************************************************)
(* The invariant of the download.  What the source supplied is accounted   *)
(* for at every stage, a reconcile that goes on has normalised and         *)
(* verified parts, and the Secret is the one that is computed from them.   *)
(***************************************************************************)
PartsType == [leaf : Text, chain : Text, key : Text]

Ready(p) ==
    /\ p \in PartsType
    /\ Normal(p.leaf) /\ Clean(p.chain) /\ Normal(p.key)
    /\ VerifyChain(p.leaf, p.chain)

Joined(p)    == NormalizePEM(Concat(p.leaf, p.chain))
SyncedTls(p) == CompleteChain(Joined(p))
Completed(p) == CompleteChain(Concat(p.leaf, p.chain))
IssuedCA(p)  == SplitLeafAndChain(Completed(p)).chain

SyncedSecret(p) ==
    [tls |-> SyncedTls(p), ca |-> Empty, chain |-> ChainComposition(SyncedTls(p)),
     store |-> Keystores(SyncedTls(p), p).store,
     keystore |-> Keystores(SyncedTls(p), p).keystore]

IssuedSecret(p) ==
    [tls |-> p.leaf, ca |-> IssuedCA(p), chain |-> ChainComposition(Completed(p)),
     store |-> Build(p.leaf, IssuedCA(p), p.key).store,
     keystore |-> Build(p.leaf, IssuedCA(p), p.key).keystore]

Both      == CertsOf(parts.leaf) \cup CertsOf(parts.chain) = given.leaf \cup given.chain
PartByPart == CertsOf(parts.leaf) = given.leaf /\ CertsOf(parts.chain) = given.chain

StartOK  == stage = "start" => parts = NoParts /\ given = Nothing
SourceOK == stage \in {"zip", "parsed", "issued"} => PartByPart
ReadyOK  == stage \in {"fetched", "parsed", "synced", "issued"} => Ready(parts) /\ Both
SyncedOK == stage = "synced" => /\ secret = SyncedSecret(parts)
                                /\ VerifySecretData(secret.tls, parts.key)
IssuedOK == stage = "issued" => /\ secret = IssuedSecret(parts)
                                /\ VerifySecretData(secret.tls, parts.key)

IInv == TypeOK /\ StartOK /\ SourceOK /\ ReadyOK /\ SyncedOK /\ IssuedOK

SecretType ==
    [tls : Text, ca : Text, chain : SUBSET {"leaf", "intermediate", "root"},
     store : Seq({b \in Block : Parses(b)}),
     keystore : {"none", "skipped", "failed", "built"}]

LEMMA EmptyFacts ==
    /\ Empty \in Text /\ Clean(Empty) /\ Normal(Empty) /\ CertsOf(Empty) = {}
    /\ NoParts \in PartsType /\ NoSecret \in SecretType
<1>1. <<>> \in Seq(Block)
  OBVIOUS
<1>2. Empty \in Text /\ Empty.blocks = <<>> /\ ~Empty.open
  BY <1>1 DEF Empty, Text
<1>3. Clean(Empty)
  BY <1>2 DEF Clean, Plain, Distinct
<1>4. Normal(Empty)
  BY <1>3, CleanFacts
<1>5. CertsOf(Empty) = {}
  BY <1>2 DEF CertsOf, Ders
<1>6. NoParts \in PartsType
  BY <1>2 DEF NoParts, PartsType
<1>7. NoSecret \in SecretType
  BY <1>2 DEF NoSecret, SecretType
<1>8. QED
  BY <1>2, <1>3, <1>4, <1>5, <1>6, <1>7

(* What the controllers compute has its type.                              *)
LEMMA SecretsTyped ==
    ASSUME NEW p \in PartsType
    PROVE  SyncedSecret(p) \in SecretType /\ IssuedSecret(p) \in SecretType
<1>1. p.leaf \in Text /\ p.chain \in Text /\ p.key \in Text
  BY DEF PartsType
<1>2. Concat(p.leaf, p.chain) \in Text
  BY <1>1, ConcatFacts
<1>3. Joined(p) \in Text
  BY <1>2, NormalizeFacts DEF Joined
<1>4. SyncedTls(p) \in Text /\ Completed(p) \in Text
  BY <1>2, <1>3, CompleteFacts DEF SyncedTls, Completed
<1>5. \A t \in Text : SplitLeafAndChain(t).leaf \in Text /\ SplitLeafAndChain(t).chain \in Text
  BY SplitFacts
<1>6. \A t \in Text : ChainComposition(t) \in SUBSET {"leaf", "intermediate", "root"}
  <2> SUFFICES ASSUME NEW t \in Text, NEW x \in ChainComposition(t)
               PROVE  x \in {"leaf", "intermediate", "root"}
    OBVIOUS
  <2> DEFINE later == {Parsed(t)[i].der : i \in 2 .. Len(Parsed(t))}
  <2> DEFINE A == {"leaf" : i \in DOMAIN Parsed(t)}
             B == {IF SelfSigned(c) THEN "root" ELSE "intermediate" : c \in later}
  <2>1. ChainComposition(t) = A \cup B
    BY DEF ChainComposition
  <2> HIDE DEF later
  <2>2. \A y \in A : y \in {"leaf", "intermediate", "root"}
    OBVIOUS
  <2>3. \A y \in B : y \in {"leaf", "intermediate", "root"}
    OBVIOUS
  <2> HIDE DEF A, B
  <2>4. QED
    BY <2>1, <2>2, <2>3
<1>7. ASSUME NEW l, NEW t \in Text, NEW k
      PROVE  /\ Build(l, t, k).store \in Seq({b \in Block : Parses(b)})
             /\ Build(l, t, k).keystore \in {"none", "skipped", "failed", "built"}
  <2>1. Build(l, t, k).store = ParseChainDER(t)
    BY DEF Build
  <2>2. Build(l, t, k).keystore \in {"none", "skipped", "failed", "built"}
    BY DEF Build
  <2>3. QED
    BY <2>1, <2>2, ParseChainFacts
<1>8. IssuedCA(p) \in Text
  BY <1>4, <1>5 DEF IssuedCA
<1>9. /\ Keystores(SyncedTls(p), p).store \in Seq({b \in Block : Parses(b)})
      /\ Keystores(SyncedTls(p), p).keystore \in {"none", "skipped", "failed", "built"}
  <2> DEFINE split == SplitLeafAndChain(SyncedTls(p))
  <2>1. Keystores(SyncedTls(p), p) = Build(split.leaf, split.chain, p.key)
    BY DEF Keystores
  <2>2. split.chain \in Text
    BY <1>4, <1>5
  <2>3. QED
    BY <1>7, <2>1, <2>2
<1>10. SyncedSecret(p) \in SecretType
  BY <1>4, <1>6, <1>9, EmptyFacts DEF SyncedSecret, SecretType
<1>11. IssuedSecret(p) \in SecretType
  BY <1>1, <1>4, <1>6, <1>7, <1>8 DEF IssuedSecret, SecretType
<1>12. QED
  BY <1>10, <1>11

(* One more file loses nothing of those before it, nor of its own.         *)
LEMMA AppendFacts ==
    ASSUME NEW t \in Text, NEW u \in Text
    PROVE  /\ AppendPEM(t, u) \in Text
           /\ CertsOf(AppendPEM(t, u)) = CertsOf(t) \cup CertsOf(u)
<1> DEFINE v == [t EXCEPT !.open = FALSE]
<1>1. v \in Text /\ v.blocks = t.blocks
  BY DEF Text
<1>2. AppendPEM(t, u) = Concat(v, u)
  BY DEF AppendPEM
<1> HIDE DEF v
<1>3. Concat(v, u) \in Text /\ Ders(Concat(v, u).blocks) = Ders(v.blocks) \cup Ders(u.blocks)
  BY <1>1, ConcatFacts
<1>4. Ders(AppendPEM(t, u).blocks) = Ders(t.blocks) \cup Ders(u.blocks)
  BY <1>1, <1>2, <1>3
<1>5. QED
  BY <1>2, <1>3, <1>4 DEF CertsOf

(* Parts that are normalised and pass the verification are ready, and hold *)
(* what they held before.                                                  *)
LEMMA CheckedIsReady ==
    ASSUME NEW p \in PartsType,
           VerifyChain(NormalizePEM(p.leaf), NormalizePEM(p.chain))
    PROVE  /\ Ready(Normalized(p))
           /\ CertsOf(Normalized(p).leaf) = CertsOf(p.leaf)
           /\ CertsOf(Normalized(p).chain) = CertsOf(p.chain)
<1> DEFINE l == NormalizePEM(p.leaf)
           c == NormalizePEM(p.chain)
           k == NormalizePEM(p.key)
<1>1. p.leaf \in Text /\ p.chain \in Text /\ p.key \in Text
  BY DEF PartsType
<1>2. /\ Normal(l) /\ CertsOf(l) = CertsOf(p.leaf)
      /\ Normal(c) /\ CertsOf(c) = CertsOf(p.chain)
      /\ Normal(k)
  BY <1>1, NormalizedIsNormal
<1>3. Normalized(p) = [leaf |-> l, chain |-> c, key |-> k]
  BY DEF Normalized
<1>4. VerifyChain(l, c)
  OBVIOUS
<1> HIDE DEF l, c, k
<1>5. Clean(c)
  <2>1. c # Empty => Decode(c) # <<>>
    BY <1>4 DEF VerifyChain
  <2>2. QED
    BY <1>2, <2>1, EmptyFacts DEF Normal
<1>6. l \in Text /\ c \in Text /\ k \in Text
  BY <1>2 DEF Normal
<1>7. QED
  BY <1>2, <1>3, <1>4, <1>5, <1>6 DEF Ready, PartsType

-----------------------------------------------------------------------------
(* Every step keeps the invariant. *)

LEMMA InitInv == Init => IInv
<1> SUFFICES ASSUME Init PROVE IInv
  OBVIOUS
<1>1. TypeOK
  <2>1. NoParts \in PartsType /\ NoSecret \in SecretType /\ MaxFiles \in Nat
    BY EmptyFacts, BundleConstants
  <2>2. Nothing \in [leaf : SUBSET (Cert \cup Malformed), chain : SUBSET (Cert \cup Malformed)]
    BY DEF Nothing
  <2>3. QED
    BY <2>1, <2>2 DEF Init, TypeOK, PartsType, SecretType
<1>2. QED
  BY <1>1 DEF Init, IInv, StartOK, SourceOK, ReadyOK, SyncedOK, IssuedOK

GivenType == [leaf : SUBSET (Cert \cup Malformed), chain : SUBSET (Cert \cup Malformed)]

LEMMA TypeFacts ==
    TypeOK <=> /\ stage \in {"start", "zip", "fetched", "parsed", "synced", "issued", "refused"}
               /\ files \in 0 .. MaxFiles
               /\ parts \in PartsType
               /\ given \in GivenType
               /\ secret \in SecretType
BY DEF TypeOK, PartsType, GivenType, SecretType

(* A file that is read is added to one of the parts, or to none.           *)
LEMMA ReadFileKeeps ==
    ASSUME IInv, NEW f \in File, ReadFile(f)
    PROVE  IInv'
<1>1. f.name \in NameParts /\ f.text \in Text /\ MaxFiles \in Nat
  BY BundleConstants
<1>2. /\ stage \in {"start", "zip"} /\ files < MaxFiles /\ stage' = "zip"
      /\ files' = files + 1 /\ secret' = secret
      /\ parts' = IF Bucket(f.name) = "none" THEN parts
                  ELSE [parts EXCEPT ![Bucket(f.name)] = AppendPEM(@, f.text)]
      /\ given' = IF Bucket(f.name) \in {"none", "key"} THEN given
                  ELSE [given EXCEPT ![Bucket(f.name)] = @ \cup CertsOf(f.text)]
  BY DEF ReadFile
<1>3. /\ files \in 0 .. MaxFiles /\ parts \in PartsType /\ given \in GivenType
      /\ secret \in SecretType
  BY TypeFacts DEF IInv
<1>4. PartByPart
  <2>1. CASE stage = "start"
    <3>1. parts = NoParts /\ given = Nothing
      BY <2>1 DEF IInv, StartOK
    <3>2. QED
      BY <3>1, EmptyFacts DEF PartByPart, NoParts, Nothing
  <2>2. CASE stage = "zip"
    BY <2>2 DEF IInv, SourceOK
  <2>3. QED
    BY <1>2, <2>1, <2>2
<1>5. parts.leaf \in Text /\ parts.chain \in Text /\ parts.key \in Text
  BY <1>3 DEF PartsType
<1>6. \A t \in Text : /\ AppendPEM(t, f.text) \in Text
                      /\ CertsOf(AppendPEM(t, f.text)) = CertsOf(t) \cup CertsOf(f.text)
  BY <1>1, AppendFacts
<1>7. CertsOf(f.text) \in SUBSET (Cert \cup Malformed)
  BY DEF CertsOf
<1>8. parts' \in PartsType /\ given' \in GivenType /\ PartByPart'
  <2>1. CASE Bucket(f.name) = "none"
    BY <1>2, <1>3, <1>4, <2>1 DEF PartByPart
  <2>2. CASE Bucket(f.name) = "key"
    <3>1. parts' = [parts EXCEPT !.key = AppendPEM(@, f.text)] /\ given' = given
      BY <1>2, <2>2
    <3>2. parts' \in PartsType /\ parts'.leaf = parts.leaf /\ parts'.chain = parts.chain
      BY <1>3, <1>5, <1>6, <3>1 DEF PartsType
    <3>3. QED
      BY <1>3, <1>4, <3>1, <3>2 DEF PartByPart
  <2>3. CASE Bucket(f.name) = "chain"
    <3>1. /\ parts' = [parts EXCEPT !.chain = AppendPEM(@, f.text)]
          /\ given' = [given EXCEPT !.chain = @ \cup CertsOf(f.text)]
      BY <1>2, <2>3
    <3>2. /\ parts' \in PartsType /\ parts'.leaf = parts.leaf
          /\ parts'.chain = AppendPEM(parts.chain, f.text)
      BY <1>3, <1>5, <1>6, <3>1 DEF PartsType
    <3>3. /\ given' \in GivenType /\ given'.leaf = given.leaf
          /\ given'.chain = given.chain \cup CertsOf(f.text)
      BY <1>3, <1>7, <3>1 DEF GivenType
    <3>4. QED
      BY <1>4, <1>5, <1>6, <3>2, <3>3 DEF PartByPart
  <2>4. CASE Bucket(f.name) = "leaf"
    <3>1. /\ parts' = [parts EXCEPT !.leaf = AppendPEM(@, f.text)]
          /\ given' = [given EXCEPT !.leaf = @ \cup CertsOf(f.text)]
      BY <1>2, <2>4
    <3>2. /\ parts' \in PartsType /\ parts'.chain = parts.chain
          /\ parts'.leaf = AppendPEM(parts.leaf, f.text)
      BY <1>3, <1>5, <1>6, <3>1 DEF PartsType
    <3>3. /\ given' \in GivenType /\ given'.chain = given.chain
          /\ given'.leaf = given.leaf \cup CertsOf(f.text)
      BY <1>3, <1>7, <3>1 DEF GivenType
    <3>4. QED
      BY <1>4, <1>5, <1>6, <3>2, <3>3 DEF PartByPart
  <2>5. QED
    BY <2>1, <2>2, <2>3, <2>4 DEF Bucket
<1>9. files' \in 0 .. MaxFiles
  BY <1>1, <1>2, <1>3
<1>10. TypeOK'
  BY <1>2, <1>3, <1>8, <1>9 DEF TypeOK, PartsType, GivenType, SecretType
<1>11. QED
  BY <1>2, <1>8, <1>10 DEF IInv, StartOK, SourceOK, ReadyOK, SyncedOK, IssuedOK

(* What the ZIP held is normalised and verified.                           *)
LEMMA TencentFetchKeeps ==
    ASSUME IInv, TencentFetch
    PROVE  IInv'
<1>1. /\ stage = "zip" /\ files' = files /\ given' = given /\ secret' = secret
      /\ files \in 0 .. MaxFiles /\ parts \in PartsType /\ given \in GivenType
      /\ secret \in SecretType
  BY TypeFacts DEF IInv, TencentFetch
<1>2. PartByPart
  BY <1>1 DEF IInv, SourceOK
<1>3. CASE stage' = "refused" /\ parts' = parts
  <2>1. TypeOK'
    BY <1>1, <1>3 DEF TypeOK, PartsType, GivenType, SecretType
  <2>2. QED
    BY <1>3, <2>1 DEF IInv, StartOK, SourceOK, ReadyOK, SyncedOK, IssuedOK
<1>4. CASE Checked(parts)
  <2>1. parts' = Normalized(parts) /\ parts' \in PartsType
    <3>1. parts.leaf \in Text /\ parts.chain \in Text /\ parts.key \in Text
      BY <1>1 DEF PartsType
    <3>2. \A t \in Text : NormalizePEM(t) \in Text
      BY NormalizeFacts
    <3>3. QED
      BY <1>4, <3>1, <3>2 DEF Checked, Normalized, PartsType
  <2>2. stage' \in {"fetched", "refused"}
    BY <1>4 DEF Checked
  <2>3. ASSUME stage' = "fetched" PROVE Ready(parts') /\ Both'
    <3>1. VerifyChain(NormalizePEM(parts.leaf), NormalizePEM(parts.chain))
      BY <1>4, <2>3 DEF Checked
    <3>2. /\ Ready(parts') /\ CertsOf(parts'.leaf) = CertsOf(parts.leaf)
          /\ CertsOf(parts'.chain) = CertsOf(parts.chain)
      BY <1>1, <2>1, <3>1, CheckedIsReady
    <3>3. QED
      BY <1>1, <1>2, <3>2 DEF Both, PartByPart
  <2>4. TypeOK'
    BY <1>1, <2>1, <2>2 DEF TypeOK, PartsType, GivenType, SecretType
  <2>5. QED
    BY <2>2, <2>3, <2>4 DEF IInv, StartOK, SourceOK, ReadyOK, SyncedOK, IssuedOK
<1>5. QED
  BY <1>3, <1>4 DEF TencentFetch

(* The leaf and the chain of a payload, whatever its texts.                *)
LEMMA ExtractKeeps ==
    ASSUME IInv, NEW cert \in Text, NEW chain \in Text, NEW key \in Text,
           Extract(cert, chain, key)
    PROVE  IInv'
<1> DEFINE p == [leaf |-> cert, chain |-> chain, key |-> key]
<1>1. /\ stage = "start" /\ files' = files /\ secret' = secret
      /\ given' = [leaf |-> CertsOf(cert), chain |-> CertsOf(chain)]
      /\ files \in 0 .. MaxFiles /\ parts \in PartsType /\ secret \in SecretType
  BY TypeFacts DEF IInv, Extract
<1>2. given' \in GivenType
  BY <1>1 DEF GivenType, CertsOf
<1>3. CASE stage' = "refused" /\ parts' = parts
  <2>1. TypeOK'
    BY <1>1, <1>2, <1>3 DEF TypeOK, PartsType, GivenType, SecretType
  <2>2. QED
    BY <1>3, <2>1 DEF IInv, StartOK, SourceOK, ReadyOK, SyncedOK, IssuedOK
<1>4. CASE /\ stage' = IF VerifyChain(NormalizePEM(cert), NormalizePEM(chain))
                       THEN "parsed" ELSE "refused"
           /\ parts' = Normalized(p)
  <2>1. p \in PartsType /\ p.leaf = cert /\ p.chain = chain
    BY DEF PartsType
  <2> HIDE DEF p
  <2>2. parts' \in PartsType
    <3>1. \A t \in Text : NormalizePEM(t) \in Text
      BY NormalizeFacts
    <3>2. QED
      BY <1>4, <2>1, <3>1 DEF Normalized, PartsType
  <2>3. stage' \in {"parsed", "refused"}
    BY <1>4
  <2>4. ASSUME stage' = "parsed" PROVE Ready(parts') /\ Both' /\ PartByPart'
    <3>1. VerifyChain(NormalizePEM(p.leaf), NormalizePEM(p.chain))
      BY <1>4, <2>1, <2>4
    <3>2. /\ Ready(parts') /\ CertsOf(parts'.leaf) = CertsOf(cert)
          /\ CertsOf(parts'.chain) = CertsOf(chain)
      BY <1>4, <2>1, <3>1, CheckedIsReady
    <3>3. QED
      BY <1>1, <3>2 DEF Both, PartByPart
  <2>5. TypeOK'
    BY <1>1, <1>2, <2>2, <2>3 DEF TypeOK, PartsType, GivenType, SecretType
  <2>6. QED
    BY <2>3, <2>4, <2>5 DEF IInv, StartOK, SourceOK, ReadyOK, SyncedOK, IssuedOK
<1>5. QED
  BY <1>3, <1>4 DEF Extract

(* The one text of ACM is taken apart, and all of it is in the two parts.  *)
LEMMA AwsSplit ==
    ASSUME NEW blob \in Text, Unglued(blob)
    PROVE  LET certs == NormalizePEM(SplitPEM(blob).cert)
               split == SplitLeafAndChain(certs)
           IN  /\ Clean(split.leaf) /\ Clean(split.chain)
               /\ CertsOf(split.leaf) \cup CertsOf(split.chain) = CertsOf(blob)
<1> DEFINE certs == NormalizePEM(SplitPEM(blob).cert)
           split == SplitLeafAndChain(certs)
           cs == Certs(certs)
<1>1. Normal(certs) /\ CertsOf(certs) = CertsOf(blob)
  BY SplitPEMFacts, NormalizedIsNormal
<1> HIDE DEF certs
<1>2. certs \in Text /\ Unglued(certs)
  BY <1>1 DEF Normal
<1>3. /\ cs \in Seq(Block) /\ Ders(cs) = CertsOf(certs)
      /\ \A i \in DOMAIN cs : IsCert(cs[i])
      /\ Clean(certs) => Distinct(cs)
  BY <1>2, CertsFacts
<1>4. Distinct(cs)
  <2>1. CASE Decode(certs) # <<>>
    BY <1>1, <1>3, <2>1 DEF Normal
  <2>2. CASE Decode(certs) = <<>>
    <3>1. cs = Select(<<>>, IsCert)
      BY <2>2 DEF Certs
    <3>2. <<>> \in Seq(Block) /\ Distinct(<<>>)
      BY DEF Distinct
    <3> HIDE DEF cs
    <3>3. Distinct(Select(<<>>, IsCert))
      BY <3>2, CertSelection
    <3>4. QED
      BY <3>1, <3>3
  <2>3. QED
    BY <2>1, <2>2
<1>5. /\ split.leaf \in Text /\ split.chain \in Text
      /\ ~split.leaf.open /\ Plain(split.leaf.blocks)
      /\ ~split.chain.open /\ Plain(split.chain.blocks)
      /\ cs = <<>> => split.leaf = Empty /\ split.chain = Empty
      /\ cs # <<>> => split.leaf.blocks = <<cs[1]>> /\ split.chain.blocks = Tail(cs)
  BY <1>2, SplitFacts
<1> HIDE DEF split, cs
<1>6. CASE cs = <<>>
  <2>1. CertsOf(certs) = {}
    BY <1>3, <1>6 DEF Ders
  <2>2. QED
    BY <1>1, <1>5, <1>6, <2>1, EmptyFacts DEF split, certs
<1>7. CASE cs # <<>>
  <2>1. /\ Ders(cs) = {cs[1].der} \cup Ders(Tail(cs))
        /\ Distinct(Tail(cs))
    BY <1>3, <1>4, <1>7, TailFacts
  <2>2. Distinct(<<cs[1]>>) /\ Ders(<<cs[1]>>) = {cs[1].der}
    BY DEF Distinct, Ders
  <2>3. Ders(cs) \subseteq Cert \cup Malformed
    BY <1>3 DEF CertsOf
  <2>4. Clean(split.leaf) /\ Clean(split.chain)
    BY <1>5, <1>7, <2>1, <2>2 DEF Clean
  <2>5. CertsOf(split.leaf) = {cs[1].der} /\ CertsOf(split.chain) = Ders(Tail(cs))
    BY <1>5, <1>7, <2>1, <2>2, <2>3 DEF CertsOf
  <2>6. QED
    BY <1>1, <1>3, <2>1, <2>4, <2>5 DEF split, certs
<1>8. QED
  BY <1>6, <1>7

LEMMA AwsFetchKeeps ==
    ASSUME IInv, NEW blob \in Blob, AwsFetch(blob)
    PROVE  IInv'
<1> DEFINE raw == SplitPEM(blob)
           split == SplitLeafAndChain(NormalizePEM(raw.cert))
           key == IF raw.key = Empty THEN Empty ELSE DecryptPKCS8(raw.key)
<1>1. /\ blob \in Text /\ Unglued(blob)
  BY BundleConstants, AcmEndsItsLines DEF Unglued
<1>2. /\ stage = "start" /\ files' = files /\ secret' = secret
      /\ given' = [Nothing EXCEPT !.leaf = CertsOf(blob)]
      /\ files \in 0 .. MaxFiles /\ parts \in PartsType /\ secret \in SecretType
  BY TypeFacts DEF IInv, AwsFetch
<1>3. /\ given' \in GivenType /\ given'.leaf = CertsOf(blob) /\ given'.chain = {}
  BY <1>2 DEF GivenType, CertsOf, Nothing
<1>4. /\ Clean(split.leaf) /\ Clean(split.chain)
      /\ CertsOf(split.leaf) \cup CertsOf(split.chain) = CertsOf(blob)
  BY <1>1, AwsSplit
<1>5. Normal(key)
  BY <1>1, SplitPEMFacts DEF DecryptPKCS8
<1>6. CASE stage' = "refused" /\ parts' = parts
  <2>1. TypeOK'
    BY <1>2, <1>3, <1>6 DEF TypeOK, PartsType, GivenType, SecretType
  <2>2. QED
    BY <1>6, <2>1 DEF IInv, StartOK, SourceOK, ReadyOK, SyncedOK, IssuedOK
<1>7. CASE /\ stage' = IF VerifyChain(split.leaf, split.chain) THEN "fetched" ELSE "refused"
           /\ parts' = [leaf |-> split.leaf, chain |-> split.chain, key |-> key]
  <2> DEFINE l == split.leaf
             c == split.chain
  <2>1. Normal(l) /\ l \in Text /\ c \in Text /\ key \in Text
    BY <1>4, <1>5, CleanFacts DEF Normal
  <2>2. /\ stage' = IF VerifyChain(l, c) THEN "fetched" ELSE "refused"
        /\ parts' = [leaf |-> l, chain |-> c, key |-> key]
        /\ Clean(c) /\ CertsOf(l) \cup CertsOf(c) = CertsOf(blob)
    BY <1>4, <1>7
  <2> HIDE DEF l, c, key
  <2>3. parts' \in PartsType /\ parts'.leaf = l /\ parts'.chain = c /\ parts'.key = key
    BY <2>1, <2>2 DEF PartsType
  <2>4. stage' \in {"fetched", "refused"}
    BY <2>2
  <2>5. ASSUME stage' = "fetched" PROVE Ready(parts') /\ Both'
    <3>1. VerifyChain(l, c)
      BY <2>2, <2>5
    <3>2. Ready(parts')
      BY <1>5, <2>1, <2>2, <2>3, <3>1 DEF Ready
    <3>3. QED
      BY <1>3, <2>2, <2>3, <3>2 DEF Both
  <2>6. TypeOK'
    BY <1>2, <1>3, <2>3, <2>4 DEF TypeOK, PartsType, GivenType, SecretType
  <2>7. QED
    BY <2>4, <2>5, <2>6 DEF IInv, StartOK, SourceOK, ReadyOK, SyncedOK, IssuedOK
<1>8. QED
  BY <1>6, <1>7 DEF AwsFetch

LEMMA CertSyncBuildKeeps ==
    ASSUME IInv, CertSyncBuild
    PROVE  IInv'
<1>1. /\ stage = "fetched" /\ files' = files /\ parts' = parts /\ given' = given
      /\ files \in 0 .. MaxFiles /\ parts \in PartsType /\ given \in GivenType
  BY TypeFacts DEF IInv, CertSyncBuild
<1>2. /\ secret' = SyncedSecret(parts)
      /\ stage' = IF VerifySecretData(SyncedTls(parts), parts.key)
                  THEN "synced" ELSE "refused"
  BY DEF CertSyncBuild, SyncedSecret, SyncedTls, Joined
<1>3. secret' \in SecretType
  BY <1>1, <1>2, SecretsTyped
<1>4. Ready(parts') /\ Both'
  BY <1>1 DEF IInv, ReadyOK, Both
<1>5. stage' \in {"synced", "refused"}
  BY <1>2
<1>6. TypeOK'
  BY <1>1, <1>3, <1>5 DEF TypeOK, PartsType, GivenType, SecretType
<1>7. ASSUME stage' = "synced"
      PROVE  secret' = SyncedSecret(parts') /\ VerifySecretData(secret'.tls, parts'.key)
  <2>1. secret'.tls = SyncedTls(parts)
    BY <1>2 DEF SyncedSecret
  <2>2. QED
    BY <1>1, <1>2, <1>7, <2>1
<1>8. QED
  BY <1>4, <1>5, <1>6, <1>7 DEF IInv, StartOK, SourceOK, ReadyOK, SyncedOK, IssuedOK

LEMMA IssuerBuildKeeps ==
    ASSUME IInv, IssuerBuild
    PROVE  IInv'
<1>1. /\ stage = "parsed" /\ files' = files /\ parts' = parts /\ given' = given
      /\ files \in 0 .. MaxFiles /\ parts \in PartsType /\ given \in GivenType
  BY TypeFacts DEF IInv, IssuerBuild
<1>2. /\ secret' = IssuedSecret(parts)
      /\ stage' = IF VerifySecretData(parts.leaf, parts.key) THEN "issued" ELSE "refused"
  BY DEF IssuerBuild, IssuedSecret, IssuedCA, Completed
<1>3. secret' \in SecretType
  BY <1>1, <1>2, SecretsTyped
<1>4. Ready(parts') /\ Both' /\ PartByPart'
  BY <1>1 DEF IInv, ReadyOK, SourceOK, Both, PartByPart
<1>5. stage' \in {"issued", "refused"}
  BY <1>2
<1>6. TypeOK'
  BY <1>1, <1>3, <1>5 DEF TypeOK, PartsType, GivenType, SecretType
<1>7. ASSUME stage' = "issued"
      PROVE  secret' = IssuedSecret(parts') /\ VerifySecretData(secret'.tls, parts'.key)
  <2>1. secret'.tls = parts.leaf
    BY <1>2 DEF IssuedSecret
  <2>2. QED
    BY <1>1, <1>2, <1>7, <2>1
<1>8. QED
  BY <1>4, <1>5, <1>6, <1>7 DEF IInv, StartOK, SourceOK, ReadyOK, SyncedOK, IssuedOK

LEMMA ReturnKeeps ==
    ASSUME IInv, Return
    PROVE  IInv'
<1>1. /\ stage' = "start" /\ files' = 0 /\ parts' = NoParts /\ given' = Nothing
      /\ secret' = NoSecret
  BY DEF Return
<1>2. NoParts \in PartsType /\ NoSecret \in SecretType /\ MaxFiles \in Nat
  BY EmptyFacts, BundleConstants
<1>3. Nothing \in GivenType
  BY DEF Nothing, GivenType
<1>4. TypeOK'
  BY <1>1, <1>2, <1>3 DEF TypeOK, PartsType, GivenType, SecretType
<1>5. QED
  BY <1>1, <1>4 DEF IInv, StartOK, SourceOK, ReadyOK, SyncedOK, IssuedOK

LEMMA StepInv == IInv /\ [Next]_vars => IInv'
<1> SUFFICES ASSUME IInv, [Next]_vars PROVE IInv'
  OBVIOUS
<1>1. ASSUME NEW f \in File, ReadFile(f) PROVE IInv'
  BY <1>1, ReadFileKeeps
<1>2. CASE TencentFetch
  BY <1>2, TencentFetchKeeps
<1>3. ASSUME NEW blob \in Blob, AwsFetch(blob) PROVE IInv'
  BY <1>3, AwsFetchKeeps
<1>4. CASE CertSyncBuild
  BY <1>4, CertSyncBuildKeeps
<1>5. ASSUME NEW cert \in Field \cup {Empty}, NEW chain \in Field \cup {Empty},
             NEW key \in KeyText, Extract(cert, chain, key)
      PROVE  IInv'
  <2>1. cert \in Text /\ chain \in Text
    BY BundleConstants, EmptyFacts
  <2>2. key \in Text
    <3>1. ASSUME NEW k \in Key PROVE Encode(<<[der |-> k, glued |-> FALSE]>>) \in Text
      <4> DEFINE b == [der |-> k, glued |-> FALSE]
      <4>1. b \in Block
        BY DEF Block
      <4> HIDE DEF b
      <4>2. <<b>> \in Seq(Block)
        BY <4>1
      <4>3. Encode(<<b>>) \in Text
        BY <4>2, EncodeFacts
      <4>4. QED
        BY <4>3 DEF b
    <3>2. QED
      BY <3>1, EmptyFacts DEF KeyText
  <2>3. QED
    BY <1>5, <2>1, <2>2, ExtractKeeps
<1>6. CASE IssuerBuild
  BY <1>6, IssuerBuildKeeps
<1>7. CASE Return
  BY <1>7, ReturnKeeps
<1>8. CASE UNCHANGED vars
  <2>1. /\ stage' = stage /\ files' = files /\ parts' = parts /\ given' = given
        /\ secret' = secret
    BY <1>8 DEF vars
  <2>2. TypeOK'
    BY <2>1 DEF IInv, TypeOK
  <2>3. QED
    BY <2>1, <2>2 DEF IInv, StartOK, SourceOK, ReadyOK, SyncedOK, IssuedOK, PartByPart, Both
<1>9. QED
  BY <1>1, <1>2, <1>3, <1>4, <1>5, <1>6, <1>7, <1>8 DEF Next

LEMMA Invariance == Spec => []IInv
<1>1. Init => IInv
  BY InitInv
<1>2. IInv /\ [Next]_vars => IInv'
  BY StepInv
<1>3. QED
  BY <1>1, <1>2, PTL DEF Spec

(* Every text of the download is a text, every certificate that goes into  *)
(* a keystore parses, and the chain is told in three words.                *)
THEOREM BundlesAreTyped == Spec => []TypeOK
<1>1. IInv => TypeOK
  BY DEF IInv
<1>2. QED
  BY <1>1, Invariance, PTL

-----------------------------------------------------------------------------
(* What is shipped. *)

(* tls.crt of a CertSyncer.                                                *)
LEMMA SyncedFacts ==
    ASSUME IInv, stage = "synced"
    PROVE  /\ Ready(parts) /\ Both /\ secret = SyncedSecret(parts)
           /\ secret.tls = SyncedTls(parts) /\ Clean(secret.tls)
           /\ Served = Certs(secret.tls)
           /\ Served \in Seq(Block) /\ Plain(Served) /\ Distinct(Served)
           /\ \A i \in DOMAIN Served : IsCert(Served[i])
           /\ Ders(Served) = CertsOf(secret.tls)
           /\ secret.tls.blocks # <<>> /\ Parses(secret.tls.blocks[1])
           /\ Served # <<>> /\ Served[1] = secret.tls.blocks[1]
           /\ parts.key # Empty => Clean(parts.key)
<1>1. /\ Ready(parts) /\ Both /\ secret = SyncedSecret(parts)
      /\ VerifySecretData(secret.tls, parts.key)
  BY DEF IInv, ReadyOK, SyncedOK
<1>2. secret.tls = SyncedTls(parts)
  BY <1>1 DEF SyncedSecret
<1>3. Concat(parts.leaf, parts.chain) \in Text
  BY <1>1, ConcatFacts DEF Ready, PartsType
<1>4. Normal(Joined(parts)) /\ Joined(parts) \in Text
  BY <1>3, NormalizedIsNormal DEF Joined, Normal
<1>5. Normal(secret.tls)
  BY <1>2, <1>4, CompleteFacts DEF SyncedTls
<1>6. /\ Decode(secret.tls) # <<>> /\ Parses(Decode(secret.tls)[1])
      /\ parts.key # Empty => Decode(parts.key) # <<>>
  BY <1>1 DEF VerifySecretData
<1>7. Clean(secret.tls) /\ (parts.key # Empty => Clean(parts.key))
  BY <1>1, <1>5, <1>6 DEF Normal, Ready
<1>8. Decode(secret.tls) = secret.tls.blocks /\ secret.tls \in Text /\ Unglued(secret.tls)
  BY <1>7, CleanFacts
<1>9. IsCert(secret.tls.blocks[1])
  BY <1>6, <1>8 DEF IsCert, Parses
<1>10. Served = Certs(secret.tls)
  BY DEF Served
<1>11. QED
  BY <1>1, <1>2, <1>6, <1>7, <1>8, <1>9, <1>10, CertsFacts

(* tls.crt and ca.crt of IssuerReconciler.                                 *)
LEMMA IssuedFacts ==
    ASSUME IInv, stage = "issued"
    PROVE  LET t  == Concat(parts.leaf, parts.chain)
               cs == Certs(Completed(parts))
           IN  /\ Ready(parts) /\ Both /\ PartByPart /\ secret = IssuedSecret(parts)
               /\ secret.tls = parts.leaf /\ secret.ca = IssuedCA(parts)
               /\ Clean(parts.leaf) /\ Clean(parts.chain)
               /\ parts.leaf.blocks # <<>> /\ Parses(parts.leaf.blocks[1])
               /\ Closed(t) /\ t.blocks = parts.leaf.blocks \o parts.chain.blocks
               /\ t.blocks # <<>> /\ t.blocks[1] = parts.leaf.blocks[1]
               /\ Closed(Completed(parts))
               /\ cs \in Seq(Block) /\ Plain(cs) /\ cs # <<>>
               /\ cs[1] = parts.leaf.blocks[1]
               /\ Ders(cs) = CertsOf(Completed(parts))
               /\ Closed(secret.ca)
               /\ Decode(secret.ca) = Tail(cs) /\ Certs(secret.ca) = Tail(cs)
<1> DEFINE l == parts.leaf
           c == parts.chain
           t == Concat(l, c)
           done == Completed(parts)
           cs == Certs(done)
<1>1. /\ Ready(parts) /\ Both /\ PartByPart /\ secret = IssuedSecret(parts)
      /\ VerifySecretData(secret.tls, parts.key)
  BY DEF IInv, ReadyOK, SourceOK, IssuedOK
<1>2. secret.tls = l /\ secret.ca = IssuedCA(parts)
  BY <1>1 DEF IssuedSecret
<1>3. Decode(l) # <<>> /\ Parses(Decode(l)[1])
  BY <1>1, <1>2 DEF VerifySecretData
<1>4. Clean(l) /\ Clean(c)
  BY <1>1, <1>3 DEF Ready, Normal
<1>5. /\ Decode(l) = l.blocks /\ l.blocks \in Seq(Block) /\ Plain(l.blocks)
      /\ c.blocks \in Seq(Block) /\ Plain(c.blocks)
      /\ Closed(l) /\ Closed(c)
  BY <1>4, CleanFacts DEF Clean, Closed
<1> HIDE DEF l, c
<1>6. Closed(t) /\ t.blocks = l.blocks \o c.blocks
  BY <1>5, ConcatClosed
<1>7. t.blocks # <<>> /\ t.blocks[1] = l.blocks[1]
  <2>1. l.blocks # <<>>
    BY <1>3, <1>5 DEF l
  <2>2. l.blocks \o c.blocks # <<>> /\ (l.blocks \o c.blocks)[1] = l.blocks[1]
    BY <1>5, <2>1, ConcatPlain
  <2>3. QED
    BY <1>6, <2>2
<1> HIDE DEF t
<1>8. Closed(done) /\ done.blocks # <<>> /\ done.blocks[1] = l.blocks[1]
  BY <1>6, <1>7, CompleteClosed DEF Completed, t, l, c
<1> HIDE DEF done
<1>9. Decode(done) = done.blocks /\ done \in Text /\ CertsOf(done) = Ders(cs)
  BY <1>8, ClosedFacts
<1>10. IsCert(done.blocks[1])
  BY <1>3, <1>5, <1>8 DEF IsCert, Parses
<1>11. /\ cs \in Seq(Block) /\ Plain(cs) /\ \A i \in DOMAIN cs : IsCert(cs[i])
       /\ cs # <<>> /\ cs[1] = l.blocks[1]
  BY <1>8, <1>9, <1>10, CertsFacts
<1>12. /\ secret.ca \in Text /\ ~secret.ca.open /\ Plain(secret.ca.blocks)
       /\ secret.ca.blocks = Tail(cs)
  BY <1>2, <1>9, <1>11, SplitFacts DEF IssuedCA, done
<1> HIDE DEF cs
<1>13. Closed(secret.ca) /\ Decode(secret.ca) = Tail(cs)
  BY <1>12, ClosedFacts DEF Closed
<1>14. Certs(secret.ca) = Tail(cs)
  <2>1. Tail(cs) \in Seq(Block) /\ \A i \in DOMAIN Tail(cs) : IsCert(Tail(cs)[i])
    <3> DEFINE rest == Tail(cs)
    <3>1. /\ rest \in Seq(Block) /\ Len(rest) = Len(cs) - 1 /\ Len(cs) \in Nat
          /\ \A i \in 1 .. Len(cs) - 1 : rest[i] = cs[i + 1]
      BY <1>11, TailFacts
    <3> HIDE DEF rest
    <3>2. DOMAIN rest = 1 .. Len(cs) - 1 /\ DOMAIN cs = 1 .. Len(cs)
      BY <1>11, <3>1
    <3>3. \A i \in DOMAIN rest : i + 1 \in DOMAIN cs /\ rest[i] = cs[i + 1]
      BY <3>1, <3>2
    <3>4. \A i \in DOMAIN rest : IsCert(rest[i])
      <4> SUFFICES ASSUME NEW i \in DOMAIN rest PROVE IsCert(rest[i])
        OBVIOUS
      <4>1. i + 1 \in DOMAIN cs /\ rest[i] = cs[i + 1]
        BY <3>3
      <4>2. IsCert(cs[i + 1])
        BY <1>11, <4>1
      <4>3. QED
        BY <4>1, <4>2
    <3>5. QED
      BY <3>1, <3>4 DEF rest
  <2>2. Certs(secret.ca) = Select(Tail(cs), IsCert)
    BY <1>13 DEF Certs
  <2>3. QED
    BY <2>1, <2>2, CertSelection
<1>15. QED
  BY <1>1, <1>2, <1>3, <1>4, <1>5, <1>6, <1>7, <1>8, <1>9, <1>11, <1>13, <1>14
     DEF l, c, t, done, cs

LEMMA IssuedServes ==
    ASSUME IInv, stage = "issued"
    PROVE  LET cs == Certs(Completed(parts))
           IN  /\ Served = Dedup(Certs(parts.leaf) \o Tail(cs))
               /\ Served \in Seq(Block) /\ Served # <<>>
               /\ Served[1] = parts.leaf.blocks[1]
               /\ Ders(Served) = CertsOf(parts.leaf) \cup Ders(Tail(cs))
               /\ Ders(Served) = CertsOf(Completed(parts))
               /\ CertsOf(parts.leaf) \cup CertsOf(parts.chain) \subseteq Ders(Served)
               /\ Ders(Served) \ (CertsOf(parts.leaf) \cup CertsOf(parts.chain))
                      \subseteq KnownRoots
<1> DEFINE l == parts.leaf
           c == parts.chain
           t == Concat(l, c)
           done == Completed(parts)
           cs == Certs(done)
           ls == Certs(l)
           bs == ls \o Tail(cs)
<1>1. /\ secret.tls = l /\ Clean(l) /\ Clean(c)
      /\ l.blocks # <<>> /\ Parses(l.blocks[1])
      /\ Closed(t) /\ Closed(done)
      /\ cs \in Seq(Block) /\ Plain(cs) /\ cs # <<>> /\ cs[1] = l.blocks[1]
      /\ Ders(cs) = CertsOf(done) /\ Certs(secret.ca) = Tail(cs)
  BY IssuedFacts
<1>2. Served = Dedup(bs)
  BY <1>1 DEF Served
<1>3. l \in Text /\ c \in Text /\ t \in Text /\ Decode(l) = l.blocks /\ Unglued(l)
      /\ Closed(l) /\ Closed(c)
  BY <1>1, CleanFacts DEF Clean, Closed
<1>4. CertsOf(t) = CertsOf(l) \cup CertsOf(c)
  BY <1>3, ConcatClosed
<1>5. /\ CertsOf(t) \subseteq CertsOf(done)
      /\ CertsOf(done) \ CertsOf(t) \subseteq KnownRoots
  BY <1>3, CompleteFacts DEF Completed
<1> HIDE DEF t, done
<1>6. IsCert(l.blocks[1])
  BY <1>1 DEF IsCert, Parses
<1>7. /\ ls \in Seq(Block) /\ Plain(ls) /\ Ders(ls) = CertsOf(l)
      /\ ls # <<>> /\ ls[1] = l.blocks[1]
  BY <1>1, <1>3, <1>6, CertsFacts
<1> HIDE DEF ls, cs
<1>8. /\ Tail(cs) \in Seq(Block) /\ Plain(Tail(cs))
      /\ Ders(cs) = {cs[1].der} \cup Ders(Tail(cs))
  BY <1>1, TailFacts
<1> DEFINE rest == Tail(cs)
<1>9. /\ rest \in Seq(Block) /\ Plain(rest) /\ bs = ls \o rest
  BY <1>8
<1> HIDE DEF rest
<1>10. /\ bs \in Seq(Block) /\ Ders(bs) = Ders(ls) \cup Ders(rest)
       /\ bs # <<>> /\ bs[1] = l.blocks[1]
  <2>1. /\ ls \o rest \in Seq(Block) /\ Ders(ls \o rest) = Ders(ls) \cup Ders(rest)
        /\ ls \o rest # <<>> /\ (ls \o rest)[1] = ls[1]
    BY <1>7, <1>9, ConcatPlain
  <2> HIDE DEF bs
  <2>2. QED
    BY <1>7, <1>9, <2>1
<1> HIDE DEF bs
<1>11. /\ Served \in Seq(Block) /\ Served # <<>> /\ Served[1] = l.blocks[1]
       /\ Ders(Served) = CertsOf(l) \cup Ders(rest)
  BY <1>2, <1>7, <1>10, DedupFacts
<1>12. cs[1].der \in CertsOf(l)
  <2>1. 1 \in DOMAIN ls /\ ls[1].der = cs[1].der
    BY <1>1, <1>7
  <2>2. QED
    BY <1>7, <2>1 DEF Ders
<1>13. CertsOf(l) \cup Ders(rest) = CertsOf(done)
  BY <1>1, <1>4, <1>5, <1>8, <1>12 DEF rest
<1>14. Served = Dedup(Certs(parts.leaf) \o Tail(Certs(Completed(parts))))
  BY <1>2 DEF l, done, cs, ls, bs
<1>15. Ders(Served) = CertsOf(parts.leaf) \cup Ders(Tail(Certs(Completed(parts))))
  BY <1>11 DEF l, done, cs, rest
<1>16. /\ Ders(Served) = CertsOf(done) /\ CertsOf(l) \cup CertsOf(c) \subseteq Ders(Served)
       /\ Ders(Served) \ (CertsOf(l) \cup CertsOf(c)) \subseteq KnownRoots
  BY <1>4, <1>5, <1>11, <1>13
<1>17. QED
  BY <1>11, <1>14, <1>15, <1>16 DEF l, c, done

\* Stage by stage, from the certificates that the parts hold.
LEMMA NothingIsLost == IInv => NothingLost
<1>1. ASSUME IInv, stage = "synced" PROVE NothingLost
  <2> DEFINE l == parts.leaf
             c == parts.chain
             t == Concat(l, c)
  <2>1. /\ Ready(parts) /\ Both /\ secret.tls = SyncedTls(parts)
        /\ Ders(Served) = CertsOf(secret.tls)
    BY <1>1, SyncedFacts
  <2>2. l \in Text /\ c \in Text
    BY <2>1 DEF Ready, PartsType
  <2> HIDE DEF l, c
  <2>3. t \in Text /\ CertsOf(t) = CertsOf(l) \cup CertsOf(c)
    <3>1. t \in Text /\ Ders(t.blocks) = Ders(l.blocks) \cup Ders(c.blocks)
      BY <2>2, ConcatFacts
    <3>2. QED
      BY <3>1 DEF CertsOf
  <2> HIDE DEF t
  <2>4. NormalizePEM(t) \in Text /\ CertsOf(NormalizePEM(t)) = CertsOf(t)
    BY <2>3, NormalizedIsNormal DEF Normal
  <2>5. Joined(parts) = NormalizePEM(t)
    BY DEF Joined, t, l, c
  <2>6. /\ CertsOf(t) \subseteq CertsOf(secret.tls)
        /\ CertsOf(secret.tls) \ CertsOf(t) \subseteq KnownRoots
    BY <2>1, <2>4, <2>5, CompleteFacts DEF SyncedTls
  <2>7. given.leaf \cup given.chain = CertsOf(t)
    BY <2>1, <2>3 DEF Both, l, c
  <2>8. QED
    BY <2>1, <2>6, <2>7 DEF NothingLost, Serves
<1>2. ASSUME IInv, stage = "issued" PROVE NothingLost
  <2>1. Both
    BY <1>2, IssuedFacts
  <2>2. /\ CertsOf(parts.leaf) \cup CertsOf(parts.chain) \subseteq Ders(Served)
        /\ Ders(Served) \ (CertsOf(parts.leaf) \cup CertsOf(parts.chain)) \subseteq KnownRoots
    BY <1>2, IssuedServes
  <2>3. QED
    BY <2>1, <2>2 DEF Both, NothingLost, Serves
<1>3. QED
  BY <1>1, <1>2 DEF NothingLost, Shipped

(* Every certificate the source supplied reaches the consumer, and nothing *)
(* is added but a known root, whatever the files, the texts and the        *)
(* certificates are: parse.go:64-96, ssl.go:87-99, roots.go:44-72.         *)
THEOREM DownloadLosesNothing == Spec => []NothingLost
BY Invariance, NothingIsLost, PTL

\* What is written has been normalised.
LEMMA OneOfEachKept == IInv => OneOfEach
<1>1. QED
  <2> SUFFICES ASSUME IInv, stage = "synced" PROVE OneOfEach
    BY DEF OneOfEach
  <2>1. Clean(secret.tls) /\ (parts.key # Empty => Clean(parts.key))
    BY SyncedFacts
  <2>2. Clean(parts.key)
    BY <2>1, EmptyFacts
  <2>3. Distinct(secret.tls.blocks) /\ Distinct(parts.key.blocks)
    BY <2>1, <2>2 DEF Clean
  <2>4. QED
    BY <2>3 DEF OneOfEach, Distinct

(* However often a ZIP repeats its files, a CertSyncer ships each block    *)
(* once: tencentcert/issuer.go:155-161.                                    *)
THEOREM EachBlockOnce == Spec => []OneOfEach
BY Invariance, OneOfEachKept, PTL

\* Both reconcilers build the store from the chain they ship.
LEMMA ChainInKeystores == IInv => KeystoreCarriesChain
<1>1. ASSUME IInv, stage = "synced", secret.keystore = "built"
      PROVE  KeystoreCarriesChain
  <2> DEFINE tls == secret.tls
             cs == Certs(tls)
             split == SplitLeafAndChain(tls)
  <2>1. /\ secret = SyncedSecret(parts) /\ tls = SyncedTls(parts) /\ Clean(tls)
        /\ Served = cs
        /\ cs \in Seq(Block) /\ Distinct(cs) /\ Plain(cs)
        /\ \A i \in DOMAIN cs : IsCert(cs[i])
        /\ Parses(tls.blocks[1]) /\ cs # <<>> /\ cs[1] = tls.blocks[1]
    BY <1>1, SyncedFacts
  <2>2. secret.store = ParseChainDER(split.chain)
    BY <2>1 DEF SyncedSecret, Keystores, Build
  <2>3. tls \in Text
    BY <2>1, CleanFacts
  <2> HIDE DEF tls
  <2>4. Closed(split.chain) /\ split.chain.blocks = Tail(cs)
    BY <2>1, <2>3, SplitFacts DEF Closed
  <2> HIDE DEF split
  <2>5. Decode(split.chain) = Tail(cs) /\ split.chain \in Text
    BY <2>4, ClosedFacts
  <2> HIDE DEF cs
  <2>6. /\ Tail(cs) \in Seq(Block) /\ Distinct(Tail(cs))
        /\ Ders(cs) = {cs[1].der} \cup Ders(Tail(cs))
    BY <2>1, TailFacts
  <2>7. Parsed(split.chain) = Select(Tail(cs), Parses)
    BY <2>5 DEF Parsed
  <2>8. Distinct(Parsed(split.chain))
    <3> DEFINE rest == Tail(cs)
    <3>1. rest \in Seq(Block) /\ Distinct(rest)
      BY <2>6
    <3> HIDE DEF rest
    <3>2. Distinct(Select(rest, Parses))
      BY <3>1, ParseSelection
    <3>3. QED
      BY <2>7, <3>2 DEF rest
  <2>9. /\ secret.store = Select(Tail(cs), Parses)
        /\ Ders(secret.store) = Ders(Tail(cs)) \cap Cert
    BY <2>2, <2>5, <2>7, <2>8, ParseChainFacts
  <2>10. secret.store = Tail(Select(cs, Parses))
    BY <2>1, <2>9, ParseSelection
  <2>11. cs[1].der \in Cert
    BY <2>1 DEF Parses
  <2>12. QED
    BY <1>1, <2>1, <2>6, <2>9, <2>10, <2>11 DEF KeystoreCarriesChain, Serves, cs
<1>2. ASSUME IInv, stage = "issued", secret.keystore = "built"
      PROVE  KeystoreCarriesChain
  <2> DEFINE cs == Certs(Completed(parts))
  <2>1. /\ secret = IssuedSecret(parts) /\ secret.ca = IssuedCA(parts)
        /\ Parses(parts.leaf.blocks[1]) /\ Closed(secret.ca)
        /\ Decode(secret.ca) = Tail(cs)
        /\ cs \in Seq(Block) /\ cs # <<>> /\ cs[1] = parts.leaf.blocks[1]
        /\ Ders(cs) = CertsOf(Completed(parts))
    BY <1>2, IssuedFacts
  <2>2. /\ Served[1] = parts.leaf.blocks[1]
        /\ Ders(Served) = CertsOf(Completed(parts))
    BY <1>2, IssuedServes
  <2>3. secret.store = ParseChainDER(secret.ca)
    BY <2>1 DEF IssuedSecret, Build
  <2>4. Ders(secret.store) = Ders(Tail(cs)) \cap Cert
    BY <2>1, <2>3, ClosedFacts, ParseChainFacts
  <2> HIDE DEF cs
  <2>5. Ders(cs) = {cs[1].der} \cup Ders(Tail(cs))
    BY <2>1, TailFacts
  <2>6. cs[1].der \in Cert
    BY <2>1 DEF Parses
  <2>7. Ders(secret.store) \cup {Served[1].der} = Ders(Served) \cap Cert
    BY <2>1, <2>2, <2>4, <2>5, <2>6
  <2>8. QED
    BY <1>2, <2>7 DEF KeystoreCarriesChain, Serves
<1>3. QED
  BY <1>1, <1>2 DEF KeystoreCarriesChain, Shipped

(* The keystores carry what tls.crt and ca.crt carry, the appended root    *)
(* with them: certsync.go:150-155, issuer.go:114-119.                      *)
THEOREM KeystoresCarryTheChain == Spec => []KeystoreCarriesChain
BY Invariance, ChainInKeystores, PTL

-----------------------------------------------------------------------------
(* Signing paths that are shipped. *)

(* A leaf that came by itself, with the chain that was verified for it.    *)
LEMMA PartsArePath ==
    ASSUME NEW p, Ready(p), Clean(p.leaf), Len(p.leaf.blocks) = 1,
           Parses(p.leaf.blocks[1])
    PROVE  /\ Closed(Concat(p.leaf, p.chain))
           /\ Concat(p.leaf, p.chain).blocks = p.leaf.blocks \o p.chain.blocks
           /\ Path(p.leaf.blocks \o p.chain.blocks)
           /\ (p.leaf.blocks \o p.chain.blocks)[1] = p.leaf.blocks[1]
<1> DEFINE ls == p.leaf.blocks
           cs == p.chain.blocks
           m == Len(cs)
           bs == ls \o cs
<1>1. /\ Closed(p.leaf) /\ Closed(p.chain) /\ Clean(p.chain)
      /\ VerifyChain(p.leaf, p.chain)
      /\ Decode(p.leaf) = ls /\ Decode(p.chain) = cs
      /\ ls \in Seq(Block) /\ cs \in Seq(Block)
      /\ Plain(ls) /\ Plain(cs) /\ Distinct(cs)
  BY CleanFacts DEF Ready, Clean, Closed
<1>2. /\ Closed(Concat(p.leaf, p.chain))
      /\ Concat(p.leaf, p.chain).blocks = bs
  BY <1>1, ConcatClosed
<1>3. p.chain = Empty => cs = <<>>
  BY DEF Empty
<1>4. cs # <<>> => /\ \A i \in DOMAIN cs : Parses(cs[i])
                   /\ IsPath(<<ls[1]>> \o cs)
  BY <1>1, <1>3 DEF VerifyChain, Empty
<1> HIDE DEF ls, cs
<1>5. Len(ls) = 1 /\ Parses(ls[1])
  BY DEF ls
<1>6. ls = <<ls[1]>> /\ ls # <<>>
  BY <1>1, <1>5
<1>7. /\ bs \in Seq(Block) /\ Plain(bs) /\ bs # <<>> /\ bs[1] = ls[1]
  BY <1>1, <1>6, ConcatPlain
<1>8. /\ Len(bs) = m + 1 /\ m \in Nat
      /\ \A i \in 1 .. m : bs[i + 1] = cs[i]
  <2>1. /\ Len(bs) = 1 + m /\ m \in Nat
        /\ \A i \in 1 .. 1 + m : bs[i] = IF i <= 1 THEN ls[i] ELSE cs[i - 1]
    BY <1>1, <1>5, ConcatProperties
  <2> HIDE DEF bs, m
  <2>2. QED
    BY <2>1
<1>9. IsPath(bs)
  <2>1. CASE cs = <<>>
    <3>1. m = 0
      BY <2>1
    <3>2. Len(bs) - 1 = 0
      BY <1>8, <3>1
    <3>3. QED
      BY <3>2 DEF IsPath
  <2>2. CASE cs # <<>>
    <3>1. bs = <<ls[1]>> \o cs
      BY <1>6
    <3>2. QED
      BY <1>4, <2>2, <3>1
  <2>3. QED
    BY <2>1, <2>2
<1>10. DOMAIN cs = 1 .. m /\ DOMAIN bs = 1 .. m + 1
  BY <1>1, <1>7, <1>8
<1> HIDE DEF bs, m
<1>11. \A i \in 1 .. m : Parses(cs[i])
  <2>1. CASE cs = <<>>
    BY <1>10, <2>1
  <2>2. CASE cs # <<>>
    BY <1>4, <1>10, <2>2
  <2>3. QED
    BY <2>1, <2>2
<1>12. \A i \in 1 .. m + 1 : i = 1 \/ (i - 1 \in 1 .. m /\ bs[i] = cs[i - 1])
  BY <1>8
<1>13. \A i \in DOMAIN bs : Parses(bs[i])
  BY <1>5, <1>7, <1>10, <1>11, <1>12
<1>14. \A i, j \in 2 .. Len(bs) : bs[i].der = bs[j].der => i = j
  <2> SUFFICES ASSUME NEW i \in 2 .. Len(bs), NEW j \in 2 .. Len(bs), bs[i].der = bs[j].der
               PROVE  i = j
    OBVIOUS
  <2>1. /\ i - 1 \in 1 .. m /\ bs[i] = cs[i - 1] /\ i \in Int
        /\ j - 1 \in 1 .. m /\ bs[j] = cs[j - 1] /\ j \in Int
    BY <1>8, <1>12
  <2> DEFINE k == i - 1
             l == j - 1
  <2>2. k \in DOMAIN cs /\ l \in DOMAIN cs /\ cs[k].der = cs[l].der
    BY <1>10, <2>1
  <2> HIDE DEF k, l
  <2>3. k = l
    BY <1>1, <2>2 DEF Distinct
  <2>4. QED
    BY <2>1, <2>3 DEF k, l
<1>15. Path(bs)
  BY <1>7, <1>9, <1>13, <1>14 DEF Path
<1>16. QED
  BY <1>2, <1>7, <1>15 DEF bs, ls, cs

(* The leaf of a CertSyncer is a leaf, or nothing would have been written. *)
LEMMA SyncedLeaf ==
    ASSUME IInv, stage = "synced"
    PROVE  Clean(parts.leaf)
<1> DEFINE l == parts.leaf
           c == parts.chain
<1>1. /\ Ready(parts) /\ secret.tls = SyncedTls(parts) /\ Clean(secret.tls)
      /\ secret.tls.blocks # <<>> /\ Parses(secret.tls.blocks[1])
  BY SyncedFacts
<1>2. Normal(l) /\ l \in Text /\ VerifyChain(l, c)
  BY <1>1 DEF Ready, PartsType
<1> SUFFICES ASSUME Decode(l) = <<>> PROVE FALSE
  BY <1>2 DEF Normal
<1>3. c = Empty
  BY <1>2 DEF VerifyChain
<1>4. Concat(l, c) = l
  BY <1>3 DEF Concat
<1>5. CertsOf(l) = {}
  <2>1. Ders(Decode(l)) = Ders(l.blocks) \ {Binary}
    BY <1>2, DecodeFacts DEF Normal
  <2>2. Ders(Decode(l)) = {}
    BY DEF Ders
  <2>3. Binary \notin Cert \cup Malformed
    BY PEMConstants DEF Binary
  <2>4. QED
    BY <2>1, <2>2, <2>3 DEF CertsOf
<1> DEFINE n == NormalizePEM(l)
<1>6. n \in Text /\ Unglued(n) /\ CertsOf(n) = {}
  BY <1>2, <1>5, NormalizedIsNormal DEF Normal
<1>7. secret.tls = CompleteChain(n)
  BY <1>1, <1>4 DEF SyncedTls, Joined, l, c
<1> HIDE DEF n, l, c
<1>8. Parsed(n) = <<>>
  <2>1. /\ Parsed(n) \in Seq(Block)
        /\ Ders(Parsed(n)) = Ders(Decode(n)) \cap Cert
        /\ Ders(Decode(n)) \subseteq Ders(n.blocks) \ {Binary}
    BY <1>6, ParsedFacts, DecodeFacts
  <2>2. Ders(Parsed(n)) = {}
    BY <1>6, <2>1 DEF CertsOf
  <2>3. QED
    BY <2>1, <2>2, DersEmpty
<1>9. secret.tls = n
  BY <1>6, <1>7, <1>8, RootFacts DEF Rootless
<1>10. secret.tls.blocks[1].der \in CertsOf(n)
  <2>1. n.blocks \in Seq(Block)
    BY <1>6, TextFacts
  <2>2. 1 \in DOMAIN n.blocks
    BY <1>1, <1>9, <2>1
  <2>3. n.blocks[1].der \in Ders(n.blocks)
    BY <2>2 DEF Ders
  <2>4. QED
    BY <1>1, <1>9, <2>3 DEF CertsOf, Parses
<1>11. QED
  BY <1>6, <1>10

(* What a CertSyncer ships for a single leaf is a path without repetition. *)
LEMMA SyncedPath ==
    ASSUME IInv, stage = "synced", Len(parts.leaf.blocks) = 1
    PROVE  /\ Path(Served) /\ Distinct(Served)
           /\ Parsed(secret.tls) = Served
<1> DEFINE l == parts.leaf
           t == Concat(l, parts.chain)
           n == Joined(parts)
           tls == secret.tls
<1>1. /\ Ready(parts) /\ tls = SyncedTls(parts) /\ Clean(tls)
      /\ Served = Certs(tls) /\ Parses(tls.blocks[1])
  BY SyncedFacts
<1>2. Clean(l)
  BY SyncedLeaf
<1>3. Closed(l) /\ Closed(parts.chain) /\ l.blocks # <<>> /\ l.blocks \in Seq(Block)
      /\ Plain(l.blocks) /\ parts.chain.blocks \in Seq(Block) /\ Plain(parts.chain.blocks)
  <2>1. Clean(parts.chain)
    BY <1>1 DEF Ready
  <2>2. l.blocks \in Seq(Block) /\ parts.chain.blocks \in Seq(Block)
    BY <1>2, <2>1, CleanFacts
  <2>3. l.blocks # <<>>
    <3>1. Len(l.blocks) = 1
      OBVIOUS
    <3> DEFINE bs == l.blocks
    <3>2. bs \in Seq(Block) /\ Len(bs) = 1
      BY <2>2, <3>1
    <3> HIDE DEF bs
    <3>3. bs # <<>>
      BY <3>2
    <3>4. QED
      BY <3>3 DEF bs
  <2>4. QED
    BY <1>2, <2>1, <2>2, <2>3 DEF Clean, Closed
<1>4. /\ Closed(t) /\ t.blocks = l.blocks \o parts.chain.blocks
  BY <1>3, ConcatClosed
<1>5. t.blocks # <<>> /\ t.blocks[1] = l.blocks[1]
  <2>1. /\ l.blocks \o parts.chain.blocks # <<>>
        /\ (l.blocks \o parts.chain.blocks)[1] = l.blocks[1]
    BY <1>3, ConcatPlain
  <2>2. QED
    BY <1>4, <2>1
<1>6. n = NormalizePEM(t)
  BY DEF Joined
<1> HIDE DEF t, n, tls
<1>7. /\ Clean(n) /\ n.blocks = Dedup(t.blocks) /\ n.blocks # <<>>
      /\ n.blocks[1] = l.blocks[1]
  BY <1>4, <1>5, <1>6, NormalizePlain DEF Closed
<1>8. Closed(n) /\ tls = CompleteChain(n)
  BY <1>1, <1>7 DEF SyncedTls, n, Clean, Closed
<1>9. tls.blocks[1] = l.blocks[1]
  BY <1>7, <1>8, CompleteClosed
<1>10. Path(t.blocks)
  <2>1. Parses(l.blocks[1])
    BY <1>1, <1>9
  <2>2. Path(l.blocks \o parts.chain.blocks)
    BY <1>1, <1>2, <2>1, PartsArePath
  <2>3. QED
    BY <1>4, <2>2
<1>11. Path(n.blocks) /\ Distinct(n.blocks)
  BY <1>7, <1>10, DedupPath
<1>12. Closed(tls) /\ Path(tls.blocks) /\ Distinct(tls.blocks)
  <2> DEFINE done == CompleteChain(n)
  <2>1. Closed(done) /\ Path(done.blocks) /\ (Distinct(n.blocks) => Distinct(done.blocks))
    BY <1>8, <1>11, CompletePath
  <2>2. QED
    BY <1>8, <1>11, <2>1
<1>13. Certs(tls) = tls.blocks /\ Parsed(tls) = tls.blocks
  BY <1>12, PathSelects DEF Closed
<1>14. QED
  BY <1>1, <1>12, <1>13 DEF tls

(* So is what IssuerReconciler ships; ca.crt has a root that the leaf is   *)
(* not, provided that the chain did not bring the leaf along.              *)
LEMMA IssuedPath ==
    ASSUME IInv, stage = "issued", Len(parts.leaf.blocks) = 1
    PROVE  /\ Path(Served) /\ Distinct(Served)
           /\ given.leaf \cap given.chain = {} => Parsed(Completed(parts)) = Served
<1> DEFINE l == parts.leaf
           c == parts.chain
           t == Concat(l, c)
           done == Completed(parts)
           cs == Certs(done)
<1>1. /\ Ready(parts) /\ PartByPart /\ Clean(l) /\ Clean(c)
      /\ l.blocks # <<>> /\ Parses(l.blocks[1])
      /\ Closed(t) /\ t.blocks = l.blocks \o c.blocks
  BY IssuedFacts
<1>2. Path(t.blocks)
  BY <1>1, PartsArePath
<1>3. done = CompleteChain(t)
  BY DEF Completed
<1>4. /\ l \in Text /\ l.blocks \in Seq(Block) /\ Closed(l)
      /\ c \in Text /\ c.blocks \in Seq(Block) /\ Closed(c)
  BY <1>1, CleanFacts DEF Clean, Closed
<1> HIDE DEF l, c, t, done
<1>5. /\ Closed(done) /\ Path(done.blocks) /\ done.blocks[1] = t.blocks[1]
      /\ Distinct(t.blocks) => Distinct(done.blocks)
  BY <1>1, <1>2, <1>3, CompletePath
<1>6. cs = done.blocks /\ Parsed(done) = done.blocks
  BY <1>5, PathSelects DEF Closed
<1>7. Len(l.blocks) = 1
  BY DEF l
<1>8. l.blocks = <<l.blocks[1]>>
  BY <1>4, <1>7
<1>9. Certs(l) = l.blocks
  <2>1. \A i \in DOMAIN l.blocks : IsCert(l.blocks[i])
    BY <1>1, <1>4, <1>7 DEF IsCert, Parses
  <2>2. Certs(l) = Select(l.blocks, IsCert)
    BY <1>4, ClosedFacts DEF Certs
  <2>3. QED
    BY <1>4, <2>1, <2>2, CertSelection
<1>10. Served = Dedup(Certs(l) \o Tail(cs))
  BY IssuedServes DEF l, done
<1>11. cs[1] = l.blocks[1]
  BY IssuedFacts DEF l, done
<1>12. Path(cs)
  BY <1>5, <1>6
<1> HIDE DEF cs
<1>13. l.blocks \o Tail(cs) = cs
  <2> DEFINE b == l.blocks[1]
             rest == Tail(cs)
             ds == <<b>> \o rest
  <2>1. /\ cs \in Seq(Block) /\ cs # <<>> /\ Len(cs) \in Nat /\ Len(cs) >= 1
        /\ rest \in Seq(Block) /\ Len(rest) = Len(cs) - 1
        /\ \A i \in 1 .. Len(cs) - 1 : rest[i] = cs[i + 1]
    <3>1. cs \in Seq(Block) /\ cs # <<>>
      BY <1>12 DEF Path
    <3>2. QED
      BY <3>1, TailFacts
  <2>2. b \in Block /\ cs[1] = b
    BY <1>4, <1>7, <1>11
  <2> HIDE DEF b, rest
  <2>3. <<b>> \in Seq(Block) /\ Len(<<b>>) = 1
    BY <2>2
  <2>4. /\ ds \in Seq(Block) /\ Len(ds) = 1 + Len(rest)
        /\ \A i \in 1 .. 1 + Len(rest) : ds[i] = IF i <= 1 THEN <<b>>[i] ELSE rest[i - 1]
    BY <2>1, <2>3, ConcatProperties
  <2> HIDE DEF ds
  <2>5. Len(ds) = Len(cs) /\ \A i \in 1 .. Len(ds) : ds[i] = cs[i]
    <3>1. \A i \in 1 .. Len(ds) : i = 1 \/ (i - 1 \in 1 .. Len(cs) - 1 /\ ~(i <= 1))
      BY <2>1, <2>4
    <3>2. ds[1] = cs[1]
      BY <2>1, <2>2, <2>4
    <3>3. QED
      BY <2>1, <2>4, <3>1, <3>2
  <2>6. ds = cs
    BY <2>1, <2>4, <2>5, SeqEqual
  <2>7. l.blocks = <<b>>
    BY <1>8 DEF b
  <2>8. QED
    BY <2>6, <2>7 DEF ds, rest
<1>14. Served = Dedup(cs)
  BY <1>9, <1>10, <1>13
<1>15. Path(Served) /\ Distinct(Served)
  BY <1>12, <1>14, DedupPath
<1>16. ASSUME given.leaf \cap given.chain = {} PROVE Parsed(done) = Served
  <2>1. CertsOf(l) \cap CertsOf(c) = {}
    BY <1>1, <1>16 DEF PartByPart, l, c
  <2>2. l.blocks[1].der \notin Ders(c.blocks)
    <3>1. 1 \in DOMAIN l.blocks
      BY <1>4, <1>7
    <3>2. l.blocks[1].der \in CertsOf(l)
      BY <1>1, <3>1 DEF CertsOf, Ders, Parses
    <3>3. l.blocks[1].der \in Cert
      BY <1>1 DEF Parses
    <3>4. QED
      BY <2>1, <3>2, <3>3 DEF CertsOf
  <2>3. Distinct(t.blocks)
    <3> DEFINE n == Len(t.blocks)
               m == Len(c.blocks)
    <3>1. /\ n = 1 + m /\ m \in Nat
          /\ \A i \in 1 .. 1 + m : t.blocks[i] = IF i <= 1 THEN l.blocks[i] ELSE c.blocks[i - 1]
      <4> DEFINE a == l.blocks
                 d == c.blocks
      <4>1. a \in Seq(Block) /\ d \in Seq(Block)
        BY <1>4
      <4>3. Len(a) = 1 /\ t.blocks = a \o d
        BY <1>1, <1>7
      <4> HIDE DEF a, d, n, m
      <4>2. /\ Len(a \o d) = Len(a) + Len(d) /\ Len(d) \in Nat
            /\ \A i \in 1 .. Len(a) + Len(d) :
                   (a \o d)[i] = IF i <= Len(a) THEN a[i] ELSE d[i - Len(a)]
        BY <4>1, ConcatProperties
      <4>4. QED
        BY <4>2, <4>3 DEF a, d, n, m
    <3>2. DOMAIN c.blocks = 1 .. m
      BY <1>4
    <3>3. m >= 1 => c.blocks[m] \in Block
      BY <1>4, <3>1
    <3> HIDE DEF n, m
    <3> SUFFICES ASSUME ~Distinct(t.blocks) PROVE FALSE
      OBVIOUS
    <3>4. /\ t.blocks \in Seq(Block) /\ DOMAIN t.blocks = 1 .. n
      BY <1>2 DEF Path, n
    <3>5. PICK i \in 1 .. n, j \in 1 .. n : t.blocks[i].der = t.blocks[j].der /\ i # j
      BY <3>4 DEF Distinct
    <3>6. i < j \/ j < i
      BY <3>1, <3>5
    <3>7. t.blocks[1].der = t.blocks[n].der /\ n # 1 /\ n >= 1
      <4>1. \A k, h \in 1 .. n : t.blocks[k].der = t.blocks[h].der /\ k < h => k = 1 /\ h = n
        BY <1>2, PathRepeats DEF n
      <4>2. QED
        BY <3>1, <3>5, <3>6, <4>1
    <3>8. t.blocks[1] = l.blocks[1] /\ t.blocks[n] = c.blocks[m] /\ m \in 1 .. m
      BY <3>1, <3>7
    <3>9. c.blocks[m].der \in Ders(c.blocks)
      BY <3>2, <3>8 DEF Ders
    <3>10. QED
      BY <2>2, <3>7, <3>8, <3>9
  <2>4. Distinct(cs) /\ cs \in Seq(Block)
    BY <1>5, <1>6, <1>12, <2>3 DEF Path
  <2>5. Served = cs
    BY <1>14, <2>4, DedupFacts
  <2>6. QED
    BY <1>6, <2>5
<1>17. QED
  BY <1>15, <1>16 DEF done

\* What is shipped for a single leaf is a path.
LEMMA PathIsShipped == IInv => SigningPath
<1>1. ASSUME IInv, Shipped, Len(parts.leaf.blocks) = 1
      PROVE  IsPath(Select(Served, Parses))
  <2>1. Path(Served)
    BY <1>1, SyncedPath, IssuedPath DEF Shipped
  <2>2. QED
    BY <2>1, PathSelects DEF Path
<1>2. QED
  BY <1>1 DEF SigningPath

(* The path of a single leaf reaches the consumer as a path, whatever the  *)
(* chain repeats and also with a root behind it: verify.go:13-17,          *)
(* roots.go:44-49.                                                         *)
THEOREM PathsAreShipped == Spec => []SigningPath
BY Invariance, PathIsShipped, PTL

\* What CompositionTold says of the kinds found in a path.
Composed(kinds, path) ==
    LET ended == SelfSigned(Last(path).der)
    IN  /\ "leaf" \in kinds
        /\ "root" \in kinds <=> Len(path) > 1 /\ ended
        /\ "intermediate" \in kinds <=> Len(path) > IF ended THEN 2 ELSE 1

(* Only the last of a path signs itself.                                   *)
LEMMA PathComposition ==
    ASSUME NEW t \in Text, Path(Parsed(t)), Distinct(Parsed(t))
    PROVE  Composed(ChainComposition(t), Parsed(t))
<1> DEFINE bs == Parsed(t)
           n == Len(bs)
           later == {bs[i].der : i \in 2 .. n}
           A == {"leaf" : i \in DOMAIN bs}
           B == {IF SelfSigned(c) THEN "root" ELSE "intermediate" : c \in later}
<1>1. ChainComposition(t) = A \cup B
  BY DEF ChainComposition
<1>2. "root" \notin A /\ "intermediate" \notin A
  OBVIOUS
<1> HIDE DEF later
<1>3. /\ "leaf" \notin B
      /\ "root" \in B <=> \E c \in later : SelfSigned(c)
      /\ "intermediate" \in B <=> \E c \in later : ~SelfSigned(c)
  OBVIOUS
<1>4. /\ "leaf" \in ChainComposition(t) <=> DOMAIN bs # {}
      /\ "root" \in ChainComposition(t) <=> \E c \in later : SelfSigned(c)
      /\ "intermediate" \in ChainComposition(t) <=> \E c \in later : ~SelfSigned(c)
  <2>1. "leaf" \in A <=> DOMAIN bs # {}
    OBVIOUS
  <2> HIDE DEF A, B
  <2>2. QED
    BY <1>1, <1>2, <1>3, <2>1
<1> HIDE DEF A, B
<1>5. /\ n \in Nat /\ n >= 1 /\ DOMAIN bs = 1 .. n /\ Last(bs) = bs[n]
      /\ \A k \in 1 .. n - 1 : Signer[bs[k].der] = bs[k + 1].der
      /\ \A i, j \in 1 .. n : bs[i].der = bs[j].der => i = j
  BY PathSelects DEF Path, IsPath, Distinct, Last
<1> DEFINE ended == SelfSigned(bs[n].der)
<1> HIDE DEF n, bs
<1>6. ASSUME NEW i \in 2 .. n, SelfSigned(bs[i].der) PROVE i = n
  <2> SUFFICES ASSUME i # n PROVE FALSE
    OBVIOUS
  <2>1. i \in 1 .. n - 1 /\ i + 1 \in 1 .. n /\ i \in 1 .. n /\ i + 1 # i
    BY <1>5
  <2>2. bs[i + 1].der = bs[i].der
    BY <1>5, <1>6, <2>1 DEF SelfSigned
  <2>3. QED
    BY <1>5, <2>1, <2>2
<1>7. (\E c \in later : SelfSigned(c)) <=> n > 1 /\ ended
  <2>1. ASSUME NEW c \in later, SelfSigned(c) PROVE n > 1 /\ ended
    <3>1. PICK i \in 2 .. n : c = bs[i].der
      BY DEF later
    <3>2. i = n
      BY <1>6, <2>1, <3>1
    <3>3. QED
      BY <1>5, <2>1, <3>1, <3>2
  <2>2. ASSUME n > 1, ended PROVE \E c \in later : SelfSigned(c)
    <3>1. n \in 2 .. n
      BY <1>5, <2>2
    <3>2. bs[n].der \in later
      BY <3>1 DEF later
    <3>3. QED
      BY <2>2, <3>2
  <2>3. QED
    BY <2>1, <2>2
<1>8. (\E c \in later : ~SelfSigned(c)) <=> n > IF ended THEN 2 ELSE 1
  <2>1. ASSUME NEW c \in later, ~SelfSigned(c) PROVE n > IF ended THEN 2 ELSE 1
    <3>1. PICK i \in 2 .. n : c = bs[i].der
      BY DEF later
    <3>2. ended => i # n
      BY <2>1, <3>1
    <3>3. QED
      BY <1>5, <3>2
  <2>2. ASSUME n > IF ended THEN 2 ELSE 1 PROVE \E c \in later : ~SelfSigned(c)
    <3>1. 2 \in 2 .. n /\ (ended => n # 2)
      BY <1>5, <2>2
    <3>2. ~SelfSigned(bs[2].der)
      BY <1>6, <3>1
    <3>3. bs[2].der \in later
      BY <3>1 DEF later
    <3>4. QED
      BY <3>2, <3>3
  <2>3. QED
    BY <2>1, <2>2
<1>9. "leaf" \in ChainComposition(t)
  <2>1. 1 \in DOMAIN bs
    BY <1>5
  <2>2. QED
    BY <1>4, <2>1
<1>10. Last(bs) = bs[n] /\ ("root" \in ChainComposition(t) <=> n > 1 /\ ended)
       /\ ("intermediate" \in ChainComposition(t) <=> n > IF ended THEN 2 ELSE 1)
  BY <1>4, <1>5, <1>7, <1>8
<1>11. QED
  BY <1>9, <1>10 DEF Composed, n, bs

\* On such a path only the last certificate signs itself.
LEMMA CompositionFollows == IInv => CompositionTold
<1>1. ASSUME IInv, stage = "synced", Len(parts.leaf.blocks) = 1
      PROVE  CompositionTold
  <2>1. Path(Served) /\ Distinct(Served) /\ Parsed(secret.tls) = Served
    BY <1>1, SyncedPath
  <2>2. secret = SyncedSecret(parts) /\ secret.tls = SyncedTls(parts) /\ secret.tls \in Text
    BY <1>1, SyncedFacts, CleanFacts
  <2>3. secret.chain = ChainComposition(secret.tls)
    BY <2>2 DEF SyncedSecret
  <2>4. Composed(secret.chain, Served)
    BY <2>1, <2>2, <2>3, PathComposition
  <2>5. Select(Served, Parses) = Served
    BY <2>1, PathSelects
  <2>6. QED
    BY <2>4, <2>5 DEF CompositionTold, Composed
<1>2. ASSUME IInv, stage = "issued", Len(parts.leaf.blocks) = 1,
             given.leaf \cap given.chain = {}
      PROVE  CompositionTold
  <2> DEFINE done == Completed(parts)
  <2>1. Path(Served) /\ Distinct(Served) /\ Parsed(done) = Served
    BY <1>2, IssuedPath
  <2>2. secret = IssuedSecret(parts) /\ done \in Text
    BY <1>2, IssuedFacts DEF Closed
  <2>3. secret.chain = ChainComposition(done)
    BY <2>2 DEF IssuedSecret
  <2> HIDE DEF done
  <2>4. Composed(secret.chain, Served)
    BY <2>1, <2>2, <2>3, PathComposition
  <2>5. Select(Served, Parses) = Served
    BY <2>1, PathSelects
  <2>6. QED
    BY <2>4, <2>5 DEF CompositionTold, Composed
<1>3. QED
  BY <1>1, <1>2 DEF CompositionTold, Shipped

(* When a single leaf came with its chain, and an issued leaf was not       *)
(* repeated in its chain, the chain annotation tells what the path shipped *)
(* is made of: a leaf, a root exactly when the path ends in one, and       *)
(* intermediates exactly when something is left between.  verify.go:78-120. *)
THEOREM CompositionIsTold == Spec => []CompositionTold
BY Invariance, CompositionFollows, PTL

-----------------------------------------------------------------------------
(* What is refused. *)

(* A path that begins again and again is one path when the repetitions are *)
(* dropped.                                                                *)
LEMMA DedupUpwards ==
    ASSUME NEW c, NEW bs \in Seq(Block), bs # <<>>, Upwards(bs, c)
    PROVE  LET ds == Dedup(bs)
           IN  /\ ds \in Seq(Block) /\ ds # <<>> /\ ds[1].der = c
               /\ \A i \in DOMAIN ds : Parses(ds[i])
               /\ IsPath(ds)
<1> DEFINE I  == {i \in DOMAIN bs : \A j \in DOMAIN bs : j < i => bs[j].der # bs[i].der}
           ds == Dedup(bs)
           n  == Cardinality(I)
           at == Ascending(I)
<1>1. ds = Pick(bs, I) /\ I \in SUBSET (DOMAIN bs)
  BY DEF Dedup
<1>2. /\ ds \in Seq(Block) /\ ds # <<>> /\ ds[1] = bs[1]
      /\ Distinct(ds) /\ Ders(ds) = Ders(bs)
  BY DedupFacts
<1>3. /\ Lists(at, n, I) /\ Len(ds) = n
      /\ \A k \in 1 .. n : ds[k] = bs[at[k]]
  BY <1>1, PickFacts
<1>4. DOMAIN bs = 1 .. Len(bs) /\ Len(bs) \in Nat /\ Len(bs) >= 1
  BY TailFacts
<1>5. bs[1].der = c
  BY <1>4 DEF Upwards
<1>6. /\ n \in Nat /\ DOMAIN ds = 1 .. n
      /\ \A k \in 1 .. n :
            /\ at[k] \in 1 .. Len(bs)
            /\ \A j \in 1 .. Len(bs) : j < at[k] => bs[j].der # bs[at[k]].der
      /\ \A k, l \in 1 .. n : k < l => at[k] < at[l]
  <2>1. \A k \in 1 .. n : at[k] \in I
    BY <1>3 DEF Lists
  <2>2. DOMAIN ds = 1 .. n
    BY <1>2, <1>3
  <2>3. QED
    BY <1>3, <1>4, <2>1, <2>2 DEF Lists
<1>7. \A k \in 1 .. n : Parses(ds[k])
  BY <1>3, <1>4, <1>6 DEF Upwards
<1> HIDE DEF I, ds, n, at
<1>8. IsPath(ds)
  <2> DEFINE Bad == {k \in 1 .. n - 1 : Signer[ds[k].der] # ds[k + 1].der}
  <2> SUFFICES ASSUME Bad # {} PROVE FALSE
    BY <1>3, <1>6 DEF IsPath
  <2>1. Bad \in SUBSET Nat
    BY <1>6
  <2>2. PICK k \in Bad : \A j \in Bad : k <= j
    BY <2>1, LeastExists
  <2>3. k \in 1 .. n - 1 /\ Signer[ds[k].der] # ds[k + 1].der
    BY <2>2
  <2>4. \A j \in 1 .. n - 1 : j < k => Signer[ds[j].der] = ds[j + 1].der
    BY <2>2, <2>3, <1>6
  <2> HIDE DEF Bad
  <2>5. k \in Nat /\ k \in 1 .. n /\ k + 1 \in 1 .. n /\ k < k + 1
    BY <1>6, <2>3
  <2> DEFINE q == at[k + 1]
  <2>6. /\ q \in 1 .. Len(bs) /\ at[k] < q /\ at[k] \in 1 .. Len(bs) /\ ds[k + 1] = bs[q]
        /\ \A j \in 1 .. Len(bs) : j < q => bs[j].der # bs[q].der
    BY <1>3, <1>6, <2>5
  <2> HIDE DEF q
  <2>7. q > 1 /\ q - 1 \in 1 .. Len(bs) /\ q - 1 < q
    BY <1>4, <2>6
  <2>8. Signer[bs[q - 1].der] = bs[q].der
    <3>1. bs[q].der # c
      <4>1. 1 \in 1 .. Len(bs) /\ 1 < q
        BY <1>4, <2>7
      <4>2. QED
        BY <1>5, <2>6, <4>1
    <3>2. QED
      BY <1>4, <2>6, <3>1 DEF Upwards
  <2>9. PICK j \in 1 .. n : ds[j].der = bs[q - 1].der
    <3>1. bs[q - 1].der \in Ders(bs)
      BY <1>4, <2>7 DEF Ders
    <3>2. bs[q - 1].der \in Ders(ds)
      BY <1>2, <3>1
    <3>3. QED
      BY <1>6, <3>2 DEF Ders
  <2>10. at[j] <= q - 1
    <3>1. at[j] \in 1 .. Len(bs) /\ ds[j] = bs[at[j]]
          /\ \A i \in 1 .. Len(bs) : i < at[j] => bs[i].der # bs[at[j]].der
      BY <1>3, <1>6
    <3>2. ~(q - 1 < at[j])
      BY <2>7, <2>9, <3>1
    <3>3. QED
      BY <2>6, <2>7, <3>1, <3>2
  <2>11. j <= k
    <3> SUFFICES ASSUME k < j PROVE FALSE
      BY <2>5
    <3>1. j = k + 1 \/ k + 1 < j
      BY <2>5
    <3>2. q <= at[j]
      <4>1. CASE j = k + 1
        BY <4>1, <2>6 DEF q
      <4>2. CASE k + 1 < j
        <5>1. at[k + 1] < at[j]
          BY <1>6, <2>5, <4>2
        <5>2. at[j] \in 1 .. Len(bs)
          BY <1>6
        <5>3. QED
          BY <2>6, <5>1, <5>2 DEF q
      <4>3. QED
        BY <3>1, <4>1, <4>2
    <3>3. at[j] \in 1 .. Len(bs)
      BY <1>6
    <3>4. QED
      BY <2>6, <2>10, <3>2, <3>3
  <2>12. CASE j = k
    BY <2>3, <2>6, <2>8, <2>9, <2>12
  <2>13. CASE j < k
    <3>1. j \in 1 .. n - 1 /\ j + 1 \in 1 .. n /\ j + 1 # k + 1
      <4>1. n \in Nat /\ j \in Nat /\ k \in Nat /\ k <= n - 1 /\ 1 <= j /\ j < k
        BY <1>6, <2>3, <2>13
      <4>2. QED
        BY <4>1
    <3>2. ds[j + 1].der = ds[k + 1].der
      BY <2>4, <2>6, <2>8, <2>9, <2>13, <3>1
    <3>3. QED
      BY <1>2, <1>6, <2>5, <3>1, <3>2 DEF Distinct
  <2>14. QED
    BY <2>5, <2>11, <2>12, <2>13
<1>9. QED
  BY <1>2, <1>5, <1>6, <1>7, <1>8 DEF ds

(* One more file that begins where the others do.                          *)
LEMMA UpwardsAppended ==
    ASSUME NEW c, NEW t \in Text, NEW u \in Text,
           Upwards(t.blocks, c), Upwards(u.blocks, c)
    PROVE  Upwards(AppendPEM(t, u).blocks, c)
<1> DEFINE v == [t EXCEPT !.open = FALSE]
           as == t.blocks
           cs == u.blocks
           n == Len(as)
           m == Len(cs)
           bs == AppendPEM(t, u).blocks
<1>1. v \in Text /\ v.blocks = as /\ AppendPEM(t, u) = Concat(v, u)
  BY DEF Text, AppendPEM
<1>2. /\ n \in Nat /\ m \in Nat /\ DOMAIN bs = 1 .. n + m
      /\ \A i \in 1 .. n : bs[i].der = as[i].der
      /\ \A i \in 1 .. m : bs[n + i].der = cs[i].der
  <2> HIDE DEF v
  <2>1. /\ Len(v.blocks) \in Nat /\ m \in Nat
        /\ DOMAIN Concat(v, u).blocks = 1 .. Len(v.blocks) + m
        /\ \A i \in 1 .. Len(v.blocks) : Concat(v, u).blocks[i].der = v.blocks[i].der
        /\ \A i \in 1 .. m : Concat(v, u).blocks[Len(v.blocks) + i].der = cs[i].der
    BY <1>1, ConcatInOrder
  <2>2. QED
    BY <1>1, <2>1
<1>3. DOMAIN as = 1 .. n /\ DOMAIN cs = 1 .. m
  BY TextFacts
<1>4. /\ \A i \in 1 .. n : /\ Parses(as[i])
                           /\ as[i].der = c \/ (i > 1 /\ Signer[as[i - 1].der] = as[i].der)
                           /\ Signer[as[i].der] = c => as[i].der = c
      /\ \A i \in 1 .. m : /\ Parses(cs[i])
                           /\ cs[i].der = c \/ (i > 1 /\ Signer[cs[i - 1].der] = cs[i].der)
                           /\ Signer[cs[i].der] = c => cs[i].der = c
  BY <1>3 DEF Upwards
<1> HIDE DEF v, as, cs, n, m, bs
<1>5. ASSUME NEW i \in 1 .. n + m
      PROVE  /\ Parses(bs[i])
             /\ bs[i].der = c \/ (i > 1 /\ Signer[bs[i - 1].der] = bs[i].der)
             /\ Signer[bs[i].der] = c => bs[i].der = c
  <2>1. CASE i <= n
    <3>1. i \in 1 .. n /\ (i > 1 => i - 1 \in 1 .. n)
      BY <1>2, <2>1
    <3>2. QED
      BY <1>2, <1>4, <3>1 DEF Parses
  <2>2. CASE n < i
    <3> DEFINE k == i - n
    <3>1. k \in 1 .. m /\ n + k = i /\ (k > 1 => /\ k - 1 \in 1 .. m
                                                 /\ n + (k - 1) = i - 1 /\ i > 1)
      BY <1>2, <2>2
    <3> HIDE DEF k
    <3>2. bs[i].der = cs[k].der /\ (k > 1 => bs[i - 1].der = cs[k - 1].der)
      BY <1>2, <3>1
    <3>3. QED
      BY <1>4, <3>1, <3>2 DEF Parses
  <2>3. QED
    BY <1>2, <2>1, <2>2
<1>6. QED
  BY <1>2, <1>5 DEF Upwards, bs

(* A chain that begins at the leaf's signer is accepted, mashed or not.    *)
LEMMA UpwardsVerifies ==
    ASSUME NEW c, NEW l \in Text, NEW t \in Text,
           Decode(l) # <<>>, Parses(Decode(l)[1]),
           Upwards(t.blocks, c),
           t.blocks # <<>> => Signer[Decode(l)[1].der] = c
    PROVE  VerifyChain(l, NormalizePEM(t))
<1> DEFINE u == Unglue(t)
           ds == Dedup(u.blocks)
           n == NormalizePEM(t)
           b == Decode(l)[1]
<1> SUFFICES ASSUME n # Empty
             PROVE  /\ Decode(n) # <<>> /\ \A i \in DOMAIN Decode(n) : Parses(Decode(n)[i])
                    /\ IsPath(<<b>> \o Decode(n))
  BY DEF VerifyChain
<1>1. /\ u \in Text /\ Unglued(u) /\ u.blocks \in Seq(Block)
      /\ \A i \in DOMAIN t.blocks : u.blocks[i].der = t.blocks[i].der
      /\ DOMAIN u.blocks = DOMAIN t.blocks
  <2>1. DOMAIN u.blocks = DOMAIN t.blocks
    BY DEF Unglue, Text
  <2>2. QED
    BY <2>1, UnglueFacts, TextFacts
<1>2. t.blocks # <<>> /\ u.blocks # <<>>
  <2>1. t # Empty /\ u # Empty
    BY NormalizeFacts, UnglueFacts
  <2>2. QED
    BY <1>1, <2>1, TextFacts
<1>3. Upwards(u.blocks, c)
  <2>1. \A i \in DOMAIN t.blocks : i > 1 => i - 1 \in DOMAIN t.blocks
    <3>1. t.blocks \in Seq(Block)
      BY TextFacts
    <3>2. QED
      BY <3>1
  <2> HIDE DEF u
  <2>2. QED
    BY <1>1, <2>1 DEF Upwards, Parses
<1>4. Plain(u.blocks)
  <2>1. \A d \in Cert : d # Binary
    BY PEMConstants DEF Binary
  <2>2. QED
    BY <1>1, <1>3, <2>1 DEF Plain, Unglued, Upwards, Parses, IsBlock
<1> HIDE DEF u
<1>5. /\ ds \in Seq(Block) /\ ds # <<>> /\ ds[1].der = c
      /\ \A i \in DOMAIN ds : Parses(ds[i])
      /\ IsPath(ds)
  BY <1>1, <1>2, <1>3, DedupUpwards
<1>6. Decode(n) = ds
  <2>1. n = NormalizePEM(u)
    <3>1. Unglue(u) = u
      BY <1>1, UnglueFacts
    <3>2. QED
      BY <3>1 DEF NormalizePEM, u
  <2>2. Clean(NormalizePEM(u)) /\ NormalizePEM(u).blocks = ds
    BY <1>1, <1>2, <1>4, NormalizePlain
  <2>3. QED
    BY <2>1, <2>2, CleanFacts
<1> HIDE DEF ds, n
<1>7. b \in Block /\ Signer[b.der] = c
  <2>1. Decode(l) \in Seq(Block)
    BY DecodeFacts
  <2>2. QED
    BY <1>2, <2>1
<1> HIDE DEF b
<1>8. IsPath(<<b>> \o ds)
  <2> DEFINE one == <<b>>
             p == one \o ds
  <2>1. one \in Seq(Block) /\ Len(one) = 1 /\ one[1] = b
    BY <1>7
  <2>2. Len(ds) \in Nat /\ Len(ds) >= 1
    BY <1>5
  <2> HIDE DEF one
  <2>3. /\ p \in Seq(Block) /\ Len(p) = Len(one) + Len(ds)
        /\ \A i \in 1 .. Len(one) + Len(ds) :
               p[i] = IF i <= Len(one) THEN one[i] ELSE ds[i - Len(one)]
    BY <1>5, <2>1, ConcatProperties
  <2> HIDE DEF p
  <2>4. /\ Len(p) = Len(ds) + 1 /\ p[1] = b
        /\ \A i \in 1 .. Len(ds) : p[i + 1] = ds[i]
    BY <2>1, <2>2, <2>3
  <2>5. ASSUME NEW i \in 1 .. Len(p) - 1 PROVE Signer[p[i].der] = p[i + 1].der
    <3>1. CASE i = 1
      BY <1>5, <1>7, <2>2, <2>4, <3>1
    <3>2. CASE i # 1
      <4>1. i - 1 \in 1 .. Len(ds) - 1 /\ i \in 1 .. Len(ds) /\ i - 1 \in 1 .. Len(ds)
            /\ (i - 1) + 1 = i
        BY <2>2, <2>4, <3>2
      <4>2. p[i] = ds[i - 1] /\ p[i + 1] = ds[i]
        BY <2>4, <4>1
      <4>3. Signer[ds[i - 1].der] = ds[i].der
        BY <1>5, <4>1 DEF IsPath
      <4>4. QED
        BY <4>2, <4>3
    <3>3. QED
      BY <3>1, <3>2
  <2>6. QED
    BY <2>5 DEF IsPath, p, one
<1>9. QED
  BY <1>5, <1>6, <1>8

(* At the beginning nothing has been read, and while a ZIP is read its     *)
(* chain files stand behind each other in order.                           *)
FilesOK == stage \in {"start", "parsed"} => files = 0
ChainOK(c) == stage = "zip" /\ given.chain \cap Malformed = {} => Upwards(parts.chain.blocks, c)

OrderInv(c) == IInv /\ FilesOK /\ ChainOK(c) /\ NoFalseAlarm

(* A chain file is read.                                                   *)
LEMMA ReadFileInOrder ==
    ASSUME NEW c, OrderlyFiles(c), OrderInv(c), NEW f \in File, ReadFile(f)
    PROVE  OrderInv(c)'
<1>1. IInv'
  BY ReadFileKeeps DEF OrderInv
<1>2. /\ stage \in {"start", "zip"} /\ stage' = "zip"
      /\ parts' = IF Bucket(f.name) = "none" THEN parts
                  ELSE [parts EXCEPT ![Bucket(f.name)] = AppendPEM(@, f.text)]
      /\ given' = IF Bucket(f.name) \in {"none", "key"} THEN given
                  ELSE [given EXCEPT ![Bucket(f.name)] = @ \cup CertsOf(f.text)]
  BY DEF ReadFile
<1>3. parts \in PartsType /\ given \in GivenType /\ parts.chain \in Text /\ f.text \in Text
  BY TypeFacts, BundleConstants DEF OrderInv, IInv, PartsType
<1>4. ASSUME given.chain \cap Malformed = {} PROVE Upwards(parts.chain.blocks, c)
  <2>1. CASE stage = "zip"
    BY <1>4, <2>1 DEF OrderInv, ChainOK
  <2>2. CASE stage = "start"
    <3>1. parts.chain = Empty
      BY <2>2 DEF OrderInv, IInv, StartOK, NoParts
    <3>2. QED
      BY <3>1 DEF Empty, Upwards
  <2>3. QED
    BY <1>2, <2>1, <2>2
<1>5. ASSUME given'.chain \cap Malformed = {} PROVE Upwards(parts'.chain.blocks, c)
  <2>1. CASE Bucket(f.name) = "chain"
    <3>1. /\ parts'.chain = AppendPEM(parts.chain, f.text)
          /\ given'.chain = given.chain \cup CertsOf(f.text)
      BY <1>2, <1>3, <2>1 DEF PartsType, GivenType
    <3>2. given.chain \cap Malformed = {} /\ CertsOf(f.text) \cap Malformed = {}
      BY <1>5, <3>1
    <3>3. Upwards(parts.chain.blocks, c) /\ Upwards(f.text.blocks, c)
      BY <1>4, <2>1, <3>2 DEF OrderlyFiles
    <3>4. QED
      BY <1>3, <3>1, <3>3, UpwardsAppended
  <2>2. CASE Bucket(f.name) # "chain"
    <3>1. parts'.chain = parts.chain /\ given'.chain = given.chain
      BY <1>2, <1>3, <2>2 DEF PartsType, GivenType
    <3>2. QED
      BY <1>4, <1>5, <3>1
  <2>3. QED
    BY <2>1, <2>2
<1>6. QED
  BY <1>1, <1>2, <1>5 DEF OrderInv, FilesOK, ChainOK, NoFalseAlarm

(* The ZIP has been read: either the parts are in order, or a certificate  *)
(* is none of theirs.                                                      *)
LEMMA TencentFetchInOrder ==
    ASSUME NEW c \in Cert, OrderInv(c), TencentFetch
    PROVE  OrderInv(c)'
<1>1. IInv'
  BY TencentFetchKeeps DEF OrderInv
<1>2. stage = "zip" /\ files' = files /\ given' = given /\ stage' \in {"refused", "fetched"}
  BY DEF TencentFetch, Checked
<1>3. parts \in PartsType /\ given \in GivenType /\ PartByPart
  BY <1>2, TypeFacts DEF OrderInv, IInv, SourceOK
<1>4. parts.leaf \in Text /\ parts.chain \in Text /\ parts.key \in Text
  BY <1>3 DEF PartsType
<1> DEFINE l == NormalizePEM(parts.leaf)
           t == NormalizePEM(parts.chain)
           b == Decode(l)[1]
<1>5. NoFalseAlarm'
  <2>1. CASE stage' = "refused" /\ parts' = parts /\ (parts.leaf = Empty \/ parts.key = Empty)
    BY <2>1 DEF NoFalseAlarm
  <2>2. CASE Checked(parts)
    <3>1. parts' = Normalized(parts) /\ (stage' = "refused" => ~VerifyChain(l, t))
      BY <2>2 DEF Checked
    <3>2. parts'.leaf = l /\ Normal(l) /\ l \in Text
      BY <1>4, <3>1, NormalizedIsNormal DEF Normalized, Normal
    <3>3. NormalizePEM(parts'.leaf) = l
      BY <3>2, NormalAgain
    <3> SUFFICES ASSUME stage' = "refused", Decode(l) # <<>>, Parses(b),
                        given.chain \cap Malformed = {}
                 PROVE  \E d \in given.chain : /\ d # Signer[b.der]
                                               /\ \A e \in given.chain \ {d} : Signer[e] # d
      BY <1>2, <3>3 DEF NoFalseAlarm
    <3>4. Upwards(parts.chain.blocks, c)
      BY <1>2 DEF OrderInv, ChainOK
    <3>5. ~VerifyChain(l, t)
      BY <3>1
    <3> HIDE DEF l
    <3>6. parts.chain.blocks # <<>> /\ Signer[b.der] # c
      BY <1>4, <3>2, <3>4, <3>5, UpwardsVerifies
    <3>7. given.chain = Ders(parts.chain.blocks)
      <4>1. given.chain = Ders(parts.chain.blocks) \cap (Cert \cup Malformed)
        BY <1>3 DEF PartByPart, CertsOf
      <4>2. Ders(parts.chain.blocks) \subseteq Cert
        BY <3>4 DEF Ders, Upwards, Parses
      <4>3. QED
        BY <4>1, <4>2
    <3>8. c \in given.chain
      <4>1. 1 \in DOMAIN parts.chain.blocks
        <5>1. parts.chain.blocks \in Seq(Block)
          BY <1>4, TextFacts
        <5>2. QED
          BY <3>6, <5>1
      <4>2. parts.chain.blocks[1].der = c
        <5>1. ~(1 > 1)
          OBVIOUS
        <5> DEFINE bs == parts.chain.blocks
        <5>2. 1 \in DOMAIN bs /\ Upwards(bs, c)
          BY <3>4, <4>1
        <5> HIDE DEF bs
        <5>3. bs[1].der = c
          BY <5>1, <5>2 DEF Upwards
        <5>4. QED
          BY <5>3 DEF bs
      <4>3. QED
        BY <3>7, <4>1, <4>2 DEF Ders
    <3>9. \A e \in given.chain \ {c} : Signer[e] # c
      BY <3>4, <3>7 DEF Ders, Upwards
    <3>10. QED
      BY <3>6, <3>8, <3>9
  <2>3. QED
    BY <2>1, <2>2 DEF TencentFetch
<1>6. QED
  BY <1>1, <1>2, <1>5 DEF OrderInv, FilesOK, ChainOK

(* After that only a leaf or a key that is none stops a CertSyncer.        *)
LEMMA CertSyncBuildInOrder ==
    ASSUME NEW c, OrderInv(c), CertSyncBuild
    PROVE  OrderInv(c)'
<1>1. IInv'
  BY CertSyncBuildKeeps DEF OrderInv
<1>2. /\ stage = "fetched" /\ files' = files /\ parts' = parts /\ given' = given
      /\ stage' = IF VerifySecretData(SyncedTls(parts), parts.key)
                  THEN "synced" ELSE "refused"
  BY DEF CertSyncBuild, SyncedTls, Joined
<1>3. /\ Ready(parts) /\ parts.leaf \in Text /\ parts.chain \in Text
      /\ Normal(parts.leaf) /\ Clean(parts.chain) /\ Normal(parts.key)
  BY <1>2 DEF OrderInv, IInv, ReadyOK, Ready, PartsType
<1>4. NoFalseAlarm'
  <2> DEFINE l == parts.leaf
             k == parts.key
  <2>1. NormalizePEM(parts'.leaf) = l /\ NormalizePEM(parts'.key) = k
    BY <1>2, <1>3, NormalAgain
  <2> SUFFICES ASSUME stage' = "refused", l # Empty,
                      Decode(l) # <<>>, Parses(Decode(l)[1]),
                      Decode(k) # <<>>, IsKey(Decode(k)[1])
               PROVE  FALSE
    BY <1>2, <2>1 DEF NoFalseAlarm
  <2>2. Clean(l) /\ Decode(l) = l.blocks /\ Closed(l) /\ l.blocks # <<>>
    BY <1>3, CleanFacts DEF Normal, Clean, Closed
  <2> DEFINE t == Concat(l, parts.chain)
             n == NormalizePEM(t)
             tls == SyncedTls(parts)
  <2>3. Closed(parts.chain) /\ parts.chain.blocks \in Seq(Block) /\ Plain(parts.chain.blocks)
        /\ l.blocks \in Seq(Block) /\ Plain(l.blocks)
    BY <1>3, <2>2, CleanFacts DEF Clean, Closed
  <2>4. Closed(t) /\ t.blocks = l.blocks \o parts.chain.blocks
    BY <2>2, <2>3, ConcatClosed
  <2>5. t.blocks # <<>> /\ t.blocks[1] = l.blocks[1]
    BY <2>2, <2>3, <2>4, ConcatPlain
  <2>6. tls = CompleteChain(n)
    BY DEF SyncedTls, Joined
  <2> HIDE DEF l, k, t, tls
  <2>7. Clean(n) /\ n.blocks # <<>> /\ n.blocks[1] = l.blocks[1]
    BY <2>4, <2>5, NormalizePlain DEF Closed
  <2> HIDE DEF n
  <2>8. Closed(n)
    BY <2>7 DEF Clean, Closed
  <2>9. Closed(tls) /\ tls.blocks # <<>> /\ tls.blocks[1] = l.blocks[1]
    BY <2>6, <2>7, <2>8, CompleteClosed
  <2>10. Decode(tls) = tls.blocks
    BY <2>9, ClosedFacts
  <2>11. VerifySecretData(tls, k)
    BY <2>2, <2>9, <2>10 DEF VerifySecretData
  <2>12. QED
    BY <1>2, <2>11 DEF tls, k
<1>5. QED
  BY <1>1, <1>2, <1>4 DEF OrderInv, FilesOK, ChainOK

LEMMA OrderStep ==
    ASSUME NEW c \in Cert, OrderlyFiles(c)
    PROVE  OrderInv(c) /\ [Next]_vars => OrderInv(c)'
<1> SUFFICES ASSUME OrderInv(c), [Next]_vars PROVE OrderInv(c)'
  OBVIOUS
<1>1. IInv'
  BY StepInv DEF OrderInv
<1>2. ASSUME NEW f \in File, ReadFile(f) PROVE OrderInv(c)'
  BY <1>2, ReadFileInOrder
<1>3. CASE TencentFetch
  BY <1>3, TencentFetchInOrder
<1>4. CASE CertSyncBuild
  BY <1>4, CertSyncBuildInOrder
<1>5. ASSUME stage \in {"start", "parsed"}, files' = files, stage' \notin {"zip", "start"}
      PROVE  OrderInv(c)'
  <2>1. files' = 0
    BY <1>5 DEF OrderInv, FilesOK
  <2>2. QED
    BY <1>1, <1>5, <2>1 DEF OrderInv, FilesOK, ChainOK, NoFalseAlarm
<1>6. ASSUME NEW blob \in Blob, AwsFetch(blob) PROVE OrderInv(c)'
  BY <1>5, <1>6 DEF AwsFetch
<1>7. ASSUME NEW cert, NEW chain, NEW key, Extract(cert, chain, key) PROVE OrderInv(c)'
  BY <1>5, <1>7 DEF Extract
<1>8. CASE IssuerBuild
  BY <1>5, <1>8 DEF IssuerBuild
<1>9. CASE Return
  BY <1>1, <1>9 DEF Return, OrderInv, FilesOK, ChainOK, NoFalseAlarm
<1>10. CASE UNCHANGED vars
  BY <1>1, <1>10 DEF vars, OrderInv, FilesOK, ChainOK, NoFalseAlarm
<1>11. QED
  BY <1>2, <1>3, <1>4, <1>6, <1>7, <1>8, <1>9, <1>10 DEF Next

(* A ZIP whose chain files begin at one certificate and follow the         *)
(* signatures, however many of them there are and in whichever order they  *)
(* come, is only refused for a cause that is in it: ssl.go:81-84,          *)
(* tencentcert/issuer.go:155-165.                                          *)
THEOREM RefusedForACause ==
    ASSUME NEW c \in Cert, OrderlyFiles(c)
    PROVE  Spec => []NoFalseAlarm
<1>1. Init => OrderInv(c)
  BY InitInv DEF Init, OrderInv, FilesOK, ChainOK, NoFalseAlarm
<1>2. OrderInv(c) /\ [Next]_vars => OrderInv(c)'
  BY OrderStep
<1>3. OrderInv(c) => NoFalseAlarm
  BY DEF OrderInv
<1>4. QED
  BY <1>1, <1>2, <1>3, PTL DEF Spec

=============================================================================
