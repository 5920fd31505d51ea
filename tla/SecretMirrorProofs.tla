------------------------- MODULE SecretMirrorProofs -------------------------
(***************************************************************************)
(* SecretMirror keeps its types, and its secret-hash annotation vouches    *)
(* for the data, for every set of workers, payloads and edits, with a      *)
(* cache that lags or does not.                                            *)
(***************************************************************************)
EXTENDS SecretMirror, TLAPS

\* A Secret as BuildSecret leaves it in want: one payload's, hashed.
Assembled(s) ==
    /\ s["secretHash"] = HashSecretData(s)
    /\ \E m \in Payload : s["crt"] = m.crt /\ s["key"] = m.key /\ s["ca"] = CaBundle(m)

\* Nobody but a verified write has set the hash.
HashGood(s) == s["secretHash"] \in {Absent, Junk} \/ Certified(s["secretHash"])

\* What a reconcile holds at each stage, and what it may send.
StageOK(w) ==
    /\ stage[w] = "build" => mat[w] \in Payload
    /\ stage[w] \in {"soft", "write"} => IsSecret(want[w]) /\ Assembled(want[w])
    /\ stage[w] = "write" => VerifySecretData(want[w])

PatchOK(w) ==
    /\ patch[w].orig = NoSecret \/ HashGood(patch[w].orig)
    /\ patch[w].orig # NoSecret => IsSecret(patch[w].new)
    /\ patch[w].orig # NoSecret \/ patch[w].new # NoSecret => HashGood(patch[w].new)

HashesOK ==
    /\ live # NoSecret => HashGood(live)
    /\ cached # NoSecret => HashGood(cached)

IInv == TypeOK /\ HashesOK /\ \A w \in Worker : StageOK(w) /\ PatchOK(w)

\* The parts of TypeOK about a worker's locals and requests.
LocalTypes ==
    /\ stage \in [Worker -> Stage]
    /\ mat \in [Worker -> Payload \cup {Absent}]
    /\ reason \in [Worker -> DriftReason \cup {Absent}]
    /\ DOMAIN want = Worker
    /\ \A w \in Worker : MaybeSecret(want[w])

PatchTypes ==
    /\ DOMAIN patch = Worker
    /\ \A w \in Worker : MaybeSecret(patch[w].orig) /\ MaybeSecret(patch[w].new)

SharedTypes ==
    /\ source \in Payload \cup {Absent}
    /\ MaybeSecret(live) /\ MaybeSecret(cached)
    /\ now \in 0..MaxTime
    /\ budget \in [{"rotations", "edits", "faults"} -> Nat]

\* A step of w leaves the others' locals alone.
Others(w) ==
    \A v \in Worker \ {w} :
        stage'[v] = stage[v] /\ mat'[v] = mat[v] /\ want'[v] = want[v]

----------------------------------------------------------------------------
LEMMA FieldFacts ==
    /\ DataField = {"crt", "key", "ca", "jks", "p12", "pw"}
    /\ Field = DataField \cup {"sourceHash", "secretHash", "syncTime", "drift"}
BY DEF DataField, Field, StampedAnnotation

(* A merge patch between well-formed Secrets gives a well-formed Secret.   *)
LEMMA MergePatchType ==
    ASSUME NEW a, NEW b, NEW c, IsSecret(a), IsSecret(c)
    PROVE  IsSecret(MergePatch(a, b, c))
<1> DEFINE r == MergePatch(a, b, c)
<1>1. r = [f \in Field |-> r[f]] /\ \A f \in Field : r[f] = a[f] \/ r[f] = c[f]
  BY DEF MergePatch
<1>2. \A f \in DataField : r[f] \in Bytes(f)
  BY <1>1, FieldFacts DEF IsSecret
<1>3. IsSecret(r)
  <2> HIDE DEF r
  <2> QED BY <1>1, <1>2, FieldFacts DEF IsSecret
<1>4. QED
  BY <1>3

(* ... and its hash is that of one of the two.                             *)
LEMMA MergePatchHash ==
    ASSUME NEW a, NEW b, NEW c, HashGood(a), HashGood(c)
    PROVE  HashGood(MergePatch(a, b, c))
BY FieldFacts DEF MergePatch, HashGood

(* BuildKeystore returns well-formed entries, reused or built.             *)
LEMMA BuildKeystoreType ==
    ASSUME NEW m \in Payload, NEW e, MaybeSecret(e), NEW n \in Nonce
    PROVE  LET k == BuildKeystore(m, e, n)
           IN  /\ k.jks \in Bytes("jks") /\ k.p12 \in Bytes("p12") /\ k.pw \in Bytes("pw")
               /\ k.outcome \in {"built", "skipped", "failed"}
<1> DEFINE k == BuildKeystore(m, e, n)
<1> DEFINE pw == ReuseOrGeneratePassword(m, e, n)
<1>1. e = NoSecret \/ \A f \in DataField : e[f] \in Bytes(f)
  BY DEF MaybeSecret, IsSecret
<1>2. /\ Bytes("pw") = {Absent, Junk} \cup Nonce
      /\ \A f \in {"jks", "p12"} : Bytes(f) = {Absent, Junk} \cup
            [salt : Nonce, pw : Nonce \cup {Junk}, crt : {x.crt : x \in Payload},
             key : {x.key : x \in Payload}, ca : {CaBundle(x) : x \in Payload}]
  BY DEF Bytes, Keystore
<1>3. pw \in Nonce \cup {Junk}
  BY <1>1, <1>2, FieldFacts DEF ReuseOrGeneratePassword
<1>4. \A f \in {"jks", "p12"} : Store(m, pw, n) \in Bytes(f)
  <2> HIDE DEF pw
  <2> QED BY <1>2, <1>3 DEF Store
<1>5. LET b == Build(m, e, n)
      IN  /\ b.jks \in Bytes("jks") /\ b.p12 \in Bytes("p12") /\ b.pw \in Bytes("pw")
          /\ b.outcome \in {"built", "skipped", "failed"}
  <2> HIDE DEF pw
  <2>1. Build(m, e, n) \in {Skipped, Failed,
             [jks |-> Store(m, pw, n), p12 |-> Store(m, pw, n), pw |-> pw,
              outcome |-> "built"]}
    BY DEF Build, pw
  <2> QED BY <2>1, <1>2, <1>3, <1>4 DEF Skipped, Failed
<1>6. QED
  BY <1>1, <1>5, FieldFacts DEF BuildKeystore, KeystoreField

(* The template is well formed, hashed, and carries one payload.           *)
LEMMA TemplateType ==
    ASSUME NEW m \in Payload, NEW k, NEW t \in 0..MaxTime,
           k.jks \in Bytes("jks"), k.p12 \in Bytes("p12"), k.pw \in Bytes("pw")
    PROVE  LET s == Template(m, k, t) IN IsSecret(s) /\ Assembled(s)
<1> DEFINE s == Template(m, k, t)
<1>1. /\ s = [f \in Field |-> s[f]]
      /\ s["crt"] = m.crt /\ s["key"] = m.key /\ s["ca"] = CaBundle(m)
      /\ s["jks"] = k.jks /\ s["p12"] = k.p12 /\ s["pw"] = k.pw
      /\ s["sourceHash"] = m /\ s["syncTime"] = t /\ s["drift"] = Absent
  BY FieldFacts DEF Template, SourceHash, KeystoreField
<1>2. s["secretHash"] = HashSecretData(s)
  BY FieldFacts DEF Template, HashSecretData, KeystoreField
<1> HIDE DEF s
<1>3. \A f \in DataField : s[f] \in Bytes(f)
  BY <1>1, FieldFacts DEF Bytes, Keystore
<1>4. IsData(s["secretHash"])
  BY <1>2, <1>3 DEF IsData, HashSecretData
<1>5. IsSecret(s)
  BY <1>1, <1>3, <1>4 DEF IsSecret
<1>6. Assembled(s)
  BY <1>1, <1>2 DEF Assembled
<1>7. QED
  BY <1>5, <1>6 DEF s

LEMMA TypeParts == TypeOK <=> SharedTypes /\ LocalTypes /\ PatchTypes
BY DEF TypeOK, SharedTypes, LocalTypes, PatchTypes

----------------------------------------------------------------------------
(* What the helpers do to the locals. *)

LEMMA SpendType ==
    ASSUME budget \in [{"rotations", "edits", "faults"} -> Nat],
           NEW kind \in {"rotations", "edits", "faults"}, Spend(kind)
    PROVE  budget' \in [{"rotations", "edits", "faults"} -> Nat]
BY DEF Spend

LEMMA FaultType ==
    ASSUME budget \in [{"rotations", "edits", "faults"} -> Nat], NoFault \/ Fault
    PROVE  budget' \in [{"rotations", "edits", "faults"} -> Nat]
BY SpendType DEF Fault, NoFault

LEMMA ReturnOK ==
    ASSUME LocalTypes, NEW w \in Worker, Return(w)
    PROVE  LocalTypes' /\ StageOK(w)' /\ Others(w)
BY DEF LocalTypes, Return, Goto, StageOK, Others, Stage, MaybeSecret

LEMMA FailOK ==
    ASSUME LocalTypes, NEW w \in Worker, NEW r \in DriftReason, Fail(w, r),
           mat' \in [Worker -> Payload \cup {Absent}],
           DOMAIN want' = Worker, \A v \in Worker : MaybeSecret(want'[v]),
           \A v \in Worker \ {w} : mat'[v] = mat[v] /\ want'[v] = want[v]
    PROVE  LocalTypes' /\ StageOK(w)' /\ Others(w)
BY DEF LocalTypes, Fail, Goto, StageOK, Others, Stage

LEMMA VerifiedOK ==
    ASSUME LocalTypes, NEW w \in Worker, Verified(w, want'[w]),
           mat' = mat, IsSecret(want'[w]), Assembled(want'[w]),
           DOMAIN want' = Worker, \A v \in Worker : MaybeSecret(want'[v]),
           \A v \in Worker \ {w} : want'[v] = want[v]
    PROVE  LocalTypes' /\ StageOK(w)' /\ Others(w)
<1>1. CASE VerifySecretData(want'[w])
  BY <1>1 DEF LocalTypes, Verified, Goto, StageOK, Others, Stage
<1>2. CASE ~VerifySecretData(want'[w])
  <2>1. Fail(w, "SecretVerifyFailed")
    BY <1>2 DEF Verified
  <2>2. QED
    BY <2>1, FailOK DEF LocalTypes, DriftReason
<1>3. QED
  BY <1>1, <1>2

LEMMA AfterMarkOK ==
    ASSUME LocalTypes, NEW w \in Worker, StageOK(w), AfterMark(w)
    PROVE  LocalTypes' /\ StageOK(w)' /\ Others(w)
<1>1. CASE stage[w] = "soft"
  <2>1. Verified(w, want'[w]) /\ mat' = mat /\ want' = want
    BY <1>1 DEF AfterMark
  <2>2. QED
    BY <1>1, <2>1, VerifiedOK DEF StageOK, LocalTypes
<1>2. CASE stage[w] # "soft"
  BY <1>2, ReturnOK DEF AfterMark
<1>3. QED
  BY <1>1, <1>2

LEMMA AnsweredOK ==
    ASSUME LocalTypes, NEW w \in Worker, StageOK(w), NEW ok \in BOOLEAN, Answered(w, ok)
    PROVE  LocalTypes' /\ StageOK(w)' /\ Others(w)
<1>1. CASE stage[w] = "write" /\ ok
  BY <1>1 DEF Answered, LocalTypes, Goto, StageOK, Others, Stage
<1>2. CASE stage[w] = "write" /\ ~ok
  BY <1>2, FailOK DEF Answered, LocalTypes, DriftReason
<1>3. CASE stage[w] = "clear"
  BY <1>3, ReturnOK DEF Answered
<1>4. CASE stage[w] \notin {"write", "clear"}
  BY <1>4, AfterMarkOK DEF Answered
<1>5. QED
  BY <1>1, <1>2, <1>3, <1>4

----------------------------------------------------------------------------
(* One step per action. *)

LEMMA Frame ==
    ASSUME IInv, NEW w \in Worker, SharedTypes', LocalTypes', PatchTypes',
           StageOK(w)', Others(w), HashesOK', \A v \in Worker : PatchOK(v)'
    PROVE  IInv'
<1>1. \A v \in Worker : StageOK(v)'
  BY DEF IInv, Others, StageOK
<1>2. TypeOK'
  BY TypeParts, PTL
<1>3. QED
  BY <1>1, <1>2 DEF IInv

\* A request that only moves the drift marker of the cached copy.
LEMMA MarkerPatch ==
    ASSUME IInv, cached # NoSecret, NEW r \in DriftReason \cup {Absent}, NEW w \in Worker,
           patch' = [patch EXCEPT ![w] =
               [orig |-> cached, new |-> [cached EXCEPT !["drift"] = r]]]
    PROVE  PatchTypes' /\ \A v \in Worker : PatchOK(v)'
<1> DEFINE new == [cached EXCEPT !["drift"] = r]
<1>1. IsSecret(cached) /\ HashGood(cached)
  BY DEF IInv, TypeOK, HashesOK, MaybeSecret
<1>2. IsSecret(new) /\ HashGood(new)
  BY <1>1, FieldFacts DEF IsSecret, HashGood
<1>3. QED
  BY <1>1, <1>2 DEF IInv, TypeOK, PatchTypes, MaybeSecret, PatchOK

\* A step that leaves the shared state, but for the budget, alone.
LEMMA SharedKept ==
    ASSUME IInv, NoFault \/ Fault, live' = live, cached' = cached, source' = source, now' = now
    PROVE  SharedTypes' /\ HashesOK'
BY FaultType DEF IInv, TypeOK, SharedTypes, HashesOK

LEMMA PatchKept ==
    ASSUME IInv, patch' = patch
    PROVE  PatchTypes' /\ \A v \in Worker : PatchOK(v)'
BY DEF IInv, TypeOK, PatchTypes, PatchOK

LEMMA FetchStep ==
    ASSUME IInv, NEW w \in Worker, Fetch(w)
    PROVE  IInv'
<1> USE TypeParts DEF IInv
<1>1. SharedTypes' /\ HashesOK' /\ PatchTypes' /\ \A v \in Worker : PatchOK(v)'
  BY SharedKept, PatchKept DEF Fetch, NotWritten
<1>2. LocalTypes' /\ StageOK(w)' /\ Others(w)
  <2>1. CASE Fail(w, "SourceMissing") /\ UNCHANGED mat
    BY <2>1, FailOK DEF Fetch, LocalTypes, DriftReason
  <2>2. CASE Goto(w, "build") /\ source # Absent /\ mat' = [mat EXCEPT ![w] = source]
             /\ UNCHANGED reason
    BY <2>2 DEF Fetch, LocalTypes, SharedTypes, Goto, Stage, StageOK, Others
  <2>3. QED
    BY <2>1, <2>2 DEF Fetch
<1>3. QED
  BY <1>1, <1>2, Frame

LEMMA BuildSecretStep ==
    ASSUME IInv, NEW w \in Worker, BuildSecret(w)
    PROVE  IInv'
<1> USE TypeParts DEF IInv
<1>1. SharedTypes' /\ HashesOK' /\ PatchTypes' /\ \A v \in Worker : PatchOK(v)'
  BY SharedKept, PatchKept DEF BuildSecret, NotWritten
<1>2. LocalTypes' /\ StageOK(w)' /\ Others(w)
  <2>1. CASE Fail(w, "SecretReadFailed") /\ UNCHANGED want
    BY <2>1, FailOK DEF BuildSecret, LocalTypes, DriftReason
  <2>2. ASSUME NEW n \in Nonce,
               LET keystore == BuildKeystore(mat[w], cached, n)
                   desired  == Template(mat[w], keystore, now)
               IN  /\ want' = [want EXCEPT ![w] = desired]
                   /\ \/ Verified(w, desired)
                      \/ /\ Goto(w, "soft")
                         /\ reason' = [reason EXCEPT ![w] = "KeystoreSkipped"]
                      \/ /\ Goto(w, "soft")
                         /\ reason' = [reason EXCEPT ![w] = "KeystoreBuildFailed"]
        PROVE  LocalTypes' /\ StageOK(w)' /\ Others(w)
    <3> DEFINE desired == Template(mat[w], BuildKeystore(mat[w], cached, n), now)
    <3>1. mat[w] \in Payload /\ mat' = mat /\ MaybeSecret(cached) /\ now \in 0..MaxTime
      BY DEF BuildSecret, StageOK, SharedTypes
    <3>2. IsSecret(desired) /\ Assembled(desired)
      BY <3>1, BuildKeystoreType, TemplateType
    <3>3. want' = [want EXCEPT ![w] = desired]
      BY <2>2
    <3> HIDE DEF desired
    <3>4. /\ IsSecret(want'[w]) /\ Assembled(want'[w]) /\ want'[w] = desired
          /\ DOMAIN want' = Worker /\ \A v \in Worker : MaybeSecret(want'[v])
          /\ \A v \in Worker \ {w} : want'[v] = want[v]
      BY <3>2, <3>3 DEF LocalTypes, MaybeSecret
    <3>5. CASE Verified(w, desired)
      BY <3>1, <3>4, <3>5, VerifiedOK
    <3>6. CASE \E r \in DriftReason : Goto(w, "soft") /\ reason' = [reason EXCEPT ![w] = r]
      BY <3>1, <3>4, <3>6 DEF LocalTypes, Goto, Stage, StageOK, Others
    <3>7. QED
      BY <2>2, <3>5, <3>6 DEF desired, DriftReason
  <2>3. QED
    <3>1. \A n \in Nonce : BuildKeystore(mat[w], cached, n).outcome
                               \in {"built", "skipped", "failed"}
      BY BuildKeystoreType DEF BuildSecret, StageOK, SharedTypes
    <3>2. QED
      BY <2>1, <2>2, <3>1 DEF BuildSecret
<1>3. QED
  BY <1>1, <1>2, Frame

LEMMA MarkReadStep ==
    ASSUME IInv, NEW w \in Worker, MarkRead(w)
    PROVE  IInv'
<1> USE TypeParts DEF IInv
<1>1. SharedTypes' /\ HashesOK'
  BY SharedKept DEF MarkRead, NotWritten
<1>2. CASE AfterMark(w) /\ UNCHANGED patch
  BY <1>1, <1>2, AfterMarkOK, PatchKept, Frame
<1>3. CASE /\ cached # NoSecret
           /\ patch' = [patch EXCEPT ![w] =
                 [orig |-> cached, new |-> [cached EXCEPT !["drift"] = reason[w]]]]
           /\ UNCHANGED <<stage, mat, want, reason>>
  <2>1. reason[w] \in DriftReason \cup {Absent}
    BY DEF LocalTypes
  <2>2. PatchTypes' /\ \A v \in Worker : PatchOK(v)'
    BY <1>3, <2>1, MarkerPatch
  <2>3. LocalTypes' /\ StageOK(w)' /\ Others(w)
    BY <1>3 DEF LocalTypes, StageOK, Others
  <2>4. QED
    BY <1>1, <2>2, <2>3, Frame
<1>4. QED
  BY <1>2, <1>3 DEF MarkRead

LEMMA ClearReadStep ==
    ASSUME IInv, NEW w \in Worker, ClearRead(w)
    PROVE  IInv'
<1> USE TypeParts DEF IInv
<1>1. SharedTypes' /\ HashesOK'
  BY SharedKept DEF ClearRead, NotWritten
<1>2. CASE Return(w) /\ UNCHANGED patch
  BY <1>1, <1>2, ReturnOK, PatchKept, Frame
<1>3. CASE /\ cached # NoSecret
           /\ patch' = [patch EXCEPT ![w] =
                 [orig |-> cached, new |-> [cached EXCEPT !["drift"] = Absent]]]
           /\ UNCHANGED <<stage, mat, want, reason>>
  <2>1. PatchTypes' /\ \A v \in Worker : PatchOK(v)'
    BY <1>3, MarkerPatch
  <2>2. LocalTypes' /\ StageOK(w)' /\ Others(w)
    BY <1>3 DEF LocalTypes, StageOK, Others
  <2>3. QED
    BY <1>1, <2>1, <2>2, Frame
<1>4. CASE Fail(w, "SignCRFailed") /\ UNCHANGED <<mat, want, patch>>
  <2>1. LocalTypes' /\ StageOK(w)' /\ Others(w)
    BY <1>4, FailOK DEF LocalTypes, DriftReason
  <2>2. QED
    BY <1>1, <1>4, <2>1, PatchKept, Frame
<1>5. QED
  BY <1>2, <1>3, <1>4 DEF ClearRead

(* A verified Secret certifies its own hash.                               *)
LEMMA VerifiedHash ==
    ASSUME NEW s, Assembled(s), VerifySecretData(s)
    PROVE  HashGood(s)
<1>1. /\ s["secretHash"] = HashSecretData(s)
      /\ \A f \in DataField : HashSecretData(s)[f] = s[f]
  BY DEF Assembled, HashSecretData
<1>2. VerifySecretData(HashSecretData(s))
  BY <1>1, FieldFacts DEF VerifySecretData
<1>3. \E m \in Payload : /\ HashSecretData(s)["crt"] = m.crt
                         /\ HashSecretData(s)["key"] = m.key
                         /\ HashSecretData(s)["ca"] = CaBundle(m)
  BY <1>1, FieldFacts DEF Assembled
<1>4. QED
  BY <1>1, <1>2, <1>3 DEF HashGood, Certified

LEMMA WriteReadStep ==
    ASSUME IInv, NEW w \in Worker, WriteRead(w)
    PROVE  IInv'
<1> USE TypeParts DEF IInv
<1>1. SharedTypes' /\ HashesOK'
  BY SharedKept DEF WriteRead, NotWritten
<1>2. IsSecret(want[w]) /\ HashGood(want[w])
  BY VerifiedHash DEF WriteRead, StageOK
<1>3. CASE /\ patch' = [patch EXCEPT ![w] = [orig |-> cached, new |-> want[w]]]
           /\ UNCHANGED <<stage, reason>>
  <2>1. PatchTypes' /\ \A v \in Worker : PatchOK(v)'
    BY <1>2, <1>3 DEF PatchTypes, PatchOK, HashesOK, SharedTypes, MaybeSecret
  <2>2. LocalTypes' /\ StageOK(w)' /\ Others(w)
    BY <1>3 DEF WriteRead, LocalTypes, StageOK, Others
  <2>3. QED
    BY <1>1, <2>1, <2>2, Frame
<1>4. CASE Goto(w, "clear") /\ UNCHANGED <<patch, reason>>
  <2>1. LocalTypes' /\ StageOK(w)' /\ Others(w)
    BY <1>4 DEF WriteRead, LocalTypes, Goto, Stage, StageOK, Others
  <2>2. QED
    BY <1>1, <1>4, <2>1, PatchKept, Frame
<1>5. CASE Fail(w, "SecretWriteFailed") /\ UNCHANGED patch
  <2>1. LocalTypes' /\ StageOK(w)' /\ Others(w)
    BY <1>5, FailOK DEF WriteRead, LocalTypes, DriftReason
  <2>2. QED
    BY <1>1, <1>5, <2>1, PatchKept, Frame
<1>6. QED
  BY <1>3, <1>4, <1>5 DEF WriteRead

LEMMA SendStep ==
    ASSUME IInv, NEW w \in Worker, Send(w)
    PROVE  IInv'
<1> USE TypeParts DEF IInv
<1>1. \E ok \in BOOLEAN : Answered(w, ok)
  BY DEF Send
<1>2. LocalTypes' /\ StageOK(w)' /\ Others(w)
  BY <1>1, AnsweredOK
<1>3. PatchTypes' /\ \A v \in Worker : PatchOK(v)'
  BY DEF Send, PatchTypes, PatchOK, NoPatch, MaybeSecret
<1>4. MaybeSecret(live') /\ (live' # NoSecret => HashGood(live'))
  <2>1. CASE Accepted(w) /\ live' = Applied(w) /\ Creates(w)
    BY <2>1 DEF Applied, Creates, PatchOK, PatchTypes
  <2>2. CASE Accepted(w) /\ live' = Applied(w) /\ ~Creates(w)
    <3>1. /\ IsSecret(live) /\ HashGood(live)
          /\ IsSecret(patch[w].new) /\ HashGood(patch[w].new)
      BY <2>2 DEF Accepted, Creates, SharedTypes, MaybeSecret, HashesOK, PatchOK
    <3>2. live' = MergePatch(live, patch[w].orig, patch[w].new)
      BY <2>2 DEF Applied
    <3>3. QED
      BY <3>1, <3>2, MergePatchType, MergePatchHash DEF MaybeSecret
  <2>3. CASE UNCHANGED live
    BY <2>3 DEF SharedTypes, HashesOK
  <2>4. QED
    BY <2>1, <2>2, <2>3 DEF Send, NotWritten
<1>5. SharedTypes' /\ HashesOK'
  <2>1. cached' \in {cached, live'}
    BY DEF Send, Written, NotWritten
  <2>2. budget' \in [{"rotations", "edits", "faults"} -> Nat]
    BY FaultType DEF Send, SharedTypes
  <2>3. source' = source /\ now' = now
    BY DEF Send
  <2>4. QED
    BY <1>4, <2>1, <2>2, <2>3 DEF SharedTypes, HashesOK
<1>6. QED
  BY <1>2, <1>3, <1>5, Frame

\* A step of the environment leaves every reconcile where it was.
LEMMA EnvironmentFrame ==
    ASSUME IInv, UNCHANGED local, SharedTypes', HashesOK'
    PROVE  IInv'
<1>1. LocalTypes' /\ PatchTypes'
  BY TypeParts DEF IInv, local, LocalTypes, PatchTypes
<1>2. \A w \in Worker : StageOK(w)' /\ PatchOK(w)'
  BY DEF IInv, local, StageOK, PatchOK
<1>3. TypeOK'
  BY <1>1, TypeParts, PTL
<1>4. QED
  BY <1>2, <1>3 DEF IInv

LEMMA EditStep ==
    ASSUME IInv, Edit
    PROVE  IInv'
<1> USE TypeParts DEF IInv
<1>1. MaybeSecret(live') /\ (live' # NoSecret => HashGood(live'))
  <2>1. ASSUME NEW f \in EditField, NEW v \in {Absent, Junk}, live' = [live EXCEPT ![f] = v]
        PROVE  IsSecret(live') /\ HashGood(live')
    <3>1. IsSecret(live) /\ HashGood(live)
      BY DEF Edit, SharedTypes, MaybeSecret, HashesOK
    <3>2. f \in DataField \cup {"sourceHash", "secretHash", "drift"}
      BY SecretMirrorAssumption
    <3>3. /\ live' = [g \in Field |-> live'[g]]
          /\ live'[f] = v
          /\ \A g \in Field \ {f} : live'[g] = live[g]
      BY <2>1, <3>1, <3>2, FieldFacts DEF IsSecret
    <3>4. \A g \in DataField : live'[g] \in Bytes(g)
      BY <3>1, <3>3, FieldFacts DEF IsSecret, Bytes, Keystore
    <3>5. IsSecret(live')
      BY <3>1, <3>2, <3>3, <3>4, FieldFacts DEF IsSecret
    <3>6. HashGood(live')
      BY <3>1, <3>2, <3>3, FieldFacts DEF HashGood
    <3>7. QED
      BY <3>5, <3>6
  <2>2. QED
    BY <2>1 DEF Edit, MaybeSecret
<1>2. SharedTypes' /\ HashesOK'
  <2>1. budget' \in [{"rotations", "edits", "faults"} -> Nat]
    BY SpendType DEF Edit, SharedTypes
  <2>2. QED
    BY <1>1, <2>1 DEF Edit, Written, SharedTypes, HashesOK
<1>3. QED
  BY <1>2, EnvironmentFrame DEF Edit

LEMMA OtherEnvironmentStep ==
    ASSUME IInv, Deliver \/ Tick \/ Rotate
    PROVE  IInv'
<1> USE TypeParts DEF IInv
<1>1. CASE Deliver
  BY <1>1, EnvironmentFrame DEF Deliver, SharedTypes, HashesOK
<1>2. CASE Tick
  BY <1>2, SecretMirrorAssumption, EnvironmentFrame DEF Tick, SharedTypes, HashesOK
<1>3. CASE Rotate
  <2>1. budget' \in [{"rotations", "edits", "faults"} -> Nat]
    BY <1>3, SpendType DEF Rotate, SharedTypes
  <2>2. QED
    BY <1>3, <2>1, EnvironmentFrame DEF Rotate, SharedTypes, HashesOK
<1>4. QED
  BY <1>1, <1>2, <1>3

LEMMA CrashStep ==
    ASSUME IInv, Crash
    PROVE  IInv'
<1> USE TypeParts DEF IInv
<1>1. SharedTypes' /\ HashesOK'
  BY FaultType DEF Crash, SharedTypes, HashesOK
<1>2. LocalTypes' /\ PatchTypes'
  BY DEF Crash, LocalTypes, PatchTypes, NoPatch, MaybeSecret, Stage
<1>3. \A w \in Worker : StageOK(w)' /\ PatchOK(w)'
  BY DEF Crash, StageOK, PatchOK, NoPatch
<1>4. TypeOK'
  BY <1>1, <1>2, TypeParts, PTL
<1>5. QED
  BY <1>1, <1>3, <1>4

----------------------------------------------------------------------------
(* The theorems. *)

LEMMA InitInv == Init => IInv
<1> SUFFICES ASSUME Init PROVE IInv
  OBVIOUS
<1>1. SharedTypes
  BY SecretMirrorAssumption DEF Init, SharedTypes, MaybeSecret
<1>2. LocalTypes /\ PatchTypes
  BY DEF Init, LocalTypes, PatchTypes, NoPatch, MaybeSecret, Stage
<1>3. HashesOK /\ \A w \in Worker : StageOK(w) /\ PatchOK(w)
  BY DEF Init, HashesOK, StageOK, PatchOK, NoPatch
<1>4. QED
  BY <1>1, <1>2, <1>3, TypeParts DEF IInv

LEMMA NextInv == IInv /\ [Next]_vars => IInv'
<1> SUFFICES ASSUME IInv, [Next]_vars PROVE IInv'
  OBVIOUS
<1>1. CASE \E w \in Worker : Reconcile(w)
  BY <1>1, FetchStep, BuildSecretStep, MarkReadStep, WriteReadStep, ClearReadStep, SendStep
     DEF Reconcile
<1>2. CASE Environment
  BY <1>2, EditStep, OtherEnvironmentStep, CrashStep DEF Environment
<1>3. CASE UNCHANGED vars
  BY <1>3 DEF vars, IInv, TypeOK, HashesOK, StageOK, PatchOK
<1>4. QED
  BY <1>1, <1>2, <1>3 DEF Next

LEMMA Invariance == Spec => []IInv
BY InitInv, NextInv, PTL DEF Spec

(* Every copy of the Secret, and everything a reconcile holds, keeps its    *)
(* type.                                                                    *)
THEOREM TypeCorrect == Spec => []TypeOK
<1>1. IInv => TypeOK
  BY DEF IInv
<1>2. QED
  BY <1>1, Invariance, PTL

(* A hash annotation that agrees with the data vouches for one payload's    *)
(* data, verified: for any number of reconciles at once over copies however *)
(* stale, with edits, faults and crashes anywhere (issuer.go:399-428).      *)
THEOREM TamperEvidence == Spec => []TamperEvident
<1>1. IInv => TamperEvident
  <2> SUFFICES ASSUME IInv, live # NoSecret,
                      live["secretHash"] \notin {Absent, Junk}, Intact(live)
               PROVE  Certified(live)
    BY DEF TamperEvident
  <2>1. Certified(HashSecretData(live))
    BY DEF IInv, HashesOK, HashGood, Intact
  <2>2. \A f \in DataField : HashSecretData(live)[f] = live[f]
    BY DEF HashSecretData
  <2>3. QED
    BY <2>1, <2>2, FieldFacts DEF Certified, VerifySecretData
<1>2. QED
  BY <1>1, Invariance, PTL

=============================================================================
