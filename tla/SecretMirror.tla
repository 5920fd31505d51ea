---------------------------- MODULE SecretMirror ----------------------------
(***************************************************************************)
(* IssuerReconciler.Reconcile as it acts on one Secret in one namespace.   *)
(*                                                                         *)
(* Several workers run it at once for the same Certificate: the work queue *)
(* never hands one key to two of its workers, but the Resyncer calls       *)
(* Reconcile directly, beside the queue.  A reconcile is not atomic: it    *)
(* fetches from the cloud, reads the Secret from the informer cache to     *)
(* reuse its keystore, reads it again to decide what to write, sends a     *)
(* patch computed against that copy, and finally reads and patches once    *)
(* more to clear the drift marker.  The cache follows the API server with  *)
(* a delay, and no patch carries a resourceVersion.                        *)
(*                                                                         *)
(* Bounds: MaxTime on the clock, MaxRotations, MaxEdits and MaxFaults on   *)
(* what the environment does.  None of them bounds the workers.            *)
(***************************************************************************)
EXTENDS Naturals, TLSSecret

CONSTANTS
    Worker,        \* the goroutines that may reconcile the Certificate
    Ticking,       \* those that start again for ever: the Resyncer's
    EditField,     \* the Secret fields somebody else overwrites
    Lagging,       \* whether the informer cache may be behind
    MaxTime, MaxRotations, MaxEdits, MaxFaults

ASSUME SecretMirrorAssumption ==
    /\ Ticking \subseteq Worker
    /\ EditField \subseteq DataField \cup {"sourceHash", "secretHash", "drift"}
    /\ Lagging \in BOOLEAN
    /\ {MaxTime, MaxRotations, MaxEdits, MaxFaults} \subseteq Nat

VARIABLES
    source,   \* what the cloud holds: a payload, or Absent
    live,     \* the Secret on the API server
    cached,   \* the Secret in the informer cache
    now,      \* wall clock, in the one-second resolution of RFC 3339
    stage,    \* worker |-> where in Reconcile it is
    mat,      \* worker |-> the payload it fetched
    want,     \* worker |-> the Secret it wants to write
    patch,    \* worker |-> the request it is about to send
    reason,   \* worker |-> the drift reason it is recording
    budget    \* what the environment may still do

vars == <<source, live, cached, now, stage, mat, want, patch, reason, budget>>
local == <<stage, mat, want, patch, reason>>

NoPatch == [orig |-> NoSecret, new |-> NoSecret]

\* SourceMissing stands for every failure before the Secret is built, and
\* SecretWriteFailed for that to list the namespaces as well.
DriftReason == {"SourceMissing", "SecretReadFailed", "KeystoreBuildFailed",
                "KeystoreSkipped", "SecretVerifyFailed", "SecretWriteFailed",
                "SignCRFailed"}

Stage == {"idle", "build", "soft", "write", "clear", "mark"}

Idle(w) == stage[w] = "idle"

Init ==
    /\ source \in Payload
    /\ live = NoSecret
    /\ cached = NoSecret
    /\ now = 0
    /\ stage = [w \in Worker |-> "idle"]
    /\ mat = [w \in Worker |-> Absent]
    /\ want = [w \in Worker |-> NoSecret]
    /\ patch = [w \in Worker |-> NoPatch]
    /\ reason = [w \in Worker |-> Absent]
    /\ budget = [rotations |-> MaxRotations, edits |-> MaxEdits, faults |-> MaxFaults]

----------------------------------------------------------------------------
(* Helpers. *)

Spend(kind) == budget[kind] > 0 /\ budget' = [budget EXCEPT ![kind] = @ - 1]
Fault == Spend("faults")
NoFault == UNCHANGED budget

\* Every Secret there is a copy of, and every set of data there is a hash of.
Held == {s \in {live, cached} \cup {want[w] : w \in Worker} : s # NoSecret}
Hashed == {s["secretHash"] : s \in Held} \ {Absent, Junk}

\* rand.Read never answers twice alike: the least number not in use stands
\* for a new random choice.
FreshNonce(n) ==
    LET used == UNION {NoncesOf(d) : d \in Held \cup Hashed}
    IN  n \notin used /\ \A k \in Nonce : k < n => k \in used

\* Without lag the cache shows the API server's state at once.
Written == cached' = IF Lagging THEN cached ELSE live'
NotWritten == UNCHANGED <<live, cached>>

Goto(w, s) == stage' = [stage EXCEPT ![w] = s]

\* The hard error paths: MarkCertDrift, then RequeueAfterError.
Fail(w, r) == Goto(w, "mark") /\ reason' = [reason EXCEPT ![w] = r]

\* Reconcile returns; its locals go.
Return(w) ==
    /\ Goto(w, "idle")
    /\ mat' = [mat EXCEPT ![w] = Absent]
    /\ want' = [want EXCEPT ![w] = NoSecret]
    /\ reason' = [reason EXCEPT ![w] = Absent]

\* VerifySecretData stands between the build, soft failure or not, and the
\* write.
Verified(w, s) ==
    IF VerifySecretData(s)
    THEN Goto(w, "write") /\ reason' = [reason EXCEPT ![w] = Absent]
    ELSE Fail(w, "SecretVerifyFailed")

\* What follows MarkSecretDrift, whatever it returned.
AfterMark(w) ==
    IF stage[w] = "soft"
    THEN Verified(w, want[w]) /\ UNCHANGED <<mat, want>>
    ELSE Return(w)

----------------------------------------------------------------------------
(* One reconcile. *)

\* The resolver, the issuer configuration, Extract and VerifyChain: either
\* all of them succeed or the reconcile ends with a drift mark.
Fetch(w) ==
    /\ Idle(w)
    /\ \/ /\ source # Absent
          /\ NoFault
          /\ Goto(w, "build")
          /\ mat' = [mat EXCEPT ![w] = source]
          /\ UNCHANGED reason
       \/ /\ (source = Absent /\ NoFault) \/ Fault
          /\ Fail(w, "SourceMissing")
          /\ UNCHANGED mat
    /\ NotWritten
    /\ UNCHANGED <<source, now, want, patch>>

\* The template, the first read of the Secret, BuildKeystore, and
\* VerifySecretData when there is no soft failure to record before it.
BuildSecret(w) ==
    /\ stage[w] = "build"
    /\ \/ \E n \in {k \in Nonce : FreshNonce(k)} :
             LET keystore == BuildKeystore(mat[w], cached, n)
                 desired  == Template(mat[w], keystore, now)
             IN  /\ NoFault
                 /\ want' = [want EXCEPT ![w] = desired]
                 /\ CASE keystore.outcome = "built" -> Verified(w, desired)
                      [] keystore.outcome = "skipped" ->
                            /\ Goto(w, "soft")
                            /\ reason' = [reason EXCEPT ![w] = "KeystoreSkipped"]
                      [] keystore.outcome = "failed" ->
                            /\ Goto(w, "soft")
                            /\ reason' = [reason EXCEPT ![w] = "KeystoreBuildFailed"]
       \/ /\ Fault
          /\ Fail(w, "SecretReadFailed")
          /\ UNCHANGED want
    /\ NotWritten
    /\ UNCHANGED <<source, now, mat, patch>>

\* MarkSecretDrift up to its patch: nothing to do without a Secret, or when
\* the marker already says so; an error of the read ends it too.
MarkRead(w) ==
    /\ stage[w] \in {"soft", "mark"}
    /\ patch[w] = NoPatch
    /\ \/ /\ cached # NoSecret => cached["drift"] = reason[w]
          /\ NoFault
          /\ AfterMark(w)
          /\ UNCHANGED patch
       \/ /\ cached # NoSecret /\ cached["drift"] # reason[w]
          /\ NoFault
          /\ patch' = [patch EXCEPT ![w] =
                [orig |-> cached, new |-> [cached EXCEPT !["drift"] = reason[w]]]]
          /\ UNCHANGED <<stage, mat, want, reason>>
       \/ /\ Fault
          /\ AfterMark(w)
          /\ UNCHANGED patch
    /\ NotWritten
    /\ UNCHANGED <<source, now>>

\* WriteSecret up to its request: Create, nothing, or Patch.
WriteRead(w) ==
    /\ stage[w] = "write"
    /\ patch[w] = NoPatch
    /\ \/ /\ cached # NoSecret => ~SecretUpToDate(cached, want[w])
          /\ NoFault
          /\ patch' = [patch EXCEPT ![w] = [orig |-> cached, new |-> want[w]]]
          /\ UNCHANGED <<stage, reason>>
       \/ /\ cached # NoSecret /\ SecretUpToDate(cached, want[w])
          /\ NoFault
          /\ Goto(w, "clear")
          /\ UNCHANGED <<patch, reason>>
       \/ /\ Fault
          /\ Fail(w, "SecretWriteFailed")
          /\ UNCHANGED patch
    /\ NotWritten
    /\ UNCHANGED <<source, now, mat, want>>

\* Mutant: the marker is left to the next write.
ClearNothing(w) ==
    /\ stage[w] = "clear" /\ NoFault /\ Return(w)
    /\ NotWritten
    /\ UNCHANGED <<source, now, patch>>

\* signCertificateRequest, which may fail, then clearSecretDrift up to its
\* patch.
ClearRead(w) ==
    /\ stage[w] = "clear"
    /\ patch[w] = NoPatch
    /\ \/ /\ cached # NoSecret => cached["drift"] = Absent
          /\ NoFault
          /\ Return(w)
          /\ UNCHANGED patch
       \/ /\ cached # NoSecret /\ cached["drift"] # Absent
          /\ NoFault
          /\ patch' = [patch EXCEPT ![w] =
                [orig |-> cached, new |-> [cached EXCEPT !["drift"] = Absent]]]
          /\ UNCHANGED <<stage, mat, want, reason>>
       \/ /\ Fault
          /\ Return(w)
          /\ UNCHANGED patch
       \/ /\ Fault
          /\ Fail(w, "SignCRFailed")
          /\ UNCHANGED <<mat, want, patch>>
    /\ NotWritten
    /\ UNCHANGED <<source, now>>

\* The API server's half of a request: it creates a Secret that is not
\* there, patches one that is, and refuses anything else.
Creates(w) == patch[w].orig = NoSecret
Accepted(w) == Creates(w) <=> live = NoSecret
Applied(w) ==
    IF Creates(w) THEN patch[w].new
    ELSE MergePatch(live, patch[w].orig, patch[w].new)

\* What the reconciler does with the answer.  Errors of the two drift
\* patches are dropped.
Answered(w, ok) ==
    CASE stage[w] = "write" /\ ok  -> Goto(w, "clear") /\ UNCHANGED <<mat, want, reason>>
      [] stage[w] = "write" /\ ~ok -> Fail(w, "SecretWriteFailed") /\ UNCHANGED <<mat, want>>
      [] stage[w] = "clear"        -> Return(w)
      [] OTHER                     -> AfterMark(w)

\* A request can fail without effect, and it can take effect while the
\* answer is lost.
Send(w) ==
    /\ patch[w] # NoPatch
    /\ \/ /\ Accepted(w)
          /\ live' = Applied(w)
          /\ Written
          /\ \/ NoFault /\ Answered(w, TRUE)
             \/ Fault /\ Answered(w, FALSE)
       \/ /\ (~Accepted(w) /\ NoFault) \/ Fault
          /\ NotWritten
          /\ Answered(w, FALSE)
    /\ patch' = [patch EXCEPT ![w] = NoPatch]
    /\ UNCHANGED <<source, now>>

Reconcile(w) ==
    Fetch(w) \/ BuildSecret(w) \/ MarkRead(w) \/ WriteRead(w) \/ ClearRead(w) \/ Send(w)

----------------------------------------------------------------------------
(* The rest of the world. *)

\* The informer catches up.
Deliver ==
    /\ cached # live
    /\ cached' = live
    /\ UNCHANGED <<source, live, now, budget>> /\ UNCHANGED local

Tick ==
    /\ now < MaxTime
    /\ now' = now + 1
    /\ UNCHANGED <<source, live, cached, budget>> /\ UNCHANGED local

\* The certificate is rotated in the cloud, or removed there.
Rotate ==
    /\ Spend("rotations")
    /\ source' \in (Payload \cup {Absent}) \ {source}
    /\ UNCHANGED <<live, cached, now>> /\ UNCHANGED local

\* Somebody edits a field of the Secret, or deletes it.
Edit ==
    /\ live # NoSecret
    /\ Spend("edits")
    /\ \/ \E f \in EditField, v \in {Absent, Junk} : live' = [live EXCEPT ![f] = v]
       \/ live' = NoSecret
    /\ Written
    /\ UNCHANGED <<source, now>> /\ UNCHANGED local

\* The process dies: every reconcile under way is gone, and the next process
\* starts from a fresh list.
Crash ==
    /\ Fault
    /\ cached' = live
    /\ stage' = [w \in Worker |-> "idle"]
    /\ mat' = [w \in Worker |-> Absent]
    /\ want' = [w \in Worker |-> NoSecret]
    /\ patch' = [w \in Worker |-> NoPatch]
    /\ reason' = [w \in Worker |-> Absent]
    /\ UNCHANGED <<source, live, now>>

Environment == Deliver \/ Tick \/ Rotate \/ Edit \/ Crash

Next == (\E w \in Worker : Reconcile(w)) \/ Environment

\* A reconcile that has begun runs to its end, the Resyncer's ticker keeps
\* starting new ones, and the watch delivers.  Nothing else is owed.
Fairness ==
    /\ WF_vars(Deliver)
    /\ \A w \in Worker : WF_vars(Reconcile(w) /\ ~Idle(w))
    /\ \A w \in Ticking : WF_vars(Fetch(w))

Spec == Init /\ [][Next]_vars
FairSpec == Spec /\ Fairness

----------------------------------------------------------------------------
(* Correctness. *)

Keystore ==
    [salt : Nonce, pw : Nonce \cup {Junk}, crt : {m.crt : m \in Payload},
     key : {m.key : m \in Payload}, ca : {CaBundle(m) : m \in Payload}]

Bytes(f) ==
    {Absent, Junk} \cup
    CASE f = "crt" -> {m.crt : m \in Payload}
      [] f = "key" -> {m.key : m \in Payload}
      [] f = "ca"  -> {CaBundle(m) : m \in Payload}
      [] f = "pw"  -> Nonce
      [] f \in {"jks", "p12"} -> Keystore

Datum ==
    Bytes("crt") \cup Bytes("key") \cup Bytes("ca") \cup Bytes("pw") \cup Bytes("jks")

\* A keystore or a digest is neither missing nor bytes that do not parse, and
\* a Secret with something in it is not NoSecret.
ASSUME ValueAssumption ==
    /\ {Absent, Junk} \cap Keystore = {}
    /\ {Absent, Junk} \cap [DataField -> Datum] = {}
    /\ NoSecret \notin [Field -> Datum \cup [DataField -> Datum] \cup Payload
                                 \cup 0..MaxTime \cup DriftReason]
    /\ NoSecret \notin [of : Payload, keystore : Nonce \cup {Absent}, pw : Nonce \cup {Absent}]

IsData(d) == d = [f \in DataField |-> d[f]] /\ \A f \in DataField : d[f] \in Bytes(f)

IsSecret(s) ==
    /\ s = [f \in Field |-> s[f]]
    /\ \A f \in DataField : s[f] \in Bytes(f)
    /\ s["sourceHash"] \in Payload \cup {Absent, Junk}
    /\ s["secretHash"] \in {Absent, Junk} \/ IsData(s["secretHash"])
    /\ s["syncTime"] \in 0..MaxTime
    /\ s["drift"] \in DriftReason \cup {Absent, Junk}

MaybeSecret(s) == s = NoSecret \/ IsSecret(s)

TypeOK ==
    /\ source \in Payload \cup {Absent}
    /\ MaybeSecret(live)
    /\ MaybeSecret(cached)
    /\ now \in 0..MaxTime
    /\ stage \in [Worker -> Stage]
    /\ mat \in [Worker -> Payload \cup {Absent}]
    /\ reason \in [Worker -> DriftReason \cup {Absent}]
    /\ DOMAIN want = Worker /\ DOMAIN patch = Worker
    /\ \A w \in Worker :
          /\ MaybeSecret(want[w])
          /\ MaybeSecret(patch[w].orig)
          /\ MaybeSecret(patch[w].new)
    /\ budget \in [{"rotations", "edits", "faults"} -> Nat]

\* The hash annotation agrees with the data, which nobody has edited since.
Intact(s) == s["secretHash"] = HashSecretData(s)

\* One payload's certificate, key and chain, and a JKS that opens.
Certified(d) ==
    /\ \E m \in Payload : d["crt"] = m.crt /\ d["key"] = m.key /\ d["ca"] = CaBundle(m)
    /\ VerifySecretData(d)

(* Whatever the workers, the stale copies they patch from and the people    *)
(* editing the Secret do, a secret-hash annotation that agrees with the     *)
(* data vouches for the data: it is one payload's, unmixed, and it passed   *)
(* VerifySecretData.  hash.go:18-21, verify.go:141-146, issuer.go:399-428.  *)
TamperEvident ==
    (/\ live # NoSecret
     /\ live["secretHash"] \notin {Absent, Junk}
     /\ Intact(live)) => Certified(live)

(* An intact Secret that nobody edited holds keystores of its own           *)
(* certificate, key and chain, under its own password: no sequence of       *)
(* rotations, faults and reconciles passes off one payload's keystore with  *)
(* the hash of another's.  hash.go:71-79, issuer.go:158-183.                *)
KeystoreMatchesCert ==
    (/\ budget["edits"] = MaxEdits
     /\ live # NoSecret
     /\ Intact(live)
     /\ live["jks"] # Absent) =>
        \A f \in {"jks", "p12"} :
            \E n \in Nonce : \E m \in Payload :
                /\ live[f] = Store(m, live["pw"], n)
                /\ live["crt"] = m.crt /\ live["key"] = m.key /\ live["ca"] = CaBundle(m)

(* Consumers mount the keystore: while the source has not rotated an intact *)
(* Secret, unless somebody else's PKCS#12 file or password was stamped with *)
(* it, keeps its keystore byte for byte, and while certificate and key are  *)
(* the same it keeps at least the password.  hash.go:66-70,                 *)
(* keystore.go:26-31.                                                       *)
KeystoreStable ==
    [][ (/\ live # NoSecret /\ live' # NoSecret
         /\ Intact(live) /\ Intact(live')
         /\ Junk \notin {live["p12"], live["pw"]}) =>
        /\ live'["sourceHash"] = live["sourceHash"] =>
               \A f \in KeystoreField : live'[f] = live[f]
        /\ (/\ live["pw"] # Absent
            /\ live'["crt"] = live["crt"]
            /\ live'["key"] = live["key"]) => live'["pw"] = live["pw"]
      ]_live

Usable(m) == m.crt # Junk /\ m.key # Junk
HasKeystore(m) == Usable(m) /\ m.key \in PKCS8Key

Mirrors ==
    source # Absent /\ Usable(source) =>
        /\ live # NoSecret
        /\ live["crt"] = source.crt
        /\ live["key"] = source.key
        /\ live["ca"] = CaBundle(source)

(* Once rotations, edits and faults stop, the Secret comes to hold what the *)
(* source holds and stays so, whichever stale copies the reconciles used.   *)
(* resync.go:47-51, issuer.go:399-428.                                      *)
EventuallyMirrored == <>[]Mirrors

(* ... and the drift marker comes to tell the truth: it goes when the source *)
(* is there and complete, and stays while there is none to mirror.           *)
(* issuer.go:455-521.                                                        *)
DriftTellsTruth ==
    <>[](live # NoSecret =>
            IF source = Absent \/ ~Usable(source) THEN live["drift"] # Absent
            ELSE HasKeystore(source) => live["drift"] = Absent)

\* A Secret as Template makes it of what the controller alone made, but for
\* syncTime and drift.
AsMade(s) ==
    /\ s # NoSecret
    /\ Intact(s) /\ s["secretHash"] \notin {Absent, Junk}
    /\ s["sourceHash"] \in Payload
    /\ LET m == s["sourceHash"]
       IN  /\ Usable(m)
           /\ s["crt"] = m.crt /\ s["key"] = m.key /\ s["ca"] = CaBundle(m)
           /\ IF HasKeystore(m)
              THEN /\ s["jks"] \in Keystore /\ s["p12"] = s["jks"]
                   /\ s["jks"] = Store(m, s["pw"], s["jks"].salt)
                   /\ s["pw"] \in Nonce
              ELSE \A f \in KeystoreField : s[f] = Absent

\* ... and as MirroredSecret sees one.
Seen(s) ==
    IF s = NoSecret THEN NoSecret
    ELSE IF ~AsMade(s) THEN Junk
    ELSE [of |-> s["sourceHash"],
          keystore |-> IF s["jks"] = Absent THEN Absent ELSE s["jks"].salt,
          pw |-> s["pw"]]

Mirrored ==
    INSTANCE MirroredSecret WITH
        Shippable <- {m \in Payload : Usable(m)},
        Keystored <- {m \in Payload : HasKeystore(m)},
        Id        <- Nonce,
        Gone      <- NoSecret,
        Edited    <- Junk,
        working   <- mat,
        edits     <- budget["edits"],
        secret    <- Seen(live)

(* With one worker and fresh reads the Secret is a MirroredSecret: whatever *)
(* the source, people and failing calls do in the middle of a reconcile,    *)
(* each write replaces one whole payload by another, the one the reconcile  *)
(* began with, and only people's own edits spoil a Secret that is whole.    *)
(* issuer.go:158-188, 399-428, keystore.go:26-31.                           *)
WritesWhole == Mirrored!Spec

----------------------------------------------------------------------------
(* What a comment in the code says, and the code does not do. *)

(* hash.go:18-21: "someone edited the Secret out-of-band, so the next        *)
(* reconcile rewrites it".                                                   *)
EditsAreRewritten == <>[](live # NoSecret => Intact(live))

=============================================================================
