------------------------------ MODULE CertSync ------------------------------
(***************************************************************************)
(* CertSyncer.Reconcile, the driver that awscert and tencentcert share, on *)
(* one Certificate and on the copies of its Secret in every namespace.     *)
(*                                                                         *)
(* Each syncer is a controller with a queue and one worker of its own; no  *)
(* Resyncer calls it.  What brings a Certificate back are watch events     *)
(* that pass matches, the 30 second requeue, the backoff after an error    *)
(* and, after a success, the resync interval.  A finalizer keeps a deleted *)
(* Certificate until a syncer has seen the deletion.  Reads of the         *)
(* Certificate are from the informer cache; finalizer updates carry its    *)
(* version, status patches do not.  The races on a single Secret are       *)
(* SecretMirror's subject: here a write is one step per namespace, and     *)
(* the read before it is not stale.                                        *)
(*                                                                         *)
(* Bounds: the entries of budget.  Nothing limits the syncers.             *)
(***************************************************************************)
EXTENDS Naturals

CONSTANTS
    Gone,          \* there is no such Certificate
    None,          \* no copy, no keystore, no payload
    Syncer,        \* the controllers: "awscert", "tencentcert"
    Payload,       \* what the cloud may hold ...
    Keyless,       \* ... and which of it no keystore can be built from
    Nonce,         \* the random choices of one keystore build, as numbers
    Namespace, Home,
    ClusterIssuer, \* whether the issuer is cluster-scoped
    Filter,        \* the namespace filters the issuer may have
    Refusing,      \* namespaces where no write is ever admitted
    Meddling,      \* what users, cert-manager and the cluster do
    MaxEdits, MaxOutages, MaxFaults

ASSUME CertSyncAssumption ==
    /\ Gone # None
    /\ None \notin Payload /\ None \notin Nonce
    /\ Syncer \subseteq {"awscert", "tencentcert"}
    /\ Keyless \subseteq Payload
    /\ Nonce \subseteq Nat
    /\ Home \in Namespace
    /\ ClusterIssuer \in BOOLEAN
    /\ \A f \in Filter : f.allow \subseteq Namespace /\ f.deny \subseteq Namespace
    /\ Refusing \subseteq Namespace
    /\ Meddling \subseteq {"lifetime", "annotation", "issuer", "filter", "namespace", "request"}
    /\ {MaxEdits, MaxOutages, MaxFaults} \subseteq Nat

\* DownloadFailed stands for every failure of Fetch past the issuer.
Failure == {"IssuerNotFound", "DownloadFailed", "SecretReadFailed", "KeystoreSkipped",
            "KeystoreBuildFailed", "SecretVerifyFailed", "NamespaceListFailed", "SecretWriteFailed"}

Condition == [synced : Failure \cup {"none", "Synced"}, ready : {"none", "Synced"}]

(***************************************************************************)
(* A Certificate: the syncers whose annotation it carries, the one whose   *)
(* issuer kind it refers to, and whether the issuer is in our group.       *)
(***************************************************************************)
Certificate == [ann : SUBSET Syncer, kind : Syncer, ours : BOOLEAN,
                finalizer : BOOLEAN, deleting : BOOLEAN, cond : Condition]

ASSUME CertSyncGoneAssumption == Gone \notin Certificate

\* The Secret in a namespace: what it was made of, and the keystore build
\* that it carries.
Copy == [payload : Payload \cup {None}, ks : Nonce \cup {None}]

ASSUME CertSyncNoneAssumption == None \notin Copy

NewCertificate(c) ==
    [ann |-> {c}, kind |-> c, ours |-> TRUE, finalizer |-> FALSE, deleting |-> FALSE,
     cond |-> [synced |-> "none", ready |-> "none"]]

VARIABLES
    live,      \* the Certificate on the API server
    cached,    \* ... and in the informer cache
    current,   \* who holds a copy with live's resourceVersion
    due,       \* syncer |-> an event that passes matches is on its way
    cloud,     \* what the cloud holds, or None
    copies,    \* namespace |-> the Secret there
    phase,     \* namespace |-> its life
    filter,    \* the issuer's filter
    requests,  \* cert-manager has CertificateRequests for the Certificate
    queued,    \* syncer |-> the key is in its queue
    timer,     \* syncer |-> the key comes back after a while
    stage,     \* syncer |-> where its worker is in Reconcile
    local,     \* syncer |-> its copy of the Certificate
    job,       \* syncer |-> what it fetched and has still to write
    why,       \* syncer |-> the reason it is about to report
    budget

apiserver == <<live, current, due>>
cluster == <<phase, filter>>
queue == <<queued, timer>>
locals == <<stage, local, job, why>>
vars == <<apiserver, cached, cloud, copies, cluster, requests, queue, locals, budget>>

Stage == {"idle", "release", "claim", "fetch", "build", "soft", "verify",
          "write", "post", "mark", "clear", "ready"}

Idle(c) == stage[c] = "idle"

NoJob == [mat |-> None, ks |-> None, todo |-> {}, failed |-> FALSE]

Init ==
    /\ live \in {NewCertificate(c) : c \in Syncer}
    /\ cached = Gone
    /\ current = {}
    /\ due = [c \in Syncer |-> c \in live.ann]
    /\ cloud \in Payload \cup {None}
    /\ copies = [n \in Namespace |-> None]
    /\ phase = [n \in Namespace |-> "active"]
    /\ filter \in Filter
    /\ requests = FALSE
    /\ queued = [c \in Syncer |-> FALSE]
    /\ timer = [c \in Syncer |-> FALSE]
    /\ stage = [c \in Syncer |-> "idle"]
    /\ local = [c \in Syncer |-> Gone]
    /\ job = [c \in Syncer |-> NoJob]
    /\ why = [c \in Syncer |-> "none"]
    /\ budget = [edits |-> MaxEdits, outages |-> MaxOutages, faults |-> MaxFaults]

----------------------------------------------------------------------------
(* Helpers. *)

Spend(kind) == budget[kind] > 0 /\ budget' = [budget EXCEPT ![kind] = @ - 1]
Fault == Spend("faults")
NoFault == UNCHANGED budget

\* The predicate of each syncer's watch.
Matches(c, o) == o # Gone /\ o.ours /\ c \in o.ann

\* A reconcile that returns holds no copy.
Holding(holders) == {h \in holders : h = "cache" \/ stage'[h] # "idle"}

\* The API server stores o, or removes the Certificate; the event of a
\* removal carries the last object.
Publish(o, holders) ==
    /\ live' = o
    /\ IF o = live THEN current' = Holding(current \cup holders) /\ UNCHANGED due
       ELSE /\ current' = Holding(holders)
            /\ due' = [c \in Syncer |-> due[c] \/ Matches(c, IF o = Gone THEN live ELSE o)]
NotPublished == UNCHANGED <<live, due>> /\ current' = Holding(current)

Goto(c, s) == stage' = [stage EXCEPT ![c] = s]
Keep(c, o) == local' = [local EXCEPT ![c] = o]
Because(c, reason) == why' = [why EXCEPT ![c] = reason]

\* Mutant: a success is for good.
ReturnForGood(c, again) ==
    /\ Goto(c, "idle") /\ Keep(c, Gone) /\ Because(c, "none")
    /\ job' = [job EXCEPT ![c] = NoJob]
    /\ timer' = [timer EXCEPT ![c] = @ \/ (again /\ stage[c] # "ready")]
    /\ UNCHANGED queued

\* Reconcile returns, with a RequeueAfter or an error or with neither.
Return(c, again) ==
    /\ Goto(c, "idle")
    /\ Keep(c, Gone)
    /\ Because(c, "none")
    /\ job' = [job EXCEPT ![c] = NoJob]
    /\ timer' = [timer EXCEPT ![c] = @ \/ again]
    /\ UNCHANGED queued

\* An Update by c, which carries the version of its copy: stored, refused, or
\* stored without an answer.
UpdateOK(c, o) == live # Gone /\ c \in current /\ NoFault /\ Publish(o, {c})
UpdateFails(c, o) ==
    \/ (live = Gone \/ c \notin current) /\ NoFault /\ NotPublished
    \/ Fault /\ NotPublished
    \/ live # Gone /\ c \in current /\ Fault /\ Publish(o, {})

\* A patch of the status to cond: it names the whole list of conditions, or
\* nothing when c's copy has it already, and carries no version.
Patched(c, cond) ==
    IF local[c].cond = cond THEN live ELSE [live EXCEPT !.cond = cond]
PatchOK(c, cond) == live # Gone /\ NoFault /\ Publish(Patched(c, cond), {c})
PatchFails(c, cond) ==
    \/ live = Gone /\ NoFault /\ NotPublished
    \/ Fault /\ NotPublished
    \/ live # Gone /\ Fault /\ Publish(Patched(c, cond), {})

Synced(c, value) == [local[c].cond EXCEPT !.synced = value]

\* MarkCertDrift or ClearCertDrift in the middle of a reconcile, its error
\* dropped.  The marker on the Secret comes first; when it cannot be written
\* the condition is not even set on the copy.
Report(c, value) ==
    LET cond == Synced(c, value)
    IN  \/ PatchOK(c, cond) /\ Keep(c, live')
        \/ PatchFails(c, cond) /\ Keep(c, [local[c] EXCEPT !.cond = cond])
        \/ Fault /\ NotPublished /\ UNCHANGED local

----------------------------------------------------------------------------
(* One reconcile. *)

\* The worker takes the key and reads the Certificate.
Begin(c) ==
    /\ Idle(c)
    /\ \/ queued[c] /\ queued' = [queued EXCEPT ![c] = FALSE] /\ UNCHANGED timer
       \/ timer[c] /\ timer' = [timer EXCEPT ![c] = FALSE] /\ UNCHANGED queued
    /\ IF \/ cached = Gone
          \/ c \notin cached.ann
          \/ cached.deleting /\ ~cached.finalizer
       THEN UNCHANGED <<stage, local, current>>
       ELSE /\ Goto(c, IF cached.deleting THEN "release"
                       ELSE IF cached.finalizer THEN "fetch" ELSE "claim")
            /\ Keep(c, cached)
            /\ current' = IF "cache" \in current THEN current \cup {c} ELSE current
    /\ UNCHANGED <<live, cached, due, cloud, copies, cluster, requests, job, why, budget>>

\* Mutant: the finalizer is taken off the copy only.
ReleaseLocally(c) ==
    /\ stage[c] = "release"
    /\ Return(c, FALSE)
    /\ NoFault /\ NotPublished
    /\ UNCHANGED <<cached, cloud, copies, cluster, requests>>

\* RemoveFinalizer.  Ours is the only one, so the Certificate goes.
Release(c) ==
    /\ stage[c] = "release"
    /\ \/ Return(c, FALSE) /\ UpdateOK(c, Gone)
       \/ Return(c, TRUE) /\ UpdateFails(c, Gone)
    /\ UNCHANGED <<cached, cloud, copies, cluster, requests>>

\* Mutant: the answer to the Update is not looked at.
ClaimAnyway(c) ==
    /\ stage[c] = "claim"
    /\ Goto(c, "fetch")
    /\ LET claimed == [local[c] EXCEPT !.finalizer = TRUE]
       IN  (UpdateOK(c, claimed) \/ UpdateFails(c, claimed)) /\ Keep(c, claimed)
    /\ UNCHANGED <<cached, cloud, copies, cluster, requests, queue, job, why>>

\* AddFinalizer.
Claim(c) ==
    /\ stage[c] = "claim"
    /\ LET claimed == [local[c] EXCEPT !.finalizer = TRUE]
       IN  \/ /\ Goto(c, "fetch")
              /\ Keep(c, claimed)
              /\ UpdateOK(c, claimed)
              /\ UNCHANGED <<queue, job, why>>
           \/ Return(c, TRUE) /\ UpdateFails(c, claimed)
    /\ UNCHANGED <<cached, cloud, copies, cluster, requests>>

\* Source.Fetch: the issuer must be in our group and of this syncer's kind,
\* and be there to be read; the cloud must have the certificate.
Fetch(c) ==
    /\ stage[c] = "fetch"
    /\ LET resolved == local[c].ours /\ local[c].kind = c
       IN  \/ /\ resolved /\ cloud # None
              /\ NoFault
              /\ Goto(c, "build")
              /\ job' = [job EXCEPT ![c].mat = cloud]
              /\ UNCHANGED why
           \/ /\ ~resolved
              /\ NoFault
              /\ Goto(c, "mark") /\ Because(c, "IssuerNotFound")
              /\ UNCHANGED job
           \/ /\ resolved
              /\ Goto(c, "mark")
              /\ \/ cloud = None /\ NoFault /\ Because(c, "DownloadFailed")
                 \/ Fault /\ \E r \in {"IssuerNotFound", "DownloadFailed"} : Because(c, r)
              /\ UNCHANGED job
    /\ UNCHANGED <<apiserver, cached, cloud, copies, cluster, requests, queue, local>>

\* Allow wins over deny; neither means everywhere.
TargetNamespaces ==
    IF ~ClusterIssuer THEN {Home}
    ELSE {n \in Namespace :
            /\ phase[n] = "active"
            /\ IF filter.allow # {} THEN n \in filter.allow ELSE n \notin filter.deny}

\* rand.Read never answers twice alike: the least number not in use stands
\* for a new random choice.
FreshNonce(n) ==
    LET used == {copies[ns].ks : ns \in {m \in Namespace : copies[m] # None}}
                    \cup {job[c].ks : c \in Syncer}
    IN  n \notin used /\ \A k \in Nonce : k < n => k \in used

\* Mutant: a keystore is built on every reconcile.
FreshKeystore(mat, n) == IF mat \in Keyless THEN None ELSE n

\* The keystore of the Secret in the Certificate's own namespace is kept when
\* it was built from the same payload.
BuildKeystore(mat, n) ==
    IF mat \in Keyless THEN None
    ELSE IF copies[Home] # None /\ copies[Home].payload = mat THEN copies[Home].ks
    ELSE n

\* Mutant: a missing keystore counts as a success.
Unremarked(c) == "Synced"

\* awscert has the key decoded or no key at all, tencentcert always a key,
\* but perhaps not in PKCS#8.
Skipped(c) == IF c = "awscert" THEN "KeystoreSkipped" ELSE "KeystoreBuildFailed"

\* The read of the Secret that is there, and the keystore.
Build(c) ==
    /\ stage[c] = "build"
    /\ \/ /\ NoFault
          /\ \E n \in {k \in Nonce : FreshNonce(k)} :
                job' = [job EXCEPT ![c].ks = BuildKeystore(job[c].mat, n)]
          /\ IF job[c].mat \in Keyless
             THEN Goto(c, "soft") /\ Because(c, Skipped(c))
             ELSE Goto(c, "verify") /\ UNCHANGED why
       \/ /\ Fault
          /\ Goto(c, "mark") /\ Because(c, "SecretReadFailed")
          /\ UNCHANGED job
    /\ UNCHANGED <<apiserver, cached, cloud, copies, cluster, requests, queue, local>>

\* MarkCertDrift for a Secret without keystore: whatever comes of it, the
\* reconcile goes on.
Soft(c) ==
    /\ stage[c] = "soft"
    /\ Goto(c, "verify")
    /\ Because(c, "none")
    /\ Report(c, why[c])
    /\ UNCHANGED <<cached, cloud, copies, cluster, requests, queue, job>>

\* VerifySecretData, and the namespaces to write to, which only a cluster
\* issuer has to list.
Verify(c) ==
    /\ stage[c] = "verify"
    /\ \/ /\ NoFault
          /\ job' = [job EXCEPT ![c].todo = TargetNamespaces]
          /\ Goto(c, "write")
          /\ UNCHANGED why
       \/ /\ Fault
          /\ Goto(c, "mark")
          /\ \/ Because(c, "SecretVerifyFailed")
             \/ ClusterIssuer /\ Because(c, "NamespaceListFailed")
          /\ UNCHANGED job
    /\ UNCHANGED <<apiserver, cached, cloud, copies, cluster, requests, queue, local>>

\* A namespace on its way out admits no new Secret, but changes of an old one.
Admits(n) ==
    /\ n \notin Refusing
    /\ phase[n] = "active" \/ (phase[n] = "leaving" /\ copies[n] # None)

\* Mutant: the first failure ends the loop.
Rest(c, n, ok) == IF ok THEN job[c].todo \ {n} ELSE {}

\* What is left after namespace n, written or not.
Remaining(c, n, ok) == job[c].todo \ {n}

\* Mutant: only the last write counts.
LastFailed(c, ok) == ~ok

\* A failure is remembered while the loop goes on.
Failed(c, ok) == job[c].failed \/ ~ok

WriteSecret(c, n) ==
    LET copy == [payload |-> job[c].mat, ks |-> job[c].ks]
        Done(ok) == job' = [job EXCEPT ![c].todo = Remaining(c, n, ok),
                                       ![c].failed = Failed(c, ok)]
    IN  \/ Admits(n) /\ NoFault /\ copies' = [copies EXCEPT ![n] = copy] /\ Done(TRUE)
        \/ Admits(n) /\ Fault /\ copies' = [copies EXCEPT ![n] = copy] /\ Done(FALSE)
        \/ ((~Admits(n) /\ NoFault) \/ Fault) /\ UNCHANGED copies /\ Done(FALSE)

\* The loop over the targets, in any order, and what follows it.
Write(c) ==
    /\ stage[c] = "write"
    /\ \/ /\ \E n \in job[c].todo : WriteSecret(c, n)
          /\ UNCHANGED <<stage, why>>
       \/ /\ job[c].todo = {} /\ NoFault
          /\ IF job[c].failed THEN Goto(c, "mark") /\ Because(c, "SecretWriteFailed")
             ELSE Goto(c, "post") /\ UNCHANGED why
          /\ UNCHANGED <<copies, job>>
    /\ UNCHANGED <<apiserver, cached, cloud, cluster, requests, queue, local>>

\* Mutant: the requests stay.
DeletesRequests(c) == FALSE

\* tencentcert deletes cert-manager's requests; awscert has nothing to do.
Cleans(c) == c = "tencentcert"

\* PostWrite.  Its failure, which may come after the requests are gone, is not
\* recorded anywhere but in the log.
PostWrite(c) ==
    /\ stage[c] = "post"
    /\ \/ /\ NoFault
          /\ requests' = (requests /\ ~Cleans(c))
          /\ Goto(c, "clear")
          /\ UNCHANGED <<current, queue, local, job, why>>
       \/ /\ Cleans(c) /\ Fault
          /\ Return(c, TRUE)
          /\ current' = Holding(current)
          /\ requests' \in {requests, FALSE}
    /\ UNCHANGED <<live, due, cached, cloud, copies, cluster>>

\* MarkCertDrift and the end of a failed reconcile.
Mark(c) ==
    /\ stage[c] = "mark"
    /\ Return(c, TRUE)
    /\ LET cond == Synced(c, why[c]) IN PatchOK(c, cond) \/ PatchFails(c, cond)
    /\ UNCHANGED <<cached, cloud, copies, cluster, requests>>

\* ClearCertDrift, whose error is dropped.
ClearCertDrift(c) ==
    /\ stage[c] = "clear"
    /\ Goto(c, "ready")
    /\ Report(c, "Synced")
    /\ UNCHANGED <<cached, cloud, copies, cluster, requests, queue, job, why>>

\* setReady, then the resync interval, or an error.
SetReady(c) ==
    /\ stage[c] = "ready"
    /\ Return(c, TRUE)
    /\ LET cond == [local[c].cond EXCEPT !.ready = "Synced"]
       IN  PatchOK(c, cond) \/ PatchFails(c, cond)
    /\ UNCHANGED <<cached, cloud, copies, cluster, requests>>

Reconcile(c) ==
    \/ Release(c) \/ Claim(c) \/ Fetch(c) \/ Build(c) \/ Soft(c) \/ Verify(c)
    \/ Write(c) \/ PostWrite(c) \/ Mark(c) \/ ClearCertDrift(c) \/ SetReady(c)

----------------------------------------------------------------------------
(* The rest of the world. *)

\* The cache catches up, and the events reach the queues.
Deliver ==
    /\ "cache" \notin current
    /\ cached' = live
    /\ current' = current \cup {"cache"}
    /\ queued' = [c \in Syncer |-> queued[c] \/ due[c]]
    /\ due' = [c \in Syncer |-> FALSE]
    /\ UNCHANGED <<live, cloud, copies, cluster, requests, timer, locals, budget>>

Meddle(kind) == kind \in Meddling /\ Spend("edits")

\* Somebody else writes the Certificate.
Edit(kind, o) ==
    /\ Meddle(kind)
    /\ o # live
    /\ UNCHANGED <<cached, cloud, copies, cluster, requests, queue, locals>>
    /\ Publish(o, {})

\* With a finalizer a deletion only marks the Certificate.
Delete ==
    /\ live # Gone
    /\ Edit("lifetime", IF live.finalizer THEN [live EXCEPT !.deleting = TRUE] ELSE Gone)

Create == live = Gone /\ \E c \in Syncer : Edit("lifetime", NewCertificate(c))

Annotate == live # Gone /\ \E a \in SUBSET Syncer : Edit("annotation", [live EXCEPT !.ann = a])

ChangeIssuer ==
    /\ live # Gone
    /\ \/ \E k \in Syncer : Edit("issuer", [live EXCEPT !.kind = k])
       \/ Edit("issuer", [live EXCEPT !.ours = ~@])

ChangeFilter ==
    /\ Meddle("filter")
    /\ filter' \in Filter \ {filter}
    /\ UNCHANGED <<apiserver, cached, cloud, copies, phase, requests, queue, locals>>

\* A namespace is deleted, in two steps, or created.  Nobody deletes Home.
ChangeNamespace ==
    /\ Meddle("namespace")
    /\ \E n \in Namespace \ {Home} :
          /\ phase' = [phase EXCEPT ![n] = CASE @ = "active" -> "leaving"
                                             [] @ = "leaving" -> "absent"
                                             [] @ = "absent" -> "active"]
          /\ copies' = IF phase[n] = "leaving" THEN [copies EXCEPT ![n] = None] ELSE copies
    /\ UNCHANGED <<apiserver, cached, cloud, filter, requests, queue, locals>>

Request ==
    /\ Meddle("request")
    /\ ~requests /\ requests' = TRUE
    /\ UNCHANGED <<apiserver, cached, cloud, copies, cluster, queue, locals>>

ChangeSource ==
    /\ Spend("outages")
    /\ cloud' \in (Payload \cup {None}) \ {cloud}
    /\ UNCHANGED <<apiserver, cached, copies, cluster, requests, queue, locals>>

\* The process dies.  The next one lists the Certificates.
Crash ==
    /\ Fault
    /\ cached' = live
    /\ current' = {"cache"}
    /\ due' = [c \in Syncer |-> FALSE]
    /\ queued' = [c \in Syncer |-> Matches(c, live)]
    /\ timer' = [c \in Syncer |-> FALSE]
    /\ stage' = [c \in Syncer |-> "idle"]
    /\ local' = [c \in Syncer |-> Gone]
    /\ job' = [c \in Syncer |-> NoJob]
    /\ why' = [c \in Syncer |-> "none"]
    /\ UNCHANGED <<live, cloud, copies, cluster, requests>>

Environment ==
    \/ Deliver \/ Delete \/ Create \/ Annotate \/ ChangeIssuer \/ ChangeFilter
    \/ ChangeNamespace \/ Request \/ ChangeSource \/ Crash

Next == (\E c \in Syncer : Begin(c) \/ Reconcile(c)) \/ Environment

\* Queues and timers go on, a reconcile that has begun ends, and the watch
\* delivers.
Fairness ==
    /\ WF_vars(Deliver)
    /\ \A c \in Syncer : WF_vars(Begin(c)) /\ WF_vars(Reconcile(c))

Spec == Init /\ [][Next]_vars
FairSpec == Spec /\ Fairness

----------------------------------------------------------------------------
(* Properties. *)

Job == [mat : Payload \cup {None}, ks : Nonce \cup {None},
        todo : SUBSET Namespace, failed : BOOLEAN]

\* The types of the variables.
TypeOK ==
    /\ live \in Certificate \cup {Gone}
    /\ cached \in Certificate \cup {Gone}
    /\ current \subseteq Syncer \cup {"cache"}
    /\ due \in [Syncer -> BOOLEAN]
    /\ cloud \in Payload \cup {None}
    /\ copies \in [Namespace -> Copy \cup {None}]
    /\ phase \in [Namespace -> {"active", "leaving", "absent"}]
    /\ filter \in Filter
    /\ requests \in BOOLEAN
    /\ queued \in [Syncer -> BOOLEAN]
    /\ timer \in [Syncer -> BOOLEAN]
    /\ stage \in [Syncer -> Stage]
    /\ local \in [Syncer -> Certificate \cup {Gone}]
    /\ job \in [Syncer -> Job]
    /\ why \in [Syncer -> Failure \cup {"none"}]
    /\ budget \in [{"edits", "outages", "faults"} -> Nat]

\* A Certificate that carries a syncer's annotation and an issuer of our group
\* is never lost to it: the syncer works on it, or its key is in the queue or
\* on a timer, or an event is on its way.  The syncers have no Resyncer, so
\* nothing would ever find a Certificate that fell out (certsync.go:207-219).
AlwaysComesBack ==
    \A c \in Syncer :
        Matches(c, live) => queued[c] \/ timer[c] \/ due[c] \/ ~Idle(c)

Rewritten == \E c \in Syncer : Write(c) /\ copies' # copies

\* No copy is written for a Certificate that is gone, or that could go without
\* the syncer being told: the finalizer is on the server before the first
\* write, and stays until the last (certsync.go:89-103).
FinalizerGuardsWrites ==
    [][Rewritten => live # Gone /\ live.finalizer]_vars

\* A payload, and the copy in the Certificate's own namespace, as
\* MirroredSecret sees them.  ks stands for the keystores with their password.
Whole(p) == IF p = None THEN None ELSE [crt |-> p, key |-> p]

SeenAtHome ==
    LET s == copies[Home]
    IN  IF s = None THEN Gone ELSE [of |-> Whole(s.payload), keystore |-> s.ks, pw |-> s.ks]

HomeMirror ==
    INSTANCE MirroredSecret WITH
        Worker    <- Syncer,
        Payload   <- {Whole(p) : p \in Payload},
        Shippable <- {Whole(p) : p \in Payload},
        Keystored <- {Whole(p) : p \in Payload \ Keyless},
        MaxEdits  <- 0,
        Id        <- Nonce,
        Absent    <- None,
        Edited    <- None,
        source    <- Whole(cloud),
        edits     <- 0,
        working   <- [c \in Syncer |-> Whole(job[c].mat)],
        secret    <- SeenAtHome

\* In the Certificate's own namespace the Secret is a MirroredSecret, as that
\* of SecretMirror is: whatever fails, however often a reconcile is repeated,
\* each write replaces one whole payload by another, the one that was fetched,
\* and the keystore changes with the payload and only then, although its build
\* and the write are far apart (certsync.go:140-155, 180-199).
HomeMirrored == HomeMirror!Spec

\* The copies in other namespaces get no keystore but that of the
\* Certificate's own: a copy that agrees with it is not changed while the
\* cloud's payload stays (certsync.go:140-155, 184-199).
KeystoresKept ==
    [][\A c \in Syncer, n \in Namespace :
          /\ Write(c)
          /\ copies[Home] # None /\ copies[n] = copies[Home]
          /\ job[c].mat = copies[n].payload
          => copies'[n] = copies[n]]_vars

\* Nobody has changed which namespaces are the targets.
Steady == Meddling \cap {"filter", "namespace"} = {} \/ budget["edits"] = MaxEdits

\* While nobody changes which namespaces are the targets, a success is reported
\* only by a reconcile that wrote what it fetched, with the keystore it built,
\* to every target: no failure is forgotten in the rest of the loop, and no
\* other syncer writes in between (certsync.go:180-206, 215-216).
ReadyIsEarned ==
    \A c \in Syncer :
        Steady /\ stage[c] \in {"post", "clear", "ready"} =>
            \A n \in TargetNamespaces :
                copies[n] = [payload |-> job[c].mat, ks |-> job[c].ks]

\* The deletion of a Certificate that a syncer has its finalizer on comes to an
\* end, as long as its annotation and its issuer are not changed
\* (certsync.go:86-96).
DeletionEnds ==
    \A c \in Syncer :
        (Matches(c, live) /\ live.deleting) ~> ~(Matches(c, live) /\ live.deleting)

\* The finalizer is the delete hook of every Certificate that was ever managed
\* (certsync.go:28-29).
EveryDeletionEnds == (live # Gone /\ live.deleting) ~> (live = Gone)

\* c can fetch the payload for the Certificate.
Fetchable(c) == Matches(c, live) /\ ~live.deleting /\ live.kind = c /\ cloud # None

Holds(n) == copies[n] # None /\ copies[n].payload = cloud

\* In the end every target that admits writes holds what the cloud holds,
\* whichever others refuse it (certsync.go:180-204).
FanOutComplete ==
    <>[](\A c \in Syncer : Fetchable(c) =>
            \A n \in TargetNamespaces \ Refusing : Holds(n))

\* In the end the keystores are the same everywhere and change no more, if
\* the Certificate's own namespace is among the targets (certsync.go:140-155).
KeystoresAgree ==
    <>[](\A c \in Syncer : Fetchable(c) /\ Home \in TargetNamespaces \ Refusing =>
            \A n \in TargetNamespaces \ Refusing :
                Holds(n) /\ copies[n].ks = copies[Home].ks)

\* In the end the condition says Synced, whenever the syncer is at rest, if and
\* only if the cloud was read and every target holds the payload
\* (certsync.go:107, 206, 215).
ConditionTellsOutcome ==
    <>[](\A c \in Syncer : Matches(c, live) /\ ~live.deleting /\ Idle(c) =>
            (live.cond.synced = "Synced"
                <=> Fetchable(c) /\ TargetNamespaces \cap Refusing = {}))

\* cert-manager's requests for a Certificate that tencentcert mirrors are
\* cleared away in the end, those that come later included
\* (tencentcert/issuer.go:69-85).
RequestsCleared ==
    <>[](\A c \in Syncer \cap {"tencentcert"} :
            Fetchable(c) /\ TargetNamespaces \cap Refusing = {} => ~requests)
=============================================================================
