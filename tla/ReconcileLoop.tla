--------------------------- MODULE ReconcileLoop ---------------------------
(***************************************************************************)
(* What makes IssuerReconciler.Reconcile run for one Certificate, and what *)
(* it does to that Certificate.                                            *)
(*                                                                         *)
(* Two goroutines reconcile: the worker of the controller's queue, woken   *)
(* by watch events that pass ourIssuerFilter and by its own 30 second      *)
(* requeues, and the Resyncer, which calls Reconcile directly and throws   *)
(* the Result away.  Both read the Certificate from the informer cache and *)
(* patch its status without a resourceVersion; the force-sync annotation   *)
(* alone is cleared by an Update, which carries one.  What Reconcile does  *)
(* to the Secret is SecretMirror's subject and is one step here.           *)
(*                                                                         *)
(* Bounds: the four entries of budget limit what users, cert-manager, the  *)
(* cloud, failing calls and restarts may do.  Nothing limits the loop.     *)
(***************************************************************************)
EXTENDS Naturals

CONSTANTS
    Gone,        \* there is no such Certificate
    Cloud,       \* what the cloud may hold: "good", "keyless" or "missing"
    Resyncs,     \* FALSE when ResyncInterval <= 0
    Revision,    \* the numbers cert-manager gives its CertificateRequests
    Meddling,    \* what users and cert-manager do to the Certificate
    MaxEdits, MaxOutages, MaxFaults, MaxCrashes

ASSUME ReconcileLoopAssumption ==
    /\ Cloud \subseteq {"good", "keyless", "missing"} /\ Cloud # {}
    /\ Resyncs \in BOOLEAN
    /\ Revision \subseteq Nat \ {0}
    /\ Meddling \subseteq {"force", "spec", "issuer", "conditions", "lifetime", "request"}
    /\ {MaxEdits, MaxOutages, MaxFaults, MaxCrashes} \subseteq Nat

Worker == {"queue", "resync"}

(***************************************************************************)
(* A Certificate.  Its spec is "named" when the group is ours and the      *)
(* secret-name annotation is there, "unnamed" without the annotation, and  *)
(* "foreign" in another group, whose kind no resolver is registered for.   *)
(* Of its conditions, ExternalIssuerSynced and Ready are ours to write and *)
(* Issuing is cert-manager's.                                              *)
(***************************************************************************)
Failure == {"MissingSecretRef", "InvalidSpec", "SourceMissing", "KeystoreSkipped",
            "SecretWriteFailed"}

Condition == [synced : Failure \cup {"none", "Synced"},
              ready : {"none", "False", "Synced"},
              issuing : BOOLEAN]

Certificate == [spec : {"named", "unnamed", "foreign"}, force : BOOLEAN, cond : Condition]

ASSUME GoneAssumption == Gone \notin Certificate

NewCertificate ==
    [spec |-> "named", force |-> FALSE,
     cond |-> [synced |-> "none", ready |-> "none", issuing |-> FALSE]]

VARIABLES
    live,      \* the Certificate on the API server
    cached,    \* ... and in the informer cache
    current,   \* who holds a copy with live's resourceVersion
    due,       \* an event that passes the filter is on its way with the next version
    cloud,     \* what the cloud holds
    requests,  \* revision |-> whether its CertificateRequest waits for a signature
    queued,    \* the key is in the work queue
    timer,     \* the key comes back to the queue in at most 30 seconds
    stage,     \* worker |-> where in Reconcile it is
    local,     \* worker |-> its copy of the Certificate
    why,       \* worker |-> the reason it is about to report
    unheard,   \* worker |-> force-sync was asked for since it fetched
    budget

apiserver == <<live, current, due>>
queue == <<queued, timer>>
locals == <<stage, local, why, unheard>>
vars == <<apiserver, cached, cloud, requests, queue, locals, budget>>

Stage == {"idle", "called", "mark", "soft", "write", "force", "clear", "ready"}

Idle(w) == stage[w] = "idle"

Init ==
    /\ live = NewCertificate
    /\ cached = Gone
    /\ current = {}
    /\ due = TRUE
    /\ cloud \in Cloud
    /\ requests = [r \in Revision |-> "none"]
    /\ queued = FALSE
    /\ timer = FALSE
    /\ stage = [w \in Worker |-> "idle"]
    /\ local = [w \in Worker |-> Gone]
    /\ why = [w \in Worker |-> "none"]
    /\ unheard = [w \in Worker |-> FALSE]
    /\ budget = [edits |-> MaxEdits, outages |-> MaxOutages,
                 faults |-> MaxFaults, crashes |-> MaxCrashes]

----------------------------------------------------------------------------
(* Helpers. *)

Spend(kind) == budget[kind] > 0 /\ budget' = [budget EXCEPT ![kind] = @ - 1]
Fault == Spend("faults")
NoFault == UNCHANGED budget

\* The predicate of the watch, on an update's new object; and the Resyncer's.
OurIssuerFilter(c) == c # Gone /\ c.spec # "foreign"

\* Who of these still has a copy after the step: a reconcile that returns
\* has none.
Holding(holders) == {h \in holders : h = "cache" \/ stage'[h] # "idle"}

\* The API server stores c.  Storing what is there changes nothing, not even
\* the resourceVersion.  holders are those who get the new object back.
Publish(c, holders) ==
    /\ live' = c
    /\ IF c = live THEN current' = Holding(current \cup holders) /\ UNCHANGED due
       ELSE current' = Holding(holders) /\ due' = (due \/ OurIssuerFilter(c))
NotPublished == UNCHANGED <<live, due>> /\ current' = Holding(current)

Goto(w, s) == stage' = [stage EXCEPT ![w] = s]
Keep(w, c) == local' = [local EXCEPT ![w] = c]

\* Mutants: no error is tried again, and every end is.
ReturnForGood(w, retry) ==
    /\ Goto(w, "idle") /\ Keep(w, Gone) /\ why' = [why EXCEPT ![w] = "none"]
    /\ unheard' = [unheard EXCEPT ![w] = FALSE]
    /\ UNCHANGED timer
ReturnForNow(w, retry) ==
    /\ Goto(w, "idle") /\ Keep(w, Gone) /\ why' = [why EXCEPT ![w] = "none"]
    /\ unheard' = [unheard EXCEPT ![w] = FALSE]
    /\ timer' = (timer \/ w = "queue")

\* Reconcile returns.  Only the queue minds RequeueAfter.
Return(w, retry) ==
    /\ Goto(w, "idle")
    /\ Keep(w, Gone)
    /\ why' = [why EXCEPT ![w] = "none"]
    /\ unheard' = [unheard EXCEPT ![w] = FALSE]
    /\ timer' = (timer \/ (retry /\ w = "queue"))

\* A status patch by w that turns its conditions into cond.  The patch names
\* the whole list, or nothing when w's own copy has it already.
Patched(w, cond) ==
    IF local[w].cond = cond THEN live ELSE [live EXCEPT !.cond = cond]

\* Mutant: the status without its reason.
SyncedStatus(w, value) == [local[w].cond EXCEPT !.synced = "False"]

Synced(w, value) == [local[w].cond EXCEPT !.synced = value]

\* The three outcomes of such a patch: done, refused (there is no such
\* Certificate, or the call failed), and done with the answer lost.
PatchOK(w, cond) ==
    /\ live # Gone
    /\ NoFault
    /\ Publish(Patched(w, cond), {w})
PatchRefused ==
    /\ (live = Gone /\ NoFault) \/ Fault
    /\ NotPublished
PatchUnanswered(w, cond) ==
    /\ live # Gone
    /\ Fault
    /\ Publish(Patched(w, cond), {})

----------------------------------------------------------------------------
(* Who calls Reconcile. *)

\* The queue hands out its key, once at a time.
Take ==
    /\ queued
    /\ Idle("queue")
    /\ queued' = FALSE
    /\ Goto("queue", "called")
    /\ UNCHANGED <<apiserver, cached, cloud, requests, timer, local, why, unheard, budget>>

Ripen ==
    /\ timer
    /\ timer' = FALSE
    /\ queued' = TRUE
    /\ UNCHANGED <<apiserver, cached, cloud, requests, locals, budget>>

\* One tick of the Resyncer; the next waits for the errgroup.
Drift ==
    /\ Resyncs
    /\ Idle("resync")
    /\ OurIssuerFilter(cached)
    /\ Goto("resync", "called")
    /\ UNCHANGED <<apiserver, cached, cloud, requests, queue, local, why, unheard, budget>>

\* The watch delivers the latest version, and the events of those it passed.
Deliver ==
    /\ "cache" \notin current
    /\ cached' = live
    /\ current' = current \cup {"cache"}
    /\ queued' = (queued \/ due)
    /\ due' = FALSE
    /\ UNCHANGED <<live, cloud, requests, timer, locals, budget>>

----------------------------------------------------------------------------
(* Reconcile. *)

\* Mutant: a source that is missing is a soft failure too.
SoftOutcome(c) ==
    CASE c.spec = "unnamed" -> "MissingSecretRef"
      [] c.spec = "foreign" -> "InvalidSpec"
      [] OTHER -> IF cloud = "missing" THEN "keyless" ELSE cloud

\* What the checks before the Secret is built make of the Certificate.
Outcome(c) ==
    CASE c.spec = "unnamed" -> "MissingSecretRef"
      [] c.spec = "foreign" -> "InvalidSpec"
      [] OTHER -> IF cloud = "missing" THEN "SourceMissing" ELSE cloud

\* The Get of the Certificate, and all that is read until the Secret is built.
Get(w) ==
    /\ stage[w] = "called"
    /\ \/ /\ cached = Gone
          /\ NoFault
          /\ Return(w, FALSE)
          /\ current' = Holding(current)
       \/ /\ Fault
          /\ Return(w, TRUE)
          /\ current' = Holding(current)
       \/ /\ cached # Gone
          /\ Keep(w, cached)
          /\ current' = IF "cache" \in current THEN current \cup {w} ELSE current \ {w}
          /\ unheard' = [unheard EXCEPT ![w] = FALSE]
          /\ UNCHANGED timer
          /\ \/ /\ Outcome(cached) = "good"
                /\ NoFault
                /\ Goto(w, "write")
                /\ UNCHANGED why
             \/ /\ Outcome(cached) = "keyless"
                /\ NoFault
                /\ Goto(w, "soft")
                /\ why' = [why EXCEPT ![w] = "KeystoreSkipped"]
             \/ /\ Outcome(cached) \in Failure
                /\ NoFault
                /\ Goto(w, "mark")
                /\ why' = [why EXCEPT ![w] = Outcome(cached)]
             \/ /\ cached.spec = "named"
                /\ Fault
                /\ Goto(w, "mark")
                /\ why' = [why EXCEPT ![w] = "SourceMissing"]
    /\ UNCHANGED <<live, cached, due, cloud, requests, queued>>

\* MarkCertDrift and the end of the reconcile, whatever it returned.  When
\* the Secret cannot be marked the Certificate is not either.
Mark(w) ==
    /\ stage[w] = "mark"
    /\ Return(w, TRUE)
    /\ \/ PatchOK(w, Synced(w, why[w]))
       \/ PatchRefused
       \/ PatchUnanswered(w, Synced(w, why[w]))
    /\ UNCHANGED <<cached, cloud, requests, queued>>

\* MarkCertDrift for a Secret that goes without its keystore.  The copy takes
\* the server's answer, or keeps the condition that was not stored unless
\* the Secret could not be marked before.
Soft(w) ==
    /\ stage[w] = "soft"
    /\ Goto(w, "write")
    /\ LET cond == Synced(w, why[w])
           kept == [local[w] EXCEPT !.cond = cond]
       IN  \/ PatchOK(w, cond) /\ Keep(w, live')
           \/ PatchRefused /\ Keep(w, kept)
           \/ PatchUnanswered(w, cond) /\ Keep(w, kept)
           \/ Fault /\ UNCHANGED <<apiserver, local>>
    /\ why' = [why EXCEPT ![w] = "none"]
    /\ UNCHANGED <<cached, cloud, requests, queue, unheard>>

\* Mutant: a reconcile without the signature.
SignNothing == requests

\* signCertificateRequest looks for the first revision and for no other.
SignCertificateRequest ==
    [r \in Revision |->
        IF r = 1 /\ requests[r] = "pending" THEN "signed" ELSE requests[r]]

\* The Secret is verified, fanned out and written, and the request signed.
Write(w) ==
    /\ stage[w] = "write"
    /\ \/ /\ NoFault
          /\ requests' = SignCertificateRequest
          /\ Goto(w, IF local[w].force THEN "force" ELSE "clear")
          /\ UNCHANGED why
       \/ /\ Fault
          /\ requests' \in {requests, SignCertificateRequest}
          /\ Goto(w, "mark")
          /\ why' = [why EXCEPT ![w] = "SecretWriteFailed"]
    /\ UNCHANGED <<apiserver, cached, cloud, queue, local, unheard>>

\* Mutant: the annotation goes with a patch that carries no version.
ClearForceByPatch(w) ==
    /\ stage[w] = "force"
    /\ Goto(w, "clear")
    /\ live # Gone
    /\ NoFault
    /\ Publish([live EXCEPT !.force = FALSE], {w})
    /\ Keep(w, live')
    /\ UNCHANGED <<cached, cloud, requests, queue, why, unheard>>

\* Mutant: it is cleared in the copy and never stored.
ClearForceLocally(w) ==
    /\ stage[w] = "force"
    /\ NoFault
    /\ Keep(w, [local[w] EXCEPT !.force = FALSE])
    /\ Goto(w, "clear")
    /\ UNCHANGED <<apiserver, cached, cloud, requests, queue, why, unheard>>

\* The Update that takes force-sync away.  The server accepts it only with
\* the version it holds, and keeps its own status whatever the copy's is;
\* the copy takes the server's answer, if there is one.
ClearForceSync(w) ==
    /\ stage[w] = "force"
    /\ Goto(w, "clear")
    /\ LET cleared == [local[w] EXCEPT !.force = FALSE]
           stored  == [cleared EXCEPT !.cond = live.cond]
       IN  \/ /\ live # Gone /\ w \in current
              /\ \/ NoFault /\ Publish(stored, {w}) /\ Keep(w, stored)
                 \/ Fault /\ Publish(stored, {}) /\ Keep(w, cleared)
          \/ /\ (w \notin current /\ NoFault) \/ Fault
             /\ UNCHANGED apiserver
             /\ Keep(w, cleared)
    /\ UNCHANGED <<cached, cloud, requests, queue, why, unheard>>

\* ClearCertDrift, whose error is dropped.  Its copy then has the condition
\* all the same, unless it was the Secret that could not be patched.
ClearCertDrift(w) ==
    /\ stage[w] = "clear"
    /\ Goto(w, "ready")
    /\ LET cond == Synced(w, "Synced")
           kept == [local[w] EXCEPT !.cond = cond]
       IN  \/ PatchOK(w, cond) /\ Keep(w, live')
           \/ PatchRefused /\ Keep(w, kept)
           \/ PatchUnanswered(w, cond) /\ Keep(w, kept)
           \/ Fault /\ UNCHANGED <<apiserver, local>>
    /\ UNCHANGED <<cached, cloud, requests, queue, why, unheard>>

SetReady(w) ==
    /\ stage[w] = "ready"
    /\ LET cond == [local[w].cond EXCEPT !.ready = "Synced"]
       IN  \/ Return(w, FALSE) /\ PatchOK(w, cond)
           \/ Return(w, TRUE) /\ (PatchRefused \/ PatchUnanswered(w, cond))
    /\ UNCHANGED <<cached, cloud, requests, queued>>

Reconcile(w) ==
    \/ Get(w) \/ Mark(w) \/ Soft(w) \/ Write(w)
    \/ ClearForceSync(w) \/ ClearCertDrift(w) \/ SetReady(w)

----------------------------------------------------------------------------
(* The rest of the world. *)

\* Somebody else writes the Certificate.
Meddle(kind, c) ==
    /\ kind \in Meddling
    /\ Spend("edits")
    /\ c # live
    /\ UNCHANGED <<cached, cloud, requests, queue, stage, local, why>>
    /\ Publish(c, {})

AskForSync ==
    /\ live # Gone /\ ~live.force
    /\ Meddle("force", [live EXCEPT !.force = TRUE])
    /\ unheard' = [w \in Worker |-> stage[w] \notin {"idle", "called"}]

ChangeSpec ==
    /\ live # Gone
    /\ \/ \E s \in {"named", "unnamed"} : Meddle("spec", [live EXCEPT !.spec = s])
       \/ Meddle("issuer", [live EXCEPT !.spec = "foreign"])
    /\ UNCHANGED unheard

\* cert-manager starts or ends an issuance, or has its own say on Ready.
ChangeConditions ==
    /\ live # Gone
    /\ \/ Meddle("conditions", [live EXCEPT !.cond.issuing = ~@])
       \/ Meddle("conditions", [live EXCEPT !.cond.ready = "False"])
    /\ UNCHANGED unheard

\* The filter drops the event of a deletion.
DeleteOrCreate ==
    /\ Meddle("lifetime", IF live = Gone THEN NewCertificate ELSE Gone)
    /\ UNCHANGED unheard

\* cert-manager asks for a signature: a CertificateRequest for the next
\* revision.
Request ==
    /\ "request" \in Meddling
    /\ Spend("edits")
    /\ \E r \in Revision :
          /\ requests[r] = "none"
          /\ \A q \in Revision : q < r => requests[q] # "none"
          /\ requests' = [requests EXCEPT ![r] = "pending"]
    /\ UNCHANGED <<apiserver, cached, cloud, queue, locals>>

ChangeSource ==
    /\ Spend("outages")
    /\ cloud' \in Cloud \ {cloud}
    /\ UNCHANGED <<apiserver, cached, requests, queue, locals>>

\* The process dies.  The next one lists the Certificates, which is a Create
\* event for each.
Crash ==
    /\ Spend("crashes")
    /\ cached' = live
    /\ current' = {"cache"}
    /\ due' = FALSE
    /\ queued' = OurIssuerFilter(live)
    /\ timer' = FALSE
    /\ stage' = [w \in Worker |-> "idle"]
    /\ local' = [w \in Worker |-> Gone]
    /\ why' = [w \in Worker |-> "none"]
    /\ unheard' = [w \in Worker |-> FALSE]
    /\ UNCHANGED <<live, cloud, requests>>

Environment ==
    \/ AskForSync \/ ChangeSpec \/ ChangeConditions \/ DeleteOrCreate
    \/ Request \/ ChangeSource \/ Crash

Scheduling == Take \/ Ripen \/ Drift \/ Deliver

Next == Scheduling \/ (\E w \in Worker : Reconcile(w)) \/ Environment

\* The queue, its timers, the ticker and the watch go on, and a reconcile
\* that has begun ends.
Fairness ==
    /\ WF_vars(Take) /\ WF_vars(Ripen) /\ WF_vars(Drift) /\ WF_vars(Deliver)
    /\ \A w \in Worker : WF_vars(Reconcile(w))

Spec == Init /\ [][Next]_vars
FairSpec == Spec /\ Fairness

----------------------------------------------------------------------------
(* Correctness. *)

MaybeCertificate == Certificate \cup {Gone}

TypeOK ==
    /\ live \in MaybeCertificate
    /\ cached \in MaybeCertificate
    /\ current \subseteq Worker \cup {"cache"}
    /\ due \in BOOLEAN
    /\ cloud \in Cloud
    /\ requests \in [Revision -> {"none", "pending", "signed"}]
    /\ queued \in BOOLEAN
    /\ timer \in BOOLEAN
    /\ stage \in [Worker -> Stage]
    /\ local \in [Worker -> MaybeCertificate]
    /\ why \in [Worker -> Failure \cup {"none"}]
    /\ unheard \in [Worker -> BOOLEAN]
    /\ budget \in [{"edits", "outages", "faults", "crashes"} -> Nat]

Failed(c) == c # Gone /\ c.cond.synced \in Failure

\* The queue's worker is at it, or will be without anybody's help.
Pending == queued \/ timer \/ ~Idle("queue") \/ due

(* While no call fails, a Certificate of ours that shows a failure is one    *)
(* the controller comes back to, even without the Resyncer: no mixture of    *)
(* stale reads, restarts, edits and the Resyncer's own discarded requeues    *)
(* leaves it behind.  app.go:50-61, log.go:12-22, issuer.go:63-249.          *)
NoOrphanedFailure ==
    (MaxFaults = 0 /\ OurIssuerFilter(live) /\ Failed(live)) => Pending

\* The source has its key, and does not lose it.
KeyIsThere == "keyless" \notin Cloud \/ (MaxOutages = 0 /\ cloud # "keyless")

(* Whoever asks for a synchronisation gets one: the annotation is only taken *)
(* away by a reconcile that fetched after it was set, which is what the      *)
(* version on the Update is for, whatever call fails.  It fails where a      *)
(* source without a key makes the reconcile patch, and so refresh its copy,  *)
(* between the two.  annotation.go:13-14, issuer.go:173-174, 237-241.        *)
ForceSyncHeard ==
    [][ \A w \in Worker :
          (/\ KeyIsThere
           /\ stage[w] = "force" /\ stage'[w] = "clear"
           /\ live # Gone /\ live' # Gone
           /\ live.force /\ ~live'.force) => ~unheard[w] ]_vars

Mirrorable == live # Gone /\ live.spec = "named" /\ cloud = "good"

(* Once people, cloud and network leave it alone, the Certificate comes to   *)
(* say whether its source can be mirrored, and says so for ever; force-sync  *)
(* is gone by then if it can.  The 30 second requeue does that for a source  *)
(* that comes back, and only the Resyncer for one that goes.                 *)
(* resync.go:47-51, issuer.go:237-248, issuer.go:455-474.                    *)
ConditionTellsTruth ==
    <>[](OurIssuerFilter(live) =>
            IF Mirrorable
            THEN live.cond.synced = "Synced" /\ live.cond.ready = "Synced" /\ ~live.force
            ELSE cloud = "missing" \/ live.spec = "unnamed" => Failed(live))

(* ... and every CertificateRequest that waits is signed.  It holds as long  *)
(* as there is but one revision: the name that is looked for ends in "-1".   *)
(* issuer.go:228-235, 262-282.                                               *)
RequestsAreSigned ==
    <>[](Mirrorable => \A r \in Revision : requests[r] # "pending")

(* What the controller writes wakes it up again, and yet it comes to rest:   *)
(* the Certificate stops changing, with a failure or without.  It holds for  *)
(* sources that have their key, and without one it does not.                 *)
(* issuer.go:251-255, 393-398, conditions.go:82-90.                          *)
ComesToRest == <>[][FALSE]_live

(* A deleted Certificate is forgotten, whatever timer it had.                *)
(* issuer.go:64-67.                                                          *)
DeletedIsForgotten ==
    <>[](live = Gone => ~queued /\ ~timer /\ \A w \in Worker : Idle(w))

----------------------------------------------------------------------------
(* What the documentation and the comments say, and the code does not do. *)

(* FEATURE.md:91-93: "Controller only reconciles Certificates whose          *)
(* spec.issuerRef.group" is ours.  So one that moved to another issuer is    *)
(* left alone in the end.                                                    *)
ForeignIsLeftAlone ==
    <>[](live # Gone /\ live.spec = "foreign" => Idle("queue") /\ ~queued /\ ~timer)

(* conditions.go:30-33: "cert-manager owns Ready, we own                     *)
(* ExternalIssuerSynced"; 23-25: "we can flip this without fighting          *)
(* cert-manager's own trigger loop".  So Issuing, which is neither, is never *)
(* changed by a reconcile.                                                   *)
OthersConditionsKept ==
    [][ (live # Gone /\ live' # Gone /\ \E w \in Worker : stage'[w] # stage[w])
            => live'.cond.issuing = live.cond.issuing ]_vars

=============================================================================
