--------------------------- MODULE CertSyncProofs ---------------------------
(***************************************************************************)
(* CertSync keeps its types, and a Certificate that carries a syncer's     *)
(* annotation always comes back to it, whatever fails and whoever writes   *)
(* the Certificate meanwhile.                                              *)
(*                                                                         *)
(* AlwaysComesBack is not inductive: a reconcile that finds nothing to do  *)
(* drops the key for good, and it is right to, only because the cache it   *)
(* looked at is either up to date or about to be followed by an event      *)
(* (CacheFollows, EventsAreDue), and because a Certificate that is being   *)
(* deleted is still there for its finalizer (DeletionWaits).               *)
(***************************************************************************)
EXTENDS CertSync, TLAPS

MaybeCertificate == Certificate \cup {Gone}
Budget == [{"edits", "outages", "faults"} -> Nat]

CacheFollows == "cache" \in current => cached = live

EventsAreDue ==
    "cache" \notin current => \A c \in Syncer : Matches(c, live) => due[c]

DeletionWaits == live # Gone /\ live.deleting => live.finalizer

\* A reconcile that has begun has a Certificate to work on.
BusyHasOne == \A c \in Syncer : ~Idle(c) => local[c] \in Certificate

IInv ==
    /\ TypeOK
    /\ CacheFollows
    /\ EventsAreDue
    /\ DeletionWaits
    /\ BusyHasOne
    /\ AlwaysComesBack

ServerTypes ==
    /\ live \in MaybeCertificate
    /\ current \subseteq Syncer \cup {"cache"}
    /\ due \in [Syncer -> BOOLEAN]

WorkerTypes ==
    /\ queued \in [Syncer -> BOOLEAN]
    /\ timer \in [Syncer -> BOOLEAN]
    /\ stage \in [Syncer -> Stage]
    /\ local \in [Syncer -> MaybeCertificate]
    /\ job \in [Syncer -> Job]
    /\ why \in [Syncer -> Failure \cup {"none"}]
    /\ BusyHasOne

ClusterTypes ==
    /\ cached \in MaybeCertificate
    /\ cloud \in Payload \cup {None}
    /\ copies \in [Namespace -> Copy \cup {None}]
    /\ phase \in [Namespace -> {"active", "leaving", "absent"}]
    /\ filter \in Filter
    /\ requests \in BOOLEAN
    /\ budget \in Budget

\* What a call to the API server does to the Certificate is noticed.
Noticed ==
    /\ live' = live => ("cache" \in current' <=> "cache" \in current)
    /\ live' # live => "cache" \notin current'
    /\ \A c \in Syncer : due[c] => due'[c]
    /\ \A c \in Syncer : Matches(c, live') => due'[c] \/ live' = live

\* A step that drops no key: who was called for is called for still, and a
\* reconcile that ends leaves a timer behind.
KeepsKeys ==
    \A c \in Syncer :
        /\ queued[c] => queued'[c]
        /\ timer[c] => timer'[c]
        /\ stage[c] # "idle" => stage'[c] # "idle" \/ timer'[c]

----------------------------------------------------------------------------
(* Parts. *)

LEMMA TypeOKParts == TypeOK /\ BusyHasOne <=> ServerTypes /\ WorkerTypes /\ ClusterTypes
BY DEF TypeOK, ServerTypes, WorkerTypes, ClusterTypes, MaybeCertificate, Budget

LEMMA CertificateParts ==
    ASSUME NEW o \in Certificate, NEW k \in Condition
    PROVE  /\ [o EXCEPT !.cond = k] \in Certificate
           /\ [o EXCEPT !.cond = k].finalizer = o.finalizer
           /\ [o EXCEPT !.cond = k].deleting = o.deleting
           /\ [o EXCEPT !.finalizer = TRUE] \in Certificate
           /\ [o EXCEPT !.finalizer = TRUE].finalizer
           /\ o # Gone
BY CertSyncGoneAssumption DEF Certificate

LEMMA ConditionParts ==
    ASSUME NEW c \in Syncer, local[c] \in Certificate
    PROVE  /\ \A v \in Failure \cup {"none", "Synced"} : Synced(c, v) \in Condition
           /\ [local[c].cond EXCEPT !.ready = "Synced"] \in Condition
BY DEF Synced, Certificate, Condition

LEMMA NewCertificateType ==
    ASSUME NEW c \in Syncer
    PROVE  NewCertificate(c) \in Certificate /\ ~NewCertificate(c).deleting
BY DEF NewCertificate, Certificate, Condition

LEMMA SpendType ==
    ASSUME budget \in Budget, NEW kind \in {"edits", "outages", "faults"},
           Spend(kind) \/ NoFault
    PROVE  budget' \in Budget
BY DEF Spend, NoFault, Budget

----------------------------------------------------------------------------
(* Calls to the API server. *)

LEMMA PublishFacts ==
    ASSUME ServerTypes, DeletionWaits,
           NEW o \in MaybeCertificate, NEW h \in SUBSET Syncer, Publish(o, h),
           o # Gone /\ o.deleting => o.finalizer
    PROVE  ServerTypes' /\ DeletionWaits' /\ Noticed /\ live' = o
<1>1. live' = o /\ DeletionWaits'
  BY DEF Publish, DeletionWaits
<1>2. CASE o = live
  <2>1. "cache" \in current' <=> "cache" \in current
    BY <1>2, CertSyncAssumption DEF Publish, Holding
  <2>2. current' \subseteq Syncer \cup {"cache"}
    BY <1>2 DEF Publish, Holding, ServerTypes
  <2>3. QED
    BY <1>1, <1>2, <2>1, <2>2 DEF Publish, ServerTypes, Noticed
<1>3. CASE o # live
  <2>1. "cache" \notin current' /\ current' \subseteq Syncer
    <3>1. current' = {x \in h : x = "cache" \/ stage'[x] # "idle"}
      BY <1>3 DEF Publish, Holding
    <3>2. "cache" \notin Syncer
      BY CertSyncAssumption
    <3>3. QED
      BY <3>1, <3>2
  <2>2. due' = [c \in Syncer |-> due[c] \/ Matches(c, IF o = Gone THEN live ELSE o)]
    BY <1>3 DEF Publish
  <2>3. due' \in [Syncer -> BOOLEAN]
    BY <2>2 DEF Matches, ServerTypes, MaybeCertificate, Certificate
  <2>4. \A c \in Syncer : (due[c] => due'[c]) /\ (Matches(c, live') => due'[c])
    BY <1>1, <2>2 DEF Matches
  <2>5. QED
    BY <1>1, <1>3, <2>1, <2>3, <2>4 DEF ServerTypes, Noticed
<1>4. QED
  BY <1>2, <1>3

LEMMA NotPublishedFacts ==
    ASSUME ServerTypes, DeletionWaits, NotPublished
    PROVE  ServerTypes' /\ DeletionWaits' /\ Noticed /\ live' = live
BY DEF ServerTypes, DeletionWaits, NotPublished, Holding, Noticed

LEMMA UnchangedFacts ==
    ASSUME ServerTypes, DeletionWaits, UNCHANGED apiserver
    PROVE  ServerTypes' /\ DeletionWaits' /\ Noticed /\ live' = live
BY DEF ServerTypes, DeletionWaits, apiserver, Noticed

\* An Update that puts o in the place of the Certificate.
LEMMA UpdateFacts ==
    ASSUME ServerTypes, DeletionWaits, budget \in Budget, NEW c \in Syncer,
           NEW o \in MaybeCertificate, o # Gone => o.finalizer,
           UpdateOK(c, o) \/ UpdateFails(c, o)
    PROVE  ServerTypes' /\ DeletionWaits' /\ Noticed /\ budget' \in Budget
<1>1. budget' \in Budget
  BY SpendType DEF UpdateOK, UpdateFails, Fault
<1>2. CASE NotPublished
  BY <1>1, <1>2, NotPublishedFacts
<1>3. CASE \E h \in SUBSET Syncer : Publish(o, h)
  BY <1>1, <1>3, PublishFacts
<1>4. QED
  BY <1>2, <1>3 DEF UpdateOK, UpdateFails

LEMMA PatchFacts ==
    ASSUME ServerTypes, DeletionWaits, budget \in Budget, NEW c \in Syncer,
           local[c] \in Certificate, NEW k \in Condition,
           PatchOK(c, k) \/ PatchFails(c, k)
    PROVE  /\ ServerTypes' /\ DeletionWaits' /\ Noticed /\ budget' \in Budget
           /\ PatchOK(c, k) => live' \in Certificate
<1>1. budget' \in Budget
  BY SpendType DEF PatchOK, PatchFails, Fault
<1>2. ASSUME live # Gone
      PROVE  /\ Patched(c, k) \in Certificate
             /\ Patched(c, k).deleting => Patched(c, k).finalizer
  BY <1>2, CertificateParts DEF Patched, ServerTypes, MaybeCertificate, DeletionWaits
<1>3. CASE NotPublished /\ ~PatchOK(c, k)
  BY <1>1, <1>3, NotPublishedFacts
<1>4. CASE live # Gone /\ \E h \in SUBSET Syncer : Publish(Patched(c, k), h)
  BY <1>1, <1>2, <1>4, PublishFacts DEF MaybeCertificate
<1>5. QED
  BY <1>3, <1>4 DEF PatchOK, PatchFails

----------------------------------------------------------------------------
(* What follows for the whole of IInv. *)

LEMMA NoticedIsEnough ==
    ASSUME CacheFollows, EventsAreDue, AlwaysComesBack, Noticed, KeepsKeys, cached' = cached
    PROVE  CacheFollows' /\ EventsAreDue' /\ AlwaysComesBack'
<1>1. CacheFollows'
  BY DEF CacheFollows, Noticed
<1>2. EventsAreDue'
  BY DEF EventsAreDue, Noticed
<1>3. AlwaysComesBack'
  BY DEF AlwaysComesBack, Noticed, KeepsKeys, Idle
<1>4. QED
  BY <1>1, <1>2, <1>3

LEMMA ReturnFacts ==
    ASSUME WorkerTypes, NEW c \in Syncer, NEW again \in BOOLEAN, Return(c, again)
    PROVE  WorkerTypes' /\ (again => KeepsKeys)
<1>1. NoJob \in Job
  BY DEF NoJob, Job
<1>2. QED
  BY <1>1 DEF WorkerTypes, Return, Goto, Keep, Because, Stage, MaybeCertificate,
              BusyHasOne, Idle, KeepsKeys

\* A step within a reconcile.
LEMMA GotoFacts ==
    ASSUME WorkerTypes, NEW c \in Syncer, stage[c] # "idle",
           NEW s \in Stage, s # "idle", stage' = [stage EXCEPT ![c] = s],
           NEW o \in Certificate, local' = [local EXCEPT ![c] = o],
           NEW j \in Job, job' = [job EXCEPT ![c] = j],
           NEW r \in Failure \cup {"none"}, why' = [why EXCEPT ![c] = r],
           UNCHANGED queue
    PROVE  WorkerTypes' /\ KeepsKeys
BY DEF WorkerTypes, MaybeCertificate, BusyHasOne, Idle, KeepsKeys, queue

\* Steps of the workers after which nothing has to be looked for.
LEMMA StepIsEnough ==
    ASSUME IInv, ServerTypes', WorkerTypes', ClusterTypes', DeletionWaits',
           Noticed, KeepsKeys, cached' = cached
    PROVE  IInv'
BY NoticedIsEnough, TypeOKParts DEF IInv, TypeOK, ServerTypes, WorkerTypes, ClusterTypes,
   MaybeCertificate, Budget

LEMMA IInvParts ==
    ASSUME IInv
    PROVE  /\ ServerTypes /\ WorkerTypes /\ ClusterTypes /\ DeletionWaits
           /\ \A c \in Syncer : stage[c] # "idle" => local[c] \in Certificate
           /\ \A c \in Syncer : job[c] \in Job /\ why[c] \in Failure \cup {"none"}
BY DEF IInv, TypeOK, ServerTypes, WorkerTypes, ClusterTypes, MaybeCertificate, Budget,
   BusyHasOne, Idle

----------------------------------------------------------------------------
(* One reconcile. *)

\* The only step that drops a key: it may when the cache is right, and when
\* it is not, an event is due.
LEMMA BeginStep ==
    ASSUME IInv, NEW c \in Syncer, Begin(c)
    PROVE  IInv'
<1>1. ServerTypes /\ WorkerTypes /\ ClusterTypes /\ DeletionWaits
  BY IInvParts
<1> DEFINE Nothing == \/ cached = Gone
                      \/ c \notin cached.ann
                      \/ cached.deleting /\ ~cached.finalizer
<1>2. queued' \in [Syncer -> BOOLEAN] /\ timer' \in [Syncer -> BOOLEAN]
  BY <1>1 DEF Begin, WorkerTypes
<1>3. \A d \in Syncer \ {c} : queued'[d] = queued[d] /\ timer'[d] = timer[d]
  BY <1>1 DEF Begin, WorkerTypes
<1>4. UNCHANGED <<live, cached, due, cloud, copies, phase, filter, requests, job, why, budget>>
  BY DEF Begin, cluster
<1>5. CASE Nothing
  <2>1. UNCHANGED <<stage, local, current>>
    BY <1>5 DEF Begin
  <2>2. ServerTypes' /\ WorkerTypes' /\ ClusterTypes' /\ DeletionWaits'
    BY <1>1, <1>2, <1>4, <2>1 DEF ServerTypes, WorkerTypes, ClusterTypes, DeletionWaits,
       BusyHasOne, Idle
  <2>3. CacheFollows' /\ EventsAreDue'
    BY <1>4, <2>1 DEF IInv, CacheFollows, EventsAreDue, Matches
  <2>4. Matches(c, live) => due[c]
    BY <1>5 DEF IInv, CacheFollows, EventsAreDue, DeletionWaits, Matches
  <2>5. AlwaysComesBack'
    BY <1>3, <1>4, <2>1, <2>4 DEF IInv, AlwaysComesBack, Matches, Idle
  <2>6. QED
    BY <2>2, <2>3, <2>5, TypeOKParts DEF IInv, TypeOK, ServerTypes, WorkerTypes,
       ClusterTypes, MaybeCertificate, Budget
<1>6. CASE ~Nothing
  <2>1. PICK s \in {"release", "fetch", "claim"} : stage' = [stage EXCEPT ![c] = s]
    BY <1>6 DEF Begin, Goto
  <2>2. local' = [local EXCEPT ![c] = cached] /\ cached \in Certificate
    BY <1>1, <1>6 DEF Begin, Keep, ClusterTypes, MaybeCertificate
  <2>3. WorkerTypes'
    BY <1>1, <1>2, <1>4, <2>1, <2>2 DEF WorkerTypes, Stage, MaybeCertificate, BusyHasOne, Idle
  <2>4. current' = (IF "cache" \in current THEN current \cup {c} ELSE current)
    BY <1>6 DEF Begin
  <2>5. ServerTypes' /\ ClusterTypes' /\ DeletionWaits'
    BY <1>1, <1>4, <2>4 DEF ServerTypes, ClusterTypes, DeletionWaits
  <2>6. CacheFollows' /\ EventsAreDue'
    BY <1>4, <2>4, CertSyncAssumption DEF IInv, CacheFollows, EventsAreDue, Matches
  <2>7. AlwaysComesBack'
    BY <1>1, <1>3, <1>4, <2>1 DEF IInv, AlwaysComesBack, Matches, Idle, WorkerTypes
  <2>8. QED
    BY <2>3, <2>5, <2>6, <2>7, TypeOKParts DEF IInv, TypeOK, ServerTypes, WorkerTypes,
       ClusterTypes, MaybeCertificate, Budget
<1>7. QED
  BY <1>5, <1>6

LEMMA ReleaseStep ==
    ASSUME IInv, NEW c \in Syncer, Release(c)
    PROVE  IInv'
<1>1. ServerTypes /\ WorkerTypes /\ ClusterTypes /\ DeletionWaits
  BY IInvParts
<1>2. UNCHANGED <<cached, cloud, copies, phase, filter, requests>>
  BY DEF Release, cluster
<1>3. budget \in Budget
  BY <1>1 DEF ClusterTypes
<1>4. CASE Return(c, TRUE) /\ UpdateFails(c, Gone)
  <2>1. WorkerTypes' /\ KeepsKeys
    BY <1>1, <1>4, ReturnFacts
  <2>2. ServerTypes' /\ DeletionWaits' /\ Noticed /\ budget' \in Budget
    BY <1>1, <1>3, <1>4, UpdateFacts DEF MaybeCertificate
  <2>3. QED
    BY <1>1, <1>2, <2>1, <2>2, StepIsEnough DEF ClusterTypes
<1>5. CASE Return(c, FALSE) /\ UpdateOK(c, Gone)
  <2>1. WorkerTypes'
    BY <1>1, <1>5, ReturnFacts
  <2>2. ServerTypes' /\ DeletionWaits' /\ Noticed /\ budget' \in Budget
    BY <1>1, <1>3, <1>5, UpdateFacts DEF MaybeCertificate
  <2>3. live' = Gone /\ live # Gone
    BY <1>5 DEF UpdateOK, Publish
  <2>4. CacheFollows' /\ EventsAreDue' /\ AlwaysComesBack'
    BY <2>2, <2>3 DEF CacheFollows, EventsAreDue, AlwaysComesBack, Matches, Noticed
  <2>5. ClusterTypes'
    BY <1>1, <1>2, <2>2 DEF ClusterTypes
  <2>6. QED
    BY <2>1, <2>2, <2>4, <2>5, TypeOKParts DEF IInv, TypeOK, ServerTypes, WorkerTypes,
       ClusterTypes, MaybeCertificate, Budget
<1>6. QED
  BY <1>4, <1>5 DEF Release

LEMMA ClaimStep ==
    ASSUME IInv, NEW c \in Syncer, Claim(c)
    PROVE  IInv'
<1>1. /\ ServerTypes /\ WorkerTypes /\ ClusterTypes /\ DeletionWaits
      /\ stage[c] = "claim" /\ local[c] \in Certificate
  BY IInvParts DEF Claim
<1> DEFINE claimed == [local[c] EXCEPT !.finalizer = TRUE]
<1>2. UNCHANGED <<cached, cloud, copies, phase, filter, requests>>
  BY DEF Claim, cluster
<1>3. claimed \in Certificate /\ claimed.finalizer
  <2>1. NewCertificate(c).cond \in Condition
    BY NewCertificateType DEF Certificate
  <2>2. QED
    BY <1>1, <2>1, CertificateParts
<1>4. ServerTypes' /\ DeletionWaits' /\ Noticed /\ budget' \in Budget
  <2>1. UpdateOK(c, claimed) \/ UpdateFails(c, claimed)
    BY DEF Claim
  <2>2. budget \in Budget /\ claimed \in MaybeCertificate
    BY <1>1, <1>3 DEF ClusterTypes, MaybeCertificate
  <2>3. QED
    BY <1>1, <1>3, <2>1, <2>2, UpdateFacts
<1>5. WorkerTypes' /\ KeepsKeys
  <2>1. CASE Return(c, TRUE)
    BY <1>1, <2>1, ReturnFacts
  <2>2. CASE Goto(c, "fetch") /\ Keep(c, claimed) /\ UNCHANGED <<queue, job, why>>
    BY <1>1, <1>3, <2>2 DEF Goto, Keep, WorkerTypes, MaybeCertificate, BusyHasOne, Idle,
       KeepsKeys, queue, Stage
  <2>3. QED
    BY <2>1, <2>2 DEF Claim
<1>6. QED
  BY <1>1, <1>2, <1>4, <1>5, StepIsEnough DEF ClusterTypes

\* A step of a reconcile that calls nobody who writes the Certificate.
LEMMA InnerStep ==
    ASSUME IInv, NEW c \in Syncer, stage[c] # "idle", UNCHANGED <<apiserver, cached, local, queue>>,
           NEW s \in Stage \ {"idle"}, Goto(c, s) \/ UNCHANGED stage,
           ClusterTypes',
           NEW j \in Job, job' = [job EXCEPT ![c] = j],
           NEW r \in Failure \cup {"none"}, Because(c, r) \/ UNCHANGED why
    PROVE  IInv'
<1>1. ServerTypes /\ WorkerTypes /\ DeletionWaits
  BY IInvParts
<1>2. ServerTypes' /\ DeletionWaits' /\ Noticed
  BY <1>1, UnchangedFacts
<1>3. WorkerTypes' /\ KeepsKeys
  BY <1>1 DEF WorkerTypes, Goto, Because, BusyHasOne, Idle, KeepsKeys, queue
<1>4. QED
  BY <1>2, <1>3, StepIsEnough

LEMMA FetchStep ==
    ASSUME IInv, NEW c \in Syncer, Fetch(c)
    PROVE  IInv'
<1>1. ServerTypes /\ WorkerTypes /\ ClusterTypes /\ job[c] \in Job /\ stage[c] # "idle"
  BY IInvParts DEF Fetch
<1>2. /\ UNCHANGED <<apiserver, cached, local, queue>>
      /\ UNCHANGED <<cached, cloud, copies, phase, filter, requests>>
  BY DEF Fetch, cluster
<1>3. budget' \in Budget
  BY <1>1, SpendType DEF Fetch, Fault, ClusterTypes
<1>4. ClusterTypes'
  BY <1>1, <1>2, <1>3 DEF ClusterTypes
<1>5. CASE Goto(c, "build") /\ job' = [job EXCEPT ![c].mat = cloud] /\ UNCHANGED why
  <2>1. [job[c] EXCEPT !.mat = cloud] \in Job
    BY <1>1 DEF Job, ClusterTypes
  <2>2. job' = [job EXCEPT ![c] = [job[c] EXCEPT !.mat = cloud]]
    BY <1>1, <1>5 DEF WorkerTypes
  <2>3. "build" \in Stage \ {"idle"} /\ "none" \in Failure \cup {"none"}
    BY DEF Stage
  <2>4. QED
    BY <1>1, <1>2, <1>4, <1>5, <2>1, <2>2, <2>3, InnerStep
<1>6. CASE /\ Goto(c, "mark") /\ UNCHANGED job
           /\ Because(c, "IssuerNotFound") \/ Because(c, "DownloadFailed")
  <2>1. job' = [job EXCEPT ![c] = job[c]]
    BY <1>1, <1>6 DEF WorkerTypes
  <2>2. /\ "mark" \in Stage \ {"idle"}
        /\ {"IssuerNotFound", "DownloadFailed"} \subseteq Failure \cup {"none"}
    BY DEF Stage, Failure
  <2>3. PICK r \in {"IssuerNotFound", "DownloadFailed"} : Because(c, r)
    BY <1>6
  <2>4. QED
    BY <1>1, <1>2, <1>4, <1>6, <2>1, <2>2, <2>3, InnerStep
<1>7. QED
  BY <1>5, <1>6 DEF Fetch

LEMMA BuildStep ==
    ASSUME IInv, NEW c \in Syncer, Build(c)
    PROVE  IInv'
<1>1. ServerTypes /\ WorkerTypes /\ ClusterTypes /\ job[c] \in Job /\ stage[c] # "idle"
  BY IInvParts DEF Build
<1>2. /\ UNCHANGED <<apiserver, cached, local, queue>>
      /\ UNCHANGED <<cached, cloud, copies, phase, filter, requests>>
  BY DEF Build, cluster
<1>3. budget' \in Budget
  BY <1>1, SpendType DEF Build, Fault, ClusterTypes
<1>4. ClusterTypes'
  BY <1>1, <1>2, <1>3 DEF ClusterTypes
<1>5. ASSUME NEW n \in Nonce,
             job' = [job EXCEPT ![c].ks = BuildKeystore(job[c].mat, n)],
             NEW s \in {"soft", "verify"}, Goto(c, s),
             Because(c, Skipped(c)) \/ UNCHANGED why
      PROVE  IInv'
  <2>1. BuildKeystore(job[c].mat, n) \in Nonce \cup {None}
    BY <1>1, CertSyncAssumption DEF BuildKeystore, ClusterTypes, Copy
  <2> DEFINE j == [job[c] EXCEPT !.ks = BuildKeystore(job[c].mat, n)]
  <2>2. j \in Job
    BY <1>1, <2>1 DEF Job
  <2>3. job' = [job EXCEPT ![c] = j]
    BY <1>1, <1>5 DEF WorkerTypes
  <2>4. s \in Stage \ {"idle"} /\ Skipped(c) \in Failure \cup {"none"}
    BY <1>5 DEF Stage, Skipped, Failure
  <2>5. QED
    BY <1>1, <1>2, <1>4, <1>5, <2>2, <2>3, <2>4, InnerStep
<1>6. CASE UNCHANGED job /\ Goto(c, "mark") /\ Because(c, "SecretReadFailed")
  <2>1. job' = [job EXCEPT ![c] = job[c]]
    BY <1>1, <1>6 DEF WorkerTypes
  <2>2. "SecretReadFailed" \in Failure /\ "mark" \in Stage \ {"idle"}
    BY DEF Failure, Stage
  <2>3. QED
    BY <1>1, <1>2, <1>4, <1>6, <2>1, <2>2, InnerStep
<1>7. QED
  BY <1>5, <1>6 DEF Build

LEMMA VerifyStep ==
    ASSUME IInv, NEW c \in Syncer, Verify(c)
    PROVE  IInv'
<1>1. ServerTypes /\ WorkerTypes /\ ClusterTypes /\ job[c] \in Job /\ stage[c] # "idle"
  BY IInvParts DEF Verify
<1>2. /\ UNCHANGED <<apiserver, cached, local, queue>>
      /\ UNCHANGED <<cached, cloud, copies, phase, filter, requests>>
  BY DEF Verify, cluster
<1>3. budget' \in Budget
  BY <1>1, SpendType DEF Verify, Fault, ClusterTypes
<1>4. ClusterTypes'
  BY <1>1, <1>2, <1>3 DEF ClusterTypes
<1>5. {"write", "mark"} \subseteq Stage \ {"idle"} /\ "none" \in Failure \cup {"none"}
  BY DEF Stage
<1>6. CASE Goto(c, "write") /\ job' = [job EXCEPT ![c].todo = TargetNamespaces] /\ UNCHANGED why
  <2> DEFINE j == [job[c] EXCEPT !.todo = TargetNamespaces]
  <2>1. j \in Job
    BY <1>1, CertSyncAssumption DEF TargetNamespaces, Job
  <2>2. job' = [job EXCEPT ![c] = j]
    BY <1>1, <1>6 DEF WorkerTypes
  <2>3. QED
    BY <1>1, <1>2, <1>4, <1>5, <1>6, <2>1, <2>2, InnerStep
<1>7. CASE /\ UNCHANGED job /\ Goto(c, "mark")
           /\ Because(c, "SecretVerifyFailed") \/ Because(c, "NamespaceListFailed")
  <2>1. job' = [job EXCEPT ![c] = job[c]]
    BY <1>1, <1>7 DEF WorkerTypes
  <2>2. PICK r \in Failure \cup {"none"} : Because(c, r)
    BY <1>7 DEF Failure
  <2>3. QED
    BY <1>1, <1>2, <1>4, <1>5, <1>7, <2>1, <2>2, InnerStep
<1>8. QED
  BY <1>6, <1>7 DEF Verify

LEMMA WriteStep ==
    ASSUME IInv, NEW c \in Syncer, Write(c)
    PROVE  IInv'
<1>1. ServerTypes /\ WorkerTypes /\ ClusterTypes /\ job[c] \in Job /\ stage[c] = "write"
  BY IInvParts DEF Write
<1>2. /\ UNCHANGED <<apiserver, cached, local, queue>>
      /\ UNCHANGED <<cached, cloud, phase, filter, requests>>
  BY DEF Write, cluster
<1>3. CASE (\E n \in job[c].todo : WriteSecret(c, n)) /\ UNCHANGED <<stage, why>>
  <2>1. PICK n \in job[c].todo : WriteSecret(c, n)
    BY <1>3
  <2> DEFINE copy == [payload |-> job[c].mat, ks |-> job[c].ks]
  <2>2. copy \in Copy /\ n \in Namespace
    BY <1>1, <2>1 DEF Copy, Job
  <2>3. UNCHANGED copies \/ copies' = [copies EXCEPT ![n] = copy]
    BY <2>1 DEF WriteSecret
  <2>4. budget' \in Budget
    BY <1>1, <2>1, SpendType DEF WriteSecret, Fault, ClusterTypes
  <2>5. ClusterTypes'
    BY <1>1, <1>2, <2>2, <2>3, <2>4 DEF ClusterTypes
  <2>6. PICK ok \in BOOLEAN : job' = [job EXCEPT ![c].todo = Remaining(c, n, ok),
                                               ![c].failed = Failed(c, ok)]
    BY <2>1 DEF WriteSecret
  <2> DEFINE j == [job[c] EXCEPT !.todo = Remaining(c, n, ok), !.failed = Failed(c, ok)]
  <2>7. j \in Job
    BY <1>1 DEF Job, Remaining, Failed
  <2>8. job' = [job EXCEPT ![c] = j]
    BY <1>1, <2>6 DEF WorkerTypes
  <2>9. "write" \in Stage \ {"idle"}
    BY DEF Stage
  <2>10. QED
    BY <1>1, <1>2, <1>3, <2>5, <2>7, <2>8, <2>9, InnerStep
<1>4. CASE /\ UNCHANGED <<copies, job, budget>>
           /\ \/ Goto(c, "mark") /\ Because(c, "SecretWriteFailed")
              \/ Goto(c, "post") /\ UNCHANGED why
  <2>1. ClusterTypes'
    BY <1>1, <1>2, <1>4 DEF ClusterTypes
  <2>2. job' = [job EXCEPT ![c] = job[c]]
    BY <1>1, <1>4 DEF WorkerTypes
  <2>3. /\ "mark" \in Stage \ {"idle"} /\ "post" \in Stage \ {"idle"}
        /\ "SecretWriteFailed" \in Failure \cup {"none"}
    BY DEF Stage, Failure
  <2>4. QED
    BY <1>1, <1>2, <1>4, <2>1, <2>2, <2>3, InnerStep
<1>5. QED
  BY <1>3, <1>4 DEF Write, NoFault

\* The marks that are put down on the way.
LEMMA ReportFacts ==
    ASSUME ServerTypes, DeletionWaits, budget \in Budget, NEW c \in Syncer,
           local[c] \in Certificate, local \in [Syncer -> MaybeCertificate],
           NEW v \in Failure \cup {"none", "Synced"}, Report(c, v)
    PROVE  /\ ServerTypes' /\ DeletionWaits' /\ Noticed /\ budget' \in Budget
           /\ \E o \in Certificate : local' = [local EXCEPT ![c] = o]
<1> DEFINE cond == Synced(c, v)
<1>1. cond \in Condition
  BY ConditionParts
<1>2. [local[c] EXCEPT !.cond = cond] \in Certificate
  BY <1>1, CertificateParts
<1>3. CASE PatchOK(c, cond) /\ Keep(c, live')
  BY <1>1, <1>3, PatchFacts DEF Keep
<1>4. CASE PatchFails(c, cond) /\ Keep(c, [local[c] EXCEPT !.cond = cond])
  BY <1>1, <1>2, <1>4, PatchFacts DEF Keep
<1>5. CASE Fault /\ NotPublished /\ UNCHANGED local
  <2>1. budget' \in Budget
    BY <1>5, SpendType DEF Fault
  <2>2. local' = [local EXCEPT ![c] = local[c]]
    BY <1>5
  <2>3. QED
    BY <1>5, <2>1, <2>2, NotPublishedFacts
<1>6. QED
  BY <1>3, <1>4, <1>5 DEF Report

LEMMA ReportStep ==
    ASSUME IInv, NEW c \in Syncer, stage[c] # "idle",
           NEW v \in Failure \cup {"none", "Synced"}, Report(c, v),
           NEW s \in Stage \ {"idle"}, Goto(c, s),
           Because(c, "none") \/ UNCHANGED why,
           UNCHANGED <<cached, cloud, copies, cluster, requests, queue, job>>
    PROVE  IInv'
<1>1. /\ ServerTypes /\ WorkerTypes /\ ClusterTypes /\ DeletionWaits
      /\ local[c] \in Certificate
  BY IInvParts
<1>2. /\ ServerTypes' /\ DeletionWaits' /\ Noticed /\ budget' \in Budget
      /\ \E o \in Certificate : local' = [local EXCEPT ![c] = o]
  BY <1>1, ReportFacts DEF ClusterTypes, WorkerTypes
<1>3. PICK o \in Certificate : local' = [local EXCEPT ![c] = o]
  BY <1>2
<1>4. WorkerTypes' /\ KeepsKeys
  BY <1>1, <1>3 DEF WorkerTypes, MaybeCertificate, Goto, Because, BusyHasOne, Idle,
     KeepsKeys, queue
<1>5. ClusterTypes'
  BY <1>1, <1>2 DEF ClusterTypes, cluster
<1>6. QED
  BY <1>2, <1>4, <1>5, StepIsEnough

LEMMA SoftStep ==
    ASSUME IInv, NEW c \in Syncer, Soft(c)
    PROVE  IInv'
<1>1. why[c] \in Failure \cup {"none", "Synced"}
  BY IInvParts
<1>2. "verify" \in Stage \ {"idle"} /\ stage[c] # "idle"
  BY DEF Stage, Soft
<1>3. QED
  BY <1>1, <1>2, ReportStep DEF Soft

LEMMA ClearCertDriftStep ==
    ASSUME IInv, NEW c \in Syncer, ClearCertDrift(c)
    PROVE  IInv'
<1>1. "ready" \in Stage \ {"idle"} /\ stage[c] # "idle"
  BY DEF Stage, ClearCertDrift
<1>2. QED
  BY <1>1, ReportStep DEF ClearCertDrift

\* A reconcile ends with a patch of the status, and comes back.
LEMMA LastPatch ==
    ASSUME IInv, NEW c \in Syncer, stage[c] # "idle", Return(c, TRUE),
           NEW k \in Condition, PatchOK(c, k) \/ PatchFails(c, k),
           UNCHANGED <<cached, cloud, copies, cluster, requests>>
    PROVE  IInv'
<1>1. /\ ServerTypes /\ WorkerTypes /\ ClusterTypes /\ DeletionWaits
      /\ local[c] \in Certificate
  BY IInvParts
<1>2. ServerTypes' /\ DeletionWaits' /\ Noticed /\ budget' \in Budget
  BY <1>1, PatchFacts DEF ClusterTypes
<1>3. WorkerTypes' /\ KeepsKeys
  BY <1>1, ReturnFacts
<1>4. ClusterTypes'
  BY <1>1, <1>2 DEF ClusterTypes, cluster
<1>5. QED
  BY <1>2, <1>3, <1>4, StepIsEnough

LEMMA MarkStep ==
    ASSUME IInv, NEW c \in Syncer, Mark(c)
    PROVE  IInv'
<1>1. stage[c] # "idle" /\ local[c] \in Certificate /\ why[c] \in Failure \cup {"none", "Synced"}
  BY IInvParts DEF Mark
<1>2. Synced(c, why[c]) \in Condition
  BY <1>1, ConditionParts
<1>3. QED
  BY <1>1, <1>2, LastPatch DEF Mark

LEMMA SetReadyStep ==
    ASSUME IInv, NEW c \in Syncer, SetReady(c)
    PROVE  IInv'
<1>1. stage[c] # "idle" /\ local[c] \in Certificate
  BY IInvParts DEF SetReady
<1>2. [local[c].cond EXCEPT !.ready = "Synced"] \in Condition
  BY <1>1, ConditionParts
<1>3. QED
  BY <1>1, <1>2, LastPatch DEF SetReady

LEMMA PostWriteStep ==
    ASSUME IInv, NEW c \in Syncer, PostWrite(c)
    PROVE  IInv'
<1>1. ServerTypes /\ WorkerTypes /\ ClusterTypes /\ DeletionWaits /\ stage[c] = "post"
  BY IInvParts DEF PostWrite
<1>2. /\ UNCHANGED <<live, due, cached, cloud, copies, phase, filter>>
      /\ requests' \in BOOLEAN /\ budget' \in Budget
  BY <1>1, SpendType DEF PostWrite, cluster, Fault, ClusterTypes
<1>3. ClusterTypes'
  BY <1>1, <1>2 DEF ClusterTypes
<1>4. ServerTypes' /\ DeletionWaits' /\ Noticed
  BY <1>1, <1>2 DEF PostWrite, ServerTypes, DeletionWaits, Holding, Noticed
<1>5. WorkerTypes' /\ KeepsKeys
  <2>1. CASE Return(c, TRUE)
    BY <1>1, <2>1, ReturnFacts
  <2>2. CASE Goto(c, "clear") /\ UNCHANGED <<queue, local, job, why>>
    BY <1>1, <2>2 DEF WorkerTypes, Goto, BusyHasOne, Idle, KeepsKeys, queue, Stage
  <2>3. QED
    BY <2>1, <2>2 DEF PostWrite
<1>6. QED
  BY <1>2, <1>3, <1>4, <1>5, StepIsEnough

----------------------------------------------------------------------------
(* The rest of the world. *)

LEMMA DeliverStep ==
    ASSUME IInv, Deliver
    PROVE  IInv'
<1>1. ServerTypes /\ WorkerTypes /\ ClusterTypes /\ DeletionWaits
  BY IInvParts
<1>2. /\ cached' = live /\ live' = live /\ "cache" \in current'
      /\ queued' = [c \in Syncer |-> queued[c] \/ due[c]]
      /\ due' = [c \in Syncer |-> FALSE]
      /\ UNCHANGED <<cloud, copies, phase, filter, requests, timer, stage, local, job, why, budget>>
  BY DEF Deliver, cluster, locals
<1>3. ServerTypes' /\ ClusterTypes' /\ DeletionWaits'
  BY <1>1, <1>2 DEF ServerTypes, ClusterTypes, DeletionWaits, Deliver
<1>4. WorkerTypes'
  BY <1>1, <1>2 DEF ServerTypes, WorkerTypes, BusyHasOne, Idle
<1>5. CacheFollows' /\ EventsAreDue'
  BY <1>2 DEF CacheFollows, EventsAreDue
<1>6. AlwaysComesBack'
  BY <1>2 DEF IInv, AlwaysComesBack, Matches, Idle
<1>7. QED
  BY <1>3, <1>4, <1>5, <1>6, TypeOKParts DEF IInv, TypeOK, ServerTypes, WorkerTypes,
     ClusterTypes, MaybeCertificate, Budget

\* What others do, the writes of the Certificate included, leaves the keys
\* alone.
LEMMA OthersStep ==
    ASSUME IInv, ClusterTypes', cached' = cached, UNCHANGED <<queue, locals>>,
           ServerTypes', DeletionWaits', Noticed
    PROVE  IInv'
<1>1. WorkerTypes
  BY IInvParts
<1>2. WorkerTypes' /\ KeepsKeys
  BY <1>1 DEF WorkerTypes, KeepsKeys, queue, locals, BusyHasOne, Idle
<1>3. QED
  BY <1>2, StepIsEnough

LEMMA EditStep ==
    ASSUME IInv, NEW o \in MaybeCertificate, o # Gone /\ o.deleting => o.finalizer,
           NEW kind, Edit(kind, o)
    PROVE  IInv'
<1>1. ServerTypes /\ ClusterTypes /\ DeletionWaits
  BY IInvParts
<1>2. budget' \in Budget
  BY <1>1, SpendType DEF Edit, Meddle, ClusterTypes
<1>3. ClusterTypes'
  BY <1>1, <1>2 DEF ClusterTypes, Edit, cluster
<1>4. ServerTypes' /\ DeletionWaits' /\ Noticed
  BY <1>1, PublishFacts DEF Edit
<1>5. QED
  BY <1>3, <1>4, OthersStep DEF Edit

LEMMA DeleteStep ==
    ASSUME IInv, Delete
    PROVE  IInv'
<1>1. live \in Certificate
  BY IInvParts DEF Delete, ServerTypes, MaybeCertificate
<1>2. CASE live.finalizer
  <2>1. /\ [live EXCEPT !.deleting = TRUE] \in MaybeCertificate
        /\ [live EXCEPT !.deleting = TRUE].finalizer
    BY <1>1, <1>2 DEF MaybeCertificate, Certificate
  <2>2. QED
    BY <1>2, <2>1, EditStep DEF Delete
<1>3. CASE ~live.finalizer
  BY <1>3, EditStep DEF Delete, MaybeCertificate
<1>4. QED
  BY <1>2, <1>3

LEMMA CreateStep ==
    ASSUME IInv, Create
    PROVE  IInv'
<1>1. PICK c \in Syncer : Edit("lifetime", NewCertificate(c))
  BY DEF Create
<1>2. QED
  BY <1>1, NewCertificateType, EditStep DEF MaybeCertificate

LEMMA AnnotateStep ==
    ASSUME IInv, Annotate
    PROVE  IInv'
<1>1. live \in Certificate /\ DeletionWaits
  BY IInvParts DEF Annotate, ServerTypes, MaybeCertificate
<1>2. PICK a \in SUBSET Syncer : Edit("annotation", [live EXCEPT !.ann = a])
  BY DEF Annotate
<1> DEFINE o == [live EXCEPT !.ann = a]
<1>3. o \in MaybeCertificate /\ o.deleting = live.deleting /\ o.finalizer = live.finalizer
  BY <1>1 DEF MaybeCertificate, Certificate
<1>4. o # Gone /\ o.deleting => o.finalizer
  BY <1>1, <1>3 DEF DeletionWaits, Annotate
<1>5. QED
  BY <1>2, <1>3, <1>4, EditStep

LEMMA ChangeIssuerStep ==
    ASSUME IInv, ChangeIssuer
    PROVE  IInv'
<1>1. live \in Certificate /\ DeletionWaits /\ live # Gone
  BY IInvParts DEF ChangeIssuer, ServerTypes, MaybeCertificate
<1>2. ASSUME NEW o \in Certificate, o.deleting = live.deleting, o.finalizer = live.finalizer,
             Edit("issuer", o)
      PROVE  IInv'
  BY <1>1, <1>2, EditStep DEF DeletionWaits, MaybeCertificate
<1>3. CASE \E k \in Syncer : Edit("issuer", [live EXCEPT !.kind = k])
  BY <1>1, <1>2, <1>3 DEF Certificate
<1>4. CASE Edit("issuer", [live EXCEPT !.ours = ~@])
  BY <1>1, <1>2, <1>4 DEF Certificate
<1>5. QED
  BY <1>3, <1>4 DEF ChangeIssuer

LEMMA ClusterStep ==
    ASSUME IInv, ChangeFilter \/ ChangeNamespace \/ Request \/ ChangeSource
    PROVE  IInv'
<1>1. ServerTypes /\ ClusterTypes /\ DeletionWaits
  BY IInvParts
<1>2. budget' \in Budget
  BY <1>1, SpendType DEF ChangeFilter, ChangeNamespace, Request, ChangeSource, Meddle, ClusterTypes
<1>3. UNCHANGED <<apiserver, cached, queue, locals>>
  BY DEF ChangeFilter, ChangeNamespace, Request, ChangeSource
<1>4. ClusterTypes'
  <2>1. CASE ChangeFilter
    BY <1>1, <1>2, <2>1 DEF ChangeFilter, ClusterTypes
  <2>2. CASE ChangeNamespace
    <3>1. PICK n \in Namespace \ {Home} :
            /\ phase' = [phase EXCEPT ![n] = CASE phase[n] = "active" -> "leaving"
                                               [] phase[n] = "leaving" -> "absent"
                                               [] phase[n] = "absent" -> "active"]
            /\ copies' = IF phase[n] = "leaving" THEN [copies EXCEPT ![n] = None] ELSE copies
      BY <1>1, <2>2 DEF ChangeNamespace, ClusterTypes
    <3>2. phase' \in [Namespace -> {"active", "leaving", "absent"}]
      BY <1>1, <3>1 DEF ClusterTypes
    <3>3. copies' \in [Namespace -> Copy \cup {None}]
      BY <1>1, <3>1 DEF ClusterTypes
    <3>4. QED
      BY <1>1, <1>2, <2>2, <3>2, <3>3 DEF ChangeNamespace, ClusterTypes
  <2>3. CASE Request
    BY <1>1, <1>2, <2>3 DEF Request, ClusterTypes, cluster
  <2>4. CASE ChangeSource
    BY <1>1, <1>2, <2>4 DEF ChangeSource, ClusterTypes, cluster
  <2>5. QED
    BY <2>1, <2>2, <2>3, <2>4
<1>5. QED
  BY <1>1, <1>3, <1>4, UnchangedFacts, OthersStep

LEMMA CrashStep ==
    ASSUME IInv, Crash
    PROVE  IInv'
<1>1. ServerTypes /\ WorkerTypes /\ ClusterTypes /\ DeletionWaits
  BY IInvParts
<1>2. /\ cached' = live /\ live' = live /\ current' = {"cache"}
      /\ due' = [c \in Syncer |-> FALSE]
      /\ queued' = [c \in Syncer |-> Matches(c, live)]
      /\ stage' = [c \in Syncer |-> "idle"]
  BY DEF Crash
<1>3. budget' \in Budget
  BY <1>1, SpendType DEF Crash, Fault, ClusterTypes
<1>4. ServerTypes' /\ ClusterTypes' /\ DeletionWaits'
  BY <1>1, <1>2, <1>3 DEF ServerTypes, ClusterTypes, DeletionWaits, Crash, cluster
<1>5. \A c \in Syncer : Matches(c, live) \in BOOLEAN
  BY <1>1 DEF Matches, ServerTypes, MaybeCertificate, Certificate
<1>6. NoJob \in Job
  BY DEF NoJob, Job
<1>7. WorkerTypes'
  BY <1>1, <1>2, <1>5, <1>6 DEF WorkerTypes, Crash, Stage, MaybeCertificate, BusyHasOne, Idle
<1>8. CacheFollows' /\ EventsAreDue' /\ AlwaysComesBack'
  BY <1>2 DEF CacheFollows, EventsAreDue, AlwaysComesBack, Matches
<1>9. QED
  BY <1>4, <1>7, <1>8, TypeOKParts DEF IInv, TypeOK, ServerTypes, WorkerTypes,
     ClusterTypes, MaybeCertificate, Budget

----------------------------------------------------------------------------
(* The theorems. *)

LEMMA Start == Init => IInv
<1> SUFFICES ASSUME Init PROVE IInv
  OBVIOUS
<1>1. PICK c \in Syncer : live = NewCertificate(c)
  BY DEF Init
<1>2. live \in Certificate /\ ~live.deleting
  BY <1>1, NewCertificateType
<1>3. ServerTypes /\ DeletionWaits
  BY <1>2 DEF Init, ServerTypes, DeletionWaits, MaybeCertificate, Certificate
<1>4. NoJob \in Job
  BY DEF NoJob, Job
<1>5. WorkerTypes
  BY <1>4 DEF Init, WorkerTypes, Stage, MaybeCertificate, BusyHasOne, Idle
<1>6. ClusterTypes
  <2>1. MaxEdits \in Nat /\ MaxOutages \in Nat /\ MaxFaults \in Nat
    BY CertSyncAssumption
  <2>2. budget \in Budget
    BY <2>1 DEF Init, Budget
  <2>3. QED
    BY <2>2 DEF Init, ClusterTypes, MaybeCertificate
<1>7. CacheFollows /\ EventsAreDue /\ AlwaysComesBack
  BY DEF Init, CacheFollows, EventsAreDue, AlwaysComesBack, Matches
<1>8. QED
  BY <1>3, <1>5, <1>6, <1>7, TypeOKParts DEF IInv

LEMMA Step == IInv /\ [Next]_vars => IInv'
<1> SUFFICES ASSUME IInv, [Next]_vars PROVE IInv'
  OBVIOUS
<1>1. ASSUME NEW c \in Syncer, Begin(c) \/ Reconcile(c) PROVE IInv'
  BY <1>1, BeginStep, ReleaseStep, ClaimStep, FetchStep, BuildStep, SoftStep, VerifyStep, WriteStep,
     PostWriteStep, MarkStep, ClearCertDriftStep, SetReadyStep DEF Reconcile
<1>2. CASE Environment
  BY <1>2, DeliverStep, DeleteStep, CreateStep, AnnotateStep, ChangeIssuerStep,
     ClusterStep, CrashStep DEF Environment
<1>3. CASE UNCHANGED vars
  <2>1. ServerTypes /\ ClusterTypes /\ DeletionWaits
    BY IInvParts
  <2>2. /\ UNCHANGED <<apiserver, cached, queue, locals>>
        /\ UNCHANGED <<cloud, copies, phase, filter, requests, budget>>
    BY <1>3 DEF vars, cluster
  <2>3. ClusterTypes'
    BY <2>1, <2>2 DEF ClusterTypes
  <2>4. QED
    BY <2>1, <2>2, <2>3, UnchangedFacts, OthersStep
<1>4. QED
  BY <1>1, <1>2, <1>3 DEF Next

(* CertSync keeps its types.                                               *)
THEOREM TypesAreKept == Spec => []TypeOK
<1>1. IInv => TypeOK
  BY DEF IInv
<1>2. QED
  BY <1>1, Start, Step, PTL DEF Spec

(* Whatever calls fail, whoever edits, deletes or recreates the Certificate *)
(* and whenever the process restarts, a Certificate with a syncer's         *)
(* annotation is never dropped by it (certsync.go:80-220): no reconcile     *)
(* returns without an error and without a requeue unless the cache it read  *)
(* is right, or an event is still to come.                                  *)
THEOREM NeverDropped == Spec => []AlwaysComesBack
<1>1. IInv => AlwaysComesBack
  BY DEF IInv
<1>2. QED
  BY <1>1, Start, Step, PTL DEF Spec

----------------------------------------------------------------------------
(***************************************************************************)
(* CertSync writes no copy of a Certificate that does not carry its         *)
(* finalizer, whatever the cache still shows, as long as nobody adds or     *)
(* removes annotations.                                                     *)
(*                                                                          *)
(* A worker that writes has taken the finalizer from the cache or put it on *)
(* itself, and only a release takes it off.  The invariant therefore says   *)
(* that what the cache shows of a finalizer is still so (CacheIsHonest),    *)
(* that a worker on its way to a release or a claim acts on what the server *)
(* and the cache both hold, or is refused (ActsOnTruth), and that the only  *)
(* syncer that could release a Certificate is the one busy with it          *)
(* (OneAnnotation, Guarded).                                                *)
(***************************************************************************)

OneOnly(o) == o # Gone => \E c \in Syncer : o.ann = {c}

OneAnnotation ==
    /\ OneOnly(live)
    /\ OneOnly(cached)
    /\ \A c \in Syncer : OneOnly(local[c])

\* The Certificate is there, c's alone, and has the finalizer.
Guards(c) == live # Gone /\ live.finalizer /\ live.ann = {c}

Guarded ==
    \A c \in Syncer : stage[c] \notin {"idle", "release", "claim"} => Guards(c)

CacheIsHonest ==
    cached # Gone /\ cached.finalizer /\ ~cached.deleting =>
        live # Gone /\ live.finalizer /\ live.ann = cached.ann

Deciding(c) == stage[c] \in {"release", "claim"}

ActsOnTruth ==
    \A c \in Syncer :
        /\ c \in current => ~Idle(c)
        /\ Deciding(c) =>
              /\ c \in local[c].ann
              /\ IF stage[c] = "release" THEN local[c].deleting ELSE ~local[c].finalizer
              /\ c \in current => "cache" \in current /\ cached = local[c]

Covered == OneAnnotation /\ Guarded /\ CacheIsHonest /\ ActsOnTruth

FInv == IInv /\ Covered

\* A step takes no finalizer off, and whoever decides, and still holds the
\* current version, held it before.
Kept ==
    /\ live' # live =>
          /\ live # Gone /\ live' # Gone /\ live'.ann = live.ann
          /\ live.finalizer => live'.finalizer
          /\ \A c \in Syncer : c \in current' => ~Deciding(c)'
    /\ live' = live => ("cache" \in current' <=> "cache" \in current)
    /\ \A c \in Syncer :
          c \in current' => ~Idle(c)' /\ (Deciding(c)' => c \in current)


----------------------------------------------------------------------------
(* Types. *)

LEMMA FTypes ==
    ASSUME IInv
    PROVE  /\ live \in Certificate \cup {Gone} /\ cached \in Certificate \cup {Gone}
           /\ Gone \notin Certificate /\ "cache" \notin Syncer
           /\ current \subseteq Syncer \cup {"cache"}
           /\ stage \in [Syncer -> Stage]
           /\ local \in [Syncer -> Certificate \cup {Gone}]
           /\ \A c \in Syncer : stage[c] # "idle" => local[c] \in Certificate
           /\ "cache" \in current => cached = live
BY CertSyncAssumption, CertSyncGoneAssumption
   DEF IInv, TypeOK, CacheFollows, BusyHasOne, Idle

LEMMA WithCondition ==
    ASSUME NEW o \in Certificate, NEW k
    PROVE  LET p == [o EXCEPT !.cond = k]
           IN  p.ann = o.ann /\ p.finalizer = o.finalizer /\ p.deleting = o.deleting
BY DEF Certificate

----------------------------------------------------------------------------
(* What a step that is Kept preserves. *)

LEMMA KeptGuards ==
    ASSUME Kept, NEW c \in Syncer, Guards(c)
    PROVE  Guards(c)'
BY DEF Kept, Guards

LEMMA KeptCache ==
    ASSUME Kept, CacheIsHonest, cached' = cached
    PROVE  CacheIsHonest'
BY DEF Kept, CacheIsHonest

\* A step of c's reconcile that does not lead to a decision.
LEMMA WorkerKept ==
    ASSUME FInv, Kept, cached' = cached,
           NEW c \in Syncer, stage[c] # "idle",
           NEW s \in Stage \ {"release", "claim"}, stage' = [stage EXCEPT ![c] = s],
           NEW o, OneOnly(o), local' = [local EXCEPT ![c] = o],
           s # "idle" => Guards(c)'
    PROVE  Covered'
<1>1. /\ stage \in [Syncer -> Stage] /\ stage'[c] = s
      /\ \A d \in Syncer \ {c} : stage'[d] = stage[d] /\ local'[d] = local[d]
      /\ local'[c] = o
  BY FTypes DEF FInv
<1>2. OneAnnotation'
  <2>1. OneOnly(live')
    BY DEF FInv, Covered, OneAnnotation, OneOnly, Kept
  <2>2. \A d \in Syncer : OneOnly(local'[d])
    BY <1>1 DEF FInv, Covered, OneAnnotation
  <2>3. QED
    BY <2>1, <2>2 DEF FInv, Covered, OneAnnotation, OneOnly
<1>3. Guarded'
  BY <1>1, KeptGuards DEF FInv, Covered, Guarded
<1>4. CacheIsHonest'
  BY KeptCache DEF FInv, Covered
<1>5. ActsOnTruth'
  <2> SUFFICES ASSUME NEW d \in Syncer
               PROVE  /\ d \in current' => ~Idle(d)'
                      /\ Deciding(d)' =>
                            /\ d \in local'[d].ann
                            /\ IF stage'[d] = "release" THEN local'[d].deleting
                                                        ELSE ~local'[d].finalizer
                            /\ d \in current' => "cache" \in current' /\ cached' = local'[d]
    BY DEF ActsOnTruth, Deciding, Idle
  <2>1. d \in current' => ~Idle(d)'
    BY DEF Kept
  <2>2. Deciding(d)' => Deciding(d) /\ d # c
    BY <1>1 DEF Deciding
  <2>3. Deciding(d)' /\ d \in current' => live' = live /\ d \in current
    BY DEF Kept
  <2>4. QED
    BY <1>1, <2>1, <2>2, <2>3 DEF FInv, Covered, ActsOnTruth, Kept
<1>6. QED
  BY <1>2, <1>3, <1>4, <1>5 DEF Covered

\* A step of somebody else.
LEMMA OthersKept ==
    ASSUME FInv, Kept, UNCHANGED <<cached, stage, local>>
    PROVE  Covered'
<1>1. OneAnnotation'
  BY DEF FInv, Covered, OneAnnotation, OneOnly, Kept
<1>2. Guarded'
  BY KeptGuards DEF FInv, Covered, Guarded
<1>3. CacheIsHonest'
  BY KeptCache DEF FInv, Covered
<1>4. ActsOnTruth'
  BY DEF FInv, Covered, ActsOnTruth, Kept, Deciding, Idle
<1>5. QED
  BY <1>1, <1>2, <1>3, <1>4 DEF Covered

----------------------------------------------------------------------------
(* Calls to the API server. *)

\* A call by c that leaves finalizer and annotations as they are.
LEMMA CallKept ==
    ASSUME FInv, NEW c \in Syncer, NEW s \in Stage \ {"release", "claim"},
           stage' = [stage EXCEPT ![c] = s],
           NEW o,
           \/ NotPublished
           \/ /\ live # Gone /\ o # Gone /\ o.ann = live.ann
              /\ live.finalizer => o.finalizer
              /\ Publish(o, {c}) \/ Publish(o, {})
    PROVE  Kept
<1>1. /\ stage \in [Syncer -> Stage] /\ stage'[c] = s /\ "cache" \notin Syncer
      /\ \A d \in Syncer \ {c} : stage'[d] = stage[d]
  BY FTypes DEF FInv
<1>2. CASE NotPublished
  BY <1>1, <1>2 DEF NotPublished, Holding, Kept, Idle, Deciding, FInv, Covered, ActsOnTruth
<1>3. ASSUME NEW h \in SUBSET {c}, Publish(o, h), live # Gone, o # Gone, o.ann = live.ann,
             live.finalizer => o.finalizer
      PROVE  Kept
  <2>1. CASE o = live
    BY <1>1, <1>3, <2>1 DEF Publish, Holding, Kept, Idle, Deciding
  <2>2. CASE o # live
    BY <1>1, <1>3, <2>2 DEF Publish, Holding, Kept, Idle, Deciding
  <2>3. QED
    BY <2>1, <2>2
<1>4. QED
  BY <1>2, <1>3

LEMMA PatchKept ==
    ASSUME FInv, NEW c \in Syncer, NEW s \in Stage \ {"release", "claim"},
           stage' = [stage EXCEPT ![c] = s],
           NEW k \in Condition, PatchOK(c, k) \/ PatchFails(c, k)
    PROVE  Kept
<1>1. live # Gone => live \in Certificate /\ Gone \notin Certificate
  BY FTypes DEF FInv
<1>2. CASE NotPublished
  BY <1>2, CallKept
<1>3. CASE live # Gone /\ (Publish(Patched(c, k), {c}) \/ Publish(Patched(c, k), {}))
  <2>1. /\ Patched(c, k).ann = live.ann
        /\ Patched(c, k).finalizer = live.finalizer
    BY <1>1, <1>3, WithCondition DEF Patched
  <2>2. Patched(c, k) # Gone
    BY <1>1, <1>3, CertificateParts DEF Patched
  <2>3. QED
    BY <1>3, <2>1, <2>2, CallKept
<1>4. QED
  BY <1>2, <1>3 DEF PatchOK, PatchFails

----------------------------------------------------------------------------
(* One reconcile. *)

LEMMA BeginCovered ==
    ASSUME FInv, NEW c \in Syncer, Begin(c)
    PROVE  Covered'
<1>1. /\ UNCHANGED <<live, cached>> /\ Idle(c)
      /\ stage \in [Syncer -> Stage] /\ local \in [Syncer -> Certificate \cup {Gone}]
      /\ "cache" \notin Syncer
  BY FTypes DEF FInv, Begin
<1>2. CASE UNCHANGED <<stage, local, current>>
  <2>1. Kept
    BY <1>1, <1>2 DEF FInv, Covered, ActsOnTruth, Kept, Idle, Deciding
  <2>2. QED
    BY <1>1, <1>2, <2>1, OthersKept
<1>3. CASE /\ cached # Gone /\ c \in cached.ann
           /\ Goto(c, IF cached.deleting THEN "release"
                      ELSE IF cached.finalizer THEN "fetch" ELSE "claim")
           /\ Keep(c, cached)
           /\ current' = IF "cache" \in current THEN current \cup {c} ELSE current
  <2>1. /\ stage'[c] = (IF cached.deleting THEN "release"
                        ELSE IF cached.finalizer THEN "fetch" ELSE "claim")
        /\ local'[c] = cached
        /\ \A d \in Syncer \ {c} : stage'[d] = stage[d] /\ local'[d] = local[d]
    BY <1>1, <1>3 DEF Goto, Keep
  <2>2. OneAnnotation'
    BY <1>1, <2>1 DEF FInv, Covered, OneAnnotation, OneOnly
  <2>3. stage'[c] = "fetch" => Guards(c)
    BY <1>3, <2>1 DEF FInv, Covered, CacheIsHonest, OneAnnotation, OneOnly, Guards
  <2>4. Guarded'
    BY <1>1, <2>1, <2>3 DEF FInv, Covered, Guarded, Guards
  <2>5. CacheIsHonest'
    BY <1>1 DEF FInv, Covered, CacheIsHonest
  <2>6. c \notin current
    BY <1>1 DEF FInv, Covered, ActsOnTruth
  <2>7. ActsOnTruth'
    <3>1. ASSUME NEW d \in Syncer \ {c}
          PROVE  /\ d \in current' <=> d \in current
                 /\ Idle(d)' <=> Idle(d)
                 /\ Deciding(d)' <=> Deciding(d)
      BY <1>3, <2>1 DEF Idle, Deciding
    <3>2. "cache" \in current' <=> "cache" \in current
      BY <1>1, <1>3
    <3>3. /\ ~Idle(c)'
          /\ c \in current' => "cache" \in current'
          /\ Deciding(c)' => IF stage'[c] = "release" THEN local'[c].deleting
                                                     ELSE ~local'[c].finalizer
      BY <1>1, <1>3, <2>1, <2>6 DEF Idle, Deciding
    <3>4. QED
      BY <1>1, <1>3, <2>1, <3>1, <3>2, <3>3 DEF FInv, Covered, ActsOnTruth
  <2>8. QED
    BY <2>2, <2>4, <2>5, <2>7 DEF Covered
<1>4. QED
  BY <1>2, <1>3 DEF Begin

LEMMA ReleaseCovered ==
    ASSUME FInv, NEW c \in Syncer, Release(c)
    PROVE  Covered'
<1>1. /\ stage[c] = "release" /\ cached' = cached
      /\ stage' = [stage EXCEPT ![c] = "idle"] /\ local' = [local EXCEPT ![c] = Gone]
      /\ "idle" \in Stage \ {"release", "claim"} /\ OneOnly(Gone)
  BY DEF Release, Return, Goto, Keep, Stage, OneOnly
<1>2. CASE NotPublished
  <2>1. Kept
    BY <1>1, <1>2, CallKept
  <2>2. QED
    BY <1>1, <2>1, WorkerKept
\* The cache holds the Certificate as it is, about to be deleted, and nobody
\* else is busy with it.
<1>3. CASE c \in current /\ live # Gone /\ (Publish(Gone, {c}) \/ Publish(Gone, {}))
  <2>1. cached = live /\ cached.deleting /\ c \in live.ann
    BY <1>1, <1>3, FTypes DEF FInv, Covered, ActsOnTruth, Deciding
  <2>2. live.ann = {c}
    BY <1>3, <2>1 DEF FInv, Covered, OneAnnotation, OneOnly
  <2>3. live' = Gone /\ current' \cap Syncer = {}
    BY <1>1, <1>3, FTypes DEF FInv, Publish, Holding
  <2>4. /\ stage \in [Syncer -> Stage] /\ local \in [Syncer -> Certificate \cup {Gone}]
    BY FTypes DEF FInv
  <2>5. /\ stage'[c] = "idle" /\ local'[c] = Gone
        /\ \A d \in Syncer \ {c} : stage'[d] = stage[d] /\ local'[d] = local[d]
    BY <1>1, <2>4
  <2>6. OneAnnotation'
    BY <1>1, <2>3, <2>5 DEF FInv, Covered, OneAnnotation, OneOnly
  <2>7. Guarded'
    BY <2>2, <2>5 DEF FInv, Covered, Guarded, Guards
  <2>8. CacheIsHonest'
    BY <1>1, <2>1 DEF CacheIsHonest
  <2>9. ActsOnTruth'
    BY <1>1, <2>3, <2>5 DEF FInv, Covered, ActsOnTruth, Deciding, Idle
  <2>10. QED
    BY <2>6, <2>7, <2>8, <2>9 DEF Covered
<1>4. QED
  BY <1>2, <1>3 DEF Release, UpdateOK, UpdateFails

LEMMA ClaimCovered ==
    ASSUME FInv, NEW c \in Syncer, Claim(c)
    PROVE  Covered'
<1> DEFINE claimed == [local[c] EXCEPT !.finalizer = TRUE]
<1>1. stage[c] = "claim" /\ cached' = cached /\ local[c] \in Certificate
  BY FTypes DEF FInv, Claim
<1>2. claimed # Gone /\ claimed.finalizer /\ claimed.ann = local[c].ann
  <2>1. claimed \in Certificate
    BY <1>1 DEF Certificate
  <2>2. QED
    BY <1>1, <2>1, CertSyncGoneAssumption DEF Certificate
<1>3. ASSUME c \in current
      PROVE  live = local[c] /\ live.ann = {c}
  <2>1. cached = live /\ cached = local[c] /\ c \in local[c].ann
    BY <1>1, <1>3, FTypes DEF FInv, Covered, ActsOnTruth, Deciding
  <2>2. QED
    BY <1>1, <2>1, CertSyncGoneAssumption DEF FInv, Covered, OneAnnotation, OneOnly
<1>4. ASSUME NEW s \in {"idle", "fetch"}, stage' = [stage EXCEPT ![c] = s],
             \/ NotPublished
             \/ c \in current /\ live # Gone /\ (Publish(claimed, {c}) \/ Publish(claimed, {}))
      PROVE  Kept
  <2>1. s \in Stage \ {"release", "claim"}
    BY DEF Stage
  <2>2. QED
    BY <1>2, <1>3, <1>4, <2>1, CallKept
<1>5. CASE Return(c, TRUE) /\ UpdateFails(c, claimed)
  <2>1. /\ stage' = [stage EXCEPT ![c] = "idle"] /\ local' = [local EXCEPT ![c] = Gone]
        /\ "idle" \in Stage \ {"release", "claim"} /\ OneOnly(Gone)
    BY <1>5 DEF Return, Goto, Keep, Stage, OneOnly
  <2>2. Kept
    BY <1>4, <1>5, <2>1 DEF UpdateFails
  <2>3. QED
    BY <1>1, <2>1, <2>2, WorkerKept
<1>6. CASE Goto(c, "fetch") /\ Keep(c, claimed) /\ UpdateOK(c, claimed)
  <2>1. /\ stage' = [stage EXCEPT ![c] = "fetch"] /\ local' = [local EXCEPT ![c] = claimed]
        /\ "fetch" \in Stage \ {"release", "claim"}
    BY <1>6 DEF Goto, Keep, Stage
  <2>2. Kept
    BY <1>4, <1>6, <2>1 DEF UpdateOK
  <2>3. OneOnly(claimed) /\ Guards(c)'
    BY <1>2, <1>3, <1>6 DEF UpdateOK, Publish, OneOnly, Guards
  <2>4. QED
    BY <1>1, <2>1, <2>2, <2>3, WorkerKept
<1>7. QED
  BY <1>5, <1>6 DEF Claim

\* Steps that write no Certificate.
LEMMA InnerCovered ==
    ASSUME FInv, NEW c \in Syncer, Fetch(c) \/ Build(c) \/ Verify(c) \/ Write(c)
    PROVE  Covered'
<1>1. /\ UNCHANGED <<apiserver, cached, local>>
      /\ stage[c] \in {"fetch", "build", "verify", "write"}
      /\ \E s \in Stage \ {"idle", "release", "claim"} : stage' = [stage EXCEPT ![c] = s]
  <2>1. stage = [stage EXCEPT ![c] = stage[c]]
    BY FTypes DEF FInv
  <2>2. {"build", "mark", "soft", "verify", "write", "post"}
            \subseteq Stage \ {"idle", "release", "claim"}
    BY DEF Stage
  <2>3. QED
    BY <2>1, <2>2 DEF Fetch, Build, Verify, Write, Goto
<1>2. PICK s \in Stage \ {"idle", "release", "claim"} : stage' = [stage EXCEPT ![c] = s]
  BY <1>1
<1>3. stage \in [Syncer -> Stage] /\ local = [local EXCEPT ![c] = local[c]]
  BY FTypes DEF FInv
<1>4. Kept
  BY <1>1, <1>2, <1>3 DEF apiserver, Kept, Idle, Deciding, FInv, Covered, ActsOnTruth
<1>5. Guards(c) /\ OneOnly(local[c])
  BY <1>1 DEF FInv, Covered, Guarded, OneAnnotation
<1>6. QED
  BY <1>1, <1>2, <1>3, <1>4, <1>5, KeptGuards, WorkerKept

\* Marks that are put down on the way.
LEMMA ReportCovered ==
    ASSUME FInv, NEW c \in Syncer, stage[c] \in {"soft", "clear"}, cached' = cached,
           NEW v \in Failure \cup {"none", "Synced"}, Report(c, v),
           NEW s \in Stage \ {"idle", "release", "claim"}, Goto(c, s)
    PROVE  Covered'
<1> DEFINE cond == Synced(c, v)
<1>1. /\ local[c] \in Certificate /\ cond \in Condition
      /\ local \in [Syncer -> Certificate \cup {Gone}]
      /\ stage' = [stage EXCEPT ![c] = s]
  BY FTypes, ConditionParts DEF FInv, Goto
<1>2. Kept
  BY <1>1, PatchKept, CallKept DEF Report
<1>3. Guards(c)'
  BY <1>2, KeptGuards DEF FInv, Covered, Guarded
<1>4. PICK o : OneOnly(o) /\ local' = [local EXCEPT ![c] = o]
  <2>1. CASE Keep(c, live')
    BY <1>2, <2>1 DEF Keep, Kept, OneOnly, FInv, Covered, OneAnnotation
  <2>2. CASE Keep(c, [local[c] EXCEPT !.cond = cond])
    <3>1. OneOnly([local[c] EXCEPT !.cond = cond])
      BY <1>1, WithCondition, CertSyncGoneAssumption DEF FInv, Covered, OneAnnotation, OneOnly
    <3>2. QED
      BY <2>2, <3>1 DEF Keep
  <2>3. CASE UNCHANGED local
    <3>1. local' = [local EXCEPT ![c] = local[c]] /\ OneOnly(local[c])
      BY <1>1, <2>3 DEF FInv, Covered, OneAnnotation
    <3>2. QED
      BY <3>1
  <2>4. QED
    BY <2>1, <2>2, <2>3 DEF Report
<1>5. QED
  BY <1>1, <1>2, <1>3, <1>4, WorkerKept

\* The end of a reconcile.
LEMMA ReturnCovered ==
    ASSUME FInv, NEW c \in Syncer, stage[c] # "idle", cached' = cached,
           Return(c, TRUE),
           \/ NotPublished
           \/ \E k \in Condition : PatchOK(c, k) \/ PatchFails(c, k)
    PROVE  Covered'
<1>1. /\ stage' = [stage EXCEPT ![c] = "idle"] /\ local' = [local EXCEPT ![c] = Gone]
      /\ "idle" \in Stage \ {"release", "claim"} /\ OneOnly(Gone)
  BY DEF Return, Goto, Keep, Stage, OneOnly
<1>2. Kept
  BY <1>1, CallKept, PatchKept
<1>3. QED
  BY <1>1, <1>2, WorkerKept

LEMMA PostWriteCovered ==
    ASSUME FInv, NEW c \in Syncer, PostWrite(c)
    PROVE  Covered'
<1>1. stage[c] = "post" /\ cached' = cached /\ UNCHANGED <<live, due>>
  BY DEF PostWrite
<1>2. CASE Return(c, TRUE) /\ current' = Holding(current)
  BY <1>1, <1>2, ReturnCovered DEF NotPublished
<1>3. CASE Goto(c, "clear") /\ UNCHANGED <<current, local>>
  <2>1. /\ stage' = [stage EXCEPT ![c] = "clear"] /\ "clear" \in Stage \ {"release", "claim"}
        /\ stage \in [Syncer -> Stage]
        /\ local' = [local EXCEPT ![c] = local[c]]
    BY <1>3, FTypes DEF FInv, Goto, Stage
  <2>2. Kept
    BY <1>1, <1>3, <2>1 DEF Kept, Idle, Deciding, FInv, Covered, ActsOnTruth
  <2>3. Guards(c)' /\ OneOnly(local[c])
    BY <1>1, <2>2, KeptGuards DEF FInv, Covered, Guarded, OneAnnotation
  <2>4. QED
    BY <1>1, <2>1, <2>2, <2>3, WorkerKept
<1>4. QED
  BY <1>2, <1>3 DEF PostWrite

LEMMA ReconcileCovered ==
    ASSUME FInv, NEW c \in Syncer, Reconcile(c)
    PROVE  Covered'
<1>1. /\ stage[c] # "idle" => local[c] \in Certificate
      /\ why[c] \in Failure \cup {"none", "Synced"}
  BY FTypes, IInvParts DEF FInv
<1>2. CASE Soft(c)
  BY <1>1, <1>2, ReportCovered DEF Soft, Stage
<1>3. CASE ClearCertDrift(c)
  BY <1>3, ReportCovered DEF ClearCertDrift, Stage
<1>4. CASE Mark(c)
  <2>1. Synced(c, why[c]) \in Condition
    BY <1>1, <1>4, ConditionParts DEF Mark
  <2>2. QED
    BY <1>4, <2>1, ReturnCovered DEF Mark
<1>5. CASE SetReady(c)
  <2>1. [local[c].cond EXCEPT !.ready = "Synced"] \in Condition
    BY <1>1, <1>5, ConditionParts DEF SetReady
  <2>2. QED
    BY <1>5, <2>1, ReturnCovered DEF SetReady
<1>6. QED
  BY <1>2, <1>3, <1>4, <1>5, ReleaseCovered, ClaimCovered, InnerCovered, PostWriteCovered
     DEF Reconcile

----------------------------------------------------------------------------
(* The rest of the world. *)

LEMMA DeliverCovered ==
    ASSUME FInv, Deliver
    PROVE  Covered'
<1>1. /\ cached' = live /\ UNCHANGED <<live, stage, local>>
      /\ "cache" \notin current /\ current' = current \cup {"cache"} /\ "cache" \notin Syncer
  BY FTypes DEF FInv, Deliver, locals
<1>2. OneAnnotation' /\ Guarded' /\ CacheIsHonest'
  BY <1>1 DEF FInv, Covered, OneAnnotation, Guarded, Guards, CacheIsHonest
<1>3. ActsOnTruth'
  BY <1>1 DEF FInv, Covered, ActsOnTruth, Deciding, Idle
<1>4. QED
  BY <1>2, <1>3 DEF Covered

\* An edit that takes neither the finalizer nor an annotation away.
LEMMA EditCovered ==
    ASSUME FInv, NEW kind, NEW o, Edit(kind, o),
           live # Gone, o # Gone, o.ann = live.ann, live.finalizer => o.finalizer
    PROVE  Covered'
<1>1. /\ o # live /\ Publish(o, {}) /\ UNCHANGED <<cached, stage, local>>
      /\ "cache" \notin Syncer
  BY FTypes DEF FInv, Edit, locals
<1>2. live' = o /\ current' = {}
  BY <1>1 DEF Publish, Holding
<1>3. Kept
  BY <1>1, <1>2 DEF Kept
<1>4. QED
  BY <1>1, <1>3, OthersKept

\* Without a finalizer nobody is busy, and a Certificate may come and go.
LEMMA UnguardedEdit ==
    ASSUME FInv, NEW kind, NEW o, Edit(kind, o), OneOnly(o),
           live = Gone \/ ~live.finalizer
    PROVE  Covered'
<1>1. /\ UNCHANGED <<cached, stage, local>> /\ live' = o /\ current' = {}
  BY DEF Edit, Publish, Holding, locals
<1>2. \A c \in Syncer : ~Guards(c)
  BY DEF Guards
<1>3. OneAnnotation' /\ Guarded'
  BY <1>1, <1>2 DEF FInv, Covered, OneAnnotation, OneOnly, Guarded
<1>4. CacheIsHonest'
  BY <1>1 DEF FInv, Covered, CacheIsHonest
<1>5. ActsOnTruth'
  BY <1>1 DEF FInv, Covered, ActsOnTruth, Deciding, Idle
<1>6. QED
  BY <1>3, <1>4, <1>5 DEF Covered

LEMMA LifetimeCovered ==
    ASSUME FInv, Delete \/ Create
    PROVE  Covered'
<1>1. CASE Delete
  <2>1. live \in Certificate
    BY <1>1, FTypes DEF FInv, Delete
  <2>2. CASE live.finalizer
    <3> DEFINE o == [live EXCEPT !.deleting = TRUE]
    <3>1. o \in Certificate /\ o.ann = live.ann /\ o.finalizer = live.finalizer
      BY <2>1 DEF Certificate
    <3>2. Edit("lifetime", o) /\ o # Gone /\ live # Gone
      BY <1>1, <2>2, <3>1, CertSyncGoneAssumption DEF Delete
    <3>3. QED
      BY <3>1, <3>2, EditCovered
  <2>3. CASE ~live.finalizer
    BY <1>1, <2>3, UnguardedEdit DEF Delete, OneOnly
  <2>4. QED
    BY <2>2, <2>3
<1>2. CASE Create
  <2>1. PICK c \in Syncer : Edit("lifetime", NewCertificate(c))
    BY <1>2 DEF Create
  <2>2. OneOnly(NewCertificate(c))
    BY DEF OneOnly, NewCertificate
  <2>3. QED
    BY <1>2, <2>1, <2>2, UnguardedEdit DEF Create
<1>3. QED
  BY <1>1, <1>2

LEMMA ChangeIssuerCovered ==
    ASSUME FInv, ChangeIssuer
    PROVE  Covered'
<1>1. live \in Certificate /\ live # Gone
  BY FTypes DEF FInv, ChangeIssuer
<1>2. ASSUME NEW o \in Certificate, o.ann = live.ann, o.finalizer = live.finalizer,
             Edit("issuer", o)
      PROVE  Covered'
  BY <1>1, <1>2, EditCovered, CertSyncGoneAssumption
<1>3. CASE \E k \in Syncer : Edit("issuer", [live EXCEPT !.kind = k])
  BY <1>1, <1>2, <1>3 DEF Certificate
<1>4. CASE Edit("issuer", [live EXCEPT !.ours = ~@])
  BY <1>1, <1>2, <1>4 DEF Certificate
<1>5. QED
  BY <1>3, <1>4 DEF ChangeIssuer

LEMMA ElsewhereCovered ==
    ASSUME FInv, UNCHANGED <<apiserver, cached, locals>>
    PROVE  Covered'
<1>1. UNCHANGED <<live, current, cached, stage, local>>
  BY DEF apiserver, locals
<1>2. Kept
  BY <1>1 DEF Kept, Idle, Deciding, FInv, Covered, ActsOnTruth
<1>3. QED
  BY <1>1, <1>2, OthersKept

LEMMA CrashCovered ==
    ASSUME FInv, Crash
    PROVE  Covered'
<1>1. /\ cached' = live /\ live' = live /\ current' = {"cache"} /\ "cache" \notin Syncer
      /\ stage' = [c \in Syncer |-> "idle"] /\ local' = [c \in Syncer |-> Gone]
  BY FTypes DEF FInv, Crash
<1>2. OneAnnotation' /\ Guarded' /\ CacheIsHonest'
  BY <1>1 DEF FInv, Covered, OneAnnotation, OneOnly, Guarded, CacheIsHonest
<1>3. ActsOnTruth'
  BY <1>1 DEF ActsOnTruth, Deciding
<1>4. QED
  BY <1>2, <1>3 DEF Covered

----------------------------------------------------------------------------
(* The theorem. *)

LEMMA FStart == Init => FInv
<1> SUFFICES ASSUME Init PROVE FInv
  OBVIOUS
<1>1. PICK c \in Syncer : live = NewCertificate(c)
  BY DEF Init
<1>2. OneAnnotation
  BY <1>1 DEF Init, OneAnnotation, OneOnly, NewCertificate
<1>3. Guarded /\ CacheIsHonest /\ ActsOnTruth
  BY DEF Init, Guarded, CacheIsHonest, ActsOnTruth, Deciding
<1>4. QED
  BY <1>2, <1>3, Start DEF FInv, Covered

LEMMA FStep ==
    ASSUME "annotation" \notin Meddling
    PROVE  FInv /\ [Next]_vars => FInv'
<1> SUFFICES ASSUME FInv, [Next]_vars PROVE FInv'
  OBVIOUS
<1>1. IInv'
  BY Step DEF FInv
<1>2. ASSUME NEW c \in Syncer, Begin(c) \/ Reconcile(c) PROVE Covered'
  BY <1>2, BeginCovered, ReconcileCovered
<1>3. ~Annotate
  BY DEF Annotate, Edit, Meddle
<1>4. ASSUME ChangeFilter \/ ChangeNamespace \/ Request \/ ChangeSource PROVE Covered'
  BY <1>4, ElsewhereCovered DEF ChangeFilter, ChangeNamespace, Request, ChangeSource
<1>5. ASSUME Environment PROVE Covered'
  BY <1>3, <1>4, <1>5, DeliverCovered, LifetimeCovered, ChangeIssuerCovered, CrashCovered
     DEF Environment
<1>6. ASSUME UNCHANGED vars PROVE Covered'
  BY <1>6, ElsewhereCovered DEF vars
<1>7. QED
  BY <1>1, <1>2, <1>5, <1>6 DEF Next, FInv

(* While nobody adds or removes annotations, no copy is written for a        *)
(* Certificate that is gone or could go without the syncer being told,       *)
(* however stale its cache, whatever calls fail, and whenever the            *)
(* Certificate is deleted, made again or moved to another issuer             *)
(* (certsync.go:86-103).                                                     *)
THEOREM FinalizerIsThere ==
    ASSUME "annotation" \notin Meddling
    PROVE  Spec => FinalizerGuardsWrites
<1>1. FInv /\ [Next]_vars => [Rewritten => live # Gone /\ live.finalizer]_vars
  <2> SUFFICES ASSUME FInv, Rewritten PROVE live # Gone /\ live.finalizer
    OBVIOUS
  <2>1. PICK c \in Syncer : Write(c)
    BY DEF Rewritten
  <2>2. QED
    BY <2>1 DEF Write, FInv, Covered, Guarded, Guards
<1>2. FInv /\ [Next]_vars => FInv'
  BY FStep
<1>3. QED
  BY <1>1, <1>2, FStart, PTL DEF Spec, FinalizerGuardsWrites

----------------------------------------------------------------------------
(***************************************************************************)
(* What the copies carry, while one syncer at a time is at work: because   *)
(* nobody adds or removes annotations, so that the finalizer is that of    *)
(* one syncer, or because there is only one.                               *)
(*                                                                         *)
(* From the build to the end of the loop a worker relies on what it has    *)
(* read: that the keystore it is about to write is the one in the          *)
(* Certificate's own namespace, or differs from it because the payload     *)
(* does (JobFits), and that the copies it has written stay (Progressed).   *)
(***************************************************************************)

OneAtATime == "annotation" \notin Meddling \/ \E c \in Syncer : Syncer = {c}

AtWork(c) == stage[c] \notin {"idle", "release", "claim"}

Alone == \A c, d \in Syncer : AtWork(c) /\ AtWork(d) => c = d

Empty == {"idle", "release", "claim", "fetch"}
Told == {"post", "clear", "ready"}

CopyOf(c) == [payload |-> job[c].mat, ks |-> job[c].ks]

\* A keystore if and only if one can be built.
KeyFits(s) == s.payload \in Payload /\ (s.ks = None <=> s.payload \in Keyless)

CopiesFit == \A n \in Namespace : copies[n] # None => KeyFits(copies[n])

JobFits(c) ==
    copies[Home] # None =>
        IF copies[Home].payload = job[c].mat THEN copies[Home].ks = job[c].ks
        ELSE job[c].ks # None => copies[Home].ks # job[c].ks

\* What has left the list has been written.
Progressed(c) ==
    Steady /\ ~job[c].failed =>
        \A n \in TargetNamespaces \ job[c].todo : copies[n] = CopyOf(c)

Earned(c) == Steady => \A n \in TargetNamespaces : copies[n] = CopyOf(c)

WorkOK(c) ==
    /\ stage[c] \in Empty => job[c] = NoJob
    /\ stage[c] = "build" => job[c].mat \in Payload
    /\ stage[c] \in {"build", "soft", "verify"} => ~job[c].failed
    /\ stage[c] \in {"soft", "verify", "write"} => KeyFits(CopyOf(c)) /\ JobFits(c)
    /\ stage[c] = "write" => Progressed(c)
    /\ stage[c] \in Told => Earned(c)

MInv ==
    /\ budget["edits"] <= MaxEdits
    /\ CopiesFit
    /\ \A c \in Syncer : WorkOK(c)

----------------------------------------------------------------------------
(* One at a time. *)

LEMMA GuardedIsAlone == Guarded => Alone
BY DEF Guarded, Guards, Alone, AtWork

LEMMA OneIsAlone ==
    ASSUME OneAtATime
    PROVE  Spec => []Alone
<1>1. CASE "annotation" \notin Meddling
  <2>1. FInv => Alone
    BY GuardedIsAlone DEF FInv, Covered
  <2>2. FInv /\ [Next]_vars => FInv'
    BY <1>1, FStep
  <2>3. QED
    BY <2>1, <2>2, FStart, PTL DEF Spec
<1>2. CASE \E c \in Syncer : Syncer = {c}
  <2>1. Alone
    BY <1>2 DEF Alone
  <2>2. QED
    BY <2>1, PTL
<1>3. QED
  BY <1>1, <1>2 DEF OneAtATime

----------------------------------------------------------------------------
(* Types. *)

LEMMA MTypes ==
    ASSUME IInv
    PROVE  /\ stage \in [Syncer -> Stage] /\ job \in [Syncer -> Job]
           /\ copies \in [Namespace -> Copy \cup {None}] /\ budget \in Budget
           /\ cloud \in Payload \cup {None}
           /\ Home \in Namespace /\ None \notin Copy
           /\ None \notin Payload /\ None \notin Nonce /\ MaxEdits \in Nat
BY CertSyncAssumption, CertSyncNoneAssumption
   DEF IInv, TypeOK, Budget

LEMMA CalmBudget ==
    ASSUME budget \in Budget, Fault \/ NoFault
    PROVE  budget'["edits"] = budget["edits"]
BY DEF Fault, NoFault, Spend, Budget

\* Meddling and outages take from the budget and give nothing.
LEMMA SpentBudget ==
    ASSUME budget \in Budget, NEW kind \in {"edits", "outages", "faults"}, Spend(kind)
    PROVE  /\ budget'["edits"] \in Nat /\ budget["edits"] \in Nat
           /\ budget'["edits"] = budget["edits"] - (IF kind = "edits" THEN 1 ELSE 0)
BY DEF Spend, Budget

----------------------------------------------------------------------------
(* What a step of one worker leaves of the others. *)

\* The worker of c goes on, alone if it writes a copy.
WorkerStep(c) ==
    /\ UNCHANGED <<phase, filter>>
    /\ budget'["edits"] = budget["edits"]
    /\ \E s \in Stage : stage' = [stage EXCEPT ![c] = s]
    /\ \E j \in Job : job' = [job EXCEPT ![c] = j]
    /\ copies' # copies => AtWork(c)

LEMMA OthersWorkOK ==
    ASSUME IInv, MInv, Alone, NEW c \in Syncer, WorkerStep(c),
           NEW d \in Syncer, d # c
    PROVE  WorkOK(d)'
<1>1. stage'[d] = stage[d] /\ job'[d] = job[d] /\ CopyOf(d)' = CopyOf(d)
  BY MTypes DEF WorkerStep, CopyOf
<1>2. Steady' = Steady /\ TargetNamespaces' = TargetNamespaces
  BY DEF WorkerStep, Steady, TargetNamespaces
<1>3. CASE AtWork(d)
  <2>1. copies' = copies
    BY <1>3 DEF WorkerStep, Alone
  <2>2. QED
    BY <1>1, <1>2, <2>1 DEF MInv, WorkOK, KeyFits, JobFits, Progressed, Earned, CopyOf
<1>4. CASE ~AtWork(d)
  BY <1>1, <1>4 DEF MInv, WorkOK, AtWork, Empty, Told, NoJob
<1>5. QED
  BY <1>3, <1>4

LEMMA WorkerStepOK ==
    ASSUME IInv, MInv, Alone, NEW c \in Syncer, WorkerStep(c), WorkOK(c)', CopiesFit'
    PROVE  MInv'
BY OthersWorkOK DEF MInv, WorkerStep

\* ... that goes on with the same job and writes nothing.
LEMMA Onward ==
    ASSUME IInv, MInv, Alone, NEW c \in Syncer, NEW s \in Stage,
           stage' = [stage EXCEPT ![c] = s],
           UNCHANGED <<job, copies, phase, filter>>, budget'["edits"] = budget["edits"],
           \/ s = "mark" \/ s = stage[c]
           \/ stage[c] \in Empty /\ s \in Empty
           \/ stage[c] = "soft" /\ s = "verify"
           \/ stage[c] \in Told /\ s \in Told
    PROVE  MInv'
<1>1. stage'[c] = s /\ job = [job EXCEPT ![c] = job[c]] /\ job[c] \in Job
  BY MTypes
<1>2. WorkerStep(c)
  BY <1>1 DEF WorkerStep
<1>3. Steady' = Steady /\ TargetNamespaces' = TargetNamespaces
  BY DEF Steady, TargetNamespaces
<1>4. WorkOK(c)'
  <2>1. WorkOK(c)
    BY DEF MInv
  <2>2. /\ KeyFits(CopyOf(c))' = KeyFits(CopyOf(c)) /\ JobFits(c)' = JobFits(c)
        /\ Progressed(c)' = Progressed(c) /\ Earned(c)' = Earned(c)
    BY <1>3 DEF KeyFits, JobFits, Progressed, Earned, CopyOf
  <2>3. QED
    BY <1>1, <2>1, <2>2 DEF WorkOK, Empty, Told
<1>5. CopiesFit'
  BY DEF MInv, CopiesFit, KeyFits
<1>6. QED
  BY <1>2, <1>4, <1>5, WorkerStepOK

\* A reconcile returns.
LEMMA ReturnOK ==
    ASSUME IInv, MInv, Alone, NEW c \in Syncer, NEW again, Return(c, again),
           UNCHANGED <<copies, phase, filter>>, budget'["edits"] = budget["edits"]
    PROVE  MInv'
<1>1. "idle" \in Stage /\ NoJob \in Job
  BY DEF Stage, NoJob, Job
<1>2. WorkerStep(c)
  BY <1>1 DEF WorkerStep, Return, Goto
<1>3. stage'[c] = "idle" /\ job'[c] = NoJob
  BY MTypes DEF Return, Goto
<1>4. WorkOK(c)'
  BY <1>3 DEF WorkOK, Told, NoJob
<1>5. CopiesFit'
  BY DEF MInv, CopiesFit, KeyFits
<1>6. QED
  BY <1>2, <1>4, <1>5, WorkerStepOK

----------------------------------------------------------------------------
(* One reconcile. *)

LEMMA MBegin ==
    ASSUME IInv, MInv, Alone, NEW c \in Syncer, Begin(c)
    PROVE  MInv'
<1>1. /\ UNCHANGED <<job, copies, phase, filter>> /\ budget'["edits"] = budget["edits"]
      /\ stage[c] = "idle"
  BY DEF Begin, cluster, Idle
<1>2. \E s \in Empty : stage' = [stage EXCEPT ![c] = s]
  BY <1>1, MTypes DEF Begin, Goto, Empty
<1>3. Empty \subseteq Stage
  BY DEF Empty, Stage
<1>4. QED
  BY <1>1, <1>2, <1>3, Onward DEF Empty

\* The steps that end a reconcile or take it one stage further.
LEMMA MCalls ==
    ASSUME IInv, MInv, Alone, NEW c \in Syncer,
           \/ Release(c) \/ Claim(c) \/ Soft(c) \/ PostWrite(c) \/ Mark(c)
           \/ ClearCertDrift(c) \/ SetReady(c)
    PROVE  MInv'
<1>1. UNCHANGED <<copies, phase, filter>>
  BY DEF Release, Claim, Soft, PostWrite, Mark, ClearCertDrift, SetReady, cluster
<1>2. Fault \/ NoFault
  BY DEF Release, Claim, Soft, PostWrite, Mark, ClearCertDrift, SetReady,
     UpdateOK, UpdateFails, PatchOK, PatchFails, Report
<1>3. budget'["edits"] = budget["edits"]
  BY <1>2, CalmBudget, MTypes
<1>4. {"fetch", "verify", "clear", "ready"} \subseteq Stage
  BY DEF Stage
<1>5. CASE \E again \in BOOLEAN : Return(c, again)
  BY <1>1, <1>3, <1>5, ReturnOK
<1>6. CASE ~\E again \in BOOLEAN : Return(c, again)
  <2>1. UNCHANGED job
    BY <1>6 DEF Release, Claim, Soft, PostWrite, Mark, ClearCertDrift, SetReady
  <2>2. \/ stage[c] = "claim" /\ Goto(c, "fetch")
        \/ stage[c] = "soft" /\ Goto(c, "verify")
        \/ stage[c] = "post" /\ Goto(c, "clear")
        \/ stage[c] = "clear" /\ Goto(c, "ready")
    BY <1>6 DEF Release, Claim, Soft, PostWrite, Mark, ClearCertDrift, SetReady
  <2>3. QED
    BY <1>1, <1>3, <1>4, <2>1, <2>2, Onward DEF Goto, Empty, Told
<1>7. QED
  BY <1>5, <1>6

LEMMA MFetch ==
    ASSUME IInv, MInv, Alone, NEW c \in Syncer, Fetch(c)
    PROVE  MInv'
<1>1. /\ stage[c] = "fetch" /\ UNCHANGED <<copies, phase, filter>>
      /\ budget'["edits"] = budget["edits"]
  BY CalmBudget, MTypes DEF Fetch, cluster
<1>2. CASE Goto(c, "mark") /\ UNCHANGED job
  BY <1>1, <1>2, Onward DEF Goto, Stage
<1>3. CASE Goto(c, "build") /\ cloud # None /\ job' = [job EXCEPT ![c].mat = cloud]
  <2> DEFINE j == [job[c] EXCEPT !.mat = cloud]
  <2>1. job[c] \in Job /\ ~job[c].failed
    BY <1>1, MTypes DEF MInv, WorkOK, Empty, NoJob
  <2>2. cloud \in Payload
    BY <1>3, MTypes
  <2>3. j \in Job /\ j.mat \in Payload /\ ~j.failed
    BY <2>1, <2>2 DEF Job
  <2>4. job' = [job EXCEPT ![c] = j] /\ job'[c] = j /\ stage'[c] = "build"
    BY <1>3, MTypes DEF Goto
  <2>5. WorkerStep(c)
    BY <1>1, <1>3, <2>3, <2>4 DEF WorkerStep, Goto, Stage
  <2>6. WorkOK(c)'
    BY <2>3, <2>4 DEF WorkOK, Empty, Told
  <2>7. CopiesFit'
    BY <1>1 DEF MInv, CopiesFit, KeyFits
  <2>8. QED
    BY <2>5, <2>6, <2>7, WorkerStepOK
<1>4. QED
  BY <1>2, <1>3 DEF Fetch

LEMMA MBuild ==
    ASSUME IInv, MInv, Alone, NEW c \in Syncer, Build(c)
    PROVE  MInv'
<1>1. /\ stage[c] = "build" /\ UNCHANGED <<copies, phase, filter>>
      /\ budget'["edits"] = budget["edits"]
  BY CalmBudget, MTypes DEF Build, cluster
<1>2. CASE (\E r : Goto(c, "mark") /\ Because(c, r)) /\ UNCHANGED job
  BY <1>1, <1>2, Onward DEF Goto, Stage
<1>3. ASSUME NEW n \in Nonce, FreshNonce(n), NEW s \in {"soft", "verify"}, Goto(c, s),
             job' = [job EXCEPT ![c].ks = BuildKeystore(job[c].mat, n)]
      PROVE  MInv'
  <2> DEFINE k == BuildKeystore(job[c].mat, n)
             j == [job[c] EXCEPT !.ks = k]
  <2>1. job[c].mat \in Payload /\ ~job[c].failed /\ job[c] \in Job
    BY <1>1, MTypes DEF MInv, WorkOK
  <2>2. ASSUME copies[Home] # None
        PROVE  copies[Home] \in Copy /\ KeyFits(copies[Home]) /\ copies[Home].ks # n
    <3>1. copies[Home] \in Copy /\ KeyFits(copies[Home])
      BY <2>2, MTypes DEF MInv, CopiesFit
    <3>2. copies[Home].ks \in {copies[ns].ks : ns \in {m \in Namespace : copies[m] # None}}
      BY <2>2, MTypes
    <3>3. QED
      BY <1>3, <3>1, <3>2 DEF FreshNonce
  <2>3. /\ k \in Nonce \cup {None}
        /\ k = None <=> job[c].mat \in Keyless
        /\ copies[Home] # None =>
              IF copies[Home].payload = job[c].mat THEN copies[Home].ks = k
              ELSE k # None => copies[Home].ks # k
    BY <2>1, <2>2, MTypes DEF BuildKeystore, KeyFits, Copy
  <2> HIDE DEF k
  <2>4. j \in Job /\ j.mat = job[c].mat /\ j.ks = k /\ ~j.failed
    BY <2>1, <2>3 DEF Job
  <2>5. job' = [job EXCEPT ![c] = j] /\ job'[c] = j /\ stage'[c] = s
    BY <1>3, MTypes DEF Goto, k
  <2>6. WorkerStep(c)
    BY <1>1, <1>3, <2>4, <2>5 DEF WorkerStep, Goto, Stage
  <2>7. KeyFits(CopyOf(c))' /\ JobFits(c)'
    BY <1>1, <2>1, <2>3, <2>4, <2>5 DEF KeyFits, CopyOf, JobFits
  <2>8. WorkOK(c)'
    BY <2>4, <2>5, <2>7 DEF WorkOK, Empty, Told
  <2>9. CopiesFit'
    BY <1>1 DEF MInv, CopiesFit, KeyFits
  <2>10. QED
    BY <2>6, <2>8, <2>9, WorkerStepOK
<1>4. QED
  BY <1>2, <1>3 DEF Build

LEMMA MVerify ==
    ASSUME IInv, MInv, Alone, NEW c \in Syncer, Verify(c)
    PROVE  MInv'
<1>1. /\ stage[c] = "verify" /\ UNCHANGED <<copies, phase, filter>>
      /\ budget'["edits"] = budget["edits"]
  BY CalmBudget, MTypes DEF Verify, cluster
<1>2. CASE Goto(c, "mark") /\ UNCHANGED job
  BY <1>1, <1>2, Onward DEF Goto, Stage
<1>3. CASE Goto(c, "write") /\ job' = [job EXCEPT ![c].todo = TargetNamespaces]
  <2> DEFINE j == [job[c] EXCEPT !.todo = TargetNamespaces]
  <2>1. TargetNamespaces \subseteq Namespace /\ TargetNamespaces' = TargetNamespaces
    BY <1>1, MTypes DEF TargetNamespaces
  <2>2. /\ j \in Job /\ j.mat = job[c].mat /\ j.ks = job[c].ks
        /\ j.todo = TargetNamespaces
    BY <2>1, MTypes DEF Job
  <2>3. job' = [job EXCEPT ![c] = j] /\ job'[c] = j /\ stage'[c] = "write"
    BY <1>3, MTypes DEF Goto
  <2>4. WorkerStep(c)
    BY <1>1, <1>3, <2>2, <2>3 DEF WorkerStep, Goto, Stage
  <2>5. KeyFits(CopyOf(c)) /\ JobFits(c)
    BY <1>1 DEF MInv, WorkOK
  <2>6. KeyFits(CopyOf(c))' /\ JobFits(c)'
    BY <1>1, <2>2, <2>3, <2>5 DEF KeyFits, CopyOf, JobFits
  <2>7. Progressed(c)'
    BY <2>1, <2>2, <2>3 DEF Progressed
  <2>8. WorkOK(c)'
    BY <2>3, <2>6, <2>7 DEF WorkOK, Empty, Told
  <2>9. CopiesFit'
    BY <1>1 DEF MInv, CopiesFit, KeyFits
  <2>10. QED
    BY <2>4, <2>8, <2>9, WorkerStepOK
<1>4. QED
  BY <1>2, <1>3 DEF Verify

\* What becomes of the copies in one turn of the loop.
LEMMA WriteEffect ==
    ASSUME IInv, MInv, NEW c \in Syncer, stage[c] = "write",
           NEW n \in job[c].todo, WriteSecret(c, n)
    PROVE  /\ n \in Namespace
           /\ copies' = copies \/ copies' = [copies EXCEPT ![n] = CopyOf(c)]
           /\ CopyOf(c) \in Copy /\ KeyFits(CopyOf(c)) /\ JobFits(c)
           /\ budget'["edits"] = budget["edits"]
           /\ \E j \in Job :
                 /\ job' = [job EXCEPT ![c] = j]
                 /\ j.mat = job[c].mat /\ j.ks = job[c].ks
                 /\ j.todo = job[c].todo \ {n}
                 /\ ~j.failed => /\ ~job[c].failed
                                 /\ copies' = [copies EXCEPT ![n] = CopyOf(c)]
<1>1. job[c] \in Job /\ n \in Namespace
  BY MTypes DEF Job
<1>2. CopyOf(c) \in Copy /\ KeyFits(CopyOf(c)) /\ JobFits(c)
  BY <1>1 DEF CopyOf, Copy, Job, MInv, WorkOK
<1>3. budget'["edits"] = budget["edits"]
  BY CalmBudget, MTypes DEF WriteSecret
<1>4. PICK ok \in BOOLEAN :
        /\ job' = [job EXCEPT ![c].todo = Remaining(c, n, ok), ![c].failed = Failed(c, ok)]
        /\ ok => copies' = [copies EXCEPT ![n] = CopyOf(c)]
        /\ copies' = copies \/ copies' = [copies EXCEPT ![n] = CopyOf(c)]
  BY DEF WriteSecret, CopyOf
<1> DEFINE j == [job[c] EXCEPT !.todo = Remaining(c, n, ok), !.failed = Failed(c, ok)]
<1>5. /\ job' = [job EXCEPT ![c] = j] /\ j \in Job
      /\ j.mat = job[c].mat /\ j.ks = job[c].ks
      /\ j.todo = job[c].todo \ {n} /\ (~j.failed => ~job[c].failed /\ ok)
  BY <1>1, <1>4, MTypes DEF Job, Remaining, Failed
<1>6. QED
  BY <1>1, <1>2, <1>3, <1>4, <1>5

LEMMA MWrite ==
    ASSUME IInv, MInv, Alone, NEW c \in Syncer, Write(c)
    PROVE  MInv'
<1>1. stage[c] = "write" /\ UNCHANGED <<phase, filter>> /\ AtWork(c)
  BY DEF Write, cluster, AtWork
<1>2. ASSUME NEW n \in job[c].todo, WriteSecret(c, n), UNCHANGED stage
      PROVE  MInv'
  <2>1. PICK j \in Job :
          /\ job' = [job EXCEPT ![c] = j]
          /\ j.mat = job[c].mat /\ j.ks = job[c].ks
          /\ j.todo = job[c].todo \ {n}
          /\ ~j.failed => ~job[c].failed /\ copies' = [copies EXCEPT ![n] = CopyOf(c)]
    BY <1>1, <1>2, WriteEffect
  <2>2. /\ n \in Namespace /\ budget'["edits"] = budget["edits"]
        /\ copies' = copies \/ copies' = [copies EXCEPT ![n] = CopyOf(c)]
        /\ CopyOf(c) \in Copy /\ KeyFits(CopyOf(c)) /\ JobFits(c)
    BY <1>1, <1>2, WriteEffect
  <2>3. job'[c] = j /\ stage' = [stage EXCEPT ![c] = stage[c]] /\ stage[c] \in Stage
    BY <1>2, <2>1, MTypes
  <2>4. WorkerStep(c)
    BY <1>1, <2>1, <2>2, <2>3 DEF WorkerStep
  <2>5. CopyOf(c)' = CopyOf(c) /\ Steady' = Steady /\ TargetNamespaces' = TargetNamespaces
    BY <1>1, <2>1, <2>2, <2>3 DEF CopyOf, Steady, TargetNamespaces
  <2>6. KeyFits(CopyOf(c))' /\ CopiesFit'
    BY <2>2, <2>5, MTypes DEF KeyFits, MInv, CopiesFit
  <2>7. JobFits(c)'
    BY <2>1, <2>2, <2>3, MTypes DEF JobFits, CopyOf
  <2>8. Progressed(c)'
    <3>1. TargetNamespaces \subseteq Namespace
      BY MTypes DEF TargetNamespaces
    <3>2. Progressed(c)
      BY <1>1 DEF MInv, WorkOK
    <3>3. QED
      BY <2>1, <2>3, <2>5, <3>1, <3>2, MTypes DEF Progressed
  <2>9. WorkOK(c)'
    BY <1>1, <1>2, <2>6, <2>7, <2>8 DEF WorkOK, Empty, Told
  <2>10. QED
    BY <2>4, <2>6, <2>9, WorkerStepOK
<1>3. CASE /\ job[c].todo = {} /\ UNCHANGED <<copies, job, budget>>
           /\ IF job[c].failed THEN Goto(c, "mark") ELSE Goto(c, "post")
  <2>1. CASE Goto(c, "mark")
    BY <1>1, <1>3, <2>1, Onward DEF Goto, Stage
  <2>2. CASE Goto(c, "post") /\ ~job[c].failed
    <3>1. /\ stage'[c] = "post" /\ job = [job EXCEPT ![c] = job[c]] /\ job[c] \in Job
      BY <2>2, MTypes DEF Goto
    <3>2. WorkerStep(c)
      BY <1>1, <1>3, <2>2, <3>1 DEF WorkerStep, Goto, Stage
    <3>3. Progressed(c)
      BY <1>1 DEF MInv, WorkOK
    <3>4. Earned(c)'
      BY <1>1, <1>3, <2>2, <3>3 DEF Progressed, Earned, CopyOf, Steady, TargetNamespaces
    <3>5. WorkOK(c)'
      BY <3>1, <3>4 DEF WorkOK, Empty, Told
    <3>6. CopiesFit'
      BY <1>3 DEF MInv, CopiesFit, KeyFits
    <3>7. QED
      BY <3>2, <3>5, <3>6, WorkerStepOK
  <2>3. QED
    BY <1>3, <2>1, <2>2
<1>4. QED
  BY <1>2, <1>3 DEF Write, NoFault

----------------------------------------------------------------------------
(* The rest of the world. *)

\* Nothing is written, and the targets stay.
LEMMA MElsewhere ==
    ASSUME MInv, budget \in Budget, UNCHANGED <<stage, job, copies, phase, filter>>,
           \/ budget' = budget
           \/ \E kind \in {"edits", "outages"} : Spend(kind)
    PROVE  MInv'
<1>1. budget'["edits"] <= MaxEdits /\ (Steady' => Steady)
  <2>1. MaxEdits \in Nat /\ budget["edits"] \in Nat
    BY CertSyncAssumption DEF Budget
  <2>2. budget'["edits"] \in Nat /\ budget'["edits"] <= budget["edits"]
    BY <2>1, SpentBudget
  <2>3. QED
    BY <2>1, <2>2 DEF MInv, Steady
<1>2. TargetNamespaces' = TargetNamespaces
  BY DEF TargetNamespaces
<1>3. CopiesFit'
  BY DEF MInv, CopiesFit, KeyFits
<1>4. ASSUME NEW c \in Syncer PROVE WorkOK(c)'
  <2>1. /\ KeyFits(CopyOf(c)) => KeyFits(CopyOf(c))'
        /\ JobFits(c) => JobFits(c)'
        /\ Progressed(c) => Progressed(c)'
        /\ Earned(c) => Earned(c)'
    BY <1>1, <1>2 DEF KeyFits, JobFits, Progressed, Earned, CopyOf
  <2>2. QED
    BY <2>1 DEF MInv, WorkOK
<1>5. QED
  BY <1>1, <1>3, <1>4 DEF MInv

\* The targets change, or a copy goes with its namespace: from then on nothing
\* is steady.
LEMMA MCluster ==
    ASSUME IInv, MInv, ChangeFilter \/ ChangeNamespace
    PROVE  MInv'
<1>1. UNCHANGED <<stage, job>>
  BY DEF ChangeFilter, ChangeNamespace, locals
<1>2. budget'["edits"] <= MaxEdits /\ ~Steady'
  <2>1. Spend("edits") /\ Meddling \cap {"filter", "namespace"} # {}
    BY DEF ChangeFilter, ChangeNamespace, Meddle
  <2>2. QED
    BY <2>1, SpentBudget, MTypes DEF MInv, Steady
<1>3. copies'[Home] = copies[Home] /\ \A n \in Namespace : copies'[n] \in {copies[n], None}
  BY MTypes DEF ChangeFilter, ChangeNamespace
<1>4. CopiesFit'
  BY <1>3 DEF MInv, CopiesFit, KeyFits
<1>5. ASSUME NEW c \in Syncer PROVE WorkOK(c)'
  <2>1. /\ KeyFits(CopyOf(c)) => KeyFits(CopyOf(c))'
        /\ JobFits(c) => JobFits(c)'
        /\ Progressed(c)' /\ Earned(c)'
    BY <1>1, <1>2, <1>3 DEF KeyFits, JobFits, Progressed, Earned, CopyOf
  <2>2. QED
    BY <1>1, <2>1 DEF MInv, WorkOK
<1>6. QED
  BY <1>2, <1>4, <1>5 DEF MInv

LEMMA MCrash ==
    ASSUME IInv, MInv, Crash
    PROVE  MInv'
<1>1. CopiesFit'
  BY DEF Crash, MInv, CopiesFit, KeyFits
<1>2. budget'["edits"] <= MaxEdits
  BY CalmBudget, MTypes DEF Crash, MInv
<1>3. ASSUME NEW c \in Syncer PROVE WorkOK(c)'
  BY DEF Crash, WorkOK, Told
<1>4. QED
  BY <1>1, <1>2, <1>3 DEF MInv

----------------------------------------------------------------------------
(* The invariant. *)

LEMMA MStart == Init => MInv
<1> SUFFICES ASSUME Init PROVE MInv
  OBVIOUS
<1>1. MaxEdits \in Nat
  BY CertSyncAssumption
<1>2. budget["edits"] <= MaxEdits
  BY <1>1 DEF Init
<1>3. CopiesFit
  BY DEF Init, CopiesFit
<1>4. ASSUME NEW c \in Syncer PROVE WorkOK(c)
  BY DEF Init, WorkOK, Told
<1>5. QED
  BY <1>2, <1>3, <1>4 DEF MInv

LEMMA MStep == IInv /\ Alone /\ MInv /\ [Next]_vars => MInv'
<1> SUFFICES ASSUME IInv, Alone, MInv, [Next]_vars PROVE MInv'
  OBVIOUS
<1>1. budget \in Budget
  BY MTypes
<1>2. ASSUME NEW c \in Syncer, Begin(c) \/ Reconcile(c) PROVE MInv'
  BY <1>2, MBegin, MCalls, MFetch, MBuild, MVerify, MWrite DEF Reconcile
<1>3. ASSUME Deliver \/ Request \/ ChangeSource PROVE MInv'
  BY <1>1, <1>3, MElsewhere DEF Deliver, Request, ChangeSource, Meddle, locals, cluster
<1>4. ASSUME NEW kind, NEW o, Edit(kind, o) PROVE MInv'
  BY <1>1, <1>4, MElsewhere DEF Edit, Meddle, locals, cluster
<1>5. ASSUME Delete \/ Create \/ Annotate \/ ChangeIssuer PROVE MInv'
  BY <1>4, <1>5 DEF Delete, Create, Annotate, ChangeIssuer
<1>6. ASSUME UNCHANGED vars PROVE MInv'
  BY <1>1, <1>6, MElsewhere DEF vars, locals, cluster
<1>7. QED
  BY <1>2, <1>3, <1>5, <1>6, MCluster, MCrash DEF Next, Environment

LEMMA MInvariance ==
    ASSUME OneAtATime
    PROVE  Spec => [](IInv /\ Alone /\ MInv)
<1>1. Spec => []Alone
  BY OneIsAlone
<1>2. QED
  BY <1>1, Start, Step, MStart, MStep, PTL DEF Spec

(* With one syncer at a time, and targets that stay, a success is never      *)
(* reported for a target that does not carry what was fetched, with the      *)
(* keystore that was built for it, whichever writes failed or lost their     *)
(* answer (certsync.go:180-206).                                             *)
THEOREM SuccessIsEarned ==
    ASSUME OneAtATime
    PROVE  Spec => []ReadyIsEarned
<1>1. MInv => ReadyIsEarned
  BY DEF MInv, WorkOK, Told, Earned, CopyOf, ReadyIsEarned
<1>2. QED
  BY <1>1, MInvariance, PTL

(* ... and no namespace gets another keystore than the Certificate's own     *)
(* while the payload stays, however often the reconcile is repeated          *)
(* (certsync.go:140-155, 184-199).                                           *)
THEOREM KeystoresAreKept ==
    ASSUME OneAtATime
    PROVE  Spec => KeystoresKept
<1> DEFINE Stays ==
      \A c \in Syncer, n \in Namespace :
          /\ Write(c)
          /\ copies[Home] # None /\ copies[n] = copies[Home]
          /\ job[c].mat = copies[n].payload
          => copies'[n] = copies[n]
<1>1. IInv /\ MInv => [Stays]_vars
  <2> SUFFICES ASSUME IInv, MInv, NEW c \in Syncer, NEW n \in Namespace, Write(c),
                      copies[Home] # None, copies[n] = copies[Home],
                      job[c].mat = copies[n].payload
               PROVE  copies'[n] = copies[n]
    OBVIOUS
  <2>1. stage[c] = "write"
    BY DEF Write
  <2>2. CASE UNCHANGED copies
    BY <2>2
  <2>3. ASSUME NEW m \in job[c].todo, WriteSecret(c, m) PROVE copies'[n] = copies[n]
    <3>1. /\ copies' = copies \/ copies' = [copies EXCEPT ![m] = CopyOf(c)]
          /\ JobFits(c)
      BY <2>1, <2>3, WriteEffect
    <3>2. copies[n] \in Copy /\ copies[n].ks = job[c].ks
      BY <3>1, MTypes DEF JobFits
    <3>3. copies[n] = CopyOf(c)
      BY <3>2 DEF Copy, CopyOf
    <3>4. QED
      BY <3>1, <3>3, MTypes
  <2>4. QED
    BY <2>2, <2>3 DEF Write
<1>2. QED
  BY <1>1, MInvariance, PTL DEF KeystoresKept

----------------------------------------------------------------------------
(* The copy in the Certificate's own namespace is a MirroredSecret. *)

Working == [c \in Syncer |-> Whole(job[c].mat)]

HomeStep == [HomeMirror!Next]_<<Whole(cloud), 0, Working, SeenAtHome>>

LEMMA WholeOf ==
    ASSUME NEW p \in Payload, NEW q \in Payload
    PROVE  /\ Whole(p) = [crt |-> p, key |-> p]
           /\ Whole(p) = Whole(q) => p = q
           /\ Whole(p).crt = Whole(q).crt => p = q
BY CertSyncAssumption DEF Whole

LEMMA HomeStart == Init => HomeMirror!Init
<1> SUFFICES ASSUME Init PROVE HomeMirror!Init
  OBVIOUS
<1>1. Whole(cloud) \in {Whole(p) : p \in Payload} \cup {None}
  BY DEF Init, Whole
<1>2. [c \in Syncer |-> Whole(job[c].mat)] = [c \in Syncer |-> None]
  BY DEF Init, NoJob, Whole
<1>3. SeenAtHome = Gone
  BY CertSyncAssumption DEF Init, SeenAtHome
<1>4. QED
  BY <1>1, <1>2, <1>3 DEF HomeMirror!Init

\* What is not seen from there.
LEMMA HomeRests ==
    ASSUME cloud' = cloud, copies'[Home] = copies[Home],
           \A c \in Syncer : job'[c].mat = job[c].mat
    PROVE  HomeStep
BY DEF HomeStep, Working, SeenAtHome, Whole

\* One reconcile ends.
LEMMA HomeReturn ==
    ASSUME IInv, NEW c \in Syncer, NEW again, Return(c, again), UNCHANGED <<cloud, copies>>
    PROVE  HomeStep
<1>1. job' = [job EXCEPT ![c] = NoJob] /\ job \in [Syncer -> Job]
  BY MTypes DEF Return
<1>2. Working' = [Working EXCEPT ![c] = None]
  BY <1>1 DEF Working, NoJob, Whole
<1>3. Whole(cloud)' = Whole(cloud) /\ SeenAtHome' = SeenAtHome
  BY DEF Whole, SeenAtHome
<1>4. HomeMirror!End
  BY <1>2, <1>3 DEF HomeMirror!End, Working
<1>5. QED
  BY <1>4 DEF HomeStep, HomeMirror!Next

LEMMA HomeFetch ==
    ASSUME IInv, MInv, NEW c \in Syncer, Fetch(c)
    PROVE  HomeStep
<1>1. UNCHANGED <<cloud, copies>> /\ stage[c] = "fetch"
  BY DEF Fetch
<1>2. CASE UNCHANGED job
  BY <1>1, <1>2, HomeRests
<1>3. CASE job' = [job EXCEPT ![c].mat = cloud]
  <2>1. job[c].mat = None /\ job \in [Syncer -> Job]
    BY <1>1, MTypes DEF MInv, WorkOK, Empty, NoJob
  <2>2. \A d \in Syncer : job'[d].mat = IF d = c THEN cloud ELSE job[d].mat
    BY <1>3, <2>1 DEF Job
  <2>3. Working[c] = None /\ Working' = [Working EXCEPT ![c] = Whole(cloud)]
    BY <2>1, <2>2 DEF Working, Whole
  <2>4. Whole(cloud)' = Whole(cloud) /\ SeenAtHome' = SeenAtHome
    BY <1>1 DEF Whole, SeenAtHome
  <2>5. HomeMirror!Begin(c)
    BY <2>3, <2>4 DEF HomeMirror!Begin, Working
  <2>6. QED
    BY <2>5 DEF HomeStep, HomeMirror!Next
<1>4. QED
  BY <1>2, <1>3 DEF Fetch

LEMMA HomeWrite ==
    ASSUME IInv, MInv, NEW c \in Syncer, Write(c)
    PROVE  HomeStep
<1>1. cloud' = cloud /\ stage[c] = "write"
  BY DEF Write
<1>2. CASE UNCHANGED <<copies, job>>
  BY <1>1, <1>2, HomeRests
<1>3. ASSUME NEW n \in job[c].todo, WriteSecret(c, n) PROVE HomeStep
  <2> DEFINE m == job[c].mat
             k == job[c].ks
  <2>1. \A d \in Syncer : job'[d].mat = job[d].mat
    BY <1>1, <1>3, WriteEffect, MTypes
  <2>2. /\ copies' = copies \/ copies' = [copies EXCEPT ![n] = CopyOf(c)]
        /\ CopyOf(c) \in Copy /\ KeyFits(CopyOf(c)) /\ JobFits(c)
    BY <1>1, <1>3, WriteEffect
  <2>3. CASE copies'[Home] = copies[Home]
    BY <1>1, <2>1, <2>3, HomeRests
  <2>4. CASE copies'[Home] = CopyOf(c)
    <3>1. /\ CopyOf(c).payload = m /\ CopyOf(c).ks = k
          /\ m \in Payload /\ k \in Nonce \cup {None} /\ (k = None <=> m \in Keyless)
      BY <2>2 DEF CopyOf, KeyFits, Copy
    <3>2. SeenAtHome' = [of |-> Whole(m), keystore |-> k, pw |-> k]
      BY <2>2, <2>4, <3>1, MTypes DEF SeenAtHome, Whole
    <3>3. Working' = Working /\ Whole(cloud)' = Whole(cloud) /\ Working[c] = Whole(m)
      BY <1>1, <2>1 DEF Working, Whole
    <3>4. Whole(m) \in {Whole(p) : p \in Payload}
      BY <3>1
    <3>5. k \in IF Whole(m) \in {Whole(p) : p \in Payload \ Keyless} THEN Nonce ELSE {None}
      BY <3>1, WholeOf
    <3>6. SeenAtHome \notin {Gone, None} =>
            /\ SeenAtHome.of = Whole(m) => k = SeenAtHome.keystore
            /\ SeenAtHome.of # Whole(m) /\ k # None => k # SeenAtHome.keystore
            /\ (/\ SeenAtHome.of.crt = Whole(m).crt /\ SeenAtHome.of.key = Whole(m).key
                /\ SeenAtHome.pw # None) => k = SeenAtHome.pw
      <4> SUFFICES ASSUME copies[Home] # None
                   PROVE  /\ SeenAtHome.of = Whole(m) => k = SeenAtHome.keystore
                          /\ SeenAtHome.of # Whole(m) /\ k # None => k # SeenAtHome.keystore
                          /\ SeenAtHome.of.crt = Whole(m).crt => k = SeenAtHome.pw
        BY DEF SeenAtHome
      <4>1. copies[Home].payload \in Payload
        BY MTypes DEF MInv, CopiesFit, KeyFits
      <4>2. /\ SeenAtHome.of = Whole(copies[Home].payload)
            /\ SeenAtHome.keystore = copies[Home].ks /\ SeenAtHome.pw = copies[Home].ks
        BY DEF SeenAtHome
      <4>3. QED
        BY <2>2, <3>1, <4>1, <4>2, WholeOf DEF JobFits
    <3>7. HomeMirror!Write(c)
      BY <3>2, <3>3, <3>4, <3>5, <3>6 DEF HomeMirror!Write, Working
    <3>8. QED
      BY <3>7 DEF HomeStep, HomeMirror!Next
  <2>5. QED
    BY <2>2, <2>3, <2>4, MTypes
<1>4. QED
  BY <1>2, <1>3 DEF Write

LEMMA HomeReconcile ==
    ASSUME IInv, MInv, NEW c \in Syncer, Begin(c) \/ Reconcile(c)
    PROVE  HomeStep
<1>1. CASE Begin(c) \/ UNCHANGED <<cloud, copies, job>>
  BY <1>1, HomeRests DEF Begin
<1>2. CASE Build(c)
  <2>1. UNCHANGED <<cloud, copies>>
    BY <1>2 DEF Build
  <2>2. CASE UNCHANGED job
    BY <2>1, <2>2, HomeRests
  <2>3. ASSUME NEW k, job' = [job EXCEPT ![c].ks = k]
        PROVE  HomeStep
    <3> DEFINE j == [job[c] EXCEPT !.ks = k]
    <3>1. job' = [job EXCEPT ![c] = j] /\ j.mat = job[c].mat
      BY <2>3, MTypes DEF Job
    <3>2. \A d \in Syncer : job'[d].mat = job[d].mat
      BY <3>1, MTypes
    <3>3. QED
      BY <2>1, <3>2, HomeRests
  <2>4. QED
    BY <1>2, <2>2, <2>3 DEF Build
<1>3. CASE /\ UNCHANGED <<cloud, copies>> /\ \E again \in BOOLEAN : Return(c, again)
  BY <1>3, HomeReturn
<1>4. CASE \/ Release(c) \/ Claim(c) \/ Soft(c) \/ PostWrite(c) \/ Mark(c)
           \/ ClearCertDrift(c) \/ SetReady(c)
  BY <1>1, <1>3, <1>4
     DEF Release, Claim, Soft, PostWrite, Mark, ClearCertDrift, SetReady
<1>5. CASE Verify(c)
  <2>1. UNCHANGED <<cloud, copies>>
    BY <1>5 DEF Verify
  <2>2. CASE UNCHANGED job
    BY <2>1, <2>2, HomeRests
  <2>3. CASE job' = [job EXCEPT ![c].todo = TargetNamespaces]
    <3> DEFINE j == [job[c] EXCEPT !.todo = TargetNamespaces]
    <3>1. job' = [job EXCEPT ![c] = j] /\ j.mat = job[c].mat
      BY <2>3, MTypes DEF Job
    <3>2. \A d \in Syncer : job'[d].mat = job[d].mat
      BY <3>1, MTypes
    <3>3. QED
      BY <2>1, <3>2, HomeRests
  <2>4. QED
    BY <1>5, <2>2, <2>3 DEF Verify
<1>6. QED
  BY <1>1, <1>2, <1>4, <1>5, HomeFetch, HomeWrite DEF Reconcile

LEMMA HomeEnvironment ==
    ASSUME IInv, Environment
    PROVE  HomeStep
<1>1. CASE UNCHANGED <<cloud, job>> /\ copies'[Home] = copies[Home]
  BY <1>1, HomeRests
<1>2. CASE ChangeNamespace
  BY <1>1, <1>2, MTypes DEF ChangeNamespace, locals
<1>3. CASE ChangeSource
  <2>1. UNCHANGED <<copies, job>> /\ cloud' \in Payload \cup {None}
    BY <1>3 DEF ChangeSource, locals
  <2>2. /\ Whole(cloud') \in {Whole(p) : p \in Payload} \cup {None}
        /\ Working' = Working /\ SeenAtHome' = SeenAtHome
    BY <2>1 DEF Whole, Working, SeenAtHome
  <2>3. HomeMirror!Rotate
    BY <2>2 DEF HomeMirror!Rotate, Working
  <2>4. QED
    BY <2>3 DEF HomeStep, HomeMirror!Next
<1>4. CASE Crash
  <2>1. UNCHANGED <<copies, cloud>> /\ job' = [c \in Syncer |-> NoJob]
    BY <1>4 DEF Crash
  <2>2. /\ Working' = [c \in Syncer |-> None]
        /\ Whole(cloud)' = Whole(cloud) /\ SeenAtHome' = SeenAtHome
    BY <2>1 DEF Whole, Working, SeenAtHome, NoJob
  <2>3. HomeMirror!End
    BY <2>2 DEF HomeMirror!End, Working
  <2>4. QED
    BY <2>3 DEF HomeStep, HomeMirror!Next
<1>5. CASE Deliver \/ ChangeFilter \/ Request
  BY <1>1, <1>5 DEF Deliver, ChangeFilter, Request, locals
<1>6. CASE \E kind, o : Edit(kind, o)
  BY <1>1, <1>6 DEF Edit, locals
<1>7. QED
  BY <1>2, <1>3, <1>4, <1>5, <1>6 DEF Environment, Delete, Create, Annotate, ChangeIssuer

(* The Secret in the Certificate's own namespace is a MirroredSecret: what   *)
(* SecretMirror does in one reconcile CertSyncer does with the writes to all *)
(* other namespaces, failures, crashes and deletions in between              *)
(* (certsync.go:140-155, 180-199).                                           *)
THEOREM HomeIsMirrored ==
    ASSUME OneAtATime
    PROVE  Spec => HomeMirrored
<1>1. IInv /\ MInv /\ [Next]_vars => HomeStep
  <2> SUFFICES ASSUME IInv, MInv, [Next]_vars PROVE HomeStep
    OBVIOUS
  <2>1. CASE UNCHANGED vars
    BY <2>1, HomeRests DEF vars, locals
  <2>2. QED
    BY <2>1, HomeReconcile, HomeEnvironment DEF Next
<1>2. QED
  BY <1>1, HomeStart, MInvariance, PTL
     DEF Spec, HomeMirrored, HomeMirror!Spec, HomeStep, Working
==============================================================================
