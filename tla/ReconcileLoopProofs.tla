------------------------ MODULE ReconcileLoopProofs ------------------------
(***************************************************************************)
(* ReconcileLoop keeps its types, while no call fails a Certificate of     *)
(* ours that shows a failure is never left behind, and force-sync is not   *)
(* taken away by a reconcile that began before it was set.                 *)
(*                                                                         *)
(* NoOrphanedFailure is not inductive: a reconcile that returns without an *)
(* error drops the last thing that keeps the key alive, and whether that   *)
(* is right depends on the copy of the Certificate it worked on.  CacheOK  *)
(* and CopyOK say what a copy that shows no failure, while the API server  *)
(* shows one, has to be accompanied by: an event on its way, or the key    *)
(* back in the queue.                                                      *)
(***************************************************************************)
EXTENDS ReconcileLoop, TLAPS

Troubled == OurIssuerFilter(live) /\ Failed(live)

\* The informer cache misses a failure only while its event is under way.
CacheOK == Troubled /\ ~Failed(cached) => due

\* The queue's worker, past the checks, misses one only when it is called
\* again; past ClearCertDrift whatever failure there is came later.
CopyOK ==
    /\ stage["queue"] \in {"write", "force", "clear"} =>
          (Troubled /\ ~Failed(local["queue"]) => due \/ queued)
    /\ stage["queue"] = "ready" => (Troubled => due \/ queued)

NoFaults == budget["faults"] = 0

Alert == NoFaults /\ CacheOK /\ CopyOK /\ NoOrphanedFailure

\* A reconcile that is past the Get has a copy to work on.
CallOK == \A w \in Worker : stage[w] \notin {"idle", "called"} => local[w] # Gone

IInv == TypeOK /\ CallOK /\ (MaxFaults = 0 => Alert)

\* What a step does to the Certificate the filter notices, or it does nothing.
Noticed == (live' = live /\ due' = due) \/ (OurIssuerFilter(live') => due')

----------------------------------------------------------------------------
(* Types. *)

LEMMA CertificateParts ==
    ASSUME NEW c \in Certificate, NEW k \in Condition
    PROVE  /\ [c EXCEPT !.cond = k] \in Certificate
           /\ [c EXCEPT !.force = TRUE] \in Certificate
           /\ [c EXCEPT !.force = FALSE] \in Certificate
           /\ c.cond \in Condition /\ c.force \in BOOLEAN
           /\ c.spec \in {"named", "unnamed", "foreign"}
           /\ [c EXCEPT !.cond = k].cond = k
           /\ [c EXCEPT !.force = FALSE].cond = c.cond
BY DEF Certificate

LEMMA ConditionParts ==
    ASSUME NEW k \in Condition
    PROVE  /\ \A v \in Failure \cup {"none", "Synced"} : [k EXCEPT !.synced = v] \in Condition
           /\ [k EXCEPT !.ready = "Synced"] \in Condition
           /\ [k EXCEPT !.ready = "False"] \in Condition
           /\ [k EXCEPT !.issuing = ~@] \in Condition
BY DEF Condition

LEMMA NewCertificateType == NewCertificate \in Certificate
BY DEF NewCertificate, Certificate, Condition

LEMMA SpendType ==
    ASSUME budget \in [{"edits", "outages", "faults", "crashes"} -> Nat],
           NEW kind \in {"edits", "outages", "faults", "crashes"},
           Spend(kind) \/ NoFault
    PROVE  /\ budget' \in [{"edits", "outages", "faults", "crashes"} -> Nat]
           /\ kind # "faults" => budget'["faults"] = budget["faults"]
BY DEF Spend, NoFault

\* The types of what a step of the API server changes.
ServerTypes ==
    live \in MaybeCertificate /\ current \subseteq Worker \cup {"cache"} /\ due \in BOOLEAN

LEMMA PublishType ==
    ASSUME ServerTypes, NEW c \in MaybeCertificate,
           NEW holders \in SUBSET (Worker \cup {"cache"}), Publish(c, holders)
    PROVE  ServerTypes' /\ Noticed /\ live' = c
BY DEF ServerTypes, Publish, Holding, Noticed, OurIssuerFilter

LEMMA NotPublishedType ==
    ASSUME ServerTypes, NotPublished
    PROVE  ServerTypes' /\ Noticed /\ live' = live
BY DEF ServerTypes, NotPublished, Holding, Noticed

(* The three outcomes of a status patch.                                   *)
LEMMA PatchType ==
    ASSUME TypeOK, NEW w \in Worker, local[w] \in Certificate, NEW cond \in Condition,
           PatchOK(w, cond) \/ PatchRefused \/ PatchUnanswered(w, cond)
    PROVE  /\ ServerTypes' /\ Noticed
           /\ budget' \in [{"edits", "outages", "faults", "crashes"} -> Nat]
           /\ PatchOK(w, cond) => live # Gone /\ live' = Patched(w, cond) /\ live' \in Certificate
<1>1. ServerTypes
  BY DEF TypeOK, ServerTypes
<1>2. live # Gone => Patched(w, cond) \in Certificate
  BY <1>1, CertificateParts DEF Patched, ServerTypes, MaybeCertificate
<1>3. budget' \in [{"edits", "outages", "faults", "crashes"} -> Nat]
  BY SpendType DEF TypeOK, PatchOK, PatchRefused, PatchUnanswered, Fault
<1>4. CASE PatchOK(w, cond)
  BY <1>1, <1>2, <1>3, <1>4, PublishType DEF PatchOK, MaybeCertificate
<1>5. CASE PatchRefused
  BY <1>1, <1>2, <1>3, <1>5, NotPublishedType, PublishType DEF PatchRefused, PatchOK, MaybeCertificate
<1>6. CASE PatchUnanswered(w, cond)
  BY <1>1, <1>2, <1>3, <1>6, PublishType DEF PatchUnanswered, PatchOK, MaybeCertificate
<1>7. QED
  BY <1>4, <1>5, <1>6

(* Without faults only the successful outcome, or a Certificate that is gone. *)
LEMMA NoFaultFacts ==
    ASSUME NoFaults
    PROVE  /\ ~Fault
           /\ NoFault => NoFaults'
BY DEF NoFaults, Fault, NoFault, Spend

----------------------------------------------------------------------------
(* The frame of NoOrphanedFailure: who leaves the queue's worker, the cache  *)
(* and the queue alone, and is noticed, keeps Alert.                         *)
LEMMA AlertKept ==
    ASSUME Alert, NoFaults', Noticed,
           cached' = cached, queued => queued', timer => timer',
           stage'["queue"] = stage["queue"], local'["queue"] = local["queue"]
    PROVE  Alert'
BY DEF Alert, Noticed, CacheOK, CopyOK, Troubled, OurIssuerFilter, Failed,
       NoOrphanedFailure, Pending, Idle

----------------------------------------------------------------------------
(* Who calls Reconcile. *)

LEMMA TakeStep ==
    ASSUME IInv, Take
    PROVE  IInv'
<1>1. TypeOK' /\ CallOK'
  BY DEF IInv, TypeOK, CallOK, Take, Goto, Stage, Worker, apiserver, Idle
<1>2. ASSUME Alert PROVE Alert'
  BY <1>2 DEF Alert, NoFaults, CacheOK, CopyOK, Troubled, NoOrphanedFailure, Pending,
     Idle, Take, Goto, apiserver, IInv, TypeOK, Worker
<1>3. QED
  BY <1>1, <1>2 DEF IInv

LEMMA RipenStep ==
    ASSUME IInv, Ripen
    PROVE  IInv'
<1>1. TypeOK' /\ CallOK'
  BY DEF IInv, TypeOK, CallOK, Ripen, apiserver, locals
<1>2. ASSUME Alert PROVE Alert'
  BY <1>2 DEF Alert, NoFaults, CacheOK, CopyOK, Troubled, NoOrphanedFailure, Pending,
     Idle, Ripen, apiserver, locals
<1>3. QED
  BY <1>1, <1>2 DEF IInv

LEMMA DriftStep ==
    ASSUME IInv, Drift
    PROVE  IInv'
<1>1. TypeOK' /\ CallOK'
  BY DEF IInv, TypeOK, CallOK, Drift, Goto, Stage, Worker, apiserver, queue
<1>2. ASSUME Alert PROVE Alert'
  <2>1. /\ NoFaults' /\ Noticed /\ cached' = cached /\ queued' = queued /\ timer' = timer
        /\ stage'["queue"] = stage["queue"] /\ local'["queue"] = local["queue"]
    BY <1>2 DEF Alert, NoFaults, Noticed, Drift, Goto, apiserver, queue, IInv, TypeOK, Worker
  <2>2. QED
    BY <1>2, <2>1, AlertKept
<1>3. QED
  BY <1>1, <1>2 DEF IInv

LEMMA DeliverStep ==
    ASSUME IInv, Deliver
    PROVE  IInv'
<1>1. TypeOK' /\ CallOK'
  BY DEF IInv, TypeOK, CallOK, Deliver, locals
<1>2. ASSUME Alert PROVE Alert'
  BY <1>2 DEF Alert, NoFaults, CacheOK, CopyOK, Troubled, NoOrphanedFailure, Pending,
     Idle, Deliver, locals, Failed
<1>3. QED
  BY <1>1, <1>2 DEF IInv

----------------------------------------------------------------------------
(* Reconcile. *)

LEMMA GetStep ==
    ASSUME IInv, NEW w \in Worker, Get(w)
    PROVE  IInv'
<1>1. TypeOK' /\ CallOK'
  <2>1. budget' \in [{"edits", "outages", "faults", "crashes"} -> Nat]
    <3>1. NoFault \/ Spend("faults")
      BY DEF Get, Fault
    <3>2. QED
      BY <3>1, SpendType DEF IInv, TypeOK
  <2>2. CASE \E retry \in BOOLEAN : Return(w, retry) /\ current' = Holding(current)
    BY <2>1, <2>2 DEF Get, IInv, TypeOK, CallOK, Return, Goto, Keep, Holding, Stage,
       MaybeCertificate
  <2>3. CASE /\ cached # Gone /\ Keep(w, cached)
             /\ current' \subseteq current \cup {w}
             /\ unheard' = [unheard EXCEPT ![w] = FALSE]
             /\ UNCHANGED timer
             /\ \E s \in {"write", "soft", "mark"} : Goto(w, s)
             /\ \/ UNCHANGED why
                \/ \E r \in Failure : why' = [why EXCEPT ![w] = r]
    BY <2>1, <2>3 DEF Get, IInv, TypeOK, CallOK, Goto, Keep, Stage
  <2>4. QED
    BY <2>2, <2>3 DEF Get, Failure
<1>2. ASSUME MaxFaults = 0, Alert PROVE Alert'
  <2>1. ~Fault /\ NoFaults'
    BY <1>2, NoFaultFacts DEF Alert, Get
  <2>2. CASE w # "queue"
    <3>1. /\ Noticed /\ cached' = cached /\ (queued => queued') /\ (timer => timer')
          /\ stage'["queue"] = stage["queue"] /\ local'["queue"] = local["queue"]
      BY <2>1, <2>2 DEF Get, Return, Goto, Keep, Noticed, IInv, TypeOK, Worker
    <3>2. QED
      BY <1>2, <2>1, <3>1, AlertKept
  <2>3. CASE w = "queue" /\ cached = Gone
    <3>1. stage'["queue"] = "idle" /\ UNCHANGED <<live, cached, due, queued>>
      BY <2>1, <2>3 DEF Get, Return, Goto, IInv, TypeOK
    <3>2. QED
      BY <1>2, <2>1, <2>3, <3>1 DEF Alert, CacheOK, CopyOK, Troubled, Failed,
         NoOrphanedFailure, Pending
  <2>4. CASE w = "queue" /\ cached # Gone
    <3>1. /\ stage'["queue"] \in {"write", "soft", "mark"} /\ local'["queue"] = cached
          /\ UNCHANGED <<live, cached, due, queued>>
      BY <2>1, <2>4 DEF Get, Goto, Keep, IInv, TypeOK
    <3>2. QED
      BY <1>2, <2>1, <3>1 DEF Alert, CacheOK, CopyOK, Troubled, Failed,
         NoOrphanedFailure, Pending, Idle
  <2>5. QED
    BY <2>2, <2>3, <2>4
<1>3. QED
  BY <1>1, <1>2 DEF IInv

(* What a status patch by w needs to know of w's copy.                      *)
LEMMA CopyType ==
    ASSUME IInv, NEW w \in Worker, stage[w] \notin {"idle", "called"}
    PROVE  /\ local[w] \in Certificate
           /\ \A v \in Failure \cup {"none", "Synced"} : Synced(w, v) \in Condition
           /\ [local[w].cond EXCEPT !.ready = "Synced"] \in Condition
<1>1. local[w] \in Certificate
  BY DEF IInv, TypeOK, CallOK, MaybeCertificate
<1>2. local[w].cond \in Condition
  BY <1>1, CertificateParts DEF Certificate
<1>3. QED
  BY <1>1, <1>2, ConditionParts DEF Synced

LEMMA MarkStep ==
    ASSUME IInv, NEW w \in Worker, Mark(w)
    PROVE  IInv'
<1> DEFINE cond == Synced(w, why[w])
<1>1. local[w] \in Certificate /\ cond \in Condition
  BY CopyType DEF Mark, IInv, TypeOK
<1>2. PatchOK(w, cond) \/ PatchRefused \/ PatchUnanswered(w, cond)
  BY DEF Mark
<1> HIDE DEF cond
<1>3. /\ ServerTypes' /\ Noticed
      /\ budget' \in [{"edits", "outages", "faults", "crashes"} -> Nat]
  BY <1>1, <1>2, PatchType DEF IInv
<1>4. TypeOK' /\ CallOK'
  BY <1>3 DEF Mark, IInv, TypeOK, CallOK, ServerTypes, Return, Goto, Keep, Stage, MaybeCertificate
<1>5. ASSUME MaxFaults = 0, Alert PROVE Alert'
  <2>1. NoFaults'
    BY <1>2, <1>5, NoFaultFacts DEF Alert, PatchOK, PatchRefused, PatchUnanswered
  <2>2. CASE w # "queue"
    <3>1. /\ Noticed /\ cached' = cached /\ (queued => queued') /\ (timer => timer')
          /\ stage'["queue"] = stage["queue"] /\ local'["queue"] = local["queue"]
      BY <1>3, <2>2 DEF Mark, Return, Goto, Keep, IInv, TypeOK, Worker
    <3>2. QED
      BY <1>5, <2>1, <3>1, AlertKept
  <2>3. CASE w = "queue"
    <3>1. cached' = cached /\ stage'["queue"] = "idle" /\ timer' = TRUE
      BY <2>3 DEF Mark, Return, Goto, IInv, TypeOK
    <3>2. QED
      BY <1>3, <1>5, <2>1, <3>1 DEF Alert, Noticed, CacheOK, CopyOK, Troubled,
         NoOrphanedFailure, Pending
  <2>4. QED
    BY <2>2, <2>3
<1>6. QED
  BY <1>4, <1>5 DEF IInv

(* A step of the Resyncer's goroutine cannot harm the queue's.              *)
LEMMA OtherWorker ==
    ASSUME Alert, NoFaults', Noticed, TypeOK,
           NEW w \in Worker, w # "queue",
           NEW s, Goto(w, s), NEW c, Keep(w, c) \/ local' = local,
           cached' = cached, queued' = queued, timer' = timer
    PROVE  Alert'
<1>1. stage'["queue"] = stage["queue"] /\ local'["queue"] = local["queue"]
  BY DEF Goto, Keep, TypeOK, Worker
<1>2. (queued => queued') /\ (timer => timer')
  OBVIOUS
<1>3. QED
  BY <1>1, <1>2, AlertKept

(* The copy after a drift patch, recorded or not.                           *)
LEMMA DriftPatchType ==
    ASSUME TypeOK, NEW w \in Worker, local[w] \in Certificate, NEW cond \in Condition,
           \/ PatchOK(w, cond) /\ Keep(w, live')
           \/ PatchRefused /\ Keep(w, [local[w] EXCEPT !.cond = cond])
           \/ PatchUnanswered(w, cond) /\ Keep(w, [local[w] EXCEPT !.cond = cond])
           \/ Fault /\ UNCHANGED <<apiserver, local>>
    PROVE  /\ ServerTypes' /\ Noticed
           /\ budget' \in [{"edits", "outages", "faults", "crashes"} -> Nat]
           /\ \E c \in Certificate : Keep(w, c)
<1>1. CASE PatchOK(w, cond) /\ Keep(w, live')
  BY <1>1, PatchType
<1>2. CASE /\ PatchRefused \/ PatchUnanswered(w, cond)
           /\ Keep(w, [local[w] EXCEPT !.cond = cond])
  BY <1>2, PatchType, CertificateParts
<1>3. CASE Fault /\ UNCHANGED <<apiserver, local>>
  <2>1. budget' \in [{"edits", "outages", "faults", "crashes"} -> Nat]
    BY <1>3, SpendType DEF TypeOK, Fault
  <2>2. Keep(w, local[w])
    BY <1>3 DEF Keep, TypeOK
  <2>3. QED
    BY <1>3, <2>1, <2>2 DEF apiserver, ServerTypes, TypeOK, Noticed
<1>4. QED
  BY <1>1, <1>2, <1>3

(* ... and without faults: it is what the server has, or the server has      *)
(* nothing.                                                                  *)
LEMMA DriftPatchNoFault ==
    ASSUME TypeOK, NoFaults, NEW w \in Worker, local[w] \in Certificate, NEW cond \in Condition,
           \/ PatchOK(w, cond) /\ Keep(w, live')
           \/ PatchRefused /\ Keep(w, [local[w] EXCEPT !.cond = cond])
           \/ PatchUnanswered(w, cond) /\ Keep(w, [local[w] EXCEPT !.cond = cond])
           \/ Fault /\ UNCHANGED <<apiserver, local>>
    PROVE  /\ NoFaults'
           /\ \/ live' = Gone
              \/ live' = Patched(w, cond) /\ live' \in Certificate /\ local'[w] = live'
<1>1. ~Fault /\ (NoFault => NoFaults')
  BY NoFaultFacts
<1>2. CASE PatchOK(w, cond) /\ Keep(w, live')
  <2>1. NoFaults' /\ live' = Patched(w, cond) /\ live' \in Certificate
    BY <1>1, <1>2, PatchType DEF PatchOK
  <2>2. local'[w] = live'
    BY <1>2 DEF Keep, TypeOK
  <2>3. QED
    BY <2>1, <2>2
<1>3. CASE PatchRefused
  BY <1>1, <1>3 DEF PatchRefused, NotPublished
<1>4. QED
  BY <1>1, <1>2, <1>3 DEF PatchUnanswered

LEMMA SoftStep ==
    ASSUME IInv, NEW w \in Worker, Soft(w)
    PROVE  IInv'
<1> DEFINE cond == Synced(w, why[w])
<1>1. local[w] \in Certificate /\ cond \in Condition /\ TypeOK
  BY CopyType DEF Soft, IInv, TypeOK
<1>2. \/ PatchOK(w, cond) /\ Keep(w, live')
      \/ PatchRefused /\ Keep(w, [local[w] EXCEPT !.cond = cond])
      \/ PatchUnanswered(w, cond) /\ Keep(w, [local[w] EXCEPT !.cond = cond])
      \/ Fault /\ UNCHANGED <<apiserver, local>>
  BY DEF Soft
<1> HIDE DEF cond
<1>3. PICK c \in Certificate : Keep(w, c)
  BY <1>1, <1>2, DriftPatchType
<1>4. /\ ServerTypes' /\ Noticed
      /\ budget' \in [{"edits", "outages", "faults", "crashes"} -> Nat]
  BY <1>1, <1>2, DriftPatchType
<1>5. c # Gone
  BY GoneAssumption
<1>6. TypeOK' /\ CallOK'
  BY <1>3, <1>4, <1>5 DEF Soft, IInv, TypeOK, CallOK, ServerTypes, Goto, Keep, Stage,
     MaybeCertificate, queue
<1>7. ASSUME Alert PROVE Alert'
  <2>1. /\ NoFaults'
        /\ \/ live' = Gone
           \/ live' \in Certificate /\ local'[w] = live'
    BY <1>1, <1>2, <1>7, DriftPatchNoFault DEF Alert
  <2>2. CASE w # "queue"
    BY <1>1, <1>3, <1>4, <1>7, <2>1, <2>2, OtherWorker DEF Soft, queue
  <2>3. CASE w = "queue"
    <3>1. cached' = cached /\ stage'["queue"] = "write"
      BY <1>1, <2>3 DEF Soft, Goto, TypeOK
    <3>2. CacheOK'
      BY <1>4, <1>7, <3>1 DEF Alert, CacheOK, Noticed, Troubled
    <3>3. CopyOK'
      BY <2>1, <2>3, <3>1 DEF CopyOK, Troubled, Failed
    <3>4. QED
      BY <2>1, <3>1, <3>2, <3>3 DEF Alert, NoOrphanedFailure, Pending, Idle
  <2>4. QED
    BY <2>2, <2>3
<1>8. QED
  BY <1>6, <1>7 DEF IInv

LEMMA WriteStep ==
    ASSUME IInv, NEW w \in Worker, Write(w)
    PROVE  IInv'
<1>1. NoFault \/ Spend("faults")
  BY DEF Write, Fault
<1>2. budget' \in [{"edits", "outages", "faults", "crashes"} -> Nat]
  BY <1>1, SpendType DEF IInv, TypeOK
<1>3. PICK s \in {"mark", "force", "clear"} : Goto(w, s)
  BY DEF Write
<1>4. requests' \in [Revision -> {"none", "pending", "signed"}]
  BY DEF Write, SignCertificateRequest, IInv, TypeOK
<1>5. why' \in [Worker -> Failure \cup {"none"}]
  BY DEF Write, IInv, TypeOK, Failure
<1>6. TypeOK' /\ CallOK'
  BY <1>2, <1>3, <1>4, <1>5 DEF Write, IInv, TypeOK, CallOK, Goto, Stage, apiserver, queue
<1>7. ASSUME Alert PROVE Alert'
  <2>1. NoFaults' /\ Noticed /\ cached' = cached /\ queued' = queued /\ timer' = timer
        /\ live' = live /\ due' = due /\ local' = local
    BY <1>7, NoFaultFacts DEF Alert, Write, apiserver, queue, Noticed
  <2>2. CASE w # "queue"
    <3>1. TypeOK
      BY DEF IInv
    <3>2. QED
      BY <1>3, <1>7, <2>1, <2>2, <3>1, OtherWorker
  <2>3. CASE w = "queue"
    <3>1. stage["queue"] = "write" /\ stage'["queue"] \in {"mark", "force", "clear"}
      BY <1>3, <2>3 DEF Write, Goto, IInv, TypeOK
    <3>2. QED
      BY <1>7, <2>1, <3>1 DEF Alert, CacheOK, CopyOK, Troubled, NoOrphanedFailure, Pending, Idle
  <2>4. QED
    BY <2>2, <2>3
<1>8. QED
  BY <1>6, <1>7 DEF IInv

LEMMA ClearForceSyncStep ==
    ASSUME IInv, NEW w \in Worker, ClearForceSync(w)
    PROVE  IInv'
<1> DEFINE cleared == [local[w] EXCEPT !.force = FALSE]
           stored  == [cleared EXCEPT !.cond = live.cond]
<1>1. local[w] \in Certificate /\ TypeOK
  BY CopyType DEF ClearForceSync, IInv
<1>2. cleared \in Certificate /\ cleared.cond = local[w].cond
  <2>1. local[w].cond \in Condition
    BY <1>1 DEF Certificate
  <2>2. QED
    BY <1>1, <2>1, CertificateParts
<1>3. live # Gone => stored \in Certificate
  <2> SUFFICES ASSUME live # Gone PROVE stored \in Certificate
    OBVIOUS
  <2>1. live.cond \in Condition
    <3>1. live \in Certificate
      BY <1>1 DEF TypeOK, MaybeCertificate
    <3>2. QED
      BY <3>1 DEF Certificate
  <2> HIDE DEF cleared
  <2>2. QED
    BY <1>2, <2>1, CertificateParts
<1>4. /\ Goto(w, "clear") /\ stage[w] = "force"
      /\ \/ live # Gone /\ NoFault /\ Publish(stored, {w}) /\ Keep(w, stored)
         \/ live # Gone /\ Fault /\ Publish(stored, {}) /\ Keep(w, cleared)
         \/ (NoFault \/ Fault) /\ UNCHANGED apiserver /\ Keep(w, cleared)
      /\ UNCHANGED <<cached, cloud, requests, queued, timer, why, unheard>>
  BY DEF ClearForceSync, queue
<1> HIDE DEF cleared, stored
<1>5. PICK c \in Certificate : Keep(w, c)
  BY <1>2, <1>3, <1>4
<1>6. ServerTypes' /\ Noticed
  <2>1. ServerTypes /\ (live # Gone => stored \in MaybeCertificate)
    BY <1>1, <1>3 DEF ServerTypes, TypeOK, MaybeCertificate
  <2>2. CASE live # Gone /\ \E h \in SUBSET (Worker \cup {"cache"}) : Publish(stored, h)
    BY <2>1, <2>2, PublishType
  <2>3. CASE UNCHANGED apiserver
    BY <2>1, <2>3 DEF ServerTypes, apiserver, Noticed
  <2>4. QED
    BY <1>4, <2>2, <2>3
<1>7. budget' \in [{"edits", "outages", "faults", "crashes"} -> Nat]
  BY <1>1, <1>4, SpendType DEF TypeOK, Fault
<1>8. c # Gone
  BY GoneAssumption
<1>9. TypeOK' /\ CallOK'
  BY <1>4, <1>5, <1>6, <1>7, <1>8 DEF IInv, TypeOK, CallOK, ServerTypes, Goto, Keep, Stage,
     MaybeCertificate
<1>10. ASSUME Alert PROVE Alert'
  <2>1. /\ NoFaults' /\ cached' = cached /\ queued' = queued /\ timer' = timer
        /\ \/ live' = local'[w]
           \/ live' = live /\ due' = due /\ Keep(w, cleared)
    <3>1. CASE live # Gone /\ NoFault /\ Publish(stored, {w}) /\ Keep(w, stored)
      BY <1>1, <1>4, <1>10, <3>1, NoFaultFacts DEF Alert, Publish, Keep, TypeOK
    <3>2. CASE (NoFault \/ Fault) /\ UNCHANGED apiserver /\ Keep(w, cleared)
      BY <1>4, <1>10, <3>2, NoFaultFacts DEF Alert, apiserver
    <3>3. QED
      BY <1>4, <1>10, <3>1, <3>2, NoFaultFacts DEF Alert
  <2>2. CASE w # "queue"
    BY <1>1, <1>4, <1>5, <1>6, <1>10, <2>1, <2>2, OtherWorker
  <2>3. CASE w = "queue"
    <3>1. stage["queue"] = "force" /\ stage'["queue"] = "clear"
      BY <1>1, <1>4, <2>3 DEF Goto, TypeOK
    <3>2. CacheOK'
      BY <1>6, <1>10, <2>1 DEF Alert, CacheOK, Noticed, Troubled
    <3>3. CopyOK'
      <4>1. CASE live' = local'[w]
        BY <2>3, <3>1, <4>1 DEF CopyOK, Troubled
      <4>2. CASE live' = live /\ due' = due /\ Keep(w, cleared)
        <5>1. local'["queue"] = cleared
          BY <1>1, <2>3, <4>2 DEF Keep, TypeOK
        <5>2. Failed(local'["queue"]) <=> Failed(local["queue"])
          BY <1>1, <1>2, <2>3, <5>1, GoneAssumption DEF Failed
        <5>3. QED
          BY <1>10, <2>1, <3>1, <4>2, <5>2 DEF Alert, CopyOK, Troubled
      <4>3. QED
        BY <2>1, <4>1, <4>2
    <3>4. QED
      BY <2>1, <3>1, <3>2, <3>3 DEF Alert, NoOrphanedFailure, Pending, Idle
  <2>4. QED
    BY <2>2, <2>3
<1>11. QED
  BY <1>9, <1>10 DEF IInv

LEMMA ClearCertDriftStep ==
    ASSUME IInv, NEW w \in Worker, ClearCertDrift(w)
    PROVE  IInv'
<1> DEFINE cond == Synced(w, "Synced")
<1>1. local[w] \in Certificate /\ cond \in Condition /\ TypeOK
  BY CopyType DEF ClearCertDrift, IInv
<1>2. \/ PatchOK(w, cond) /\ Keep(w, live')
      \/ PatchRefused /\ Keep(w, [local[w] EXCEPT !.cond = cond])
      \/ PatchUnanswered(w, cond) /\ Keep(w, [local[w] EXCEPT !.cond = cond])
      \/ Fault /\ UNCHANGED <<apiserver, local>>
  BY DEF ClearCertDrift
<1>3. cond.synced = "Synced"
  BY <1>1, CertificateParts DEF Synced, Condition
<1> HIDE DEF cond
<1>4. PICK c \in Certificate : Keep(w, c)
  BY <1>1, <1>2, DriftPatchType
<1>5. /\ ServerTypes' /\ Noticed
      /\ budget' \in [{"edits", "outages", "faults", "crashes"} -> Nat]
  BY <1>1, <1>2, DriftPatchType
<1>6. c # Gone
  BY GoneAssumption
<1>7. TypeOK' /\ CallOK'
  BY <1>4, <1>5, <1>6 DEF ClearCertDrift, IInv, TypeOK, CallOK, ServerTypes, Goto, Keep,
     Stage, MaybeCertificate, queue
<1>8. ASSUME Alert PROVE Alert'
  <2>1. /\ NoFaults'
        /\ \/ live' = Gone
           \/ live' = Patched(w, cond) /\ live' \in Certificate /\ local'[w] = live'
    BY <1>1, <1>2, <1>8, DriftPatchNoFault DEF Alert
  <2>2. CASE w # "queue"
    BY <1>1, <1>4, <1>5, <1>8, <2>1, <2>2, OtherWorker DEF ClearCertDrift, queue
  <2>3. CASE w = "queue"
    <3>1. /\ cached' = cached /\ queued' = queued
          /\ stage["queue"] = "clear" /\ stage'["queue"] = "ready"
      BY <1>1, <2>3 DEF ClearCertDrift, Goto, TypeOK, queue
    <3>2. CacheOK'
      BY <1>5, <1>8, <3>1 DEF Alert, CacheOK, Noticed, Troubled
    <3>3. Troubled' => live' = live /\ local[w].cond = cond
      <4>1. CASE live' # Gone /\ local[w].cond # cond
        <5>1. live' = [live EXCEPT !.cond = cond]
          BY <2>1, <4>1 DEF Patched
        <5>2. live \in Certificate
          <6>1. live # Gone
            BY <1>2, <2>1, <4>1, <1>8, NoFaultFacts DEF Alert, PatchOK, PatchRefused,
               NotPublished, PatchUnanswered
          <6>2. QED
            BY <1>1, <6>1 DEF TypeOK, MaybeCertificate
        <5>3. live'.cond = cond
          BY <1>1, <5>1, <5>2, CertificateParts
        <5>4. QED
          BY <1>3, <5>3 DEF Troubled, Failed, Failure
      <4>2. QED
        BY <2>1, <4>1 DEF Patched, Troubled, OurIssuerFilter
    <3>4. Troubled' => ~Failed(local["queue"])
      BY <1>3, <2>3, <3>3 DEF Failed, Failure
    <3>5. CopyOK'
      BY <1>5, <1>8, <3>1, <3>3, <3>4 DEF Alert, CopyOK, Noticed, Troubled
    <3>6. QED
      BY <2>1, <3>1, <3>2, <3>5 DEF Alert, NoOrphanedFailure, Pending, Idle
  <2>4. QED
    BY <2>2, <2>3
<1>9. QED
  BY <1>7, <1>8 DEF IInv

LEMMA SetReadyStep ==
    ASSUME IInv, NEW w \in Worker, SetReady(w)
    PROVE  IInv'
<1> DEFINE cond == [local[w].cond EXCEPT !.ready = "Synced"]
<1>1. local[w] \in Certificate /\ cond \in Condition /\ TypeOK
  BY CopyType DEF SetReady, IInv
<1>2. \/ Return(w, FALSE) /\ PatchOK(w, cond)
      \/ Return(w, TRUE) /\ (PatchRefused \/ PatchUnanswered(w, cond))
  BY DEF SetReady
<1> HIDE DEF cond
<1>3. /\ ServerTypes' /\ Noticed
      /\ budget' \in [{"edits", "outages", "faults", "crashes"} -> Nat]
  BY <1>1, <1>2, PatchType
<1>4. PICK retry \in BOOLEAN : Return(w, retry)
  BY <1>2
<1>5. TypeOK' /\ CallOK'
  BY <1>3, <1>4 DEF SetReady, IInv, TypeOK, CallOK, ServerTypes, Return, Goto, Keep, Stage,
     MaybeCertificate
<1>6. ASSUME Alert PROVE Alert'
  <2>1. NoFaults'
    BY <1>2, <1>6, NoFaultFacts DEF Alert, PatchOK, PatchRefused, PatchUnanswered
  <2>2. CASE w # "queue"
    <3>1. Goto(w, "idle") /\ Keep(w, Gone) /\ cached' = cached /\ queued' = queued
          /\ timer' = timer
      BY <1>1, <1>4, <2>2 DEF SetReady, Return, TypeOK
    <3>2. QED
      BY <1>1, <1>3, <1>6, <2>1, <2>2, <3>1, OtherWorker
  <2>3. CASE w = "queue"
    <3>1. /\ cached' = cached /\ queued' = queued
          /\ stage["queue"] = "ready" /\ stage'["queue"] = "idle"
      BY <1>1, <1>4, <2>3 DEF SetReady, Return, Goto, TypeOK
    <3>2. CacheOK' /\ CopyOK'
      BY <1>3, <1>6, <3>1 DEF Alert, CacheOK, CopyOK, Noticed, Troubled
    <3>3. Troubled' => Pending'
      BY <1>3, <1>6, <3>1 DEF Alert, CopyOK, Noticed, Troubled, Pending
    <3>4. QED
      BY <2>1, <3>2, <3>3 DEF Alert, NoOrphanedFailure, Troubled
  <2>4. QED
    BY <2>2, <2>3
<1>7. QED
  BY <1>5, <1>6 DEF IInv

----------------------------------------------------------------------------
(* The rest of the world. *)

(* Somebody else's edit, whatever it is.                                    *)
LEMMA MeddleStep ==
    ASSUME IInv, NEW kind, NEW c \in MaybeCertificate, Meddle(kind, c),
           unheard' \in [Worker -> BOOLEAN]
    PROVE  IInv'
<1>1. ServerTypes
  BY DEF IInv, TypeOK, ServerTypes
<1>2. ServerTypes' /\ Noticed
  BY <1>1, PublishType DEF Meddle
<1>3. /\ budget' \in [{"edits", "outages", "faults", "crashes"} -> Nat]
      /\ budget'["faults"] = budget["faults"]
  BY SpendType DEF Meddle, IInv, TypeOK
<1>4. /\ cached' = cached /\ cloud' = cloud /\ requests' = requests /\ queued' = queued
      /\ timer' = timer /\ stage' = stage /\ local' = local /\ why' = why
  BY DEF Meddle, queue
<1>5. TypeOK' /\ CallOK'
  BY <1>2, <1>3, <1>4 DEF IInv, TypeOK, CallOK, ServerTypes
<1>6. ASSUME Alert PROVE Alert'
  BY <1>2, <1>3, <1>4, <1>6, AlertKept DEF Alert, NoFaults
<1>7. QED
  BY <1>5, <1>6 DEF IInv

LEMMA EditStep ==
    ASSUME IInv, AskForSync \/ ChangeSpec \/ ChangeConditions \/ DeleteOrCreate
    PROVE  IInv'
<1>1. CASE AskForSync
  <2>1. [live EXCEPT !.force = TRUE] \in MaybeCertificate
    BY <1>1 DEF AskForSync, IInv, TypeOK, MaybeCertificate, Certificate
  <2>2. unheard' \in [Worker -> BOOLEAN]
    BY <1>1 DEF AskForSync
  <2>3. QED
    BY <1>1, <2>1, <2>2, MeddleStep DEF AskForSync
<1>2. CASE ChangeSpec
  <2>1. PICK s \in {"named", "unnamed", "foreign"}, kind \in {"spec", "issuer"} :
          Meddle(kind, [live EXCEPT !.spec = s])
    BY <1>2 DEF ChangeSpec
  <2>2. [live EXCEPT !.spec = s] \in MaybeCertificate
    BY <1>2 DEF ChangeSpec, IInv, TypeOK, MaybeCertificate, Certificate
  <2>3. unheard' \in [Worker -> BOOLEAN]
    BY <1>2 DEF ChangeSpec, IInv, TypeOK
  <2>4. QED
    BY <2>1, <2>2, <2>3, MeddleStep
<1>3. CASE ChangeConditions
  <2>1. live \in Certificate /\ live.cond \in Condition
    BY <1>3 DEF ChangeConditions, IInv, TypeOK, MaybeCertificate, Certificate
  <2>2. /\ [live EXCEPT !.cond.issuing = ~@] \in MaybeCertificate
        /\ [live EXCEPT !.cond.ready = "False"] \in MaybeCertificate
    BY <2>1 DEF MaybeCertificate, Certificate, Condition
  <2>3. unheard' \in [Worker -> BOOLEAN]
    BY <1>3 DEF ChangeConditions, IInv, TypeOK
  <2>4. QED
    BY <1>3, <2>2, <2>3, MeddleStep DEF ChangeConditions
<1>4. CASE DeleteOrCreate
  <2>1. (IF live = Gone THEN NewCertificate ELSE Gone) \in MaybeCertificate
    BY NewCertificateType DEF MaybeCertificate
  <2>2. unheard' \in [Worker -> BOOLEAN]
    BY <1>4 DEF DeleteOrCreate, IInv, TypeOK
  <2>3. QED
    BY <1>4, <2>1, <2>2, MeddleStep DEF DeleteOrCreate
<1>5. QED
  BY <1>1, <1>2, <1>3, <1>4

LEMMA ElsewhereStep ==
    ASSUME IInv, Request \/ ChangeSource
    PROVE  IInv'
<1>1. PICK kind \in {"edits", "outages"} : Spend(kind)
  BY DEF Request, ChangeSource
<1>2. /\ budget' \in [{"edits", "outages", "faults", "crashes"} -> Nat]
      /\ budget'["faults"] = budget["faults"]
  BY <1>1, SpendType DEF IInv, TypeOK
<1>3. UNCHANGED <<live, current, due, cached, queued, timer, stage, local, why, unheard>>
  BY DEF Request, ChangeSource, apiserver, queue, locals
<1>4. cloud' \in Cloud /\ requests' \in [Revision -> {"none", "pending", "signed"}]
  BY DEF Request, ChangeSource, IInv, TypeOK
<1>5. TypeOK' /\ CallOK'
  BY <1>2, <1>3, <1>4 DEF IInv, TypeOK, CallOK
<1>6. ASSUME Alert PROVE Alert'
  BY <1>2, <1>3, <1>6, AlertKept DEF Alert, NoFaults, Noticed
<1>7. QED
  BY <1>5, <1>6 DEF IInv

LEMMA CrashStep ==
    ASSUME IInv, Crash
    PROVE  IInv'
<1>1. /\ budget' \in [{"edits", "outages", "faults", "crashes"} -> Nat]
      /\ budget'["faults"] = budget["faults"]
  BY SpendType DEF Crash, IInv, TypeOK
<1>2. TypeOK' /\ CallOK'
  BY <1>1 DEF Crash, IInv, TypeOK, CallOK, MaybeCertificate, OurIssuerFilter, Stage
<1>3. ASSUME Alert PROVE Alert'
  BY <1>1, <1>3 DEF Alert, NoFaults, CacheOK, CopyOK, Troubled, Failed, NoOrphanedFailure,
     Pending, Crash, Worker
<1>4. QED
  BY <1>2, <1>3 DEF IInv

----------------------------------------------------------------------------
LEMMA InitIInv == Init => IInv
<1> SUFFICES ASSUME Init PROVE IInv
  OBVIOUS
<1>1. live \in Certificate
  BY NewCertificateType DEF Init
<1>2. budget \in [{"edits", "outages", "faults", "crashes"} -> Nat]
      /\ budget["faults"] = MaxFaults
  BY ReconcileLoopAssumption DEF Init
<1>3. TypeOK /\ CallOK
  BY <1>1, <1>2 DEF Init, TypeOK, CallOK, MaybeCertificate, Stage
<1>4. ~Failed(live)
  BY DEF Init, NewCertificate, Failed, Failure
<1>5. MaxFaults = 0 => Alert
  BY <1>2, <1>4 DEF Init, Alert, NoFaults, CacheOK, CopyOK, Troubled, NoOrphanedFailure, Worker
<1>6. QED
  BY <1>3, <1>5 DEF IInv

LEMMA NextIInv == IInv /\ [Next]_vars => IInv'
<1> SUFFICES ASSUME IInv, [Next]_vars PROVE IInv'
  OBVIOUS
<1>1. CASE UNCHANGED vars
  BY <1>1 DEF vars, apiserver, queue, locals, IInv, TypeOK, CallOK, Alert, NoFaults, CacheOK,
     CopyOK, Troubled, NoOrphanedFailure, Pending, Idle
<1>2. CASE Scheduling
  BY <1>2, TakeStep, RipenStep, DriftStep, DeliverStep DEF Scheduling
<1>3. ASSUME NEW w \in Worker, Reconcile(w) PROVE IInv'
  BY <1>3, GetStep, MarkStep, SoftStep, WriteStep, ClearForceSyncStep, ClearCertDriftStep,
     SetReadyStep DEF Reconcile
<1>4. CASE Environment
  BY <1>4, EditStep, ElsewhereStep, CrashStep DEF Environment
<1>5. QED
  BY <1>1, <1>2, <1>3, <1>4 DEF Next

LEMMA Inductive == Spec => []IInv
BY InitIInv, NextIInv, PTL DEF Spec

(* Every variable of the loop keeps its type, whatever fails.               *)
(* issuer.go:63-282, resync.go:52-101, app.go:50-61.                        *)
THEOREM LoopTypeCorrect == Spec => []TypeOK
<1>1. IInv => TypeOK
  BY DEF IInv
<1>2. QED
  BY <1>1, Inductive, PTL

(* For every number of edits, outages and restarts: while no call fails, a  *)
(* Certificate of ours that shows a failure has an event, a queue entry, a  *)
(* timer or a reconcile under way that will look at it again.               *)
(* app.go:50-61, log.go:12-22, issuer.go:63-249.                            *)
THEOREM FailureIsNeverOrphaned == Spec => []NoOrphanedFailure
<1>1. IInv => NoOrphanedFailure
  BY DEF IInv, Alert, NoOrphanedFailure
<1>2. QED
  BY <1>1, Inductive, PTL

----------------------------------------------------------------------------
(* ForceSyncHeard.  A worker about to clear force-sync can only do so with   *)
(* the version it fetched, and whoever sets force-sync makes another; the    *)
(* one step that could give it that version, a patch in between, is the one  *)
(* of a source without a key.                                                *)
Heard(w) ==
    /\ stage[w] # "soft"
    /\ stage[w] \in {"write", "force"} /\ w \in current => ~unheard[w]

HeardInv ==
    /\ budget["outages"] <= MaxOutages
    /\ KeyIsThere => \A w \in Worker : Heard(w)

\* A source that has its key has had it before.
LEMMA KeyWasThere ==
    ASSUME TypeOK, HeardInv, Next
    PROVE  /\ budget'["outages"] <= MaxOutages
           /\ KeyIsThere' => KeyIsThere
<1>1. \/ budget' = budget
      \/ \E kind \in {"edits", "outages", "faults", "crashes"} : Spend(kind)
  <2>1. ASSUME NEW w \in Worker, Reconcile(w) PROVE NoFault \/ Fault
    BY <2>1 DEF Reconcile, Get, Mark, Soft, Write, ClearForceSync, ClearCertDrift, SetReady,
       PatchOK, PatchRefused, PatchUnanswered
  <2>2. CASE Scheduling
    BY <2>2 DEF Scheduling, Take, Ripen, Drift, Deliver
  <2>3. CASE Environment
    BY <2>3 DEF Environment, AskForSync, ChangeSpec, ChangeConditions, DeleteOrCreate, Meddle,
       Request, ChangeSource, Crash
  <2>4. QED
    BY <2>1, <2>2, <2>3 DEF Next, NoFault, Fault
<1>2. /\ budget'["outages"] <= budget["outages"]
      /\ budget["outages"] \in Nat /\ budget'["outages"] \in Nat /\ MaxOutages \in Nat
  BY <1>1, ReconcileLoopAssumption DEF TypeOK, Spend
<1>3. cloud' = cloud \/ budget["outages"] > 0
  <2>1. ASSUME NEW w \in Worker, Reconcile(w) PROVE cloud' = cloud
    BY <2>1 DEF Reconcile, Get, Mark, Soft, Write, ClearForceSync, ClearCertDrift, SetReady
  <2>2. CASE Scheduling
    BY <2>2 DEF Scheduling, Take, Ripen, Drift, Deliver
  <2>3. CASE Environment
    BY <2>3 DEF Environment, AskForSync, ChangeSpec, ChangeConditions, DeleteOrCreate, Meddle,
       Request, ChangeSource, Crash, Spend
  <2>4. QED
    BY <2>1, <2>2, <2>3 DEF Next
<1>4. QED
  BY <1>2, <1>3 DEF HeardInv, KeyIsThere

\* Who keeps its stage and gets no new version is as it was.
LEMMA HeardKept ==
    ASSUME NEW w \in Worker, Heard(w), stage'[w] = stage[w], unheard'[w] = unheard[w],
           w \in current' => w \in current
    PROVE  Heard(w)'
BY DEF Heard

\* A new version reaches no worker but the one that stored it.
LEMMA OthersFallBehind ==
    ASSUME NEW w \in Worker, NEW v \in Worker, v # w,
           \/ \E holders \in SUBSET {w} : Publish(live', holders)
           \/ NotPublished \/ UNCHANGED apiserver
    PROVE  v \in current' => v \in current
BY DEF Publish, Holding, NotPublished, apiserver

LEMMA PatchHolders ==
    ASSUME NEW w \in Worker, NEW cond,
           PatchOK(w, cond) \/ PatchRefused \/ PatchUnanswered(w, cond)
    PROVE  NotPublished \/ \E holders \in SUBSET {w} : Publish(live', holders)
<1>1. CASE PatchOK(w, cond)
  <2>1. Publish(live', {w})
    BY <1>1 DEF PatchOK, Publish
  <2>2. QED
    BY <2>1
<1>2. CASE PatchUnanswered(w, cond)
  <2>1. Publish(live', {})
    BY <1>2 DEF PatchUnanswered, Publish
  <2>2. QED
    BY <2>1
<1>3. QED
  BY <1>1, <1>2 DEF PatchRefused

\* What a worker's step leaves to the other.
LEMMA OthersHeard ==
    ASSUME TypeOK, NEW w \in Worker, NEW v \in Worker, v # w, Heard(v), Reconcile(w)
    PROVE  Heard(v)'
<1>1. stage'[v] = stage[v] /\ unheard'[v] = unheard[v]
  BY DEF TypeOK, Reconcile, Get, Mark, Soft, Write, ClearForceSync, ClearCertDrift, SetReady,
     Goto, Return, queue
<1>2. v \in current' => v \in current
  <2>1. CASE Get(w)
    BY <2>1 DEF Get, Holding
  <2>2. CASE Mark(w)
    <3>1. NotPublished \/ \E holders \in SUBSET {w} : Publish(live', holders)
      BY <2>2, PatchHolders DEF Mark
    <3>2. QED
      BY <3>1, OthersFallBehind
  <2>3. CASE Soft(w)
    <3>1. UNCHANGED apiserver \/ NotPublished \/ \E holders \in SUBSET {w} : Publish(live', holders)
      BY <2>3, PatchHolders DEF Soft
    <3>2. QED
      BY <3>1, OthersFallBehind
  <2>4. CASE Write(w)
    BY <2>4 DEF Write, apiserver
  <2>5. CASE ClearForceSync(w)
    <3>1. UNCHANGED apiserver \/ \E holders \in SUBSET {w} : Publish(live', holders)
      <4>1. ASSUME NEW c, NEW holders \in SUBSET {w}, Publish(c, holders)
            PROVE  Publish(live', holders)
        BY <4>1 DEF Publish
      <4>2. QED
        BY <2>5, <4>1 DEF ClearForceSync
    <3>2. QED
      BY <3>1, OthersFallBehind
  <2>6. CASE ClearCertDrift(w)
    <3>1. UNCHANGED apiserver \/ NotPublished \/ \E holders \in SUBSET {w} : Publish(live', holders)
      BY <2>6, PatchHolders DEF ClearCertDrift
    <3>2. QED
      BY <3>1, OthersFallBehind
  <2>7. CASE SetReady(w)
    <3>1. NotPublished \/ \E holders \in SUBSET {w} : Publish(live', holders)
      BY <2>7, PatchHolders DEF SetReady
    <3>2. QED
      BY <3>1, OthersFallBehind
  <2>8. QED
    BY <2>1, <2>2, <2>3, <2>4, <2>5, <2>6, <2>7 DEF Reconcile
<1>3. QED
  BY <1>1, <1>2, HeardKept

\* A worker's own step, with a source that has its key.
LEMMA OwnHeard ==
    ASSUME TypeOK, KeyIsThere, NEW w \in Worker, Heard(w), Reconcile(w)
    PROVE  Heard(w)'
<1>1. CASE Get(w)
  <2>1. Outcome(cached) # "keyless"
    BY DEF TypeOK, KeyIsThere, Outcome
  <2>2. stage'[w] \in {"idle", "write", "mark"} /\ unheard'[w] = FALSE
    BY <1>1, <2>1 DEF Get, TypeOK, Return, Goto
  <2>3. QED
    BY <2>2 DEF Heard
<1>2. CASE Mark(w)
  BY <1>2 DEF Mark, Heard, TypeOK, Return, Goto
<1>3. CASE Soft(w)
  BY <1>3 DEF Soft, Heard
<1>4. CASE Write(w)
  BY <1>4 DEF Write, Heard, TypeOK, Goto, apiserver
<1>5. CASE ClearForceSync(w) \/ ClearCertDrift(w)
  BY <1>5 DEF ClearForceSync, ClearCertDrift, Heard, TypeOK, Goto
<1>6. CASE SetReady(w)
  BY <1>6 DEF SetReady, Heard, TypeOK, Return, Goto
<1>7. QED
  BY <1>1, <1>2, <1>3, <1>4, <1>5, <1>6 DEF Reconcile

LEMMA SchedulingHeard ==
    ASSUME TypeOK, NEW w \in Worker, Heard(w), Scheduling
    PROVE  Heard(w)'
<1>1. CASE Take \/ Ripen \/ Drift
  BY <1>1 DEF Take, Ripen, Drift, Heard, TypeOK, Goto, apiserver, locals
<1>2. CASE Deliver
  BY <1>2 DEF Deliver, Heard, locals, Worker
<1>3. QED
  BY <1>1, <1>2 DEF Scheduling

\* After an edit nobody has the version that the server holds.
LEMMA EnvironmentHeard ==
    ASSUME TypeOK, NEW w \in Worker, Heard(w), Environment
    PROVE  Heard(w)'
<1>1. ASSUME NEW kind, NEW c, Meddle(kind, c) PROVE w \notin current' /\ stage' = stage
  BY <1>1 DEF Meddle, Publish, Holding
<1>2. CASE AskForSync \/ ChangeSpec \/ ChangeConditions \/ DeleteOrCreate
  BY <1>1, <1>2 DEF AskForSync, ChangeSpec, ChangeConditions, DeleteOrCreate, Heard
<1>3. CASE Request \/ ChangeSource
  BY <1>3 DEF Request, ChangeSource, Heard, apiserver, locals
<1>4. CASE Crash
  BY <1>4 DEF Crash, Heard
<1>5. QED
  BY <1>2, <1>3, <1>4 DEF Environment

LEMMA HeardInductive == Spec => []HeardInv
<1>1. Init => HeardInv
  BY ReconcileLoopAssumption DEF Init, HeardInv, Heard
<1>2. TypeOK /\ HeardInv /\ [Next]_vars => HeardInv'
  <2> SUFFICES ASSUME TypeOK, HeardInv, [Next]_vars PROVE HeardInv'
    OBVIOUS
  <2>1. CASE UNCHANGED vars
    BY <2>1 DEF vars, apiserver, locals, HeardInv, Heard, KeyIsThere
  <2>2. CASE Next
    <3>1. budget'["outages"] <= MaxOutages /\ (KeyIsThere' => KeyIsThere)
      BY <2>2, KeyWasThere
    <3>2. ASSUME KeyIsThere, NEW v \in Worker PROVE Heard(v)'
      <4>1. \A u \in Worker : Heard(u)
        BY <3>2 DEF HeardInv
      <4>2. ASSUME NEW w \in Worker, Reconcile(w) PROVE Heard(v)'
        BY <3>2, <4>1, <4>2, OwnHeard, OthersHeard
      <4>3. QED
        BY <2>2, <4>1, <4>2, SchedulingHeard, EnvironmentHeard DEF Next
    <3>3. QED
      BY <3>1, <3>2 DEF HeardInv
  <2>3. QED
    BY <2>1, <2>2
<1>3. QED
  BY <1>1, <1>2, LoopTypeCorrect, PTL DEF Spec

(* Whatever calls fail, workers interleave and people edit: with a source   *)
(* that keeps its key, force-sync is only taken away by a reconcile that    *)
(* fetched after it was set.  annotation.go:13-14, issuer.go:237-241.       *)
THEOREM ForceSyncIsHeard == Spec => ForceSyncHeard
<1> DEFINE Served ==
        \A w \in Worker :
          (/\ KeyIsThere
           /\ stage[w] = "force" /\ stage'[w] = "clear"
           /\ live # Gone /\ live' # Gone
           /\ live.force /\ ~live'.force) => ~unheard[w]
<1>1. TypeOK /\ HeardInv /\ [Next]_vars => [Served]_vars
  <2> SUFFICES ASSUME TypeOK, HeardInv, Next, KeyIsThere, NEW w \in Worker,
                      stage[w] = "force", stage'[w] = "clear", live.force, ~live'.force
               PROVE  ~unheard[w]
    OBVIOUS
  <2>1. ClearForceSync(w)
    <3>1. ASSUME NEW v \in Worker, Reconcile(v) PROVE v = w /\ ClearForceSync(w)
      <4>1. v = w
        BY <3>1 DEF TypeOK, Reconcile, Get, Mark, Soft, Write, ClearForceSync, ClearCertDrift,
           SetReady, Goto, Return
      <4>2. QED
        BY <3>1, <4>1 DEF Reconcile, Get, Mark, Soft, Write, ClearCertDrift, SetReady
    <3>2. CASE Scheduling
      BY <3>2 DEF Scheduling, Take, Ripen, Drift, Deliver, Goto, TypeOK, locals
    <3>3. CASE Environment
      BY <3>3 DEF Environment, AskForSync, ChangeSpec, ChangeConditions, DeleteOrCreate, Meddle,
         Request, ChangeSource, Crash, locals
    <3>4. QED
      BY <3>1, <3>2, <3>3 DEF Next
  <2>2. w \in current
    BY <2>1 DEF ClearForceSync, apiserver
  <2>3. Heard(w)
    BY DEF HeardInv
  <2>4. QED
    BY <2>2, <2>3 DEF Heard
<1>2. Spec => [][Served]_vars
  BY <1>1, LoopTypeCorrect, HeardInductive, PTL DEF Spec
<1>3. QED
  BY <1>2 DEF ForceSyncHeard

============================================================================
