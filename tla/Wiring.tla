------------------------------- MODULE Wiring -------------------------------
(***************************************************************************)
(* What app.go wires together to reach a cloud: tencentcert's Fetch, which *)
(* reads its issuer and the Secret with the credentials before it asks the *)
(* ClientCache for a client, and the resolver of the GCP kinds, whose one  *)
(* client is made under sync.Once.  Issuer and credentials are edited      *)
(* meanwhile.  The resolvers of the AWS and Tencent secret manager kinds   *)
(* return an error at once and have no state.                              *)
(*                                                                         *)
(* A caller is a goroutine of a controller, and serves in one call the     *)
(* Certificate of one namespace, in the next that of another.  MaxEdits    *)
(* bounds the edits.  The reads of Fetch are answered from the informer    *)
(* cache, and what issuer and secrets hold is what the cache has come to   *)
(* see.                                                                    *)
(***************************************************************************)
EXTENDS ClientCache

CONSTANTS
    Namespace,
    Own,       \* a secretRef without a namespace
    NoRef,     \* no secretRef
    Issuers,   \* the specs that the issuer is given
    Given,     \* namespace |-> the credentials that its Secret holds at first, or None
    MaxEdits

\* The issuer's spec: a cluster issuer, which Certificates of all namespaces share.
IssuerSpec == [region : Region, ref : Namespace \cup {Own, NoRef}]

ASSUME WiringAssumption ==
    /\ {Own, NoRef} \cap Namespace = {} /\ Own # NoRef
    /\ None \notin Static \cup {Ambient} \cup IssuerSpec \cup Namespace
    /\ None # "client" /\ Error # "client"
    /\ Issuers \subseteq IssuerSpec
    /\ Given \in [Namespace -> Static \cup {None}]
    /\ MaxEdits \in Nat

VARIABLES
    issuer,    \* the issuer's spec, or None when it is gone
    secrets,   \* namespace |-> the credentials in its Secret, or None
    edits,
    step,      \* caller |-> where it is in Fetch, or in the GCP resolver
    serves,    \* caller |-> the namespace of its Certificate, or None
    spec,      \* caller |-> the issuer's spec that it read
    client,    \* caller |-> the client that it got
    held,      \* history: caller |-> what the Secret that the issuer names for its
               \* Certificate has held since the call began
    once,      \* the sync.Once: fresh, running or done
    smClient   \* None (nil), Error (initErr is set) or "client"

own == <<issuer, secrets, edits, step, serves, spec, client, held, once, smClient>>

WInit ==
    /\ Init
    /\ issuer \in Issuers
    /\ secrets = Given
    /\ edits = 0
    /\ step = [p \in Caller |-> "idle"]
    /\ serves = [p \in Caller |-> None]
    /\ spec = [p \in Caller |-> None]
    /\ client = [p \in Caller |-> None]
    /\ held = [p \in Caller |-> {}]
    /\ once = "fresh"
    /\ smClient = None

Step(p, s) == step' = [step EXCEPT ![p] = s]

\* The return of Fetch, and of the GCP resolver; its locals are gone.
Leave(p) ==
    /\ Step(p, "idle")
    /\ serves' = [serves EXCEPT ![p] = None]
    /\ spec' = [spec EXCEPT ![p] = None]
    /\ client' = [client EXCEPT ![p] = None]
    /\ held' = [held EXCEPT ![p] = {}]

\* The namespace that a secretRef names to the Certificates of another.
Named(ref, n) == IF ref = Own THEN n ELSE ref

gcp == <<once, smClient>>
world == <<issuer, secrets, edits>>

----------------------------------------------------------------------------
(* Fetch of tencentcert. *)

ResolveIssuer(p) ==
    /\ step[p] = "idle"
    /\ issuer # None
    /\ spec' = [spec EXCEPT ![p] = issuer]
    /\ \E n \in Namespace :
          /\ serves' = [serves EXCEPT ![p] = n]
          /\ held' = [held EXCEPT ![p] = IF issuer.ref = NoRef THEN {}
                                         ELSE {secrets[Named(issuer.ref, n)]} \ {None}]
    /\ Step(p, "load")
    /\ UNCHANGED <<vars, world, client, gcp>>

\* Mutant: the secretRef's own namespace is not looked at.
GetNoNamespace(ref, home) == home

GetNamespace(ref, home) == IF ref = Own THEN home ELSE ref

\* The Secret that a call's credentials come from.
CredentialsOf(p) == GetNamespace(spec[p].ref, serves[p])

\* The credentials go into the key and into the closure that builds the client.
LoadCredentials(p) ==
    /\ step[p] = "load"
    /\ \/ /\ spec[p].ref # NoRef => secrets[CredentialsOf(p)] # None
          /\ Call(p)
          /\ wants'[p] = [region |-> spec[p].region,
                          creds  |-> IF spec[p].ref = NoRef THEN Ambient
                                     ELSE secrets[CredentialsOf(p)]]
          /\ Step(p, "client")
          /\ UNCHANGED <<serves, spec, client, held>>
       \/ Leave(p) /\ UNCHANGED vars     \* MissingCredentials
    /\ UNCHANGED <<world, gcp>>

\* Mutant: the error is not looked at.
GotAnyClient(p) ==
    /\ Unlock(p)
    /\ client' = [client EXCEPT ![p] = result[p]] /\ Step(p, "download")
    /\ UNCHANGED <<spec, held, world, serves, gcp>>

\* What GetOrCreate returns.
GotClient(p) ==
    /\ Unlock(p)
    /\ IF result[p] = Error THEN Leave(p)     \* ClientBuildFailed
       ELSE /\ client' = [client EXCEPT ![p] = result[p]]
            /\ Step(p, "download")
            /\ UNCHANGED <<serves, spec, held>>
    /\ UNCHANGED <<world, gcp>>

Download(p) ==
    /\ step[p] = "download"
    /\ Leave(p)
    /\ UNCHANGED <<vars, world, gcp>>

InCache(p) ==
    \/ (Lock(p) \/ Lookup(p) \/ Build(p)) /\ UNCHANGED own
    \/ GotClient(p)

----------------------------------------------------------------------------
(* The resolver of the GCP kinds. *)

ResolveGcp(p) ==
    /\ step[p] = "idle"
    /\ Step(p, "once")
    /\ UNCHANGED <<vars, world, serves, spec, client, held, gcp>>

\* Mutant: who does not come first does not wait.
DoUnlessBegun(p) ==
    /\ step[p] = "once"
    /\ IF once = "fresh" THEN once' = "running" /\ Step(p, "bootstrap")
       ELSE UNCHANGED once /\ Step(p, "access")
    /\ UNCHANGED <<vars, world, serves, spec, client, held, smClient>>

OnceDo(p) ==
    /\ step[p] = "once"
    /\ \/ once = "fresh" /\ once' = "running" /\ Step(p, "bootstrap")
       \/ once = "done" /\ UNCHANGED once /\ Step(p, "access")
    /\ UNCHANGED <<vars, world, serves, spec, client, held, smClient>>

Bootstrap(p) ==
    /\ step[p] = "bootstrap"
    /\ smClient' \in {"client", Error}
    /\ once' = "done"
    /\ Step(p, "access")
    /\ UNCHANGED <<vars, world, serves, spec, client, held>>

\* initErr, or what the cloud answers.
Access(p) ==
    /\ step[p] = "access"
    /\ Leave(p)
    /\ UNCHANGED <<vars, world, gcp>>

----------------------------------------------------------------------------

EditIssuer ==
    /\ edits < MaxEdits
    /\ edits' = edits + 1
    /\ issuer' \in Issuers \cup {None}
    /\ UNCHANGED <<vars, secrets, step, serves, spec, client, held, gcp>>

\* A rotation of the credentials, or their end.
EditSecret(n) ==
    /\ edits < MaxEdits
    /\ edits' = edits + 1
    /\ \E c \in Static \cup {None} :
          /\ secrets' = [secrets EXCEPT ![n] = c]
          /\ held' = [p \in Caller |->
                        IF spec[p] # None /\ Named(spec[p].ref, serves[p]) = n
                        THEN held[p] \cup ({c} \ {None}) ELSE held[p]]
    /\ UNCHANGED <<vars, issuer, step, serves, spec, client, gcp>>

FetchStep(p) == LoadCredentials(p) \/ InCache(p) \/ Download(p)
GcpStep(p)   == OnceDo(p) \/ Bootstrap(p) \/ Access(p)

WNext ==
    \/ \E p \in Caller : ResolveIssuer(p) \/ FetchStep(p) \/ ResolveGcp(p) \/ GcpStep(p)
    \/ EditIssuer
    \/ \E n \in Namespace : EditSecret(n)

WSpec == WInit /\ [][WNext]_<<vars, own>>

\* As in ClientCache; each of the two paths runs to its end.
WFairness ==
    \A p \in Caller :
        /\ SF_<<vars, own>>(Lock(p) /\ UNCHANGED own)
        /\ WF_<<vars, own>>(FetchStep(p))
        /\ WF_<<vars, own>>(GcpStep(p))

WFairSpec == WSpec /\ WFairness

----------------------------------------------------------------------------
(* Properties. *)

\* Those that ClientCache does not have.
OwnTypes ==
    /\ issuer \in IssuerSpec \cup {None}
    /\ secrets \in [Namespace -> Static \cup {None}]
    /\ edits \in 0..MaxEdits
    /\ step \in [Caller -> {"idle", "load", "client", "download", "once", "bootstrap", "access"}]
    /\ serves \in [Caller -> Namespace \cup {None}]
    /\ spec \in [Caller -> IssuerSpec \cup {None}]
    /\ client \in [Caller -> Client \cup {None}]
    /\ held \in [Caller -> SUBSET Static]
    /\ once \in {"fresh", "running", "done"}
    /\ smClient \in {None, Error, "client"}

\* The types of the variables.
WTypeOK == TypeOK /\ OwnTypes

\* A download uses the region of the issuer and credentials that the Secret it names,
\* in the Certificate's namespace or in its own, has held since the call began: a
\* rotation is followed by the next call, and no namespace gets another's client out
\* of the cache (tencentcert/issuer.go:34-39, 93-126; issuer_test.go:128-133).
OwnCredentials ==
    \A p \in Caller : step[p] = "download" =>
        /\ client[p].from.region = spec[p].region
        /\ IF spec[p].ref = NoRef THEN client[p].from.creds = Ambient
           ELSE client[p].from.creds \in held[p]

\* However many goroutines resolve their first GCP payload at once, none of them goes on
\* while there is neither a client nor an error: the client would be nil (app.go:204-217).
BootstrapComesFirst ==
    \A p \in Caller : step[p] = "access" => smClient # None

----------------------------------------------------------------------------
(* What one would expect, and the code does not do. *)

\* The resolver is asked again every 30 seconds, but the error of the first try is kept
\* until the process ends: with credentials that came a moment later, no GCP payload
\* is ever fetched (app.go:204-217).
GcpRecovers == []<>(smClient # Error)
=============================================================================
