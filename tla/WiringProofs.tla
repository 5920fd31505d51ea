---------------------------- MODULE WiringProofs ----------------------------
(***************************************************************************)
(* ClientCache implements BuildOnce, and hands out fitting clients.        *)
(* Whatever is edited between a caller's reads, it downloads with its own  *)
(* credentials, and nobody goes on with a GCP client that is still nil.    *)
(*                                                                         *)
(* The refinement rests on the mutex: who is past Lock is the holder, so   *)
(* what Lookup did not find is still not there when the build is over.     *)
(*                                                                         *)
(* Seen from the cache, every step of Wiring is one of ClientCache or      *)
(* none: its invariant is at hand, and says that the client that comes out *)
(* was built from what the caller asked for.  What it asked for fits the   *)
(* issuer that it read (Fits), and goes on fitting because held only grows *)
(* while the call lasts.                                                   *)
(***************************************************************************)
EXTENDS Wiring, TLAPS

\* Only the holder is between Lock and Unlock.
OneInside == \A p \in Caller : pc[p] \in {"lookup", "build", "unlock"} => mutex = p

\* What was not found is not there.
StillMissing == \A p \in Caller : pc[p] = "build" => items[KeyOf(wants[p])] = None

\* A call has a configuration from its start and a result at its end.
CallsInOrder ==
    \A p \in Caller :
        /\ pc[p] # "out" => wants[p] \in Config
        /\ pc[p] = "out" => wants[p] = None
        /\ pc[p] = "unlock" <=> result[p] # None

\* A client is kept under the key of what it was built from.
FiledRight == \A k \in Key : items[k] # None => KeyOf(items[k].from) = k

IInv ==
    /\ TypeOK
    /\ OneInside
    /\ StillMissing
    /\ CallsInOrder
    /\ FiledRight
    /\ ClientFitsCaller

----------------------------------------------------------------------------
\* The key tells configurations apart.
LEMMA KeyOfInjective ==
    ASSUME NEW a \in Config, NEW b \in Config, KeyOf(a) = KeyOf(b)
    PROVE  a = b
BY DEF KeyOf, CredFingerprint, Config

LEMMA KeyType ==
    ASSUME NEW a \in Config
    PROVE  KeyOf(a) \in Key
BY DEF Key

LEMMA ClientNotSpecial ==
    ASSUME NEW v \in Client
    PROVE  v # None /\ v # Error
BY ClientCacheValues

\* The client of the next build.
LEMMA BuiltType ==
    ASSUME NEW config \in Config, builds \in 0..MaxBuilds, builds < MaxBuilds
    PROVE  [from |-> config, serial |-> builds + 1] \in Client
<1>1. builds + 1 \in 1..MaxBuilds
  BY ClientCacheAssumption
<1>2. QED
  BY <1>1 DEF Client

LEMMA InitInv == Init => IInv
<1> SUFFICES ASSUME Init PROVE IInv
  OBVIOUS
<1>1. TypeOK
  BY ClientCacheAssumption DEF Init, TypeOK
<1>2. QED
  BY <1>1 DEF Init, IInv, OneInside, StillMissing, CallsInOrder, FiledRight, ClientFitsCaller

LEMMA CallStep ==
    ASSUME IInv, NEW p \in Caller, Call(p)
    PROVE  IInv'
<1>1. PICK config \in Config : wants' = [wants EXCEPT ![p] = config]
  BY DEF Call
<1>2. TypeOK'
  BY <1>1 DEF IInv, TypeOK, Call, Goto
<1>3. OneInside' /\ StillMissing' /\ CallsInOrder' /\ FiledRight'
  BY <1>1 DEF IInv, TypeOK, Call, Goto, OneInside, StillMissing, CallsInOrder, FiledRight
<1>4. ClientFitsCaller'
  BY <1>1 DEF IInv, TypeOK, Call, Goto, CallsInOrder, ClientFitsCaller
<1>5. QED
  BY <1>2, <1>3, <1>4 DEF IInv

LEMMA LockStep ==
    ASSUME IInv, NEW p \in Caller, Lock(p)
    PROVE  IInv'
<1>1. TypeOK'
  BY DEF IInv, TypeOK, Lock, Goto
<1>2. OneInside'
  BY ClientCacheAssumption DEF IInv, TypeOK, Lock, Goto, OneInside
<1>3. StillMissing' /\ CallsInOrder' /\ FiledRight' /\ ClientFitsCaller'
  BY DEF IInv, TypeOK, Lock, Goto, StillMissing, CallsInOrder, FiledRight, ClientFitsCaller
<1>4. QED
  BY <1>1, <1>2, <1>3 DEF IInv

LEMMA LookupStep ==
    ASSUME IInv, NEW p \in Caller, Lookup(p)
    PROVE  IInv'
<1> DEFINE v == items[KeyOf(wants[p])]
<1>1. wants[p] \in Config /\ KeyOf(wants[p]) \in Key
  BY KeyType DEF IInv, CallsInOrder, Lookup
<1>2. v \in Client \cup {None}
  BY <1>1 DEF IInv, TypeOK
<1>3. CASE v # None
  <2>1. result' = [result EXCEPT ![p] = v] /\ pc' = [pc EXCEPT ![p] = "unlock"]
    BY <1>3 DEF Lookup, Goto
  <2>2. v.from = wants[p]
    <3>1. KeyOf(v.from) = KeyOf(wants[p]) /\ v.from \in Config
      BY <1>1, <1>2, <1>3 DEF IInv, FiledRight, Client
    <3>2. QED
      BY <1>1, <3>1, KeyOfInjective
  <2>3. TypeOK'
    BY <1>2, <1>3, <2>1 DEF IInv, TypeOK, Lookup
  <2>4. OneInside' /\ StillMissing' /\ CallsInOrder' /\ FiledRight'
    BY <1>3, <2>1 DEF IInv, TypeOK, Lookup, OneInside, StillMissing, CallsInOrder, FiledRight
  <2>5. ClientFitsCaller'
    BY <2>1, <2>2 DEF IInv, TypeOK, Lookup, ClientFitsCaller
  <2>6. QED
    BY <2>3, <2>4, <2>5 DEF IInv
<1>4. CASE v = None
  <2>1. UNCHANGED result /\ pc' = [pc EXCEPT ![p] = "build"]
    BY <1>4 DEF Lookup, Goto
  <2>2. QED
    BY <1>4, <2>1 DEF IInv, TypeOK, Lookup, OneInside, StillMissing, CallsInOrder,
       FiledRight, ClientFitsCaller
<1>5. QED
  BY <1>3, <1>4

LEMMA BuildStep ==
    ASSUME IInv, NEW p \in Caller, Build(p)
    PROVE  IInv'
<1> DEFINE k == KeyOf(wants[p])
           v == [from |-> wants[p], serial |-> builds + 1]
<1>1. wants[p] \in Config /\ k \in Key
  BY KeyType DEF IInv, CallsInOrder, Build
<1>2. v \in Client /\ v # None /\ v # Error
  BY <1>1, BuiltType, ClientNotSpecial DEF IInv, TypeOK, Build
<1>3. builds' \in 0..MaxBuilds
  BY ClientCacheAssumption DEF IInv, TypeOK, Build
<1>4. UNCHANGED <<mutex, wants>> /\ pc' = [pc EXCEPT ![p] = "unlock"] /\ pc[p] = "build"
  BY DEF Build, Goto
<1>5. CASE items' = [items EXCEPT ![k] = v] /\ result' = [result EXCEPT ![p] = v]
  <2>1. TypeOK'
    BY <1>1, <1>2, <1>3, <1>4, <1>5 DEF IInv, TypeOK
  <2>2. OneInside'
    BY <1>4 DEF IInv, TypeOK, OneInside
  <2>3. StillMissing'
    BY <1>4 DEF IInv, TypeOK, OneInside, StillMissing
  <2>4. CallsInOrder'
    BY <1>2, <1>4, <1>5 DEF IInv, TypeOK, CallsInOrder
  <2>5. FiledRight'
    BY <1>1, <1>2, <1>5 DEF IInv, TypeOK, FiledRight
  <2>6. ClientFitsCaller'
    BY <1>4, <1>5 DEF IInv, TypeOK, ClientFitsCaller
  <2>7. QED
    BY <2>1, <2>2, <2>3, <2>4, <2>5, <2>6 DEF IInv
<1>6. CASE UNCHANGED items /\ result' = [result EXCEPT ![p] = Error]
  <2>1. TypeOK'
    BY <1>3, <1>4, <1>6 DEF IInv, TypeOK
  <2>2. OneInside' /\ StillMissing' /\ FiledRight'
    BY <1>4, <1>6 DEF IInv, TypeOK, OneInside, StillMissing, FiledRight
  <2>3. CallsInOrder' /\ ClientFitsCaller'
    BY <1>4, <1>6, ClientCacheValues DEF IInv, TypeOK, CallsInOrder, ClientFitsCaller
  <2>4. QED
    BY <2>1, <2>2, <2>3 DEF IInv
<1>7. QED
  BY <1>5, <1>6 DEF Build

LEMMA UnlockStep ==
    ASSUME IInv, NEW p \in Caller, Unlock(p)
    PROVE  IInv'
<1>1. TypeOK'
  BY DEF IInv, TypeOK, Unlock, Goto
<1>2. OneInside'
  BY ClientCacheAssumption DEF IInv, TypeOK, Unlock, Goto, OneInside
<1>3. StillMissing' /\ CallsInOrder' /\ FiledRight' /\ ClientFitsCaller'
  BY DEF IInv, TypeOK, Unlock, Goto, StillMissing, CallsInOrder, FiledRight, ClientFitsCaller
<1>4. QED
  BY <1>1, <1>2, <1>3 DEF IInv

LEMMA NextInv == IInv /\ [Next]_vars => IInv'
<1> SUFFICES ASSUME IInv, [Next]_vars PROVE IInv'
  OBVIOUS
<1>1. CASE Next
  BY <1>1, CallStep, LockStep, LookupStep, BuildStep, UnlockStep DEF Next, Inside
<1>2. CASE UNCHANGED vars
  BY <1>2 DEF vars, IInv, TypeOK, OneInside, StillMissing, CallsInOrder, FiledRight,
     ClientFitsCaller
<1>3. QED
  BY <1>1, <1>2

(* ClientCache keeps its types.                                            *)
THEOREM TypesAreKept == Spec => []TypeOK
<1>1. IInv => TypeOK
  BY DEF IInv
<1>2. QED
  BY <1>1, InitInv, NextInv, PTL DEF Spec

(* No caller is handed a client that was built from another region or from  *)
(* other credentials than its own (tencentcert/issuer.go:34-39, 142).       *)
THEOREM NoForeignClient == Spec => []ClientFitsCaller
<1>1. IInv => ClientFitsCaller
  BY DEF IInv
<1>2. QED
  BY <1>1, InitInv, NextInv, PTL DEF Spec

----------------------------------------------------------------------------
(* The refinement. *)

Asked == [p \in Caller |-> IF wants[p] = None THEN None ELSE KeyOf(wants[p])]

LEMMA AskedKey ==
    ASSUME IInv, NEW p \in Caller
    PROVE  Asked[p] = IF pc[p] = "out" THEN None ELSE KeyOf(wants[p])
BY ClientCacheValues DEF IInv, CallsInOrder, Asked

LEMMA InitRefines == Init => Implements!Init
BY DEF Init, Implements!Init

LEMMA CallRefines ==
    ASSUME IInv, NEW p \in Caller, Call(p)
    PROVE  Implements!Ask(p)
<1>1. PICK config \in Config : wants' = [wants EXCEPT ![p] = config]
  BY DEF Call
<1>2. KeyOf(config) \in Key /\ config # None
  BY KeyType, ClientCacheValues
<1>3. Asked' = [Asked EXCEPT ![p] = KeyOf(config)]
  BY <1>1, <1>2 DEF Asked, IInv, TypeOK
<1>4. Asked[p] = None
  BY AskedKey DEF Call
<1>5. UNCHANGED <<items, result>>
  BY DEF Call
<1>6. QED
  BY <1>2, <1>3, <1>4, <1>5 DEF Implements!Ask, Asked

LEMMA LookupRefines ==
    ASSUME IInv, NEW p \in Caller, Lookup(p)
    PROVE  Implements!Answer(p) \/ UNCHANGED <<items, Asked, result>>
<1>1. UNCHANGED <<items, wants>> /\ pc[p] = "lookup"
  BY DEF Lookup
<1>2. UNCHANGED Asked
  BY <1>1 DEF Asked
<1>3. CASE items[KeyOf(wants[p])] = None
  BY <1>1, <1>2, <1>3 DEF Lookup
<1>4. CASE items[KeyOf(wants[p])] # None
  <2>1. Asked[p] = KeyOf(wants[p]) /\ wants[p] \in Config
    BY <1>1, AskedKey DEF IInv, CallsInOrder
  <2>2. Asked[p] # None
    BY <2>1, KeyType, ClientCacheValues
  <2>3. result[p] = None
    BY <1>1 DEF IInv, CallsInOrder
  <2>4. result' = [result EXCEPT ![p] = items[Asked[p]]]
    BY <1>4, <2>1 DEF Lookup
  <2>5. QED
    BY <1>1, <1>2, <1>4, <2>1, <2>2, <2>3, <2>4 DEF Implements!Answer, Asked
<1>5. QED
  BY <1>3, <1>4

LEMMA BuildRefines ==
    ASSUME IInv, NEW p \in Caller, Build(p)
    PROVE  Implements!Answer(p)
<1>1. UNCHANGED wants /\ pc[p] = "build"
  BY DEF Build
<1>2. UNCHANGED Asked
  BY <1>1 DEF Asked
<1>3. Asked[p] = KeyOf(wants[p]) /\ wants[p] \in Config
  BY <1>1, AskedKey DEF IInv, CallsInOrder
<1>4. Asked[p] # None
  BY <1>3, KeyType, ClientCacheValues
<1>5. result[p] = None /\ items[Asked[p]] = None
  BY <1>1, <1>3 DEF IInv, CallsInOrder, StillMissing
<1> DEFINE v == [from |-> wants[p], serial |-> builds + 1]
<1>6. v \in Client
  BY <1>3, BuiltType DEF IInv, TypeOK, Build
<1>7. CASE items' = [items EXCEPT ![KeyOf(wants[p])] = v] /\ result' = [result EXCEPT ![p] = v]
  BY <1>2, <1>3, <1>4, <1>5, <1>6, <1>7 DEF Implements!Answer, Asked
<1>8. CASE UNCHANGED items /\ result' = [result EXCEPT ![p] = Error]
  BY <1>2, <1>4, <1>5, <1>8 DEF Implements!Answer, Asked
<1>9. QED
  BY <1>7, <1>8 DEF Build

LEMMA UnlockRefines ==
    ASSUME IInv, NEW p \in Caller, Unlock(p)
    PROVE  Implements!Leave(p)
<1>1. result[p] # None
  BY DEF IInv, CallsInOrder, Unlock
<1>2. Asked' = [Asked EXCEPT ![p] = None]
  BY DEF Asked, Unlock, IInv, TypeOK
<1>3. QED
  BY <1>1, <1>2 DEF Implements!Leave, Asked, Unlock

LEMMA NextRefines ==
    IInv /\ [Next]_vars => [Implements!Next]_<<items, Asked, result>>
<1> SUFFICES ASSUME IInv, [Next]_vars
             PROVE  Implements!Next \/ UNCHANGED <<items, Asked, result>>
  OBVIOUS
<1>1. ASSUME NEW p \in Caller, Lock(p) PROVE UNCHANGED <<items, Asked, result>>
  BY <1>1 DEF Lock, Asked
<1>2. CASE UNCHANGED vars
  BY <1>2 DEF vars, Asked
<1>3. CASE Next
  BY <1>1, <1>3, CallRefines, LookupRefines, BuildRefines, UnlockRefines
     DEF Next, Inside, Implements!Next
<1>4. QED
  BY <1>2, <1>3

(* ClientCache implements BuildOnce: however the callers are interleaved, a *)
(* key's client is built at most once, every call for the key gets that     *)
(* very client, and a build that fails leaves no trace                      *)
(* (clientcache.go:9-11).                                                   *)
THEOREM ImplementsBuildOnce == Spec => BuildsOnce
<1>1. IInv /\ [Next]_vars => [Implements!Next]_<<items, Asked, result>>
  BY NextRefines
<1>2. QED
  BY <1>1, InitRefines, InitInv, NextInv, PTL DEF Spec, BuildsOnce, Implements!Spec, Asked

----------------------------------------------------------------------------
(* The callers of the cache: the fetcher and the resolver of the GCP kinds. *)

\* A configuration is what caller p may use.
Fits(config, p) ==
    /\ config.region = spec[p].region
    /\ IF spec[p].ref = NoRef THEN config.creds = Ambient ELSE config.creds \in held[p]

\* What a call of Fetch knows at each of its steps.
FetchOK(p) ==
    /\ step[p] = "client" <=> pc[p] # "out"
    /\ step[p] \in {"load", "client", "download"} => spec[p] \in IssuerSpec /\ serves[p] \in Namespace
    /\ step[p] = "load" /\ spec[p].ref # NoRef => secrets[CredentialsOf(p)] \in held[p] \cup {None}
    /\ step[p] = "client" => Fits(wants[p], p)
    /\ step[p] = "download" => client[p] \in Client /\ Fits(client[p].from, p)

\* Who is past once.Do finds what Bootstrap left.
BootstrapOK ==
    /\ once = "done" => smClient # None
    /\ \A p \in Caller : step[p] = "access" => once = "done"

WInv == OwnTypes /\ IInv /\ BootstrapOK /\ \A p \in Caller : FetchOK(p)

----------------------------------------------------------------------------

\* The Secret that a secretRef names is one of a namespace.
LEMMA NamesNamespace ==
    ASSUME NEW ref \in Namespace \cup {Own, NoRef}, ref # NoRef, NEW n \in Namespace
    PROVE  Named(ref, n) \in Namespace /\ GetNamespace(ref, n) = Named(ref, n)
BY WiringAssumption DEF Named, GetNamespace

LEMMA WInitInv == WInit => WInv
<1> SUFFICES ASSUME WInit PROVE WInv
  OBVIOUS
<1>1. IInv
  BY InitInv DEF WInit
<1>2. OwnTypes
  BY WiringAssumption DEF WInit, OwnTypes
<1>3. BootstrapOK /\ \A p \in Caller : FetchOK(p)
  BY DEF WInit, Init, BootstrapOK, FetchOK
<1>4. QED
  BY <1>1, <1>2, <1>3 DEF WInv

\* For the cache, a step of Wiring is one of its own or none.
LEMMA CacheStep ==
    ASSUME [WNext]_<<vars, own>>
    PROVE  [Next]_vars
<1>1. ASSUME NEW p \in Caller, LoadCredentials(p) PROVE Call(p) \/ UNCHANGED vars
  BY <1>1 DEF LoadCredentials
<1>2. ASSUME NEW p \in Caller, InCache(p) PROVE Lock(p) \/ Inside(p)
  BY <1>2 DEF InCache, GotClient, Inside
<1>3. ASSUME NEW p \in Caller, ResolveIssuer(p) \/ Download(p) \/ ResolveGcp(p) \/ GcpStep(p)
      PROVE  UNCHANGED vars
  BY <1>3 DEF ResolveIssuer, Download, ResolveGcp, GcpStep, OnceDo, Bootstrap, Access
<1>4. ASSUME EditIssuer \/ \E n \in Namespace : EditSecret(n) PROVE UNCHANGED vars
  BY <1>4 DEF EditIssuer, EditSecret
<1>5. QED
  BY <1>1, <1>2, <1>3, <1>4 DEF WNext, FetchStep, Next

\* A step leaves another's call alone, or lets what it may use grow.
LEMMA OthersKept ==
    ASSUME NEW q \in Caller, FetchOK(q),
           step'[q] = step[q], pc'[q] = pc[q], spec'[q] = spec[q], serves'[q] = serves[q],
           client'[q] = client[q], wants'[q] = wants[q], held[q] \subseteq held'[q],
           step[q] = "load" /\ spec[q].ref # NoRef =>
               secrets'[CredentialsOf(q)] = secrets[CredentialsOf(q)]
               \/ secrets'[CredentialsOf(q)] \in held'[q] \cup {None}
    PROVE  FetchOK(q)'
BY DEF FetchOK, Fits, CredentialsOf

\* The call that leaves knows nothing.
LEMMA Left ==
    ASSUME OwnTypes, NEW p \in Caller, Leave(p), pc'[p] = "out"
    PROVE  FetchOK(p)' /\ (\A q \in Caller \ {p} :
              /\ step'[q] = step[q] /\ spec'[q] = spec[q] /\ serves'[q] = serves[q]
              /\ client'[q] = client[q] /\ held'[q] = held[q])
BY DEF OwnTypes, Leave, Step, FetchOK

----------------------------------------------------------------------------
(* One lemma for each step. *)

LEMMA ResolveIssuerFetch ==
    ASSUME WInv, NEW p \in Caller, ResolveIssuer(p)
    PROVE  OwnTypes' /\ \A q \in Caller : FetchOK(q)'
<1>1. PICK n \in Namespace :
        /\ serves' = [serves EXCEPT ![p] = n]
        /\ held' = [held EXCEPT ![p] = IF issuer.ref = NoRef THEN {}
                                       ELSE {secrets[Named(issuer.ref, n)]} \ {None}]
  BY DEF ResolveIssuer
<1>2. issuer \in IssuerSpec /\ spec' = [spec EXCEPT ![p] = issuer]
  BY DEF ResolveIssuer, WInv, OwnTypes
<1>3. issuer.ref # NoRef => Named(issuer.ref, n) \in Namespace /\ GetNamespace(issuer.ref, n) = Named(issuer.ref, n)
  BY <1>2, NamesNamespace DEF IssuerSpec
<1>4. step' = [step EXCEPT ![p] = "load"] /\ step[p] = "idle"
      /\ UNCHANGED <<vars, world, client, gcp>>
  BY DEF ResolveIssuer, Step
<1>5. issuer.ref # NoRef => {secrets[Named(issuer.ref, n)]} \ {None} \subseteq Static
  BY <1>3 DEF WInv, OwnTypes
<1>6. OwnTypes'
  BY <1>1, <1>2, <1>4, <1>5 DEF WInv, OwnTypes, world, gcp
<1>7. FetchOK(p)'
  BY <1>1, <1>2, <1>3, <1>4 DEF WInv, OwnTypes, FetchOK, CredentialsOf, vars, world
<1>8. ASSUME NEW q \in Caller, q # p PROVE FetchOK(q)'
  BY <1>1, <1>2, <1>4, <1>8, OthersKept DEF WInv, OwnTypes, vars, world
<1>9. QED
  BY <1>6, <1>7, <1>8

LEMMA LoadCredentialsFetch ==
    ASSUME WInv, NEW p \in Caller, LoadCredentials(p)
    PROVE  OwnTypes' /\ \A q \in Caller : FetchOK(q)'
<1>1. CASE Leave(p) /\ UNCHANGED vars
  <2>1. OwnTypes'
    BY <1>1 DEF WInv, OwnTypes, LoadCredentials, Leave, Step, world, gcp
  <2>2. pc'[p] = "out"
    BY <1>1 DEF WInv, FetchOK, LoadCredentials, vars
  <2>3. ASSUME NEW q \in Caller, q # p PROVE FetchOK(q)'
    BY <1>1, <2>2, <2>3, Left, OthersKept DEF WInv, vars, LoadCredentials, world
  <2>4. QED
    BY <1>1, <2>1, <2>2, <2>3, Left DEF WInv
<1>2. CASE /\ spec[p].ref # NoRef => secrets[CredentialsOf(p)] # None
           /\ Call(p)
           /\ wants'[p] = [region |-> spec[p].region,
                           creds  |-> IF spec[p].ref = NoRef THEN Ambient
                                      ELSE secrets[CredentialsOf(p)]]
           /\ Step(p, "client")
           /\ UNCHANGED <<serves, spec, client, held>>
  <2>1. step' = [step EXCEPT ![p] = "client"] /\ step[p] = "load" /\ UNCHANGED <<world, gcp>>
    BY <1>2 DEF LoadCredentials, Step
  <2>2. OwnTypes'
    BY <1>2, <2>1 DEF WInv, OwnTypes, world, gcp
  <2>3. pc' = [pc EXCEPT ![p] = "lock"] /\ \A q \in Caller \ {p} : wants'[q] = wants[q]
    BY <1>2 DEF Call, Goto, WInv, IInv, TypeOK
  <2>4. FetchOK(p)'
    BY <1>2, <2>1, <2>3 DEF WInv, OwnTypes, IInv, TypeOK, FetchOK, Fits
  <2>5. ASSUME NEW q \in Caller, q # p PROVE FetchOK(q)'
    BY <1>2, <2>1, <2>3, <2>5, OthersKept DEF WInv, OwnTypes, world
  <2>6. QED
    BY <2>2, <2>4, <2>5
<1>3. QED
  BY <1>1, <1>2 DEF LoadCredentials

LEMMA InsideCacheFetch ==
    ASSUME WInv, NEW p \in Caller, Lock(p) \/ Lookup(p) \/ Build(p), UNCHANGED own
    PROVE  OwnTypes' /\ \A q \in Caller : FetchOK(q)'
<1>1. UNCHANGED wants /\ pc[p] # "out" /\ \E l \in {"lookup", "build", "unlock"} : pc' = [pc EXCEPT ![p] = l]
  BY DEF Lock, Lookup, Build, Goto
<1>2. \A q \in Caller : pc'[q] = "out" <=> pc[q] = "out"
  BY <1>1 DEF WInv, IInv, TypeOK
<1>3. OwnTypes'
  BY DEF WInv, OwnTypes, own
<1>4. ASSUME NEW q \in Caller PROVE FetchOK(q)'
  BY <1>1, <1>2 DEF WInv, FetchOK, Fits, CredentialsOf, own
<1>5. QED
  BY <1>3, <1>4

LEMMA GotClientFetch ==
    ASSUME WInv, NEW p \in Caller, GotClient(p)
    PROVE  OwnTypes' /\ \A q \in Caller : FetchOK(q)'
<1>1. /\ pc[p] = "unlock" /\ pc' = [pc EXCEPT ![p] = "out"] /\ wants' = [wants EXCEPT ![p] = None]
      /\ UNCHANGED <<world, gcp>>
  BY DEF GotClient, Unlock, Goto
<1>2. step[p] = "client"
  BY <1>1 DEF WInv, FetchOK
<1>3. \A q \in Caller \ {p} : pc'[q] = pc[q] /\ wants'[q] = wants[q]
  BY <1>1 DEF WInv, IInv, TypeOK
<1>4. CASE result[p] = Error /\ Leave(p)
  <2>1. OwnTypes'
    BY <1>1, <1>4 DEF WInv, OwnTypes, Leave, Step, world, gcp
  <2>2. pc'[p] = "out"
    BY <1>1 DEF WInv, IInv, TypeOK
  <2>3. ASSUME NEW q \in Caller, q # p PROVE FetchOK(q)'
    BY <1>1, <1>3, <1>4, <2>2, <2>3, Left, OthersKept DEF WInv, world
  <2>4. QED
    BY <1>4, <2>1, <2>2, <2>3, Left DEF WInv
<1>5. CASE /\ result[p] # Error
           /\ client' = [client EXCEPT ![p] = result[p]]
           /\ Step(p, "download")
           /\ UNCHANGED <<serves, spec, held>>
  <2>1. result[p] \in Client
    BY <1>1, <1>5 DEF WInv, IInv, TypeOK, CallsInOrder
  <2>2. result[p].from = wants[p]
    BY <2>1, ClientNotSpecial DEF WInv, IInv, ClientFitsCaller
  <2>3. step' = [step EXCEPT ![p] = "download"]
    BY <1>5 DEF Step
  <2>4. OwnTypes'
    BY <1>1, <1>5, <2>1, <2>3 DEF WInv, OwnTypes, world, gcp
  <2>5. FetchOK(p)'
    BY <1>1, <1>2, <1>5, <2>1, <2>2, <2>3 DEF WInv, OwnTypes, IInv, TypeOK, FetchOK, Fits
  <2>6. ASSUME NEW q \in Caller, q # p PROVE FetchOK(q)'
    BY <1>1, <1>3, <1>5, <2>3, <2>6, OthersKept DEF WInv, OwnTypes, world
  <2>7. QED
    BY <2>4, <2>5, <2>6
<1>6. QED
  BY <1>4, <1>5 DEF GotClient

LEMMA DownloadFetch ==
    ASSUME WInv, NEW p \in Caller, Leave(p), step[p] # "client", UNCHANGED <<vars, world, gcp>>
    PROVE  OwnTypes' /\ \A q \in Caller : FetchOK(q)'
<1>1. OwnTypes'
  BY DEF WInv, OwnTypes, Leave, Step, world, gcp
<1>2. pc'[p] = "out"
  BY DEF WInv, FetchOK, vars
<1>3. ASSUME NEW q \in Caller, q # p PROVE FetchOK(q)'
  BY <1>2, <1>3, Left, OthersKept DEF WInv, vars, world
<1>4. QED
  BY <1>1, <1>2, <1>3, Left DEF WInv

\* ResolveGcp, OnceDo and Bootstrap move a call that has no issuer.
LEMMA GcpFetch ==
    ASSUME WInv, NEW p \in Caller, step[p] \in {"idle", "once", "bootstrap"},
           NEW s \in {"once", "bootstrap", "access"}, Step(p, s),
           UNCHANGED <<vars, world, serves, spec, client, held>>,
           once' \in {"fresh", "running", "done"}, smClient' \in {None, Error, "client"}
    PROVE  OwnTypes' /\ \A q \in Caller : FetchOK(q)'
<1>1. OwnTypes'
  BY DEF WInv, OwnTypes, Step, world
<1>2. ASSUME NEW q \in Caller PROVE FetchOK(q)'
  BY DEF WInv, OwnTypes, FetchOK, Fits, CredentialsOf, Step, vars, world
<1>3. QED
  BY <1>1, <1>2

LEMMA EditFetch ==
    ASSUME WInv, EditIssuer \/ \E n \in Namespace : EditSecret(n)
    PROVE  OwnTypes' /\ \A q \in Caller : FetchOK(q)'
<1>1. edits' \in 0..MaxEdits
  BY WiringAssumption DEF WInv, OwnTypes, EditIssuer, EditSecret
<1>2. CASE EditIssuer
  <2>1. OwnTypes'
    BY <1>1, <1>2, WiringAssumption DEF WInv, OwnTypes, EditIssuer, gcp
  <2>2. ASSUME NEW q \in Caller PROVE FetchOK(q)'
    BY <1>2 DEF WInv, FetchOK, Fits, CredentialsOf, EditIssuer, vars
  <2>3. QED
    BY <2>1, <2>2
<1>3. ASSUME NEW n \in Namespace, EditSecret(n)
      PROVE  OwnTypes' /\ \A q \in Caller : FetchOK(q)'
  <2>1. PICK c \in Static \cup {None} :
          /\ secrets' = [secrets EXCEPT ![n] = c]
          /\ held' = [p \in Caller |->
                        IF spec[p] # None /\ Named(spec[p].ref, serves[p]) = n
                        THEN held[p] \cup ({c} \ {None}) ELSE held[p]]
    BY <1>3 DEF EditSecret
  <2>2. UNCHANGED <<vars, issuer, step, serves, spec, client, gcp>>
    BY <1>3 DEF EditSecret
  <2>3. OwnTypes'
    BY <1>1, <2>1, <2>2 DEF WInv, OwnTypes, gcp
  <2>4. ASSUME NEW q \in Caller PROVE FetchOK(q)'
    <3>1. held[q] \subseteq held'[q]
      BY <2>1
    <3>2. ASSUME step[q] = "load", spec[q].ref # NoRef
          PROVE  secrets'[CredentialsOf(q)] = secrets[CredentialsOf(q)]
                 \/ secrets'[CredentialsOf(q)] \in held'[q] \cup {None}
      <4>1. spec[q] \in IssuerSpec /\ serves[q] \in Namespace
        BY <3>2 DEF WInv, FetchOK
      <4>2. spec[q] # None /\ CredentialsOf(q) = Named(spec[q].ref, serves[q])
            /\ CredentialsOf(q) \in Namespace
        BY <3>2, <4>1, NamesNamespace, WiringAssumption DEF IssuerSpec, CredentialsOf
      <4>3. QED
        BY <2>1, <4>2 DEF WInv, OwnTypes
    <3>3. QED
      BY <2>2, <3>1, <3>2, OthersKept DEF WInv, vars
  <2>5. QED
    BY <2>3, <2>4
<1>4. QED
  BY <1>2, <1>3

----------------------------------------------------------------------------

\* The two callers of once.Do meet at its end.
LEMMA BootstrapKept ==
    ASSUME WInv, [WNext]_<<vars, own>>
    PROVE  BootstrapOK'
<1>1. ASSUME NEW p \in Caller, OnceDo(p) PROVE BootstrapOK'
  BY <1>1 DEF WInv, OwnTypes, BootstrapOK, OnceDo, Step
<1>2. ASSUME NEW p \in Caller, Bootstrap(p) PROVE BootstrapOK'
  BY <1>2, WiringAssumption, ClientCacheValues DEF WInv, OwnTypes, BootstrapOK, Bootstrap, Step
<1>3. CASE UNCHANGED gcp /\ \A q \in Caller : step'[q] = "access" => step[q] = "access"
  BY <1>3 DEF WInv, BootstrapOK, gcp
<1>4. ASSUME NEW p \in Caller,
             \/ ResolveIssuer(p) \/ LoadCredentials(p) \/ InCache(p) \/ Download(p)
             \/ ResolveGcp(p) \/ Access(p)
      PROVE  UNCHANGED gcp /\ \A q \in Caller : step'[q] = "access" => step[q] = "access"
  BY <1>4 DEF WInv, OwnTypes, ResolveIssuer, LoadCredentials, InCache, GotClient, Download,
     ResolveGcp, Access, Leave, Step, own, gcp
<1>5. ASSUME EditIssuer \/ (\E n \in Namespace : EditSecret(n)) \/ UNCHANGED <<vars, own>>
      PROVE  UNCHANGED gcp /\ \A q \in Caller : step'[q] = "access" => step[q] = "access"
  BY <1>5 DEF EditIssuer, EditSecret, own, gcp
<1>6. QED
  BY <1>1, <1>2, <1>3, <1>4, <1>5 DEF WNext, FetchStep, GcpStep

LEMMA FetchKept ==
    ASSUME WInv, [WNext]_<<vars, own>>
    PROVE  OwnTypes' /\ \A q \in Caller : FetchOK(q)'
<1>1. ASSUME NEW p \in Caller, FetchStep(p)
      PROVE  OwnTypes' /\ \A q \in Caller : FetchOK(q)'
  BY <1>1, LoadCredentialsFetch, InsideCacheFetch, GotClientFetch, DownloadFetch
     DEF FetchStep, InCache, Download
<1>2. ASSUME NEW p \in Caller, ResolveGcp(p) \/ GcpStep(p)
      PROVE  OwnTypes' /\ \A q \in Caller : FetchOK(q)'
  <2>1. CASE Access(p)
    BY <2>1, DownloadFetch DEF Access
  <2>2. CASE ResolveGcp(p)
    BY <2>2, GcpFetch DEF ResolveGcp, gcp, WInv, OwnTypes
  <2>3. CASE OnceDo(p)
    BY <2>3, GcpFetch DEF OnceDo, WInv, OwnTypes
  <2>4. CASE Bootstrap(p)
    BY <2>4, GcpFetch DEF Bootstrap
  <2>5. QED
    BY <1>2, <2>1, <2>2, <2>3, <2>4 DEF GcpStep
<1>3. CASE UNCHANGED <<vars, own>>
  BY <1>3 DEF WInv, OwnTypes, FetchOK, Fits, CredentialsOf, vars, own
<1>4. QED
  BY <1>1, <1>2, <1>3, ResolveIssuerFetch, EditFetch DEF WNext

LEMMA WNextInv == WInv /\ [WNext]_<<vars, own>> => WInv'
<1> SUFFICES ASSUME WInv, [WNext]_<<vars, own>> PROVE WInv'
  OBVIOUS
<1>1. IInv'
  BY CacheStep, NextInv DEF WInv
<1>2. QED
  BY <1>1, FetchKept, BootstrapKept DEF WInv

(* Wiring keeps its types.                                                 *)
THEOREM WiringTypes == WSpec => []WTypeOK
<1>1. WInv => WTypeOK
  BY DEF WInv, IInv, WTypeOK
<1>2. QED
  BY <1>1, WInitInv, WNextInv, PTL DEF WSpec

(* Whatever is edited and however the callers are interleaved, a download  *)
(* runs in the region of the issuer that the call read, with credentials   *)
(* that the Secret it names has held since the call began                  *)
(* (tencentcert/issuer.go:93-153).                                         *)
THEOREM DownloadsWithItsOwn == WSpec => []OwnCredentials
<1>1. WInv => OwnCredentials
  BY DEF WInv, FetchOK, Fits, OwnCredentials
<1>2. QED
  BY <1>1, WInitInv, WNextInv, PTL DEF WSpec

(* Nobody goes past once.Do before the GCP client, or the error, is there  *)
(* (app.go:212-218).                                                       *)
THEOREM BootstrapIsFirst == WSpec => []BootstrapComesFirst
<1>1. WInv => BootstrapComesFirst
  BY DEF WInv, BootstrapOK, BootstrapComesFirst
<1>2. QED
  BY <1>1, WInitInv, WNextInv, PTL DEF WSpec
=============================================================================
