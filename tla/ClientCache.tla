---------------------------- MODULE ClientCache ----------------------------
(***************************************************************************)
(* ClientCache.GetOrCreate: one mutex, held from the lookup to the end of  *)
(* the build, and a map that only grows.  Its users are the syncers, which *)
(* ask for a client of a region with the credentials they have just read;  *)
(* tencentcert's key holds a fingerprint of static credentials and the     *)
(* word ambient for those the SDK finds by itself.                         *)
(*                                                                         *)
(* A caller's steps in GetOrCreate are interleaved with those of others.   *)
(* MaxBuilds bounds how often a client is built, in vain or not.           *)
(***************************************************************************)
EXTENDS Naturals

CONSTANTS
    Caller,     \* the goroutines that call
    Region,
    Static,     \* the static credentials there are
    Ambient,    \* the credentials the SDK finds
    None, Error, Free,
    MaxBuilds

ASSUME ClientCacheAssumption ==
    /\ Ambient \notin Static
    /\ Free \notin Caller
    /\ MaxBuilds \in Nat

\* What a client is asked for.
Config == [region : Region, creds : Static \cup {Ambient}]

\* Mutant: the key of static credentials is that of the ambient ones.
NoFingerprint(creds) == Ambient

\* The hash tells static credentials apart from each other and from ambient.
CredFingerprint(creds) == creds

KeyOf(config) == [region |-> config.region, fp |-> CredFingerprint(config.creds)]

Key == {KeyOf(config) : config \in Config}

\* A client knows what it was built from, and which build it comes from.
Client == [from : Config, serial : 1..MaxBuilds]

ASSUME ClientCacheValues ==
    {None, Error} \cap (Config \cup Key \cup Client) = {} /\ None # Error

VARIABLES
    mutex,    \* who holds it, or Free
    items,    \* the map
    pc,       \* caller |-> where it is in GetOrCreate
    wants,    \* caller |-> the Config it calls with, or None
    result,   \* caller |-> what it returns: a client, Error, or None yet
    builds    \* how many builds there were

vars == <<mutex, items, pc, wants, result, builds>>

Init ==
    /\ mutex = Free
    /\ items = [k \in Key |-> None]
    /\ pc = [p \in Caller |-> "out"]
    /\ wants = [p \in Caller |-> None]
    /\ result = [p \in Caller |-> None]
    /\ builds = 0

Goto(p, l) == pc' = [pc EXCEPT ![p] = l]

Call(p) ==
    /\ pc[p] = "out"
    /\ \E config \in Config : wants' = [wants EXCEPT ![p] = config]
    /\ Goto(p, "lock")
    /\ UNCHANGED <<mutex, items, result, builds>>

Lock(p) ==
    /\ pc[p] = "lock"
    /\ mutex = Free
    /\ mutex' = p
    /\ Goto(p, "lookup")
    /\ UNCHANGED <<items, wants, result, builds>>

\* Mutant: the lock is given up before the build.
UnlockToBuild(p) ==
    /\ pc[p] = "lookup"
    /\ LET v == items[KeyOf(wants[p])]
       IN  IF v # None
           THEN result' = [result EXCEPT ![p] = v] /\ Goto(p, "unlock") /\ UNCHANGED mutex
           ELSE UNCHANGED result /\ Goto(p, "build") /\ mutex' = Free
    /\ UNCHANGED <<items, wants, builds>>

Lookup(p) ==
    /\ pc[p] = "lookup"
    /\ LET v == items[KeyOf(wants[p])]
       IN  IF v # None
           THEN result' = [result EXCEPT ![p] = v] /\ Goto(p, "unlock")
           ELSE UNCHANGED result /\ Goto(p, "build")
    /\ UNCHANGED <<mutex, items, wants, builds>>

\* build() with the caller's own configuration; an error is not kept.
Build(p) ==
    /\ pc[p] = "build"
    /\ builds < MaxBuilds
    /\ builds' = builds + 1
    /\ \/ /\ LET v == [from |-> wants[p], serial |-> builds']
             IN  /\ items' = [items EXCEPT ![KeyOf(wants[p])] = v]
                 /\ result' = [result EXCEPT ![p] = v]
       \/ /\ result' = [result EXCEPT ![p] = Error]
          /\ UNCHANGED items
    /\ Goto(p, "unlock")
    /\ UNCHANGED <<mutex, wants>>

\* Mutant: the early return does not unlock.
UnlockAfterBuild(p) ==
    /\ pc[p] = "unlock"
    /\ mutex' = IF result[p] # Error /\ result[p].serial = builds THEN Free ELSE mutex
    /\ wants' = [wants EXCEPT ![p] = None]
    /\ result' = [result EXCEPT ![p] = None]
    /\ Goto(p, "out")
    /\ UNCHANGED <<items, builds>>

\* The deferred Unlock, and the return.
Unlock(p) ==
    /\ pc[p] = "unlock"
    /\ mutex' = Free
    /\ wants' = [wants EXCEPT ![p] = None]
    /\ result' = [result EXCEPT ![p] = None]
    /\ Goto(p, "out")
    /\ UNCHANGED <<items, builds>>

Inside(p) == Lookup(p) \/ Build(p) \/ Unlock(p)

Next == \E p \in Caller : Call(p) \/ Lock(p) \/ Inside(p)

Spec == Init /\ [][Next]_vars

\* sync.Mutex does not starve those who wait; a build ends, well or not.
Fairness == \A p \in Caller : SF_vars(Lock(p)) /\ WF_vars(Inside(p))

FairSpec == Spec /\ Fairness

----------------------------------------------------------------------------
(* Properties. *)

\* The types of the variables.
TypeOK ==
    /\ mutex \in Caller \cup {Free}
    /\ items \in [Key -> Client \cup {None}]
    /\ pc \in [Caller -> {"out", "lock", "lookup", "build", "unlock"}]
    /\ wants \in [Caller -> Config \cup {None}]
    /\ result \in [Caller -> Client \cup {None, Error}]
    /\ builds \in 0..MaxBuilds

\* Whoever gets a client gets one that was built from the region and from the
\* credentials it came with (tencentcert/issuer.go:34-39, 142).
ClientFitsCaller ==
    \A p \in Caller : result[p] \notin {None, Error} => result[p].from = wants[p]

\* The cache is a BuildOnce: the answers a call may get, in the order in which
\* the callers hold the lock (clientcache.go:9-11).
Implements ==
    INSTANCE BuildOnce WITH
        made <- items,
        asked <- [p \in Caller |-> IF wants[p] = None THEN None ELSE KeyOf(wants[p])],
        answer <- result

BuildsOnce == Implements!Spec

\* Every call returns, unless the bound stops its build
\* (clientcache.go:28-33).
CallsReturn ==
    \A p \in Caller : pc[p] # "out" ~> pc[p] = "out" \/ builds = MaxBuilds
=============================================================================
