# cert-manager-ext-issuer-secret-manager in TLA+

The controller copies certificates that live in a cloud secret manager (AWS,
GCP, Tencent) or a cloud certificate service (AWS ACM, Tencent SSL) into
`kubernetes.io/tls` Secrets, for cert-manager `Certificate`s whose issuer
belongs to one of its API groups.  This directory models what it does to the
Secret and to the Certificate, checks the models with TLC, and proves the
invariants that matter most with TLAPS.

Paths such as `issuer.go` are under `src/internal/controller/` unless a longer
path is given.

## The system

| Component | State it keeps | Operations | Talks to |
|---|---|---|---|
| `IssuerReconciler` (`issuer.go`, `hash.go`) | none of its own: all of it is in the Secret (data, `source-hash`, `secret-hash`, `last-sync-time`, drift annotation) and the Certificate (conditions, `force-sync`) | `Reconcile`: fetch, build keystore, verify, write each namespace, sign the CertificateRequest, clear force-sync and drift, set Ready | API server through the informer cache (reads) and directly (writes); cloud through a resolver |
| Watch and queue (`internal/app/app.go`, `log.go`) | work queue, 30 s requeues | `ourIssuerFilter`, `RequeueAfterError` | calls `Reconcile` |
| `Resyncer` (`resync.go`) | ticker, semaphore of 8 | lists the Certificates and calls `Reconcile` directly, discarding the `Result` | beside the queue, on the same objects |
| Conditions, annotation (`conditions.go`, `annotation.go`) | the two conditions, `force-sync` | `SetReady`, `SetExternalIssuerSynced`, `ClearForceSync` | status merge patches; one Update |
| Keystore builder (`internal/keystore`) | none | reuse or generate a password; JKS and PKCS#12 | pure |
| `VerifySecretData`, `VerifyChain` (`verify.go`), `CompleteChain` (`roots.go`), `Extract`, `NormalizePEM` (`parse.go`) | none | pure functions on PEM | pure |
| Fan-out (`TargetNamespaces`, the loop in `Reconcile`) | one Secret copy per namespace | list namespaces, write each, collect failures | API server |
| `CertSyncer` (`certsync.go`) with `awscert`, `tencentcert` | finalizer, Secret, conditions | gate on an annotation, fetch, write, `PostWrite`, periodic requeue | the certificate services |
| `ClientCache` (`clientcache.go`) | a map under a lock | `GetOrCreate` | SDK constructors |
| Resolvers (`internal/app/app.go`) | the GCP client and its error, behind `sync.Once` | one closure per kind; those of AWS and Tencent return an error at once | cloud clients |
| Cloud clients (`internal/aws`, `gcp`, `tencent`, ...) | none | one SDK call each | cloud |
| `jks2secret` (`src/cmd/jks2secret`) | none | converts a JKS or PKCS#12 file, and a truststore, into the JSON payload, and compares the two | files; its output is what a resolver fetches |
| `demo` (`src/cmd/demo`) | none | prints a payload | cloud clients |

What is hard about it:

* **Two reconcilers.** The queue never runs one Certificate twice at a time, but
  the Resyncer calls `Reconcile` beside it.  Both read a Secret, decide, and
  send a merge patch without a resourceVersion.
* **Stale reads.** Every read is from the informer cache; the keystore that is
  reused and the copy a patch is computed from may be older than the last write.
* **The controller wakes itself.** Its own status patches are watch events.
* **Lost answers, conflicts and crashes** between the write of the Secret, the
  signature, the clearing of `force-sync`, of the drift and the setting of Ready.
* **One namespace of many fails** while the others are written; filters and namespaces
  change meanwhile.
* **A finalizer** that is put on and taken off through stale copies.
* **Several reads make one client**: the issuer, its Secret and the cached client may
  each be of another moment.
* **A file format without order**: the entries of a JKS come in the order of a Go map.
* **PEM by concatenation**: a missing newline, a repeated block, the order of files in a ZIP.
* **Dropped errors**: `_ = MarkCertDrift`, `_ = ClearCertDrift`, `_ = r.Update`,
  and the Resyncer's discarded `Result`.

What makes the parts correct:

* Secret: what carries a fitting hash is one payload, verified; its keystore is of
  its certificate; keystores and passwords do not change under their consumers
  without reason; the Secret converges to the source, and its drift marker to
  the truth.
* Certificate: a failure shown is one the controller will return to; the
  conditions converge to the truth; `force-sync` is served before it is removed;
  the request is signed; the controller comes to rest.
* Fan-out: each target namespace converges; a failing one does not hold back
  others; all copies carry one keystore.
* CertSyncer: no copy is written without the finalizer on the server, which never blocks
  a deletion for ever; no Certificate is forgotten; the condition tells the outcome; the
  requests that cert-manager leaves behind are cleared.
* From a download to the Secret: every certificate of the source arrives once, as a
  signing path that starts with the leaf; keystores and annotation tell the same.
* ClientCache: one client per key and credentials, a failure is not cached, every call returns.
* Fetch of `tencentcert`: a download uses the credentials of its own namespace, as they
  were during the call.  GCP resolver: nobody uses a client that is not there yet.
* `jks2secret`: a payload that passes the cross-check is issued if its CAs continue the leaf's path, and
  then every CA of keystore and truststore arrives in the Secret; the certificate is that of the key,
  and the cross-check tells good from bad.

## Modules

| Module | What it models |
|---|---|
| `TLSSecret` | the Secret and the pure functions on it: hashes, keystore, template, verification, comparison, merge patch |
| `MirroredSecret` | what `SecretMirror` promises with one worker and fresh reads, and `CertSync` of the copy in the Certificate's own namespace: the abstract specification that both implement |
| `SecretMirror` | `IssuerReconciler.Reconcile` on one Secret in one namespace: workers, cache, lost answers, crashes, edits, rotation |
| `ReconcileLoop` | what wakes that `Reconcile` for one Certificate and what it does to it: watch filter, queue, timer, Resyncer, conditions, `force-sync`, CertificateRequests |
| `CertSync` | `CertSyncer.Reconcile` as `awscert` and `tencentcert` run it: annotation gate, finalizer, fan-out over namespaces, `PostWrite`, conditions, requeues |
| `PEM` | PEM texts and the functions on them: normalising, splitting, verifying, completing and describing a chain |
| `CertBundle` | the three ways from a download to a Secret (Tencent ZIP, ACM text, JSON payload), on `PEM` |
| `Jks2Secret` | the program that makes JSON payloads from keystores, composed with `CertBundle`: the controller reads what it wrote, and it reads what the controller built |
| `ClientCache` | `GetOrCreate` step by step |
| `BuildOnce` | what `ClientCache` promises: the abstract specification it implements |
| `Wiring` | `tencentcert`'s `Fetch` around `ClientCache`, with the edits of issuer and credentials, and the GCP resolver |
| `SecretMirrorProofs`, `ReconcileLoopProofs`, `CertSyncProofs` | theorems about the module each is named after |
| `WholeWritesProofs` | the theorems about `SecretMirror` with one worker and fresh reads, the refinement of `MirroredSecret` among them |
| `WiringProofs` | theorems about `ClientCache`, its refinement of `BuildOnce` among them, and about `Wiring` on top of them |
| `PEMProofs` | lemmas: what selecting, decoding, encoding, joining, normalising and completing do to a text, and what a signing path keeps under them |
| `CertBundleProofs` | theorems about `CertBundle`, on top of `PEMProofs` |
| `Jks2SecretProofs` | theorems about `Jks2Secret`, on top of `CertBundleProofs` |
| `MCSecretMirror`, `MCReconcileLoop`, `MCCertSync`, `MCCertBundle`, `MCJks2Secret`, `MCWiring` | values of the constants for TLC |

`SecretMirror` and `ReconcileLoop` cut `IssuerReconciler.Reconcile` along its two
objects.  In `SecretMirror` every read and write of the Secret is a step and the
Certificate is left out; in `ReconcileLoop` the same code is the single step
`Write` and the status patches are the steps.  `CertSync` and `CertBundle` cut
`CertSyncer.Reconcile` in another way: `CertBundle` follows the bytes of one
reconcile, `CertSync` takes what it yields for an element of `Payload`.  A
definition named *Mutant* in a comment is a plausible wrong version of the
definition after it.  No behaviour of the models uses one.

### TLSSecret and SecretMirror

| Model | Code |
|---|---|
| `source` | what the resolver would return, after `Extract` |
| `live`, `cached` | the Secret on the API server and in the informer cache |
| `mat`, `want`, `reason` of a worker | `parsed`, `secret` and the drift reason, local to `Reconcile` |
| `patch` of a worker | a request between its computation and its arrival |
| `Fetch` | up to `VerifyChain` (`issuer.go:63-121`) |
| `BuildSecret` | template, first read, `BuildKeystore`, `VerifySecretData` (`issuer.go:124-188`) |
| `WriteRead`, `Send` | the two halves of `WriteSecret` (`issuer.go:389-428`) |
| `MarkRead`, `ClearRead`, `Send` | `MarkSecretDrift`, `clearSecretDrift` (`issuer.go:476-521`) |
| `Rotate`, `Edit`, `Tick`, `Deliver`, `Crash` | the cloud, people, the clock, the informer, the process |

Abstractions: bytes are `Absent`, `Junk` or an abstract value.  SHA-256 is
injective, so a digest is what it digests.  `FreshNonce` stands for `rand.Read`
and for the salts and times inside a keystore: a new choice differs from every
one in use, which also keeps the state space finite.  Annotations that are a
function of the Certificate and the payload (common name, dates, issuer) change
exactly when `sourceHash` does and are folded into it.  The Secret's type, labels and
owner are constant.  The completion of a chain is the constant function
`Completed`.  `SourceMissing` stands for all the failures before the Secret is built
and `SecretWriteFailed` also for the failure to list namespaces: they take the same
path.

Under the refinement mapping a Secret as `Template` makes it of what the controller alone made
(`AsMade`) is its payload with the salt of its keystores and the password; any other Secret is
`Edited`.  `Send` of a write is the one step that maps to `Write`, or to `Remake` when the keystore that was
reused carries an edit and the Secret it came from was deleted meanwhile; every other step of a reconcile
maps to `Begin`, `End` or a stutter.  An edit of `SecretMirror` maps to `Tamper`, which may also
undo another (a field that the payload leaves empty is filled, and emptied again).

### ReconcileLoop

| Model | Code |
|---|---|
| `live`, `cached` | the Certificate on the API server and in the cache |
| `current` | which holders of a copy have the server's resourceVersion |
| `due` | a watch event that will pass `ourIssuerFilter` |
| `queued`, `timer` | the work queue's entry, a pending `RequeueAfter` of 30 s |
| `stage`, `local`, `why` | where a worker is in `Reconcile`, `cert`, the reason it reports |
| `requests` | the CertificateRequests cert-manager created, by revision |
| `unheard` | history: `force-sync` was set after this worker's fetch |
| `Take`, `Ripen`, `Drift`, `Deliver` | the queue hands out a key, a requeue comes due, a tick of the Resyncer, a watch event arrives |
| `Get`, `Mark`, `Soft`, `Write`, `ClearForceSync`, `ClearCertDrift`, `SetReady` | the API calls of `Reconcile`, in its order; the Update of `ClearForceSync` leaves the status alone, which only the status patches write |

Abstractions: the watch is coalesced, so the cache jumps to the server's present
object.  A jump over an update is harmless because the predicate looks at the
new object only, and `due` remembers that one passed on the way.  A
patch that changes nothing produces neither version nor event.  The error
message of a reason is constant (cloud errors that carry a request id would
differ each time).  A foreign group means a kind without a resolver, which is so for
the issuers the chart installs.  `Get` includes the fetch, for no state of the model
changes between them.  The cache of CertificateRequests does not lag; a conflict
on its Update is a `Fault` of `Write`.

### CertSync

| Model | Code |
|---|---|
| `live`, `cached`, `current`, `due` | as in `ReconcileLoop` |
| `cloud`, `copies` | what the certificate service holds; the Secret in each namespace, as its payload and the random choice of its keystore |
| `phase`, `filter` | the namespaces' phases and the issuer's `namespaceFilter` |
| `queued`, `timer` of a syncer | its work queue; the 30 s requeue, the backoff and the resync interval together |
| `stage`, `local`, `job`, `why` of a syncer | where it is in `Reconcile`, `cert`, `result` with the loop over targets, the reason it reports |
| `requests` | there are CertificateRequests of the Certificate |
| `Begin`, `Release`, `Claim` | `certsync.go:80-103` |
| `Fetch`, `Build`, `Soft`, `Verify` | `certsync.go:105-178`: the fetch, the read of the Secret with the keystore, the mark for a missing one, then `VerifySecretData` and the list of namespaces |
| `Write`, `PostWrite` | `certsync.go:180-213`, one namespace a step |
| `Mark`, `ClearCertDrift`, `SetReady` | the patches of the status |

Abstractions: an Update carries the version of the copy it was made from and a
status patch carries none, so `Claim` and `Release` can meet a conflict and the
others cannot.  The write in one namespace is one step without a stale read: the
races there are `SecretMirror`'s.  A failed read of the issuer is `IssuerNotFound`; `DownloadFailed` stands for
each failure of `Fetch` after it (`MissingCredentials`, `ClientBuildFailed`, `DownloadFailed`, `DecryptFailed`,
`ChainInvalid`), since all of them take one path.  The read of the Secret at `certsync.go:141` is fresh too,
while the code's comes from the informer cache: what a stale one does to the keystore is `SecretMirror`'s
subject, and `HomeMirrored`, `KeystoresAgree` and the theorems about keystores hold on this condition.  `Refusing` are
namespaces that admit no write, whatever the reason (quota, policy, rights).
`live.ours` says that the issuer is in the group `certificates.cert-manager.io`.

### PEM and CertBundle

A text is a sequence of blocks; of its bytes the model keeps the DER content of
each block, whether its BEGIN line is glued to the END line before it, and
whether the last line is unfinished.  These are the two facts on which
`NormalizePEM` and `appendPEM` turn.  `Decode` loses the blocks on both sides of a glued boundary: the END line
before it does not end there, and the BEGIN after it does not start a line.  It goes on behind them, as
`pem.Decode` does (`parse.go:68-71` says that it gives up, which makes no difference once the text is
unglued).  A signature is the function `Signer`: it verifies under the
certificate it names and no other, and issuer and subject names agree with it.
A loop that filters blocks is the set of the positions it keeps, taken in ascending order
(`Pick`, `Select`): the order is there to be proved about, and no recursion is needed.
`AcmEndsItsLines` says that the text ACM returns has no glued boundary.  `SplitPEM` decodes that
text as it comes (`awscert/client.go:35-38`, `57`), before `NormalizePEM` could repair it, so
nothing in the code protects this path, and it is the cloud that has to keep its lines apart.

| Model | Code |
|---|---|
| `parts` | `ExportedParts`, `FetchResult`, `extracted` |
| `given` | history: what the source supplied as leaf and as chain |
| `secret` | tls.crt, ca.crt, the chain annotation, the certificates of the keystores |
| `ReadFile`, `TencentFetch` | `ExtractFromZIP` file by file, then `Download` and the rest of `Fetch` |
| `AwsFetch` | `SplitPEM`, `DecryptPKCS8` and the rest of `Fetch`; a key that the passphrase does not open is refused |
| `Extract`, `IssuerBuild` | `Extract` to `VerifySecretData` in `IssuerReconciler` |
| `CertSyncBuild` | the same in `CertSyncer` |

### ClientCache

`pc` says where a goroutine is in `GetOrCreate`; `mutex` and `items` are the fields
of the struct.  A client carries the configuration it was built from and the number of its
build.  Credentials are values, their hash is injective.  Under the refinement
mapping `made` is `items`, `asked` the key of the call and `answer` its result;
`Lock`, a lookup that finds nothing, and the return of a build error are the steps
at which the abstract specification stutters or answers.

### Wiring

| Model | Code |
|---|---|
| `step`, `spec`, `serves`, `client` of a caller | where a goroutine is in `Fetch` or the resolver; `spec`, the Certificate's namespace and `cli` there |
| `held` | history: what the Secret that the issuer names has held since the call began |
| `once`, `smClient` | the `sync.Once`, and `initErr` with `smClient` |
| `ResolveIssuer`, `LoadCredentials` | `resolveIssuer`, `loadCredentials` (`tencentcert/issuer.go:93-138`) |
| `InCache`, `GotClient`, `Download` | `GetOrCreate` and what follows it (`tencentcert/issuer.go:139-153`) |
| `ResolveGcp`, `OnceDo`, `Bootstrap`, `Access` | `gcpResolver` (`app.go:198-219`) |

`Wiring` extends `ClientCache`: `LoadCredentials` is its `Call`, `GotClient` its `Unlock`, and the steps
between are its own.  An issuer is a cluster issuer, which Certificates of several namespaces
share; a read is answered by the informer cache, whose delay is part of when an edit happens.
`Static` are pairs of id and key, read in one `Get`.

### Jks2Secret

| Model | Code |
|---|---|
| a keystore file | its private key entries with their chains, and its trusted certificates |
| `sk`, `doc` | `sourceKeystore`; the payload that was written |
| `ReadSource`, `ReadTruststore` | `Main` up to the union of the chains (`main.go:60-131`) with `loadSource`, `fromJKS` |
| `WritePayload`, `Verify`, `SkipVerify` | the rest of `Main`, `verifyPayload` |
| `Upload` | the resolver and `Extract`: the controller reads what was written, compared or not |
| `OwnKeystores` | the JKS and PKCS#12 that the controller built, given to the program in turn |

The program runs while the controller's other sources rest, because the two share nothing but
the payload.  Passwords, flags that exclude each other and unreadable files are `Fatal`, which may
come at every read.

## Runs

| Run | Question | Answer |
|---|---|---|
| `concurrent` | Queue and Resyncer at once, an edit, a rotation: does a fitting `secret-hash` vouch for the data, does the Secret converge? | yes |
| `stable` | One reconciler with a fresh cache, sources of every kind, two edits and a failing call: does each write replace one whole payload by another (`WritesWhole`), and do keystores and password survive what does not rotate them? | yes |
| `stale` | One worker on stale reads with faults and sources of every kind: does the Secret converge, and its drift marker? | yes |
| `racing` | Are the keystores those of the certificate with two workers? | **no** |
| `loop` | With sources of every kind, edits, deletion and a restart: is a failure ever shown and forgotten, is `force-sync` ever removed unserved? | no (`NoOrphanedFailure`); no while the source has its key (`ForceSyncHeard`) |
| `settle` | After the last fault: truth of the conditions, signature, rest, forgetting | yes |
| `guarded` | Two syncers on one Certificate that is deleted, created again and moved: a write without the finalizer, a Certificate that is forgotten, a deletion that never ends? | none of them |
| `mirrored` | The fan-out with a refusing namespace, a changing filter, a fault: are the others served, with one keystore, is the copy at home a `MirroredSecret` (`HomeMirrored`), and is the outcome told? | yes |
| `calls` | Two goroutines, two namespaces, an edit: is the cache a build-once map, does everybody download with credentials of its own, does every call return, does the GCP client come before its use? | yes |
| `bundles` | Every order of up to six files of a ZIP, ACM texts, JSON payloads, converted keystores: is a certificate lost, repeated, out of its path, missing in the keystore, misdescribed, refused without cause? | no; of a truststore's CAs, none if they continue the path (`CAsArriveOnPath`) |
| `zip` | Does the leaf come first (`verify.go:144-146`)? | **no** |
| `keystores` | Does the controller accept what `jks2secret` has verified (`main.go:5-8`, `139-142`)? | **no** |

### What the violations show

* `racing`: queue and Resyncer fetch before and after a rotation.  Each patch
  names only what differs from its copy, and their merge is the new certificate
  with the old keystore under the new `source-hash`.  Every later reconcile
  reuses that keystore and stamps it as intact.
* `zip`: `Apache/1_root_bundle.crt` has neither "chain", "intermediate" nor "key" in
  its name, so `ExtractFromZIP` counts it as a leaf.  If the ZIP lists it before the
  certificate itself, tls.crt begins with the intermediate, and so do the annotations
  and the keystores; `VerifyChain` has no chain to look at, and `VerifySecretData`
  parses the first certificate without holding it against the key.
* `keystores`: a JKS that the controller built has the chain twice, with the key and as trusted
  certificates.  `fromJKS` puts the trusted ones first, in the order of a map, so the root may
  come right after the leaf.  The cross-check compares sets and passes; `VerifyChain` refuses the
  payload.  With another order of the same map the same file is accepted.

Further statements of the documentation are properties of the modules that TLC finds
violated; they are kept with the modules, without a run of their own:

* `EditsAreRewritten` (`SecretMirror`, of `hash.go:18-20`): an edited keystore is read back,
  because the source hash still fits.  An edited PKCS#12 file is stamped as good; an edited
  JKS or password fails verification for ever.
* `ForeignIsLeftAlone` (`ReconcileLoop`, of `docs/FEATURE.md:91-92`): `Reconcile` never looks
  at the group, so a key that waits for its requeue when the Certificate moves is
  marked `InvalidSpec` every 30 seconds.
* `OthersConditionsKept` (`ReconcileLoop`, of `conditions.go:23-33`): a merge patch of the
  status replaces the whole list of conditions by the cached one and takes back
  what cert-manager wrote since.
* `EveryDeletionEnds` (`CertSync`, of `certsync.go:28-29`): `Reconcile` returns before it looks
  at the finalizer when the annotation is gone, and the watch drops the events of a
  Certificate whose issuer left our group; a deletion that follows waits for ever.
* `EveryCAArrives` (`Jks2Secret`, of `main.go:95-97`, "the generated JKS / P12 then carry every CA the application
  needs to trust, not just the ones bundled with the leaf", and `src/README.md:100-102`, "the typical bootstrap
  path"): `jks2secret` puts the truststore's CAs behind the chain (`main.go:121-127`), its cross-check compares
  sets and passes, and the controller takes the chain for one signing path: a CA that the leaf's path does
  not lead to makes `VerifyChain` (`verify.go:43-49`) refuse the whole payload, after the program has said
  that it is good.  TLC finds it with the constants of `bundles`: a PKCS#12 file of a leaf and its path, and a
  truststore of the intermediate and a root of somebody's own.  So a truststore serves only where it
  continues the path of the source, with the known root for example.  `CAsArriveOnPath`, which `bundles` checks,
  is what the code does do: of a keystore with one key, what passed the cross-check is issued exactly if the
  CAs continue the path, and then all of them arrive.
* `FailedIsNotShipped` (`Jks2Secret`, of `main.go:5-8` and the pipes of `src/README.md:147-158`): the payload is
  written before it is compared, and by then the controller may have issued it.
* `GcpRecovers` (`Wiring`; no document promises it): the error of the first try to make the GCP client
  is kept until the process ends, although the key is requeued every 30 seconds.

Some passing properties stop holding at other constants, and the runs avoid
those on purpose:

* `EventuallyMirrored` needs that no source keeps its certificate and changes its
  chain while reads are stale: with `Lagging` and two rotations a patch against a stale
  copy leaves `keystore.jks` under one password and `keystore.password` with another.
  Every later reconcile with the same source hash reuses both, verification refuses
  them, and the Secret stays.
* `WritesWhole` needs one worker and a fresh cache; `racing` is how two workers break it.
* `KeystoreMatchesCert` needs both too, and holds with them (`KeystoresFit`): when the format of the key changes from
  PKCS#8 to another the keystores go, but a patch against a stale copy that has none
  yet leaves the live ones where they are.  It is about Secrets that nobody has edited.
* `KeystoreStable` needs a fresh cache: a stale one is without the keystore to reuse.  It says nothing of
  a Secret that was stamped with somebody else's PKCS#12 file or password in it: the file is
  emptied between the reconcile's first read and its second, and put back before the patch
  arrives, which does not name it because copy and wanted Secret agree.  The merge is intact
  and has another file than before.  It takes three edits.
* `ForceSyncHeard` says nothing of a source without a key (`KeyIsThere`), and `ComesToRest` needs
  sources that have theirs (`KeyedClouds`).  Without a key each reconcile writes `ExternalIssuerSynced`
  False (`KeystoreSkipped`) and, at its end, True; both patches are events, so it
  wakes itself without a pause; and the first one refreshes its copy of the
  Certificate after the fetch, so that it clears a `force-sync` it never served.
* `RequestsAreSigned` needs a single revision: the name that is looked for ends in `-1`
  whatever the revision, so with `Revision = {1, 2}` the request of a renewal waits
  for ever.
* `ConditionTellsTruth` needs the Resyncer: when `ClearCertDrift` fails its error
  is dropped, and without a tick `Ready` True and `ExternalIssuerSynced` False stay.
* `FinalizerGuardsWrites` needs a Certificate with one annotation.  With both, the two
  syncers share one finalizer: the first to see the deletion takes it off, the
  Certificate goes, and the other is still writing its copies.
* `HomeMirrored`, `ReadyIsEarned` and `KeystoresKept` need it too, or a single syncer: when a Certificate gets the
  other annotation and the other kind of issuer while a worker writes, both write the same copies, each
  with a keystore of its own, and each reports a success.
* `KeystoresAgree` says nothing when the filter leaves out the Certificate's own namespace:
  the keystore is only ever read back from there, so every reconcile makes a new one.
* `NothingLost` needs texts of ACM whose lines are ended (`AcmEndsItsLines`): `SplitPEM` would lose the
  block before a glued boundary.  ZIPs and JSON payloads may be glued as they like.
* `NoFalseAlarm` is about `OrderlyFiles`, in which each chain file begins at one certificate and follows the
  signatures; `bundles` assumes it of its own.  Not every source is served in which each
  certificate has its place: a chain that gives the root before the intermediate is refused, for
  `VerifyChain` goes by the order (`verify.go:13-17`).  Where the order is given, as in the path of a PKCS#12
  file, `PathsConvert` says so of all files.
* `OneOfEach` is about `CertSyncer`, and about tls.crt and tls.key.  `IssuerReconciler` joins leaf and chain without
  normalising them again, so a certificate that is in both fields is repeated, and a self-signed
  one that is its own chain is announced as a root.

Read off the code and not given a run: the GCP client is made with `gcp.New(ctx, nil)`, so the
`secretRef` of a GCP issuer (`docs/FEATURE.md:13`, `40`, `161-164`) is never read, and there is one
client for all projects; the resolvers of the AWS and Tencent kinds (`docs/FEATURE.md:39`, `41`)
only return an error; `--cert-manager-namespace` (`docs/FEATURE.md:59`, `261`) has no effect, for
`loadIssuerConfig` drops it and an empty namespace of a `secretRef` always means the Certificate's; the
static keys of an ACM issuer (`src/README.md:241`) are not used, as `awscert/issuer.go:32-39` knows; an
error in reading its passphrase is dropped and the export goes on with an empty one; an SDK error leaves `Ready` as it was
(`docs/FEATURE.md:99-101` says it becomes False); `last-sync-time` makes every tick
write (known, `docs/FEATURE.md:323-327`); a missing keystore is recorded as drift and the
record removed by the same reconcile.

### Bounds

The environment is bounded, the controller never is: reconciles, ticks, patches
and retries are unlimited in every run, so liveness is about infinite behaviours.
(The exceptions are `calls`, whose builds are numbered, and `bundles`, where a ZIP ends and a keystore
is read once.)

* `Nonce`: ten values in `SecretMirror`, four in `CertSync`, more than can be held at once.
* `MaxRotations` 2 lets a payload go and come back, the shortest history that
  separates "the same as before" from "unchanged"; 1 is enough where two workers
  supply the two views.
* `MaxEdits` 1 or 2 elsewhere: one edit of each field; setting `force-sync` again while a reconcile
  that saw the first is on its way; a deletion and what follows it.  The move to another
  issuer is in `loop` and, to keep the liveness check within minutes, not in `settle`.
* `MaxFaults`, `MaxCrashes` 1: one failing or unanswered call at any place.  `loop` has
  no outage, for the source may be of any kind from the start, and no faults because
  `NoOrphanedFailure` is about the time without them, and the theorem needs
  `MaxFaults = 0` as well; that `ForceSyncHeard` survives them is left to its theorem.
* `MaxTime`: two different sync times in `stale`; one in `concurrent` and `stable`,
  where the edits already make the workers write.
* `stable` has one rotation, so that a payload is replaced in the middle of a reconcile, and two edits, so
  that one spoils the keystore and another takes the Secret away or undoes the first.  More of
  everything is left to the theorems `WritesAreWhole` and `KeystoresStay`.
* Two syncers, or one and three namespaces: the Certificate's own, another, and one
  that refuses.  Both at once add only the interleaving of two fan-outs, which is two
  writers of one Secret and belongs to `SecretMirror`.
* `MaxFiles` 6: a leaf, a key and a chain file, each in two forms.  `File` has the names
  of Nginx, Apache, IIS and Tomcat folders with and without a final newline, mashed blocks, a
  block that does not parse and binary stores.  `bundles` leaves out
  the root bundle, which `zip` adds.
* `stable` has five payloads: two certificates, one of them under another intermediate too, one with
  a key that makes no keystore, and one that does not parse.
* Eleven keystores and five truststores: keys with and without certificates, two keys, CAs beside a
  key, a leaf among its CAs, malformed and empty ones, in both formats.
* `MaxBuilds` 3: a failure, and a success for each of two keys.  `MaxEdits` 1 there: one edit between
  any two reads of two callers.  The two namespaces hold different credentials, and the issuer names
  either the shared one's, or each Certificate's own, or none.

`ReconcileLoop`'s and `CertSync`'s runs set `CHECK_DEADLOCK FALSE`: a Certificate that was
deleted, or that is synced with no Resyncer, leaves the controller with nothing to do.  `calls` sets it
because callers wait at the bound of the builds.

### Fairness

`SecretMirror`: weak fairness of `Deliver` (a watch that is up delivers), of a
reconcile that has begun (calls have deadlines and `Reconcile` has no loop that
waits), and of the start of the reconciles in `Ticking` (the Resyncer's ticker,
`resync.go:52-70`).  Nothing is assumed of the queue there.

`ReconcileLoop`: weak fairness of the queue handing out a key, of timers, of the
tick (`Drift`, disabled when `ResyncInterval <= 0`), of the watch, and of each
reconcile under way.

`CertSync`: weak fairness of the watch, of each queue with its timers, and of each
reconcile under way.

`ClientCache`: weak fairness of the steps under the lock (a build ends, well or not) and
strong fairness of `Lock`, because `sync.Mutex` hands the lock over to a goroutine that
has waited for more than a millisecond.

`Wiring`: the same for the steps of `Fetch` and of the GCP resolver; edits and the start of calls are not fair.

None of the environment's actions, `Crash` included, is fair.

## Proofs

For all values of the constants that the modules' assumptions allow:

* `TypeCorrect`, `LoopTypeCorrect`: the type invariants.
* `TamperEvidence`: `Spec => []TamperEvident`.  `TamperEvident` alone is not
  inductive: a patch may merge two copies.  The strengthening says that every Secret
  held anywhere (live, cached, wanted, in a request) has a hash annotation that is
  empty, junk or the data of a certified Secret; since the annotation is the data it
  digests, whatever data comes to fit it is certified, however the rest was merged.
  That is why no interleaving can break it, while `KeystoreMatchesCert`, which
  relates `jks` to `crt` inside that data, is broken by two workers: what the
  reconciler takes over from a merged copy it certifies again.
* `WritesAreWhole`, `KeystoresFit`, `KeystoresStay`: `Spec => WritesWhole`, `Spec => []KeystoreMatchesCert` and
  `Spec => KeystoreStable`, under `OneReader`: one worker, whose cache shows the server's Secret.  A write
  is three steps all the same (a read for the keystore, a read for the patch, its arrival), and people may edit
  or delete the Secret between them.  The invariant, `WholeInv`, is that each copy is what such
  edits have left of the one before: the live Secret of the one that the patch was computed against, this of the one
  that the keystore came from, and that of a Secret which a write stamped (`Shadow`, `Remnant`; edits only
  empty fields or overwrite them with something made up).  It follows that a keystore which can be opened,
  and so is reused, is that of the payload it is filed under, and that the merge of a
  patch which was accepted is the wanted Secret, one the controller made (`AsMade`), or
  one that carries an edit and is seen as `Edited`.  For any number of rotations, edits, faults and
  crashes; `racing` shows that a second worker breaks the first link of that chain.
* `FailureIsNeverOrphaned`: `Spec => []NoOrphanedFailure`, for any number of edits,
  outages and restarts.  Three facts make it inductive when no call fails: the
  cache holds the live Certificate or an event is due (`CacheOK`); a reconcile that
  is past its fetch either holds the current version or there is an event due
  (`CopyOK`); and no budget for faults is left or ever was (`NoFaults`).  `CallOK`
  ties the reason to the stage.
* `ForceSyncIsHeard`: `Spec => ForceSyncHeard`, for any number of faults, crashes and edits.  A worker
  clears `force-sync` with an Update, which the server accepts from the current version only.
  `Heard` says that whoever holds the current version past its fetch has not missed a
  request: setting `force-sync` makes a version nobody holds, and the one step that hands a worker a newer
  version in between is the `Soft` patch of a source without a key, which `KeyIsThere` excludes.
* `TypesAreKept`, `WiringTypes`: the type invariants of `CertSync` and `Wiring`.
* `DownloadsWithItsOwn`, `BootstrapIsFirst`: `WSpec => []OwnCredentials` and
  `WSpec => []BootstrapComesFirst`.  For the cache every step of `Wiring` is one of its own or none, so
  the invariant of `ClientCache` holds here too and says that the client which comes out was built
  from what was asked for; what was asked for fits the issuer that the call read (`Fits`), and goes on
  fitting because `held` only grows during the call.
* `NeverDropped`: `Spec => []AlwaysComesBack`, for any edits, faults and restarts.  A
  reconcile that finds nothing to do drops its key for good.  It is right to, because the
  cache it looked at is up to date or an event is due to whom the Certificate matters
  (`CacheFollows`, `EventsAreDue`), and because a Certificate that is being deleted is
  only there for its finalizer (`DeletionWaits`).
* `FinalizerIsThere`: `Spec => FinalizerGuardsWrites`, if nobody adds or removes annotations, so that a
  Certificate has one syncer.  A worker that writes has read the finalizer in the cache or put it on, and
  only a release takes it off.  What the cache shows of a finalizer is still so (`CacheIsHonest`),
  because a release is accepted only from the version that the cache holds too (`ActsOnTruth`), and by then
  it shows the deletion; and who could release is the one who is busy writing (`OneAnnotation`, `Guarded`).
* `HomeIsMirrored`, `SuccessIsEarned`, `KeystoresAreKept`: `Spec => HomeMirrored`, `Spec => []ReadyIsEarned` and
  `Spec => KeystoresKept`, under `OneAtATime`: nobody adds or removes annotations, so that by `Guarded` one syncer is at
  work (`Alone`), or there is only one.  `HomeMirrored` is the refinement of `MirroredSecret` by the copy in the
  Certificate's own namespace: `Fetch` is `Begin`, a write at home is `Write`, a return or a crash is `End`, and all
  else stutters, the writes to other namespaces included.  `ReadyIsEarned` is the safe half of
  `ConditionTellsOutcome`, and `KeystoresKept` that of `KeystoresAgree`; neither has a place in a run, TLC
  finds both true in `mirrored`.  The keystore is chosen in `Build` and written many steps later, so the
  invariant, `MInv`, says of a worker in between that its keystore is the one at home if the
  payload is the same, and another otherwise (`JobFits`), that every copy has a keystore exactly if its
  payload makes one (`CopiesFit`), and that each target which has left its list, if no write failed,
  carries what it writes (`Progressed`).  All three are about a Secret that is read fresh at `certsync.go:141`.  For any number of namespaces, filters, faults, crashes, outages and edits.
* `NoForeignClient`: `Spec => []ClientFitsCaller`.  The invariant is that the map holds under
  each key a client of that key, and that a caller under the lock holds it alone.
* `ImplementsBuildOnce`: `Spec => BuildsOnce`, the refinement.  Initial states map to
  initial states, and with that invariant every step maps to `Ask`, `Answer`, `Leave` or a stutter:
  only a caller that holds the lock changes the map, and what it saw missing stays
  missing until it builds.
* `BundlesAreTyped`, `DownloadLosesNothing`, `EachBlockOnce`, `KeystoresCarryTheChain`, `PathsAreShipped`,
  `CompositionIsTold`: `Spec => []P` for six properties of `CertBundle`, for ZIPs of any length and
  order, any JSON payload and any set of certificates.  The invariant, `IInv`, goes by the stages of a reconcile.
  Before the parts are normalised, leaf and chain hold what the source gave as leaf and as chain
  (`SourceOK`); afterwards they hold it together, each is normalised or empty, and the chain was verified
  for the leaf (`ReadyOK`, `Ready`); and the Secret is computed from such parts and passed its own check
  (`SyncedOK`, `IssuedOK`).
  - *Nothing is lost* because each step between keeps the set of certificates: joining puts all blocks
    into one text and can at most glue one boundary; the `NormalizePEM` after it ends every line, so that
    the `Decode` that follows gives up nothing; and only a known root is added (`SyncedFacts`, `IssuedFacts`).
  - *A path stays a path* because dropping later occurrences from a sequence in which each certificate is
    signed by the next leaves such a sequence (a certificate that comes twice closes a cycle of
    signatures, and the path can only continue where it went before), and a known root is put at the end only
    behind what it signed.
  - The annotation *tells what the path is made of*, if a single leaf came with its chain and, of
    `IssuerReconciler`, was not repeated in it: a root exactly when the path ends in one behind the leaf, intermediates
    exactly when something is left between (`Composed`).  On a path without repetition no
    certificate but the last can have signed itself.
* `RefusedForACause`: `Spec => []NoFalseAlarm`, if the chain files are `OrderlyFiles`.  `OrderInv` adds to `IInv` that, as
  long as no malformed certificate was given, the chain is a walk up from one certificate which may start
  again with each file and whose other members have not signed the first (`Upwards`).  Joining texts keeps that, and so
  does gluing, which only loses blocks once a `Decode` follows and `NormalizePEM` comes before it.  Dropping
  later occurrences then makes it a path (`DedupUpwards`), which `VerifyChain` accepts when
  the leaf was signed by its first certificate (`UpwardsVerifies`).
* `CAsArrive`, `IssuedKeyFits`, `AlarmsAreCaused`, `PathsAreConverted`: `ToolSpec => []P` for the properties of
  `Jks2Secret`, for keystore files of any number of keys and certificates and for any order in which the
  map yields them.  `TInv` is `IInv` with what the program knows at each step: what it loaded
  comes from the file (`LoadOK`: a key and its chain, or the first certificates it has, and the CAs beside
  them), the payload is made of that (`DocOK`), and what the controller holds is the payload (`UploadOK`).
  What is compared is then known in both directions (`VerdictOK`): the
  comparison of sets can fail only if the leaf, which the payload keeps apart, was among the CAs as well; and
  a path that is split into its leaf and the rest satisfies `VerifyChain`, and nothing else does (`AcceptedOK`).  `CAsArrive` is
  `CAsArriveOnPath`; it says of a CA off the path that it has the payload refused, not that it arrives.
* `PayloadsAreServed`: the other six properties of `CertBundle` hold of `ToolSpec` too, because each step of the program
  leaves the controller alone or hands it a text like any other.
* `NoFalseAlarmBeside`: `ToolSpec => []NoFalseAlarm` under the same condition, for of the steps beside the controller's
  own only the upload touches a download, and it reads no ZIP file.

What the theorems assume of the values, beside the types:

* `ValueAssumption`, `TLSSecretAssumption`: what people make up, and a missing value, are no payload, no random
  choice and no digest, and a chain that was completed is not made up, because `VerifyChain` refused the
  malformed ones before.
* `CertSyncGoneAssumption`, `CertSyncNoneAssumption`: no Certificate, and no Secret, are values of their own.
* `PEMConstants`: a certificate is no key and neither is binary; the known roots sign themselves.  Any certificate may
  have signed any other, cycles included.
* `AcmEndsItsLines`: see above.
* `Jks2SecretConstants`: the entries of a keystore are DER, so they hold no PEM boundary that could be glued; a PKCS#12 file with a
  key has one key and no certificates beside its chain, which is what `pkcs12.DecodeChain` returns (a
  truststore in that format has no key).

Model-checked only: all liveness, which is outside the prover's reach, as is ENABLED.  Each invariant, each action
property and each refinement of a passing run is a theorem.

## Not modelled

The SDK calls and the decoding of their answers (but for the ZIP and the PEM text),
generated code, the encodings of JKS and PKCS#12, metrics and logs, leader election
(off by default), `demo`, and the test doubles.  `loadIssuerConfig` is a read whose failure is an
outcome of `Get` and `Fetch`; the resolvers of the AWS and Tencent kinds do nothing.

## Plan

Done: `TLSSecret`, `SecretMirror` with `MirroredSecret`, `ReconcileLoop` (the core), `CertSync` with the
fan-out, `PEM`, `CertBundle` and `Jks2Secret`, `ClientCache` over `BuildOnce`, `Wiring`, and proofs about
all of them.  Next, in this order:

1. The seam between `SecretMirror` and `ReconcileLoop`: the step `Write` as one write of a
   `MirroredSecret`.
2. `IssuerReconciler`'s fan-out on the namespaces of `CertSync`, and the passphrase of `awscert`.
