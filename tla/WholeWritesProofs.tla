------------------------- MODULE WholeWritesProofs -------------------------
(***************************************************************************)
(* What SecretMirror promises when nothing else reconciles and no copy is  *)
(* stale: with one worker and a cache that shows the API server's state,   *)
(* the Secret is a MirroredSecret, its keystores fit its certificate, and  *)
(* they stay.  For any payloads, rotations, edits, faults and crashes.     *)
(*                                                                         *)
(* A write is not atomic all the same: people edit the Secret between the  *)
(* read that its keystore was reused from, the read that its patch is      *)
(* computed against, and the moment the patch arrives.  They only ever     *)
(* spoil fields, though, so that each of these copies is what is left of   *)
(* the one before it, and the first is what is left of a Secret that the   *)
(* controller stamped.  The inductive invariant WholeInv says so.          *)
(***************************************************************************)
EXTENDS SecretMirrorProofs

OneReader == ~Lagging /\ \E w : Worker = {w}

\* The fields that say whose Secret it is and whether it is intact.
KeptField == DataField \cup {"sourceHash", "secretHash"}

Copy(r, s) == \A f \in KeptField : r[f] = s[f]

\* What people leave of a Secret s: some of its fields emptied or overwritten.
Worn(r, s) == \A f \in KeptField : r[f] \in {s[f], Absent, Junk}
Shadow(r, s) == r = NoSecret \/ (s # NoSecret /\ Worn(r, s))

\* A Secret as a write stamps it.  Its keystore may be reused together with a
\* PKCS#12 file that somebody put there, or made under such a password.
Stamped(s) ==
    /\ Intact(s) /\ s["secretHash"] \notin {Absent, Junk}
    /\ s["sourceHash"] \in Payload
    /\ LET m == s["sourceHash"]
       IN  /\ Usable(m)
           /\ s["crt"] = m.crt /\ s["key"] = m.key /\ s["ca"] = CaBundle(m)
           /\ IF HasKeystore(m)
              THEN /\ s["jks"] \in Keystore /\ s["p12"] \in {s["jks"], Junk}
                   /\ s["jks"] = Store(m, s["pw"], s["jks"].salt)
                   /\ s["pw"] \in Nonce \cup {Junk}
              ELSE \A f \in KeystoreField : s[f] = Absent

Remnant(r) == r = NoSecret \/ \E s : Stamped(s) /\ Worn(r, s)
Whole(r) == r = NoSecret \/ AsMade(r)

\* s is what BuildSecret makes of the payload m and the copy b it reads, with
\* a random choice that does not occur in b.
MadeFrom(s, m, b) ==
    \E n \in Nonce, t \in 0..MaxTime :
        /\ b # NoSecret => n \notin NoncesOf(b)
        /\ s = Template(m, BuildKeystore(m, b, n), t)

----------------------------------------------------------------------------
(* Facts about Secrets. *)

LEMMA KeptFacts ==
    /\ KeptField = {"crt", "key", "ca", "jks", "p12", "pw", "sourceHash", "secretHash"}
    /\ KeystoreField = {"jks", "p12", "pw"}
BY FieldFacts DEF KeptField, KeystoreField

LEMMA WornTwice ==
    ASSUME NEW a, NEW b, NEW c, Worn(a, b), Worn(b, c)
    PROVE  Worn(a, c)
BY DEF Worn

LEMMA ShadowTwice ==
    ASSUME NEW a, NEW b, NEW c, Shadow(a, b), Shadow(b, c)
    PROVE  Shadow(a, c)
BY WornTwice DEF Shadow

(* A well-formed Secret is there, and so is its digest.                    *)
LEMMA SecretIsThere ==
    ASSUME NEW s, IsSecret(s)
    PROVE  s # NoSecret /\ HashSecretData(s) \notin {Absent, Junk}
<1>1. \A f \in DataField : s[f] \in Datum
  <2>1. Bytes("p12") = Bytes("jks")
    BY DEF Bytes
  <2>2. QED
    BY <2>1, FieldFacts DEF IsSecret, Datum
<1>2. HashSecretData(s) \in [DataField -> Datum]
  BY <1>1 DEF HashSecretData
<1>3. s["secretHash"] \in Datum \cup [DataField -> Datum]
  <2>1. {Absent, Junk} \subseteq Datum
    BY DEF Datum, Bytes
  <2>2. ASSUME IsData(s["secretHash"]) PROVE s["secretHash"] \in [DataField -> Datum]
    <3>1. Bytes("p12") = Bytes("jks")
      BY DEF Bytes
    <3>2. QED
      BY <2>2, <3>1, FieldFacts DEF IsData, Datum
  <2>3. QED
    BY <2>1, <2>2 DEF IsSecret
<1>4. s \in [Field -> Datum \cup [DataField -> Datum] \cup Payload
                   \cup 0..MaxTime \cup DriftReason]
  <2>1. {Absent, Junk} \subseteq Datum
    BY DEF Datum, Bytes
  <2>2. \A f \in Field : s[f] \in Datum \cup [DataField -> Datum] \cup Payload
                                     \cup 0..MaxTime \cup DriftReason
    BY <1>1, <1>3, <2>1, FieldFacts DEF IsSecret
  <2>3. s = [f \in Field |-> s[f]]
    BY DEF IsSecret
  <2>4. QED
    BY <2>2, <2>3
<1>5. QED
  BY <1>2, <1>4, ValueAssumption

(* AsMade is Stamped without anything that people made up.                 *)
LEMMA AsMadeIsStamped ==
    ASSUME NEW s
    PROVE  AsMade(s) <=> /\ s # NoSecret
                         /\ Stamped(s)
                         /\ HasKeystore(s["sourceHash"]) =>
                                s["p12"] = s["jks"] /\ s["pw"] \in Nonce
BY DEF AsMade, Stamped

(* Both depend on the kept fields alone.                                   *)
LEMMA CopyIsAlike ==
    ASSUME NEW r, NEW s, Copy(r, s)
    PROVE  /\ HashSecretData(r) = HashSecretData(s)
           /\ Intact(r) <=> Intact(s)
           /\ r # NoSecret /\ s # NoSecret => (AsMade(r) <=> AsMade(s))
<1>1. \A f \in DataField : r[f] = s[f]
  BY DEF Copy, KeptField
<1>2. HashSecretData(r) = HashSecretData(s)
  BY <1>1 DEF HashSecretData
<1>3. Intact(r) <=> Intact(s)
  BY <1>2, KeptFacts DEF Copy, Intact
<1>4. ASSUME r # NoSecret, s # NoSecret
      PROVE  AsMade(r) <=> AsMade(s)
  BY <1>3, <1>4, KeptFacts DEF Copy, AsMade
<1>5. QED
  BY <1>2, <1>3, <1>4

LEMMA TemplateFields ==
    ASSUME NEW m, NEW k, NEW t
    PROVE  LET s == Template(m, k, t)
           IN  /\ s["crt"] = m.crt /\ s["key"] = m.key /\ s["ca"] = CaBundle(m)
               /\ s["jks"] = k.jks /\ s["p12"] = k.p12 /\ s["pw"] = k.pw
               /\ s["sourceHash"] = m
               /\ Intact(s)
<1> DEFINE s == Template(m, k, t)
<1>1. /\ s["crt"] = m.crt /\ s["key"] = m.key /\ s["ca"] = CaBundle(m)
      /\ s["jks"] = k.jks /\ s["p12"] = k.p12 /\ s["pw"] = k.pw
      /\ s["sourceHash"] = m
  BY FieldFacts DEF Template, SourceHash, KeystoreField
<1>2. Intact(s)
  BY FieldFacts DEF Template, HashSecretData, KeystoreField, Intact
<1>3. QED
  BY <1>1, <1>2

\* The two ways BuildKeystore goes: the keystore of b is kept, or one is made
\* of m under the password of b or a new one.
Reuses(m, b) ==
    b # NoSecret /\ b["sourceHash"] = m /\ \A f \in KeystoreField : b[f] # Absent

KeepsPassword(m, b) ==
    b # NoSecret /\ b["pw"] # Absent /\ b["crt"] = m.crt /\ b["key"] = m.key

LEMMA KeystoreCases ==
    ASSUME NEW m \in Payload, NEW b, NEW n
    PROVE  LET k  == BuildKeystore(m, b, n)
               pw == IF KeepsPassword(m, b) THEN b["pw"] ELSE n
           IN  /\ Reuses(m, b) => k.jks = b["jks"] /\ k.p12 = b["p12"] /\ k.pw = b["pw"]
               /\ ~Reuses(m, b) /\ ~HasKeystore(m) /\ Usable(m) =>
                      k.jks = Absent /\ k.p12 = Absent /\ k.pw = Absent
               /\ ~Reuses(m, b) /\ HasKeystore(m) =>
                      k.jks = Store(m, pw, n) /\ k.p12 = Store(m, pw, n) /\ k.pw = pw
<1>1. Reuses(m, b) => BuildKeystore(m, b, n) =
         [jks |-> b["jks"], p12 |-> b["p12"], pw |-> b["pw"], outcome |-> "built"]
  BY DEF Reuses, BuildKeystore, SourceHash
<1>2. ~Reuses(m, b) => BuildKeystore(m, b, n) = Build(m, b, n)
  BY DEF Reuses, BuildKeystore, SourceHash
<1>3. ReuseOrGeneratePassword(m, b, n) = IF KeepsPassword(m, b) THEN b["pw"] ELSE n
  BY DEF ReuseOrGeneratePassword, KeepsPassword
<1>4. ~HasKeystore(m) /\ Usable(m) => Build(m, b, n) \in {Skipped, Failed}
  BY DEF Build, HasKeystore, Usable
<1>5. HasKeystore(m) => LET pw == ReuseOrGeneratePassword(m, b, n) IN
         Build(m, b, n) = [jks |-> Store(m, pw, n), p12 |-> Store(m, pw, n), pw |-> pw,
                           outcome |-> "built"]
  BY TLSSecretAssumption DEF Build, HasKeystore, Usable
<1>6. QED
  BY <1>1, <1>2, <1>3, <1>4, <1>5 DEF Skipped, Failed

(* What BuildSecret makes of a remnant, if it verifies, is fit to be        *)
(* stamped; of a whole copy it makes a whole Secret.                        *)
LEMMA MadeIsStamped ==
    ASSUME NEW m \in Payload, NEW b, NEW s, Remnant(b), MadeFrom(s, m, b),
           IsSecret(s), VerifySecretData(s)
    PROVE  Stamped(s) /\ (Whole(b) => AsMade(s)) /\ s["sourceHash"] = m
<1>1. PICK n \in Nonce, t \in 0..MaxTime : s = Template(m, BuildKeystore(m, b, n), t)
  BY DEF MadeFrom
<1> DEFINE k  == BuildKeystore(m, b, n)
           pw == IF KeepsPassword(m, b) THEN b["pw"] ELSE n
<1>2. /\ s["crt"] = m.crt /\ s["key"] = m.key /\ s["ca"] = CaBundle(m)
      /\ s["jks"] = k.jks /\ s["p12"] = k.p12 /\ s["pw"] = k.pw
      /\ s["sourceHash"] = m
      /\ Intact(s)
  BY <1>1, TemplateFields
<1>3. /\ Reuses(m, b) => k.jks = b["jks"] /\ k.p12 = b["p12"] /\ k.pw = b["pw"]
      /\ ~Reuses(m, b) /\ ~HasKeystore(m) /\ Usable(m) =>
             k.jks = Absent /\ k.p12 = Absent /\ k.pw = Absent
      /\ ~Reuses(m, b) /\ HasKeystore(m) =>
             k.jks = Store(m, pw, n) /\ k.p12 = Store(m, pw, n) /\ k.pw = pw
  BY KeystoreCases
<1> HIDE DEF k, pw
<1>4. s # NoSecret /\ Intact(s) /\ s["secretHash"] \notin {Absent, Junk}
  BY <1>2, SecretIsThere DEF Intact
<1>5. /\ Usable(m)
      /\ s["jks"] # Absent => s["jks"] # Junk /\ s["jks"].pw = s["pw"]
  BY <1>2 DEF VerifySecretData, Opens, Usable
<1>6. Nonce \cap {Absent, Junk} = {} /\ m \notin {Absent, Junk} /\ Absent # Junk
  BY TLSSecretAssumption
<1>7. CASE Reuses(m, b)
  <2>1. PICK o : Stamped(o) /\ Worn(b, o)
    BY <1>7 DEF Reuses, Remnant
  <2>2. o["sourceHash"] = m
    BY <1>6, <1>7, <2>1, KeptFacts DEF Reuses, Worn
  <2>3. /\ s["jks"] = b["jks"] /\ s["p12"] = b["p12"] /\ s["pw"] = b["pw"]
        /\ b["jks"] # Absent /\ b["p12"] # Absent /\ b["pw"] # Absent
        /\ b["jks"] \in {o["jks"], Junk}
        /\ b["p12"] \in {o["p12"], Junk}
        /\ b["pw"] \in {o["pw"], Junk}
    BY <1>2, <1>3, <1>7, <2>1, KeptFacts DEF Reuses, Worn
  <2>4. HasKeystore(m)
    BY <1>5, <2>1, <2>2, <2>3, KeptFacts DEF Stamped
  <2>5. /\ o["jks"] \in Keystore /\ o["p12"] \in {o["jks"], Junk}
        /\ o["jks"] = Store(m, o["pw"], o["jks"].salt)
        /\ o["pw"] \in Nonce \cup {Junk}
    BY <2>1, <2>2, <2>4 DEF Stamped
  <2>6. s["jks"] = o["jks"] /\ s["pw"] = o["jks"].pw
    BY <1>5, <2>3
  <2>7. o["jks"].pw = o["pw"]
    BY <2>5 DEF Store
  <2>8. Stamped(s)
    BY <1>2, <1>4, <1>5, <2>3, <2>4, <2>5, <2>6, <2>7 DEF Stamped
  <2>9. ASSUME Whole(b) PROVE AsMade(s)
    <3>1. b["p12"] = b["jks"] /\ b["pw"] \in Nonce
      BY <1>7, <2>4, <2>9 DEF Whole, AsMade, Reuses
    <3>2. QED
      BY <1>2, <1>4, <2>3, <2>8, <3>1, AsMadeIsStamped
  <2>10. QED
    BY <1>2, <2>8, <2>9
<1>8. CASE ~Reuses(m, b) /\ ~HasKeystore(m)
  <2>1. \A f \in KeystoreField : s[f] = Absent
    BY <1>2, <1>3, <1>5, <1>8, KeptFacts
  <2>2. Stamped(s)
    BY <1>2, <1>4, <1>5, <1>8, <2>1 DEF Stamped
  <2>3. QED
    BY <1>2, <1>4, <1>8, <2>2, AsMadeIsStamped
<1>9. CASE ~Reuses(m, b) /\ HasKeystore(m)
  <2>1. pw \in Nonce \cup {Junk} /\ (Whole(b) => pw \in Nonce)
    <3>1. CASE ~KeepsPassword(m, b)
      BY <3>1 DEF pw
    <3>2. CASE KeepsPassword(m, b)
      <4>1. PICK o : Stamped(o) /\ Worn(b, o)
        BY <3>2 DEF KeepsPassword, Remnant
      <4>2. o["pw"] \in Nonce \cup {Absent, Junk} /\ b["pw"] \in {o["pw"], Absent, Junk}
        BY <4>1, KeptFacts DEF Stamped, Worn
      <4>3. b["pw"] # Absent /\ pw = b["pw"]
        BY <3>2 DEF KeepsPassword, pw
      <4>4. Whole(b) => b["pw"] \in Nonce \cup {Absent}
        BY <3>2, KeptFacts DEF Whole, AsMade, KeepsPassword
      <4>5. QED
        BY <4>2, <4>3, <4>4
    <3>3. QED
      BY <3>1, <3>2
  <2>2. /\ s["jks"] = Store(m, pw, n) /\ s["p12"] = s["jks"] /\ s["pw"] = pw
    BY <1>2, <1>3, <1>9
  <2>3. Store(m, pw, n) \in Keystore
    BY <2>1 DEF Store, Keystore
  <2>4. Store(m, pw, n).salt = n
    BY DEF Store
  <2>5. Stamped(s)
    BY <1>2, <1>4, <1>5, <1>9, <2>1, <2>2, <2>3, <2>4 DEF Stamped
  <2>6. QED
    BY <1>2, <1>4, <2>1, <2>2, <2>5, AsMadeIsStamped
<1>10. QED
  BY <1>7, <1>8, <1>9

----------------------------------------------------------------------------
(* The patch of a write: computed from orig to new, it arrives at live. *)

(* Every field comes to be the new one's, or it was to stay as it was and   *)
(* has been spoilt since.                                                   *)
LEMMA PatchedFields ==
    ASSUME NEW live0, NEW orig, NEW new, Worn(live0, orig)
    PROVE  LET r == MergePatch(live0, orig, new)
           IN  \A f \in KeptField :
                   \/ r[f] = new[f]
                   \/ r[f] = live0[f] /\ r[f] \in {Absent, Junk} /\ new[f] = orig[f]
<1>1. \A f \in KeptField : MergePatch(live0, orig, new)[f]
                               = IF new[f] # orig[f] THEN new[f] ELSE live0[f]
  BY FieldFacts DEF MergePatch, KeptField
<1>2. QED
  BY <1>1 DEF Worn

(* What a write leaves whole is what it was to write ...                    *)
LEMMA WholeIsWritten ==
    ASSUME NEW live0, NEW orig, NEW new, Worn(live0, orig), Stamped(new),
           AsMade(MergePatch(live0, orig, new)), new # NoSecret
    PROVE  Copy(MergePatch(live0, orig, new), new) /\ AsMade(new)
<1> DEFINE r == MergePatch(live0, orig, new)
<1>1. \A f \in KeptField : r[f] \in {new[f], Absent, Junk}
  BY PatchedFields
<1>2. AsMade(r)
  OBVIOUS
<1> HIDE DEF r
<1>3. Payload \cap {Absent, Junk} = {} /\ Absent # Junk /\ Nonce \cap {Absent, Junk} = {}
  BY TLSSecretAssumption
<1>4. r["sourceHash"] = new["sourceHash"] /\ r["secretHash"] = new["secretHash"]
  BY <1>1, <1>2, <1>3, KeptFacts DEF AsMade
<1>5. r["crt"] = new["crt"] /\ r["key"] = new["key"] /\ r["ca"] = new["ca"]
  BY <1>2, <1>4 DEF AsMade, Stamped
<1>6. \A f \in KeystoreField : r[f] = new[f]
  <2>1. CASE HasKeystore(new["sourceHash"])
    <3>1. r["jks"] \in Keystore /\ r["p12"] = r["jks"] /\ r["pw"] \in Nonce
      BY <1>2, <1>4, <2>1 DEF AsMade
    <3>2. QED
      BY <1>1, <1>3, <3>1, KeptFacts, ValueAssumption
  <2>2. CASE ~HasKeystore(new["sourceHash"])
    BY <1>2, <1>4, <2>2 DEF AsMade, Stamped
  <2>3. QED
    BY <2>1, <2>2
<1>7. Copy(r, new)
  BY <1>4, <1>5, <1>6, KeptFacts DEF Copy
<1>8. r # NoSecret
  BY <1>2 DEF AsMade
<1>9. AsMade(new)
  BY <1>2, <1>7, <1>8, CopyIsAlike
<1>10. QED
  BY <1>7, <1>9 DEF r

\* The copies that one write is made of, from the first to the last: a Secret
\* as stamped, what the keystore was reused from, what the patch is computed
\* against, and what it arrives at.
Chain(base, orig, live0) ==
    /\ orig # NoSecret /\ live0 # NoSecret
    /\ Remnant(base) /\ Shadow(orig, base) /\ Shadow(live0, orig)

LEMMA ChainFacts ==
    ASSUME NEW base, NEW orig, NEW live0, Chain(base, orig, live0)
    PROVE  /\ base # NoSecret
           /\ Worn(orig, base) /\ Worn(live0, orig) /\ Worn(live0, base)
           /\ \E o : Stamped(o) /\ Worn(base, o)
BY WornTwice DEF Chain, Shadow, Remnant

(* ... a whole Secret is written over by a whole one, whatever was spoilt   *)
(* between the reads ...                                                    *)
LEMMA WholeStaysWhole ==
    ASSUME NEW m \in Payload, NEW base, NEW orig, NEW live0, NEW new,
           Chain(base, orig, live0), MadeFrom(new, m, base),
           IsSecret(new), VerifySecretData(new), AsMade(live0)
    PROVE  AsMade(new) /\ Copy(MergePatch(live0, orig, new), new)
<1> DEFINE r == MergePatch(live0, orig, new)
<1> DEFINE q == live0["sourceHash"]
<1>1. /\ base # NoSecret
      /\ Worn(orig, base) /\ Worn(live0, orig) /\ Worn(live0, base)
  BY ChainFacts
<1>2. PICK o : Stamped(o) /\ Worn(base, o)
  BY ChainFacts
<1>3. /\ Payload \cap {Absent, Junk} = {} /\ Absent # Junk /\ Nonce \cap {Absent, Junk} = {}
      /\ PKCS8Key \cap {Absent, Junk} = {}
      /\ \A x \in Payload : x.crt # Absent /\ CaBundle(x) # Junk
  BY TLSSecretAssumption DEF CaBundle
<1>4. /\ Stamped(new) /\ new["sourceHash"] = m /\ new # NoSecret
  BY <1>1, MadeIsStamped, SecretIsThere DEF Chain
<1>5. /\ q \in Payload /\ Usable(q) /\ q = orig["sourceHash"]
      /\ q = base["sourceHash"] /\ q = o["sourceHash"]
      /\ live0["crt"] = q.crt /\ live0["key"] = q.key /\ live0["ca"] = CaBundle(q)
      /\ live0["secretHash"] \notin {Absent, Junk}
      /\ o["crt"] = q.crt /\ o["key"] = q.key /\ o["ca"] = CaBundle(q)
  <2>1. /\ q \in Payload /\ Usable(q) /\ live0["secretHash"] \notin {Absent, Junk}
        /\ live0["crt"] = q.crt /\ live0["key"] = q.key /\ live0["ca"] = CaBundle(q)
    BY DEF AsMade
  <2>2. q = orig["sourceHash"] /\ q = base["sourceHash"] /\ q = o["sourceHash"]
    BY <1>1, <1>2, <1>3, <2>1, KeptFacts DEF Worn
  <2>3. QED
    BY <1>2, <2>1, <2>2 DEF Stamped
<1>6. HasKeystore(q) => /\ live0["jks"] \in Keystore /\ live0["p12"] = live0["jks"]
                        /\ live0["pw"] \in Nonce
                        /\ base["p12"] \notin {Absent, Junk} /\ base["pw"] \in Nonce
  <2>1. HasKeystore(q) => /\ live0["jks"] \in Keystore /\ live0["p12"] = live0["jks"]
                          /\ live0["pw"] \in Nonce
    BY DEF AsMade
  <2>2. QED
    BY <1>1, <1>3, <2>1, KeptFacts, ValueAssumption DEF Worn
<1>7. ~HasKeystore(q) => \A f \in KeystoreField : live0[f] = Absent /\ o[f] = Absent
  BY <1>2, <1>5 DEF AsMade, Stamped
<1> HIDE DEF q
<1>8. AsMade(new)
  <2> SUFFICES ASSUME HasKeystore(m)
               PROVE  new["p12"] = new["jks"] /\ new["pw"] \in Nonce
    BY <1>4, AsMadeIsStamped
  <2>1. /\ new["jks"] \in Keystore /\ new["p12"] \in {new["jks"], Junk}
        /\ new["pw"] \in Nonce \cup {Junk}
    BY <1>4 DEF Stamped
  <2>2. PICK n \in Nonce, t \in 0..MaxTime : new = Template(m, BuildKeystore(m, base, n), t)
    BY DEF MadeFrom
  <2> DEFINE k == BuildKeystore(m, base, n)
  <2>3. new["jks"] = k.jks /\ new["p12"] = k.p12 /\ new["pw"] = k.pw
    BY <2>2, TemplateFields
  <2>4. CASE Reuses(m, base)
    <3>1. new["p12"] = base["p12"] /\ new["pw"] = base["pw"]
      BY <2>3, <2>4, KeystoreCases
    <3>2. HasKeystore(q)
      BY <1>5, <2>4 DEF Reuses
    <3>3. QED
      BY <1>3, <1>6, <2>1, <3>1, <3>2
  <2>5. CASE ~Reuses(m, base)
    <3>1. /\ new["p12"] = new["jks"]
          /\ new["pw"] = IF KeepsPassword(m, base) THEN base["pw"] ELSE n
      BY <2>3, <2>5, KeystoreCases
    <3>2. CASE KeepsPassword(m, base)
      <4>1. base["crt"] = m.crt /\ base["key"] = m.key /\ Usable(m)
            /\ m.key \in PKCS8Key /\ m.crt # Absent
        BY <1>3, <3>2 DEF KeepsPassword, HasKeystore
      <4>2. q.crt = m.crt /\ q.key = m.key
        BY <1>2, <1>3, <1>5, <4>1, KeptFacts DEF Worn, Usable
      <4>3. HasKeystore(q)
        BY <1>5, <4>1, <4>2 DEF HasKeystore
      <4>4. QED
        BY <1>6, <3>1, <3>2, <4>3
    <3>3. QED
      BY <3>1, <3>2
  <2>6. QED
    BY <2>4, <2>5
<1>9. ASSUME NEW f \in KeptField, r[f] # new[f]
      PROVE  FALSE
  <2>1. r[f] = live0[f] /\ live0[f] \in {Absent, Junk} /\ new[f] = orig[f]
    BY <1>1, <1>9, PatchedFields
  <2> HIDE DEF r
  <2>2. orig[f] \in {o[f], Absent, Junk}
    BY <1>1, <1>2 DEF Worn
  <2>3. /\ new["key"] = m.key /\ new["ca"] = CaBundle(m) /\ Usable(m)
    BY <1>4 DEF Stamped
  <2>4. CASE f \in {"sourceHash", "secretHash", "crt"}
    BY <1>3, <1>5, <2>1, <2>4 DEF Usable, q
  <2>5. CASE f = "key"
    BY <1>3, <1>5, <1>9, <2>1, <2>2, <2>3, <2>5 DEF Usable
  <2>6. CASE f = "ca"
    BY <1>3, <1>5, <1>9, <2>1, <2>2, <2>3, <2>6
  <2>7. CASE f \in KeystoreField
    <3>1. ~HasKeystore(q)
      BY <1>3, <1>6, <2>1, <2>7, KeptFacts, ValueAssumption
    <3>2. live0[f] = Absent /\ orig[f] \in {Absent, Junk}
      BY <1>7, <2>2, <2>7, <3>1
    <3>3. new[f] \notin {Absent, Junk} \/ new[f] = Absent
      BY <1>3, <1>8, <2>7, KeptFacts, ValueAssumption DEF AsMade
    <3>4. QED
      BY <1>9, <2>1, <3>2, <3>3
  <2>8. QED
    BY <2>4, <2>5, <2>6, <2>7, KeptFacts
<1>10. QED
  BY <1>8, <1>9 DEF Copy

(* ... and over an intact Secret it keeps the keystore of the same payload, *)
(* makes a new one for another, and keeps the password with certificate and *)
(* key.                                                                     *)
LEMMA KeystoreTies ==
    ASSUME NEW m \in Payload, NEW base, NEW live0, NEW new, NEW o,
           base # NoSecret, Stamped(o), Worn(base, o), Worn(live0, base),
           Intact(live0), live0["secretHash"] \notin {Absent, Junk},
           Junk \notin {live0["p12"], live0["pw"]},
           MadeFrom(new, m, base), Stamped(new), new["sourceHash"] = m
    PROVE  /\ base["sourceHash"] = m => \A f \in KeystoreField : new[f] = live0[f]
           /\ base["sourceHash"] # m /\ new["jks"] # Absent /\ live0["jks"] # Absent =>
                  new["jks"].salt # live0["jks"].salt
           /\ (/\ live0["pw"] # Absent
               /\ new["crt"] = live0["crt"] /\ new["key"] = live0["key"]) =>
                  new["pw"] = live0["pw"]
<1> DEFINE q == o["sourceHash"]
<1>1. /\ Payload \cap {Absent, Junk} = {} /\ Absent # Junk /\ Nonce \cap {Absent, Junk} = {}
      /\ PKCS8Key \cap {Absent, Junk} = {}
      /\ \A x \in Payload : x.crt # Absent
      /\ {Absent, Junk} \cap Keystore = {}
  BY TLSSecretAssumption, ValueAssumption
<1>2. \A f \in DataField : live0[f] = o[f]
  <2>1. live0["secretHash"] = o["secretHash"]
    BY KeptFacts DEF Worn
  <2>2. HashSecretData(live0) = HashSecretData(o)
    BY <2>1 DEF Intact, Stamped
  <2>3. \A f \in DataField : HashSecretData(live0)[f] = HashSecretData(o)[f]
    BY <2>2
  <2>4. QED
    BY <2>3 DEF HashSecretData
<1>3. /\ q \in Payload /\ Usable(q)
      /\ o["crt"] = q.crt /\ o["key"] = q.key
      /\ base["sourceHash"] \in {q, Absent, Junk}
  BY KeptFacts DEF Stamped, Worn
<1>4. \A f \in DataField : base[f] \in {o[f], Absent, Junk} /\ live0[f] \in {base[f], Absent, Junk}
  BY DEF Worn, KeptField
<1>5. HasKeystore(q) =>
         /\ o["jks"] \in Keystore /\ o["p12"] = o["jks"] /\ o["pw"] \in Nonce
         /\ \A f \in KeystoreField : base[f] = o[f] /\ live0[f] = o[f] /\ base[f] # Absent
  <2>1. HasKeystore(q) => /\ o["jks"] \in Keystore /\ o["p12"] \in {o["jks"], Junk}
                          /\ o["pw"] \in Nonce \cup {Junk}
    BY DEF Stamped
  <2>2. HasKeystore(q) => /\ o["jks"] \in Keystore /\ o["p12"] = o["jks"] /\ o["pw"] \in Nonce
    BY <1>2, <2>1, FieldFacts
  <2>3. QED
    BY <1>1, <1>2, <1>4, <2>2, KeptFacts, FieldFacts
<1>6. ~HasKeystore(q) => \A f \in KeystoreField : o[f] = Absent /\ live0[f] = Absent
  BY <1>2, KeptFacts, FieldFacts DEF Stamped
<1> HIDE DEF q
<1>7. PICK n \in Nonce, t \in 0..MaxTime :
         n \notin NoncesOf(base) /\ new = Template(m, BuildKeystore(m, base, n), t)
  BY DEF MadeFrom
<1> DEFINE k == BuildKeystore(m, base, n)
<1>8. /\ new["crt"] = m.crt /\ new["key"] = m.key
      /\ new["jks"] = k.jks /\ new["p12"] = k.p12 /\ new["pw"] = k.pw
  BY <1>7, TemplateFields
<1>9. /\ Reuses(m, base) => \A f \in KeystoreField : new[f] = base[f]
      /\ ~Reuses(m, base) /\ HasKeystore(m) =>
             /\ new["jks"].salt = n
             /\ new["pw"] = IF KeepsPassword(m, base) THEN base["pw"] ELSE n
  <2> DEFINE pw == IF KeepsPassword(m, base) THEN base["pw"] ELSE n
  <2>1. /\ Reuses(m, base) =>
               k.jks = base["jks"] /\ k.p12 = base["p12"] /\ k.pw = base["pw"]
        /\ ~Reuses(m, base) /\ HasKeystore(m) => k.jks = Store(m, pw, n) /\ k.pw = pw
    BY KeystoreCases
  <2>2. Store(m, pw, n).salt = n
    BY DEF Store
  <2> HIDE DEF k, pw
  <2>3. QED
    BY <1>8, <2>1, <2>2, KeptFacts DEF pw
<1>10. ~HasKeystore(m) => \A f \in KeystoreField : new[f] = Absent
  BY DEF Stamped
<1>11. ASSUME base["sourceHash"] = m, NEW f \in KeystoreField
       PROVE  new[f] = live0[f]
  <2>1. q = m
    BY <1>1, <1>3, <1>11
  <2>2. CASE HasKeystore(m)
    <3>1. Reuses(m, base)
      BY <1>5, <1>11, <2>1, <2>2 DEF Reuses
    <3>2. QED
      BY <1>5, <1>9, <2>1, <2>2, <3>1
  <2>3. CASE ~HasKeystore(m)
    BY <1>6, <1>10, <2>1, <2>3
  <2>4. QED
    BY <2>2, <2>3
<1>12. ASSUME base["sourceHash"] # m, new["jks"] # Absent, live0["jks"] # Absent
       PROVE  new["jks"].salt # live0["jks"].salt
  <2>1. HasKeystore(m) /\ HasKeystore(q)
    BY <1>6, <1>10, <1>12, KeptFacts
  <2>2. new["jks"].salt = n
    BY <1>9, <1>12, <2>1 DEF Reuses
  <2>3. base["jks"] \notin {Absent, Junk} /\ live0["jks"] = base["jks"]
    BY <1>1, <1>5, <2>1, KeptFacts
  <2>4. base["jks"].salt \in NoncesOf(base)
    BY <2>3 DEF NoncesOf
  <2>5. QED
    BY <1>7, <2>2, <2>3, <2>4
<1>13. ASSUME live0["pw"] # Absent, new["crt"] = live0["crt"], new["key"] = live0["key"]
       PROVE  new["pw"] = live0["pw"]
  <2>1. HasKeystore(q)
    BY <1>6, <1>13, KeptFacts
  <2>2. q.crt = m.crt /\ q.key = m.key
    BY <1>2, <1>3, <1>8, <1>13, FieldFacts
  <2>3. HasKeystore(m) /\ m.crt \notin {Absent, Junk} /\ m.key \notin {Absent, Junk}
    BY <1>1, <2>1, <2>2 DEF HasKeystore, Usable
  <2>4. base["crt"] = m.crt /\ base["key"] = m.key
    <3>1. live0["crt"] = m.crt /\ live0["key"] = m.key
      BY <1>8, <1>13
    <3>2. QED
      BY <1>4, <2>3, <3>1, FieldFacts
  <2>5. KeepsPassword(m, base)
    BY <1>5, <2>1, <2>4, KeptFacts DEF KeepsPassword
  <2>6. new["pw"] = base["pw"]
    BY <1>9, <2>3, <2>5, KeptFacts
  <2>7. QED
    BY <1>5, <2>1, <2>6, KeptFacts
<1>14. QED
  BY <1>11, <1>12, <1>13

----------------------------------------------------------------------------
(* The invariant. *)

\* The copy that the keystore of want was reused from, or might have been.
Basis(w, b) ==
    /\ Remnant(b) /\ Shadow(live, b)
    /\ MadeFrom(want[w], mat[w], b)
    /\ stage[w] = "write" => Shadow(patch[w].orig, b)
    /\ budget["edits"] = MaxEdits => Whole(b)

PendingWrite(w) == patch[w].new = want[w] /\ Shadow(live, patch[w].orig)
PendingMark(w) == patch[w].orig # NoSecret /\ Copy(patch[w].new, patch[w].orig)

WorkerOK(w) ==
    /\ stage[w] \in {"idle", "build"} => patch[w] = NoPatch
    /\ Idle(w) => mat[w] = Absent
    /\ stage[w] \in {"soft", "write"} => mat[w] \in Payload /\ \E b : Basis(w, b)
    /\ patch[w] # NoPatch =>
           IF stage[w] = "write" THEN PendingWrite(w) ELSE PendingMark(w)

SecretOK ==
    /\ cached = live
    /\ Remnant(live)
    /\ budget["edits"] <= MaxEdits
    /\ budget["edits"] = MaxEdits => Whole(live)

WholeInv == IInv /\ SecretOK /\ \A w \in Worker : WorkerOK(w)

LEMMA OwnCopy == ASSUME NEW s PROVE Shadow(s, s)
BY DEF Shadow, Worn

LEMMA CopyIsShadow ==
    ASSUME NEW r, NEW s, s # NoSecret, Copy(r, s)
    PROVE  Shadow(r, s) /\ (Remnant(s) => Remnant(r))
BY DEF Shadow, Worn, Copy, Remnant

LEMMA ShadowIsRemnant ==
    ASSUME NEW r, NEW s, Shadow(r, s), Remnant(s)
    PROVE  Remnant(r)
BY WornTwice DEF Shadow, Remnant

LEMMA FaultKeepsEdits ==
    ASSUME TypeOK, NoFault \/ Fault
    PROVE  budget'["edits"] = budget["edits"]
BY DEF TypeOK, NoFault, Fault, Spend

\* A step that leaves the Secret and its copy alone.
LEMMA SecretKept ==
    ASSUME SecretOK, live' = live, cached' = cached, budget'["edits"] = budget["edits"]
    PROVE  SecretOK'
BY DEF SecretOK

\* A step on the Secret that leaves w where it is.
LEMMA BasisKept ==
    ASSUME NEW w \in Worker, NEW b, Basis(w, b), Shadow(live', live),
           want'[w] = want[w], mat'[w] = mat[w],
           stage'[w] = "write" => Shadow(patch'[w].orig, b),
           budget'["edits"] = MaxEdits => budget["edits"] = MaxEdits
    PROVE  Basis(w, b)'
BY ShadowTwice DEF Basis

(* What ends a step of a reconcile with no request of its own pending.     *)
LEMMA ReturnWhole ==
    ASSUME IInv, NEW w \in Worker, Return(w), patch'[w] = NoPatch
    PROVE  WorkerOK(w)' /\ mat' = [mat EXCEPT ![w] = Absent]
BY DEF Return, Goto, WorkerOK, Idle, IInv, TypeOK

LEMMA FailWhole ==
    ASSUME IInv, NEW w \in Worker, NEW r, Fail(w, r), patch'[w] = NoPatch
    PROVE  WorkerOK(w)'
BY DEF Fail, Goto, WorkerOK, Idle, IInv, TypeOK

LEMMA AnsweredWhole ==
    ASSUME IInv, NEW w \in Worker, NEW b, Basis(w, b), mat[w] \in Payload,
           stage[w] \in {"soft", "write"}, mat' = mat, want' = want,
           Verified(w, want[w]), patch'[w] = NoPatch, Shadow(live', live),
           budget'["edits"] = MaxEdits => budget["edits"] = MaxEdits
    PROVE  WorkerOK(w)'
<1>1. CASE VerifySecretData(want[w])
  <2>1. stage'[w] = "write"
    BY <1>1 DEF Verified, Goto, IInv, TypeOK
  <2>2. Basis(w, b)'
    <3>1. Shadow(patch'[w].orig, b)
      BY DEF NoPatch, Shadow
    <3>2. QED
      BY <3>1, BasisKept
  <2>3. QED
    BY <2>1, <2>2 DEF WorkerOK, Idle
<1>2. CASE ~VerifySecretData(want[w])
  BY <1>2, FailWhole DEF Verified
<1>3. QED
  BY <1>1, <1>2

LEMMA AfterMarkWhole ==
    ASSUME IInv, NEW w \in Worker, WorkerOK(w), AfterMark(w), patch'[w] = NoPatch,
           Shadow(live', live),
           budget'["edits"] = MaxEdits => budget["edits"] = MaxEdits
    PROVE  WorkerOK(w)' /\ mat' \in {mat, [mat EXCEPT ![w] = Absent]}
<1>1. CASE stage[w] = "soft"
  <2>1. PICK b : Basis(w, b)
    BY <1>1 DEF WorkerOK
  <2>2. QED
    BY <1>1, <2>1, AnsweredWhole DEF AfterMark, WorkerOK
<1>2. CASE stage[w] # "soft"
  BY <1>2, ReturnWhole DEF AfterMark
<1>3. QED
  BY <1>1, <1>2

----------------------------------------------------------------------------
(* One step per action, for the only worker w. *)

LEMMA FetchWhole ==
    ASSUME WholeInv, NEW w \in Worker, Fetch(w)
    PROVE  SecretOK' /\ WorkerOK(w)'
<1> USE DEF WholeInv
<1>1. SecretOK'
  BY SecretKept, FaultKeepsEdits DEF Fetch, NotWritten, IInv
<1>2. patch'[w] = NoPatch
  BY DEF Fetch, WorkerOK, Idle
<1>3. CASE Goto(w, "build")
  BY <1>1, <1>2, <1>3 DEF Goto, WorkerOK, Idle, IInv, TypeOK
<1>4. CASE Fail(w, "SourceMissing")
  BY <1>1, <1>2, <1>4, FailWhole
<1>5. QED
  BY <1>3, <1>4 DEF Fetch

LEMMA BuildSecretWhole ==
    ASSUME WholeInv, NEW w \in Worker, BuildSecret(w)
    PROVE  SecretOK' /\ WorkerOK(w)'
<1> USE DEF WholeInv
<1>1. budget'["edits"] = budget["edits"] /\ live' = live /\ cached' = cached
  BY FaultKeepsEdits DEF BuildSecret, NotWritten, IInv
<1>2. SecretOK'
  BY <1>1, SecretKept
<1>3. patch'[w] = NoPatch /\ mat' = mat /\ mat[w] \in Payload
  BY DEF BuildSecret, WorkerOK, IInv, StageOK
<1>4. CASE Fail(w, "SecretReadFailed")
  BY <1>2, <1>3, <1>4, FailWhole
<1>5. ASSUME NEW n \in Nonce, FreshNonce(n),
             want' = [want EXCEPT ![w] = Template(mat[w], BuildKeystore(mat[w], cached, n), now)],
             \/ Verified(w, Template(mat[w], BuildKeystore(mat[w], cached, n), now))
             \/ Goto(w, "soft")
      PROVE  WorkerOK(w)'
  <2>1. live # NoSecret => n \notin NoncesOf(live)
    <3>1. live # NoSecret => live \in Held
      BY DEF Held
    <3>2. QED
      BY <1>5, <3>1 DEF FreshNonce
  <2>2. now \in 0..MaxTime /\ DOMAIN want = Worker
    BY DEF IInv, TypeOK
  <2>3. MadeFrom(want'[w], mat'[w], live)
    BY <1>3, <1>5, <2>1, <2>2 DEF MadeFrom, SecretOK
  <2>4. Basis(w, live)'
    <3>1. Shadow(live, live) /\ Shadow(patch'[w].orig, live)
      BY <1>3, OwnCopy DEF NoPatch, Shadow
    <3>2. QED
      BY <1>1, <1>2, <2>3, <3>1 DEF Basis, SecretOK
  <2>5. CASE stage'[w] \in {"soft", "write"}
    <3>1. \E b : Basis(w, b)'
      BY <2>4
    <3>2. QED
      BY <1>3, <2>5, <3>1 DEF WorkerOK, Idle
  <2>6. CASE stage'[w] \notin {"soft", "write"}
    <3>1. Fail(w, "SecretVerifyFailed")
      BY <1>5, <2>6 DEF Verified, Goto, IInv, TypeOK
    <3>2. QED
      BY <1>3, <3>1, FailWhole
  <2>7. QED
    BY <2>5, <2>6
<1>6. QED
  <2>1. \A n \in Nonce : BuildKeystore(mat[w], cached, n).outcome
                             \in {"built", "skipped", "failed"}
    BY <1>3, BuildKeystoreType DEF IInv, TypeOK
  <2>2. QED
    BY <1>2, <1>4, <1>5, <2>1 DEF BuildSecret

\* A request for the drift marker.
LEMMA MarkerIsPending ==
    ASSUME WholeInv, NEW w \in Worker, NEW r, cached # NoSecret, stage[w] \in {"soft", "mark", "clear"},
           patch' = [patch EXCEPT ![w] =
               [orig |-> cached, new |-> [cached EXCEPT !["drift"] = r]]],
           UNCHANGED <<stage, mat, want, live>>, budget'["edits"] = budget["edits"]
    PROVE  WorkerOK(w)'
<1> USE DEF WholeInv
<1>1. Copy([cached EXCEPT !["drift"] = r], cached)
  BY FieldFacts, KeptFacts DEF IInv, TypeOK, MaybeSecret, IsSecret, Copy
<1>2. PendingMark(w)'
  BY <1>1 DEF PendingMark, IInv, TypeOK
<1>3. ASSUME NEW b, Basis(w, b), stage[w] = "soft"
      PROVE  Basis(w, b)'
  BY <1>3, OwnCopy, BasisKept
<1>4. QED
  BY <1>2, <1>3 DEF WorkerOK, Idle

LEMMA MarkReadWhole ==
    ASSUME WholeInv, NEW w \in Worker, MarkRead(w)
    PROVE  /\ SecretOK' /\ WorkerOK(w)'
           /\ mat' \in {mat, [mat EXCEPT ![w] = Absent]}
<1> USE DEF WholeInv
<1>1. budget'["edits"] = budget["edits"] /\ live' = live /\ cached' = cached
  BY FaultKeepsEdits DEF MarkRead, NotWritten, IInv
<1>2. SecretOK'
  BY <1>1, SecretKept
<1>3. CASE AfterMark(w) /\ UNCHANGED patch
  BY <1>1, <1>2, <1>3, OwnCopy, AfterMarkWhole DEF MarkRead
<1>4. CASE /\ cached # NoSecret
           /\ patch' = [patch EXCEPT ![w] =
                 [orig |-> cached, new |-> [cached EXCEPT !["drift"] = reason[w]]]]
           /\ UNCHANGED <<stage, mat, want, reason>>
  BY <1>1, <1>2, <1>4, MarkerIsPending DEF MarkRead
<1>5. QED
  BY <1>3, <1>4 DEF MarkRead

LEMMA WriteReadWhole ==
    ASSUME WholeInv, NEW w \in Worker, WriteRead(w)
    PROVE  SecretOK' /\ WorkerOK(w)'
<1> USE DEF WholeInv
<1>1. budget'["edits"] = budget["edits"] /\ live' = live /\ cached' = cached
  BY FaultKeepsEdits DEF WriteRead, NotWritten, IInv
<1>2. SecretOK'
  BY <1>1, SecretKept
<1>3. CASE /\ patch' = [patch EXCEPT ![w] = [orig |-> cached, new |-> want[w]]]
           /\ UNCHANGED <<stage, reason>>
  <2>1. PICK b : Basis(w, b)
    BY DEF WriteRead, WorkerOK
  <2>2. Basis(w, b)'
    <3>1. Shadow(live', live) /\ patch'[w].orig = live
      BY <1>1, <1>3, OwnCopy DEF SecretOK, IInv, TypeOK
    <3>2. Shadow(patch'[w].orig, b)
      BY <2>1, <3>1 DEF Basis
    <3>3. QED
      BY <1>1, <2>1, <3>1, <3>2, BasisKept DEF WriteRead
  <2>3. PendingWrite(w)'
    BY <1>1, <1>3, OwnCopy DEF PendingWrite, SecretOK, IInv, TypeOK, WriteRead
  <2>4. QED
    BY <1>2, <1>3, <2>2, <2>3 DEF WriteRead, WorkerOK, Idle
<1>4. CASE Goto(w, "clear") /\ UNCHANGED <<patch, reason>>
  BY <1>2, <1>4 DEF WriteRead, Goto, WorkerOK, Idle, IInv, TypeOK
<1>5. CASE Fail(w, "SecretWriteFailed") /\ UNCHANGED patch
  BY <1>2, <1>5, FailWhole DEF WriteRead
<1>6. QED
  BY <1>3, <1>4, <1>5 DEF WriteRead

LEMMA ClearReadWhole ==
    ASSUME WholeInv, NEW w \in Worker, ClearRead(w)
    PROVE  /\ SecretOK' /\ WorkerOK(w)'
           /\ mat' \in {mat, [mat EXCEPT ![w] = Absent]}
<1> USE DEF WholeInv
<1>1. budget'["edits"] = budget["edits"] /\ live' = live /\ cached' = cached
  BY FaultKeepsEdits DEF ClearRead, NotWritten, IInv
<1>2. SecretOK'
  BY <1>1, SecretKept
<1>3. CASE Return(w) /\ UNCHANGED patch
  BY <1>2, <1>3, ReturnWhole DEF ClearRead
<1>4. CASE /\ cached # NoSecret
           /\ patch' = [patch EXCEPT ![w] =
                 [orig |-> cached, new |-> [cached EXCEPT !["drift"] = Absent]]]
           /\ UNCHANGED <<stage, mat, want, reason>>
  BY <1>1, <1>2, <1>4, MarkerIsPending DEF ClearRead
<1>5. CASE Fail(w, "SignCRFailed") /\ UNCHANGED <<mat, want, patch>>
  BY <1>2, <1>5, FailWhole DEF ClearRead
<1>6. QED
  BY <1>3, <1>4, <1>5 DEF ClearRead

\* What Send does to the Secret: nothing, a change of the drift marker alone,
\* or a write computed from a copy b and sent against another.
Marked(w) ==
    /\ stage[w] # "write"
    /\ live # NoSecret /\ live' # NoSecret /\ Copy(live', live)
    /\ Answered(w, TRUE) \/ Answered(w, FALSE)

Wrote(w) ==
    /\ stage[w] = "write" /\ mat' = mat
    /\ \E b :
          /\ Basis(w, b)
          /\ \/ live = NoSecret /\ live' = want[w]
             \/ /\ Chain(b, patch[w].orig, live)
                /\ live' = MergePatch(live, patch[w].orig, want[w])

LEMMA SendEffect ==
    ASSUME WholeInv, NEW w \in Worker, Send(w)
    PROVE  live' = live \/ Marked(w) \/ Wrote(w)
<1> USE DEF WholeInv
<1>1. CASE Accepted(w) /\ live' = Applied(w) /\ stage[w] # "write"
  <2>1. PendingMark(w)
    BY <1>1 DEF Send, WorkerOK
  <2>2. live # NoSecret /\ live' = MergePatch(live, patch[w].orig, patch[w].new)
    BY <1>1, <2>1 DEF PendingMark, Accepted, Creates, Applied
  <2>3. Copy(live', live)
    BY <2>1, <2>2, FieldFacts DEF PendingMark, Copy, MergePatch, KeptField
  <2>4. IsSecret(live')
    <3>1. IsSecret(live) /\ IsSecret(patch[w].new)
      BY <2>1, <2>2 DEF IInv, TypeOK, MaybeSecret, PatchOK, PendingMark
    <3>2. QED
      BY <2>2, <3>1, MergePatchType
  <2>5. QED
    BY <1>1, <2>2, <2>3, <2>4, SecretIsThere DEF Marked, Send
<1>2. CASE Accepted(w) /\ live' = Applied(w) /\ stage[w] = "write"
  <2>1. PICK b : Basis(w, b)
    BY <1>2 DEF WorkerOK
  <2>2. PendingWrite(w)
    BY <1>2 DEF Send, WorkerOK
  <2>3. mat' = mat
    BY <1>2 DEF Send, Answered, Fail
  <2>4. CASE Creates(w)
    BY <1>2, <2>1, <2>2, <2>3, <2>4 DEF Wrote, Accepted, Applied, Creates, PendingWrite
  <2>5. CASE ~Creates(w)
    <3>1. /\ live # NoSecret /\ patch[w].orig # NoSecret
          /\ live' = MergePatch(live, patch[w].orig, want[w])
      BY <1>2, <2>2, <2>5 DEF Accepted, Applied, Creates, PendingWrite
    <3>2. Chain(b, patch[w].orig, live)
      BY <1>2, <2>1, <2>2, <3>1 DEF Chain, Basis, PendingWrite
    <3>3. QED
      BY <1>2, <2>1, <2>3, <3>1, <3>2 DEF Wrote
  <2>6. QED
    BY <2>4, <2>5
<1>3. QED
  BY <1>1, <1>2 DEF Send, NotWritten

(* What a write leaves: the Secret that it was to write, but for what was  *)
(* spoilt since the reads.  It never spoils a whole one.                    *)
LEMMA WriteEffect ==
    ASSUME WholeInv, NEW w \in Worker, Wrote(w)
    PROVE  /\ live' # NoSecret
           /\ Stamped(want[w]) /\ want[w]["sourceHash"] = mat[w] /\ want[w] # NoSecret
           /\ Worn(live', want[w])
           /\ AsMade(live') => Copy(live', want[w]) /\ AsMade(want[w])
           /\ AsMade(live) => AsMade(live')
           /\ budget["edits"] = MaxEdits => AsMade(live')
<1> USE DEF WholeInv
<1>1. PICK b : /\ Basis(w, b)
               /\ \/ live = NoSecret /\ live' = want[w]
                  \/ /\ Chain(b, patch[w].orig, live)
                     /\ live' = MergePatch(live, patch[w].orig, want[w])
  BY DEF Wrote
<1>2. /\ stage[w] = "write" /\ mat[w] \in Payload
      /\ IsSecret(want[w]) /\ VerifySecretData(want[w])
      /\ MadeFrom(want[w], mat[w], b) /\ Remnant(b)
      /\ budget["edits"] = MaxEdits => Whole(b)
  BY <1>1 DEF Wrote, IInv, StageOK, Basis, WorkerOK
<1>3. /\ Stamped(want[w]) /\ want[w]["sourceHash"] = mat[w] /\ want[w] # NoSecret
      /\ Whole(b) => AsMade(want[w])
  BY <1>2, MadeIsStamped, SecretIsThere
<1>4. CASE live = NoSecret /\ live' = want[w]
  <2>1. Worn(live', want[w]) /\ Copy(live', want[w]) /\ ~AsMade(live)
    BY <1>4 DEF Worn, Copy, AsMade
  <2>2. QED
    BY <1>2, <1>3, <1>4, <2>1
<1>5. CASE /\ Chain(b, patch[w].orig, live)
           /\ live' = MergePatch(live, patch[w].orig, want[w])
  <2>1. live # NoSecret /\ Worn(live, patch[w].orig)
    BY <1>5, ChainFacts DEF Chain
  <2>2. IsSecret(live')
    BY <1>2, <1>5, <2>1, MergePatchType DEF IInv, TypeOK, MaybeSecret
  <2>3. live' # NoSecret
    BY <2>2, SecretIsThere
  <2>4. Worn(live', want[w])
    BY <1>5, <2>1, PatchedFields DEF Worn
  <2>5. AsMade(live') => Copy(live', want[w]) /\ AsMade(want[w])
    BY <1>3, <1>5, <2>1, WholeIsWritten
  <2>6. AsMade(live) => AsMade(live')
    <3> SUFFICES ASSUME AsMade(live) PROVE AsMade(live')
      OBVIOUS
    <3>1. AsMade(want[w]) /\ Copy(live', want[w])
      BY <1>2, <1>5, WholeStaysWhole
    <3>2. QED
      BY <1>3, <2>3, <3>1, CopyIsAlike
  <2>7. budget["edits"] = MaxEdits => AsMade(live')
    BY <2>1, <2>6 DEF SecretOK, Whole
  <2>8. QED
    BY <1>3, <2>3, <2>4, <2>5, <2>6, <2>7
<1>6. QED
  BY <1>1, <1>4, <1>5

LEMMA SendWhole ==
    ASSUME WholeInv, NEW w \in Worker, ~Lagging, Send(w)
    PROVE  /\ SecretOK' /\ WorkerOK(w)'
           /\ mat' \in {mat, [mat EXCEPT ![w] = Absent]}
<1> USE DEF WholeInv
<1>1. budget'["edits"] = budget["edits"] /\ patch'[w] = NoPatch
  BY FaultKeepsEdits DEF Send, IInv, TypeOK
<1>2. cached' = live'
  BY DEF Send, Written, NotWritten, SecretOK
<1>3. Remnant(live') /\ (budget["edits"] = MaxEdits => Whole(live'))
  <2>1. CASE live' = live
    BY <2>1 DEF SecretOK
  <2>2. CASE Marked(w)
    BY <2>2, CopyIsShadow, CopyIsAlike DEF Marked, SecretOK, Whole
  <2>3. CASE Wrote(w)
    BY <2>3, WriteEffect DEF Remnant, Whole
  <2>4. QED
    BY <2>1, <2>2, <2>3, SendEffect
<1>4. SecretOK'
  BY <1>1, <1>2, <1>3 DEF SecretOK, Whole, Remnant
<1>5. CASE stage[w] = "write"
  <2>1. (Goto(w, "clear") /\ UNCHANGED <<mat, want, reason>>)
        \/ (Fail(w, "SecretWriteFailed") /\ UNCHANGED <<mat, want>>)
    BY <1>5 DEF Send, Answered
  <2>2. CASE Goto(w, "clear") /\ UNCHANGED <<mat, want, reason>>
    BY <1>1, <1>4, <2>2 DEF Goto, WorkerOK, Idle, IInv, TypeOK
  <2>3. CASE Fail(w, "SecretWriteFailed") /\ UNCHANGED <<mat, want>>
    BY <1>1, <1>4, <2>3, FailWhole
  <2>4. QED
    BY <2>1, <2>2, <2>3
<1>6. CASE stage[w] = "clear"
  BY <1>1, <1>4, <1>6, ReturnWhole DEF Send, Answered
<1>7. CASE stage[w] \notin {"write", "clear"}
  <2>1. AfterMark(w)
    BY <1>7 DEF Send, Answered
  <2>2. Shadow(live', live)
    <3>1. ~Wrote(w)
      BY <1>7 DEF Wrote
    <3>2. QED
      BY <3>1, SendEffect, OwnCopy, CopyIsShadow DEF Marked
  <2>3. QED
    BY <1>1, <1>4, <2>1, <2>2, AfterMarkWhole
<1>8. QED
  BY <1>5, <1>6, <1>7

\* A step of the environment, which may spoil the Secret.
LEMMA EnvironmentWhole ==
    ASSUME WholeInv, NEW w \in Worker, UNCHANGED local, Shadow(live', live),
           budget'["edits"] = MaxEdits => budget["edits"] = MaxEdits
    PROVE  WorkerOK(w)'
<1> USE DEF WholeInv
<1>1. /\ stage' = stage /\ mat' = mat /\ want' = want /\ patch' = patch
  BY DEF local
<1>2. ASSUME NEW b, Basis(w, b) PROVE Basis(w, b)'
  BY <1>1, <1>2, BasisKept DEF Basis
<1>3. patch[w] # NoPatch => IF stage[w] = "write" THEN PendingWrite(w)' ELSE PendingMark(w)'
  BY <1>1, ShadowTwice DEF WorkerOK, PendingWrite, PendingMark
<1>4. QED
  BY <1>1, <1>2, <1>3 DEF WorkerOK, Idle

LEMMA EditWhole ==
    ASSUME WholeInv, NEW w \in Worker, ~Lagging, Edit
    PROVE  SecretOK' /\ WorkerOK(w)'
<1> USE DEF WholeInv
<1>1. budget'["edits"] = budget["edits"] - 1 /\ budget["edits"] \in Nat /\ MaxEdits \in Nat
  BY SecretMirrorAssumption DEF Edit, Spend, IInv, TypeOK
<1>2. Shadow(live', live)
  <2>1. live # NoSecret /\ (live # NoSecret => live = [f \in Field |-> live[f]])
    BY DEF Edit, IInv, TypeOK, MaybeSecret, IsSecret
  <2>2. ASSUME NEW f \in EditField, NEW v \in {Absent, Junk}, live' = [live EXCEPT ![f] = v]
        PROVE  Worn(live', live)
    BY <2>1, <2>2, FieldFacts, KeptFacts DEF Worn
  <2>3. QED
    BY <2>1, <2>2 DEF Edit, Shadow
<1>3. SecretOK'
  BY <1>1, <1>2, ShadowIsRemnant DEF Edit, Written, SecretOK
<1>4. QED
  BY <1>1, <1>2, <1>3, EnvironmentWhole DEF Edit, SecretOK

LEMMA OtherEnvironmentWhole ==
    ASSUME WholeInv, NEW w \in Worker, Deliver \/ Tick \/ Rotate \/ Crash
    PROVE  SecretOK' /\ WorkerOK(w)'
<1> USE DEF WholeInv
<1>1. /\ live' = live /\ cached' = cached /\ budget'["edits"] = budget["edits"]
  <2>1. CASE Deliver \/ Tick
    BY <2>1 DEF Deliver, Tick, SecretOK
  <2>2. CASE Rotate
    BY <2>2 DEF Rotate, Spend, IInv, TypeOK
  <2>3. CASE Crash
    BY <2>3, FaultKeepsEdits DEF Crash, SecretOK, IInv
  <2>4. QED
    BY <2>1, <2>2, <2>3
<1>2. SecretOK'
  BY <1>1, SecretKept
<1>3. CASE UNCHANGED local
  BY <1>1, <1>2, <1>3, OwnCopy, EnvironmentWhole
<1>4. CASE Crash
  BY <1>2, <1>4 DEF Crash, WorkerOK, Idle
<1>5. QED
  BY <1>3, <1>4 DEF Deliver, Tick, Rotate

----------------------------------------------------------------------------
(* Invariance. *)

LEMMA InitWhole == Init => WholeInv
<1> SUFFICES ASSUME Init PROVE WholeInv
  OBVIOUS
<1>1. MaxEdits \in Nat
  BY SecretMirrorAssumption
<1>2. SecretOK /\ \A w \in Worker : WorkerOK(w)
  BY <1>1 DEF Init, SecretOK, Remnant, Whole, WorkerOK, Idle
<1>3. QED
  BY <1>2, InitInv DEF WholeInv

LEMMA NextWhole ==
    ASSUME OneReader, WholeInv, [Next]_vars
    PROVE  WholeInv'
<1>1. PICK w \in Worker : Worker = {w} /\ ~Lagging
  BY DEF OneReader
<1>2. IInv'
  BY NextInv DEF WholeInv
<1>3. CASE Reconcile(w)
  <2>1. SecretOK' /\ WorkerOK(w)'
    BY <1>1, <1>3, FetchWhole, BuildSecretWhole, MarkReadWhole, WriteReadWhole,
       ClearReadWhole, SendWhole DEF Reconcile
  <2>2. QED
    BY <1>1, <1>2, <2>1 DEF WholeInv
<1>4. CASE Environment
  <2>1. SecretOK' /\ WorkerOK(w)'
    BY <1>1, <1>4, EditWhole, OtherEnvironmentWhole DEF Environment
  <2>2. QED
    BY <1>1, <1>2, <2>1 DEF WholeInv
<1>5. CASE UNCHANGED vars
  BY <1>2, <1>5 DEF vars, WholeInv, SecretOK, WorkerOK, Idle, PendingWrite, PendingMark,
     Basis
<1>6. QED
  BY <1>1, <1>3, <1>4, <1>5 DEF Next

LEMMA WholeInvariance ==
    ASSUME OneReader
    PROVE  Spec => []WholeInv
<1>1. WholeInv /\ [Next]_vars => WholeInv'
  BY NextWhole
<1>2. QED
  BY <1>1, InitWhole, PTL DEF Spec

----------------------------------------------------------------------------
(* The theorems. *)

(* With one worker and fresh reads no payload's keystore is passed off with *)
(* the hash of another's; run "racing" shows two workers doing so.          *)
(* hash.go:71-79, issuer.go:158-183.                                        *)
THEOREM KeystoresFit ==
    ASSUME OneReader
    PROVE  Spec => []KeystoreMatchesCert
<1>1. WholeInv => KeystoreMatchesCert
  <2> SUFFICES ASSUME WholeInv, budget["edits"] = MaxEdits, live # NoSecret,
                      live["jks"] # Absent, NEW f \in {"jks", "p12"}
               PROVE  \E n \in Nonce : \E m \in Payload :
                          /\ live[f] = Store(m, live["pw"], n)
                          /\ live["crt"] = m.crt /\ live["key"] = m.key
                          /\ live["ca"] = CaBundle(m)
    BY DEF KeystoreMatchesCert
  <2>1. AsMade(live)
    BY DEF WholeInv, SecretOK, Whole
  <2> DEFINE m == live["sourceHash"]
  <2>2. HasKeystore(m)
    BY <2>1, KeptFacts DEF AsMade
  <2>3. /\ m \in Payload
        /\ live["crt"] = m.crt /\ live["key"] = m.key /\ live["ca"] = CaBundle(m)
        /\ live["jks"] \in Keystore /\ live["p12"] = live["jks"]
        /\ live["jks"] = Store(m, live["pw"], live["jks"].salt)
    BY <2>1, <2>2 DEF AsMade
  <2>4. live["jks"].salt \in Nonce
    BY <2>3 DEF Keystore
  <2>5. QED
    BY <2>3, <2>4
<1>2. QED
  BY <1>1, WholeInvariance, PTL

\* An edit leaves at most one of two whole Secrets behind, unless it edits
\* what neither depends on.
LEMMA EditOfIntact ==
    ASSUME NEW s, NEW r, NEW f \in DataField \cup {"sourceHash", "secretHash", "drift"},
           NEW v, IsSecret(s), r = [s EXCEPT ![f] = v], Intact(s), Intact(r)
    PROVE  \A g \in DataField : r[g] = s[g]
<1>1. \A g \in Field \ {f} : r[g] = s[g]
  BY DEF IsSecret
<1>2. CASE f \in DataField
  <2>1. HashSecretData(r) = HashSecretData(s)
    BY <1>1, <1>2, FieldFacts DEF Intact
  <2>2. \A g \in DataField : HashSecretData(r)[g] = HashSecretData(s)[g]
    BY <2>1
  <2>3. QED
    BY <2>2 DEF HashSecretData
<1>3. CASE f \notin DataField
  BY <1>1, <1>3, FieldFacts
<1>4. QED
  BY <1>2, <1>3

(* The write of a reconcile keeps an intact Secret's keystore and password. *)
LEMMA WriteIsStable ==
    ASSUME WholeInv, NEW w \in Worker, Wrote(w), live # NoSecret,
           Intact(live), Intact(live'), Junk \notin {live["p12"], live["pw"]}
    PROVE  /\ live'["sourceHash"] = live["sourceHash"] =>
                  \A f \in KeystoreField : live'[f] = live[f]
           /\ (/\ live["pw"] # Absent
               /\ live'["crt"] = live["crt"] /\ live'["key"] = live["key"]) =>
                  live'["pw"] = live["pw"]
<1> USE DEF WholeInv
<1> DEFINE new == want[w]
           m   == mat[w]
<1>1. PICK b : /\ Basis(w, b)
               /\ Chain(b, patch[w].orig, live)
               /\ live' = MergePatch(live, patch[w].orig, new)
  BY DEF Wrote
<1>2. PICK o : Stamped(o) /\ Worn(b, o)
  BY <1>1, ChainFacts
<1>3. /\ b # NoSecret /\ Worn(live, b) /\ Worn(patch[w].orig, b) /\ Worn(live, patch[w].orig)
  BY <1>1, ChainFacts
<1>4. /\ m \in Payload /\ MadeFrom(new, m, b) /\ IsSecret(new)
      /\ Stamped(new) /\ new["sourceHash"] = m
      /\ Worn(live', new)
  BY <1>1, WriteEffect DEF Wrote, Basis, WorkerOK, IInv, StageOK
<1>5. live["secretHash"] \notin {Absent, Junk} /\ live'["secretHash"] \notin {Absent, Junk}
  <2>1. IsSecret(live)
    BY <1>1 DEF IInv, TypeOK, MaybeSecret, Chain
  <2>2. IsSecret(live')
    BY <1>1, <1>4, <2>1, MergePatchType
  <2>3. QED
    BY <2>1, <2>2, SecretIsThere DEF Intact
<1>6. \A f \in DataField : live'[f] = new[f]
  <2>1. live'["secretHash"] = new["secretHash"]
    BY <1>4, <1>5, KeptFacts DEF Worn
  <2>2. HashSecretData(live') = HashSecretData(new)
    BY <1>4, <2>1 DEF Intact, Stamped
  <2>3. \A f \in DataField : HashSecretData(live')[f] = HashSecretData(new)[f]
    BY <2>2
  <2>4. QED
    BY <2>3 DEF HashSecretData
<1>7. /\ b["sourceHash"] = m => \A f \in KeystoreField : new[f] = live[f]
      /\ (/\ live["pw"] # Absent
          /\ new["crt"] = live["crt"] /\ new["key"] = live["key"]) => new["pw"] = live["pw"]
  BY <1>2, <1>3, <1>4, <1>5, KeystoreTies
<1>8. live'["sourceHash"] = live["sourceHash"] => b["sourceHash"] = m
  <2>1. m \notin {Absent, Junk}
    BY <1>4, TLSSecretAssumption
  <2>2. \/ live'["sourceHash"] = m
        \/ /\ live'["sourceHash"] = live["sourceHash"]
           /\ live'["sourceHash"] \in {Absent, Junk}
           /\ patch[w].orig["sourceHash"] = m
    BY <1>1, <1>3, <1>4, PatchedFields, KeptFacts
  <2>3. QED
    BY <1>3, <2>1, <2>2, KeptFacts DEF Worn
<1> HIDE DEF new, m
<1>9. QED
  BY <1>6, <1>7, <1>8, FieldFacts, KeptFacts

(* With one worker and fresh reads consumers keep the keystore they mount,  *)
(* whatever people do to the Secret meanwhile.  hash.go:66-70,              *)
(* keystore.go:26-31.                                                       *)
THEOREM KeystoresStay ==
    ASSUME OneReader
    PROVE  Spec => KeystoreStable
<1> DEFINE Stays ==
      (/\ live # NoSecret /\ live' # NoSecret
       /\ Intact(live) /\ Intact(live')
       /\ Junk \notin {live["p12"], live["pw"]}) =>
      /\ live'["sourceHash"] = live["sourceHash"] =>
             \A f \in KeystoreField : live'[f] = live[f]
      /\ (/\ live["pw"] # Absent
          /\ live'["crt"] = live["crt"]
          /\ live'["key"] = live["key"]) => live'["pw"] = live["pw"]
<1>1. ASSUME WholeInv, [Next]_vars PROVE [Stays]_live
  <2> SUFFICES ASSUME live' # live, live # NoSecret, live' # NoSecret,
                      Intact(live), Intact(live'), Junk \notin {live["p12"], live["pw"]}
               PROVE  /\ live'["sourceHash"] = live["sourceHash"] =>
                             \A f \in KeystoreField : live'[f] = live[f]
                      /\ (/\ live["pw"] # Absent
                          /\ live'["crt"] = live["crt"]
                          /\ live'["key"] = live["key"]) => live'["pw"] = live["pw"]
    OBVIOUS
  <2>1. CASE \A f \in DataField : live'[f] = live[f]
    BY <2>1, FieldFacts, KeptFacts
  <2>2. CASE \E w \in Worker : Send(w)
    <3>1. PICK w \in Worker : Send(w)
      BY <2>2
    <3>2. Marked(w) \/ Wrote(w)
      BY <1>1, <3>1, SendEffect
    <3>3. CASE Marked(w)
      BY <2>1, <3>3 DEF Marked, Copy, KeptField
    <3>4. CASE Wrote(w)
      BY <1>1, <3>4, WriteIsStable
    <3>5. QED
      BY <3>2, <3>3, <3>4
  <2>3. CASE Edit
    <3>1. PICK f \in EditField, v \in {Absent, Junk} : live' = [live EXCEPT ![f] = v]
      BY <2>3 DEF Edit
    <3>2. IsSecret(live) /\ f \in DataField \cup {"sourceHash", "secretHash", "drift"}
      BY <1>1, SecretMirrorAssumption DEF WholeInv, IInv, TypeOK, MaybeSecret
    <3>3. \A g \in DataField : live'[g] = live[g]
      BY <3>1, <3>2, EditOfIntact
    <3>4. QED
      BY <2>1, <3>3
  <2>4. QED
    BY <1>1, <2>2, <2>3 DEF Next, Reconcile, Environment, Fetch, BuildSecret, MarkRead,
       WriteRead, ClearRead, NotWritten, Deliver, Tick, Rotate, Crash, vars
<1>2. QED
  BY <1>1, WholeInvariance, PTL DEF Spec, KeystoreStable

----------------------------------------------------------------------------
(* The refinement of MirroredSecret. *)

LEMMA SeenFacts ==
    ASSUME NEW s
    PROVE  /\ s = NoSecret => Seen(s) = NoSecret
           /\ s # NoSecret => Seen(s) # NoSecret
           /\ s # NoSecret /\ ~AsMade(s) => Seen(s) = Junk
           /\ AsMade(s) =>
                /\ Seen(s) = [of |-> s["sourceHash"],
                              keystore |-> IF s["jks"] = Absent THEN Absent ELSE s["jks"].salt,
                              pw |-> s["pw"]]
                /\ Seen(s) \in [of : Payload, keystore : Nonce \cup {Absent},
                                pw : Nonce \cup {Absent}]
<1>1. ASSUME AsMade(s)
      PROVE  /\ Seen(s) = [of |-> s["sourceHash"],
                           keystore |-> IF s["jks"] = Absent THEN Absent ELSE s["jks"].salt,
                           pw |-> s["pw"]]
             /\ Seen(s) \in [of : Payload, keystore : Nonce \cup {Absent},
                             pw : Nonce \cup {Absent}]
  <2>1. s["jks"] = Absent \/ (s["jks"] \in Keystore /\ s["jks"].salt \in Nonce)
    BY <1>1, KeptFacts DEF AsMade, Keystore
  <2>2. s["sourceHash"] \in Payload /\ s["pw"] \in Nonce \cup {Absent} /\ s # NoSecret
    BY <1>1, KeptFacts DEF AsMade
  <2>3. QED
    BY <1>1, <2>1, <2>2 DEF Seen
<1>2. QED
  BY <1>1, TLSSecretAssumption, ValueAssumption DEF Seen

LEMMA CopyIsSeenAlike ==
    ASSUME NEW r, NEW s, r # NoSecret, s # NoSecret, Copy(r, s)
    PROVE  Seen(r) = Seen(s)
BY CopyIsAlike, KeptFacts DEF Seen, Copy

LEMMA InitMaps == Init => Mirrored!Init
BY DEF Init, Mirrored!Init, Seen

\* A step that leaves the Secret alone, in which a reconcile may end.
LEMMA QuietStep ==
    ASSUME source' = source, Seen(live)' = Seen(live), budget'["edits"] = budget["edits"],
           NEW w \in Worker, mat' \in {mat, [mat EXCEPT ![w] = Absent]}
    PROVE  [Mirrored!Next]_<<source, budget["edits"], mat, Seen(live)>>
BY DEF Mirrored!Next, Mirrored!End

LEMMA WriteMaps ==
    ASSUME WholeInv, NEW w \in Worker, Send(w), Wrote(w)
    PROVE  [Mirrored!Next]_<<source, budget["edits"], mat, Seen(live)>>
<1> USE DEF WholeInv
<1> DEFINE new == want[w]
           m   == mat[w]
<1>1. /\ source' = source /\ mat' = mat /\ budget'["edits"] = budget["edits"]
      /\ m \in Payload
  BY FaultKeepsEdits DEF Send, Wrote, IInv, WorkerOK
<1>2. /\ live' # NoSecret
      /\ Stamped(new) /\ new["sourceHash"] = m /\ new # NoSecret
      /\ AsMade(live') => Copy(live', new) /\ AsMade(new)
      /\ AsMade(live) => AsMade(live')
      /\ budget["edits"] = MaxEdits => AsMade(live')
  BY WriteEffect
<1>3. Usable(m)
  BY <1>2 DEF Stamped
<1>4. CASE AsMade(live')
  <2> DEFINE k == IF new["jks"] = Absent THEN Absent ELSE new["jks"].salt
  <2>1. AsMade(new) /\ Copy(live', new)
    BY <1>2, <1>4
  <2>2. Seen(live') = [of |-> m, keystore |-> k, pw |-> new["pw"]]
    BY <1>2, <2>1, CopyIsSeenAlike, SeenFacts
  <2>3. /\ HasKeystore(m) => new["jks"] # Absent /\ k \in Nonce /\ new["pw"] \in Nonce
        /\ ~HasKeystore(m) => k = Absent /\ new["pw"] = Absent
    <3>1. CASE HasKeystore(m)
      <4>1. new["jks"] \in Keystore /\ new["pw"] \in Nonce
        BY <1>2, <2>1, <3>1 DEF AsMade
      <4>2. new["jks"] # Absent /\ new["jks"].salt \in Nonce
        BY <4>1, ValueAssumption DEF Keystore
      <4>3. QED
        BY <3>1, <4>1, <4>2
    <3>2. CASE ~HasKeystore(m)
      BY <1>2, <2>1, <3>2, KeptFacts DEF AsMade
    <3>3. QED
      BY <3>1, <3>2
  <2>4. ASSUME Seen(live) \notin {NoSecret, Junk}
        PROVE  /\ Seen(live).of = m => k = Seen(live).keystore
               /\ Seen(live).of # m /\ k # Absent => k # Seen(live).keystore
               /\ (/\ Seen(live).of.crt = m.crt /\ Seen(live).of.key = m.key
                   /\ Seen(live).pw # Absent) => new["pw"] = Seen(live).pw
    <3> DEFINE q == live["sourceHash"]
    <3>1. AsMade(live)
      BY <2>4, SeenFacts
    <3>2. Seen(live) = [of |-> q,
                        keystore |-> IF live["jks"] = Absent THEN Absent ELSE live["jks"].salt,
                        pw |-> live["pw"]]
      BY <3>1, SeenFacts
    <3>3. PICK b : Basis(w, b) /\ Chain(b, patch[w].orig, live)
      BY <3>1 DEF Wrote, AsMade
    <3>4. PICK o : Stamped(o) /\ Worn(b, o)
      BY <3>3, ChainFacts
    <3>5. /\ q \in Payload /\ q = b["sourceHash"]
          /\ live["crt"] = q.crt /\ live["key"] = q.key
          /\ Intact(live) /\ live["secretHash"] \notin {Absent, Junk}
      <4>1. /\ q \in Payload /\ live["crt"] = q.crt /\ live["key"] = q.key
            /\ Intact(live) /\ live["secretHash"] \notin {Absent, Junk}
        BY <3>1 DEF AsMade
      <4>2. Worn(live, b)
        BY <3>3, ChainFacts
      <4>3. QED
        BY <4>1, <4>2, KeptFacts, TLSSecretAssumption DEF Worn
    <3>6. Junk \notin {live["p12"], live["pw"]}
      BY <3>1, KeptFacts, TLSSecretAssumption, ValueAssumption DEF AsMade
    <3>7. b # NoSecret /\ Worn(live, b) /\ MadeFrom(new, m, b)
      BY <3>3, ChainFacts DEF Basis
    <3>8. /\ q = m => \A f \in KeystoreField : new[f] = live[f]
          /\ q # m /\ new["jks"] # Absent /\ live["jks"] # Absent =>
                 new["jks"].salt # live["jks"].salt
          /\ (/\ live["pw"] # Absent
              /\ new["crt"] = live["crt"] /\ new["key"] = live["key"]) =>
                 new["pw"] = live["pw"]
      BY <1>1, <1>2, <3>4, <3>5, <3>6, <3>7, KeystoreTies
    <3>9. new["crt"] = m.crt /\ new["key"] = m.key
      BY <1>2 DEF Stamped
    <3>10. k # Absent => new["jks"] # Absent
      OBVIOUS
    <3>11. q = m => k = IF live["jks"] = Absent THEN Absent ELSE live["jks"].salt
      BY <3>8, KeptFacts
    <3>12. ASSUME q # m, k # Absent
           PROVE  k # IF live["jks"] = Absent THEN Absent ELSE live["jks"].salt
      BY <3>8, <3>12
    <3> HIDE DEF q, k, new, m
    <3>13. QED
      BY <3>2, <3>5, <3>8, <3>9, <3>11, <3>12
  <2> HIDE DEF k
  <2>5. Mirrored!Write(w)
    <3> HIDE DEF new
    <3>1. \E x, y \in IF HasKeystore(m) THEN Nonce ELSE {Absent} : x = k /\ y = new["pw"]
      BY <2>3
    <3>2. QED
      BY <1>1, <1>3, <2>2, <2>3, <2>4, <3>1 DEF Mirrored!Write
  <2>6. QED
    BY <2>5 DEF Mirrored!Next
<1>5. CASE ~AsMade(live')
  <2>1. Seen(live') = Junk /\ ~AsMade(live) /\ budget["edits"] # MaxEdits
    BY <1>2, <1>5, SeenFacts
  <2>2. CASE live # NoSecret
    BY <1>1, <2>1, <2>2, SeenFacts
  <2>3. CASE live = NoSecret
    <3>1. live' = new
      BY <2>3 DEF Wrote, Chain
    <3>2. HasKeystore(m)
      BY <1>2, <1>5, <3>1, AsMadeIsStamped
    <3>3. Mirrored!Remake(w)
      BY <1>1, <2>1, <2>3, <3>2, SeenFacts DEF Mirrored!Remake
    <3>4. QED
      BY <3>3 DEF Mirrored!Next
  <2>4. QED
    BY <2>2, <2>3
<1>6. QED
  BY <1>4, <1>5

LEMMA SendMaps ==
    ASSUME WholeInv, NEW w \in Worker, ~Lagging, Send(w)
    PROVE  [Mirrored!Next]_<<source, budget["edits"], mat, Seen(live)>>
<1>1. /\ source' = source /\ budget'["edits"] = budget["edits"]
      /\ mat' \in {mat, [mat EXCEPT ![w] = Absent]}
  BY FaultKeepsEdits, SendWhole DEF Send, WholeInv, IInv
<1>2. CASE live' = live \/ Marked(w)
  <2>1. Seen(live)' = Seen(live)
    BY <1>2, CopyIsSeenAlike DEF Marked
  <2>2. QED
    BY <1>1, <2>1, QuietStep
<1>3. CASE Wrote(w)
  BY <1>3, WriteMaps
<1>4. QED
  BY <1>2, <1>3, SendEffect

LEMMA EditMaps ==
    ASSUME WholeInv, Edit
    PROVE  [Mirrored!Next]_<<source, budget["edits"], mat, Seen(live)>>
<1>1. /\ source' = source /\ mat' = mat
      /\ budget["edits"] > 0 /\ budget'["edits"] = budget["edits"] - 1
      /\ live # NoSecret /\ IsSecret(live)
  BY DEF Edit, local, Spend, WholeInv, IInv, TypeOK, MaybeSecret
<1>2. \/ Seen(live') \in {Junk, NoSecret, Seen(live)}
      \/ Seen(live) = Junk /\ AsMade(live')
  <2>1. CASE ~AsMade(live') \/ ~AsMade(live)
    BY <1>1, <2>1, SeenFacts
  <2>2. CASE AsMade(live') /\ AsMade(live)
    <3>1. PICK f \in EditField, v \in {Absent, Junk} : live' = [live EXCEPT ![f] = v]
      BY <2>2 DEF Edit, AsMade
    <3>2. f \in DataField \cup {"sourceHash", "secretHash", "drift"}
      BY SecretMirrorAssumption
    <3>3. \A g \in DataField : live'[g] = live[g]
      <4>1. Intact(live') /\ Intact(live)
        BY <2>2 DEF AsMade
      <4>2. QED
        BY <1>1, <3>1, <3>2, <4>1, EditOfIntact
    <3>4. live'["secretHash"] = live["secretHash"]
      BY <1>1, <2>2, <3>1, FieldFacts DEF AsMade, IsSecret
    <3>5. live'["sourceHash"] = live["sourceHash"]
      BY <1>1, <2>2, <3>1, FieldFacts, TLSSecretAssumption DEF AsMade, IsSecret
    <3>6. Seen(live') = Seen(live)
      BY <2>2, <3>3, <3>4, <3>5, CopyIsSeenAlike DEF Copy, KeptField, AsMade
    <3>7. QED
      BY <3>6
  <2>3. QED
    BY <2>1, <2>2
<1>3. Mirrored!Tamper
  BY <1>1, <1>2, SeenFacts DEF Mirrored!Tamper, Mirrored!Mirror
<1>4. QED
  BY <1>3 DEF Mirrored!Next

LEMMA NextMaps ==
    ASSUME OneReader, WholeInv, [Next]_vars
    PROVE  [Mirrored!Next]_<<source, budget["edits"], mat, Seen(live)>>
<1> USE DEF WholeInv
<1>1. PICK w \in Worker : Worker = {w} /\ ~Lagging
  BY DEF OneReader
<1>2. TypeOK
  BY DEF IInv
<1>3. CASE Fetch(w)
  <2>1. /\ source' = source /\ live' = live /\ budget'["edits"] = budget["edits"]
        /\ mat[w] = Absent
    BY <1>2, <1>3, FaultKeepsEdits DEF Fetch, NotWritten, WorkerOK
  <2>2. CASE mat' = mat
    BY <2>1, <2>2, QuietStep
  <2>3. CASE mat' = [mat EXCEPT ![w] = source]
    <3>1. Mirrored!Begin(w)
      BY <2>1, <2>3 DEF Mirrored!Begin
    <3>2. QED
      BY <3>1 DEF Mirrored!Next
  <2>4. QED
    BY <1>3, <2>2, <2>3 DEF Fetch
<1>4. CASE BuildSecret(w) \/ WriteRead(w) \/ MarkRead(w) \/ ClearRead(w)
  <2>1. source' = source /\ live' = live /\ budget'["edits"] = budget["edits"]
    BY <1>2, <1>4, FaultKeepsEdits
       DEF BuildSecret, WriteRead, MarkRead, ClearRead, NotWritten
  <2>2. mat' \in {mat, [mat EXCEPT ![w] = Absent]}
    BY <1>4, MarkReadWhole, ClearReadWhole DEF BuildSecret, WriteRead
  <2>3. QED
    BY <2>1, <2>2, QuietStep
<1>5. CASE Send(w)
  BY <1>1, <1>5, SendMaps
<1>6. CASE Edit
  BY <1>6, EditMaps
<1>7. CASE Deliver \/ Tick
  BY <1>7 DEF Deliver, Tick, local
<1>8. CASE Rotate
  <2>1. /\ source' \in Payload \cup {Absent} /\ mat' = mat /\ live' = live
        /\ budget'["edits"] = budget["edits"]
    BY <1>2, <1>8 DEF Rotate, Spend, local, TypeOK
  <2>2. Mirrored!Rotate
    BY <2>1 DEF Mirrored!Rotate
  <2>3. QED
    BY <2>2 DEF Mirrored!Next
<1>9. CASE Crash
  <2>1. /\ source' = source /\ live' = live /\ budget'["edits"] = budget["edits"]
        /\ mat' = [v \in Worker |-> Absent]
    BY <1>2, <1>9, FaultKeepsEdits DEF Crash
  <2>2. Mirrored!End
    BY <2>1 DEF Mirrored!End
  <2>3. QED
    BY <2>2 DEF Mirrored!Next
<1>10. CASE UNCHANGED vars
  BY <1>10 DEF vars
<1>11. QED
  BY <1>1, <1>3, <1>4, <1>5, <1>6, <1>7, <1>8, <1>9, <1>10
     DEF Next, Reconcile, Environment

(* With one worker and fresh reads every step of a reconcile is a step of   *)
(* MirroredSecret or none: a Secret that is whole is replaced by the whole  *)
(* one of the payload the reconcile began with, whatever people, the source *)
(* and failing calls do between its reads and its patch; the keystore       *)
(* changes with the payload only, the password with certificate or key      *)
(* only, and no reconcile spoils what it meets whole.                       *)
(* issuer.go:158-188, 399-428, keystore.go:26-31.                           *)
THEOREM WritesAreWhole ==
    ASSUME OneReader
    PROVE  Spec => WritesWhole
<1>1. WholeInv /\ [Next]_vars =>
          [Mirrored!Next]_<<source, budget["edits"], mat, Seen(live)>>
  BY NextMaps
<1>2. QED
  BY <1>1, InitMaps, WholeInvariance, PTL DEF Spec, WritesWhole, Mirrored!Spec

=============================================================================
