--------------------------- MODULE MirroredSecret ---------------------------
(***************************************************************************)
(* What SecretMirror promises of its Secret, and CertSync of the one in    *)
(* the Certificate's own namespace: it changes in one step from            *)
(* one payload's, with the keystores of that payload, to another's, and to *)
(* none that was not in the source when the reconcile began.  The          *)
(* keystores change when the payload does and then all together, the       *)
(* password only with certificate or key.  Only an edit, and no reconcile, *)
(* spoils a Secret that is whole; what has been edited may stay edited,    *)
(* and it may outlive its Secret in a reconcile that writes it again.      *)
(***************************************************************************)
EXTENDS Naturals

CONSTANTS
    Worker,
    Payload,
    Shippable,   \* the payloads that can be shipped
    Keystored,   \* those that are shipped with keystores
    MaxEdits,    \* how often people edit the Secret
    Id,          \* tells keystores, and passwords, apart
    Absent,
    Gone,        \* there is no Secret
    Edited

VARIABLES
    source,    \* a payload, or Absent
    edits,     \* how often they still may
    working,   \* worker |-> the payload it is at, or Absent
    secret     \* Gone, Edited, or a payload with its keystores and password

Mirror == [of : Payload, keystore : Id \cup {Absent}, pw : Id \cup {Absent}]

Init ==
    /\ source \in Payload \cup {Absent}
    /\ working = [w \in Worker |-> Absent]
    /\ secret = Gone
    /\ edits = MaxEdits

Rotate ==
    /\ source' \in Payload \cup {Absent}
    /\ UNCHANGED <<edits, working, secret>>

Begin(w) ==
    /\ working[w] = Absent
    /\ working' = [working EXCEPT ![w] = source]
    /\ UNCHANGED <<source, edits, secret>>

Write(w) ==
    /\ working[w] \in Shippable
    /\ \E k, p \in IF working[w] \in Keystored THEN Id ELSE {Absent} :
          /\ secret \notin {Gone, Edited} =>
                /\ secret.of = working[w] => k = secret.keystore
                /\ secret.of # working[w] /\ k # Absent => k # secret.keystore
                /\ (/\ secret.of.crt = working[w].crt /\ secret.of.key = working[w].key
                    /\ secret.pw # Absent) => p = secret.pw
          /\ secret' = [of |-> working[w], keystore |-> k, pw |-> p]
    /\ UNCHANGED <<source, edits, working>>

\* The keystore it reused carries an edit, of the PKCS#12 file or the
\* password, from a Secret that is gone by now.
Remake(w) ==
    /\ secret = Gone /\ edits # MaxEdits
    /\ working[w] \in Keystored
    /\ secret' = Edited
    /\ UNCHANGED <<source, edits, working>>

\* A reconcile ends, or all of them do with the process.
End ==
    /\ \/ \E w \in Worker : working' = [working EXCEPT ![w] = Absent]
       \/ working' = [w \in Worker |-> Absent]
    /\ UNCHANGED <<source, edits, secret>>

\* People edit the Secret or delete it, undo their edit, or edit what does
\* not matter.
Tamper ==
    /\ edits > 0 /\ edits' = edits - 1
    /\ secret # Gone
    /\ \/ secret' \in {Edited, Gone, secret}
       \/ secret = Edited /\ secret' \in Mirror
    /\ UNCHANGED <<source, working>>

Next ==
    \/ Rotate
    \/ \E w \in Worker : Begin(w) \/ Write(w) \/ Remake(w)
    \/ End
    \/ Tamper

Spec == Init /\ [][Next]_<<source, edits, working, secret>>
=============================================================================
