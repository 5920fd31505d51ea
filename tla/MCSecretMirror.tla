--------------------------- MODULE MCSecretMirror ---------------------------
(***************************************************************************)
(* Small instances of SecretMirror.                                        *)
(***************************************************************************)
EXTENDS SecretMirror, TLC

CONSTANTS c1, c2, k1, k2, pkcs1, short, full, other, queue, resync

MCCompleted == [ch \in {short, full, other} |-> IF ch = short THEN full ELSE ch]
MCPKCS8Key == {k1, k2}

\* Two certificates; the first also with another intermediate.
First   == [crt |-> c1, key |-> k1, chain |-> short]
Rechain == [crt |-> c1, key |-> k1, chain |-> other]
Second  == [crt |-> c2, key |-> k2, chain |-> full]

\* Sources that ship no keystore, and one that ships nothing.
Keyless == [crt |-> c1, key |-> Absent, chain |-> full]
PKCS1   == [crt |-> c1, key |-> pkcs1, chain |-> full]
Broken  == [crt |-> Junk, key |-> k1, chain |-> full]

TwoCerts   == {First, Second}
ThreeCerts == {First, Second, Rechain}
AllKinds   == {First, Keyless, PKCS1, Broken}
EveryKind  == ThreeCerts \cup {PKCS1, Broken}

Symmetric == Permutations(Worker)

TLSEdits  == {"crt", "key", "secretHash"}
AllEdits  == DataField \cup {"sourceHash", "secretHash", "drift"}

=============================================================================
