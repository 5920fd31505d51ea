----------------------------- MODULE MCCertSync -----------------------------
(***************************************************************************)
(* Instances of CertSync: a Certificate in namespace "home" and up to two  *)
(* more namespaces, of which "shut" refuses every write.                   *)
(***************************************************************************)
EXTENDS CertSync

OneSyncer == {"tencentcert"}
BothSyncers == {"awscert", "tencentcert"}

Everywhere == [allow |-> {}, deny |-> {}]
NotHome == [allow |-> {"far"}, deny |-> {"far"}]

AnyFilter == {Everywhere, NotHome}
NoFilter == {Everywhere}

\* Enough choices for every copy and every worker to hold one, and one more.
FourNonces == 0..3
=============================================================================
