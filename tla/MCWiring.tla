------------------------------ MODULE MCWiring ------------------------------
(* Goroutines that serve Certificates of two namespaces, with an issuer of   *)
(* one region and two pairs of static credentials.                           *)
EXTENDS Wiring

OneRegion == {"region"}
Namespaces == {"team", "shared"}
MCIssuers == {[region |-> "region", ref |-> n] : n \in {Own, "shared", NoRef}}
MCGiven == [n \in Namespace |-> IF n = "shared" THEN "old" ELSE "new"]
Accounts == {"old", "new"}
=============================================================================
