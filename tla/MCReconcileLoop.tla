-------------------------- MODULE MCReconcileLoop --------------------------
(***************************************************************************)
(* Small instances of ReconcileLoop.                                       *)
(***************************************************************************)
EXTENDS ReconcileLoop

AllClouds == {"good", "keyless", "missing"}
KeyedClouds == {"good", "missing"}

=============================================================================
