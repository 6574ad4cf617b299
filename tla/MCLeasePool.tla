---------------------------- MODULE MCLeasePool -----------------------------
(***************************************************************************)
(* LeasePool on a small instance.  Lease records are interchangeable.      *)
(***************************************************************************)
EXTENDS LeasePool, TLC

LeaseSymmetry == Permutations(Leases)
=============================================================================
