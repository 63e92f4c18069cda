---------------------------- MODULE MCLeaseStore ----------------------------
(* Small instances of the store: a stage with a child, and a third stage.  *)
EXTENDS LeaseStore, TLC

CONSTANTS s1, s2, s3, r1, r2, a1, a2

ChainParents == (s1 :> {}) @@ (s2 :> {s1})
ForkParents == (s1 :> {}) @@ (s2 :> {s1}) @@ (s3 :> {})

\* Nothing tells the two runners apart, nor the two artifacts; every property
\* of the run is an invariant or about single steps.
Interchangeable == Permutations({r1, r2}) \cup Permutations({a1, a2})
=============================================================================
