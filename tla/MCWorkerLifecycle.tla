------------------------- MODULE MCWorkerLifecycle -------------------------
(* Small instances of WorkerLifecycle.  Sessions and channel ids are only   *)
(* compared for equality, so permuting them maps behaviours to behaviours;  *)
(* liveness is checked without the symmetry.                                *)
EXTENDS WorkerLifecycle, TLC

Symmetry == Permutations(Sessions) \cup Permutations(Channels)
=============================================================================
