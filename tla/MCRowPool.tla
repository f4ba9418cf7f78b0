----------------------------- MODULE MCRowPool -----------------------------
(* Small instances of RowPool: the workers are told apart by their slot,   *)
(* so no symmetry is used.                                                 *)
EXTENDS RowPool

\* A pass asking for two bands, one asking for three, one asking for more than the pool may hold.
MixedRequests == {2, 3, MaxWorkers + 2}
=============================================================================
