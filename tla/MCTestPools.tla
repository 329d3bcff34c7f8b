----------------------------- MODULE MCTestPools -----------------------------
(***************************************************************************)
(* An instance of TestPools with a quota that a few requests reach.        *)
(***************************************************************************)
EXTENDS TestPoolsClient, TLC

Symmetry == Permutations(Threads) \cup Permutations(Allocs)

=============================================================================
