--------------------------- MODULE MCPoolSnapshots ---------------------------
(***************************************************************************)
(* Instances of PoolSnapshots: two allocations, and the observations that  *)
(* tell the cases of the comparison apart.                                 *)
(***************************************************************************)
EXTENDS PoolSnapshots, TLC

CONSTANTS a, b \* the allocations

h(cover, digest) == [cover |-> cover, digest |-> digest]

\* Allocation a is seen with either content, or with a hash of a sample only;
\* b is there or not, or could not be hashed.
MCObservations ==
  LET sees(x, y) == [i \in {a, b} |-> IF i = a THEN x ELSE y] IN
  {NoEntries,
   sees(h("full", 1), Absent),
   sees(h("full", 2), h("full", 1)),
   sees(h("sample", 2), h(Unhashed, 1))}

\* For the runs that check progress: nothing, or a.
FewObservations ==
  {NoEntries, [i \in {a, b} |-> IF i = a THEN h("full", 1) ELSE Absent]}

Symmetry == Permutations(Threads) \cup Permutations(Bufs)

=============================================================================
