---------------------------- MODULE MCPoolSession ----------------------------
(***************************************************************************)
(* Instances of PoolSession with few commands in flight.                   *)
(***************************************************************************)
EXTENDS PoolSession, TLC

\* All there are, and those that fill no detail panel.
EveryCommand ==
  {"start", "stop", "baseline", "current", "diff", "entries", "dump", "pte",
   "search"}

WithoutPanels ==
  {"start", "stop", "baseline", "current", "diff", "entries"}

\* For the run that checks progress, with a single create request.
ServiceAndBaseline == {"start", "stop", "baseline"}

Symmetry == Permutations(Slots)

=============================================================================
