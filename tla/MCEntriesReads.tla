--------------------------- MODULE MCEntriesReads ---------------------------
(***************************************************************************)
(* An instance of EntriesReads: one read, one thread of other requests,    *)
(* and snapshots that grow and shrink.                                     *)
(***************************************************************************)
EXTENDS EntriesReads

CONSTANTS a, b \* the allocations

seen == [cover |-> "full", digest |-> 1]

\* A scan sees one allocation or two; the snapshot id tells scans apart.
MCObservations ==
  {[i \in Ids |-> IF i = a THEN seen ELSE Absent],
   [i \in Ids |-> seen]}

=============================================================================
