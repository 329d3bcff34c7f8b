--------------------------- MODULE TestPoolsClient ---------------------------
(***************************************************************************)
(* TestPools with a history variable that tells the behaviours of the one  *)
(* client, which holds deviceHandleMu over each of its requests, from      *)
(* those of several clients.                                               *)
(***************************************************************************)
EXTENDS TestPools

VARIABLE overlapped \* two requests were in the driver at once

HistoryInit == Init /\ overlapped = FALSE

Overlap == \E t, u \in Threads : t # u /\ pc[t] # "idle" /\ pc[u] # "idle"

HistoryNext ==
  /\ Next
  /\ overlapped' = (overlapped \/ Overlap')

HistorySpec == HistoryInit /\ [][HistoryNext]_<<vars, overlapped>>

\* For one client the snapshots name live pools between requests
\* (HandleFreeTestPools frees the pools before it clears the snapshots).
OneClientNamesLivePools == ~overlapped => SnapshotsNameLivePools

=============================================================================
