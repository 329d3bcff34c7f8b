--------------------------- MODULE TestPoolsProofs ---------------------------
(***************************************************************************)
(* Theorems of TestPools for any number of requests, any quota and any     *)
(* amount of memory.                                                       *)
(***************************************************************************)
EXTENDS TestPoolsClient, FiniteSetTheorems, TLAPS

\* A thread past AllocPool holds exactly the one allocation it made.
OneInHand ==
  \A t \in Threads :
    pc[t] \in {"allocNode", "insert"} => \E x \in Allocs : mine[t] = {x}

Inv == TypeOK /\ QuotaHolds /\ TestPoolOwnership /\ OneInHand

LEMMA InitInv == Init => Inv
  BY QuotaIsNat, FS_EmptySet
     DEF Init, Inv, TypeOK, QuotaHolds, TestPoolOwnership, OneInHand,
         OwnPools, OwnNodes

LEMMA AllocInv ==
  ASSUME Inv, NEW t \in Threads, Alloc(t)
  PROVE  Inv'
  <1> USE DEF Inv, TypeOK, QuotaHolds, TestPoolOwnership, OneInHand,
              OwnPools, OwnNodes, GoTo, Holds, snapshots
  <1>1. CASE CheckQuota(t)
    BY <1>1 DEF CheckQuota
  <1>2. CASE AllocPool(t)
    BY <1>2 DEF AllocPool
  <1>3. CASE AllocPoolFails(t)
    BY <1>3 DEF AllocPoolFails
  <1>4. CASE AllocNode(t)
    BY <1>4 DEF AllocNode
  <1>5. CASE AllocNodeFails(t)
    BY <1>5 DEF AllocNodeFails
  <1>6. CASE Insert(t)
    <2>1. PICK x \in Allocs : mine[t] = {x}
      BY <1>6 DEF Insert
    <2>2. x \notin list
      BY <1>6, <2>1 DEF Insert
    <2>3. /\ IsFiniteSet(list')
          /\ Cardinality(list') = Cardinality(list) + 1
      BY <1>6, <2>1, <2>2, FS_AddElement DEF Insert
    <2>4. QuotaHolds' /\ count' \in 0 .. MaxTestAllocations
      BY <1>6, <2>3, QuotaIsNat DEF Insert
    <2> QED
      BY <1>6, <2>1, <2>4 DEF Insert
  <1>7. CASE OverQuota(t)
    BY <1>7 DEF OverQuota
  <1> QED
    BY <1>1, <1>2, <1>3, <1>4, <1>5, <1>6, <1>7 DEF Alloc

LEMMA FreeInv ==
  ASSUME Inv, NEW t \in Threads, Free(t)
  PROVE  Inv'
  <1> USE DEF Inv, TypeOK, QuotaHolds, TestPoolOwnership, OneInHand,
              OwnPools, OwnNodes, GoTo, Holds, snapshots
  <1>1. CASE TakeList(t)
    BY <1>1, QuotaIsNat, FS_EmptySet DEF TakeList
  <1>2. CASE FreeOne(t)
    BY <1>2 DEF FreeOne
  <1>3. CASE ClearSnapshots(t)
    BY <1>3 DEF ClearSnapshots
  <1> QED
    BY <1>1, <1>2, <1>3 DEF Free

LEMMA OtherInv ==
  ASSUME Inv,
         \/ Reload
         \/ \E t \in Threads : Request(t) \/ Create(t)
         \/ UNCHANGED vars
  PROVE  Inv'
  <1> USE DEF Inv, TypeOK, QuotaHolds, TestPoolOwnership, OneInHand,
              OwnPools, OwnNodes, GoTo, Holds, snapshots
  <1>1. CASE Reload
    BY <1>1, QuotaIsNat, FS_EmptySet DEF Reload
  <1>2. CASE \E t \in Threads : Request(t)
    BY <1>2 DEF Request
  <1>3. CASE \E t \in Threads : Create(t)
    BY <1>3 DEF Create, Scan, CommitBaseline, CommitCurrent
  <1>4. CASE UNCHANGED vars
    BY <1>4 DEF vars
  <1> QED
    BY <1>1, <1>2, <1>3, <1>4

LEMMA NextInv == Inv /\ [Next]_vars => Inv'
  BY AllocInv, FreeInv, OtherInv DEF Next

LEMMA Invariance == Spec => []Inv
  BY InitInv, NextInv, PTL DEF Spec

(***************************************************************************)
(* Every variable of the test allocations keeps its type, whatever the     *)
(* quota and the number of requests: the count never leaves the quota.     *)
(***************************************************************************)
THEOREM TestPoolTypes == Spec => []TypeOK
  <1>1. Inv => TypeOK
    BY DEF Inv
  <1> QED
    BY <1>1, Invariance, PTL

(***************************************************************************)
(* However many requests allocate and free at once, the list of test       *)
(* allocations never holds more than the quota and the count is its        *)
(* length: the second check in HandleAllocTestPool is enough.              *)
(***************************************************************************)
THEOREM QuotaIsKept == Spec => []QuotaHolds
  <1>1. Inv => QuotaHolds
    BY DEF Inv
  <1> QED
    BY <1>1, Invariance, PTL

(***************************************************************************)
(* No path through the allocation and free handlers leaks a test pool or a *)
(* node, or frees one that another handler or the list still holds.        *)
(***************************************************************************)
THEOREM TestPoolsAreOwned == Spec => []TestPoolOwnership
  <1>1. Inv => TestPoolOwnership
    BY DEF Inv
  <1> QED
    BY <1>1, Invariance, PTL

-----------------------------------------------------------------------------
(***************************************************************************)
(* The snapshots of one client.  That they name live pools between two     *)
(* requests is not inductive: a scan's result is committed later, a pool   *)
(* that is being made may be given up again, and a release frees the pools *)
(* before it clears the snapshots that name them.                          *)
(***************************************************************************)

AloneInv ==
  ~overlapped =>
    /\ \A t, u \in Threads : pc[t] # "idle" /\ pc[u] # "idle" => t = u
    /\ \A t \in Threads :
         pc[t] \in {"commitBaseline", "commitCurrent"} => mine[t] \subseteq pools
    /\ \A t \in Threads :
         pc[t] \in {"allocNode", "insert"} => mine[t] \cap (baseline \cup current) = {}
    /\ (\A t \in Threads : pc[t] # "free") => baseline \cup current \subseteq pools

\* A step of a request that was alone in the driver.
LEMMA AloneStep ==
  ASSUME Inv, AloneInv, ~overlapped, ~Overlap',
         NEW t \in Threads, Request(t) \/ Alloc(t) \/ Free(t) \/ Create(t)
  PROVE  AloneInv'
  <1> USE DEF Inv, TypeOK, AloneInv, Overlap, GoTo, Holds, snapshots
  <1>1. CASE Request(t)
    BY <1>1 DEF Request
  <1>2. CASE CheckQuota(t)
    BY <1>2 DEF CheckQuota
  <1>3. CASE AllocPool(t)
    BY <1>3 DEF AllocPool
  <1>4. CASE AllocPoolFails(t) \/ AllocNode(t)
    BY <1>4 DEF AllocPoolFails, AllocNode
  <1>5. CASE AllocNodeFails(t)
    BY <1>5 DEF AllocNodeFails
  <1>6. CASE Insert(t)
    BY <1>6 DEF Insert
  <1>7. CASE OverQuota(t)
    BY <1>7 DEF OverQuota
  <1>8. CASE TakeList(t)
    BY <1>8 DEF TakeList
  <1>9. CASE FreeOne(t)
    BY <1>9 DEF FreeOne
  <1>10. CASE ClearSnapshots(t)
    BY <1>10 DEF ClearSnapshots
  <1>11. CASE Scan(t)
    BY <1>11 DEF Scan
  <1>12. CASE CommitBaseline(t) \/ CommitCurrent(t)
    BY <1>12 DEF CommitBaseline, CommitCurrent
  <1> QED
    BY <1>1, <1>2, <1>3, <1>4, <1>5, <1>6, <1>7, <1>8, <1>9, <1>10, <1>11,
       <1>12 DEF Alloc, Free, Create

LEMMA AloneNext ==
  Inv /\ AloneInv /\ [HistoryNext]_<<vars, overlapped>> => AloneInv'
  <1> SUFFICES ASSUME Inv, AloneInv, [HistoryNext]_<<vars, overlapped>>,
                      ~overlapped'
               PROVE  AloneInv'
    BY DEF AloneInv
  <1>1. CASE HistoryNext
    <2>1. ~overlapped /\ ~Overlap'
      BY <1>1 DEF HistoryNext
    <2>2. CASE Reload
      BY <2>1, <2>2 DEF Reload, AloneInv
    <2> QED
      BY <1>1, <2>1, <2>2, AloneStep DEF HistoryNext, Next
  <1>2. CASE UNCHANGED <<vars, overlapped>>
    BY <1>2 DEF vars, AloneInv
  <1> QED
    BY <1>1, <1>2

(***************************************************************************)
(* While the requests come one at a time, as they do from the client, the  *)
(* snapshots name no test pool that has been freed when a request is over, *)
(* whichever allocations failed.                                           *)
(***************************************************************************)
THEOREM OneClientIsSafe == HistorySpec => []OneClientNamesLivePools
  <1>1. HistoryInit => Inv /\ AloneInv
    BY InitInv DEF HistoryInit, Init, AloneInv
  <1>2. Inv /\ [HistoryNext]_<<vars, overlapped>> => Inv'
    BY NextInv DEF HistoryNext, vars
  <1>3. AloneInv => OneClientNamesLivePools
    BY DEF AloneInv, OneClientNamesLivePools, SnapshotsNameLivePools
  <1> QED
    BY <1>1, <1>2, <1>3, AloneNext, PTL DEF HistorySpec

=============================================================================
