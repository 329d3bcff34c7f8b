------------------------------ MODULE TestPools ------------------------------
(***************************************************************************)
(* The driver's test allocations (kn-diff.cpp): the list                   *)
(* g_TestAllocations and its count behind g_TestAllocationLock, the quota, *)
(* and the snapshots that have seen the allocated pools.                   *)
(*                                                                         *)
(* A test allocation is two blocks of memory, the pool itself and the      *)
(* TestAllocation node that is linked into the list; an element of Allocs  *)
(* names both.  Each section under g_TestAllocationLock or                 *)
(* g_SnapshotLock is one step, what is done between them is not under a    *)
(* lock.  Only the addresses matter here, so a snapshot is the set of test *)
(* allocations it names.                                                   *)
(***************************************************************************)
EXTENDS Naturals, FiniteSets

CONSTANTS
  Threads,           \* the requests that can be in the driver at once
  Allocs,            \* test allocations: bound on the memory of the model
  MaxTestAllocations \* KN_DIFF_POOL_MAX_TEST_ALLOCATIONS, 32

ASSUME QuotaIsNat == MaxTestAllocations \in Nat

VARIABLES
  count,    \* g_TestAllocationCount
  list,     \* g_TestAllocations
  pools,    \* the test pools that are allocated
  nodes,    \* the TestAllocation nodes that are allocated
  baseline, \* test allocations named in g_Baseline
  current,  \* test allocations named in g_Current, and in the diff
  pc,       \* per thread: where its handler is
  mine      \* per thread: what only its handler points to

vars == <<count, list, pools, nodes, baseline, current, pc, mine>>

snapshots == <<baseline, current>>

Init ==
  /\ count = 0
  /\ list = {}
  /\ pools = {}
  /\ nodes = {}
  /\ baseline = {}
  /\ current = {}
  /\ pc = [t \in Threads |-> "idle"]
  /\ mine = [t \in Threads |-> {}]

GoTo(t, from, to) == pc[t] = from /\ pc' = [pc EXCEPT ![t] = to]

\* The handler's local variables: kept by all but the step that says so.
Holds(t, allocs) == mine' = [mine EXCEPT ![t] = allocs]

Request(t) ==
  /\ \E to \in {"checkQuota", "take", "scanBaseline", "scanCurrent"} :
       GoTo(t, "idle", to)
  /\ UNCHANGED <<count, list, pools, nodes, snapshots, mine>>

-----------------------------------------------------------------------------
(***************************************************************************)
(* HandleAllocTestPool                                                     *)
(***************************************************************************)

CheckQuota(t) ==
  /\ IF count >= MaxTestAllocations
     THEN GoTo(t, "checkQuota", "idle")
     ELSE GoTo(t, "checkQuota", "allocPool")
  /\ UNCHANGED <<count, list, pools, nodes, snapshots, mine>>

AllocPool(t) ==
  /\ GoTo(t, "allocPool", "allocNode")
  /\ \E x \in Allocs \ (pools \cup nodes) :
       /\ pools' = pools \cup {x}
       /\ Holds(t, {x})
  /\ UNCHANGED <<count, list, nodes, snapshots>>

AllocPoolFails(t) ==
  /\ GoTo(t, "allocPool", "idle")
  /\ UNCHANGED <<count, list, pools, nodes, snapshots, mine>>

AllocNode(t) ==
  /\ GoTo(t, "allocNode", "insert")
  /\ nodes' = nodes \cup mine[t]
  /\ UNCHANGED <<count, list, pools, snapshots, mine>>

AllocNodeFails(t) ==
  /\ GoTo(t, "allocNode", "idle")
  /\ pools' = pools \ mine[t]
  /\ Holds(t, {})
  /\ UNCHANGED <<count, list, nodes, snapshots>>

\* Mutant of Insert: the quota is not checked again.
InsertUnchecked(t) ==
  /\ GoTo(t, "insert", "idle")
  /\ list' = list \cup mine[t]
  /\ count' = count + 1
  /\ Holds(t, {})
  /\ UNCHANGED <<pools, nodes, snapshots>>

\* The quota again, now that the allocation is at hand: others came between.
Insert(t) ==
  /\ count < MaxTestAllocations
  /\ GoTo(t, "insert", "idle")
  /\ list' = list \cup mine[t]
  /\ count' = count + 1
  /\ Holds(t, {})
  /\ UNCHANGED <<pools, nodes, snapshots>>

\* Mutant of OverQuota: the node is not freed.
OverQuotaLeaksNode(t) ==
  /\ count >= MaxTestAllocations
  /\ GoTo(t, "insert", "idle")
  /\ pools' = pools \ mine[t]
  /\ Holds(t, {})
  /\ UNCHANGED <<count, list, nodes, snapshots>>

OverQuota(t) ==
  /\ count >= MaxTestAllocations
  /\ GoTo(t, "insert", "idle")
  /\ pools' = pools \ mine[t]
  /\ nodes' = nodes \ mine[t]
  /\ Holds(t, {})
  /\ UNCHANGED <<count, list, snapshots>>

-----------------------------------------------------------------------------
(***************************************************************************)
(* HandleFreeTestPools: FreeAllTestAllocations, then ClearSnapshots        *)
(***************************************************************************)

\* Mutant of TakeList: the count is left as it is.
TakeListKeepsCount(t) ==
  /\ GoTo(t, "take", "free")
  /\ Holds(t, list)
  /\ list' = {}
  /\ UNCHANGED <<count, pools, nodes, snapshots>>

TakeList(t) ==
  /\ GoTo(t, "take", "free")
  /\ Holds(t, list)
  /\ list' = {}
  /\ count' = 0
  /\ UNCHANGED <<pools, nodes, snapshots>>

FreeOne(t) ==
  /\ pc[t] = "free"
  /\ \E x \in mine[t] :
       /\ pools' = pools \ {x}
       /\ nodes' = nodes \ {x}
       /\ Holds(t, mine[t] \ {x})
  /\ UNCHANGED <<count, list, snapshots, pc>>

\* Mutant of ClearSnapshots: the baseline is not cleared.
ClearCurrent(t) ==
  /\ GoTo(t, "free", "idle")
  /\ mine[t] = {}
  /\ current' = {}
  /\ UNCHANGED <<count, list, pools, nodes, baseline, mine>>

ClearSnapshots(t) ==
  /\ GoTo(t, "free", "idle")
  /\ mine[t] = {}
  /\ baseline' = {}
  /\ current' = {}
  /\ UNCHANGED <<count, list, pools, nodes, mine>>

-----------------------------------------------------------------------------
(***************************************************************************)
(* HandleCreateBaseline and HandleCreateCurrent, as far as test pools go:  *)
(* the query sees the pools there are, the commit comes later.             *)
(***************************************************************************)

Scan(t) ==
  /\ \/ GoTo(t, "scanBaseline", "commitBaseline")
     \/ GoTo(t, "scanCurrent", "commitCurrent")
  /\ Holds(t, pools)
  /\ UNCHANGED <<count, list, pools, nodes, snapshots>>

CommitBaseline(t) ==
  /\ GoTo(t, "commitBaseline", "idle")
  /\ baseline' = mine[t]
  /\ current' = {}
  /\ Holds(t, {})
  /\ UNCHANGED <<count, list, pools, nodes>>

CommitCurrent(t) ==
  /\ GoTo(t, "commitCurrent", "idle")
  /\ current' = mine[t]
  /\ Holds(t, {})
  /\ UNCHANGED <<count, list, pools, nodes, baseline>>

\* DriverUnloadRoutine, then DriverEntry: no request is in the driver.
Reload ==
  /\ \A t \in Threads : pc[t] = "idle"
  /\ list' = {}
  /\ count' = 0
  /\ pools' = pools \ list
  /\ nodes' = nodes \ list
  /\ baseline' = {}
  /\ current' = {}
  /\ UNCHANGED <<pc, mine>>

Alloc(t) ==
  \/ CheckQuota(t)
  \/ AllocPool(t) \/ AllocPoolFails(t)
  \/ AllocNode(t) \/ AllocNodeFails(t)
  \/ Insert(t) \/ OverQuota(t)

Free(t) == TakeList(t) \/ FreeOne(t) \/ ClearSnapshots(t)

Create(t) == Scan(t) \/ CommitBaseline(t) \/ CommitCurrent(t)

Next ==
  \/ Reload
  \/ \E t \in Threads : Request(t) \/ Alloc(t) \/ Free(t) \/ Create(t)

Spec == Init /\ [][Next]_vars

-----------------------------------------------------------------------------

\* Every variable has the values the handlers can give it.
TypeOK ==
  /\ count \in 0 .. MaxTestAllocations
  /\ list \subseteq Allocs
  /\ pools \subseteq Allocs
  /\ nodes \subseteq Allocs
  /\ baseline \subseteq Allocs
  /\ current \subseteq Allocs
  /\ pc \in [Threads -> {"idle", "checkQuota", "allocPool", "allocNode",
                         "insert", "take", "free", "scanBaseline",
                         "scanCurrent", "commitBaseline", "commitCurrent"}]
  /\ mine \in [Threads -> SUBSET Allocs]

(***************************************************************************)
(* The list never holds more than the quota, and the count is its length,  *)
(* although a request checks the quota, lets go of the lock to allocate    *)
(* and inserts later (HandleAllocTestPool), while others insert or empty   *)
(* the list (FreeAllTestAllocations).                                      *)
(***************************************************************************)
QuotaHolds ==
  /\ IsFiniteSet(list)
  /\ count = Cardinality(list)
  /\ count <= MaxTestAllocations

\* The allocations a handler is building up, or tearing down.
OwnPools(t) == IF pc[t] \in {"allocNode", "insert", "free"} THEN mine[t] ELSE {}
OwnNodes(t) == IF pc[t] \in {"insert", "free"} THEN mine[t] ELSE {}

(***************************************************************************)
(* Every allocated test pool and node is reachable from the list or from   *)
(* one handler and from only one of them, and what the list or a handler   *)
(* holds is allocated: no leak and no double free on any path, failures    *)
(* and lost quota races included.                                          *)
(***************************************************************************)
TestPoolOwnership ==
  /\ pools = list \cup UNION {OwnPools(t) : t \in Threads}
  /\ nodes = list \cup UNION {OwnNodes(t) : t \in Threads}
  /\ \A t \in Threads : OwnPools(t) \cap list = {}
  /\ \A t, u \in Threads : t # u => OwnPools(t) \cap OwnPools(u) = {}

(***************************************************************************)
(* Between requests no snapshot names a test pool that has been freed: a   *)
(* read or search through the snapshots finds live pools, as far as the    *)
(* driver's own frees go.  HandleFreeTestPools frees first and clears the  *)
(* snapshots after, so this needs requests to come one at a time, as they  *)
(* do from the client, which holds deviceHandleMu for each.                *)
(***************************************************************************)
SnapshotsNameLivePools ==
  (\A t \in Threads : pc[t] = "idle") => baseline \cup current \subseteq pools

=============================================================================
