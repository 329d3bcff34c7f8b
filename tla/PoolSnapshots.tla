---------------------------- MODULE PoolSnapshots ----------------------------
(***************************************************************************)
(* The driver's snapshot handlers (kn-diff.cpp): g_Baseline, g_Current and *)
(* g_Diff behind g_SnapshotLock, and the requests that run in the driver   *)
(* at the same time, one thread each.  A create request takes its snapshot *)
(* id and scans the big pool before it takes the lock; under the lock it   *)
(* moves its snapshot into the global one and rebuilds or drops the        *)
(* others; it frees what is left of its own after the lock is released.    *)
(* The statements under the lock are separate steps.                       *)
(*                                                                         *)
(* A snapshot is a pointer to a buffer and the entries in use: buffers are *)
(* allocated and freed by hand, so the model keeps which are live.         *)
(***************************************************************************)
EXTENDS PoolEntries

CONSTANTS
  Threads,      \* the requests that can be in the driver at the same time
  Bufs,         \* the pool's memory, one element per snapshot buffer
  NoBuf,        \* the null pointer
  NoThread,     \* the owner of a free lock
  Observations, \* what a scan can see
  MaxId         \* bound: snapshot ids given out before the driver is reloaded

ASSUME NoBufNotBuf == NoBuf \notin Bufs
ASSUME NoThreadNotThread == NoThread \notin Threads
ASSUME ObservationsType == Observations \subseteq Observation
ASSUME MaxIdNat == MaxId \in Nat

VARIABLES
  loaded,    \* DriverEntry has run, DriverUnloadRoutine has not
  lock,      \* the owner of g_SnapshotLock
  baseline,  \* g_Baseline
  current,   \* g_Current
  diff,      \* g_Diff
  nextId,    \* g_NextSnapshotId
  live,      \* the buffers that are allocated
  pc,        \* per thread: where its handler is
  request,   \* per thread: the operation, and the snapshot id it drew
  snap,      \* per thread: the handler's local snapshot
  answer,    \* per thread: what the handler will complete the request with
  published  \* the contents when the lock was last released (history)

globals == <<baseline, current, diff>>
locals  == <<pc, request, snap, answer>>
vars    == <<loaded, lock, globals, nextId, live, locals, published>>

Snapshot == [buf : Bufs \cup {NoBuf}, entries : Contents]

NoSnapshot == [buf |-> NoBuf, entries |-> NoEntries]

Creates == {"createBaseline", "createCurrent"}
Counts  == {"diffCount", "currentCount"}
Copies  == {"copyDiff", "copyCurrent"}
Ops     == Creates \cup Counts \cup Copies \cup {"clear"}

NoRequest == [op |-> "none", sid |-> 0]
NoReply   == [status |-> "none", count |-> 0, entries |-> NoEntries]
Error     == [NoReply EXCEPT !.status = "error"]

Ok(count, entries) == [status |-> "ok", count |-> count, entries |-> entries]

Now == [baseline |-> baseline.entries,
        current  |-> current.entries,
        diff     |-> diff.entries]

\* The snapshot a count or a copy reads.
Target(op) == IF op \in {"diffCount", "copyDiff"} THEN diff ELSE current

-----------------------------------------------------------------------------

\* What FreeSnapshot gives back to the pool.
Freed(snapshot) == {snapshot.buf} \ {NoBuf}

(***************************************************************************)
(* AllocateSnapshot: no buffer at all for a capacity of zero, a free one   *)
(* otherwise, and failure whenever the pool says so.                       *)
(***************************************************************************)
Allocations(inUse, empty) ==
  {b \in (Bufs \ inUse) \cup {NoBuf} : b = NoBuf <=> empty}

Init ==
  /\ loaded = FALSE
  /\ lock = NoThread
  /\ baseline = NoSnapshot
  /\ current = NoSnapshot
  /\ diff = NoSnapshot
  /\ nextId = 0
  /\ live = {}
  /\ pc = [t \in Threads |-> "idle"]
  /\ request = [t \in Threads |-> NoRequest]
  /\ snap = [t \in Threads |-> NoSnapshot]
  /\ answer = [t \in Threads |-> NoReply]
  /\ published = Now

\* DriverEntry: the image is fresh, its globals zero.
Load ==
  /\ ~loaded
  /\ loaded' = TRUE
  /\ nextId' = 0
  /\ UNCHANGED <<lock, globals, live, locals, published>>

\* DriverUnloadRoutine: the I/O manager calls it when no request is left.
Unload ==
  /\ loaded
  /\ lock = NoThread
  /\ \A t \in Threads : pc[t] = "idle"
  /\ loaded' = FALSE
  /\ baseline' = NoSnapshot
  /\ current' = NoSnapshot
  /\ diff' = NoSnapshot
  /\ live' = live \ (Freed(baseline) \cup Freed(current) \cup Freed(diff))
  /\ published' = Now'
  /\ UNCHANGED <<lock, nextId, locals>>

-----------------------------------------------------------------------------

\* Thread t moves on, its answer fixed.
GoTo(t, from, to) == pc[t] = from /\ pc' = [pc EXCEPT ![t] = to]

Replies(t, reply) == answer' = [answer EXCEPT ![t] = reply]

\* Dispatch of a request; a create draws its snapshot id first.
Submit(t, op) ==
  /\ loaded
  /\ IF op \in Creates
     THEN /\ nextId < MaxId
          /\ nextId' = nextId + 1
          /\ GoTo(t, "idle", "scan")
          /\ request' = [request EXCEPT ![t] = [op |-> op, sid |-> nextId + 1]]
     ELSE /\ GoTo(t, "idle", "acquire")
          /\ request' = [request EXCEPT ![t] = [op |-> op, sid |-> 0]]
          /\ UNCHANGED nextId
  /\ UNCHANGED <<loaded, lock, globals, live, snap, answer, published>>

\* Mutant of Scan: the null pointer of an empty capacity counts as a buffer.
ScanOwnsNull(t) ==
  /\ GoTo(t, "scan", "acquire")
  /\ \E seen \in Observations, empty \in BOOLEAN :
       /\ empty => seen = NoEntries
       /\ \E b \in Allocations(live, empty) :
            /\ snap' = [snap EXCEPT
                 ![t] = [buf |-> b, entries |-> Stamp(seen, request[t].sid)]]
            /\ live' = live \cup {b}
  /\ UNCHANGED <<loaded, lock, globals, nextId, request, answer, published>>

(***************************************************************************)
(* ScanBigPoolSnapshot, outside the lock.  The capacity counts the paged   *)
(* allocations too, so a buffer may come with no entries in it.            *)
(***************************************************************************)
Scan(t) ==
  /\ GoTo(t, "scan", "acquire")
  /\ \E seen \in Observations, empty \in BOOLEAN :
       /\ empty => seen = NoEntries
       /\ \E b \in Allocations(live, empty) :
            /\ snap' = [snap EXCEPT
                 ![t] = [buf |-> b, entries |-> Stamp(seen, request[t].sid)]]
            /\ live' = live \cup ({b} \ {NoBuf})
  /\ UNCHANGED <<loaded, lock, globals, nextId, request, answer, published>>

\* The query or an allocation fails: the request fails, nothing is kept.
ScanFails(t) ==
  /\ GoTo(t, "scan", "finish")
  /\ Replies(t, Error)
  /\ UNCHANGED <<loaded, lock, globals, nextId, live, request, snap, published>>

Acquire(t) ==
  /\ GoTo(t, "acquire", "locked")
  /\ lock = NoThread
  /\ lock' = t
  /\ UNCHANGED <<loaded, globals, nextId, live, request, snap, answer, published>>

\* Mutant of ReplaceBaseline: the local snapshot is copied, not moved.
ReplaceBaselineByCopy(t) ==
  /\ request[t].op = "createBaseline"
  /\ GoTo(t, "locked", "derived")
  /\ live' = live \ Freed(baseline)
  /\ baseline' = snap[t]
  /\ UNCHANGED <<loaded, lock, current, diff, nextId, request, snap, answer, published>>

\* ReplaceSnapshot(&g_Baseline, &snapshot).
ReplaceBaseline(t) ==
  /\ request[t].op = "createBaseline"
  /\ GoTo(t, "locked", "derived")
  /\ live' = live \ Freed(baseline)
  /\ baseline' = snap[t]
  /\ snap' = [snap EXCEPT ![t] = NoSnapshot]
  /\ UNCHANGED <<loaded, lock, current, diff, nextId, request, answer, published>>

\* Mutants of FreeDerived: one of the two frees is missing.
FreeDerivedKeepsDiff(t) ==
  /\ GoTo(t, "derived", "release")
  /\ request[t].op = "createBaseline"
  /\ live' = live \ Freed(current)
  /\ current' = NoSnapshot
  /\ Replies(t, Ok(Count(baseline.entries), NoEntries))
  /\ UNCHANGED <<loaded, lock, baseline, diff, nextId, request, snap, published>>

FreeDerivedKeepsCurrent(t) ==
  /\ GoTo(t, "derived", "release")
  /\ request[t].op = "createBaseline"
  /\ live' = live \ Freed(diff)
  /\ diff' = NoSnapshot
  /\ Replies(t, Ok(Count(baseline.entries), NoEntries))
  /\ UNCHANGED <<loaded, lock, baseline, current, nextId, request, snap, published>>

\* FreeSnapshot(&g_Current); FreeSnapshot(&g_Diff).
FreeDerived(t) ==
  /\ GoTo(t, "derived", "release")
  /\ request[t].op = "createBaseline"
  /\ live' = live \ (Freed(current) \cup Freed(diff))
  /\ current' = NoSnapshot
  /\ diff' = NoSnapshot
  /\ Replies(t, Ok(Count(baseline.entries), NoEntries))
  /\ UNCHANGED <<loaded, lock, baseline, nextId, request, snap, published>>

\* ReplaceSnapshot(&g_Current, &snapshot).
ReplaceCurrent(t) ==
  /\ request[t].op = "createCurrent"
  /\ GoTo(t, "locked", "derived")
  /\ live' = live \ Freed(current)
  /\ current' = snap[t]
  /\ snap' = [snap EXCEPT ![t] = NoSnapshot]
  /\ UNCHANGED <<loaded, lock, baseline, diff, nextId, request, answer, published>>

\* RebuildDiffLocked: the old diff is freed before the new one is allocated.
RebuildDiff(t) ==
  /\ GoTo(t, "derived", "release")
  /\ request[t].op = "createCurrent"
  /\ \E b \in Allocations(live \ Freed(diff), Present(current.entries) = {}) :
       /\ diff' = [buf |-> b,
                   entries |-> DiffOf(baseline.entries, current.entries)]
       /\ live' = (live \ Freed(diff)) \cup ({b} \ {NoBuf})
  /\ Replies(t, Ok(Count(diff'.entries), NoEntries))
  /\ UNCHANGED <<loaded, lock, baseline, current, nextId, request, snap, published>>

\* Mutant of RebuildDiffFails: the old diff survives a failed rebuild.
RebuildDiffFailsLate(t) ==
  /\ GoTo(t, "derived", "release")
  /\ request[t].op = "createCurrent"
  /\ Present(current.entries) # {}
  /\ Replies(t, Error)
  /\ UNCHANGED <<loaded, lock, globals, nextId, live, request, snap, published>>

RebuildDiffFails(t) ==
  /\ GoTo(t, "derived", "release")
  /\ request[t].op = "createCurrent"
  /\ Present(current.entries) # {}
  /\ live' = live \ Freed(diff)
  /\ diff' = NoSnapshot
  /\ Replies(t, Error)
  /\ UNCHANGED <<loaded, lock, baseline, current, nextId, request, snap, published>>

\* HandleGetDiffCount and HandleGetCurrentCount, under the lock.
ReadCount(t) ==
  /\ GoTo(t, "locked", "release")
  /\ request[t].op \in Counts
  /\ Replies(t, Ok(Count(Target(request[t].op).entries), NoEntries))
  /\ UNCHANGED <<loaded, lock, globals, nextId, live, request, snap, published>>

\* CopyDiffSnapshot, CopyCurrentSnapshot and CopySnapshotByTarget.
Copy(t) ==
  /\ GoTo(t, "locked", "release")
  /\ request[t].op \in Copies
  /\ LET entries == Target(request[t].op).entries IN
     /\ \E b \in Allocations(live, Present(entries) = {}) :
          /\ snap' = [snap EXCEPT ![t] = [buf |-> b, entries |-> entries]]
          /\ live' = live \cup ({b} \ {NoBuf})
     /\ Replies(t, Ok(Count(entries), entries))
  /\ UNCHANGED <<loaded, lock, globals, nextId, request, published>>

\* Mutant of CopyFails: the error path returns without releasing the lock.
CopyFailsLocked(t) ==
  /\ GoTo(t, "locked", "finish")
  /\ request[t].op \in Copies
  /\ Present(Target(request[t].op).entries) # {}
  /\ Replies(t, Error)
  /\ UNCHANGED <<loaded, lock, globals, nextId, live, request, snap, published>>

CopyFails(t) ==
  /\ GoTo(t, "locked", "release")
  /\ request[t].op \in Copies
  /\ Present(Target(request[t].op).entries) # {}
  /\ Replies(t, Error)
  /\ UNCHANGED <<loaded, lock, globals, nextId, live, request, snap, published>>

\* ClearSnapshots, for a clear request and at the end of a free-test-pools one.
Clear(t) ==
  /\ GoTo(t, "locked", "release")
  /\ request[t].op = "clear"
  /\ Replies(t, Ok(Count(baseline.entries) + Count(current.entries)
                     + Count(diff.entries), NoEntries))
  /\ live' = live \ (Freed(baseline) \cup Freed(current) \cup Freed(diff))
  /\ baseline' = NoSnapshot
  /\ current' = NoSnapshot
  /\ diff' = NoSnapshot
  /\ UNCHANGED <<loaded, lock, nextId, request, snap, published>>

Release(t) ==
  /\ GoTo(t, "release", "finish")
  /\ lock' = NoThread
  /\ published' = Now
  /\ UNCHANGED <<loaded, globals, nextId, live, request, snap, answer>>

\* FreeSnapshot(&snapshot) and the completion of the request.
Finish(t) ==
  /\ GoTo(t, "finish", "idle")
  /\ live' = live \ Freed(snap[t])
  /\ snap' = [snap EXCEPT ![t] = NoSnapshot]
  /\ request' = [request EXCEPT ![t] = NoRequest]
  /\ Replies(t, NoReply)
  /\ UNCHANGED <<loaded, lock, globals, nextId, published>>

-----------------------------------------------------------------------------

\* Everything a handler does once its request is dispatched.
Step(t) ==
  \/ Scan(t) \/ ScanFails(t)
  \/ Acquire(t)
  \/ ReplaceBaseline(t) \/ FreeDerived(t)
  \/ ReplaceCurrent(t) \/ RebuildDiff(t) \/ RebuildDiffFails(t)
  \/ ReadCount(t) \/ Copy(t) \/ CopyFails(t) \/ Clear(t)
  \/ Release(t)
  \/ Finish(t)

Next ==
  \/ Load
  \/ Unload
  \/ \E t \in Threads : Step(t) \/ \E op \in Ops : Submit(t, op)

Spec == Init /\ [][Next]_vars

(***************************************************************************)
(* A thread in a handler is scheduled, and a waiter for the fast mutex     *)
(* gets it in turn: its waiters queue on a synchronization event.          *)
(***************************************************************************)
FairSpec ==
  Spec /\ \A t \in Threads : WF_vars(Step(t)) /\ SF_vars(Acquire(t))

-----------------------------------------------------------------------------

\* Every variable has the values the handlers can give it.
TypeOK ==
  /\ loaded \in BOOLEAN
  /\ lock \in Threads \cup {NoThread}
  /\ baseline \in Snapshot
  /\ current \in Snapshot
  /\ diff \in Snapshot
  /\ nextId \in 0 .. MaxId
  /\ live \subseteq Bufs
  /\ pc \in [Threads -> {"idle", "scan", "acquire", "locked", "derived",
                         "release", "finish"}]
  /\ request \in [Threads -> [op : Ops \cup {"none"}, sid : 0 .. MaxId]]
  /\ snap \in [Threads -> Snapshot]
  /\ answer \in [Threads -> [status : {"none", "ok", "error"}, count : Nat,
                             entries : Contents]]
  /\ published \in [baseline : Contents, current : Contents, diff : Contents]

(***************************************************************************)
(* Whoever finds the lock free finds a diff of exactly the baseline and    *)
(* the current snapshot it finds with it, or no diff entry at all: never   *)
(* a diff of an older baseline, of an older current snapshot, or a part    *)
(* of one.  RebuildDiffLocked and the frees in HandleCreateBaseline and    *)
(* ClearSnapshots keep it, over several statements.                        *)
(***************************************************************************)
DiffIsOfBaselineAndCurrent ==
  lock = NoThread =>
    diff.entries \in {NoEntries, DiffOf(baseline.entries, current.entries)}

\* Every buffer that is allocated is owned by exactly one snapshot, global
\* or local to a handler, and no snapshot points to a freed buffer or has
\* entries without one.
EveryBufferIsOwned ==
  /\ live = ({baseline.buf, current.buf, diff.buf}
               \cup {snap[t].buf : t \in Threads}) \ {NoBuf}
  /\ baseline.buf \in {current.buf, diff.buf} => baseline.buf = NoBuf
  /\ current.buf = diff.buf => current.buf = NoBuf
  /\ \A t \in Threads :
       snap[t].buf \in {baseline.buf, current.buf, diff.buf}
         => snap[t].buf = NoBuf
  /\ \A t, u \in Threads :
       t # u /\ snap[t].buf = snap[u].buf => snap[t].buf = NoBuf
  /\ \A s \in {baseline, current, diff} \cup {snap[t] : t \in Threads} :
       s.buf = NoBuf => s.entries = NoEntries

\* An unloaded driver has given every buffer back (DriverUnloadRoutine).
UnloadFreesEverything == ~loaded => live = {}

(***************************************************************************)
(* No leak, no double free, no use after free on any path of the handlers, *)
(* failures included, and nothing left when the driver is unloaded.        *)
(***************************************************************************)
BufferOwnership == EveryBufferIsOwned /\ UnloadFreesEverything

(***************************************************************************)
(* The baseline and the current snapshot never come from one scan, however *)
(* the requests that draw snapshot ids interleave: g_NextSnapshotId tells  *)
(* any two scans of one load of the driver apart.                          *)
(***************************************************************************)
SnapshotsAreOfDifferentScans ==
  \A i \in Present(baseline.entries), j \in Present(current.entries) :
    baseline.entries[i].sid # current.entries[j].sid

(***************************************************************************)
(* When one critical section changes the baseline for the next to see, it  *)
(* leaves no current snapshot and no diff behind: "existing current/diff   *)
(* [...] state is cleared because it belongs to the previous baseline".    *)
(***************************************************************************)
BaselineChangeDropsDerived ==
  [][published'.baseline # published.baseline =>
       published'.current = NoEntries /\ published'.diff = NoEntries]_published

\* Every dispatched request is completed: no path keeps the lock.
RequestsComplete == \A t \in Threads : pc[t] # "idle" ~> pc[t] = "idle"

(***************************************************************************)
(* The handlers implement the store: every request takes effect in one     *)
(* step for the other clients, when it releases the lock (or fails before  *)
(* it takes it), and is answered from what the store held at that step.    *)
(***************************************************************************)
StorePhase ==
  [t \in Threads |-> CASE pc[t] = "idle"   -> "idle"
                       [] pc[t] = "finish" -> "served"
                       [] OTHER            -> "called"]

StoreReply ==
  [t \in Threads |-> IF pc[t] = "finish" THEN answer[t] ELSE NoReply]

Store == INSTANCE SnapshotStore
         WITH store <- published, lastId <- nextId,
              phase <- StorePhase, reply <- StoreReply

ImplementsStore == Store!Spec

=============================================================================
