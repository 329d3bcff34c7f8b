------------------------- MODULE PoolSnapshotsProofs -------------------------
(***************************************************************************)
(* Theorems of PoolSnapshots for any number of threads, allocations,       *)
(* buffers and snapshot ids.                                               *)
(***************************************************************************)
EXTENDS PoolSnapshots, FiniteSetTheorems, TLAPS

(***************************************************************************)
(* The operators on contents keep their type.                              *)
(***************************************************************************)

\* A snapshot without entries is a snapshot's contents.
LEMMA NoEntriesType == NoEntries \in Contents
  BY DEF NoEntries, Contents

\* A snapshot has a natural number of entries.
LEMMA CountType == \A entries : Count(entries) \in Nat
  <1> TAKE entries
  <1>1. Present(entries) \subseteq Ids
    BY DEF Present
  <1>2. IsFiniteSet(Present(entries))
    BY <1>1, IdsFinite, FS_Subset
  <1> QED
    BY <1>2, FS_CardinalityType DEF Count

\* What ScanBigPoolSnapshot records of an observation is a snapshot's contents.
LEMMA StampType ==
  ASSUME NEW seen \in Observation, NEW sid \in Nat
  PROVE  Stamp(seen, sid) \in Contents
  <1> SUFFICES ASSUME NEW i \in Ids
               PROVE  Stamp(seen, sid)[i] \in Entry \cup {Absent}
    BY DEF Stamp, Contents
  <1>1. seen[i] \in Hash \cup {Absent}
    BY DEF Observation
  <1> QED
    BY <1>1 DEF Stamp, Entry

\* What RebuildDiffLocked computes of two snapshots is a snapshot's contents.
LEMMA DiffOfType ==
  ASSUME NEW base \in Contents, NEW cur \in Contents
  PROVE  DiffOf(base, cur) \in Contents
  <1> SUFFICES ASSUME NEW i \in Ids
               PROVE  DiffOf(base, cur)[i] \in Entry \cup {Absent}
    BY DEF DiffOf, Contents
  <1>1. cur[i] \in Entry \cup {Absent}
    BY DEF Contents
  <1>2. cur[i] # Absent => [cur[i] EXCEPT !.changed = TRUE] \in Entry
    BY <1>1 DEF Entry
  <1> QED
    BY <1>1, <1>2 DEF DiffOf

LEMMA NoSnapshotType == NoSnapshot \in Snapshot
  BY NoEntriesType DEF NoSnapshot, Snapshot

Answers == [status : {"none", "ok", "error"}, count : Nat, entries : Contents]

LEMMA AnswerTypes ==
  /\ NoReply \in Answers
  /\ Error \in Answers
  /\ \A entries, others \in Contents : Ok(Count(entries), others) \in Answers
  BY NoEntriesType, CountType DEF NoReply, Error, Ok, Answers

LEMMA AllocationsType ==
  ASSUME NEW inUse, NEW empty, NEW buf \in Allocations(inUse, empty)
  PROVE  buf \in Bufs \cup {NoBuf}
  BY DEF Allocations

-----------------------------------------------------------------------------
(***************************************************************************)
(* Type correctness: one step per action.                                  *)
(***************************************************************************)

LEMMA InitType == Init => TypeOK
  <1> SUFFICES ASSUME Init
               PROVE  TypeOK
    OBVIOUS
  <1>1. published \in [baseline : Contents, current : Contents, diff : Contents]
    BY NoEntriesType DEF Init, Now, NoSnapshot
  <1>2. NoRequest \in [op : Ops \cup {"none"}, sid : 0 .. MaxId]
    BY MaxIdNat DEF NoRequest
  <1>3. nextId \in 0 .. MaxId
    BY MaxIdNat DEF Init
  <1> QED
    BY <1>1, <1>2, <1>3, NoSnapshotType, AnswerTypes DEF Init, TypeOK, Answers

LEMMA StepType ==
  ASSUME TypeOK, NEW t \in Threads, Step(t)
  PROVE  TypeOK'
  <1> USE DEF TypeOK, GoTo, Replies
  <1>1. CASE Scan(t)
    <2>1. PICK seen \in Observations, empty \in BOOLEAN,
                  b \in Bufs \cup {NoBuf} :
                 /\ b \in Allocations(live, empty)
                 /\ snap' = [snap EXCEPT
                      ![t] = [buf |-> b, entries |-> Stamp(seen, request[t].sid)]]
                 /\ live' = live \cup ({b} \ {NoBuf})
      BY <1>1, AllocationsType DEF Scan
    <2>2. b \in Bufs \cup {NoBuf}
      BY <2>1
    <2>3. request[t].sid \in Nat
      BY MaxIdNat
    <2>4. [buf |-> b, entries |-> Stamp(seen, request[t].sid)] \in Snapshot
      BY <2>2, <2>3, StampType, ObservationsType DEF Snapshot
    <2> QED
      BY <1>1, <2>1, <2>2, <2>4 DEF Scan, globals, locals
  <1>2. CASE ScanFails(t)
    BY <1>2, AnswerTypes DEF ScanFails, Answers, globals
  <1>3. CASE Acquire(t)
    BY <1>3 DEF Acquire, globals
  <1>4. CASE ReplaceBaseline(t)
    BY <1>4, NoSnapshotType DEF ReplaceBaseline
  <1>5. CASE FreeDerived(t)
    <2>1. Ok(Count(baseline.entries), NoEntries) \in Answers
      BY AnswerTypes, NoEntriesType DEF Snapshot
    <2> QED
      BY <1>5, <2>1, NoSnapshotType DEF FreeDerived, Answers
  <1>6. CASE ReplaceCurrent(t)
    BY <1>6, NoSnapshotType DEF ReplaceCurrent
  <1>7. CASE RebuildDiff(t)
    <2>1. PICK b \in Allocations(live \ Freed(diff), Present(current.entries) = {}) :
            /\ diff' = [buf |-> b,
                        entries |-> DiffOf(baseline.entries, current.entries)]
            /\ live' = (live \ Freed(diff)) \cup ({b} \ {NoBuf})
      BY <1>7 DEF RebuildDiff
    <2>2. b \in Bufs \cup {NoBuf}
      BY AllocationsType
    <2>3. diff' \in Snapshot
      BY <2>1, <2>2, DiffOfType DEF Snapshot
    <2>4. Ok(Count(diff'.entries), NoEntries) \in Answers
      BY <2>3, AnswerTypes, NoEntriesType DEF Snapshot
    <2> QED
      BY <1>7, <2>1, <2>2, <2>3, <2>4 DEF RebuildDiff, Answers
  <1>8. CASE RebuildDiffFails(t)
    BY <1>8, NoSnapshotType, AnswerTypes DEF RebuildDiffFails, Answers
  <1>9. CASE ReadCount(t)
    <2>1. Ok(Count(Target(request[t].op).entries), NoEntries) \in Answers
      BY AnswerTypes, NoEntriesType DEF Snapshot, Target
    <2> QED
      BY <1>9, <2>1 DEF ReadCount, Answers, globals
  <1>10. CASE Copy(t)
    <2> DEFINE entries == Target(request[t].op).entries
    <2>1. entries \in Contents
      BY DEF Snapshot, Target
    <2>2. PICK b \in Allocations(live, Present(entries) = {}) :
            /\ snap' = [snap EXCEPT ![t] = [buf |-> b, entries |-> entries]]
            /\ live' = live \cup ({b} \ {NoBuf})
      BY <1>10 DEF Copy
    <2>3. b \in Bufs \cup {NoBuf}
      BY AllocationsType
    <2>4. Ok(Count(entries), entries) \in Answers
      BY <2>1, AnswerTypes
    <2>5. [buf |-> b, entries |-> entries] \in Snapshot
      BY <2>1, <2>3 DEF Snapshot
    <2>6. answer' = [answer EXCEPT ![t] = Ok(Count(entries), entries)]
      BY <1>10 DEF Copy
    <2> HIDE DEF entries
    <2> QED
      BY <1>10, <2>2, <2>3, <2>4, <2>5, <2>6 DEF Copy, Answers, globals
  <1>11. CASE CopyFails(t)
    BY <1>11, AnswerTypes DEF CopyFails, Answers, globals
  <1>12. CASE Clear(t)
    <2>1. Ok(Count(baseline.entries) + Count(current.entries)
               + Count(diff.entries), NoEntries) \in Answers
      BY CountType, NoEntriesType DEF Ok, Answers
    <2> QED
      BY <1>12, <2>1, NoSnapshotType DEF Clear, Answers
  <1>13. CASE Release(t)
    BY <1>13 DEF Release, Now, Snapshot, globals
  <1>14. CASE Finish(t)
    BY <1>14, NoSnapshotType, AnswerTypes, MaxIdNat
       DEF Finish, NoRequest, Answers, globals
  <1> QED
    BY <1>1, <1>2, <1>3, <1>4, <1>5, <1>6, <1>7, <1>8, <1>9, <1>10, <1>11,
       <1>12, <1>13, <1>14 DEF Step

LEMMA NextType == TypeOK /\ [Next]_vars => TypeOK'
  <1> SUFFICES ASSUME TypeOK, [Next]_vars
               PROVE  TypeOK'
    OBVIOUS
  <1>1. CASE Load
    BY <1>1, MaxIdNat DEF Load, TypeOK, globals, locals
  <1>2. CASE Unload
    BY <1>2, NoSnapshotType DEF Unload, TypeOK, locals, Now, Snapshot
  <1>3. CASE \E t \in Threads, op \in Ops : Submit(t, op)
    <2> PICK t \in Threads, op \in Ops : Submit(t, op)
      BY <1>3
    <2>1. nextId' \in 0 .. MaxId
      BY MaxIdNat DEF Submit, TypeOK
    <2>2. PICK sid \in 0 .. MaxId :
            request' = [request EXCEPT ![t] = [op |-> op, sid |-> sid]]
      <3>1. CASE op \in Creates
        <4>1. request' = [request EXCEPT ![t] = [op |-> op, sid |-> nextId']]
          BY <3>1 DEF Submit
        <4> QED
          BY <2>1, <4>1
      <3>2. CASE op \notin Creates
        <4>1. request' = [request EXCEPT ![t] = [op |-> op, sid |-> 0]] /\ 0 \in 0 .. MaxId
          BY <3>2, MaxIdNat DEF Submit
        <4> QED
          BY <4>1
      <3> QED
        BY <3>1, <3>2
    <2>3. request' \in [Threads -> [op : Ops \cup {"none"}, sid : 0 .. MaxId]]
      BY <2>2 DEF TypeOK
    <2>4. pc' \in [Threads -> {"idle", "scan", "acquire", "locked", "derived",
                               "release", "finish"}]
      <3>1. \/ pc' = [pc EXCEPT ![t] = "scan"]
            \/ pc' = [pc EXCEPT ![t] = "acquire"]
        BY Zenon DEF Submit, GoTo
      <3> QED
        BY <3>1 DEF TypeOK
    <2> QED
      BY <2>1, <2>3, <2>4 DEF Submit, TypeOK, globals
  <1>4. CASE \E t \in Threads : Step(t)
    BY <1>4, StepType
  <1>5. CASE UNCHANGED vars
    BY <1>5 DEF vars, globals, locals, TypeOK
  <1> QED
    BY <1>1, <1>2, <1>3, <1>4, <1>5 DEF Next

(***************************************************************************)
(* Every variable of the driver keeps its type, whatever the number of     *)
(* requests, allocations and buffers: in particular a request is only ever *)
(* where its operation's handler can be.                                   *)
(***************************************************************************)
THEOREM TypeCorrect == Spec => []TypeOK
  <1> QED
    BY InitType, NextType, PTL DEF Spec

-----------------------------------------------------------------------------
(***************************************************************************)
(* The lock, and the diff it protects.  DiffIsOfBaselineAndCurrent is not  *)
(* inductive: a handler may find the lock taken and leave the diff stale   *)
(* between two statements.  What is inductive is that only the owner of    *)
(* the lock is between Acquire and Release, and that the diff is stale     *)
(* only while the owner has replaced a snapshot and not yet rebuilt or     *)
(* freed the diff.                                                         *)
(***************************************************************************)

\* A thread owns the lock exactly while its handler is in the locked section.
LockInv ==
  \A t \in Threads : pc[t] \in {"locked", "derived", "release"} <=> lock = t

DiffInv ==
  (\A t \in Threads : pc[t] # "derived") =>
    diff.entries \in {NoEntries, DiffOf(baseline.entries, current.entries)}

LEMMA LockStep == TypeOK /\ LockInv /\ [Next]_vars => LockInv'
  <1> SUFFICES ASSUME TypeOK, LockInv, [Next]_vars
               PROVE  LockInv'
    OBVIOUS
  <1> USE NoThreadNotThread DEF LockInv, TypeOK, GoTo
  <1>1. CASE Load
    BY <1>1 DEF Load, locals
  <1>2. CASE Unload
    BY <1>2 DEF Unload, locals
  <1>3. CASE \E t \in Threads, op \in Ops : Submit(t, op)
    BY <1>3 DEF Submit
  <1>4. CASE \E t \in Threads : Step(t)
    <2> PICK t \in Threads : Step(t)
      BY <1>4
    <2>1. CASE Scan(t) \/ ScanFails(t) \/ Finish(t)
      BY <2>1 DEF Scan, ScanFails, Finish
    <2>2. CASE Acquire(t)
      BY <2>2 DEF Acquire
    <2>3. CASE Release(t)
      BY <2>3 DEF Release
    <2>4. CASE \/ ReplaceBaseline(t) \/ FreeDerived(t)
               \/ ReplaceCurrent(t) \/ RebuildDiff(t) \/ RebuildDiffFails(t)
      BY <2>4 DEF ReplaceBaseline, FreeDerived, ReplaceCurrent, RebuildDiff,
                  RebuildDiffFails
    <2>5. CASE ReadCount(t) \/ Copy(t) \/ CopyFails(t) \/ Clear(t)
      BY <2>5 DEF ReadCount, Copy, CopyFails, Clear
    <2> QED
      BY <2>1, <2>2, <2>3, <2>4, <2>5 DEF Step
  <1>5. CASE UNCHANGED vars
    BY <1>5 DEF vars, locals
  <1> QED
    BY <1>1, <1>2, <1>3, <1>4, <1>5 DEF Next

\* Only the owner of the lock is in the locked section.
LEMMA OneInside ==
  ASSUME TypeOK, LockInv, NEW t \in Threads, NEW u \in Threads, t # u,
         pc[t] \in {"locked", "derived", "release"}
  PROVE  pc[u] \notin {"locked", "derived", "release"}
  BY DEF LockInv

LEMMA DiffStep == TypeOK /\ LockInv /\ DiffInv /\ [Next]_vars => DiffInv'
  <1> SUFFICES ASSUME TypeOK, LockInv, DiffInv, [Next]_vars
               PROVE  DiffInv'
    OBVIOUS
  <1> USE DEF DiffInv, TypeOK, GoTo
  <1>1. CASE Load
    BY <1>1 DEF Load, globals, locals
  <1>2. CASE Unload
    BY <1>2 DEF Unload, NoSnapshot
  <1>3. CASE \E t \in Threads, op \in Ops : Submit(t, op)
    BY <1>3 DEF Submit, globals
  <1>4. CASE \E t \in Threads : Step(t)
    <2> PICK t \in Threads : Step(t)
      BY <1>4
    <2>1. CASE Scan(t) \/ ScanFails(t) \/ Finish(t)
      BY <2>1 DEF Scan, ScanFails, Finish, globals
    <2>2. CASE Acquire(t) \/ Release(t)
      BY <2>2 DEF Acquire, Release, globals
    <2>3. CASE ReplaceBaseline(t) \/ ReplaceCurrent(t)
      <3>1. pc'[t] = "derived"
        BY <2>3 DEF ReplaceBaseline, ReplaceCurrent
      <3> QED
        BY <3>1
    <2>4. CASE FreeDerived(t) \/ RebuildDiffFails(t) \/ Clear(t)
      BY <2>4 DEF FreeDerived, RebuildDiffFails, Clear, NoSnapshot
    <2>5. CASE RebuildDiff(t)
      <3>1. diff'.entries = DiffOf(baseline.entries, current.entries)
        BY <2>5 DEF RebuildDiff
      <3> QED
        BY <2>5, <3>1 DEF RebuildDiff
    <2>6. CASE ReadCount(t) \/ Copy(t) \/ CopyFails(t)
      <3>1. pc[t] = "locked" /\ pc' = [pc EXCEPT ![t] = "release"]
        BY <2>6 DEF ReadCount, Copy, CopyFails
      <3>2. UNCHANGED globals
        BY <2>6 DEF ReadCount, Copy, CopyFails
      <3>3. \A u \in Threads : pc[u] # "derived"
        BY <3>1, OneInside
      <3> QED
        BY <3>1, <3>2, <3>3 DEF globals
    <2> QED
      BY <2>1, <2>2, <2>3, <2>4, <2>5, <2>6 DEF Step
  <1>5. CASE UNCHANGED vars
    BY <1>5 DEF vars, globals, locals
  <1> QED
    BY <1>1, <1>2, <1>3, <1>4, <1>5 DEF Next

(***************************************************************************)
(* g_SnapshotLock excludes: a thread owns it exactly while its handler is  *)
(* between ExAcquireFastMutex and ExReleaseFastMutex.                      *)
(***************************************************************************)
THEOREM LockExcludes == Spec => []LockInv
  <1>1. Init => LockInv
    BY NoThreadNotThread DEF Init, LockInv
  <1> QED
    BY <1>1, LockStep, TypeCorrect, PTL DEF Spec

(***************************************************************************)
(* A diff read under the lock is always the diff of the baseline and the   *)
(* current snapshot of that moment, or empty: for any number of concurrent *)
(* requests, whatever their scans see and whichever allocations fail.      *)
(***************************************************************************)
THEOREM DiffIsNeverStale == Spec => []DiffIsOfBaselineAndCurrent
  <1>1. Init => DiffInv
    BY DEF Init, DiffInv, NoSnapshot
  <1>2. TypeOK /\ LockInv /\ DiffInv => DiffIsOfBaselineAndCurrent
    BY NoThreadNotThread DEF TypeOK, LockInv, DiffInv, DiffIsOfBaselineAndCurrent
  <1> QED
    BY <1>1, <1>2, DiffStep, LockExcludes, TypeCorrect, PTL DEF Spec

-----------------------------------------------------------------------------
(***************************************************************************)
(* What a locked section leaves for the next.  The owner of the lock may   *)
(* only release it with the baseline it found, or with neither a current   *)
(* snapshot nor a diff.                                                    *)
(***************************************************************************)

NothingDerived == current.entries = NoEntries /\ diff.entries = NoEntries

PublishedInv ==
  /\ (\A t \in Threads : pc[t] \notin {"derived", "release"}) => published = Now
  /\ \A t \in Threads :
       pc[t] = "derived" /\ request[t].op = "createCurrent" =>
         published.baseline = baseline.entries
  /\ \A t \in Threads :
       pc[t] = "release" =>
         published.baseline = baseline.entries \/ NothingDerived

\* PublishedInv speaks of the snapshots, the control states and the requests.
LEMMA PublishedFrame ==
  ASSUME TypeOK, PublishedInv, UNCHANGED <<globals, published>>,
         NEW t \in Threads, NEW to \in {"scan", "acquire", "locked", "finish", "idle"},
         pc[t] \notin {"derived", "release"},
         pc' = [pc EXCEPT ![t] = to],
         \A u \in Threads : u # t => request'[u] = request[u]
  PROVE  PublishedInv'
  BY DEF PublishedInv, NothingDerived, Now, globals, TypeOK

LEMMA PublishedStep ==
  TypeOK /\ LockInv /\ PublishedInv /\ [Next]_vars => PublishedInv'
  <1> SUFFICES ASSUME TypeOK, LockInv, PublishedInv, [Next]_vars
               PROVE  PublishedInv'
    OBVIOUS
  <1>1. CASE Load
    BY <1>1 DEF Load, PublishedInv, NothingDerived, Now, globals, locals
  <1>2. CASE Unload
    BY <1>2 DEF Unload, PublishedInv, locals
  <1>3. CASE \E t \in Threads, op \in Ops : Submit(t, op)
    <2> PICK t \in Threads, op \in Ops : Submit(t, op)
      BY <1>3
    <2>1. PICK to \in {"scan", "acquire"} :
            pc[t] = "idle" /\ pc' = [pc EXCEPT ![t] = to]
      BY DEF Submit, GoTo
    <2>2. \A u \in Threads : u # t => request'[u] = request[u]
      BY DEF Submit, TypeOK
    <2> QED
      BY <2>1, <2>2, PublishedFrame DEF Submit
  <1>4. CASE \E t \in Threads : Step(t)
    <2> PICK t \in Threads : Step(t)
      BY <1>4
    <2>1. CASE Scan(t) \/ ScanFails(t) \/ Acquire(t) \/ Finish(t)
      <3>1. PICK to \in {"acquire", "finish", "locked", "idle"} :
              /\ pc[t] \notin {"derived", "release"}
              /\ pc' = [pc EXCEPT ![t] = to]
        BY <2>1 DEF Scan, ScanFails, Acquire, Finish, GoTo
      <3>2. \A u \in Threads : u # t => request'[u] = request[u]
        BY <2>1 DEF Scan, ScanFails, Acquire, Finish, TypeOK
      <3>3. UNCHANGED <<globals, published>>
        BY <2>1 DEF Scan, ScanFails, Acquire, Finish
      <3> QED
        BY <3>1, <3>2, <3>3, PublishedFrame
    <2>2. CASE Release(t)
      BY <2>2, OneInside DEF Release, GoTo, PublishedInv, NothingDerived, Now,
                            globals, TypeOK
    <2> SUFFICES ASSUME pc[t] \in {"locked", "derived"},
                        pc' = [pc EXCEPT ![t] = "derived"]
                          \/ pc' = [pc EXCEPT ![t] = "release"],
                        UNCHANGED <<request, published>>
                 PROVE  PublishedInv'
      BY <2>1, <2>2 DEF Step, GoTo, ReplaceBaseline, FreeDerived,
         ReplaceCurrent, RebuildDiff, RebuildDiffFails, ReadCount, Copy,
         CopyFails, Clear
    <2>3. \A u \in Threads : u # t => pc[u] \notin {"locked", "derived", "release"}
      BY OneInside
    <2>4. pc[t] = "locked" => published = Now
      BY <2>3 DEF PublishedInv, TypeOK
    <2>5. CASE ReplaceBaseline(t)
      BY <2>5, <2>3 DEF ReplaceBaseline, GoTo, PublishedInv, TypeOK
    <2>6. CASE FreeDerived(t) \/ Clear(t)
      BY <2>6, <2>3 DEF FreeDerived, Clear, GoTo, PublishedInv, NothingDerived,
                        NoSnapshot, TypeOK
    <2>7. CASE ReplaceCurrent(t)
      BY <2>7, <2>3, <2>4 DEF ReplaceCurrent, GoTo, PublishedInv, Now, TypeOK
    <2>8. CASE RebuildDiff(t) \/ RebuildDiffFails(t)
      <3>1. published.baseline = baseline.entries
        BY <2>8 DEF RebuildDiff, RebuildDiffFails, GoTo, PublishedInv
      <3> QED
        BY <2>8, <2>3, <3>1 DEF RebuildDiff, RebuildDiffFails, GoTo,
                                PublishedInv, TypeOK
    <2>9. CASE ReadCount(t) \/ Copy(t) \/ CopyFails(t)
      <3>1. published.baseline = baseline.entries
        BY <2>9, <2>4 DEF ReadCount, Copy, CopyFails, GoTo, Now
      <3> QED
        BY <2>9, <2>3, <3>1 DEF ReadCount, Copy, CopyFails, GoTo, PublishedInv,
                                globals, TypeOK
    <2> QED
      BY <2>1, <2>2, <2>5, <2>6, <2>7, <2>8, <2>9 DEF Step
  <1>5. CASE UNCHANGED vars
    BY <1>5 DEF vars, globals, locals, PublishedInv, NothingDerived, Now
  <1> QED
    BY <1>1, <1>2, <1>3, <1>4, <1>5 DEF Next

\* Only Unload and Release publish, and both keep the promise.
LEMMA PublishStep ==
  ASSUME TypeOK, PublishedInv, [Next]_vars,
         published'.baseline # published.baseline
  PROVE  published'.current = NoEntries /\ published'.diff = NoEntries
  <1>1. CASE Unload
    BY <1>1 DEF Unload, Now, NoSnapshot
  <1>2. CASE \E t \in Threads : Release(t)
    BY <1>2 DEF Release, GoTo, PublishedInv, NothingDerived, Now
  <1> SUFFICES ASSUME ~Unload, ~\E t \in Threads : Release(t)
               PROVE  published' = published
    BY <1>1, <1>2
  <1> QED
    BY DEF Next, Step, Load, Submit, Scan, ScanFails, Acquire, ReplaceBaseline,
       FreeDerived, ReplaceCurrent, RebuildDiff, RebuildDiffFails, ReadCount,
       Copy, CopyFails, Clear, Finish, vars

(***************************************************************************)
(* No client ever sees a current snapshot or a diff that belongs to a      *)
(* baseline that has been replaced: a locked section that publishes        *)
(* another baseline publishes nothing derived, for any number of threads.  *)
(***************************************************************************)
THEOREM BaselineRefreshClears == Spec => BaselineChangeDropsDerived
  <1>1. Init => PublishedInv
    BY DEF Init, PublishedInv
  <1>2. TypeOK /\ PublishedInv /\ [Next]_vars =>
          [published'.baseline # published.baseline =>
             published'.current = NoEntries /\ published'.diff = NoEntries]_published
    BY PublishStep
  <1> QED
    BY <1>1, <1>2, PublishedStep, LockExcludes, TypeCorrect, PTL
       DEF Spec, BaselineChangeDropsDerived

-----------------------------------------------------------------------------
(***************************************************************************)
(* The buffers.  EveryBufferIsOwned needs to know when a handler's local   *)
(* snapshot is still, or again, empty: a scan or a copy must not overwrite *)
(* a buffer that nothing else points to.                                   *)
(***************************************************************************)

LocalInv ==
  \A t \in Threads :
    /\ pc[t] = "scan" => request[t].op \in Creates
    /\ pc[t] \in {"idle", "scan"} => snap[t] = NoSnapshot
    /\ pc[t] \in {"acquire", "locked"} /\ request[t].op \notin Creates
         => snap[t] = NoSnapshot

LEMMA LocalStep == TypeOK /\ LocalInv /\ [Next]_vars => LocalInv'
  <1> SUFFICES ASSUME TypeOK, LocalInv, [Next]_vars
               PROVE  LocalInv'
    OBVIOUS
  <1> USE DEF LocalInv, TypeOK, GoTo
  <1>1. CASE Load \/ Unload
    BY <1>1 DEF Load, Unload, locals
  <1>2. CASE \E t \in Threads, op \in Ops : Submit(t, op)
    BY <1>2 DEF Submit
  <1>3. CASE \E t \in Threads : Step(t)
    <2> PICK t \in Threads : Step(t)
      BY <1>3
    <2>1. CASE Scan(t)
      <3>1. request[t].op \in Creates
        BY <2>1 DEF Scan, LocalInv
      <3> QED
        BY <2>1, <3>1 DEF Scan
    <2> QED
      BY <2>1 DEF Step, ScanFails, Acquire, Release, Finish, ReplaceBaseline,
         FreeDerived, ReplaceCurrent, RebuildDiff, RebuildDiffFails, ReadCount,
         Copy, CopyFails, Clear
  <1>4. CASE UNCHANGED vars
    BY <1>4 DEF vars, locals
  <1> QED
    BY <1>1, <1>2, <1>3, <1>4 DEF Next

\* A snapshot that counts no entry has none, and neither has a diff against it.
LEMMA NothingPresent ==
  ASSUME NEW entries \in Contents, Present(entries) = {}
  PROVE  /\ entries = NoEntries
         /\ \A base : DiffOf(base, entries) = NoEntries
  BY DEF Contents, Present, NoEntries, DiffOf

(***************************************************************************)
(* One step per action that allocates, moves or frees a buffer: a buffer   *)
(* fresh from the pool has no other owner, a moved one leaves its old      *)
(* owner with none, and a freed one had the one owner that lets it go.     *)
(***************************************************************************)
LEMMA OwnershipStep ==
  TypeOK /\ LocalInv /\ EveryBufferIsOwned /\ [Next]_vars => EveryBufferIsOwned'
  <1> SUFFICES ASSUME TypeOK, LocalInv, EveryBufferIsOwned, [Next]_vars
               PROVE  EveryBufferIsOwned'
    OBVIOUS
  <1>1. CASE Load \/ Unload
    BY <1>1, NoBufNotBuf DEF Load, Unload, globals, locals, NoSnapshot, Freed,
                             EveryBufferIsOwned, TypeOK
  <1>2. CASE \E t \in Threads, op \in Ops : Submit(t, op)
    BY <1>2 DEF Submit, globals, EveryBufferIsOwned
  <1>3. CASE \E t \in Threads : Step(t)
    <2> PICK t \in Threads : Step(t)
      BY <1>3
    <2>1. CASE Scan(t)
      BY <2>1, NoBufNotBuf DEF Scan, Stamp, NoSnapshot, NoEntries, LocalInv,
         EveryBufferIsOwned, TypeOK, GoTo, globals, Allocations
    <2>2. CASE \/ ScanFails(t) \/ Acquire(t) \/ Release(t)
               \/ ReadCount(t) \/ CopyFails(t)
      BY <2>2 DEF ScanFails, Acquire, Release, ReadCount, CopyFails, globals,
                  EveryBufferIsOwned
    <2>3. CASE ReplaceBaseline(t)
      BY <2>3, NoBufNotBuf DEF ReplaceBaseline, Freed, NoSnapshot,
                               EveryBufferIsOwned, TypeOK
    <2>4. CASE ReplaceCurrent(t)
      BY <2>4, NoBufNotBuf DEF ReplaceCurrent, Freed, NoSnapshot,
                               EveryBufferIsOwned, TypeOK
    <2>5. CASE FreeDerived(t)
      BY <2>5, NoBufNotBuf DEF FreeDerived, Freed, NoSnapshot,
                               EveryBufferIsOwned, TypeOK
    <2>6. CASE Clear(t)
      BY <2>6, NoBufNotBuf DEF Clear, Freed, NoSnapshot,
                               EveryBufferIsOwned, TypeOK
    <2>7. CASE RebuildDiffFails(t)
      BY <2>7, NoBufNotBuf DEF RebuildDiffFails, Freed, NoSnapshot,
                               EveryBufferIsOwned, TypeOK
    <2>8. CASE RebuildDiff(t)
      <3>1. PICK b \in Allocations(live \ Freed(diff),
                                   Present(current.entries) = {}) :
              /\ diff' = [buf |-> b,
                          entries |-> DiffOf(baseline.entries, current.entries)]
              /\ live' = (live \ Freed(diff)) \cup ({b} \ {NoBuf})
        BY <2>8 DEF RebuildDiff
      <3>2. b = NoBuf \/ b \in Bufs \ (live \ Freed(diff))
        BY DEF Allocations
      <3>3. b = NoBuf => diff'.entries = NoEntries
        BY <3>1, NoBufNotBuf, NothingPresent DEF Allocations, TypeOK, Snapshot
      <3>4. diff'.buf = b /\ UNCHANGED <<baseline, current, snap>>
        BY <2>8, <3>1 DEF RebuildDiff
      <3> QED
        BY <3>1, <3>2, <3>3, <3>4, NoBufNotBuf
           DEF Freed, EveryBufferIsOwned, TypeOK
    <2>9. CASE Copy(t)
      <3> DEFINE entries == Target(request[t].op).entries
      <3>1. PICK b \in Allocations(live, Present(entries) = {}) :
              /\ snap' = [snap EXCEPT ![t] = [buf |-> b, entries |-> entries]]
              /\ live' = live \cup ({b} \ {NoBuf})
        BY <2>9 DEF Copy
      <3>2. b = NoBuf \/ b \in Bufs \ live
        BY DEF Allocations
      <3>3. entries \in Contents
        BY DEF Target, TypeOK, Snapshot
      <3>4. b = NoBuf => entries = NoEntries
        BY <3>3, NoBufNotBuf, NothingPresent DEF Allocations
      <3>5. snap[t].buf = NoBuf
        BY <2>9 DEF Copy, GoTo, LocalInv, NoSnapshot, Creates, Copies
      <3>6. UNCHANGED globals
        BY <2>9 DEF Copy
      <3> HIDE DEF entries
      <3> QED
        BY <3>1, <3>2, <3>4, <3>5, <3>6, NoBufNotBuf
           DEF globals, EveryBufferIsOwned, TypeOK
    <2>10. CASE Finish(t)
      BY <2>10, NoBufNotBuf DEF Finish, Freed, NoSnapshot, EveryBufferIsOwned,
                                TypeOK, globals
    <2> QED
      BY <2>1, <2>2, <2>3, <2>4, <2>5, <2>6, <2>7, <2>8, <2>9, <2>10 DEF Step
  <1>4. CASE UNCHANGED vars
    BY <1>4 DEF vars, globals, locals, EveryBufferIsOwned
  <1> QED
    BY <1>1, <1>2, <1>3, <1>4 DEF Next

\* When the driver is not loaded, no request is in it.
UnloadedInv ==
  ~loaded => /\ baseline = NoSnapshot /\ current = NoSnapshot
             /\ diff = NoSnapshot
             /\ \A t \in Threads : pc[t] = "idle"

LEMMA UnloadedStep == TypeOK /\ UnloadedInv /\ [Next]_vars => UnloadedInv'
  <1> SUFFICES ASSUME TypeOK, UnloadedInv, [Next]_vars
               PROVE  UnloadedInv'
    OBVIOUS
  <1> USE DEF UnloadedInv
  <1>1. CASE Load \/ Unload
    BY <1>1 DEF Load, Unload, locals
  <1>2. CASE \E t \in Threads, op \in Ops : Submit(t, op)
    BY <1>2 DEF Submit
  <1>3. CASE \E t \in Threads : Step(t)
    BY <1>3 DEF Step, GoTo, Scan, ScanFails, Acquire, ReplaceBaseline,
       FreeDerived, ReplaceCurrent, RebuildDiff, RebuildDiffFails, ReadCount,
       Copy, CopyFails, Clear, Release, Finish
  <1>4. CASE UNCHANGED vars
    BY <1>4 DEF vars, globals, locals
  <1> QED
    BY <1>1, <1>2, <1>3, <1>4 DEF Next

(***************************************************************************)
(* No path of the snapshot handlers leaks a buffer, frees one twice or     *)
(* uses one after its free, for any number of threads and buffers and      *)
(* whichever allocations and scans fail; and a driver that has been        *)
(* unloaded holds no memory: DriverUnloadRoutine frees the three global    *)
(* snapshots, and no handler was left to own more.                         *)
(***************************************************************************)
THEOREM BuffersAreOwned == Spec => []BufferOwnership
  <1>1. Init => EveryBufferIsOwned /\ UnloadedInv /\ LocalInv
    BY DEF Init, EveryBufferIsOwned, UnloadedInv, LocalInv, NoSnapshot
  <1>2. EveryBufferIsOwned /\ LocalInv /\ UnloadedInv => BufferOwnership
    BY DEF EveryBufferIsOwned, LocalInv, UnloadedInv, UnloadFreesEverything,
           BufferOwnership, NoSnapshot
  <1> QED
    BY <1>1, <1>2, LocalStep, UnloadedStep, OwnershipStep, TypeCorrect, PTL
       DEF Spec

=============================================================================
