--------------------------- MODULE PoolStoreProofs ---------------------------
(***************************************************************************)
(* The driver's snapshot handlers implement the store of SnapshotStore,    *)
(* and the snapshots it holds are of different scans: theorems for any     *)
(* number of threads, allocations, buffers and snapshot ids.               *)
(***************************************************************************)
EXTENDS PoolSnapshotsProofs

-----------------------------------------------------------------------------
(***************************************************************************)
(* The snapshot ids.  Two scans of one load of the driver have different   *)
(* ids: that is inductive only together with the ids which are on their    *)
(* way, drawn by a create request that has not yet committed its snapshot. *)
(***************************************************************************)

\* The snapshot ids of a snapshot's entries.
Sids(entries) == {entries[i].sid : i \in Present(entries)}

\* The request of thread t has drawn an id and has not used it up.
Draws(t) ==
  pc[t] \in {"scan", "acquire", "locked"} /\ request[t].op \in Creates

ScanIdsInv ==
  /\ \A t \in Threads : Draws(t) =>
       /\ request[t].sid <= nextId
       /\ request[t].sid \notin Sids(baseline.entries) \cup Sids(current.entries)
       /\ Sids(snap[t].entries) \subseteq {request[t].sid}
  /\ \A t, u \in Threads :
       t # u /\ Draws(t) /\ Draws(u) => request[t].sid # request[u].sid
  /\ \A n \in Sids(baseline.entries) \cup Sids(current.entries) : n <= nextId
  /\ Sids(baseline.entries) \cap Sids(current.entries) = {}

\* No entries, no ids; and a scan stamps all of its entries with its own id.
LEMMA SidsOfNone == Sids(NoEntries) = {}
  BY DEF Sids, Present, NoEntries

LEMMA SidsOfScan ==
  ASSUME NEW seen, NEW sid
  PROVE  Sids(Stamp(seen, sid)) \subseteq {sid}
  BY DEF Sids, Present, Stamp

\* A step that draws no id and uses none up.
LEMMA ScanIdsFrame ==
  ASSUME ScanIdsInv, UNCHANGED <<baseline, current, nextId, request, snap>>,
         \A t \in Threads : pc'[t] \in {"scan", "acquire", "locked"} =>
                            pc[t] \in {"scan", "acquire", "locked"}
  PROVE  ScanIdsInv'
  BY DEF ScanIdsInv, Draws

LEMMA ScanIdsSubmit ==
  ASSUME TypeOK, LocalInv, ScanIdsInv, NEW t \in Threads, NEW op \in Ops,
         Submit(t, op)
  PROVE  ScanIdsInv'
  <1> USE DEF TypeOK, GoTo
  <1>1. UNCHANGED <<baseline, current, snap>>
    BY DEF Submit, globals
  <1>2. \A u \in Threads : u # t => pc'[u] = pc[u] /\ request'[u] = request[u]
    BY DEF Submit
  <1>3. nextId \in Nat /\ \A u \in Threads : request[u].sid \in Nat
    BY MaxIdNat
  <1>4. CASE op \in Creates
    <2>1. nextId' = nextId + 1 /\ request'[t].sid = nextId + 1
      BY <1>4 DEF Submit
    <2>2. Sids(snap[t].entries) = {}
      BY SidsOfNone DEF Submit, LocalInv, NoSnapshot
    <2>3. \A n \in Sids(baseline.entries) \cup Sids(current.entries) :
            n <= nextId /\ n \in Nat
      BY DEF ScanIdsInv, Sids, Present, Snapshot, Contents, Entry
    <2>4. \A u \in Threads : u # t /\ Draws(u)' => Draws(u)
      BY <1>2 DEF Draws
    <2>5. ~Draws(t)
      BY DEF Draws, Submit
    <2>6. \A n \in Sids(baseline.entries) \cup Sids(current.entries) :
            n <= nextId' /\ n # nextId'
      BY <1>3, <2>1, <2>3
    <2>7. \A u \in Threads : u # t /\ Draws(u)' =>
            request[u].sid <= nextId' /\ request[u].sid # nextId'
      BY <1>3, <2>1, <2>4 DEF ScanIdsInv
    <2>8. nextId' <= nextId'
      BY <1>3, <2>1
    <2>9. \A u \in Threads : u # t /\ Draws(u)' =>
            /\ request[u].sid \notin Sids(baseline.entries) \cup Sids(current.entries)
            /\ Sids(snap[u].entries) \subseteq {request[u].sid}
      BY <2>4 DEF ScanIdsInv
    <2>10. \A u \in Threads : Draws(u)' =>
            /\ request'[u].sid <= nextId'
            /\ request'[u].sid \notin Sids(baseline.entries) \cup Sids(current.entries)
            /\ Sids(snap[u].entries) \subseteq {request'[u].sid}
      <3> SUFFICES ASSUME NEW u \in Threads, Draws(u)'
                   PROVE  /\ request'[u].sid <= nextId'
                          /\ request'[u].sid \notin
                               Sids(baseline.entries) \cup Sids(current.entries)
                          /\ Sids(snap[u].entries) \subseteq {request'[u].sid}
        OBVIOUS
      <3>1. CASE u = t
        BY <2>1, <2>2, <2>6, <2>8, <3>1
      <3>2. CASE u # t
        <4>1. request'[u] = request[u]
          BY <1>2, <3>2
        <4> QED
          BY <2>7, <2>9, <3>2, <4>1
      <3> QED
        BY <3>1, <3>2
    <2>11. \A u, v \in Threads :
             u # v /\ Draws(u)' /\ Draws(v)' => request'[u].sid # request'[v].sid
      <3> SUFFICES ASSUME NEW u \in Threads, NEW v \in Threads, u # v, Draws(u)', Draws(v)'
                   PROVE  request'[u].sid # request'[v].sid
        OBVIOUS
      <3>1. CASE u = t
        BY <1>2, <2>1, <2>7, <3>1
      <3>2. CASE v = t
        BY <1>2, <2>1, <2>7, <3>2
      <3>3. CASE u # t /\ v # t
        <4>1. Draws(u) /\ Draws(v)
          BY <2>4, <3>3
        <4>2. request'[u] = request[u] /\ request'[v] = request[v]
          BY <1>2, <3>3
        <4> QED
          BY <4>1, <4>2 DEF ScanIdsInv
      <3> QED
        BY <3>1, <3>2, <3>3
    <2>12. Sids(baseline.entries) \cap Sids(current.entries) = {}
      BY DEF ScanIdsInv
    <2> QED
      BY <1>1, <2>6, <2>10, <2>11, <2>12 DEF ScanIdsInv
  <1>5. CASE op \notin Creates
    <2>1. UNCHANGED nextId /\ ~Draws(t)'
      BY <1>5 DEF Submit, Draws
    <2>2. \A u \in Threads : u # t /\ Draws(u)' => Draws(u)
      BY <1>2 DEF Draws
    <2> QED
      BY <1>1, <1>2, <2>1, <2>2 DEF ScanIdsInv
  <1> QED
    BY <1>4, <1>5

LEMMA ScanIdsStep ==
  TypeOK /\ LocalInv /\ UnloadedInv /\ ScanIdsInv /\ [Next]_vars => ScanIdsInv'
  <1> SUFFICES ASSUME TypeOK, LocalInv, UnloadedInv, ScanIdsInv, [Next]_vars
               PROVE  ScanIdsInv'
    OBVIOUS
  <1>1. CASE Load
    <2>1. Sids(baseline.entries) = {} /\ Sids(current.entries) = {}
      BY <1>1, SidsOfNone DEF Load, UnloadedInv, NoSnapshot
    <2>2. \A t \in Threads : ~Draws(t)'
      BY <1>1 DEF Load, UnloadedInv, Draws, locals
    <2> QED
      BY <1>1, <2>1, <2>2 DEF Load, ScanIdsInv, globals
  <1>2. CASE Unload
    <2>1. \A t \in Threads : ~Draws(t)'
      BY <1>2 DEF Unload, Draws, locals
    <2> QED
      BY <1>2, <2>1, SidsOfNone DEF Unload, ScanIdsInv, NoSnapshot
  <1>3. CASE \E t \in Threads, op \in Ops : Submit(t, op)
    BY <1>3, ScanIdsSubmit
  <1>4. CASE \E t \in Threads : Step(t)
    <2> PICK t \in Threads : Step(t)
      BY <1>4
    <2>1. CASE Scan(t)
      <3>1. PICK seen \in Observations, b \in Bufs \cup {NoBuf} :
              snap' = [snap EXCEPT
                ![t] = [buf |-> b, entries |-> Stamp(seen, request[t].sid)]]
        BY <2>1, AllocationsType DEF Scan
      <3>2. Sids(snap'[t].entries) \subseteq {request[t].sid}
        BY <3>1, SidsOfScan DEF TypeOK
      <3>3. \A u \in Threads : Draws(u)' <=> Draws(u)
        BY <2>1 DEF Scan, Draws, TypeOK, GoTo
      <3>4. UNCHANGED <<baseline, current, nextId, request>>
        BY <2>1 DEF Scan, globals
      <3>5. \A u \in Threads : u # t => snap'[u] = snap[u]
        BY <3>1 DEF TypeOK
      <3> QED
        BY <3>2, <3>3, <3>4, <3>5 DEF ScanIdsInv
    <2>2. CASE ScanFails(t) \/ Acquire(t) \/ Release(t) \/ ReadCount(t)
               \/ CopyFails(t) \/ RebuildDiff(t) \/ RebuildDiffFails(t)
      BY <2>2, ScanIdsFrame DEF ScanFails, Acquire, Release, ReadCount,
         CopyFails, RebuildDiff, RebuildDiffFails, globals, TypeOK, GoTo
    <2>3. CASE ReplaceBaseline(t) \/ ReplaceCurrent(t)
      <3>1. pc[t] = "locked" /\ Draws(t) /\ ~Draws(t)'
        BY <2>3 DEF ReplaceBaseline, ReplaceCurrent, Draws, Creates,
           TypeOK, GoTo
      <3>2. \A u \in Threads :
              u # t => snap'[u] = snap[u] /\ (Draws(u)' <=> Draws(u))
        BY <2>3 DEF ReplaceBaseline, ReplaceCurrent, Draws, TypeOK, GoTo
      <3>3. UNCHANGED <<nextId, request>>
        BY <2>3 DEF ReplaceBaseline, ReplaceCurrent
      <3>4. \/ baseline' = snap[t] /\ UNCHANGED current
            \/ current' = snap[t] /\ UNCHANGED baseline
        BY <2>3 DEF ReplaceBaseline, ReplaceCurrent
      <3>5. /\ Sids(snap[t].entries) \subseteq {request[t].sid}
            /\ request[t].sid <= nextId
            /\ request[t].sid \notin Sids(baseline.entries) \cup Sids(current.entries)
            /\ \A u \in Threads : u # t /\ Draws(u) => request[u].sid # request[t].sid
        BY <3>1 DEF ScanIdsInv
      <3>6. \A u \in Threads : Draws(u)' => u # t /\ Draws(u)
        BY <3>1, <3>2
      <3>7. CASE baseline' = snap[t] /\ UNCHANGED current
        <4>1. /\ Sids(baseline'.entries) \subseteq {request[t].sid}
              /\ Sids(current'.entries) = Sids(current.entries)
          BY <3>5, <3>7
        <4> QED
          BY <3>2, <3>3, <3>5, <3>6, <4>1 DEF ScanIdsInv
      <3>8. CASE current' = snap[t] /\ UNCHANGED baseline
        <4>1. /\ Sids(current'.entries) \subseteq {request[t].sid}
              /\ Sids(baseline'.entries) = Sids(baseline.entries)
          BY <3>5, <3>8
        <4> QED
          BY <3>2, <3>3, <3>5, <3>6, <4>1 DEF ScanIdsInv
      <3> QED
        BY <3>4, <3>7, <3>8
    <2>4. CASE FreeDerived(t) \/ Clear(t)
      <3>1. \A u \in Threads : Draws(u)' => Draws(u)
        BY <2>4 DEF FreeDerived, Clear, Draws, TypeOK, GoTo
      <3>2. /\ Sids(baseline'.entries) \in {Sids(baseline.entries), {}}
            /\ Sids(current'.entries) = {}
        BY <2>4, SidsOfNone DEF FreeDerived, Clear, NoSnapshot
      <3>3. UNCHANGED <<nextId, request, snap>>
        BY <2>4 DEF FreeDerived, Clear
      <3> QED
        BY <3>1, <3>2, <3>3 DEF ScanIdsInv
    <2>5. CASE Copy(t) \/ Finish(t)
      <3>1. \A u \in Threads : Draws(u)' =>
              Draws(u) /\ u # t /\ snap'[u] = snap[u] /\ request'[u] = request[u]
        BY <2>5 DEF Copy, Finish, Draws, TypeOK, GoTo
      <3>2. UNCHANGED <<baseline, current, nextId>>
        BY <2>5 DEF Copy, Finish, globals
      <3> QED
        BY <3>1, <3>2 DEF ScanIdsInv
    <2> QED
      BY <2>1, <2>2, <2>3, <2>4, <2>5 DEF Step
  <1>5. CASE UNCHANGED vars
    BY <1>5, ScanIdsFrame DEF vars, globals, locals
  <1> QED
    BY <1>1, <1>2, <1>3, <1>4, <1>5 DEF Next

(***************************************************************************)
(* The baseline and the current snapshot are of different scans, for any   *)
(* number of create requests at once: an id that is drawn before the lock  *)
(* is taken is still drawn only once.                                      *)
(***************************************************************************)
THEOREM DifferentScans == Spec => []SnapshotsAreOfDifferentScans
  <1>1. Init => LocalInv /\ UnloadedInv /\ ScanIdsInv
    BY SidsOfNone DEF Init, LocalInv, UnloadedInv, ScanIdsInv, Draws, NoSnapshot
  <1>2. ScanIdsInv => SnapshotsAreOfDifferentScans
    BY DEF ScanIdsInv, SnapshotsAreOfDifferentScans, Sids
  <1> QED
    BY <1>1, <1>2, LocalStep, UnloadedStep, ScanIdsStep, TypeCorrect, PTL
       DEF Spec

-----------------------------------------------------------------------------
(***************************************************************************)
(* What a handler has in its hands: what it scanned, what it replaced, and *)
(* what it will answer.  At the release the store of the abstract          *)
(* specification has to go from what was published to what is there now in *)
(* one step, whose answer is the handler's.                                *)
(***************************************************************************)

\* The entries are what a scan under thread t's snapshot id has made.
Scanned(t, entries) ==
  \E seen \in Observations : entries = Stamp(seen, request[t].sid)

Replaced(t) ==
  /\ Scanned(t, IF request[t].op = "createBaseline" THEN baseline.entries
                                                    ELSE current.entries)
  /\ request[t].op \in Creates

\* From published to Now in the one step of the store that answers this.
Effect(t) ==
  \/ /\ request[t].op = "createBaseline"
     /\ Scanned(t, baseline.entries)
     /\ NothingDerived
     /\ answer[t] = Ok(Count(baseline.entries), NoEntries)
  \/ /\ request[t].op = "createCurrent"
     /\ Scanned(t, current.entries)
     /\ published.baseline = baseline.entries
     /\ \/ /\ diff.entries = DiffOf(baseline.entries, current.entries)
           /\ answer[t] = Ok(Count(diff.entries), NoEntries)
        \/ diff.entries = NoEntries /\ answer[t] = Error
  \/ /\ request[t].op \in Counts
     /\ published = Now
     /\ answer[t] = Ok(Count(Target(request[t].op).entries), NoEntries)
  \/ /\ request[t].op \in Copies
     /\ published = Now
     /\ answer[t] \in {Ok(Count(Target(request[t].op).entries),
                          Target(request[t].op).entries), Error}
  \/ /\ request[t].op = "clear"
     /\ NothingDerived /\ baseline.entries = NoEntries
     /\ answer[t] = Ok(Count(published.baseline) + Count(published.current)
                         + Count(published.diff), NoEntries)

ServeInvOf(t) ==
  /\ pc[t] \in {"acquire", "locked"} /\ request[t].op \in Creates
       => Scanned(t, snap[t].entries)
  /\ pc[t] = "derived" => Replaced(t)
  /\ pc[t] = "release" => Effect(t)

ServeInv == \A t \in Threads : ServeInvOf(t)

\* Another thread's part is left alone by a step that leaves the globals
\* alone, and by any step while it is outside the locked section.
LEMMA ServeOther ==
  ASSUME NEW u \in Threads, ServeInvOf(u),
         pc'[u] = pc[u], request'[u] = request[u], snap'[u] = snap[u],
         answer'[u] = answer[u],
         \/ UNCHANGED <<globals, published>>
         \/ pc[u] \notin {"derived", "release"}
  PROVE  ServeInvOf(u)'
  BY DEF ServeInvOf, Scanned, Replaced, Effect, NothingDerived, Now, Target, globals

\* A step of thread t is none of thread u.
LEMMA StepIsLocal ==
  ASSUME TypeOK, NEW t \in Threads, NEW u \in Threads, t # u,
         Step(t) \/ \E op \in Ops : Submit(t, op)
  PROVE  /\ pc'[u] = pc[u] /\ request'[u] = request[u]
         /\ snap'[u] = snap[u] /\ answer'[u] = answer[u]
  BY DEF Step, Submit, Scan, ScanFails, Acquire, ReplaceBaseline, FreeDerived,
     ReplaceCurrent, RebuildDiff, RebuildDiffFails, ReadCount, Copy, CopyFails,
     Clear, Release, Finish, GoTo, Replies, TypeOK

\* Only the owner of the lock changes the snapshots or what is published.
LEMMA StepOutside ==
  ASSUME NEW t \in Threads, pc[t] \notin {"locked", "derived", "release"},
         Step(t) \/ \E op \in Ops : Submit(t, op)
  PROVE  UNCHANGED <<globals, published>>
  BY DEF Step, Submit, Scan, ScanFails, Acquire, ReplaceBaseline, FreeDerived,
     ReplaceCurrent, RebuildDiff, RebuildDiffFails, ReadCount, Copy, CopyFails,
     Clear, Release, Finish, GoTo, globals

LEMMA ServeOwn ==
  ASSUME TypeOK, LockInv, PublishedInv, LocalInv, ServeInv,
         NEW t \in Threads, Step(t) \/ \E op \in Ops : Submit(t, op)
  PROVE  ServeInvOf(t)'
  <1> USE DEF TypeOK, GoTo, Replies
  <1>1. CASE \E op \in Ops : Submit(t, op)
    BY <1>1 DEF Submit, ServeInvOf
  <1>2. CASE Scan(t)
    <2>1. PICK seen \in Observations, b \in Bufs \cup {NoBuf} :
            snap' = [snap EXCEPT
              ![t] = [buf |-> b, entries |-> Stamp(seen, request[t].sid)]]
      BY <1>2, AllocationsType DEF Scan
    <2>2. pc'[t] = "acquire" /\ request' = request
      BY <1>2 DEF Scan
    <2>3. snap'[t].entries = Stamp(seen, request'[t].sid)
      BY <2>1, <2>2
    <2> QED
      BY <2>2, <2>3 DEF ServeInvOf, Scanned
  <1>3. CASE ScanFails(t) \/ Release(t) \/ Finish(t)
    BY <1>3 DEF ScanFails, Release, Finish, ServeInvOf
  <1>4. CASE Acquire(t)
    BY <1>4 DEF Acquire, ServeInv, ServeInvOf, Scanned
  <1>5. CASE ReplaceBaseline(t) \/ ReplaceCurrent(t)
    <2>1. Scanned(t, snap[t].entries)
      BY <1>5 DEF ReplaceBaseline, ReplaceCurrent, ServeInv, ServeInvOf, Creates
    <2> QED
      BY <1>5, <2>1 DEF ReplaceBaseline, ReplaceCurrent, ServeInvOf, Replaced,
                        Scanned, Creates
  <1>6. CASE FreeDerived(t)
    <2>1. Scanned(t, baseline.entries)
      BY <1>6 DEF FreeDerived, ServeInv, ServeInvOf, Replaced
    <2> QED
      BY <1>6, <2>1 DEF FreeDerived, ServeInvOf, Effect, Scanned,
                        NothingDerived, NoSnapshot
  <1>7. CASE RebuildDiff(t) \/ RebuildDiffFails(t)
    <2>1. /\ Scanned(t, current.entries)
          /\ published.baseline = baseline.entries
          /\ pc'[t] = "release" /\ request[t].op = "createCurrent"
          /\ UNCHANGED <<baseline, current, request, published>>
      BY <1>7 DEF RebuildDiff, RebuildDiffFails, ServeInv, ServeInvOf, Replaced,
                  PublishedInv
    <2>2. \/ /\ diff'.entries = DiffOf(baseline.entries, current.entries)
             /\ answer'[t] = Ok(Count(diff'.entries), NoEntries)
          \/ diff'.entries = NoEntries /\ answer'[t] = Error
      BY <1>7 DEF RebuildDiff, RebuildDiffFails, NoSnapshot
    <2> QED
      BY <2>1, <2>2 DEF ServeInvOf, Effect, Scanned
  <1>8. CASE ReadCount(t) \/ Copy(t) \/ CopyFails(t) \/ Clear(t)
    <2>1. pc[t] = "locked" /\ pc'[t] = "release" /\ UNCHANGED <<request, published>>
      BY <1>8 DEF ReadCount, Copy, CopyFails, Clear
    <2>2. published = Now
      BY <2>1, OneInside DEF PublishedInv
    <2>3. CASE Clear(t)
      BY <2>1, <2>2, <2>3 DEF Clear, ServeInvOf, Effect, NothingDerived, NoSnapshot, Now
    <2>4. CASE ReadCount(t)
      BY <2>1, <2>2, <2>4 DEF ReadCount, ServeInvOf, Effect, Now, Target, globals
    <2>5. CASE Copy(t) \/ CopyFails(t)
      <3>1. UNCHANGED globals /\ request[t].op \in Copies
        BY <2>5 DEF Copy, CopyFails
      <3>2. answer'[t] \in {Ok(Count(Target(request[t].op).entries),
                               Target(request[t].op).entries), Error}
        BY <2>5 DEF Copy, CopyFails
      <3> QED
        BY <2>1, <2>2, <3>1, <3>2 DEF ServeInvOf, Effect, Now, Target, globals
    <2> QED
      BY <1>8, <2>3, <2>4, <2>5
  <1> QED
    BY <1>1, <1>2, <1>3, <1>4, <1>5, <1>6, <1>7, <1>8 DEF Step

LEMMA ServeStep ==
  /\ TypeOK /\ LockInv /\ PublishedInv /\ LocalInv /\ UnloadedInv /\ ServeInv
  /\ [Next]_vars
  => ServeInv'
  <1> SUFFICES ASSUME TypeOK, LockInv, PublishedInv, LocalInv, UnloadedInv,
                      ServeInv, [Next]_vars
               PROVE  ServeInv'
    OBVIOUS
  <1>1. CASE Load \/ Unload
    BY <1>1 DEF Load, Unload, UnloadedInv, locals, ServeInv, ServeInvOf
  <1>2. CASE \E t \in Threads : Step(t) \/ \E op \in Ops : Submit(t, op)
    <2> PICK t \in Threads : Step(t) \/ \E op \in Ops : Submit(t, op)
      BY <1>2
    <2>1. ASSUME NEW u \in Threads, u # t
          PROVE  ServeInvOf(u)'
      <3>1. \/ UNCHANGED <<globals, published>>
            \/ pc[u] \notin {"derived", "release"}
        BY <2>1, OneInside, StepOutside
      <3> QED
        BY <2>1, <3>1, StepIsLocal, ServeOther DEF ServeInv
    <2> QED
      BY <2>1, ServeOwn DEF ServeInv
  <1>3. CASE UNCHANGED vars
    BY <1>3, ServeOther DEF vars, locals, ServeInv
  <1> QED
    BY <1>1, <1>2, <1>3 DEF Next

-----------------------------------------------------------------------------
(***************************************************************************)
(* The refinement.  Every step of a handler maps to a step of the store or *)
(* to a stutter: Submit is Call, Release is the Serve of its operation,    *)
(* ScanFails is ServeError, Finish is Return, and what happens between is  *)
(* not seen.                                                               *)
(***************************************************************************)

\* The store has the operators of the entries, and of the requests, too.
LEMMA StoreOperators ==
  /\ Store!NoRequest = NoRequest /\ Store!NoReply = NoReply
  /\ Store!Error = Error
  /\ \A n, entries : Store!Ok(n, entries) = Ok(n, entries)
  /\ \A entries : Store!Count(entries) = Count(entries)
  /\ \A seen, sid : Store!Stamp(seen, sid) = Stamp(seen, sid)
  /\ \A base, cur : Store!DiffOf(base, cur) = DiffOf(base, cur)
  /\ Store!NoEntries = NoEntries
  /\ Store!Ops = Ops /\ Store!Creates = Creates /\ Store!Counts = Counts
  /\ Store!Copies = Copies
  <1>1. \A S : Store!Cardinality(S) = Cardinality(S)
    BY DEF Store!Cardinality, Cardinality
  <1>2. \A entries : Store!Present(entries) = Present(entries)
    BY DEF Store!Present, Present
  <1>3. \A base, cur : Store!DiffOf(base, cur) = DiffOf(base, cur)
    BY DEF Store!DiffOf, DiffOf, Store!EntryContentHashChanged,
           EntryContentHashChanged
  <1>4. Store!NoEntries = NoEntries
    BY DEF Store!NoEntries, NoEntries
  <1>5. /\ Store!NoReply = NoReply
        /\ Store!Error = Error
        /\ \A n, entries : Store!Ok(n, entries) = Ok(n, entries)
    BY <1>4 DEF Store!NoReply, NoReply, Store!Error, Error, Store!Ok, Ok
  <1> QED
    BY <1>1, <1>2, <1>3, <1>4, <1>5
       DEF Store!NoRequest, NoRequest, Store!Count, Count, Store!Stamp, Stamp,
           Store!Ops, Ops, Store!Creates, Creates, Store!Counts, Counts,
           Store!Copies, Copies

\* What the store is between two requests, and what a request reads of it.
LEMMA StoreContents ==
  /\ baseline.entries = NoEntries /\ NothingDerived <=> Now = Store!EmptyStore
  /\ \A op : Store!ReadBy(op, Now) = Target(op).entries
  BY StoreOperators DEF Now, NothingDerived, Store!EmptyStore, Store!ReadBy, Target

\* The phase of a thread by its control state.
PhaseOf(control) ==
  IF control = "idle" THEN "idle" ELSE IF control = "finish" THEN "served"
  ELSE "called"

LEMMA PhaseIs == StorePhase = [t \in Threads |-> PhaseOf(pc[t])]
  BY DEF StorePhase, PhaseOf

\* A thread's own move changes its own phase.
LEMMA PhaseMoves ==
  ASSUME TypeOK, NEW t \in Threads, NEW from, NEW to, GoTo(t, from, to)
  PROVE  /\ StorePhase[t] = PhaseOf(from)
         /\ StorePhase' = [StorePhase EXCEPT ![t] = PhaseOf(to)]
  <1>1. StorePhase' = [u \in Threads |-> PhaseOf(pc'[u])]
    BY DEF StorePhase, PhaseOf
  <1> QED
    BY <1>1, PhaseIs DEF GoTo, TypeOK

\* A handler that has not finished has nothing to answer yet.
LEMMA ReplyMoves ==
  ASSUME TypeOK, NEW t \in Threads, NEW from, NEW to, GoTo(t, from, to),
         \A u \in Threads : u # t => answer'[u] = answer[u]
  PROVE  StoreReply' =
           [StoreReply EXCEPT ![t] = IF to = "finish" THEN answer'[t] ELSE NoReply]
  <1>1. /\ StoreReply = [u \in Threads |->
                           IF pc[u] = "finish" THEN answer[u] ELSE NoReply]
        /\ StoreReply' = [u \in Threads |->
                            IF pc'[u] = "finish" THEN answer'[u] ELSE NoReply]
    BY DEF StoreReply
  <1> QED
    BY <1>1 DEF GoTo, TypeOK

\* What happens inside a handler, the store does not see.
LEMMA InnerStep ==
  ASSUME TypeOK, NEW t \in Threads,
         \/ Scan(t) \/ Acquire(t) \/ ReplaceBaseline(t) \/ FreeDerived(t)
         \/ ReplaceCurrent(t) \/ RebuildDiff(t) \/ RebuildDiffFails(t)
         \/ ReadCount(t) \/ Copy(t) \/ CopyFails(t) \/ Clear(t)
  PROVE  UNCHANGED Store!vars
  <1>1. PICK from, to \in {"scan", "acquire", "locked", "derived", "release"} :
          GoTo(t, from, to)
    BY DEF Scan, Acquire, ReplaceBaseline, FreeDerived, ReplaceCurrent,
       RebuildDiff, RebuildDiffFails, ReadCount, Copy, CopyFails, Clear
  <1>2. /\ UNCHANGED <<loaded, published, nextId, request>>
        /\ \A u \in Threads : u # t => answer'[u] = answer[u]
    BY DEF Scan, Acquire, ReplaceBaseline, FreeDerived, ReplaceCurrent,
       RebuildDiff, RebuildDiffFails, ReadCount, Copy, CopyFails, Clear,
       Replies, TypeOK
  <1>3. /\ StorePhase \in [Threads -> {"idle", "served", "called"}]
        /\ StorePhase[t] = "called"
        /\ StorePhase' = [StorePhase EXCEPT ![t] = "called"]
    BY <1>1, PhaseMoves, PhaseIs DEF PhaseOf
  <1>4. /\ StoreReply = [StoreReply EXCEPT ![t] = NoReply]
        /\ StoreReply' = [StoreReply EXCEPT ![t] = NoReply]
    BY <1>1, <1>2, ReplyMoves DEF StoreReply, GoTo
  <1> QED
    BY <1>2, <1>3, <1>4 DEF Store!vars

LEMMA SubmitIsCall ==
  ASSUME TypeOK, NEW t \in Threads, NEW op \in Ops, Submit(t, op)
  PROVE  Store!Call(t, op)
  <1>1. PICK to \in {"scan", "acquire"} : GoTo(t, "idle", to)
    BY DEF Submit
  <1>2. UNCHANGED <<loaded, published, answer>>
    BY DEF Submit
  <1>3. StorePhase[t] = "idle" /\ StorePhase' = [StorePhase EXCEPT ![t] = "called"]
    BY <1>1, PhaseMoves DEF PhaseOf
  <1>4. UNCHANGED StoreReply
    <2>1. StoreReply' = [StoreReply EXCEPT ![t] = NoReply]
      BY <1>1, <1>2, ReplyMoves
    <2>2. StoreReply = [StoreReply EXCEPT ![t] = NoReply]
      BY <1>1 DEF StoreReply, GoTo
    <2> QED
      BY <2>1, <2>2
  <1>5. /\ nextId' = IF op \in Creates THEN nextId + 1 ELSE nextId
        /\ request' = [request EXCEPT
             ![t] = [op |-> op, sid |-> IF op \in Creates THEN nextId' ELSE 0]]
    BY DEF Submit
  <1>6. nextId' <= MaxId
    BY MaxIdNat DEF Submit, TypeOK
  <1> QED
    BY <1>2, <1>3, <1>4, <1>5, <1>6, StoreOperators DEF Submit, Store!Call

\* The step at which the answer of t's operation is given.
LEMMA Serves ==
  ASSUME TypeOK, NEW t \in Threads, NEW from \in {"scan", "release"},
         GoTo(t, from, "finish"), UNCHANGED <<loaded, nextId, request>>,
         \A u \in Threads : u # t => answer'[u] = answer[u]
  PROVE  Store!Serve(t, request[t].op, answer'[t])
  <1>1. StorePhase[t] = "called" /\ StorePhase' = [StorePhase EXCEPT ![t] = "served"]
    BY PhaseMoves DEF PhaseOf
  <1>2. StoreReply' = [StoreReply EXCEPT ![t] = answer'[t]]
    BY ReplyMoves
  <1> QED
    BY <1>1, <1>2 DEF Store!Serve

LEMMA ScanFailsIsServeError ==
  ASSUME TypeOK, LocalInv, NEW t \in Threads, ScanFails(t)
  PROVE  Store!ServeError(t)
  <1>1. answer'[t] = Error /\ \A u \in Threads : u # t => answer'[u] = answer[u]
    BY DEF ScanFails, Replies, TypeOK
  <1>2. Store!Serve(t, request[t].op, Error)
    BY <1>1, Serves DEF ScanFails
  <1>3. request[t].op \in Creates /\ UNCHANGED published
    BY DEF ScanFails, LocalInv, GoTo
  <1> QED
    BY <1>2, <1>3, StoreOperators DEF Store!ServeError

\* The step of the store that is the release of a lock.
StoreServe(t) ==
  \/ Store!ServeBaseline(t) \/ Store!ServeCurrent(t)
  \/ Store!ServeCurrentWithoutDiff(t) \/ Store!ServeError(t)
  \/ Store!ServeCount(t) \/ Store!ServeCopy(t) \/ Store!ServeClear(t)

\* Under the baseline that was published, two of the three snapshots are new.
LEMMA DerivedAreReplaced ==
  ASSUME TypeOK, published' = Now, published.baseline = baseline.entries
  PROVE  published' = [published EXCEPT !.current = current.entries,
                                        !.diff = diff.entries]
  <1>1. published' = [baseline |-> published.baseline,
                      current |-> current.entries, diff |-> diff.entries]
    BY DEF Now
  <1>2. published \in [baseline : Contents, current : Contents, diff : Contents]
    BY DEF TypeOK
  <1>3. PICK half : half = [baseline |-> published.baseline,
                            current |-> current.entries, diff |-> published.diff]
    OBVIOUS
  <1>4. half = [published EXCEPT !.current = current.entries]
    BY <1>2, <1>3
  <1>5. published' = [half EXCEPT !.diff = diff.entries]
    BY <1>1, <1>3
  <1> QED
    BY <1>4, <1>5

(***************************************************************************)
(* The release of the lock is where a request takes effect.                *)
(***************************************************************************)
LEMMA ReleaseServes ==
  ASSUME TypeOK, ServeInv, NEW t \in Threads, Release(t)
  PROVE  StoreServe(t)
  <1>1. Effect(t)
    BY DEF Release, GoTo, ServeInv, ServeInvOf
  <1>2. Store!Serve(t, request[t].op, answer[t])
    BY Serves DEF Release
  <1>3. published' = Now
    BY DEF Release
  <1> USE StoreOperators DEF StoreServe
  <1>4. CASE request[t].op = "createBaseline"
    <2>1. /\ Scanned(t, baseline.entries)
          /\ NothingDerived
          /\ answer[t] = Ok(Count(baseline.entries), NoEntries)
      BY <1>1, <1>4 DEF Effect, Counts, Copies
    <2>2. PICK seen \in Observations : baseline.entries = Stamp(seen, request[t].sid)
      BY <2>1 DEF Scanned
    <2>3. published' = [Store!EmptyStore EXCEPT !.baseline = baseline.entries]
      BY <1>3, <2>1 DEF Now, NothingDerived, Store!EmptyStore
    <2> QED
      BY <1>2, <1>4, <2>1, <2>2, <2>3 DEF Store!ServeBaseline
  <1>5. CASE request[t].op = "createCurrent"
    <2>1. /\ Scanned(t, current.entries)
          /\ published.baseline = baseline.entries
          /\ \/ /\ diff.entries = DiffOf(baseline.entries, current.entries)
                /\ answer[t] = Ok(Count(diff.entries), NoEntries)
             \/ diff.entries = NoEntries /\ answer[t] = Error
      BY <1>1, <1>5 DEF Effect, Counts, Copies
    <2>2. PICK seen \in Observations : current.entries = Stamp(seen, request[t].sid)
      BY <2>1 DEF Scanned
    <2>3. published' = [published EXCEPT !.current = current.entries,
                                         !.diff = diff.entries]
      BY <1>3, <2>1, DerivedAreReplaced
    <2>4. CASE diff.entries = DiffOf(baseline.entries, current.entries)
               /\ answer[t] = Ok(Count(diff.entries), NoEntries)
      BY <1>2, <1>5, <2>1, <2>2, <2>3, <2>4 DEF Store!ServeCurrent
    <2>5. CASE diff.entries = NoEntries /\ answer[t] = Error
      BY <1>2, <1>5, <2>2, <2>3, <2>5 DEF Store!ServeCurrentWithoutDiff
    <2> QED
      BY <2>1, <2>4, <2>5
  <1>6. CASE request[t].op \in Counts
    <2>1. published = Now /\ answer[t] = Ok(Count(Target(request[t].op).entries), NoEntries)
      BY <1>1, <1>6 DEF Effect, Counts, Copies
    <2> QED
      BY <1>2, <1>3, <1>6, <2>1, StoreContents DEF Store!ServeCount
  <1>7. CASE request[t].op \in Copies
    <2>1. published = Now
          /\ answer[t] \in {Ok(Count(Target(request[t].op).entries),
                                Target(request[t].op).entries), Error}
      BY <1>1, <1>7 DEF Effect, Counts, Copies
    <2>2. CASE answer[t] = Error
      BY <1>2, <1>3, <1>7, <2>1, <2>2 DEF Store!ServeError
    <2>3. CASE answer[t] # Error
      BY <1>2, <1>3, <1>7, <2>1, <2>3, StoreContents DEF Store!ServeCopy
    <2> QED
      BY <2>2, <2>3
  <1>8. CASE request[t].op = "clear"
    <2>1. /\ NothingDerived /\ baseline.entries = NoEntries
          /\ answer[t] = Ok(Count(published.baseline) + Count(published.current)
                              + Count(published.diff), NoEntries)
      BY <1>1, <1>8 DEF Effect, Counts, Copies
    <2> QED
      BY <1>2, <1>3, <1>8, <2>1, StoreContents DEF Store!ServeClear
  <1> QED
    BY <1>1, <1>4, <1>5, <1>6, <1>7, <1>8 DEF Effect

LEMMA FinishIsReturn ==
  ASSUME TypeOK, NEW t \in Threads, Finish(t)
  PROVE  Store!Return(t)
  <1>1. /\ GoTo(t, "finish", "idle") /\ UNCHANGED <<loaded, published, nextId>>
        /\ request' = [request EXCEPT ![t] = NoRequest]
        /\ \A u \in Threads : u # t => answer'[u] = answer[u]
    BY DEF Finish, Replies, TypeOK
  <1>2. StorePhase[t] = "served" /\ StorePhase' = [StorePhase EXCEPT ![t] = "idle"]
    BY <1>1, PhaseMoves DEF PhaseOf
  <1>3. StoreReply' = [StoreReply EXCEPT ![t] = NoReply]
    BY <1>1, ReplyMoves
  <1> QED
    BY <1>1, <1>2, <1>3, StoreOperators DEF Store!Return

\* Load and Unload are the store's own.
LEMMA LoadsAndUnloads ==
  /\ Load => Store!Load
  /\ TypeOK /\ Unload => Store!Unload
  <1>1. ASSUME Load PROVE Store!Load
    BY <1>1 DEF Load, Store!Load, StorePhase, StoreReply, locals
  <1>2. ASSUME TypeOK, Unload PROVE Store!Unload
    <2>1. UNCHANGED <<StorePhase, StoreReply>>
      BY <1>2 DEF Unload, locals, StorePhase, StoreReply
    <2>2. \A t \in Threads : StorePhase[t] = "idle"
      BY <1>2, PhaseIs DEF Unload, PhaseOf
    <2>3. published' = Store!EmptyStore
      BY <1>2, StoreOperators DEF Unload, Now, NoSnapshot, Store!EmptyStore
    <2> QED
      BY <1>2, <2>1, <2>2, <2>3 DEF Unload, Store!Unload, locals
  <1> QED
    BY <1>1, <1>2

LEMMA StoreInit == Init => Store!Init
  <1> SUFFICES ASSUME Init
               PROVE  Store!Init
    OBVIOUS
  <1>1. published = Store!EmptyStore
    BY StoreOperators DEF Init, Now, NoSnapshot, Store!EmptyStore
  <1>2. /\ StorePhase = [t \in Threads |-> "idle"]
        /\ StoreReply = [t \in Threads |-> NoReply]
    BY PhaseIs DEF Init, PhaseOf, StoreReply
  <1> QED
    BY <1>1, <1>2, StoreOperators DEF Init, Store!Init

LEMMA StoreStep ==
  TypeOK /\ LocalInv /\ ServeInv /\ [Next]_vars => [Store!Next]_(Store!vars)
  <1> SUFFICES ASSUME TypeOK, LocalInv, ServeInv, [Next]_vars
               PROVE  Store!Next \/ UNCHANGED Store!vars
    OBVIOUS
  <1>1. CASE Load \/ Unload
    BY <1>1, LoadsAndUnloads DEF Store!Next
  <1>2. CASE \E t \in Threads, op \in Ops : Submit(t, op)
    BY <1>2, SubmitIsCall, StoreOperators DEF Store!Next
  <1>3. CASE \E t \in Threads : Step(t)
    <2> PICK t \in Threads : Step(t)
      BY <1>3
    <2>1. CASE ScanFails(t)
      BY <2>1, ScanFailsIsServeError DEF Store!Next
    <2>2. CASE Release(t)
      BY <2>2, ReleaseServes DEF Store!Next, StoreServe
    <2>3. CASE Finish(t)
      BY <2>3, FinishIsReturn DEF Store!Next
    <2> QED
      BY <2>1, <2>2, <2>3, InnerStep DEF Step
  <1>4. CASE UNCHANGED vars
    BY <1>4 DEF vars, locals, Store!vars, StorePhase, StoreReply
  <1> QED
    BY <1>1, <1>2, <1>3, <1>4 DEF Next

(***************************************************************************)
(* The handlers implement the store, for any number of requests in the     *)
(* driver at once: each takes effect in one step between its arrival and   *)
(* its answer, and is answered from what the store holds at that step.     *)
(***************************************************************************)
THEOREM HandlersImplementStore == Spec => ImplementsStore
  <1>1. Init => LocalInv /\ UnloadedInv /\ PublishedInv /\ ServeInv
    BY DEF Init, LocalInv, UnloadedInv, PublishedInv, ServeInv, ServeInvOf
  <1> QED
    BY <1>1, StoreInit, StoreStep, LocalStep, UnloadedStep, PublishedStep,
       ServeStep, LockExcludes, TypeCorrect, PTL
       DEF Spec, ImplementsStore, Store!Spec

=============================================================================
