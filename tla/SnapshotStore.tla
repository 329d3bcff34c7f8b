---------------------------- MODULE SnapshotStore ----------------------------
(***************************************************************************)
(* What the driver promises the clients of its device about the snapshots: *)
(* a store of a baseline, a current snapshot and their diff on which every *)
(* request takes effect in one step between its arrival and its answer.    *)
(* The driver's handlers (module PoolSnapshots) are shown to implement it. *)
(***************************************************************************)
EXTENDS PoolEntries

CONSTANTS
  Threads,      \* the requests that can be in the driver at the same time
  Observations, \* what a scan can see
  MaxId         \* bound: snapshot ids given out before the store is reset

VARIABLES
  loaded,  \* whether the store exists
  store,   \* the three snapshots
  lastId,  \* the last snapshot id given out
  phase,   \* per thread: idle, called or served
  request, \* per thread: the operation asked for, and its snapshot id
  reply    \* per thread: the answer of a served request

vars == <<loaded, store, lastId, phase, request, reply>>

Creates == {"createBaseline", "createCurrent"}
Counts  == {"diffCount", "currentCount"}
Copies  == {"copyDiff", "copyCurrent"}
Ops     == Creates \cup Counts \cup Copies \cup {"clear"}

NoRequest == [op |-> "none", sid |-> 0]
NoReply   == [status |-> "none", count |-> 0, entries |-> NoEntries]
Error     == [NoReply EXCEPT !.status = "error"]

Ok(count, entries) == [status |-> "ok", count |-> count, entries |-> entries]

EmptyStore ==
  [baseline |-> NoEntries, current |-> NoEntries, diff |-> NoEntries]

\* The snapshot a request reads.
ReadBy(op, snapshots) ==
  IF op \in {"diffCount", "copyDiff"} THEN snapshots.diff ELSE snapshots.current

Init ==
  /\ loaded = FALSE
  /\ store = EmptyStore
  /\ lastId = 0
  /\ phase = [t \in Threads |-> "idle"]
  /\ request = [t \in Threads |-> NoRequest]
  /\ reply = [t \in Threads |-> NoReply]

Load ==
  /\ ~loaded
  /\ loaded' = TRUE
  /\ lastId' = 0
  /\ UNCHANGED <<store, phase, request, reply>>

Unload ==
  /\ loaded
  /\ \A t \in Threads : phase[t] = "idle"
  /\ loaded' = FALSE
  /\ store' = EmptyStore
  /\ UNCHANGED <<lastId, phase, request, reply>>

Call(t, op) ==
  /\ loaded
  /\ phase[t] = "idle"
  /\ phase' = [phase EXCEPT ![t] = "called"]
  /\ lastId' = IF op \in Creates THEN lastId + 1 ELSE lastId
  /\ request' = [request EXCEPT
       ![t] = [op |-> op, sid |-> IF op \in Creates THEN lastId' ELSE 0]]
  /\ lastId' <= MaxId
  /\ UNCHANGED <<loaded, store, reply>>

\* The step at which a request takes effect and its answer is fixed.
Serve(t, op, answer) ==
  /\ phase[t] = "called"
  /\ request[t].op = op
  /\ phase' = [phase EXCEPT ![t] = "served"]
  /\ reply' = [reply EXCEPT ![t] = answer]
  /\ UNCHANGED <<loaded, lastId, request>>

\* A refreshed baseline takes the snapshots derived from the old one with it.
ServeBaseline(t) ==
  \E seen \in Observations :
    LET new == Stamp(seen, request[t].sid) IN
    /\ store' = [EmptyStore EXCEPT !.baseline = new]
    /\ Serve(t, "createBaseline", Ok(Count(new), NoEntries))

ServeCurrent(t) ==
  \E seen \in Observations :
    LET new  == Stamp(seen, request[t].sid)
        diff == DiffOf(store.baseline, new) IN
    /\ store' = [store EXCEPT !.current = new, !.diff = diff]
    /\ Serve(t, "createCurrent", Ok(Count(diff), NoEntries))

\* No memory for the diff: the new current snapshot stands, without a diff.
ServeCurrentWithoutDiff(t) ==
  \E seen \in Observations :
    /\ store' = [store EXCEPT !.current = Stamp(seen, request[t].sid),
                              !.diff = NoEntries]
    /\ Serve(t, "createCurrent", Error)

\* A scan or a copy that fails changes nothing.
ServeError(t) ==
  /\ \E op \in Creates \cup Copies : Serve(t, op, Error)
  /\ UNCHANGED store

ServeCount(t) ==
  /\ \E op \in Counts :
       Serve(t, op, Ok(Count(ReadBy(op, store)), NoEntries))
  /\ UNCHANGED store

ServeCopy(t) ==
  /\ \E op \in Copies :
       Serve(t, op, Ok(Count(ReadBy(op, store)), ReadBy(op, store)))
  /\ UNCHANGED store

ServeClear(t) ==
  /\ store' = EmptyStore
  /\ Serve(t, "clear",
           Ok(Count(store.baseline) + Count(store.current) + Count(store.diff),
              NoEntries))

Return(t) ==
  /\ phase[t] = "served"
  /\ phase' = [phase EXCEPT ![t] = "idle"]
  /\ request' = [request EXCEPT ![t] = NoRequest]
  /\ reply' = [reply EXCEPT ![t] = NoReply]
  /\ UNCHANGED <<loaded, store, lastId>>

Next ==
  \/ Load
  \/ Unload
  \/ \E t \in Threads :
       \/ \E op \in Ops : Call(t, op)
       \/ ServeBaseline(t)
       \/ ServeCurrent(t)
       \/ ServeCurrentWithoutDiff(t)
       \/ ServeError(t)
       \/ ServeCount(t)
       \/ ServeCopy(t)
       \/ ServeClear(t)
       \/ Return(t)

Spec == Init /\ [][Next]_vars

=============================================================================
