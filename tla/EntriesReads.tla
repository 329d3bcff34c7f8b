---------------------------- MODULE EntriesReads ----------------------------
(***************************************************************************)
(* How the program reads a table (device.DiffEntries and CurrentEntries):  *)
(* a request for the count, a buffer of that many entries, and a request   *)
(* for the entries.  deviceHandleMu is held over each request and not over *)
(* the two, so that creates, clears and a stop with a new start can come   *)
(* in between.  The driver is the store of module SnapshotStore.           *)
(***************************************************************************)
EXTENDS SnapshotStore

CONSTANTS
  Readers, \* the threads that read a table
  Others   \* what the other threads request: a bound of the model

ASSUME ReadersAreThreads == Readers \subseteq Threads
ASSUME OthersAreOps == Others \subseteq Ops

VARIABLES
  reading, \* per reader: its table, its step, and what it has learnt
  held     \* per reader: the contents its snapshot has had so far (history)

readVars == <<vars, reading, held>>

CountOf   == [diff |-> "diffCount", current |-> "currentCount"]
EntriesOf == [diff |-> "copyDiff", current |-> "copyCurrent"]

Tables == {"diff", "current"}

\* count is the driver's first answer, entries and total are what the caller
\* of entriesRequest is given.
NoRead == [table |-> "none", at |-> "none", count |-> 0,
           entries |-> NoEntries, total |-> 0]

Contains(table, snapshots) == ReadBy(CountOf[table], snapshots)

ReadInit ==
  /\ Init
  /\ reading = [r \in Readers |-> NoRead]
  /\ held = [r \in Readers |-> {}]

-----------------------------------------------------------------------------

\* r goes on with what it has learnt.
Learns(r, from, got) ==
  /\ reading[r].at = from
  /\ reading' = [reading EXCEPT ![r] = got]

AskCount(r) ==
  \E table \in Tables :
    /\ Learns(r, "none", [NoRead EXCEPT !.table = table, !.at = "count"])
    /\ Call(r, CountOf[table])

\* No entries are asked for when there are none.
CountReturns(r) ==
  /\ Return(r)
  /\ Learns(r, "count",
            [reading[r] EXCEPT !.count = reply[r].count,
                               !.at = IF reply[r].count = 0
                                      THEN "answered" ELSE "counted"])

AskEntries(r) ==
  /\ Learns(r, "counted", [reading[r] EXCEPT !.at = "entries"])
  /\ Call(r, EntriesOf[reading[r].table])

\* The response has room for as many entries as were counted: the driver
\* fills it with as many of its copy as fit, and says how many there are.
Cuts(entries, room) ==
  {[i \in Ids |-> IF i \in part THEN entries[i] ELSE Absent] :
     part \in {p \in SUBSET Present(entries) :
                 Cardinality(p) = IF room < Count(entries)
                                  THEN room ELSE Count(entries)}}

\* Mutant of EntriesReturn: the total is the one that was counted.
EntriesReturnCounted(r) ==
  /\ Return(r)
  /\ reply[r].status = "ok"
  /\ \E part \in Cuts(reply[r].entries, reading[r].count) :
       Learns(r, "entries",
              [reading[r] EXCEPT !.entries = part, !.total = reading[r].count,
                                 !.at = "answered"])

EntriesReturn(r) ==
  /\ Return(r)
  /\ reply[r].status = "ok"
  /\ \E part \in Cuts(reply[r].entries, reading[r].count) :
       Learns(r, "entries",
              [reading[r] EXCEPT !.entries = part, !.total = reply[r].count,
                                 !.at = "answered"])

\* The driver had no memory for its copy.
EntriesFail(r) ==
  /\ Return(r)
  /\ reply[r].status = "error"
  /\ Learns(r, "entries", NoRead)

\* The driver was stopped in between, or the device cannot be opened.
OpenFails(r) ==
  /\ Learns(r, "counted", NoRead)
  /\ UNCHANGED vars

\* The table is handed over.
HandOver(r) ==
  /\ Learns(r, "answered", NoRead)
  /\ UNCHANGED vars

Read(r) ==
  \/ AskCount(r) \/ CountReturns(r)
  \/ AskEntries(r) \/ EntriesReturn(r) \/ EntriesFail(r)
  \/ OpenFails(r) \/ HandOver(r)

\* The driver at work, and the requests of the others.
Driver(t) ==
  \/ ServeBaseline(t) \/ ServeCurrent(t) \/ ServeCurrentWithoutDiff(t)
  \/ ServeError(t) \/ ServeCount(t) \/ ServeCopy(t) \/ ServeClear(t)

OtherNext ==
  \/ Load
  \/ Unload
  \/ \E t \in Threads : Driver(t)
  \/ \E t \in Threads \ Readers : Return(t) \/ \E op \in Others : Call(t, op)

\* What a snapshot has been from the start of a read to its answer.
Watch ==
  held' = [r \in Readers |->
             CASE reading'[r].at = "none"     -> {}
               [] reading'[r].at = "answered" -> held[r]
               [] OTHER -> held[r] \cup {Contains(reading'[r].table, store')}]

ReadNext ==
  /\ (\E r \in Readers : Read(r)) \/ (OtherNext /\ UNCHANGED reading)
  /\ Watch

ReadSpec == ReadInit /\ [][ReadNext]_readVars

-----------------------------------------------------------------------------

(***************************************************************************)
(* Whatever comes between its two requests, a table is filled from one     *)
(* snapshot, which the driver has held since the read began: its total is  *)
(* the count of that snapshot, its entries are that snapshot's, and it has *)
(* all of them or as many as had been counted, so that a table that is cut *)
(* is one that says so.                                                    *)
(***************************************************************************)
TableIsOfOneSnapshot ==
  \A r \in Readers : reading[r].at = "answered" =>
    \E snapshot \in held[r] :
      LET table == reading[r].entries IN
      /\ reading[r].total = Count(snapshot)
      /\ \A i \in Present(table) : table[i] = snapshot[i]
      /\ Count(table) \in {reading[r].total, reading[r].count}
      /\ Count(table) <= reading[r].total

=============================================================================
