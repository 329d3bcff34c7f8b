------------------------- MODULE EntriesReadsProofs -------------------------
(***************************************************************************)
(* The theorem of EntriesReads, for any number of readers and of other     *)
(* requests, and snapshots of any length.                                  *)
(***************************************************************************)
EXTENDS EntriesReads, FiniteSetTheorems, TLAPS

\* The record a reader's state is; what it has counted is a number.
ReadFields(c) ==
  /\ c.count \in Nat
  /\ \E table, at, count, entries, total :
       c = [table |-> table, at |-> at, count |-> count,
            entries |-> entries, total |-> total]

(***************************************************************************)
(* A reader has asked for what its step says, and what it will be told is  *)
(* of a snapshot that was held since it began.                             *)
(***************************************************************************)
Asking(r) ==
  /\ phase[r] # "idle" <=> reading[r].at \in {"count", "entries"}
  /\ reading[r].at = "count" => request[r].op = CountOf[reading[r].table]
  /\ reading[r].at = "entries" => request[r].op = EntriesOf[reading[r].table]

Watching(r) ==
  reading[r].at \in {"count", "counted", "entries"} =>
    /\ reading[r].table \in Tables
    /\ reading[r].entries = NoEntries
    /\ reading[r].total = 0
    /\ Contains(reading[r].table, store) \in held[r]

Told(r) ==
  phase[r] = "served" =>
    /\ reading[r].at = "count" =>
         \E snapshot \in held[r] : reply[r].count = Count(snapshot)
    /\ reading[r].at = "entries" /\ reply[r].status = "ok" =>
         reply[r].entries \in held[r] /\ reply[r].count = Count(reply[r].entries)

\* The property, of one reader.
OfOneSnapshot(r) ==
  reading[r].at = "answered" =>
    \E snapshot \in held[r] :
      LET table == reading[r].entries IN
      /\ reading[r].total = Count(snapshot)
      /\ \A i \in Present(table) : table[i] = snapshot[i]
      /\ Count(table) \in {reading[r].total, reading[r].count}
      /\ Count(table) <= reading[r].total

ReaderInv(r) ==
  /\ ReadFields(reading[r])
  /\ reading[r].at \in {"none", "count", "counted", "entries", "answered"}
  /\ Asking(r) /\ Watching(r) /\ Told(r) /\ OfOneSnapshot(r)

\* The functions have the domains their updates need.
Shape ==
  /\ phase = [t \in Threads |-> phase[t]]
  /\ request = [t \in Threads |-> request[t]]
  /\ reply = [t \in Threads |-> reply[t]]
  /\ reading = [r \in Readers |-> reading[r]]

ReadsInv == Shape /\ \A r \in Readers : ReaderInv(r)

-----------------------------------------------------------------------------

\* A snapshot has so many entries.
LEMMA CountIsNat == \A entries : Count(entries) \in Nat
  BY IdsFinite, FS_Subset, FS_CardinalityType DEF Count, Present

\* What the history becomes.
LEMMA WatchEffect ==
  ASSUME Watch, NEW r \in Readers
  PROVE  /\ reading'[r].at = "answered" => held'[r] = held[r]
         /\ reading'[r].at \in {"count", "counted", "entries"} =>
              held'[r] = held[r] \cup {Contains(reading'[r].table, store')}
  BY DEF Watch

\* A step that is not of reader r, nor of the driver for it.
LEMMA ReaderFrame ==
  ASSUME NEW r \in Readers, ReaderInv(r), Watch,
         phase'[r] = phase[r], request'[r] = request[r], reply'[r] = reply[r],
         reading'[r] = reading[r]
  PROVE  ReaderInv(r)'
  <1>1. ReadFields(reading[r])' /\ Asking(r)'
    BY DEF ReaderInv, ReadFields, Asking
  <1>2. Watching(r)'
    BY WatchEffect DEF ReaderInv, Watching
  <1>3. Told(r)'
    BY WatchEffect DEF ReaderInv, Told
  <1>4. OfOneSnapshot(r)'
    <2>1. CASE reading[r].at = "answered"
      <3>1. held'[r] = held[r]
        BY <2>1, WatchEffect
      <3> QED
        BY <3>1 DEF ReaderInv, OfOneSnapshot
    <2>2. CASE reading[r].at # "answered"
      BY <2>2 DEF OfOneSnapshot
    <2> QED
      BY <2>1, <2>2
  <1> QED
    BY <1>1, <1>2, <1>3, <1>4 DEF ReaderInv

\* The two requests of a table read the same snapshot.
LEMMA SameSnapshot ==
  ASSUME NEW table \in Tables, NEW snapshots
  PROVE  /\ CountOf[table] \in Counts /\ EntriesOf[table] \in Copies
         /\ ReadBy(CountOf[table], snapshots) = Contains(table, snapshots)
         /\ ReadBy(EntriesOf[table], snapshots) = Contains(table, snapshots)
  BY DEF Tables, CountOf, EntriesOf, Counts, Copies, ReadBy, Contains

\* What the driver does for thread t.
LEMMA DriverFrame ==
  ASSUME Shape, NEW t \in Threads, Driver(t)
  PROVE  /\ UNCHANGED request
         /\ phase[t] = "called" /\ phase' = [phase EXCEPT ![t] = "served"]
         /\ reply' = [reply EXCEPT ![t] = reply'[t]]
         /\ request[t].op \in Counts =>
              store' = store /\ reply'[t].count = Count(ReadBy(request[t].op, store))
         /\ request[t].op \in Copies =>
              /\ store' = store
              /\ \/ reply'[t].status = "error"
                 \/ /\ reply'[t].entries = ReadBy(request[t].op, store)
                    /\ reply'[t].count = Count(reply'[t].entries)
  <1>1. ASSUME NEW op, NEW answer, Serve(t, op, answer)
        PROVE  /\ UNCHANGED request /\ request[t].op = op /\ reply'[t] = answer
               /\ phase[t] = "called" /\ phase' = [phase EXCEPT ![t] = "served"]
               /\ reply' = [reply EXCEPT ![t] = reply'[t]]
    BY <1>1 DEF Serve, Shape
  <1>2. CASE ServeBaseline(t)
    BY <1>1, <1>2 DEF ServeBaseline, Counts, Copies
  <1>3. CASE ServeCurrent(t)
    BY <1>1, <1>3 DEF ServeCurrent, Counts, Copies
  <1>4. CASE ServeCurrentWithoutDiff(t)
    BY <1>1, <1>4 DEF ServeCurrentWithoutDiff, Counts, Copies
  <1>5. CASE ServeClear(t)
    BY <1>1, <1>5 DEF ServeClear, Counts, Copies
  <1>6. CASE ServeError(t)
    <2>1. PICK op \in Creates \cup Copies : Serve(t, op, Error)
      BY <1>6 DEF ServeError
    <2>2. Error.status = "error"
      BY DEF Error, NoReply
    <2>3. UNCHANGED store /\ op \notin Counts
      BY <1>6 DEF ServeError, Creates, Copies, Counts
    <2> QED
      BY <1>1, <2>1, <2>2, <2>3
  <1>7. CASE ServeCount(t)
    <2>1. PICK op \in Counts : Serve(t, op, Ok(Count(ReadBy(op, store)), NoEntries))
      BY <1>7 DEF ServeCount
    <2>2. UNCHANGED store /\ op \notin Copies
      BY <1>7 DEF ServeCount, Copies, Counts
    <2> QED
      BY <1>1, <2>1, <2>2 DEF Ok
  <1>8. CASE ServeCopy(t)
    <2>1. PICK op \in Copies :
            Serve(t, op, Ok(Count(ReadBy(op, store)), ReadBy(op, store)))
      BY <1>8 DEF ServeCopy
    <2>2. UNCHANGED store /\ op \notin Counts
      BY <1>8 DEF ServeCopy, Copies, Counts
    <2> QED
      BY <1>1, <2>1, <2>2 DEF Ok
  <1> QED
    BY <1>2, <1>3, <1>4, <1>5, <1>6, <1>7, <1>8 DEF Driver

\* The driver answers a reader from what its snapshot is.
LEMMA DriverAnswers ==
  ASSUME Shape, NEW r \in Readers, ReaderInv(r), Watch, Driver(r), UNCHANGED reading
  PROVE  ReaderInv(r)'
  <1>1. r \in Threads
    BY ReadersAreThreads
  <1>2. /\ phase[r] = "called" /\ phase'[r] = "served" /\ request' = request
        /\ reading'[r] = reading[r]
    BY <1>1, DriverFrame DEF Shape
  <1>3. reading[r].at \in {"count", "entries"}
    BY <1>2 DEF ReaderInv, Asking
  <1>4. reading[r].table \in Tables /\ Contains(reading[r].table, store) \in held[r]
    BY <1>3 DEF ReaderInv, Watching
  <1>5. held'[r] = held[r] \cup {Contains(reading[r].table, store')}
    BY <1>2, <1>3, WatchEffect
  <1>6. ReadFields(reading[r])' /\ Asking(r)'
    BY <1>2 DEF ReaderInv, ReadFields, Asking
  <1>7. Watching(r)'
    BY <1>2, <1>5 DEF ReaderInv, Watching
  <1>8. Told(r)'
    <2>1. CASE reading[r].at = "count"
      <3>1. request[r].op = CountOf[reading[r].table]
        BY <2>1 DEF ReaderInv, Asking
      <3>2. reply'[r].count = Count(Contains(reading[r].table, store))
        BY <1>1, <1>4, <3>1, DriverFrame, SameSnapshot
      <3> QED
        BY <1>2, <1>4, <1>5, <2>1, <3>2 DEF Told
    <2>2. CASE reading[r].at = "entries"
      <3>1. request[r].op = EntriesOf[reading[r].table]
        BY <2>2 DEF ReaderInv, Asking
      <3>2. \/ reply'[r].status = "error"
            \/ /\ reply'[r].entries = Contains(reading[r].table, store)
               /\ reply'[r].count = Count(reply'[r].entries)
        BY <1>1, <1>4, <3>1, DriverFrame, SameSnapshot
      <3> QED
        BY <1>2, <1>4, <1>5, <2>2, <3>2 DEF Told
    <2> QED
      BY <1>3, <2>1, <2>2
  <1>9. OfOneSnapshot(r)'
    BY <1>2, <1>3 DEF OfOneSnapshot
  <1> QED
    BY <1>2, <1>6, <1>7, <1>8, <1>9 DEF ReaderInv

LEMMA OtherReads ==
  ASSUME ReadsInv, OtherNext, UNCHANGED reading, Watch
  PROVE  ReadsInv'
  <1>1. ASSUME NEW t \in Threads, Driver(t)
        PROVE  ReadsInv'
    <2>1. Shape'
      BY <1>1, DriverFrame DEF ReadsInv, Shape
    <2>2. ASSUME NEW r \in Readers
          PROVE  ReaderInv(r)'
      <3>1. CASE r = t
        BY <1>1, <3>1, DriverAnswers DEF ReadsInv
      <3>2. CASE r # t
        BY <1>1, <3>2, DriverFrame, ReaderFrame, ReadersAreThreads DEF ReadsInv, Shape
      <3> QED
        BY <3>1, <3>2
    <2> QED
      BY <2>1, <2>2 DEF ReadsInv
  <1>2. ASSUME UNCHANGED <<phase, request, reply>>
        PROVE  ReadsInv'
    BY <1>2, ReaderFrame DEF ReadsInv, Shape
  <1>3. CASE Load \/ Unload
    BY <1>2, <1>3 DEF Load, Unload
  <1>4. ASSUME NEW t \in Threads \ Readers,
               Return(t) \/ \E op \in Others : Call(t, op)
        PROVE  ReadsInv'
    <2>1. Shape' /\ \A r \in Readers : /\ phase'[r] = phase[r] /\ request'[r] = request[r]
                                       /\ reply'[r] = reply[r]
      BY <1>4, ReadersAreThreads DEF Return, Call, ReadsInv, Shape
    <2> QED
      BY <2>1, ReaderFrame DEF ReadsInv
  <1> QED
    BY <1>1, <1>3, <1>4 DEF OtherNext

-----------------------------------------------------------------------------
(***************************************************************************)
(* The steps of a reader                                                   *)
(***************************************************************************)

\* A step of reader r leaves the others alone.
LEMMA ReadFrame ==
  ASSUME Shape, NEW r \in Readers, Read(r)
  PROVE  /\ Shape'
         /\ UNCHANGED store
         /\ \A q \in Readers : q # r =>
              /\ phase'[q] = phase[q] /\ request'[q] = request[q]
              /\ reply'[q] = reply[q] /\ reading'[q] = reading[q]
  <1> USE ReadersAreThreads DEF Shape, Learns, Call, Return
  <1>1. CASE AskCount(r)
    BY <1>1 DEF AskCount
  <1>2. CASE AskEntries(r)
    BY <1>2 DEF AskEntries
  <1>3. CASE CountReturns(r)
    BY <1>3 DEF CountReturns
  <1>4. CASE EntriesReturn(r)
    BY <1>4 DEF EntriesReturn
  <1>5. CASE EntriesFail(r)
    BY <1>5 DEF EntriesFail
  <1>6. CASE OpenFails(r) \/ HandOver(r)
    BY <1>6 DEF OpenFails, HandOver, vars
  <1> QED
    BY <1>1, <1>2, <1>3, <1>4, <1>5, <1>6 DEF Read

\* What fits into the room of a response.
LEMMA CutsAreParts ==
  ASSUME NEW entries, NEW room, NEW part \in Cuts(entries, room)
  PROVE  /\ \A i \in Present(part) : part[i] = entries[i]
         /\ Count(part) = IF room < Count(entries) THEN room ELSE Count(entries)
  <1>1. PICK p \in SUBSET Present(entries) :
          /\ Cardinality(p) = IF room < Count(entries) THEN room ELSE Count(entries)
          /\ part = [i \in Ids |-> IF i \in p THEN entries[i] ELSE Absent]
    BY DEF Cuts
  <1>2. Present(part) = p
    BY <1>1 DEF Present
  <1>3. \A i \in Present(part) : part[i] = entries[i]
    BY <1>1, <1>2 DEF Present
  <1>4. Count(part) = Cardinality(p)
    BY <1>2 DEF Count
  <1> QED
    BY <1>1, <1>3, <1>4

\* What a reader's own steps make of its state.
LEMMA StepFields ==
  ASSUME NEW c, ReadFields(c), NEW at, NEW d, d = [c EXCEPT !.at = at]
  PROVE  /\ ReadFields(d) /\ d.at = at /\ d.table = c.table
         /\ d.entries = c.entries /\ d.total = c.total /\ d.count = c.count
  BY DEF ReadFields

LEMMA NothingRead ==
  /\ ReadFields(NoRead) /\ NoRead.at = "none"
  /\ NoRead.entries = NoEntries /\ NoRead.total = 0
  BY DEF ReadFields, NoRead

\* A read that is over, one way or another, knows nothing.
LEMMA ReadOver ==
  ASSUME Shape, NEW r \in Readers, reading' = [reading EXCEPT ![r] = NoRead],
         phase'[r] = "idle"
  PROVE  ReaderInv(r)'
  <1>1. reading'[r] = NoRead
    BY DEF Shape
  <1> QED
    BY <1>1, NothingRead
       DEF ReaderInv, Asking, Watching, Told, OfOneSnapshot

LEMMA AskCountKeeps ==
  ASSUME ReadsInv, NEW r \in Readers, AskCount(r), Watch
  PROVE  ReaderInv(r)'
  <1>1. PICK table \in Tables :
          /\ Learns(r, "none", [NoRead EXCEPT !.table = table, !.at = "count"])
          /\ Call(r, CountOf[table])
    BY DEF AskCount
  <1>2. r \in Threads /\ Shape
    BY ReadersAreThreads DEF ReadsInv
  <1>3. /\ phase'[r] = "called" /\ request'[r].op = CountOf[table]
        /\ store' = store
        /\ reading'[r] = [NoRead EXCEPT !.table = table, !.at = "count"]
    BY <1>1, <1>2 DEF Learns, Call, Shape
  <1>4. /\ ReadFields(reading'[r]) /\ reading'[r].table = table /\ reading'[r].at = "count"
        /\ reading'[r].entries = NoEntries /\ reading'[r].total = 0
    <2>1. PICK c, d : c = NoRead /\ d = reading'[r]
      OBVIOUS
    <2>2. d = [c EXCEPT !.table = table, !.at = "count"]
      BY <1>3, <2>1
    <2>3. ReadFields(c) /\ c.entries = NoEntries /\ c.total = 0
      BY <2>1, NothingRead
    <2>4. ReadFields(d) /\ d.at = "count" /\ d.table = table
          /\ d.entries = NoEntries /\ d.total = 0
      BY <2>2, <2>3 DEF ReadFields
    <2> QED
      BY <2>1, <2>4
  <1>5. Contains(table, store') \in held'[r]
    BY <1>4, WatchEffect
  <1> QED
    BY <1>3, <1>4, <1>5
       DEF ReaderInv, ReadFields, Asking, Watching, Told, OfOneSnapshot

LEMMA AskEntriesKeeps ==
  ASSUME ReadsInv, NEW r \in Readers, AskEntries(r), Watch
  PROVE  ReaderInv(r)'
  <1>1. r \in Threads /\ Shape /\ ReaderInv(r)
    BY ReadersAreThreads DEF ReadsInv
  <1>2. /\ reading[r].at = "counted" /\ reading'[r] = [reading[r] EXCEPT !.at = "entries"]
        /\ phase'[r] = "called" /\ request'[r].op = EntriesOf[reading[r].table]
        /\ store' = store
    BY <1>1 DEF AskEntries, Learns, Call, Shape
  <1>3. /\ ReadFields(reading'[r]) /\ reading'[r].at = "entries"
        /\ reading'[r].table = reading[r].table
        /\ reading'[r].entries = reading[r].entries /\ reading'[r].total = reading[r].total
    BY <1>1, <1>2, StepFields DEF ReaderInv
  <1>4. /\ reading[r].table \in Tables
        /\ reading[r].entries = NoEntries /\ reading[r].total = 0
    BY <1>1, <1>2 DEF ReaderInv, Watching
  <1>5. Contains(reading'[r].table, store') \in held'[r]
    BY <1>3, WatchEffect
  <1> QED
    BY <1>2, <1>3, <1>4, <1>5
       DEF ReaderInv, ReadFields, Asking, Watching, Told, OfOneSnapshot

LEMMA CountReturnsKeeps ==
  ASSUME ReadsInv, NEW r \in Readers, CountReturns(r), Watch
  PROVE  ReaderInv(r)'
  <1>1. r \in Threads /\ Shape /\ ReaderInv(r)
    BY ReadersAreThreads DEF ReadsInv
  <1> DEFINE at == IF reply[r].count = 0 THEN "answered" ELSE "counted"
  <1>2. /\ reading[r].at = "count" /\ phase[r] = "served" /\ phase'[r] = "idle"
        /\ reading'[r] = [reading[r] EXCEPT !.count = reply[r].count, !.at = at]
        /\ store' = store
    BY <1>1 DEF CountReturns, Learns, Return, Shape
  <1>3. PICK snapshot \in held[r] : reply[r].count = Count(snapshot)
    BY <1>1, <1>2 DEF ReaderInv, Told
  <1>4. /\ ReadFields(reading'[r]) /\ reading'[r].at = at
        /\ reading'[r].table = reading[r].table /\ reading'[r].count = reply[r].count
        /\ reading'[r].entries = reading[r].entries /\ reading'[r].total = reading[r].total
    <2>1. PICK c, d, n, new : /\ c = reading[r] /\ d = reading'[r]
                              /\ n = reply[r].count /\ new = at
      OBVIOUS
    <2>2. d = [c EXCEPT !.count = n, !.at = new]
      BY <1>2, <2>1
    <2>3. ReadFields(c)
      BY <1>1, <2>1 DEF ReaderInv
    <2>4. n \in Nat
      BY <1>3, <2>1, CountIsNat
    <2> HIDE DEF at
    <2>5. /\ ReadFields(d) /\ d.at = new /\ d.table = c.table
          /\ d.entries = c.entries /\ d.total = c.total /\ d.count = n
      BY <2>2, <2>3, <2>4 DEF ReadFields
    <2> QED
      BY <2>1, <2>5
  <1>5. /\ reading[r].table \in Tables
        /\ reading[r].entries = NoEntries /\ reading[r].total = 0
    BY <1>1, <1>2 DEF ReaderInv, Watching
  <1>6. CASE reply[r].count = 0
    <2>1. at = "answered" /\ held'[r] = held[r]
      BY <1>4, <1>6, WatchEffect
    <2>2. Present(NoEntries) = {} /\ Count(NoEntries) = 0
      BY FS_EmptySet DEF Present, NoEntries, Count
    <2>3. OfOneSnapshot(r)'
      <3>1. Count(snapshot) = 0 /\ snapshot \in held'[r]
        BY <1>3, <1>6, <2>1
      <3>2. reading'[r].entries = NoEntries /\ reading'[r].total = 0
        BY <1>4, <1>5
      <3> QED
        BY <2>2, <3>1, <3>2 DEF OfOneSnapshot
    <2>4. Asking(r)' /\ Watching(r)' /\ Told(r)'
      BY <1>2, <1>4, <2>1 DEF Asking, Watching, Told
    <2> QED
      BY <1>4, <2>1, <2>3, <2>4 DEF ReaderInv, ReadFields
  <1>7. CASE reply[r].count # 0
    <2>1. at = "counted"
      BY <1>7
    <2>2. Contains(reading'[r].table, store') \in held'[r]
      BY <1>4, <2>1, WatchEffect
    <2> QED
      BY <1>2, <1>4, <1>5, <2>1, <2>2
         DEF ReaderInv, ReadFields, Asking, Watching, Told, OfOneSnapshot
  <1> QED
    BY <1>6, <1>7

LEMMA EntriesReturnKeeps ==
  ASSUME ReadsInv, NEW r \in Readers, EntriesReturn(r), Watch
  PROVE  ReaderInv(r)'
  <1>1. r \in Threads /\ Shape /\ ReaderInv(r)
    BY ReadersAreThreads DEF ReadsInv
  <1>2. PICK part \in Cuts(reply[r].entries, reading[r].count) :
          Learns(r, "entries",
                 [reading[r] EXCEPT !.entries = part, !.total = reply[r].count,
                                    !.at = "answered"])
    BY DEF EntriesReturn
  <1>3. /\ reading[r].at = "entries" /\ phase[r] = "served" /\ phase'[r] = "idle"
        /\ reply[r].status = "ok"
        /\ reading'[r] = [reading[r] EXCEPT !.entries = part, !.total = reply[r].count,
                                            !.at = "answered"]
    BY <1>1, <1>2 DEF EntriesReturn, Learns, Return, Shape
  <1>4. /\ ReadFields(reading'[r]) /\ reading'[r].at = "answered"
        /\ reading'[r].entries = part /\ reading'[r].total = reply[r].count
        /\ reading'[r].count = reading[r].count
    <2>1. PICK c, d, n : c = reading[r] /\ d = reading'[r] /\ n = reply[r].count
      OBVIOUS
    <2>2. d = [c EXCEPT !.entries = part, !.total = n, !.at = "answered"]
      BY <1>3, <2>1
    <2>3. ReadFields(c)
      BY <1>1, <2>1 DEF ReaderInv
    <2>4. /\ ReadFields(d) /\ d.at = "answered"
          /\ d.entries = part /\ d.total = n /\ d.count = c.count
      BY <2>2, <2>3 DEF ReadFields
    <2> QED
      BY <2>1, <2>4
  <1>5. reply[r].entries \in held[r] /\ reply[r].count = Count(reply[r].entries)
    BY <1>1, <1>3 DEF ReaderInv, Told
  <1>6. held'[r] = held[r]
    BY <1>4, WatchEffect
  <1>7. OfOneSnapshot(r)'
    <2>1. PICK snapshot \in held[r] :
            snapshot = reply[r].entries /\ reply[r].count = Count(snapshot)
      BY <1>5
    <2>2. \A i \in Present(part) : part[i] = snapshot[i]
      BY <1>2, <2>1, CutsAreParts
    <2>3. Count(part) = IF reading[r].count < Count(snapshot)
                        THEN reading[r].count ELSE Count(snapshot)
      BY <1>2, <2>1, CutsAreParts
    <2>4. reading[r].count \in Nat /\ Count(snapshot) \in Nat
      BY <1>1, CountIsNat DEF ReaderInv, ReadFields
    <2>5. /\ Count(part) \in {Count(snapshot), reading[r].count}
          /\ Count(part) <= Count(snapshot)
      BY <2>3, <2>4
    <2> QED
      BY <1>4, <1>6, <2>1, <2>2, <2>5 DEF OfOneSnapshot
  <1>8. Asking(r)' /\ Watching(r)' /\ Told(r)'
    BY <1>3, <1>4 DEF Asking, Watching, Told
  <1> QED
    BY <1>4, <1>7, <1>8 DEF ReaderInv, ReadFields

LEMMA ReadKeeps ==
  ASSUME ReadsInv, NEW r \in Readers, Read(r), Watch
  PROVE  ReadsInv'
  <1>1. Shape /\ ReaderInv(r) /\ r \in Threads
    BY ReadersAreThreads DEF ReadsInv
  <1>2. ASSUME OpenFails(r) \/ HandOver(r)
        PROVE  ReaderInv(r)'
    BY <1>1, <1>2, ReadOver
       DEF OpenFails, HandOver, Learns, vars, ReaderInv, Asking
  <1>3. ASSUME EntriesFail(r)
        PROVE  ReaderInv(r)'
    BY <1>1, <1>3, ReadOver DEF EntriesFail, Learns, Return, Shape
  <1>4. ReaderInv(r)'
    BY <1>2, <1>3, AskCountKeeps, AskEntriesKeeps, CountReturnsKeeps,
       EntriesReturnKeeps DEF Read
  <1>5. ASSUME NEW q \in Readers, q # r
        PROVE  ReaderInv(q)'
    BY <1>1, <1>5, ReadFrame, ReaderFrame DEF ReadsInv
  <1> QED
    BY <1>1, <1>4, <1>5, ReadFrame DEF ReadsInv

\* Whatever comes between the two requests of a read, its table is one
\* snapshot that was held since it began, all of it or as much as had been
\* counted, and its total is that snapshot's.
THEOREM TablesAreOfOneSnapshot == ReadSpec => []TableIsOfOneSnapshot
  <1>1. ReadInit => ReadsInv
    <2>1. ASSUME ReadInit, NEW r \in Readers
          PROVE  ReaderInv(r)
      <3>1. reading[r] = NoRead /\ phase[r] = "idle"
        BY <2>1, ReadersAreThreads DEF ReadInit, Init
      <3> QED
        BY <3>1, NothingRead DEF ReaderInv, Asking, Watching, Told, OfOneSnapshot
    <2> QED
      BY <2>1 DEF ReadInit, Init, ReadsInv, Shape
  <1>2. ReadsInv /\ [ReadNext]_readVars => ReadsInv'
    <2> SUFFICES ASSUME ReadsInv, [ReadNext]_readVars
                 PROVE  ReadsInv'
      OBVIOUS
    <2>1. CASE UNCHANGED readVars
      <3>1. UNCHANGED <<store, phase, request, reply, reading, held>>
        BY <2>1 DEF readVars, vars
      <3>2. Shape'
        BY <3>1 DEF ReadsInv, Shape
      <3>3. ASSUME NEW r \in Readers
            PROVE  ReaderInv(r)'
        <4>1. ReaderInv(r)
          BY DEF ReadsInv
        <4>2. ReadFields(reading[r])' /\ Asking(r)' /\ Watching(r)'
          BY <3>1, <4>1 DEF ReaderInv, ReadFields, Asking, Watching
        <4>3. Told(r)' /\ OfOneSnapshot(r)'
          BY <3>1, <4>1 DEF ReaderInv, Told, OfOneSnapshot
        <4> QED
          BY <3>1, <4>1, <4>2, <4>3 DEF ReaderInv
      <3> QED
        BY <3>2, <3>3 DEF ReadsInv
    <2> QED
      BY <2>1, ReadKeeps, OtherReads DEF ReadNext
  <1>3. ReadsInv => TableIsOfOneSnapshot
    BY DEF ReadsInv, ReaderInv, OfOneSnapshot, TableIsOfOneSnapshot
  <1> QED
    BY <1>1, <1>2, <1>3, PTL DEF ReadSpec

=============================================================================
