------------------------------ MODULE PoolSearch ------------------------------
(***************************************************************************)
(* HandleSearchContent and SearchEntry (kn-diff.cpp): the search of a      *)
(* pattern in the memory that the entries of a snapshot name.              *)
(*                                                                         *)
(* An entry is read in chunks by a copy that stops where the memory cannot *)
(* be read; the last bytes of a chunk are carried over to the next one, so *)
(* that a match across the two is seen, and a page of which nothing can be *)
(* copied is skipped.  The snapshot is the handler's own copy; the memory  *)
(* is live: it changes, is freed and used again while it is searched.      *)
(***************************************************************************)
EXTENDS PoolMemory

CONSTANTS
  ChunkSize, \* KN_DIFF_POOL_SEARCH_CHUNK_SIZE, which is PAGE_SIZE
  Requests   \* the requests of the model, with the entries of their snapshot

ASSUME ChunksArePositive == ChunkSize \in Nat \ {0}

\* What the driver is asked for: a pattern and the room for results, which
\* is the smaller of MaxResults and of what the output buffer has.
ASSUME RequestsAreServed ==
  \A r \in Requests :
    /\ DOMAIN r = {"entries", "pattern", "capacity"}
    /\ r.entries \in Seq(Entry)
    /\ r.pattern \in Seq(Byte) \ {<<>>}
    /\ Len(r.pattern) <= ChunkSize
    /\ r.capacity \in Nat

VARIABLES
  request, \* the request and the copied snapshot
  phase,   \* entries, chunks: the two loops; done, failed: how it ended
  here,    \* SearchEntry's offset, buffer prefix, readAny, readFailure
  report   \* the response, and the counters it is filled with

search == <<request, phase, here, report>>

Start == [offset |-> 0, prefix |-> <<>>, any |-> FALSE, failure |-> FALSE]

NoReport ==
  [results |-> <<>>, total |-> 0, truncated |-> FALSE, scanned |-> 0,
   skipped |-> 0, failures |-> 0]

SearchInit ==
  /\ request \in Requests
  /\ phase = "entries"
  /\ here = Start
  /\ report = NoReport

NoRequest == [entries |-> <<>>, pattern |-> <<>>, capacity |-> 0]

\* No search is asked for.
NoSearch ==
  /\ request = NoRequest
  /\ phase = "none"
  /\ here = Start
  /\ report = NoReport

Searching == phase \in {"entries", "chunks"}

-----------------------------------------------------------------------------
(***************************************************************************)
(* HandleSearchContent's loop over the entries                             *)
(***************************************************************************)

kept == <<memory, touched, request>>

More == phase = "entries" /\ report.scanned < Len(request.entries)

NextEntry ==
  /\ More
  /\ phase' = "chunks"
  /\ here' = Start
  /\ report' = [report EXCEPT !.scanned = @ + 1]
  /\ UNCHANGED kept

\* CopySnapshotByTarget fails, or SearchEntry gets no buffer: the response
\* has no results.
NoMemory ==
  /\ More
  /\ phase' = "failed"
  /\ report' = NoReport
  /\ UNCHANGED <<kept, here>>

Answer ==
  /\ phase = "entries"
  /\ report.scanned = Len(request.entries)
  /\ phase' = "done"
  /\ UNCHANGED <<kept, here, report>>

-----------------------------------------------------------------------------
(***************************************************************************)
(* SearchEntry                                                             *)
(***************************************************************************)

\* The entry that is searched, and the address that is read next.
This == request.entries[report.scanned]

ChunkAddress == This.address + here.offset

Reading == phase = "chunks" /\ here.offset < This.size

\* Mutant of Leave: an entry is counted as skipped or as failed.
LeaveCountsOnce(any, failure) ==
  /\ phase' = "entries"
  /\ here' = Start
  /\ report' = [report EXCEPT !.skipped = IF any THEN @ ELSE @ + 1,
                              !.failures = IF any /\ failure THEN @ + 1 ELSE @]
  /\ UNCHANGED kept

\* The entry ends with these readAny and readFailure.
Leave(any, failure) ==
  /\ phase' = "entries"
  /\ here' = Start
  /\ report' = [report EXCEPT !.skipped = IF any THEN @ ELSE @ + 1,
                              !.failures = IF failure THEN @ + 1 ELSE @]
  /\ UNCHANGED kept

EntryEnds ==
  /\ phase = "chunks"
  /\ here.offset >= This.size
  /\ Leave(here.any, here.failure)

\* STATUS_INTEGER_OVERFLOW of AddUnsigned64 fails the whole request.
AddressOverflows ==
  /\ Reading
  /\ ChunkAddress >= AddressSpace
  /\ phase' = "failed"
  /\ report' = NoReport
  /\ UNCHANGED <<kept, here>>

\* Mutant of NextPageAddress: rounding up, a page's first address stays.
RoundedUpAddress ==
  (((ChunkAddress + PageSize - 1) \div PageSize) * PageSize) % AddressSpace

\* The address behind the page of ChunkAddress, in 64 bits.
NextPageAddress == ((PageOf(ChunkAddress) + 1) * PageSize) % AddressSpace

\* Nothing is copied: on to the next page, unless there is none.
SkipPage ==
  /\ Reading
  /\ ChunkAddress < AddressSpace
  /\ memory[ChunkAddress] = Hole
  /\ \/ /\ NextPageAddress <= This.address
        /\ Leave(here.any, TRUE)
     \/ /\ NextPageAddress > This.address
        /\ here' = [here EXCEPT !.offset = NextPageAddress - This.address,
                                !.prefix = <<>>, !.failure = TRUE]
        /\ UNCHANGED <<kept, phase, report>>

BytesToRead == Min({ChunkSize, This.size - here.offset})

\* The numbers of a set, in order.
InOrder(numbers) ==
  CHOOSE s \in [1 .. Cardinality(numbers) -> numbers] :
    \A i, j \in DOMAIN s : i < j => s[i] < s[j]

\* The offsets in the buffer where the pattern is, in order; those that end
\* in the prefix were found before.
Matches(buffer) ==
  LET pattern == request.pattern
      starts == {i \in 0 .. Len(buffer) - Len(pattern) :
                   /\ i + Len(pattern) > Len(here.prefix)
                   /\ SubSeq(buffer, i + 1, i + Len(pattern)) = pattern}
  IN  InOrder(starts)

Result(start) ==
  [entry |-> report.scanned, offset |-> here.offset - Len(here.prefix) + start]

\* Mutant of Carried: a match that only its last byte completes is lost.
CarriedTooShort(buffer) ==
  LET length == Min({Len(request.pattern) - 1, Len(buffer) - 1})
  IN  SubSeq(buffer, Len(buffer) - length + 1, Len(buffer))

\* Mutant of Carried: more than the buffer has room for next to a chunk.
CarriedTooLong(buffer) ==
  LET length == Min({Len(request.pattern), Len(buffer)})
  IN  SubSeq(buffer, Len(buffer) - length + 1, Len(buffer))

\* The last bytes of the buffer that a match with the next chunk can have.
Carried(buffer) ==
  LET length == Min({Len(request.pattern) - 1, Len(buffer)})
  IN  SubSeq(buffer, Len(buffer) - length + 1, Len(buffer))

\* What is in the buffer when n bytes were copied.
Buffer(n) == here.prefix \o Copied(ChunkAddress, n)

Room == request.capacity - Len(report.results)

\* A copy may stop early, and has failed then, with what it has copied.
CopyChunk ==
  /\ Reading
  /\ \E n \in Copyable(ChunkAddress, BytesToRead) :
       LET starts == Matches(Buffer(n)) IN
       /\ Len(starts) <= Room
       /\ report' = [report EXCEPT
            !.results = @ \o [k \in DOMAIN starts |-> Result(starts[k])],
            !.total = @ + Len(starts)]
       /\ here' = [here EXCEPT !.offset = @ + n, !.any = TRUE,
            !.prefix = Carried(Buffer(n)), !.failure = @ \/ n < BytesToRead]
  /\ UNCHANGED <<kept, phase>>

\* One match more than there is room for is counted and ends the search.
CopyChunkTruncated ==
  /\ Reading
  /\ \E n \in Copyable(ChunkAddress, BytesToRead) :
       LET starts == Matches(Buffer(n)) IN
       /\ Len(starts) > Room
       /\ report' = [report EXCEPT
            !.results = @ \o [k \in 1 .. Room |-> Result(starts[k])],
            !.total = @ + Room + 1,
            !.truncated = TRUE]
  /\ phase' = "done"
  /\ here' = Start
  /\ UNCHANGED kept

SearchStep ==
  \/ NextEntry \/ NoMemory \/ Answer
  \/ EntryEnds \/ AddressOverflows \/ SkipPage \/ CopyChunk \/ CopyChunkTruncated

-----------------------------------------------------------------------------
(***************************************************************************)
(* Properties                                                              *)
(***************************************************************************)

\* Every variable has values of its type; the prefix leaves a whole chunk of
\* room in the buffer of ChunkSize + Len(pattern) - 1 bytes.
SearchTypeOK ==
  /\ request \in Requests \cup {NoRequest}
  /\ phase \in {"none", "entries", "chunks", "done", "failed"}
  /\ here.offset \in Nat
  /\ here.prefix \in Seq(Byte)
  /\ phase # "none" => Len(here.prefix) < Len(request.pattern)
  /\ here.any \in BOOLEAN /\ here.failure \in BOOLEAN
  /\ report.results \in Seq([entry : 1 .. Len(request.entries), offset : Nat])
  /\ Len(report.results) <= request.capacity
  /\ report.total \in Nat /\ report.truncated \in BOOLEAN
  /\ report.scanned \in 0 .. Len(request.entries)
  /\ report.skipped \in 0 .. report.scanned
  /\ report.failures \in 0 .. report.scanned

\* The places the pattern could be at in entry e.
Places ==
  {place \in [entry : DOMAIN request.entries, offset : Addresses] :
     place.offset + Len(request.pattern) <= request.entries[place.entry].size}

Window(place) ==
  LET first == request.entries[place.entry].address + place.offset
  IN  [i \in DOMAIN request.pattern |-> first + i - 1]

Before(p, q) ==
  p.entry < q.entry \/ (p.entry = q.entry /\ p.offset < q.offset)

\* The places the report is about: all, or those up to the last result.
Covered(place) ==
  \/ ~report.truncated
  \/ report.results # <<>> /\ ~Before(Last(report.results), place)

\* What a search reports is each match once and in order, at its offset,
\* wherever the memory was left alone: none that crosses from one read to the
\* next is lost or found twice, and none is made up across a hole.
ReportIsExact ==
  phase = "done" =>
    /\ \A k \in 2 .. Len(report.results) :
         Before(report.results[k - 1], report.results[k])
    /\ \A place \in Places :
         LET window == Window(place) IN
         Covered(place) /\ ToSet(window) \subseteq Addresses \ touched =>
           (place \in ToSet(report.results)
              <=> [i \in DOMAIN window |-> memory[window[i]]] = request.pattern)

Extent(k) ==
  {a \in Addresses : a >= request.entries[k].address /\
                     a < request.entries[k].address + request.entries[k].size}

\* The counters of a report that covers every entry tell what was not
\* searched: entries of which nothing was read, and, as failures, at least
\* all those that have a hole.
StatsTellHoles ==
  phase = "done" /\ ~report.truncated /\ touched = {} =>
    /\ report.skipped =
         Cardinality({k \in DOMAIN request.entries :
                        \A a \in Extent(k) : memory[a] = Hole})
    /\ report.failures >=
         Cardinality({k \in DOMAIN request.entries :
                        \E a \in Extent(k) : memory[a] = Hole})

=============================================================================
