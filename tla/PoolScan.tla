------------------------------ MODULE PoolScan ------------------------------
(***************************************************************************)
(* ScanBigPoolSnapshot (kn-diff.cpp): what the driver records of the big   *)
(* pools, and how far it can be trusted.                                   *)
(*                                                                         *)
(* The list is asked for; each nonpaged pool of it becomes an entry with   *)
(* the protection of its pages and a hash of its content, or of its first  *)
(* and last bytes.  Two scans are made, the second is compared with the    *)
(* first, and at the end the pages of an entry can be asked for.  Between  *)
(* any two steps a byte, a page, the hash policy or the list can change.   *)
(*                                                                         *)
(* A hash is the sequence of the chunks it is of, each with its offset:    *)
(* two hashes are equal when these are.                                    *)
(***************************************************************************)
EXTENDS PoolMemory, BigPoolQuery, PageWalk

CONSTANTS
  HashChunkSize, \* KN_DIFF_POOL_HASH_CHUNK_SIZE, 512
  SampleMin,     \* KN_DIFF_POOL_HASH_SAMPLE_MIN, 0x1000
  SampleMax,     \* KN_DIFF_POOL_HASH_SAMPLE_MAX, 0x10000: the default
  SampleLimit,   \* KN_DIFF_POOL_HASH_SAMPLE_LIMIT, 0x1000000
  MaxHashed,     \* MAXULONG, where HashedBytes stops
  MaxDetailPages,\* KN_DIFF_POOL_MAX_PTE_DETAIL_PAGES
  Fill,          \* per address: the byte there, if any, at first
  Worlds,        \* the systems of the model, and what happens in each
  Lists,         \* what the list can become
  Asks           \* the requests for pages

ASSUME SamplesAreOrdered ==
  /\ {HashChunkSize, MaxDetailPages} \subseteq Nat \ {0}
  /\ {SampleMin, SampleMax, SampleLimit, MaxHashed} \subseteq Nat
  /\ 1 < SampleMin /\ SampleMin <= SampleMax /\ SampleMax <= SampleLimit
  /\ SampleLimit < MaxHashed

ListEntry == [address : Addresses, size : Nat, nonpaged : BOOLEAN]

Policy == [mode : {"sample", "full"}, sample : SampleMin .. SampleLimit]

\* What can happen: bytes, pages, policy and list change, memory runs short,
\* pages are asked for.
Kinds == {"byte", "page", "policy", "list", "shortage", "ask"}

\* In a world at most `changes' things happen, of the kinds in `happens'.
ASSUME WorldsAreSystems ==
  \A w \in Worlds :
    /\ w.pools \in Seq(ListEntry)
    /\ DOMAIN w.paths = Pages /\ \A p \in Pages : IsPath(w.paths[p])
    /\ w.policy \in Policy
    /\ w.changes \in Nat /\ w.happens \subseteq Kinds

ASSUME InputsAreTyped ==
  /\ Fill \in [Addresses -> Byte]
  /\ Lists \subseteq Seq(ListEntry)
  /\ Asks \subseteq [address : Addresses, capacity : Nat, max : Nat]

VARIABLES
  bounds,    \* of what happens in this world
  paths,     \* per page: the entries of the page tables
  policy,    \* g_HashMode and g_HashSampleBytes
  phase,     \* where ScanBigPoolSnapshot is; idle, failed, asked: between scans
  listed,    \* what the query returned
  index,     \* the loop over it
  entries,   \* the entries made so far
  spans,     \* HashPoolEntryRange's ranges of the last one
  snapshots, \* the scans that are done
  details,   \* the answer to HandleGetPteDetails
  before,    \* history: the memory when the first scan ended
  happened   \* history: what changed, and whether between the two scans

scanned == <<phase, listed, index, entries, spans, snapshots, details>>
system == <<memory, touched, paths, policy, pools, before>>
vars == <<bounds, system, querying, scanned, happened>>

\* The memory that these tables give access to.
Mapped(p) == [a \in Addresses |-> IF Translates(p[PageOf(a)]) THEN Fill[a] ELSE Hole]

Init ==
  /\ \E world \in Worlds :
       /\ pools = world.pools
       /\ paths = world.paths
       /\ policy = world.policy
       /\ memory = Mapped(world.paths)
       /\ bounds = [changes |-> world.changes, happens |-> world.happens]
  /\ touched = {}
  /\ before = memory
  /\ QueryInit
  /\ phase = "idle"
  /\ listed = <<>> /\ index = 0 /\ entries = <<>> /\ spans = <<>>
  /\ snapshots = <<>>
  /\ details = <<>>
  /\ happened = <<>>

-----------------------------------------------------------------------------
(***************************************************************************)
(* The rest of the system                                                  *)
(***************************************************************************)

\* Between the two scans.
Between == phase = "idle" /\ Len(snapshots) = 1

Happens(kind) ==
  /\ kind \in bounds.happens
  /\ Len(happened) < bounds.changes
  /\ happened' = Append(happened, [kind |-> kind, between |-> Between])

ByteChanges ==
  /\ Happens("byte")
  /\ \E a \in Addresses : \E byte \in Byte \ {memory[a]} :
       /\ memory[a] # Hole
       /\ memory' = [memory EXCEPT ![a] = byte]
       /\ touched' = touched \cup {a}
  /\ UNCHANGED <<bounds, paths, policy, pools, before, querying, scanned>>

\* A page is freed, or allocated again with its first content.
PageTableChanges ==
  /\ Happens("page")
  /\ \E p \in Pages :
       /\ paths' = [paths EXCEPT ![p][Len(paths[p])].valid = ~@]
       /\ memory' = [a \in Addresses |->
                       IF PageOf(a) = p THEN Mapped(paths')[a] ELSE memory[a]]
       /\ touched' = touched \cup PageAddresses(p)
  /\ UNCHANGED <<bounds, policy, pools, before, querying, scanned>>

PoolsChange ==
  /\ Happens("list")
  /\ \E list \in Lists : ListChanges(list)
  /\ UNCHANGED <<bounds, memory, touched, paths, policy, before, scanned>>

\* Mutant of Chosen: what was asked for is not limited.
ChosenUnlimited(mode, sample) ==
  [mode |-> mode, sample |-> IF sample = 0 THEN SampleMax ELSE sample]

\* HandleSetHashPolicy: 0 stands for the default, and the rest is limited.
Chosen(mode, sample) ==
  [mode |-> mode,
   sample |-> IF sample = 0 THEN SampleMax
              ELSE Min({Max({sample, SampleMin}), SampleLimit})]

\* A request of another client, in the middle of the scan.
SetHashPolicy ==
  /\ Happens("policy")
  /\ \E mode \in {"sample", "full"}, sample \in 0 .. SampleLimit + 1 :
       policy' = Chosen(mode, sample)
  /\ policy' # policy
  /\ UNCHANGED <<bounds, memory, touched, paths, pools, before, querying, scanned>>

Environment == ByteChanges \/ PageTableChanges \/ PoolsChange \/ SetHashPolicy

-----------------------------------------------------------------------------
(***************************************************************************)
(* AnnotatePoolEntryAttributes                                             *)
(***************************************************************************)

\* CountPagesForRange, cut off at the end of the address space.
PageCount(address, size) ==
  IF size = 0 THEN 0
  ELSE PageOf(Min({address + size - 1, AddressSpace - 1})) - PageOf(address) + 1

EntryPages(entry) == PageOf(entry.address) .. PageOf(entry.address) + entry.pages - 1

\* IsVirtualAddressReadable of the page's first address that is the entry's.
IsReadable(entry, p) == memory[Max({entry.address, p * PageSize})] # Hole

\* Mutant of Walked: a readable page that cannot be walked is counted.
WalkedOrReadable(entry) ==
  [p \in EntryPages(entry) |->
     LET found == Walk(paths[p]) IN
     [accessible |-> IsReadable(entry, p),
      writable |-> found.writable, executable |-> found.executable]]

\* What the loop finds of each page.
Walked(entry) ==
  [p \in EntryPages(entry) |->
     LET found == Walk(paths[p]) IN
     [accessible |-> found.present /\ IsReadable(entry, p),
      writable |-> found.writable, executable |-> found.executable]]

\* The counts and the flags; without a table to walk with, no more than
\* whether the pool's first byte can be read.
Annotated(entry, table) ==
  LET found == Walked(entry)
      first == PageOf(entry.address)
      Counted(what) == Cardinality({p \in DOMAIN found : found[p][what]})
      If(flag, condition) == IF condition THEN {flag} ELSE {}
      readable == entry.size > 0 /\ IsReadable(entry, first)
      Every(what) == entry.pages # 0 /\ Counted(what) = entry.pages
      Some(what) == Counted(what) > 0
  IN  IF ~table
      THEN [entry EXCEPT !.accessible = IF readable THEN 1 ELSE 0,
                         !.flags = If("accessible", readable)]
      ELSE [entry EXCEPT
              !.accessible = Counted("accessible"),
              !.writable = Counted("writable"),
              !.executable = Counted("executable"),
              !.flags =
                {what \in {"accessible", "writable", "executable"} :
                   entry.pages # 0 /\ found[first][what]}
                \cup If("accessible_all", Every("accessible"))
                \cup If("writable_all", Every("writable"))
                \cup If("writable_mixed", Some("writable") /\ ~Every("writable"))
                \cup If("executable_any", Some("executable"))
                \cup If("executable_mixed", Some("executable") /\ ~Every("executable"))]

-----------------------------------------------------------------------------
(***************************************************************************)
(* HashPoolEntryContent                                                    *)
(***************************************************************************)

\* Mutant of Spans: the tail is as long as the whole sample.
SpansOverlong(size) ==
  IF policy.mode = "full" \/ size <= policy.sample
  THEN <<[from |-> 0, to |-> size]>>
  ELSE <<[from |-> 0, to |-> policy.sample \div 2],
         [from |-> size - policy.sample, to |-> size]>>

\* All of the pool, or its first and last bytes.
Spans(size) ==
  LET half == policy.sample \div 2 IN
  IF policy.mode = "full" \/ size <= policy.sample
  THEN <<[from |-> 0, to |-> size]>>
  ELSE <<[from |-> 0, to |-> half], [from |-> size - half, to |-> size]>>

This == Last(entries)

Update(entry) == entries' = [entries EXCEPT ![Len(entries)] = entry]

InHash == phase = "hash" /\ spans # <<>>

Source == This.address + Head(spans).from

Wanted == Min({HashChunkSize, Head(spans).to - Head(spans).from})

\* A copy copies up to the first byte that cannot be read.
Copies == Max({0} \cup Copyable(Source, Wanted))

\* The address behind the page of Source, in 64 bits.
NextPageAddress == ((PageOf(Source) + 1) * PageSize) % AddressSpace

\* Mutant of After: where nothing can be copied, it is tried again.
AfterRetry == Head(spans).from + Copies

\* Where a range goes on: behind the chunk, or, when it came short, on the
\* next page, unless that is no further.
After ==
  LET reached == Head(spans).from + Copies
      skip == NextPageAddress - This.address
  IN  IF Copies = Wanted THEN reached
      ELSE IF NextPageAddress > This.address /\ skip > reached THEN skip
      ELSE Head(spans).to

\* UpdateContentHash, with the MixContentHashValue of the chunk's offset; the
\* count of the bytes stops at the largest.
UpdateContentHash(entry) ==
  [entry EXCEPT
     !.hash = Append(@, [offset |-> Head(spans).from, bytes |-> Copied(Source, Copies)]),
     !.hashed = Min({@ + Copies, MaxHashed})]

HashChunk ==
  /\ InHash /\ Source < AddressSpace
  /\ IF Copies = 0 THEN UNCHANGED entries ELSE Update(UpdateContentHash(This))
  /\ spans' = IF After < Head(spans).to
              THEN [spans EXCEPT ![1].from = After] ELSE Tail(spans)
  /\ UNCHANGED <<bounds, system, querying, phase, listed, index, snapshots, details, happened>>

\* AddUnsigned64 fails behind the last address.
HashOverflows ==
  /\ InHash /\ Source >= AddressSpace
  /\ spans' = Tail(spans)
  /\ UNCHANGED <<bounds, system, querying, phase, listed, index, entries, snapshots,
                 details, happened>>

\* Mutant of HashEnds: a hash with holes passes for one of all of the pool.
HashEndsUnmarked ==
  /\ phase = "hash" /\ spans = <<>>
  /\ phase' = "entries"
  /\ UNCHANGED <<bounds, system, querying, listed, index, entries, spans, snapshots,
                 details, happened>>

\* A pool that was to be hashed whole and was not is marked as sampled; the
\* others are marked already.
HashEnds ==
  /\ phase = "hash" /\ spans = <<>>
  /\ phase' = "entries"
  /\ Update([This EXCEPT !.flags =
       IF This.hashed < This.size THEN @ \cup {"sampled"} ELSE @])
  /\ UNCHANGED <<bounds, system, querying, listed, index, spans, snapshots, details, happened>>

-----------------------------------------------------------------------------
(***************************************************************************)
(* ScanBigPoolSnapshot                                                     *)
(***************************************************************************)

\* As a bound of the model, two scans are made.
ScanBegins ==
  /\ phase = "idle" /\ Len(snapshots) < 2
  /\ phase' = "query"
  /\ QueryBegins
  /\ UNCHANGED <<bounds, system, listed, index, entries, spans, snapshots, details, happened>>

\* An error of the query is a shortage, unless the list is the reason.
Query ==
  /\ phase = "query"
  /\ \/ QueryFails /\ Happens("shortage")
     \/ (ListFits \/ OutOfRetries \/ TooBig \/ AskAgain) /\ UNCHANGED happened
  /\ phase' = IF query' \in {"asking", "answered"} THEN "query" ELSE "failed"
  /\ listed' = IF query' = "answered" THEN pools ELSE listed
  /\ UNCHANGED <<bounds, system, index, entries, spans, snapshots, details>>

Answered == phase = "query" /\ query = "answered"

\* AllocateSnapshot and the two buffers, which may be missing.
Allocates ==
  /\ Answered
  /\ \E got \in SUBSET {"table", "hash"} :
       /\ held' = held \cup got
       /\ IF got = {"table", "hash"} THEN UNCHANGED happened ELSE Happens("shortage")
  /\ phase' = "entries"
  /\ index' = 1
  /\ entries' = <<>>
  /\ UNCHANGED <<bounds, system, query, bufferSize, retries, peak, grown, listed, spans,
                 snapshots, details>>

\* Mutant of AllocationFails: the list is not freed.
AllocationFailsHeld ==
  /\ Answered /\ listed # <<>>
  /\ Happens("shortage")
  /\ phase' = "failed"
  /\ UNCHANGED <<bounds, system, querying, listed, index, entries, spans, snapshots, details>>

AllocationFails ==
  /\ Answered /\ listed # <<>>
  /\ Happens("shortage")
  /\ phase' = "failed"
  /\ held' = {}
  /\ UNCHANGED <<bounds, system, query, bufferSize, retries, peak, grown, listed, index,
                 entries, spans, snapshots, details>>

NewEntry(pool) ==
  [address |-> pool.address, size |-> pool.size,
   pages |-> PageCount(pool.address, pool.size),
   accessible |-> 0, writable |-> 0, executable |-> 0, flags |-> {},
   hash |-> <<>>, hashed |-> 0]

Sampled(pool) == policy.mode = "sample" /\ pool.size > policy.sample

\* Paged pools are passed over.
NextPool ==
  /\ phase = "entries" /\ index <= Len(listed)
  /\ index' = index + 1
  /\ LET pool == listed[index]
         entry == Annotated(NewEntry(pool), "table" \in held)
         toHash == "hash" \in held /\ pool.size > 0
     IN  IF ~pool.nonpaged THEN UNCHANGED <<entries, phase, spans>>
         ELSE /\ entries' = Append(entries,
                   IF toHash /\ Sampled(pool)
                   THEN [entry EXCEPT !.flags = @ \cup {"sampled"}] ELSE entry)
              /\ phase' = IF toHash THEN "hash" ELSE phase
              /\ spans' = IF toHash THEN Spans(pool.size) ELSE <<>>
  /\ UNCHANGED <<bounds, system, querying, listed, snapshots, details, happened>>

ScanEnds ==
  /\ phase = "entries" /\ index > Len(listed)
  /\ phase' = "idle"
  /\ held' = {}
  /\ snapshots' = Append(snapshots, entries)
  /\ before' = IF snapshots = <<>> THEN memory ELSE before
  /\ UNCHANGED <<bounds, memory, touched, paths, policy, pools, query, bufferSize, retries,
                 peak, grown, listed, index, entries, spans, details, happened>>

-----------------------------------------------------------------------------
(***************************************************************************)
(* HandleGetPteDetails                                                     *)
(***************************************************************************)

\* The entries of g_Diff, which the code looks at first, are some of these.
Current == snapshots[2]

\* AddressInPoolEntry
HasAddress(entry, address) ==
  /\ entry.address <= address
  /\ address < Min({entry.address + entry.size, AddressSpace - 1})

Page(entry, p) ==
  LET found == Walk(paths[p]) IN
  [present |-> found.present, writable |-> found.writable,
   executable |-> found.executable, large |-> found.large,
   readable |-> IsReadable(entry, p)]

\* How many pages are returned: all that there is room for and that are
\* wanted, for which 0 and too many stand for the maximum.
ReturnedPages(entry, ask) ==
  LET most == IF ask.max \in 1 .. MaxDetailPages THEN ask.max ELSE MaxDetailPages
  IN  Min({entry.pages, ask.capacity, most})

Asked == phase = "idle" /\ Len(snapshots) = 2 /\ "ask" \in bounds.happens

\* There is no memory for the page tables.
PteDetailsFail ==
  /\ Asked
  /\ Happens("shortage")
  /\ phase' = "asked"
  /\ UNCHANGED <<bounds, system, querying, listed, index, entries, spans, snapshots, details>>

\* Once two scans are done the first entry with the address is described.
GetPteDetails ==
  /\ Asked
  /\ \E ask \in Asks :
       LET found == {k \in DOMAIN Current : HasAddress(Current[k], ask.address)}
           entry == Current[Min(found)]
           count == ReturnedPages(entry, ask)
       IN  details' =
             IF found = {} THEN <<>>
             ELSE <<[entry |-> entry,
                     pages |-> [k \in 1 .. count |->
                                  Page(entry, PageOf(entry.address) + k - 1)],
                     truncated |-> count < entry.pages]>>
  /\ phase' = "asked"
  /\ UNCHANGED <<bounds, system, querying, listed, index, entries, spans, snapshots, happened>>

Step ==
  \/ ScanBegins \/ Query \/ Allocates \/ AllocationFails \/ NextPool \/ ScanEnds
  \/ HashChunk \/ HashOverflows \/ HashEnds
  \/ GetPteDetails \/ PteDetailsFail

Next == Step \/ Environment

Spec == Init /\ [][Next]_vars

\* The handler's thread runs on.
FairSpec == Spec /\ WF_vars(Step)

-----------------------------------------------------------------------------
(***************************************************************************)
(* The comparison of two scans                                             *)
(***************************************************************************)

\* Mutant of EntryContentHashChanged: hashes of any length are compared.
ChangedAtAnyLength(baseline, current) ==
  /\ baseline.hashed # 0 /\ current.hashed # 0
  /\ ("sampled" \in baseline.flags) = ("sampled" \in current.flags)
  /\ baseline.hash # current.hash

EntryContentHashChanged(baseline, current) ==
  /\ baseline.hashed # 0 /\ current.hashed # 0
  /\ baseline.hashed = current.hashed
  /\ ("sampled" \in baseline.flags) = ("sampled" \in current.flags)
  /\ baseline.hash # current.hash

\* The pairs of entries that are compared: those of one pool.  The code
\* compares their tags as well, which pools do not have here, so these are
\* at least the pairs that it compares.
Compared ==
  IF Len(snapshots) < 2 THEN {}
  ELSE {pair \in ToSet(snapshots[1]) \X ToSet(snapshots[2]) :
          pair[1].address = pair[2].address /\ pair[1].size = pair[2].size}

-----------------------------------------------------------------------------
(***************************************************************************)
(* Properties                                                              *)
(***************************************************************************)

Entries == UNION {ToSet(snapshots[k]) : k \in DOMAIN snapshots}

Flags ==
  {"accessible", "writable", "executable", "accessible_all", "writable_all",
   "writable_mixed", "executable_any", "executable_mixed", "sampled"}

\* Every variable has values of its type, the hash policy within its limits.
TypeOK ==
  /\ bounds \in [changes : Nat, happens : SUBSET Kinds]
  /\ memory \in [Addresses -> Byte \cup {Hole}] /\ WholePages(memory)
  /\ before \in [Addresses -> Byte \cup {Hole}]
  /\ touched \subseteq Addresses
  /\ \A p \in Pages : IsPath(paths[p])
  /\ policy \in Policy /\ pools \in Seq(ListEntry)
  /\ query \in {"off", "asking", "answered", "failed", "retry", "too_big"}
  /\ bufferSize \in 0 .. MaxSize /\ retries \in 0 .. MaxRetries
  /\ peak \in Nat /\ grown \in BOOLEAN
  /\ held \subseteq {"list", "table", "hash"}
  /\ phase \in {"idle", "query", "entries", "hash", "failed", "asked"}
  /\ listed \in Seq(ListEntry) /\ index \in Nat
  /\ phase \in {"entries", "hash"} => index \in 1 .. Len(listed) + 1
  /\ \A e \in Entries \cup ToSet(entries) :
       /\ e.pages \in 0 .. Cardinality(Pages)
       /\ {e.accessible, e.writable, e.executable} \subseteq 0 .. e.pages
       /\ e.flags \subseteq Flags
       /\ e.hashed \in 0 .. e.size
  /\ \A k \in DOMAIN spans : spans[k].from <= spans[k].to /\ spans[k].to <= This.size
  /\ Len(snapshots) <= 2 /\ Len(details) <= 1
  /\ Len(happened) <= bounds.changes

\* A scan gives its buffers back however it ends: the list, the page table
\* and the hash buffer are held only while it runs.
ScratchIsFreed == phase \in {"idle", "failed", "asked"} => held = {}

\* Nothing but this has happened.
Only(kinds) == \A k \in DOMAIN happened : happened[k].kind \in kinds

Extent(entry) == entry.address .. entry.address + entry.size - 1

\* All of the pool can be read.
Whole(entry) ==
  /\ Extent(entry) \subseteq Addresses
  /\ \A a \in Extent(entry) : memory[a] # Hole

Offsets(entry) ==
  UNION {{c.offset + i - 1 : i \in DOMAIN c.bytes} : c \in ToSet(entry.hash)}

\* The bytes the policy asks for.
InSample(size) ==
  {o \in 0 .. size - 1 :
     \/ policy.mode = "full" \/ size <= policy.sample
     \/ o < policy.sample \div 2 \/ o >= size - policy.sample \div 2}

(***************************************************************************)
(* A hash that is not marked as sampled is of every byte of the pool,      *)
(* whatever came and went; one of a pool that could be read is of what the *)
(* policy asks for, and no byte of it is hashed twice.                     *)
(***************************************************************************)
HashCoversWhatItSays ==
  \A e \in Entries :
    /\ e.hashed = Min({Cardinality(Offsets(e)), MaxHashed})
    /\ e.hash # <<>> /\ "sampled" \notin e.flags => Offsets(e) = 0 .. e.size - 1
    /\ Only({"byte", "list"}) /\ Whole(e) => Offsets(e) = InSample(e.size)

\* Bytes that change between the two scans are reported as a change exactly
\* when one of those that are hashed is not what it was.
ChangeIsSeen ==
  (\A k \in DOMAIN happened :
     happened[k] = [kind |-> "byte", between |-> TRUE])
  => \A pair \in Compared :
       Whole(pair[1]) =>
         (EntryContentHashChanged(pair[1], pair[2])
            <=> \E o \in InSample(pair[1].size) :
                  memory[pair[1].address + o] # before[pair[1].address + o])

\* A pool that can be read and that nobody writes to is not reported,
\* whatever policy each of its hashes was made under and however the list
\* changed.
NoFalseChange ==
  Only({"policy", "list", "shortage"}) =>
    \A pair \in Compared :
      Whole(pair[1]) => ~EntryContentHashChanged(pair[1], pair[2])

(***************************************************************************)
(* The flags of an entry are what the processor makes of its pages: all,   *)
(* some or none of them are accessible, writable, executable.  That is for *)
(* tables the driver can follow and that are left alone.                   *)
(***************************************************************************)
AnnotationIsExact ==
  Only({"byte", "policy", "list"}) =>
    \A e \in Entries :
      LET Pg == EntryPages(e)
          Every(May(_)) == Pg # {} /\ \A p \in Pg : May(paths[p])
          Some(May(_)) == \E p \in Pg : May(paths[p])
      IN  (\A p \in Pg : Translates(paths[p]) => CanBeWalked(paths[p])) =>
            /\ "accessible_all" \in e.flags <=> Every(Translates)
            /\ "writable_all" \in e.flags <=> Every(MayWrite)
            /\ "writable_mixed" \in e.flags <=> Some(MayWrite) /\ ~Every(MayWrite)
            /\ "executable_any" \in e.flags <=> Some(MayExecute)
            /\ "executable_mixed" \in e.flags <=> Some(MayExecute) /\ ~Every(MayExecute)

\* The pages that are listed for an entry add up to its counts, when all of
\* them are listed and the tables were left alone.
DetailsAgree ==
  Only({"byte", "policy", "list"}) =>
    \A k \in DOMAIN details :
      LET shown == details[k].pages
          entry == details[k].entry
          Number(P(_)) == Cardinality({i \in DOMAIN shown : P(shown[i])})
      IN  ~details[k].truncated =>
            /\ entry.accessible = Number(LAMBDA s : s.present /\ s.readable)
            /\ entry.writable = Number(LAMBDA s : s.writable)
            /\ entry.executable = Number(LAMBDA s : s.executable)

\* A scan ends, whatever list it gets and whatever memory it meets.
ScansEnd == <>[](phase \in {"idle", "failed", "asked"})

=============================================================================
