# Kn Diff Pool: specifications, model checks and proofs

TLA+ modules for Kn Diff Pool, a Windows kernel driver that takes snapshots of
the kernel's big pool and compares them, and the Go terminal program that
installs it, drives it and shows the result. Paths below are relative to the
repository; `kn-diff.cpp` is `src/kn-diff/kn-diff/kn-diff.cpp`, and the Go files
are under `src/user/kn-pool-diff/`.

## 1. The system

```
 user ── keys ──> tui.Model ── commands (goroutines) ──> device ── ioctl ──> driver
                     ^                                └> scm ── service manager ─┘
                     └────────── messages ───────────┘
```

| Component | State | Operations | What is hard | What makes it correct |
| --- | --- | --- | --- | --- |
| Driver, snapshots and diff (`kn-diff.cpp` 141-193, 255-389, 829-1079, 1499) | `g_Baseline`, `g_Current`, `g_Diff` under `g_SnapshotLock`; `g_NextSnapshotId` | create baseline, create current, counts, entries, clear, unload | the scan is outside the lock, buffers are moved by hand, the diff can fail to be rebuilt | the diff is always of the baseline and current snapshot it is found with; no leak or double free; every request completes |
| Driver, test allocations (225-253, 1505-1601) | `g_TestAllocations`, its count, its lock | allocate with a quota, free all | quota checked, lock let go, node inserted later | quota kept, every pool owned once |
| Driver, scan, hash, page attributes (391-875, 1603-1638) | the hash policy under its lock; scratch buffers | query, annotate, hash, set policy | the list grows while it is queried; pages come and go; the policy changes in the middle of a scan; buffers may be missing | a query gives up for cause; a hash covers what it says; flags are the processor's view; everything is freed |
| Driver, reads, searches, page details (282-330, 1081-1497) | none (a copy, or one entry found under the lock) | read, search, page details | chunk boundaries, holes, the end of the address space | every match once at its offset; a read is of the entry, in place; every request ends |
| Driver, load and unload (1640-1756) | device, link | entry, unload, dispatch | what is left at unload | all memory given back |
| Protocol (`src/shared/kn_diff_protocol.h`, `internal/protocol`) | none | layouts and codes | agreement of two languages | sizes (tested by the repository) |
| Device client (`internal/device`) | `deviceHandleMu` | one open, one ioctl, one close per request; counts then entries | the pair is not atomic; stops wait for the same mutex | no request while the driver is stopped |
| Service client (`internal/scm`) | the service manager's | query, install, start, stop, delete, stop and delete | time-outs, a service marked for deletion, half of stop-and-delete failing | after a success the driver is gone |
| Terminal program (`internal/tui`) | `Model` | keys, commands, messages | commands run side by side; messages in any order; failures half way | what is shown belongs together; keys offered when they work |
| Start and exit (`cmd/kn-pool-diff`, `internal/singleinstance`) | one named mutex | run, clean up, exit | kill, failed cleanup | a clean exit leaves no service |
| Export (`internal/exporter`, the commands in `internal/tui`) | files | save a pool, save a dump, export the tables | a pool is read in many requests while it and its snapshot change | a saved pool is a prefix, and says when it is not all |
| Settings and paths (`internal/config`, `internal/paths`) | `config.json` | load, save | written in place; files of earlier versions | a restart finds what was set |
| Privilege and signing queries | none | asked once | | not modelled |

The full list of hazards, each at its line with the properties that watch it, is
`hazards` in `PROJECT.json`.

## 2. Modules

| Module | Models |
| --- | --- |
| `PoolEntries` | entries, contents of a snapshot, `EntryContentHashChanged`, the diff of two contents |
| `SnapshotStore` | what the driver promises: a store on which each request takes effect at one instant |
| `PoolSnapshots` | the driver's handlers, statement by statement under the lock, with buffers and failures; implements `SnapshotStore` |
| `PoolSnapshotsProofs`, `PoolStoreProofs` | theorems about `PoolSnapshots`; its step simulation of `SnapshotStore` |
| `EntriesReads` | how the program reads a table from the store: a count, then the entries; extends `SnapshotStore` |
| `EntriesReadsProofs` | theorem about these reads |
| `TestPools` | test allocations, their quota, and the snapshots that name them |
| `TestPoolsClient` | when the requests of `TestPools` have overlapped, and what holds when they never have |
| `TestPoolsProofs` | theorems about `TestPools` and its client |
| `DriverService` | the service and the loaded driver as the program acts on them |
| `PoolSession` | the program: keys, commands, messages, device mutex, exit, kill and restart; extends `DriverService` |
| `PoolSessionProofs` | theorems about the session of any user, and of one who waits for every answer |
| `PoolMemory` | memory with holes that changes while it is read, and what a copy of it gives |
| `PoolSearch` | the search: `HandleSearchContent` and `SearchEntry` |
| `PoolDump` | the saving of a pool: `readPoolDump`, `HandleReadContent`, `SavePoolDump` |
| `PoolContent` | composes the two over one memory |
| `PoolContentProofs` | theorems about saves and searches |
| `BigPoolQuery` | `QuerySystemBigPoolInfo`: the list and the buffer it is asked for with |
| `PageWalk` | `QueryAddressPteAttributes`, and the processor's own walk it is compared with |
| `PoolScan` | composes memory, query and walk: `ScanBigPoolSnapshot`, attributes, hash and policy, page details |
| `PoolScanProofs` | theorems about the query and the scan |
| `PoolTable` | tables, filters, orders, selection, paging of the terminal program, and its settings file |
| `PoolTableProofs` | theorems about `PoolTable` |
| `MCPoolSnapshots`, `MCEntriesReads`, `MCTestPools`, `MCPoolSession`, `MCPoolContent`, `MCPoolScan`, `MCPoolTable` | the instances TLC checks |

### 2.1 PoolSnapshots

Each thread is one request in the driver. `Submit` is `DispatchDeviceControl`
with the increment of `g_NextSnapshotId`; `Scan` is `ScanBigPoolSnapshot`;
`Acquire` and `Release` are the fast mutex; between them each call that changes a
global is a step (`ReplaceBaseline`, then `FreeDerived`; `ReplaceCurrent`, then
`RebuildDiff` or `RebuildDiffFails`); `Finish` frees the local snapshot and
completes the request. Validation of buffer sizes has no state and is left out.

A snapshot is a buffer pointer and the entries in use. `Bufs` is the memory; an
allocation may fail at any time, and gives no buffer for a capacity of zero, as
in the code. The entries of a scan are arbitrary (`Observations`): for each
allocation absent, or a hash with its coverage. `published` is a history
variable: the contents when the lock was last released.

`ImplementsStore` is a refinement: `published` is the store, a thread past its
release has been served. So for clients every request is atomic, and a failed
rebuild of the diff is the one failure that still has an effect (the new current
snapshot stands, without a diff).

`EntriesReads` is a client of that store: `DiffEntries` and `CurrentEntries` ask
for the count (`AskCount`, `CountReturns`) and, if there is one, for the entries
into a buffer of that many (`AskEntries`, `EntriesReturn`). Between the two nothing
is locked: the other threads capture and clear, and the driver can be stopped, so
that the device cannot be opened (`OpenFails`), and started again with nothing in
it. `CompleteEntriesResponse` copies what fits (`Cuts`) and gives the total of its
copy. Which entries fit is left open, since contents are sets of entries here.
`held` is history: what the snapshot has been since the read began.

### 2.2 TestPools

Sections under `g_TestAllocationLock` or `g_SnapshotLock` are single steps, the
allocations between them steps of their own. One element of `Allocs` stands for
the pool and its list node, which are tracked separately (`pools`, `nodes`).

### 2.3 DriverService and PoolSession

A command of the program occupies a slot while it runs and until its message is
handled (`"sent"`). The `Model` is reduced to what keys depend on (`status`,
`connected`, `busy`, `input`, baseline, `ready`) and to which snapshots the
tables and panels show, by generation: the number of the create request that
made them (what the two requests of a table can do to its contents is the subject
of `EntriesReads`). Numbers are never reused, also not by a driver that is loaded again,
so they tell whether two things shown belong together.

Every request holds `deviceHandleMu` from its open to its close, so it is one
step, except the creates, which hold it over the scan; a stop, a shutdown and
main's cleanup hold it throughout; a start and a status query do not hold it.
Every step can fail. A stop that times out leaves a driver that unloads later
(`StopsLate`); a delete of a running service marks it. The service manager is
external and modelled by how `scm_windows.go` uses it, including the error it
expects when it opens a service marked for deletion.

`ProgramEnds` is `program.Run` that returns without a quit from the Model: with an
error, or on a signal. `main` then cleans up just as after a shutdown, while
commands are still under way. `Restart` is the program started again after its
exit or after it was killed: its memory is gone, the driver and its snapshots are
not.

Keys that only read what is in memory, or whose command changes nothing but the
log (`r`, `v`, `p`, filters, sort, scrolling), are left out: `PoolTable` and
`PoolDump` have those that can go wrong. The session is that of an elevated user,
since without elevation no service key does anything.

### 2.4 PoolMemory, PoolSearch, PoolDump, PoolContent

Memory is a function from addresses to bytes with holes of whole pages. A page is
written to, freed or filled at any time; `touched` remembers where. A copy ends
at a hole at the latest and may end earlier, but never with nothing where the
first byte can be read. Addresses are counted modulo `AddressSpace`, where the
code counts in 64 bits.

`PoolSearch` is one request and the snapshot it has copied. `NextEntry` and
`Answer` are the loop of `HandleSearchContent`, the other steps one turn of the
loop of `SearchEntry` each: `CopyChunk` when something was copied, with the scan
of the buffer and the carry-over; `SkipPage` when nothing was;
`CopyChunkTruncated` when there is no room for a match. `here` is `SearchEntry`'s
local state, `report` the counters and the response.

`PoolDump` is one save of a pool, from the command to its two files. Each chunk
is a request of its own (`Answers`): it looks the entry up again, in the diff
first and then in the current snapshot, and may come short, be empty or fail.
Meanwhile the snapshots may be replaced or go away (`SnapshotsReplaced`), so
that the entry found has another size, and the memory may change. A request that
fails before it gets to the driver is handled by `readPoolDump` as one that the
driver refuses, and is not a case of its own. A file that
cannot be written may be cut short.

What can be promised of memory that moves: every place whose bytes did not change
while a search ran is in the report if and only if the pattern is there, up to
the last result when the report is truncated (`ReportIsExact`), and every
unchanged byte of a saved pool is the one at its address (`SavedIsPrefix`).

### 2.5 BigPoolQuery, PageWalk, PoolScan

`BigPoolQuery` counts sizes in entries of the list. A call that finds its buffer
too small returns the length it would have taken, or none; the list changes
between two calls. `grown` and `peak` are history: what the list did meanwhile.

`PageWalk` takes the entries that an address selects, from the root to the last.
`Walk` is the driver's loop; `Translates`, `MayWrite` and `MayExecute` state what
the processor makes of the same entries, without a loop. A root entry that cannot
be copied (`kn-diff.cpp:481`) has no case of its own: the outcome is that of an
entry that is not valid, and `AnnotationIsExact` says nothing of tables that
cannot be read.

`PoolScan` makes two scans. An entry is annotated in one step (`NextPool`, with
`Annotated`) and hashed one chunk per step (`HashChunk`), between which a byte,
a page, the policy or the list can change, a bounded number of times per
behaviour (`bounds`). A hash is the sequence of the chunks it is of with their
offsets, as `MixContentHashValue` and `UpdateContentHash` fold them in: collisions
of FNV-1a are left out. A copy for a hash goes on to the first byte that cannot
be read. `before` is history: the memory when the first of two scans ended.
`HashedBytes` stops at the maximum of its 32 bits (`MaxHashed`, 11 in the run, above every
sample's limit as in the code). At the end the page details of an entry may be asked for. A missing page
table buffer leaves only the readability of the first page, a missing hash buffer
leaves no hash; both are modelled, as is a query that fails at any point. The pools
have no tags: the code compares entries of one address, size and tag
(`EntryIdentityEquals`), and what is shown of all pairs of one address and size
(`Compared`) holds for those.

Things the model made plain, none of which a document of the repository denies:

* When a chunk crosses into a page that cannot be read, its copy stops at the end
  of the page before, and the range ends there, because the page it would go on
  with is no further than the offset already reached (`kn-diff.cpp:638`). When a
  chunk begins at such a page, the range goes on behind it. So whether the pages
  behind a hole are hashed depends on where the pool begins in its first page;
  the hash is marked as sampled in both cases.
* Two hashes of one length are compared whatever parts of the pool they cover, so
  different holes in two scans, or a hole in one and another policy in the other,
  can flag a pool to which nobody wrote. `NoFalseChange` is stated for pools that could be read.
* A pool of more than 4 GiB is marked as sampled under every policy, also when
  all of it was hashed, since `HashedBytes` then falls short of its size.
* The limits of the sample are applied when the policy is set; the second
  application, before each hash, changes nothing.
* No part of the program sets the policy: `SetHashPolicy` is a request of another
  client, and the hash mode of `config.json` is only written to exports.

### 2.6 PoolTable

The rows a user sees are recomputed from the entries, the filters and the order
whenever they are used (a stable sort: row `k` is the one whose key `k - 1` keys
come before; `MatchesAreSorted` relates these keys to `entryLess` and
`searchResultLess`, which compare field by field), and `selected` and `searchIndex` are positions in them
that keys use without a check. Messages come at any time: `PoolSession` has the
commands that send them and shows that they come in any order, so `PoolTable`
takes each as an action that is always enabled, a dump's one excepted
(`dumping`): dumps that are asked for are answered in any order, and `MaxDumps`
bounds their number, which the code does not. Page details, scrolling, the log and the typing of text have no
part in what is checked. `w`, `e` and `a` are one action over `Protections`; a
tag filter is a member of `Tag`, which entries match or not (`tags`).

`file` is `config.json`. A save that fails leaves the old file or one that cannot
be read, which the next start takes for no file. `Restart` is the program started
again.

Two details: `g` selects the first row when the pool of the search result is not
in the visible table (`findEntryIndex`), and a new baseline shows the diff table
without saving that setting; `JumpSelectsTheHit` and `SettingsAreKept` say so.

## 3. Model checking

`tlc -config <cfg> <module>` for each run of `PROJECT.json`.

| Run | Bounds | Shows |
| --- | --- | --- |
| `snapshots` | 2 requests, 5 buffers, 3 ids, 2 allocations, 4 observations; symmetric in threads and buffers | consistency of the diff, ownership of buffers, nothing left after an unload, refresh drops what is derived, refinement of the store |
| `snapshots_progress` | 2 requests, 3 buffers, 2 ids, 2 observations, fairness | every request completes |
| `reads` | 1 reader, 1 thread of captures and clears, 3 ids, 2 allocations, scans that see one or both | a table is of one snapshot, and says so when it is cut |
| `test_pools` | 3 requests, 4 allocations, quota 2; symmetric | quota, ownership; snapshots name live pools between the requests of a client whose requests never overlapped |
| `session` | 2 commands in flight, 3 creates, keys at any time, without the detail panels | creates commit in order, no stop under a request, a clean exit leaves no service that stays |
| `session_patient` | 3 creates, a key, or the end of the program, only when nothing is in flight | nothing of an older baseline is shown, a clean exit removes the service |
| `session_progress` | 2 commands in flight, 1 create, the keys `s`, `t`, `b` and `q`, fairness | a shutdown is answered, the cleanup ends |
| `content` | 3 pages of 3 bytes, 2 byte values, every memory, one change of it; 4 searches; saves of 4 pools in chunks of 2 up to 6 bytes, with 3 pairs of snapshots of which one replaces another; fairness | each match once and in order, counters tell the holes; a file is a prefix, marked when it is not all, and reaches to the first hole; both end |
| `scan` | 4 pages of 4 bytes, chunks of 2, samples of 4 to 7, 3 policies; lists of up to 8 pools where 7 fit, 3 retries; one change for hashes, or of two bytes, three for lists; page table paths of 4 and 5 levels with up to two odd entries; fairness | a query gives up for cause, buffers are freed, hashes cover what they say, changes are seen and none is made up, flags and details agree with the processor, scans end |
| `table` | 3 pools, 3 pairs of snapshots, 1 search of 3 results, 1 filter of three states, 2 tags, `MaxDumps` 1, 1 failed save | the selection is visible, matches are shown once and in order, dumps stay inside, settings survive a restart, a jump finds its pool |
| `late_answer`, `stale_baseline` | as above | counterexamples, section 5 |

Why these bounds are enough for the cases that matter: two requests are what a
race over one lock needs, and a third thread adds no new kind of interference with
a handler that is either inside or outside the lock; three requests over a quota
of two let two requests pass the first check for the last place. Five buffers are
the three globals and two locals, so that memory is used up only when the
allocation is made to fail. Three ids let two creates interleave after a third.
The four observations tell new, unchanged, changed, gone and incomparable entries
apart. In the session two commands overlap in every way, and three creates are
what it takes to have a refresh of the baseline race a current capture after a
first baseline; `session` leaves out the commands of the detail panels (`Used`),
which change nothing in the driver and which `session_patient` has.
`session_progress` has the commands that hold the mutex in the two ways there
are: over a request and over the wait for the service.

In `reads` a snapshot can grow, shrink and vanish between the count and the
entries, be captured again with the same entries, or be of a driver that was
loaded again; a second reader would be one more thread that changes nothing
(`Others` is the bound).

In `content` a match can lie in one chunk, across two, and across two reads of
which the first stopped early, and the requests have room for all, one or no
result; one of them names an entry that would go on behind the last address. The
saved pools are over the limit, under it, at the end of memory and empty, and a
replaced snapshot has the pool shorter or not at all.

In `scan` three kinds of systems are initial states, since what they show does not
depend on each other. For hashes: pools that begin at a page, lie across pages,
end at the last address or behind it, with every combination of missing pages,
and one byte, page, policy or shortage that changes at any step; for one pool two
byte changes, so that a byte can change and be restored. For the walk:
every path of four and of five levels with up to two entries unlike the others,
which is what two bits that are combined over the levels can tell apart. For the
query: a list that changes up to three times between sizes on either side of the
buffer's 1, 2, 4 and 7 entries, whose maximum is, as in the code, reached by
doubling before the retries are used up.

In `table` the three pools are ordered differently by address and by pages, the
filters tell them apart, and the tables that messages bring are of every length.

Ids, creates, commands in flight, what other clients request (`Others`), the commands used, allocations, the size of
memory and the number of its changes, scans (two), dumps asked for at a time and
failed saves of the settings are the only bounds.

Deadlock is checked in every run but `content` and `scan`, whose requests end.

Fairness. `PoolSnapshots`: a thread in a handler is scheduled (weak fairness),
and one that waits for the fast mutex gets it (strong fairness: its waiters
queue on a synchronization event). `PoolSession`: goroutines are scheduled and
`sync.Mutex` hands itself over to a waiter that has starved for a millisecond
(strong fairness of each goroutine's steps); the event loop handles what it is
sent; main goes on. `PoolContent` and `PoolScan`: the handler's thread, and the command's
goroutine, run (weak fairness). Nothing is assumed of the user or of what happens
to the memory.

Each property is accompanied by a mutant: a definition with a plausible bug, kept
beside the original and named in `PROJECT.json`, under which TLC finds the
property violated.

## 4. Proofs

Checked by `tlapm` for every value of the constants: any number of requests,
commands, buffers and allocations, memory, chunks, samples and tables of any
size. Each theorem stands beside the lemmas it rests on; what follows is the
inductive invariant of each, and why the property alone is not enough.

`PoolSnapshotsProofs`:

* `TypeCorrect`: `TypeOK` is inductive.
* `LockExcludes`: a thread between acquire and release owns the lock. All that
  follows rests on it: a step under the lock may take the globals for its own.
* `DiffIsNeverStale`: the property speaks of a free lock only; the invariant that
  carries it says in addition what holds for the owner at each statement: after
  `ReplaceCurrent` anything until the rebuild, at the release a diff of what is
  there, or none.
* `BaselineRefreshClears`: from the same invariant with `published`, which
  equals the contents while the lock is free and the old contents while the
  owner has not changed them.
* `BuffersAreOwned`: ownership (`EveryBufferIsOwned`) is inductive with the types
  and the lock; `UnloadFreesEverything` follows since a thread of an unloaded
  driver is idle and an idle thread has no buffer.

`PoolStoreProofs`:

* `HandlersImplementStore` is the step simulation behind `ImplementsStore`: the
  release of the lock is the store's step of the request, every other step is a
  request taken, one answered, or a stutter. It needs what a handler has found
  under the lock to be what the store answers, at each statement (`ServeInv`).
* `DifferentScans`: the ids of the two snapshots differ because the ids that
  requests have drawn and not yet stored (`ScanIdsInv`) differ from each other and
  from what is stored, in whatever order the requests get the lock. (That the
  current one is the later is a matter of the client: `CreatesAreSerialised`.)

`EntriesReadsProofs`:

* `TablesAreOfOneSnapshot`: what the driver answers is of a snapshot that is held
  when it answers, and thus one of those held since the read began (`Told`,
  `Watching`); the reader's own steps add no other (`OfOneSnapshot`).

`TestPoolsProofs`:

* `TestPoolTypes`, `QuotaIsKept`, `TestPoolsAreOwned` from one invariant: who
  owns which pool and node, and that the count is the length of the list.
* `OneClientIsSafe`: with requests one at a time (`overlapped`, a history
  variable of `TestPoolsClient`) a free request has the snapshots cleared before
  the next one begins (`AloneInv`). Without that premise the property is false:
  a create can scan between the two halves of a free request.

`PoolSessionProofs`:

* `SessionTypes`: the types alone are not inductive, since a message's handler
  depends on what its command can have done; `Paths` says at which statements
  each kind of command can be.
* `CreatesAreSerialised`, `StopsWaitForRequests`: `MutexInv` says that whoever is
  between its lock and unlock is the mutex's owner, so that a create commits
  with the driver that it began with, and after all earlier ones.
* `ExitsLeaveNoService`: a cleanup of main that has confirmed that the service is
  gone holds on to that whatever other commands do, a start excepted
  (`RemovedInv`).

Two more assume `Patient`, as the run `session_patient` does: a key, or the end of
the program, only when nothing is in flight. The run `late_answer` refutes the
first of the two without that assumption.

* `PatientUserSeesNothingStale`: beside a command there are only the two queries
  that follow a start (`OneAtATime`); then what the Model shows is of the driver's
  baseline or of none (`NothingOlder`).
* `PatientUserLeavesNoService`: what a successful shutdown leaves is no service,
  and a cleanup of main that ends without an error confirms it (`CleanInv`).

`PoolScanProofs`:

* `QueriesGiveUpForCause`: the buffer for a list that has not grown has doubled
  with every retry or is large enough already (`Doubling`), so that the retries
  last until the maximum. That powers double is proved from the number of
  subsets, since the provers know nothing of `^`.
* `ScratchIsGivenBack`: inductive as it stands.
* `ScanIsTyped`, `HashesCoverWhatTheySay`, `NoChangeIsInvented` and
  `ChangesAreSeen` from one invariant, `ScanInv`. Its part `HashInv` says of every
  entry, finished or under way, under which policy it is hashed (`Hashing`), that
  what is hashed lies in the sample before the place reached and is counted
  (`Within`), that it is all of that, chunk after chunk, if the pool can be read
  (`Exactly`), and, unless a byte changed during a scan, which memory the bytes are
  of: `before` in the first scan, the memory of now in the second (`BytesOf`).
  Two hashes are compared only when both lengths and both marks agree, and these
  tell the samples apart, which the limit of a sample below `MaxHashed` makes true
  (`CountTellsSample`); so two hashes that are compared are of the same places,
  and differ exactly when the bytes do.
* `AnnotationsAreExact`: the driver's loop gives for every path what the processor
  makes of it (`WalkIsExact`), and `PageInv` says that the counts and flags of
  every entry are what the loop finds now (`Says`) as long as no page has changed
  and no buffer was missing, which a finished snapshot could not know of itself.
* `DetailsAgreeWithTheScan`: listed pages are what the loop finds too (`Shows`),
  and the list of pages is one-to-one with the pages counted (`ListedAreCounted`).

`PoolContentProofs`:

* `SavesArePrefixes`, `ShortSavesAreMarked`, `SavesReachTheFirstHole`: `SaveInv`
  says for every statement of a save that what it has is a prefix (`InPlace`),
  that chunks read stay what they were read as unless touched (`Kept`), and that
  what reached the files is what the save ended with (`Filed`).
* `SearchesAreExact`: `SearchInv` relates the report to the place the search has
  come to. Every place passed is settled (`AllSettled`): in the report if and only
  if the pattern is there, unless touched or past the last result. The carried-over
  bytes are those that precede the position, and before them is a hole, or the
  entry begins (`Preserved`); this is what makes a match across two chunks be
  found once. Results are in order (`InSequence`), and the report is that of the
  entries passed (`Reported`).
* `SearchesTellHoles`: `StatsInv` counts the entries passed by what could be read
  of them.
* `ContentTypes`: the types, among them that what is carried over fits into the
  buffer beside a chunk.

`PoolTableProofs`:

* `RestartKeepsSettings`: the file is the settings, or its saving failed.
* `SelectionsAreVisible`: the rows change with messages, filters and order; each
  handler clamps the selection to the new rows (`RowFits`, `HitFits`).
* `TablesAreSorted`: place `k` of the order has the key of rank `k - 1`, and ranks
  grow with keys (`RanksGrow`, `OrderIsSorted`), so places and matching rows are in
  bijection (`RowsInOrder`); that one key precedes another means what the code's
  comparison says of the two rows (`KeysAreLess`).
* `JumpsSelectTheHit`: an action property, from the types of what is shown.
* `TableTypes` and `DumpsAreInsideTheirPools`, from the types of what is shown, the
  selections and `DumpInv`. That the selected row is an entry of the table rests
  on the order: keys of one length are totally ordered (`OrderIsTotal`,
  `OrderIsStrict`), so the number of keys before a key is injective, and by
  counting every place of the sorted table is taken (`RanksAreTaken`). A jump's
  offset is inside since results are those of the driver (`MatchesAreInside`),
  whose offsets `SearchesAreExact` is about.

The constants' assumptions are named in the modules that declare them: the null
pointer is no buffer, the free lock's owner is no thread, observations are well
typed, bounds are natural numbers, the set of allocations is finite, pages fill
the address space, a pattern and a chunk have at least one byte, the samples'
limits are in order and below the maximum of `HashedBytes`. Where an
argument goes by the length of something, it is by the least counterexample
(`LeastNatural`), since the library's induction takes an operator.

Every safety invariant, action property and refinement that a passing run checks
is stated by one of these theorems.
Only model-checked, and out of the prover's reach: liveness under fairness
(`RequestsComplete`, `ShutdownIsAnswered`, `ContentEnds`, `ScansEnd`) and
`ENABLED`. The constants of a model are not proved about: that the worlds, lists
and tables of an instance are systems (`WorldsAreSystems`, `InputsAreTyped`,
`MessagesBringEntries`) is what TLC evaluates on each run.

## 5. Where the code and its documents disagree

* `late_answer`. Keys do not wait for a command in flight. While the requests of
  `currentCmd` (create, diff count and entries, current count and entries) are
  under way, `b` starts another baseline; the driver drops what it had, the
  baseline message empties the tables, and the late `current` message
  (`internal/tui/model.go:655`) fills them with entries compared with the
  baseline before. `README.md:150` says that this state is cleared "because it
  belongs to the previous baseline". The window is real: the scan of the
  baseline keeps the device busy for long, and the last request of `currentCmd`
  waits for it.
* `stale_baseline`. A stop that unloads the driver and then fails to delete the
  service leaves the Model's baseline. If no ping had succeeded, `s` starts a
  fresh driver and `c` is offered and accepted, although that driver has no
  baseline: every allocation is shown as new. `README.md:163` offers `c` when
  "Baseline exists".

The same half of a stop, or of a shutdown, leaves `connected`, when a ping had
succeeded: `s` is then ignored (`hasDriverStarted`) although, in the words of
`README.md:158`, "Driver is not running". `t`, which tries once more to delete, is
the way out. No run is about that.

## 6. Not modelled

Formats and layouts (protocol, export, log and screen), privilege and signing
queries, the search for the driver file. `SaveDump` writes one answer as
`SavePoolDump` writes many, and `ExportAnalysis` writes what the tables show; both
are formatting. Two saves of one pool within the same second use the same file
names (`exporter.go:168`); `PoolDump` has one save. `UnloadIfRunning` and
`RunSelfTest` are called by nothing in the repository. Services changed by other
programs while this one runs. Unelevated sessions. The page tables of one page are
read in one step. The creation of the device object and its link when the driver is
loaded.

## 7. Plan

In this order:

1. `PoolSession` with the driver of `SnapshotStore` instead of generations for
   the driver side, to justify the abstraction.
2. Two saves at once, with the names of their files.
