------------------------------ MODULE PoolTable ------------------------------
(***************************************************************************)
(* The tables of the terminal program (tui/model.go): what is shown of the *)
(* snapshots through filters and a sort order, which row and which search  *)
(* result is selected, the dump that is paged through, and the settings    *)
(* that are kept in a file.                                                *)
(*                                                                         *)
(* Rows are counted from 0, as the program does.  Keys index the tables    *)
(* without a check, and messages replace the tables between two keys: at   *)
(* any time one of them may come, since every command runs on its own and  *)
(* PoolSession has them in all orders.                                     *)
(***************************************************************************)
EXTENDS Integers, SequencesExt, FiniteSetsExt

CONSTANTS
  Entry,         \* the entries of the snapshots
  Tag,           \* the tag filters, AnyTag among them
  AnyTag,
  Protections,   \* filters of three states: writable, executable, accessible
  DumpPageSize,  \* dumpPageSize, 256
  Snapshots,     \* the diff and current entries that messages bring
  Searches,      \* the results that they bring
  OlderFiles,    \* the settings files of earlier versions of the program
  MaxDumps,      \* bound of the model: dumps that are asked for at a time
  MaxSaveErrors  \* bound of the model: settings that could not be saved

ASSUME EntriesHaveFields ==
  \A e \in Entry :
    /\ {e.address, e.size, e.pages, e.tag} \subseteq Nat
    /\ e.tags \subseteq Tag /\ e.protection \in [Protections -> BOOLEAN]
ASSUME TagsAreFilters == AnyTag \in Tag
ASSUME PagesAreDumped == DumpPageSize \in Nat \ {0}
ASSUME BoundsAreNat == MaxDumps \in Nat /\ MaxSaveErrors \in Nat
ASSUME MessagesBringEntries ==
  /\ Snapshots \subseteq [diff : Seq(Entry), current : Seq(Entry)]
  /\ Searches \subseteq Seq([entry : Entry, offset : Nat])
\* The driver's searches find matches inside the pools (SearchEntry).
ASSUME MatchesAreInside ==
  \A results \in Searches : \A i \in DOMAIN results :
    results[i].offset < results[i].entry.size

TriState == {"any", "yes", "no"}

Settings ==
  [tag : Tag, protection : [Protections -> TriState], sort : {"address", "pages"},
   view : {"diff", "current"}, target : {"diff", "current"}]

Defaults ==
  [tag |-> AnyTag, protection |-> [p \in Protections |-> "any"], sort |-> "address",
   view |-> "diff", target |-> "diff"]

\* The file has the settings and the order by size of earlier versions.
File == [settings : Settings, sortSize : BOOLEAN]

NoFile == [settings |-> Defaults, sortSize |-> FALSE]

ASSUME FilesOfEarlierVersions == OlderFiles \subseteq File

VARIABLES
  tables,      \* m.diff and m.currentEntries
  ready,       \* hasDiffSnapshot
  settings,    \* the filters, the order, tableView and searchTarget
  selected,    \* the row of the table
  search,      \* the search results
  searchIndex, \* the one of the visible results that is selected
  dump,        \* the entry and the offset of the dump that is shown, if any
  dumping,     \* the dumps that are asked for
  input,       \* the tag filter is typed
  file,        \* config.json; one that cannot be read is as good as NoFile
  unsaved,     \* history: the settings were changed and could not be saved
  saveErrors

kept == <<settings, file, unsaved, saveErrors>>
shown == <<tables, ready, search, searchIndex>>
vars == <<kept, shown, selected, dump, dumping, input>>

-----------------------------------------------------------------------------
(***************************************************************************)
(* What is visible                                                         *)
(***************************************************************************)

MatchTriState(state, value) ==
  state = "any" \/ (state = "yes") = value

MatchesFilters(s, entry) ==
  /\ s.tag \in entry.tags \cup {AnyTag}
  /\ \A p \in Protections : MatchTriState(s.protection[p], entry.protection[p])

\* The lexicographic order of two sequences of numbers of one length.
Precedes(left, right) ==
  \E i \in DOMAIN left :
    left[i] < right[i] /\ \A j \in 1 .. i - 1 : left[j] = right[j]

\* Mutant of SortKey: of pools of as many pages the smaller comes first.
SortKeySmallerFirst(s, entry, part, row) ==
  IF s.sort = "pages"
  THEN <<-entry.pages, entry.size, entry.address, part, entry.tag, row>>
  ELSE <<entry.address, part, entry.tag, row>>

\* What a row is ordered by: in the end by its place, so that rows that are
\* alike keep their order.
SortKey(s, entry, part, row) ==
  IF s.sort = "pages"
  THEN <<-entry.pages, -entry.size, entry.address, part, entry.tag, row>>
  ELSE <<entry.address, part, entry.tag, row>>

InOrder(keys) ==
  [k \in 1 .. Cardinality(keys) |->
     CHOOSE key \in keys : Cardinality({other \in keys : Precedes(other, key)}) = k - 1]

VisibleEntries(s, entries) ==
  LET keys == {SortKey(s, entries[i], entries[i].size, i) :
                 i \in {i \in DOMAIN entries : MatchesFilters(s, entries[i])}}
      order == InOrder(keys)
  IN  [k \in DOMAIN order |-> entries[Last(order[k])]]

VisibleResults(s, results) ==
  LET keys == {SortKey(s, results[i].entry, results[i].offset, i) :
                 i \in {i \in DOMAIN results : MatchesFilters(s, results[i].entry)}}
      order == InOrder(keys)
  IN  [k \in DOMAIN order |-> results[Last(order[k])]]

\* The settings that filter and sort.
Filters(s) == [tag |-> s.tag, protection |-> s.protection, sort |-> s.sort]

VisibleTable(s, t) == VisibleEntries(Filters(s), t[s.view])

VisibleSearch(s, results) == VisibleResults(Filters(s), results)

ClampSelection(row, length) ==
  IF length = 0 THEN 0 ELSE Min({row, length - 1})

Selected == VisibleTable(settings, tables)[selected + 1]

SelectedHit == VisibleSearch(settings, search)[searchIndex + 1]

\* Both selections are cut to what the new settings show.
ClampAll(new) ==
  /\ selected' = ClampSelection(selected, Len(VisibleTable(new, tables)))
  /\ searchIndex' = ClampSelection(searchIndex, Len(VisibleSearch(new, search)))

-----------------------------------------------------------------------------
(***************************************************************************)
(* Settings                                                                *)
(***************************************************************************)

\* Mutant of Saved: the order by size is carried along.
SavedWithSize(new) == [settings |-> new, sortSize |-> file.sortSize]

Saved(new) == [settings |-> new, sortSize |-> FALSE]

\* Saving can fail half way, so that the file is lost, or before.
PersistConfig(new) ==
  /\ settings' = new
  /\ \/ file' = Saved(new) /\ unsaved' = FALSE /\ UNCHANGED saveErrors
     \/ /\ saveErrors < MaxSaveErrors
        /\ saveErrors' = saveErrors + 1
        /\ file' \in {file, NoFile}
        /\ unsaved' = TRUE

\* NewModel: the order by size is one by pages now.
Loaded(f) ==
  IF f.sortSize THEN [f.settings EXCEPT !.sort = "pages"] ELSE f.settings

Empty == [diff |-> <<>>, current |-> <<>>]

NewModel ==
  /\ tables' = Empty /\ ready' = FALSE
  /\ settings' = Loaded(file)
  /\ selected' = 0
  /\ search' = <<>> /\ searchIndex' = 0
  /\ dump' = <<>> /\ dumping' = {} /\ input' = FALSE

Init ==
  /\ tables = Empty /\ ready = FALSE
  /\ file \in {NoFile} \cup OlderFiles
  /\ settings = Loaded(file)
  /\ selected = 0
  /\ search = <<>> /\ searchIndex = 0
  /\ dump = <<>> /\ dumping = {} /\ input = FALSE
  /\ unsaved = FALSE /\ saveErrors = 0

\* The program ends, in whatever way, and is started again.
Restart == NewModel /\ unsaved' = FALSE /\ UNCHANGED <<file, saveErrors>>

-----------------------------------------------------------------------------
(***************************************************************************)
(* Messages                                                                *)
(***************************************************************************)

ClearAnalysisState == dump' = <<>> /\ search' = <<>> /\ searchIndex' = 0

BaselineMessage ==
  /\ tables' = Empty /\ ready' = FALSE
  /\ selected' = 0
  /\ settings' = [settings EXCEPT !.view = "diff"]
  /\ ClearAnalysisState
  /\ UNCHANGED <<dumping, input, file, unsaved, saveErrors>>

\* clearSnapshotState
StopMessage ==
  /\ tables' = Empty /\ ready' = FALSE
  /\ selected' = 0
  /\ ClearAnalysisState
  /\ UNCHANGED <<kept, dumping, input>>

NewTables(new) ==
  /\ tables' = new
  /\ ready' = TRUE
  /\ selected' = ClampSelection(selected, Len(VisibleTable(settings, new)))

CurrentMessage ==
  /\ \E s \in Snapshots : NewTables(s)
  /\ ClearAnalysisState
  /\ UNCHANGED <<kept, dumping, input>>

\* Mutant of DiffMessage: the selection stays where it is.
DiffMessageUnclamped ==
  /\ \E s \in Snapshots : tables' = [tables EXCEPT !.diff = s.diff]
  /\ ready' = TRUE
  /\ ClearAnalysisState
  /\ UNCHANGED <<kept, selected, dumping, input>>

DiffMessage ==
  /\ \E s \in Snapshots : NewTables([tables EXCEPT !.diff = s.diff])
  /\ ClearAnalysisState
  /\ UNCHANGED <<kept, dumping, input>>

CurrentEntriesMessage ==
  /\ \E s \in Snapshots :
       /\ tables' = [tables EXCEPT !.current = s.current]
       /\ selected' = ClampSelection(selected, Len(VisibleTable(settings, tables')))
  /\ UNCHANGED <<kept, ready, search, searchIndex, dump, dumping, input>>

SearchMessage ==
  /\ \E s \in Searches : search' = s
  /\ searchIndex' = 0
  /\ UNCHANGED <<kept, tables, ready, selected, dump, dumping, input>>

\* A dump that failed, or that has no bytes, changes nothing or closes it.
DumpMessage ==
  /\ \E job \in dumping :
       /\ dumping' = dumping \ {job}
       /\ dump' \in {<<job>>, <<>>, dump}
  /\ UNCHANGED <<kept, shown, selected, input>>

-----------------------------------------------------------------------------
(***************************************************************************)
(* Keys                                                                    *)
(***************************************************************************)

Key == ~input

\* A new dump; its message can come before those of older ones.
AskForDump(entry, offset) ==
  LET job == [entry |-> entry, offset |-> offset] IN
  /\ job \notin dumping /\ Cardinality(dumping) < MaxDumps
  /\ dumping' = dumping \cup {job}

Up ==
  /\ Key /\ selected > 0
  /\ selected' = selected - 1
  /\ UNCHANGED <<kept, shown, dump, dumping, input>>

Down ==
  /\ Key /\ selected + 1 < Len(VisibleTable(settings, tables))
  /\ selected' = selected + 1
  /\ UNCHANGED <<kept, shown, dump, dumping, input>>

NextHit ==
  /\ Key
  /\ LET count == Len(VisibleSearch(settings, search))
     IN  count > 0 /\ searchIndex' = (searchIndex + 1) % count
  /\ UNCHANGED <<kept, tables, ready, search, selected, dump, dumping, input>>

\* enter and x; d, p and r read the tables in the same way.
DumpSelected ==
  /\ Key /\ ready
  /\ VisibleTable(settings, tables) # <<>>
  /\ AskForDump(Selected, 0)
  /\ UNCHANGED <<kept, shown, selected, dump, input>>

AddressInEntry(address, entry) ==
  \/ entry.address = address
  \/ entry.address <= address /\ address < entry.address + entry.size

\* Mutant of FindEntryIndex: the row in the table that is not filtered.
FindEntryIndexUnfiltered(address) ==
  LET rows == {i \in DOMAIN tables[settings.view] :
                 AddressInEntry(address, tables[settings.view][i])}
  IN  IF rows = {} THEN 0
      ELSE ClampSelection(Min(rows) - 1, Len(VisibleTable(settings, tables)))

FindEntryIndex(address) ==
  LET visible == VisibleTable(settings, tables)
      rows == {i \in 1 .. Len(visible) : AddressInEntry(address, visible[i])}
  IN  IF rows = {} THEN 0 ELSE Min(rows) - 1

\* g
JumpToHit ==
  /\ Key /\ ready
  /\ VisibleSearch(settings, search) # <<>>
  /\ AskForDump(SelectedHit.entry, SelectedHit.offset)
  /\ selected' = FindEntryIndex(SelectedHit.entry.address)
  /\ UNCHANGED <<kept, shown, dump, input>>

\* Mutant of NextPage: on to the end of the pool.
NextPageToTheEnd ==
  /\ Key /\ dump # <<>>
  /\ dump[1].offset + DumpPageSize <= dump[1].entry.size
  /\ AskForDump(dump[1].entry, dump[1].offset + DumpPageSize)
  /\ UNCHANGED <<kept, shown, selected, dump, input>>

NextPage ==
  /\ Key /\ dump # <<>>
  /\ dump[1].offset + DumpPageSize < dump[1].entry.size
  /\ AskForDump(dump[1].entry, dump[1].offset + DumpPageSize)
  /\ UNCHANGED <<kept, shown, selected, dump, input>>

PreviousPage ==
  /\ Key /\ dump # <<>>
  /\ AskForDump(dump[1].entry,
                Max({dump[1].offset, DumpPageSize}) - DumpPageSize)
  /\ UNCHANGED <<kept, shown, selected, dump, input>>

\* esc: the dump first, then the page details, then the search.
CloseDetailPanel ==
  /\ Key /\ (dump # <<>> \/ search # <<>>)
  /\ dump' = <<>>
  /\ IF dump = <<>> THEN search' = <<>> /\ searchIndex' = 0
     ELSE UNCHANGED <<search, searchIndex>>
  /\ UNCHANGED <<kept, tables, ready, selected, dumping, input>>

Other(value, values) == CHOOSE v \in values : v # value

\* tab; when the current table is empty it is loaded as well.
ToggleTableView ==
  /\ Key /\ ready
  /\ LET new == [settings EXCEPT !.view = Other(@, {"diff", "current"})]
     IN  /\ PersistConfig(new)
         /\ selected' = ClampSelection(selected, Len(VisibleTable(new, tables)))
  /\ UNCHANGED <<shown, dump, dumping, input>>

ToggleSearchTarget ==
  /\ Key /\ ready
  /\ PersistConfig([settings EXCEPT !.target = Other(@, {"diff", "current"})])
  /\ UNCHANGED <<shown, selected, dump, dumping, input>>

Filter(new) ==
  /\ ClampAll(new)
  /\ PersistConfig(new)
  /\ UNCHANGED <<tables, ready, search, dump, dumping>>

\* Mutant of NextTriState: counted up without an end.
NextTriStateCounted == [any |-> "yes", yes |-> "no", no |-> "no more"]

NextTriState == [any |-> "yes", yes |-> "no", no |-> "any"]

\* w, e and a
CycleFilter ==
  /\ Key /\ ready
  /\ \E p \in Protections :
       Filter([settings EXCEPT !.protection[p] = NextTriState[@]])
  /\ UNCHANGED input

\* o
ToggleSort ==
  /\ Key /\ ready
  /\ Filter([settings EXCEPT !.sort = Other(@, {"address", "pages"})])
  /\ UNCHANGED input

\* f
OpenTagInput ==
  /\ Key /\ ready
  /\ input' = TRUE
  /\ UNCHANGED <<kept, shown, selected, dump, dumping>>

CancelInput ==
  /\ input /\ input' = FALSE
  /\ UNCHANGED <<kept, shown, selected, dump, dumping>>

\* enter, whatever became of the tables while the tag was typed.
SubmitTag ==
  /\ input /\ input' = FALSE
  /\ \E tag \in Tag : Filter([settings EXCEPT !.tag = tag])

Message ==
  \/ BaselineMessage \/ StopMessage \/ CurrentMessage \/ DiffMessage
  \/ CurrentEntriesMessage \/ SearchMessage \/ DumpMessage

Press ==
  \/ Up \/ Down \/ NextHit \/ DumpSelected \/ JumpToHit \/ NextPage \/ PreviousPage
  \/ CloseDetailPanel \/ ToggleTableView \/ ToggleSearchTarget \/ CycleFilter
  \/ ToggleSort \/ OpenTagInput \/ CancelInput \/ SubmitTag

Next == Message \/ Press \/ Restart

Spec == Init /\ [][Next]_vars

-----------------------------------------------------------------------------
(***************************************************************************)
(* Properties                                                              *)
(***************************************************************************)

Dump == [entry : Entry, offset : Nat]

\* Every variable has values of its type.
TypeOK ==
  /\ tables \in [diff : Seq(Entry), current : Seq(Entry)] /\ ready \in BOOLEAN
  /\ settings \in Settings /\ file \in File
  /\ search \in Seq([entry : Entry, offset : Nat])
  /\ selected \in Nat /\ searchIndex \in Nat
  /\ dump \in Seq(Dump) /\ Len(dump) <= 1 /\ dumping \subseteq Dump
  /\ input \in BOOLEAN /\ unsaved \in BOOLEAN /\ saveErrors \in 0 .. MaxSaveErrors

\* entryLess and searchResultLess, which compare a size and an offset last.
Less(s, left, leftPart, right, rightPart) ==
  IF s.sort = "pages" /\ left.pages # right.pages THEN left.pages > right.pages
  ELSE IF s.sort = "pages" /\ left.size # right.size THEN left.size > right.size
  ELSE IF left.address # right.address THEN left.address < right.address
  ELSE IF leftPart # rightPart THEN leftPart < rightPart
  ELSE left.tag < right.tag

EntryLess(s, left, right) == Less(s, left, left.size, right, right.size)

SearchResultLess(s, left, right) ==
  Less(s, left.entry, left.offset, right.entry, right.offset)

\* What is shown is each of these rows once, none before one that it is
\* behind, and where that leaves it open as they were (sort.SliceStable).
Sorts(shows, all, behind) ==
  \E row \in Bijection(DOMAIN shows, DOMAIN behind) :
    /\ \A k \in DOMAIN shows : shows[k] = all[row[k]]
    /\ \A j, k \in DOMAIN shows : j < k =>
         \/ row[k] \in behind[row[j]]
         \/ row[j] \notin behind[row[k]] /\ row[j] < row[k]

EntriesBehind(s, entries) ==
  LET rows == {i \in DOMAIN entries : MatchesFilters(s, entries[i])}
  IN  [i \in rows |-> {j \in rows : EntryLess(s, entries[i], entries[j])}]

ResultsBehind(s, results) ==
  LET rows == {i \in DOMAIN results : MatchesFilters(s, results[i].entry)}
  IN  [i \in rows |-> {j \in rows : SearchResultLess(s, results[i], results[j])}]

(***************************************************************************)
(* The table and the search results show each match of the filters once,   *)
(* in the order of entryLess and of searchResultLess, which compare field  *)
(* by field, some downwards; rows that compare as equal stay as they were. *)
(***************************************************************************)
MatchesAreSorted ==
  LET s == Filters(settings) IN
  /\ Sorts(VisibleTable(settings, tables), tables[settings.view],
           EntriesBehind(s, tables[settings.view]))
  /\ Sorts(VisibleSearch(settings, search), search, ResultsBehind(s, search))

(***************************************************************************)
(* There is a selected row and a selected result whenever there is a row   *)
(* or a result: whatever messages, filters, orders and tables came, no key *)
(* indexes behind the end of what is visible.                              *)
(***************************************************************************)
SelectionIsVisible ==
  /\ selected < Max({1, Len(VisibleTable(settings, tables))})
  /\ searchIndex < Max({1, Len(VisibleSearch(settings, search))})

\* The jump to a search result selects the pool it was found in, under any
\* filter and order, if the table shows that pool.
JumpSelectsTheHit ==
  [][JumpToHit =>
       \A row \in 1 .. Len(VisibleTable(settings, tables)) :
         VisibleTable(settings, tables)[row] = SelectedHit.entry =>
           AddressInEntry(SelectedHit.entry.address, Selected')]_vars

\* A dump that is shown or asked for begins within its pool, however often
\* it was paged and whatever dumps came late.
DumpIsInsidePool ==
  \A d \in dumping \cup ToSet(dump) : d.offset < Max({1, d.entry.size})

\* What the program would read after a restart is what it shows now, old
\* settings files included, but for a table view that a new baseline reset
\* and for settings that could not be saved.
SettingsAreKept ==
  ~unsaved =>
    LET next == Loaded(file) IN
    /\ [next EXCEPT !.view = "diff"] = [settings EXCEPT !.view = "diff"]
    /\ settings.view \in {next.view, "diff"}

=============================================================================
