---------------------------- MODULE PoolTableProofs ----------------------------
(***************************************************************************)
(* Theorems of PoolTable, for any entries, filters, tables, search results *)
(* and settings files.                                                     *)
(***************************************************************************)
EXTENDS PoolTable, FiniteSetTheorems, WellFoundedInduction, TLAPS

(***************************************************************************)
(* Settings                                                                *)
(***************************************************************************)

\* What is written to the file is read back as it is.
LEMMA SavedIsLoaded == \A new : Loaded(Saved(new)) = new
  BY DEF Loaded, Saved

LEMMA PersistKeeps ==
  ASSUME NEW new, PersistConfig(new)
  PROVE  SettingsAreKept'
  <1>1. settings' = new
    BY DEF PersistConfig
  <1>2. CASE file' = Saved(new)
    <2>1. Loaded(file') = settings'
      BY <1>1, <1>2, SavedIsLoaded
    <2> QED
      BY <2>1 DEF SettingsAreKept, Loaded
  <1>3. CASE unsaved' = TRUE
    BY <1>3 DEF SettingsAreKept
  <1> QED
    BY <1>2, <1>3 DEF PersistConfig

\* No other step changes the settings without the file, but for the view.
LEMMA OthersKeepTheSettings ==
  ASSUME SettingsAreKept, UNCHANGED <<settings, file, unsaved>>
  PROVE  SettingsAreKept'
  BY DEF SettingsAreKept, Loaded

(***************************************************************************)
(* What is shown after a restart is what is shown now: the settings file   *)
(* follows every filter, order and view the user chooses, whatever was in  *)
(* the file before and whichever saves failed (persistConfig, NewModel).   *)
(***************************************************************************)
THEOREM RestartKeepsSettings == Spec => []SettingsAreKept
  <1>1. Init => SettingsAreKept
    BY DEF Init, SettingsAreKept
  <1>2. SettingsAreKept /\ [Next]_vars => SettingsAreKept'
    <2> SUFFICES ASSUME SettingsAreKept, [Next]_vars PROVE SettingsAreKept'
      OBVIOUS
    <2>1. CASE Restart
      <3>1. settings' = Loaded(file) /\ file' = file
        BY <2>1 DEF Restart, NewModel
      <3>2. Loaded(file') = settings'
        BY <3>1
      <3> QED
        BY <3>2 DEF SettingsAreKept, Loaded
    <2>2. CASE BaselineMessage
      <3>1. settings' = [settings EXCEPT !.view = "diff"] /\ UNCHANGED <<file, unsaved>>
        BY <2>2 DEF BaselineMessage
      <3> SUFFICES ASSUME ~unsaved'
                   PROVE  /\ [Loaded(file) EXCEPT !.view = "diff"] =
                               [settings' EXCEPT !.view = "diff"]
                          /\ settings'.view \in {Loaded(file).view, "diff"}
        BY <3>1, Zenon DEF SettingsAreKept, Loaded
      <3>2. [settings' EXCEPT !.view = "diff"] = [settings EXCEPT !.view = "diff"]
        BY <3>1
      <3> QED
        BY <3>1, <3>2 DEF SettingsAreKept
    <2>3. CASE \/ StopMessage \/ CurrentMessage \/ DiffMessage
               \/ CurrentEntriesMessage \/ SearchMessage \/ DumpMessage
      <3>1. UNCHANGED kept
        BY <2>3 DEF StopMessage, CurrentMessage, DiffMessage, CurrentEntriesMessage,
                   SearchMessage, DumpMessage
      <3> QED
        BY <3>1, OthersKeepTheSettings DEF kept
    <2>4. CASE \/ Up \/ Down \/ NextHit \/ DumpSelected \/ JumpToHit \/ NextPage
               \/ PreviousPage \/ CloseDetailPanel \/ OpenTagInput \/ CancelInput
      <3>1. UNCHANGED kept
        BY <2>4 DEF Up, Down, NextHit, DumpSelected, JumpToHit, NextPage, PreviousPage,
                   CloseDetailPanel, OpenTagInput, CancelInput
      <3> QED
        BY <3>1, OthersKeepTheSettings DEF kept
    <2>5. CASE ToggleTableView
      <3>1. \E new : PersistConfig(new)
        BY <2>5, Zenon DEF ToggleTableView
      <3> QED
        BY <3>1, PersistKeeps
    <2>6. CASE ToggleSearchTarget
      <3>1. \E new : PersistConfig(new)
        BY <2>6, Zenon DEF ToggleSearchTarget
      <3> QED
        BY <3>1, PersistKeeps
    <2>7. CASE CycleFilter \/ ToggleSort \/ SubmitTag
      <3>1. \E new : Filter(new)
        BY <2>7, Zenon DEF CycleFilter, ToggleSort, SubmitTag
      <3>2. \E new : PersistConfig(new)
        BY <3>1, Zenon DEF Filter
      <3> QED
        BY <3>2, PersistKeeps
    <2>8. CASE UNCHANGED vars
      BY <2>8, OthersKeepTheSettings DEF vars, kept
    <2> QED
      BY <2>1, <2>2, <2>3, <2>4, <2>5, <2>6, <2>7, <2>8 DEF Next, Message, Press
  <1> QED
    BY <1>1, <1>2, PTL DEF Spec

(***************************************************************************)
(* Types of what is shown                                                  *)
(***************************************************************************)

Tables == [diff : Seq(Entry), current : Seq(Entry)]

Results == Seq([entry : Entry, offset : Nat])

ShownTypes ==
  /\ tables \in Tables
  /\ search \in Results
  /\ settings \in Settings
  /\ file \in File

LEMMA SomeTypes ==
  /\ Empty \in Tables /\ <<>> \in Results
  /\ Defaults \in Settings /\ NoFile \in File
  /\ \A f \in File : Loaded(f) \in Settings
  /\ \A s \in Settings : Saved(s) \in File
  <1>1. Empty \in Tables /\ <<>> \in Results
    BY DEF Empty, Tables, Results
  <1>2. Defaults \in Settings
    BY TagsAreFilters DEF Defaults, Settings, TriState
  <1>3. NoFile \in File
    BY <1>2 DEF NoFile, File
  <1>4. \A f \in File : Loaded(f) \in Settings
    BY DEF Loaded, File, Settings
  <1>5. \A s \in Settings : Saved(s) \in File
    BY DEF Saved, File
  <1> QED
    BY <1>1, <1>2, <1>3, <1>4, <1>5

LEMMA PersistTypes ==
  ASSUME ShownTypes, NEW new \in Settings, PersistConfig(new)
  PROVE  settings' \in Settings /\ file' \in File
  BY SomeTypes DEF PersistConfig, ShownTypes

\* The new value that a key gives a setting is one of its values.
LEMMA OtherTypes ==
  ASSUME NEW a, NEW b, a # b
  PROVE  Other(a, {a, b}) = b /\ Other(b, {a, b}) = a
  BY DEF Other

LEMMA NewSettings ==
  ASSUME settings \in Settings
  PROVE  /\ [settings EXCEPT !.view = Other(@, {"diff", "current"})] \in Settings
         /\ [settings EXCEPT !.target = Other(@, {"diff", "current"})] \in Settings
         /\ [settings EXCEPT !.sort = Other(@, {"address", "pages"})] \in Settings
         /\ [settings EXCEPT !.view = "diff"] \in Settings
         /\ \A tag \in Tag : [settings EXCEPT !.tag = tag] \in Settings
         /\ \A p \in Protections :
              [settings EXCEPT !.protection[p] = NextTriState[@]] \in Settings
  <1>1. \A v \in {"diff", "current"} : Other(v, {"diff", "current"}) \in {"diff", "current"}
    <2>1. /\ Other("diff", {"diff", "current"}) = "current"
          /\ Other("current", {"diff", "current"}) = "diff"
      BY OtherTypes
    <2> QED
      BY <2>1
  <1>2. \A v \in {"address", "pages"} :
          Other(v, {"address", "pages"}) \in {"address", "pages"}
    <2>1. /\ Other("address", {"address", "pages"}) = "pages"
          /\ Other("pages", {"address", "pages"}) = "address"
      BY OtherTypes
    <2> QED
      BY <2>1
  <1>3. \A state \in TriState : NextTriState[state] \in TriState
    BY DEF NextTriState, TriState
  <1>4. /\ settings.view \in {"diff", "current"} /\ settings.target \in {"diff", "current"}
        /\ settings.sort \in {"address", "pages"}
        /\ settings.protection \in [Protections -> TriState]
    BY DEF Settings
  <1>5. ASSUME NEW p \in Protections
        PROVE  [settings EXCEPT !.protection[p] = NextTriState[@]] \in Settings
    <2>1. [settings.protection EXCEPT ![p] = NextTriState[@]] \in [Protections -> TriState]
      BY <1>3, <1>4
    <2>2. PICK protection \in [Protections -> TriState] :
            protection = [settings.protection EXCEPT ![p] = NextTriState[@]]
      BY <2>1
    <2>3. [settings EXCEPT !.protection = protection] \in Settings
      BY DEF Settings
    <2>4. [settings EXCEPT !.protection[p] = NextTriState[@]]
            = [settings EXCEPT !.protection = protection]
      BY <2>2 DEF Settings
    <2> QED
      BY <2>3, <2>4
  <1>6. \A v \in {"diff", "current"} :
          /\ [settings EXCEPT !.view = v] \in Settings
          /\ [settings EXCEPT !.target = v] \in Settings
    BY DEF Settings
  <1>7. \A v \in {"address", "pages"} : [settings EXCEPT !.sort = v] \in Settings
    BY DEF Settings
  <1>8. \A tag \in Tag : [settings EXCEPT !.tag = tag] \in Settings
    BY DEF Settings
  <1> HIDE DEF Settings
  <1> QED
    BY <1>1, <1>2, <1>4, <1>5, <1>6, <1>7, <1>8

LEMMA ShownTypesStep ==
  ASSUME ShownTypes, [Next]_vars
  PROVE  ShownTypes'
  <1>1. CASE Restart
    BY <1>1, SomeTypes DEF Restart, NewModel, ShownTypes
  <1>2. CASE BaselineMessage
    BY <1>2, SomeTypes, NewSettings DEF BaselineMessage, ClearAnalysisState, ShownTypes
  <1>3. CASE StopMessage
    BY <1>3, SomeTypes DEF StopMessage, ClearAnalysisState, ShownTypes, kept
  <1>4. CASE CurrentMessage
    <2>1. PICK s \in Snapshots : tables' = s
      BY <1>4 DEF CurrentMessage, NewTables
    <2>2. s \in Tables
      BY MessagesBringEntries DEF Tables
    <2> QED
      BY <1>4, <2>1, <2>2, SomeTypes
      DEF CurrentMessage, ClearAnalysisState, ShownTypes, kept
  <1>5. CASE DiffMessage
    <2>1. PICK s \in Snapshots : tables' = [tables EXCEPT !.diff = s.diff]
      BY <1>5 DEF DiffMessage, NewTables
    <2>2. s.diff \in Seq(Entry)
      BY MessagesBringEntries
    <2>3. tables' \in Tables
      BY <2>1, <2>2 DEF ShownTypes, Tables
    <2> QED
      BY <1>5, <2>3, SomeTypes DEF DiffMessage, ClearAnalysisState, ShownTypes, kept
  <1>6. CASE CurrentEntriesMessage
    <2>1. PICK s \in Snapshots : tables' = [tables EXCEPT !.current = s.current]
      BY <1>6 DEF CurrentEntriesMessage
    <2>2. s.current \in Seq(Entry)
      BY MessagesBringEntries
    <2>3. tables' \in Tables
      BY <2>1, <2>2 DEF ShownTypes, Tables
    <2> QED
      BY <1>6, <2>3 DEF CurrentEntriesMessage, ShownTypes, kept
  <1>7. CASE SearchMessage
    BY <1>7, MessagesBringEntries DEF SearchMessage, ShownTypes, Results, kept
  <1>8. CASE DumpMessage \/ Up \/ Down \/ NextHit \/ DumpSelected \/ JumpToHit \/ NextPage
             \/ PreviousPage \/ OpenTagInput \/ CancelInput
    <2>1. UNCHANGED <<tables, search, settings, file>>
      BY <1>8 DEF DumpMessage, Up, Down, NextHit, DumpSelected, JumpToHit, NextPage,
                  PreviousPage, OpenTagInput, CancelInput, kept, shown
    <2> QED
      BY <2>1 DEF ShownTypes
  <1>9. CASE CloseDetailPanel
    BY <1>9, SomeTypes DEF CloseDetailPanel, ShownTypes, kept
  <1>10. CASE ToggleTableView \/ ToggleSearchTarget
    <2>1. PICK new \in Settings : PersistConfig(new)
      BY <1>10, NewSettings, Zenon DEF ToggleTableView, ToggleSearchTarget, ShownTypes
    <2>2. UNCHANGED <<tables, search>>
      BY <1>10 DEF ToggleTableView, ToggleSearchTarget, shown
    <2> QED
      BY <2>1, <2>2, PersistTypes DEF ShownTypes
  <1>11. CASE CycleFilter \/ ToggleSort \/ SubmitTag
    <2>1. PICK new \in Settings : Filter(new)
      BY <1>11, NewSettings, Zenon DEF CycleFilter, ToggleSort, SubmitTag, ShownTypes
    <2>2. PersistConfig(new) /\ UNCHANGED <<tables, search>>
      BY <2>1 DEF Filter
    <2> QED
      BY <2>1, <2>2, PersistTypes DEF ShownTypes
  <1>12. CASE UNCHANGED vars
    BY <1>12 DEF vars, kept, shown, ShownTypes
  <1> QED
    BY <1>1, <1>2, <1>3, <1>4, <1>5, <1>6, <1>7, <1>8, <1>9, <1>10, <1>11, <1>12
    DEF Next, Message, Press

(***************************************************************************)
(* Least numbers                                                           *)
(***************************************************************************)

\* A set of naturals that is not empty has a least element.
LEMMA LeastIsLeast ==
  ASSUME NEW S \in SUBSET Nat, S # {}
  PROVE  \E x \in S : \A y \in S : x <= y
  <1> DEFINE R == {pair \in Nat \X Nat : pair[1] < pair[2]}
  <1>1. IsWellFoundedOn(R, Nat)
    BY NatLessThanWellFounded, Zenon DEF OpToRel
  <1>2. PICK x \in S : \A y \in S : ~(<<y, x>> \in R)
    <2> HIDE DEF R
    <2> QED
      BY <1>1, WFMin, Zenon
  <1>3. ASSUME NEW y \in S PROVE x <= y
    <2>1. ~(<<y, x>> \in R)
      BY <1>2, Zenon
    <2>2. <<y, x>> \in Nat \X Nat
      OBVIOUS
    <2>3. ~(y < x)
      BY <2>1, <2>2
    <2> QED
      BY <2>3
  <1> QED
    BY <1>3

LEMMA LeastNatural ==
  ASSUME NEW S \in SUBSET Nat, S # {}
  PROVE  Min(S) \in S
  BY LeastIsLeast, Zenon DEF Min

(***************************************************************************)
(* Order                                                                   *)
(***************************************************************************)

\* The keys of one order have one length.
Keys(n) == [1 .. n -> Int]

\* The first place where two keys differ.
LEMMA FirstDifference ==
  ASSUME NEW n \in Nat, NEW a \in Keys(n), NEW b \in Keys(n), a # b
  PROVE  \E i \in 1 .. n : a[i] # b[i] /\ \A j \in 1 .. i - 1 : a[j] = b[j]
  <1> DEFINE Places == {i \in 1 .. n : a[i] # b[i]}
  <1>1. Places \in SUBSET Nat
    OBVIOUS
  <1>2. Places # {}
    BY DEF Keys
  <1>3. PICK first \in Places : \A j \in Places : first <= j
    <2> HIDE DEF Places
    <2> QED
      BY <1>1, <1>2, LeastIsLeast
  <1>4. first \in 1 .. n /\ a[first] # b[first]
    BY <1>3
  <1>5. ASSUME NEW j \in 1 .. first - 1 PROVE a[j] = b[j]
    BY <1>3, <1>4, <1>5
  <1> QED
    BY <1>4, <1>5

LEMMA OrderIsTotal ==
  ASSUME NEW n \in Nat, NEW a \in Keys(n), NEW b \in Keys(n), a # b
  PROVE  Precedes(a, b) \/ Precedes(b, a)
  <1>1. PICK i \in 1 .. n : a[i] # b[i] /\ \A j \in 1 .. i - 1 : a[j] = b[j]
    BY FirstDifference
  <1>2. a[i] \in Int /\ b[i] \in Int /\ DOMAIN a = 1 .. n /\ DOMAIN b = 1 .. n
    BY DEF Keys
  <1>3. CASE a[i] < b[i]
    BY <1>1, <1>2, <1>3 DEF Precedes
  <1>4. CASE b[i] < a[i]
    BY <1>1, <1>2, <1>4 DEF Precedes
  <1> QED
    BY <1>1, <1>2, <1>3, <1>4

LEMMA OrderIsStrict ==
  ASSUME NEW n \in Nat, NEW a \in Keys(n), NEW b \in Keys(n), NEW c \in Keys(n)
  PROVE  /\ ~Precedes(a, a)
         /\ Precedes(a, b) /\ Precedes(b, c) => Precedes(a, c)
  <1>0. /\ DOMAIN a = 1 .. n /\ DOMAIN b = 1 .. n /\ DOMAIN c = 1 .. n
        /\ \A i \in 1 .. n : a[i] \in Int /\ b[i] \in Int /\ c[i] \in Int
    BY DEF Keys
  <1>1. ~Precedes(a, a)
    BY <1>0 DEF Precedes
  <1>2. ASSUME Precedes(a, b), Precedes(b, c) PROVE Precedes(a, c)
    <2>1. PICK i \in 1 .. n : a[i] < b[i] /\ \A j \in 1 .. i - 1 : a[j] = b[j]
      BY <1>0, <1>2 DEF Precedes
    <2>2. PICK k \in 1 .. n : b[k] < c[k] /\ \A j \in 1 .. k - 1 : b[j] = c[j]
      BY <1>0, <1>2 DEF Precedes
    <2>3. CASE i < k
      <3>1. a[i] < c[i] /\ \A j \in 1 .. i - 1 : a[j] = c[j]
        BY <1>0, <2>1, <2>2, <2>3
      <3> QED
        BY <1>0, <3>1 DEF Precedes
    <2>4. CASE k < i
      <3>1. a[k] < c[k] /\ \A j \in 1 .. k - 1 : a[j] = c[j]
        BY <1>0, <2>1, <2>2, <2>4
      <3> QED
        BY <1>0, <3>1 DEF Precedes
    <2>5. CASE i = k
      <3>1. a[i] < c[i] /\ \A j \in 1 .. i - 1 : a[j] = c[j]
        BY <1>0, <2>1, <2>2, <2>5
      <3> QED
        BY <1>0, <3>1 DEF Precedes
    <2> QED
      BY <2>3, <2>4, <2>5
  <1> QED
    BY <1>1, <1>2

\* The keys that come before a key.
Before(keys, key) == {other \in keys : Precedes(other, key)}

\* The rank of a key, the number of those before it, grows with the key.
LEMMA RanksGrow ==
  ASSUME NEW n \in Nat, NEW keys \in SUBSET Keys(n), IsFiniteSet(keys)
  PROVE  /\ \A key \in keys :
              Cardinality(Before(keys, key)) \in 0 .. Cardinality(keys) - 1
         /\ \A a, b \in keys : Precedes(a, b) =>
              Cardinality(Before(keys, a)) < Cardinality(Before(keys, b))
  <1> DEFINE count == Cardinality(keys)
  <1>1. count \in Nat
    BY FS_CardinalityType
  <1>2. ASSUME NEW key \in keys
        PROVE  /\ IsFiniteSet(Before(keys, key))
               /\ Cardinality(Before(keys, key)) \in 0 .. count - 1
    <2>1. Before(keys, key) \in SUBSET keys /\ key \notin Before(keys, key)
      BY OrderIsStrict DEF Before
    <2>2. /\ IsFiniteSet(Before(keys, key))
          /\ Cardinality(Before(keys, key)) <= count
          /\ Cardinality(Before(keys, key)) # count
      BY <2>1, FS_Subset
    <2>3. Cardinality(Before(keys, key)) \in Nat
      BY <2>2, FS_CardinalityType
    <2> QED
      BY <1>1, <2>2, <2>3
  <1>3. ASSUME NEW a \in keys, NEW b \in keys, Precedes(a, b)
        PROVE  Cardinality(Before(keys, a)) < Cardinality(Before(keys, b))
    <2>1. Before(keys, a) \in SUBSET Before(keys, b)
      BY <1>3, OrderIsStrict DEF Before
    <2>2. a \in Before(keys, b) /\ a \notin Before(keys, a)
      BY <1>3, OrderIsStrict DEF Before
    <2>3. /\ Cardinality(Before(keys, a)) <= Cardinality(Before(keys, b))
          /\ Cardinality(Before(keys, a)) # Cardinality(Before(keys, b))
      BY <1>2, <2>1, <2>2, FS_Subset
    <2>4. Cardinality(Before(keys, a)) \in Nat /\ Cardinality(Before(keys, b)) \in Nat
      BY <1>2
    <2> QED
      BY <2>3, <2>4
  <1> QED
    BY <1>2, <1>3

\* Each key has a rank of its own, and each rank below their number is one's.
LEMMA RanksAreTaken ==
  ASSUME NEW n \in Nat, NEW keys \in SUBSET Keys(n), IsFiniteSet(keys),
         NEW k \in 1 .. Cardinality(keys)
  PROVE  \E key \in keys : Cardinality(Before(keys, key)) = k - 1
  <1> DEFINE count == Cardinality(keys)
             rank == [key \in keys |-> Cardinality(Before(keys, key))]
  <1>1. count \in Nat
    BY FS_CardinalityType
  <1>2. \A key \in keys : Cardinality(Before(keys, key)) \in 0 .. count - 1
    BY RanksGrow
  <1>3. ASSUME NEW a \in keys, NEW b \in keys, Precedes(a, b)
        PROVE  Cardinality(Before(keys, a)) # Cardinality(Before(keys, b))
    <2>1. Cardinality(Before(keys, a)) < Cardinality(Before(keys, b))
      BY <1>3, RanksGrow
    <2>2. Cardinality(Before(keys, a)) \in Nat /\ Cardinality(Before(keys, b)) \in Nat
      BY <1>1, <1>2
    <2> QED
      BY <2>1, <2>2
  <1>4. rank \in [keys -> 0 .. count - 1]
    BY <1>2
  <1>5. IsInjective(rank)
    <2> SUFFICES ASSUME NEW a \in keys, NEW b \in keys, a # b
                 PROVE  rank[a] # rank[b]
      BY DEF IsInjective
    <2>1. Precedes(a, b) \/ Precedes(b, a)
      BY OrderIsTotal
    <2> QED
      BY <1>3, <2>1
  <1>6. rank \in Injection(keys, 0 .. count - 1)
    BY <1>4, <1>5 DEF Injection
  <1>7. IsFiniteSet(0 .. count - 1) /\ Cardinality(0 .. count - 1) = count
    <2>1. PICK last \in Int : last = count - 1
      BY <1>1
    <2>2. /\ IsFiniteSet(0 .. last)
          /\ Cardinality(0 .. last) = IF 0 > last THEN 0 ELSE last - 0 + 1
      BY FS_Interval
    <2> HIDE DEF count
    <2> QED
      BY <1>1, <2>1, <2>2
  <1>8. rank \in Surjection(keys, 0 .. count - 1)
    <2> HIDE DEF rank
    <2> QED
      BY <1>6, <1>7, FS_Injection
  <1>9. k - 1 \in 0 .. count - 1
    BY <1>1
  <1>10. \E key \in keys : rank[key] = k - 1
    <2> HIDE DEF rank, count
    <2> QED
      BY <1>8, <1>9 DEF Surjection
  <1> QED
    BY <1>10

LEMMA OrderHasKeys ==
  ASSUME NEW n \in Nat, NEW keys \in SUBSET Keys(n), IsFiniteSet(keys)
  PROVE  /\ DOMAIN InOrder(keys) = 1 .. Cardinality(keys)
         /\ Cardinality(keys) \in Nat
         /\ \A k \in DOMAIN InOrder(keys) : InOrder(keys)[k] \in keys
  <1>1. DOMAIN InOrder(keys) = 1 .. Cardinality(keys)
    BY DEF InOrder
  <1>2. Cardinality(keys) \in Nat
    BY FS_CardinalityType
  <1>3. ASSUME NEW k \in 1 .. Cardinality(keys)
        PROVE  InOrder(keys)[k] \in keys
    <2>1. \E key \in keys : Cardinality({other \in keys : Precedes(other, key)}) = k - 1
      BY RanksAreTaken DEF Before
    <2>2. InOrder(keys)[k] =
            CHOOSE key \in keys : Cardinality({other \in keys : Precedes(other, key)}) = k - 1
      BY DEF InOrder
    <2> QED
      BY <2>1, <2>2, Zenon
  <1> QED
    BY <1>1, <1>2, <1>3

\* Place k of the order has the key of rank k - 1: earlier places have smaller
\* keys, and every key has a place.
LEMMA OrderIsSorted ==
  ASSUME NEW n \in Nat, NEW keys \in SUBSET Keys(n), IsFiniteSet(keys)
  PROVE  /\ \A j, k \in 1 .. Cardinality(keys) :
              j < k => Precedes(InOrder(keys)[j], InOrder(keys)[k])
         /\ \A key \in keys : \E k \in 1 .. Cardinality(keys) : InOrder(keys)[k] = key
  <1> DEFINE count == Cardinality(keys)
             order == InOrder(keys)
             Rank(key) == Cardinality(Before(keys, key))
  <1>1. count \in Nat
    BY FS_CardinalityType
  <1>2. ASSUME NEW k \in 1 .. count
        PROVE  order[k] \in keys /\ Rank(order[k]) = k - 1
    <2>1. \E key \in keys : Cardinality({other \in keys : Precedes(other, key)}) = k - 1
      BY RanksAreTaken DEF Before
    <2>2. order[k] =
            CHOOSE key \in keys : Cardinality({other \in keys : Precedes(other, key)}) = k - 1
      BY DEF InOrder
    <2>3. /\ order[k] \in keys
          /\ Cardinality({other \in keys : Precedes(other, order[k])}) = k - 1
      <3> HIDE DEF order
      <3> QED
        BY <2>1, <2>2, Zenon
    <2> QED
      BY <2>3 DEF Before
  <1>3. /\ \A key \in keys : Rank(key) \in 0 .. count - 1
        /\ \A a, b \in keys : Precedes(a, b) => Rank(a) < Rank(b)
    BY RanksGrow
  <1>4. \A a, b \in keys : a # b => Precedes(a, b) \/ Precedes(b, a)
    BY OrderIsTotal
  <1> HIDE DEF order, count, Rank
  <1>5. ASSUME NEW a \in keys, NEW b \in keys, Rank(a) < Rank(b) PROVE Precedes(a, b)
    <2>1. Rank(a) \in Nat /\ Rank(b) \in Nat
      BY <1>1, <1>3
    <2>2. a # b /\ ~(Rank(b) < Rank(a))
      BY <1>5, <2>1
    <2> QED
      BY <1>3, <1>4, <2>2
  <1>6. ASSUME NEW j \in 1 .. count, NEW k \in 1 .. count, j < k
        PROVE  Precedes(order[j], order[k])
    <2>1. Rank(order[j]) < Rank(order[k])
      BY <1>1, <1>2, <1>6
    <2> QED
      BY <1>2, <1>5, <2>1
  <1>7. ASSUME NEW key \in keys PROVE \E k \in 1 .. count : order[k] = key
    <2>1. PICK k \in 1 .. count : k = Rank(key) + 1
      BY <1>1, <1>3
    <2>2. order[k] \in keys /\ Rank(order[k]) = Rank(key)
      BY <1>1, <1>2, <1>3, <2>1
    <2>3. ~(Rank(order[k]) < Rank(key)) /\ ~(Rank(key) < Rank(order[k]))
      BY <1>1, <1>3, <2>2
    <2>4. order[k] = key
      BY <1>3, <1>4, <2>2, <2>3
    <2> QED
      BY <2>4
  <1> QED
    BY <1>6, <1>7 DEF order, count

(***************************************************************************)
(* What is visible                                                         *)
(***************************************************************************)

\* A key ends with the row.
LEMMA KeysHaveRows ==
  ASSUME NEW s, NEW entry \in Entry, NEW part \in Nat, NEW row \in Nat
  PROVE  /\ SortKey(s, entry, part, row) \in Keys(IF s.sort = "pages" THEN 6 ELSE 4)
         /\ Last(SortKey(s, entry, part, row)) = row
  <1>1. {entry.address, entry.size, entry.pages, entry.tag} \subseteq Nat
    BY EntriesHaveFields
  <1>2. CASE s.sort = "pages"
    BY <1>1, <1>2 DEF SortKey, Keys, Last
  <1>3. CASE s.sort # "pages"
    BY <1>1, <1>3 DEF SortKey, Keys, Last
  <1> QED
    BY <1>2, <1>3

\* The keys of finitely many rows are finite.
LEMMA RowsHaveKeys ==
  ASSUME NEW f, NEW rows, IsFiniteSet(rows), DOMAIN f = rows
  PROVE  IsFiniteSet({f[i] : i \in rows})
  <1> DEFINE keys == {f[i] : i \in rows}
             g == [i \in rows |-> f[i]]
  <1>1. g \in Surjection(rows, keys)
    BY DEF Surjection
  <1> QED
    BY <1>1, FS_Surjection

\* The rows in some order are rows of the table.
LEMMA VisibleEntriesAreEntries ==
  ASSUME NEW s, NEW entries \in Seq(Entry)
  PROVE  VisibleEntries(s, entries) \in Seq(Entry)
  <1> DEFINE rows == {i \in DOMAIN entries : MatchesFilters(s, entries[i])}
             f == [i \in rows |-> SortKey(s, entries[i], entries[i].size, i)]
             keys == {SortKey(s, entries[i], entries[i].size, i) : i \in rows}
             order == InOrder(keys)
  <1>1. Len(entries) \in Nat /\ rows \in SUBSET (1 .. Len(entries))
    OBVIOUS
  <1>2. IsFiniteSet(rows)
    BY <1>1, FS_Interval, FS_Subset
  <1>3. \A i \in rows : entries[i] \in Entry /\ entries[i].size \in Nat /\ i \in Nat
    BY <1>1, EntriesHaveFields
  <1>4. \A i \in rows : SortKey(s, entries[i], entries[i].size, i)
                          \in Keys(IF s.sort = "pages" THEN 6 ELSE 4)
                        /\ Last(SortKey(s, entries[i], entries[i].size, i)) = i
    BY <1>3, KeysHaveRows
  <1>5. IsFiniteSet(keys)
    <2>1. keys = {f[i] : i \in rows} /\ DOMAIN f = rows
      OBVIOUS
    <2> HIDE DEF keys, f, rows
    <2> QED
      BY <1>2, <2>1, RowsHaveKeys
  <1>6. PICK n \in Nat : keys \in SUBSET Keys(n)
    BY <1>4
  <1>7. /\ DOMAIN order = 1 .. Cardinality(keys) /\ Cardinality(keys) \in Nat
        /\ \A k \in DOMAIN order : order[k] \in keys
    <2> HIDE DEF keys
    <2> QED
      BY <1>5, <1>6, OrderHasKeys
  <1>8. ASSUME NEW k \in DOMAIN order PROVE entries[Last(order[k])] \in Entry
    <2> HIDE DEF order, rows
    <2>1. PICK i \in rows : order[k] = SortKey(s, entries[i], entries[i].size, i)
      BY <1>7, <1>8
    <2> QED
      BY <1>3, <1>4, <2>1
  <1>9. VisibleEntries(s, entries) = [k \in DOMAIN order |-> entries[Last(order[k])]]
    BY DEF VisibleEntries
  <1> HIDE DEF order, keys, rows
  <1> QED
    BY <1>7, <1>8, <1>9

LEMMA ResultsHaveFields ==
  ASSUME NEW results \in Results
  PROVE  \A i \in 1 .. Len(results) : results[i] \in [entry : Entry, offset : Nat]
  <1>1. \A S : \A seq \in Seq(S) : \A i \in 1 .. Len(seq) : seq[i] \in S
    OBVIOUS
  <1> QED
    BY <1>1, Zenon DEF Results

LEMMA VisibleResultsAreResults ==
  ASSUME NEW s, NEW results \in Results
  PROVE  VisibleResults(s, results) \in Seq({results[i] : i \in DOMAIN results})
  <1> DEFINE rows == {i \in DOMAIN results : MatchesFilters(s, results[i].entry)}
             f == [i \in rows |-> SortKey(s, results[i].entry, results[i].offset, i)]
             keys == {SortKey(s, results[i].entry, results[i].offset, i) : i \in rows}
             order == InOrder(keys)
  <1>1. Len(results) \in Nat /\ rows \in SUBSET (1 .. Len(results))
    BY DEF Results
  <1>2. IsFiniteSet(rows)
    BY <1>1, FS_Interval, FS_Subset
  <1>3. \A i \in rows : results[i].entry \in Entry /\ results[i].offset \in Nat /\ i \in Nat
    <2>1. \A i \in 1 .. Len(results) : results[i] \in [entry : Entry, offset : Nat]
      BY ResultsHaveFields
    <2> SUFFICES ASSUME NEW i \in rows
                 PROVE  results[i].entry \in Entry /\ results[i].offset \in Nat /\ i \in Nat
      OBVIOUS
    <2>2. i \in 1 .. Len(results)
      BY <1>1
    <2> QED
      BY <2>1, <2>2
  <1>4. \A i \in rows : SortKey(s, results[i].entry, results[i].offset, i)
                          \in Keys(IF s.sort = "pages" THEN 6 ELSE 4)
                        /\ Last(SortKey(s, results[i].entry, results[i].offset, i)) = i
    BY <1>3, KeysHaveRows
  <1>5. IsFiniteSet(keys)
    <2>1. keys = {f[i] : i \in rows} /\ DOMAIN f = rows
      OBVIOUS
    <2> HIDE DEF keys, f, rows
    <2> QED
      BY <1>2, <2>1, RowsHaveKeys
  <1>6. PICK n \in Nat : keys \in SUBSET Keys(n)
    BY <1>4
  <1>7. /\ DOMAIN order = 1 .. Cardinality(keys) /\ Cardinality(keys) \in Nat
        /\ \A k \in DOMAIN order : order[k] \in keys
    <2> HIDE DEF keys
    <2> QED
      BY <1>5, <1>6, OrderHasKeys
  <1>8. ASSUME NEW k \in DOMAIN order
        PROVE  results[Last(order[k])] \in {results[i] : i \in DOMAIN results}
    <2>1. \A i \in rows : results[i] \in {results[j] : j \in DOMAIN results}
      OBVIOUS
    <2> HIDE DEF order, rows
    <2>2. PICK i \in rows : order[k] = SortKey(s, results[i].entry, results[i].offset, i)
      BY <1>7, <1>8
    <2> QED
      BY <1>4, <2>1, <2>2
  <1>9. VisibleResults(s, results) = [k \in DOMAIN order |-> results[Last(order[k])]]
    BY DEF VisibleResults
  <1> HIDE DEF order, keys, rows
  <1> QED
    BY <1>7, <1>8, <1>9

(***************************************************************************)
(* Selections                                                              *)
(***************************************************************************)

\* A row that may be selected among so many rows.
Fits(row, length) == row \in Nat /\ row < Max({1, length})

LEMMA FitsIf ==
  ASSUME NEW row \in Nat, NEW length \in Nat
  PROVE  Fits(row, length) <=> row = 0 \/ row < length
  <1>1. CASE length <= 1
    <2>1. Max({1, length}) = 1
      BY <1>1 DEF Max
    <2> QED
      BY <1>1, <2>1 DEF Fits
  <1>2. CASE length > 1
    <2>1. Max({1, length}) = length
      BY <1>2 DEF Max
    <2> QED
      BY <1>2, <2>1 DEF Fits
  <1> QED
    BY <1>1, <1>2

\* clampSelection cuts any row to one that fits.
LEMMA ClampFits ==
  ASSUME NEW row \in Nat, NEW length \in Nat
  PROVE  Fits(ClampSelection(row, length), length)
  <1>1. CASE length = 0
    BY <1>1, FitsIf DEF ClampSelection
  <1>2. CASE length # 0
    <2>1. Min({row, length - 1}) \in Nat /\ Min({row, length - 1}) < length
      <3>1. CASE row <= length - 1
        <4>1. Min({row, length - 1}) = row
          BY <1>2, <3>1 DEF Min
        <4> QED
          BY <1>2, <3>1, <4>1
      <3>2. CASE length - 1 <= row
        <4>1. Min({row, length - 1}) = length - 1
          BY <1>2, <3>2 DEF Min
        <4> QED
          BY <1>2, <4>1
      <3> QED
        BY <3>1, <3>2
    <2> QED
      BY <1>2, <2>1, FitsIf DEF ClampSelection
  <1> QED
    BY <1>1, <1>2

LEMMA LengthsAreNatural ==
  ASSUME NEW s \in Settings, NEW t \in Tables, NEW results \in Results
  PROVE  Len(VisibleTable(s, t)) \in Nat /\ Len(VisibleSearch(s, results)) \in Nat
  <1>1. t[s.view] \in Seq(Entry)
    BY DEF Settings, Tables
  <1>2. VisibleTable(s, t) \in Seq(Entry)
    BY <1>1, VisibleEntriesAreEntries DEF VisibleTable
  <1>3. VisibleSearch(s, results) \in Seq({results[i] : i \in DOMAIN results})
    BY VisibleResultsAreResults DEF VisibleSearch
  <1> QED
    BY <1>2, <1>3

\* The numbers of rows and of results that are visible now.
LEMMA VisibleAreCounted ==
  ASSUME ShownTypes
  PROVE  /\ Len(VisibleTable(settings, tables)) \in Nat
         /\ Len(VisibleSearch(settings, search)) \in Nat
  BY LengthsAreNatural DEF ShownTypes

\* findEntryIndex finds a row of the table, or the first.
LEMMA FoundFits ==
  ASSUME ShownTypes, NEW address
  PROVE  Fits(FindEntryIndex(address), Len(VisibleTable(settings, tables)))
  <1> DEFINE visible == VisibleTable(settings, tables)
             rows == {i \in 1 .. Len(visible) : AddressInEntry(address, visible[i])}
  <1>1. Len(visible) \in Nat
    BY VisibleAreCounted
  <1>2. CASE rows = {}
    BY <1>1, <1>2, FitsIf DEF FindEntryIndex
  <1>3. CASE rows # {}
    <2>1. rows \in SUBSET Nat
      BY <1>1
    <2>2. Min(rows) \in rows
      <3> HIDE DEF rows
      <3> QED
        BY <1>3, <2>1, LeastNatural
    <2>3. Min(rows) \in 1 .. Len(visible)
      BY <2>2
    <2>4. FindEntryIndex(address) = Min(rows) - 1
      BY <1>3 DEF FindEntryIndex
    <2> HIDE DEF rows, visible
    <2>5. Min(rows) - 1 \in Nat /\ Min(rows) - 1 < Len(visible)
      BY <1>1, <2>3
    <2> QED
      BY <1>1, <2>4, <2>5, FitsIf DEF visible
  <1> QED
    BY <1>2, <1>3

RowFits == Fits(selected, Len(VisibleTable(settings, tables)))

HitFits == Fits(searchIndex, Len(VisibleSearch(settings, search)))

SelectionInv == RowFits /\ HitFits

\* The first row, and the first result, fit whatever is visible.
LEMMA FirstFits ==
  ASSUME ShownTypes'
  PROVE  /\ selected' = 0 => RowFits'
         /\ searchIndex' = 0 => HitFits'
  <1>1. Len(VisibleTable(settings, tables))' \in Nat
    BY LengthsAreNatural DEF ShownTypes
  <1>2. Len(VisibleSearch(settings, search))' \in Nat
    BY LengthsAreNatural DEF ShownTypes
  <1> QED
    BY <1>1, <1>2, FitsIf DEF RowFits, HitFits

\* A row that is clamped to what is visible now fits.
LEMMA ClampedRowFits ==
  ASSUME RowFits, ShownTypes',
         selected' = ClampSelection(selected, Len(VisibleTable(settings', tables')))
  PROVE  RowFits'
  <1>1. selected \in Nat
    BY DEF RowFits, Fits
  <1>2. Len(VisibleTable(settings', tables')) \in Nat
    BY LengthsAreNatural DEF ShownTypes
  <1> QED
    BY <1>1, <1>2, ClampFits DEF RowFits

\* The view and the search target neither filter nor sort.
LEMMA FiltersStay ==
  ASSUME NEW view, NEW target
  PROVE  /\ Filters([settings EXCEPT !.view = view]) = Filters(settings)
         /\ Filters([settings EXCEPT !.target = target]) = Filters(settings)
         /\ [settings EXCEPT !.target = target].view = settings.view
  BY DEF Filters

\* Messages that bring tables: the row is the first or clamped, the results
\* are cleared or left alone.
LEMMA MessagesKeepSelection ==
  ASSUME ShownTypes, ShownTypes', SelectionInv, Message
  PROVE  SelectionInv'
  <1>1. CASE BaselineMessage \/ StopMessage
    <2>1. selected' = 0 /\ searchIndex' = 0
      BY <1>1 DEF BaselineMessage, StopMessage, ClearAnalysisState
    <2> QED
      BY <2>1, FirstFits DEF SelectionInv
  <1>2. CASE CurrentMessage \/ DiffMessage
    <2>1. PICK new : NewTables(new)
      BY <1>2, Zenon DEF CurrentMessage, DiffMessage
    <2>2. searchIndex' = 0 /\ settings' = settings
      BY <1>2 DEF CurrentMessage, DiffMessage, ClearAnalysisState, kept
    <2>3. selected' = ClampSelection(selected, Len(VisibleTable(settings', tables')))
      BY <2>1, <2>2 DEF NewTables
    <2> QED
      BY <2>2, <2>3, FirstFits, ClampedRowFits DEF SelectionInv
  <1>3. CASE CurrentEntriesMessage
    <2>1. /\ selected' = ClampSelection(selected, Len(VisibleTable(settings, tables')))
          /\ UNCHANGED <<settings, search, searchIndex>>
      BY <1>3 DEF CurrentEntriesMessage, kept
    <2>2. RowFits'
      BY <2>1, ClampedRowFits DEF SelectionInv
    <2>3. HitFits'
      BY <2>1 DEF SelectionInv, HitFits
    <2> QED
      BY <2>2, <2>3 DEF SelectionInv
  <1>4. CASE SearchMessage
    <2>1. searchIndex' = 0 /\ UNCHANGED <<settings, tables, selected>>
      BY <1>4 DEF SearchMessage, kept
    <2> QED
      BY <2>1, FirstFits DEF SelectionInv, RowFits
  <1>5. CASE DumpMessage
    <2>1. UNCHANGED <<settings, tables, selected, search, searchIndex>>
      BY <1>5 DEF DumpMessage, kept, shown
    <2> QED
      BY <2>1 DEF SelectionInv, RowFits, HitFits
  <1> QED
    BY <1>1, <1>2, <1>3, <1>4, <1>5 DEF Message

\* New filters or another order: both selections are clamped.
LEMMA FilterKeepsSelection ==
  ASSUME ShownTypes', SelectionInv, NEW new, Filter(new)
  PROVE  SelectionInv'
  <1>1. /\ selected' = ClampSelection(selected, Len(VisibleTable(settings', tables')))
        /\ searchIndex' = ClampSelection(searchIndex, Len(VisibleSearch(settings', search')))
    BY DEF Filter, ClampAll, PersistConfig
  <1>2. searchIndex \in Nat
    BY DEF SelectionInv, HitFits, Fits
  <1>3. Len(VisibleSearch(settings', search')) \in Nat
    BY LengthsAreNatural DEF ShownTypes
  <1>4. HitFits'
    BY <1>1, <1>2, <1>3, ClampFits DEF HitFits
  <1> QED
    BY <1>1, <1>4, ClampedRowFits DEF SelectionInv

LEMMA KeysKeepSelection ==
  ASSUME ShownTypes, ShownTypes', SelectionInv, Press
  PROVE  SelectionInv'
  <1>0. /\ selected \in Nat /\ searchIndex \in Nat
        /\ Len(VisibleTable(settings, tables)) \in Nat
        /\ Len(VisibleSearch(settings, search)) \in Nat
    BY VisibleAreCounted DEF SelectionInv, RowFits, HitFits, Fits
  <1>1. CASE Up
    <2>1. selected > 0 /\ selected' = selected - 1
          /\ UNCHANGED <<settings, tables, search, searchIndex>>
      BY <1>1 DEF Up, kept, shown
    <2>2. selected < Len(VisibleTable(settings, tables))
      BY <1>0, <2>1, FitsIf DEF SelectionInv, RowFits
    <2>3. Fits(selected - 1, Len(VisibleTable(settings, tables)))
      BY <1>0, <2>1, <2>2, FitsIf
    <2> QED
      BY <2>1, <2>3 DEF SelectionInv, RowFits, HitFits
  <1>2. CASE Down
    <2>1. selected + 1 < Len(VisibleTable(settings, tables)) /\ selected' = selected + 1
          /\ UNCHANGED <<settings, tables, search, searchIndex>>
      BY <1>2 DEF Down, kept, shown
    <2>2. Fits(selected + 1, Len(VisibleTable(settings, tables)))
      BY <1>0, <2>1, FitsIf
    <2> QED
      BY <2>1, <2>2 DEF SelectionInv, RowFits, HitFits
  <1>3. CASE NextHit
    <2> DEFINE count == Len(VisibleSearch(settings, search))
    <2>1. count > 0 /\ searchIndex' = (searchIndex + 1) % count
          /\ UNCHANGED <<settings, tables, search, selected>>
      BY <1>3 DEF NextHit, kept
    <2>2. count \in Nat
      BY <1>0
    <2> HIDE DEF count
    <2>3. (searchIndex + 1) % count \in Nat /\ (searchIndex + 1) % count < count
      BY <1>0, <2>1, <2>2
    <2>4. Fits((searchIndex + 1) % count, count)
      BY <2>2, <2>3, FitsIf
    <2> QED
      BY <2>1, <2>4 DEF SelectionInv, RowFits, HitFits, count
  <1>4. CASE JumpToHit
    <2>1. PICK address : selected' = FindEntryIndex(address)
      BY <1>4 DEF JumpToHit
    <2>2. UNCHANGED <<settings, tables, search, searchIndex>>
      BY <1>4 DEF JumpToHit, kept, shown
    <2> QED
      BY <2>1, <2>2, FoundFits DEF SelectionInv, RowFits, HitFits
  <1>5. CASE CloseDetailPanel
    <2>1. UNCHANGED <<settings, tables, selected>>
      BY <1>5 DEF CloseDetailPanel, kept
    <2>2. searchIndex' = 0 \/ UNCHANGED <<search, searchIndex>>
      BY <1>5 DEF CloseDetailPanel
    <2> QED
      BY <2>1, <2>2, FirstFits DEF SelectionInv, RowFits, HitFits
  <1>6. CASE ToggleTableView
    <2>1. PICK view : settings' = [settings EXCEPT !.view = view]
                      /\ selected' = ClampSelection(selected,
                                        Len(VisibleTable(settings', tables')))
      BY <1>6 DEF ToggleTableView, PersistConfig, shown
    <2>2. UNCHANGED <<search, searchIndex>>
      BY <1>6 DEF ToggleTableView, shown
    <2>3. VisibleSearch(settings', search') = VisibleSearch(settings, search)
      BY <2>1, <2>2, FiltersStay DEF VisibleSearch
    <2> QED
      BY <2>1, <2>2, <2>3, ClampedRowFits DEF SelectionInv, HitFits
  <1>7. CASE ToggleSearchTarget
    <2>1. PICK goal : settings' = [settings EXCEPT !.target = goal]
      BY <1>7 DEF ToggleSearchTarget, PersistConfig
    <2>2. UNCHANGED <<tables, selected, search, searchIndex>>
      BY <1>7 DEF ToggleSearchTarget, shown
    <2>3. /\ VisibleSearch(settings', search') = VisibleSearch(settings, search)
          /\ VisibleTable(settings', tables') = VisibleTable(settings, tables)
      BY <2>1, <2>2, FiltersStay DEF VisibleSearch, VisibleTable
    <2> QED
      BY <2>2, <2>3 DEF SelectionInv, RowFits, HitFits
  <1>8. CASE CycleFilter \/ ToggleSort \/ SubmitTag
    <2>1. \E new : Filter(new)
      BY <1>8, Zenon DEF CycleFilter, ToggleSort, SubmitTag
    <2> QED
      BY <2>1, FilterKeepsSelection
  <1>9. CASE DumpSelected \/ NextPage \/ PreviousPage \/ OpenTagInput \/ CancelInput
    <2>1. UNCHANGED <<settings, tables, selected, search, searchIndex>>
      BY <1>9 DEF DumpSelected, NextPage, PreviousPage, OpenTagInput, CancelInput, kept, shown
    <2> QED
      BY <2>1 DEF SelectionInv, RowFits, HitFits
  <1> QED
    BY <1>1, <1>2, <1>3, <1>4, <1>5, <1>6, <1>7, <1>8, <1>9 DEF Press

LEMMA SelectionStep ==
  ASSUME ShownTypes, ShownTypes', SelectionInv, [Next]_vars
  PROVE  SelectionInv'
  <1>1. CASE Message
    BY <1>1, MessagesKeepSelection
  <1>2. CASE Press
    BY <1>2, KeysKeepSelection
  <1>3. CASE Restart
    <2>1. selected' = 0 /\ searchIndex' = 0
      BY <1>3 DEF Restart, NewModel
    <2> QED
      BY <2>1, FirstFits DEF SelectionInv
  <1>4. CASE UNCHANGED vars
    <2>1. UNCHANGED <<settings, tables, selected, search, searchIndex>>
      BY <1>4 DEF vars, kept, shown
    <2> QED
      BY <2>1 DEF SelectionInv, RowFits, HitFits
  <1> QED
    BY <1>1, <1>2, <1>3, <1>4 DEF Next

(***************************************************************************)
(* No key reads behind the end of a table or of the search results: after  *)
(* every message, filter and order the selected row and the selected       *)
(* result are among those that are visible, if there are any (Update and   *)
(* clampSelection; m.selected and m.searchIndex index without a check).    *)
(***************************************************************************)
THEOREM SelectionsAreVisible == Spec => []SelectionIsVisible
  <1>1. Init => ShownTypes /\ SelectionInv
    <2> SUFFICES ASSUME Init PROVE ShownTypes /\ SelectionInv
      OBVIOUS
    <2>1. ShownTypes
      BY SomeTypes, FilesOfEarlierVersions DEF Init, ShownTypes
    <2>2. selected = 0 /\ searchIndex = 0
      BY DEF Init
    <2> QED
      BY <2>1, <2>2, VisibleAreCounted, FitsIf DEF SelectionInv, RowFits, HitFits
  <1>2. ShownTypes /\ SelectionInv /\ [Next]_vars => (ShownTypes /\ SelectionInv)'
    BY ShownTypesStep, SelectionStep
  <1>3. SelectionInv => SelectionIsVisible
    BY DEF SelectionInv, RowFits, HitFits, Fits, SelectionIsVisible
  <1> QED
    BY <1>1, <1>2, <1>3, PTL DEF Spec

(***************************************************************************)
(* Jumps                                                                   *)
(***************************************************************************)

(***************************************************************************)
(* g goes to the pool of the search result: whenever the table shows that  *)
(* pool, under the filters and the order of the moment, the row that is    *)
(* selected is one the result is in (findEntryIndex, the key "g").         *)
(***************************************************************************)
THEOREM JumpsSelectTheHit == Spec => JumpSelectsTheHit
  <1>1. ShownTypes /\ [Next]_vars => ShownTypes'
    BY ShownTypesStep
  <1>2. Init => ShownTypes
    BY SomeTypes, FilesOfEarlierVersions DEF Init, ShownTypes
  <1>3. ASSUME ShownTypes, [Next]_vars, JumpToHit,
               NEW row \in 1 .. Len(VisibleTable(settings, tables)),
               VisibleTable(settings, tables)[row] = SelectedHit.entry
        PROVE  AddressInEntry(SelectedHit.entry.address, Selected')
    <2> DEFINE visible == VisibleTable(settings, tables)
               address == SelectedHit.entry.address
               rows == {i \in 1 .. Len(visible) : AddressInEntry(address, visible[i])}
    <2>1. Len(visible) \in Nat
      BY <1>3, VisibleAreCounted
    <2>2. row \in rows
      BY <1>3 DEF AddressInEntry
    <2>3. rows \in SUBSET Nat
      BY <2>1
    <2>4. selected' = FindEntryIndex(address) /\ UNCHANGED <<settings, tables>>
      BY <1>3 DEF JumpToHit, kept, shown
    <2>5. selected' = Min(rows) - 1
      BY <2>2, <2>4 DEF FindEntryIndex
    <2>6. Min(rows) \in rows
      <3> HIDE DEF rows
      <3> QED
        BY <2>2, <2>3, LeastNatural
    <2>7. Min(rows) \in Nat /\ AddressInEntry(address, visible[Min(rows)])
      BY <2>1, <2>6
    <2>8. Selected' = visible[selected' + 1]
      BY <2>4 DEF Selected
    <2> HIDE DEF rows, visible, address
    <2>9. selected' + 1 = Min(rows)
      BY <2>5, <2>7
    <2> QED
      BY <2>7, <2>8, <2>9 DEF address
  <1>4. ShownTypes /\ [Next]_vars =>
          [JumpToHit =>
             \A row \in 1 .. Len(VisibleTable(settings, tables)) :
               VisibleTable(settings, tables)[row] = SelectedHit.entry =>
                 AddressInEntry(SelectedHit.entry.address, Selected')]_vars
    BY <1>3, Zenon
  <1> QED
    BY <1>1, <1>2, <1>4, PTL DEF Spec, JumpSelectsTheHit

(***************************************************************************)
(* Dumps                                                                   *)
(***************************************************************************)

\* A dump that begins within its pool.
IsInside(d) == d \in Dump /\ d.offset < Max({1, d.entry.size})

ResultsInside ==
  \A i \in DOMAIN search : search[i].offset < search[i].entry.size

DumpInv ==
  /\ dump \in Seq(Dump) /\ Len(dump) <= 1
  /\ dump # <<>> => IsInside(dump[1])
  /\ \A d \in dumping : IsInside(d)

FlagTypes ==
  /\ ready \in BOOLEAN /\ input \in BOOLEAN /\ unsaved \in BOOLEAN
  /\ saveErrors \in 0 .. MaxSaveErrors

\* The row and the result that keys read, when there are any.
LEMMA SelectedAreShown ==
  ASSUME ShownTypes, SelectionInv
  PROVE  /\ VisibleTable(settings, tables) # <<>> => Selected \in Entry
         /\ VisibleSearch(settings, search) # <<>> =>
              \E i \in DOMAIN search : SelectedHit = search[i]
  <1> DEFINE visible == VisibleTable(settings, tables)
             hits == VisibleSearch(settings, search)
             results == {search[i] : i \in DOMAIN search}
  <1>1. visible \in Seq(Entry)
    <2>1. tables[settings.view] \in Seq(Entry)
      BY DEF ShownTypes, Tables, Settings
    <2> QED
      BY <2>1, VisibleEntriesAreEntries DEF VisibleTable
  <1>2. hits \in Seq(results)
    BY VisibleResultsAreResults DEF VisibleSearch, ShownTypes
  <1>3. \A S : \A s \in Seq(S) : \A row \in Nat :
          s # <<>> /\ (row = 0 \/ row < Len(s)) => s[row + 1] \in S
    OBVIOUS
  <1>4. /\ selected \in Nat /\ (selected = 0 \/ selected < Len(visible))
        /\ searchIndex \in Nat /\ (searchIndex = 0 \/ searchIndex < Len(hits))
    BY VisibleAreCounted, FitsIf DEF SelectionInv, RowFits, HitFits, Fits
  <1>5. visible # <<>> => Selected \in Entry
    <2> HIDE DEF visible
    <2>1. Selected = visible[selected + 1]
      BY DEF Selected, visible
    <2> QED
      BY <1>1, <1>3, <1>4, <2>1
  <1>6. hits # <<>> => SelectedHit \in results
    <2> HIDE DEF hits, results
    <2>1. SelectedHit = hits[searchIndex + 1]
      BY DEF SelectedHit, hits
    <2> QED
      BY <1>2, <1>3, <1>4, <2>1
  <1> QED
    BY <1>5, <1>6

LEMMA ResultsInsideStep ==
  ASSUME ResultsInside, [Next]_vars
  PROVE  ResultsInside'
  <1>1. CASE UNCHANGED search
    BY <1>1 DEF ResultsInside
  <1>2. CASE search' = <<>>
    BY <1>2 DEF ResultsInside
  <1>3. CASE SearchMessage
    BY <1>3, MatchesAreInside DEF SearchMessage, ResultsInside
  <1>4. CASE Restart \/ BaselineMessage \/ StopMessage \/ CurrentMessage \/ DiffMessage
    <2>1. search' = <<>>
      BY <1>4 DEF Restart, NewModel, BaselineMessage, StopMessage, CurrentMessage,
                  DiffMessage, ClearAnalysisState
    <2> QED
      BY <1>2, <2>1
  <1>5. CASE CurrentEntriesMessage \/ DumpMessage \/ Up \/ Down \/ NextHit \/ DumpSelected
             \/ JumpToHit \/ NextPage \/ PreviousPage \/ ToggleTableView
             \/ ToggleSearchTarget \/ OpenTagInput \/ CancelInput \/ UNCHANGED vars
    <2>1. UNCHANGED search
      BY <1>5 DEF CurrentEntriesMessage, DumpMessage, Up, Down, NextHit, DumpSelected,
                  JumpToHit, NextPage, PreviousPage, ToggleTableView, ToggleSearchTarget,
                  OpenTagInput, CancelInput, shown, vars
    <2> QED
      BY <1>1, <2>1
  <1>6. CASE CloseDetailPanel
    <2>1. search' = <<>> \/ UNCHANGED search
      BY <1>6 DEF CloseDetailPanel
    <2> QED
      BY <1>1, <1>2, <2>1
  <1>7. CASE CycleFilter \/ ToggleSort \/ SubmitTag
    <2>1. \E new : Filter(new)
      BY <1>7, Zenon DEF CycleFilter, ToggleSort, SubmitTag
    <2>2. UNCHANGED search
      BY <2>1 DEF Filter
    <2> QED
      BY <1>1, <2>2
  <1> QED
    BY <1>3, <1>4, <1>5, <1>6, <1>7 DEF Next, Message, Press

LEMMA FlagsStep ==
  ASSUME FlagTypes, [Next]_vars
  PROVE  FlagTypes'
  <1>1. ASSUME NEW new, PersistConfig(new)
        PROVE  unsaved' \in BOOLEAN /\ saveErrors' \in 0 .. MaxSaveErrors
    <2>1. unsaved' \in {TRUE, FALSE}
      BY <1>1, Zenon DEF PersistConfig
    <2>2. \/ saveErrors' = saveErrors
          \/ saveErrors < MaxSaveErrors /\ saveErrors' = saveErrors + 1
      BY <1>1, Zenon DEF PersistConfig
    <2>3. saveErrors' \in 0 .. MaxSaveErrors
      BY <2>2, BoundsAreNat DEF FlagTypes
    <2> QED
      BY <2>1, <2>3
  <1>2. CASE Restart \/ Message
    <2>1. ready' \in {ready, TRUE, FALSE}
      BY <1>2, Zenon
      DEF Restart, NewModel, Message, BaselineMessage, StopMessage, CurrentMessage,
          DiffMessage, NewTables, CurrentEntriesMessage, SearchMessage, DumpMessage, shown
    <2>2. input' \in {input, FALSE} /\ unsaved' \in {unsaved, FALSE} /\ UNCHANGED saveErrors
      BY <1>2
      DEF Restart, NewModel, Message, BaselineMessage, StopMessage, CurrentMessage,
          DiffMessage, CurrentEntriesMessage, SearchMessage, DumpMessage, kept
    <2> QED
      BY <2>1, <2>2 DEF FlagTypes
  <1>3. CASE \/ Up \/ Down \/ NextHit \/ DumpSelected \/ JumpToHit \/ NextPage
             \/ PreviousPage \/ CloseDetailPanel \/ OpenTagInput \/ CancelInput
             \/ UNCHANGED vars
    BY <1>3 DEF FlagTypes, Up, Down, NextHit, DumpSelected, JumpToHit, NextPage,
                PreviousPage, CloseDetailPanel, OpenTagInput, CancelInput, vars, kept, shown
  <1>4. CASE \/ ToggleTableView \/ ToggleSearchTarget
    <2>1. \E new : PersistConfig(new)
      BY <1>4, Zenon DEF ToggleTableView, ToggleSearchTarget
    <2>2. UNCHANGED <<ready, input>>
      BY <1>4 DEF ToggleTableView, ToggleSearchTarget, shown
    <2> QED
      BY <1>1, <2>1, <2>2 DEF FlagTypes
  <1>5. CASE CycleFilter \/ ToggleSort \/ SubmitTag
    <2>1. \E new : Filter(new)
      BY <1>5, Zenon DEF CycleFilter, ToggleSort, SubmitTag
    <2>2. \E new : PersistConfig(new)
      BY <2>1, Zenon DEF Filter
    <2>3. UNCHANGED ready
      BY <2>1 DEF Filter
    <2>4. input' \in BOOLEAN
      BY <1>5 DEF CycleFilter, ToggleSort, SubmitTag, FlagTypes
    <2> QED
      BY <1>1, <2>2, <2>3, <2>4 DEF FlagTypes
  <1> QED
    BY <1>2, <1>3, <1>4, <1>5 DEF Next, Press

\* A dump that is asked for is inside when its entry and its offset are.
LEMMA AskedIsInside ==
  ASSUME DumpInv, NEW entry \in Entry, NEW offset \in Nat,
         offset = 0 \/ offset < entry.size,
         AskForDump(entry, offset), UNCHANGED dump
  PROVE  DumpInv'
  <1> DEFINE job == [entry |-> entry, offset |-> offset]
  <1>1. job \in Dump /\ job.entry = entry /\ job.offset = offset
    BY DEF Dump
  <1>2. entry.size \in Nat
    BY EntriesHaveFields
  <1>3. Fits(offset, entry.size)
    BY <1>2, FitsIf
  <1>4. IsInside(job)
    BY <1>1, <1>3 DEF Fits, IsInside
  <1>5. dumping' = dumping \cup {job}
    BY DEF AskForDump
  <1> QED
    BY <1>4, <1>5 DEF DumpInv, IsInside

LEMMA DumpsStep ==
  ASSUME ShownTypes, SelectionInv, ResultsInside, DumpInv, [Next]_vars
  PROVE  DumpInv'
  <1>0. dump # <<>> =>
          /\ dump[1].entry \in Entry /\ dump[1].entry.size \in Nat
          /\ dump[1].offset \in Nat
          /\ dump[1].offset = 0 \/ dump[1].offset < dump[1].entry.size
    <2> SUFFICES ASSUME dump # <<>>, NEW d, d = dump[1]
                 PROVE  /\ d.entry \in Entry /\ d.entry.size \in Nat /\ d.offset \in Nat
                        /\ d.offset = 0 \/ d.offset < d.entry.size
      OBVIOUS
    <2>1. IsInside(d)
      BY DEF DumpInv
    <2>2. d.entry \in Entry /\ d.offset \in Nat
      BY <2>1 DEF IsInside, Dump
    <2>3. d.entry.size \in Nat
      BY <2>2, EntriesHaveFields
    <2>4. Fits(d.offset, d.entry.size)
      BY <2>1, <2>2 DEF IsInside, Fits
    <2> QED
      BY <2>2, <2>3, <2>4, FitsIf
  <1>1. CASE Restart
    BY <1>1 DEF Restart, NewModel, DumpInv
  <1>2. CASE \/ BaselineMessage \/ StopMessage \/ CurrentMessage \/ DiffMessage
             \/ CloseDetailPanel
    <2>1. dump' = <<>> /\ UNCHANGED dumping
      BY <1>2 DEF BaselineMessage, StopMessage, CurrentMessage, DiffMessage,
                  CloseDetailPanel, ClearAnalysisState
    <2>2. <<>> \in Seq(Dump) /\ Len(<<>>) <= 1
      OBVIOUS
    <2> QED
      BY <2>1, <2>2, Zenon DEF DumpInv, IsInside
  <1>3. CASE \/ CurrentEntriesMessage \/ SearchMessage \/ Up \/ Down \/ NextHit
             \/ ToggleTableView \/ ToggleSearchTarget \/ OpenTagInput \/ CancelInput
             \/ UNCHANGED vars
    <2>1. UNCHANGED <<dump, dumping>>
      BY <1>3 DEF CurrentEntriesMessage, SearchMessage, Up, Down, NextHit,
                  ToggleTableView, ToggleSearchTarget, OpenTagInput, CancelInput, vars
    <2> QED
      BY <2>1 DEF DumpInv, IsInside
  <1>4. CASE CycleFilter \/ ToggleSort \/ SubmitTag
    <2>1. \E new : Filter(new)
      BY <1>4, Zenon DEF CycleFilter, ToggleSort, SubmitTag
    <2>2. UNCHANGED <<dump, dumping>>
      BY <2>1 DEF Filter
    <2> QED
      BY <2>2 DEF DumpInv, IsInside
  <1>5. CASE DumpMessage
    <2>1. PICK job \in dumping : dumping' = dumping \ {job} /\ dump' \in {<<job>>, <<>>, dump}
      BY <1>5 DEF DumpMessage
    <2>2. IsInside(job)
      BY <2>1 DEF DumpInv
    <2>3. <<job>> \in Seq(Dump) /\ Len(<<job>>) = 1 /\ <<job>>[1] = job
      BY <2>2 DEF IsInside
    <2>4. <<>> \in Seq(Dump) /\ Len(<<>>) <= 1
      OBVIOUS
    <2>5. CASE dump' = <<job>>
      BY <2>1, <2>2, <2>3, <2>5 DEF DumpInv, IsInside
    <2>6. CASE dump' = <<>>
      BY <2>1, <2>4, <2>6, Zenon DEF DumpInv, IsInside
    <2>7. CASE dump' = dump
      BY <2>1, <2>7 DEF DumpInv, IsInside
    <2> QED
      BY <2>1, <2>5, <2>6, <2>7
  <1>6. CASE DumpSelected
    <2>1. Selected \in Entry /\ AskForDump(Selected, 0) /\ UNCHANGED dump
      BY <1>6, SelectedAreShown DEF DumpSelected
    <2>2. PICK entry \in Entry : entry = Selected
      BY <2>1
    <2> QED
      BY <2>1, <2>2, AskedIsInside
  <1>7. CASE JumpToHit
    <2>1. PICK i \in DOMAIN search : SelectedHit = search[i]
      BY <1>7, SelectedAreShown DEF JumpToHit
    <2>2. search[i] \in [entry : Entry, offset : Nat]
      <3>1. search \in Results
        BY DEF ShownTypes
      <3>2. i \in 1 .. Len(search)
        BY <3>1 DEF Results
      <3> QED
        BY <3>1, <3>2, ResultsHaveFields
    <2>3. search[i].offset < search[i].entry.size
      BY DEF ResultsInside
    <2>4. PICK entry \in Entry, offset \in Nat :
            entry = SelectedHit.entry /\ offset = SelectedHit.offset
      BY <2>1, <2>2
    <2>5. AskForDump(entry, offset) /\ UNCHANGED dump
      BY <1>7, <2>4 DEF JumpToHit
    <2> QED
      BY <2>1, <2>3, <2>4, <2>5, AskedIsInside
  <1>8. CASE NextPage
    <2>1. /\ dump # <<>> /\ UNCHANGED dump
          /\ dump[1].offset + DumpPageSize < dump[1].entry.size
          /\ AskForDump(dump[1].entry, dump[1].offset + DumpPageSize)
      BY <1>8 DEF NextPage
    <2>2. PICK entry \in Entry, offset \in Nat :
            entry = dump[1].entry /\ offset = dump[1].offset + DumpPageSize
      BY <1>0, <2>1, PagesAreDumped
    <2> QED
      BY <2>1, <2>2, AskedIsInside
  <1>9. CASE PreviousPage
    <2>1. /\ dump # <<>> /\ UNCHANGED dump
          /\ AskForDump(dump[1].entry, Max({dump[1].offset, DumpPageSize}) - DumpPageSize)
      BY <1>9 DEF PreviousPage
    <2>2. \A a, b \in Nat : Max({a, b}) = IF a <= b THEN b ELSE a
      BY DEF Max
    <2>3. PICK at \in Nat : at = dump[1].offset
      BY <1>0, <2>1
    <2>4. Max({at, DumpPageSize}) - DumpPageSize \in Nat
          /\ Max({at, DumpPageSize}) - DumpPageSize <= at
      BY <2>2, PagesAreDumped
    <2>5. PICK entry \in Entry, offset \in Nat :
            /\ entry = dump[1].entry
            /\ offset = Max({dump[1].offset, DumpPageSize}) - DumpPageSize
      BY <1>0, <2>1, <2>3, <2>4
    <2>6. offset = 0 \/ offset < entry.size
      BY <1>0, <2>1, <2>3, <2>4, <2>5
    <2> QED
      BY <2>1, <2>5, <2>6, AskedIsInside
  <1> QED
    BY <1>1, <1>2, <1>3, <1>4, <1>5, <1>6, <1>7, <1>8, <1>9 DEF Next, Message, Press

DumpsAndTypes == ShownTypes /\ SelectionInv /\ FlagTypes /\ ResultsInside /\ DumpInv

LEMMA DumpsAndTypesHold == Spec => []DumpsAndTypes
  <1>1. Init => DumpsAndTypes
    <2> SUFFICES ASSUME Init PROVE DumpsAndTypes
      OBVIOUS
    <2>1. ShownTypes
      BY SomeTypes, FilesOfEarlierVersions DEF Init, ShownTypes
    <2>2. SelectionInv
      <3>1. selected = 0 /\ searchIndex = 0
        BY DEF Init
      <3> QED
        BY <2>1, <3>1, VisibleAreCounted, FitsIf DEF SelectionInv, RowFits, HitFits
    <2>3. FlagTypes
      <3>1. ready = FALSE /\ input = FALSE /\ unsaved = FALSE /\ saveErrors = 0
        BY DEF Init
      <3>2. 0 \in 0 .. MaxSaveErrors
        BY BoundsAreNat
      <3> QED
        BY <3>1, <3>2 DEF FlagTypes
    <2>4. <<>> \in Seq(Dump) /\ Len(<<>>) <= 1
      OBVIOUS
    <2>5. DumpInv
      BY <2>4 DEF Init, DumpInv
    <2>6. ResultsInside
      BY DEF Init, ResultsInside
    <2> QED
      BY <2>1, <2>2, <2>3, <2>5, <2>6 DEF DumpsAndTypes
  <1>2. DumpsAndTypes /\ [Next]_vars => DumpsAndTypes'
    <2> SUFFICES ASSUME DumpsAndTypes, [Next]_vars PROVE DumpsAndTypes'
      OBVIOUS
    <2>1. ShownTypes /\ SelectionInv /\ FlagTypes /\ ResultsInside /\ DumpInv
      BY DEF DumpsAndTypes
    <2>2. ShownTypes'
      BY <2>1, ShownTypesStep
    <2>3. SelectionInv'
      BY <2>1, <2>2, SelectionStep
    <2>4. FlagTypes' /\ ResultsInside' /\ DumpInv'
      BY <2>1, FlagsStep, ResultsInsideStep, DumpsStep
    <2> QED
      BY <2>2, <2>3, <2>4 DEF DumpsAndTypes
  <1> QED
    BY <1>1, <1>2, PTL DEF Spec

(***************************************************************************)
(* Every variable keeps its type, whatever messages, keys and files came:  *)
(* the filters stay among their states, and dumps are of entries that were *)
(* shown (Model, Settings and their use in Update).                        *)
(***************************************************************************)
THEOREM TableTypes == Spec => []TypeOK
  <1>1. DumpsAndTypes => TypeOK
    <2> SUFFICES ASSUME DumpsAndTypes PROVE TypeOK
      OBVIOUS
    <2>1. /\ tables \in [diff : Seq(Entry), current : Seq(Entry)]
          /\ search \in Seq([entry : Entry, offset : Nat])
          /\ settings \in Settings /\ file \in File
      BY DEF DumpsAndTypes, ShownTypes, Tables, Results
    <2>2. selected \in Nat /\ searchIndex \in Nat
      BY DEF DumpsAndTypes, SelectionInv, RowFits, HitFits, Fits
    <2>3. dump \in Seq(Dump) /\ Len(dump) <= 1 /\ dumping \subseteq Dump
      BY DEF DumpsAndTypes, DumpInv, IsInside
    <2>4. /\ ready \in BOOLEAN /\ input \in BOOLEAN /\ unsaved \in BOOLEAN
          /\ saveErrors \in 0 .. MaxSaveErrors
      BY DEF DumpsAndTypes, FlagTypes
    <2> QED
      BY <2>1, <2>2, <2>3, <2>4 DEF TypeOK
  <1> QED
    BY <1>1, DumpsAndTypesHold, PTL

(***************************************************************************)
(* A dump that is shown, or under way, begins inside its pool: paging on   *)
(* and back from whatever dump is shown when the key is pressed, and jumps *)
(* to any result under any filter and order, never ask for a place behind  *)
(* the end (Update, the keys enter, x, g, ] and [).                        *)
(***************************************************************************)
THEOREM DumpsAreInsideTheirPools == Spec => []DumpIsInsidePool
  <1>1. DumpsAndTypes => DumpIsInsidePool
    <2> SUFFICES ASSUME DumpsAndTypes, NEW d \in dumping \cup ToSet(dump)
                 PROVE  d.offset < Max({1, d.entry.size})
      BY DEF DumpIsInsidePool
    <2>1. CASE d \in dumping
      BY <2>1 DEF DumpsAndTypes, DumpInv, IsInside
    <2>2. CASE d \in ToSet(dump)
      <3>1. dump \in Seq(Dump) /\ Len(dump) <= 1 /\ (dump # <<>> => IsInside(dump[1]))
        BY DEF DumpsAndTypes, DumpInv
      <3>2. PICK i \in DOMAIN dump : d = dump[i]
        BY <2>2 DEF ToSet
      <3>3. i = 1 /\ dump # <<>>
        BY <3>1, <3>2
      <3> QED
        BY <3>1, <3>2, <3>3 DEF IsInside
    <2> QED
      BY <2>1, <2>2
  <1> QED
    BY <1>1, DumpsAndTypesHold, PTL

(***************************************************************************)
(* The order of entryLess and searchResultLess                             *)
(***************************************************************************)

\* Where two keys of six or four numbers first differ.
LEMMA SixInOrder ==
  ASSUME NEW a \in Keys(6), NEW b \in Keys(6), Precedes(a, b)
  PROVE  \/ a[1] < b[1]
         \/ a[1] = b[1] /\ a[2] < b[2]
         \/ a[1] = b[1] /\ a[2] = b[2] /\ a[3] < b[3]
         \/ a[1] = b[1] /\ a[2] = b[2] /\ a[3] = b[3] /\ a[4] < b[4]
         \/ a[1] = b[1] /\ a[2] = b[2] /\ a[3] = b[3] /\ a[4] = b[4] /\ a[5] < b[5]
         \/ /\ a[1] = b[1] /\ a[2] = b[2] /\ a[3] = b[3] /\ a[4] = b[4] /\ a[5] = b[5]
            /\ a[6] < b[6]
  <1>1. PICK i \in 1 .. 6 : a[i] < b[i] /\ \A j \in 1 .. i - 1 : a[j] = b[j]
    BY DEF Precedes, Keys
  <1>2. i \in {1, 2, 3, 4, 5, 6}
    OBVIOUS
  <1> QED
    BY <1>1, <1>2

LEMMA FourInOrder ==
  ASSUME NEW a \in Keys(4), NEW b \in Keys(4), Precedes(a, b)
  PROVE  \/ a[1] < b[1]
         \/ a[1] = b[1] /\ a[2] < b[2]
         \/ a[1] = b[1] /\ a[2] = b[2] /\ a[3] < b[3]
         \/ a[1] = b[1] /\ a[2] = b[2] /\ a[3] = b[3] /\ a[4] < b[4]
  <1>1. PICK i \in 1 .. 4 : a[i] < b[i] /\ \A j \in 1 .. i - 1 : a[j] = b[j]
    BY DEF Precedes, Keys
  <1>2. i \in {1, 2, 3, 4}
    OBVIOUS
  <1> QED
    BY <1>1, <1>2

\* The keys of rows are in the order of the comparison, and where it leaves
\* that open in the order of the rows.
LEMMA KeysAreLess ==
  ASSUME NEW s, NEW a \in Entry, NEW b \in Entry, NEW p \in Nat, NEW q \in Nat,
         NEW i \in Nat, NEW j \in Nat,
         Precedes(SortKey(s, a, p, i), SortKey(s, b, q, j))
  PROVE  Less(s, a, p, b, q) \/ (~Less(s, b, q, a, p) /\ i < j)
  <1> DEFINE first == SortKey(s, a, p, i)
             second == SortKey(s, b, q, j)
  <1>1. /\ a.address \in Nat /\ a.size \in Nat /\ a.pages \in Nat /\ a.tag \in Nat
        /\ b.address \in Nat /\ b.size \in Nat /\ b.pages \in Nat /\ b.tag \in Nat
    BY EntriesHaveFields
  <1>2. /\ first \in Keys(IF s.sort = "pages" THEN 6 ELSE 4)
        /\ second \in Keys(IF s.sort = "pages" THEN 6 ELSE 4)
    BY KeysHaveRows
  <1>3. Precedes(first, second)
    OBVIOUS
  <1>4. CASE s.sort = "pages"
    <2>1. /\ first = <<-a.pages, -a.size, a.address, p, a.tag, i>>
          /\ second = <<-b.pages, -b.size, b.address, q, b.tag, j>>
      BY <1>4 DEF SortKey
    <2>2. first \in Keys(6) /\ second \in Keys(6)
      BY <1>2, <1>4
    <2>3. /\ first[1] = -a.pages /\ first[2] = -a.size /\ first[3] = a.address
          /\ first[4] = p /\ first[5] = a.tag /\ first[6] = i
          /\ second[1] = -b.pages /\ second[2] = -b.size /\ second[3] = b.address
          /\ second[4] = q /\ second[5] = b.tag /\ second[6] = j
      BY <2>1
    <2> HIDE DEF first, second
    <2>4. \/ -a.pages < -b.pages
          \/ -a.pages = -b.pages /\ -a.size < -b.size
          \/ -a.pages = -b.pages /\ -a.size = -b.size /\ a.address < b.address
          \/ -a.pages = -b.pages /\ -a.size = -b.size /\ a.address = b.address /\ p < q
          \/ /\ -a.pages = -b.pages /\ -a.size = -b.size /\ a.address = b.address /\ p = q
             /\ a.tag < b.tag
          \/ /\ -a.pages = -b.pages /\ -a.size = -b.size /\ a.address = b.address /\ p = q
             /\ a.tag = b.tag /\ i < j
      <3>1. \/ first[1] < second[1]
            \/ first[1] = second[1] /\ first[2] < second[2]
            \/ first[1] = second[1] /\ first[2] = second[2] /\ first[3] < second[3]
            \/ /\ first[1] = second[1] /\ first[2] = second[2] /\ first[3] = second[3]
               /\ first[4] < second[4]
            \/ /\ first[1] = second[1] /\ first[2] = second[2] /\ first[3] = second[3]
               /\ first[4] = second[4] /\ first[5] < second[5]
            \/ /\ first[1] = second[1] /\ first[2] = second[2] /\ first[3] = second[3]
               /\ first[4] = second[4] /\ first[5] = second[5] /\ first[6] < second[6]
        BY <1>3, <2>2, SixInOrder, Zenon
      <3> QED
        BY <2>3, <3>1
    <2>5. \/ a.pages > b.pages
          \/ a.pages = b.pages /\ a.size > b.size
          \/ a.pages = b.pages /\ a.size = b.size /\ a.address < b.address
          \/ a.pages = b.pages /\ a.size = b.size /\ a.address = b.address /\ p < q
          \/ /\ a.pages = b.pages /\ a.size = b.size /\ a.address = b.address /\ p = q
             /\ a.tag < b.tag
          \/ /\ a.pages = b.pages /\ a.size = b.size /\ a.address = b.address /\ p = q
             /\ a.tag = b.tag /\ i < j
      BY <1>1, <2>4
    <2> QED
      BY <1>1, <1>4, <2>5 DEF Less
  <1>5. CASE s.sort # "pages"
    <2>1. first = <<a.address, p, a.tag, i>> /\ second = <<b.address, q, b.tag, j>>
      BY <1>5 DEF SortKey
    <2>2. first \in Keys(4) /\ second \in Keys(4)
      BY <1>2, <1>5
    <2>3. /\ first[1] = a.address /\ first[2] = p /\ first[3] = a.tag /\ first[4] = i
          /\ second[1] = b.address /\ second[2] = q /\ second[3] = b.tag /\ second[4] = j
      BY <2>1
    <2> HIDE DEF first, second
    <2>4. \/ a.address < b.address
          \/ a.address = b.address /\ p < q
          \/ a.address = b.address /\ p = q /\ a.tag < b.tag
          \/ a.address = b.address /\ p = q /\ a.tag = b.tag /\ i < j
      BY <1>3, <2>2, <2>3, FourInOrder
    <2> QED
      BY <1>1, <1>5, <2>4 DEF Less
  <1> QED
    BY <1>4, <1>5

KeysOf(f) == {f[i] : i \in DOMAIN f}

\* The keys in order are those of the rows.
PutsInOrder(row, order, f) ==
  /\ \A k \in DOMAIN order : Last(order[k]) = row[k]
  /\ \A j, k \in DOMAIN order : j < k => Precedes(f[row[j]], f[row[k]])

\* The rows of keys in order are these rows, each at one place.
LEMMA RowsInOrder ==
  ASSUME NEW m \in Nat, NEW rows \in SUBSET (1 .. m), NEW n \in Nat,
         NEW f \in [rows -> Keys(n)], \A i \in rows : Last(f[i]) = i,
         NEW keys, keys = KeysOf(f)
  PROVE  \E row \in Bijection(DOMAIN InOrder(keys), rows) :
           PutsInOrder(row, InOrder(keys), f)
  <1> DEFINE order == InOrder(keys)
             row == [k \in DOMAIN order |-> Last(order[k])]
  <1>0. keys = {f[i] : i \in rows}
    BY DEF KeysOf
  <1>1. IsFiniteSet(keys)
    <2>3. IsFiniteSet(1 .. m)
      BY FS_Interval
    <2>1. IsFiniteSet(rows)
      BY <2>3, FS_Subset
    <2>2. DOMAIN f = rows
      OBVIOUS
    <2>4. IsFiniteSet({f[i] : i \in rows})
      BY <2>1, <2>2, RowsHaveKeys, Zenon
    <2> QED
      BY <1>0, <2>4
  <1>2. keys \in SUBSET Keys(n)
    BY <1>0
  <1>3. DOMAIN order = 1 .. Cardinality(keys) /\ Cardinality(keys) \in Nat
    BY <1>1, <1>2, OrderHasKeys
  <1>4. \A k \in DOMAIN order : order[k] \in keys
    BY <1>1, <1>2, OrderHasKeys
  <1>5. /\ \A j, k \in DOMAIN order : j < k => Precedes(order[j], order[k])
        /\ \A key \in keys : \E k \in DOMAIN order : order[k] = key
    BY <1>1, <1>2, <1>3, OrderIsSorted
  <1> HIDE DEF order
  <1>6. ASSUME NEW k \in DOMAIN order
        PROVE  row[k] \in rows /\ order[k] = f[row[k]]
    <2>1. PICK i \in rows : order[k] = f[i]
      BY <1>0, <1>4
    <2>2. row[k] = i
      BY <2>1
    <2> QED
      BY <2>1, <2>2
  <1>7. \A i \in rows : \E k \in DOMAIN order : row[k] = i
    <2> SUFFICES ASSUME NEW i \in rows PROVE \E k \in DOMAIN order : row[k] = i
      OBVIOUS
    <2>1. PICK k \in DOMAIN order : order[k] = f[i]
      BY <1>0, <1>5
    <2>2. row[k] = i
      BY <2>1
    <2> QED
      BY <2>2
  <1>8. ASSUME NEW j \in DOMAIN order, NEW k \in DOMAIN order, j < k
        PROVE  Precedes(f[row[j]], f[row[k]])
    BY <1>5, <1>6, <1>8, Zenon
  <1>9. ASSUME NEW j \in DOMAIN order, NEW k \in DOMAIN order, row[j] = row[k]
        PROVE  j = k
    <2> SUFFICES ASSUME j # k PROVE FALSE
      OBVIOUS
    <2>1. j < k \/ k < j
      BY <1>3
    <2>2. Precedes(f[row[j]], f[row[j]])
      BY <1>8, <1>9, <2>1
    <2>3. f[row[j]] \in Keys(n)
      BY <1>6
    <2> QED
      BY <2>2, <2>3, OrderIsStrict
  <1>10. row \in Bijection(DOMAIN order, rows)
    <2>1. row \in [DOMAIN order -> rows]
      BY <1>6
    <2>4. DOMAIN row = DOMAIN order
      OBVIOUS
    <2>5. \A j, k \in DOMAIN order : row[j] = row[k] => j = k
      BY <1>9
    <2>2. row \in Injection(DOMAIN order, rows)
      <3> HIDE DEF row
      <3> QED
        BY <2>1, <2>4, <2>5 DEF Injection, IsInjective
    <2>3. row \in Surjection(DOMAIN order, rows)
      BY <1>7, <2>1, Zenon DEF Surjection
    <2> QED
      BY <2>2, <2>3 DEF Bijection
  <1>11. \A k \in DOMAIN order : Last(order[k]) = row[k]
    OBVIOUS
  <1>12. \A j, k \in DOMAIN order : j < k => Precedes(f[row[j]], f[row[k]])
    BY <1>8
  <1> HIDE DEF row
  <1> QED
    BY <1>10, <1>11, <1>12 DEF order, PutsInOrder

\* What is shown of the entries is sorted.
LEMMA EntriesAreSorted ==
  ASSUME NEW s, NEW entries \in Seq(Entry)
  PROVE  Sorts(VisibleEntries(s, entries), entries, EntriesBehind(s, entries))
  <1> DEFINE rows == {i \in DOMAIN entries : MatchesFilters(s, entries[i])}
             f == [i \in rows |-> SortKey(s, entries[i], entries[i].size, i)]
             keys == {SortKey(s, entries[i], entries[i].size, i) : i \in rows}
             order == InOrder(keys)
             shows == VisibleEntries(s, entries)
             behind == EntriesBehind(s, entries)
  <1>1. Len(entries) \in Nat /\ rows \in SUBSET (1 .. Len(entries))
    OBVIOUS
  <1>2. \A i \in rows : entries[i] \in Entry /\ entries[i].size \in Nat /\ i \in Nat
    BY <1>1, EntriesHaveFields
  <1>3. PICK n \in Nat : n = IF s.sort = "pages" THEN 6 ELSE 4
    OBVIOUS
  <1>4. \A i \in rows : /\ SortKey(s, entries[i], entries[i].size, i) \in Keys(n)
                        /\ Last(SortKey(s, entries[i], entries[i].size, i)) = i
    BY <1>2, <1>3, KeysHaveRows
  <1>5. \A i \in rows : f[i] = SortKey(s, entries[i], entries[i].size, i)
    OBVIOUS
  <1>6. f \in [rows -> Keys(n)] /\ \A i \in rows : Last(f[i]) = i
    BY <1>4
  <1>7. keys = KeysOf(f)
    <2>1. keys = {f[i] : i \in rows} /\ DOMAIN f = rows
      OBVIOUS
    <2> HIDE DEF keys, f, rows
    <2> QED
      BY <2>1 DEF KeysOf
  <1>8. shows = [k \in DOMAIN order |-> entries[Last(order[k])]]
    BY DEF VisibleEntries
  <1>9. /\ DOMAIN behind = rows
        /\ \A i, j \in rows : j \in behind[i] <=> EntryLess(s, entries[i], entries[j])
    BY DEF EntriesBehind
  <1> HIDE DEF rows, f, keys, shows, behind
  <1>10. PICK row \in Bijection(DOMAIN order, rows) : PutsInOrder(row, order, f)
    <2>1. PICK m \in Nat : rows \in SUBSET (1 .. m)
      BY <1>1
    <2>2. f \in [rows -> Keys(n)] /\ \A i \in rows : Last(f[i]) = i
      BY <1>6
    <2> QED
      BY <1>7, <2>1, <2>2, RowsInOrder
  <1>11. /\ \A k \in DOMAIN order : Last(order[k]) = row[k]
         /\ \A j, k \in DOMAIN order : j < k => Precedes(f[row[j]], f[row[k]])
    BY <1>10, Zenon DEF PutsInOrder
  <1>12. row \in [DOMAIN order -> rows]
    BY <1>10 DEF Bijection, Injection
  <1> HIDE DEF order
  <1>13. DOMAIN shows = DOMAIN order
    BY <1>8
  <1>14. \A k \in DOMAIN shows : shows[k] = entries[row[k]]
    BY <1>8, <1>11
  <1>15. ASSUME NEW j \in DOMAIN shows, NEW k \in DOMAIN shows, j < k
         PROVE  \/ row[k] \in behind[row[j]]
                \/ row[j] \notin behind[row[k]] /\ row[j] < row[k]
    <2>1. PICK a \in rows, b \in rows : a = row[j] /\ b = row[k]
      BY <1>12, <1>13
    <2>2. Precedes(f[a], f[b])
      BY <1>11, <1>13, <1>15, <2>1
    <2>3. Precedes(SortKey(s, entries[a], entries[a].size, a),
                   SortKey(s, entries[b], entries[b].size, b))
      BY <1>5, <2>2
    <2>4. \/ EntryLess(s, entries[a], entries[b])
          \/ ~EntryLess(s, entries[b], entries[a]) /\ a < b
      BY <1>2, <2>3, KeysAreLess DEF EntryLess
    <2> QED
      BY <1>9, <2>1, <2>4
  <1> QED
    BY <1>9, <1>13, <1>14, <1>15, <1>10, Zenon DEF Sorts, shows, behind

\* What is shown of the search results is sorted.
LEMMA ResultsAreSorted ==
  ASSUME NEW s, NEW results \in Results
  PROVE  Sorts(VisibleResults(s, results), results, ResultsBehind(s, results))
  <1> DEFINE rows == {i \in DOMAIN results : MatchesFilters(s, results[i].entry)}
             f == [i \in rows |-> SortKey(s, results[i].entry, results[i].offset, i)]
             keys == {SortKey(s, results[i].entry, results[i].offset, i) : i \in rows}
             order == InOrder(keys)
             shows == VisibleResults(s, results)
             behind == ResultsBehind(s, results)
  <1>1. Len(results) \in Nat /\ rows \in SUBSET (1 .. Len(results))
    BY DEF Results
  <1>2. \A i \in rows : results[i].entry \in Entry /\ results[i].offset \in Nat /\ i \in Nat
    <2>1. \A i \in 1 .. Len(results) : results[i] \in [entry : Entry, offset : Nat]
      BY ResultsHaveFields
    <2> SUFFICES ASSUME NEW i \in rows
                 PROVE  results[i].entry \in Entry /\ results[i].offset \in Nat /\ i \in Nat
      OBVIOUS
    <2>2. i \in 1 .. Len(results)
      BY <1>1
    <2> QED
      BY <2>1, <2>2
  <1>3. PICK n \in Nat : n = IF s.sort = "pages" THEN 6 ELSE 4
    OBVIOUS
  <1>4. \A i \in rows : /\ SortKey(s, results[i].entry, results[i].offset, i) \in Keys(n)
                        /\ Last(SortKey(s, results[i].entry, results[i].offset, i)) = i
    BY <1>2, <1>3, KeysHaveRows
  <1>5. \A i \in rows : f[i] = SortKey(s, results[i].entry, results[i].offset, i)
    OBVIOUS
  <1>6. f \in [rows -> Keys(n)] /\ \A i \in rows : Last(f[i]) = i
    BY <1>4
  <1>7. keys = KeysOf(f)
    <2>1. keys = {f[i] : i \in rows} /\ DOMAIN f = rows
      OBVIOUS
    <2> HIDE DEF keys, f, rows
    <2> QED
      BY <2>1 DEF KeysOf
  <1>8. shows = [k \in DOMAIN order |-> results[Last(order[k])]]
    BY DEF VisibleResults
  <1>9. /\ DOMAIN behind = rows
        /\ \A i, j \in rows : j \in behind[i] <=> SearchResultLess(s, results[i], results[j])
    BY DEF ResultsBehind
  <1> HIDE DEF rows, f, keys, shows, behind
  <1>10. PICK row \in Bijection(DOMAIN order, rows) : PutsInOrder(row, order, f)
    <2>1. PICK m \in Nat : rows \in SUBSET (1 .. m)
      BY <1>1
    <2>2. f \in [rows -> Keys(n)] /\ \A i \in rows : Last(f[i]) = i
      BY <1>6
    <2> QED
      BY <1>7, <2>1, <2>2, RowsInOrder
  <1>11. /\ \A k \in DOMAIN order : Last(order[k]) = row[k]
         /\ \A j, k \in DOMAIN order : j < k => Precedes(f[row[j]], f[row[k]])
    BY <1>10, Zenon DEF PutsInOrder
  <1>12. row \in [DOMAIN order -> rows]
    BY <1>10 DEF Bijection, Injection
  <1> HIDE DEF order
  <1>13. DOMAIN shows = DOMAIN order
    BY <1>8
  <1>14. \A k \in DOMAIN shows : shows[k] = results[row[k]]
    BY <1>8, <1>11
  <1>15. ASSUME NEW j \in DOMAIN shows, NEW k \in DOMAIN shows, j < k
         PROVE  \/ row[k] \in behind[row[j]]
                \/ row[j] \notin behind[row[k]] /\ row[j] < row[k]
    <2>1. PICK a \in rows, b \in rows : a = row[j] /\ b = row[k]
      BY <1>12, <1>13
    <2>2. Precedes(f[a], f[b])
      BY <1>11, <1>13, <1>15, <2>1
    <2>3. Precedes(SortKey(s, results[a].entry, results[a].offset, a),
                   SortKey(s, results[b].entry, results[b].offset, b))
      BY <1>5, <2>2
    <2>4. \/ SearchResultLess(s, results[a], results[b])
          \/ ~SearchResultLess(s, results[b], results[a]) /\ a < b
      BY <1>2, <2>3, KeysAreLess DEF SearchResultLess
    <2> QED
      BY <1>9, <2>1, <2>4
  <1> QED
    BY <1>9, <1>13, <1>14, <1>15, <1>10, Zenon DEF Sorts, shows, behind

(***************************************************************************)
(* The table and the list of search results show each match of the filters *)
(* once, in the order of the program's own comparison and where it leaves  *)
(* that open as the driver sent them, for tables and results of any length *)
(* (visibleEntries, visibleSearch, entryLess, searchResultLess).           *)
(***************************************************************************)
THEOREM TablesAreSorted == Spec => []MatchesAreSorted
  <1>1. Init => ShownTypes
    BY SomeTypes, FilesOfEarlierVersions DEF Init, ShownTypes
  <1>2. ShownTypes /\ [Next]_vars => ShownTypes'
    BY ShownTypesStep
  <1>3. ShownTypes => MatchesAreSorted
    <2> SUFFICES ASSUME ShownTypes PROVE MatchesAreSorted
      OBVIOUS
    <2>1. /\ tables[settings.view] \in Seq(Entry) /\ search \in Results
      BY DEF ShownTypes, Tables, Settings
    <2> QED
      BY <2>1, EntriesAreSorted, ResultsAreSorted
        DEF MatchesAreSorted, VisibleTable, VisibleSearch
  <1> QED
    BY <1>1, <1>2, <1>3, PTL DEF Spec

=============================================================================
