---------------------------- MODULE BigPoolQuery ----------------------------
(***************************************************************************)
(* QuerySystemBigPoolInfo (kn-diff.cpp): the list of the big pools is      *)
(* asked for with a buffer that grows until the list fits.  The list       *)
(* changes between two calls.  Sizes are counted in entries of the list.   *)
(***************************************************************************)
EXTENDS Naturals, SequencesExt, FiniteSetsExt

CONSTANTS
  InitialSize, \* KN_DIFF_BIG_POOL_QUERY_INITIAL_SIZE, 0x10000
  MaxSize,     \* KN_DIFF_BIG_POOL_QUERY_MAX_SIZE, 0x4000000
  MaxRetries   \* KN_DIFF_BIG_POOL_QUERY_MAX_RETRIES, 16

ASSUME SizesAreBounds ==
  /\ InitialSize \in Nat \ {0} /\ MaxSize \in Nat /\ MaxRetries \in Nat
  /\ InitialSize <= MaxSize

\* Doubling alone reaches the maximum before the retries are used up.
ASSUME RetriesReachTheMaximum == InitialSize * 2^MaxRetries > MaxSize

VARIABLES
  pools,      \* the big pools of the system, in the order of the list
  query,      \* off; asking; then answered or why it failed
  bufferSize,
  retries,
  held,       \* the scratch memory: list, table, hash, entries
  peak,       \* history: the longest that the list was during the query
  grown       \* history: it grew during the query

querying == <<query, bufferSize, retries, held, peak, grown>>

QueryInit ==
  /\ query = "off"
  /\ bufferSize = 0
  /\ retries = 0
  /\ held = {}
  /\ peak = 0
  /\ grown = FALSE

QueryBegins ==
  /\ query' = "asking"
  /\ bufferSize' = InitialSize
  /\ retries' = 0
  /\ peak' = Len(pools)
  /\ grown' = FALSE
  /\ UNCHANGED held

Asking == query = "asking"

\* A query that is over: on success its buffer goes to the caller.
QueryEnds(how, buffers) ==
  /\ query' = how
  /\ held' = buffers
  /\ UNCHANGED <<bufferSize, retries, peak, grown>>

\* No routine to ask, no memory for the list, or an error of the call: the
\* buffer, if there is one, is freed.
QueryFails == Asking /\ QueryEnds("failed", {})

ListFits ==
  /\ Asking
  /\ Len(pools) <= bufferSize
  /\ QueryEnds("answered", {"list"})

TooSmall == Asking /\ Len(pools) > bufferSize

OutOfRetries ==
  /\ TooSmall
  /\ retries = MaxRetries
  /\ QueryEnds("retry", {})

\* The length that a call returns: what it would have taken, or nothing.
ReturnLengths == {0, Len(pools)}

\* Mutant of NextSize: grown by the first size, not doubled.
NextSizeLinear(returnLength) ==
  IF returnLength > bufferSize THEN returnLength
  ELSE IF bufferSize > MaxSize \div 2 THEN MaxSize + 1
  ELSE bufferSize + InitialSize

\* Any size over the maximum ends the query.
NextSize(returnLength) ==
  IF returnLength > bufferSize THEN returnLength
  ELSE IF bufferSize > MaxSize \div 2 THEN MaxSize + 1
  ELSE bufferSize * 2

TooBig ==
  /\ TooSmall
  /\ retries < MaxRetries
  /\ \E returnLength \in ReturnLengths : NextSize(returnLength) > MaxSize
  /\ QueryEnds("too_big", {})

AskAgain ==
  /\ TooSmall
  /\ retries < MaxRetries
  /\ \E returnLength \in ReturnLengths :
       /\ NextSize(returnLength) <= MaxSize
       /\ bufferSize' = NextSize(returnLength)
  /\ retries' = retries + 1
  /\ held' = {"list"}
  /\ UNCHANGED <<query, peak, grown>>

QueryStep == QueryFails \/ ListFits \/ OutOfRetries \/ TooBig \/ AskAgain

\* Pools are allocated and freed while the list is asked for.
ListChanges(list) ==
  /\ list # pools
  /\ pools' = list
  /\ peak' = Max({peak, Len(list)})
  /\ grown' = (grown \/ Len(list) > Len(pools))
  /\ UNCHANGED <<query, bufferSize, retries, held>>

-----------------------------------------------------------------------------
(***************************************************************************)
(* A query that gives the list up as too big met a list that takes more    *)
(* than half of the maximum, and one that runs out of retries a list that  *)
(* grew: a list that leaves room and is left alone is always read.         *)
(***************************************************************************)
QueryGivesUpForCause ==
  /\ query = "too_big" => peak > MaxSize \div 2
  /\ query = "retry" => grown
  /\ query = "asking" => bufferSize <= MaxSize /\ retries <= MaxRetries

=============================================================================
