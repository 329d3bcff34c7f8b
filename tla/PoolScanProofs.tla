---------------------------- MODULE PoolScanProofs ----------------------------
(***************************************************************************)
(* Theorems of PoolScan, and of the query it makes, for lists, buffers and *)
(* limits of any size.                                                     *)
(***************************************************************************)
EXTENDS PoolScan, FiniteSetTheorems, NaturalsInduction, SequenceTheorems, WellFoundedInduction,
        TLAPS

(***************************************************************************)
(* Powers of two: the number of the subsets of 1 .. n.                     *)
(***************************************************************************)

LEMMA PowersAreNatural == ASSUME NEW n \in Nat PROVE 2^n \in Nat \ {0}
  <1>1. IsFiniteSet(1 .. n) /\ Cardinality(1 .. n) = n
    BY FS_Interval
  <1>2. IsFiniteSet(SUBSET (1 .. n)) /\ Cardinality(SUBSET (1 .. n)) = 2^n
    BY <1>1, FS_SUBSET
  <1>3. Cardinality(SUBSET (1 .. n)) \in Nat
    BY <1>2, FS_CardinalityType
  <1>4. Cardinality(SUBSET (1 .. n)) # 0
    BY <1>2, FS_EmptySet
  <1> QED
    BY <1>2, <1>3, <1>4

\* The subsets of 1 .. n + 1 are those without n + 1 and as many with it.
LEMMA PowersDouble == ASSUME NEW n \in Nat PROVE 2^(n + 1) = 2 * 2^n
  <1> DEFINE S == SUBSET (1 .. n)
             With(A) == A \cup {n + 1}
             T == {With(A) : A \in S}
             f == [A \in S |-> With(A)]
  <1>1. IsFiniteSet(1 .. n) /\ Cardinality(1 .. n) = n
    BY FS_Interval
  <1>2. IsFiniteSet(S) /\ Cardinality(S) = 2^n
    BY <1>1, FS_SUBSET
  <1>3. \A A \in S : n + 1 \notin A
    OBVIOUS
  <1>4. ASSUME NEW A \in S, NEW B \in S, With(A) = With(B)
        PROVE  A = B
    <2>1. A = With(A) \ {n + 1} /\ B = With(B) \ {n + 1}
      BY <1>3
    <2> QED
      BY <2>1, <1>4
  <1>5. f \in Bijection(S, T)
    <2> HIDE DEF With
    <2>1. f \in [S -> T]
      OBVIOUS
    <2>2. \A A, B \in DOMAIN f : f[A] = f[B] => A = B
      BY <1>4
    <2>3. \A B \in T : \E A \in S : f[A] = B
      OBVIOUS
    <2> HIDE DEF f, S, T
    <2> QED
      BY <2>1, <2>2, <2>3, Zenon DEF Bijection, Injection, Surjection, IsInjective
  <1>6. IsFiniteSet(T) /\ Cardinality(T) = 2^n
    BY <1>2, <1>5, FS_Bijection DEF ExistsBijection
  <1>7. S \cap T = {}
    BY <1>3
  <1>8. S \cup T = SUBSET (1 .. n + 1)
    <2>1. ASSUME NEW A \in SUBSET (1 .. n + 1) PROVE A \in S \cup T
      <3>1. CASE n + 1 \in A
        <4>1. A \ {n + 1} \in S /\ A = With(A \ {n + 1})
          BY <3>1
        <4> QED
          BY <4>1
      <3>2. CASE n + 1 \notin A
        BY <3>2
      <3> QED
        BY <3>1, <3>2
    <2>2. 1 .. n \subseteq 1 .. n + 1 /\ n + 1 \in 1 .. n + 1
      OBVIOUS
    <2>3. ASSUME NEW A \in S
          PROVE  A \in SUBSET (1 .. n + 1) /\ With(A) \in SUBSET (1 .. n + 1)
      <3>1. A \subseteq 1 .. n + 1
        BY <2>2, Zenon
      <3> QED
        BY <3>1, <2>2, Zenon
    <2>4. S \cup T \subseteq SUBSET (1 .. n + 1)
      <3>1. ASSUME NEW B \in T PROVE B \in SUBSET (1 .. n + 1)
        <4>1. PICK A \in S : B = With(A)
          BY <3>1, Zenon
        <4> QED
          BY <4>1, <2>3, Zenon
      <3>2. ASSUME NEW B \in S PROVE B \in SUBSET (1 .. n + 1)
        BY <3>2, <2>3, Zenon
      <3> HIDE DEF S, T
      <3> QED
        BY <3>1, <3>2, Zenon
    <2>5. SUBSET (1 .. n + 1) \subseteq S \cup T
      BY <2>1, Zenon
    <2> HIDE DEF S, T
    <2> QED
      BY <2>4, <2>5, Zenon
  <1>9. Cardinality(S \cup T) = 2^n + 2^n - Cardinality({})
    <2> HIDE DEF S, T
    <2>1. Cardinality(S \cup T) = Cardinality(S) + Cardinality(T) - Cardinality(S \cap T)
      BY <1>2, <1>6, FS_Union, Zenon
    <2> QED
      BY <2>1, <1>2, <1>6, <1>7
  <1>10. IsFiniteSet(1 .. n + 1) /\ Cardinality(1 .. n + 1) = n + 1
    BY FS_Interval
  <1>11. Cardinality(SUBSET (1 .. n + 1)) = 2^(n + 1)
    BY <1>10, FS_SUBSET
  <1>12. Cardinality({}) = 0
    BY FS_EmptySet
  <1>13. 2^n \in Nat /\ 2^(n + 1) \in Nat
    BY PowersAreNatural
  <1>14. 2^(n + 1) = 2^n + 2^n - 0
    BY <1>8, <1>9, <1>11, <1>12, Zenon
  <1> HIDE DEF S, T, With, f
  <1> QED
    BY <1>13, <1>14

(***************************************************************************)
(* The query                                                               *)
(***************************************************************************)

QueryTypes ==
  /\ Len(pools) \in Nat
  /\ query \in {"off", "asking", "answered", "failed", "retry", "too_big"}
  /\ bufferSize \in 0 .. MaxSize /\ retries \in 0 .. MaxRetries
  /\ peak \in Nat /\ grown \in BOOLEAN

(***************************************************************************)
(* While the list is asked for, its greatest length is known, and a buffer *)
(* that is too small for a list that did not grow was doubled each time:   *)
(* it is never enlarged by less, since a return length that is larger than *)
(* the buffer is the length the list has had ever since.                   *)
(***************************************************************************)
Doubling ==
  query = "asking" =>
    /\ Len(pools) <= peak
    /\ ~grown => \/ InitialSize * 2^retries <= bufferSize
                 \/ Len(pools) <= bufferSize

QueryInv == QueryTypes /\ Doubling /\ QueryGivesUpForCause

\* The larger of two lengths.
LEMMA MaxOfTwo ==
  ASSUME NEW a \in Nat, NEW b \in Nat
  PROVE  Max({a, b}) \in Nat /\ a <= Max({a, b}) /\ b <= Max({a, b})
  <1>1. CASE a >= b
    BY <1>1 DEF Max
  <1>2. CASE b >= a
    BY <1>2 DEF Max
  <1> QED
    BY <1>1, <1>2

LEMMA QueryBeginsKeeps ==
  ASSUME QueryInv, QueryBegins, UNCHANGED pools
  PROVE  QueryInv'
  <1>1. /\ query' = "asking" /\ bufferSize' = InitialSize /\ retries' = 0
        /\ peak' = Len(pools') /\ grown' = FALSE /\ Len(pools') \in Nat
    BY DEF QueryBegins, QueryInv, QueryTypes
  <1>2. InitialSize * 2^0 <= InitialSize
    <2>1. 2^0 = 1
      OBVIOUS
    <2>2. InitialSize * 1 <= InitialSize
      BY SizesAreBounds
    <2> QED
      BY <2>1, <2>2, Zenon
  <1>3. QueryTypes'
    <2>1. bufferSize' \in 0 .. MaxSize
      BY <1>1, SizesAreBounds
    <2>2. retries' \in 0 .. MaxRetries
      BY <1>1, SizesAreBounds
    <2> QED
      BY <1>1, <2>1, <2>2 DEF QueryTypes
  <1>4. QueryGivesUpForCause'
    BY <1>1, SizesAreBounds DEF QueryGivesUpForCause
  <1>5. Doubling'
    BY <1>1, <1>2, SizesAreBounds DEF Doubling
  <1> QED
    BY <1>3, <1>4, <1>5 DEF QueryInv

LEMMA QueryEndsKeeps ==
  ASSUME QueryInv, UNCHANGED pools, QueryFails \/ ListFits
  PROVE  QueryInv'
  BY DEF QueryInv, QueryTypes, Doubling, QueryGivesUpForCause, QueryFails, ListFits,
         QueryEnds, Asking

\* After the last retry a buffer that was always doubled is over the maximum.
LEMMA OutOfRetriesKeeps ==
  ASSUME QueryInv, UNCHANGED pools, OutOfRetries
  PROVE  QueryInv'
  <1>1. grown
    <2>1. query = "asking" /\ Len(pools) > bufferSize /\ retries = MaxRetries
      BY DEF OutOfRetries, TooSmall, Asking
    <2>2. InitialSize * 2^retries > MaxSize
      BY <2>1, RetriesReachTheMaximum
    <2>3. 2^retries \in Nat /\ InitialSize * 2^retries \in Nat
      BY <2>1, PowersAreNatural, SizesAreBounds
    <2> QED
      BY <2>1, <2>2, <2>3, SizesAreBounds DEF QueryInv, QueryTypes, Doubling
  <1> QED
    BY <1>1 DEF QueryInv, QueryTypes, Doubling, QueryGivesUpForCause, OutOfRetries,
                QueryEnds

LEMMA TooBigKeeps ==
  ASSUME QueryInv, UNCHANGED pools, TooBig
  PROVE  QueryInv'
  <1>1. query = "asking" /\ Len(pools) > bufferSize
    BY DEF TooBig, TooSmall, Asking
  <1>2. PICK returnLength \in {0, Len(pools)} : NextSize(returnLength) > MaxSize
    BY DEF TooBig, ReturnLengths
  <1>3. Len(pools) > MaxSize \div 2
    BY <1>1, <1>2, SizesAreBounds DEF NextSize, QueryInv, QueryTypes
  <1>4. peak > MaxSize \div 2
    BY <1>1, <1>3, SizesAreBounds DEF QueryInv, QueryTypes, Doubling
  <1> QED
    BY <1>4 DEF QueryInv, QueryTypes, Doubling, QueryGivesUpForCause, TooBig, QueryEnds

LEMMA AskAgainKeeps ==
  ASSUME QueryInv, UNCHANGED pools, AskAgain
  PROVE  QueryInv'
  <1>1. /\ query = "asking" /\ Len(pools) > bufferSize
        /\ retries < MaxRetries /\ retries' = retries + 1
        /\ UNCHANGED <<query, peak, grown>>
    BY DEF AskAgain, TooSmall, Asking
  <1>2. PICK returnLength \in {0, Len(pools)} :
          /\ NextSize(returnLength) <= MaxSize
          /\ bufferSize' = NextSize(returnLength)
    BY DEF AskAgain, ReturnLengths
  <1>3. bufferSize \in Nat /\ Len(pools) \in Nat /\ retries \in Nat
    BY SizesAreBounds DEF QueryInv, QueryTypes
  <1>4. bufferSize' \in 0 .. MaxSize
    BY <1>2, <1>3, SizesAreBounds DEF NextSize
  <1>5. retries' \in 0 .. MaxRetries
    BY <1>1, <1>3, SizesAreBounds
  <1>6. ASSUME ~grown
        PROVE  InitialSize * 2^retries' <= bufferSize' \/ Len(pools) <= bufferSize'
    <2>1. InitialSize * 2^retries <= bufferSize
      BY <1>1, <1>3, <1>6, PowersAreNatural, SizesAreBounds
      DEF QueryInv, QueryTypes, Doubling
    <2>2. 2^retries' = 2 * 2^retries
      BY <1>1, <1>3, PowersDouble
    <2>3. 2^retries \in Nat
      BY <1>3, PowersAreNatural
    <2>4. CASE returnLength > bufferSize
      BY <2>4, <1>2, <1>3 DEF NextSize
    <2>5. CASE ~(returnLength > bufferSize)
      <3>1. bufferSize' = bufferSize * 2
        BY <2>5, <1>2, <1>3, SizesAreBounds DEF NextSize
      <3>2. InitialSize * (2 * 2^retries) = 2 * (InitialSize * 2^retries)
        BY <2>3, SizesAreBounds
      <3> QED
        BY <2>1, <2>2, <2>3, <3>1, <3>2, <1>3, SizesAreBounds
    <2> QED
      BY <2>4, <2>5
  <1> QED
    BY <1>1, <1>4, <1>5, <1>6
    DEF QueryInv, QueryTypes, Doubling, QueryGivesUpForCause

LEMMA ListChangesKeeps ==
  ASSUME QueryInv, NEW list \in Seq(ListEntry), ListChanges(list)
  PROVE  QueryInv'
  <1>1. Len(list) \in Nat /\ Len(pools) \in Nat /\ peak \in Nat
    BY DEF QueryInv, QueryTypes
  <1>2. /\ pools' = list
        /\ peak' = Max({peak, Len(list)})
        /\ grown' = (grown \/ Len(list) > Len(pools))
        /\ UNCHANGED <<query, bufferSize, retries>>
    BY DEF ListChanges
  <1>3. peak' \in Nat /\ peak <= peak' /\ Len(list) <= peak'
    BY <1>1, <1>2, MaxOfTwo DEF QueryInv, QueryTypes
  <1>4. grown' \in BOOLEAN /\ (grown => grown')
    BY <1>2, Zenon
  <1>5. ~grown' => ~grown /\ Len(list) <= Len(pools)
    <2>1. Len(list) <= Len(pools) \/ Len(list) > Len(pools)
      BY <1>1
    <2> QED
      BY <1>2, <2>1, Zenon
  <1>6. QueryTypes'
    BY <1>1, <1>2, <1>3, <1>4 DEF QueryInv, QueryTypes
  <1>7. Doubling'
    <2> SUFFICES ASSUME query' = "asking"
                 PROVE  /\ Len(list) <= peak'
                        /\ ~grown' => \/ InitialSize * 2^retries' <= bufferSize'
                                      \/ Len(list) <= bufferSize'
      BY <1>2 DEF Doubling
    <2>1. ~grown => InitialSize * 2^retries <= bufferSize \/ Len(pools) <= bufferSize
      BY <1>2 DEF QueryInv, Doubling
    <2>2. Len(list) <= Len(pools) /\ Len(pools) <= bufferSize => Len(list) <= bufferSize
      BY <1>1, SizesAreBounds DEF QueryInv, QueryTypes
    <2>3. bufferSize' = bufferSize /\ 2^retries' = 2^retries
      BY <1>2
    <2> QED
      BY <1>3, <1>5, <2>1, <2>2, <2>3, Zenon
  <1>8. QueryGivesUpForCause'
    <2>1. MaxSize \div 2 \in Nat
      BY SizesAreBounds
    <2>2. peak > MaxSize \div 2 => peak' > MaxSize \div 2
      BY <1>1, <1>3, <2>1
    <2> QED
      BY <1>2, <1>4, <2>2 DEF QueryInv, QueryGivesUpForCause
  <1> QED
    BY <1>6, <1>7, <1>8 DEF QueryInv

(***************************************************************************)
(* PoolScan: every step is one of the query's or leaves it alone           *)
(***************************************************************************)

\* What the invariant depends on.
asked == <<pools, query, bufferSize, retries, peak, grown>>

LEMMA QueryLeftAlone ==
  ASSUME QueryInv, UNCHANGED asked
  PROVE  QueryInv'
  BY DEF asked, QueryInv, QueryTypes, Doubling, QueryGivesUpForCause

\* The list is asked for by Query alone, and changed by PoolsChange alone.
LEMMA OthersLeaveTheQuery ==
  ASSUME \/ Allocates \/ AllocationFails \/ NextPool \/ ScanEnds
         \/ HashChunk \/ HashOverflows \/ HashEnds
         \/ GetPteDetails \/ PteDetailsFail
         \/ ByteChanges \/ PageTableChanges \/ SetHashPolicy \/ UNCHANGED vars
  PROVE  UNCHANGED asked
  <1>1. CASE Allocates
    BY <1>1 DEF Allocates, asked, system
  <1>2. CASE AllocationFails
    BY <1>2 DEF AllocationFails, asked, system
  <1>3. CASE NextPool
    BY <1>3 DEF NextPool, asked, system, querying
  <1>4. CASE ScanEnds
    BY <1>4 DEF ScanEnds, asked, system
  <1>5. CASE HashChunk
    BY <1>5 DEF HashChunk, asked, system, querying
  <1>6. CASE HashOverflows
    BY <1>6 DEF HashOverflows, asked, system, querying
  <1>7. CASE HashEnds
    BY <1>7 DEF HashEnds, asked, system, querying
  <1>8. CASE GetPteDetails
    BY <1>8 DEF GetPteDetails, asked, system, querying
  <1>9. CASE PteDetailsFail
    BY <1>9 DEF PteDetailsFail, asked, system, querying
  <1>10. CASE ByteChanges
    BY <1>10 DEF ByteChanges, asked, querying
  <1>11. CASE PageTableChanges
    BY <1>11 DEF PageTableChanges, asked, querying
  <1>12. CASE SetHashPolicy
    BY <1>12 DEF SetHashPolicy, asked, querying
  <1>13. CASE UNCHANGED vars
    BY <1>13 DEF vars, asked, system, querying
  <1> QED
    BY <1>1, <1>2, <1>3, <1>4, <1>5, <1>6, <1>7, <1>8, <1>9, <1>10, <1>11, <1>12, <1>13

LEMMA QueryInvHolds == Spec => []QueryInv
  <1>1. Init => QueryInv
    <2> SUFFICES ASSUME Init PROVE QueryInv
      OBVIOUS
    <2>1. PICK world \in Worlds : pools = world.pools
      BY DEF Init
    <2>2. pools \in Seq(ListEntry)
      BY <2>1, WorldsAreSystems
    <2>3. Len(pools) \in Nat
      BY <2>2
    <2>4. /\ query = "off" /\ bufferSize = 0 /\ retries = 0
          /\ peak = 0 /\ grown = FALSE
      BY DEF Init, QueryInit
    <2>5. bufferSize \in 0 .. MaxSize
      BY <2>4, SizesAreBounds
    <2>6. retries \in 0 .. MaxRetries
      BY <2>4, SizesAreBounds
    <2> QED
      BY <2>3, <2>4, <2>5, <2>6 DEF QueryInv, QueryTypes, Doubling, QueryGivesUpForCause
  <1>2. QueryInv /\ [Next]_vars => QueryInv'
    <2> SUFFICES ASSUME QueryInv, [Next]_vars PROVE QueryInv'
      OBVIOUS
    <2>1. CASE ScanBegins
      <3>1. QueryBegins /\ UNCHANGED pools
        BY <2>1 DEF ScanBegins, system
      <3> QED
        BY <3>1, QueryBeginsKeeps
    <2>2. CASE Query
      <3>1. UNCHANGED pools
        BY <2>2 DEF Query, system
      <3>2. QueryFails \/ ListFits \/ OutOfRetries \/ TooBig \/ AskAgain
        BY <2>2 DEF Query
      <3> QED
        BY <3>1, <3>2, QueryEndsKeeps, OutOfRetriesKeeps, TooBigKeeps, AskAgainKeeps
    <2>3. CASE PoolsChange
      <3>1. PICK list \in Lists : ListChanges(list)
        BY <2>3 DEF PoolsChange
      <3>2. list \in Seq(ListEntry)
        BY InputsAreTyped
      <3> QED
        BY <3>1, <3>2, ListChangesKeeps
    <2>4. CASE \/ Allocates \/ AllocationFails \/ NextPool \/ ScanEnds
               \/ HashChunk \/ HashOverflows \/ HashEnds
               \/ GetPteDetails \/ PteDetailsFail
               \/ ByteChanges \/ PageTableChanges \/ SetHashPolicy \/ UNCHANGED vars
      BY <2>4, OthersLeaveTheQuery, QueryLeftAlone
    <2> QED
      BY <2>1, <2>2, <2>3, <2>4 DEF Next, Step, Environment
  <1> QED
    BY <1>1, <1>2, PTL DEF Spec

(***************************************************************************)
(* The query gives up for cause, whatever the list does meanwhile: a list  *)
(* that leaves room in the largest buffer is never found too big, and only *)
(* one that grew can use up the retries (QuerySystemBigPoolInfo).          *)
(***************************************************************************)
THEOREM QueriesGiveUpForCause == Spec => []QueryGivesUpForCause
  <1>1. QueryInv => QueryGivesUpForCause
    BY DEF QueryInv
  <1> QED
    BY <1>1, QueryInvHolds, PTL

(***************************************************************************)
(* Whatever ends a scan, an error or a missing buffer anywhere, the list,  *)
(* the page table and the hash buffer are given back (the cleanup of       *)
(* ScanBigPoolSnapshot), so that the request for pages begins with none.   *)
(***************************************************************************)
THEOREM ScratchIsGivenBack == Spec => []ScratchIsFreed
  <1>1. Init => ScratchIsFreed
    BY DEF Init, QueryInit, ScratchIsFreed
  <1>2. ScratchIsFreed /\ [Next]_vars => ScratchIsFreed'
    <2> SUFFICES ASSUME ScratchIsFreed, [Next]_vars,
                        phase' \in {"idle", "failed", "asked"}
                 PROVE  held' = {}
      BY DEF ScratchIsFreed
    <2>1. CASE ScanBegins
      BY <2>1 DEF ScanBegins
    <2>2. CASE Query
      <3>1. query' \notin {"asking", "answered"}
        BY <2>2 DEF Query
      <3>2. QueryFails \/ ListFits \/ OutOfRetries \/ TooBig \/ AskAgain
        BY <2>2 DEF Query
      <3> QED
        BY <3>1, <3>2
        DEF QueryFails, ListFits, OutOfRetries, TooBig, AskAgain, QueryEnds, TooSmall, Asking
    <2>3. CASE Allocates
      BY <2>3 DEF Allocates
    <2>4. CASE AllocationFails
      BY <2>4 DEF AllocationFails
    <2>5. CASE NextPool
      <3>1. phase = "entries"
        BY <2>5 DEF NextPool
      <3>2. phase' = phase \/ phase' = "hash"
        BY <2>5 DEF NextPool
      <3> QED
        BY <3>1, <3>2
    <2>6. CASE ScanEnds
      BY <2>6 DEF ScanEnds
    <2>7. CASE HashChunk
      BY <2>7 DEF HashChunk, InHash
    <2>8. CASE HashOverflows
      BY <2>8 DEF HashOverflows, InHash
    <2>9. CASE HashEnds
      BY <2>9 DEF HashEnds
    <2>10. CASE GetPteDetails \/ PteDetailsFail
      BY <2>10 DEF GetPteDetails, PteDetailsFail, Asked, querying, ScratchIsFreed
    <2>11. CASE Environment
      <3>1. UNCHANGED <<phase, held>>
        BY <2>11 DEF Environment, ByteChanges, PageTableChanges, PoolsChange, SetHashPolicy,
                    ListChanges, querying, scanned
      <3> QED
        BY <3>1 DEF ScratchIsFreed
    <2>12. CASE UNCHANGED vars
      BY <2>12 DEF vars, querying, scanned, ScratchIsFreed
    <2> QED
      BY <2>1, <2>2, <2>3, <2>4, <2>5, <2>6, <2>7, <2>8, <2>9, <2>10, <2>11, <2>12
      DEF Next, Step
  <1> QED
    BY <1>1, <1>2, PTL DEF Spec

(***************************************************************************)
(* Numbers                                                                 *)
(***************************************************************************)

\* The least number of a set, for arguments by the least counterexample.
LEMMA LeastNatural ==
  ASSUME NEW S \in SUBSET Nat, S # {}
  PROVE  \E least \in S : \A y \in S : least <= y
  <1> DEFINE R == {pair \in Nat \X Nat : pair[1] < pair[2]}
  <1>1. IsWellFoundedOn(R, Nat)
    BY NatLessThanWellFounded, Zenon DEF OpToRel
  <1>2. PICK x \in S : \A y \in S : ~(<<y, x>> \in R)
    <2> HIDE DEF R
    <2> QED
      BY <1>1, WFMin, Zenon
  <1>3. ASSUME NEW y \in S PROVE x <= y
    <2>1. ~(<<y, x>> \in R)
      BY <1>2, Zenon
    <2>2. <<y, x>> \in Nat \X Nat
      OBVIOUS
    <2>3. ~(y < x)
      BY <2>1, <2>2
    <2> QED
      BY <2>3
  <1> QED
    BY <1>3

LEMMA LeastIs ==
  ASSUME NEW S \in SUBSET Nat, S # {}
  PROVE  Min(S) \in S /\ \A y \in S : Min(S) <= y
  <1>1. \E x \in S : \A y \in S : x <= y
    BY LeastNatural
  <1> QED
    BY <1>1, Zenon DEF Min

\* The greatest number of a bounded set.
LEMMA GreatestNatural ==
  ASSUME NEW bound \in Nat, NEW S \in SUBSET (0 .. bound), S # {}
  PROVE  Max(S) \in S /\ \A y \in S : Max(S) >= y
  <1> DEFINE T == {bound - x : x \in S}
  <1>1. T \in SUBSET Nat /\ T # {}
    <2>1. \A x \in S : x \in 0 .. bound /\ bound - x \in Nat
      OBVIOUS
    <2> QED
      BY <2>1
  <1>2. PICK t \in T : \A y \in T : t <= y
    BY <1>1, LeastNatural
  <1>3. PICK x \in S : t = bound - x
    OBVIOUS
  <1>4. ASSUME NEW y \in S PROVE x >= y
    <2>1. bound - y \in T
      OBVIOUS
    <2>2. t <= bound - y
      BY <1>2, <2>1
    <2>3. x \in 0 .. bound /\ y \in 0 .. bound
      OBVIOUS
    <2> QED
      BY <1>3, <2>2, <2>3
  <1>5. \E z \in S : \A y \in S : z >= y
    BY <1>4
  <1> QED
    BY <1>5, Zenon DEF Max

\* The smaller of two numbers.
LEMMA MinOfTwo ==
  ASSUME NEW a \in Nat, NEW b \in Nat
  PROVE  Min({a, b}) = IF a <= b THEN a ELSE b
  <1> DEFINE m == IF a <= b THEN a ELSE b
  <1>1. m \in {a, b} /\ \A y \in {a, b} : m <= y
    OBVIOUS
  <1>2. \E x \in {a, b} : \A y \in {a, b} : x <= y
    BY <1>1
  <1>3. Min({a, b}) \in {a, b} /\ \A y \in {a, b} : Min({a, b}) <= y
    BY <1>2, Zenon DEF Min
  <1> QED
    BY <1>1, <1>3

(***************************************************************************)
(* The ranges that are hashed                                              *)
(***************************************************************************)

\* Under this policy a pool of this size is hashed at both ends only.
IsSampled(q, size) == q.mode = "sample" /\ size > q.sample

Half(q) == q.sample \div 2

\* The offsets that are hashed.
SampleOf(q, size) ==
  {o \in 0 .. size - 1 : IsSampled(q, size) => o < Half(q) \/ o >= size - Half(q)}

\* Where HashPoolEntryRange can have come to, and the ranges it has left there.
Places(q, size) ==
  {p \in 0 .. size : IsSampled(q, size) => p < Half(q) \/ p >= size - Half(q)}

SpansAt(q, size, p) ==
  IF p = size THEN <<>>
  ELSE IF IsSampled(q, size) /\ p < Half(q)
       THEN <<[from |-> p, to |-> Half(q)], [from |-> size - Half(q), to |-> size]>>
       ELSE <<[from |-> p, to |-> size]>>

\* The end of the range that has this place.
End(q, size, p) == IF IsSampled(q, size) /\ p < Half(q) THEN Half(q) ELSE size

\* The place after this one when the range goes on at `after'.
Landing(q, size, p, after) ==
  IF after < End(q, size, p) THEN after
  ELSE IF IsSampled(q, size) /\ p < Half(q) THEN size - Half(q) ELSE size

\* What HashChunk leaves of the ranges.
Moved(s, after) ==
  IF after < Head(s).to THEN [s EXCEPT ![1].from = after] ELSE Tail(s)

\* A half is not empty and the two do not meet.
LEMMA Halves ==
  ASSUME NEW q \in Policy, NEW size \in Nat
  PROVE  /\ Half(q) \in Nat \ {0}
         /\ IsSampled(q, size) => Half(q) + Half(q) < size
  <1>1. q.sample \in Nat /\ q.sample > 1
    BY SamplesAreOrdered DEF Policy
  <1> QED
    BY <1>1 DEF Half, IsSampled

\* HashPoolEntryContent begins at the first place.
LEMMA SpansAtFirst ==
  ASSUME policy \in Policy, NEW size \in Nat \ {0}
  PROVE  Spans(size) = SpansAt(policy, size, 0) /\ 0 \in Places(policy, size)
  <1>1. policy.mode \in {"sample", "full"} /\ policy.sample \in Nat
    BY SamplesAreOrdered DEF Policy
  <1>2. IsSampled(policy, size) <=> ~(policy.mode = "full" \/ size <= policy.sample)
    BY <1>1 DEF IsSampled
  <1> QED
    BY <1>1, <1>2, Halves DEF Spans, SpansAt, Places, Half

\* A step from place to place is what HashChunk and HashOverflows do to spans.
LEMMA Advance ==
  ASSUME NEW q \in Policy, NEW size \in Nat, NEW p \in Places(q, size), p < size,
         NEW s, s = SpansAt(q, size, p), NEW after \in Nat, after >= p
  PROVE  /\ s # <<>> /\ Head(s).from = p /\ Head(s).to = End(q, size, p)
         /\ p < End(q, size, p) /\ End(q, size, p) <= size
         /\ Landing(q, size, p, after) \in Places(q, size)
         /\ Moved(s, after) = SpansAt(q, size, Landing(q, size, p, after))
         /\ Tail(s) = SpansAt(q, size, Landing(q, size, p, size))
  <1>1. CASE IsSampled(q, size) /\ p < Half(q)
    <2> DEFINE a == [from |-> p, to |-> Half(q)]
               b == [from |-> size - Half(q), to |-> size]
    <2>1. s = <<a, b>>
      BY <1>1 DEF SpansAt
    <2>2. Head(s) = a /\ Tail(s) = <<b>>
      BY <2>1
    <2>3. [s EXCEPT ![1].from = after] = <<[from |-> after, to |-> Half(q)], b>>
      BY <2>1
    <2>4. Half(q) \in Nat \ {0} /\ Half(q) + Half(q) < size
      BY <1>1, Halves
    <2> QED
      BY <1>1, <2>1, <2>2, <2>3, <2>4 DEF SpansAt, End, Landing, Places, Moved
  <1>2. CASE ~(IsSampled(q, size) /\ p < Half(q))
    <2> DEFINE a == [from |-> p, to |-> size]
    <2>1. s = <<a>>
      BY <1>2 DEF SpansAt
    <2>2. Head(s) = a /\ Tail(s) = <<>>
      BY <2>1
    <2>3. [s EXCEPT ![1].from = after] = <<[from |-> after, to |-> size]>>
      BY <2>1
    <2>4. Half(q) \in Nat \ {0} /\ (IsSampled(q, size) => p >= size - Half(q))
      BY <1>2, Halves DEF Places
    <2> QED
      BY <1>2, <2>1, <2>2, <2>3, <2>4, Halves DEF SpansAt, End, Landing, Places, Moved
  <1> QED
    BY <1>1, <1>2

(***************************************************************************)
(* Pages                                                                   *)
(***************************************************************************)

\* An address lies between the beginning and the end of its page.
LEMMA PageNumbers ==
  ASSUME NEW a \in Nat
  PROVE  /\ PageOf(a) \in Nat /\ PageOf(a) <= a
         /\ PageOf(a) * PageSize <= a /\ a < (PageOf(a) + 1) * PageSize
  BY PagesFillTheAddressSpace DEF PageOf

LEMMA PageNumbersGrow ==
  ASSUME NEW a \in Nat, NEW b \in Nat, a <= b
  PROVE  PageOf(a) <= PageOf(b)
  <1>1. PageOf(a) \in Nat /\ PageOf(b) \in Nat
    BY PageNumbers
  <1>2. PageOf(a) * PageSize <= a /\ b < (PageOf(b) + 1) * PageSize
    BY PageNumbers
  <1>3. PageSize \in Nat \ {0}
    BY PagesFillTheAddressSpace
  <1>4. ASSUME PageOf(a) >= PageOf(b) + 1 PROVE FALSE
    <2>1. PageOf(a) * PageSize >= (PageOf(b) + 1) * PageSize
      BY <1>1, <1>3, <1>4
    <2>2. (PageOf(b) + 1) * PageSize \in Nat /\ PageOf(a) * PageSize \in Nat
      BY <1>1, <1>3
    <2> QED
      BY <1>2, <2>1, <2>2
  <1> QED
    BY <1>1, <1>4

\* There is a page of every number up to that of an address.
LEMMA PageExists ==
  ASSUME NEW p \in Nat, NEW a \in Addresses, p <= PageOf(a)
  PROVE  p \in Pages
  <1>1. PageSize \in Nat \ {0} /\ AddressSpace \in Nat
    BY PagesFillTheAddressSpace
  <1>2. a \in Nat /\ a < AddressSpace
    BY <1>1 DEF Addresses
  <1>3. PageOf(a) \in Nat /\ PageOf(a) * PageSize <= a
    BY <1>2, PageNumbers
  <1>4. p * PageSize \in Nat /\ p * PageSize <= PageOf(a) * PageSize
    BY <1>1, <1>3
  <1>5. PageOf(a) * PageSize \in Nat
    BY <1>1, <1>3
  <1>6. p * PageSize \in Addresses
    BY <1>1, <1>2, <1>3, <1>4, <1>5 DEF Addresses
  <1>7. PageOf(p * PageSize) = p
    BY <1>1 DEF PageOf
  <1> QED
    BY <1>6, <1>7 DEF Pages

LEMMA PagesAreFinite ==
  IsFiniteSet(Pages) /\ Cardinality(Pages) \in Nat
  <1>1. AddressSpace \in Nat
    BY PagesFillTheAddressSpace
  <1>2. IsFiniteSet(0 .. AddressSpace)
    BY <1>1, FS_Interval
  <1>3. Pages \subseteq 0 .. AddressSpace
    <2>1. ASSUME NEW a \in Addresses PROVE PageOf(a) \in 0 .. AddressSpace
      <3>1. a \in Nat /\ a < AddressSpace
        BY <1>1 DEF Addresses
      <3> QED
        BY <3>1, <1>1, PageNumbers
    <2> QED
      BY <2>1 DEF Pages
  <1> QED
    BY <1>2, <1>3, FS_Subset, FS_CardinalityType

\* CountPagesForRange counts the pages of a range, and they exist.
LEMMA PagesOfRange ==
  ASSUME NEW address \in Addresses, NEW size \in Nat
  PROVE  LET first == PageOf(address)
             count == PageCount(address, size)
         IN  /\ first \in Nat /\ count \in Nat /\ (size > 0 => count > 0)
             /\ first .. first + count - 1 \subseteq Pages
             /\ IsFiniteSet(first .. first + count - 1)
             /\ Cardinality(first .. first + count - 1) = count
             /\ count \in 0 .. Cardinality(Pages)
  <1> DEFINE first == PageOf(address)
             count == PageCount(address, size)
             last == IF address + size - 1 <= AddressSpace - 1
                     THEN address + size - 1 ELSE AddressSpace - 1
  <1>1. AddressSpace \in Nat \ {0} /\ address \in Nat /\ address <= AddressSpace - 1
    BY PagesFillTheAddressSpace DEF Addresses
  <1>2. first \in Nat
    BY <1>1, PageNumbers
  <1>3. CASE size = 0
    <2>1. count = 0
      BY <1>3 DEF PageCount
    <2>2. first .. first + count - 1 = {}
      BY <1>2, <2>1
    <2> QED
      BY <1>2, <1>3, <2>1, <2>2, FS_EmptySet, PagesAreFinite
  <1>4. CASE size > 0
    <2>1. last \in Addresses /\ last \in Nat /\ address <= last
      BY <1>1, <1>4 DEF Addresses
    <2>2. PageOf(last) \in Nat /\ first <= PageOf(last)
      BY <1>1, <2>1, PageNumbers, PageNumbersGrow
    <2>3. Min({address + size - 1, AddressSpace - 1}) = last
      BY <1>1, <1>4, MinOfTwo
    <2>4. count = PageOf(last) - first + 1
      BY <1>4, <2>3 DEF PageCount
    <2> HIDE DEF last, count, first
    <2>5. count \in Nat /\ count > 0 /\ first + count - 1 = PageOf(last)
      BY <1>2, <2>2, <2>4
    <2>6. first .. first + count - 1 \subseteq Pages
      <3>1. ASSUME NEW p \in first .. first + count - 1 PROVE p \in Pages
        <4>1. p \in Nat /\ p <= PageOf(last)
          BY <1>2, <2>5
        <4> QED
          BY <2>1, <4>1, PageExists
      <3> QED
        BY <3>1
    <2>7. first + count - 1 \in Nat
      BY <2>5, <2>2
    <2>8. /\ IsFiniteSet(first .. first + count - 1)
          /\ Cardinality(first .. first + count - 1) = count
      BY <1>2, <2>5, <2>7, FS_Interval
    <2>9. count <= Cardinality(Pages)
      BY <2>6, <2>8, PagesAreFinite, FS_Subset
    <2> QED
      BY <1>2, <1>4, <2>5, <2>6, <2>8, <2>9, PagesAreFinite DEF count, first
  <1> QED
    BY <1>1, <1>3, <1>4

\* The entries that a scan makes.
Chunk == [offset : Nat, bytes : Seq(Byte \cup {Hole})]

EntryType ==
  {e \in [address : Addresses, size : Nat, pages : Nat, accessible : Nat, writable : Nat,
          executable : Nat, flags : SUBSET Flags, hash : Seq(Chunk), hashed : Nat] :
     /\ e.pages = PageCount(e.address, e.size)
     /\ e.accessible <= e.pages /\ e.writable <= e.pages /\ e.executable <= e.pages}

\* A count of an entry's pages is that of all, or of none, exactly when it says so.
LEMMA CountOfPages ==
  ASSUME NEW e, e.address \in Addresses, e.size \in Nat,
         e.pages = PageCount(e.address, e.size),
         NEW S, S \subseteq EntryPages(e)
  PROVE  IsFiniteSet(S) /\ Cardinality(S) \in 0 .. e.pages
         /\ (Cardinality(S) = e.pages <=> S = EntryPages(e))
         /\ (Cardinality(S) > 0 <=> S # {})
  <1>1. /\ IsFiniteSet(EntryPages(e)) /\ Cardinality(EntryPages(e)) = e.pages
        /\ e.pages \in Nat
    BY PagesOfRange DEF EntryPages
  <1>2. IsFiniteSet(S) /\ Cardinality(S) \in Nat /\ Cardinality(S) <= e.pages
    BY <1>1, FS_Subset, FS_CardinalityType
  <1>3. Cardinality(S) = e.pages => S = EntryPages(e)
    BY <1>1, FS_Subset
  <1>4. Cardinality(S) > 0 <=> S # {}
    BY <1>2, FS_EmptySet
  <1> QED
    BY <1>1, <1>2, <1>3, <1>4

(***************************************************************************)
(* The walk of the page tables                                             *)
(***************************************************************************)

\* The last entry that a walk from this level uses.
LastFrom(path, level) ==
  IF level <= Len(path) - 2 /\ path[Len(path) - 2].large THEN Len(path) - 2
  ELSE IF level <= Len(path) - 1 /\ path[Len(path) - 1].large THEN Len(path) - 1
  ELSE Len(path)

\* A walk from this level gets there, and what it finds.
WalksFrom(path, level) ==
  \A l \in level .. LastFrom(path, level) :
    path[l].valid /\ (l < LastFrom(path, level) => path[l].table = "ok")

FoundFrom(path, level) ==
  IF WalksFrom(path, level)
  THEN Attributes(TRUE,
         \A l \in level .. LastFrom(path, level) : path[l].write,
         \A l \in level .. LastFrom(path, level) : ~path[l].nx,
         LastFrom(path, level) < Len(path))
  ELSE NotPresent

\* One turn of the driver's loop, and a function that is all its turns.
Turn(path, next, level) ==
  LET entry == path[level]
      large == entry.large /\ level \in LargeLevels(path)
  IN  CASE ~entry.valid -> NotPresent
        [] entry.valid /\ (large \/ level = Len(path)) ->
             Attributes(TRUE, entry.write, ~entry.nx, large)
        [] OTHER -> IF entry.table = "ok" THEN Restricted(next, entry) ELSE NotPresent

Walks(path, f) == f = [level \in DOMAIN path |-> Turn(path, f[level + 1], level)]

LEMMA WalkIsChosen ==
  ASSUME NEW path
  PROVE  Walk(path) = (CHOOSE f : Walks(path, f))[1]
  BY Zenon DEF Walk, Walks, Turn

LEMMA PathFacts ==
  ASSUME NEW path, IsPath(path)
  PROVE  /\ Len(path) \in {4, 5} /\ DOMAIN path = 1 .. Len(path)
         /\ \A l \in 1 .. Len(path) :
              /\ path[l] \in PageTableEntry
              /\ {path[l].valid, path[l].write, path[l].nx, path[l].large} \subseteq BOOLEAN
              /\ path[l].large => l \in {Len(path) - 2, Len(path) - 1, Len(path)}
         /\ LargeLevels(path) = {Len(path) - 2, Len(path) - 1}
  <1>1. path \in Seq(PageTableEntry) /\ Len(path) \in {4, 5}
    BY DEF IsPath
  <1>2. DOMAIN path = 1 .. Len(path) /\ \A l \in 1 .. Len(path) : path[l] \in PageTableEntry
    BY <1>1
  <1>3. \A l \in 1 .. Len(path) :
          {path[l].valid, path[l].write, path[l].nx, path[l].large} \subseteq BOOLEAN
    BY <1>2 DEF PageTableEntry
  <1> QED
    BY <1>1, <1>2, <1>3 DEF IsPath, LargeLevels

LEMMA RestrictedIs ==
  ASSUME NEW p, NEW w, NEW x, NEW l, NEW entry
  PROVE  Restricted(Attributes(p, w, x, l), entry)
           = Attributes(p, w /\ entry.write, x /\ ~entry.nx, l)
  <1>1. ASSUME NEW a, NEW b
        PROVE  [Attributes(p, w, x, l) EXCEPT !.writable = a, !.executable = b]
                 = Attributes(p, a, b, l)
    <2>1. PICK r : r = Attributes(p, w, x, l)
      OBVIOUS
    <2>2. PICK s : s = Attributes(p, a, x, l)
      OBVIOUS
    <2>3. s = [r EXCEPT !.writable = a]
      BY <2>1, <2>2 DEF Attributes
    <2>4. [s EXCEPT !.executable = b] = Attributes(p, a, b, l)
      BY <2>2 DEF Attributes
    <2>5. [[r EXCEPT !.writable = a] EXCEPT !.executable = b]
            = [r EXCEPT !.writable = a, !.executable = b]
      OBVIOUS
    <2> QED
      BY <2>1, <2>3, <2>4, <2>5, Zenon
  <1>2. Attributes(p, w, x, l).writable = w /\ Attributes(p, w, x, l).executable = x
    BY Zenon DEF Attributes
  <1>3. Restricted(Attributes(p, w, x, l), entry)
          = [Attributes(p, w, x, l) EXCEPT !.writable = w /\ entry.write,
                                           !.executable = x /\ ~entry.nx]
    BY <1>2, Zenon DEF Restricted
  <1> QED
    BY <1>1, <1>3, Zenon

\* What a walk finds from a level on follows from that of the next level.
LEMMA FoundIsATurn ==
  ASSUME NEW path, IsPath(path), NEW level \in DOMAIN path
  PROVE  FoundFrom(path, level) = Turn(path, FoundFrom(path, level + 1), level)
  <1> DEFINE n == Len(path)
             last == LastFrom(path, level)
             large == path[level].large /\ level \in LargeLevels(path)
  <1>1. /\ n \in {4, 5} /\ level \in 1 .. n /\ LargeLevels(path) = {n - 2, n - 1}
        /\ path[level].large => level \in {n - 2, n - 1, n}
        /\ \A l \in 1 .. n : {path[l].valid, path[l].write, path[l].nx, path[l].large} \subseteq BOOLEAN
    BY PathFacts
  <1>2. last \in level .. n
    BY <1>1 DEF LastFrom
  <1>3. CASE large \/ level = n
    <2>1. last = level
      BY <1>1, <1>3 DEF LastFrom
    <2>2. level .. last = {level}
      BY <1>1, <2>1
    <2>3. WalksFrom(path, level) <=> path[level].valid
      BY <1>1, <2>1, <2>2 DEF WalksFrom
    <2>4. (\A l \in level .. last : path[l].write) = path[level].write
      BY <1>1, <2>2
    <2>5. (\A l \in level .. last : ~path[l].nx) = ~path[level].nx
      BY <1>1, <2>2
    <2>6. (last < n) = large
      BY <1>1, <1>3, <2>1
    <2>7. FoundFrom(path, level)
            = IF path[level].valid
              THEN Attributes(TRUE, path[level].write, ~path[level].nx, large)
              ELSE NotPresent
      BY <2>1, <2>3, <2>4, <2>5, <2>6, Zenon DEF FoundFrom
    <2> QED
      BY <1>3, <2>7, Zenon DEF Turn
  <1>4. CASE ~(large \/ level = n)
    <2>1. level + 1 \in 1 .. n /\ last = LastFrom(path, level + 1) /\ last >= level + 1
      BY <1>1, <1>4 DEF LastFrom
    <2>2. \A l \in level .. last : l = level \/ l \in level + 1 .. last
      BY <1>1, <2>1
    <2>3. level \in level .. last /\ \A l \in level + 1 .. last : l \in level .. last
      BY <1>1, <1>2, <2>1
    <2>4. level < last
      BY <1>1, <1>2, <2>1
    <2> DEFINE goesOn == path[level].valid /\ path[level].table = "ok"
               W == \A l \in level + 1 .. last : path[l].write
               X == \A l \in level + 1 .. last : ~path[l].nx
    <2>5. WalksFrom(path, level) <=> goesOn /\ WalksFrom(path, level + 1)
      BY <2>1, <2>2, <2>3, <2>4 DEF WalksFrom
    <2>6. (\A l \in level .. last : path[l].write) = (W /\ path[level].write)
      BY <2>2, <2>3
    <2>7. (\A l \in level .. last : ~path[l].nx) = (X /\ ~path[level].nx)
      BY <2>2, <2>3
    <2>8. \A p, w, x, l :
            Restricted(Attributes(p, w, x, l), path[level])
              = Attributes(p, w /\ path[level].write, x /\ ~path[level].nx, l)
      BY RestrictedIs
    <2>9. Restricted(NotPresent, path[level]) = NotPresent
      <3>1. Restricted(NotPresent, path[level])
              = Attributes(FALSE, FALSE /\ path[level].write, FALSE /\ ~path[level].nx, FALSE)
        BY <2>8, Zenon DEF NotPresent
      <3> QED
        BY <3>1, Zenon DEF NotPresent
    <2>10. Turn(path, FoundFrom(path, level + 1), level)
             = IF goesOn THEN Restricted(FoundFrom(path, level + 1), path[level])
               ELSE NotPresent
      BY <1>4, Zenon DEF Turn
    <2>11. CASE WalksFrom(path, level)
      <3>1. PICK w, x, l : w = W /\ x = X /\ l = (last < n)
        OBVIOUS
      <3>2. FoundFrom(path, level + 1) = Attributes(TRUE, w, x, l)
        BY <2>1, <2>5, <2>11, <3>1, Zenon DEF FoundFrom
      <3>3. FoundFrom(path, level)
              = Attributes(TRUE, w /\ path[level].write, x /\ ~path[level].nx, l)
        BY <2>6, <2>7, <2>11, <3>1, Zenon DEF FoundFrom
      <3>4. Restricted(Attributes(TRUE, w, x, l), path[level])
              = Attributes(TRUE, w /\ path[level].write, x /\ ~path[level].nx, l)
        BY <2>8, Zenon
      <3> HIDE DEF W, X
      <3> QED
        BY <2>5, <2>10, <2>11, <3>2, <3>3, <3>4, Zenon
    <2>12. CASE ~WalksFrom(path, level)
      <3>1. FoundFrom(path, level) = NotPresent
        BY <2>12, Zenon DEF FoundFrom
      <3>2. ~goesOn \/ FoundFrom(path, level + 1) = NotPresent
        BY <2>5, <2>12, Zenon DEF FoundFrom
      <3> QED
        BY <2>9, <2>10, <3>1, <3>2, Zenon
    <2> QED
      BY <2>11, <2>12
  <1> QED
    BY <1>3, <1>4

\* At the last level nothing depends on the next.
LEMMA LastTurn ==
  ASSUME NEW path, IsPath(path), NEW a, NEW b
  PROVE  Turn(path, a, Len(path)) = Turn(path, b, Len(path))
  <1> QED
    BY PathFacts DEF Turn

\* What is found is a function of all turns, and there is no other.
LEMMA FoundIsWalked ==
  ASSUME NEW path, IsPath(path)
  PROVE  Walks(path, [level \in DOMAIN path |-> FoundFrom(path, level)])
  <1> DEFINE f == [level \in DOMAIN path |-> FoundFrom(path, level)]
  <1>1. ASSUME NEW level \in DOMAIN path
        PROVE  FoundFrom(path, level) = Turn(path, f[level + 1], level)
    <2>1. CASE level + 1 \in DOMAIN path
      <3>1. f[level + 1] = FoundFrom(path, level + 1)
        BY <2>1
      <3> QED
        BY <3>1, FoundIsATurn
    <2>2. CASE level + 1 \notin DOMAIN path
      <3>1. level = Len(path)
        BY <2>2, PathFacts
      <3> QED
        BY <3>1, FoundIsATurn, LastTurn
    <2> QED
      BY <2>1, <2>2
  <1> HIDE DEF f
  <1>2. [level \in DOMAIN path |-> FoundFrom(path, level)]
          = [level \in DOMAIN path |-> Turn(path, f[level + 1], level)]
    BY <1>1
  <1> QED
    BY <1>2 DEF Walks, f

LEMMA WalkedIsFound ==
  ASSUME NEW path, IsPath(path), NEW f, Walks(path, f)
  PROVE  f[1] = FoundFrom(path, 1)
  <1>1. Len(path) \in {4, 5} /\ DOMAIN path = 1 .. Len(path)
    BY PathFacts
  <1>2. ASSUME NEW level \in DOMAIN path,
               level = Len(path) \/ f[level + 1] = FoundFrom(path, level + 1)
        PROVE  f[level] = FoundFrom(path, level)
    <2>1. f[level] = Turn(path, f[level + 1], level)
      BY DEF Walks
    <2> QED
      BY <1>2, <2>1, FoundIsATurn, LastTurn
  <1>3. Len(path) = 5 => f[5] = FoundFrom(path, 5)
    BY <1>1, <1>2
  <1>4. /\ 1 \in DOMAIN path /\ 2 \in DOMAIN path
        /\ 3 \in DOMAIN path /\ 4 \in DOMAIN path
    BY <1>1
  <1>5. f[4] = FoundFrom(path, 4)
    <2>1. 4 = Len(path) \/ f[4 + 1] = FoundFrom(path, 4 + 1)
      BY <1>1, <1>3
    <2> QED
      BY <1>2, <1>4, <2>1
  <1>6. f[3] = FoundFrom(path, 3)
    <2>1. f[3 + 1] = FoundFrom(path, 3 + 1)
      BY <1>5
    <2> QED
      BY <1>2, <1>4, <2>1
  <1>7. f[2] = FoundFrom(path, 2)
    <2>1. f[2 + 1] = FoundFrom(path, 2 + 1)
      BY <1>6
    <2> QED
      BY <1>2, <1>4, <2>1
  <1>8. f[1 + 1] = FoundFrom(path, 1 + 1)
    BY <1>7
  <1> QED
    BY <1>2, <1>4, <1>8

\* The processor uses the same entries.
LEMMA UsedIsFromTheFirst ==
  ASSUME NEW path, IsPath(path)
  PROVE  /\ Used(path) = 1 .. LastFrom(path, 1) /\ LastFrom(path, 1) \in 1 .. Len(path)
         /\ Max(Used(path)) = LastFrom(path, 1)
  <1> DEFINE n == Len(path)
             last == LastFrom(path, 1)
             ends == {level \in LargeLevels(path) : path[level].large} \cup {n}
  <1>1. n \in {4, 5} /\ LargeLevels(path) = {n - 2, n - 1}
    BY PathFacts
  <1>2. last \in ends /\ \A level \in ends : last <= level
    BY <1>1 DEF LastFrom
  <1>3. last \in 1 .. n
    BY <1>1 DEF LastFrom
  <1>4. ends \subseteq Nat
    BY <1>1
  <1> HIDE DEF ends
  <1>5. Min(ends) \in ends /\ \A level \in ends : Min(ends) <= level
    BY <1>2, Zenon DEF Min
  <1>6. Min(ends) = last
    <2>1. last <= Min(ends) /\ Min(ends) <= last
      BY <1>2, <1>5, Zenon
    <2>2. last \in Nat /\ Min(ends) \in Nat
      BY <1>2, <1>4, <1>5, Zenon
    <2> HIDE DEF last
    <2> QED
      BY <2>1, <2>2
  <1>7. Used(path) = 1 .. last
    BY <1>6 DEF Used, ends
  <1>8. last \in 1 .. last /\ \A x \in 1 .. last : last >= x
    BY <1>3
  <1>9. \E y \in 1 .. last : \A x \in 1 .. last : y >= x
    BY <1>8
  <1>10. Max(1 .. last) \in 1 .. last /\ \A x \in 1 .. last : Max(1 .. last) >= x
    BY <1>9, Zenon DEF Max
  <1>11. Max(1 .. last) = last
    BY <1>3, <1>8, <1>10
  <1> QED
    BY <1>3, <1>7, <1>11

(***************************************************************************)
(* The driver's walk finds a page present when the processor translates    *)
(* its address and the tables can be followed, and then writable and       *)
(* executable as the processor has it.                                     *)
(***************************************************************************)
LEMMA WalkIsExact ==
  ASSUME NEW path, IsPath(path)
  PROVE  LET found == Walk(path)
             walks == Translates(path) /\ CanBeWalked(path)
         IN  /\ found \in [present : BOOLEAN, writable : BOOLEAN, executable : BOOLEAN,
                           large : BOOLEAN]
             /\ found.present <=> walks
             /\ found.writable <=> walks /\ MayWrite(path)
             /\ found.executable <=> walks /\ MayExecute(path)
  <1>1. Walk(path) = FoundFrom(path, 1)
    <2>1. \E f : Walks(path, f)
      BY FoundIsWalked
    <2>2. Walks(path, CHOOSE f : Walks(path, f))
      BY <2>1
    <2> QED
      BY <2>2, WalkIsChosen, WalkedIsFound
  <1> DEFINE last == LastFrom(path, 1)
  <1>2. Used(path) = 1 .. last /\ last \in 1 .. Len(path) /\ Max(Used(path)) = last
    BY UsedIsFromTheFirst
  <1>3. 1 .. Len(path) \subseteq Nat /\ Len(path) \in Nat
    BY PathFacts
  <1>4. \A l \in 1 .. last : (l < last) <=> l \in Used(path) \ {Max(Used(path))}
    BY <1>2, <1>3
  <1>5. WalksFrom(path, 1) <=> Translates(path) /\ CanBeWalked(path)
    BY <1>2, <1>4 DEF WalksFrom, Translates, CanBeWalked
  <1>6. CASE WalksFrom(path, 1)
    <2>1. Walk(path) = Attributes(TRUE, \A l \in 1 .. last : path[l].write,
                                  \A l \in 1 .. last : ~path[l].nx, last < Len(path))
      BY <1>1, <1>6, Zenon DEF FoundFrom
    <2> QED
      BY <1>2, <1>5, <1>6, <2>1 DEF Attributes, MayWrite, MayExecute
  <1>7. CASE ~WalksFrom(path, 1)
    <2>1. Walk(path) = NotPresent
      BY <1>1, <1>7, Zenon DEF FoundFrom
    <2> QED
      BY <1>5, <1>7, <2>1 DEF NotPresent, Attributes
  <1> QED
    BY <1>6, <1>7

(***************************************************************************)
(* The protection that a scan records                                      *)
(***************************************************************************)

\* The fields of an entry alone.
RawEntry ==
  [address : Addresses, size : Nat, pages : Nat, accessible : Nat, writable : Nat,
   executable : Nat, flags : SUBSET Flags, hash : Seq(Chunk), hashed : Nat]

LEMMA NewEntryIs ==
  ASSUME NEW pool \in ListEntry
  PROVE  LET e == NewEntry(pool)
         IN  /\ e \in RawEntry
             /\ e.address = pool.address /\ e.size = pool.size
             /\ e.pages = PageCount(pool.address, pool.size)
             /\ e.accessible = 0 /\ e.writable = 0 /\ e.executable = 0 /\ e.flags = {}
             /\ e.hash = <<>> /\ e.hashed = 0
  <1>1. pool.address \in Addresses /\ pool.size \in Nat
    BY DEF ListEntry
  <1>2. PageCount(pool.address, pool.size) \in Nat
    BY <1>1, PagesOfRange
  <1>3. <<>> \in Seq(Chunk)
    OBVIOUS
  <1> QED
    BY <1>1, <1>2, <1>3 DEF NewEntry, RawEntry

\* The pages of which the loop finds this, and what it makes of their number.
PagesWith(e, what) == {p \in EntryPages(e) : Walked(e)[p][what]}

AllOf(e, what) == e.pages # 0 /\ Cardinality(PagesWith(e, what)) = e.pages

SomeOf(e, what) == Cardinality(PagesWith(e, what)) > 0

If(flag, condition) == IF condition THEN {flag} ELSE {}

\* The flags that an entry gets when there is a table to walk with.
WalkFlags(e) ==
  {what \in {"accessible", "writable", "executable"} :
     e.pages # 0 /\ Walked(e)[PageOf(e.address)][what]}
    \cup If("accessible_all", AllOf(e, "accessible"))
    \cup If("writable_all", AllOf(e, "writable"))
    \cup If("writable_mixed", SomeOf(e, "writable") /\ ~AllOf(e, "writable"))
    \cup If("executable_any", SomeOf(e, "executable"))
    \cup If("executable_mixed", SomeOf(e, "executable") /\ ~AllOf(e, "executable"))

LEMMA WalkFlagsAre ==
  ASSUME NEW e
  PROVE  /\ WalkFlags(e) \subseteq Flags \ {"sampled"}
         /\ "accessible_all" \in WalkFlags(e) <=> AllOf(e, "accessible")
         /\ "writable_all" \in WalkFlags(e) <=> AllOf(e, "writable")
         /\ "writable_mixed" \in WalkFlags(e)
              <=> SomeOf(e, "writable") /\ ~AllOf(e, "writable")
         /\ "executable_any" \in WalkFlags(e) <=> SomeOf(e, "executable")
         /\ "executable_mixed" \in WalkFlags(e)
              <=> SomeOf(e, "executable") /\ ~AllOf(e, "executable")
  <1> PICK aa, wa, wm, xs, xm :
        /\ aa = AllOf(e, "accessible") /\ wa = AllOf(e, "writable")
        /\ wm = (SomeOf(e, "writable") /\ ~AllOf(e, "writable"))
        /\ xs = SomeOf(e, "executable")
        /\ xm = (SomeOf(e, "executable") /\ ~AllOf(e, "executable"))
    OBVIOUS
  <1>1. PICK First : First = {what \in {"accessible", "writable", "executable"} :
                                e.pages # 0 /\ Walked(e)[PageOf(e.address)][what]}
    OBVIOUS
  <1>2. First \subseteq {"accessible", "writable", "executable"}
    BY <1>1, Zenon
  <1>3. WalkFlags(e) = First \cup If("accessible_all", aa) \cup If("writable_all", wa)
                         \cup If("writable_mixed", wm) \cup If("executable_any", xs)
                         \cup If("executable_mixed", xm)
    BY <1>1, Zenon DEF WalkFlags
  <1> QED
    BY <1>2, <1>3 DEF If, Flags

LEMMA AnnotatedWithTable ==
  ASSUME NEW e
  PROVE  Annotated(e, TRUE) =
           [e EXCEPT !.accessible = Cardinality(PagesWith(e, "accessible")),
                     !.writable = Cardinality(PagesWith(e, "writable")),
                     !.executable = Cardinality(PagesWith(e, "executable")),
                     !.flags = WalkFlags(e)]
  <1>1. DOMAIN Walked(e) = EntryPages(e)
    BY DEF Walked
  <1> QED
    BY <1>1, Zenon DEF Annotated, PagesWith, AllOf, SomeOf, WalkFlags, If

LEMMA AnnotatedWithout ==
  ASSUME NEW e
  PROVE  \E readable \in BOOLEAN :
           /\ readable => e.size > 0
           /\ Annotated(e, FALSE) =
                [e EXCEPT !.accessible = IF readable THEN 1 ELSE 0,
                          !.flags = If("accessible", readable)]
  <1>1. PICK readable \in BOOLEAN :
          readable = (e.size > 0 /\ IsReadable(e, PageOf(e.address)))
    OBVIOUS
  <1> QED
    BY <1>1, Zenon DEF Annotated, If

\* What AnnotatePoolEntryAttributes makes of a new entry.
LEMMA AnnotatedIs ==
  ASSUME NEW pool \in ListEntry, NEW table \in BOOLEAN
  PROVE  LET e == NewEntry(pool)
             a == Annotated(e, table)
         IN  /\ a \in EntryType /\ a \in RawEntry
             /\ a.address = pool.address /\ a.size = pool.size
             /\ a.hash = <<>> /\ a.hashed = 0 /\ "sampled" \notin a.flags
             /\ table => /\ a.accessible = Cardinality(PagesWith(e, "accessible"))
                         /\ a.writable = Cardinality(PagesWith(e, "writable"))
                         /\ a.executable = Cardinality(PagesWith(e, "executable"))
                         /\ a.flags = WalkFlags(e)
  <1>1. PICK e : e = NewEntry(pool)
    OBVIOUS
  <1>2. /\ e \in RawEntry /\ e.address = pool.address /\ e.size = pool.size
        /\ e.pages = PageCount(e.address, e.size)
        /\ e.accessible = 0 /\ e.writable = 0 /\ e.executable = 0 /\ e.flags = {}
        /\ e.hash = <<>> /\ e.hashed = 0
    BY <1>1, NewEntryIs
  <1>3. e.address \in Addresses /\ e.size \in Nat
    BY <1>2 DEF RawEntry
  <1>4. PICK a : a = Annotated(e, table)
    OBVIOUS
  <1>5. CASE table
    <2>1. \A what : Cardinality(PagesWith(e, what)) \in 0 .. e.pages
      <3>1. \A what : PagesWith(e, what) \subseteq EntryPages(e)
        BY DEF PagesWith
      <3> QED
        BY <1>2, <1>3, <3>1, CountOfPages
    <2>2. PICK n \in Nat : n = Cardinality(PagesWith(e, "accessible")) /\ n <= e.pages
      BY <2>1, <1>2 DEF RawEntry
    <2>3. PICK w \in Nat : w = Cardinality(PagesWith(e, "writable")) /\ w <= e.pages
      BY <2>1, <1>2 DEF RawEntry
    <2>4. PICK x \in Nat : x = Cardinality(PagesWith(e, "executable")) /\ x <= e.pages
      BY <2>1, <1>2 DEF RawEntry
    <2>5. PICK f \in SUBSET Flags : f = WalkFlags(e) /\ "sampled" \notin f
      BY WalkFlagsAre
    <2>6. a = [e EXCEPT !.accessible = n, !.writable = w, !.executable = x, !.flags = f]
      BY <1>4, <1>5, <2>2, <2>3, <2>4, <2>5, AnnotatedWithTable, Zenon
    <2>7. /\ a \in RawEntry
          /\ a.accessible = n /\ a.writable = w /\ a.executable = x /\ a.flags = f
          /\ a.address = e.address /\ a.size = e.size /\ a.pages = e.pages
          /\ a.hash = e.hash /\ a.hashed = e.hashed
      <3>1. e \in RawEntry
        BY <1>2
      <3> QED
        BY <2>6, <3>1 DEF RawEntry
    <2>8. a \in EntryType
      BY <1>2, <2>2, <2>3, <2>4, <2>7 DEF EntryType, RawEntry
    <2> QED
      BY <1>1, <1>2, <1>4, <2>2, <2>3, <2>4, <2>5, <2>7, <2>8
  <1>6. CASE ~table
    <2>1. PICK readable \in BOOLEAN :
            /\ readable => e.size > 0
            /\ a = [e EXCEPT !.accessible = IF readable THEN 1 ELSE 0,
                             !.flags = If("accessible", readable)]
      <3>1. table = FALSE
        BY <1>6
      <3> QED
        BY <1>4, <3>1, AnnotatedWithout, Zenon
    <2>2. PICK n \in Nat : n = IF readable THEN 1 ELSE 0
      OBVIOUS
    <2>3. PICK f \in SUBSET Flags : f = If("accessible", readable) /\ "sampled" \notin f
      <3>1. If("accessible", readable) \subseteq {"accessible"}
        BY DEF If
      <3> QED
        BY <3>1 DEF Flags
    <2>4. a = [e EXCEPT !.accessible = n, !.flags = f]
      BY <2>1, <2>2, <2>3, Zenon
    <2>5. /\ a \in RawEntry
          /\ a.accessible = n /\ a.writable = e.writable /\ a.executable = e.executable
          /\ a.flags = f
          /\ a.address = e.address /\ a.size = e.size /\ a.pages = e.pages
          /\ a.hash = e.hash /\ a.hashed = e.hashed
      <3>1. e \in RawEntry
        BY <1>2
      <3> QED
        BY <2>4, <3>1 DEF RawEntry
    <2>6. e.pages \in Nat /\ n <= e.pages
      BY <1>2, <1>3, <2>1, <2>2, PagesOfRange
    <2>7. a \in EntryType
      BY <1>2, <2>5, <2>6 DEF EntryType, RawEntry
    <2> QED
      BY <1>1, <1>2, <1>4, <1>6, <2>3, <2>5, <2>7
  <1> QED
    BY <1>5, <1>6

(***************************************************************************)
(* The types of the system around the scan                                 *)
(***************************************************************************)

Happening == [kind : Kinds, between : BOOLEAN]

WorldTypes ==
  /\ bounds \in [changes : Nat, happens : SUBSET Kinds]
  /\ memory \in [Addresses -> Byte \cup {Hole}] /\ WholePages(memory)
  /\ before \in [Addresses -> Byte \cup {Hole}]
  /\ touched \subseteq Addresses
  /\ DOMAIN paths = Pages /\ \A p \in Pages : IsPath(paths[p])
  /\ policy \in Policy /\ pools \in Seq(ListEntry)
  /\ happened \in Seq(Happening) /\ Len(happened) <= bounds.changes

LEMMA MappedIsMemory ==
  ASSUME NEW tables
  PROVE  Mapped(tables) \in [Addresses -> Byte \cup {Hole}] /\ WholePages(Mapped(tables))
  <1>1. Fill \in [Addresses -> Byte]
    BY InputsAreTyped
  <1>2. Mapped(tables) \in [Addresses -> Byte \cup {Hole}]
    BY <1>1 DEF Mapped
  <1>3. ASSUME NEW p \in Pages
        PROVE  [a \in PageAddresses(p) |-> Mapped(tables)[a]] \in Contents(p)
    <2>1. \A a \in PageAddresses(p) : a \in Addresses /\ PageOf(a) = p
      BY DEF PageAddresses
    <2>2. CASE Translates(tables[p])
      <3>1. \A a \in PageAddresses(p) : Mapped(tables)[a] \in Byte
        BY <1>1, <2>1, <2>2 DEF Mapped
      <3>2. [a \in PageAddresses(p) |-> Mapped(tables)[a]] \in [PageAddresses(p) -> Byte]
        BY <3>1
      <3> QED
        BY <3>2 DEF Contents
    <2>3. CASE ~Translates(tables[p])
      <3>1. \A a \in PageAddresses(p) : Mapped(tables)[a] = Hole
        BY <2>1, <2>3 DEF Mapped
      <3>2. [a \in PageAddresses(p) |-> Mapped(tables)[a]]
              = [a \in PageAddresses(p) |-> Hole]
        BY <3>1
      <3> QED
        BY <3>2 DEF Contents
    <2> QED
      BY <2>2, <2>3
  <1> QED
    BY <1>2, <1>3 DEF WholePages

\* A page of which one byte can be read can be read everywhere.
LEMMA PagesAreWhole ==
  ASSUME NEW m, WholePages(m), NEW p \in Pages, NEW a \in PageAddresses(p),
         m[a] # Hole, NEW b \in PageAddresses(p)
  PROVE  m[b] \in Byte
  <1>1. PICK f : f = [c \in PageAddresses(p) |-> m[c]]
    OBVIOUS
  <1>2. f \in [PageAddresses(p) -> Byte] \/ f = [c \in PageAddresses(p) |-> Hole]
    BY <1>1 DEF WholePages, Contents
  <1>3. f[a] = m[a] /\ f[b] = m[b]
    BY <1>1
  <1> QED
    BY <1>2, <1>3

LEMMA HappensTypes ==
  ASSUME WorldTypes, NEW kind \in Kinds, Happens(kind), bounds' = bounds
  PROVE  /\ happened' \in Seq(Happening) /\ Len(happened') <= bounds'.changes
         /\ Len(happened') = Len(happened) + 1
         /\ \A k \in DOMAIN happened : k \in DOMAIN happened' /\ happened'[k] = happened[k]
         /\ Len(happened') \in DOMAIN happened'
         /\ happened'[Len(happened')].kind = kind
         /\ happened'[Len(happened')].between = Between
  <1>1. PICK h : h = [kind |-> kind, between |-> Between]
    OBVIOUS
  <1>2. h \in Happening /\ h.kind = kind /\ h.between = Between
    BY <1>1, Zenon DEF Happening, Between
  <1>3. happened \in Seq(Happening) /\ bounds.changes \in Nat
    BY DEF WorldTypes
  <1>4. happened' = Append(happened, h) /\ Len(happened) < bounds.changes
    BY <1>1 DEF Happens
  <1> QED
    BY <1>2, <1>3, <1>4

LEMMA ByteChangesTypes ==
  ASSUME WorldTypes, ByteChanges
  PROVE  WorldTypes'
  <1>1. PICK a \in Addresses : \E byte \in Byte \ {memory[a]} :
          /\ memory[a] # Hole
          /\ memory' = [memory EXCEPT ![a] = byte]
          /\ touched' = touched \cup {a}
    BY DEF ByteChanges
  <1>2. PICK byte \in Byte :
          /\ memory[a] # Hole
          /\ memory' = [memory EXCEPT ![a] = byte]
          /\ touched' = touched \cup {a}
    BY <1>1
  <1>3. memory \in [Addresses -> Byte \cup {Hole}] /\ WholePages(memory)
    BY DEF WorldTypes
  <1>4. memory' \in [Addresses -> Byte \cup {Hole}]
    BY <1>2, <1>3
  <1>5. WholePages(memory')
    <2>1. ASSUME NEW p \in Pages
          PROVE  [b \in PageAddresses(p) |-> memory'[b]] \in Contents(p)
      <3>1. \A b \in PageAddresses(p) : b \in Addresses
        BY DEF PageAddresses
      <3>2. CASE a \in PageAddresses(p)
        <4>1. \A b \in PageAddresses(p) : memory[b] \in Byte
          BY <1>2, <1>3, <3>2, PagesAreWhole
        <4>2. \A b \in PageAddresses(p) : memory'[b] \in Byte
          BY <1>2, <1>3, <3>1, <4>1
        <4>3. [b \in PageAddresses(p) |-> memory'[b]] \in [PageAddresses(p) -> Byte]
          BY <4>2
        <4> QED
          BY <4>3 DEF Contents
      <3>3. CASE a \notin PageAddresses(p)
        <4>1. \A b \in PageAddresses(p) : memory'[b] = memory[b]
          BY <1>2, <1>3, <3>1, <3>3
        <4>2. [b \in PageAddresses(p) |-> memory'[b]] = [b \in PageAddresses(p) |-> memory[b]]
          BY <4>1
        <4> QED
          BY <1>3, <4>2 DEF WholePages
      <3> QED
        BY <3>2, <3>3
    <2> QED
      BY <2>1 DEF WholePages
  <1>6. UNCHANGED <<bounds, paths, policy, pools, before>> /\ Happens("byte")
    BY DEF ByteChanges
  <1>7. happened' \in Seq(Happening) /\ Len(happened') <= bounds'.changes
    BY <1>6, HappensTypes DEF Kinds
  <1> QED
    BY <1>2, <1>4, <1>5, <1>6, <1>7 DEF WorldTypes

LEMMA PageTableChangesTypes ==
  ASSUME WorldTypes, PageTableChanges
  PROVE  WorldTypes'
  <1>1. PICK p \in Pages :
       /\ paths' = [paths EXCEPT ![p][Len(paths[p])].valid = ~@]
       /\ memory' = [a \in Addresses |->
                       IF PageOf(a) = p THEN Mapped(paths')[a] ELSE memory[a]]
       /\ touched' = touched \cup PageAddresses(p)
    BY DEF PageTableChanges
  <1>2. memory \in [Addresses -> Byte \cup {Hole}] /\ WholePages(memory)
    BY DEF WorldTypes
  <1>3. PICK mapped : mapped = Mapped(paths')
    OBVIOUS
  <1>4. mapped \in [Addresses -> Byte \cup {Hole}] /\ WholePages(mapped)
    BY <1>3, MappedIsMemory
  <1>5. memory' \in [Addresses -> Byte \cup {Hole}]
    BY <1>1, <1>2, <1>3, <1>4
  <1>6. WholePages(memory')
    <2>1. ASSUME NEW r \in Pages
          PROVE  [a \in PageAddresses(r) |-> memory'[a]] \in Contents(r)
      <3>1. \A a \in PageAddresses(r) : a \in Addresses /\ PageOf(a) = r
        BY DEF PageAddresses
      <3>2. CASE r = p
        <4>1. \A a \in PageAddresses(r) : memory'[a] = mapped[a]
          BY <1>1, <1>3, <3>1, <3>2
        <4>2. [a \in PageAddresses(r) |-> memory'[a]] = [a \in PageAddresses(r) |-> mapped[a]]
          BY <4>1
        <4> QED
          BY <1>4, <4>2 DEF WholePages
      <3>3. CASE r # p
        <4>1. \A a \in PageAddresses(r) : memory'[a] = memory[a]
          BY <1>1, <1>3, <3>1, <3>3
        <4>2. [a \in PageAddresses(r) |-> memory'[a]] = [a \in PageAddresses(r) |-> memory[a]]
          BY <4>1
        <4> QED
          BY <1>2, <4>2 DEF WholePages
      <3> QED
        BY <3>2, <3>3
    <2> QED
      BY <2>1 DEF WholePages
  <1>7. DOMAIN paths' = Pages /\ \A r \in Pages : IsPath(paths'[r])
    <2>1. DOMAIN paths = Pages /\ \A r \in Pages : IsPath(paths[r])
      BY DEF WorldTypes
    <2>2. DOMAIN paths' = Pages /\ \A r \in Pages : r # p => paths'[r] = paths[r]
      BY <1>1, <2>1
    <2>3. PICK path : path = paths[p]
      OBVIOUS
    <2>4. PICK flipped \in BOOLEAN : flipped = ~path[Len(path)].valid
      OBVIOUS
    <2>5. paths'[p] = [path EXCEPT ![Len(path)] = [path[Len(path)] EXCEPT !.valid = flipped]]
      BY <1>1, <2>1, <2>3, <2>4
    <2>6. Len(path) \in {4, 5} /\ path \in Seq(PageTableEntry) /\ Len(path) \in DOMAIN path
      BY <2>1, <2>3 DEF IsPath
    <2>7. PICK entry : entry = [path[Len(path)] EXCEPT !.valid = flipped]
      OBVIOUS
    <2>8. entry \in PageTableEntry /\ entry.large = path[Len(path)].large
      <3>1. PICK old \in PageTableEntry : old = path[Len(path)]
        BY <2>6
      <3>2. entry = [old EXCEPT !.valid = flipped]
        BY <2>7, <3>1
      <3>3. entry \in PageTableEntry /\ entry.large = old.large
        BY <3>2 DEF PageTableEntry
      <3> QED
        BY <3>1, <3>3
    <2>9. PICK new : new = [path EXCEPT ![Len(path)] = entry]
      OBVIOUS
    <2>10. new \in Seq(PageTableEntry) /\ Len(new) = Len(path) /\ DOMAIN new = DOMAIN path
      BY <2>6, <2>8, <2>9
    <2>11. \A level \in DOMAIN new : new[level].large = path[level].large
      BY <2>6, <2>8, <2>9, <2>10
    <2>12. \A level \in DOMAIN path : path[level].large => level \in LargeLevels(path) \cup {Len(path)}
      BY <2>1, <2>3 DEF IsPath
    <2>13. IsPath(new)
      BY <2>6, <2>10, <2>11, <2>12 DEF IsPath, LargeLevels
    <2> QED
      BY <2>1, <2>2, <2>5, <2>7, <2>9, <2>13
  <1>8. UNCHANGED <<bounds, policy, pools, before>> /\ Happens("page")
    BY DEF PageTableChanges
  <1>9. happened' \in Seq(Happening) /\ Len(happened') <= bounds'.changes
    BY <1>8, HappensTypes DEF Kinds
  <1>10. touched' \subseteq Addresses
    BY <1>1 DEF WorldTypes, PageAddresses
  <1> QED
    BY <1>5, <1>6, <1>7, <1>8, <1>9, <1>10 DEF WorldTypes

\* The tables say which memory can be read.
TablesRule == \A a \in Addresses : memory[a] = Hole <=> ~Translates(paths[PageOf(a)])

LEMMA MappedIsTranslated ==
  ASSUME NEW tables, NEW a \in Addresses
  PROVE  Mapped(tables)[a] = Hole <=> ~Translates(tables[PageOf(a)])
  <1>1. Fill[a] \in Byte /\ Hole \notin Byte
    BY InputsAreTyped, HoleIsNoByte
  <1> QED
    BY <1>1 DEF Mapped

LEMMA SetHashPolicyTypes ==
  ASSUME WorldTypes, SetHashPolicy
  PROVE  WorldTypes'
  <1>1. PICK mode \in {"sample", "full"}, sample \in 0 .. SampleLimit + 1 :
          policy' = Chosen(mode, sample)
    BY DEF SetHashPolicy
  <1>2. /\ {SampleMin, SampleMax, SampleLimit} \subseteq Nat
        /\ SampleMin <= SampleMax /\ SampleMax <= SampleLimit
    BY SamplesAreOrdered
  <1>3. PICK least : least = IF sample >= SampleMin THEN sample ELSE SampleMin
    OBVIOUS
  <1>4. Max({sample, SampleMin}) = least
    <2>1. least \in {sample, SampleMin} /\ \A y \in {sample, SampleMin} : least >= y
      BY <1>2, <1>3
    <2>2. \E x \in {sample, SampleMin} : \A y \in {sample, SampleMin} : x >= y
      BY <2>1
    <2>3. /\ Max({sample, SampleMin}) \in {sample, SampleMin}
          /\ \A y \in {sample, SampleMin} : Max({sample, SampleMin}) >= y
      BY <2>2, Zenon DEF Max
    <2> QED
      BY <1>2, <1>3, <2>1, <2>3
  <1>5. least \in Nat /\ least >= SampleMin
    BY <1>2, <1>3
  <1>6. Min({least, SampleLimit}) \in SampleMin .. SampleLimit
    BY <1>2, <1>5, MinOfTwo
  <1>7. Chosen(mode, sample) \in Policy
    <2>1. PICK limited : limited = IF sample = 0 THEN SampleMax
                                   ELSE Min({Max({sample, SampleMin}), SampleLimit})
      OBVIOUS
    <2>2. limited = SampleMax \/ limited = Min({least, SampleLimit})
      BY <1>4, <2>1, Zenon
    <2>3. limited \in SampleMin .. SampleLimit
      BY <1>2, <1>6, <2>2
    <2>4. Chosen(mode, sample) = [mode |-> mode, sample |-> limited]
      BY <2>1, Zenon DEF Chosen
    <2> QED
      BY <2>3, <2>4 DEF Policy
  <1>8. UNCHANGED <<bounds, memory, touched, paths, pools, before>> /\ Happens("policy")
    BY DEF SetHashPolicy
  <1>9. happened' \in Seq(Happening) /\ Len(happened') <= bounds'.changes
    BY <1>8, HappensTypes DEF Kinds
  <1> QED
    BY <1>1, <1>7, <1>8, <1>9 DEF WorldTypes

LEMMA PoolsChangeTypes ==
  ASSUME WorldTypes, PoolsChange
  PROVE  WorldTypes'
  <1>1. PICK list \in Lists : ListChanges(list)
    BY DEF PoolsChange
  <1>2. list \in Seq(ListEntry) /\ pools' = list
    BY <1>1, InputsAreTyped DEF ListChanges
  <1>3. UNCHANGED <<bounds, memory, touched, paths, policy, before>> /\ Happens("list")
    BY DEF PoolsChange
  <1>4. happened' \in Seq(Happening) /\ Len(happened') <= bounds'.changes
    BY <1>3, HappensTypes DEF Kinds
  <1> QED
    BY <1>2, <1>3, <1>4 DEF WorldTypes

\* A step of the driver leaves the system alone; some meet a shortage.
LEMMA StepLeavesTheWorld ==
  ASSUME Step \/ UNCHANGED vars
  PROVE  /\ UNCHANGED <<bounds, memory, touched, paths, policy, pools>>
         /\ UNCHANGED happened \/ Happens("shortage")
         /\ before' = before \/ before' = memory
  <1>1. CASE ScanBegins
    BY <1>1 DEF ScanBegins, system
  <1>2. CASE Query
    BY <1>2 DEF Query, system
  <1>3. CASE Allocates
    BY <1>3 DEF Allocates, system
  <1>4. CASE AllocationFails
    BY <1>4 DEF AllocationFails, system
  <1>5. CASE NextPool
    BY <1>5 DEF NextPool, system
  <1>6. CASE ScanEnds
    BY <1>6 DEF ScanEnds, system
  <1>7. CASE HashChunk
    BY <1>7 DEF HashChunk, system
  <1>8. CASE HashOverflows
    BY <1>8 DEF HashOverflows, system
  <1>9. CASE HashEnds
    BY <1>9 DEF HashEnds, system
  <1>10. CASE GetPteDetails
    BY <1>10 DEF GetPteDetails, system
  <1>11. CASE PteDetailsFail
    BY <1>11 DEF PteDetailsFail, system
  <1>12. CASE UNCHANGED vars
    BY <1>12 DEF vars, system
  <1> QED
    BY <1>1, <1>2, <1>3, <1>4, <1>5, <1>6, <1>7, <1>8, <1>9, <1>10, <1>11, <1>12 DEF Step

LEMMA StepTypes ==
  ASSUME WorldTypes, Step \/ UNCHANGED vars
  PROVE  WorldTypes'
  <1>1. /\ UNCHANGED <<bounds, memory, touched, paths, policy, pools>>
        /\ UNCHANGED happened \/ Happens("shortage")
        /\ before' = before \/ before' = memory
    BY StepLeavesTheWorld
  <1>2. happened' \in Seq(Happening) /\ Len(happened') <= bounds'.changes
    <2>1. CASE UNCHANGED happened
      BY <1>1, <2>1 DEF WorldTypes
    <2>2. CASE Happens("shortage")
      BY <1>1, <2>2, HappensTypes DEF Kinds
    <2> QED
      BY <1>1, <2>1, <2>2
  <1> QED
    BY <1>1, <1>2 DEF WorldTypes

LEMMA WorldTypesAtFirst == Init => WorldTypes /\ TablesRule
  <1> SUFFICES ASSUME Init PROVE WorldTypes /\ TablesRule
    OBVIOUS
  <1>1. PICK world \in Worlds :
          /\ pools = world.pools /\ paths = world.paths /\ policy = world.policy
          /\ memory = Mapped(world.paths)
          /\ bounds = [changes |-> world.changes, happens |-> world.happens]
    BY DEF Init
  <1>2. /\ world.pools \in Seq(ListEntry)
        /\ DOMAIN world.paths = Pages /\ \A p \in Pages : IsPath(world.paths[p])
        /\ world.policy \in Policy
        /\ world.changes \in Nat /\ world.happens \subseteq Kinds
    BY WorldsAreSystems
  <1>3. touched = {} /\ before = memory /\ happened = <<>>
    BY DEF Init
  <1>4. memory \in [Addresses -> Byte \cup {Hole}] /\ WholePages(memory)
    BY <1>1, MappedIsMemory
  <1>5. happened \in Seq(Happening) /\ Len(happened) = 0
    BY <1>3
  <1>6. bounds \in [changes : Nat, happens : SUBSET Kinds] /\ bounds.changes \in Nat
    BY <1>1, <1>2
  <1>7. TablesRule
    BY <1>1, MappedIsTranslated DEF TablesRule
  <1> QED
    BY <1>1, <1>2, <1>3, <1>4, <1>5, <1>6, <1>7 DEF WorldTypes

LEMMA WorldTypesKept ==
  ASSUME WorldTypes, [Next]_vars
  PROVE  WorldTypes'
  BY ByteChangesTypes, PageTableChangesTypes, SetHashPolicyTypes, PoolsChangeTypes, StepTypes
  DEF Next, Environment

\* Only a change of the tables changes what can be read.
LEMMA HolesStay ==
  ASSUME WorldTypes, [Next]_vars, ~PageTableChanges
  PROVE  /\ paths' = paths
         /\ \A a \in Addresses : memory'[a] = Hole <=> memory[a] = Hole
  <1>1. CASE ByteChanges
    <2>1. PICK a \in Addresses : \E byte \in Byte \ {memory[a]} :
            memory[a] # Hole /\ memory' = [memory EXCEPT ![a] = byte]
      BY <1>1 DEF ByteChanges
    <2>2. PICK byte \in Byte : memory[a] # Hole /\ memory' = [memory EXCEPT ![a] = byte]
      BY <2>1
    <2>3. byte # Hole
      BY HoleIsNoByte
    <2>4. memory \in [Addresses -> Byte \cup {Hole}]
      BY DEF WorldTypes
    <2>5. paths' = paths
      BY <1>1 DEF ByteChanges
    <2> QED
      BY <2>2, <2>3, <2>4, <2>5
  <1>2. CASE PoolsChange \/ SetHashPolicy
    BY <1>2 DEF PoolsChange, SetHashPolicy
  <1>3. CASE Step \/ UNCHANGED vars
    BY <1>3, StepLeavesTheWorld
  <1> QED
    BY <1>1, <1>2, <1>3 DEF Next, Environment

LEMMA TablesRuleKept ==
  ASSUME WorldTypes, TablesRule, [Next]_vars
  PROVE  TablesRule'
  <1>1. CASE PageTableChanges
    <2>1. PICK p \in Pages :
         /\ paths' = [paths EXCEPT ![p][Len(paths[p])].valid = ~@]
         /\ memory' = [a \in Addresses |->
                         IF PageOf(a) = p THEN Mapped(paths')[a] ELSE memory[a]]
      BY <1>1 DEF PageTableChanges
    <2>2. \A r \in Pages : r # p => paths'[r] = paths[r]
      BY <2>1 DEF WorldTypes
    <2>3. PICK mapped, tables : mapped = Mapped(paths') /\ tables = paths'
      OBVIOUS
    <2>4. \A a \in Addresses : mapped[a] = Hole <=> ~Translates(tables[PageOf(a)])
      BY <2>3, MappedIsTranslated
    <2>5. \A a \in Addresses : memory'[a] = IF PageOf(a) = p THEN mapped[a] ELSE memory[a]
      BY <2>1, <2>3
    <2>6. \A a \in Addresses : PageOf(a) \in Pages
      BY DEF Pages
    <2>7. ASSUME NEW a \in Addresses
          PROVE  memory'[a] = Hole <=> ~Translates(tables[PageOf(a)])
      BY <2>2, <2>3, <2>4, <2>5, <2>6, Zenon DEF TablesRule
    <2> QED
      BY <2>3, <2>7 DEF TablesRule
  <1>2. CASE ~PageTableChanges
    BY <1>2, HolesStay DEF TablesRule
  <1> QED
    BY <1>1, <1>2

(***************************************************************************)
(* One turn of HashPoolEntryRange                                          *)
(***************************************************************************)

\* The bytes that can be had of a range at this place, up to the chunk's size.
Piece(q, size, p) ==
  IF HashChunkSize <= End(q, size, p) - p THEN HashChunkSize ELSE End(q, size, p) - p

LEMMA CopyFacts ==
  ASSUME memory \in [Addresses -> Byte \cup {Hole}],
         NEW e \in EntryType, This = e, NEW q \in Policy, NEW p \in Places(q, e.size),
         spans = SpansAt(q, e.size, p), spans # <<>>
  PROVE  /\ p \in Nat /\ p < e.size /\ Source = e.address + p /\ Head(spans).from = p
         /\ Source < AddressSpace =>
              /\ Wanted = Piece(q, e.size, p) /\ Wanted \in Nat \ {0}
              /\ p + Wanted <= End(q, e.size, p)
              /\ Copies \in Nat /\ Copies <= Wanted
              /\ Copied(Source, Copies) \in Seq(Byte \cup {Hole})
              /\ Len(Copied(Source, Copies)) = Copies
              /\ \A i \in 1 .. Copies :
                   /\ Copied(Source, Copies)[i] = memory[e.address + p + i - 1]
                   /\ e.address + p + i - 1 \in Addresses
              /\ After \in Nat /\ After >= p + Copies
              /\ Whole(e) => Copies = Wanted /\ After = p + Wanted
  <1>1. e.address \in Addresses /\ e.address \in Nat /\ e.size \in Nat /\ AddressSpace \in Nat \ {0}
    BY PagesFillTheAddressSpace DEF EntryType, Addresses
  <1>2. p \in Nat /\ p < e.size
    BY <1>1 DEF Places, SpansAt
  <1>3. PICK last : last = End(q, e.size, p)
    OBVIOUS
  <1>4. Head(spans).from = p /\ Head(spans).to = last /\ p < last /\ last <= e.size
    BY <1>1, <1>2, <1>3, Advance
  <1>5. last \in Nat
    BY <1>1, <1>3, Halves DEF End
  <1>6. PICK source : source = e.address + p
    OBVIOUS
  <1>7. Source = source /\ source \in Nat
    BY <1>1, <1>2, <1>4, <1>6 DEF Source
  <1>8. HashChunkSize \in Nat \ {0}
    BY SamplesAreOrdered
  <1>9. PICK wanted : wanted = Piece(q, e.size, p)
    OBVIOUS
  <1>10. wanted \in Nat \ {0} /\ p + wanted <= last
    BY <1>2, <1>3, <1>4, <1>5, <1>8, <1>9 DEF Piece
  <1>11. Wanted = wanted
    <2>1. last - p \in Nat
      BY <1>2, <1>4, <1>5
    <2>2. Min({HashChunkSize, last - p}) = IF HashChunkSize <= last - p THEN HashChunkSize ELSE last - p
      BY <1>8, <2>1, MinOfTwo
    <2>3. Wanted = Min({HashChunkSize, last - p})
      BY <1>4 DEF Wanted
    <2> QED
      BY <1>3, <1>9, <2>2, <2>3 DEF Piece
  <1>12. SUFFICES ASSUME source < AddressSpace
         PROVE  /\ Copies \in Nat /\ Copies <= wanted
                /\ Copied(source, Copies) \in Seq(Byte \cup {Hole})
                /\ Len(Copied(source, Copies)) = Copies
                /\ \A i \in 1 .. Copies :
                     /\ Copied(source, Copies)[i] = memory[source + i - 1]
                     /\ source + i - 1 \in Addresses
                /\ After \in Nat /\ After >= p + Copies
                /\ Whole(e) => Copies = wanted /\ After = p + wanted
    BY <1>2, <1>3, <1>4, <1>6, <1>7, <1>10, <1>11, <1>9
  <1>13. PICK some : some = Copyable(source, wanted)
    OBVIOUS
  <1>14. some \subseteq 1 .. wanted
    BY <1>13 DEF Copyable
  <1>15. PICK copies : copies = Max({0} \cup some)
    OBVIOUS
  <1>16. copies \in {0} \cup some /\ \A y \in {0} \cup some : copies >= y
    <2>1. {0} \cup some \in SUBSET (0 .. wanted) /\ {0} \cup some # {}
      BY <1>10, <1>14
    <2> QED
      BY <1>10, <1>15, <2>1, GreatestNatural
  <1>17. copies \in Nat /\ copies <= wanted
    BY <1>10, <1>14, <1>16
  <1>18. Copies = copies
    BY <1>7, <1>11, <1>13, <1>15 DEF Copies
  <1>19. copies # 0 => source + copies <= AddressSpace
    BY <1>13, <1>16 DEF Copyable
  <1>20. \A i \in 1 .. copies : source + i - 1 \in Addresses
    BY <1>1, <1>7, <1>17, <1>19 DEF Addresses
  <1>21. PICK bytes : bytes = Copied(source, copies)
    OBVIOUS
  <1>22. bytes = [i \in 1 .. copies |-> memory[source + i - 1]]
    BY <1>21 DEF Copied
  <1>23. \A i \in 1 .. copies : memory[source + i - 1] \in Byte \cup {Hole}
    BY <1>20
  <1>24. bytes \in Seq(Byte \cup {Hole}) /\ Len(bytes) = copies
    BY <1>17, <1>22, <1>23
  <1>25. PICK reached, next : reached = p + copies /\ next = NextPageAddress
    OBVIOUS
  <1>26. reached \in Nat /\ reached <= last
    BY <1>2, <1>5, <1>10, <1>17, <1>25
  <1>27. next \in Nat
    <2>1. PICK a : a = (PageOf(source) + 1) * PageSize
      OBVIOUS
    <2>2. PageOf(source) \in Nat /\ PageSize \in Nat
      BY <1>7, PageNumbers, PagesFillTheAddressSpace
    <2>3. a \in Nat
      BY <2>1, <2>2
    <2>4. next = a % AddressSpace
      BY <1>7, <1>25, <2>1 DEF NextPageAddress
    <2> QED
      BY <1>1, <2>3, <2>4
  <1>28. After = IF copies = wanted THEN reached
                 ELSE IF next > e.address /\ next - e.address > reached THEN next - e.address
                 ELSE last
    BY <1>4, <1>11, <1>18, <1>25 DEF After
  <1>29. After \in Nat /\ After >= reached
    <2>1. PICK after : after = After
      OBVIOUS
    <2> QED
      BY <1>1, <1>5, <1>26, <1>27, <1>28, <2>1
  <1>30. Whole(e) => copies = wanted
    <2> SUFFICES ASSUME Whole(e) PROVE copies = wanted
      OBVIOUS
    <2>1. Extent(e) \subseteq Addresses /\ \A a \in Extent(e) : memory[a] # Hole
      BY DEF Whole
    <2>2. \A i \in 0 .. wanted - 1 : source + i \in Extent(e)
      BY <1>1, <1>2, <1>4, <1>5, <1>6, <1>10 DEF Extent
    <2>3. wanted - 1 \in 0 .. wanted - 1
      BY <1>10
    <2>4. source + (wanted - 1) \in Addresses
      BY <2>1, <2>2, <2>3
    <2>5. source + wanted <= AddressSpace
      BY <1>1, <1>7, <1>10, <2>4 DEF Addresses
    <2>6. wanted \in some
      BY <1>10, <1>13, <2>1, <2>2, <2>5 DEF Copyable
    <2> QED
      BY <1>10, <1>16, <1>17, <2>6
  <1> QED
    BY <1>17, <1>18, <1>20, <1>21, <1>22, <1>24, <1>25, <1>28, <1>29, <1>30

LEMMA UpdatedIs ==
  ASSUME memory \in [Addresses -> Byte \cup {Hole}],
         NEW e \in EntryType, This = e, NEW q \in Policy, NEW p \in Places(q, e.size),
         spans = SpansAt(q, e.size, p), spans # <<>>, Source < AddressSpace
  PROVE  LET a == UpdateContentHash(e)
             chunk == [offset |-> p, bytes |-> Copied(Source, Copies)]
         IN  /\ a \in EntryType /\ chunk \in Chunk
             /\ a.hash = Append(e.hash, chunk)
             /\ a.hashed = Min({e.hashed + Copies, MaxHashed})
             /\ a.address = e.address /\ a.size = e.size /\ a.flags = e.flags
             /\ a.pages = e.pages
             /\ a.accessible = e.accessible /\ a.writable = e.writable
             /\ a.executable = e.executable
  <1>1. /\ p \in Nat /\ Head(spans).from = p
        /\ Copies \in Nat /\ Copied(Source, Copies) \in Seq(Byte \cup {Hole})
    BY CopyFacts
  <1>2. PICK chunk : chunk = [offset |-> p, bytes |-> Copied(Source, Copies)]
    OBVIOUS
  <1>3. chunk \in Chunk
    BY <1>1, <1>2 DEF Chunk
  <1>4. e \in RawEntry /\ e.hash \in Seq(Chunk) /\ e.hashed \in Nat
    BY DEF EntryType, RawEntry
  <1>5. PICK hash, hashed : hash = Append(e.hash, chunk) /\ hashed = Min({e.hashed + Copies, MaxHashed})
    OBVIOUS
  <1>6. hash \in Seq(Chunk)
    BY <1>3, <1>4, <1>5
  <1>7. hashed \in Nat
    <2>1. e.hashed + Copies \in Nat /\ MaxHashed \in Nat
      BY <1>1, <1>4, SamplesAreOrdered
    <2> QED
      BY <1>5, <2>1, MinOfTwo
  <1>8. PICK a : a = UpdateContentHash(e)
    OBVIOUS
  <1>9. a = [e EXCEPT !.hash = hash, !.hashed = hashed]
    BY <1>1, <1>2, <1>5, <1>8, Zenon DEF UpdateContentHash
  <1>10. /\ a \in RawEntry /\ a.hash = hash /\ a.hashed = hashed
         /\ a.address = e.address /\ a.size = e.size /\ a.flags = e.flags
         /\ a.pages = e.pages
         /\ a.accessible = e.accessible /\ a.writable = e.writable
         /\ a.executable = e.executable
    BY <1>4, <1>6, <1>7, <1>9 DEF RawEntry
  <1>11. a \in EntryType
    BY <1>10 DEF EntryType, RawEntry
  <1> QED
    BY <1>2, <1>3, <1>5, <1>8, <1>10, <1>11

(***************************************************************************)
(* The types of the scan                                                   *)
(***************************************************************************)

ScanTypes ==
  /\ held \subseteq {"list", "table", "hash"}
  /\ phase \in {"idle", "query", "entries", "hash", "failed", "asked"}
  /\ listed \in Seq(ListEntry) /\ index \in Nat
  /\ phase \in {"entries", "hash"} => index \in 1 .. Len(listed) + 1
  /\ entries \in Seq(EntryType) /\ (phase = "hash" => entries # <<>>)
  /\ snapshots \in Seq(Seq(EntryType)) /\ Len(snapshots) <= 2
  /\ phase \in {"query", "entries", "hash"} => Len(snapshots) < 2
  /\ phase = "asked" => Len(snapshots) = 2
  /\ Len(details) \in {0, 1}

\* Where HashPoolEntryRange has come to.
Ranges ==
  IF phase = "hash"
  THEN \E q \in Policy : \E p \in Places(q, This.size) : spans = SpansAt(q, This.size, p)
  ELSE spans = <<>>

\* The last entry, and the others, when it is replaced.
LEMMA LastOfEntries ==
  ASSUME NEW s \in Seq(EntryType), s # <<>>, NEW a \in EntryType
  PROVE  /\ Last(s) \in EntryType
         /\ LET new == [s EXCEPT ![Len(s)] = a]
            IN  /\ new \in Seq(EntryType) /\ new # <<>> /\ Len(new) = Len(s) /\ Last(new) = a
                /\ \A k \in 1 .. Len(s) - 1 : new[k] = s[k]
                /\ \A k \in DOMAIN new : k = Len(s) \/ k \in 1 .. Len(s) - 1
  <1>1. PICK n \in Nat \ {0} : n = Len(s) /\ DOMAIN s = 1 .. n
    OBVIOUS
  <1>2. PICK new : new = [s EXCEPT ![n] = a]
    OBVIOUS
  <1>3. new \in Seq(EntryType) /\ Len(new) = n /\ DOMAIN new = 1 .. n /\ new[n] = a
    BY <1>1, <1>2
  <1>4. \A k \in 1 .. n - 1 : new[k] = s[k]
    BY <1>1, <1>2
  <1>5. Last(s) \in EntryType /\ Last(new) = a /\ new # <<>>
    BY <1>1, <1>3 DEF Last
  <1>6. \A k \in 1 .. n : k = n \/ k \in 1 .. n - 1
    BY <1>1
  <1> QED
    BY <1>1, <1>2, <1>3, <1>4, <1>5, <1>6

LEMMA AppendedEntry ==
  ASSUME NEW s \in Seq(EntryType), NEW a \in EntryType
  PROVE  LET new == Append(s, a)
         IN  /\ new \in Seq(EntryType) /\ new # <<>> /\ Len(new) = Len(s) + 1 /\ Last(new) = a
             /\ \A k \in 1 .. Len(s) : new[k] = s[k]
             /\ \A k \in DOMAIN new : k = Len(new) \/ k \in 1 .. Len(s)
  BY DEF Last

LEMMA QueryHolds ==
  ASSUME ScanTypes, QueryStep
  PROVE  held' \subseteq {"list", "table", "hash"}
  BY DEF QueryStep, QueryFails, ListFits, OutOfRetries, TooBig, AskAgain, QueryEnds, ScanTypes

LEMMA QueryScanTypes ==
  ASSUME WorldTypes, ScanTypes, Ranges, Query
  PROVE  ScanTypes' /\ Ranges'
  <1>1. QueryStep
    BY DEF Query, QueryStep
  <1>2. /\ phase = "query" /\ phase' \in {"query", "failed"}
        /\ listed' = pools \/ listed' = listed
        /\ UNCHANGED <<index, entries, spans, snapshots, details>>
    BY DEF Query
  <1>3. held' \subseteq {"list", "table", "hash"}
    BY <1>1, QueryHolds
  <1>4. listed' \in Seq(ListEntry)
    BY <1>2 DEF WorldTypes, ScanTypes
  <1> QED
    BY <1>2, <1>3, <1>4 DEF ScanTypes, Ranges

\* What NextPool does to a pool that is not paged: a is the entry without
\* the mark of a sample, b with it.
Adds(pool, toHash, table, a, b) ==
  /\ pool \in ListEntry
  /\ toHash <=> "hash" \in held /\ pool.size > 0
  /\ table <=> "table" \in held
  /\ a = Annotated(NewEntry(pool), table)
  /\ "sampled" \notin a.flags
  /\ b.address = pool.address /\ b.size = pool.size
  /\ b.hash = <<>> /\ b.hashed = 0 /\ b.pages = a.pages
  /\ b.accessible = a.accessible /\ b.writable = a.writable
  /\ b.executable = a.executable
  /\ b.flags = IF toHash /\ IsSampled(policy, pool.size) THEN a.flags \cup {"sampled"}
               ELSE a.flags
  /\ entries' = Append(entries, b)
  /\ phase' = IF toHash THEN "hash" ELSE "entries"
  /\ spans' = IF toHash THEN SpansAt(policy, pool.size, 0) ELSE <<>>

LEMMA NextPoolAdds ==
  ASSUME WorldTypes, ScanTypes, NextPool, NEW pool, pool = listed[index], pool.nonpaged
  PROVE  \E toHash \in BOOLEAN, table \in BOOLEAN, a \in EntryType, b \in EntryType :
           Adds(pool, toHash, table, a, b)
  <1>1. phase = "entries" /\ index \in 1 .. Len(listed) /\ listed \in Seq(ListEntry)
    BY DEF NextPool, ScanTypes
  <1>2. pool \in ListEntry
    BY <1>1
  <1>3. PICK toHash \in BOOLEAN : toHash = ("hash" \in held /\ pool.size > 0)
    OBVIOUS
  <1>4. PICK table \in BOOLEAN : table = ("table" \in held)
    <2>1. CASE "table" \in held
      <3>1. TRUE = ("table" \in held)
        BY <2>1
      <3> QED
        BY <3>1, Zenon
    <2>2. CASE "table" \notin held
      <3>1. FALSE = ("table" \in held)
        BY <2>2
      <3> QED
        BY <3>1, Zenon
    <2> QED
      BY <2>1, <2>2
  <1>5. PICK a : a = Annotated(NewEntry(pool), table)
    OBVIOUS
  <1>6. /\ a \in EntryType /\ a \in RawEntry
        /\ a.address = pool.address /\ a.size = pool.size
        /\ a.hash = <<>> /\ a.hashed = 0 /\ "sampled" \notin a.flags
    BY <1>2, <1>5, AnnotatedIs
  <1>7. PICK b : b = IF toHash /\ Sampled(pool)
                     THEN [a EXCEPT !.flags = @ \cup {"sampled"}] ELSE a
    OBVIOUS
  <1>8. Sampled(pool) <=> IsSampled(policy, pool.size)
    BY DEF Sampled, IsSampled
  <1>9. /\ entries' = Append(entries, b)
        /\ phase' = IF toHash THEN "hash" ELSE phase
        /\ spans' = IF toHash THEN Spans(pool.size) ELSE <<>>
    BY <1>3, <1>5, <1>7, <1>4, Zenon DEF NextPool
  <1>10. /\ b \in RawEntry /\ b.address = a.address /\ b.size = a.size
        /\ b.hash = a.hash /\ b.hashed = a.hashed /\ b.pages = a.pages
        /\ b.accessible = a.accessible /\ b.writable = a.writable
        /\ b.executable = a.executable
        /\ b.flags = IF toHash /\ IsSampled(policy, pool.size) THEN a.flags \cup {"sampled"}
                     ELSE a.flags
    <2>1. "sampled" \in Flags
      BY DEF Flags
    <2>2. CASE toHash /\ Sampled(pool)
      <3>1. PICK f : f = a.flags \cup {"sampled"}
        OBVIOUS
      <3>2. b = [a EXCEPT !.flags = f]
        BY <1>7, <2>2, <3>1, Zenon
      <3>3. f \in SUBSET Flags
        BY <1>6, <2>1, <3>1 DEF RawEntry
      <3>4. a \in RawEntry
        BY <1>6
      <3>5. /\ b \in RawEntry /\ b.address = a.address /\ b.size = a.size
            /\ b.hash = a.hash /\ b.hashed = a.hashed /\ b.pages = a.pages
            /\ b.accessible = a.accessible /\ b.writable = a.writable
            /\ b.executable = a.executable /\ b.flags = f
        BY <3>2, <3>3, <3>4 DEF RawEntry
      <3> QED
        BY <1>8, <2>2, <3>1, <3>5
    <2>3. CASE ~(toHash /\ Sampled(pool))
      BY <1>6, <1>7, <1>8, <2>3
    <2> QED
      BY <2>2, <2>3
  <1>11. b \in EntryType
    BY <1>6, <1>10 DEF EntryType, RawEntry
  <1>12. toHash => Spans(pool.size) = SpansAt(policy, pool.size, 0)
    <2>1. pool.size \in Nat
      BY <1>2 DEF ListEntry
    <2>2. toHash => pool.size > 0
      BY <1>3
    <2> QED
      BY <2>1, <2>2, SpansAtFirst DEF WorldTypes
  <1>13. (toHash <=> "hash" \in held /\ pool.size > 0) /\ (table <=> "table" \in held)
    BY <1>3, <1>4, Zenon
  <1>14. /\ b.address = pool.address /\ b.size = pool.size
         /\ b.hash = <<>> /\ b.hashed = 0 /\ b.pages = a.pages
         /\ b.accessible = a.accessible /\ b.writable = a.writable
         /\ b.executable = a.executable
         /\ b.flags = IF toHash /\ IsSampled(policy, pool.size) THEN a.flags \cup {"sampled"}
                      ELSE a.flags
    BY <1>6, <1>10
  <1>15. /\ phase' = IF toHash THEN "hash" ELSE "entries"
         /\ spans' = IF toHash THEN SpansAt(policy, pool.size, 0) ELSE <<>>
    BY <1>1, <1>9, <1>12
  <1>16. a \in EntryType /\ "sampled" \notin a.flags /\ entries' = Append(entries, b)
    BY <1>6, <1>9
  <1> QED
    BY <1>2, <1>5, <1>11, <1>13, <1>14, <1>15, <1>16, Zenon DEF Adds

LEMMA NextPoolScanTypes ==
  ASSUME WorldTypes, ScanTypes, Ranges, NextPool
  PROVE  ScanTypes' /\ Ranges'
  <1>1. /\ phase = "entries" /\ index \in 1 .. Len(listed) /\ index' = index + 1
        /\ UNCHANGED <<held, listed, snapshots, details>> /\ spans = <<>>
    BY DEF NextPool, ScanTypes, Ranges, querying
  <1>2. index' \in 1 .. Len(listed') + 1 /\ index' \in Nat
    BY <1>1 DEF ScanTypes
  <1>3. PICK pool : pool = listed[index]
    OBVIOUS
  <1>4. CASE ~pool.nonpaged
    <2>2. UNCHANGED <<entries, phase, spans>>
      BY <1>3, <1>4 DEF NextPool
    <2> QED
      BY <1>1, <1>2, <2>2 DEF ScanTypes, Ranges
  <1>5. CASE pool.nonpaged
    <2>1. PICK toHash \in BOOLEAN, table \in BOOLEAN, a \in EntryType, b \in EntryType :
            Adds(pool, toHash, table, a, b)
      BY <1>3, <1>5, NextPoolAdds
    <2>2. /\ pool \in ListEntry
          /\ toHash => pool.size > 0
          /\ b.size = pool.size
          /\ entries' = Append(entries, b)
          /\ phase' = IF toHash THEN "hash" ELSE "entries"
          /\ spans' = IF toHash THEN SpansAt(policy, pool.size, 0) ELSE <<>>
      BY <2>1, Zenon DEF Adds
    <2>3. entries' \in Seq(EntryType) /\ entries' # <<>> /\ Last(entries') = b
      BY <2>2, AppendedEntry DEF ScanTypes
    <2>4. Ranges'
      <3>1. CASE toHash
        <4>1. pool.size \in Nat \ {0}
          BY <2>2, <3>1 DEF ListEntry
        <4>2. PICK q \in Policy : q = policy
          BY DEF WorldTypes
        <4>3. 0 \in Places(q, pool.size)
          BY <4>1, <4>2, SpansAtFirst
        <4> QED
          BY <2>2, <2>3, <3>1, <4>2, <4>3 DEF Ranges, This
      <3>2. CASE ~toHash
        BY <2>2, <3>2 DEF Ranges
      <3> QED
        BY <3>1, <3>2
    <2> QED
      BY <1>1, <1>2, <2>2, <2>3, <2>4 DEF ScanTypes
  <1> QED
    BY <1>4, <1>5

\* The entry that is being hashed, with the ranges that are left of it.
LEMMA ThisIs ==
  ASSUME ScanTypes, Ranges, phase = "hash"
  PROVE  \E e \in EntryType : \E q \in Policy : \E p \in Places(q, e.size) :
           /\ e = This /\ spans = SpansAt(q, e.size, p)
           /\ e.size \in Nat /\ p \in Nat /\ p <= e.size
  <1>1. PICK e : e = This
    OBVIOUS
  <1>2. e \in EntryType /\ e.size \in Nat
    <2>1. entries \in Seq(EntryType) /\ entries # <<>>
      BY DEF ScanTypes
    <2>2. Last(entries) \in EntryType
      BY <2>1 DEF Last
    <2> QED
      BY <1>1, <2>2 DEF This, EntryType
  <1>3. PICK q \in Policy, p \in 0 .. e.size :
          p \in Places(q, e.size) /\ spans = SpansAt(q, e.size, p)
    BY <1>1 DEF Ranges, Places
  <1> QED
    BY <1>1, <1>2, <1>3

\* What HashChunk does: the entry is updated when there are bytes, and the
\* place moves.
LEMMA HashChunkDoes ==
  ASSUME WorldTypes, ScanTypes, HashChunk, phase = "hash",
         NEW e \in EntryType, e = This, NEW q \in Policy, NEW p \in Places(q, e.size),
         spans = SpansAt(q, e.size, p)
  PROVE  \E a \in EntryType, after \in Nat :
           /\ a = IF Copies = 0 THEN e ELSE UpdateContentHash(e)
           /\ after = After /\ after >= p /\ p < e.size /\ spans # <<>>
           /\ Source < AddressSpace
           /\ a.size = e.size /\ a.address = e.address /\ a.flags = e.flags
           /\ a.pages = e.pages /\ a.accessible = e.accessible
           /\ a.writable = e.writable /\ a.executable = e.executable
           /\ entries' = [entries EXCEPT ![Len(entries)] = a]
           /\ Landing(q, e.size, p, after) \in Places(q, e.size)
           /\ spans' = SpansAt(q, e.size, Landing(q, e.size, p, after))
  <1>1. spans # <<>> /\ Source < AddressSpace
    BY DEF HashChunk, InHash
  <1>2. memory \in [Addresses -> Byte \cup {Hole}]
    BY DEF WorldTypes
  <1>3. /\ p \in Nat /\ p < e.size
        /\ Copies \in Nat /\ After \in Nat /\ After >= p + Copies
    BY <1>1, <1>2, CopyFacts
  <1>4. PICK after \in Nat : after = After /\ after >= p
    BY <1>3
  <1>5. PICK a : a = IF Copies = 0 THEN e ELSE UpdateContentHash(e)
    OBVIOUS
  <1>6. UpdateContentHash(e) \in EntryType
    BY <1>1, <1>2, UpdatedIs
  <1>7. /\ a \in EntryType /\ a.size = e.size /\ a.address = e.address /\ a.flags = e.flags
        /\ a.pages = e.pages /\ a.accessible = e.accessible
        /\ a.writable = e.writable /\ a.executable = e.executable
    BY <1>1, <1>2, <1>5, <1>6, UpdatedIs
  <1>8. e.size \in Nat
    BY DEF EntryType
  <1>9. entries' = [entries EXCEPT ![Len(entries)] = a]
    <2>1. CASE Copies = 0
      <3>1. entries' = entries /\ a = e
        BY <1>5, <2>1 DEF HashChunk
      <3>2. entries \in Seq(EntryType) /\ entries # <<>>
        BY DEF ScanTypes
      <3>3. entries[Len(entries)] = e
        BY DEF This, Last
      <3> QED
        BY <3>1, <3>2, <3>3
    <2>2. CASE Copies # 0
      BY <1>5, <2>2 DEF HashChunk, Update
    <2> QED
      BY <2>1, <2>2
  <1>10. /\ Landing(q, e.size, p, after) \in Places(q, e.size)
         /\ Moved(spans, after) = SpansAt(q, e.size, Landing(q, e.size, p, after))
    BY <1>3, <1>4, <1>8, Advance
  <1>11. spans' = SpansAt(q, e.size, Landing(q, e.size, p, after))
    BY <1>4, <1>10, Zenon DEF HashChunk, Moved
  <1> QED
    BY <1>1, <1>3, <1>4, <1>5, <1>7, <1>9, <1>10, <1>11

LEMMA HashScanTypes ==
  ASSUME WorldTypes, ScanTypes, Ranges, HashChunk \/ HashOverflows \/ HashEnds
  PROVE  ScanTypes' /\ Ranges'
  <1>1. phase = "hash" /\ UNCHANGED <<held, listed, index, snapshots, details>>
    BY DEF HashChunk, HashOverflows, HashEnds, InHash, querying
  <1>2. PICK e \in EntryType, q \in Policy, p \in Nat :
          /\ p \in Places(q, e.size) /\ e = This /\ spans = SpansAt(q, e.size, p)
          /\ e.size \in Nat /\ p <= e.size
    BY <1>1, ThisIs
  <1>3. entries \in Seq(EntryType) /\ entries # <<>>
    BY <1>1 DEF ScanTypes
  <1>4. CASE HashChunk
    <2>1. PICK a \in EntryType, after \in Nat :
           /\ a.size = e.size
           /\ entries' = [entries EXCEPT ![Len(entries)] = a]
           /\ Landing(q, e.size, p, after) \in Places(q, e.size)
           /\ spans' = SpansAt(q, e.size, Landing(q, e.size, p, after))
      BY <1>1, <1>2, <1>4, HashChunkDoes
    <2>2. entries' \in Seq(EntryType) /\ entries' # <<>> /\ Last(entries') = a
      BY <1>3, <2>1, LastOfEntries
    <2>3. phase' = "hash"
      BY <1>1, <1>4 DEF HashChunk
    <2> QED
      BY <1>1, <2>1, <2>2, <2>3 DEF ScanTypes, Ranges, This
  <1>5. CASE HashOverflows
    <2>1. UNCHANGED <<entries, phase>> /\ spans' = Tail(spans) /\ spans # <<>>
      BY <1>5 DEF HashOverflows, InHash
    <2>2. p < e.size
      BY <1>2, <2>1 DEF SpansAt
    <2>3. e.size >= p
      BY <2>2, <1>2
    <2>4. PICK r : r = Landing(q, e.size, p, e.size)
      OBVIOUS
    <2>5. r \in Places(q, e.size) /\ Tail(spans) = SpansAt(q, e.size, r)
      BY <1>2, <2>2, <2>3, <2>4, Advance
    <2> QED
      BY <1>1, <1>2, <2>1, <2>5 DEF ScanTypes, Ranges, This
  <1>6. CASE HashEnds
    <2>1. phase' = "entries" /\ spans = <<>> /\ spans' = spans
      BY <1>6 DEF HashEnds
    <2>2. PICK f : f = IF e.hashed < e.size THEN e.flags \cup {"sampled"} ELSE e.flags
      OBVIOUS
    <2>3. PICK a : a = [e EXCEPT !.flags = f]
      OBVIOUS
    <2>4. f \in SUBSET Flags
      BY <2>2 DEF EntryType, Flags
    <2>5. a \in EntryType
      <3>1. e \in RawEntry
        BY DEF EntryType, RawEntry
      <3>2. /\ a \in RawEntry /\ a.address = e.address /\ a.size = e.size
            /\ a.pages = e.pages /\ a.accessible = e.accessible
            /\ a.writable = e.writable /\ a.executable = e.executable
        BY <2>3, <2>4, <3>1 DEF RawEntry
      <3> QED
        BY <3>2 DEF EntryType, RawEntry
    <2>6. entries' = [entries EXCEPT ![Len(entries)] = a]
      BY <1>2, <1>6, <2>2, <2>3, Zenon DEF HashEnds, Update
    <2>7. entries' \in Seq(EntryType) /\ entries' # <<>>
      BY <1>3, <2>5, <2>6, LastOfEntries
    <2> QED
      BY <1>1, <2>1, <2>7 DEF ScanTypes, Ranges
  <1> QED
    BY <1>4, <1>5, <1>6

LEMMA ScanTypesKept ==
  ASSUME WorldTypes, ScanTypes, Ranges, [Next]_vars
  PROVE  ScanTypes' /\ Ranges'
  <1>1. CASE ScanBegins
    BY <1>1 DEF ScanBegins, QueryBegins, ScanTypes, Ranges
  <1>2. CASE Query
    BY <1>2, QueryScanTypes
  <1>3. CASE Allocates
    <2>1. /\ phase = "query" /\ phase' = "entries" /\ index' = 1 /\ entries' = <<>>
          /\ UNCHANGED <<listed, spans, snapshots, details>>
      BY <1>3 DEF Allocates, Answered
    <2>2. held' \subseteq {"list", "table", "hash"}
      BY <1>3 DEF Allocates, ScanTypes
    <2>3. entries' \in Seq(EntryType) /\ index' \in 1 .. Len(listed') + 1
      BY <2>1 DEF ScanTypes
    <2> QED
      BY <2>1, <2>2, <2>3 DEF ScanTypes, Ranges
  <1>4. CASE AllocationFails
    BY <1>4 DEF AllocationFails, Answered, ScanTypes, Ranges
  <1>5. CASE NextPool
    BY <1>5, NextPoolScanTypes
  <1>6. CASE ScanEnds
    <2>1. /\ phase = "entries" /\ phase' = "idle" /\ held' = {}
          /\ snapshots' = Append(snapshots, entries)
          /\ UNCHANGED <<listed, index, entries, spans, details>>
      BY <1>6 DEF ScanEnds
    <2>2. snapshots' \in Seq(Seq(EntryType)) /\ Len(snapshots') = Len(snapshots) + 1
      BY <2>1 DEF ScanTypes
    <2>3. Len(snapshots') <= 2
      BY <2>1, <2>2 DEF ScanTypes
    <2> QED
      BY <2>1, <2>2, <2>3 DEF ScanTypes, Ranges
  <1>7. CASE HashChunk \/ HashOverflows \/ HashEnds
    BY <1>7, HashScanTypes
  <1>8. CASE GetPteDetails
    <2>1. /\ phase = "idle" /\ Len(snapshots) = 2 /\ phase' = "asked"
          /\ UNCHANGED <<held, listed, index, entries, spans, snapshots>>
      BY <1>8 DEF GetPteDetails, Asked, querying
    <2>2. Len(details') \in {0, 1}
      <3>1. \E d : details' = <<>> \/ details' = <<d>>
        BY <1>8 DEF GetPteDetails
      <3> QED
        BY <3>1
    <2> QED
      BY <2>1, <2>2 DEF ScanTypes, Ranges
  <1>9. CASE PteDetailsFail
    BY <1>9 DEF PteDetailsFail, Asked, querying, ScanTypes, Ranges
  <1>10. CASE Environment
    <2>1. UNCHANGED <<phase, held, listed, index, entries, spans, snapshots, details>>
      BY <1>10 DEF Environment, ByteChanges, PageTableChanges, PoolsChange, SetHashPolicy,
                   ListChanges, querying, scanned
    <2> QED
      BY <2>1 DEF ScanTypes, Ranges, This
  <1>11. CASE UNCHANGED vars
    BY <1>11 DEF vars, querying, scanned, ScanTypes, Ranges, This
  <1> QED
    BY <1>1, <1>2, <1>3, <1>4, <1>5, <1>6, <1>7, <1>8, <1>9, <1>10, <1>11 DEF Next, Step

LEMMA ScanTypesAtFirst == Init => ScanTypes /\ Ranges
  BY DEF Init, QueryInit, ScanTypes, Ranges

(***************************************************************************)
(* Hashes                                                                  *)
(***************************************************************************)

Counted(e) ==
  IsFiniteSet(Offsets(e)) /\ e.hashed = Min({Cardinality(Offsets(e)), MaxHashed})

\* The offsets of the sample before a place.
Before(q, size, p) == {o \in SampleOf(q, size) : o < p}

\* What is hashed lies there, in whatever state the memory was.
Within(e, q, p) == Offsets(e) \subseteq Before(q, e.size, p) /\ Counted(e)

\* Where the chunk after that at offset o is, when nothing is missing.
NextStart(q, size, o) == Landing(q, size, o, o + Piece(q, size, o))

\* The chunks of a pool that can be read: the first at 0, each where the one
\* before it ends, and the next one would be at p.
Regular(h, q, size, p) ==
  /\ h # <<>> => h[1].offset = 0
  /\ \A k \in 1 .. Len(h) :
       /\ h[k].offset \in Places(q, size) /\ h[k].offset < size
       /\ Len(h[k].bytes) = Piece(q, size, h[k].offset)
  /\ \A k \in 1 .. Len(h) - 1 : h[k + 1].offset = NextStart(q, size, h[k].offset)
  /\ p = IF h = <<>> THEN 0 ELSE NextStart(q, size, h[Len(h)].offset)

Exactly(e, q, p) ==
  Regular(e.hash, q, e.size, p) /\ Offsets(e) = Before(q, e.size, p)

\* The bytes that were hashed are those of this memory.
BytesOf(e, m) ==
  \A k \in 1 .. Len(e.hash) : \A i \in 1 .. Len(e.hash[k].bytes) :
    e.hash[k].bytes[i] = m[e.address + e.hash[k].offset + i - 1]

LEMMA OffsetsAre ==
  ASSUME NEW e, e.hash \in Seq(Chunk)
  PROVE  /\ \A k \in 1 .. Len(e.hash) : \A i \in 1 .. Len(e.hash[k].bytes) :
              e.hash[k].offset + i - 1 \in Offsets(e)
         /\ \A o \in Offsets(e) :
              \E k \in 1 .. Len(e.hash) : \E i \in 1 .. Len(e.hash[k].bytes) :
                o = e.hash[k].offset + i - 1
  <1>1. ToSet(e.hash) = {e.hash[k] : k \in 1 .. Len(e.hash)}
    BY DEF ToSet
  <1>2. \A k \in 1 .. Len(e.hash) : DOMAIN e.hash[k].bytes = 1 .. Len(e.hash[k].bytes)
    <2>1. ASSUME NEW k \in 1 .. Len(e.hash)
          PROVE  DOMAIN e.hash[k].bytes = 1 .. Len(e.hash[k].bytes)
      <3>1. e.hash[k] \in Chunk
        OBVIOUS
      <3> QED
        BY <3>1 DEF Chunk
    <2> QED
      BY <2>1
  <1>3. \A c : c \in ToSet(e.hash) <=> \E k \in 1 .. Len(e.hash) : c = e.hash[k]
    BY <1>1
  <1>4. \A o : o \in Offsets(e) <=> \E c \in ToSet(e.hash) :
                 \E i \in DOMAIN c.bytes : o = c.offset + i - 1
    BY DEF Offsets
  <1>5. ASSUME NEW k \in 1 .. Len(e.hash), NEW i \in 1 .. Len(e.hash[k].bytes)
        PROVE  e.hash[k].offset + i - 1 \in Offsets(e)
    <2>1. PICK c : c = e.hash[k]
      OBVIOUS
    <2>2. c \in ToSet(e.hash) /\ i \in DOMAIN c.bytes
      BY <1>2, <1>3, <2>1, Zenon
    <2> QED
      BY <1>4, <2>1, <2>2
  <1>6. ASSUME NEW o \in Offsets(e)
        PROVE  \E k \in 1 .. Len(e.hash) : \E i \in 1 .. Len(e.hash[k].bytes) :
                 o = e.hash[k].offset + i - 1
    <2>1. PICK c \in ToSet(e.hash) : \E i \in DOMAIN c.bytes : o = c.offset + i - 1
      BY <1>4
    <2>2. PICK k \in 1 .. Len(e.hash) : c = e.hash[k]
      BY <1>3
    <2>3. DOMAIN c.bytes = 1 .. Len(e.hash[k].bytes)
      BY <1>2, <2>2, Zenon
    <2> QED
      BY <2>1, <2>2, <2>3
  <1> QED
    BY <1>5, <1>6

\* A chunk more.
LEMMA OffsetsOfMore ==
  ASSUME NEW e, e.hash \in Seq(Chunk), NEW chunk \in Chunk,
         NEW a, a.hash = Append(e.hash, chunk)
  PROVE  Offsets(a) = Offsets(e) \cup chunk.offset .. chunk.offset + Len(chunk.bytes) - 1
  <1>1. chunk.offset \in Nat /\ Len(chunk.bytes) \in Nat
    BY DEF Chunk
  <1>2. PICK n \in Nat : n = Len(e.hash)
    OBVIOUS
  <1>3. /\ a.hash \in Seq(Chunk) /\ Len(a.hash) = n + 1 /\ a.hash[n + 1] = chunk
        /\ \A k \in 1 .. n : a.hash[k] = e.hash[k]
    BY <1>2
  <1>7. PICK more : more = Offsets(a)
    OBVIOUS
  <1>8. /\ \A k \in 1 .. n + 1 : \A i \in 1 .. Len(a.hash[k].bytes) :
              a.hash[k].offset + i - 1 \in more
        /\ \A o \in more : \E k \in 1 .. n + 1 : \E i \in 1 .. Len(a.hash[k].bytes) :
              o = a.hash[k].offset + i - 1
    <2>1. a.hash \in Seq(Chunk)
      BY <1>3
    <2>2. /\ \A k \in 1 .. Len(a.hash) : \A i \in 1 .. Len(a.hash[k].bytes) :
                a.hash[k].offset + i - 1 \in Offsets(a)
          /\ \A o \in Offsets(a) :
                \E k \in 1 .. Len(a.hash) : \E i \in 1 .. Len(a.hash[k].bytes) :
                  o = a.hash[k].offset + i - 1
      BY <2>1, OffsetsAre
    <2>3. Len(a.hash) = n + 1
      BY <1>3
    <2> QED
      BY <1>7, <2>2, <2>3
  <1>4. ASSUME NEW o \in more
        PROVE  o \in Offsets(e) \cup chunk.offset .. chunk.offset + Len(chunk.bytes) - 1
    <2>1. PICK k \in 1 .. n + 1 : \E i \in 1 .. Len(a.hash[k].bytes) :
            o = a.hash[k].offset + i - 1
      BY <1>8
    <2>2. PICK i \in 1 .. Len(a.hash[k].bytes) : o = a.hash[k].offset + i - 1
      BY <2>1
    <2>3. CASE k = n + 1
      BY <1>1, <1>3, <2>2, <2>3
    <2>4. CASE k # n + 1
      <3>1. k \in 1 .. n
        BY <2>4, <1>2
      <3> QED
        BY <1>2, <1>3, <2>2, <3>1, OffsetsAre
    <2> QED
      BY <2>3, <2>4
  <1>5. ASSUME NEW o \in Offsets(e) PROVE o \in more
    <2>1. PICK k \in 1 .. n : \E i \in 1 .. Len(e.hash[k].bytes) :
            o = e.hash[k].offset + i - 1
      BY <1>2, OffsetsAre
    <2>2. k \in 1 .. n + 1 /\ a.hash[k] = e.hash[k]
      BY <1>2, <1>3, <2>1
    <2>3. PICK i \in 1 .. Len(e.hash[k].bytes) : o = e.hash[k].offset + i - 1
      BY <2>1
    <2>4. i \in 1 .. Len(a.hash[k].bytes) /\ o = a.hash[k].offset + i - 1
      BY <2>2, <2>3
    <2> QED
      BY <1>8, <2>2, <2>4
  <1>6. ASSUME NEW o \in chunk.offset .. chunk.offset + Len(chunk.bytes) - 1
        PROVE  o \in more
    <2>1. o - chunk.offset + 1 \in 1 .. Len(chunk.bytes)
      BY <1>1
    <2>2. o = chunk.offset + (o - chunk.offset + 1) - 1
      BY <1>1
    <2>3. n + 1 \in 1 .. n + 1
      BY <1>2
    <2> QED
      BY <1>3, <1>8, <2>1, <2>2, <2>3
  <1> QED
    BY <1>4, <1>5, <1>6, <1>7

\* A place and the next: what lies between is the piece, and more only where
\* something came short.
LEMMA BeforeGrows ==
  ASSUME NEW q \in Policy, NEW size \in Nat, NEW p \in Places(q, size), p < size,
         NEW n \in Nat, p + n <= End(q, size, p), NEW after \in Nat, after >= p + n
  PROVE  LET next == Landing(q, size, p, after)
         IN  /\ next \in Nat /\ next <= size
             /\ Before(q, size, p) \cup p .. p + n - 1 \subseteq Before(q, size, next)
             /\ after = p + n => Before(q, size, next) = Before(q, size, p) \cup p .. p + n - 1
  <1>1. /\ p \in Nat /\ Half(q) \in Nat \ {0}
        /\ IsSampled(q, size) => Half(q) + Half(q) < size
        /\ IsSampled(q, size) => p < Half(q) \/ p >= size - Half(q)
    BY Halves DEF Places
  <1>2. PICK half \in Nat : half = Half(q)
    BY <1>1
  <1>3. PICK sampled \in BOOLEAN : sampled = IsSampled(q, size)
    BY DEF IsSampled
  <1>4. PICK next : next = Landing(q, size, p, after)
    OBVIOUS
  <1>5. CASE ~sampled
    <2>1. SampleOf(q, size) = 0 .. size - 1
      BY <1>3, <1>5 DEF SampleOf
    <2>2. next = IF after < size THEN after ELSE size
      BY <1>3, <1>4, <1>5 DEF Landing, End
    <2>3. p + n <= size
      BY <1>3, <1>5 DEF End
    <2> QED
      BY <1>1, <1>4, <2>1, <2>2, <2>3 DEF Before
  <1>6. CASE sampled
    <2>1. SampleOf(q, size) = {o \in 0 .. size - 1 : o < half \/ o >= size - half}
      BY <1>2, <1>3, <1>6 DEF SampleOf
    <2>2. next = IF p < half THEN (IF after < half THEN after ELSE size - half)
                 ELSE IF after < size THEN after ELSE size
      BY <1>2, <1>3, <1>4, <1>6 DEF Landing, End
    <2>3. p + n <= IF p < half THEN half ELSE size
      BY <1>2, <1>3, <1>6 DEF End
    <2>4. half + half < size /\ (p < half \/ p >= size - half)
      BY <1>1, <1>2, <1>3, <1>6
    <2> QED
      BY <1>1, <1>4, <2>1, <2>2, <2>3, <2>4 DEF Before
  <1> QED
    BY <1>5, <1>6

\* The count of bytes stops at its largest value, in whatever portions it grows.
LEMMA CountsAdd ==
  ASSUME NEW c \in Nat, NEW n \in Nat, NEW hashed, hashed = Min({c, MaxHashed})
  PROVE  hashed \in Nat /\ Min({hashed + n, MaxHashed}) = Min({c + n, MaxHashed})
  <1>1. MaxHashed \in Nat
    BY SamplesAreOrdered
  <1>2. hashed = IF c <= MaxHashed THEN c ELSE MaxHashed
    BY <1>1, MinOfTwo
  <1>3. hashed \in Nat
    BY <1>1, <1>2
  <1>4. PICK s \in Nat, t \in Nat : s = hashed + n /\ t = c + n
    BY <1>3
  <1>5. Min({s, MaxHashed}) = IF s <= MaxHashed THEN s ELSE MaxHashed
    BY <1>1, MinOfTwo
  <1>6. Min({t, MaxHashed}) = IF t <= MaxHashed THEN t ELSE MaxHashed
    BY <1>1, MinOfTwo
  <1>7. Min({s, MaxHashed}) = Min({t, MaxHashed})
    BY <1>1, <1>2, <1>4, <1>5, <1>6
  <1> QED
    BY <1>3, <1>4, <1>7

LEMMA MoreWithin ==
  ASSUME NEW e \in EntryType, NEW q \in Policy, NEW p \in Nat, NEW next \in Nat,
         Within(e, q, p), NEW n \in Nat, NEW a, Counted(e),
         Offsets(a) = Offsets(e) \cup p .. p + n - 1,
         a.size = e.size, a.hashed = Min({e.hashed + n, MaxHashed}),
         Before(q, e.size, p) \cup p .. p + n - 1 \subseteq Before(q, e.size, next)
  PROVE  Within(a, q, next)
  <1>1. Offsets(e) \subseteq Before(q, e.size, p) /\ IsFiniteSet(Offsets(e))
        /\ e.hashed = Min({Cardinality(Offsets(e)), MaxHashed})
    BY DEF Within, Counted
  <1>2. PICK old, new : old = Offsets(e) /\ new = p .. p + n - 1
    OBVIOUS
  <1>3. IsFiniteSet(new) /\ Cardinality(new) = n
    <2>1. p \in Int /\ p + n - 1 \in Int
      OBVIOUS
    <2>2. IsFiniteSet(p .. p + n - 1)
          /\ Cardinality(p .. p + n - 1) = IF p > p + n - 1 THEN 0 ELSE (p + n - 1) - p + 1
      BY <2>1, FS_Interval
    <2> QED
      BY <1>2, <2>2
  <1>4. old \cap new = {}
    <2>1. \A o \in old : o < p
      BY <1>1, <1>2 DEF Before
    <2>2. \A o \in old : o \in Nat
      BY <1>1, <1>2 DEF Before, SampleOf, EntryType
    <2> QED
      BY <1>2, <2>1, <2>2
  <1>5. /\ IsFiniteSet(old \cup new)
        /\ Cardinality(old \cup new) = Cardinality(old) + Cardinality(new) - Cardinality({})
    BY <1>1, <1>2, <1>3, <1>4, FS_Union
  <1>6. Cardinality(old) \in Nat
    BY <1>1, <1>2, FS_CardinalityType
  <1>7. Cardinality(old \cup new) = Cardinality(old) + n
    BY <1>3, <1>5, <1>6, FS_EmptySet
  <1>8. a.hashed = Min({Cardinality(old \cup new), MaxHashed})
    <2>1. PICK c \in Nat : c = Cardinality(old)
      BY <1>6
    <2>2. PICK hashed : hashed = e.hashed
      OBVIOUS
    <2>3. hashed = Min({c, MaxHashed})
      BY <1>1, <1>2, <2>1, <2>2, Zenon
    <2>4. Min({hashed + n, MaxHashed}) = Min({c + n, MaxHashed})
      BY <2>3, CountsAdd
    <2>5. a.hashed = Min({hashed + n, MaxHashed}) /\ Cardinality(old \cup new) = c + n
      BY <1>7, <2>1, <2>2
    <2> QED
      BY <2>4, <2>5, Zenon
  <1>9. Offsets(a) = old \cup new
    BY <1>2
  <1>10. Offsets(a) \subseteq Before(q, a.size, next)
    BY <1>1
  <1> QED
    BY <1>5, <1>8, <1>9, <1>10 DEF Within, Counted

LEMMA MoreRegular ==
  ASSUME NEW h \in Seq(Chunk), NEW chunk \in Chunk, NEW q \in Policy, NEW size \in Nat,
         NEW p \in Places(q, size), p < size, Regular(h, q, size, p),
         chunk.offset = p, Len(chunk.bytes) = Piece(q, size, p)
  PROVE  Regular(Append(h, chunk), q, size, NextStart(q, size, p))
  <1>1. PICK n \in Nat : n = Len(h)
    OBVIOUS
  <1>2. PICK new : new = Append(h, chunk)
    OBVIOUS
  <1>3. /\ Len(new) = n + 1 /\ new[n + 1] = chunk /\ new # <<>>
        /\ \A k \in 1 .. n : new[k] = h[k]
    BY <1>1, <1>2
  <1>4. h = <<>> <=> n = 0
    BY <1>1
  <1>5. /\ h # <<>> => h[1].offset = 0
        /\ \A k \in 1 .. n :
             /\ h[k].offset \in Places(q, size) /\ h[k].offset < size
             /\ Len(h[k].bytes) = Piece(q, size, h[k].offset)
        /\ \A k \in 1 .. n - 1 : h[k + 1].offset = NextStart(q, size, h[k].offset)
        /\ p = IF h = <<>> THEN 0 ELSE NextStart(q, size, h[n].offset)
    BY <1>1 DEF Regular
  <1>6. new[1].offset = 0
    <2>1. CASE n = 0
      BY <1>3, <1>4, <1>5, <2>1
    <2>2. CASE n # 0
      BY <1>1, <1>3, <1>4, <1>5, <2>2
    <2> QED
      BY <2>1, <2>2
  <1>7. ASSUME NEW k \in 1 .. n + 1
        PROVE  /\ new[k].offset \in Places(q, size) /\ new[k].offset < size
               /\ Len(new[k].bytes) = Piece(q, size, new[k].offset)
    <2>1. CASE k = n + 1
      BY <1>3, <2>1
    <2>2. CASE k # n + 1
      <3>1. k \in 1 .. n
        BY <1>1, <2>2
      <3> QED
        BY <1>3, <1>5, <3>1
    <2> QED
      BY <2>1, <2>2
  <1>8. ASSUME NEW k \in 1 .. n PROVE new[k + 1].offset = NextStart(q, size, new[k].offset)
    <2>1. CASE k = n
      <3>1. n # 0 /\ n \in 1 .. n
        BY <1>1, <2>1
      <3>2. h # <<>>
        BY <1>4, <3>1
      <3>3. p = NextStart(q, size, h[n].offset)
        BY <1>5, <3>2
      <3> QED
        BY <1>3, <2>1, <3>1, <3>3
    <2>2. CASE k # n
      <3>1. k \in 1 .. n - 1 /\ k + 1 \in 1 .. n
        BY <1>1, <2>2
      <3> QED
        BY <1>3, <1>5, <3>1
    <2> QED
      BY <2>1, <2>2
  <1>9. (n + 1) - 1 = n
    BY <1>1
  <1> QED
    BY <1>2, <1>3, <1>6, <1>7, <1>8, <1>9 DEF Regular

LEMMA MoreBytes ==
  ASSUME NEW e, NEW m, e.hash \in Seq(Chunk), NEW chunk \in Chunk, BytesOf(e, m),
         NEW a, a.hash = Append(e.hash, chunk), a.address = e.address,
         \A i \in 1 .. Len(chunk.bytes) :
           chunk.bytes[i] = m[e.address + chunk.offset + i - 1]
  PROVE  BytesOf(a, m)
  <1>1. PICK n \in Nat : n = Len(e.hash)
    OBVIOUS
  <1>2. /\ Len(a.hash) = n + 1 /\ a.hash[n + 1] = chunk
        /\ \A k \in 1 .. n : a.hash[k] = e.hash[k]
    BY <1>1
  <1>3. ASSUME NEW k \in 1 .. n + 1, NEW i \in 1 .. Len(a.hash[k].bytes)
        PROVE  a.hash[k].bytes[i] = m[a.address + a.hash[k].offset + i - 1]
    <2>1. CASE k = n + 1
      BY <1>2, <2>1
    <2>2. CASE k # n + 1
      <3>1. k \in 1 .. n
        BY <1>1, <2>2
      <3>2. a.hash[k] = e.hash[k] /\ i \in 1 .. Len(e.hash[k].bytes)
        BY <1>2, <3>1
      <3> QED
        BY <1>1, <3>1, <3>2 DEF BytesOf
    <2> QED
      BY <2>1, <2>2
  <1> QED
    BY <1>2, <1>3 DEF BytesOf

\* One turn of the loop keeps all of this.
LEMMA HashedFurther ==
  ASSUME memory \in [Addresses -> Byte \cup {Hole}],
         NEW e \in EntryType, This = e, NEW q \in Policy, NEW p \in Places(q, e.size),
         spans = SpansAt(q, e.size, p), spans # <<>>, Source < AddressSpace,
         NEW a \in EntryType, a = IF Copies = 0 THEN e ELSE UpdateContentHash(e),
         NEW after \in Nat, after = After,
         NEW next, next = Landing(q, e.size, p, after)
  PROVE  /\ Within(e, q, p) => Within(a, q, next)
         /\ Whole(e) /\ Exactly(e, q, p) => Exactly(a, q, next)
         /\ BytesOf(e, memory) => BytesOf(a, memory)
  <1>1. /\ p \in Nat /\ p < e.size
        /\ Wanted = Piece(q, e.size, p) /\ Wanted \in Nat \ {0}
        /\ p + Wanted <= End(q, e.size, p)
        /\ Copies \in Nat /\ Copies <= Wanted
        /\ Copied(Source, Copies) \in Seq(Byte \cup {Hole})
        /\ Len(Copied(Source, Copies)) = Copies
        /\ \A i \in 1 .. Copies : Copied(Source, Copies)[i] = memory[e.address + p + i - 1]
        /\ after >= p + Copies
        /\ Whole(e) => Copies = Wanted /\ after = p + Wanted
    BY CopyFacts
  <1>2. PICK n, m : n = Copies /\ m = memory /\ n \in Nat
    BY <1>1
  <1>3. e.size \in Nat /\ e.hash \in Seq(Chunk) /\ e.hashed \in Nat
    BY DEF EntryType
  <1>4. PICK size \in Nat : size = e.size
    BY <1>3
  <1>5. End(q, size, p) \in Nat
    BY <1>4, Halves DEF End
  <1>6. p + n <= End(q, size, p)
    BY <1>1, <1>2, <1>4, <1>5
  <1>7. /\ next \in Nat /\ next <= size
        /\ Before(q, size, p) \cup p .. p + n - 1 \subseteq Before(q, size, next)
        /\ after = p + n => Before(q, size, next) = Before(q, size, p) \cup p .. p + n - 1
    <2>1. p \in Places(q, size) /\ p < size /\ after >= p + n
      BY <1>1, <1>2, <1>4
    <2>2. LET to == Landing(q, size, p, after)
          IN  /\ to \in Nat /\ to <= size
              /\ Before(q, size, p) \cup p .. p + n - 1 \subseteq Before(q, size, to)
              /\ after = p + n => Before(q, size, to) = Before(q, size, p) \cup p .. p + n - 1
      <3>1. n \in Nat /\ p + n <= End(q, size, p)
        BY <1>2, <1>6
      <3> QED
        BY <2>1, <3>1, BeforeGrows
    <2>3. next = Landing(q, size, p, after)
      BY <1>4
    <2> QED
      BY <2>2, <2>3, Zenon
  <1>8. CASE n = 0
    <2>1. a = e /\ ~Whole(e)
      BY <1>1, <1>2, <1>8
    <2>2. Within(e, q, p) => Within(e, q, next)
      BY <1>4, <1>7 DEF Within
    <2> QED
      BY <2>1, <2>2
  <1>9. CASE n # 0
    <2>1. PICK chunk : chunk = [offset |-> p, bytes |-> Copied(Source, Copies)]
      OBVIOUS
    <2>2. /\ chunk \in Chunk /\ a.hash = Append(e.hash, chunk)
          /\ a.hashed = Min({e.hashed + n, MaxHashed})
          /\ a.address = e.address /\ a.size = e.size
      BY <1>2, <1>9, <2>1, UpdatedIs
    <2>3. /\ chunk.offset = p /\ Len(chunk.bytes) = n
          /\ \A i \in 1 .. n : chunk.bytes[i] = m[e.address + chunk.offset + i - 1]
      BY <1>1, <1>2, <2>1
    <2>4. Offsets(a) = Offsets(e) \cup p .. p + n - 1
      BY <1>3, <2>2, <2>3, OffsetsOfMore
    <2>5. ASSUME Within(e, q, p) PROVE Within(a, q, next)
      <3>1. Counted(e)
        BY <2>5 DEF Within
      <3>2. Before(q, e.size, p) \cup p .. p + n - 1 \subseteq Before(q, e.size, next)
        BY <1>4, <1>7, Zenon
      <3>3. p \in Nat /\ n \in Nat /\ next \in Nat
        BY <1>1, <1>2, <1>7
      <3>4. a.size = e.size /\ a.hashed = Min({e.hashed + n, MaxHashed})
        BY <2>2
      <3> QED
        BY <2>4, <2>5, <3>1, <3>2, <3>3, <3>4, MoreWithin, Zenon
    <2>6. ASSUME Whole(e), Exactly(e, q, p) PROVE Exactly(a, q, next)
      <3>1. n = Piece(q, size, p) /\ after = p + n
        BY <1>1, <1>2, <1>4, <2>6
      <3>2. next = NextStart(q, size, p)
        BY <1>4, <3>1 DEF NextStart
      <3>3. Regular(e.hash, q, size, p) /\ Offsets(e) = Before(q, size, p)
        BY <1>4, <2>6 DEF Exactly
      <3>4. p \in Places(q, size) /\ p < size
        BY <1>1, <1>4
      <3>5. Regular(a.hash, q, size, next)
        BY <1>3, <2>2, <2>3, <3>1, <3>2, <3>3, <3>4, MoreRegular
      <3>6. Offsets(a) = Before(q, size, next)
        BY <1>7, <2>4, <3>1, <3>3
      <3> QED
        BY <1>4, <2>2, <3>5, <3>6 DEF Exactly
    <2>7. ASSUME BytesOf(e, m) PROVE BytesOf(a, m)
      BY <1>3, <2>2, <2>3, <2>7, MoreBytes
    <2> QED
      BY <1>2, <2>5, <2>6, <2>7
  <1> QED
    BY <1>8, <1>9

(***************************************************************************)
(* What has happened, and what that leaves alone                           *)
(***************************************************************************)

NoPage == Only(Kinds \ {"page"})
NoPolicy == Only(Kinds \ {"policy"})
NoShortage == Only(Kinds \ {"shortage"})

\* The memory is what it was before, and while a scan runs it is left alone.
Untouched == Only(Kinds \ {"byte", "page"})

Steady ==
  \A k \in DOMAIN happened :
    /\ happened[k].kind # "page"
    /\ happened[k].kind = "byte" => happened[k].between

\* Nothing is forgotten.
LEMMA HistoryGrows ==
  ASSUME WorldTypes, [Next]_vars
  PROVE  /\ bounds' = bounds
         /\ \A k \in DOMAIN happened : k \in DOMAIN happened' /\ happened'[k] = happened[k]
  <1>1. ASSUME bounds' = bounds, NEW kind \in Kinds, Happens(kind)
        PROVE  \A k \in DOMAIN happened : k \in DOMAIN happened' /\ happened'[k] = happened[k]
    BY <1>1, HappensTypes
  <1>2. CASE Environment
    <2>1. bounds' = bounds /\ \E kind \in {"byte", "page", "list", "policy"} : Happens(kind)
      BY <1>2 DEF Environment, ByteChanges, PageTableChanges, PoolsChange, SetHashPolicy
    <2>2. {"byte", "page", "list", "policy"} \subseteq Kinds
      BY DEF Kinds
    <2> QED
      BY <1>1, <2>1, <2>2
  <1>3. CASE Step \/ UNCHANGED vars
    <2>1. bounds' = bounds /\ (UNCHANGED happened \/ Happens("shortage"))
      BY <1>3, StepLeavesTheWorld
    <2>2. "shortage" \in Kinds
      BY DEF Kinds
    <2> QED
      BY <1>1, <2>1, <2>2
  <1> QED
    BY <1>2, <1>3 DEF Next

LEMMA OnlyStays ==
  ASSUME WorldTypes, [Next]_vars, NEW kinds, Only(kinds)'
  PROVE  Only(kinds)
  BY HistoryGrows DEF Only

\* What has happened is in the history.
LEMMA HappenedIsThere ==
  ASSUME WorldTypes, [Next]_vars, NEW kind \in Kinds, Happens(kind)
  PROVE  /\ \A kinds : Only(kinds)' => kind \in kinds
         /\ kind = "page" => ~Steady'
         /\ kind = "byte" /\ ~Between => ~Steady'
  <1>1. bounds' = bounds
    BY HistoryGrows
  <1>2. PICK last : last = Len(happened')
    OBVIOUS
  <1>3. last \in DOMAIN happened' /\ happened'[last].kind = kind
        /\ happened'[last].between = Between
    BY <1>1, <1>2, HappensTypes
  <1>4. PICK b \in BOOLEAN : b = Between
    BY DEF Between
  <1>5. kind = "byte" /\ ~b => ~happened'[last].between
    BY <1>3, <1>4, Zenon
  <1>6. kind = "byte" /\ ~b => ~Steady'
    BY <1>3, <1>5, Zenon DEF Steady
  <1> QED
    BY <1>3, <1>4, <1>6 DEF Only, Steady

LEMMA WhatHappens ==
  ASSUME WorldTypes, [Next]_vars
  PROVE  /\ NoPage' => NoPage /\ ~PageTableChanges
         /\ NoPolicy' => NoPolicy /\ policy' = policy
         /\ NoShortage' => NoShortage /\ ~Happens("shortage")
         /\ Steady' => Steady /\ ~PageTableChanges /\ (memory' = memory \/ Between)
         /\ Untouched' => Untouched /\ memory' = memory
  <1>1. {"byte", "page", "list", "policy", "shortage"} \subseteq Kinds
    BY DEF Kinds
  <1>2. \/ UNCHANGED <<memory, policy>>
        \/ ByteChanges /\ UNCHANGED policy
        \/ PageTableChanges /\ UNCHANGED policy
        \/ SetHashPolicy /\ UNCHANGED memory
    <2>1. CASE Environment
      BY <2>1 DEF Environment, ByteChanges, PageTableChanges, PoolsChange, SetHashPolicy
    <2>2. CASE Step \/ UNCHANGED vars
      BY <2>2, StepLeavesTheWorld
    <2> QED
      BY <2>1, <2>2 DEF Next
  <1>3. PageTableChanges => Happens("page")
    BY DEF PageTableChanges
  <1>4. ByteChanges => Happens("byte")
    BY DEF ByteChanges
  <1>5. SetHashPolicy => Happens("policy")
    BY DEF SetHashPolicy
  <1>6. NoPage' => NoPage /\ ~PageTableChanges
    BY <1>1, <1>3, OnlyStays, HappenedIsThere DEF NoPage
  <1>7. NoPolicy' => NoPolicy /\ policy' = policy
    BY <1>1, <1>2, <1>5, OnlyStays, HappenedIsThere DEF NoPolicy
  <1>8. NoShortage' => NoShortage /\ ~Happens("shortage")
    BY <1>1, OnlyStays, HappenedIsThere DEF NoShortage
  <1>9. Steady' => Steady
    BY HistoryGrows DEF Steady
  <1>10. Steady' => ~PageTableChanges /\ (memory' = memory \/ Between)
    BY <1>1, <1>2, <1>3, <1>4, HappenedIsThere
  <1>11. Untouched' => Untouched /\ memory' = memory
    BY <1>1, <1>2, <1>3, <1>4, OnlyStays, HappenedIsThere DEF Untouched
  <1> QED
    BY <1>6, <1>7, <1>8, <1>9, <1>10, <1>11

(***************************************************************************)
(* What a hash is of                                                       *)
(***************************************************************************)

\* A hash under this policy that has come to place p, m being the memory it
\* is of.
Hashing(e, q, p, m) ==
  /\ Within(e, q, p)
  /\ NoPage /\ Whole(e) => Exactly(e, q, p)
  /\ NoPolicy => q = policy
  /\ Steady => BytesOf(e, m)

\* An entry that is not hashed: an empty pool, or there was no buffer.
IsUnhashed(e) ==
  /\ e.hash = <<>> /\ e.hashed = 0 /\ "sampled" \notin e.flags
  /\ NoShortage => e.size = 0

IsHashed(e, m) ==
  \E q \in Policy :
    /\ Hashing(e, q, e.size, m)
    /\ "sampled" \in e.flags <=> IsSampled(q, e.size) \/ e.hashed < e.size

Settled(e, m) == IsUnhashed(e) \/ IsHashed(e, m)

\* The entry that is being hashed.
InProgress(e, m) ==
  /\ e.size > 0
  /\ \E q \in Policy : \E p \in Places(q, e.size) :
       /\ spans = SpansAt(q, e.size, p)
       /\ Hashing(e, q, p, m)
       /\ "sampled" \in e.flags <=> IsSampled(q, e.size)

\* The memory a scan saw, when nothing changed while it ran.
MemoryOf(k) == IF k = 1 THEN before ELSE memory

\* The entries that are finished.
Done == {k \in DOMAIN entries : phase = "entries" \/ k # Len(entries)}

SnapshotsSettled ==
  \A k \in DOMAIN snapshots : \A e \in ToSet(snapshots[k]) : \A m \in {MemoryOf(k)} :
    Settled(e, m)

EntriesSettled ==
  phase \in {"entries", "hash"} =>
    \A k \in Done : \A e \in {entries[k]} : \A m \in {memory} : Settled(e, m)

BuffersHeld ==
  phase \in {"entries", "hash"} /\ NoShortage => {"table", "hash"} \subseteq held

HashGoesOn == phase = "hash" => \A e \in {This} : \A m \in {memory} : InProgress(e, m)

HashInv ==
  /\ SnapshotsSettled /\ EntriesSettled /\ BuffersHeld /\ HashGoesOn
  /\ Untouched => before = memory

\* A step that does not change the entry keeps what is known of its hash, if
\* the memory is the same or no longer of interest.
LEMMA WholeStays ==
  ASSUME WorldTypes, [Next]_vars, ~PageTableChanges, NEW e, Whole(e)'
  PROVE  Whole(e)
  <1>1. \A a \in Addresses : memory'[a] = Hole <=> memory[a] = Hole
    BY HolesStay
  <1> QED
    BY <1>1 DEF Whole

LEMMA HashingStays ==
  ASSUME WorldTypes, [Next]_vars, NEW e, NEW q, NEW p, NEW m, NEW n,
         Hashing(e, q, p, m), Steady' => n = m
  PROVE  Hashing(e, q, p, n)'
  <1>1. /\ NoPage' => NoPage /\ ~PageTableChanges
        /\ NoPolicy' => NoPolicy /\ policy' = policy
        /\ Steady' => Steady
    BY WhatHappens
  <1>2. NoPage' /\ Whole(e)' => Exactly(e, q, p)
    BY <1>1, WholeStays DEF Hashing
  <1>3. NoPolicy' => q = policy'
    BY <1>1 DEF Hashing
  <1>4. Steady' => BytesOf(e, n)
    BY <1>1 DEF Hashing
  <1>5. Within(e, q, p)
    BY DEF Hashing
  <1> QED
    BY <1>2, <1>3, <1>4, <1>5 DEF Hashing

LEMMA SettledStays ==
  ASSUME WorldTypes, [Next]_vars, NEW e, NEW m, NEW n, Settled(e, m), Steady' => n = m
  PROVE  Settled(e, n)'
  <1>1. CASE IsUnhashed(e)
    <2>1. NoShortage' => NoShortage
      BY WhatHappens
    <2>2. IsUnhashed(e)'
      BY <1>1, <2>1 DEF IsUnhashed
    <2> QED
      BY <2>2 DEF Settled
  <1>2. CASE IsHashed(e, m)
    <2>1. PICK q \in Policy :
            /\ Hashing(e, q, e.size, m)
            /\ "sampled" \in e.flags <=> IsSampled(q, e.size) \/ e.hashed < e.size
      BY <1>2 DEF IsHashed
    <2>2. Hashing(e, q, e.size, n)'
      BY <2>1, HashingStays
    <2>3. IsHashed(e, n)'
      BY <2>1, <2>2 DEF IsHashed
    <2> QED
      BY <2>3 DEF Settled
  <1> QED
    BY <1>1, <1>2 DEF Settled

\* A step that leaves the ranges alone too.
LEMMA InProgressStays ==
  ASSUME WorldTypes, [Next]_vars, NEW e, NEW m, NEW n, InProgress(e, m),
         Steady' => n = m, spans' = spans
  PROVE  InProgress(e, n)'
  <1>1. PICK q \in Policy : \E p \in Places(q, e.size) :
          /\ spans = SpansAt(q, e.size, p)
          /\ Hashing(e, q, p, m)
          /\ "sampled" \in e.flags <=> IsSampled(q, e.size)
    BY DEF InProgress
  <1>2. PICK p \in Places(q, e.size) :
          /\ spans = SpansAt(q, e.size, p)
          /\ Hashing(e, q, p, m)
          /\ "sampled" \in e.flags <=> IsSampled(q, e.size)
    BY <1>1
  <1>3. Hashing(e, q, p, n)'
    BY <1>2, HashingStays
  <1>4. e.size > 0
    BY DEF InProgress
  <1> QED
    BY <1>2, <1>3, <1>4 DEF InProgress

LEMMA WhoChangesSnapshots ==
  ASSUME [Next]_vars
  PROVE  ScanEnds \/ UNCHANGED <<snapshots, before>>
  <1>1. CASE Environment
    BY <1>1 DEF Environment, ByteChanges, PageTableChanges, PoolsChange, SetHashPolicy, scanned
  <1>2. CASE Step /\ ~ScanEnds
    BY <1>2 DEF Step, ScanBegins, Query, Allocates, AllocationFails, NextPool, HashChunk,
                HashOverflows, HashEnds, GetPteDetails, PteDetailsFail, system
  <1>3. CASE UNCHANGED vars
    BY <1>3 DEF vars, scanned, system
  <1> QED
    BY <1>1, <1>2, <1>3 DEF Next

LEMMA EntriesStaySettled ==
  ASSUME WorldTypes, ScanTypes, EntriesSettled, [Next]_vars, phase \in {"entries", "hash"},
         NEW k \in Done, NEW e, e = entries[k], NEW n, n = memory'
  PROVE  Settled(e, n)'
  <1>1. PICK m : m = memory
    OBVIOUS
  <1>2. Settled(e, m)
    BY <1>1 DEF EntriesSettled
  <1>3. Steady' => n = m
    <2>1. ~Between
      BY DEF Between
    <2> QED
      BY <1>1, <2>1, WhatHappens
  <1> QED
    BY <1>2, <1>3, SettledStays

LEMMA SnapshotsSettledKept ==
  ASSUME WorldTypes, ScanTypes, SnapshotsSettled, EntriesSettled, [Next]_vars
  PROVE  SnapshotsSettled'
  <1>1. ASSUME NEW k \in DOMAIN snapshots, NEW e \in ToSet(snapshots[k]), NEW n,
               n = MemoryOf(k)', before' = before \/ snapshots = <<>>
        PROVE  Settled(e, n)'
    <2>1. PICK m : m = MemoryOf(k)
      OBVIOUS
    <2>2. Settled(e, m)
      BY <2>1 DEF SnapshotsSettled
    <2>3. snapshots # <<>> /\ before' = before
      BY <1>1
    <2>4. k # 1 => ~Between
      <3>1. CASE Between
        <4>1. Len(snapshots) = 1
          BY <3>1 DEF Between
        <4> QED
          BY <4>1 DEF ScanTypes
      <3> QED
        BY <3>1
    <2>5. Steady' => memory' = memory \/ Between
      BY WhatHappens
    <2>6. Steady' => n = m
      BY <1>1, <2>1, <2>3, <2>4, <2>5 DEF MemoryOf
    <2> QED
      BY <2>2, <2>6, SettledStays
  <1>2. CASE ScanEnds
    <2>1. /\ phase = "entries" /\ snapshots' = Append(snapshots, entries)
          /\ before' = IF snapshots = <<>> THEN memory ELSE before
          /\ memory' = memory
      BY <1>2 DEF ScanEnds
    <2>2. PICK last \in Nat \ {0} : last = Len(snapshots) + 1
      BY DEF ScanTypes
    <2>3. /\ DOMAIN snapshots' = DOMAIN snapshots \cup {last} /\ snapshots'[last] = entries
          /\ \A k \in DOMAIN snapshots : snapshots'[k] = snapshots[k]
          /\ last = 1 => snapshots = <<>>
      BY <2>1, <2>2 DEF ScanTypes
    <2>4. MemoryOf(last)' = memory
      BY <2>1, <2>3 DEF MemoryOf
    <2>5. PICK now : now = memory'
      OBVIOUS
    <2>6. \A e \in ToSet(entries) : Settled(e, now)'
      <3>1. ASSUME NEW e \in ToSet(entries) PROVE Settled(e, now)'
        <4>1. PICK k \in DOMAIN entries : e = entries[k]
          BY DEF ToSet
        <4>2. k \in Done
          BY <2>1, <4>1 DEF Done
        <4> QED
          BY <2>1, <2>5, <4>1, <4>2, EntriesStaySettled
      <3> QED
        BY <3>1
    <2>7. ASSUME NEW k \in DOMAIN snapshots', NEW e \in ToSet(snapshots'[k]), NEW n,
                 n = MemoryOf(k)'
          PROVE  Settled(e, n)'
      <3>1. CASE k = last
        BY <2>1, <2>3, <2>4, <2>5, <2>6, <2>7, <3>1
      <3>2. CASE k # last
        <4>1. k \in DOMAIN snapshots /\ e \in ToSet(snapshots[k])
          BY <2>3, <2>7, <3>2
        <4> QED
          BY <1>1, <2>1, <2>7, <4>1
      <3> QED
        BY <3>1, <3>2
    <2> QED
      BY <2>7 DEF SnapshotsSettled
  <1>3. CASE UNCHANGED <<snapshots, before>>
    BY <1>1, <1>3 DEF SnapshotsSettled
  <1> QED
    BY <1>2, <1>3, WhoChangesSnapshots

LEMMA BuffersHeldKept ==
  ASSUME WorldTypes, ScanTypes, BuffersHeld, [Next]_vars
  PROVE  BuffersHeld'
  <1>1. NoShortage' => NoShortage /\ ~Happens("shortage")
    BY WhatHappens
  <1>2. CASE Allocates
    <2>1. PICK got \in SUBSET {"table", "hash"} :
            /\ held' = held \cup got
            /\ got = {"table", "hash"} \/ Happens("shortage")
      BY <1>2 DEF Allocates
    <2> QED
      BY <1>1, <2>1 DEF BuffersHeld
  <1>3. CASE NextPool \/ HashChunk \/ HashOverflows \/ HashEnds
    <2>1. phase \in {"entries", "hash"} /\ held' = held
      BY <1>3 DEF NextPool, HashChunk, HashOverflows, HashEnds, InHash, querying
    <2> QED
      BY <1>1, <2>1 DEF BuffersHeld
  <1>4. CASE ScanBegins \/ Query \/ AllocationFails \/ ScanEnds \/ GetPteDetails \/ PteDetailsFail
    <2>1. phase' \notin {"entries", "hash"}
      BY <1>4 DEF ScanBegins, Query, AllocationFails, ScanEnds, GetPteDetails, PteDetailsFail
    <2> QED
      BY <2>1 DEF BuffersHeld
  <1>5. CASE Environment \/ UNCHANGED vars
    <2>1. UNCHANGED <<phase, held>>
      BY <1>5 DEF Environment, ByteChanges, PageTableChanges, PoolsChange, SetHashPolicy,
                  ListChanges, querying, scanned, vars
    <2> QED
      BY <1>1, <2>1 DEF BuffersHeld
  <1> QED
    BY <1>2, <1>3, <1>4, <1>5 DEF Next, Step

\* The hash of a new entry covers nothing yet.
LEMMA HashBegins ==
  ASSUME NEW q \in Policy, NEW m, NEW e \in EntryType, e.hash = <<>>, e.hashed = 0,
         NoPolicy => q = policy
  PROVE  Hashing(e, q, 0, m)
  <1>1. Offsets(e) = {}
    BY DEF Offsets, ToSet
  <1>2. Before(q, e.size, 0) = {}
    BY DEF Before, SampleOf, EntryType
  <1>3. Counted(e)
    <2>1. IsFiniteSet({}) /\ Cardinality({}) = 0
      BY FS_EmptySet
    <2>2. MaxHashed \in Nat /\ 0 \in Nat
      BY SamplesAreOrdered
    <2>3. Min({0, MaxHashed}) = 0
      BY <2>2, MinOfTwo
    <2> QED
      BY <1>1, <2>1, <2>3 DEF Counted
  <1>4. Regular(e.hash, q, e.size, 0)
    <2>1. Len(e.hash) = 0
      OBVIOUS
    <2> QED
      BY <2>1 DEF Regular
  <1>5. BytesOf(e, m)
    BY DEF BytesOf
  <1> QED
    BY <1>1, <1>2, <1>3, <1>4, <1>5 DEF Hashing, Within, Exactly

LEMMA NextPoolHashKept ==
  ASSUME WorldTypes, ScanTypes, EntriesSettled, BuffersHeld, NextPool
  PROVE  EntriesSettled' /\ HashGoesOn'
  <1>1. phase = "entries" /\ UNCHANGED <<memory, policy, held>>
    BY DEF NextPool, system, querying
  <1>2. [Next]_vars
    BY DEF Next, Step
  <1>3. PICK now : now = memory'
    OBVIOUS
  <1>4. \A k \in DOMAIN entries : \A e \in {entries[k]} : Settled(e, now)'
    BY <1>1, <1>2, <1>3, EntriesStaySettled DEF Done
  <1>5. PICK pool : pool = listed[index]
    OBVIOUS
  <1>6. CASE ~pool.nonpaged
    <2>2. UNCHANGED <<entries, phase, spans>>
      BY <1>5, <1>6 DEF NextPool
    <2> QED
      BY <1>1, <1>3, <1>4, <2>2 DEF EntriesSettled, HashGoesOn, Done
  <1>7. CASE pool.nonpaged
    <2>1. PICK toHash \in BOOLEAN, table \in BOOLEAN, a \in EntryType, b \in EntryType :
            Adds(pool, toHash, table, a, b)
      BY <1>5, <1>7, NextPoolAdds
    <2>2. /\ pool \in ListEntry
          /\ toHash <=> "hash" \in held /\ pool.size > 0
          /\ b.size = pool.size
          /\ b.hash = <<>> /\ b.hashed = 0
          /\ "sampled" \in b.flags <=> toHash /\ IsSampled(policy, pool.size)
          /\ entries' = Append(entries, b)
          /\ phase' = IF toHash THEN "hash" ELSE "entries"
          /\ spans' = IF toHash THEN SpansAt(policy, pool.size, 0) ELSE <<>>
      BY <2>1 DEF Adds
    <2>3. pool.size \in Nat
      BY <2>2 DEF ListEntry
    <2>4. PICK last \in Nat \ {0} : last = Len(entries) + 1
      BY DEF ScanTypes
    <2>5. /\ DOMAIN entries' = DOMAIN entries \cup {last} /\ entries'[last] = b
          /\ Len(entries') = last /\ Last(entries') = b
          /\ \A k \in DOMAIN entries : entries'[k] = entries[k]
      <3>1. entries \in Seq(EntryType)
        BY DEF ScanTypes
      <3> QED
        BY <2>2, <2>4, <3>1 DEF Last
    <2>6. CASE toHash
      <3>1. InProgress(b, now)'
        <4>1. PICK q \in Policy : q = policy
          BY DEF WorldTypes
        <4>2. q = policy'
          BY <1>1, <4>1
        <4>3. Hashing(b, q, 0, now)
          BY <2>2, <4>1, HashBegins
        <4>4. Hashing(b, q, 0, now)'
          BY <1>2, <4>3, HashingStays
        <4>5. spans' = SpansAt(q, b.size, 0) /\ ("sampled" \in b.flags <=> IsSampled(q, b.size))
          BY <2>2, <2>6, <4>1
        <4>6. b.size > 0 /\ b.size \in Nat \ {0}
          BY <2>2, <2>3, <2>6
        <4>7. 0 \in Places(q, b.size)
          BY <4>1, <4>6, SpansAtFirst
        <4> QED
          BY <4>4, <4>5, <4>6, <4>7 DEF InProgress
      <3>2. phase' = "hash"
        BY <2>2, <2>6
      <3> QED
        BY <1>3, <1>4, <2>5, <3>1, <3>2 DEF EntriesSettled, HashGoesOn, Done, This
    <2>7. CASE ~toHash
      <3>1. phase' = "entries"
        BY <2>2, <2>7
      <3>2. NoShortage' => NoShortage
        BY <1>2, WhatHappens
      <3>3. NoShortage => "hash" \in held
        BY <1>1 DEF BuffersHeld
      <3>4. NoShortage' => b.size = 0
        BY <2>2, <2>3, <2>7, <3>2, <3>3
      <3>5. "sampled" \notin b.flags
        BY <2>2, <2>7
      <3>6. Settled(b, now)'
        BY <2>2, <3>4, <3>5 DEF Settled, IsUnhashed
      <3> QED
        BY <1>3, <1>4, <2>5, <3>1, <3>6 DEF EntriesSettled, HashGoesOn, Done
    <2> QED
      BY <2>6, <2>7
  <1> QED
    BY <1>6, <1>7

\* The entry that is being hashed, and the ones before it.
LEMMA HashingNow ==
  ASSUME ScanTypes, Ranges, HashGoesOn, phase = "hash"
  PROVE  \E e \in EntryType : \E q \in Policy : \E p \in Places(q, e.size) :
           /\ e = This /\ spans = SpansAt(q, e.size, p)
           /\ e.size > 0 /\ Hashing(e, q, p, memory)
           /\ "sampled" \in e.flags <=> IsSampled(q, e.size)
  <1>1. PICK e \in EntryType : e = This
    BY ThisIs
  <1>2. PICK m : m = memory
    OBVIOUS
  <1>3. InProgress(e, m)
    BY <1>1, <1>2 DEF HashGoesOn
  <1> QED
    BY <1>1, <1>2, <1>3 DEF InProgress

\* When the last entry is replaced the others stay settled.
LEMMA OthersStaySettled ==
  ASSUME WorldTypes, ScanTypes, EntriesSettled, [Next]_vars, phase = "hash",
         NEW a \in EntryType, entries' = [entries EXCEPT ![Len(entries)] = a]
  PROVE  /\ \A k \in DOMAIN entries' : k # Len(entries') =>
              \A e \in {entries'[k]} : \A m \in {memory'} : Settled(e, m)'
         /\ entries'[Len(entries')] = a /\ Last(entries') = a
  <1>1. entries \in Seq(EntryType) /\ entries # <<>>
    BY DEF ScanTypes
  <1>2. PICK last \in Nat : last = Len(entries)
    BY <1>1
  <1>3. /\ Len(entries') = last /\ DOMAIN entries' = DOMAIN entries
        /\ last \in DOMAIN entries /\ entries'[last] = a
        /\ \A k \in DOMAIN entries : k # last => entries'[k] = entries[k]
    BY <1>1, <1>2
  <1>4. ASSUME NEW k \in DOMAIN entries, k # last, NEW e, e = entries[k],
               NEW m, m = memory'
        PROVE  Settled(e, m)'
    <2>1. k \in Done
      BY <1>2, <1>4 DEF Done
    <2> QED
      BY <1>4, <2>1, EntriesStaySettled
  <1> QED
    BY <1>3, <1>4 DEF Last

LEMMA HashChunkKept ==
  ASSUME WorldTypes, ScanTypes, Ranges, EntriesSettled, HashGoesOn, HashChunk
  PROVE  EntriesSettled' /\ HashGoesOn'
  <1>1. phase = "hash" /\ phase' = "hash" /\ memory' = memory
    BY DEF HashChunk, InHash, system
  <1>2. [Next]_vars
    BY DEF Next, Step
  <1>3. PICK e \in EntryType : \E q \in Policy : \E p \in Places(q, e.size) :
           /\ e = This /\ spans = SpansAt(q, e.size, p)
           /\ e.size > 0 /\ Hashing(e, q, p, memory)
           /\ "sampled" \in e.flags <=> IsSampled(q, e.size)
    BY <1>1, HashingNow
  <1>4. PICK q \in Policy : \E p \in Places(q, e.size) :
           /\ e = This /\ spans = SpansAt(q, e.size, p)
           /\ e.size > 0 /\ Hashing(e, q, p, memory)
           /\ "sampled" \in e.flags <=> IsSampled(q, e.size)
    BY <1>3
  <1>5. PICK p \in Places(q, e.size) :
           /\ e = This /\ spans = SpansAt(q, e.size, p)
           /\ e.size > 0 /\ Hashing(e, q, p, memory)
           /\ "sampled" \in e.flags <=> IsSampled(q, e.size)
    BY <1>4
  <1>6. PICK a \in EntryType, after \in Nat :
           /\ a = IF Copies = 0 THEN e ELSE UpdateContentHash(e)
           /\ after = After /\ spans # <<>> /\ Source < AddressSpace
           /\ a.size = e.size /\ a.address = e.address /\ a.flags = e.flags
           /\ entries' = [entries EXCEPT ![Len(entries)] = a]
           /\ Landing(q, e.size, p, after) \in Places(q, e.size)
           /\ spans' = SpansAt(q, e.size, Landing(q, e.size, p, after))
    BY <1>1, <1>5, HashChunkDoes
  <1>7. PICK next : next = Landing(q, e.size, p, after)
    OBVIOUS
  <1>8. PICK m : m = memory
    OBVIOUS
  <1>9. m \in [Addresses -> Byte \cup {Hole}]
    BY <1>8 DEF WorldTypes
  <1>10. /\ Within(e, q, p) => Within(a, q, next)
         /\ Whole(e) /\ Exactly(e, q, p) => Exactly(a, q, next)
         /\ BytesOf(e, m) => BytesOf(a, m)
    BY <1>5, <1>6, <1>7, <1>8, <1>9, HashedFurther
  <1>11. Whole(a) => Whole(e)
    BY <1>6 DEF Whole, Extent
  <1>12. Hashing(a, q, next, m)
    BY <1>5, <1>8, <1>10, <1>11 DEF Hashing
  <1>13. Hashing(a, q, next, m)'
    BY <1>2, <1>12, HashingStays
  <1>14. InProgress(a, m)'
    BY <1>5, <1>6, <1>7, <1>13 DEF InProgress
  <1>15. /\ \A k \in DOMAIN entries' : k # Len(entries') =>
              \A f \in {entries'[k]} : \A n \in {memory'} : Settled(f, n)'
         /\ Last(entries') = a
    BY <1>1, <1>2, <1>6, OthersStaySettled
  <1> QED
    BY <1>1, <1>8, <1>14, <1>15 DEF EntriesSettled, HashGoesOn, Done, This

LEMMA HashOverflowsKept ==
  ASSUME WorldTypes, ScanTypes, Ranges, EntriesSettled, HashGoesOn, HashOverflows
  PROVE  EntriesSettled' /\ HashGoesOn'
  <1>1. /\ phase = "hash" /\ phase' = "hash" /\ memory' = memory /\ entries' = entries
        /\ spans # <<>> /\ Source >= AddressSpace /\ spans' = Tail(spans)
    BY DEF HashOverflows, InHash, system
  <1>2. [Next]_vars
    BY DEF Next, Step
  <1>3. PICK e \in EntryType : \E q \in Policy : \E p \in Places(q, e.size) :
           /\ e = This /\ spans = SpansAt(q, e.size, p)
           /\ e.size > 0 /\ Hashing(e, q, p, memory)
           /\ "sampled" \in e.flags <=> IsSampled(q, e.size)
    BY <1>1, HashingNow
  <1>4. PICK q \in Policy : \E p \in Places(q, e.size) :
           /\ e = This /\ spans = SpansAt(q, e.size, p)
           /\ e.size > 0 /\ Hashing(e, q, p, memory)
           /\ "sampled" \in e.flags <=> IsSampled(q, e.size)
    BY <1>3
  <1>5. PICK p \in Places(q, e.size) :
           /\ e = This /\ spans = SpansAt(q, e.size, p)
           /\ e.size > 0 /\ Hashing(e, q, p, memory)
           /\ "sampled" \in e.flags <=> IsSampled(q, e.size)
    BY <1>4
  <1>6. PICK size \in Nat : size = e.size
    BY DEF EntryType
  <1>7. p \in Nat /\ p < size
    BY <1>1, <1>5, <1>6 DEF Places, SpansAt
  <1>8. PICK next : next = Landing(q, size, p, size)
    OBVIOUS
  <1>9. /\ Head(spans).from = p /\ p < End(q, size, p)
        /\ next \in Places(q, size) /\ Tail(spans) = SpansAt(q, size, next)
    BY <1>5, <1>6, <1>7, <1>8, Advance
  <1>10. ~Whole(e)
    <2>1. e.address \in Nat /\ AddressSpace \in Nat
      BY PagesFillTheAddressSpace DEF EntryType, Addresses
    <2>2. e.address + p >= AddressSpace
      BY <1>1, <1>5, <1>9 DEF Source
    <2>3. e.address + p \in Extent(e)
      BY <1>6, <1>7, <2>1 DEF Extent
    <2>4. e.address + p \notin Addresses
      BY <1>7, <2>1, <2>2 DEF Addresses
    <2> QED
      BY <2>3, <2>4 DEF Whole
  <1>11. Within(e, q, p) => Within(e, q, next)
    <2>1. End(q, size, p) \in Nat
      BY <1>6, Halves DEF End
    <2>2. p + 0 <= End(q, size, p) /\ size >= p + 0
      BY <1>7, <1>9, <2>1
    <2>3. Before(q, size, p) \subseteq Before(q, size, next)
      BY <1>6, <1>7, <1>8, <2>2, BeforeGrows
    <2> QED
      BY <1>6, <2>3 DEF Within
  <1>12. PICK m : m = memory
    OBVIOUS
  <1>13. Hashing(e, q, next, m)
    BY <1>5, <1>10, <1>11, <1>12 DEF Hashing
  <1>14. Hashing(e, q, next, m)'
    BY <1>2, <1>13, HashingStays
  <1>15. InProgress(e, m)'
    BY <1>1, <1>5, <1>6, <1>9, <1>14 DEF InProgress
  <1>16. \A k \in Done : \A f \in {entries[k]} : \A n \in {memory'} : Settled(f, n)'
    BY <1>1, <1>2, EntriesStaySettled
  <1> QED
    BY <1>1, <1>5, <1>12, <1>15, <1>16 DEF EntriesSettled, HashGoesOn, Done, This

LEMMA HashEndsKept ==
  ASSUME WorldTypes, ScanTypes, Ranges, EntriesSettled, HashGoesOn, HashEnds
  PROVE  EntriesSettled' /\ HashGoesOn'
  <1>1. phase = "hash" /\ phase' = "entries" /\ memory' = memory /\ spans = <<>>
    BY DEF HashEnds, system
  <1>2. [Next]_vars
    BY DEF Next, Step
  <1>3. PICK e \in EntryType : \E q \in Policy : \E p \in Places(q, e.size) :
           /\ e = This /\ spans = SpansAt(q, e.size, p)
           /\ e.size > 0 /\ Hashing(e, q, p, memory)
           /\ "sampled" \in e.flags <=> IsSampled(q, e.size)
    BY <1>1, HashingNow
  <1>4. PICK q \in Policy : \E p \in Places(q, e.size) :
           /\ e = This /\ spans = SpansAt(q, e.size, p)
           /\ e.size > 0 /\ Hashing(e, q, p, memory)
           /\ "sampled" \in e.flags <=> IsSampled(q, e.size)
    BY <1>3
  <1>5. PICK p \in Places(q, e.size) :
           /\ e = This /\ spans = SpansAt(q, e.size, p)
           /\ e.size > 0 /\ Hashing(e, q, p, memory)
           /\ "sampled" \in e.flags <=> IsSampled(q, e.size)
    BY <1>4
  <1>6. p = e.size
    BY <1>1, <1>5 DEF SpansAt
  <1>7. PICK f : f = IF e.hashed < e.size THEN e.flags \cup {"sampled"} ELSE e.flags
    OBVIOUS
  <1>8. PICK a : a = [e EXCEPT !.flags = f]
    OBVIOUS
  <1>9. /\ a \in EntryType /\ a.hash = e.hash /\ a.hashed = e.hashed
        /\ a.address = e.address /\ a.size = e.size /\ a.flags = f
    <2>1. f \in SUBSET Flags
      BY <1>7 DEF EntryType, Flags
    <2>2. e \in RawEntry
      BY DEF EntryType, RawEntry
    <2>3. /\ a \in RawEntry /\ a.address = e.address /\ a.size = e.size
          /\ a.pages = e.pages /\ a.accessible = e.accessible
          /\ a.writable = e.writable /\ a.executable = e.executable
          /\ a.hash = e.hash /\ a.hashed = e.hashed /\ a.flags = f
      BY <1>8, <2>1, <2>2 DEF RawEntry
    <2> QED
      BY <2>3 DEF EntryType, RawEntry
  <1>10. entries' = [entries EXCEPT ![Len(entries)] = a]
    BY <1>5, <1>7, <1>8, Zenon DEF HashEnds, Update
  <1>11. PICK m : m = memory
    OBVIOUS
  <1>12. Hashing(a, q, a.size, m)
    <2>1. Offsets(a) = Offsets(e)
      BY <1>9 DEF Offsets
    <2>2. Within(a, q, a.size)
      BY <1>5, <1>6, <1>9, <2>1 DEF Hashing, Within, Counted
    <2>3. NoPage /\ Whole(a) => Exactly(a, q, a.size)
      BY <1>5, <1>6, <1>9, <2>1 DEF Hashing, Exactly, Whole, Extent
    <2>4. Steady => BytesOf(a, m)
      BY <1>5, <1>9, <1>11 DEF Hashing, BytesOf
    <2> QED
      BY <1>5, <2>2, <2>3, <2>4 DEF Hashing
  <1>13. Hashing(a, q, a.size, m)'
    BY <1>2, <1>12, HashingStays
  <1>14. "sampled" \in a.flags <=> IsSampled(q, a.size) \/ a.hashed < a.size
    BY <1>5, <1>7, <1>9
  <1>15. Settled(a, m)'
    BY <1>13, <1>14 DEF Settled, IsHashed
  <1>16. /\ \A k \in DOMAIN entries' : k # Len(entries') =>
              \A g \in {entries'[k]} : \A n \in {memory'} : Settled(g, n)'
         /\ entries'[Len(entries')] = a
    BY <1>1, <1>2, <1>9, <1>10, OthersStaySettled
  <1> QED
    BY <1>1, <1>11, <1>15, <1>16 DEF EntriesSettled, HashGoesOn, Done

LEMMA HashInvKept ==
  ASSUME WorldTypes, ScanTypes, Ranges, HashInv, [Next]_vars
  PROVE  HashInv'
  <1> USE DEF HashInv
  <1>1. SnapshotsSettled'
    BY SnapshotsSettledKept
  <1>2. BuffersHeld'
    BY BuffersHeldKept
  <1>3. Untouched' => before' = memory'
    <2>1. Untouched' => Untouched /\ memory' = memory
      BY WhatHappens
    <2>2. before' = before \/ before' = memory
      <3>1. CASE Environment
        BY <3>1 DEF Environment, ByteChanges, PageTableChanges, PoolsChange, SetHashPolicy
      <3>2. CASE Step \/ UNCHANGED vars
        BY <3>2, StepLeavesTheWorld
      <3> QED
        BY <3>1, <3>2 DEF Next
    <2> QED
      BY <2>1, <2>2
  <1>4. EntriesSettled' /\ HashGoesOn'
    <2>1. CASE NextPool
      BY <2>1, NextPoolHashKept
    <2>2. CASE HashChunk
      BY <2>2, HashChunkKept
    <2>3. CASE HashOverflows
      BY <2>3, HashOverflowsKept
    <2>4. CASE HashEnds
      BY <2>4, HashEndsKept
    <2>5. CASE Allocates
      <3>1. entries' = <<>> /\ phase' = "entries"
        BY <2>5 DEF Allocates
      <3> QED
        BY <3>1 DEF EntriesSettled, HashGoesOn, Done
    <2>6. CASE ScanBegins \/ Query \/ AllocationFails \/ ScanEnds \/ GetPteDetails \/ PteDetailsFail
      <3>1. phase' \notin {"entries", "hash"}
        BY <2>6 DEF ScanBegins, Query, AllocationFails, ScanEnds, GetPteDetails, PteDetailsFail
      <3> QED
        BY <3>1 DEF EntriesSettled, HashGoesOn
    <2>7. CASE Environment \/ UNCHANGED vars
      <3>1. UNCHANGED <<phase, entries, spans>>
        BY <2>7 DEF Environment, ByteChanges, PageTableChanges, PoolsChange, SetHashPolicy,
                    scanned, vars
      <3>2. EntriesSettled'
        <4>1. CASE phase \in {"entries", "hash"}
          <5>1. \A k \in Done : \A e \in {entries[k]} : \A n \in {memory'} : Settled(e, n)'
            BY <4>1, EntriesStaySettled
          <5> QED
            BY <3>1, <5>1 DEF EntriesSettled, Done
        <4>2. CASE phase \notin {"entries", "hash"}
          BY <3>1, <4>2 DEF EntriesSettled
        <4> QED
          BY <4>1, <4>2
      <3>3. HashGoesOn'
        <4>1. CASE phase = "hash"
          <5>1. PICK e, m, n : e = This /\ m = memory /\ n = memory'
            OBVIOUS
          <5>2. InProgress(e, m)
            BY <4>1, <5>1 DEF HashGoesOn
          <5>3. Steady' => n = m
            <6>1. ~Between
              BY <4>1 DEF Between
            <6> QED
              BY <5>1, <6>1, WhatHappens
          <5>4. InProgress(e, n)'
            BY <3>1, <5>2, <5>3, InProgressStays
          <5>5. This' = This
            BY <3>1 DEF This
          <5> QED
            BY <5>1, <5>4, <5>5 DEF HashGoesOn
        <4>2. CASE phase # "hash"
          BY <3>1, <4>2 DEF HashGoesOn
        <4> QED
          BY <4>1, <4>2
      <3> QED
        BY <3>2, <3>3
    <2> QED
      BY <2>1, <2>2, <2>3, <2>4, <2>5, <2>6, <2>7 DEF Next, Step
  <1> QED
    BY <1>1, <1>2, <1>3, <1>4

\* No byte is counted twice: at most all are.
LEMMA AtMostAll ==
  ASSUME NEW q \in Policy, NEW e \in EntryType, NEW p \in Nat, Within(e, q, p)
  PROVE  /\ IsFiniteSet(Offsets(e)) /\ Cardinality(Offsets(e)) \in Nat
         /\ Cardinality(Offsets(e)) <= e.size /\ Offsets(e) \subseteq 0 .. e.size - 1
         /\ e.hashed <= Cardinality(Offsets(e))
  <1>1. PICK size \in Nat, n \in Nat : size = e.size /\ n = e.hashed
    BY DEF EntryType
  <1>2. PICK old : old = Offsets(e)
    OBVIOUS
  <1>3. /\ old \subseteq 0 .. size - 1 /\ IsFiniteSet(old)
        /\ n = Min({Cardinality(old), MaxHashed})
    <2>1. n = Min({Cardinality(old), MaxHashed}) /\ IsFiniteSet(old)
      BY <1>1, <1>2, Zenon DEF Within, Counted
    <2>2. old \subseteq Before(q, size, p)
      BY <1>1, <1>2 DEF Within
    <2>3. Before(q, size, p) \subseteq 0 .. size - 1
      BY DEF Before, SampleOf
    <2> QED
      BY <2>1, <2>2, <2>3
  <1>4. IsFiniteSet(0 .. size - 1) /\ Cardinality(0 .. size - 1) = size
    <2>1. 0 \in Int /\ size - 1 \in Int
      BY <1>1
    <2>2. /\ IsFiniteSet(0 .. size - 1)
          /\ Cardinality(0 .. size - 1) = IF 0 > size - 1 THEN 0 ELSE (size - 1) - 0 + 1
      BY <2>1, FS_Interval
    <2> QED
      BY <1>1, <2>2
  <1>5. Cardinality(old) <= Cardinality(0 .. size - 1) /\ Cardinality(old) \in Nat
    BY <1>3, <1>4, FS_Subset, FS_CardinalityType
  <1>6. PICK c \in Nat : c = Cardinality(old)
    BY <1>5
  <1>7. MaxHashed \in Nat
    BY SamplesAreOrdered
  <1>8. n = IF c <= MaxHashed THEN c ELSE MaxHashed
    BY <1>3, <1>6, <1>7, MinOfTwo
  <1> QED
    BY <1>1, <1>2, <1>3, <1>4, <1>5, <1>6, <1>7, <1>8

LEMMA SettledIsCounted ==
  ASSUME NEW e \in EntryType, NEW m, Settled(e, m) \/ InProgress(e, m)
  PROVE  e.hashed <= e.size
  <1>1. e.size \in Nat /\ e.hashed \in Nat
    BY DEF EntryType
  <1>2. CASE IsUnhashed(e)
    BY <1>1, <1>2 DEF IsUnhashed
  <1>3. CASE ~IsUnhashed(e)
    <2>1. PICK q \in Policy, p \in Nat : Within(e, q, p)
      <3>1. CASE Settled(e, m)
        BY <1>1, <1>3, <3>1 DEF Settled, IsHashed, Hashing
      <3>2. CASE InProgress(e, m)
        <4>1. PICK q \in Policy : \E p \in Places(q, e.size) : Hashing(e, q, p, m)
          BY <3>2 DEF InProgress
        <4>2. Places(q, e.size) \subseteq Nat
          BY <1>1 DEF Places
        <4> QED
          BY <4>1, <4>2 DEF Hashing
      <3> QED
        BY <3>1, <3>2
    <2>2. PICK c \in Nat : c = Cardinality(Offsets(e)) /\ c <= e.size /\ e.hashed <= c
      BY <2>1, AtMostAll
    <2> QED
      BY <1>1, <2>2
  <1> QED
    BY <1>2, <1>3

\* The entries of a scan that is over are not forgotten at once.
EntriesCounted == \A k \in DOMAIN entries : entries[k].hashed <= entries[k].size

Running == phase \in {"entries", "hash"}

LEMMA EntriesAreCounted == ScanTypes /\ HashInv /\ Running => EntriesCounted
  <1> SUFFICES ASSUME ScanTypes, HashInv, Running PROVE EntriesCounted
    OBVIOUS
  <1> USE DEF Running
  <1>1. ASSUME NEW k \in DOMAIN entries PROVE entries[k].hashed <= entries[k].size
    <2>1. PICK e, m : e = entries[k] /\ m = memory
      OBVIOUS
    <2>2. e \in EntryType
      BY <2>1 DEF ScanTypes
    <2>3. Settled(e, m) \/ InProgress(e, m)
      <3>1. CASE k \in Done
        BY <2>1, <3>1 DEF HashInv, EntriesSettled
      <3>2. CASE k \notin Done
        <4>1. phase = "hash" /\ e = This
          BY <2>1, <3>2 DEF Done, This, Last
        <4> QED
          BY <2>1, <4>1 DEF HashInv, HashGoesOn
      <3> QED
        BY <3>1, <3>2
    <2> QED
      BY <2>1, <2>2, <2>3, SettledIsCounted
  <1> QED
    BY <1>1 DEF EntriesCounted

LEMMA EntriesLinger == EntriesCounted /\ [Next]_vars /\ ~Running' => EntriesCounted'
  <1> SUFFICES ASSUME EntriesCounted, [Next]_vars, ~Running' PROVE EntriesCounted'
    OBVIOUS
  <1>1. entries' = entries
    <2>1. CASE ScanBegins \/ Query \/ AllocationFails \/ ScanEnds \/ GetPteDetails \/ PteDetailsFail
      BY <2>1 DEF ScanBegins, Query, AllocationFails, ScanEnds, GetPteDetails, PteDetailsFail
    <2>2. CASE Environment \/ UNCHANGED vars
      BY <2>2 DEF Environment, ByteChanges, PageTableChanges, PoolsChange, SetHashPolicy,
                  scanned, vars
    <2>3. CASE NextPool
      BY <2>3 DEF NextPool, Running
    <2>4. CASE Allocates \/ HashChunk \/ HashOverflows \/ HashEnds
      BY <2>4 DEF Allocates, HashChunk, HashOverflows, HashEnds, InHash, Running
    <2> QED
      BY <2>1, <2>2, <2>3, <2>4 DEF Next, Step
  <1> QED
    BY <1>1 DEF EntriesCounted

(***************************************************************************)
(* The inductive invariant                                                 *)
(***************************************************************************)

ScanInv == WorldTypes /\ TablesRule /\ ScanTypes /\ Ranges /\ HashInv

LEMMA ScanInvHolds == Spec => []ScanInv
  <1>1. Init => ScanInv
    <2> SUFFICES ASSUME Init PROVE ScanInv
      OBVIOUS
    <2>1. WorldTypes /\ TablesRule /\ ScanTypes /\ Ranges
      BY WorldTypesAtFirst, ScanTypesAtFirst
    <2>2. snapshots = <<>> /\ phase = "idle" /\ before = memory
      BY DEF Init
    <2>3. HashInv
      BY <2>2 DEF HashInv, SnapshotsSettled, EntriesSettled, BuffersHeld, HashGoesOn
    <2> QED
      BY <2>1, <2>3 DEF ScanInv
  <1>2. ScanInv /\ [Next]_vars => ScanInv'
    <2> SUFFICES ASSUME ScanInv, [Next]_vars PROVE ScanInv'
      OBVIOUS
    <2>1. WorldTypes /\ TablesRule /\ ScanTypes /\ Ranges /\ HashInv
      BY DEF ScanInv
    <2>2. WorldTypes' /\ TablesRule' /\ ScanTypes' /\ Ranges' /\ HashInv'
      BY <2>1, WorldTypesKept, TablesRuleKept, ScanTypesKept, HashInvKept
    <2> QED
      BY <2>2 DEF ScanInv
  <1> QED
    BY <1>1, <1>2, PTL DEF Spec

LEMMA EntriesCountedHolds == Spec => []EntriesCounted
  <1>1. Init => EntriesCounted
    BY DEF Init, EntriesCounted
  <1>2. ScanInv => ScanTypes /\ HashInv
    BY DEF ScanInv
  <1> QED
    BY <1>1, <1>2, EntriesAreCounted, EntriesLinger, ScanInvHolds, PTL DEF Spec

\* What TypeOK says of an entry.
LEMMA EntryTypeOK ==
  ASSUME NEW e \in EntryType, e.hashed <= e.size
  PROVE  /\ e.pages \in 0 .. Cardinality(Pages)
         /\ {e.accessible, e.writable, e.executable} \subseteq 0 .. e.pages
         /\ e.flags \subseteq Flags
         /\ e.hashed \in 0 .. e.size
  <1>1. e.address \in Addresses /\ e.size \in Nat /\ e.pages = PageCount(e.address, e.size)
    BY DEF EntryType
  <1>2. e.pages \in 0 .. Cardinality(Pages)
    BY <1>1, PagesOfRange
  <1> QED
    BY <1>2 DEF EntryType

(***************************************************************************)
(* Every variable of a scan has values of its type in every reachable      *)
(* state: the list index stays in the list, an entry's counts do not       *)
(* exceed its pages nor the hashed bytes its size, and the ranges that are *)
(* left to hash lie in the pool (ScanBigPoolSnapshot, kn-diff.cpp).        *)
(***************************************************************************)
THEOREM ScanIsTyped == Spec => []TypeOK
  <1>1. QueryInv /\ ScanInv /\ EntriesCounted => TypeOK
    <2> SUFFICES ASSUME QueryInv, ScanInv, EntriesCounted PROVE TypeOK
      OBVIOUS
    <2>1. WorldTypes /\ ScanTypes /\ Ranges /\ SnapshotsSettled
      BY DEF ScanInv, HashInv
    <2>2. /\ bounds \in [changes : Nat, happens : SUBSET Kinds]
          /\ memory \in [Addresses -> Byte \cup {Hole}] /\ WholePages(memory)
          /\ before \in [Addresses -> Byte \cup {Hole}]
          /\ touched \subseteq Addresses
          /\ \A p \in Pages : IsPath(paths[p])
          /\ policy \in Policy /\ pools \in Seq(ListEntry)
          /\ Len(happened) <= bounds.changes
      BY <2>1 DEF WorldTypes
    <2>3. /\ query \in {"off", "asking", "answered", "failed", "retry", "too_big"}
          /\ bufferSize \in 0 .. MaxSize /\ retries \in 0 .. MaxRetries
          /\ peak \in Nat /\ grown \in BOOLEAN
      BY DEF QueryInv, QueryTypes
    <2>4. /\ held \subseteq {"list", "table", "hash"}
          /\ phase \in {"idle", "query", "entries", "hash", "failed", "asked"}
          /\ listed \in Seq(ListEntry) /\ index \in Nat
          /\ phase \in {"entries", "hash"} => index \in 1 .. Len(listed) + 1
          /\ Len(snapshots) <= 2
      BY <2>1 DEF ScanTypes
    <2>5. Len(details) <= 1
      <3>1. PICK n : n = Len(details)
        OBVIOUS
      <3>2. n \in {0, 1}
        BY <2>1, <3>1 DEF ScanTypes
      <3> QED
        BY <3>1, <3>2
    <2>6. ASSUME NEW e \in Entries \cup ToSet(entries)
          PROVE  e \in EntryType /\ e.hashed <= e.size
      <3>1. CASE e \in ToSet(entries)
        BY <2>1, <3>1 DEF ToSet, ScanTypes, EntriesCounted
      <3>2. CASE e \in Entries
        <4>1. PICK k \in DOMAIN snapshots : e \in ToSet(snapshots[k])
          BY <3>2 DEF Entries
        <4>2. snapshots[k] \in Seq(EntryType)
          BY <2>1 DEF ScanTypes
        <4>3. e \in EntryType
          BY <4>1, <4>2 DEF ToSet
        <4>4. PICK m : m = MemoryOf(k)
          OBVIOUS
        <4>5. Settled(e, m)
          BY <2>1, <4>1, <4>4 DEF SnapshotsSettled
        <4> QED
          BY <4>3, <4>5, SettledIsCounted
      <3> QED
        BY <3>1, <3>2
    <2>7. \A e \in Entries \cup ToSet(entries) :
            /\ e.pages \in 0 .. Cardinality(Pages)
            /\ {e.accessible, e.writable, e.executable} \subseteq 0 .. e.pages
            /\ e.flags \subseteq Flags
            /\ e.hashed \in 0 .. e.size
      BY <2>6, EntryTypeOK
    <2>8. \A k \in DOMAIN spans : spans[k].from <= spans[k].to /\ spans[k].to <= This.size
      <3>1. CASE phase = "hash"
        <4>1. PICK e \in EntryType, q \in Policy, p \in Nat :
                /\ e = This /\ spans = SpansAt(q, e.size, p)
                /\ e.size \in Nat /\ p <= e.size
          BY <2>1, <3>1, ThisIs
        <4>2. PICK size \in Nat, half \in Nat : size = e.size /\ half = Half(q)
          BY <4>1, Halves
        <4>3. IsSampled(q, size) => half + half < size
          BY <4>2, Halves
        <4>4. PICK s : s = spans
          OBVIOUS
        <4>5. s = IF p = size THEN <<>>
                  ELSE IF IsSampled(q, size) /\ p < half
                       THEN <<[from |-> p, to |-> half], [from |-> size - half, to |-> size]>>
                       ELSE <<[from |-> p, to |-> size]>>
          BY <4>1, <4>2, <4>4 DEF SpansAt
        <4>6. \A k \in DOMAIN s : s[k].from <= s[k].to /\ s[k].to <= size
          <5>1. CASE s = <<>>
            BY <5>1
          <5>2. CASE s = <<[from |-> p, to |-> size]>>
            BY <4>1, <4>2, <5>2
          <5>3. CASE /\ IsSampled(q, size) /\ p < half
                     /\ s = <<[from |-> p, to |-> half], [from |-> size - half, to |-> size]>>
            <6>1. DOMAIN s = {1, 2}
              BY <5>3
            <6>2. s[1] = [from |-> p, to |-> half] /\ s[2] = [from |-> size - half, to |-> size]
              BY <5>3
            <6>3. p <= half /\ half <= size /\ size - half <= size
              BY <4>2, <4>3, <5>3
            <6> QED
              BY <6>1, <6>2, <6>3
          <5> QED
            BY <4>5, <5>1, <5>2, <5>3
        <4> QED
          BY <4>1, <4>2, <4>4, <4>6
      <3>2. CASE phase # "hash"
        BY <2>1, <3>2 DEF Ranges
      <3> QED
        BY <3>1, <3>2
    <2> QED
      BY <2>2, <2>3, <2>4, <2>5, <2>7, <2>8 DEF TypeOK
  <1> QED
    BY <1>1, QueryInvHolds, ScanInvHolds, EntriesCountedHolds, PTL

\* The bytes the policy asks for are those of its sample.
LEMMA InSampleIs ==
  ASSUME policy \in Policy, NEW size \in Nat
  PROVE  InSample(size) = SampleOf(policy, size)
  <1>1. policy.mode \in {"sample", "full"} /\ policy.sample \in Nat
    BY SamplesAreOrdered DEF Policy
  <1>2. IsSampled(policy, size) <=> ~(policy.mode = "full" \/ size <= policy.sample)
    BY <1>1 DEF IsSampled
  <1> QED
    BY <1>2, Zenon DEF InSample, SampleOf, Half

LEMMA OnlyFewer ==
  ASSUME NEW kinds, NEW more, kinds \subseteq more, Only(kinds)
  PROVE  Only(more)
  BY DEF Only

LEMMA UnhashedOffsets ==
  ASSUME NEW e, e.hash = <<>>
  PROVE  Offsets(e) = {}
  BY DEF Offsets, ToSet

\* An entry of a snapshot.
LEMMA OfSnapshot ==
  ASSUME ScanTypes, SnapshotsSettled, NEW k \in DOMAIN snapshots,
         NEW e \in ToSet(snapshots[k])
  PROVE  e \in EntryType /\ \A m \in {MemoryOf(k)} : Settled(e, m)
  <1>1. snapshots[k] \in Seq(EntryType)
    BY DEF ScanTypes
  <1> QED
    BY <1>1 DEF ToSet, SnapshotsSettled

\* What a settled entry says of its hash.
LEMMA SettledCovers ==
  ASSUME policy \in Policy, NEW e \in EntryType, NEW m, Settled(e, m)
  PROVE  /\ e.hashed = Min({Cardinality(Offsets(e)), MaxHashed})
         /\ e.hash # <<>> /\ "sampled" \notin e.flags => Offsets(e) = 0 .. e.size - 1
         /\ NoPage /\ NoPolicy /\ NoShortage /\ Whole(e) => Offsets(e) = InSample(e.size)
  <1>1. PICK size \in Nat : size = e.size
    BY DEF EntryType
  <1>2. MaxHashed \in Nat
    BY SamplesAreOrdered
  <1>3. CASE IsUnhashed(e)
    <2>1. Offsets(e) = {}
      BY <1>3, UnhashedOffsets DEF IsUnhashed
    <2>2. Cardinality({}) = 0
      BY FS_EmptySet
    <2>3. Min({0, MaxHashed}) = 0
      BY <1>2, MinOfTwo
    <2>4. SampleOf(policy, 0) = {}
      BY DEF SampleOf
    <2>5. NoShortage => InSample(size) = {}
      BY <1>1, <1>3, <2>4, InSampleIs DEF IsUnhashed
    <2> QED
      BY <1>1, <1>3, <2>1, <2>2, <2>3, <2>5, Zenon DEF IsUnhashed
  <1>4. CASE IsHashed(e, m)
    <2>1. PICK q \in Policy :
            /\ Hashing(e, q, size, m)
            /\ "sampled" \in e.flags <=> IsSampled(q, size) \/ e.hashed < size
      BY <1>1, <1>4 DEF IsHashed
    <2>2. Within(e, q, size)
      BY <2>1 DEF Hashing
    <2>3. e.hashed = Min({Cardinality(Offsets(e)), MaxHashed})
      BY <2>2, Zenon DEF Within, Counted
    <2>4. ASSUME "sampled" \notin e.flags PROVE Offsets(e) = 0 .. size - 1
      <3>1. PICK n \in Nat : n = e.hashed
        BY DEF EntryType
      <3>2. n >= size
        BY <2>1, <2>4, <3>1
      <3>3. PICK c \in Nat : c = Cardinality(Offsets(e))
        BY <2>2, AtMostAll
      <3>4. c <= size /\ Offsets(e) \subseteq 0 .. size - 1 /\ n <= c
        BY <1>1, <2>2, <3>1, <3>3, AtMostAll
      <3>5. c = size
        BY <3>2, <3>4, <3>1
      <3>6. IsFiniteSet(0 .. size - 1) /\ Cardinality(0 .. size - 1) = size
        <4>1. 0 \in Int /\ size - 1 \in Int
          BY <1>1
        <4>2. /\ IsFiniteSet(0 .. size - 1)
              /\ Cardinality(0 .. size - 1) = IF 0 > size - 1 THEN 0 ELSE (size - 1) - 0 + 1
          BY <4>1, FS_Interval
        <4> QED
          BY <1>1, <4>2
      <3> QED
        BY <3>3, <3>4, <3>5, <3>6, FS_Subset
    <2>5. ASSUME NoPage, NoPolicy, Whole(e) PROVE Offsets(e) = InSample(size)
      <3>1. Offsets(e) = Before(q, size, size) /\ q = policy
        BY <1>1, <2>1, <2>5 DEF Hashing, Exactly
      <3>2. Before(q, size, size) = SampleOf(q, size)
        BY DEF Before, SampleOf
      <3> QED
        BY <3>1, <3>2, InSampleIs
    <2> QED
      BY <1>1, <2>3, <2>4, <2>5
  <1> QED
    BY <1>3, <1>4 DEF Settled

(***************************************************************************)
(* A content hash covers what its entry says, whatever pages came and went *)
(* while it was made: HashedBytes counts the bytes without counting one    *)
(* twice, a hash that is not marked as sampled is of every byte, and one   *)
(* of a pool that can be read is of what the policy asks for               *)
(* (HashPoolEntryContent, HashPoolEntryRange).                             *)
(***************************************************************************)
THEOREM HashesCoverWhatTheySay == Spec => []HashCoversWhatItSays
  <1>1. ScanInv => HashCoversWhatItSays
    <2> SUFFICES ASSUME ScanInv PROVE HashCoversWhatItSays
      OBVIOUS
    <2>1. ScanTypes /\ SnapshotsSettled /\ policy \in Policy
      BY DEF ScanInv, HashInv, WorldTypes
    <2>2. Only({"byte", "list"}) => NoPage /\ NoPolicy /\ NoShortage
      <3>1. /\ {"byte", "list"} \subseteq Kinds \ {"page"}
            /\ {"byte", "list"} \subseteq Kinds \ {"policy"}
            /\ {"byte", "list"} \subseteq Kinds \ {"shortage"}
        BY DEF Kinds
      <3> QED
        BY <3>1, OnlyFewer DEF NoPage, NoPolicy, NoShortage
    <2>3. ASSUME NEW e \in Entries
          PROVE  /\ e.hashed = Min({Cardinality(Offsets(e)), MaxHashed})
                 /\ e.hash # <<>> /\ "sampled" \notin e.flags => Offsets(e) = 0 .. e.size - 1
                 /\ Only({"byte", "list"}) /\ Whole(e) => Offsets(e) = InSample(e.size)
      <3>1. PICK k \in DOMAIN snapshots : e \in ToSet(snapshots[k])
        BY DEF Entries
      <3>2. PICK m : m = MemoryOf(k)
        OBVIOUS
      <3>3. e \in EntryType /\ Settled(e, m)
        BY <2>1, <3>1, <3>2, OfSnapshot
      <3> QED
        BY <2>1, <2>2, <3>3, SettledCovers, Zenon
    <2> QED
      BY <2>3, Zenon DEF HashCoversWhatItSays
  <1> QED
    BY <1>1, ScanInvHolds, PTL

(***************************************************************************)
(* Two hashes of one pool                                                  *)
(***************************************************************************)

\* Two policies ask for the same bytes of a pool of this size.
Alike(q, r, size) ==
  /\ IsSampled(q, size) <=> IsSampled(r, size)
  /\ IsSampled(q, size) => Half(q) = Half(r)

LEMMA AlikeRegular ==
  ASSUME NEW q \in Policy, NEW r \in Policy, NEW size \in Nat, Alike(q, r, size),
         NEW h, NEW p, Regular(h, r, size, p)
  PROVE  Regular(h, q, size, p) /\ SampleOf(q, size) = SampleOf(r, size)
  <1>1. \A o : End(q, size, o) = End(r, size, o)
    BY DEF Alike, End
  <1>2. \A o : Piece(q, size, o) = Piece(r, size, o)
    <2> TAKE o
    <2>1. PICK end : end = End(q, size, o) /\ end = End(r, size, o)
      BY <1>1
    <2>2. /\ Piece(q, size, o) = IF HashChunkSize <= end - o THEN HashChunkSize ELSE end - o
          /\ Piece(r, size, o) = IF HashChunkSize <= end - o THEN HashChunkSize ELSE end - o
      BY <2>1, Zenon DEF Piece
    <2> QED
      BY <2>2
  <1>3. \A o, after : Landing(q, size, o, after) = Landing(r, size, o, after)
    BY <1>1 DEF Alike, Landing
  <1>4. \A o : NextStart(q, size, o) = NextStart(r, size, o)
    BY <1>2, <1>3, Zenon DEF NextStart
  <1>5. Places(q, size) = Places(r, size)
    BY DEF Alike, Places
  <1>6. SampleOf(q, size) = SampleOf(r, size)
    BY DEF Alike, SampleOf
  <1> QED
    BY <1>2, <1>4, <1>5, <1>6, Zenon DEF Regular

\* The chunks of two hashes of all the bytes begin at the same offsets.
LEMMA OffsetsAgree ==
  ASSUME NEW q \in Policy, NEW size \in Nat, NEW h \in Seq(Chunk), NEW g \in Seq(Chunk),
         NEW p, NEW s, Regular(h, q, size, p), Regular(g, q, size, s)
  PROVE  \A k \in 1 .. Len(h) : k <= Len(g) => h[k].offset = g[k].offset
  <1>1. PICK n \in Nat, l \in Nat : n = Len(h) /\ l = Len(g)
    OBVIOUS
  <1> DEFINE Bad == {k \in 1 .. n : k <= l /\ h[k].offset # g[k].offset}
  <1>2. SUFFICES ASSUME Bad # {} PROVE FALSE
    BY <1>1
  <1>3. Bad \in SUBSET Nat
    OBVIOUS
  <1>4. PICK k \in Bad : \A y \in Bad : k <= y
    <2> HIDE DEF Bad
    <2> QED
      BY <1>2, <1>3, LeastNatural
  <1>5. k \in 1 .. n /\ k <= l /\ h[k].offset # g[k].offset
    OBVIOUS
  <1>6. h # <<>> /\ g # <<>>
    BY <1>1, <1>5
  <1>7. k # 1
    BY <1>5, <1>6 DEF Regular
  <1>8. PICK b \in Nat : b = k - 1
    BY <1>5
  <1>9. b \in 1 .. n - 1 /\ b \in 1 .. l - 1 /\ b + 1 = k /\ b < k
    BY <1>1, <1>5, <1>7, <1>8
  <1>10. b \notin Bad
    <2> HIDE DEF Bad
    <2> QED
      BY <1>4, <1>5, <1>9
  <1>11. h[b].offset = g[b].offset
    BY <1>9, <1>10
  <1>12. /\ h[b + 1].offset = NextStart(q, size, h[b].offset)
         /\ g[b + 1].offset = NextStart(q, size, g[b].offset)
    BY <1>1, <1>9 DEF Regular
  <1> QED
    BY <1>5, <1>9, <1>11, <1>12

\* A hash that has come to the end has no chunk to follow.
LEMMA NoLonger ==
  ASSUME NEW q \in Policy, NEW size \in Nat, NEW h \in Seq(Chunk), NEW g \in Seq(Chunk),
         NEW s, Regular(h, q, size, size), Regular(g, q, size, s)
  PROVE  Len(g) <= Len(h)
  <1>1. PICK n \in Nat, l \in Nat : n = Len(h) /\ l = Len(g)
    OBVIOUS
  <1>2. SUFFICES ASSUME n < l PROVE FALSE
    BY <1>1
  <1>3. n + 1 \in 1 .. l /\ g # <<>>
    BY <1>1, <1>2
  <1>4. g[n + 1].offset < size /\ g[n + 1].offset \in Nat
    BY <1>1, <1>3 DEF Regular, Places
  <1>5. g[n + 1].offset = size
    <2>1. CASE n = 0
      <3>1. h = <<>>
        BY <1>1, <2>1, EmptySeq
      <3>2. size = 0
        BY <3>1, Zenon DEF Regular
      <3>3. g[1].offset = 0
        BY <1>3, Zenon DEF Regular
      <3>4. n + 1 = 1
        BY <2>1
      <3> QED
        BY <3>2, <3>3, <3>4, Zenon
    <2>2. CASE n # 0
      <3>1. n \in 1 .. n /\ n <= l /\ n \in 1 .. l - 1
        BY <1>1, <1>2, <2>2
      <3>2. h[n].offset = g[n].offset
        BY <1>1, <3>1, OffsetsAgree
      <3>3. h # <<>>
        BY <1>1, <2>2
      <3>4. size = NextStart(q, size, h[n].offset)
        BY <1>1, <3>3 DEF Regular
      <3>5. g[n + 1].offset = NextStart(q, size, g[n].offset)
        BY <1>1, <3>1 DEF Regular
      <3> QED
        BY <3>2, <3>4, <3>5
    <2> QED
      BY <2>1, <2>2
  <1> QED
    BY <1>4, <1>5

\* Two whole hashes are equal exactly when the bytes they are of are.
LEMMA HashesAgree ==
  ASSUME NEW q \in Policy, NEW e \in EntryType, NEW f \in EntryType,
         e.address = f.address, e.size = f.size,
         Exactly(e, q, e.size), Exactly(f, q, f.size),
         NEW m, NEW n, BytesOf(e, m), BytesOf(f, n)
  PROVE  e.hash = f.hash <=>
           \A o \in SampleOf(q, e.size) : m[e.address + o] = n[e.address + o]
  <1>1. PICK size \in Nat, start \in Nat : size = e.size /\ start = e.address
    BY PagesFillTheAddressSpace DEF EntryType, Addresses
  <1>2. PICK h \in Seq(Chunk), g \in Seq(Chunk) : h = e.hash /\ g = f.hash
    BY DEF EntryType
  <1>3. Regular(h, q, size, size) /\ Regular(g, q, size, size)
    BY <1>1, <1>2 DEF Exactly
  <1>4. PICK last \in Nat : last = Len(h) /\ last = Len(g)
    BY <1>3, NoLonger
  <1>5. \A k \in 1 .. last : h[k].offset = g[k].offset
    <2>1. \A k \in 1 .. Len(h) : k <= Len(g) => h[k].offset = g[k].offset
      BY <1>3, OffsetsAgree
    <2> QED
      BY <1>4, <2>1
  <1>13. \A k \in 1 .. last : h[k] \in Chunk /\ g[k] \in Chunk
    <2>1. \A k \in 1 .. Len(h) : h[k] \in Chunk
      OBVIOUS
    <2>2. \A k \in 1 .. Len(g) : g[k] \in Chunk
      OBVIOUS
    <2> QED
      BY <1>4, <2>1, <2>2
  <1>6. \A k \in 1 .. last : /\ h[k].offset \in Nat
                             /\ Len(h[k].bytes) = Piece(q, size, h[k].offset)
                             /\ Len(g[k].bytes) = Piece(q, size, g[k].offset)
    BY <1>3, <1>4 DEF Regular, Places
  <1>7. /\ \A k \in 1 .. last : \A i \in 1 .. Len(h[k].bytes) :
             h[k].bytes[i] = m[start + h[k].offset + i - 1]
        /\ \A k \in 1 .. last : \A i \in 1 .. Len(g[k].bytes) :
             g[k].bytes[i] = n[start + g[k].offset + i - 1]
    <2>1. /\ \A k \in 1 .. Len(e.hash) : \A i \in 1 .. Len(e.hash[k].bytes) :
               e.hash[k].bytes[i] = m[e.address + e.hash[k].offset + i - 1]
          /\ \A k \in 1 .. Len(f.hash) : \A i \in 1 .. Len(f.hash[k].bytes) :
               f.hash[k].bytes[i] = n[f.address + f.hash[k].offset + i - 1]
      BY Zenon DEF BytesOf
    <2>2. /\ e.hash = h /\ f.hash = g /\ Len(h) = last /\ Len(g) = last
          /\ e.address = start /\ f.address = start
      BY <1>1, <1>2, <1>4
    <2>3. \A k \in 1 .. last : \A i \in 1 .. Len(h[k].bytes) :
             h[k].bytes[i] = m[start + h[k].offset + i - 1]
      <3> SUFFICES ASSUME NEW k \in 1 .. last, NEW i \in 1 .. Len(h[k].bytes)
                   PROVE  h[k].bytes[i] = m[start + h[k].offset + i - 1]
        OBVIOUS
      <3>1. k \in 1 .. Len(e.hash) /\ i \in 1 .. Len(e.hash[k].bytes)
        BY <2>2
      <3>2. e.hash[k].bytes[i] = m[e.address + e.hash[k].offset + i - 1]
        BY <2>1, <3>1
      <3> QED
        BY <2>2, <3>2
    <2>4. \A k \in 1 .. last : \A i \in 1 .. Len(g[k].bytes) :
             g[k].bytes[i] = n[start + g[k].offset + i - 1]
      <3> SUFFICES ASSUME NEW k \in 1 .. last, NEW i \in 1 .. Len(g[k].bytes)
                   PROVE  g[k].bytes[i] = n[start + g[k].offset + i - 1]
        OBVIOUS
      <3>1. k \in 1 .. Len(f.hash) /\ i \in 1 .. Len(f.hash[k].bytes)
        BY <2>2
      <3>2. f.hash[k].bytes[i] = n[f.address + f.hash[k].offset + i - 1]
        BY <2>1, <3>1
      <3> QED
        BY <2>2, <3>2
    <2> QED
      BY <2>3, <2>4, Zenon
  <1>8. PICK sample : sample = SampleOf(q, size)
    OBVIOUS
  <1>9. Offsets(e) = sample
    <2>1. Before(q, size, size) = SampleOf(q, size)
      BY DEF Before, SampleOf
    <2> QED
      BY <1>1, <1>8, <2>1 DEF Exactly
  <1>10. /\ \A k \in 1 .. last : \A i \in 1 .. Len(h[k].bytes) : h[k].offset + i - 1 \in sample
         /\ \A o \in sample : \E k \in 1 .. last : \E i \in 1 .. Len(h[k].bytes) :
              o = h[k].offset + i - 1
    <2>1. e.hash \in Seq(Chunk)
      BY <1>2
    <2>2. /\ \A k \in 1 .. Len(e.hash) : \A i \in 1 .. Len(e.hash[k].bytes) :
               e.hash[k].offset + i - 1 \in Offsets(e)
          /\ \A o \in Offsets(e) :
               \E k \in 1 .. Len(e.hash) : \E i \in 1 .. Len(e.hash[k].bytes) :
                 o = e.hash[k].offset + i - 1
      BY <2>1, OffsetsAre
    <2> QED
      BY <1>2, <1>4, <1>9, <2>2
  <1>11. ASSUME h = g, NEW o \in sample PROVE m[start + o] = n[start + o]
    <2>1. PICK k \in 1 .. last : \E i \in 1 .. Len(h[k].bytes) : o = h[k].offset + i - 1
      BY <1>10
    <2>2. PICK i \in 1 .. Len(h[k].bytes) : o = h[k].offset + i - 1
      BY <2>1
    <2>3. /\ h[k].bytes[i] = m[start + h[k].offset + i - 1]
          /\ h[k].bytes[i] = n[start + h[k].offset + i - 1]
      BY <1>7, <1>11
    <2>4. start + h[k].offset + i - 1 = start + o
      <3>1. h[k].offset \in Nat /\ Len(h[k].bytes) \in Nat
        BY <1>6, <1>13, <2>1 DEF Chunk
      <3> QED
        BY <2>2, <3>1
    <2> QED
      BY <2>3, <2>4
  <1>12. ASSUME \A o \in sample : m[start + o] = n[start + o] PROVE h = g
    <2>1. ASSUME NEW k \in 1 .. last PROVE h[k] = g[k]
      <3>1. PICK c \in Chunk, d \in Chunk : c = h[k] /\ d = g[k]
        BY <1>13, <2>1
      <3>2. PICK l \in Nat : l = Len(c.bytes)
        BY <3>1 DEF Chunk
      <3>3. c.offset = d.offset /\ Len(d.bytes) = l /\ c.offset \in Nat
        BY <1>5, <1>6, <3>1, <3>2
      <3>4. ASSUME NEW i \in 1 .. l PROVE c.bytes[i] = d.bytes[i]
        <4>1. c.offset + i - 1 \in sample
          BY <1>10, <3>1, <3>2
        <4>2. /\ c.bytes[i] = m[start + c.offset + i - 1]
              /\ d.bytes[i] = n[start + c.offset + i - 1]
          BY <1>7, <3>1, <3>2, <3>3
        <4>3. start + (c.offset + i - 1) = start + c.offset + i - 1
          BY <3>3
        <4> QED
          BY <1>12, <4>1, <4>2, <4>3
      <3>5. c.bytes = d.bytes
        <4>1. c.bytes \in Seq(Byte \cup {Hole}) /\ d.bytes \in Seq(Byte \cup {Hole})
          BY DEF Chunk
        <4> QED
          BY <3>2, <3>3, <3>4, <4>1, SeqEqual
      <3>6. /\ c = [offset |-> c.offset, bytes |-> c.bytes]
            /\ d = [offset |-> d.offset, bytes |-> d.bytes]
        BY DEF Chunk
      <3> QED
        BY <3>1, <3>3, <3>5, <3>6, Zenon
    <2> QED
      BY <1>4, <2>1, SeqEqual
  <1> QED
    BY <1>1, <1>2, <1>8, <1>11, <1>12

LEMMA SizeOfSample ==
  ASSUME NEW q \in Policy, NEW size \in Nat
  PROVE  /\ IsFiniteSet(SampleOf(q, size))
         /\ Cardinality(SampleOf(q, size)) = IF IsSampled(q, size) THEN Half(q) + Half(q)
                                             ELSE size
  <1>1. \A n \in Nat : IsFiniteSet(0 .. n - 1) /\ Cardinality(0 .. n - 1) = n
    <2>1. ASSUME NEW n \in Nat
          PROVE  IsFiniteSet(0 .. n - 1) /\ Cardinality(0 .. n - 1) = n
      <3>1. 0 \in Int /\ n - 1 \in Int
        OBVIOUS
      <3>2. /\ IsFiniteSet(0 .. n - 1)
            /\ Cardinality(0 .. n - 1) = IF 0 > n - 1 THEN 0 ELSE (n - 1) - 0 + 1
        BY <3>1, FS_Interval
      <3> QED
        BY <3>2
    <2> QED
      BY <2>1
  <1>2. CASE ~IsSampled(q, size)
    <2>1. SampleOf(q, size) = 0 .. size - 1
      BY <1>2 DEF SampleOf
    <2> QED
      BY <1>1, <1>2, <2>1
  <1>3. CASE IsSampled(q, size)
    <2>1. PICK half \in Nat : half = Half(q) /\ half + half < size /\ half > 0
      BY <1>3, Halves
    <2>2. PICK head, tail : head = 0 .. half - 1 /\ tail = size - half .. size - 1
      OBVIOUS
    <2>3. SampleOf(q, size) = head \cup tail
      <3>1. SampleOf(q, size) = {o \in 0 .. size - 1 : o < half \/ o >= size - half}
        BY <1>3, <2>1 DEF SampleOf
      <3> QED
        BY <2>1, <2>2, <3>1
    <2>4. head \cap tail = {}
      BY <2>1, <2>2
    <2>5. IsFiniteSet(head) /\ Cardinality(head) = half
      BY <1>1, <2>1, <2>2
    <2>6. IsFiniteSet(tail) /\ Cardinality(tail) = half
      <3>1. size - half \in Int /\ size - 1 \in Int
        BY <2>1
      <3>2. /\ IsFiniteSet(size - half .. size - 1)
            /\ Cardinality(size - half .. size - 1)
                 = IF size - half > size - 1 THEN 0 ELSE (size - 1) - (size - half) + 1
        BY <3>1, FS_Interval
      <3> QED
        BY <2>1, <2>2, <3>2
    <2>7. /\ IsFiniteSet(head \cup tail)
          /\ Cardinality(head \cup tail) = Cardinality(head) + Cardinality(tail) - Cardinality({})
      <3>1. IsFiniteSet(head) /\ IsFiniteSet(tail)
        BY <2>5, <2>6
      <3>2. /\ IsFiniteSet(head \cup tail)
            /\ Cardinality(head \cup tail)
                 = Cardinality(head) + Cardinality(tail) - Cardinality(head \cap tail)
        BY <3>1, FS_Union, Zenon
      <3> QED
        BY <2>4, <3>2, Zenon
    <2>8. Cardinality({}) = 0
      BY FS_EmptySet
    <2>9. Cardinality(head \cup tail) = half + half
      BY <2>5, <2>6, <2>7, <2>8
    <2> QED
      BY <1>3, <2>1, <2>3, <2>7, <2>9
  <1> QED
    BY <1>2, <1>3

\* The count and the mark of a whole hash tell which bytes it is of: a sample
\* is too short for its count to be the largest there is.
LEMMA CountTellsSample ==
  ASSUME NEW q \in Policy, NEW r \in Policy, NEW size \in Nat, NEW hashed,
         hashed = Min({Cardinality(SampleOf(q, size)), MaxHashed}),
         hashed = Min({Cardinality(SampleOf(r, size)), MaxHashed}),
         IsSampled(q, size) \/ hashed < size <=> IsSampled(r, size) \/ hashed < size
  PROVE  Alike(q, r, size)
  <1>1. PICK c \in Nat, d \in Nat :
          /\ c = Cardinality(SampleOf(q, size)) /\ d = Cardinality(SampleOf(r, size))
          /\ c = IF IsSampled(q, size) THEN Half(q) + Half(q) ELSE size
          /\ d = IF IsSampled(r, size) THEN Half(r) + Half(r) ELSE size
    <2>1. /\ Cardinality(SampleOf(q, size)) \in Nat
          /\ Cardinality(SampleOf(r, size)) \in Nat
      BY SizeOfSample, FS_CardinalityType
    <2> QED
      BY <2>1, SizeOfSample
  <1>2. MaxHashed \in Nat
    BY SamplesAreOrdered
  <1>3. /\ hashed = IF c <= MaxHashed THEN c ELSE MaxHashed
        /\ hashed = IF d <= MaxHashed THEN d ELSE MaxHashed
    BY <1>1, <1>2, MinOfTwo
  <1>4. PICK a \in Nat, b \in Nat : a = Half(q) /\ b = Half(r)
    BY Halves
  <1>5. /\ a + a < MaxHashed /\ b + b < MaxHashed
        /\ IsSampled(q, size) => a + a < size
        /\ IsSampled(r, size) => b + b < size
    <2>1. /\ q.sample \in Nat /\ q.sample <= SampleLimit
          /\ r.sample \in Nat /\ r.sample <= SampleLimit
          /\ SampleLimit \in Nat /\ SampleLimit < MaxHashed
      BY SamplesAreOrdered DEF Policy
    <2> QED
      BY <1>2, <1>4, <2>1, Halves DEF Half
  <1>6. PICK s \in BOOLEAN, t \in BOOLEAN :
          (s <=> IsSampled(q, size)) /\ (t <=> IsSampled(r, size))
    BY DEF IsSampled
  <1>7. (s <=> t) /\ (s => a = b)
    <2>1. c = (IF s THEN a + a ELSE size) /\ d = (IF t THEN b + b ELSE size)
      BY <1>1, <1>4, <1>6
    <2>2. PICK n : n = hashed
      OBVIOUS
    <2>3. s \/ n < size <=> t \/ n < size
      BY <1>6, <2>2, Zenon
    <2>4. (s => a + a < size) /\ (t => b + b < size)
      BY <1>5, <1>6
    <2>5. /\ n = IF c <= MaxHashed THEN c ELSE MaxHashed
          /\ n = IF d <= MaxHashed THEN d ELSE MaxHashed
      BY <1>3, <2>2
    <2>6. CASE s /\ t
      BY <1>2, <1>5, <2>1, <2>5, <2>6
    <2>7. CASE s /\ ~t
      BY <1>2, <1>5, <2>1, <2>3, <2>4, <2>5, <2>7
    <2>8. CASE ~s /\ t
      BY <1>2, <1>5, <2>1, <2>3, <2>4, <2>5, <2>8
    <2> QED
      BY <2>6, <2>7, <2>8
  <1> QED
    BY <1>4, <1>6, <1>7 DEF Alike

LEMMA PairsAre ==
  ASSUME ScanInv, NEW pair \in Compared
  PROVE  \E e \in EntryType, f \in EntryType, m \in {before}, n \in {memory} :
           /\ e = pair[1] /\ f = pair[2]
           /\ e.address = f.address /\ e.size = f.size
           /\ Settled(e, m) /\ Settled(f, n)
           /\ Whole(e) => Whole(f)
  <1>1. ScanTypes /\ SnapshotsSettled
    BY DEF ScanInv, HashInv
  <1>2. /\ Len(snapshots) \in Nat /\ DOMAIN snapshots = 1 .. Len(snapshots)
        /\ ~(Len(snapshots) < 2)
    BY <1>1 DEF ScanTypes, Compared
  <1>3. 1 \in DOMAIN snapshots /\ 2 \in DOMAIN snapshots
    BY <1>2
  <1>4. PICK e, f : e = pair[1] /\ f = pair[2]
    OBVIOUS
  <1>5. /\ e \in ToSet(snapshots[1]) /\ f \in ToSet(snapshots[2])
        /\ e.address = f.address /\ e.size = f.size
    BY <1>2, <1>4 DEF Compared
  <1>6. MemoryOf(1) = before /\ MemoryOf(2) = memory
    BY DEF MemoryOf
  <1>7. PICK m \in {before}, n \in {memory} : TRUE
    OBVIOUS
  <1>8. e \in EntryType /\ Settled(e, m)
    BY <1>1, <1>3, <1>5, <1>6, <1>7, OfSnapshot
  <1>9. f \in EntryType /\ Settled(f, n)
    BY <1>1, <1>3, <1>5, <1>6, <1>7, OfSnapshot
  <1>10. Whole(e) => Whole(f)
    BY <1>5 DEF Whole, Extent
  <1> QED
    BY <1>4, <1>5, <1>7, <1>8, <1>9, <1>10

\* The hash of a pool that can be read.
WholeHash(e, q, m) ==
  /\ Exactly(e, q, e.size) /\ BytesOf(e, m)
  /\ e.hashed = Min({Cardinality(SampleOf(q, e.size)), MaxHashed})
  /\ "sampled" \in e.flags <=> IsSampled(q, e.size) \/ e.hashed < e.size
  /\ NoPolicy => q = policy

LEMMA HashedWhole ==
  ASSUME NoPage, Steady, NEW e \in EntryType, Whole(e), NEW m, IsHashed(e, m)
  PROVE  \E q \in Policy : WholeHash(e, q, m)
  <1>1. PICK q \in Policy :
          /\ Hashing(e, q, e.size, m)
          /\ "sampled" \in e.flags <=> IsSampled(q, e.size) \/ e.hashed < e.size
    BY DEF IsHashed
  <1>2. /\ Within(e, q, e.size) /\ Exactly(e, q, e.size) /\ BytesOf(e, m)
        /\ NoPolicy => q = policy
    BY <1>1 DEF Hashing
  <1>3. Before(q, e.size, e.size) = SampleOf(q, e.size)
    <2>1. PICK size \in Nat : size = e.size
      BY DEF EntryType
    <2>2. Before(q, size, size) = SampleOf(q, size)
      BY <2>1 DEF Before, SampleOf
    <2> QED
      BY <2>1, <2>2
  <1>4. Offsets(e) = SampleOf(q, e.size)
    BY <1>2, <1>3 DEF Exactly
  <1>5. e.hashed = Min({Cardinality(SampleOf(q, e.size)), MaxHashed})
    BY <1>2, <1>4, Zenon DEF Within, Counted
  <1> QED
    BY <1>1, <1>2, <1>5 DEF WholeHash

\* Hashes that are compared are of the same bytes.
LEMMA ComparedAgree ==
  ASSUME NEW e \in EntryType, NEW f \in EntryType, NEW q \in Policy, NEW r \in Policy,
         NEW m, NEW n, e.address = f.address, e.size = f.size,
         WholeHash(e, q, m), WholeHash(f, r, n),
         e.hashed = f.hashed, "sampled" \in e.flags <=> "sampled" \in f.flags
  PROVE  e.hash = f.hash <=>
           \A o \in SampleOf(q, e.size) : m[e.address + o] = n[e.address + o]
  <1>1. PICK size \in Nat, hashed \in Nat : size = e.size /\ hashed = e.hashed
    BY DEF EntryType
  <1>2. /\ hashed = Min({Cardinality(SampleOf(q, size)), MaxHashed})
        /\ hashed = Min({Cardinality(SampleOf(r, size)), MaxHashed})
    BY <1>1, Zenon DEF WholeHash
  <1>3. IsSampled(q, size) \/ hashed < size <=> IsSampled(r, size) \/ hashed < size
    BY <1>1, Zenon DEF WholeHash
  <1>4. Alike(q, r, size)
    BY <1>2, <1>3, CountTellsSample
  <1>5. Exactly(f, r, size)
    BY <1>1 DEF WholeHash
  <1>6. /\ Regular(f.hash, q, size, size) /\ SampleOf(q, size) = SampleOf(r, size)
    BY <1>1, <1>4, <1>5, AlikeRegular DEF Exactly
  <1>7. Before(q, size, size) = SampleOf(q, size) /\ Before(r, size, size) = SampleOf(r, size)
    BY DEF Before, SampleOf
  <1>8. Exactly(f, q, f.size)
    BY <1>1, <1>5, <1>6, <1>7 DEF Exactly
  <1>9. Exactly(e, q, e.size) /\ BytesOf(e, m) /\ BytesOf(f, n)
    BY DEF WholeHash
  <1> QED
    BY <1>8, <1>9, HashesAgree

(***************************************************************************)
(* A pool that can be read and that nobody writes to is not reported as    *)
(* changed, whatever the policies its two hashes were made under           *)
(* (HandleSetHashPolicy in the middle of a scan), however the list changed *)
(* and whichever buffer was missing: hashes of different bytes are never   *)
(* compared (EntryContentHashChanged).                                     *)
(***************************************************************************)
THEOREM NoChangeIsInvented == Spec => []NoFalseChange
  <1>1. ScanInv => NoFalseChange
    <2> SUFFICES ASSUME ScanInv, Only({"policy", "list", "shortage"}), NEW pair \in Compared,
                        Whole(pair[1]), EntryContentHashChanged(pair[1], pair[2])
                 PROVE  FALSE
      BY DEF NoFalseChange
    <2>1. NoPage /\ Untouched
      <3>1. /\ {"policy", "list", "shortage"} \subseteq Kinds \ {"page"}
            /\ {"policy", "list", "shortage"} \subseteq Kinds \ {"byte", "page"}
        BY DEF Kinds
      <3> QED
        BY <3>1, OnlyFewer DEF NoPage, Untouched
    <2>2. Steady
      BY DEF Only, Steady
    <2>3. before = memory
      BY <2>1 DEF ScanInv, HashInv
    <2>4. PICK e \in EntryType, f \in EntryType, m \in {before}, n \in {memory} :
           /\ e = pair[1] /\ f = pair[2]
           /\ e.address = f.address /\ e.size = f.size
           /\ Settled(e, m) /\ Settled(f, n)
           /\ Whole(e) => Whole(f)
      BY PairsAre
    <2>5. /\ e.hashed # 0 /\ f.hashed # 0 /\ e.hashed = f.hashed
          /\ "sampled" \in e.flags <=> "sampled" \in f.flags
          /\ e.hash # f.hash
      BY <2>4 DEF EntryContentHashChanged
    <2>6. IsHashed(e, m) /\ IsHashed(f, n) /\ Whole(e) /\ Whole(f)
      BY <2>4, <2>5 DEF Settled, IsUnhashed
    <2>7. PICK q \in Policy : WholeHash(e, q, m)
      BY <2>1, <2>2, <2>6, HashedWhole
    <2>8. PICK r \in Policy : WholeHash(f, r, n)
      BY <2>1, <2>2, <2>6, HashedWhole
    <2>9. e.hash = f.hash <=>
            \A o \in SampleOf(q, e.size) : m[e.address + o] = n[e.address + o]
      BY <2>4, <2>5, <2>7, <2>8, ComparedAgree
    <2>10. m = n
      BY <2>3, <2>4
    <2> QED
      BY <2>5, <2>9, <2>10
  <1> QED
    BY <1>1, ScanInvHolds, PTL

(***************************************************************************)
(* When nothing happens but that bytes change between the two scans, a     *)
(* pool that can be read is reported as changed exactly when a byte that   *)
(* its hashes are of is not what it was (HashPoolEntryContent,             *)
(* EntryContentHashChanged).                                               *)
(***************************************************************************)
THEOREM ChangesAreSeen == Spec => []ChangeIsSeen
  <1>1. ScanInv => ChangeIsSeen
    <2> SUFFICES ASSUME ScanInv,
                        \A k \in DOMAIN happened :
                          happened[k] = [kind |-> "byte", between |-> TRUE],
                        NEW pair \in Compared, Whole(pair[1])
                 PROVE  EntryContentHashChanged(pair[1], pair[2])
                          <=> \E o \in InSample(pair[1].size) :
                                memory[pair[1].address + o] # before[pair[1].address + o]
      BY DEF ChangeIsSeen
    <2>1. NoPage /\ NoPolicy /\ NoShortage
      BY DEF NoPage, NoPolicy, NoShortage, Only, Kinds
    <2>2. Steady
      BY DEF Steady
    <2>3. policy \in Policy
      BY DEF ScanInv, WorldTypes
    <2>4. PICK e \in EntryType, f \in EntryType, m \in {before}, n \in {memory} :
           /\ e = pair[1] /\ f = pair[2]
           /\ e.address = f.address /\ e.size = f.size
           /\ Settled(e, m) /\ Settled(f, n)
           /\ Whole(e) => Whole(f)
      BY PairsAre
    <2>5. PICK size \in Nat, start \in Addresses : size = e.size /\ start = e.address
      BY DEF EntryType
    <2>6. InSample(size) = SampleOf(policy, size)
      BY <2>3, InSampleIs
    <2>7. Whole(e) /\ Whole(f)
      BY <2>4
    <2>8. CASE size = 0
      <3>1. InSample(size) = {}
        BY <2>6, <2>8 DEF SampleOf
      <3>2. e.hashed = 0
        <4>1. CASE IsUnhashed(e)
          BY <4>1 DEF IsUnhashed
        <4>2. CASE IsHashed(e, m)
          <5>1. PICK q \in Policy : WholeHash(e, q, m)
            BY <2>1, <2>2, <2>7, <4>2, HashedWhole
          <5>2. SampleOf(q, size) = {}
            BY <2>8 DEF SampleOf
          <5>3. Cardinality(SampleOf(q, size)) = 0
            BY <5>2, FS_EmptySet
          <5>4. e.hashed = Min({0, MaxHashed})
            BY <2>5, <5>1, <5>3, Zenon DEF WholeHash
          <5>5. MaxHashed \in Nat
            BY SamplesAreOrdered
          <5> QED
            BY <5>4, <5>5, MinOfTwo
        <4> QED
          BY <2>4, <4>1, <4>2 DEF Settled
      <3> QED
        BY <2>4, <2>5, <3>1, <3>2 DEF EntryContentHashChanged
    <2>9. CASE size # 0
      <3>1. IsHashed(e, m) /\ IsHashed(f, n)
        BY <2>1, <2>4, <2>5, <2>9 DEF Settled, IsUnhashed
      <3>2. WholeHash(e, policy, m) /\ WholeHash(f, policy, n)
        <4>1. PICK q \in Policy : WholeHash(e, q, m)
          BY <2>1, <2>2, <2>7, <3>1, HashedWhole
        <4>2. PICK r \in Policy : WholeHash(f, r, n)
          BY <2>1, <2>2, <2>7, <3>1, HashedWhole
        <4>3. q = policy /\ r = policy
          BY <2>1, <4>1, <4>2 DEF WholeHash
        <4> QED
          BY <4>1, <4>2, <4>3
      <3>3. /\ e.hashed = Min({Cardinality(SampleOf(policy, size)), MaxHashed})
            /\ f.hashed = e.hashed
        BY <2>4, <2>5, <3>2, Zenon DEF WholeHash
      <3>4. e.hashed # 0
        <4>1. PICK c \in Nat :
                /\ c = Cardinality(SampleOf(policy, size))
                /\ c = IF IsSampled(policy, size) THEN Half(policy) + Half(policy) ELSE size
          <5>1. Cardinality(SampleOf(policy, size)) \in Nat
            BY <2>3, SizeOfSample, FS_CardinalityType
          <5> QED
            BY <2>3, <5>1, SizeOfSample
        <4>2. c > 0
          <5>1. PICK half \in Nat \ {0} : half = Half(policy)
            BY <2>3, Halves
          <5>2. c = half + half \/ c = size
            BY <4>1, <5>1
          <5>3. half + half > 0
            BY <5>1
          <5>4. size > 0
            BY <2>5, <2>9
          <5> QED
            BY <5>2, <5>3, <5>4
        <4>3. MaxHashed \in Nat /\ MaxHashed > 0
          BY SamplesAreOrdered
        <4>4. e.hashed = Min({c, MaxHashed})
          BY <3>3, <4>1
        <4>5. Min({c, MaxHashed}) = IF c <= MaxHashed THEN c ELSE MaxHashed
          BY <4>3, MinOfTwo
        <4> QED
          BY <4>2, <4>3, <4>4, <4>5
      <3>5. "sampled" \in e.flags <=> "sampled" \in f.flags
        BY <2>4, <3>2, <3>3 DEF WholeHash
      <3>6. e.hash = f.hash <=>
              \A o \in SampleOf(policy, e.size) : m[e.address + o] = n[e.address + o]
        BY <2>3, <2>4, <3>2, <3>3, <3>5, ComparedAgree
      <3>7. EntryContentHashChanged(e, f) <=> e.hash # f.hash
        BY <3>3, <3>4, <3>5 DEF EntryContentHashChanged
      <3>8. EntryContentHashChanged(e, f)
              <=> \E o \in InSample(size) : memory[start + o] # before[start + o]
        BY <2>4, <2>5, <2>6, <3>6, <3>7
      <3> QED
        BY <2>4, <2>5, <3>8
    <2> QED
      BY <2>8, <2>9
  <1> QED
    BY <1>1, ScanInvHolds, PTL

(***************************************************************************)
(* The protection of the pages, when the tables are left alone             *)
(***************************************************************************)

\* The loop over the pages looks at one address of each: there is one.
LEMMA FirstAddresses ==
  ASSUME NEW e, e.address \in Addresses, e.size \in Nat,
         e.pages = PageCount(e.address, e.size), NEW p \in EntryPages(e)
  PROVE  /\ p \in Pages
         /\ Max({e.address, p * PageSize}) \in Addresses
         /\ PageOf(Max({e.address, p * PageSize})) = p
  <1>1. PICK start \in Nat : start = e.address /\ start < AddressSpace
    BY PagesFillTheAddressSpace DEF Addresses
  <1>2. p \in Pages /\ p \in Nat /\ PageOf(start) <= p /\ PageOf(start) \in Nat
    <2>1. e.pages \in Nat /\ PageOf(start) .. PageOf(start) + e.pages - 1 \subseteq Pages
      BY <1>1, PagesOfRange
    <2>2. PageOf(start) \in Nat
      BY <1>1, PageNumbers
    <2>3. p \in PageOf(start) .. PageOf(start) + e.pages - 1
      BY <1>1 DEF EntryPages
    <2> QED
      BY <2>1, <2>2, <2>3
  <1>3. PICK a \in Addresses : PageOf(a) = p
    BY <1>2 DEF Pages
  <1>4. PageSize \in Nat \ {0} /\ AddressSpace \in Nat
    BY PagesFillTheAddressSpace
  <1>5. PICK from \in Nat : from = p * PageSize
    BY <1>2, <1>4
  <1>6. from < AddressSpace
    <2>1. a \in Nat /\ a < AddressSpace
      BY <1>4 DEF Addresses
    <2>2. from <= a
      BY <1>3, <1>5, <2>1, PageNumbers
    <2> QED
      BY <1>4, <1>5, <2>1, <2>2
  <1>7. PageOf(from) = p
    BY <1>2, <1>4, <1>5 DEF PageOf
  <1>8. Max({start, from}) = IF start >= from THEN start ELSE from
    <2> DEFINE m == IF start >= from THEN start ELSE from
    <2>1. m \in {start, from} /\ \A y \in {start, from} : m >= y
      OBVIOUS
    <2>2. \A x \in {start, from} : (\A y \in {start, from} : x >= y) => x = m
      OBVIOUS
    <2>3. \E x \in {start, from} : \A y \in {start, from} : x >= y
      BY <2>1
    <2>4. /\ Max({start, from}) \in {start, from}
          /\ \A y \in {start, from} : Max({start, from}) >= y
      BY <2>3, Zenon DEF Max
    <2> QED
      BY <2>2, <2>4
  <1>9. from <= start => PageOf(start) = p
    BY <1>2, <1>7, PageNumbersGrow
  <1> QED
    BY <1>1, <1>2, <1>4, <1>5, <1>6, <1>7, <1>8, <1>9 DEF Addresses

LEMMA WalkedStays ==
  ASSUME WorldTypes, [Next]_vars, ~PageTableChanges, NEW e \in EntryType
  PROVE  Walked(e)' = Walked(e)
  <1>1. e.address \in Addresses /\ e.size \in Nat /\ e.pages = PageCount(e.address, e.size)
    BY DEF EntryType
  <1>2. paths' = paths /\ \A a \in Addresses : memory'[a] = Hole <=> memory[a] = Hole
    BY HolesStay
  <1>3. \A p \in EntryPages(e) : Max({e.address, p * PageSize}) \in Addresses
    BY <1>1, FirstAddresses
  <1>4. \A p \in EntryPages(e) : IsReadable(e, p)' <=> IsReadable(e, p)
    BY <1>2, <1>3 DEF IsReadable
  <1>5. \A p \in EntryPages(e) :
          (Walk(paths[p]).present /\ IsReadable(e, p))' = (Walk(paths[p]).present /\ IsReadable(e, p))
    BY <1>2, <1>4
  <1> QED
    BY <1>2, <1>5, Zenon DEF Walked

\* The counts and the flags of an entry say what the loop finds.
Says(e) ==
  /\ e.accessible = Cardinality(PagesWith(e, "accessible"))
  /\ e.writable = Cardinality(PagesWith(e, "writable"))
  /\ e.executable = Cardinality(PagesWith(e, "executable"))
  /\ e.flags \ {"sampled"} = WalkFlags(e)

LEMMA SaysStays ==
  ASSUME WorldTypes, [Next]_vars, ~PageTableChanges, NEW e \in EntryType, Says(e)
  PROVE  Says(e)'
  <1>1. Walked(e)' = Walked(e)
    BY WalkedStays
  <1>2. \A what : PagesWith(e, what)' = PagesWith(e, what)
    BY <1>1 DEF PagesWith
  <1>3. \A what : /\ AllOf(e, what)' = AllOf(e, what)
                  /\ SomeOf(e, what)' = SomeOf(e, what)
    BY <1>2, Zenon DEF AllOf, SomeOf
  <1>4. WalkFlags(e)' = WalkFlags(e)
    BY <1>1, <1>3, Zenon DEF WalkFlags, If
  <1> QED
    BY <1>2, <1>4, Zenon DEF Says

\* Another entry of the same pages.
LEMMA SamePages ==
  ASSUME NEW e, NEW a, a.address = e.address, a.pages = e.pages
  PROVE  /\ \A what : PagesWith(a, what) = PagesWith(e, what)
         /\ WalkFlags(a) = WalkFlags(e)
  <1>1. EntryPages(a) = EntryPages(e)
    BY DEF EntryPages
  <1>2. \A p : IsReadable(a, p) = IsReadable(e, p)
    BY DEF IsReadable
  <1>3. Walked(a) = Walked(e)
    BY <1>1, <1>2, Zenon DEF Walked
  <1>4. \A what : PagesWith(a, what) = PagesWith(e, what)
    BY <1>1, <1>3 DEF PagesWith
  <1>5. \A what : AllOf(a, what) = AllOf(e, what) /\ SomeOf(a, what) = SomeOf(e, what)
    BY <1>4, Zenon DEF AllOf, SomeOf
  <1>6. WalkFlags(a) = WalkFlags(e)
    BY <1>3, <1>5, Zenon DEF WalkFlags, If
  <1> QED
    BY <1>4, <1>6

\* What HandleGetPteDetails lists of the pages is what the loop finds of them.
Shows(d) ==
  /\ d.entry \in EntryType /\ Says(d.entry)
  /\ ~d.truncated =>
       /\ DOMAIN d.pages = 1 .. d.entry.pages
       /\ \A k \in DOMAIN d.pages :
            \A w \in {Walked(d.entry)[PageOf(d.entry.address) + k - 1]} :
              /\ d.pages[k].present /\ d.pages[k].readable <=> w.accessible
              /\ d.pages[k].writable <=> w.writable
              /\ d.pages[k].executable <=> w.executable

SnapshotsSay == \A k \in DOMAIN snapshots : \A e \in ToSet(snapshots[k]) : Says(e)

EntriesSay == Running => \A k \in DOMAIN entries : Says(entries[k])

DetailsShow == \A k \in DOMAIN details : Shows(details[k])

PageInv == NoPage /\ NoShortage => SnapshotsSay /\ EntriesSay /\ DetailsShow

LEMMA ShowsStays ==
  ASSUME WorldTypes, [Next]_vars, ~PageTableChanges, NEW d, Shows(d)
  PROVE  Shows(d)'
  <1>1. d.entry \in EntryType /\ Says(d.entry)
    BY DEF Shows
  <1>2. PICK e \in EntryType : e = d.entry
    BY <1>1
  <1>3. Says(e)'
    BY <1>1, <1>2, SaysStays
  <1>4. Walked(e)' = Walked(e)
    BY WalkedStays
  <1> QED
    BY <1>2, <1>3, <1>4, Zenon DEF Shows

LEMMA SnapshotsSayKept ==
  ASSUME WorldTypes, ScanTypes, [Next]_vars, ~PageTableChanges, SnapshotsSay, EntriesSay
  PROVE  SnapshotsSay'
  <1>1. ASSUME NEW e \in EntryType, Says(e) PROVE Says(e)'
    BY <1>1, SaysStays
  <1>2. ASSUME NEW k \in DOMAIN snapshots, NEW e \in ToSet(snapshots[k]) PROVE Says(e)'
    <2>1. snapshots[k] \in Seq(EntryType)
      BY DEF ScanTypes
    <2>2. e \in EntryType
      BY <2>1 DEF ToSet
    <2> QED
      BY <1>1, <2>2 DEF SnapshotsSay
  <1>3. CASE ScanEnds
    <2>1. phase = "entries" /\ snapshots' = Append(snapshots, entries)
      BY <1>3 DEF ScanEnds
    <2>2. PICK last : last = Len(snapshots) + 1
      OBVIOUS
    <2>3. /\ DOMAIN snapshots' = DOMAIN snapshots \cup {last} /\ snapshots'[last] = entries
          /\ \A k \in DOMAIN snapshots : snapshots'[k] = snapshots[k]
      BY <2>1, <2>2 DEF ScanTypes
    <2>4. ASSUME NEW e \in ToSet(entries) PROVE Says(e)'
      <3>1. entries \in Seq(EntryType)
        BY DEF ScanTypes
      <3>2. e \in EntryType /\ Says(e)
        BY <2>1, <3>1 DEF ToSet, EntriesSay, Running
      <3> QED
        BY <1>1, <3>2
    <2> QED
      BY <1>2, <2>3, <2>4 DEF SnapshotsSay
  <1>4. CASE UNCHANGED snapshots
    BY <1>2, <1>4 DEF SnapshotsSay
  <1> QED
    BY <1>3, <1>4, WhoChangesSnapshots

\* The last entry is replaced by one of the same pages.
LEMMA ReplacedSays ==
  ASSUME WorldTypes, ScanTypes, [Next]_vars, ~PageTableChanges, EntriesSay, Running,
         entries # <<>>, NEW e \in EntryType, e = This, NEW a \in EntryType,
         entries' = [entries EXCEPT ![Len(entries)] = a],
         a.address = e.address, a.pages = e.pages,
         a.accessible = e.accessible, a.writable = e.writable, a.executable = e.executable,
         a.flags \ {"sampled"} = e.flags \ {"sampled"}
  PROVE  EntriesSay'
  <1>1. entries \in Seq(EntryType)
    BY DEF ScanTypes
  <1>2. PICK last \in Nat \ {0} : last = Len(entries) /\ DOMAIN entries = 1 .. last
    BY <1>1
  <1>3. e = entries[last]
    BY <1>2 DEF This, Last
  <1>4. /\ DOMAIN entries' = 1 .. last /\ entries'[last] = a
        /\ \A k \in 1 .. last : k # last => entries'[k] = entries[k]
    BY <1>1, <1>2
  <1>5. \A k \in 1 .. last : entries[k] \in EntryType /\ Says(entries[k])
    BY <1>1, <1>2 DEF EntriesSay
  <1>6. ASSUME NEW f \in EntryType, Says(f) PROVE Says(f)'
    BY <1>6, SaysStays
  <1>7. Says(a)'
    <2>1. Says(e)
      BY <1>2, <1>3, <1>5
    <2>2. Says(a)
      BY <2>1, SamePages, Zenon DEF Says
    <2> QED
      BY <1>6, <2>2
  <1>8. \A k \in 1 .. last : \A f \in {entries'[k]} : Says(f)'
    <2>1. ASSUME NEW k \in 1 .. last, k # last, NEW f, f = entries'[k] PROVE Says(f)'
      <3>1. f = entries[k]
        BY <1>4, <2>1
      <3> QED
        BY <1>5, <1>6, <3>1
    <2> QED
      BY <1>4, <1>7, <2>1
  <1>9. PICK new : new = entries'
    OBVIOUS
  <1>10. \A k \in DOMAIN new : \A f \in {new[k]} : Says(f)'
    BY <1>4, <1>8, <1>9
  <1> QED
    BY <1>9, <1>10 DEF EntriesSay

\* A new entry says what the loop found, when there was a table to walk with.
LEMMA NextPoolSays ==
  ASSUME WorldTypes, ScanTypes, EntriesSay, BuffersHeld, NoShortage, NextPool,
         ~PageTableChanges
  PROVE  EntriesSay'
  <1>1. [Next]_vars /\ Running
    BY DEF Next, Step, NextPool, Running
  <1>2. \A f \in EntryType : Says(f) => Says(f)'
    BY <1>1, SaysStays
  <1>3. entries \in Seq(EntryType) /\ \A k \in DOMAIN entries : Says(entries[k])
    BY <1>1 DEF ScanTypes, EntriesSay
  <1>4. \A k \in DOMAIN entries : \A f \in {entries[k]} : Says(f)'
    BY <1>2, <1>3
  <1>5. PICK pool : pool = listed[index]
    OBVIOUS
  <1>6. CASE ~pool.nonpaged
    <2>1. UNCHANGED entries
      BY <1>5, <1>6 DEF NextPool
    <2> QED
      BY <1>4, <2>1 DEF EntriesSay
  <1>7. CASE pool.nonpaged
    <2>1. PICK toHash \in BOOLEAN, table \in BOOLEAN, a \in EntryType, b \in EntryType :
            Adds(pool, toHash, table, a, b)
      BY <1>5, <1>7, NextPoolAdds
    <2>2. table
      <3>1. "table" \in held
        BY <1>1 DEF BuffersHeld, Running
      <3> QED
        BY <2>1, <3>1, Zenon DEF Adds
    <2>3. PICK e : e = NewEntry(pool)
      OBVIOUS
    <2>4. /\ e.address = pool.address
          /\ e.pages = PageCount(pool.address, pool.size)
          /\ pool \in ListEntry
      <3>1. pool \in ListEntry
        BY <2>1, Zenon DEF Adds
      <3> QED
        BY <2>3, <3>1, NewEntryIs
    <2>5. /\ b.address = e.address /\ b.pages = e.pages
      <3>1. b.address = pool.address /\ b.size = pool.size
        BY <2>1, Zenon DEF Adds
      <3> QED
        BY <2>4, <3>1 DEF EntryType
    <2>6. /\ a.accessible = Cardinality(PagesWith(e, "accessible"))
          /\ a.writable = Cardinality(PagesWith(e, "writable"))
          /\ a.executable = Cardinality(PagesWith(e, "executable"))
          /\ a.flags = WalkFlags(e)
      <3>1. a = Annotated(e, table)
        BY <2>1, <2>3, Zenon DEF Adds
      <3> QED
        BY <2>2, <2>3, <2>4, <3>1, AnnotatedIs
    <2>7. /\ b.accessible = a.accessible /\ b.writable = a.writable
          /\ b.executable = a.executable
          /\ b.flags \ {"sampled"} = a.flags \ {"sampled"}
          /\ "sampled" \notin a.flags
      <3>1. b.flags = a.flags \cup {"sampled"} \/ b.flags = a.flags
        BY <2>1, Zenon DEF Adds
      <3>2. /\ b.accessible = a.accessible /\ b.writable = a.writable
            /\ b.executable = a.executable
            /\ "sampled" \notin a.flags
        BY <2>1, Zenon DEF Adds
      <3> QED
        BY <3>1, <3>2
    <2>8. Says(b)
      <3>1. b.flags \ {"sampled"} = a.flags
        BY <2>7
      <3>2. /\ \A what : PagesWith(b, what) = PagesWith(e, what)
            /\ WalkFlags(b) = WalkFlags(e)
        BY <2>5, SamePages
      <3> QED
        BY <2>6, <2>7, <3>1, <3>2, Zenon DEF Says
    <2>9. Says(b)'
      BY <1>2, <2>8
    <2>10. entries' = Append(entries, b)
      BY <2>1, Zenon DEF Adds
    <2>11. PICK last, new : last = Len(entries) + 1 /\ new = entries'
      OBVIOUS
    <2>12. /\ DOMAIN new = DOMAIN entries \cup {last} /\ new[last] = b
           /\ \A k \in DOMAIN entries : new[k] = entries[k]
      BY <1>3, <2>10, <2>11
    <2>13. \A k \in DOMAIN new : \A f \in {new[k]} : Says(f)'
      BY <1>4, <2>9, <2>12
    <2> QED
      BY <2>11, <2>13 DEF EntriesSay
  <1> QED
    BY <1>6, <1>7

LEMMA HashSays ==
  ASSUME WorldTypes, ScanTypes, Ranges, EntriesSay, ~PageTableChanges,
         HashChunk \/ HashOverflows \/ HashEnds
  PROVE  EntriesSay'
  <1>1. /\ [Next]_vars /\ phase = "hash" /\ Running
        /\ entries \in Seq(EntryType) /\ entries # <<>>
    <2>1. phase = "hash"
      BY DEF HashChunk, HashOverflows, HashEnds, InHash
    <2> QED
      BY <2>1 DEF Next, Step, Running, ScanTypes
  <1>2. PICK e \in EntryType : \E q \in Policy : \E p \in Places(q, e.size) :
           /\ e = This /\ spans = SpansAt(q, e.size, p)
           /\ e.size \in Nat /\ p \in Nat /\ p <= e.size
    BY <1>1, ThisIs
  <1>3. PICK q \in Policy : \E p \in Places(q, e.size) :
           e = This /\ spans = SpansAt(q, e.size, p)
    BY <1>2
  <1>4. PICK p \in Places(q, e.size) : e = This /\ spans = SpansAt(q, e.size, p)
    BY <1>3
  <1>5. CASE HashChunk
    <2>1. PICK a \in EntryType :
           /\ a.address = e.address /\ a.flags = e.flags
           /\ a.pages = e.pages /\ a.accessible = e.accessible
           /\ a.writable = e.writable /\ a.executable = e.executable
           /\ entries' = [entries EXCEPT ![Len(entries)] = a]
      BY <1>1, <1>4, <1>5, HashChunkDoes
    <2> QED
      BY <1>1, <1>4, <2>1, ReplacedSays
  <1>6. CASE HashOverflows
    <2>1. UNCHANGED entries
      BY <1>6 DEF HashOverflows
    <2>2. \A k \in DOMAIN entries : \A f \in {entries[k]} : Says(f)'
      <3>1. \A k \in DOMAIN entries : entries[k] \in EntryType /\ Says(entries[k])
        BY <1>1 DEF EntriesSay
      <3> QED
        BY <1>1, <3>1, SaysStays
    <2> QED
      BY <2>1, <2>2 DEF EntriesSay
  <1>7. CASE HashEnds
    <2>1. PICK f : f = IF e.hashed < e.size THEN e.flags \cup {"sampled"} ELSE e.flags
      OBVIOUS
    <2>2. PICK a : a = [e EXCEPT !.flags = f]
      OBVIOUS
    <2>3. /\ f \in SUBSET Flags /\ f \ {"sampled"} = e.flags \ {"sampled"}
      BY <2>1 DEF EntryType, Flags
    <2>4. e \in RawEntry
      BY DEF EntryType, RawEntry
    <2>5. /\ a \in RawEntry /\ a.address = e.address /\ a.size = e.size
          /\ a.pages = e.pages /\ a.accessible = e.accessible
          /\ a.writable = e.writable /\ a.executable = e.executable /\ a.flags = f
      BY <2>2, <2>3, <2>4 DEF RawEntry
    <2>6. a \in EntryType
      BY <2>5 DEF EntryType, RawEntry
    <2>7. entries' = [entries EXCEPT ![Len(entries)] = a]
      BY <1>4, <1>7, <2>1, <2>2, Zenon DEF HashEnds, Update
    <2> QED
      BY <1>1, <1>4, <2>3, <2>5, <2>6, <2>7, ReplacedSays
  <1> QED
    BY <1>5, <1>6, <1>7

LEMMA EntriesSayKept ==
  ASSUME WorldTypes, ScanTypes, Ranges, EntriesSay, BuffersHeld, NoShortage,
         ~PageTableChanges, [Next]_vars
  PROVE  EntriesSay'
  <1>1. CASE NextPool
    BY <1>1, NextPoolSays
  <1>2. CASE HashChunk \/ HashOverflows \/ HashEnds
    BY <1>2, HashSays
  <1>3. CASE Allocates
    <2>1. entries' = <<>>
      BY <1>3 DEF Allocates
    <2> QED
      BY <2>1 DEF EntriesSay
  <1>4. CASE ScanBegins \/ Query \/ AllocationFails \/ ScanEnds \/ GetPteDetails \/ PteDetailsFail
    <2>1. phase' \notin {"entries", "hash"}
      BY <1>4 DEF ScanBegins, Query, AllocationFails, ScanEnds, GetPteDetails, PteDetailsFail
    <2> QED
      BY <2>1 DEF EntriesSay, Running
  <1>5. CASE Environment \/ UNCHANGED vars
    <2>1. UNCHANGED <<phase, entries>>
      BY <1>5 DEF Environment, ByteChanges, PageTableChanges, PoolsChange, SetHashPolicy,
                  scanned, vars
    <2>2. \A k \in DOMAIN entries : entries[k] \in EntryType
      BY DEF ScanTypes
    <2>3. Running => \A k \in DOMAIN entries : \A f \in {entries[k]} : Says(f)'
      BY <2>2, SaysStays DEF EntriesSay
    <2> QED
      BY <2>1, <2>3 DEF EntriesSay, Running
  <1> QED
    BY <1>1, <1>2, <1>3, <1>4, <1>5 DEF Next, Step

\* A page that is listed is what the loop found of it.
LEMMA PageShows ==
  ASSUME WorldTypes, NEW e \in EntryType, NEW p \in EntryPages(e), NEW s, s = Page(e, p),
         NEW w, w = Walked(e)[p]
  PROVE  /\ s.present /\ s.readable <=> w.accessible
         /\ s.writable <=> w.writable
         /\ s.executable <=> w.executable
  <1>1. p \in Pages
    BY FirstAddresses DEF EntryType
  <1>2. PICK walk \in [present : BOOLEAN, writable : BOOLEAN, executable : BOOLEAN,
                       large : BOOLEAN] : walk = Walk(paths[p])
    BY <1>1, WalkIsExact DEF WorldTypes
  <1>3. PICK r \in BOOLEAN : r = IsReadable(e, p)
    BY DEF IsReadable
  <1>4. s = [present |-> walk.present, writable |-> walk.writable,
             executable |-> walk.executable, large |-> walk.large, readable |-> r]
    BY <1>2, <1>3, Zenon DEF Page
  <1>5. /\ s.present = walk.present /\ s.writable = walk.writable
        /\ s.executable = walk.executable /\ s.readable = r
    BY <1>4
  <1>6. /\ w.accessible = (walk.present /\ r)
        /\ w.writable = walk.writable /\ w.executable = walk.executable
    BY <1>2, <1>3, Zenon DEF Walked
  <1> QED
    BY <1>2, <1>3, <1>5, <1>6

\* How many pages are returned: no more than there are.
LEMMA ReturnedAtMostAll ==
  ASSUME NEW e \in EntryType, NEW ask \in Asks
  PROVE  ReturnedPages(e, ask) \in Nat /\ ReturnedPages(e, ask) <= e.pages
  <1>1. ask.capacity \in Nat /\ ask.max \in Nat /\ MaxDetailPages \in Nat /\ e.pages \in Nat
    BY InputsAreTyped, SamplesAreOrdered DEF EntryType
  <1>2. PICK most \in Nat :
          most = IF ask.max \in 1 .. MaxDetailPages THEN ask.max ELSE MaxDetailPages
    BY <1>1
  <1>3. PICK S : S = {e.pages, ask.capacity, most}
    OBVIOUS
  <1>4. S \in SUBSET Nat /\ S # {} /\ e.pages \in S
    BY <1>1, <1>3
  <1>5. Min(S) \in Nat /\ Min(S) <= e.pages
    BY <1>4, LeastIs
  <1>6. ReturnedPages(e, ask) = Min(S)
    BY <1>2, <1>3, Zenon DEF ReturnedPages
  <1> QED
    BY <1>5, <1>6

LEMMA DetailsShowKept ==
  ASSUME WorldTypes, ScanTypes, SnapshotsSay, DetailsShow, ~PageTableChanges, [Next]_vars
  PROVE  DetailsShow'
  <1>1. CASE GetPteDetails
    <2>1. Len(snapshots) = 2 /\ UNCHANGED <<paths, memory>>
      BY <1>1 DEF GetPteDetails, Asked, system
    <2>2. snapshots[2] \in Seq(EntryType) /\ 2 \in DOMAIN snapshots
      <3>1. snapshots \in Seq(Seq(EntryType))
        BY DEF ScanTypes
      <3>2. 2 \in DOMAIN snapshots
        BY <2>1, <3>1
      <3> QED
        BY <3>1, <3>2
    <2>3. PICK list \in Seq(EntryType) : list = Current
      BY <2>2 DEF Current
    <2>4. PICK ask \in Asks :
            details' =
              IF {k \in DOMAIN list : HasAddress(list[k], ask.address)} = {} THEN <<>>
              ELSE LET entry == list[Min({k \in DOMAIN list : HasAddress(list[k], ask.address)})]
                       count == ReturnedPages(entry, ask)
                   IN  <<[entry |-> entry,
                          pages |-> [k \in 1 .. count |->
                                       Page(entry, PageOf(entry.address) + k - 1)],
                          truncated |-> count < entry.pages]>>
      <3>1. \E ask \in Asks :
              LET found == {k \in DOMAIN Current : HasAddress(Current[k], ask.address)}
                  entry == Current[Min(found)]
                  count == ReturnedPages(entry, ask)
              IN  details' =
                    IF found = {} THEN <<>>
                    ELSE <<[entry |-> entry,
                            pages |-> [k \in 1 .. count |->
                                         Page(entry, PageOf(entry.address) + k - 1)],
                            truncated |-> count < entry.pages]>>
        BY <1>1, Zenon DEF GetPteDetails
      <3> QED
        BY <2>3, <3>1, Zenon
    <2>5. PICK found : found = {k \in DOMAIN list : HasAddress(list[k], ask.address)}
      OBVIOUS
    <2>6. CASE found = {}
      <3>1. details' = <<>>
        BY <2>4, <2>5, <2>6
      <3> QED
        BY <3>1 DEF DetailsShow
    <2>7. CASE found # {}
      <3>1. found \in SUBSET Nat
        BY <2>3, <2>5
      <3>2. PICK first \in DOMAIN list : first = Min(found)
        BY <2>5, <2>7, <3>1, LeastIs
      <3>3. PICK e \in EntryType : e = list[first] /\ Says(e)
        <4>1. list[first] \in EntryType
          BY <2>3, <3>2
        <4>2. list[first] \in ToSet(snapshots[2])
          BY <2>3, <3>2 DEF ToSet, Current
        <4> QED
          BY <2>2, <4>1, <4>2 DEF SnapshotsSay
      <3>4. PICK count \in Nat : count = ReturnedPages(e, ask) /\ count <= e.pages
        BY ReturnedAtMostAll
      <3>5. PICK listing, t :
              /\ listing = [k \in 1 .. count |-> Page(e, PageOf(e.address) + k - 1)]
              /\ t = (count < e.pages)
        OBVIOUS
      <3>6. PICK d : d = [entry |-> e, pages |-> listing, truncated |-> t]
        OBVIOUS
      <3>7. details' = <<d>>
        BY <2>4, <2>5, <2>7, <3>2, <3>3, <3>4, <3>5, <3>6, Zenon
      <3>8. d.entry = e /\ d.pages = listing /\ d.truncated = t
        BY <3>6
      <3>9. e.pages \in Nat
        BY DEF EntryType
      <3>10. ~t => count = e.pages
        <4>1. ~t => ~(count < e.pages)
          BY <3>5, Zenon
        <4> QED
          BY <3>4, <3>9, <4>1
      <3>11. ASSUME ~t, NEW k \in DOMAIN listing, NEW w,
                    w = Walked(e)[PageOf(e.address) + k - 1]
             PROVE  /\ listing[k].present /\ listing[k].readable <=> w.accessible
                    /\ listing[k].writable <=> w.writable
                    /\ listing[k].executable <=> w.executable
        <4>1. k \in 1 .. e.pages /\ listing[k] = Page(e, PageOf(e.address) + k - 1)
          BY <3>5, <3>10, <3>11
        <4>2. PageOf(e.address) \in Nat
          BY PagesOfRange DEF EntryType
        <4>3. PICK p : p = PageOf(e.address) + k - 1
          OBVIOUS
        <4>4. p \in EntryPages(e)
          BY <3>9, <4>1, <4>2, <4>3 DEF EntryPages
        <4>5. PICK s : s = listing[k] /\ s = Page(e, p)
          BY <4>1, <4>3
        <4>6. w = Walked(e)[p]
          BY <3>11, <4>3
        <4> QED
          BY <4>4, <4>5, <4>6, PageShows, Zenon
      <3>12. Shows(d)
        BY <3>3, <3>5, <3>8, <3>10, <3>11 DEF Shows
      <3>13. Shows(d)'
        BY <3>12, ShowsStays
      <3> QED
        BY <3>7, <3>13 DEF DetailsShow
    <2> QED
      BY <2>6, <2>7
  <1>2. CASE UNCHANGED details
    <2>1. \A k \in DOMAIN details : \A d \in {details[k]} : Shows(d)'
      BY ShowsStays DEF DetailsShow
    <2> QED
      BY <1>2, <2>1 DEF DetailsShow
  <1>3. GetPteDetails \/ UNCHANGED details
    BY DEF Next, Step, ScanBegins, Query, Allocates, AllocationFails, NextPool, ScanEnds,
           HashChunk, HashOverflows, HashEnds, PteDetailsFail, Environment, ByteChanges,
           PageTableChanges, PoolsChange, SetHashPolicy, scanned, vars
  <1> QED
    BY <1>1, <1>2, <1>3

LEMMA PageInvKept ==
  ASSUME WorldTypes, ScanTypes, Ranges, BuffersHeld, PageInv, [Next]_vars
  PROVE  PageInv'
  <1> SUFFICES ASSUME NoPage', NoShortage'
               PROVE  SnapshotsSay' /\ EntriesSay' /\ DetailsShow'
    BY DEF PageInv
  <1>1. NoPage /\ NoShortage /\ ~PageTableChanges
    BY WhatHappens
  <1>2. SnapshotsSay /\ EntriesSay /\ DetailsShow
    BY <1>1 DEF PageInv
  <1> QED
    BY <1>1, <1>2, SnapshotsSayKept, EntriesSayKept, DetailsShowKept

LEMMA PageInvHolds == Spec => []PageInv
  <1>1. Init => PageInv
    BY DEF Init, PageInv, SnapshotsSay, EntriesSay, DetailsShow, Running
  <1>2. ScanInv /\ PageInv /\ [Next]_vars => PageInv'
    BY PageInvKept DEF ScanInv, HashInv
  <1> QED
    BY <1>1, <1>2, ScanInvHolds, PTL DEF Spec

\* All and some of an entry's pages.
LEMMA AllAndSome ==
  ASSUME NEW e \in EntryType, NEW what
  PROVE  /\ AllOf(e, what) <=> /\ EntryPages(e) # {}
                               /\ \A p \in EntryPages(e) : Walked(e)[p][what]
         /\ SomeOf(e, what) <=> \E p \in EntryPages(e) : Walked(e)[p][what]
  <1>1. PICK S : S = PagesWith(e, what)
    OBVIOUS
  <1>2. S \subseteq EntryPages(e)
    BY <1>1 DEF PagesWith
  <1>3. e.address \in Addresses /\ e.size \in Nat /\ e.pages = PageCount(e.address, e.size)
    BY DEF EntryType
  <1>4. /\ Cardinality(S) = e.pages <=> S = EntryPages(e)
        /\ Cardinality(S) > 0 <=> S # {}
    BY <1>2, <1>3, CountOfPages
  <1>5. e.pages # 0 <=> EntryPages(e) # {}
    <2>1. Cardinality({}) = e.pages <=> {} = EntryPages(e)
      BY <1>3, CountOfPages
    <2> QED
      BY <2>1, FS_EmptySet
  <1>6. S = EntryPages(e) <=> \A p \in EntryPages(e) : Walked(e)[p][what]
    BY <1>1 DEF PagesWith
  <1>7. S # {} <=> \E p \in EntryPages(e) : Walked(e)[p][what]
    BY <1>1 DEF PagesWith
  <1>8. AllOf(e, what) <=> e.pages # 0 /\ S = EntryPages(e)
    BY <1>1, <1>4 DEF AllOf
  <1>9. SomeOf(e, what) <=> S # {}
    BY <1>1, <1>4 DEF SomeOf
  <1> QED
    BY <1>5, <1>6, <1>7, <1>8, <1>9

\* What the loop finds of a page that it can walk to is what the processor
\* makes of it.
LEMMA FoundIsExact ==
  ASSUME WorldTypes, TablesRule, NEW e \in EntryType, NEW p \in EntryPages(e),
         Translates(paths[p]) => CanBeWalked(paths[p])
  PROVE  /\ Walked(e)[p]["accessible"] <=> Translates(paths[p])
         /\ Walked(e)[p]["writable"] <=> MayWrite(paths[p])
         /\ Walked(e)[p]["executable"] <=> MayExecute(paths[p])
  <1>1. PICK a \in Addresses : a = Max({e.address, p * PageSize}) /\ PageOf(a) = p
    BY FirstAddresses DEF EntryType
  <1>2. p \in Pages
    BY FirstAddresses DEF EntryType
  <1>3. PICK r \in BOOLEAN : r = IsReadable(e, p)
    BY DEF IsReadable
  <1>4. r <=> Translates(paths[p])
    BY <1>1, <1>3 DEF IsReadable, TablesRule
  <1>5. PICK walk \in [present : BOOLEAN, writable : BOOLEAN, executable : BOOLEAN,
                       large : BOOLEAN] :
          /\ walk = Walk(paths[p])
          /\ walk.present <=> Translates(paths[p]) /\ CanBeWalked(paths[p])
          /\ walk.writable <=> Translates(paths[p]) /\ CanBeWalked(paths[p]) /\ MayWrite(paths[p])
          /\ walk.executable
               <=> Translates(paths[p]) /\ CanBeWalked(paths[p]) /\ MayExecute(paths[p])
    BY <1>2, WalkIsExact DEF WorldTypes
  <1>6. Walked(e)[p] = [accessible |-> walk.present /\ r,
                        writable |-> walk.writable, executable |-> walk.executable]
    BY <1>3, <1>5, Zenon DEF Walked
  <1>7. /\ Walked(e)[p]["accessible"] = (walk.present /\ r)
        /\ Walked(e)[p]["writable"] = walk.writable
        /\ Walked(e)[p]["executable"] = walk.executable
    BY <1>6
  <1>8. /\ MayWrite(paths[p]) => Translates(paths[p])
        /\ MayExecute(paths[p]) => Translates(paths[p])
    BY DEF MayWrite, MayExecute
  <1> QED
    BY <1>4, <1>5, <1>7, <1>8

(***************************************************************************)
(* The flags of an entry are exactly what the processor makes of its pages *)
(* (AnnotatePoolEntryAttributes over QueryAddressPteAttributes): when all, *)
(* some or none of them are accessible, writable or executable, for tables *)
(* of every depth and of large pages, if they can be walked and are left   *)
(* alone.                                                                  *)
(***************************************************************************)
THEOREM AnnotationsAreExact == Spec => []AnnotationIsExact
  <1>1. ScanInv /\ PageInv => AnnotationIsExact
    <2> SUFFICES ASSUME ScanInv, PageInv, Only({"byte", "policy", "list"}), NEW e \in Entries,
                        \A p \in EntryPages(e) :
                          Translates(paths[p]) => CanBeWalked(paths[p])
                 PROVE  /\ "accessible_all" \in e.flags
                             <=> /\ EntryPages(e) # {}
                                 /\ \A p \in EntryPages(e) : Translates(paths[p])
                        /\ "writable_all" \in e.flags
                             <=> /\ EntryPages(e) # {}
                                 /\ \A p \in EntryPages(e) : MayWrite(paths[p])
                        /\ "writable_mixed" \in e.flags
                             <=> /\ \E p \in EntryPages(e) : MayWrite(paths[p])
                                 /\ ~(/\ EntryPages(e) # {}
                                      /\ \A p \in EntryPages(e) : MayWrite(paths[p]))
                        /\ "executable_any" \in e.flags
                             <=> \E p \in EntryPages(e) : MayExecute(paths[p])
                        /\ "executable_mixed" \in e.flags
                             <=> /\ \E p \in EntryPages(e) : MayExecute(paths[p])
                                 /\ ~(/\ EntryPages(e) # {}
                                      /\ \A p \in EntryPages(e) : MayExecute(paths[p]))
      BY Zenon DEF AnnotationIsExact
    <2>1. WorldTypes /\ TablesRule /\ ScanTypes
      BY DEF ScanInv
    <2>2. NoPage /\ NoShortage
      <3>1. {"byte", "policy", "list"} \subseteq Kinds \ {"page"}
        BY DEF Kinds
      <3>2. {"byte", "policy", "list"} \subseteq Kinds \ {"shortage"}
        BY DEF Kinds
      <3> QED
        BY <3>1, <3>2, OnlyFewer DEF NoPage, NoShortage
    <2>3. e \in EntryType /\ Says(e)
      <3>1. PICK k \in DOMAIN snapshots : e \in ToSet(snapshots[k])
        BY DEF Entries
      <3>2. snapshots[k] \in Seq(EntryType)
        BY <2>1 DEF ScanTypes
      <3> QED
        BY <2>2, <3>1, <3>2 DEF ToSet, PageInv, SnapshotsSay
    <2>4. PICK f \in SUBSET Flags : f = e.flags /\ f \ {"sampled"} = WalkFlags(e)
      BY <2>3 DEF Says, EntryType
    <2>5. /\ "accessible_all" \in f <=> AllOf(e, "accessible")
          /\ "writable_all" \in f <=> AllOf(e, "writable")
          /\ "writable_mixed" \in f <=> SomeOf(e, "writable") /\ ~AllOf(e, "writable")
          /\ "executable_any" \in f <=> SomeOf(e, "executable")
          /\ "executable_mixed" \in f <=> SomeOf(e, "executable") /\ ~AllOf(e, "executable")
      <3>1. \A flag : flag # "sampled" => (flag \in f <=> flag \in WalkFlags(e))
        BY <2>4
      <3> QED
        BY <3>1, WalkFlagsAre
    <2>6. \A p \in EntryPages(e) :
            /\ Walked(e)[p]["accessible"] <=> Translates(paths[p])
            /\ Walked(e)[p]["writable"] <=> MayWrite(paths[p])
            /\ Walked(e)[p]["executable"] <=> MayExecute(paths[p])
      BY <2>1, <2>3, FoundIsExact
    <2>7. /\ AllOf(e, "accessible")
               <=> /\ EntryPages(e) # {}
                   /\ \A p \in EntryPages(e) : Translates(paths[p])
          /\ AllOf(e, "writable")
               <=> /\ EntryPages(e) # {}
                   /\ \A p \in EntryPages(e) : MayWrite(paths[p])
          /\ AllOf(e, "executable")
               <=> /\ EntryPages(e) # {}
                   /\ \A p \in EntryPages(e) : MayExecute(paths[p])
          /\ SomeOf(e, "writable") <=> \E p \in EntryPages(e) : MayWrite(paths[p])
          /\ SomeOf(e, "executable") <=> \E p \in EntryPages(e) : MayExecute(paths[p])
      BY <2>3, <2>6, AllAndSome, Zenon
    <2> QED
      BY <2>4, <2>5, <2>7, Zenon
  <1> QED
    BY <1>1, ScanInvHolds, PageInvHolds, PTL

\* The pages of an entry, and their numbers in a list of them.
LEMMA ListedAreCounted ==
  ASSUME NEW e \in EntryType, NEW what, NEW T,
         T = {k \in 1 .. e.pages : Walked(e)[PageOf(e.address) + k - 1][what]}
  PROVE  Cardinality(T) = Cardinality(PagesWith(e, what))
  <1>1. PICK first \in Nat, last \in Nat : first = PageOf(e.address) /\ last = e.pages
    BY PagesOfRange DEF EntryType
  <1>2. PICK S, w : S = PagesWith(e, what) /\ w = Walked(e)
    OBVIOUS
  <1>3. S = {p \in first .. first + last - 1 : w[p][what]}
    BY <1>1, <1>2 DEF PagesWith, EntryPages
  <1>4. T = {k \in 1 .. last : w[first + k - 1][what]}
    BY <1>1, <1>2
  <1>5. PICK f : f = [k \in T |-> first + k - 1]
    OBVIOUS
  <1>6. f \in [T -> S]
    BY <1>3, <1>4, <1>5
  <1>7. \A k, l \in T : f[k] = f[l] => k = l
    BY <1>4, <1>5
  <1>8. \A p \in S : \E k \in T : f[k] = p
    <2>1. ASSUME NEW p \in S PROVE \E k \in T : f[k] = p
      <3>1. PICK k \in 1 .. last : p = first + k - 1
        <4>1. p - first + 1 \in 1 .. last /\ p = first + (p - first + 1) - 1
          BY <1>3
        <4> QED
          BY <4>1
      <3>2. k \in T
        BY <1>3, <1>4, <3>1
      <3> QED
        BY <1>5, <3>1, <3>2
    <2> QED
      BY <2>1
  <1>9. ExistsBijection(T, S)
    BY <1>6, <1>7, <1>8 DEF ExistsBijection, Bijection, Injection, Surjection, IsInjective
  <1>10. IsFiniteSet(T)
    <2>1. IsFiniteSet(1 .. last) /\ T \subseteq 1 .. last
      BY <1>4, FS_Interval
    <2> QED
      BY <2>1, FS_Subset
  <1> QED
    BY <1>2, <1>9, <1>10, FS_Bijection

(***************************************************************************)
(* The pages that HandleGetPteDetails lists for an entry, when it lists    *)
(* all of them, add up to the counts that the scan recorded: the two walks *)
(* of the tables agree.                                                    *)
(***************************************************************************)
THEOREM DetailsAgreeWithTheScan == Spec => []DetailsAgree
  <1>1. ScanInv /\ PageInv => DetailsAgree
    <2> SUFFICES ASSUME ScanInv, PageInv, Only({"byte", "policy", "list"}),
                        NEW k \in DOMAIN details, ~details[k].truncated
                 PROVE  /\ details[k].entry.accessible
                             = Cardinality({i \in DOMAIN details[k].pages :
                                              /\ details[k].pages[i].present
                                              /\ details[k].pages[i].readable})
                        /\ details[k].entry.writable
                             = Cardinality({i \in DOMAIN details[k].pages :
                                              details[k].pages[i].writable})
                        /\ details[k].entry.executable
                             = Cardinality({i \in DOMAIN details[k].pages :
                                              details[k].pages[i].executable})
      BY Zenon DEF DetailsAgree
    <2>1. NoPage /\ NoShortage
      <3>1. {"byte", "policy", "list"} \subseteq Kinds \ {"page"}
        BY DEF Kinds
      <3>2. {"byte", "policy", "list"} \subseteq Kinds \ {"shortage"}
        BY DEF Kinds
      <3> QED
        BY <3>1, <3>2, OnlyFewer DEF NoPage, NoShortage
    <2>2. PICK d : d = details[k]
      OBVIOUS
    <2>3. Shows(d)
      BY <2>1, <2>2 DEF PageInv, DetailsShow
    <2>4. PICK e \in EntryType : e = d.entry /\ Says(e)
      BY <2>3 DEF Shows
    <2>5. PICK shown : shown = d.pages
      OBVIOUS
    <2>6. /\ DOMAIN shown = 1 .. e.pages
          /\ \A i \in 1 .. e.pages : \A w \in {Walked(e)[PageOf(e.address) + i - 1]} :
               /\ shown[i].present /\ shown[i].readable <=> w["accessible"]
               /\ shown[i].writable <=> w["writable"]
               /\ shown[i].executable <=> w["executable"]
      <3>1. ~d.truncated
        BY <2>2
      <3> QED
        BY <2>3, <2>4, <2>5, <3>1 DEF Shows
    <2>7. PICK A, W, X :
            /\ A = {i \in 1 .. e.pages : shown[i].present /\ shown[i].readable}
            /\ W = {i \in 1 .. e.pages : shown[i].writable}
            /\ X = {i \in 1 .. e.pages : shown[i].executable}
      OBVIOUS
    <2>8. /\ A = {i \in 1 .. e.pages : Walked(e)[PageOf(e.address) + i - 1]["accessible"]}
          /\ W = {i \in 1 .. e.pages : Walked(e)[PageOf(e.address) + i - 1]["writable"]}
          /\ X = {i \in 1 .. e.pages : Walked(e)[PageOf(e.address) + i - 1]["executable"]}
      BY <2>6, <2>7
    <2>9. /\ Cardinality(A) = Cardinality(PagesWith(e, "accessible"))
          /\ Cardinality(W) = Cardinality(PagesWith(e, "writable"))
          /\ Cardinality(X) = Cardinality(PagesWith(e, "executable"))
      BY <2>8, ListedAreCounted
    <2>10. /\ e.accessible = Cardinality(A) /\ e.writable = Cardinality(W)
           /\ e.executable = Cardinality(X)
      BY <2>4, <2>9 DEF Says
    <2>11. DOMAIN shown = 1 .. e.pages
      BY <2>6
    <2>12. /\ A = {i \in DOMAIN shown : shown[i].present /\ shown[i].readable}
           /\ W = {i \in DOMAIN shown : shown[i].writable}
           /\ X = {i \in DOMAIN shown : shown[i].executable}
      BY <2>7, <2>11, Zenon
    <2>13. details[k].entry = e /\ details[k].pages = shown
      BY <2>2, <2>4, <2>5
    <2> QED
      BY <2>10, <2>12, <2>13, Zenon
  <1> QED
    BY <1>1, ScanInvHolds, PageInvHolds, PTL

=============================================================================
