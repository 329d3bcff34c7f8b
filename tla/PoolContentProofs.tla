--------------------------- MODULE PoolContentProofs ---------------------------
(***************************************************************************)
(* Theorems of PoolContent: about the saves of PoolDump and the searches   *)
(* of PoolSearch, for memory, pages, chunks, patterns and limits of any    *)
(* size and for any snapshots.                                             *)
(***************************************************************************)
EXTENDS PoolContent, SequenceTheorems, FiniteSetTheorems, WellFoundedInduction, TLAPS

(***************************************************************************)
(* The operators                                                           *)
(***************************************************************************)

\* The smallest of two and of three numbers.
LEMMA MinOfTwo ==
  ASSUME NEW a \in Nat, NEW b \in Nat
  PROVE  Min({a, b}) \in {a, b} /\ Min({a, b}) <= a /\ Min({a, b}) <= b
  <1>1. CASE a <= b
    BY <1>1 DEF Min
  <1>2. CASE b <= a
    BY <1>2 DEF Min
  <1> QED
    BY <1>1, <1>2

LEMMA MinOfThree ==
  ASSUME NEW a \in Nat, NEW b \in Nat, NEW c \in Nat
  PROVE  /\ Min({a, b, c}) \in {a, b, c}
         /\ Min({a, b, c}) <= a /\ Min({a, b, c}) <= b /\ Min({a, b, c}) <= c
  <1>1. PICK m \in {a, b, c} : m <= a /\ m <= b /\ m <= c
    <2>1. CASE a <= b /\ a <= c
      BY <2>1
    <2>2. CASE b <= a /\ b <= c
      BY <2>2
    <2>3. CASE c <= a /\ c <= b
      BY <2>3
    <2> QED
      BY <2>1, <2>2, <2>3
  <1>2. \E x \in {a, b, c} : \A y \in {a, b, c} : x <= y
    BY <1>1
  <1>3. Min({a, b, c}) \in {a, b, c} /\ \A y \in {a, b, c} : Min({a, b, c}) <= y
    BY <1>2, Zenon DEF Min
  <1> QED
    BY <1>3

\* A set of naturals that is not empty has a least element.
LEMMA LeastNatural ==
  ASSUME NEW S \in SUBSET Nat, S # {}
  PROVE  Min(S) \in S /\ \A y \in S : Min(S) <= y
  <1> DEFINE R == {pair \in Nat \X Nat : pair[1] < pair[2]}
  <1>1. IsWellFoundedOn(R, Nat)
    BY NatLessThanWellFounded, Zenon DEF OpToRel
  <1>2. PICK x \in S : \A y \in S : ~(<<y, x>> \in R)
    <2> HIDE DEF R
    <2> QED
      BY <1>1, WFMin, Zenon
  <1>3. ASSUME NEW y \in S PROVE x <= y
    <2>1. ~(<<y, x>> \in R)
      BY <1>2, Zenon
    <2>2. <<y, x>> \in Nat \X Nat
      OBVIOUS
    <2>3. ~(y < x)
      BY <2>1, <2>2
    <2> QED
      BY <2>3
  <1>4. \E z \in S : \A y \in S : z <= y
    BY <1>3
  <1> QED
    BY <1>4, Zenon DEF Min

\* The greatest element is what Max returns.
LEMMA GreatestOf ==
  ASSUME NEW S \in SUBSET Nat, NEW m \in S, \A y \in S : y <= m
  PROVE  Max(S) = m
  <1>1. m \in S /\ \A y \in S : m >= y
    OBVIOUS
  <1>2. \E x \in S : \A y \in S : x >= y
    BY <1>1, Zenon
  <1>3. Max(S) \in S /\ \A y \in S : Max(S) >= y
    BY <1>2, Zenon DEF Max
  <1>4. Max(S) \in Nat /\ Max(S) >= m /\ m >= Max(S)
    BY <1>1, <1>3
  <1> QED
    BY <1>4

(***************************************************************************)
(* The inductive invariant of a save                                       *)
(***************************************************************************)

SaveTypes ==
  /\ memory \in [Addresses -> Byte \cup {Hole}] /\ touched \subseteq Addresses
  /\ snapshots \in [diff : Seq(Entry), current : Seq(Entry)] /\ replaced \in BOOLEAN
  /\ target \in Entry
  /\ saving \in {"none", "reading", "writing", "marking", "saved", "failed"}
  /\ offset \in 0 .. Length
  /\ data \in Seq(Byte) /\ truncated \in BOOLEAN

\* What is read is as long as the offset, and each byte is the one at its
\* address unless that changed since.
InPlace ==
  /\ Len(data) = offset
  /\ \A i \in 1 .. offset :
       /\ Address(i) \in Addresses
       /\ Address(i) \notin touched => data[i] = memory[Address(i)]

\* Nothing more can be read of the target.
AtEnd ==
  \/ offset = Length
  \/ target.address + offset \notin Addresses
  \/ memory[target.address + offset] = Hole

Undisturbed == ~replaced /\ touched = {} /\ TargetIsFound

\* What is kept of the pool, once the reading ended.
Kept ==
  saving \in {"writing", "marking", "saved"} =>
    /\ data # <<>>
    /\ truncated <=> Len(data) < target.size
    /\ Undisturbed => AtEnd

Description == [requested : Nat, written : Nat, truncated : BOOLEAN]

\* What is in the files: the bytes first, then their description.
Filed ==
  /\ files \in [bin : Seq(Byte), meta : Seq(Description)]
  /\ saving \in {"marking", "saved"} => files.bin = data
  /\ files.meta =
       IF saving = "saved"
       THEN <<[requested |-> target.size, written |-> Len(data),
               truncated |-> truncated]>>
       ELSE <<>>

SaveInv == SaveTypes /\ InPlace /\ Kept /\ Filed

\* No more is read than the target has.
LEMMA LengthType ==
  ASSUME target \in Entry
  PROVE  Length \in Nat /\ Length <= target.size
  <1>1. target.size \in Nat
    BY DEF Entry
  <1>2. MaxPoolDumpBytes \in Nat
    BY LimitsArePositive
  <1> QED
    BY <1>1, <1>2, MinOfTwo DEF Length

\* An entry that is found is one of a snapshot.
LEMMA FoundIsEntry ==
  ASSUME SaveTypes, NEW address, EntryAt(address) # 0
  PROVE  Listed[EntryAt(address)] \in Entry
  <1> DEFINE I == {i \in 1 .. Len(Listed) : Listed[i].address = address}
  <1>1. Listed \in Seq(Entry)
    BY DEF Listed, SaveTypes
  <1>2. EntryAt(address) = IF I # {} THEN Min(I) ELSE 0
    BY Zenon DEF EntryAt, SelectInSeq
  <1>3. I \in SUBSET Nat
    BY <1>1
  <1>4. EntryAt(address) \in I
    <2> HIDE DEF I
    <2> QED
      BY <1>2, <1>3, LeastNatural, Zenon
  <1> QED
    BY <1>1, <1>4

\* What a chunk is answered with: bytes of the memory from the offset on, no
\* more than are missing, in the address space and without a hole.
LEMMA AnswersAreOfMemory ==
  ASSUME SaveTypes, ReadingPool, NEW bytes \in Answers, bytes # <<>>
  PROVE  \E n \in Nat \ {0} :
           /\ n <= Length - offset
           /\ target.address + offset + n <= AddressSpace
           /\ \A i \in 0 .. n - 1 : memory[target.address + offset + i] # Hole
           /\ bytes = [i \in 1 .. n |-> memory[target.address + offset + i - 1]]
  <1> DEFINE found == EntryAt(target.address)
             entry == Listed[found]
             count == Min({ChunkLength, MaxReadLength, Available(entry, offset)})
             from == target.address + offset
  <1>1. found # 0 /\ ~(offset > entry.size) /\ count # 0
    BY DEF Answers, ReadContent
  <1>2. PICK n \in Copyable(from, count) : bytes = Copied(from, n)
    BY <1>1 DEF Answers, ReadContent
  <1>3. entry \in Entry
    BY <1>1, FoundIsEntry
  <1>4. Length \in Nat /\ offset \in Nat /\ offset < Length
    BY LengthType DEF SaveTypes, ReadingPool
  <1>5. MaxReadLength \in Nat
    BY LimitsArePositive
  <1>6. ChunkLength \in Nat /\ ChunkLength <= Length - offset
    BY <1>4, <1>5, MinOfTwo DEF ChunkLength
  <1>7. Available(entry, offset) \in Nat
    BY <1>1, <1>3, <1>4 DEF Available, Entry
  <1>8. count \in Nat /\ count <= ChunkLength
    <2> HIDE DEF entry
    <2> QED
      BY <1>5, <1>6, <1>7, MinOfThree
  <1>9. /\ n \in 1 .. count
        /\ from + n <= AddressSpace
        /\ \A i \in 0 .. n - 1 : memory[from + i] # Hole
    BY <1>2 DEF Copyable
  <1>10. n \in Nat \ {0} /\ n <= Length - offset
    <2> HIDE DEF count
    <2> QED
      BY <1>4, <1>6, <1>8, <1>9
  <1>11. bytes = [i \in 1 .. n |-> memory[from + i - 1]]
    BY <1>2 DEF Copied
  <1> HIDE DEF count
  <1> QED
    BY <1>9, <1>10, <1>11

\* Where nothing is answered, or no bytes, the target ends or has a hole.
LEMMA NoAnswerAtEnd ==
  ASSUME SaveTypes, ReadingPool, TargetIsFound, \A bytes \in Answers : bytes = <<>>
  PROVE  AtEnd
  <1> DEFINE count == Min({ChunkLength, MaxReadLength, Available(target, offset)})
             from == target.address + offset
  <1>1. Length \in Nat /\ offset \in Nat /\ offset < Length /\ Length <= target.size
    BY LengthType DEF SaveTypes, ReadingPool
  <1>2. target.size \in Nat /\ target.address \in Nat
    BY DEF SaveTypes, Entry, Addresses
  <1>3. MaxReadLength \in Nat \ {0}
    BY LimitsArePositive
  <1>4. ChunkLength \in Nat \ {0}
    BY <1>1, <1>3, MinOfTwo DEF ChunkLength
  <1>5. Available(target, offset) \in Nat \ {0}
    BY <1>1, <1>2 DEF Available
  <1>6. count \in Nat \ {0}
    BY <1>3, <1>4, <1>5, MinOfThree
  <1>7. Answers = {Copied(from, n) : n \in Copyable(from, count)}
    <2>1. ~(offset > target.size)
      BY <1>1, <1>2
    <2> HIDE DEF count
    <2> QED
      BY <2>1, <1>6 DEF Answers, ReadContent, TargetIsFound, count
  <1> SUFFICES ASSUME from \in Addresses, memory[from] # Hole
               PROVE  FALSE
    BY DEF AtEnd
  <1>8. 1 \in Copyable(from, count)
    <2>1. 1 \in 1 .. count
      BY <1>6
    <2>2. from + 1 <= AddressSpace
      BY <1>1, <1>2, PagesFillTheAddressSpace DEF Addresses
    <2>3. \A i \in 0 .. 1 - 1 : memory[from + i] # Hole
      BY <1>1, <1>2
    <2> HIDE DEF count, from
    <2> QED
      BY <2>1, <2>2, <2>3 DEF Copyable
  <1>9. Copied(from, 1) = <<>>
    BY <1>7, <1>8
  <1>10. DOMAIN Copied(from, 1) = 1 .. 1
    BY DEF Copied
  <1> QED
    BY <1>9, <1>10

\* No bytes are the only answer where they are one.
LEMMA EmptyAnswersOnly ==
  ASSUME SaveTypes, ReadingPool, <<>> \in Answers
  PROVE  \A bytes \in Answers : bytes = <<>>
  <1> DEFINE entry == Listed[EntryAt(target.address)]
             count == Min({ChunkLength, MaxReadLength, Available(entry, offset)})
             from == target.address + offset
  <1>1. CASE EntryAt(target.address) = 0 \/ offset > entry.size
    BY <1>1 DEF Answers, ReadContent
  <1>2. CASE ~(EntryAt(target.address) = 0 \/ offset > entry.size) /\ count = 0
    BY <1>2 DEF Answers, ReadContent
  <1>3. CASE ~(EntryAt(target.address) = 0 \/ offset > entry.size) /\ count # 0
    <2>1. PICK n \in Copyable(from, count) : Copied(from, n) = <<>>
      BY <1>3 DEF Answers, ReadContent
    <2>2. 1 \in DOMAIN Copied(from, n)
      BY <2>1 DEF Copied, Copyable
    <2> QED
      BY <2>1, <2>2
  <1> QED
    BY <1>1, <1>2, <1>3

(***************************************************************************)
(* The invariant holds from the start, and each step keeps it              *)
(***************************************************************************)

\* A save begins with nothing read and nothing written.
LEMMA SaveFromKeeps ==
  ASSUME memory \in [Addresses -> Byte \cup {Hole}], touched = {},
         snapshots \in [diff : Seq(Entry), current : Seq(Entry)], target \in Entry,
         NEW first \in {"none", "reading"}, SaveFrom(first)
  PROVE  SaveInv
  <1>1. /\ replaced = FALSE /\ saving = first /\ offset = 0 /\ data = <<>>
        /\ truncated = FALSE /\ files = NoFile
    BY DEF SaveFrom
  <1>2. 0 \in 0 .. Length
    BY LengthType
  <1>3. SaveTypes
    <2>1. data \in Seq(Byte)
      BY <1>1
    <2>2. replaced \in BOOLEAN /\ truncated \in BOOLEAN /\ touched \subseteq Addresses
      BY <1>1
    <2>3. offset \in 0 .. Length
      BY <1>1, <1>2, Zenon
    <2>4. saving \in {"none", "reading", "writing", "marking", "saved", "failed"}
      BY <1>1
    <2> QED
      BY <2>1, <2>2, <2>3, <2>4, Zenon DEF SaveTypes
  <1>4. InPlace
    BY <1>1 DEF InPlace
  <1>5. Kept /\ Filed
    BY <1>1 DEF Kept, Filed, NoFile
  <1> QED
    BY <1>3, <1>4, <1>5 DEF SaveInv

LEMMA InitiallySaveInv == Init => SaveInv
  <1> SUFFICES ASSUME Init PROVE SaveInv
    OBVIOUS
  <1>1. memory \in [Addresses -> Byte \cup {Hole}] /\ touched = {}
    BY DEF Init, MemoryInit
  <1>2. CASE NoSave
    <2>1. 0 \in Addresses
      BY PagesFillTheAddressSpace DEF Addresses
    <2>2. target \in Entry
      BY <1>2, <2>1 DEF NoSave, Entry
    <2>3. snapshots \in [diff : Seq(Entry), current : Seq(Entry)]
      BY <1>2 DEF NoSave
    <2>4. SaveFrom("none")
      BY <1>2 DEF NoSave
    <2> QED
      BY <1>1, <2>2, <2>3, <2>4, SaveFromKeeps
  <1>3. CASE SaveInit
    <2>1. target \in Entry
      BY <1>3, TargetsAreEntries DEF SaveInit
    <2>2. snapshots \in [diff : Seq(Entry), current : Seq(Entry)]
      BY <1>3, SnapshotPairsAreEntries DEF SaveInit
    <2>3. SaveFrom("reading")
      BY <1>3 DEF SaveInit
    <2> QED
      BY <1>1, <2>1, <2>2, <2>3, SaveFromKeeps
  <1> QED
    BY <1>2, <1>3 DEF Init

\* What is kept of the invariant when target, memory and snapshots stay.
LEMMA SameTarget ==
  ASSUME UNCHANGED <<memory, touched, snapshots, replaced, target>>
  PROVE  /\ Length' = Length
         /\ Undisturbed' = Undisturbed
         /\ \A i : Address(i)' = Address(i)
  <1>1. Length' = Length
    BY DEF Length
  <1>2. TargetIsFound' = TargetIsFound
    BY DEF TargetIsFound, EntryAt, Listed, SelectInSeq
  <1>3. \A i : Address(i)' = Address(i)
    BY DEF Address
  <1> QED
    BY <1>1, <1>2, <1>3 DEF Undisturbed

\* A chunk that is answered is appended, and is where the offset says.
LEMMA NextChunkKeeps ==
  ASSUME SaveInv, NextChunk, UNCHANGED <<memory, touched>>
  PROVE  SaveInv'
  <1>1. PICK bytes \in Answers \ {<<>>} :
          data' = data \o bytes /\ offset' = offset + Len(bytes)
    BY DEF NextChunk
  <1>2. PICK n \in Nat \ {0} :
          /\ n <= Length - offset
          /\ target.address + offset + n <= AddressSpace
          /\ \A i \in 0 .. n - 1 : memory[target.address + offset + i] # Hole
          /\ bytes = [i \in 1 .. n |-> memory[target.address + offset + i - 1]]
    BY <1>1, AnswersAreOfMemory DEF NextChunk, SaveInv
  <1>3. /\ ReadingPool
        /\ UNCHANGED <<snapshots, replaced, target, saving, truncated, files>>
    BY DEF NextChunk, driver
  <1>4. target.address \in Nat /\ offset \in Nat /\ Length \in Nat /\ AddressSpace \in Nat
    BY LengthType, PagesFillTheAddressSpace DEF SaveInv, SaveTypes, Entry, Addresses
  <1>5. \A i \in 1 .. n :
          /\ target.address + offset + i - 1 \in Addresses
          /\ memory[target.address + offset + i - 1] \in Byte
    <2> SUFFICES ASSUME NEW i \in 1 .. n
                 PROVE  /\ target.address + offset + i - 1 \in Addresses
                        /\ memory[target.address + offset + i - 1] \in Byte
      OBVIOUS
    <2>1. target.address + offset + i - 1 \in Addresses
      BY <1>2, <1>4 DEF Addresses
    <2>2. memory[target.address + offset + i - 1] \in Byte \cup {Hole}
      BY <2>1 DEF SaveInv, SaveTypes
    <2>3. i - 1 \in 0 .. n - 1 /\ target.address + offset + (i - 1) = target.address + offset + i - 1
      BY <1>4
    <2> QED
      BY <1>2, <2>1, <2>2, <2>3
  <1>6. bytes \in Seq(Byte) /\ Len(bytes) = n
    <2>1. bytes \in [1 .. n -> Byte]
      BY <1>2, <1>5
    <2> QED
      BY <2>1
  <1>7. data \in Seq(Byte) /\ Len(data) = offset
    BY DEF SaveInv, SaveTypes, InPlace
  <1>8. /\ data' \in Seq(Byte) /\ Len(data') = offset'
        /\ offset' = offset + n
        /\ \A i \in 1 .. offset : data'[i] = data[i]
        /\ \A i \in 1 .. n : data'[offset + i] = bytes[i]
    <2>1. data' = data \o bytes /\ offset' = offset + n
      BY <1>1, <1>6
    <2>2. data \o bytes \in Seq(Byte) /\ Len(data \o bytes) = offset + n
      BY <1>6, <1>7
    <2>5. \A S : \A first, second \in Seq(S) :
            /\ \A i \in 1 .. Len(first) : (first \o second)[i] = first[i]
            /\ \A i \in 1 .. Len(second) :
                 (first \o second)[Len(first) + i] = second[i]
      OBVIOUS
    <2>6. /\ \A i \in 1 .. Len(data) : (data \o bytes)[i] = data[i]
          /\ \A i \in 1 .. Len(bytes) : (data \o bytes)[Len(data) + i] = bytes[i]
      BY <1>6, <1>7, <2>5
    <2>3. \A i \in 1 .. offset : (data \o bytes)[i] = data[i]
      BY <1>7, <2>6
    <2>4. \A i \in 1 .. n : (data \o bytes)[offset + i] = bytes[i]
      BY <1>6, <1>7, <2>6
    <2> QED
      BY <2>1, <2>2, <2>3, <2>4
  <1>9. SaveTypes'
    <2>1. offset' \in 0 .. Length'
      BY <1>2, <1>3, <1>4, <1>8, SameTarget
    <2> QED
      BY <1>3, <1>8, <2>1 DEF SaveInv, SaveTypes
  <1>10. InPlace'
    <2> SUFFICES ASSUME NEW i \in 1 .. offset + n
                 PROVE  /\ Address(i) \in Addresses
                        /\ Address(i) \notin touched => data'[i] = memory[Address(i)]
      BY <1>3, <1>8, SameTarget DEF InPlace
    <2>1. CASE i \in 1 .. offset
      BY <2>1, <1>8 DEF SaveInv, InPlace
    <2>2. CASE i \notin 1 .. offset
      <3>1. i - offset \in 1 .. n /\ offset + (i - offset) = i
        BY <2>2, <1>4
      <3>2. Address(i) = target.address + offset + (i - offset) - 1
        BY <1>4 DEF Address
      <3>3. data'[i] = bytes[i - offset]
        BY <3>1, <1>8
      <3>4. bytes[i - offset] = memory[Address(i)]
        BY <3>1, <3>2, <1>2
      <3> QED
        BY <3>1, <3>2, <3>3, <3>4, <1>5
    <2> QED
      BY <2>1, <2>2
  <1>11. Kept' /\ Filed'
    BY <1>3 DEF ReadingPool, Kept, Filed, SaveInv
  <1> QED
    BY <1>9, <1>10, <1>11 DEF SaveInv

\* The end of the reading: what was read is short of the target or all of it.
LEMMA KeepKeeps ==
  ASSUME SaveInv, saving = "reading", NEW short \in BOOLEAN, Keep(short),
         UNCHANGED <<memory, touched>>,
         short <=> Len(data) < target.size,
         Undisturbed => AtEnd
  PROVE  SaveInv'
  <1>1. /\ saving' = IF data = <<>> THEN "failed" ELSE "writing"
        /\ truncated' = short
        /\ UNCHANGED <<snapshots, replaced, target, offset, data, files>>
    BY DEF Keep, driver
  <1>2. SaveTypes'
    BY <1>1, SameTarget DEF SaveInv, SaveTypes
  <1>3. InPlace'
    BY <1>1, SameTarget DEF SaveInv, InPlace
  <1>4. AtEnd' = AtEnd
    BY <1>1, SameTarget DEF AtEnd
  <1>5. Kept'
    BY <1>1, <1>4, SameTarget DEF Kept
  <1>6. Filed'
    BY <1>1 DEF SaveInv, Filed
  <1> QED
    BY <1>2, <1>3, <1>5, <1>6 DEF SaveInv

\* A chunk that fails ends the reading short of the target.
LEMMA ChunkFailsKeeps ==
  ASSUME SaveInv, ChunkFails, UNCHANGED <<memory, touched>>
  PROVE  SaveInv'
  <1>1. ReadingPool /\ Answers = {} /\ Keep(TRUE)
    BY DEF ChunkFails
  <1>2. Len(data) < target.size
    BY <1>1, LengthType DEF SaveInv, SaveTypes, InPlace, ReadingPool, Entry
  <1>3. Undisturbed => AtEnd
    BY <1>1, NoAnswerAtEnd DEF Undisturbed, SaveInv
  <1> QED
    BY <1>1, <1>2, <1>3, KeepKeeps DEF ReadingPool

\* The reading ends at its limit or where no bytes are answered.
LEMMA ReadEndsKeeps ==
  ASSUME SaveInv, ReadEnds, UNCHANGED <<memory, touched>>
  PROVE  SaveInv'
  <1>1. saving = "reading" /\ Keep(Len(data) < target.size)
    BY DEF ReadEnds
  <1>2. Undisturbed => AtEnd
    <2> SUFFICES ASSUME TargetIsFound PROVE AtEnd
      BY DEF Undisturbed
    <2>1. CASE offset >= Length
      BY <2>1, LengthType DEF SaveInv, SaveTypes, AtEnd
    <2>2. CASE offset < Length /\ <<>> \in Answers
      <3>1. ReadingPool
        BY <1>1, <2>2 DEF ReadingPool
      <3>2. \A bytes \in Answers : bytes = <<>>
        BY <2>2, <3>1, EmptyAnswersOnly DEF SaveInv
      <3> QED
        BY <3>1, <3>2, NoAnswerAtEnd DEF SaveInv
    <2> QED
      BY <2>1, <2>2, LengthType DEF ReadEnds, SaveInv, SaveTypes
  <1> DEFINE short == Len(data) < target.size
  <1>3. short \in BOOLEAN /\ (short <=> Len(data) < target.size) /\ Keep(short)
    BY <1>1
  <1> HIDE DEF short
  <1> QED
    BY <1>1, <1>2, <1>3, KeepKeeps, Zenon

\* The files are written from what was read, the description last.
LEMMA WriteKeeps ==
  ASSUME SaveInv, WriteBin \/ WriteMeta \/ WriteFails, UNCHANGED <<memory, touched>>
  PROVE  SaveInv'
  <1>1. /\ UNCHANGED <<snapshots, replaced, target, offset, data, truncated>>
        /\ saving \in {"writing", "marking"}
        /\ saving' \in {"marking", "saved", "failed"}
    BY DEF WriteBin, WriteMeta, WriteFails, driver
  <1>0. /\ files \in [bin : Seq(Byte), meta : Seq(Description)]
        /\ data \in Seq(Byte) /\ target \in Entry /\ truncated \in BOOLEAN
    BY DEF SaveInv, Filed, SaveTypes
  <1>2. SaveTypes'
    BY <1>1, SameTarget DEF SaveInv, SaveTypes
  <1>3. InPlace'
    BY <1>1, SameTarget DEF SaveInv, InPlace
  <1>4. AtEnd' = AtEnd
    BY <1>1, SameTarget DEF AtEnd
  <1>5. Kept'
    BY <1>1, <1>4, SameTarget DEF SaveInv, Kept
  <1>6. files.meta = <<>>
    BY <1>1 DEF SaveInv, Filed
  <1>7. Filed'
    <2>1. CASE WriteBin
      <3>1. files' = [files EXCEPT !.bin = data] /\ saving' = "marking"
        BY <2>1 DEF WriteBin
      <3> QED
        BY <3>1, <1>0, <1>1, <1>6 DEF Filed
    <2>2. CASE WriteMeta
      <3>1. /\ saving = "marking" /\ saving' = "saved"
            /\ files' = [files EXCEPT !.meta =
                 <<[requested |-> target.size, written |-> Len(data),
                    truncated |-> truncated]>>]
        BY <2>2 DEF WriteMeta
      <3>2. files.bin = data
        BY <3>1 DEF SaveInv, Filed
      <3>3. [requested |-> target.size, written |-> Len(data), truncated |-> truncated]
              \in Description
        BY <1>0 DEF Description, Entry
      <3>4. PICK meta : meta = [requested |-> target.size, written |-> Len(data),
                                truncated |-> truncated]
        OBVIOUS
      <3>5. files' = [files EXCEPT !.meta = <<meta>>] /\ <<meta>> \in Seq(Description)
        BY <3>1, <3>3, <3>4
      <3>6. /\ files' \in [bin : Seq(Byte), meta : Seq(Description)]
            /\ files'.bin = files.bin /\ files'.meta = <<meta>>
        BY <3>5, <1>0
      <3>7. meta = [requested |-> target.size, written |-> Len(data),
                    truncated |-> truncated]'
        BY <3>4, <1>1
      <3> QED
        BY <3>1, <3>2, <3>6, <3>7, <1>1 DEF Filed
    <2>3. CASE WriteFails
      <3>1. saving' = "failed"
        BY <2>3 DEF WriteFails
      <3>2. CASE UNCHANGED files
        BY <3>1, <3>2, <1>0, <1>6 DEF Filed
      <3>3. CASE \E n \in 0 .. Len(data) - 1 :
                   files' = [files EXCEPT !.bin = SubSeq(data, 1, n)]
        <4>1. PICK n \in 0 .. Len(data) - 1 :
                files' = [files EXCEPT !.bin = SubSeq(data, 1, n)]
          BY <3>3
        <4>2. SubSeq(data, 1, n) \in Seq(Byte)
          BY <1>0
        <4> QED
          BY <3>1, <4>1, <4>2, <1>0, <1>6 DEF Filed
      <3> QED
        BY <2>3, <3>2, <3>3 DEF WriteFails
    <2> QED
      BY <2>1, <2>2, <2>3
  <1> QED
    BY <1>2, <1>3, <1>5, <1>7 DEF SaveInv

\* Memory that changes is touched; what is not touched stays.
LEMMA MemoryChangesKeeps ==
  ASSUME SaveInv, MemoryChanges
  PROVE  SaveInv'
  <1>1. UNCHANGED <<snapshots, replaced, target, saving, offset, data, truncated, files>>
    BY DEF MemoryChanges, dump, driver
  <1>2. touched = {} /\ touched' # {}
    BY DEF MemoryChanges, PageChanges
  <1>3. PICK p \in Pages : \E content \in Contents(p) :
          /\ touched' = {a \in DOMAIN content : content[a] # memory[a]}
          /\ memory' = [a \in Addresses |->
                          IF a \in DOMAIN content THEN content[a] ELSE memory[a]]
    BY DEF MemoryChanges, PageChanges
  <1>4. PICK content \in Contents(p) :
          /\ touched' = {a \in DOMAIN content : content[a] # memory[a]}
          /\ memory' = [a \in Addresses |->
                          IF a \in DOMAIN content THEN content[a] ELSE memory[a]]
    BY <1>3
  <1>5. /\ DOMAIN content \subseteq Addresses
        /\ \A a \in DOMAIN content : content[a] \in Byte \cup {Hole}
    <2>1. PageAddresses(p) \subseteq Addresses
      BY DEF PageAddresses
    <2> QED
      BY <2>1 DEF Contents
  <1>6. /\ memory' \in [Addresses -> Byte \cup {Hole}]
        /\ touched' \subseteq Addresses
        /\ \A a \in Addresses : a \notin touched' => memory'[a] = memory[a]
    BY <1>4, <1>5 DEF SaveInv, SaveTypes
  <1>7. Length' = Length /\ \A i : Address(i)' = Address(i)
    BY <1>1 DEF Length, Address
  <1>8. SaveTypes'
    BY <1>1, <1>6, <1>7 DEF SaveInv, SaveTypes
  <1>9. InPlace'
    BY <1>1, <1>2, <1>6, <1>7 DEF SaveInv, InPlace
  <1>10. Kept'
    BY <1>1, <1>2 DEF SaveInv, Kept, Undisturbed
  <1>11. Filed'
    BY <1>1 DEF SaveInv, Filed
  <1> QED
    BY <1>8, <1>9, <1>10, <1>11 DEF SaveInv

\* Another snapshot is where the next chunk is looked up.
LEMMA SnapshotsKeep ==
  ASSUME SaveInv, SnapshotsReplaced, UNCHANGED <<memory, touched>>
  PROVE  SaveInv'
  <1>1. /\ UNCHANGED <<target, saving, offset, data, truncated, files>>
        /\ saving = "reading" /\ replaced' = TRUE
        /\ snapshots' \in [diff : Seq(Entry), current : Seq(Entry)]
    BY SnapshotPairsAreEntries DEF SnapshotsReplaced
  <1>2. Length' = Length /\ \A i : Address(i)' = Address(i)
    BY <1>1 DEF Length, Address
  <1>3. SaveTypes'
    BY <1>1, <1>2 DEF SaveInv, SaveTypes
  <1>4. InPlace'
    BY <1>1, <1>2 DEF SaveInv, InPlace
  <1>5. Kept' /\ Filed'
    BY <1>1 DEF SaveInv, Kept, Filed
  <1> QED
    BY <1>3, <1>4, <1>5 DEF SaveInv

\* A search, which has the memory in common with a save, does not change it.
LEMMA SearchLeavesIt ==
  ASSUME SaveInv, UNCHANGED <<memory, touched, dump>>
  PROVE  SaveInv'
  <1>1. UNCHANGED <<snapshots, replaced, target, saving, offset, data, truncated, files>>
    BY DEF dump, driver
  <1>2. SaveTypes'
    BY <1>1, SameTarget DEF SaveInv, SaveTypes
  <1>3. InPlace'
    BY <1>1, SameTarget DEF SaveInv, InPlace
  <1>4. AtEnd' = AtEnd
    BY <1>1, SameTarget DEF AtEnd
  <1>5. Kept' /\ Filed'
    BY <1>1, <1>4, SameTarget DEF SaveInv, Kept, Filed
  <1> QED
    BY <1>2, <1>3, <1>5 DEF SaveInv

\* No step of a search writes to the memory.
LEMMA SearchReads == ASSUME SearchStep PROVE UNCHANGED <<memory, touched>>
  <1>1. CASE NextEntry
    BY <1>1 DEF NextEntry, kept
  <1>2. CASE NoMemory
    BY <1>2 DEF NoMemory, kept
  <1>3. CASE Answer
    BY <1>3 DEF Answer, kept
  <1>4. CASE EntryEnds
    BY <1>4 DEF EntryEnds, Leave, kept
  <1>5. CASE AddressOverflows
    BY <1>5 DEF AddressOverflows, kept
  <1>6. CASE SkipPage
    BY <1>6 DEF SkipPage, Leave, kept
  <1>7. CASE CopyChunk
    BY <1>7, Zenon DEF CopyChunk, kept
  <1>8. CASE CopyChunkTruncated
    BY <1>8, Zenon DEF CopyChunkTruncated, kept
  <1> QED
    BY <1>1, <1>2, <1>3, <1>4, <1>5, <1>6, <1>7, <1>8 DEF SearchStep

LEMMA SaveInvIsInvariant == Spec => []SaveInv
  <1>1. Init => SaveInv
    BY InitiallySaveInv
  <1>2. SaveInv /\ [Next]_vars => SaveInv'
    <2> SUFFICES ASSUME SaveInv, [Next]_vars PROVE SaveInv'
      OBVIOUS
    <2>1. CASE Search
      BY <2>1, SearchReads, SearchLeavesIt DEF Search
    <2>2. CASE Save
      <3>1. UNCHANGED <<memory, touched>> /\ SaveStep
        BY <2>2 DEF Save
      <3> QED
        BY <3>1, NextChunkKeeps, ChunkFailsKeeps, ReadEndsKeeps, WriteKeeps DEF SaveStep
    <2>3. CASE Snapshots
      BY <2>3, SnapshotsKeep DEF Snapshots
    <2>4. CASE MemoryChanges
      BY <2>4, MemoryChangesKeeps
    <2>5. CASE UNCHANGED vars
      BY <2>5, SearchLeavesIt DEF vars
    <2> QED
      BY <2>1, <2>2, <2>3, <2>4, <2>5 DEF Next, Step
  <1> QED
    BY <1>1, <1>2, PTL DEF Spec

(***************************************************************************)
(* What a described file has is the first bytes of the pool, each one the  *)
(* byte at its address unless that changed: readPoolDump and SavePoolDump, *)
(* whatever came short, failed or was replaced half way.                   *)
(***************************************************************************)
THEOREM SavesArePrefixes == Spec => []SavedIsPrefix
  <1>1. SaveInv => SavedIsPrefix
    <2> SUFFICES ASSUME SaveInv, files.meta # <<>> PROVE
          /\ files.bin # <<>> /\ Len(files.bin) <= target.size
          /\ \A i \in DOMAIN files.bin :
               Address(i) \notin touched => files.bin[i] = memory[Address(i)]
      BY DEF SavedIsPrefix
    <2>1. saving = "saved" /\ files.bin = data /\ data # <<>>
      BY DEF SaveInv, Filed, Kept
    <2>2. /\ Len(data) = offset /\ DOMAIN data = 1 .. offset
          /\ offset \in Nat /\ offset <= target.size
      BY LengthType DEF SaveInv, SaveTypes, InPlace, Entry
    <2> QED
      BY <2>1, <2>2 DEF SaveInv, InPlace
  <1> QED
    BY <1>1, SaveInvIsInvariant, PTL

(***************************************************************************)
(* The description of a saved pool tells its length, and that it is not    *)
(* all of the pool exactly when it is not (readPoolDump's truncated).      *)
(***************************************************************************)
THEOREM ShortSavesAreMarked == Spec => []TruncatedIsMarked
  <1>1. SaveInv => TruncatedIsMarked
    <2> SUFFICES ASSUME SaveInv, NEW k \in DOMAIN files.meta PROVE
          /\ files.meta[k].written = Len(files.bin)
          /\ files.meta[k].truncated <=> Len(files.bin) < files.meta[k].requested
      BY DEF TruncatedIsMarked
    <2>1. saving = "saved"
      BY DEF SaveInv, Filed
    <2>2. PICK meta : meta = [requested |-> target.size, written |-> Len(data),
                              truncated |-> truncated]
      OBVIOUS
    <2>3. files.meta = <<meta>> /\ files.bin = data
      BY <2>1, <2>2 DEF SaveInv, Filed
    <2>4. k = 1 /\ files.meta[k] = meta
      BY <2>3
    <2>5. truncated <=> Len(data) < target.size
      BY <2>1 DEF SaveInv, Kept
    <2> QED
      BY <2>2, <2>3, <2>4, <2>5
  <1> QED
    BY <1>1, SaveInvIsInvariant, PTL

(***************************************************************************)
(* A save that nothing disturbed has all of the pool up to its first byte  *)
(* that cannot be read, or up to the limit: answers that are shorter than  *)
(* what was asked for do not shorten it.                                   *)
(***************************************************************************)
THEOREM SavesReachTheFirstHole == Spec => []SavedToTheFirstHole
  <1>1. SaveInv => SavedToTheFirstHole
    <2> SUFFICES ASSUME SaveInv, saving = "saved", ~replaced, touched = {}, TargetIsFound
                 PROVE  Len(files.bin) = Readable
      BY DEF SavedToTheFirstHole
    <2> DEFINE Good(i) == Address(i) \in Addresses /\ memory[Address(i)] # Hole
               S == {n \in 0 .. Length : \A i \in 1 .. n : Good(i)}
    <2>1. /\ Len(files.bin) = offset /\ AtEnd
          /\ offset \in 0 .. Length /\ Length \in Nat /\ target.address \in Nat
      BY LengthType
      DEF SaveInv, SaveTypes, Filed, InPlace, Kept, Undisturbed, Entry, Addresses
    <2>2. \A i \in 1 .. offset : Good(i)
      <3> SUFFICES ASSUME NEW i \in 1 .. offset PROVE Good(i)
        OBVIOUS
      <3>1. Address(i) \in Addresses /\ data[i] = memory[Address(i)]
        BY DEF SaveInv, InPlace
      <3>2. data[i] \in Byte
        BY DEF SaveInv, SaveTypes, InPlace
      <3> QED
        BY <3>1, <3>2, HoleIsNoByte
    <2>3. offset \in S
      BY <2>1, <2>2
    <2>4. ASSUME NEW n \in S PROVE n <= offset
      <3>1. SUFFICES ASSUME offset < n PROVE FALSE
        BY <2>1
      <3>2. offset + 1 \in 1 .. n /\ offset # Length
        BY <2>1, <3>1
      <3>3. Good(offset + 1)
        BY <3>2
      <3>4. Address(offset + 1) = target.address + offset
        BY <2>1 DEF Address
      <3> QED
        BY <2>1, <3>2, <3>3, <3>4 DEF AtEnd
    <2>5. Max(S) = offset
      <3>1. S \in SUBSET Nat
        BY <2>1
      <3> HIDE DEF S
      <3> QED
        BY <2>3, <2>4, <3>1, GreatestOf
    <2>6. Readable = Max(S)
      BY Zenon DEF Readable
    <2> QED
      BY <2>1, <2>5, <2>6
  <1> QED
    BY <1>1, SaveInvIsInvariant, PTL

(***************************************************************************)
(* The numbers of a set, in order                                          *)
(***************************************************************************)

Ascending(s) == \A i, j \in DOMAIN s : i < j => s[i] < s[j]

\* There is such an order of any numbers below a bound: a least bound below
\* which there is none would be one more than their greatest.
LEMMA OrderExists ==
  \A b \in Nat : \A S \in SUBSET (0 .. b - 1) :
    IsFiniteSet(S) /\ \E s \in [1 .. Cardinality(S) -> S] : Ascending(s)
  <1> DEFINE Ordered(S) == \E s \in [1 .. Cardinality(S) -> S] : Ascending(s)
             Bad == {b \in Nat : \E S \in SUBSET (0 .. b - 1) : ~Ordered(S)}
  <1>1. \A b \in Nat : \A S \in SUBSET (0 .. b - 1) : IsFiniteSet(S)
    <2> SUFFICES ASSUME NEW b \in Nat, NEW S \in SUBSET (0 .. b - 1) PROVE IsFiniteSet(S)
      OBVIOUS
    <2>1. b - 1 \in Int
      OBVIOUS
    <2>2. IsFiniteSet(0 .. b - 1)
      BY <2>1, FS_Interval
    <2> QED
      BY <2>2, FS_Subset
  <1>2. Bad = {}
    <2> SUFFICES ASSUME Bad # {} PROVE FALSE
      OBVIOUS
    <2> DEFINE b == Min(Bad)
    <2>1. b \in Bad /\ \A y \in Bad : b <= y
      <3>1. Bad \in SUBSET Nat
        OBVIOUS
      <3> HIDE DEF Bad
      <3> QED
        BY <3>1, LeastNatural
    <2>2. b \in Nat
      BY <2>1
    <2>3. PICK S \in SUBSET (0 .. b - 1) : ~Ordered(S)
      BY <2>1
    <2> HIDE DEF b
    <2>4. S # {}
      <3> SUFFICES ASSUME S = {} PROVE FALSE
        OBVIOUS
      <3>1. Cardinality(S) = 0
        BY FS_EmptySet
      <3> DEFINE s == [i \in 1 .. 0 |-> i]
      <3>2. s \in [1 .. Cardinality(S) -> S]
        BY <3>1
      <3>3. Ascending(s)
        BY DEF Ascending
      <3> QED
        BY <2>3, <3>2, <3>3
    <2>5. b - 1 \in Nat
      <3>1. PICK x \in S : TRUE
        BY <2>4
      <3>2. x \in 0 .. b - 1
        BY <3>1
      <3> QED
        BY <2>2, <3>2
    <2>6. \A T \in SUBSET (0 .. b - 1 - 1) : Ordered(T)
      <3>1. ~(b <= b - 1)
        BY <2>2
      <3>2. b - 1 \notin Bad
        BY <2>1, <3>1
      <3> QED
        BY <2>5, <3>2
    <2>7. b - 1 \in S
      <3> SUFFICES ASSUME b - 1 \notin S PROVE FALSE
        OBVIOUS
      <3>1. S \in SUBSET (0 .. b - 1 - 1)
        BY <2>2, <2>3
      <3> QED
        BY <2>3, <2>6, <3>1
    <2> DEFINE T == S \ {b - 1}
               n == Cardinality(T)
    <2>8. T \in SUBSET (0 .. b - 1 - 1) /\ \A x \in T : x \in Nat /\ x < b - 1
      <3>1. \A x \in T : x \in 0 .. b - 1 /\ x # b - 1
        BY <2>3
      <3>2. \A x \in T : x \in Nat /\ x < b - 1 /\ x \in 0 .. b - 1 - 1
        BY <2>2, <3>1
      <3> QED
        BY <3>2
    <2>9. IsFiniteSet(S) /\ IsFiniteSet(T) /\ n \in Nat /\ Cardinality(S) = n + 1
      <3>1. IsFiniteSet(S)
        BY <1>1, <2>2
      <3>2. IsFiniteSet(T) /\ Cardinality(T) = Cardinality(S) - 1
        BY <2>7, <3>1, FS_RemoveElement
      <3>3. Cardinality(S) \in Nat /\ n \in Nat
        BY <3>1, <3>2, FS_CardinalityType
      <3> QED
        BY <3>1, <3>2, <3>3
    <2>10. PICK t \in [1 .. n -> T] : Ascending(t)
      BY <2>6, <2>8
    <2> DEFINE s == [i \in 1 .. n + 1 |-> IF i = n + 1 THEN b - 1 ELSE t[i]]
    <2>11. s \in [1 .. n + 1 -> S]
      <3> SUFFICES ASSUME NEW i \in 1 .. n + 1, i # n + 1 PROVE t[i] \in S
        BY <2>7
      <3>1. i \in 1 .. n
        BY <2>9
      <3> HIDE DEF n
      <3> QED
        BY <2>10, <3>1
    <2>12. Ascending(s)
      <3> SUFFICES ASSUME NEW i \in 1 .. n + 1, NEW j \in 1 .. n + 1, i < j
                   PROVE  s[i] < s[j]
        BY DEF Ascending
      <3>1. i \in 1 .. n
        BY <2>9
      <3>2. t[i] \in T /\ t[i] < b - 1
        <4>1. t[i] \in T
          BY <2>10, <3>1
        <4> QED
          BY <4>1, <2>8
      <3>3. CASE j = n + 1
        BY <2>9, <3>1, <3>2, <3>3
      <3>4. CASE j # n + 1
        <4>1. j \in 1 .. n
          BY <2>9, <3>4
        <4>2. t[i] < t[j]
          BY <2>10, <3>1, <4>1 DEF Ascending
        <4>3. s[i] = t[i] /\ s[j] = t[j]
          BY <2>9, <3>1, <3>4
        <4> QED
          BY <4>2, <4>3
      <3> QED
        BY <3>3, <3>4
    <2> HIDE DEF s, n, T
    <2> QED
      BY <2>3, <2>9, <2>11, <2>12
  <1> HIDE DEF Ordered
  <1>3. ASSUME NEW b \in Nat, NEW S \in SUBSET (0 .. b - 1) PROVE Ordered(S)
    BY <1>2
  <1> QED
    BY <1>1, <1>3 DEF Ordered

\* InOrder has every number of the set once, in order.
LEMMA OrderIs ==
  ASSUME NEW b \in Nat, NEW S \in SUBSET (0 .. b - 1)
  PROVE  /\ InOrder(S) \in Seq(S) /\ Ascending(InOrder(S))
         /\ Len(InOrder(S)) \in Nat
         /\ \A x \in S : \E k \in 1 .. Len(InOrder(S)) : InOrder(S)[k] = x
  <1> DEFINE n == Cardinality(S)
             s == InOrder(S)
  <1>1. IsFiniteSet(S) /\ \E t \in [1 .. n -> S] : Ascending(t)
    BY OrderExists
  <1>2. n \in Nat
    BY <1>1, FS_CardinalityType
  <1>3. s \in [1 .. n -> S] /\ Ascending(s)
    <2> HIDE DEF n
    <2> QED
      BY <1>1, Zenon DEF InOrder, Ascending, n
  <1> HIDE DEF s, n
  <1>4. s \in Seq(S) /\ Len(s) = n
    BY <1>2, <1>3
  <1>5. ASSUME NEW i \in 1 .. n, NEW j \in 1 .. n, s[i] = s[j] PROVE i = j
    <2>1. s[i] \in 0 .. b - 1
      BY <1>3
    <2>2. i < j => s[i] < s[j]
      BY <1>3 DEF Ascending
    <2>3. j < i => s[j] < s[i]
      BY <1>3 DEF Ascending
    <2>4. i \in Nat /\ j \in Nat /\ s[i] \in Nat
      BY <1>2, <2>1
    <2> QED
      BY <1>5, <2>2, <2>3, <2>4
  <1>6. s \in Injection(1 .. n, S)
    BY <1>3, <1>5 DEF Injection, IsInjective
  <1>7. IsFiniteSet(1 .. n) /\ Cardinality(1 .. n) = n
    BY <1>2, FS_Interval
  <1>8. s \in Surjection(1 .. n, S)
    BY <1>1, <1>6, <1>7, FS_Injection DEF n
  <1>9. \A x \in S : \E k \in 1 .. n : s[k] = x
    BY <1>8 DEF Surjection
  <1> QED
    BY <1>2, <1>3, <1>4, <1>9 DEF s

(***************************************************************************)
(* What is found in a buffer                                               *)
(***************************************************************************)

Here == [offset : Nat, prefix : Seq(Byte), any : BOOLEAN, failure : BOOLEAN]

PatternLength == Len(request.pattern)

Entries == 1 .. Len(request.entries)

\* The parts of a request.
LEMMA RequestIs ==
  ASSUME request \in Requests
  PROVE  /\ request.pattern \in Seq(Byte) /\ PatternLength \in Nat \ {0}
         /\ request.entries \in Seq(Entry) /\ Len(request.entries) \in Nat
         /\ request.capacity \in Nat
         /\ \A k \in Entries :
              /\ request.entries[k].address \in Addresses
              /\ request.entries[k].address \in Nat
              /\ request.entries[k].size \in Nat
  <1>1. /\ request.pattern \in Seq(Byte) \ {<<>>} /\ request.entries \in Seq(Entry)
        /\ request.capacity \in Nat
    BY RequestsAreServed
  <1>2. PatternLength \in Nat \ {0}
    BY <1>1, EmptySeq DEF PatternLength
  <1>3. \A k \in Entries : request.entries[k] \in Entry
    BY <1>1 DEF Entries
  <1>4. Addresses \subseteq Nat
    BY DEF Addresses
  <1>5. \A e \in Entry : e.address \in Addresses /\ e.size \in Nat
    BY DEF Entry
  <1>6. Len(request.entries) \in Nat
    BY <1>1
  <1> QED
    BY <1>1, <1>2, <1>3, <1>4, <1>5, <1>6

\* The pattern is in the buffer at an offset, and not all in the prefix.
FoundAt(buffer, i) ==
  /\ i + PatternLength <= Len(buffer)
  /\ i + PatternLength > Len(here.prefix)
  /\ \A j \in 1 .. PatternLength : buffer[i + j] = request.pattern[j]

\* The buffer has the pattern at an offset, byte by byte.
LEMMA PatternIsAt ==
  ASSUME request \in Requests, NEW buffer \in Seq(Byte), NEW i \in Nat,
         i + PatternLength <= Len(buffer)
  PROVE  SubSeq(buffer, i + 1, i + PatternLength) = request.pattern
           <=> \A j \in 1 .. PatternLength : buffer[i + j] = request.pattern[j]
  <1> DEFINE part == SubSeq(buffer, i + 1, i + PatternLength)
  <1>1. PatternLength \in Nat \ {0} /\ request.pattern \in Seq(Byte)
    BY RequestIs
  <1>2. \A k \in i + 1 .. i + PatternLength : buffer[k] \in Byte
    <2> SUFFICES ASSUME NEW k \in i + 1 .. i + PatternLength PROVE buffer[k] \in Byte
      OBVIOUS
    <2>1. k \in 1 .. Len(buffer)
      BY <1>1
    <2> QED
      BY <2>1, ElementOfSeq
  <1>3. /\ part \in Seq(Byte) /\ Len(part) = PatternLength
        /\ \A j \in 1 .. PatternLength : part[j] = buffer[i + j]
    <2>1. i + 1 \in Int /\ i + PatternLength \in Int /\ i + 1 <= i + PatternLength
          /\ (i + PatternLength) - (i + 1) + 1 = PatternLength
      BY <1>1
    <2>2. /\ part \in Seq(Byte)
          /\ Len(part) = (i + PatternLength) - (i + 1) + 1
          /\ \A j \in 1 .. (i + PatternLength) - (i + 1) + 1 : part[j] = buffer[i + 1 + j - 1]
      BY <1>2, <2>1, SubSeqProperties
    <2>3. \A j \in 1 .. PatternLength : i + 1 + j - 1 = i + j
      OBVIOUS
    <2> HIDE DEF part
    <2> QED
      BY <2>1, <2>2, <2>3
  <1> HIDE DEF part
  <1>4. part = request.pattern => \A j \in 1 .. PatternLength : buffer[i + j] = request.pattern[j]
    BY <1>3
  <1>5. (\A j \in 1 .. PatternLength : buffer[i + j] = request.pattern[j]) => part = request.pattern
    BY <1>1, <1>3, SeqEqual DEF PatternLength
  <1> QED
    BY <1>4, <1>5 DEF part

\* Matches are the offsets the pattern is at, in order.
LEMMA MatchesAre ==
  ASSUME request \in Requests, here \in Here, NEW buffer \in Seq(Byte)
  PROVE  /\ Matches(buffer) \in Seq(Nat) /\ Ascending(Matches(buffer))
         /\ Len(Matches(buffer)) \in Nat
         /\ \A k \in 1 .. Len(Matches(buffer)) :
              Matches(buffer)[k] \in Nat /\ FoundAt(buffer, Matches(buffer)[k])
         /\ \A i \in Nat : FoundAt(buffer, i) =>
              \E k \in 1 .. Len(Matches(buffer)) : Matches(buffer)[k] = i
  <1> DEFINE b == Len(buffer) - PatternLength + 1
             starts == {i \in 0 .. Len(buffer) - PatternLength :
                          /\ i + PatternLength > Len(here.prefix)
                          /\ SubSeq(buffer, i + 1, i + PatternLength) = request.pattern}
  <1>1. PatternLength \in Nat \ {0} /\ Len(buffer) \in Nat
    BY RequestIs
  <1>2. Matches(buffer) = InOrder(starts)
    BY DEF Matches, PatternLength
  <1>3. \A i \in starts : i \in Nat /\ FoundAt(buffer, i)
    BY <1>1, PatternIsAt DEF FoundAt
  <1>4. \A i \in Nat : FoundAt(buffer, i) => i \in starts
    BY <1>1, PatternIsAt DEF FoundAt
  <1>5. \E n \in Nat : starts \in SUBSET (0 .. n - 1)
    <2>1. CASE b \in Nat
      <3>1. starts \in SUBSET (0 .. b - 1)
        BY <1>1
      <3> QED
        BY <2>1, <3>1
    <2>2. CASE b \notin Nat
      <3>1. starts = {}
        BY <1>1, <2>2
      <3>2. starts \in SUBSET (0 .. 0 - 1)
        BY <3>1
      <3> QED
        BY <3>2
    <2> QED
      BY <2>1, <2>2
  <1> HIDE DEF starts
  <1>6. /\ InOrder(starts) \in Seq(starts) /\ Ascending(InOrder(starts))
        /\ Len(InOrder(starts)) \in Nat
        /\ \A x \in starts : \E k \in 1 .. Len(InOrder(starts)) : InOrder(starts)[k] = x
    BY <1>5, OrderIs
  <1>7. InOrder(starts) \in Seq(Nat)
    BY <1>3, <1>6, SeqMonotonic
  <1>8. \A k \in 1 .. Len(InOrder(starts)) : InOrder(starts)[k] \in starts
    BY <1>6, ElementOfSeq
  <1> QED
    BY <1>2, <1>3, <1>4, <1>6, <1>7, <1>8

(***************************************************************************)
(* The types of a search                                                   *)
(***************************************************************************)

Report ==
  [results : Seq([entry : Entries, offset : Nat]), total : Nat, truncated : BOOLEAN,
   scanned : 0 .. Len(request.entries), skipped : Nat, failures : Nat]

\* The number of entries whose search has ended.
Finished == IF phase = "chunks" THEN report.scanned - 1 ELSE report.scanned

MemoryTypes ==
  /\ memory \in [Addresses -> Byte \cup {Hole}] /\ WholePages(memory)
  /\ touched \subseteq Addresses

SearchTypes ==
  /\ request \in Requests \cup {NoRequest}
  /\ phase \in {"none", "entries", "chunks", "done", "failed"}
  /\ phase # "none" => request \in Requests /\ Len(here.prefix) < PatternLength
  /\ phase = "chunks" => report.scanned # 0
  /\ here \in Here /\ report \in Report
  /\ Len(report.results) <= request.capacity
  /\ report.skipped <= Finished /\ report.failures <= Finished

LEMMA StartIs == Start \in Here /\ Start.offset = 0 /\ Start.prefix = <<>>
  BY DEF Start, Here

LEMMA NoReportIs ==
  /\ NoReport.results = <<>> /\ NoReport.scanned = 0 /\ NoReport.skipped = 0
  /\ NoReport.failures = 0
  /\ Len(request.entries) \in Nat => NoReport \in Report
  BY DEF NoReport, Report

\* The start of the prefix, and the addresses that are in the buffer.
Base == This.address + here.offset - Len(here.prefix)

\* The entry that is searched, while it is.
LEMMA ThisIs ==
  ASSUME SearchTypes, phase = "chunks"
  PROVE  /\ report.scanned \in Entries
         /\ This.address \in Addresses /\ This.address \in Nat /\ This.size \in Nat
         /\ request \in Requests /\ PatternLength \in Nat \ {0}
         /\ here.offset \in Nat /\ here.prefix \in Seq(Byte) /\ Len(here.prefix) \in Nat
         /\ Len(here.prefix) < PatternLength
  <1>1. request \in Requests /\ Len(here.prefix) < PatternLength
    BY DEF SearchTypes
  <1>2. Len(request.entries) \in Nat
    BY <1>1, RequestIs
  <1>3. report.scanned \in Entries
    <2>1. report.scanned \in 0 .. Len(request.entries) /\ report.scanned # 0
      BY DEF SearchTypes, Report
    <2> QED
      BY <1>2, <2>1 DEF Entries
  <1>4. here.offset \in Nat /\ here.prefix \in Seq(Byte)
    BY DEF SearchTypes, Here
  <1> QED
    BY <1>1, <1>3, <1>4, RequestIs DEF This

\* The bytes that a copy of a chunk may have copied.
LEMMA ChunkIs ==
  ASSUME MemoryTypes, SearchTypes, phase = "chunks", Reading,
         NEW n \in Copyable(ChunkAddress, BytesToRead)
  PROVE  /\ n \in Nat \ {0} /\ here.offset + n <= This.size
         /\ Copied(ChunkAddress, n) \in Seq(Byte)
         /\ Len(Copied(ChunkAddress, n)) = n
         /\ \A i \in 1 .. n :
              /\ This.address + here.offset + i - 1 \in Addresses
              /\ memory[This.address + here.offset + i - 1] # Hole
              /\ Copied(ChunkAddress, n)[i] = memory[This.address + here.offset + i - 1]
  <1> DEFINE from == This.address + here.offset
  <1>1. from = ChunkAddress /\ from \in Nat
    BY ThisIs DEF ChunkAddress
  <1>2. /\ n \in 1 .. BytesToRead /\ from + n <= AddressSpace
        /\ \A i \in 0 .. n - 1 : memory[from + i] # Hole
    BY <1>1 DEF Copyable
  <1>3. BytesToRead \in Nat /\ BytesToRead <= This.size - here.offset
    <2>1. ChunkSize \in Nat /\ This.size - here.offset \in Nat
      BY ThisIs, ChunksArePositive DEF Reading
    <2> QED
      BY <2>1, MinOfTwo DEF BytesToRead
  <1>4. n \in Nat \ {0} /\ here.offset + n <= This.size
    BY <1>2, <1>3, ThisIs
  <1> HIDE DEF from
  <1>5. \A i \in 1 .. n : from + i - 1 \in Addresses /\ memory[from + i - 1] # Hole
    <2> SUFFICES ASSUME NEW i \in 1 .. n
                 PROVE  from + i - 1 \in Addresses /\ memory[from + i - 1] # Hole
      OBVIOUS
    <2>1. i - 1 \in 0 .. n - 1 /\ from + (i - 1) = from + i - 1
      BY <1>1, <1>4
    <2>2. from + i - 1 \in Addresses
      BY <1>1, <1>2, <1>4, PagesFillTheAddressSpace DEF Addresses
    <2> QED
      BY <1>2, <2>1, <2>2
  <1>6. \A i \in 1 .. n : memory[from + i - 1] \in Byte
    BY <1>5 DEF MemoryTypes
  <1>7. Copied(ChunkAddress, n) = [i \in 1 .. n |-> memory[from + i - 1]]
    BY <1>1 DEF Copied
  <1>8. Copied(ChunkAddress, n) \in [1 .. n -> Byte]
    BY <1>6, <1>7
  <1>9. Copied(ChunkAddress, n) \in Seq(Byte) /\ Len(Copied(ChunkAddress, n)) = n
    BY <1>4, <1>8
  <1> QED
    BY <1>4, <1>5, <1>7, <1>9 DEF from

\* The prefix and the copy in one buffer.
LEMMA BufferIs ==
  ASSUME MemoryTypes, SearchTypes, phase = "chunks", Reading,
         NEW n \in Copyable(ChunkAddress, BytesToRead)
  PROVE  /\ Buffer(n) \in Seq(Byte) /\ Len(Buffer(n)) = Len(here.prefix) + n
         /\ \A i \in 1 .. Len(here.prefix) : Buffer(n)[i] = here.prefix[i]
         /\ \A i \in Len(here.prefix) + 1 .. Len(here.prefix) + n :
              /\ Base + i - 1 \in Addresses
              /\ Buffer(n)[i] = memory[Base + i - 1]
  <1> DEFINE p == Len(here.prefix)
             c == Copied(ChunkAddress, n)
  <1>1. /\ p \in Nat /\ here.prefix \in Seq(Byte) /\ here.offset \in Nat
        /\ This.address \in Nat
    BY ThisIs
  <1>2. /\ n \in Nat /\ c \in Seq(Byte) /\ Len(c) = n
        /\ \A i \in 1 .. n :
              /\ This.address + here.offset + i - 1 \in Addresses
              /\ c[i] = memory[This.address + here.offset + i - 1]
    BY ChunkIs
  <1> HIDE DEF c
  <1>3. Buffer(n) = here.prefix \o c
    BY DEF Buffer, c
  <1>4. /\ Buffer(n) \in Seq(Byte) /\ Len(Buffer(n)) = p + n
        /\ \A i \in 1 .. p + n : Buffer(n)[i] = IF i <= p THEN here.prefix[i] ELSE c[i - p]
    <2>1. /\ here.prefix \o c \in Seq(Byte)
          /\ Len(here.prefix \o c) = Len(here.prefix) + Len(c)
          /\ \A i \in 1 .. Len(here.prefix) + Len(c) :
               (here.prefix \o c)[i] =
                 IF i <= Len(here.prefix) THEN here.prefix[i] ELSE c[i - Len(here.prefix)]
      BY <1>1, <1>2, ConcatProperties
    <2> QED
      BY <1>2, <1>3, <2>1
  <1>5. ASSUME NEW i \in p + 1 .. p + n
        PROVE  Base + i - 1 \in Addresses /\ Buffer(n)[i] = memory[Base + i - 1]
    <2>1. i - p \in 1 .. n /\ ~(i <= p) /\ i \in 1 .. p + n
      BY <1>1, <1>2
    <2>2. This.address + here.offset + (i - p) - 1 = Base + i - 1
      BY <1>1, <2>1 DEF Base
    <2>3. Buffer(n)[i] = c[i - p]
      BY <1>4, <2>1
    <2> QED
      BY <1>2, <2>1, <2>2, <2>3
  <1>6. \A i \in 1 .. p : Buffer(n)[i] = here.prefix[i]
    BY <1>1, <1>2, <1>4
  <1> QED
    BY <1>4, <1>5, <1>6

(***************************************************************************)
(* What a search has found so far                                          *)
(***************************************************************************)

At(place) == request.entries[place.entry].address + place.offset

\* Where nothing was written since the request began, and what is there.
Quiet(place) ==
  \A j \in 1 .. PatternLength : At(place) + j - 1 \in Addresses \ touched

Reads(place) ==
  \A j \in 1 .. PatternLength : memory[At(place) + j - 1] = request.pattern[j]

Listing(results, place) == \E k \in 1 .. Len(results) : results[k] = place

Settled(place) ==
  Quiet(place) => (Listing(report.results, place) <=> Reads(place))

\* The places that end in what was read or passed over.
Passed(place) ==
  \/ place.entry < report.scanned
  \/ /\ place.entry = report.scanned
     /\ phase = "chunks" => place.offset + PatternLength <= here.offset

InSequence ==
  \A k \in 2 .. Len(report.results) : Before(report.results[k - 1], report.results[k])

AllSettled ==
  Searching =>
    /\ \A k \in 1 .. Len(report.results) : Passed(report.results[k])
    /\ \A place \in Places : Passed(place) => Settled(place)

\* The prefix is what was read last, of all of which a match can begin in:
\* what is before it cannot be read.
Preserved ==
  phase = "chunks" =>
    /\ Len(here.prefix) <= here.offset
    /\ \A i \in 1 .. Len(here.prefix) :
         /\ Base + i - 1 \in Addresses
         /\ Base + i - 1 \notin touched => here.prefix[i] = memory[Base + i - 1]
    /\ \/ Len(here.prefix) = PatternLength - 1
       \/ Len(here.prefix) = here.offset
       \/ /\ Base - 1 \in Addresses
          /\ Base - 1 \in touched \/ memory[Base - 1] = Hole

Reported ==
  phase = "done" => \A place \in Places : Covered(place) => Settled(place)

SearchInv ==
  MemoryTypes /\ SearchTypes /\ InSequence /\ AllSettled /\ Preserved /\ Reported

\* A copied chunk has the pattern at a place that it completes exactly when
\* the memory has it.
LEMMA ChunkFinds ==
  ASSUME SearchInv, Reading, NEW n \in Copyable(ChunkAddress, BytesToRead),
         NEW place \in Places, place.entry = report.scanned, ~Passed(place),
         place.offset + PatternLength <= here.offset + n, Quiet(place)
  PROVE  Reads(place) <=>
           \E k \in 1 .. Len(Matches(Buffer(n))) : Result(Matches(Buffer(n))[k]) = place
  <1> DEFINE buffer == Buffer(n)
             p == Len(here.prefix)
             starts == Matches(buffer)
             i == place.offset - (here.offset - p)
  <1>0. phase = "chunks"
    BY DEF Reading
  <1>1. /\ p \in Nat /\ here.offset \in Nat /\ This.address \in Nat
        /\ PatternLength \in Nat \ {0} /\ p < PatternLength
        /\ request \in Requests /\ here \in Here
    BY <1>0, ThisIs DEF SearchInv, SearchTypes
  <1>2. /\ place \in [entry : DOMAIN request.entries, offset : Addresses]
        /\ place.offset \in Nat
    BY DEF Places, Addresses
  <1>3. place.offset + PatternLength > here.offset
    BY <1>0, <1>1, <1>2 DEF Passed
  <1>4. p <= here.offset
    BY <1>0 DEF SearchInv, Preserved
  <1>5. At(place) = This.address + place.offset
    BY DEF At, This
  <1>6. n \in Nat \ {0}
    BY <1>0, ChunkIs DEF SearchInv
  <1>7. /\ buffer \in Seq(Byte) /\ Len(buffer) = p + n
        /\ \A j \in 1 .. p : buffer[j] = here.prefix[j]
        /\ \A j \in p + 1 .. p + n :
             Base + j - 1 \in Addresses /\ buffer[j] = memory[Base + j - 1]
    BY <1>0, BufferIs DEF SearchInv
  <1> HIDE DEF buffer
  <1>8. /\ starts \in Seq(Nat) /\ Len(starts) \in Nat
        /\ \A k \in 1 .. Len(starts) : starts[k] \in Nat /\ FoundAt(buffer, starts[k])
        /\ \A j \in Nat : FoundAt(buffer, j) => \E k \in 1 .. Len(starts) : starts[k] = j
    BY <1>1, <1>7, MatchesAre
  <1> HIDE DEF starts
  <1>9. \A j \in Nat : Result(j) = place <=> j = i
    <2>1. \A j \in Nat : Result(j) = [entry |-> report.scanned,
                                      offset |-> here.offset - p + j]
      BY DEF Result
    <2>2. place = [entry |-> report.scanned, offset |-> place.offset]
      BY <1>2
    <2>3. \A j \in Nat : place.offset = here.offset - p + j <=> j = i
      BY <1>1, <1>2
    <2> QED
      BY <2>1, <2>2, <2>3
  <1>10. CASE i \in Nat
    <2>1. i + PatternLength <= Len(buffer) /\ i + PatternLength > p
      BY <1>1, <1>2, <1>3, <1>6, <1>7
    <2>2. \A j \in 1 .. PatternLength : buffer[i + j] = memory[At(place) + j - 1]
      <3> SUFFICES ASSUME NEW j \in 1 .. PatternLength
                   PROVE  buffer[i + j] = memory[At(place) + j - 1]
        OBVIOUS
      <3>1. i + j \in 1 .. p + n /\ Base + (i + j) - 1 = At(place) + j - 1
        <4>1. i + j \in 1 .. p + n
          <5> HIDE DEF i
          <5> QED
            BY <1>1, <1>6, <1>7, <1>10, <2>1
        <4>2. Base = This.address + here.offset - p
          BY DEF Base
        <4>3. PICK first : first = This.address
          OBVIOUS
        <4>4. PICK before : before = here.offset
          OBVIOUS
        <4>5. PICK start : start = place.offset
          OBVIOUS
        <4>6. PICK carry : carry = p
          OBVIOUS
        <4>7. first \in Nat /\ before \in Nat /\ start \in Nat /\ carry \in Nat
          BY <1>1, <1>2, <4>3, <4>4, <4>5, <4>6
        <4>8. /\ Base = first + before - carry /\ At(place) = first + start
              /\ i = start - (before - carry)
          BY <1>5, <4>2, <4>3, <4>4, <4>5, <4>6
        <4> HIDE DEF p, i
        <4>9. Base + (i + j) - 1 = At(place) + j - 1
          BY <4>7, <4>8
        <4> QED
          BY <4>1, <4>9
      <3>2. At(place) + j - 1 \notin touched
        BY DEF Quiet
      <3>3. CASE i + j <= p
        <4>1. i + j \in 1 .. p
          BY <3>1, <3>3, <1>1
        <4>2. buffer[i + j] = here.prefix[i + j]
          BY <1>7, <4>1
        <4>3. here.prefix[i + j] = memory[Base + (i + j) - 1]
          BY <1>0, <3>1, <3>2, <4>1 DEF SearchInv, Preserved
        <4> QED
          BY <3>1, <4>2, <4>3
      <3>4. CASE ~(i + j <= p)
        <4>1. i + j \in p + 1 .. p + n
          BY <1>1, <1>6, <3>1, <3>4
        <4> QED
          BY <1>7, <3>1, <4>1
      <3> QED
        BY <3>3, <3>4
    <2>3. Reads(place) <=> FoundAt(buffer, i)
      BY <2>1, <2>2 DEF Reads, FoundAt
    <2>4. FoundAt(buffer, i) <=> \E k \in 1 .. Len(starts) : starts[k] = i
      BY <1>8, <1>10
    <2> HIDE DEF i
    <2> QED
      BY <1>8, <1>9, <2>3, <2>4 DEF starts, buffer
  <1>11. CASE i \notin Nat
    <2>1. place.offset < here.offset - p
      BY <1>1, <1>2, <1>4, <1>11
    <2>2. ~Reads(place)
      <3>1. /\ Base - 1 \in Addresses
            /\ Base - 1 \in touched \/ memory[Base - 1] = Hole
        <4>1. p # PatternLength - 1
          BY <1>1, <1>2, <1>3, <2>1
        <4>2. p # here.offset
          BY <1>1, <1>2, <2>1
        <4> QED
          BY <1>0, <4>1, <4>2 DEF SearchInv, Preserved
      <3> DEFINE j == here.offset - p - place.offset
      <3>2. j \in 1 .. PatternLength /\ At(place) + j - 1 = Base - 1
        BY <1>1, <1>2, <1>3, <1>4, <1>5, <2>1 DEF Base
      <3>3. memory[Base - 1] = Hole
        <4> HIDE DEF j
        <4> QED
          BY <3>1, <3>2 DEF Quiet
      <3>4. request.pattern[j] \in Byte
        <4>1. request.pattern \in Seq(Byte)
          BY <1>1, RequestIs
        <4> HIDE DEF j
        <4> QED
          BY <3>2, <4>1, ElementOfSeq DEF PatternLength
      <3> HIDE DEF j
      <3> QED
        BY <3>2, <3>3, <3>4, HoleIsNoByte DEF Reads
    <2>3. \A k \in 1 .. Len(starts) : Result(starts[k]) # place
      <3> HIDE DEF i
      <3> QED
        BY <1>8, <1>9, <1>11
    <2> QED
      BY <2>2, <2>3 DEF starts, buffer
  <1> QED
    BY <1>10, <1>11

\* The results with the first m matches of a copy of n bytes.
With(n, m) == report.results \o [k \in 1 .. m |-> Result(Matches(Buffer(n))[k])]

\* A match of a copy ends in what was copied.
LEMMA MatchEnds ==
  ASSUME SearchInv, Reading, NEW n \in Copyable(ChunkAddress, BytesToRead)
  PROVE  /\ Len(Matches(Buffer(n))) \in Nat
         /\ \A k \in 1 .. Len(Matches(Buffer(n))) :
              /\ Matches(Buffer(n))[k] \in Nat
              /\ Result(Matches(Buffer(n))[k]) \in [entry : Entries, offset : Nat]
              /\ Result(Matches(Buffer(n))[k]).entry = report.scanned
              /\ Result(Matches(Buffer(n))[k]).offset + PatternLength > here.offset
              /\ Result(Matches(Buffer(n))[k]).offset + PatternLength <= here.offset + n
         /\ \A j, k \in 1 .. Len(Matches(Buffer(n))) :
              j < k => Result(Matches(Buffer(n))[j]).offset
                         < Result(Matches(Buffer(n))[k]).offset
  <1> DEFINE p == Len(here.prefix)
             starts == Matches(Buffer(n))
  <1>0. phase = "chunks"
    BY DEF Reading
  <1>1. /\ p \in Nat /\ here.offset \in Nat /\ PatternLength \in Nat \ {0}
        /\ report.scanned \in Entries /\ request \in Requests /\ here \in Here
    BY <1>0, ThisIs DEF SearchInv, SearchTypes
  <1>2. p <= here.offset
    BY <1>0 DEF SearchInv, Preserved
  <1>3. n \in Nat
    BY <1>0, ChunkIs DEF SearchInv
  <1>4. Buffer(n) \in Seq(Byte) /\ Len(Buffer(n)) = p + n
    BY <1>0, BufferIs DEF SearchInv
  <1>5. /\ Ascending(starts) /\ starts \in Seq(Nat) /\ Len(starts) \in Nat
        /\ \A k \in 1 .. Len(starts) : starts[k] \in Nat /\ FoundAt(Buffer(n), starts[k])
    BY <1>1, <1>4, MatchesAre
  <1> HIDE DEF starts
  <1>6. \A k \in 1 .. Len(starts) :
          /\ starts[k] \in Nat
          /\ starts[k] + PatternLength > p /\ starts[k] + PatternLength <= p + n
    BY <1>4, <1>5 DEF FoundAt
  <1>7. \A j : Result(j) = [entry |-> report.scanned, offset |-> here.offset - p + j]
    BY DEF Result
  <1>8. ASSUME NEW k \in 1 .. Len(starts)
        PROVE  /\ Result(starts[k]) \in [entry : Entries, offset : Nat]
               /\ Result(starts[k]).entry = report.scanned
               /\ Result(starts[k]).offset = here.offset - p + starts[k]
               /\ Result(starts[k]).offset + PatternLength > here.offset
               /\ Result(starts[k]).offset + PatternLength <= here.offset + n
    <2>1. /\ Result(starts[k]).entry = report.scanned
          /\ Result(starts[k]).offset = here.offset - p + starts[k]
      BY <1>7
    <2>2. here.offset - p + starts[k] \in Nat
      BY <1>1, <1>2, <1>6
    <2>3. Result(starts[k]) \in [entry : Entries, offset : Nat]
      BY <1>1, <1>7, <2>2
    <2> HIDE DEF p
    <2>4. PICK b \in Nat, a \in Nat : b = here.offset /\ a = starts[k]
      BY <1>1, <1>6
    <2>5. a + PatternLength > p /\ a + PatternLength <= p + n
      BY <1>6, <2>4
    <2>6. /\ b - p + a + PatternLength > b
          /\ b - p + a + PatternLength <= b + n
      BY <1>1, <1>3, <2>5
    <2> QED
      BY <2>1, <2>3, <2>4, <2>6
  <1>9. ASSUME NEW j \in 1 .. Len(starts), NEW k \in 1 .. Len(starts), j < k
        PROVE  Result(starts[j]).offset < Result(starts[k]).offset
    <2>1. starts[j] < starts[k] /\ starts[j] \in Nat /\ starts[k] \in Nat
      BY <1>5, <1>9 DEF Ascending
    <2>2. /\ Result(starts[j]).offset = here.offset - p + starts[j]
          /\ Result(starts[k]).offset = here.offset - p + starts[k]
      BY <1>8
    <2>3. PICK a \in Nat, b \in Nat : a = starts[j] /\ b = starts[k]
      BY <2>1
    <2>4. here.offset - p \in Int
      BY <1>1
    <2>5. PICK c \in Int : c = here.offset - p
      BY <2>4
    <2>6. c + a < c + b
      BY <2>1, <2>3
    <2> QED
      BY <2>2, <2>3, <2>5, <2>6
  <1> QED
    BY <1>5, <1>8, <1>9 DEF starts

\* The results grow by these matches, behind those that were there.
LEMMA WithIs ==
  ASSUME SearchInv, Reading, NEW n \in Copyable(ChunkAddress, BytesToRead),
         NEW m \in Nat, m <= Len(Matches(Buffer(n)))
  PROVE  /\ With(n, m) \in Seq([entry : Entries, offset : Nat])
         /\ Len(With(n, m)) = Len(report.results) + m
         /\ \A k \in 1 .. Len(report.results) : With(n, m)[k] = report.results[k]
         /\ \A k \in 1 .. m :
              With(n, m)[Len(report.results) + k] = Result(Matches(Buffer(n))[k])
         /\ \A place : Listing(With(n, m), place) <=>
              \/ Listing(report.results, place)
              \/ \E k \in 1 .. m : Result(Matches(Buffer(n))[k]) = place
  <1> DEFINE old == report.results
             new == [k \in 1 .. m |-> Result(Matches(Buffer(n))[k])]
             Places0 == [entry : Entries, offset : Nat]
  <1>1. old \in Seq(Places0) /\ Len(old) \in Nat
    BY DEF SearchInv, SearchTypes, Report
  <1>2. new \in Seq(Places0) /\ Len(new) = m
    <2>1. \A k \in 1 .. m : Result(Matches(Buffer(n))[k]) \in Places0
      BY MatchEnds
    <2>2. new \in [1 .. m -> Places0]
      BY <2>1
    <2> HIDE DEF Places0
    <2> QED
      BY <2>2
  <1>3. \A k \in 1 .. m : new[k] = Result(Matches(Buffer(n))[k])
    OBVIOUS
  <1>4. With(n, m) = old \o new
    BY DEF With
  <1> HIDE DEF old, new, Places0
  <1>5. /\ old \o new \in Seq(Places0) /\ Len(old \o new) = Len(old) + Len(new)
        /\ \A k \in 1 .. Len(old) + Len(new) :
             (old \o new)[k] = IF k <= Len(old) THEN old[k] ELSE new[k - Len(old)]
    BY <1>1, <1>2, ConcatProperties
  <1>6. \A k \in 1 .. Len(old) : With(n, m)[k] = old[k]
    BY <1>1, <1>2, <1>4, <1>5
  <1>7. \A k \in 1 .. m : With(n, m)[Len(old) + k] = Result(Matches(Buffer(n))[k])
    <2> SUFFICES ASSUME NEW k \in 1 .. m
                 PROVE  With(n, m)[Len(old) + k] = Result(Matches(Buffer(n))[k])
      OBVIOUS
    <2>1. Len(old) + k \in 1 .. Len(old) + Len(new) /\ ~(Len(old) + k <= Len(old))
          /\ Len(old) + k - Len(old) = k
      BY <1>1, <1>2
    <2>2. With(n, m)[Len(old) + k] = new[k]
      BY <1>4, <1>5, <2>1
    <2> QED
      BY <1>3, <2>2
  <1>8. \A place : Listing(With(n, m), place) <=>
          Listing(old, place) \/ \E k \in 1 .. m : Result(Matches(Buffer(n))[k]) = place
    <2> SUFFICES ASSUME NEW place
                 PROVE  Listing(With(n, m), place) <=>
                          \/ Listing(old, place)
                          \/ \E k \in 1 .. m : Result(Matches(Buffer(n))[k]) = place
      OBVIOUS
    <2>1. Len(With(n, m)) = Len(old) + m
      BY <1>2, <1>4, <1>5
    <2>2. ASSUME NEW k \in 1 .. Len(old) + m, With(n, m)[k] = place
          PROVE  \/ Listing(old, place)
                 \/ \E j \in 1 .. m : Result(Matches(Buffer(n))[j]) = place
      <3>1. CASE k <= Len(old)
        <4>1. k \in 1 .. Len(old)
          BY <1>1, <3>1
        <4> QED
          BY <1>6, <2>2, <4>1 DEF Listing
      <3>2. CASE ~(k <= Len(old))
        <4>1. k - Len(old) \in 1 .. m /\ Len(old) + (k - Len(old)) = k
          BY <1>1, <3>2
        <4> QED
          BY <1>7, <2>2, <4>1
      <3> QED
        BY <3>1, <3>2
    <2>3. ASSUME NEW k \in 1 .. Len(old), old[k] = place
          PROVE  Listing(With(n, m), place)
      <3>1. k \in 1 .. Len(old) + m
        BY <1>1
      <3> QED
        BY <1>6, <2>1, <2>3, <3>1 DEF Listing
    <2>4. ASSUME NEW k \in 1 .. m, Result(Matches(Buffer(n))[k]) = place
          PROVE  Listing(With(n, m), place)
      <3>1. Len(old) + k \in 1 .. Len(old) + m
        BY <1>1
      <3> QED
        BY <1>7, <2>1, <2>4, <3>1 DEF Listing
    <2> QED
      BY <2>1, <2>2, <2>3, <2>4 DEF Listing
  <1> QED
    BY <1>2, <1>4, <1>5, <1>6, <1>7, <1>8 DEF old, Places0

\* They are in order, behind those that were there.
LEMMA WithInOrder ==
  ASSUME SearchInv, Reading, NEW n \in Copyable(ChunkAddress, BytesToRead),
         NEW m \in Nat, m <= Len(Matches(Buffer(n)))
  PROVE  \A k \in 2 .. Len(With(n, m)) : Before(With(n, m)[k - 1], With(n, m)[k])
  <1> DEFINE old == report.results
             starts == Matches(Buffer(n))
             all == With(n, m)
  <1> SUFFICES ASSUME NEW k \in 2 .. Len(all) PROVE Before(all[k - 1], all[k])
    OBVIOUS
  <1>0. phase = "chunks"
    BY DEF Reading
  <1>1. Len(old) \in Nat /\ PatternLength \in Nat \ {0} /\ here.offset \in Nat
    BY <1>0, ThisIs DEF SearchInv, SearchTypes, Report
  <1>2. /\ Len(all) = Len(old) + m
        /\ \A j \in 1 .. Len(old) : all[j] = old[j]
        /\ \A j \in 1 .. m : all[Len(old) + j] = Result(starts[j])
    BY WithIs
  <1>3. \A j \in 1 .. m :
          /\ Result(starts[j]).entry = report.scanned /\ Result(starts[j]).offset \in Nat
          /\ Result(starts[j]).offset + PatternLength > here.offset
    BY MatchEnds
  <1>4. \A i, j \in 1 .. m : i < j => Result(starts[i]).offset < Result(starts[j]).offset
    BY MatchEnds
  <1>5. \A j \in 1 .. Len(old) : old[j] \in [entry : Entries, offset : Nat] /\ Passed(old[j])
    BY <1>0, ElementOfSeq DEF SearchInv, SearchTypes, Report, AllSettled, Searching
  <1>6. \A j \in 2 .. Len(old) : Before(old[j - 1], old[j])
    BY DEF SearchInv, InSequence
  <1> HIDE DEF old, starts, all
  <1>7. CASE k <= Len(old)
    <2>1. k - 1 \in 1 .. Len(old) /\ k \in 2 .. Len(old) /\ k \in 1 .. Len(old)
      BY <1>1, <1>7
    <2> QED
      BY <1>2, <1>6, <2>1
  <1>8. CASE k = Len(old) + 1
    <2>1. k - 1 \in 1 .. Len(old) /\ 1 \in 1 .. m /\ Len(old) + 1 = k
      BY <1>1, <1>2, <1>8
    <2>2. all[k - 1] = old[k - 1] /\ all[k] = Result(starts[1])
      BY <1>2, <2>1
    <2>3. /\ old[k - 1].entry < report.scanned
             \/ (/\ old[k - 1].entry = report.scanned
                 /\ old[k - 1].offset + PatternLength <= here.offset)
          /\ old[k - 1].offset \in Nat
      BY <1>0, <1>5, <2>1 DEF Passed
    <2>4. /\ Result(starts[1]).entry = report.scanned /\ Result(starts[1]).offset \in Nat
          /\ Result(starts[1]).offset + PatternLength > here.offset
      BY <1>3, <2>1
    <2>5. old[k - 1].offset + PatternLength <= here.offset
            => old[k - 1].offset < Result(starts[1]).offset
      BY <1>1, <2>3, <2>4
    <2> QED
      BY <2>2, <2>3, <2>4, <2>5 DEF Before
  <1>9. CASE k > Len(old) + 1
    <2> DEFINE j == k - Len(old)
    <2>1. /\ j - 1 \in 1 .. m /\ j \in 1 .. m /\ j - 1 < j
          /\ Len(old) + j = k /\ Len(old) + (j - 1) = k - 1
      BY <1>1, <1>2, <1>9
    <2> HIDE DEF j
    <2>2. all[k - 1] = Result(starts[j - 1]) /\ all[k] = Result(starts[j])
      BY <1>2, <2>1
    <2>3. Result(starts[j - 1]).offset < Result(starts[j]).offset
      BY <1>4, <2>1
    <2>4. Result(starts[j - 1]).entry = Result(starts[j]).entry
      BY <1>3, <2>1
    <2> QED
      BY <2>2, <2>3, <2>4 DEF Before
  <1> QED
    BY <1>1, <1>7, <1>8, <1>9

(***************************************************************************)
(* Pages                                                                   *)
(***************************************************************************)

\* What SMT knows of division and of products, on their own.
LEMMA Quotient ==
  ASSUME NEW a \in Nat, NEW d \in Nat, d # 0
  PROVE  a \div d \in Nat /\ a % d \in Nat /\ a % d < d /\ a = d * (a \div d) + (a % d)
  OBVIOUS

LEMMA Multiples ==
  ASSUME NEW q \in Nat, NEW r \in Nat, NEW d \in Nat, d # 0
  PROVE  q <= r <=> d * q <= d * r
  OBVIOUS

\* A page lies between two multiples of its size.
LEMMA PageBounds ==
  ASSUME NEW a \in Nat
  PROVE  /\ PageOf(a) \in Nat
         /\ PageSize * PageOf(a) <= a /\ a < PageSize * (PageOf(a) + 1)
         /\ PageSize * PageOf(a) \in Nat /\ PageSize * (PageOf(a) + 1) \in Nat
  <1>1. PageSize \in Nat /\ PageSize # 0
    BY PagesFillTheAddressSpace
  <1>2. /\ PageOf(a) \in Nat /\ a % PageSize \in Nat /\ a % PageSize < PageSize
        /\ a = PageSize * PageOf(a) + (a % PageSize)
    BY <1>1, Quotient DEF PageOf
  <1>3. PageSize * (PageOf(a) + 1) = PageSize * PageOf(a) + PageSize
    BY <1>1, <1>2
  <1> DEFINE from == PageSize * PageOf(a)
  <1>4. from \in Nat
    BY <1>1, <1>2
  <1>5. a = from + (a % PageSize) /\ PageSize * (PageOf(a) + 1) = from + PageSize
    BY <1>2, <1>3
  <1> HIDE DEF from
  <1>6. from <= a /\ a < from + PageSize /\ from + PageSize \in Nat
    BY <1>1, <1>2, <1>4, <1>5
  <1> QED
    BY <1>2, <1>4, <1>5, <1>6 DEF from

\* Addresses up to the end of a page are in it.
LEMMA SamePage ==
  ASSUME NEW a \in Nat, NEW c \in Nat, c <= a, a < PageSize * (PageOf(c) + 1)
  PROVE  PageOf(a) = PageOf(c)
  <1>1. PageSize \in Nat /\ PageSize # 0
    BY PagesFillTheAddressSpace
  <1> DEFINE q == PageOf(a)
             r == PageOf(c)
  <1>2. /\ q \in Nat /\ r \in Nat
        /\ PageSize * q <= a /\ a < PageSize * (q + 1)
        /\ PageSize * r <= c /\ a < PageSize * (r + 1)
        /\ {PageSize * q, PageSize * r, PageSize * (q + 1), PageSize * (r + 1)} \subseteq Nat
    BY PageBounds
  <1> HIDE DEF q, r
  <1>3. ~(r + 1 <= q)
    <2>1. ~(PageSize * (r + 1) <= PageSize * q)
      BY <1>2
    <2> QED
      BY <1>1, <1>2, <2>1, Multiples
  <1>4. ~(q + 1 <= r)
    <2>1. ~(PageSize * (q + 1) <= PageSize * r)
      BY <1>2
    <2> QED
      BY <1>1, <1>2, <2>1, Multiples
  <1> QED
    BY <1>2, <1>3, <1>4 DEF q, r

\* The end of a page is an address or the end of the address space.
LEMMA PageEnd ==
  ASSUME NEW c \in Addresses
  PROVE  PageSize * (PageOf(c) + 1) <= AddressSpace
  <1>1. PageSize \in Nat /\ PageSize # 0 /\ AddressSpace \in Nat
    BY PagesFillTheAddressSpace
  <1> DEFINE k == AddressSpace \div PageSize
             q == PageOf(c)
  <1>2. k \in Nat /\ AddressSpace = PageSize * k
    <2>1. /\ AddressSpace \div PageSize \in Nat
          /\ AddressSpace = PageSize * (AddressSpace \div PageSize) + (AddressSpace % PageSize)
      BY <1>1, Quotient
    <2>2. PageSize * (AddressSpace \div PageSize) \in Nat
      BY <1>1, <2>1
    <2> QED
      BY <1>1, <2>1, <2>2, PagesFillTheAddressSpace
  <1>3. c \in Nat /\ c < AddressSpace
    BY <1>1 DEF Addresses
  <1>4. q \in Nat /\ PageSize * q <= c /\ PageSize * q \in Nat
    BY <1>3, PageBounds
  <1> HIDE DEF k, q
  <1>5. ~(k <= q)
    <2>1. ~(PageSize * k <= PageSize * q)
      BY <1>1, <1>2, <1>3, <1>4
    <2> QED
      BY <1>1, <1>2, <1>4, <2>1, Multiples
  <1>6. q + 1 <= k /\ q + 1 \in Nat
    BY <1>2, <1>4, <1>5
  <1>7. PageSize * (q + 1) <= PageSize * k
    BY <1>1, <1>2, <1>6, Multiples
  <1> QED
    BY <1>2, <1>7 DEF q

\* The next page is behind this one, or there is none and it is 0.
LEMMA NextPageIs ==
  ASSUME ChunkAddress \in Addresses
  PROVE  LET end == PageSize * (PageOf(ChunkAddress) + 1) IN
         /\ end \in Nat /\ ChunkAddress < end
         /\ NextPageAddress = IF end = AddressSpace THEN 0 ELSE end
         /\ end # AddressSpace => end \in Addresses
  <1> DEFINE end == PageSize * (PageOf(ChunkAddress) + 1)
  <1>1. PageSize \in Nat /\ PageSize # 0 /\ AddressSpace \in Nat /\ AddressSpace # 0
    BY PagesFillTheAddressSpace
  <1>2. ChunkAddress \in Nat
    BY DEF Addresses
  <1>3. end \in Nat /\ ChunkAddress < end /\ PageOf(ChunkAddress) \in Nat
    BY <1>2, PageBounds
  <1>4. end <= AddressSpace
    BY PageEnd
  <1>5. (PageOf(ChunkAddress) + 1) * PageSize = end
    BY <1>1, <1>3
  <1>6. NextPageAddress = end % AddressSpace
    BY <1>5 DEF NextPageAddress
  <1> HIDE DEF end
  <1>7. end % AddressSpace = IF end = AddressSpace THEN 0 ELSE end
    BY <1>1, <1>3, <1>4
  <1>8. end # AddressSpace => end \in Addresses
    BY <1>1, <1>3, <1>4 DEF Addresses
  <1> QED
    BY <1>3, <1>6, <1>7, <1>8 DEF end

\* A page that has a hole is one.
LEMMA PageIsHole ==
  ASSUME MemoryTypes, NEW c \in Addresses, memory[c] = Hole,
         NEW a \in Addresses, PageOf(a) = PageOf(c)
  PROVE  memory[a] = Hole
  <1> DEFINE p == PageOf(c)
             content == [b \in PageAddresses(p) |-> memory[b]]
  <1>1. p \in Pages
    BY DEF Pages
  <1>2. content \in Contents(p)
    BY <1>1 DEF MemoryTypes, WholePages
  <1>3. a \in PageAddresses(p) /\ c \in PageAddresses(p)
    BY DEF PageAddresses
  <1>4. content[c] = Hole /\ content[a] = memory[a]
    BY <1>3
  <1>5. content \notin [PageAddresses(p) -> Byte]
    <2> HIDE DEF content
    <2> QED
      BY <1>3, <1>4, HoleIsNoByte
  <1>6. content = [b \in PageAddresses(p) |-> Hole]
    BY <1>2, <1>5 DEF Contents
  <1> QED
    BY <1>3, <1>4, <1>6

(***************************************************************************)
(* The steps of a search                                                   *)
(***************************************************************************)

\* The parts of a place and of a result.
LEMMA PlaceIs ==
  ASSUME SearchTypes, phase # "none", NEW place \in Places
  PROVE  /\ place.entry \in Entries /\ place.entry \in Nat /\ place.offset \in Nat
         /\ place.offset + PatternLength <= request.entries[place.entry].size
         /\ At(place) \in Nat
  <1>1. request \in Requests
    BY DEF SearchTypes
  <1>2. /\ place.entry \in DOMAIN request.entries /\ place.offset \in Addresses
        /\ place.offset + PatternLength <= request.entries[place.entry].size
    BY DEF Places, PatternLength
  <1>3. place.entry \in Entries
    BY <1>1, <1>2, RequestIs DEF Entries
  <1>4. place.offset \in Nat
    BY <1>2 DEF Addresses
  <1>5. request.entries[place.entry].address \in Nat
    BY <1>1, <1>3, RequestIs
  <1>6. At(place) \in Nat
    BY <1>4, <1>5 DEF At
  <1>7. place.entry \in Nat
    BY <1>3 DEF Entries
  <1> QED
    BY <1>2, <1>3, <1>4, <1>6, <1>7

LEMMA ListedIs ==
  ASSUME SearchTypes, NEW k \in 1 .. Len(report.results)
  PROVE  /\ report.results[k] \in [entry : Entries, offset : Nat]
         /\ report.results[k].entry \in Nat /\ report.results[k].offset \in Nat
  <1>1. report.results \in Seq([entry : Entries, offset : Nat])
    BY DEF SearchTypes, Report
  <1>2. report.results[k] \in [entry : Entries, offset : Nat]
    BY <1>1, ElementOfSeq
  <1> QED
    BY <1>2 DEF Entries

\* What depends on memory and request stays where they do.
LEMMA SameInput ==
  ASSUME UNCHANGED <<memory, touched, request>>
  PROVE  /\ MemoryTypes' = MemoryTypes /\ Places' = Places /\ Entries' = Entries
         /\ PatternLength' = PatternLength
         /\ \A place : Quiet(place)' <=> Quiet(place)
         /\ \A place : Reads(place)' <=> Reads(place)
         /\ \A place : Settled(place)' <=>
              (Quiet(place) => (Listing(report'.results, place) <=> Reads(place)))
  <1>1. PatternLength' = PatternLength /\ \A place : At(place)' = At(place)
    BY DEF PatternLength, At
  <1>2. \A place : Quiet(place)' <=> Quiet(place)
    BY <1>1 DEF Quiet
  <1>3. \A place : Reads(place)' <=> Reads(place)
    BY <1>1 DEF Reads
  <1>4. MemoryTypes' = MemoryTypes /\ Places' = Places /\ Entries' = Entries
    BY DEF MemoryTypes, WholePages, Places, Entries
  <1> QED
    BY <1>1, <1>2, <1>3, <1>4 DEF Settled, Listing

\* Where the results stay, so does what is settled.
LEMMA SameResults ==
  ASSUME UNCHANGED <<memory, touched, request>>, report'.results = report.results
  PROVE  /\ InSequence => InSequence'
         /\ \A place : Settled(place)' <=> Settled(place)
  BY SameInput DEF InSequence, Settled, Before

\* The next entry is searched from its start.
LEMMA NextEntryKeeps ==
  ASSUME SearchInv, NextEntry
  PROVE  SearchInv'
  <1>1. /\ UNCHANGED <<memory, touched, request>>
        /\ phase = "entries" /\ phase' = "chunks" /\ here' = Start
        /\ report.scanned < Len(request.entries)
        /\ report' = [report EXCEPT !.scanned = @ + 1]
    BY DEF NextEntry, More, kept
  <1>2. request \in Requests /\ report \in Report /\ Len(request.entries) \in Nat
    BY <1>1, RequestIs DEF SearchInv, SearchTypes
  <1>3. /\ report.scanned \in Nat /\ report.skipped \in Nat /\ report.failures \in Nat
        /\ report.scanned + 1 \in 0 .. Len(request.entries)
    BY <1>1, <1>2 DEF Report
  <1>4. /\ report' \in Report
        /\ report'.results = report.results /\ report'.scanned = report.scanned + 1
        /\ report'.skipped = report.skipped /\ report'.failures = report.failures
    BY <1>1, <1>2, <1>3 DEF Report
  <1>5. PatternLength \in Nat \ {0}
    BY <1>2, RequestIs
  <1>6. SearchTypes'
    <2>1. /\ report' \in Report' /\ PatternLength' = PatternLength
      BY <1>1, <1>4, SameInput DEF Report
    <2>2. Len(here'.prefix) = 0 /\ here' \in Here
      BY <1>1, StartIs
    <2>3. /\ Len(report.results) <= request.capacity
          /\ report.skipped <= report.scanned /\ report.failures <= report.scanned
      BY <1>1 DEF SearchInv, SearchTypes, Finished
    <2>4. Finished' = report.scanned
      BY <1>1, <1>3, <1>4 DEF Finished
    <2> QED
      BY <1>1, <1>2, <1>3, <1>4, <1>5, <2>1, <2>2, <2>3, <2>4 DEF SearchTypes
  <1>7. \A place : place.entry \in Nat /\ place.offset \in Nat =>
          (Passed(place)' <=> Passed(place))
    <2>1. here'.offset = 0 /\ PatternLength' = PatternLength
      BY <1>1, StartIs, SameInput
    <2> QED
      BY <1>1, <1>3, <1>4, <1>5, <2>1 DEF Passed
  <1>8. AllSettled'
    <2>1. \A k \in 1 .. Len(report.results) : Passed(report.results[k])'
      BY <1>1, <1>4, <1>7, ListedIs DEF SearchInv, AllSettled, Searching
    <2>2. \A place \in Places : Passed(place)' => Settled(place)'
      BY <1>1, <1>4, <1>7, PlaceIs, SameResults DEF SearchInv, AllSettled, Searching
    <2> QED
      BY <1>1, <1>4, <2>1, <2>2, SameInput DEF AllSettled
  <1>9. Preserved'
    BY <1>1, StartIs DEF Preserved
  <1>10. Reported'
    BY <1>1 DEF Reported
  <1>11. MemoryTypes' /\ InSequence'
    BY <1>1, <1>4, SameInput, SameResults DEF SearchInv
  <1> QED
    BY <1>6, <1>8, <1>9, <1>10, <1>11 DEF SearchInv

\* The answer covers every place, as every entry is passed.
LEMMA AnswerKeeps ==
  ASSUME SearchInv, Answer
  PROVE  SearchInv'
  <1>1. /\ UNCHANGED <<memory, touched, request, here, report>>
        /\ phase = "entries" /\ phase' = "done"
        /\ report.scanned = Len(request.entries)
    BY DEF Answer, kept
  <1>2. SearchTypes'
    BY <1>1, SameInput DEF SearchInv, SearchTypes, Finished, Report
  <1>3. Reported'
    <2> SUFFICES ASSUME NEW place \in Places PROVE Settled(place)
      BY <1>1, SameInput, SameResults DEF Reported
    <2>1. place.entry \in Nat /\ place.entry <= report.scanned /\ report.scanned \in Nat
      BY <1>1, PlaceIs, RequestIs DEF SearchInv, SearchTypes, Entries
    <2>2. Passed(place)
      BY <1>1, <2>1 DEF Passed
    <2> QED
      BY <1>1, <2>2 DEF SearchInv, AllSettled, Searching
  <1>4. MemoryTypes' /\ InSequence'
    BY <1>1, SameInput, SameResults DEF SearchInv
  <1> QED
    BY <1>1, <1>2, <1>3, <1>4 DEF SearchInv, AllSettled, Preserved, Searching

\* The requests that fail report nothing.
LEMMA FailureKeeps ==
  ASSUME SearchInv, phase # "none", phase' = "failed", report' = NoReport,
         UNCHANGED <<memory, touched, request, here>>
  PROVE  SearchInv'
  <1>1. request \in Requests /\ Len(request.entries) \in Nat /\ request.capacity \in Nat
    BY RequestIs DEF SearchInv, SearchTypes
  <1>2. /\ report' \in Report' /\ report'.results = <<>> /\ report'.scanned = 0
        /\ report'.skipped = 0 /\ report'.failures = 0
    BY <1>1, NoReportIs, SameInput DEF Report
  <1>3. SearchTypes'
    BY <1>1, <1>2, SameInput DEF SearchInv, SearchTypes, Finished
  <1>4. MemoryTypes' /\ InSequence'
    BY <1>2, SameInput DEF SearchInv, InSequence
  <1> QED
    BY <1>3, <1>4 DEF SearchInv, AllSettled, Preserved, Searching, Reported

\* The end of an entry: what is not passed yet of it is settled too, as it
\* cannot be read.
LEMMA LeaveKeeps ==
  ASSUME SearchInv, phase = "chunks", NEW any, NEW failure, Leave(any, failure),
         \A place \in Places :
           place.entry = report.scanned /\ ~Passed(place) /\ Quiet(place) => ~Reads(place)
  PROVE  SearchInv'
  <1>1. /\ UNCHANGED <<memory, touched, request>>
        /\ phase' = "entries" /\ here' = Start
        /\ report' = [report EXCEPT !.skipped = IF any THEN @ ELSE @ + 1,
                                    !.failures = IF failure THEN @ + 1 ELSE @]
    BY DEF Leave, kept
  <1>2. request \in Requests /\ report \in Report /\ Len(request.entries) \in Nat
    BY RequestIs DEF SearchInv, SearchTypes
  <1>3. /\ report.scanned \in Nat /\ report.scanned # 0
        /\ report.skipped \in Nat /\ report.failures \in Nat
        /\ report.skipped <= report.scanned - 1 /\ report.failures <= report.scanned - 1
    BY <1>2 DEF Report, SearchInv, SearchTypes, Finished
  <1>4. /\ report' \in Report
        /\ report'.results = report.results /\ report'.scanned = report.scanned
        /\ report'.skipped <= report.scanned /\ report'.failures <= report.scanned
    <2>1. PICK skipped, failures :
            /\ skipped = IF any THEN report.skipped ELSE report.skipped + 1
            /\ failures = IF failure THEN report.failures + 1 ELSE report.failures
      OBVIOUS
    <2>2. report' = [report EXCEPT !.skipped = skipped, !.failures = failures]
      BY <1>1, <1>2, <2>1 DEF Report
    <2>3. /\ skipped \in Nat /\ failures \in Nat
          /\ skipped <= report.scanned /\ failures <= report.scanned
      BY <1>3, <2>1
    <2> QED
      BY <1>2, <2>2, <2>3 DEF Report
  <1>5. PatternLength \in Nat \ {0}
    BY <1>2, RequestIs
  <1>6. SearchTypes'
    <2>1. /\ report' \in Report' /\ PatternLength' = PatternLength
      BY <1>1, <1>4, SameInput DEF Report
    <2>2. Len(here'.prefix) = 0 /\ here' \in Here
      BY <1>1, StartIs
    <2>3. Len(report.results) <= request.capacity
      BY DEF SearchInv, SearchTypes
    <2>4. Finished' = report.scanned
      BY <1>1, <1>4 DEF Finished
    <2> QED
      BY <1>1, <1>2, <1>4, <1>5, <2>1, <2>2, <2>3, <2>4 DEF SearchTypes
  <1>7. \A k \in 1 .. Len(report.results) : Passed(report.results[k])
    BY DEF SearchInv, AllSettled, Searching
  <1>8. AllSettled'
    <2>1. \A k \in 1 .. Len(report.results) : Passed(report.results[k])'
      BY <1>1, <1>4, <1>7 DEF Passed
    <2>2. \A place \in Places : Passed(place)' => Settled(place)
      <3> SUFFICES ASSUME NEW place \in Places, Passed(place)', ~Passed(place)
                   PROVE  Settled(place)
        BY DEF SearchInv, AllSettled, Searching
      <3>1. place.entry = report.scanned
        BY <1>1, <1>4 DEF Passed
      <3>2. ~Listing(report.results, place)
        BY <1>7 DEF Listing
      <3> QED
        BY <3>1, <3>2 DEF Settled
    <2> QED
      BY <1>1, <1>4, <2>1, <2>2, SameInput, SameResults DEF AllSettled
  <1>9. Preserved' /\ Reported'
    BY <1>1 DEF Preserved, Reported
  <1>10. MemoryTypes' /\ InSequence'
    BY <1>1, <1>4, SameInput, SameResults DEF SearchInv
  <1> QED
    BY <1>6, <1>8, <1>9, <1>10 DEF SearchInv

\* An entry that was read to its end has no place that is not passed.
LEMMA EntryEndsKeeps ==
  ASSUME SearchInv, EntryEnds
  PROVE  SearchInv'
  <1>1. phase = "chunks" /\ here.offset >= This.size /\ Leave(here.any, here.failure)
    BY DEF EntryEnds
  <1>2. ASSUME NEW place \in Places, place.entry = report.scanned PROVE Passed(place)
    <2>1. place.offset + PatternLength <= This.size /\ place.offset \in Nat
      BY <1>1, <1>2, PlaceIs DEF This, SearchInv
    <2>2. here.offset \in Nat /\ This.size \in Nat /\ PatternLength \in Nat
      BY <1>1, ThisIs DEF SearchInv
    <2> QED
      BY <1>1, <1>2, <2>1, <2>2 DEF Passed
  <1> QED
    BY <1>1, <1>2, LeaveKeeps

\* No match begins in a page that cannot be read or goes on into it.
LEMMA HoleHides ==
  ASSUME SearchInv, phase = "chunks", ChunkAddress \in Addresses,
         memory[ChunkAddress] = Hole,
         NEW place \in Places, place.entry = report.scanned, ~Passed(place), Quiet(place),
         At(place) < PageSize * (PageOf(ChunkAddress) + 1)
  PROVE  ~Reads(place)
  <1>1. /\ place.offset \in Nat /\ At(place) \in Nat
        /\ PatternLength \in Nat \ {0} /\ request \in Requests
        /\ here.offset \in Nat /\ This.address \in Nat
    BY PlaceIs, ThisIs DEF SearchInv
  <1>2. ChunkAddress \in Nat
    BY DEF Addresses
  <1>3. At(place) + PatternLength > ChunkAddress
    <2>1. place.offset + PatternLength > here.offset
      BY <1>1 DEF Passed
    <2>2. At(place) = This.address + place.offset
      BY DEF At, This
    <2> QED
      BY <1>1, <2>1, <2>2 DEF ChunkAddress
  <1>4. PICK j \in 1 .. PatternLength :
          /\ ChunkAddress <= At(place) + j - 1
          /\ At(place) + j - 1 < PageSize * (PageOf(ChunkAddress) + 1)
    <2>1. CASE ChunkAddress <= At(place)
      <3>1. 1 \in 1 .. PatternLength /\ At(place) + 1 - 1 = At(place)
        BY <1>1
      <3> QED
        BY <2>1, <3>1
    <2>2. CASE ~(ChunkAddress <= At(place))
      <3>1. PICK j \in 1 .. PatternLength : At(place) + j - 1 = ChunkAddress
        <4>1. ChunkAddress - At(place) + 1 \in 1 .. PatternLength
          BY <1>1, <1>2, <1>3, <2>2
        <4>2. At(place) + (ChunkAddress - At(place) + 1) - 1 = ChunkAddress
          BY <1>1, <1>2
        <4> QED
          BY <4>1, <4>2
      <3> QED
        BY <1>2, <3>1, NextPageIs
    <2> QED
      BY <2>1, <2>2
  <1>5. At(place) + j - 1 \in Addresses
    BY DEF Quiet
  <1>6. memory[At(place) + j - 1] = Hole
    <2>1. At(place) + j - 1 \in Nat
      BY <1>5 DEF Addresses
    <2>2. PageOf(At(place) + j - 1) = PageOf(ChunkAddress)
      BY <1>2, <1>4, <2>1, SamePage
    <2> QED
      BY <1>5, <2>2, PageIsHole DEF SearchInv
  <1>7. request.pattern[j] \in Byte
    <2>1. request.pattern \in Seq(Byte)
      BY <1>1, RequestIs
    <2> QED
      BY <2>1, ElementOfSeq DEF PatternLength
  <1> QED
    BY <1>6, <1>7, HoleIsNoByte DEF Reads

\* The places in a page that is skipped cannot be read.
LEMMA SkipPageKeeps ==
  ASSUME SearchInv, SkipPage
  PROVE  SearchInv'
  <1> DEFINE end == PageSize * (PageOf(ChunkAddress) + 1)
  <1>0. /\ phase = "chunks" /\ here.offset < This.size
        /\ ChunkAddress < AddressSpace /\ memory[ChunkAddress] = Hole
    BY DEF SkipPage, Reading
  <1>1. /\ request \in Requests /\ PatternLength \in Nat \ {0}
        /\ This.address \in Nat /\ here.offset \in Nat /\ here \in Here
        /\ report.scanned \in Entries
    BY <1>0, ThisIs DEF SearchInv, SearchTypes
  <1>2. /\ ChunkAddress \in Addresses /\ ChunkAddress \in Nat
        /\ ChunkAddress = This.address + here.offset
    BY <1>0, <1>1, PagesFillTheAddressSpace DEF ChunkAddress, Addresses
  <1>3. /\ end \in Nat /\ ChunkAddress < end
        /\ NextPageAddress = IF end = AddressSpace THEN 0 ELSE end
        /\ end # AddressSpace => end \in Addresses
    BY <1>2, NextPageIs
  <1> HIDE DEF end
  <1>4. ASSUME NEW place \in Places, place.entry = report.scanned, ~Passed(place),
               Quiet(place), At(place) < end
        PROVE  ~Reads(place)
    BY <1>0, <1>2, <1>4, HoleHides DEF end
  <1>5. CASE NextPageAddress <= This.address /\ Leave(here.any, TRUE)
    <2>1. end = AddressSpace
      BY <1>1, <1>2, <1>3, <1>5
    <2>2. ASSUME NEW place \in Places, Quiet(place) PROVE At(place) < end
      <3>1. 1 \in 1 .. PatternLength /\ At(place) \in Nat
        BY <1>0, <1>1, PlaceIs DEF SearchInv
      <3>2. At(place) + 1 - 1 \in Addresses
        BY <2>2, <3>1 DEF Quiet
      <3> QED
        BY <2>1, <3>1, <3>2, PagesFillTheAddressSpace DEF Addresses
    <2> QED
      BY <1>0, <1>4, <1>5, <2>2, LeaveKeeps
  <1>6. CASE /\ NextPageAddress > This.address
             /\ here' = [here EXCEPT !.offset = NextPageAddress - This.address,
                                     !.prefix = <<>>, !.failure = TRUE]
             /\ UNCHANGED <<kept, phase, report>>
    <2>1. /\ UNCHANGED <<memory, touched, request, phase, report>>
          /\ end # AddressSpace /\ NextPageAddress = end /\ end \in Addresses
      BY <1>1, <1>3, <1>6 DEF kept
    <2>2. /\ here' \in Here /\ here'.prefix = <<>> /\ Len(here'.prefix) = 0
          /\ here'.offset = end - This.address
          /\ here'.offset \in Nat /\ here.offset < here'.offset
      <3>1. end - This.address \in Nat /\ here.offset < end - This.address
        BY <1>1, <1>2, <1>3
      <3>2. PICK prefix, failure :
              /\ prefix = <<>> /\ failure = TRUE
              /\ here' = [here EXCEPT !.offset = end - This.address,
                                     !.prefix = prefix, !.failure = failure]
        BY <1>6, <2>1
      <3>3. prefix \in Seq(Byte) /\ Len(prefix) = 0 /\ failure \in BOOLEAN
        BY <3>2
      <3>4. /\ here'.offset = end - This.address /\ here'.prefix = prefix
            /\ here' \in Here
        BY <1>1, <3>1, <3>2, <3>3 DEF Here
      <3> QED
        BY <3>1, <3>2, <3>3, <3>4
    <2>3. SearchTypes'
      BY <1>0, <1>1, <2>1, <2>2, SameInput DEF SearchInv, SearchTypes, Finished, Report
    <2>4. \A place : Passed(place)' <=>
            \/ place.entry < report.scanned
            \/ /\ place.entry = report.scanned
               /\ place.offset + PatternLength <= end - This.address
      BY <1>0, <2>1, <2>2, SameInput DEF Passed
    <2>5. \A k \in 1 .. Len(report.results) : Passed(report.results[k])
      BY <1>0 DEF SearchInv, AllSettled, Searching
    <2>6. AllSettled'
      <3>1. \A k \in 1 .. Len(report.results) : Passed(report.results[k])'
        <4>1. ASSUME NEW place, place.offset \in Nat, Passed(place) PROVE Passed(place)'
          BY <1>0, <1>1, <2>2, <2>4, <4>1 DEF Passed
        <4> QED
          BY <2>1, <2>5, <4>1, ListedIs DEF SearchInv
      <3>2. \A place \in Places : Passed(place)' => Settled(place)
        <4> SUFFICES ASSUME NEW place \in Places, Passed(place)', ~Passed(place)
                     PROVE  Settled(place)
          BY <1>0 DEF SearchInv, AllSettled, Searching
        <4>1. /\ place.entry = report.scanned
              /\ place.offset + PatternLength <= end - This.address
          BY <2>4 DEF Passed
        <4>2. ~Listing(report.results, place)
          BY <2>5 DEF Listing
        <4>3. At(place) = This.address + place.offset /\ place.offset \in Nat
          BY <1>0, <4>1, PlaceIs DEF At, This, SearchInv
        <4>4. At(place) < end
          BY <1>1, <1>3, <4>1, <4>3
        <4> QED
          BY <1>4, <4>1, <4>2, <4>4 DEF Settled
      <3> QED
        BY <2>1, <3>1, <3>2, SameInput, SameResults DEF AllSettled
    <2>7. Preserved'
      <3>1. Base' - 1 = end - 1
        BY <1>1, <1>3, <2>1, <2>2 DEF Base, This
      <3>2. end - 1 \in Addresses /\ end - 1 \in Nat
        BY <1>2, <1>3, <2>1, PagesFillTheAddressSpace DEF Addresses
      <3>3. memory[end - 1] = Hole
        <4>1. PageOf(end - 1) = PageOf(ChunkAddress)
          BY <1>2, <1>3, <3>2, SamePage DEF end
        <4> QED
          BY <1>0, <1>2, <3>2, <4>1, PageIsHole DEF SearchInv
      <3> QED
        BY <2>1, <2>2, <3>1, <3>2, <3>3 DEF Preserved
    <2>8. Reported'
      BY <1>0, <2>1 DEF Reported
    <2>9. MemoryTypes' /\ InSequence'
      BY <2>1, SameInput, SameResults DEF SearchInv
    <2> QED
      BY <2>3, <2>6, <2>7, <2>8, <2>9 DEF SearchInv
  <1> QED
    BY <1>5, <1>6 DEF SkipPage

\* What is carried over is the end of the buffer, one byte shorter than the
\* pattern if there is as much.
LEMMA CarriedIs ==
  ASSUME request \in Requests, NEW buffer \in Seq(Byte)
  PROVE  /\ Carried(buffer) \in Seq(Byte) /\ Len(Carried(buffer)) \in Nat
         /\ Len(Carried(buffer)) \in {PatternLength - 1, Len(buffer)}
         /\ Len(Carried(buffer)) < PatternLength
         /\ Len(Carried(buffer)) <= Len(buffer)
         /\ \A i \in 1 .. Len(Carried(buffer)) :
              Carried(buffer)[i] = buffer[Len(buffer) - Len(Carried(buffer)) + i]
  <1> DEFINE length == Min({PatternLength - 1, Len(buffer)})
             from == Len(buffer) - length + 1
  <1>1. PatternLength \in Nat \ {0} /\ Len(buffer) \in Nat
    BY RequestIs
  <1>2. /\ length \in {PatternLength - 1, Len(buffer)}
        /\ length <= PatternLength - 1 /\ length <= Len(buffer) /\ length \in Nat
    <2>1. PatternLength - 1 \in Nat
      BY <1>1
    <2> QED
      BY <1>1, <2>1, MinOfTwo
  <1>3. Carried(buffer) = SubSeq(buffer, from, Len(buffer))
    BY DEF Carried, PatternLength
  <1> HIDE DEF length
  <1>4. from \in 1 .. Len(buffer) + 1 /\ Len(buffer) \in from - 1 .. Len(buffer)
    BY <1>1, <1>2
  <1>5. /\ SubSeq(buffer, from, Len(buffer)) \in Seq(Byte)
        /\ Len(SubSeq(buffer, from, Len(buffer))) = length
        /\ \A i \in 1 .. length :
             SubSeq(buffer, from, Len(buffer))[i] = buffer[Len(buffer) - length + i]
    <2>1. \A k \in from .. Len(buffer) : buffer[k] \in Byte
      <3> SUFFICES ASSUME NEW k \in from .. Len(buffer) PROVE buffer[k] \in Byte
        OBVIOUS
      <3>1. k \in 1 .. Len(buffer)
        BY <1>1, <1>4
      <3> QED
        BY <3>1, ElementOfSeq
    <2>2. from \in Int /\ Len(buffer) \in Int
      BY <1>1, <1>4
    <2>3. /\ SubSeq(buffer, from, Len(buffer)) \in Seq(Byte)
          /\ Len(SubSeq(buffer, from, Len(buffer))) =
               (IF from <= Len(buffer) THEN Len(buffer) - from + 1 ELSE 0)
          /\ \A i \in 1 .. (Len(buffer) - from + 1) :
               SubSeq(buffer, from, Len(buffer))[i] = buffer[from + i - 1]
      BY <2>1, <2>2, SubSeqProperties
    <2>4. /\ (IF from <= Len(buffer) THEN Len(buffer) - from + 1 ELSE 0) = length
          /\ Len(buffer) - from + 1 = length
      BY <1>1, <1>2
    <2>5. \A i \in 1 .. length : from + i - 1 = Len(buffer) - length + i
      BY <1>1, <1>2
    <2> HIDE DEF from
    <2> QED
      BY <2>3, <2>4, <2>5
  <1> HIDE DEF from
  <1> QED
    BY <1>1, <1>2, <1>3, <1>5

\* The matches of a copy are those of the places that it completes.
LEMMA WithSettles ==
  ASSUME SearchInv, Reading, NEW n \in Copyable(ChunkAddress, BytesToRead),
         NEW m \in Nat, m <= Len(Matches(Buffer(n)))
  PROVE  /\ \A place : Listing(With(n, m), place) =>
              \/ place.entry < report.scanned
              \/ /\ place.entry = report.scanned
                 /\ place.offset + PatternLength <= here.offset + n
         /\ \A place \in Places : Passed(place) =>
              (Quiet(place) => (Listing(With(n, m), place) <=> Reads(place)))
         /\ \A place \in Places :
              /\ ~Passed(place) /\ place.entry = report.scanned
              /\ place.offset + PatternLength <= here.offset + n
              /\ Quiet(place)
              => (Reads(place) <=> \E k \in 1 .. Len(Matches(Buffer(n))) :
                                     Result(Matches(Buffer(n))[k]) = place)
         /\ \A place \in Places : ~Passed(place) => ~Listing(report.results, place)
  <1> DEFINE starts == Matches(Buffer(n))
  <1>0. phase = "chunks"
    BY DEF Reading
  <1>1. /\ here.offset \in Nat /\ PatternLength \in Nat \ {0} /\ n \in Nat
    BY <1>0, ThisIs, ChunkIs DEF SearchInv
  <1>2. \A place : Listing(With(n, m), place) <=>
          \/ Listing(report.results, place)
          \/ \E k \in 1 .. m : Result(starts[k]) = place
    BY WithIs
  <1>3. \A k \in 1 .. Len(starts) :
          /\ Result(starts[k]).entry = report.scanned /\ Result(starts[k]).offset \in Nat
          /\ Result(starts[k]).offset + PatternLength > here.offset
          /\ Result(starts[k]).offset + PatternLength <= here.offset + n
    BY MatchEnds
  <1>4. \A k \in 1 .. m : k \in 1 .. Len(starts)
    BY MatchEnds
  <1>5. \A place : Listing(report.results, place) =>
          Passed(place) /\ place.offset \in Nat /\ place.entry \in Nat
    BY <1>0, ListedIs DEF SearchInv, AllSettled, Searching, Listing
  <1> HIDE DEF starts
  <1>6. \A k \in 1 .. Len(starts) : ~Passed(Result(starts[k]))
    <2> SUFFICES ASSUME NEW k \in 1 .. Len(starts) PROVE ~Passed(Result(starts[k]))
      OBVIOUS
    <2>1. report.scanned \in Nat
      BY <1>0, ThisIs DEF SearchInv, Entries
    <2> QED
      BY <1>0, <1>1, <1>3, <2>1 DEF Passed
  <1>7. ASSUME NEW place, Listing(With(n, m), place)
        PROVE  \/ place.entry < report.scanned
               \/ /\ place.entry = report.scanned
                  /\ place.offset + PatternLength <= here.offset + n
    <2>1. CASE Listing(report.results, place)
      BY <1>0, <1>1, <1>5, <2>1 DEF Passed
    <2>2. CASE \E k \in 1 .. m : Result(starts[k]) = place
      BY <1>3, <1>4, <2>2
    <2> QED
      BY <1>2, <1>7, <2>1, <2>2
  <1>8. ASSUME NEW place \in Places, Passed(place), Quiet(place)
        PROVE  Listing(With(n, m), place) <=> Reads(place)
    <2>1. Listing(report.results, place) <=> Reads(place)
      BY <1>0, <1>8 DEF SearchInv, AllSettled, Searching, Settled
    <2>2. \A k \in 1 .. m : Result(starts[k]) # place
      BY <1>4, <1>6, <1>8
    <2> QED
      BY <1>2, <2>1, <2>2
  <1>9. ASSUME NEW place \in Places, ~Passed(place), place.entry = report.scanned,
               place.offset + PatternLength <= here.offset + n, Quiet(place)
        PROVE  Reads(place) <=> \E k \in 1 .. Len(starts) : Result(starts[k]) = place
    BY <1>9, ChunkFinds DEF starts
  <1> QED
    BY <1>5, <1>7, <1>8, <1>9, Zenon DEF starts

\* What is carried over preserves what a match with the next chunk needs.
LEMMA CarriedPreserves ==
  ASSUME SearchInv, Reading, NEW n \in Copyable(ChunkAddress, BytesToRead),
         NEW prefix, prefix = Carried(Buffer(n)),
         NEW base, base = This.address + (here.offset + n) - Len(prefix)
  PROVE  /\ prefix \in Seq(Byte) /\ Len(prefix) \in Nat /\ Len(prefix) < PatternLength
         /\ Len(prefix) <= here.offset + n
         /\ \A i \in 1 .. Len(prefix) :
              /\ base + i - 1 \in Addresses
              /\ base + i - 1 \notin touched => prefix[i] = memory[base + i - 1]
         /\ \/ Len(prefix) = PatternLength - 1
            \/ Len(prefix) = here.offset + n
            \/ /\ base - 1 \in Addresses
               /\ base - 1 \in touched \/ memory[base - 1] = Hole
  <1> DEFINE p == Len(here.prefix)
             q == Len(prefix)
  <1>0. phase = "chunks"
    BY DEF Reading
  <1>1. /\ p \in Nat /\ here.offset \in Nat /\ This.address \in Nat
        /\ PatternLength \in Nat \ {0} /\ p < PatternLength /\ request \in Requests
    BY <1>0, ThisIs DEF SearchInv
  <1>2. n \in Nat \ {0}
    BY <1>0, ChunkIs DEF SearchInv
  <1>3. /\ p <= here.offset
        /\ \A i \in 1 .. p :
             /\ Base + i - 1 \in Addresses
             /\ Base + i - 1 \notin touched => here.prefix[i] = memory[Base + i - 1]
        /\ \/ p = PatternLength - 1
           \/ p = here.offset
           \/ /\ Base - 1 \in Addresses
              /\ Base - 1 \in touched \/ memory[Base - 1] = Hole
    BY <1>0 DEF SearchInv, Preserved
  <1>4. /\ Buffer(n) \in Seq(Byte) /\ Len(Buffer(n)) = p + n
        /\ \A i \in 1 .. p : Buffer(n)[i] = here.prefix[i]
        /\ \A i \in p + 1 .. p + n :
             Base + i - 1 \in Addresses /\ Buffer(n)[i] = memory[Base + i - 1]
    BY <1>0, BufferIs DEF SearchInv
  <1>5. /\ prefix \in Seq(Byte) /\ q \in Nat
        /\ q \in {PatternLength - 1, p + n} /\ q < PatternLength /\ q <= p + n
        /\ \A i \in 1 .. q : prefix[i] = Buffer(n)[p + n - q + i]
    <2>1. PICK buffer \in Seq(Byte) :
            buffer = Buffer(n) /\ Len(buffer) = p + n /\ prefix = Carried(buffer)
      BY <1>4
    <2>2. /\ Carried(buffer) \in Seq(Byte) /\ Len(Carried(buffer)) \in Nat
          /\ Len(Carried(buffer)) \in {PatternLength - 1, Len(buffer)}
          /\ Len(Carried(buffer)) < PatternLength
          /\ Len(Carried(buffer)) <= Len(buffer)
          /\ \A i \in 1 .. Len(Carried(buffer)) :
               Carried(buffer)[i] = buffer[Len(buffer) - Len(Carried(buffer)) + i]
      BY <1>1, CarriedIs
    <2>3. /\ prefix \in Seq(Byte) /\ q \in Nat
          /\ q \in {PatternLength - 1, Len(buffer)} /\ q < PatternLength
          /\ q <= Len(buffer)
          /\ \A i \in 1 .. q : prefix[i] = buffer[Len(buffer) - q + i]
      BY <2>1, <2>2, Zenon
    <2> HIDE DEF p, q
    <2> QED
      BY <1>1, <1>2, <2>1, <2>3
  <1>6. Base \in Int /\ Base = This.address + here.offset - p
    BY <1>1 DEF Base
  <1> HIDE DEF p, q
  <1>7. base = Base + (p + n - q)
    <2>1. base = This.address + (here.offset + n) - q
      BY DEF q
    <2>2. PICK first \in Nat, before \in Nat : first = This.address /\ before = here.offset
      BY <1>1
    <2>3. base = first + (before + n) - q /\ Base = first + before - p
      BY <1>6, <2>1, <2>2
    <2>4. p \in Nat /\ q \in Nat /\ n \in Nat
      BY <1>1, <1>2, <1>5
    <2>5. \A a, b, c, d, e \in Nat : a + (b + c) - d = a + b - e + (e + c - d)
      OBVIOUS
    <2>6. first + (before + n) - q = first + before - p + (p + n - q)
      BY <2>4, <2>5
    <2> QED
      BY <2>3, <2>6
  <1>8. ASSUME NEW i \in 1 .. q
        PROVE  /\ base + i - 1 \in Addresses
               /\ base + i - 1 \notin touched => prefix[i] = memory[base + i - 1]
    <2>1. PICK k \in 1 .. p + n : k = p + n - q + i
      <3>1. q \in Nat /\ q <= p + n
        BY <1>5
      <3>2. p + n - q + i \in 1 .. p + n
        BY <1>1, <1>2, <3>1
      <3> QED
        BY <3>2
    <2>2. base + i - 1 = Base + k - 1
      BY <1>1, <1>2, <1>5, <1>6, <1>7, <2>1
    <2>3. prefix[i] = Buffer(n)[k]
      BY <1>5, <2>1
    <2>4. CASE k <= p
      <3>1. k \in 1 .. p
        BY <1>1, <2>4
      <3> QED
        BY <1>3, <1>4, <2>2, <2>3, <3>1
    <2>5. CASE ~(k <= p)
      <3>1. k \in p + 1 .. p + n
        BY <1>1, <1>2, <2>5
      <3> QED
        BY <1>4, <2>2, <2>3, <3>1
    <2> QED
      BY <2>4, <2>5
  <1>9. \/ q = PatternLength - 1
        \/ q = here.offset + n
        \/ /\ base - 1 \in Addresses
           /\ base - 1 \in touched \/ memory[base - 1] = Hole
    <2> SUFFICES ASSUME q # PatternLength - 1, q # here.offset + n
                 PROVE  /\ base - 1 \in Addresses
                        /\ base - 1 \in touched \/ memory[base - 1] = Hole
      OBVIOUS
    <2>1. q = p + n
      BY <1>5
    <2>2. p # PatternLength - 1 /\ p # here.offset
      BY <1>1, <1>2, <1>5, <2>1
    <2>3. base = Base
      BY <1>1, <1>2, <1>6, <1>7, <2>1
    <2> QED
      BY <1>3, <2>2, <2>3
  <1>10. q <= here.offset + n
    BY <1>1, <1>2, <1>3, <1>5
  <1> QED
    BY <1>5, <1>8, <1>9, <1>10 DEF q

\* A chunk settles the places that end in it.
LEMMA CopyChunkKeeps ==
  ASSUME SearchInv, CopyChunk
  PROVE  SearchInv'
  <1>1. PICK n \in Copyable(ChunkAddress, BytesToRead) :
          /\ Len(Matches(Buffer(n))) <= Room
          /\ report' = [report EXCEPT
               !.results = @ \o [k \in DOMAIN Matches(Buffer(n)) |->
                                   Result(Matches(Buffer(n))[k])],
               !.total = @ + Len(Matches(Buffer(n)))]
          /\ here' = [here EXCEPT !.offset = @ + n, !.any = TRUE,
               !.prefix = Carried(Buffer(n)), !.failure = @ \/ n < BytesToRead]
    BY DEF CopyChunk
  <1>2. /\ Reading /\ phase = "chunks"
        /\ UNCHANGED <<memory, touched, request, phase>>
    BY DEF CopyChunk, Reading, kept
  <1>0. PICK m, all, prefix :
          m = Len(Matches(Buffer(n))) /\ all = With(n, m) /\ prefix = Carried(Buffer(n))
    OBVIOUS
  <1>3. /\ m \in Nat /\ n \in Nat /\ m <= Len(Matches(Buffer(n)))
        /\ request \in Requests /\ request.capacity \in Nat
        /\ here \in Here /\ report \in Report /\ here.offset \in Nat
        /\ PatternLength \in Nat \ {0} /\ This.address \in Nat
    BY <1>0, <1>2, MatchEnds, ChunkIs, ThisIs, RequestIs DEF SearchInv, SearchTypes
  <1>4. /\ all \in Seq([entry : Entries, offset : Nat])
        /\ Len(all) = Len(report.results) + m /\ Len(report.results) \in Nat
        /\ \A place : Listing(all, place) <=>
             \/ Listing(report.results, place)
             \/ \E k \in 1 .. m : Result(Matches(Buffer(n))[k]) = place
    <2>1. /\ With(n, m) \in Seq([entry : Entries, offset : Nat])
          /\ Len(With(n, m)) = Len(report.results) + m
          /\ \A place : Listing(With(n, m), place) <=>
               \/ Listing(report.results, place)
               \/ \E k \in 1 .. m : Result(Matches(Buffer(n))[k]) = place
      BY <1>2, <1>3, WithIs
    <2>2. Len(report.results) \in Nat
      BY DEF SearchInv, SearchTypes, Report
    <2> QED
      BY <1>0, <2>1, <2>2
  <1>5. [k \in DOMAIN Matches(Buffer(n)) |-> Result(Matches(Buffer(n))[k])]
          = [k \in 1 .. m |-> Result(Matches(Buffer(n))[k])]
    <2>1. Buffer(n) \in Seq(Byte)
      BY <1>2, BufferIs DEF SearchInv
    <2>2. Matches(Buffer(n)) \in Seq(Nat)
      BY <1>3, <2>1, MatchesAre
    <2>3. DOMAIN Matches(Buffer(n)) = 1 .. m
      BY <1>0, <2>2
    <2> QED
      BY <2>3
  <1>6. /\ report' \in Report /\ report'.results = all
        /\ report'.scanned = report.scanned
        /\ report'.skipped = report.skipped /\ report'.failures = report.failures
    <2>1. PICK total : total = report.total + m
      OBVIOUS
    <2>2. report' = [report EXCEPT !.results = all, !.total = total]
      BY <1>0, <1>1, <1>3, <1>5, <2>1 DEF Report, With
    <2>3. total \in Nat
      BY <1>3, <2>1 DEF Report
    <2> QED
      BY <1>3, <1>4, <2>2, <2>3 DEF Report
  <1>7. /\ prefix \in Seq(Byte) /\ Len(prefix) \in Nat /\ Len(prefix) < PatternLength
    BY <1>0, <1>2, CarriedPreserves
  <1>8. /\ here' \in Here /\ here'.offset = here.offset + n /\ here'.prefix = prefix
    <2>1. PICK any, failure :
            /\ any \in BOOLEAN /\ failure \in BOOLEAN
            /\ here' = [here EXCEPT !.offset = @ + n, !.any = any,
                                    !.prefix = prefix, !.failure = failure]
      <3>1. PICK any, failure : any = TRUE /\ failure = (here.failure \/ n < BytesToRead)
        OBVIOUS
      <3>2. any \in BOOLEAN /\ failure \in BOOLEAN
        BY <3>1, Zenon
      <3>3. here' = [here EXCEPT !.offset = @ + n, !.any = any,
                                 !.prefix = prefix, !.failure = failure]
        BY <1>0, <1>1, <1>3, <3>1, Zenon DEF Here
      <3> QED
        BY <3>2, <3>3
    <2>2. here.offset + n \in Nat
      BY <1>3
    <2> QED
      BY <1>3, <1>7, <2>1, <2>2 DEF Here
  <1>9. SearchTypes'
    <2>1. report' \in Report' /\ PatternLength' = PatternLength
      BY <1>2, <1>6, SameInput DEF Report
    <2>2. Len(all) <= request.capacity
      BY <1>0, <1>1, <1>3, <1>4 DEF Room
    <2>3. Finished' = Finished
      BY <1>2, <1>6 DEF Finished
    <2> QED
      BY <1>2, <1>3, <1>6, <1>7, <1>8, <2>1, <2>2, <2>3 DEF SearchInv, SearchTypes
  <1>10. \A place : Passed(place)' <=>
           \/ place.entry < report.scanned
           \/ /\ place.entry = report.scanned
              /\ place.offset + PatternLength <= here.offset + n
    BY <1>2, <1>6, <1>8, SameInput DEF Passed
  <1>11. AllSettled'
    <2>1. \A k \in 1 .. Len(all) : Passed(all[k])'
      <3>1. \A k \in 1 .. Len(all) : Listing(all, all[k])
        BY DEF Listing
      <3>2. \A place : Listing(all, place) => Passed(place)'
        BY <1>2, <1>3, <1>0, <1>10, WithSettles
      <3> QED
        BY <1>6, <3>1, <3>2
    <2>2. \A place \in Places : Passed(place)' /\ Quiet(place) =>
            (Listing(all, place) <=> Reads(place))
      <3> SUFFICES ASSUME NEW place \in Places, Passed(place)', Quiet(place)
                   PROVE  Listing(all, place) <=> Reads(place)
        OBVIOUS
      <3>1. CASE Passed(place)
        BY <1>2, <1>3, <1>0, <3>1, WithSettles
      <3>2. CASE ~Passed(place)
        <4>1. /\ place.entry = report.scanned
              /\ place.offset + PatternLength <= here.offset + n
          BY <1>10, <3>2 DEF Passed
        <4>2. /\ ~Listing(report.results, place)
              /\ Reads(place) <=> \E k \in 1 .. m : Result(Matches(Buffer(n))[k]) = place
          BY <1>2, <1>3, <1>0, <3>2, <4>1, WithSettles
        <4>3. Listing(all, place) <=>
                \/ Listing(report.results, place)
                \/ \E k \in 1 .. m : Result(Matches(Buffer(n))[k]) = place
          BY <1>4
        <4> QED
          BY <4>2, <4>3
      <3> QED
        BY <3>1, <3>2
    <2> QED
      BY <1>2, <1>6, <2>1, <2>2, SameInput DEF AllSettled
  <1>12. Preserved'
    <2>1. Base' = This.address + (here.offset + n) - Len(prefix)
      BY <1>2, <1>6, <1>8 DEF Base, This
    <2>2. PICK base : base = This.address + (here.offset + n) - Len(prefix)
      OBVIOUS
    <2>3. /\ Len(prefix) <= here.offset + n
          /\ \A i \in 1 .. Len(prefix) :
               /\ base + i - 1 \in Addresses
               /\ base + i - 1 \notin touched => prefix[i] = memory[base + i - 1]
          /\ \/ Len(prefix) = PatternLength - 1
             \/ Len(prefix) = here.offset + n
             \/ /\ base - 1 \in Addresses
                /\ base - 1 \in touched \/ memory[base - 1] = Hole
      BY <1>2, <1>0, <2>2, CarriedPreserves
    <2>4. Base' = base /\ PatternLength' = PatternLength
      BY <1>2, <2>1, <2>2, SameInput
    <2> QED
      BY <1>2, <1>8, <2>3, <2>4 DEF Preserved
  <1>13. InSequence'
    <2>1. \A k \in 2 .. Len(all) : Before(all[k - 1], all[k])
      BY <1>2, <1>3, <1>0, WithInOrder
    <2> QED
      BY <1>6, <2>1 DEF InSequence, Before
  <1>14. MemoryTypes' /\ Reported'
    BY <1>2, SameInput DEF SearchInv, Reported
  <1> QED
    BY <1>9, <1>11, <1>12, <1>13, <1>14 DEF SearchInv

\* The search that has no room for a match reports all those before it.
LEMMA CopyChunkTruncatedKeeps ==
  ASSUME SearchInv, CopyChunkTruncated
  PROVE  SearchInv'
  <1>1. PICK n \in Copyable(ChunkAddress, BytesToRead) :
          /\ Len(Matches(Buffer(n))) > Room
          /\ report' = [report EXCEPT
               !.results = @ \o [k \in 1 .. Room |-> Result(Matches(Buffer(n))[k])],
               !.total = @ + Room + 1,
               !.truncated = TRUE]
    BY DEF CopyChunkTruncated
  <1>2. /\ Reading /\ phase = "chunks"
        /\ UNCHANGED <<memory, touched, request>> /\ phase' = "done" /\ here' = Start
    BY DEF CopyChunkTruncated, Reading, kept
  <1>0. PICK m, all, found :
          m = Room /\ all = With(n, m) /\ found = Len(Matches(Buffer(n)))
    OBVIOUS
  <1>3. /\ m \in Nat /\ n \in Nat /\ found \in Nat /\ m < found
        /\ m <= Len(Matches(Buffer(n)))
        /\ Len(report.results) \in Nat /\ Len(report.results) + m <= request.capacity
        /\ request \in Requests /\ report \in Report /\ here.offset \in Nat
        /\ PatternLength \in Nat \ {0} /\ report.scanned \in Nat
    <2>1. found \in Nat
      BY <1>0, <1>2, MatchEnds
    <2>2. /\ request \in Requests /\ report \in Report /\ request.capacity \in Nat
          /\ Len(report.results) \in Nat /\ Len(report.results) <= request.capacity
          /\ PatternLength \in Nat \ {0} /\ here.offset \in Nat /\ n \in Nat
          /\ report.scanned \in Nat
      BY <1>2, ThisIs, ChunkIs, RequestIs DEF SearchInv, SearchTypes, Report
    <2> QED
      BY <1>0, <1>1, <2>1, <2>2 DEF Room
  <1>4. /\ all \in Seq([entry : Entries, offset : Nat])
        /\ Len(all) = Len(report.results) + m
        /\ \A k \in 1 .. Len(report.results) : all[k] = report.results[k]
        /\ \A k \in 1 .. m :
             all[Len(report.results) + k] = Result(Matches(Buffer(n))[k])
        /\ \A place : Listing(all, place) <=>
             \/ Listing(report.results, place)
             \/ \E k \in 1 .. m : Result(Matches(Buffer(n))[k]) = place
    <2>1. /\ With(n, m) \in Seq([entry : Entries, offset : Nat])
          /\ Len(With(n, m)) = Len(report.results) + m
          /\ \A k \in 1 .. Len(report.results) : With(n, m)[k] = report.results[k]
          /\ \A k \in 1 .. m :
               With(n, m)[Len(report.results) + k] = Result(Matches(Buffer(n))[k])
          /\ \A place : Listing(With(n, m), place) <=>
               \/ Listing(report.results, place)
               \/ \E k \in 1 .. m : Result(Matches(Buffer(n))[k]) = place
      BY <1>2, <1>3, WithIs
    <2> QED
      BY <1>0, <2>1, Zenon
  <1>5. /\ report' \in Report /\ report'.results = all /\ report'.truncated = TRUE
        /\ report'.scanned = report.scanned
        /\ report'.skipped = report.skipped /\ report'.failures = report.failures
    <2>1. PICK total, cut : total = report.total + m + 1 /\ cut = TRUE
      OBVIOUS
    <2>2. report' = [report EXCEPT !.results = all, !.total = total, !.truncated = cut]
      BY <1>0, <1>1, <1>3, <2>1 DEF Report, With
    <2>3. total \in Nat /\ cut \in BOOLEAN
      BY <1>3, <2>1 DEF Report
    <2>4. /\ report' \in Report /\ report'.results = all /\ report'.truncated = cut
          /\ report'.scanned = report.scanned
          /\ report'.skipped = report.skipped /\ report'.failures = report.failures
      BY <1>3, <1>4, <2>2, <2>3 DEF Report
    <2> QED
      BY <2>1, <2>4
  <1>6. SearchTypes'
    <2>1. /\ report' \in Report' /\ PatternLength' = PatternLength
      BY <1>2, <1>5, SameInput DEF Report
    <2>2. Len(here'.prefix) = 0 /\ here' \in Here
      BY <1>2, StartIs
    <2>3. report.skipped <= report.scanned /\ report.failures <= report.scanned
      BY <1>2, <1>3 DEF SearchInv, SearchTypes, Finished, Report
    <2>4. Finished' = report.scanned
      BY <1>2, <1>5 DEF Finished
    <2>5. Len(report'.results) <= request.capacity
      BY <1>3, <1>4, <1>5
    <2> QED
      BY <1>2, <1>3, <1>5, <2>1, <2>2, <2>3, <2>4, <2>5 DEF SearchTypes
  <1>7. ASSUME NEW place \in Places, all # <<>>, ~Before(Last(all), place), Quiet(place)
        PROVE  Listing(all, place) <=> Reads(place)
    <2>1. PICK last : last = Last(all)
      OBVIOUS
    <2>2. Len(all) \in 1 .. Len(all) /\ last = all[Len(all)]
      BY <1>3, <1>4, <1>7, <2>1, EmptySeq DEF Last
    <2>3. last \in [entry : Entries, offset : Nat] /\ Listing(all, last)
      BY <1>4, <2>2, ElementOfSeq DEF Listing
    <2>4. \/ last.entry < report.scanned
          \/ /\ last.entry = report.scanned
             /\ last.offset + PatternLength <= here.offset + n
      BY <1>0, <1>2, <1>3, <2>3, WithSettles
    <2>5. /\ last.entry \in Nat /\ last.offset \in Nat
          /\ place.entry \in Nat /\ place.offset \in Nat
      BY <1>2, <2>3, PlaceIs DEF SearchInv, Entries
    <2>6. \/ place.entry < last.entry
          \/ place.entry = last.entry /\ place.offset <= last.offset
      BY <1>7, <2>1, <2>5 DEF Before
    <2>7. CASE Passed(place)
      BY <1>0, <1>2, <1>3, <1>7, <2>7, WithSettles
    <2>8. CASE ~Passed(place)
      <3>1. /\ place.entry = report.scanned /\ last.entry = report.scanned
            /\ place.offset <= last.offset
            /\ place.offset + PatternLength <= here.offset + n
        <4>1. ~(place.entry < report.scanned)
          BY <2>8 DEF Passed
        <4>2. report.scanned \in Nat /\ PatternLength \in Nat
              /\ here.offset \in Nat /\ n \in Nat
          BY <1>3
        <4>3. last.entry <= report.scanned /\ place.entry <= last.entry
          BY <2>4, <2>5, <2>6, <4>2
        <4>4. place.entry = report.scanned /\ last.entry = report.scanned
          BY <2>5, <4>1, <4>2, <4>3
        <4>5. /\ place.offset <= last.offset
              /\ last.offset + PatternLength <= here.offset + n
          BY <2>4, <2>6, <4>2, <4>4
        <4>6. place.offset + PatternLength <= here.offset + n
          BY <2>5, <4>2, <4>5
        <4> QED
          BY <4>4, <4>5, <4>6
      <3>2. /\ ~Listing(report.results, place)
            /\ Reads(place) <=> \E k \in 1 .. found : Result(Matches(Buffer(n))[k]) = place
        BY <1>0, <1>2, <1>3, <1>7, <2>8, <3>1, WithSettles
      <3>3. last = Result(Matches(Buffer(n))[m]) /\ m \in 1 .. m
        <4>1. CASE m = 0
          <5>1. Len(all) \in 1 .. Len(report.results) /\ last = report.results[Len(all)]
            BY <1>3, <1>4, <2>2, <4>1
          <5>2. Passed(last)
            BY <1>2, <5>1 DEF SearchInv, AllSettled, Searching
          <5>3. Passed(place)
            BY <1>2, <1>3, <2>5, <3>1, <5>2 DEF Passed
          <5> QED
            BY <2>8, <5>3
        <4>2. CASE m # 0
          <5>1. m \in 1 .. m
            BY <1>3, <4>2
          <5> QED
            BY <1>4, <2>2, <5>1
        <4> QED
          BY <4>1, <4>2
      <3>4. ASSUME NEW k \in 1 .. found, Result(Matches(Buffer(n))[k]) = place
            PROVE  k \in 1 .. m
        <4>1. m < k => Result(Matches(Buffer(n))[m]).offset
                         < Result(Matches(Buffer(n))[k]).offset
          <5>1. m \in 1 .. found
            BY <1>3, <3>3
          <5> QED
            BY <1>0, <1>2, <5>1, MatchEnds
        <4>2. ~(m < k)
          BY <2>5, <3>1, <3>3, <3>4, <4>1
        <4> QED
          BY <1>3, <4>2
      <3>5. \A k \in 1 .. m : k \in 1 .. found
        BY <1>3
      <3> QED
        BY <1>4, <3>2, <3>4, <3>5
    <2> QED
      BY <2>7, <2>8
  <1>8. Reported'
    <2>1. \A place : Covered(place)' <=> all # <<>> /\ ~Before(Last(all), place)
      BY <1>5, Zenon DEF Covered, Before
    <2> QED
      BY <1>2, <1>5, <1>7, <2>1, SameInput DEF Reported
  <1>9. InSequence'
    <2>1. \A k \in 2 .. Len(all) : Before(all[k - 1], all[k])
      BY <1>0, <1>2, <1>3, WithInOrder
    <2> QED
      BY <1>5, <2>1 DEF InSequence, Before
  <1>10. MemoryTypes' /\ AllSettled' /\ Preserved'
    BY <1>2, SameInput DEF SearchInv, AllSettled, Searching, Preserved
  <1> QED
    BY <1>6, <1>8, <1>9, <1>10 DEF SearchInv

\* Memory that changes under a search: what it says of the rest stays so.
LEMMA SearchOutlastsChanges ==
  ASSUME SearchInv, MemoryChanges
  PROVE  SearchInv'
  <1>1. /\ UNCHANGED <<request, phase, here, report>>
        /\ touched = {}
    BY DEF MemoryChanges, PageChanges, search
  <1>0. PICK p \in Pages : \E content \in Contents(p) :
          /\ touched' = {a \in DOMAIN content : content[a] # memory[a]}
          /\ memory' = [a \in Addresses |->
                          IF a \in DOMAIN content THEN content[a] ELSE memory[a]]
    BY DEF MemoryChanges, PageChanges
  <1>2. PICK content \in Contents(p) :
          /\ touched' = {a \in DOMAIN content : content[a] # memory[a]}
          /\ memory' = [a \in Addresses |->
                          IF a \in DOMAIN content THEN content[a] ELSE memory[a]]
    BY <1>0
  <1>3. /\ DOMAIN content = PageAddresses(p) /\ PageAddresses(p) \subseteq Addresses
        /\ \A a \in DOMAIN content : content[a] \in Byte \cup {Hole}
        /\ content = [a \in PageAddresses(p) |-> content[a]]
    <2>1. PageAddresses(p) \subseteq Addresses
      BY DEF PageAddresses
    <2> QED
      BY <2>1 DEF Contents
  <1>4. /\ memory' \in [Addresses -> Byte \cup {Hole}]
        /\ touched' \subseteq Addresses
        /\ \A a \in Addresses : a \notin touched' => memory'[a] = memory[a]
    BY <1>2, <1>3 DEF SearchInv, MemoryTypes
  <1>5. MemoryTypes'
    <2>1. ASSUME NEW q \in Pages
          PROVE  [a \in PageAddresses(q) |-> memory'[a]] \in Contents(q)
      <3>1. CASE q = p
        <4>1. \A a \in PageAddresses(p) : memory'[a] = content[a]
          BY <1>2, <1>3
        <4>2. [a \in PageAddresses(p) |-> memory'[a]] = content
          BY <1>3, <4>1
        <4> QED
          BY <3>1, <4>2
      <3>2. CASE q # p
        <4>1. \A a \in PageAddresses(q) : a \in Addresses /\ a \notin PageAddresses(p)
          BY <3>2 DEF PageAddresses
        <4>2. \A a \in PageAddresses(q) : memory'[a] = memory[a]
          BY <1>2, <1>3, <4>1
        <4>3. [a \in PageAddresses(q) |-> memory'[a]]
                = [a \in PageAddresses(q) |-> memory[a]]
          BY <4>2
        <4>4. [a \in PageAddresses(q) |-> memory[a]] \in Contents(q)
          BY DEF SearchInv, MemoryTypes, WholePages
        <4> QED
          BY <4>3, <4>4
      <3> QED
        BY <3>1, <3>2
    <2> QED
      BY <1>4, <2>1 DEF MemoryTypes, WholePages
  <1>6. /\ Places' = Places /\ PatternLength' = PatternLength /\ Base' = Base
        /\ \A place : At(place)' = At(place)
        /\ \A place : Passed(place)' <=> Passed(place)
        /\ \A place : Covered(place)' <=> Covered(place)
    BY <1>1 DEF Places, PatternLength, Base, This, At, Passed, Covered, Before
  <1>7. ASSUME NEW place, Settled(place) PROVE Settled(place)'
    <2> SUFFICES ASSUME Quiet(place)'
                 PROVE  Listing(report.results, place) <=> Reads(place)'
      BY <1>1 DEF Settled, Listing
    <2>1. \A j \in 1 .. PatternLength : At(place) + j - 1 \in Addresses \ touched'
      BY <1>6 DEF Quiet
    <2>2. Quiet(place)
      BY <1>1, <2>1 DEF Quiet
    <2>3. Reads(place)' <=> Reads(place)
      BY <1>1, <1>4, <1>6, <2>1 DEF Reads
    <2> QED
      BY <1>7, <2>2, <2>3 DEF Settled
  <1>8. AllSettled'
    <2>1. \A k \in 1 .. Len(report.results) : Passed(report.results[k]) <=>
            Passed(report.results[k])'
      BY <1>1, <1>6
    <2> QED
      BY <1>1, <1>6, <1>7, <2>1 DEF SearchInv, AllSettled, Searching
  <1>9. Reported'
    BY <1>1, <1>6, <1>7 DEF SearchInv, Reported
  <1>10. Preserved'
    BY <1>1, <1>4, <1>6 DEF SearchInv, Preserved
  <1>11. SearchTypes' /\ InSequence'
    BY <1>1 DEF SearchInv, SearchTypes, Finished, Report, Entries, PatternLength,
                InSequence, Before
  <1> QED
    BY <1>5, <1>8, <1>9, <1>10, <1>11 DEF SearchInv

LEMMA InitiallySearchInv == Init => SearchInv
  <1> SUFFICES ASSUME Init PROVE SearchInv
    OBVIOUS
  <1>1. MemoryTypes
    BY DEF Init, MemoryInit, MemoryTypes
  <1>2. here = Start /\ report = NoReport
    BY DEF Init, SearchInit, NoSearch
  <1>3. \/ request \in Requests /\ phase = "entries"
        \/ request = NoRequest /\ phase = "none"
    BY DEF Init, SearchInit, NoSearch
  <1>4. Len(request.entries) \in Nat /\ request.capacity \in Nat
    <2>1. CASE request \in Requests
      BY <2>1, RequestIs
    <2>2. CASE request = NoRequest
      BY <2>2 DEF NoRequest
    <2> QED
      BY <1>3, <2>1, <2>2
  <1>5. request \in Requests => PatternLength \in Nat \ {0}
    BY RequestIs
  <1>6. /\ report \in Report /\ report.results = <<>> /\ report.scanned = 0
        /\ report.skipped = 0 /\ report.failures = 0
    BY <1>2, <1>4, NoReportIs
  <1>7. here \in Here /\ here.prefix = <<>> /\ here.offset = 0
    BY <1>2, StartIs
  <1>8. SearchTypes
    BY <1>3, <1>4, <1>5, <1>6, <1>7 DEF SearchTypes, Finished
  <1>9. InSequence
    BY <1>6 DEF InSequence
  <1>10. AllSettled
    <2> SUFFICES ASSUME phase = "entries", NEW place \in Places, Passed(place) PROVE FALSE
      BY <1>3, <1>6 DEF AllSettled, Searching
    <2>1. place.entry \in Entries
      BY <1>8, PlaceIs
    <2> QED
      BY <1>4, <1>6, <2>1 DEF Passed, Entries
  <1>11. Preserved /\ Reported
    BY <1>3 DEF Preserved, Reported
  <1> QED
    BY <1>1, <1>8, <1>9, <1>10, <1>11 DEF SearchInv

\* A step of a save leaves the search alone.
LEMMA SearchStands ==
  ASSUME SearchInv, UNCHANGED <<memory, touched, search>>
  PROVE  SearchInv'
  <1>1. UNCHANGED <<memory, touched, request, phase, here, report>>
    BY DEF search
  <1>2. SearchTypes' /\ InSequence'
    BY <1>1 DEF SearchInv, SearchTypes, Finished, Report, Entries, PatternLength,
                InSequence, Before
  <1>3. /\ MemoryTypes' /\ Base' = Base /\ PatternLength' = PatternLength
        /\ \A place : Settled(place)' <=> Settled(place)
        /\ \A place : Passed(place)' <=> Passed(place)
        /\ \A place : Covered(place)' <=> Covered(place)
        /\ Places' = Places
    BY <1>1, SameInput, SameResults
    DEF SearchInv, Base, This, PatternLength, Passed, Covered, Before
  <1>4. AllSettled'
    BY <1>1, <1>3 DEF SearchInv, AllSettled, Searching
  <1>5. Preserved' /\ Reported'
    BY <1>1, <1>3 DEF SearchInv, Preserved, Reported
  <1> QED
    BY <1>2, <1>3, <1>4, <1>5 DEF SearchInv

LEMMA SearchStepKeeps ==
  ASSUME SearchInv, SearchStep
  PROVE  SearchInv'
  <1>1. CASE NoMemory
    <2>1. /\ phase # "none" /\ phase' = "failed" /\ report' = NoReport
          /\ UNCHANGED <<memory, touched, request, here>>
      BY <1>1 DEF NoMemory, More, kept
    <2> QED
      BY <2>1, FailureKeeps
  <1>2. CASE AddressOverflows
    <2>1. /\ phase # "none" /\ phase' = "failed" /\ report' = NoReport
          /\ UNCHANGED <<memory, touched, request, here>>
      BY <1>2 DEF AddressOverflows, Reading, kept
    <2> QED
      BY <2>1, FailureKeeps
  <1> QED
    BY <1>1, <1>2, NextEntryKeeps, AnswerKeeps, EntryEndsKeeps, SkipPageKeeps,
       CopyChunkKeeps, CopyChunkTruncatedKeeps DEF SearchStep

LEMMA SearchInvIsInvariant == Spec => []SearchInv
  <1>1. Init => SearchInv
    BY InitiallySearchInv
  <1>2. SearchInv /\ [Next]_vars => SearchInv'
    <2> SUFFICES ASSUME SearchInv, [Next]_vars PROVE SearchInv'
      OBVIOUS
    <2>1. CASE Search
      BY <2>1, SearchStepKeeps DEF Search
    <2>2. CASE Save \/ Snapshots \/ UNCHANGED vars
      BY <2>2, SearchStands DEF Save, Snapshots, vars
    <2>3. CASE MemoryChanges
      BY <2>3, SearchOutlastsChanges
    <2> QED
      BY <2>1, <2>2, <2>3 DEF Next, Step
  <1> QED
    BY <1>1, <1>2, PTL DEF Spec

(***************************************************************************)
(* What a search reports is right wherever the memory was left alone: each *)
(* match once, in order, at its offset, none lost or found twice where two *)
(* reads meet and none made up across a hole (HandleSearchContent and      *)
(* SearchEntry, for chunks and patterns of any length).                    *)
(***************************************************************************)
THEOREM SearchesAreExact == Spec => []ReportIsExact
  <1>1. SearchInv => ReportIsExact
    <2> SUFFICES ASSUME SearchInv, phase = "done" PROVE ReportIsExact
      BY DEF ReportIsExact
    <2>1. /\ request \in Requests /\ SearchTypes
          /\ request.pattern \in Seq(Byte) /\ PatternLength \in Nat \ {0}
          /\ DOMAIN request.pattern = 1 .. PatternLength
      BY RequestIs DEF SearchInv, SearchTypes, PatternLength
    <2>2. DOMAIN report.results = 1 .. Len(report.results)
      BY <2>1 DEF SearchTypes, Report
    <2>3. ASSUME NEW place \in Places, Covered(place),
                 ToSet(Window(place)) \subseteq Addresses \ touched
          PROVE  place \in ToSet(report.results) <=>
                   [i \in DOMAIN Window(place) |-> memory[Window(place)[i]]]
                     = request.pattern
      <3>1. Window(place) = [i \in 1 .. PatternLength |-> At(place) + i - 1]
        BY <2>1 DEF Window, At
      <3>2. Quiet(place)
        BY <2>3, <3>1 DEF ToSet, Quiet
      <3>3. [i \in DOMAIN Window(place) |-> memory[Window(place)[i]]]
              = [i \in 1 .. PatternLength |-> memory[At(place) + i - 1]]
        BY <3>1
      <3>4. request.pattern = [i \in 1 .. PatternLength |-> request.pattern[i]]
        BY <2>1
      <3>5. [i \in 1 .. PatternLength |-> memory[At(place) + i - 1]] = request.pattern
              <=> Reads(place)
        BY <3>4 DEF Reads
      <3>6. Listing(report.results, place) <=> Reads(place)
        BY <2>3, <3>2 DEF SearchInv, Reported, Settled
      <3>7. Listing(report.results, place) <=> place \in ToSet(report.results)
        BY <2>2 DEF Listing, ToSet
      <3> QED
        BY <3>3, <3>5, <3>6, <3>7
    <2> QED
      BY <2>3, Zenon DEF ReportIsExact, SearchInv, InSequence
  <1> QED
    BY <1>1, SearchInvIsInvariant, PTL

(***************************************************************************)
(* The variables have values of their types; what is carried over leaves a *)
(* whole chunk of room in SearchEntry's buffer.                            *)
(***************************************************************************)
THEOREM ContentTypes == Spec => []TypeOK
  <1>1. SearchInv /\ SaveInv => TypeOK
    <2> SUFFICES ASSUME SearchInv, SaveInv PROVE TypeOK
      OBVIOUS
    <2>1. SearchTypeOK
      <3>1. Len(request.entries) \in Nat
        <4>1. CASE request \in Requests
          BY <4>1, RequestIs
        <4>2. CASE request = NoRequest
          BY <4>2 DEF NoRequest
        <4> QED
          BY <4>1, <4>2 DEF SearchInv, SearchTypes
      <3>2. /\ report.skipped \in 0 .. report.scanned
            /\ report.failures \in 0 .. report.scanned
        BY <3>1 DEF SearchInv, SearchTypes, Report, Finished
      <3> QED
        BY <3>2 DEF SearchTypeOK, SearchInv, SearchTypes, Here, Report, Entries,
                    PatternLength
    <2>2. SaveTypeOK
      BY DEF SaveTypeOK, SaveInv, SaveTypes, InPlace, Filed, Description
    <2> QED
      BY <2>1, <2>2 DEF TypeOK, SearchInv, MemoryTypes
  <1> QED
    BY <1>1, SearchInvIsInvariant, SaveInvIsInvariant, PTL

(***************************************************************************)
(* The counters of a search                                                *)
(***************************************************************************)

\* Entries of which nothing can be read, and those of which not all can be.
Unread(k) == \A a \in Extent(k) : memory[a] = Hole

Holed(k) == \E a \in Extent(k) : memory[a] = Hole

\* The counters tell of the entries that ended, and readAny and readFailure
\* of the one that is searched up to the next read.
Counted ==
  /\ report.skipped = Cardinality({k \in 1 .. Finished : Unread(k)})
  /\ report.failures >= Cardinality({k \in 1 .. Finished : Holed(k)})

Told ==
  phase = "chunks" =>
    /\ here.any <=> \E a \in Extent(report.scanned) :
                      a < ChunkAddress /\ memory[a] # Hole
    /\ (\E a \in Extent(report.scanned) : a < ChunkAddress /\ memory[a] = Hole)
         => here.failure

Complete == phase = "done" /\ ~report.truncated

StatsInv ==
  touched = {} =>
    /\ Searching \/ Complete => Counted /\ Told
    /\ Complete => report.scanned = Len(request.entries)

\* How many of the first n numbers are of a kind.
LEMMA CountIs ==
  ASSUME NEW n \in Nat, NEW S
  PROVE  /\ Cardinality({k \in 1 .. n : k \in S}) \in Nat
         /\ Cardinality({k \in 1 .. n + 1 : k \in S}) =
              Cardinality({k \in 1 .. n : k \in S}) + (IF n + 1 \in S THEN 1 ELSE 0)
  <1> DEFINE Old == {k \in 1 .. n : k \in S}
             New == {k \in 1 .. n + 1 : k \in S}
  <1>1. IsFiniteSet(1 .. n)
    BY FS_Interval
  <1>2. Old \in SUBSET (1 .. n)
    OBVIOUS
  <1>3. IsFiniteSet(Old) /\ Cardinality(Old) \in Nat
    BY <1>1, <1>2, FS_Subset, FS_CardinalityType
  <1>4. n + 1 \notin Old
    OBVIOUS
  <1>5. CASE n + 1 \in S
    <2>1. New = Old \cup {n + 1}
      BY <1>5
    <2> HIDE DEF Old, New
    <2>2. Cardinality(New) = Cardinality(Old) + 1
      BY <1>3, <1>4, <2>1, FS_AddElement
    <2> QED
      BY <1>3, <1>5, <2>2 DEF Old, New
  <1>6. CASE n + 1 \notin S
    <2>1. New = Old
      BY <1>6
    <2> HIDE DEF Old, New
    <2> QED
      BY <1>3, <1>6, <2>1 DEF Old, New
  <1> QED
    BY <1>5, <1>6

\* What the counters are about stays, where memory and request do.
LEMMA SameEntries ==
  ASSUME UNCHANGED <<memory, request>>
  PROVE  /\ \A k : Extent(k)' = Extent(k)
         /\ \A k : Unread(k)' <=> Unread(k)
         /\ \A k : Holed(k)' <=> Holed(k)
  <1>1. \A k : Extent(k)' = Extent(k)
    BY DEF Extent
  <1> QED
    BY <1>1 DEF Unread, Holed

LEMMA SameCounts ==
  ASSUME UNCHANGED <<memory, request>>, Finished' = Finished,
         report'.skipped = report.skipped, report'.failures = report.failures
  PROVE  Counted' <=> Counted
  <1>1. {k \in 1 .. Finished : Unread(k)}' = {k \in 1 .. Finished : Unread(k)}
    BY SameEntries
  <1>2. {k \in 1 .. Finished : Holed(k)}' = {k \in 1 .. Finished : Holed(k)}
    BY SameEntries
  <1> QED
    BY <1>1, <1>2 DEF Counted

\* An entry that ends is counted.
LEMMA LeaveCounts ==
  ASSUME SearchInv, StatsInv, phase = "chunks", NEW any, NEW failure, Leave(any, failure),
         touched = {} => /\ any <=> ~Unread(report.scanned)
                         /\ Holed(report.scanned) => failure
  PROVE  StatsInv'
  <1> SUFFICES ASSUME touched = {} PROVE Counted' /\ Told' /\ ~Complete'
    BY DEF StatsInv, Leave, kept
  <1>1. /\ UNCHANGED <<memory, touched, request>> /\ phase' = "entries"
        /\ report' = [report EXCEPT !.skipped = IF any THEN @ ELSE @ + 1,
                                    !.failures = IF failure THEN @ + 1 ELSE @]
    BY DEF Leave, kept
  <1>2. /\ report \in Report /\ report.scanned \in Nat /\ report.scanned # 0
        /\ report.skipped \in Nat /\ report.failures \in Nat
    BY ThisIs DEF SearchInv, SearchTypes, Report, Entries
  <1>3. /\ report'.scanned = report.scanned
        /\ report'.skipped = IF any THEN report.skipped ELSE report.skipped + 1
        /\ report'.failures = IF failure THEN report.failures + 1 ELSE report.failures
    <2>1. PICK skipped, failures :
            /\ skipped = IF any THEN report.skipped ELSE report.skipped + 1
            /\ failures = IF failure THEN report.failures + 1 ELSE report.failures
      OBVIOUS
    <2>2. report' = [report EXCEPT !.skipped = skipped, !.failures = failures]
      BY <1>1, <1>2, <2>1 DEF Report
    <2>3. /\ report'.scanned = report.scanned
          /\ report'.skipped = skipped /\ report'.failures = failures
      BY <1>2, <2>2 DEF Report
    <2> QED
      BY <2>1, <2>3
  <1>4. PICK n \in Nat : n = Finished /\ n + 1 = report.scanned /\ Finished' = n + 1
    <2>1. report.scanned - 1 \in Nat /\ Finished = report.scanned - 1
      BY <1>2 DEF Finished
    <2>2. Finished' = report.scanned
      BY <1>1, <1>3 DEF Finished
    <2> QED
      BY <1>2, <2>1, <2>2
  <1>5. Counted /\ (any <=> ~Unread(n + 1)) /\ (Holed(n + 1) => failure)
    BY <1>4 DEF StatsInv, Searching
  <1>6. PICK U, H :
          /\ U = {k \in Nat : Unread(k)} /\ H = {k \in Nat : Holed(k)}
    OBVIOUS
  <1>7. \A m \in Nat : /\ {k \in 1 .. m : Unread(k)} = {k \in 1 .. m : k \in U}
                       /\ {k \in 1 .. m : Holed(k)} = {k \in 1 .. m : k \in H}
    BY <1>6
  <1>8. /\ report.skipped = Cardinality({k \in 1 .. n : k \in U})
        /\ report.failures >= Cardinality({k \in 1 .. n : k \in H})
    <2>1. /\ report.skipped = Cardinality({k \in 1 .. n : Unread(k)})
          /\ report.failures >= Cardinality({k \in 1 .. n : Holed(k)})
      BY <1>4, <1>5 DEF Counted
    <2> QED
      BY <1>7, <2>1
  <1>9. /\ Cardinality({k \in 1 .. n : k \in U}) \in Nat
        /\ Cardinality({k \in 1 .. n : k \in H}) \in Nat
        /\ Cardinality({k \in 1 .. n + 1 : k \in U}) =
             Cardinality({k \in 1 .. n : k \in U}) + (IF n + 1 \in U THEN 1 ELSE 0)
        /\ Cardinality({k \in 1 .. n + 1 : k \in H}) =
             Cardinality({k \in 1 .. n : k \in H}) + (IF n + 1 \in H THEN 1 ELSE 0)
    BY CountIs
  <1>10. (n + 1 \in U <=> Unread(n + 1)) /\ (n + 1 \in H <=> Holed(n + 1))
    BY <1>6
  <1>11. /\ report'.skipped = Cardinality({k \in 1 .. n + 1 : k \in U})
         /\ report'.failures >= Cardinality({k \in 1 .. n + 1 : k \in H})
    BY <1>2, <1>3, <1>5, <1>8, <1>9, <1>10
  <1>12. Counted'
    <2>1. /\ {k \in 1 .. Finished : Unread(k)}' = {k \in 1 .. n + 1 : k \in U}
          /\ {k \in 1 .. Finished : Holed(k)}' = {k \in 1 .. n + 1 : k \in H}
      BY <1>1, <1>4, <1>7, SameEntries
    <2> QED
      BY <1>11, <2>1 DEF Counted
  <1> QED
    BY <1>1, <1>12 DEF Told, Complete

\* The rest of a page is as readable as the address that is read.
LEMMA RestOfPage ==
  ASSUME SearchInv, phase = "chunks", ChunkAddress \in Addresses,
         memory[ChunkAddress] = Hole,
         NEW a \in Addresses, ChunkAddress <= a,
         a < PageSize * (PageOf(ChunkAddress) + 1)
  PROVE  memory[a] = Hole
  <1>1. a \in Nat /\ ChunkAddress \in Nat
    BY DEF Addresses
  <1>2. PageOf(a) = PageOf(ChunkAddress)
    BY <1>1, SamePage
  <1> QED
    BY <1>2, PageIsHole DEF SearchInv

\* At its end all of an entry was read or skipped.
LEMMA EntryEndsCounts ==
  ASSUME SearchInv, StatsInv, EntryEnds
  PROVE  StatsInv'
  <1>1. phase = "chunks" /\ here.offset >= This.size /\ Leave(here.any, here.failure)
    BY DEF EntryEnds
  <1>2. \A a \in Extent(report.scanned) : a < ChunkAddress
    <2>1. /\ here.offset \in Nat /\ This.address \in Nat /\ This.size \in Nat
      BY <1>1, ThisIs DEF SearchInv
    <2>2. \A a \in Extent(report.scanned) : a \in Nat /\ a < This.address + This.size
      BY DEF Extent, This, Addresses
    <2> QED
      BY <1>1, <2>1, <2>2 DEF ChunkAddress
  <1>3. touched = {} => /\ here.any <=> ~Unread(report.scanned)
                        /\ Holed(report.scanned) => here.failure
    BY <1>1, <1>2 DEF StatsInv, Searching, Told, Unread, Holed
  <1> QED
    BY <1>1, <1>3, LeaveCounts

\* A skipped page has nothing to read and is a failure.
LEMMA SkipPageCounts ==
  ASSUME SearchInv, StatsInv, SkipPage
  PROVE  StatsInv'
  <1> DEFINE end == PageSize * (PageOf(ChunkAddress) + 1)
  <1>0. /\ phase = "chunks" /\ here.offset < This.size
        /\ ChunkAddress < AddressSpace /\ memory[ChunkAddress] = Hole
    BY DEF SkipPage, Reading
  <1>1. /\ This.address \in Nat /\ here.offset \in Nat /\ here \in Here
        /\ This.size \in Nat
    BY <1>0, ThisIs DEF SearchInv, SearchTypes
  <1>2. /\ ChunkAddress \in Addresses /\ ChunkAddress \in Nat
        /\ ChunkAddress = This.address + here.offset
    BY <1>0, <1>1, PagesFillTheAddressSpace DEF ChunkAddress, Addresses
  <1>3. /\ end \in Nat /\ ChunkAddress < end
        /\ NextPageAddress = IF end = AddressSpace THEN 0 ELSE end
        /\ end # AddressSpace => end \in Addresses
    BY <1>2, NextPageIs
  <1>4. \A a \in Addresses : ChunkAddress <= a /\ a < end => memory[a] = Hole
    BY <1>0, <1>2, RestOfPage
  <1> HIDE DEF end
  <1>5. /\ Extent(report.scanned) \subseteq Addresses
        /\ \A a \in Addresses : a \in Nat /\ a < AddressSpace
    BY PagesFillTheAddressSpace DEF Extent, Addresses
  <1>6. CASE NextPageAddress <= This.address /\ Leave(here.any, TRUE)
    <2>1. end = AddressSpace
      BY <1>1, <1>2, <1>3, <1>6
    <2>2. touched = {} => (here.any <=> ~Unread(report.scanned))
      <3> SUFFICES ASSUME touched = {} PROVE here.any <=> ~Unread(report.scanned)
        OBVIOUS
      <3>1. here.any <=> \E a \in Extent(report.scanned) :
                           a < ChunkAddress /\ memory[a] # Hole
        BY <1>0 DEF StatsInv, Searching, Told
      <3>2. ASSUME NEW a \in Extent(report.scanned), ~(a < ChunkAddress)
            PROVE  memory[a] = Hole
        <4>1. a \in Addresses /\ a \in Nat /\ a < end
          BY <1>5, <2>1
        <4>2. ChunkAddress <= a
          BY <1>2, <3>2, <4>1
        <4> QED
          BY <1>4, <4>1, <4>2
      <3> QED
        BY <3>1, <3>2 DEF Unread
    <2> QED
      BY <1>0, <1>6, <2>2, LeaveCounts
  <1>7. CASE /\ NextPageAddress > This.address
             /\ here' = [here EXCEPT !.offset = NextPageAddress - This.address,
                                     !.prefix = <<>>, !.failure = TRUE]
             /\ UNCHANGED <<kept, phase, report>>
    <2>1. /\ UNCHANGED <<memory, touched, request, phase, report>>
          /\ end # AddressSpace /\ NextPageAddress = end
      BY <1>1, <1>3, <1>7 DEF kept
    <2>2. /\ here'.any = here.any /\ here'.failure = TRUE
          /\ here'.offset = end - This.address
      <3>1. PICK prefix, failure :
              /\ prefix = <<>> /\ failure = TRUE
              /\ here' = [here EXCEPT !.offset = end - This.address,
                                     !.prefix = prefix, !.failure = failure]
        BY <1>7, <2>1
      <3>2. /\ here'.any = here.any /\ here'.failure = failure
            /\ here'.offset = end - This.address
        BY <1>1, <3>1 DEF Here
      <3> QED
        BY <3>1, <3>2
    <2>3. ChunkAddress' = end
      BY <1>1, <1>3, <2>1, <2>2 DEF ChunkAddress, This
    <2> SUFFICES ASSUME touched = {} PROVE Counted' /\ Told' /\ ~Complete'
      BY <2>1 DEF StatsInv
    <2>4. Counted'
      <3>1. Finished' = Finished /\ Counted
        BY <1>0, <2>1 DEF Finished, StatsInv, Searching
      <3> QED
        BY <2>1, <3>1, SameCounts
    <2>5. Told'
      <3>1. here.any <=> \E a \in Extent(report.scanned) :
                           a < ChunkAddress /\ memory[a] # Hole
        BY <1>0 DEF StatsInv, Searching, Told
      <3>2. ASSUME NEW a \in Extent(report.scanned), memory[a] # Hole
            PROVE  a < end <=> a < ChunkAddress
        <4>1. a \in Addresses /\ a \in Nat
          BY <1>5
        <4>2. ~(ChunkAddress <= a /\ a < end)
          BY <1>4, <3>2, <4>1
        <4> QED
          BY <1>2, <1>3, <4>1, <4>2
      <3>3. here'.any <=> \E a \in Extent(report.scanned) : a < end /\ memory[a] # Hole
        BY <2>2, <3>1, <3>2
      <3>4. Extent(report.scanned)' = Extent(report.scanned)
        BY <2>1, SameEntries
      <3> QED
        BY <2>1, <2>2, <2>3, <3>3, <3>4 DEF Told
    <2> QED
      BY <1>0, <2>1, <2>4, <2>5 DEF Complete
  <1> QED
    BY <1>6, <1>7 DEF SkipPage

\* A copied chunk has something to read and no hole.
LEMMA CopyChunkCounts ==
  ASSUME SearchInv, StatsInv, CopyChunk
  PROVE  StatsInv'
  <1>1. PICK n \in Copyable(ChunkAddress, BytesToRead) :
          /\ report' = [report EXCEPT
               !.results = @ \o [k \in DOMAIN Matches(Buffer(n)) |->
                                   Result(Matches(Buffer(n))[k])],
               !.total = @ + Len(Matches(Buffer(n)))]
          /\ here' = [here EXCEPT !.offset = @ + n, !.any = TRUE,
               !.prefix = Carried(Buffer(n)), !.failure = @ \/ n < BytesToRead]
    BY DEF CopyChunk
  <1>2. /\ Reading /\ phase = "chunks" /\ here.offset < This.size
        /\ UNCHANGED <<memory, touched, request, phase>>
    BY DEF CopyChunk, Reading, kept
  <1>3. /\ here \in Here /\ report \in Report
        /\ This.address \in Nat /\ This.size \in Nat /\ here.offset \in Nat
    BY <1>2, ThisIs DEF SearchInv, SearchTypes
  <1>4. /\ report'.scanned = report.scanned
        /\ report'.skipped = report.skipped /\ report'.failures = report.failures
    <2>1. PICK results, total : report' = [report EXCEPT !.results = results, !.total = total]
      BY <1>1
    <2> QED
      BY <1>3, <2>1 DEF Report
  <1>5. /\ here'.offset = here.offset + n
        /\ here'.any
        /\ here.failure => here'.failure
    <2>1. PICK any, failure, prefix :
            /\ any /\ (here.failure => failure)
            /\ here' = [here EXCEPT !.offset = @ + n, !.any = any,
                                    !.prefix = prefix, !.failure = failure]
      <3>1. PICK any, failure : any = TRUE /\ failure = (here.failure \/ n < BytesToRead)
        OBVIOUS
      <3>2. any /\ (here.failure => failure)
        BY <3>1, Zenon
      <3>3. here' = [here EXCEPT !.offset = @ + n, !.any = any,
                                 !.prefix = Carried(Buffer(n)), !.failure = failure]
        BY <1>1, <1>3, <3>1, Zenon DEF Here
      <3> QED
        BY <3>2, <3>3
    <2>2. here'.offset = here.offset + n /\ here'.any = any /\ here'.failure = failure
      BY <1>3, <2>1 DEF Here
    <2> QED
      BY <2>1, <2>2
  <1> SUFFICES ASSUME touched = {} PROVE Counted' /\ Told' /\ ~Complete'
    BY <1>2 DEF StatsInv
  <1>6. Counted'
    <2>1. Finished' = Finished /\ Counted
      BY <1>2, <1>4 DEF Finished, StatsInv, Searching
    <2> QED
      BY <1>2, <1>4, <2>1, SameCounts
  <1>7. /\ n \in Nat \ {0} /\ ChunkAddress = This.address + here.offset
        /\ \A i \in 1 .. n : /\ This.address + here.offset + i - 1 \in Addresses
                             /\ memory[This.address + here.offset + i - 1] \in Byte
    BY <1>2, ChunkIs DEF SearchInv, ChunkAddress
  <1>8. Told'
    <2>1. (\E a \in Extent(report.scanned) : a < ChunkAddress /\ memory[a] = Hole)
            => here.failure
      BY <1>2 DEF StatsInv, Searching, Told
    <2>2. ChunkAddress' = ChunkAddress + n
      <3>1. This' = This
        BY <1>2, <1>4 DEF This
      <3>2. ChunkAddress' = This.address + (here.offset + n)
        BY <1>5, <3>1 DEF ChunkAddress
      <3> QED
        BY <1>3, <1>7, <3>2
    <2>3. /\ ChunkAddress \in Extent(report.scanned) /\ memory[ChunkAddress] # Hole
          /\ ChunkAddress < ChunkAddress + n
      <3>1. 1 \in 1 .. n /\ This.address + here.offset + 1 - 1 = ChunkAddress
        BY <1>3, <1>7
      <3>2. ChunkAddress \in Addresses /\ memory[ChunkAddress] \in Byte
        BY <1>7, <3>1
      <3>3. ChunkAddress \in Extent(report.scanned)
        BY <1>2, <1>3, <1>7, <3>2 DEF Extent, This
      <3> QED
        BY <1>3, <1>7, <3>2, <3>3, HoleIsNoByte
    <2>4. ASSUME NEW a \in Extent(report.scanned), a < ChunkAddress + n, memory[a] = Hole
          PROVE  a < ChunkAddress
      <3>1. a \in Nat
        BY DEF Extent, Addresses
      <3> SUFFICES ASSUME ~(a < ChunkAddress) PROVE FALSE
        OBVIOUS
      <3>2. PICK i \in 1 .. n : This.address + here.offset + i - 1 = a
        <4>1. a - ChunkAddress + 1 \in 1 .. n
          BY <1>3, <1>7, <2>4, <3>1
        <4>2. This.address + here.offset + (a - ChunkAddress + 1) - 1 = a
          BY <1>3, <1>7, <3>1
        <4> QED
          BY <4>1, <4>2
      <3> QED
        BY <1>7, <2>4, <3>2, HoleIsNoByte
    <2>5. Extent(report.scanned)' = Extent(report.scanned)
      BY <1>2, <1>4, SameEntries
    <2>6. here'.any <=> \E a \in Extent(report.scanned) :
                          a < ChunkAddress + n /\ memory[a] # Hole
      BY <1>5, <2>3
    <2>7. (\E a \in Extent(report.scanned) : a < ChunkAddress + n /\ memory[a] = Hole)
            => here'.failure
      BY <1>5, <2>1, <2>4
    <2> QED
      BY <1>2, <2>2, <2>5, <2>6, <2>7 DEF Told
  <1> QED
    BY <1>2, <1>6, <1>8 DEF Complete

\* A step of a save leaves the counters alone.
LEMMA StatsStand ==
  ASSUME StatsInv, UNCHANGED <<memory, touched, search>>
  PROVE  StatsInv'
  <1>1. UNCHANGED <<memory, touched, request, phase, here, report>>
    BY DEF search
  <1>2. Counted' <=> Counted
    <2>1. Finished' = Finished
      BY <1>1 DEF Finished
    <2> QED
      BY <1>1, <2>1, SameCounts
  <1>3. Told' <=> Told
    <2>1. ChunkAddress' = ChunkAddress /\ Extent(report.scanned)' = Extent(report.scanned)
      BY <1>1 DEF ChunkAddress, This, Extent
    <2> QED
      BY <1>1, <2>1 DEF Told
  <1> QED
    BY <1>1, <1>2, <1>3 DEF StatsInv, Searching, Complete

LEMMA StatsStepKeeps ==
  ASSUME SearchInv, StatsInv, SearchStep
  PROVE  StatsInv'
  <1>1. CASE NextEntry
    <2>1. /\ UNCHANGED <<memory, touched, request>>
          /\ phase = "entries" /\ phase' = "chunks" /\ here' = Start
          /\ report' = [report EXCEPT !.scanned = @ + 1]
      BY <1>1 DEF NextEntry, More, kept
    <2>2. report \in Report /\ report.scanned \in Nat
      BY DEF SearchInv, SearchTypes, Report
    <2>3. /\ report'.scanned = report.scanned + 1
          /\ report'.skipped = report.skipped /\ report'.failures = report.failures
      BY <2>1, <2>2 DEF Report
    <2> SUFFICES ASSUME touched = {} PROVE Counted' /\ Told' /\ ~Complete'
      BY <2>1 DEF StatsInv
    <2>4. Counted'
      <3>1. Finished' = Finished /\ Counted
        BY <2>1, <2>2, <2>3 DEF Finished, StatsInv, Searching
      <3> QED
        BY <2>1, <2>3, <3>1, SameCounts
    <2>5. Told'
      <3>1. \A a \in Extent(report.scanned)' : ~(a < ChunkAddress')
        <4>1. ChunkAddress' = This'.address + 0
          BY <2>1, StartIs DEF ChunkAddress
        <4>2. request \in Requests /\ report.scanned < Len(request.entries)
          BY <1>1, <2>1 DEF NextEntry, More, SearchInv, SearchTypes
        <4>3. This'.address \in Nat
          <5>1. report.scanned + 1 \in Entries
            BY <2>2, <4>2, RequestIs DEF Entries
          <5>2. This' = request.entries[report.scanned + 1]
            BY <2>1, <2>3 DEF This
          <5> QED
            BY <4>2, <5>1, <5>2, RequestIs
        <4>4. \A a \in Extent(report.scanned)' : a \in Nat /\ a >= This'.address
          BY DEF Extent, This, Addresses
        <4> QED
          BY <4>1, <4>3, <4>4
      <3>2. here'.any = FALSE
        BY <2>1 DEF Start
      <3> QED
        BY <3>1, <3>2 DEF Told
    <2> QED
      BY <2>1, <2>4, <2>5 DEF Complete
  <1>2. CASE Answer
    <2>1. /\ UNCHANGED <<memory, touched, request, here, report>>
          /\ phase = "entries" /\ phase' = "done"
          /\ report.scanned = Len(request.entries)
      BY <1>2 DEF Answer, kept
    <2>2. Finished' = Finished
      BY <2>1 DEF Finished
    <2>3. Counted' <=> Counted
      BY <2>1, <2>2, SameCounts
    <2> QED
      BY <2>1, <2>3 DEF StatsInv, Searching, Complete, Told
  <1>3. CASE NoMemory \/ AddressOverflows \/ CopyChunkTruncated
    <2>1. ~Searching' /\ ~Complete'
      <3>1. CASE NoMemory \/ AddressOverflows
        BY <3>1 DEF NoMemory, AddressOverflows, Searching, Complete
      <3>2. CASE CopyChunkTruncated
        <4>1. phase' = "done"
          BY <3>2 DEF CopyChunkTruncated
        <4>2. report'.truncated
          <5>1. report \in Report
            BY DEF SearchInv, SearchTypes
          <5>2. PICK results, total :
                  report' = [report EXCEPT !.results = results, !.total = total,
                                           !.truncated = TRUE]
            BY <3>2 DEF CopyChunkTruncated
          <5> QED
            BY <5>1, <5>2 DEF Report
        <4> QED
          BY <4>1, <4>2 DEF Searching, Complete
      <3> QED
        BY <1>3, <3>1, <3>2
    <2> QED
      BY <2>1 DEF StatsInv
  <1> QED
    BY <1>1, <1>2, <1>3, EntryEndsCounts, SkipPageCounts, CopyChunkCounts DEF SearchStep

LEMMA StatsInvIsInvariant == Spec => []StatsInv
  <1>1. Init => StatsInv
    <2> SUFFICES ASSUME Init PROVE Counted /\ Told /\ ~Complete
      BY DEF StatsInv
    <2>1. /\ report.scanned = 0 /\ report.skipped = 0 /\ report.failures = 0
          /\ phase \in {"none", "entries"}
      BY DEF Init, SearchInit, NoSearch, NoReport
    <2>2. {k \in 1 .. 0 : Unread(k)} = {} /\ {k \in 1 .. 0 : Holed(k)} = {}
      OBVIOUS
    <2>3. Finished = 0
      BY <2>1 DEF Finished
    <2>4. Counted
      BY <2>1, <2>2, <2>3, FS_EmptySet DEF Counted
    <2> QED
      BY <2>1, <2>4 DEF Told, Complete
  <1>2. SearchInv /\ StatsInv /\ [Next]_vars => StatsInv'
    <2> SUFFICES ASSUME SearchInv, StatsInv, [Next]_vars PROVE StatsInv'
      OBVIOUS
    <2>1. CASE Search
      BY <2>1, StatsStepKeeps DEF Search
    <2>2. CASE Save \/ Snapshots \/ UNCHANGED vars
      BY <2>2, StatsStand DEF Save, Snapshots, vars
    <2>3. CASE MemoryChanges
      BY <2>3 DEF MemoryChanges, PageChanges, StatsInv
    <2> QED
      BY <2>1, <2>2, <2>3 DEF Next, Step
  <1> QED
    BY <1>1, <1>2, SearchInvIsInvariant, PTL DEF Spec

(***************************************************************************)
(* The counters of a search that covers every entry, over memory that did  *)
(* not change, tell what was not searched: exactly the entries of which    *)
(* nothing could be read are skipped, and no entry with a hole is missing  *)
(* in the failures (SearchEntry's readAny and readFailure).                *)
(***************************************************************************)
THEOREM SearchesTellHoles == Spec => []StatsTellHoles
  <1>1. SearchInv /\ StatsInv => StatsTellHoles
    <2> SUFFICES ASSUME SearchInv, StatsInv,
                        phase = "done", ~report.truncated, touched = {}
                 PROVE  StatsTellHoles
      BY DEF StatsTellHoles
    <2>1. request.entries \in Seq(Entry)
      BY RequestIs DEF SearchInv, SearchTypes
    <2>2. Counted /\ Finished = Len(request.entries)
      BY DEF StatsInv, Complete, Finished
    <2>3. DOMAIN request.entries = 1 .. Finished
      BY <2>1, <2>2
    <2> QED
      BY <2>2, <2>3 DEF StatsTellHoles, Counted, Unread, Holed
  <1> QED
    BY <1>1, SearchInvIsInvariant, StatsInvIsInvariant, PTL

=============================================================================
