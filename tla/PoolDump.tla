------------------------------- MODULE PoolDump -------------------------------
(***************************************************************************)
(* Saving a pool to a file: savePoolDumpCmd and readPoolDump (tui/         *)
(* model.go), device.ReadContent, the driver's HandleReadContent           *)
(* (kn-diff.cpp) and exporter.SavePoolDump.                                *)
(*                                                                         *)
(* The pool is read in chunks, each a request of its own that looks its    *)
(* entry up again: between two chunks the memory can change, and the       *)
(* snapshots can be replaced or go away.  A chunk can also come short.     *)
(* What was read is written to a file, and then described in a second one. *)
(***************************************************************************)
EXTENDS PoolMemory

CONSTANTS
  MaxReadLength,    \* KN_DIFF_POOL_MAX_READ_LENGTH, 4096
  MaxPoolDumpBytes, \* 64 MiB
  Targets,          \* entries the user saves, as the tables show them
  SnapshotPairs,    \* what g_Diff and g_Current can be; <<>> also for a
                    \* driver that was stopped
  Fill              \* per address: the byte there, if any, when a save begins

ASSUME LimitsArePositive ==
  MaxReadLength \in Nat \ {0} /\ MaxPoolDumpBytes \in Nat \ {0}
ASSUME TargetsAreEntries == Targets \subseteq Entry
ASSUME SnapshotPairsAreEntries ==
  SnapshotPairs \subseteq [diff : Seq(Entry), current : Seq(Entry)]
ASSUME FillIsMemory == Fill \in [Addresses -> Byte]

VARIABLES
  snapshots, \* g_Diff and g_Current
  replaced,  \* they were, as a bound of the model once in a save
  target,    \* the entry that is saved
  saving,    \* reading, writing, marking: where the command is; saved, failed
  offset,    \* readPoolDump's offset
  data,      \* and what it has read
  truncated, \* and whether it is known not to be all of the pool
  files      \* the .bin file and the .json file that describes it

driver == <<snapshots, replaced>>
dump == <<driver, target, saving, offset, data, truncated, files>>

NoFile == [bin |-> <<>>, meta |-> <<>>]

SaveFrom(phase0) ==
  /\ replaced = FALSE
  /\ saving = phase0
  /\ offset = 0
  /\ data = <<>>
  /\ truncated = FALSE
  /\ files = NoFile

SaveInit ==
  /\ \A a \in Addresses : memory[a] \in {Fill[a], Hole}
  /\ snapshots \in SnapshotPairs
  /\ target \in Targets
  /\ SaveFrom("reading")

\* No pool is saved.
NoSave ==
  /\ snapshots = [diff |-> <<>>, current |-> <<>>]
  /\ target = [address |-> 0, size |-> 0]
  /\ SaveFrom("none")

Saving == saving \in {"reading", "writing", "marking"}

\* A create, a clear or a stop, by another command of the program.
SnapshotsReplaced ==
  /\ saving = "reading" /\ ~replaced
  /\ snapshots' \in SnapshotPairs \ {snapshots}
  /\ replaced' = TRUE
  /\ UNCHANGED <<target, saving, offset, data, truncated, files>>

-----------------------------------------------------------------------------
(***************************************************************************)
(* The driver: HandleReadContent                                           *)
(***************************************************************************)

Listed == snapshots.diff \o snapshots.current

\* FindReadableEntryByAddressLocked: the first one with the address, or 0.
EntryAt(address) == SelectInSeq(Listed, LAMBDA e : e.address = address)

\* Mutant of Available: the last byte of the entry is never read.
AvailableButLast(entry, from) == Max({entry.size, from + 1}) - from - 1

Available(entry, from) == entry.size - from

\* What a request may be answered with; nothing when it fails: no entry, an
\* offset behind its end, a sum over 64 bits, memory that cannot be read.
ReadContent(address, from, length) ==
  LET entry == Listed[EntryAt(address)]
      count == Min({length, MaxReadLength, Available(entry, from)})
  IN  IF EntryAt(address) = 0 \/ from > entry.size THEN {}
      ELSE IF count = 0 THEN {<<>>}
      ELSE {Copied(address + from, n) : n \in Copyable(address + from, count)}

-----------------------------------------------------------------------------
(***************************************************************************)
(* The command: readPoolDump                                               *)
(***************************************************************************)

\* The most that is saved of the target.
Length == Min({target.size, MaxPoolDumpBytes})

ChunkLength == Min({Length - offset, MaxReadLength})

\* A request that fails for a reason outside the driver, which readPoolDump
\* takes as it takes one that cannot be answered, is not a case of its own.
Answers == ReadContent(target.address, offset, ChunkLength)

ReadingPool == saving = "reading" /\ offset < Length

\* Mutant of NextChunk: on by what was asked for, not by what came.
NextChunkByLength ==
  /\ ReadingPool
  /\ \E bytes \in Answers \ {<<>>} :
       /\ data' = data \o bytes
       /\ offset' = offset + ChunkLength
  /\ UNCHANGED <<driver, target, saving, truncated, files>>

NextChunk ==
  /\ ReadingPool
  /\ \E bytes \in Answers \ {<<>>} :
       /\ data' = data \o bytes
       /\ offset' = offset + Len(bytes)
  /\ UNCHANGED <<driver, target, saving, truncated, files>>

\* What has been read is kept, unless it is nothing.
Keep(short) ==
  /\ saving' = IF data = <<>> THEN "failed" ELSE "writing"
  /\ truncated' = short
  /\ UNCHANGED <<driver, target, offset, data, files>>

\* Mutant of ChunkFails: what was read is taken for all of the pool.
ChunkFailsUnmarked ==
  /\ ReadingPool
  /\ Answers = {}
  /\ Keep(target.size > MaxPoolDumpBytes)

ChunkFails ==
  /\ ReadingPool
  /\ Answers = {}
  /\ Keep(TRUE)

\* Mutant of ReadEnds: an empty answer is asked for again.
ReadEndsAtLength ==
  /\ saving = "reading"
  /\ offset >= Length
  /\ Keep(Len(data) < target.size)

\* All is read, or the driver has no more (its entry is shorter now).
ReadEnds ==
  /\ saving = "reading"
  /\ offset >= Length \/ <<>> \in Answers
  /\ Keep(Len(data) < target.size)

-----------------------------------------------------------------------------
(***************************************************************************)
(* exporter.SavePoolDump                                                   *)
(***************************************************************************)

WriteBin ==
  /\ saving = "writing"
  /\ saving' = "marking"
  /\ files' = [files EXCEPT !.bin = data]
  /\ UNCHANGED <<driver, target, offset, data, truncated>>

WriteMeta ==
  /\ saving = "marking"
  /\ saving' = "saved"
  /\ files' = [files EXCEPT !.meta =
       <<[requested |-> target.size, written |-> Len(data), truncated |-> truncated]>>]
  /\ UNCHANGED <<driver, target, offset, data, truncated>>

\* The directory or a file cannot be made, or the disk is full half way.
WriteFails ==
  /\ saving \in {"writing", "marking"}
  /\ saving' = "failed"
  /\ \/ saving = "writing" /\ \E n \in 0 .. Len(data) - 1 :
          files' = [files EXCEPT !.bin = SubSeq(data, 1, n)]
     \/ saving = "marking" /\ UNCHANGED files
  /\ UNCHANGED <<driver, target, offset, data, truncated>>

SaveStep ==
  \/ NextChunk \/ ChunkFails \/ ReadEnds
  \/ WriteBin \/ WriteMeta \/ WriteFails

-----------------------------------------------------------------------------
(***************************************************************************)
(* Properties                                                              *)
(***************************************************************************)

\* Every variable has values of its type, and no more is read than wanted.
SaveTypeOK ==
  /\ snapshots \in [diff : Seq(Entry), current : Seq(Entry)]
  /\ replaced \in BOOLEAN
  /\ target \in Entry
  /\ saving \in {"none", "reading", "writing", "marking", "saved", "failed"}
  /\ data \in Seq(Byte) /\ truncated \in BOOLEAN
  /\ offset \in 0 .. Length
  /\ files.bin \in Seq(Byte)
  /\ Len(files.meta) <= 1

Address(i) == target.address + i - 1

(***************************************************************************)
(* A file that is described holds the first bytes of the pool, in place,   *)
(* whatever chunks came short: each byte whose memory was left alone is    *)
(* the one at its address.                                                 *)
(***************************************************************************)
SavedIsPrefix ==
  files.meta # <<>> =>
    /\ files.bin # <<>> /\ Len(files.bin) <= target.size
    /\ \A i \in DOMAIN files.bin :
         Address(i) \notin touched => files.bin[i] = memory[Address(i)]

\* The description says how much the file has of the pool, and that it is
\* not all when it is not: chunks may fail, the pool may be over the limit,
\* the snapshot may go away half way.
TruncatedIsMarked ==
  \A k \in DOMAIN files.meta :
    /\ files.meta[k].written = Len(files.bin)
    /\ files.meta[k].truncated <=> Len(files.bin) < files.meta[k].requested

\* How much of the target can be read from its start.
Readable ==
  Max({n \in 0 .. Length :
         \A i \in 1 .. n : Address(i) \in Addresses /\ memory[Address(i)] # Hole})

\* The driver has the target, and finds it by its address.
TargetIsFound ==
  EntryAt(target.address) # 0 /\ Listed[EntryAt(target.address)] = target

\* With the target in a snapshot and all left alone, a save has everything
\* up to the first byte that cannot be read, or to the limit: short answers
\* are made up for.
SavedToTheFirstHole ==
  /\ saving = "saved" /\ ~replaced /\ touched = {}
  /\ TargetIsFound
  => Len(files.bin) = Readable

=============================================================================
