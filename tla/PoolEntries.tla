----------------------------- MODULE PoolEntries -----------------------------
(***************************************************************************)
(* The entries of a big pool snapshot and the comparison of two snapshots. *)
(*                                                                         *)
(* KN_DIFF_POOL_ENTRY identifies an allocation by its address, size and    *)
(* tag; the three together are one element of Ids here.  What a scan       *)
(* recorded of the allocation's content is a hash: how much of it was      *)
(* hashed (HashedBytes together with the SAMPLED flag, one element of      *)
(* Covers) and the value (ContentHash, one element of Digests).            *)
(* Unhashed is the coverage of an entry of which no byte could be read.    *)
(*                                                                         *)
(* The contents of a snapshot is a function on Ids, Absent where the       *)
(* snapshot has no such allocation: the system's list names an address     *)
(* once.                                                                   *)
(***************************************************************************)
EXTENDS Naturals, FiniteSets

CONSTANTS
  Ids,      \* allocations: address, size and tag
  Covers,   \* how much of an allocation a hash covers
  Digests,  \* the values of a content hash
  Unhashed, \* the coverage HashedBytes = 0
  Absent    \* not an entry

ASSUME IdsFinite == IsFiniteSet(Ids)

Hash == [cover : Covers \cup {Unhashed}, digest : Digests]

Entry == [hash : Hash, sid : Nat, changed : BOOLEAN]

ASSUME AbsentIsNoEntry == Absent \notin Entry \cup Hash

Contents == [Ids -> Entry \cup {Absent}]

NoEntries == [i \in Ids |-> Absent]

Present(entries) == {i \in Ids : entries[i] # Absent}

Count(entries) == Cardinality(Present(entries))

(***************************************************************************)
(* What one scan can see: for every allocation its hash, or Absent.  Stamp *)
(* is the snapshot a scan makes of it, every entry under the same id.      *)
(***************************************************************************)
Observation == [Ids -> Hash \cup {Absent}]

Stamp(seen, sid) ==
  [i \in Ids |-> IF seen[i] = Absent
                 THEN Absent
                 ELSE [hash |-> seen[i], sid |-> sid, changed |-> FALSE]]

\* Two hashes are comparable only when both exist and cover the same bytes.
EntryContentHashChanged(baseline, current) ==
  /\ baseline.hash.cover # Unhashed
  /\ current.hash.cover # Unhashed
  /\ baseline.hash.cover = current.hash.cover
  /\ baseline.hash.digest # current.hash.digest

\* The rebuilt diff: new entries as they are, changed ones with the flag set.
DiffOf(baseline, current) ==
  [i \in Ids |->
     IF current[i] = Absent THEN Absent
     ELSE IF baseline[i] = Absent THEN current[i]
     ELSE IF EntryContentHashChanged(baseline[i], current[i])
          THEN [current[i] EXCEPT !.changed = TRUE]
          ELSE Absent]

=============================================================================
