----------------------------- MODULE PoolContent -----------------------------
(***************************************************************************)
(* The requests that read pool memory: the search of a snapshot and the    *)
(* reads a pool is saved by.  They share nothing but the memory, so a      *)
(* behaviour has one of them; the memory changes under either.             *)
(***************************************************************************)
EXTENDS PoolSearch, PoolDump

Init ==
  /\ MemoryInit
  /\ \/ SearchInit /\ NoSave
     \/ SaveInit /\ NoSearch

MemoryChanges ==
  /\ Searching \/ saving = "reading"
  /\ PageChanges
  /\ UNCHANGED <<search, dump>>

Search == SearchStep /\ UNCHANGED dump

Save == SaveStep /\ UNCHANGED <<memory, touched, search>>

Snapshots == SnapshotsReplaced /\ UNCHANGED <<memory, touched, search>>

Step == Search \/ Save

Next == Step \/ Snapshots \/ MemoryChanges

vars == <<memory, touched, search, dump>>

Spec == Init /\ [][Next]_vars

\* The handler's thread and the command's goroutine run on.
FairSpec == Spec /\ WF_vars(Step)

\* Every variable has values of its type.
TypeOK ==
  /\ memory \in [Addresses -> Byte \cup {Hole}] /\ WholePages(memory)
  /\ touched \subseteq Addresses
  /\ SearchTypeOK
  /\ SaveTypeOK

\* A search and a save end, whatever can be read, at the end of the address
\* space too, and however short the answers are.
ContentEnds == <>(~Searching /\ ~Saving)

=============================================================================
