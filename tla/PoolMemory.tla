------------------------------ MODULE PoolMemory ------------------------------
(***************************************************************************)
(* The memory that snapshot entries name, as the driver reads it:          *)
(* CopyFromVirtualAddress (kn-diff.cpp) copies until it meets a page that  *)
(* cannot be read.  The memory is live: pools are written, freed and       *)
(* allocated again while they are read.                                    *)
(***************************************************************************)
EXTENDS Naturals, FiniteSets, SequencesExt

CONSTANTS
  Byte,        \* the values of a byte
  Hole,        \* what stands where memory cannot be read
  PageSize,    \* PAGE_SIZE
  AddressSpace \* the number of addresses, 2^64

ASSUME HoleIsNoByte == Hole \notin Byte
ASSUME PagesFillTheAddressSpace ==
  /\ PageSize \in Nat \ {0}
  /\ AddressSpace \in Nat \ {0}
  /\ AddressSpace % PageSize = 0

VARIABLES
  memory, \* per address: its byte or Hole
  touched \* the addresses whose memory changed since the request began

Addresses == 0 .. AddressSpace - 1

Entry == [address : Addresses, size : Nat]

PageOf(a) == a \div PageSize

PageAddresses(p) == {a \in Addresses : PageOf(a) = p}

Pages == {PageOf(a) : a \in Addresses}

\* What a page can hold: it is readable as a whole or not at all.
Contents(p) ==
  [PageAddresses(p) -> Byte] \cup {[a \in PageAddresses(p) |-> Hole]}

WholePages(m) ==
  \A p \in Pages : [a \in PageAddresses(p) |-> m[a]] \in Contents(p)

MemoryInit ==
  /\ memory \in [Addresses -> Byte \cup {Hole}] /\ WholePages(memory)
  /\ touched = {}

\* A page is written to, freed, or allocated and filled; as a bound of the
\* model once in a request.
PageChanges ==
  /\ touched = {}
  /\ \E p \in Pages : \E content \in Contents(p) :
       /\ touched' = {a \in DOMAIN content : content[a] # memory[a]}
       /\ touched' # {}
       /\ memory' = [a \in Addresses |->
                       IF a \in DOMAIN content THEN content[a] ELSE memory[a]]

\* The numbers of bytes a copy of this length may end with, when its first
\* byte can be read.
Copyable(address, length) ==
  {n \in 1 .. length :
     /\ address + n <= AddressSpace
     /\ \A i \in 0 .. n - 1 : memory[address + i] # Hole}

\* What such a copy has copied.
Copied(address, n) == [i \in 1 .. n |-> memory[address + i - 1]]

=============================================================================
