----------------------------- MODULE MCPoolTable -----------------------------
(***************************************************************************)
(* An instance of PoolTable: three pools.                                  *)
(***************************************************************************)
EXTENDS PoolTable

Pool(address, size, pages, tags, writable) ==
  [address |-> address, size |-> size, pages |-> pages, tag |-> Cardinality(tags),
   tags |-> tags, protection |-> [p \in Protections |-> writable]]

\* The larger pools come later, and the filters tell them apart.
Small == Pool(0, 1, 1, {"t"}, TRUE)
Large == Pool(4, 2, 2, {}, TRUE)
Locked == Pool(8, 1, 2, {"t"}, FALSE)

SmallEntry == {Small, Large, Locked}

SmallSnapshots ==
  {[diff |-> <<Large>>, current |-> <<Locked, Small, Large>>],
   [diff |-> <<Small, Locked>>, current |-> <<Locked, Small>>],
   [diff |-> <<>>, current |-> <<>>]}

Hit(entry, offset) == [entry |-> entry, offset |-> offset]

SmallSearches ==
  {<<Hit(Locked, 0), Hit(Large, 1), Hit(Small, 0)>>}

SmallOlderFiles == {[settings |-> Defaults, sortSize |-> TRUE]}

=============================================================================
