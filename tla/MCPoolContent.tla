---------------------------- MODULE MCPoolContent ----------------------------
(***************************************************************************)
(* An instance of PoolContent: three pages of three bytes.                 *)
(***************************************************************************)
EXTENDS PoolContent

At(address, size) == [address |-> address, size |-> size]

SearchFor(entries, pattern, capacity) ==
  [entries |-> entries, pattern |-> pattern, capacity |-> capacity]

\* One entry over all of the memory or two that share it, one that ends
\* within a page, and one that would go on behind the last address; with
\* room for one result, for all of them or for none.
SmallRequests ==
  {SearchFor(<<At(0, 9)>>, <<"a", "b", "a">>, 1),
   SearchFor(<<At(0, 4), At(6, 3)>>, <<"a", "a">>, 3),
   SearchFor(<<At(3, 5)>>, <<"b">>, 0),
   SearchFor(<<At(6, 4)>>, <<"a", "b">>, 9)}

\* Pools over the limit of a save, under it, at the end of memory and empty.
SmallTargets == {At(1, 7), At(2, 4), At(6, 5), At(3, 0)}

\* All of them, some of which are new; one that is shorter now; none.
SmallPairs ==
  {[diff |-> <<At(1, 7), At(6, 5)>>,
    current |-> <<At(1, 7), At(2, 4), At(3, 0), At(6, 5)>>],
   [diff |-> <<>>, current |-> <<At(1, 3), At(2, 4)>>],
   [diff |-> <<>>, current |-> <<>>]}

SmallFill == [a \in Addresses |-> IF a \in {0, 1, 3, 6, 7} THEN "a" ELSE "b"]

=============================================================================
