----------------------------- MODULE MCPoolScan -----------------------------
(***************************************************************************)
(* Instances of PoolScan: four pages of four bytes.                        *)
(***************************************************************************)
EXTENDS PoolScan

SmallFill == [a \in Addresses |-> IF a \in {0, 1, 3, 6, 7, 12} THEN "a" ELSE "b"]

Pool(address, size) == [address |-> address, size |-> size, nonpaged |-> TRUE]

Paged(address) == [address |-> address, size |-> 2, nonpaged |-> FALSE]

Good == [valid |-> TRUE, write |-> TRUE, nx |-> TRUE, large |-> FALSE, table |-> "ok"]

Absent == [Good EXCEPT !.valid = FALSE]

Four(entry) == <<Good, Good, Good, entry>>

AllGood == [p \in Pages |-> Four(Good)]

\* A world where nothing happens.
Quiet ==
  [pools |-> <<>>, paths |-> AllGood, changes |-> 0, happens |-> {},
   policy |-> [mode |-> "sample", sample |-> SampleMax]]

Policies ==
  {[mode |-> "full", sample |-> 4], [mode |-> "sample", sample |-> 4],
   [mode |-> "sample", sample |-> 7]}

\* A pool at the start of a page, one that lies across pages, one at the end
\* of memory, each with any of its pages missing, and one that the address
\* space ends in; one thing happens, or two bytes change, or one changes and
\* is restored.
HashWorlds ==
  {[Quiet EXCEPT
      !.pools = <<Paged(4), pool>>,
      !.paths = [p \in Pages |-> IF p \in holes THEN Four(Absent) ELSE Four(Good)],
      !.changes = 1, !.happens = {"byte", "page", "policy", "shortage"}, !.policy = choice] :
     <<pool, holes>> \in
       {Pool(0, 12)} \X SUBSET (0 .. 2) \cup {Pool(2, 9)} \X SUBSET (0 .. 2)
         \cup {Pool(8, 8)} \X SUBSET (2 .. 3) \cup {<<Pool(14, 4), {}>>},
     choice \in Policies}
  \cup {[Quiet EXCEPT !.pools = <<Pool(2, 9)>>, !.changes = 2, !.happens = {"byte"},
                      !.policy = choice] : choice \in Policies}

\* Paths where up to two entries are unlike the others, of four levels and
\* of five.
OddPaths(n) ==
  {path \in {[level \in 1 .. n |->
                CASE level = i -> x [] level = j /\ j # i -> y [] OTHER -> Good] :
               i \in 1 .. n, j \in 1 .. n, x \in PageTableEntry,
               y \in {[Good EXCEPT !.write = FALSE], [Good EXCEPT !.nx = FALSE],
                      [Good EXCEPT !.large = TRUE], Absent}} :
     IsPath(path)}

Ask(address, capacity, max) == [address |-> address, capacity |-> capacity, max |-> max]

SmallAsks == {Ask(3, 4, 0), Ask(7, 4, 5), Ask(7, 1, 2), Ask(15, 4, 0)}

WalkWorlds ==
  {[Quiet EXCEPT !.pools = <<Pool(2, 6)>>, !.happens = {"ask"},
                 !.paths = [AllGood EXCEPT ![1] = path]] :
     path \in OddPaths(4) \cup OddPaths(5)}
  \cup {[Quiet EXCEPT !.pools = <<Pool(2, 6)>>, !.changes = 1,
                      !.happens = {"ask", "shortage"}]}

\* The list changes while it is asked for; lists of up to 7 pools fit.
ListOf(n) == [k \in 1 .. n |-> IF k # 2 THEN Paged(4) ELSE Pool(8, 2)]

SmallLists == {ListOf(n) : n \in {0, 1, 3, 4, 5, 8}}

ListWorlds ==
  {[Quiet EXCEPT !.pools = ListOf(n),
                 !.changes = 3, !.happens = {"list", "shortage"}] : n \in {0, 1, 3, 4, 5, 8}}

SmallWorlds == HashWorlds \cup WalkWorlds \cup ListWorlds

=============================================================================
