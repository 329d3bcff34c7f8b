------------------------------ MODULE PageWalk ------------------------------
(***************************************************************************)
(* QueryAddressPteAttributes (kn-diff.cpp): the protection of a page, from *)
(* the entries of the page tables that its address selects, and what the   *)
(* processor makes of the same entries.                                    *)
(*                                                                         *)
(* A path is the entries for one address from the root: four of them, or   *)
(* five with LA57.  An entry's table says whether the next table can be    *)
(* read (ok), is at address 0 (zero) or cannot be copied (unreadable).     *)
(***************************************************************************)
EXTENDS Naturals, Sequences, FiniteSetsExt

PageTableEntry ==
  [valid : BOOLEAN, write : BOOLEAN, nx : BOOLEAN, large : BOOLEAN,
   table : {"ok", "zero", "unreadable"}]

\* The shifts 30 and 21: entries there can be of a large page.
LargeLevels(path) == {Len(path) - 2, Len(path) - 1}

\* In the last entry the bit of a large page is part of the caching mode,
\* in the others it is 0.
IsPath(path) ==
  /\ path \in Seq(PageTableEntry) /\ Len(path) \in {4, 5}
  /\ \A level \in DOMAIN path :
       path[level].large => level \in LargeLevels(path) \cup {Len(path)}

Attributes(present, writable, executable, large) ==
  [present |-> present, writable |-> writable, executable |-> executable,
   large |-> large]

NotPresent == Attributes(FALSE, FALSE, FALSE, FALSE)

\* Mutant of Walk: the protection is that of the last entry alone.
WalkOfLastEntry(path) ==
  LET walk[level \in DOMAIN path] ==
        LET entry == path[level]
            here == Attributes(TRUE, entry.write, ~entry.nx, level < Len(path))
        IN  CASE ~entry.valid -> NotPresent
              [] entry.valid /\ (level = Len(path) \/
                   (entry.large /\ level \in LargeLevels(path))) -> here
              [] OTHER -> IF entry.table = "ok" THEN walk[level + 1] ELSE NotPresent
  IN  walk[1]

\* What an entry leaves of what the entries behind it allow.
Restricted(rest, entry) ==
  [rest EXCEPT !.writable = @ /\ entry.write, !.executable = @ /\ ~entry.nx]

\* The driver's loop; a walk that fails leaves all attributes FALSE.  That the
\* root entry itself cannot be copied is not a case of its own: it ends the
\* walk as an entry that is not valid does.
Walk(path) ==
  LET walk[level \in DOMAIN path] ==
        LET entry == path[level]
            large == entry.large /\ level \in LargeLevels(path)
        IN  CASE ~entry.valid -> NotPresent
              [] entry.valid /\ (large \/ level = Len(path)) ->
                   Attributes(TRUE, entry.write, ~entry.nx, large)
              [] OTHER -> IF entry.table = "ok" THEN Restricted(walk[level + 1], entry)
                          ELSE NotPresent
  IN  walk[1]

-----------------------------------------------------------------------------
\* The processor: the entries it uses end with a large page's or the last,
\* and each of them has its say.
Used(path) ==
  LET ends == {level \in LargeLevels(path) : path[level].large} \cup {Len(path)}
  IN  1 .. Min(ends)

Translates(path) == \A level \in Used(path) : path[level].valid

MayWrite(path) == Translates(path) /\ \A level \in Used(path) : path[level].write

MayExecute(path) == Translates(path) /\ \A level \in Used(path) : ~path[level].nx

\* The driver can follow the tables that the processor follows.
CanBeWalked(path) ==
  \A level \in Used(path) \ {Max(Used(path))} : path[level].table = "ok"

=============================================================================
