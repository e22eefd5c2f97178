------------------------------ MODULE MCPages ------------------------------
(***************************************************************************)
(* The pages of the data file: the tree built from them, the pool that     *)
(* caches them and the compaction that copies them.  Each is modelled with *)
(* the others abstracted, so a behaviour runs one of them and leaves the   *)
(* others as they are at the start.                                        *)
(***************************************************************************)
EXTENDS BTree, BufPool, Compaction, TLC

CONSTANT Parts      \* those of "tree", "pool" and "compact" that are run

VARIABLE part

allVars == <<part, treeVars, poolVars, compactVars>>

MCKeyOrder == <<"j", "k">>

\* Only the pool has Pages: they are interchangeable.
MCSymmetry == Permutations(Pages)

\* Trees of one to three levels, built by ascending and descending puts.
MCOpKeys == {1, 2, 3, 6, 7, 9, 10, 14, NumKeys}
MCValues == {[name |-> "a", pages |-> 0], [name |-> "b", pages |-> 2]}
Up(n) == [i \in 1..n |-> i]
Down(n) == [i \in 1..n |-> NumKeys + 1 - i]
MCShapes == {Up(n) : n \in {0, 4, 13, 17}} \cup {Down(n) : n \in {5, 14}}
NoShapes == {<<>>}

IdleTree == tree = Empty /\ map = [k \in Keys |-> None] /\ failed = FALSE /\ ops = 0
IdlePool == PoolInit /\ \A n \in Capacities : maxPages <= Larger(n, 1)

PagesInit ==
  /\ part \in Parts
  /\ IF part = "tree" THEN TreeInit ELSE IdleTree
  /\ IF part = "pool" THEN PoolInit ELSE IdlePool
  /\ CompactInit

TreeStep == part = "tree" /\ TreeNext /\ UNCHANGED <<part, poolVars, compactVars>>
PoolStep == part = "pool" /\ PoolNext /\ UNCHANGED <<part, treeVars, compactVars>>
CompactStep == part = "compact" /\ CompactNext /\ UNCHANGED <<part, treeVars, poolVars>>

PagesSpec == PagesInit /\ [][TreeStep \/ PoolStep \/ CompactStep]_allVars

-----------------------------------------------------------------------------
\* Get and a cursor over the whole tree return the map that puts and deletes made.
TreeServesMap == TreeIsMap /\ ScanIsMap

\* The tree keeps its shape: every page has one use, and no node underflows.
TreeKeepsShape == PagesHaveOneUse /\ NodesAreBalanced
=============================================================================
