------------------------------- MODULE BTree -------------------------------
(***************************************************************************)
(* The B+tree of kdb (internal/kdb/btree): insertion with splits, deletion *)
(* with merges and redistribution, overflow chains and cursors.            *)
(*                                                                         *)
(* A page is a record, its bytes are sizes: a node holds cells up to       *)
(* MaxCellArea and underflows below Underflow, a quarter of it in the      *)
(* code.  Callers serialise Put and Delete (db.mu), so each is one step.   *)
(* Allocation fails when no page is free; the other errors of the page     *)
(* pool are left out.  The freelist is the set of free pages.              *)
(***************************************************************************)
EXTENDS Integers, Sequences, FiniteSets, SequencesExt

CONSTANTS
  NumKeys,       \* the keys 1..NumKeys: byte strings in their order
  LongKeys,      \* the keys that take LongExtra more room in a cell
  LongExtra,
  Values,        \* records [name, pages]: pages = 0 is stored inline
  NumPages,      \* the pages 1..NumPages of the file
  MaxCellArea,   \* room for cells in a node
  Underflow,     \* underflowThreshold
  Shapes,        \* sequences of keys put, in order, to build the initial trees
  OpKeys,        \* the keys operated on afterwards
  MaxOps         \* bound on the operations after the initial tree

VARIABLES
  tree,     \* [root, pages, free]
  map,      \* ghost: the value of every key after the last operation
  failed,   \* ghost: some operation returned an allocation error
  ops

treeVars == <<tree, map, failed, ops>>

None == [name |-> "none", pages |-> 0]   \* ErrKeyNotFound
Keys == 1..NumKeys
NoKey == 0                               \* a nil split key
ASSUME BTreeAssumption == OpKeys \subseteq Keys /\ None \notin Values

Raw == [kind |-> "raw"]
Leaf(next, cells) == [kind |-> "leaf", next |-> next, cells |-> cells]
Internal(first, cells) == [kind |-> "internal", first |-> first, cells |-> cells]
SetNode(t, p, node) == [t EXCEPT !.pages[p] = node]

\* The size of a cell: the reference to an overflow chain takes one unit more
\* than an inline value.
Size(cell) == 2 + (IF cell.key \in LongKeys THEN LongExtra ELSE 0)
                + (IF "over" \in DOMAIN cell /\ cell.over # 0 THEN 1 ELSE 0)
Used(cells) == FoldLeft(LAMBDA n, c : n + Size(c), 0, cells)

\* leafSearch, internalKeySearch: where key k is or belongs.
Search(cells, k) == 1 + Cardinality({i \in DOMAIN cells : cells[i].key < k})
Found(cells, k) == \E i \in DOMAIN cells : cells[i].key = k

\* internalSearch and internalChildAt: child slot 0 is the first child.
Slot(node, k) == Cardinality({i \in DOMAIN node.cells : node.cells[i].key <= k})
ChildAt(node, slot) == IF slot = 0 THEN node.first ELSE node.cells[slot].child

-----------------------------------------------------------------------------
\* Overflow chains.

Lowest(S, n) == SelectSeq([i \in 1..NumPages |-> i], LAMBDA p : p \in S /\ Cardinality({q \in S : q <= p}) <= n)

\* writeOverflow: one page after the other; when one is missing those already
\* taken stay allocated.
writeOverflow(t, v) ==
  LET ids == Lowest(t.free, v.pages)
      next(p) == LET i == SelectInSeq(ids, LAMBDA q : q = p) IN IF i = Len(ids) THEN 0 ELSE ids[i + 1]
  IN [t |-> [t EXCEPT !.free = @ \ ToSet(ids),
                      !.pages = [p \in DOMAIN @ |-> IF p \in ToSet(ids)
                                   THEN [kind |-> "overflow", val |-> v.name, next |-> next(p)] ELSE @[p]]],
      err |-> Len(ids) < v.pages, over |-> IF v.pages = 0 \/ ids = <<>> THEN 0 ELSE ids[1]]

\* The pages of the chain that starts at page p.
RECURSIVE Chain(_, _)
Chain(t, p) == IF p = 0 \/ t.pages[p].kind # "overflow" THEN <<>>
               ELSE <<p>> \o Chain(t, t.pages[p].next)

\* Seeded fault: only the first page is freed.
freeOverflowFirst(t, p) == IF p = 0 THEN t ELSE [t EXCEPT !.free = @ \cup {p}]

freeOverflow(t, p) == [t EXCEPT !.free = @ \cup ToSet(Chain(t, p))]

\* readOverflow: the value, as long as every page of the chain still holds it.
readOverflow(t, cell) ==
  LET ids == Chain(t, cell.over)
  IN IF Len(ids) = cell.val.pages /\ \A p \in ToSet(ids) : t.pages[p].val = cell.val.name
     THEN cell.val ELSE [name |-> "garbled", pages |-> 0]

CellValue(t, cell) == IF cell.over = 0 THEN cell.val ELSE readOverflow(t, cell)

-----------------------------------------------------------------------------
\* Get and Cursor.

RECURSIVE findLeaf(_, _, _)
findLeaf(t, p, k) ==
  IF t.pages[p].kind = "leaf" THEN p
  ELSE findLeaf(t, ChildAt(t.pages[p], Slot(t.pages[p], k)), k)

Get(t, k) ==
  IF t.root = 0 THEN None
  ELSE LET cells == t.pages[findLeaf(t, t.root, k)].cells
       IN IF Found(cells, k) THEN CellValue(t, cells[Search(cells, k)]) ELSE None

\* Next and advanceLeaf until the cursor is exhausted: an empty leaf is the end.
RECURSIVE NextCells(_, _, _)
NextCells(t, p, i) ==
  LET leaf == t.pages[p]
  IN IF i <= Len(leaf.cells) THEN <<leaf.cells[i]>> \o NextCells(t, p, i + 1)
     ELSE IF leaf.next = 0 \/ t.pages[leaf.next].cells = <<>> THEN <<>>
     ELSE NextCells(t, leaf.next, 1)

\* Seek, then Next to the end: what Key and Value return on the way.
Seek(t, k) ==
  IF t.root = 0 THEN <<>>
  ELSE LET p == findLeaf(t, t.root, k)
           found == NextCells(t, p, Search(t.pages[p].cells, k))
       IN [i \in DOMAIN found |-> <<found[i].key, CellValue(t, found[i])>>]

RECURSIVE findLeftmost(_, _)
findLeftmost(t, p) == IF t.pages[p].kind = "leaf" THEN p ELSE findLeftmost(t, t.pages[p].first)

First(t) ==
  IF t.root = 0 \/ t.pages[findLeftmost(t, t.root)].cells = <<>> THEN <<>>
  ELSE LET found == NextCells(t, findLeftmost(t, t.root), 1)
       IN [i \in DOMAIN found |-> <<found[i].key, CellValue(t, found[i])>>]

-----------------------------------------------------------------------------
\* Put.  The result of an insertion: the tree, whether an allocation failed,
\* and the split key with its right child, if the node was split.

Inserted(t) == [t |-> t, err |-> FALSE, key |-> NoKey, child |-> 0]
Failed(t) == [t |-> t, err |-> TRUE, key |-> NoKey, child |-> 0]

AllocPage(t) == [t EXCEPT !.free = @ \ {Lowest(t.free, 1)[1]}]

\* Seeded fault: the last key of the left half goes up.
splitLeafLeftKey(t, p, cell) ==
  LET leaf == t.pages[p]
      cells == InsertAt(leaf.cells, Search(leaf.cells, cell.key), cell)
      mid == Len(cells) \div 2
      right == Lowest(t.free, 1)[1]
  IN IF t.free = {} THEN Failed(t)
     ELSE [t |-> SetNode(SetNode(AllocPage(t), p, Leaf(right, SubSeq(cells, 1, mid))),
                         right, Leaf(leaf.next, SubSeq(cells, mid + 1, Len(cells)))),
           err |-> FALSE, key |-> cells[mid].key, child |-> right]

splitLeaf(t, p, cell) ==
  LET leaf == t.pages[p]
      cells == InsertAt(leaf.cells, Search(leaf.cells, cell.key), cell)
      mid == Len(cells) \div 2
      right == Lowest(t.free, 1)[1]
  IN IF t.free = {} THEN Failed(t)
     ELSE [t |-> SetNode(SetNode(AllocPage(t), p, Leaf(right, SubSeq(cells, 1, mid))),
                         right, Leaf(leaf.next, SubSeq(cells, mid + 1, Len(cells)))),
           err |-> FALSE, key |-> cells[mid + 1].key, child |-> right]

\* insertLeaf: the cell of an updated key is deleted before the new one is
\* found to fit.
insertLeaf(t, p, k, v) ==
  LET written == writeOverflow(t, v)
      leaf == t.pages[p]
      i == Search(leaf.cells, k)
      found == Found(leaf.cells, k)
      kept == IF found THEN RemoveAt(leaf.cells, i) ELSE leaf.cells
      freed == IF found THEN freeOverflow(written.t, leaf.cells[i].over) ELSE written.t
      cell == [key |-> k, val |-> v, over |-> written.over]
  IN IF written.err THEN Failed(written.t)
     ELSE IF Used(kept) + Size(cell) <= MaxCellArea
     THEN Inserted(SetNode(freed, p, Leaf(leaf.next, InsertAt(kept, i, cell))))
     ELSE splitLeaf(SetNode(freed, p, Leaf(leaf.next, kept)), p, cell)

\* splitInternal: the middle key goes up, its child becomes the first child of
\* the right node.
splitInternal(t, p, k, child) ==
  LET node == t.pages[p]
      cells == InsertAt(node.cells, Search(node.cells, k), [key |-> k, child |-> child])
      mid == Len(cells) \div 2 + 1
      right == Lowest(t.free, 1)[1]
  IN IF t.free = {} THEN Failed(t)
     ELSE [t |-> SetNode(SetNode(AllocPage(t), p, Internal(node.first, SubSeq(cells, 1, mid - 1))),
                         right, Internal(cells[mid].child, SubSeq(cells, mid + 1, Len(cells)))),
           err |-> FALSE, key |-> cells[mid].key, child |-> right]

\* insertInternal, once the child is done.
PromoteInto(r, p) ==
  LET node == r.t.pages[p]
      cell == [key |-> r.key, child |-> r.child]
  IN IF r.err \/ r.key = NoKey THEN r
     ELSE IF Used(node.cells) + Size(cell) <= MaxCellArea
     THEN Inserted(SetNode(r.t, p, Internal(node.first, InsertAt(node.cells, Search(node.cells, r.key), cell))))
     ELSE splitInternal(r.t, p, r.key, r.child)

RECURSIVE insert(_, _, _, _)
insert(t, p, k, v) ==
  IF t.pages[p].kind = "leaf" THEN insertLeaf(t, p, k, v)
  ELSE PromoteInto(insert(t, ChildAt(t.pages[p], Slot(t.pages[p], k)), k, v), p)

\* Put: an empty tree gets a root leaf, a split root a new root above it.
TreePut(t0, k, v) ==
  IF t0.root = 0 /\ t0.free = {} THEN Failed(t0)
  ELSE LET new == Lowest(t0.free, 1)[1]
           t == IF t0.root # 0 THEN t0
                ELSE [SetNode(AllocPage(t0), new, Leaf(0, <<>>)) EXCEPT !.root = new]
           r == insert(t, t.root, k, v)
           up == Lowest(r.t.free, 1)[1]
       IN IF r.err \/ r.key = NoKey THEN r
          ELSE IF r.t.free = {} THEN Failed(r.t)
          ELSE Inserted([SetNode(AllocPage(r.t), up, Internal(t.root, <<[key |-> r.key, child |-> r.child]>>))
                           EXCEPT !.root = up])

-----------------------------------------------------------------------------
\* Delete.  The result of a deletion: the tree and whether the node underflows.

Deleted(t, low) == [t |-> t, low |-> low]
Underflows(cells) == cells # <<>> /\ Used(cells) < Underflow

deleteLeaf(t, p, k) ==
  LET cells == t.pages[p].cells
      i == Search(cells, k)
      kept == RemoveAt(cells, i)
  IN Deleted(SetNode(freeOverflow(t, cells[i].over), p, Leaf(t.pages[p].next, kept)),
             p # t.root /\ Underflows(kept))

FreeNode(t, p) == [t EXCEPT !.free = @ \cup {p}]
DropSeparator(t, p, sep) == SetNode(t, p, Internal(t.pages[p].first, RemoveAt(t.pages[p].cells, sep)))

\* updateParentSeparator
SetSeparator(t, p, sep, k) == [t EXCEPT !.pages[p].cells[sep].key = k]

\* mergeLeaves, redistributeLeafRight and -Left: two neighbours become one, or
\* share their cells half and half.
mergeLeaves(t, parent, left, right, sep) ==
  LET merged == Leaf(t.pages[right].next, t.pages[left].cells \o t.pages[right].cells)
      t1 == DropSeparator(FreeNode(SetNode(t, left, merged), right), parent, sep)
  IN Deleted(t1, Underflows(t1.pages[parent].cells))

redistributeLeafRight(t, parent, left, right, sep) ==
  LET cells == t.pages[left].cells \o t.pages[right].cells
      mid == Len(cells) \div 2
  IN SetSeparator(SetNode(SetNode(t, left, Leaf(t.pages[left].next, SubSeq(cells, 1, mid))),
                          right, Leaf(t.pages[right].next, SubSeq(cells, mid + 1, Len(cells)))),
                  parent, sep, cells[mid + 1].key)

\* The cells of two internal neighbours with the separator between them.
AllCells(t, parent, left, right, sep) ==
  t.pages[left].cells
    \o <<[key |-> t.pages[parent].cells[sep].key, child |-> t.pages[right].first]>>
    \o t.pages[right].cells

mergeInternal(t, parent, left, right, sep) ==
  LET merged == Internal(t.pages[left].first, AllCells(t, parent, left, right, sep))
      t1 == DropSeparator(FreeNode(SetNode(t, left, merged), right), parent, sep)
  IN Deleted(t1, Underflows(t1.pages[parent].cells))

redistributeInternal(t, parent, left, right, sep) ==
  LET cells == AllCells(t, parent, left, right, sep)
      mid == Len(cells) \div 2 + 1
  IN SetSeparator(SetNode(SetNode(t, left, Internal(t.pages[left].first, SubSeq(cells, 1, mid - 1))),
                          right, Internal(cells[mid].child, SubSeq(cells, mid + 1, Len(cells)))),
                  parent, sep, cells[mid].key)

tryLeafMergeOrRedist(t, parent, left, right, sep) ==
  IF Used(t.pages[left].cells) + Used(t.pages[right].cells) <= MaxCellArea
  THEN mergeLeaves(t, parent, left, right, sep)
  ELSE Deleted(redistributeLeafRight(t, parent, left, right, sep), FALSE)

tryInternalMergeOrRedist(t, parent, left, right, sep) ==
  IF Used(AllCells(t, parent, left, right, sep)) <= MaxCellArea
  THEN mergeInternal(t, parent, left, right, sep)
  ELSE Deleted(redistributeInternal(t, parent, left, right, sep), FALSE)

\* rebalanceLeaf, rebalanceInternal: the right neighbour first, then the left
\* one; an only child is left as it is.
Rebalance(t, parent, slot) ==
  LET node == t.pages[parent]
      left == IF slot < Len(node.cells) THEN slot ELSE slot - 1
      MergeOrRedist(l, r) == IF t.pages[l].kind = "leaf"
                             THEN tryLeafMergeOrRedist(t, parent, l, r, left + 1)
                             ELSE tryInternalMergeOrRedist(t, parent, l, r, left + 1)
  IN IF node.cells = <<>> THEN Deleted(t, FALSE)
     ELSE MergeOrRedist(ChildAt(node, left), ChildAt(node, left + 1))

RECURSIVE delete(_, _, _)
delete(t, p, k) ==
  IF t.pages[p].kind = "leaf" THEN deleteLeaf(t, p, k)
  ELSE LET slot == Slot(t.pages[p], k)
           d == delete(t, ChildAt(t.pages[p], slot), k)
       IN IF d.low THEN Rebalance(d.t, p, slot) ELSE d

collapseRoot(t) ==
  IF t.pages[t.root].kind = "internal" /\ t.pages[t.root].cells = <<>>
  THEN [FreeNode(t, t.root) EXCEPT !.root = t.pages[t.root].first] ELSE t

\* Delete: ErrKeyNotFound changes nothing.
TreeDelete(t, k) == IF Get(t, k) = None THEN t ELSE collapseRoot(delete(t, t.root, k).t)

-----------------------------------------------------------------------------
Empty == [root |-> 0, pages |-> [p \in 1..NumPages |-> Raw], free |-> 1..NumPages]
Inline == CHOOSE v \in Values : v.pages = 0

TreeInit == \E shape \in Shapes :
              /\ tree = FoldLeft(LAMBDA t, k : TreePut(t, k, Inline).t, Empty, shape)
              /\ map = [k \in Keys |-> IF k \in ToSet(shape) THEN Inline ELSE None]
              /\ failed = FALSE /\ ops = 0

PutKey(k, v) == LET r == TreePut(tree, k, v)
                IN /\ ops < MaxOps /\ ops' = ops + 1
                   /\ tree' = r.t
                   /\ failed' = (failed \/ r.err)
                   /\ map' = IF r.err THEN map ELSE [map EXCEPT ![k] = v]

DeleteKey(k) == /\ ops < MaxOps /\ ops' = ops + 1
                /\ tree' = TreeDelete(tree, k)
                /\ map' = [map EXCEPT ![k] = None]
                /\ UNCHANGED failed

Put == \E k \in OpKeys, v \in Values : PutKey(k, v)
Delete == \E k \in OpKeys : DeleteKey(k)

\* The bound on the operations is reached.
Done == ops = MaxOps /\ UNCHANGED treeVars

TreeNext == Put \/ Delete \/ Done
TreeSpec == TreeInit /\ [][TreeNext]_treeVars

-----------------------------------------------------------------------------
\* The nodes of the tree, by depth.
RECURSIVE Reach(_, _)
Reach(t, p) ==
  LET node == t.pages[p]
  IN IF node.kind # "internal" THEN {p}
     ELSE {p} \cup UNION {Reach(t, ChildAt(node, s)) : s \in 0..Len(node.cells)}

Nodes == IF tree.root = 0 THEN {} ELSE Reach(tree, tree.root)
ChainsOf(p) == IF tree.pages[p].kind # "leaf" THEN <<>>
               ELSE FlattenSeq([i \in DOMAIN tree.pages[p].cells |-> Chain(tree, tree.pages[p].cells[i].over)])
InUse == Nodes \cup UNION {ToSet(ChainsOf(p)) : p \in Nodes}

RECURSIVE Depths(_, _)
Depths(t, p) ==
  LET node == t.pages[p]
  IN IF node.kind # "internal" THEN {1}
     ELSE {d + 1 : d \in UNION {Depths(t, ChildAt(node, s)) : s \in 0..Len(node.cells)}}

\* The pairs of the map from key k on, in key order.
Expected(k) == LET ks == SelectSeq([i \in Keys |-> i], LAMBDA j : j >= k /\ map[j] # None)
               IN [i \in DOMAIN ks |-> <<ks[i], map[ks[i]]>>]

\* Get returns what the last Put of the key stored and nothing for a deleted
\* key, through every split, merge, redistribution and reuse of overflow pages,
\* as long as no allocation has failed.
TreeIsMap == ~failed => \A k \in Keys : Get(tree, k) = map[k]

\* A cursor, from First or from Seek to any key, returns the pairs of the map in
\* key order, each once: the chain of leaves agrees with the tree above it.
ScanIsMap == ~failed => /\ First(tree) = Expected(0)
                        /\ \A k \in OpKeys : Seek(tree, k) = Expected(k)

\* No page is both free and in use, and none is used twice, not even after a
\* failed allocation; before one, no page is lost to both.
PagesHaveOneUse ==
  /\ InUse \cap tree.free = {}
  /\ \A p, q \in Nodes : p # q => ToSet(ChainsOf(p)) \cap ToSet(ChainsOf(q)) = {}
  /\ \A p \in Nodes : IsInjective(ChainsOf(p)) /\ ToSet(ChainsOf(p)) \cap Nodes = {}
  /\ ~failed => InUse \cup tree.free = 1..NumPages

\* The cells of every node fit in its page.
NodesFit == \A p \in Nodes : Used(tree.pages[p].cells) <= MaxCellArea

\* The cells of every node fit in its page, and, with keys short enough, no node
\* but the root is below the threshold; all leaves are equally deep.
NodesAreBalanced ==
  /\ NodesFit
  /\ ~failed /\ LongKeys = {} => \A p \in Nodes \ {tree.root} : Used(tree.pages[p].cells) >= Underflow
  /\ tree.root # 0 => Cardinality(Depths(tree, tree.root)) = 1

\* A Put that returns an error leaves every other key what it was.
FailedPutKeepsKeys ==
  [][~failed /\ failed' => Cardinality({k \in Keys : Get(tree', k) # Get(tree, k)}) <= 1]_treeVars
=============================================================================
