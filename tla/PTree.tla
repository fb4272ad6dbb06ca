------------------------------- MODULE PTree -------------------------------
(***************************************************************************)
(* The search trees of a block (src/src/ptree.h): nodes of one size, of    *)
(* which parents hold up to six children and the keys between them, leaves *)
(* up to four keys (RTree) or seven (FTree).  An RTree has a block of its  *)
(* own; a block of FTrees has one tree for each size of free extents.      *)
(*                                                                         *)
(* A node is the sequence of its items, [key, value]; the value is the     *)
(* child's offset in a parent, and nothing in a leaf: values travel with   *)
(* their keys.  A parent does not keep the key of its first child, which   *)
(* reads as 0.  An iterator is the path from the root to a place in a      *)
(* leaf.  Nodes come from the heap that TreeNodesAllocator models: the     *)
(* first run of entries that are free.                                     *)
(***************************************************************************)
EXTENDS FTreesIterator, FiniteSets, SequencesExt

CONSTANTS
  Keys,    \* what the trees can hold
  Builds   \* the blocks to begin with

\* [kind: "rtree" or "ftree", entries: the heap's size, keys: of each tree, in
\*  the order of their insertion, compact: built by insert_compact, used: the
\*  keys of the calls, calls: how many of them may change the block, walks:
\*  whether FTrees are walked]
VARIABLES
  nodes,     \* the items of each node in use
  headers,   \* PTreeHeader of each tree
  build,     \* which of Builds it began as
  other,     \* the keys of the other half, if the last call has split the block
  calls,     \* calls left
  request,   \* the last call, for SortedKeys to say what it should do
  outcome    \* what it returned

block == <<nodes, headers>>
vars == <<nodes, headers, build, other, calls, request, outcome, items, walk>>

ParentCapacity == 6
LeafCapacity == [rtree |-> 4, ftree |-> 7]

MaxDepth == 4

Item(key, value) == [key |-> key, value |-> value]
NoHeader == [root |-> 0, depth |-> 0, count |-> 0]

State == [nodes |-> nodes, headers |-> headers]

Keyed(keys) == [i \in DOMAIN keys |-> Item(keys[i], 0)]

\* node_set_full_key has no place for the first key of a parent.
Parent(node) == IF node = <<>> THEN node ELSE [node EXCEPT ![1].key = 0]

IsFullParent(s, place) == Len(s.nodes[place.node]) = ParentCapacity

Free(s, entries) == (0..(entries - 1)) \ DOMAIN s.nodes

\* Alloc takes the first run of that many free entries.
CanAlloc(s, entries, n) == \E i \in Free(s, entries) : i..(i + n - 1) \subseteq Free(s, entries)
FirstRun(s, entries, n) ==
  CHOOSE i \in Free(s, entries) :
    /\ i..(i + n - 1) \subseteq Free(s, entries)
    /\ \A j \in Free(s, entries) : j < i => ~(j..(j + n - 1) \subseteq Free(s, entries))
-----------------------------------------------------------------------------
(* Iterators.                                                              *)

\* Where a node is entered: at its begin, at its end, or at a key.
ToBegin == [to |-> "begin", key |-> 0]
ToEnd   == [to |-> "end", key |-> 0]
To(key) == [to |-> "key", key |-> key]

\* upper_bound, and one back unless that is the begin.
Place(node, is_leaf, target) ==
  CASE target.to = "begin" -> 1
    [] target.to = "end"   -> IF is_leaf THEN Len(node) + 1 ELSE Len(node)
    [] OTHER -> LET upto == Cardinality({i \in DOMAIN node : node[i].key <= target.key})
                IN  IF upto = 0 THEN 1 ELSE upto

\* A path that leads some way down, on to the leaf.
RECURSIVE Descent(_, _, _, _)
Descent(s, path, depth, target) ==
  IF Len(path) = depth + 1 THEN path
  ELSE LET child == s.nodes[Last(path).node][Last(path).at].value
       IN  Descent(s, Append(path, [node |-> child,
                                    at |-> Place(s.nodes[child], Len(path) = depth, target)]),
                   depth, target)

PathTo(s, t, target) ==
  LET root == s.headers[t].root
      depth == s.headers[t].depth
  IN  Descent(s, <<[node |-> root, at |-> Place(s.nodes[root], depth = 0, target)]>>, depth, target)

IsTreeEnd(s, it) == Last(it).at = Len(s.nodes[Last(it).node]) + 1
KeyAt(s, it) == s.nodes[Last(it).node][Last(it).at].key

Moved(it, level, by) == [it EXCEPT ![level].at = @ + by]

\* Mutant: the parents are left behind their last child.
FollowingStuck(s, it) ==
  LET leaf == Len(it)
      more == {i \in 1..(leaf - 1) : it[i].at < Len(s.nodes[it[i].node])}
  IN  IF it[leaf].at < Len(s.nodes[it[leaf].node]) THEN Moved(it, leaf, 1)
      ELSE IF more = {} THEN [i \in DOMAIN it |-> [it[i] EXCEPT !.at = @ + 1]]
      ELSE LET level == CHOOSE i \in more : \A j \in more : j <= i
           IN  Descent(s, SubSeq(Moved(it, level, 1), 1, level), leaf - 1, ToBegin)

\* operator++: at the end of a leaf, to the first leaf behind it; at that of the
\* tree, it stays in the last.
Following(s, it) ==
  LET leaf == Len(it)
      more == {i \in 1..(leaf - 1) : it[i].at < Len(s.nodes[it[i].node])}
  IN  IF it[leaf].at < Len(s.nodes[it[leaf].node]) \/ more = {} THEN Moved(it, leaf, 1)
      ELSE LET level == CHOOSE i \in more : \A j \in more : j <= i
           IN  Descent(s, SubSeq(Moved(it, level, 1), 1, level), leaf - 1, ToBegin)

\* operator--
Previous(s, it) ==
  LET leaf == Len(it)
      more == {i \in 1..(leaf - 1) : it[i].at > 1}
  IN  IF it[leaf].at > 1 THEN Moved(it, leaf, -1)
      ELSE IF more = {} THEN it
      ELSE LET level == CHOOSE i \in more : \A j \in more : j <= i
           IN  Moved(Descent(s, SubSeq(Moved(it, level, -1), 1, level), leaf - 1, ToEnd), leaf, -1)

\* The keys from an iterator to the end.
RECURSIVE KeysFrom(_, _)
KeysFrom(s, it) ==
  IF IsTreeEnd(s, it) THEN <<>> ELSE <<KeyAt(s, it)>> \o KeysFrom(s, Following(s, it))

KeysOf(s, t) == IF s.headers[t].count = 0 THEN <<>> ELSE KeysFrom(s, PathTo(s, t, ToBegin))

RECURSIVE Advanced(_, _, _)
Advanced(s, it, n) == IF n = 0 THEN it ELSE Advanced(s, Following(s, it), n - 1)

Middle(s, t) == Advanced(s, PathTo(s, t, ToBegin), s.headers[t].count \div 2)
-----------------------------------------------------------------------------
(* Splitting a full node: where, by the place the new item would have, and *)
(* the key of the right half: what stands there, or the new item's own.    *)

SplitPoint(kind, node, pos, key) ==
  LET cuts == [parent |-> <<3, 3, 3, 4, 4, 4>>, rtree |-> <<1, 1, 2, 3, 3>>, ftree |-> <<3, 3, 3, 3, 4, 4, 4, 4>>]
      own  == [parent |-> 3, rtree |-> 3, ftree |-> 4]
  IN  [at |-> cuts[kind][pos + 1],
       key |-> IF pos = own[kind] THEN key ELSE node[cuts[kind][pos + 1] + 1].key]

\* A full parent, its pos-th child split: both halves, and the right one as a
\* child of the parent above.  If the new child is the first of the right half,
\* it is put there before the others, for that is where keys are not kept.
GrownParent(node, pos, child, fresh) ==
  LET split == SplitPoint("parent", node, pos, child.key)
      left  == SubSeq(node, 1, split.at)
      right == SubSeq(node, split.at + 1, Len(node))
  IN  [left  |-> IF child.key < split.key THEN InsertAt(left, pos + 2, child) ELSE left,
       right |-> Parent(IF child.key < split.key THEN right
                        ELSE IF child.key = split.key THEN <<child>> \o right
                        ELSE InsertAt(right, pos - split.at + 2, child)),
       child |-> Item(split.key, fresh)]

\* The parents of a split node take the new one, splitting as far up as they
\* are full; fresh is the next of the allocated nodes.
RECURSIVE Grown(_, _, _, _, _)
Grown(s, t, parents, child, fresh) ==
  IF parents = <<>>
  THEN [s EXCEPT !.nodes = @ @@ (fresh :> <<Item(0, s.headers[t].root), child>>),
                 !.headers[t].root = fresh,
                 !.headers[t].depth = @ + 1]
  ELSE LET last == Last(parents)
           node == s.nodes[last.node]
       IN  IF ~IsFullParent(s, last)
           THEN [s EXCEPT !.nodes[last.node] = InsertAt(node, last.at + 1, child)]
           ELSE LET halves == GrownParent(node, last.at - 1, child, fresh)
                IN  Grown([s EXCEPT !.nodes = (fresh :> halves.right) @@ (last.node :> halves.left) @@ @],
                          t, Front(parents), halves.child, fresh + 1)

\* How many nodes grow_tree takes: one for each full parent above the leaf, and
\* for a new root.
NodesToAlloc(s, parents) ==
  LET notfull == {i \in DOMAIN parents : ~IsFullParent(s, parents[i])}
  IN  IF notfull = {} THEN Len(parents) + 2
      ELSE 1 + Len(parents) - (CHOOSE i \in notfull : \A j \in notfull : j <= i)

CanGrow(s, entries, parents) ==
  /\ (\A i \in DOMAIN parents : IsFullParent(s, parents[i])) => Len(parents) # MaxDepth
  /\ CanAlloc(s, entries, NodesToAlloc(s, parents))
-----------------------------------------------------------------------------
(* insert, erase and split.                                                *)

IsIn(s, t, key) ==
  s.headers[t].count # 0 /\ LET it == PathTo(s, t, To(key)) IN KeyAt(s, it) = key

\* Where the new key goes in the leaf that find has reached.
InsertPlace(s, it, key) == IF key < KeyAt(s, it) THEN Last(it).at ELSE Last(it).at + 1

CanInsert(s, kind, entries, t, key) ==
  IF s.headers[t].count = 0 THEN CanAlloc(s, entries, 1)
  ELSE LET it == PathTo(s, t, To(key))
       IN  Len(s.nodes[Last(it).node]) < LeafCapacity[kind] \/ CanGrow(s, entries, Front(it))

FirstLeaf(s, entries, t, key) ==
  LET node == FirstRun(s, entries, 1)
  IN  [nodes |-> s.nodes @@ (node :> <<Item(key, 0)>>),
       headers |-> [s.headers EXCEPT ![t] = [root |-> node, depth |-> 0, count |-> 1]]]

SplitLeaf(s, kind, entries, t, it, key) ==
  LET leaf  == Last(it).node
      node  == s.nodes[leaf]
      pos   == InsertPlace(s, it, key)
      split == SplitPoint(kind, node, pos - 1, key)
      left  == SubSeq(node, 1, split.at)
      right == SubSeq(node, split.at + 1, Len(node))
      fresh == FirstRun(s, entries, NodesToAlloc(s, Front(it)))
      grown == Grown(s, t, Front(it), Item(split.key, fresh), fresh + 1)
  IN  [grown EXCEPT
         !.nodes = (fresh :> IF key >= split.key THEN InsertAt(right, pos - split.at, Item(key, 0)) ELSE right)
                   @@ (leaf :> IF key >= split.key THEN left ELSE InsertAt(left, pos, Item(key, 0)))
                   @@ @,
         !.headers[t].count = @ + 1]

Inserted(s, kind, entries, t, key) ==
  LET it == PathTo(s, t, To(key))
  IN  IF s.headers[t].count = 0 THEN FirstLeaf(s, entries, t, key)
      ELSE IF Len(s.nodes[Last(it).node]) = LeafCapacity[kind] THEN SplitLeaf(s, kind, entries, t, it, key)
      ELSE [s EXCEPT !.nodes[Last(it).node] = InsertAt(@, InsertPlace(s, it, key), Item(key, 0)),
                     !.headers[t].count = @ + 1]

Without(s, node) == [n \in DOMAIN s.nodes \ {node} |-> s.nodes[n]]

\* Mutant: a parent that becomes empty is not given back.
RECURSIVE UnlinkedKept(_, _)
UnlinkedKept(s, parents) ==
  IF parents = <<>> THEN s
  ELSE LET last == Last(parents)
           rest == Parent(RemoveAt(s.nodes[last.node], last.at))
       IN  IF rest # <<>> THEN [s EXCEPT !.nodes[last.node] = rest]
           ELSE UnlinkedKept(s, Front(parents))

\* A parent's item removed; nodes that become empty are given back.
RECURSIVE Unlinked(_, _)
Unlinked(s, parents) ==
  IF parents = <<>> THEN s
  ELSE LET last == Last(parents)
           rest == Parent(RemoveAt(s.nodes[last.node], last.at))
       IN  IF rest # <<>> THEN [s EXCEPT !.nodes[last.node] = rest]
           ELSE Unlinked([s EXCEPT !.nodes = Without(s, last.node)], Front(parents))

Erased(s, t, it) ==
  LET last == Last(it)
      rest == RemoveAt(s.nodes[last.node], last.at)
      left == IF rest # <<>> THEN [s EXCEPT !.nodes[last.node] = rest]
              ELSE Unlinked([s EXCEPT !.nodes = Without(s, last.node)], Front(it))
      emptied == \A i \in DOMAIN it : Len(s.nodes[it[i].node]) = 1
  IN  [left EXCEPT !.headers[t].count = @ - 1,
                   !.headers[t].depth = IF emptied THEN 0 ELSE @]

\* Mutant: the last one is left.
RECURSIVE ErasedBackShort(_, _, _, _)
ErasedBackShort(s, t, it, start) ==
  IF s.headers[t].count = 0 \/ Last(Previous(s, it)) = Last(start) THEN s
  ELSE LET prev == Previous(s, it) IN ErasedBackShort(Erased(s, t, prev), t, prev, start)

\* From one iterator back to another: the iterator stays good, since -- leaves a
\* node that is gone for the one before it.
RECURSIVE ErasedBack(_, _, _, _)
ErasedBack(s, t, it, start) ==
  IF s.headers[t].count = 0 \/ Last(it) = Last(start) THEN s
  ELSE LET prev == Previous(s, it) IN ErasedBack(Erased(s, t, prev), t, prev, start)

\* Keys inserted one after another, until one is refused.
InsertedAll(s, kind, entries, t, keys) ==
  LET upto[i \in 0..Len(keys)] ==
        IF i = 0 THEN [s |-> s, goes |-> TRUE]
        ELSE LET before == upto[i - 1]
             IN  IF before.goes /\ ~IsIn(before.s, t, keys[i]) /\ CanInsert(before.s, kind, entries, t, keys[i])
                 THEN [s |-> Inserted(before.s, kind, entries, t, keys[i]), goes |-> TRUE]
                 ELSE [before EXCEPT !.goes = FALSE]
  IN  upto[Len(keys)].s
-----------------------------------------------------------------------------
(* insert_compact: five items to a node, level by level.                   *)

Chunks(seq) ==
  [i \in 1..((Len(seq) + 4) \div 5) |-> SubSeq(seq, 5 * (i - 1) + 1, IF 5 * i < Len(seq) THEN 5 * i ELSE Len(seq))]

\* One level: each chunk in a node of its own, each node an item of the next.
Level(s, entries, chunks, is_leaf) ==
  FoldLeft(LAMBDA acc, chunk :
             LET node == FirstRun(acc.s, entries, 1)
             IN  [s |-> [acc.s EXCEPT !.nodes = @ @@ (node :> IF is_leaf THEN chunk ELSE Parent(chunk))],
                  above |-> Append(acc.above, Item(chunk[1].key, node))],
           [s |-> s, above |-> <<>>], chunks)

RECURSIVE Levels(_, _, _, _, _)
Levels(s, entries, t, above, depth) ==
  IF Len(above) = 1
  THEN [s EXCEPT !.headers[t].root = above[1].value, !.headers[t].depth = depth]
  ELSE LET level == Level(s, entries, Chunks(above), FALSE)
       IN  Levels(level.s, entries, t, level.above, depth + 1)

InsertedCompact(s, entries, t, keys) ==
  IF keys = <<>> THEN s
  ELSE LET level == Level(s, entries, Chunks(Keyed(keys)), TRUE)
       IN  Levels([level.s EXCEPT !.headers[t].count = Len(keys)], entries, t, level.above, 0)

\* Whether Level and Levels find the nodes they take: nobody asks Alloc.
RECURSIVE NodesOfLevels(_)
NodesOfLevels(n) == IF n <= 1 THEN n ELSE n + NodesOfLevels((n + 4) \div 5)
CompactNodes(n) == NodesOfLevels((n + 4) \div 5)
-----------------------------------------------------------------------------
(* The blocks to begin with.                                               *)

Empty == [nodes |-> <<>>, headers |-> [t \in Buckets |-> NoHeader]]

\* One tree after the other, by add.
Filled(keys, Add(_, _, _)) ==
  LET order == SetToSeq(Buckets)
  IN  FoldLeft(LAMBDA acc, t : Add(acc, t, keys[t]), Empty, order)

Built(b) ==
  Filled(b.keys, LAMBDA s, t, keys : IF b.compact THEN InsertedCompact(s, b.entries, t, keys)
                                     ELSE InsertedAll(s, b.kind, b.entries, t, keys))

Endless == -1

Trees == IF build.kind = "rtree" THEN {First} ELSE Buckets

AllKeys(s) == [t \in Buckets |-> KeysOf(s, t)]
Whole == [t \in Buckets |-> <<>>]

Init ==
  /\ build \in Builds
  /\ LET s == Built(build)
     IN  /\ nodes = s.nodes /\ headers = s.headers
         /\ items = AllKeys(s)
  /\ other = Whole
  /\ calls = build.calls
  /\ request = [call |-> "build"] /\ outcome = "ok"
  /\ at = [t \in Buckets |-> 1]
  /\ index \in Buckets /\ IsLeast(items, at, {}, index)
  /\ is_forward = TRUE /\ reverse_end = {} /\ sure = TRUE

\* The block becomes s; iterators into it are not used any longer.
Goes(s, rest) ==
  /\ calls # 0 /\ calls' = (IF calls = Endless THEN Endless ELSE calls - 1)
  /\ nodes' = s.nodes /\ headers' = s.headers
  /\ items' = AllKeys(s) /\ other' = rest
  /\ BeginIn(items')
  /\ outcome' = "ok"

Becomes(s) == Goes(s, Whole)

\* The caller goes on with one half.
Splits(left, right) == Goes(left, AllKeys(right)) \/ Goes(right, AllKeys(left))

Refused(why) == outcome' = why /\ UNCHANGED <<block, other, calls, items, walk>>
-----------------------------------------------------------------------------
(* The calls.                                                              *)

Asked(call, t, key) == request' = [call |-> call, tree |-> t, key |-> key]

\* PTree::insert: an extent is in one tree only.
Insert(t, key) ==
  /\ Asked("insert", t, key)
  /\ \A u \in Trees \ {t} : ~IsIn(State, u, key)
  /\ IF IsIn(State, t, key) THEN Refused("exists")
     ELSE IF ~CanInsert(State, build.kind, build.entries, t, key) THEN Refused("full")
     ELSE Becomes(Inserted(State, build.kind, build.entries, t, key))

\* PTree::erase of what find has found.
Erase(t, key) ==
  /\ Asked("erase", t, key)
  /\ IsIn(State, t, key)
  /\ Becomes(Erased(State, t, PathTo(State, t, To(key))))

\* EPTree::insert, when a block is full: the upper half goes to a new block.  A
\* root is written to two new ones.  The caller goes on with either of them.
SplitRTree ==
  /\ request' = [call |-> "split"]
  /\ build.kind = "rtree" /\ outcome = "full" /\ headers[First].count >= 2
  /\ LET pos   == Middle(State, First)
         upper == KeysFrom(State, pos)
         lower == SubSeq(items[First], 1, Len(items[First]) - Len(upper))
         Fresh(keys) == InsertedAll(Empty, "rtree", build.entries, First, keys)
     IN  \/ Splits(ErasedBack(State, First, PathTo(State, First, ToEnd), pos), Fresh(upper))
         \/ Splits(Fresh(lower), Fresh(upper))

\* FTrees::split: at the middle of the first of the longest trees, all of them;
\* both halves are written anew.  That they have room is taken for granted.
SplitFTrees ==
  /\ request' = [call |-> "split"]
  /\ build.kind = "ftree" /\ outcome = "full"
  /\ \E longest \in Buckets :
       /\ \A t \in Buckets : headers[t].count <= headers[longest].count
       /\ \A t \in Buckets : headers[t].count = headers[longest].count => longest <= t
       /\ LET point == KeyAt(State, Middle(State, longest))
              From(t) == IF headers[t].count = 0 THEN <<>>
                         ELSE LET near == PathTo(State, t, To(point))
                              IN  KeysFrom(State, IF KeyAt(State, near) < point THEN Following(State, near) ELSE near)
              upper == [t \in Buckets |-> From(t)]
              lower == [t \in Buckets |-> SubSeq(items[t], 1, Len(items[t]) - Len(upper[t]))]
              Nodes(half) == MapThenSumSet(LAMBDA t : CompactNodes(Len(half[t])), Buckets)
              Fresh(half) == Filled(half, LAMBDA s, t, keys : InsertedCompact(s, build.entries, t, keys))
          IN  /\ Nodes(lower) <= build.entries /\ Nodes(upper) <= build.entries
              /\ Splits(Fresh(lower), Fresh(upper))

\* How far PTree::find(key, false) gets in the order of the keys; in an empty
\* tree, to its end.
FoundAt(t, key) ==
  IF headers[t].count = 0 THEN 1
  ELSE CHOOSE i \in DOMAIN items[t] : items[t][i] = KeyAt(State, PathTo(State, t, To(key)))

\* FTrees::begin, end, find, and the iterator's ++ and --.
Walk ==
  /\ build.walks
  /\ \/ Begin \/ End \/ Forward \/ Backward
     \/ \E key \in build.used : FindFrom([t \in Buckets |-> FoundAt(t, key)], key)
  /\ UNCHANGED <<block, build, other, calls, request, outcome>>

Next ==
  \/ \E t \in Trees, key \in build.used : Insert(t, key) /\ UNCHANGED build
  \/ \E t \in Trees, key \in build.used : Erase(t, key) /\ UNCHANGED build
  \/ SplitRTree /\ UNCHANGED build
  \/ SplitFTrees /\ UNCHANGED build
  \/ Walk

Spec == Init /\ [][Next]_vars
-----------------------------------------------------------------------------
\* The nodes under a place of the tree, itself the first, as often as they are reached.
RECURSIVE Under(_, _)
Under(node, height) ==
  IF height = 0 THEN <<node>>
  ELSE FoldLeft(LAMBDA acc, item : acc \o Under(item.value, height - 1), <<node>>, nodes[node])

NodesOf(t) == IF headers[t].count = 0 THEN <<>> ELSE Under(headers[t].root, headers[t].depth)

\* Each node that is taken from the heap is in one tree, at one place: what is
\* emptied is given back, what is split off is not lost.
NodesInTrees ==
  LET all == FoldLeft(LAMBDA acc, t : acc \o NodesOf(t), <<>>, SetToSeq(Buckets))
  IN  Len(all) = Cardinality(DOMAIN nodes) /\ ToSet(all) = DOMAIN nodes

RECURSIVE Walked(_, _, _)
Walked(it, n, back) ==
  IF n = 0 THEN it
  ELSE Walked(IF back THEN Previous(State, it) ELSE Following(State, it), n - 1, back)

\* What callers rely on of iterators: find comes to the key itself if it is
\* there, else to the last below it or the next one (FreeBlocksTreeBucket::find
\* goes back from that); count steps lead from begin to end and back, in the
\* parents too, which insert and erase use.
FindsNearest ==
  \A t \in Buckets : headers[t].count # 0 =>
    /\ headers[t].count = Len(items[t])
    /\ Walked(PathTo(State, t, ToBegin), Len(items[t]), FALSE) = PathTo(State, t, ToEnd)
    /\ Walked(PathTo(State, t, ToEnd), Len(items[t]), TRUE) = PathTo(State, t, ToBegin)
    /\ \A key \in build.used : Finds(t, key, FoundAt(t, key))

NotLess(key, point) == key >= point
Kept == INSTANCE SortedKeys WITH Trees <- Buckets, kept <- [t \in Buckets |-> ToSet(items[t])],
                                 other <- [t \in Buckets |-> ToSet(other[t])]

\* Each call does to the set of keys it names what it was asked for, and nothing
\* to the others, or says truly that the key is there: SortedKeys.
KeepsKeys == Kept!Spec

\* All that decides how it goes on.
UpToRequest == <<nodes, headers, build, other, calls, outcome, items, walk>>
=============================================================================
