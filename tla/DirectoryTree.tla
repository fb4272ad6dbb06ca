---------------------------- MODULE DirectoryTree ----------------------------
(***************************************************************************)
(* The tree of names in one block of a directory                           *)
(* (src/src/directory_tree.h, directory_leaf_tree.cpp,                     *)
(* directory_parent_tree.cpp): a radix tree whose nodes lie in the block's *)
(* own heap, beside the metadata of a leaf block's entries.  A node holds  *)
(* the characters its names share, the value of the name that ends there   *)
(* (its leaf) and a child for each character that may follow.              *)
(*                                                                         *)
(* The calls are those of DirectoryMap on one block; a block that is       *)
(* divided goes on as either half or, a root, as the parent of both.       *)
(***************************************************************************)
EXTENDS BuddyHeap, Sequences, SequencesExt

CONSTANTS
  Scenes,      \* what to begin with: a leaf or a parent; the names of its records
               \* (sequences of characters), those that may be erased again and
               \* the sizes of metadata
  Children,    \* numbers of blocks below a parent
  LeastSplit,  \* a block is divided when it has that many records
  Placing      \* which of the fitting free blocks is at the head of its list

ASSUME ScenesAssumption ==
  /\ \A scene \in Scenes :
       /\ scene.kind \in {"leaf", "parent"} /\ scene.sizes \subseteq Sizes
       /\ scene.erased \subseteq scene.names
       /\ \A name \in scene.names : Len(name) > 0 /\ \A i \in DOMAIN name : name[i] \in 1..127
  /\ Placing \subseteq {"lowest", "highest"}
  /\ LeastSplit \in Nat \ {0, 1}

VARIABLES
  scene,          \* one of Scenes
  kind,           \* DirectoryLeafTree or DirectoryParentTree
  nodes,          \* DirectoryTreeNodeHeader and what follows it, by offset
  root,           \* DirectoryTreeHeader: the offset of the root
  records_count,  \* and the number of records
  metadata,       \* the name that each EntryMetadata in the block was written for
  request,        \* the last call, for SortedRecords to say what it should do
  outcome         \* what it came to

vars == <<held, scene, kind, nodes, root, records_count, metadata, request, outcome>>

None == -1

\* A tree with its heap.  `sound` is FALSE once an assertion has failed or a
\* result that is empty was used.
Tree == [kind |-> kind, heap |-> held, nodes |-> nodes, root |-> root, count |-> records_count,
         metadata |-> metadata, place |-> "lowest", sound |-> TRUE]

\* Init: a tree without records.
Empty(of, place) == [kind |-> of, heap |-> Headers, nodes |-> <<>>, root |-> None, count |-> 0,
                     metadata |-> <<>>, place |-> place, sound |-> TRUE]

Node(prefix, kids, leaf) == [prefix |-> prefix, kids |-> kids, leaf |-> leaf]

HasLeaf(node) == node.leaf # None

From(key, i) == SubSeq(key, i, Len(key))

Put(function, x, y) == [z \in DOMAIN function \cup {x} |-> IF z = x THEN y ELSE function[z]]
Without(function, x) == [z \in DOMAIN function \ {x} |-> function[z]]
-----------------------------------------------------------------------------
\* calc_node_size, as a size group: two bytes of header, the prefix, three bytes
\* for each key, the leaf's among them, and two more for a leaf that is a block
\* number; in units of eight bytes.
NodeLog2(t, node) ==
  LET keys  == Cardinality(DOMAIN node.kids) + (IF HasLeaf(node) THEN 1 ELSE 0)
      bytes == 2 + Len(node.prefix) + 3 * keys
                 + (IF HasLeaf(node) /\ t.kind = "parent" THEN 2 ELSE 0)
  IN  GetSizeGroup((bytes + 7) \div 8)

Where(t, log2) ==
  IF t.place = "lowest" THEN Min(Places(t.heap, log2)) ELSE Max(Places(t.heap, log2))

CanPlace(t, node) == HasRoom(t.heap, NodeLog2(t, node))

\* alloc_new_node where there is room: the node's offset, and the tree with it.
PlaceOf(t, node) == Where(t, NodeLog2(t, node))

Placed(t, node) ==
  LET offset == PlaceOf(t, node)
  IN  [t EXCEPT !.heap = Taken(@, offset, NodeLog2(t, node)), !.nodes = Put(@, offset, node)]

Freed(t, offset) == [t EXCEPT !.heap = GivenBack(@, offset), !.nodes = Without(@, offset)]

\* `up` is the parent's iterator: the node above and the character, or <<>>.
Linked(t, up, offset) ==
  IF up = <<>> THEN [t EXCEPT !.root = offset]
  ELSE [t EXCEPT !.nodes[up[1]].kids[up[2]] = offset]

\* set_leaf, remove_leaf, insert, erase and set_prefix of a node, where its size
\* stays.
Rewritten(t, offset, node) == [t EXCEPT !.nodes[offset] = node]

CanRecreate(t, offset, node) == NodeLog2(t, node) <= t.heap[offset] \/ CanPlace(t, node)

\* recreate_node: the node in its place, in a new one, or shrunk to what it
\* needs; `shrunk` is what is then there.
RecreatedAs(t, up, offset, node, shrunk) ==
  IF NodeLog2(t, node) = t.heap[offset]
  THEN Rewritten(t, offset, node)
  ELSE IF CanPlace(t, node)
  THEN Freed(Linked(Placed(t, node), up, PlaceOf(t, node)), offset)
  ELSE [t EXCEPT !.heap[offset] = NodeLog2(t, node), !.nodes[offset] = shrunk,
                 !.sound = @ /\ NodeLog2(t, shrunk) = NodeLog2(t, node)]

Recreated(t, up, offset, node) == RecreatedAs(t, up, offset, node, node)

\* Where the node is after that.
RecreatedAt(t, offset, node) ==
  IF NodeLog2(t, node) # t.heap[offset] /\ CanPlace(t, node) THEN PlaceOf(t, node) ELSE offset
-----------------------------------------------------------------------------
\* How many characters a key begins with that the prefix begins with, too.
Matched(key, prefix) ==
  Max({n \in 0..Len(key) : n <= Len(prefix) /\ \A i \in 1..n : key[i] = prefix[i]})

\* Down from the root as far as nodes match the key: the node reached, the
\* iterators above it, what is left of the key and how much of that matches.
RECURSIVE Descended(_, _, _, _)
Descended(t, parents, offset, key) ==
  LET node == t.nodes[offset]
      n    == Matched(key, node.prefix)
  IN  IF n = Len(node.prefix) /\ n < Len(key) /\ key[n + 1] \in DOMAIN node.kids
      THEN Descended(t, Append(parents, <<offset, key[n + 1]>>), node.kids[key[n + 1]], From(key, n + 2))
      ELSE [parents |-> parents, offset |-> offset, key |-> key, matched |-> n]

Up(parents) == IF parents = <<>> THEN <<>> ELSE Last(parents)
-----------------------------------------------------------------------------
\* An iterator: the nodes above with the character each is at, and the node of
\* the leaf it is at, None at the end.  PastKids is behind every character.
PastKids == 128

At(parents, leaf) == [parents |-> parents, leaf |-> leaf]

Keys(node) == SetToSortSeq(DOMAIN node.kids, <)
FirstKey(node) == Min(DOMAIN node.kids)
LastKey(node) == Max(DOMAIN node.kids)
KeyAfter(node, char) == Min({c \in DOMAIN node.kids : c > char} \cup {PastKids})
KeyBefore(node, char) == Max({c \in DOMAIN node.kids : c < char})
IsFirst(node, char) == \A c \in DOMAIN node.kids : c >= char

RECURSIVE FirstLeaf(_, _, _)
FirstLeaf(t, parents, offset) ==
  LET node == t.nodes[offset]
  IN  IF HasLeaf(node) THEN At(parents, offset)
      ELSE FirstLeaf(t, Append(parents, <<offset, FirstKey(node)>>), node.kids[FirstKey(node)])

RECURSIVE LastLeaf(_, _, _)
LastLeaf(t, parents, offset) ==
  LET node == t.nodes[offset]
  IN  IF DOMAIN node.kids = {} THEN At(parents, offset)
      ELSE LastLeaf(t, Append(parents, <<offset, LastKey(node)>>), node.kids[LastKey(node)])

Begin(t) == IF t.count = 0 THEN At(<<>>, None) ELSE FirstLeaf(t, <<>>, t.root)

\* Behind the last leaf, whose node is the last of the parents.
End(t) ==
  IF t.count = 0 THEN At(<<>>, None)
  ELSE LET last == LastLeaf(t, <<>>, t.root)
       IN  At(Append(last.parents, <<last.leaf, PastKids>>), None)

\* operator++: the first leaf below the leaf's own node or, if there is none,
\* below the next character of the nearest parent that has one.
Onward(t, it) ==
  LET node == t.nodes[it.leaf]
      more == {i \in DOMAIN it.parents : KeyAfter(t.nodes[it.parents[i][1]], it.parents[i][2]) # PastKids}
      last == it.parents[Max(more)]
      next == KeyAfter(t.nodes[last[1]], last[2])
  IN  IF DOMAIN node.kids # {}
      THEN FirstLeaf(t, Append(it.parents, <<it.leaf, FirstKey(node)>>), node.kids[FirstKey(node)])
      ELSE IF more = {} THEN At(Append(it.parents, <<it.leaf, PastKids>>), None)
      ELSE FirstLeaf(t, Append(SubSeq(it.parents, 1, Max(more) - 1), <<last[1], next>>),
                     t.nodes[last[1]].kids[next])

\* Mutant: the leaf of a node that is left upwards is passed over.
RECURSIVE BackPastLeaf(_, _)
BackPastLeaf(t, it) ==
  LET above  == Last(it.parents)
      before == KeyBefore(t.nodes[above[1]], above[2])
      rest   == Front(it.parents)
  IN  IF ~IsFirst(t.nodes[above[1]], above[2])
      THEN LastLeaf(t, Append(rest, <<above[1], before>>), t.nodes[above[1]].kids[before])
      ELSE IF rest = <<>> THEN At(rest, above[1])
      ELSE BackPastLeaf(t, At(rest, None))

\* operator--: up while the parents are at their first character and have no leaf
\* themselves; one that is further has its last leaf before that character.
RECURSIVE Back(_, _)
Back(t, it) ==
  LET above  == Last(it.parents)
      node   == t.nodes[above[1]]
      before == KeyBefore(node, above[2])
      rest   == Front(it.parents)
  IN  IF ~IsFirst(node, above[2]) THEN LastLeaf(t, Append(rest, <<above[1], before>>), node.kids[before])
      ELSE IF HasLeaf(node) THEN At(rest, above[1])
      ELSE Back(t, At(rest, None))

RECURSIVE KeyFrom(_, _)
KeyFrom(t, it) ==
  IF it.parents = <<>> THEN t.nodes[it.leaf].prefix
  ELSE t.nodes[Head(it.parents)[1]].prefix \o <<Head(it.parents)[2]>> \o KeyFrom(t, At(Tail(it.parents), it.leaf))

Value(t, it) == t.nodes[it.leaf].leaf

\* begin() and size() / 2 steps.
Middle(t) == FoldLeft(LAMBDA it, i : Onward(t, it), Begin(t), [i \in 1..(t.count \div 2) |-> i])

\* find.  A key that is not there: `less` and `equal` say that the next leaf,
\* and the one before it or that one itself, is looked for; otherwise the last leaf.
FindExact(t, key) ==
  LET d == Descended(t, <<>>, t.root, key)
      node == t.nodes[d.offset]
  IN  IF t.count = 0 \/ d.matched # Len(d.key) \/ d.matched # Len(node.prefix) \/ ~HasLeaf(node)
      THEN End(t)
      ELSE At(d.parents, d.offset)

\* Mutant: a key that leaves a prefix is taken to be before it.
FindNearBefore(t, key) ==
  LET d      == Descended(t, <<>>, t.root, key)
      node   == t.nodes[d.offset]
      n      == d.matched
      ended  == n = Len(d.key)
      lesser == {c \in DOMAIN node.kids : c < d.key[n + 1]}
      next   == FirstLeaf(t, d.parents, d.offset)
  IN  IF ended /\ n = Len(node.prefix) /\ HasLeaf(node) THEN At(d.parents, d.offset)
      ELSE IF ~ended /\ n = Len(node.prefix) /\ lesser # {}
      THEN LastLeaf(t, Append(d.parents, <<d.offset, Max(lesser)>>), node.kids[Max(lesser)])
      ELSE IF ~ended /\ n = Len(node.prefix) /\ HasLeaf(node) THEN At(d.parents, d.offset)
      ELSE IF next.leaf # Begin(t).leaf THEN Back(t, next) ELSE next

FindNear(t, key) ==
  LET d      == Descended(t, <<>>, t.root, key)
      node   == t.nodes[d.offset]
      n      == d.matched
      ended  == n = Len(d.key)
      lesser == {c \in DOMAIN node.kids : c < d.key[n + 1]}
      next   == FirstLeaf(t, d.parents, d.offset)
  IN  IF ended /\ n = Len(node.prefix) /\ HasLeaf(node) THEN At(d.parents, d.offset)
      ELSE IF ~ended /\ n = Len(node.prefix) /\ lesser # {}
      THEN LastLeaf(t, Append(d.parents, <<d.offset, Max(lesser)>>), node.kids[Max(lesser)])
      ELSE IF ~ended /\ n = Len(node.prefix) /\ HasLeaf(node) THEN At(d.parents, d.offset)
      ELSE IF ~ended /\ n < Len(node.prefix) /\ d.key[n + 1] >= node.prefix[n + 1]
      THEN LastLeaf(t, d.parents, d.offset)
      ELSE IF next.leaf # Begin(t).leaf THEN Back(t, next) ELSE next
-----------------------------------------------------------------------------
Refused(t) == [done |-> FALSE, tree |-> t]
Done(t) == [done |-> TRUE, tree |-> t]

\* At last the node itself, now that those below it are placed.
InsertedAbove(t, placed, d, node) ==
  IF CanRecreate(placed, d.offset, node)
  THEN Done([Recreated(placed, Up(d.parents), d.offset, node) EXCEPT !.count = @ + 1])
  ELSE Refused(t)

\* The key ends in the node or goes on below it; the node keeps its prefix or is
\* cut in two where the key leaves it.
InsertedBelow(t, d, value) ==
  LET node   == t.nodes[d.offset]
      n      == d.matched
      goesOn == n < Len(d.key)
      cuts   == n < Len(node.prefix)
      new    == Node(From(d.key, n + 2), <<>>, value)
      with   == IF goesOn THEN Placed(t, new) ELSE t
      child  == Node(From(node.prefix, n + 2), node.kids, node.leaf)
      both   == IF cuts THEN Placed(with, child) ELSE with
      kids   == IF cuts THEN [c \in {node.prefix[n + 1]} |-> PlaceOf(with, child)] ELSE node.kids
      above  == Node(SubSeq(node.prefix, 1, n),
                     IF goesOn THEN Put(kids, d.key[n + 1], PlaceOf(t, new)) ELSE kids,
                     IF ~goesOn THEN value ELSE IF cuts THEN None ELSE node.leaf)
  IN  IF (goesOn => CanPlace(t, new)) /\ (cuts => CanPlace(with, child))
      THEN InsertedAbove(t, both, d, above)
      ELSE Refused(t)

Inserted(t, key, value) ==
  LET node == Node(key, <<>>, value)
  IN  IF t.count # 0 THEN InsertedBelow(t, Descended(t, <<>>, t.root, key), value)
      ELSE IF CanPlace(t, node) THEN Done([Placed(t, node) EXCEPT !.root = PlaceOf(t, node), !.count = 1])
      ELSE Refused([t EXCEPT !.sound = FALSE])
-----------------------------------------------------------------------------
\* copy_value: an entry's metadata moves with it, a block number is the value.
ValueCopied(old, t, offset, value) ==
  LET log2 == old.heap[value]
      copy == Where(t, log2)
  IN  IF t.kind = "parent" THEN [t EXCEPT !.count = @ + 1]
      ELSE IF ~HasRoom(t.heap, log2) THEN [t EXCEPT !.sound = FALSE]
      ELSE [t EXCEPT !.heap = Taken(@, copy, log2),
                     !.metadata = Put(@, copy, old.metadata[value]),
                     !.nodes[offset].leaf = copy,
                     !.count = @ + 1]

\* The node alone; its children are still those of the old tree.
NodeCopied(old, t, node, up) ==
  LET offset == PlaceOf(t, node)
      new    == Linked(Placed(t, node), up, offset)
  IN  IF ~CanPlace(t, node) THEN [t EXCEPT !.sound = FALSE]
      ELSE IF HasLeaf(node) THEN ValueCopied(old, new, offset, node.leaf) ELSE new

\* merge_copy: everything, but the node `merge` put together with its only child.
RECURSIVE MergeCopied(_, _, _, _, _, _)
MergeCopied(old, t, offset, merge, up, before) ==
  LET node == old.nodes[offset]
      copy == [node EXCEPT !.prefix = before \o @]
      Child(new, char) ==
        IF new.sound THEN MergeCopied(old, new, node.kids[char], merge, <<PlaceOf(t, copy), char>>, <<>>)
        ELSE new
  IN  IF offset = merge
      THEN MergeCopied(old, t, node.kids[FirstKey(node)], merge, up, node.prefix \o <<FirstKey(node)>>)
      ELSE FoldLeft(Child, NodeCopied(old, t, copy, up), Keys(node))

\* The only child, with the node's prefix and its own character before its own.
JoinedWith(t, node) ==
  [t.nodes[node.kids[FirstKey(node)]] EXCEPT !.prefix = node.prefix \o <<FirstKey(node)>> \o @]

\* The child takes the node's place.
Replaced(t, up, offset, child, whole) ==
  Freed(Linked(Recreated(t, up, child, whole), up, RecreatedAt(t, child, whole)), offset)

OnlyChild(node) == node.kids[FirstKey(node)]

\* Mutant: the tree is never reallocated.
MergedNeverCopied(t, up, offset, reallocate) ==
  LET node == t.nodes[offset]
  IN  IF CanRecreate(t, OnlyChild(node), JoinedWith(t, node))
      THEN Replaced(t, up, offset, OnlyChild(node), JoinedWith(t, node))
      ELSE [t EXCEPT !.sound = FALSE]

\* merge_empty_node: a node without a leaf is put together with its only child.
Merged(t, up, offset, reallocate) ==
  LET node == t.nodes[offset]
  IN  IF CanRecreate(t, OnlyChild(node), JoinedWith(t, node))
      THEN Replaced(t, up, offset, OnlyChild(node), JoinedWith(t, node))
      ELSE IF reallocate THEN MergeCopied(t, Empty(t.kind, t.place), t.root, offset, <<>>, <<>>)
      ELSE [t EXCEPT !.sound = FALSE]

\* The end of erase: from a node that lost its leaf or a child upwards.
RECURSIVE Pruned(_, _, _)
Pruned(t, parents, offset) ==
  LET node  == t.nodes[offset]
      freed == Freed(t, offset)
      up    == Last(parents)
      above == [freed.nodes[up[1]] EXCEPT !.kids = Without(@, up[2])]
      less  == Recreated(freed, Up(Front(parents)), up[1], above)
  IN  IF Cardinality(DOMAIN node.kids) > 1 THEN t
      ELSE IF DOMAIN node.kids # {} THEN Merged(t, Up(parents), offset, TRUE)
      ELSE IF parents = <<>> THEN [freed EXCEPT !.root = None, !.sound = @ /\ t.count = 0]
      ELSE IF HasLeaf(above) THEN less
      ELSE Pruned(less, Front(parents), RecreatedAt(freed, up[1], above))

\* erase.  The node that is shrunk in place when no block is free for it is
\* filled from itself after it was cleared, hence without its children.
Erased(t, it) ==
  LET node == t.nodes[it.leaf]
      bare == [node EXCEPT !.leaf = None]
      less == RecreatedAs(t, Up(it.parents), it.leaf, bare, [bare EXCEPT !.kids = <<>>])
  IN  IF DOMAIN node.kids = {} THEN Pruned([t EXCEPT !.count = @ - 1], it.parents, it.leaf)
      ELSE Pruned([less EXCEPT !.count = @ - 1], it.parents, RecreatedAt(t, it.leaf, bare))

\* Mutant: the first key goes with its child.
ParentErasedPlain(t, it) == Erased(t, it)

\* DirectoryParentTree::erase: the first key is kept for the next child.
ParentErased(t, it) ==
  LET next == Onward(t, it)
  IN  IF it.leaf = Begin(t).leaf /\ next.leaf # None
      THEN Erased([t EXCEPT !.nodes[it.leaf].leaf = Value(t, next)], next)
      ELSE Erased(t, it)

\* DirectoryParentTree::can_erase
CanErase(t, it) ==
  LET own   == t.nodes[it.leaf]
      above == t.nodes[Last(it.parents)[1]]
      Mergeable(node) ==
        \/ NodeLog2(t, JoinedWith(t, node)) = t.heap[node.kids[FirstKey(node)]]
        \/ CanPlace(t, JoinedWith(t, node))
  IN  IF DOMAIN own.kids # {} THEN Cardinality(DOMAIN own.kids) > 1 \/ Mergeable(own)
      ELSE \/ it.parents = <<>>
           \/ ~HasLeaf(above) /\ Cardinality(DOMAIN above.kids) # 2
           \/ Mergeable(above)
-----------------------------------------------------------------------------
\* Mutant: what the cut leaves of a node is not put together with its child.
RECURSIVE SplitCopiedOnly(_, _, _, _, _, _, _, _)
SplitCopiedOnly(old, t, above, offset, cut, left, depth, up) ==
  LET node   == old.nodes[offset]
      onCut  == depth < Len(cut) /\ cut[depth + 1][1] = offset
      at     == cut[depth + 1][2]
      Part(S) == [c \in DOMAIN node.kids \cap S |-> node.kids[c]]
      isLast == left /\ above # <<>> /\ depth = Len(cut) /\ above = Up(cut)
      copy   == IF onCut /\ left THEN [node EXCEPT !.kids = Part(0..at)]
                ELSE IF onCut THEN [node EXCEPT !.kids = Part(at..PastKids), !.leaf = None]
                ELSE IF isLast THEN [node EXCEPT !.kids = <<>>]
                ELSE node
      place  == PlaceOf(t, copy)
      Child(new, char) ==
        IF new.sound
        THEN SplitCopiedOnly(old, new, <<offset, char>>, node.kids[char], cut, left, depth + 1, <<place, char>>)
        ELSE new
  IN  FoldLeft(Child, NodeCopied(old, t, copy, up), Keys(copy))

MergedIfEmpty(t, up, offset) ==
  IF t.sound /\ ~HasLeaf(t.nodes[offset]) /\ Cardinality(DOMAIN t.nodes[offset].kids) = 1
  THEN Merged(t, up, offset, FALSE)
  ELSE t

\* split_copy: of the nodes on the way `cut` to a leaf what is on its left, that
\* leaf the last, or on its right, that leaf the first; of other nodes all.
RECURSIVE SplitCopied(_, _, _, _, _, _, _, _)
SplitCopied(old, t, above, offset, cut, left, depth, up) ==
  LET node   == old.nodes[offset]
      onCut  == depth < Len(cut) /\ cut[depth + 1][1] = offset
      at     == cut[depth + 1][2]
      Part(S) == [c \in DOMAIN node.kids \cap S |-> node.kids[c]]
      isLast == left /\ above # <<>> /\ depth = Len(cut) /\ above = Up(cut)
      copy   == IF onCut /\ left THEN [node EXCEPT !.kids = Part(0..at)]
                ELSE IF onCut THEN [node EXCEPT !.kids = Part(at..PastKids), !.leaf = None]
                ELSE IF isLast THEN [node EXCEPT !.kids = <<>>]
                ELSE node
      place  == PlaceOf(t, copy)
      Child(new, char) ==
        IF new.sound
        THEN SplitCopied(old, new, <<offset, char>>, node.kids[char], cut, left, depth + 1, <<place, char>>)
        ELSE new
  IN  MergedIfEmpty(FoldLeft(Child, NodeCopied(old, t, copy, up), Keys(copy)), up, place)

LeftOf(t, it) ==
  SplitCopied(t, Empty(t.kind, t.place), <<>>, t.root, Back(t, it).parents, TRUE, 0, <<>>)

\* A call that is taken to have been done.
Surely(result) == [result.tree EXCEPT !.sound = @ /\ result.done]

\* In a parent, the first key is replaced by the empty one.
WithEmptyKey(t) ==
  LET first == Begin(t)
  IN  IF t.kind = "leaf" \/ ~t.sound THEN t
      ELSE Surely(Inserted(Erased(t, first), <<>>, Value(t, first)))

RightOf(t, it) ==
  WithEmptyKey(SplitCopied(t, Empty(t.kind, t.place), <<>>, t.root, it.parents, FALSE, 0, <<>>))
-----------------------------------------------------------------------------
Become(t) ==
  /\ kind' = t.kind
  /\ held' = t.heap
  /\ nodes' = t.nodes
  /\ root' = t.root
  /\ records_count' = t.count
  /\ metadata' = t.metadata
  /\ outcome' = IF t.sound THEN "ok" ELSE "broken"

Full == outcome' = "full" /\ UNCHANGED <<held, kind, nodes, root, records_count, metadata>>

Trees == {[Tree EXCEPT !.place = place] : place \in Placing}

Pairs == {two \in Children \X Children : two[1] # two[2]}

\* A root that was just divided.
Divided(place, key, two) ==
  Inserted(Inserted(Empty("parent", place), <<>>, two[1]).tree, key, two[2]).tree

Init ==
  /\ scene \in Scenes
  /\ \E place \in Placing :
       \E t \in IF scene.kind = "leaf" THEN {Empty("leaf", place)}
                ELSE {Divided(place, key, two) : key \in scene.names, two \in Pairs} :
         /\ kind = t.kind /\ held = t.heap /\ nodes = t.nodes
         /\ root = t.root /\ records_count = t.count /\ metadata = t.metadata
  /\ request = [call |-> "init"] /\ outcome = "ok"

Asked(call, key, value) == request' = [call |-> call, key |-> key, value |-> value]

\* Metadata, as the records show it.
Metadata(name, size) == <<name, GetSizeGroup(size)>>

Has(key) == FindExact(Tree, key).leaf # None

\* Mutant: the metadata stays when there is no room for the node.
InsertEntryLeaking(name, size) ==
  /\ Asked("insert", name, Metadata(name, size))
  /\ kind = "leaf" /\ ~Has(name)
  /\ \E t \in Trees :
       LET log2   == GetSizeGroup(size)
           offset == Where(t, log2)
           with   == [t EXCEPT !.heap = Taken(@, offset, log2), !.metadata = Put(@, offset, name)]
           result == Inserted(with, name, offset)
       IN  IF HasRoom(t.heap, log2) THEN Become(result.tree) ELSE Full

\* DirectoryMap::insert in the leaf block it found: room for the metadata first.
\* If there is none for the node it is given back.
InsertEntry(name, size) ==
  /\ Asked("insert", name, Metadata(name, size))
  /\ kind = "leaf" /\ ~Has(name)
  /\ \E t \in Trees :
       LET log2   == GetSizeGroup(size)
           offset == Where(t, log2)
           with   == [t EXCEPT !.heap = Taken(@, offset, log2), !.metadata = Put(@, offset, name)]
           result == Inserted(with, name, offset)
       IN  IF HasRoom(t.heap, log2) /\ result.done
           THEN Become(result.tree) ELSE Full

\* DirectoryMap::realloc_metadata
Replace(name, size) ==
  /\ Asked("replace", name, Metadata(name, size))
  /\ kind = "leaf" /\ Has(name)
  /\ LET it == FindExact(Tree, name)
         log2 == GetSizeGroup(size)
     IN  /\ held[Value(Tree, it)] # log2
         /\ \E t \in Trees :
              LET new == Where(t, log2)
              IN  IF HasRoom(t.heap, log2)
                  THEN Become([t EXCEPT
                         !.heap = GivenBack(Taken(@, new, log2), Value(t, it)),
                         !.metadata = Put(Without(@, Value(t, it)), new, metadata[Value(t, it)]),
                         !.nodes[it.leaf].leaf = new])
                  ELSE Full

\* DirectoryMap::erase in the leaf block: the metadata goes first.
EraseEntry(name) ==
  /\ request' = [call |-> "erase", key |-> name]
  /\ kind = "leaf" /\ Has(name)
  /\ LET it == FindExact(Tree, name)
     IN  \E t \in Trees :
           Become(Erased([t EXCEPT !.heap = GivenBack(@, Value(t, it)),
                                   !.metadata = Without(@, Value(t, it))], it))

ChildrenNow == {nodes[o].leaf : o \in {p \in DOMAIN nodes : HasLeaf(nodes[p])}}

\* The right half of a block below is inserted with its first key.
InsertChild(key) ==
  /\ kind = "parent" /\ ~Has(key)
  /\ \E child \in Children \ ChildrenNow : \E t \in Trees :
       LET result == Inserted(t, key, child)
       IN  Asked("insert", key, child) /\ IF result.done THEN Become(result.tree) ELSE Full

\* A block below was emptied.  A root without children starts over as a leaf.
EraseChild(key) ==
  /\ request' = [call |-> "erase", key |-> key]
  /\ kind = "parent" /\ Has(key)
  /\ LET it == FindExact(Tree, key)
     IN  IF CanErase(Tree, it)
         THEN \E t \in Trees :
                LET less == ParentErased(t, it)
                IN  Become(IF less.count = 0 THEN Empty("leaf", less.place) ELSE less)
         ELSE Full

\* split_tree, when a call found no room: this block's number or that of the new
\* one.
Split ==
  /\ request' = [call |-> "split"]
  /\ outcome = "full" /\ records_count >= LeastSplit
  /\ \E t \in Trees : \E middle \in {Middle(t)} :
       \E half \in {LeftOf(t, middle), RightOf(t, middle)} : Become(half)

\* The same in the root, which becomes the parent of both.
SplitRoot ==
  /\ request' = [call |-> "split"]
  /\ outcome = "full" /\ records_count >= LeastSplit
  /\ \E t \in Trees, two \in Pairs : Become(Divided(t.place, KeyFrom(t, Middle(t)), two))

Next ==
  /\ outcome # "broken"
  /\ UNCHANGED scene
  /\ \/ \E name \in scene.names :
          \/ \E size \in scene.sizes : InsertEntry(name, size) \/ Replace(name, size)
          \/ InsertChild(name)
     \/ \E name \in scene.erased : EraseEntry(name)
     \/ \E key \in scene.erased \cup {<<>>} : EraseChild(key)
     \/ Split
     \/ SplitRoot

Spec == Init /\ [][Next]_vars
-----------------------------------------------------------------------------
RECURSIVE RecordsBelow(_, _)
RecordsBelow(offset, before) ==
  LET node == nodes[offset]
      key  == before \o node.prefix
  IN  UNION {RecordsBelow(node.kids[c], key \o <<c>>) : c \in DOMAIN node.kids}
        \cup IF ~HasLeaf(node) THEN {}
             ELSE {[key   |-> key,
                    value |-> IF kind = "leaf" THEN <<metadata[node.leaf], held[node.leaf]>> ELSE node.leaf]}

Records == IF records_count = 0 THEN {} ELSE RecordsBelow(root, <<>>)

Promise == INSTANCE SortedRecords WITH parent <- kind = "parent", records <- Records

\* A block's tree holds, after any call, the records it held before and what the
\* call was asked to add, change or drop, whichever way nodes were cut, joined, moved or copied to another block for it
\* (directory_tree.h:69,174,227).
KeepsRecords == Promise!Spec

\* All that decides how it goes on.
UpToRequest == <<held, scene, kind, nodes, root, records_count, metadata, outcome>>

\* No assertion fails, and wherever a node is copied to a new tree there is room
\* (directory_tree.h:330, 439, 480).
NeverBroken == outcome # "broken"

\* The heap holds the nodes reached from the root, the metadata of their leaves
\* and nothing else: no call leaks a block or uses one that was given back; and
\* each node's block is of the size that is computed from what the node holds
\* whenever it is loaded (directory_tree_node_iterator.h:18).
RECURSIVE Reached(_)
Reached(offset) ==
  {offset} \cup UNION {Reached(nodes[offset].kids[c]) : c \in DOMAIN nodes[offset].kids}

BlocksAreTheTree ==
  LET leaves == {o \in DOMAIN nodes : HasLeaf(nodes[o])}
      values == {nodes[o].leaf : o \in leaves}
      mine   == IF kind = "leaf" THEN values ELSE {}
  IN  /\ DOMAIN nodes = (IF records_count = 0 THEN {} ELSE Reached(root))
      /\ DOMAIN metadata = mine
      /\ Cardinality(values) = Cardinality(leaves)
      /\ DOMAIN held = DOMAIN nodes \cup mine \cup {0}
      /\ DOMAIN nodes \cap (mine \cup {0}) = {}
      /\ \A o \in DOMAIN nodes : held[o] = NodeLog2(Tree, nodes[o])

\* A node without a leaf has two children at least: the tree is the one its names
\* make, whatever was erased.
NoneToMerge ==
  \A o \in DOMAIN nodes : HasLeaf(nodes[o]) \/ Cardinality(DOMAIN nodes[o].kids) > 1

\* find: a record with that very key, or the last one before it, and with none
\* before it the first (directory_tree.h:237).
FindsNearest ==
  records_count # 0 =>
    \A key \in scene.names :
      LET upTo  == {record.key : record \in {r \in Records : ~Promise!Precedes(key, r.key)}}
          exact == FindExact(Tree, key)
          near  == KeyFrom(Tree, FindNear(Tree, key))
      IN  /\ IF upTo = {} THEN near = Promise!Least(Records).key
             ELSE near \in upTo /\ \A other \in upTo : ~Promise!Precedes(near, other)
          /\ IF key \in upTo THEN KeyFrom(Tree, exact) = key ELSE exact = End(Tree)

\* From begin() to end() the iterator visits all records in their order, and from
\* end() it goes the same way back (directory_tree_iterator.h:65,98).
RECURSIVE Onwards(_, _)
Onwards(t, it) == IF it.leaf = None THEN <<it>> ELSE <<it>> \o Onwards(t, Onward(t, it))

RECURSIVE Backwards(_, _)
Backwards(t, it) == IF it.leaf = Begin(t).leaf THEN <<it>> ELSE Append(Backwards(t, Back(t, it)), it)

WalksBothWays ==
  LET walk == Onwards(Tree, Begin(Tree))
      key  == [i \in 1..(Len(walk) - 1) |-> KeyFrom(Tree, walk[i])]
  IN  /\ Len(key) = records_count /\ Range(key) = {record.key : record \in Records}
      /\ \A i \in 1..(Len(key) - 1) : Promise!Precedes(key[i], key[i + 1])
      /\ walk = Backwards(Tree, End(Tree))
=============================================================================
