---------------------------- MODULE DirectoryMap ----------------------------
(***************************************************************************)
(* The entries of one directory (src/src/directory_map.cpp): a tree of     *)
(* metadata blocks whose leaves hold names with their metadata and whose   *)
(* parents hold, for the least name of each child, its block number; with  *)
(* the live handles of directory_entry_cache.cpp and the blocks that are   *)
(* in memory (block.cpp, blocks_device.cpp).                               *)
(*                                                                         *)
(* A call of the program is one action.  Inside it the functions of        *)
(* directory_map.cpp are operators on a record of the state.               *)
(***************************************************************************)
EXTENDS Integers, Sequences, FiniteSets, TLC, FiniteSetsExt, SequencesExt

CONSTANTS
  Names,           \* names that may be in the directory, ordered
  Sizes,           \* sizes of an entry's metadata
  Stamps,          \* what else metadata says
  LeafCapacity,    \* metadata that fits in a leaf, as a sum of sizes
  ParentCapacity,  \* children that fit in a parent
  RootNumber,      \* the root block's number, the same for ever
  Blocks,          \* the other blocks of the area this directory can take
  HandleNames,     \* names the application opens
  FlushEachCall,   \* whether the application flushes after every call
  LongNames        \* whether names are long enough for the inner nodes of a
                   \* block to outgrow what an erased name frees

ASSUME DirectoryAssumption ==
  /\ Names \subseteq Nat \ {0}
  /\ Sizes \subseteq Nat \ {0} /\ \A size \in Sizes : 2 * size <= LeafCapacity
  /\ ParentCapacity \in Nat \ {0, 1}
  /\ Blocks \subseteq Nat /\ RootNumber \in Nat \ Blocks
  /\ HandleNames \subseteq Names /\ FlushEachCall \in BOOLEAN /\ LongNames \in BOOLEAN

VARIABLES
  device,   \* contents of the blocks of the directory, as on the device
  free,     \* what the area's allocator may hand out
  objects,  \* Block objects that are alive, with their data
  root,     \* the object root_block_ points to
  handles,  \* EntryHandle of each open name: the object and the place in it
  request,  \* the last call and its arguments
  outcome   \* how it ended

vars == <<device, free, objects, root, handles, request, outcome>>
-----------------------------------------------------------------------------
(* Blocks.  An attached object, one the device's cache finds, goes by its  *)
(* block's number; a detached one by a number no block has.                *)

NoKey == 0  \* "", which every parent has for its first child

Numbers == Blocks \cup {RootNumber}

Leaf(entries) == [leaf |-> TRUE, entries |-> entries]
Parent(entries) == [leaf |-> FALSE, entries |-> entries]

NoEntries == [name \in {} |-> {}]
Without(f, keys) == [k \in DOMAIN f \ keys |-> f[k]]

\* LoadMetadataBlock of a block whose object is alive, and of any other.
Contents(s, id) ==
  IF id \in DOMAIN s.objects THEN s.objects[id] ELSE s.device[id]

Write(s, id, contents) == [s EXCEPT !.objects = (id :> contents) @@ @]

\* Whoever holds the object goes on holding it; the cache does not.
Detach(s, id) ==
  IF id \notin DOMAIN s.objects \cap Numbers THEN s
  ELSE LET detached == Max(DOMAIN s.objects \cup Numbers) + 1
           Now(o)   == IF o = id THEN detached ELSE o
       IN  [s EXCEPT !.objects = (detached :> s.objects[id]) @@ Without(@, {id}),
                     !.root = Now(@),
                     !.handles = [n \in DOMAIN @ |-> [@[n] EXCEPT !.object = Now(@)]]]

Held(s) == {s.root} \cup {s.handles[n].object : n \in DOMAIN s.handles}

\* Mutant: gone without writing.
CollectedUnwritten(s) == [s EXCEPT !.objects = Without(@, DOMAIN @ \ Held(s))]

\* An object nobody holds writes its data and is gone, a detached one unwritten.
\* What free blocks hold is of no interest.
Collected(s) ==
  [s EXCEPT !.device = [n \in Numbers |->
                          IF n \in s.free THEN Leaf(NoEntries)
                          ELSE IF n \in DOMAIN s.objects \ Held(s) THEN s.objects[n]
                          ELSE @[n]],
            !.objects = Without(@, DOMAIN @ \ Held(s))]

Fails(s, how) == [s EXCEPT !.outcome = how]
Failed(s) == s.outcome # "ok"
-----------------------------------------------------------------------------
(* Searching.  A position is the leaf's object and the parents above it,   *)
(* each with the key its iterator is at.                                   *)

\* DirectoryTree::find without exact_match: the last key that is not above.
KeyFor(children, name) == Max({k \in DOMAIN children : k <= name})

\* The search of a tree that leads back to itself never ends: it is cut off
\* at a depth no tree has, where there is no leaf.  A node is bound before it
\* is looked at, for TLC to read it once.
RECURSIVE Descend(_, _, _, _)
Descend(s, id, parents, name) ==
  LET Below(node, key) ==
        Descend(s, node.entries[key], Append(parents, [id |-> id, key |-> key]), name)
      From(node) ==
        IF node.leaf \/ Len(parents) > Cardinality(Blocks)
        THEN [id |-> id, parents |-> parents]
        ELSE Below(node, KeyFor(node.entries, name))
  IN  CHOOSE at \in {From(node) : node \in {Contents(s, id)}} : TRUE

Find(s, name) == Descend(s, s.root, <<>>, name)

Has(s, id, name) == Contents(s, id).leaf /\ name \in DOMAIN Contents(s, id).entries
-----------------------------------------------------------------------------
(* Live handles.                                                           *)

\* The first place in a leaf nothing uses.  Where metadata lies is told
\* apart only if a handle may point there.
Place(entries) ==
  LET used == {entries[n].place : n \in DOMAIN entries}
  IN  IF HandleNames = {} THEN 0 ELSE Min((0..Cardinality(used)) \ used)

\* Metadata copied to a new block, in the order of the names.
Replaced(entries) ==
  [n \in DOMAIN entries |->
     [entries[n] EXCEPT !.place =
        IF HandleNames = {} THEN 0 ELSE Cardinality({m \in DOMAIN entries : m < n})]]

\* HandleFor and Update: a handle keeps the object it points into.
Handle(s, name, id) ==
  [s EXCEPT !.objects = (id :> Contents(s, id)) @@ @,
            !.handles = (name :> [object |-> id,
                                  place  |-> Contents(s, id).entries[name].place]) @@ @]

Invalidate(s, name) == [s EXCEPT !.handles = Without(@, {name})]

MetadataUpdated(s, name, id) ==
  IF name \in DOMAIN s.handles THEN Handle(s, name, id) ELSE s

\* Mutant: handles are not told.
NotRefreshed(s) == s

\* RefreshMetadataRefs.
Refresh(s) ==
  LET Refreshed(name, t) ==
        LET at == Find(t, name).id
        IN  IF Has(t, at, name) THEN Handle(t, name, at) ELSE Invalidate(t, name)
  IN  FoldSet(Refreshed, s, DOMAIN s.handles)
-----------------------------------------------------------------------------
(* split_tree.  The result has the state, the parents with the iterator of *)
(* the last one at the new right block, and the half `key` belongs in.     *)

Middle(keys) ==
  CHOOSE k \in keys : Cardinality({j \in keys : j < k}) = Cardinality(keys) \div 2

LeftHalf(node, middle) ==
  LET half == [k \in {j \in DOMAIN node.entries : j < middle} |-> node.entries[k]]
  IN  IF node.leaf THEN Leaf(Replaced(half)) ELSE Parent(half)

\* Mutant: the middle of a leaf goes into neither.
RightHalfAfterMiddle(node, middle) ==
  LET half == [k \in {j \in DOMAIN node.entries : j >= middle} |-> node.entries[k]]
  IN  IF node.leaf THEN Leaf(Replaced(Without(half, {middle})))
      ELSE Parent((NoKey :> half[middle]) @@ Without(half, {middle}))

\* The first key of a parent is always empty (DirectoryParentTree::split).
RightHalf(node, middle) ==
  LET half == [k \in {j \in DOMAIN node.entries : j >= middle} |-> node.entries[k]]
  IN  IF node.leaf THEN Leaf(Replaced(half))
      ELSE Parent((NoKey :> half[middle]) @@ Without(half, {middle}))

Position(s, parents, id) == [s |-> s, parents |-> parents, id |-> id]

\* The root block detached, the left half's block taken and lost.
SplitRootFails(s) ==
  Position(Fails([Detach(s, s.root) EXCEPT !.free = {}], "kNoSpace"), <<>>, s.root)

RootLinks(left, middle, right) == (NoKey :> left) @@ (middle :> right)

\* Mutant: the middle itself is looked for on the left.
LeftForMiddle(key, middle, left, right) == IF key <= middle THEN left ELSE right

HalfFor(key, middle, left, right) == IF key < middle THEN left ELSE right

SplitRoot(s, key) ==
  LET node   == Contents(s, s.root)
      middle == Middle(DOMAIN node.entries)
      left   == Min(s.free)
      right  == Min(s.free \ {left})
      taken  == [Detach(s, s.root) EXCEPT !.free = @ \ {left, right}]
      halves == Write(Write(taken, left, LeftHalf(node, middle)), right, RightHalf(node, middle))
      links  == RootLinks(left, middle, right)
      linked == [Write(halves, RootNumber, Parent(links)) EXCEPT !.root = RootNumber]
  IN  Position(IF node.leaf THEN Refresh(linked) ELSE linked,
               <<[id |-> RootNumber, key |-> middle]>>,
               HalfFor(key, middle, left, right))

\* The left half goes where the block was; its number is written over what
\* the parent's iterator is at.
SplitInPlace(s, parent, id) ==
  LET node   == Contents(s, id)
      middle == Middle(DOMAIN node.entries)
      right  == Min(s.free)
      taken  == [Detach(s, id) EXCEPT !.free = @ \ {right}]
      halves == Write(Write(taken, id, LeftHalf(node, middle)), right, RightHalf(node, middle))
      links  == [Contents(s, parent.id).entries EXCEPT ![parent.key] = id]
  IN  Write(halves, parent.id, Parent(links))

RECURSIVE SplitTree(_, _, _, _), InsertChild(_, _, _, _, _)

\* middle and right: those of SplitInPlace; at: where the parent took the right half.
SplitDone(node, at, id, key, middle, right) ==
  IF Failed(at.s) THEN at
  ELSE Position(IF node.leaf THEN Refresh(at.s) ELSE at.s,
                Append(at.parents, [id |-> at.id, key |-> middle]),
                HalfFor(key, middle, id, right))

SplitTree(s, parents, id, key) ==
  IF id = s.root THEN IF Cardinality(s.free) < 2 THEN SplitRootFails(s) ELSE SplitRoot(s, key)
  ELSE IF s.free = {} THEN Position(Fails(Detach(s, id), "kNoSpace"), parents, id)
  ELSE LET node   == Contents(s, id)
           middle == Middle(DOMAIN node.entries)
           right  == Min(s.free)
       IN  SplitDone(node,
                    InsertChild(SplitInPlace(s, Last(parents), id),
                                Front(parents), Last(parents).id, middle, right),
                    id, key, middle, right)

\* Mutant: the parent is split and the child forgotten.
ThenForget(at, key, number) == at

\* Goes on at the half of the parent that is to take the child.
ThenInsert(at, key, number) ==
  IF Failed(at.s) THEN at ELSE InsertChild(at.s, at.parents, at.id, key, number)

InsertChild(s, parents, id, key, number) ==
  LET entries == Contents(s, id).entries
  IN  IF Cardinality(DOMAIN entries) < ParentCapacity
      THEN Position(Write(s, id, Parent((key :> number) @@ entries)), parents, id)
      ELSE ThenInsert(SplitTree(s, parents, id, key), key, number)
-----------------------------------------------------------------------------
(* The calls.  request records what was asked for, for NameMap to say what *)
(* it should do; nothing depends on it but Killed.                         *)

State == [device |-> device, free |-> free, objects |-> objects, root |-> root,
          handles |-> handles, outcome |-> "ok"]

\* Mutant: only the root.
FlushedRoot(s) == [s EXCEPT !.device[RootNumber] = Contents(s, RootNumber)]

\* FlushAll writes every object the cache knows.
Flushed(s) == [s EXCEPT !.device = [n \in Numbers |-> Contents(s, n)]]

\* A failed assertion ends the program: the model stops before that call.
Return(call, s) ==
  LET collected == Collected(s)
      end == IF FlushEachCall THEN Flushed(collected) ELSE collected
  IN  IF s.outcome = "assert"
      THEN request' = call /\ outcome' = "assert" /\ UNCHANGED <<device, free, objects, root, handles>>
      ELSE /\ request' = call
           /\ device' = end.device /\ free' = end.free /\ objects' = end.objects
           /\ root' = end.root /\ handles' = end.handles /\ outcome' = end.outcome

Item(place, size, stamp) == [place |-> place, size |-> size, stamp |-> stamp]

Used(entries) == SumFunction([n \in DOMAIN entries |-> entries[n].size])

RECURSIVE MakeRoom(_, _, _)

\* The loop around split_tree of insert and of alloc_metadata.
MakeRoom(at, name, size) ==
  IF Failed(at.s) \/ Used(Contents(at.s, at.id).entries) + size <= LeafCapacity THEN at
  ELSE MakeRoom(SplitTree(at.s, at.parents, at.id, name), name, size)

Room(s, name, size) ==
  LET at == Find(s, name) IN MakeRoom(Position(s, at.parents, at.id), name, size)

Store(s, id, name, size, stamp) ==
  LET entries == Contents(s, id).entries
  IN  Write(s, id, Leaf((name :> Item(Place(entries), size, stamp)) @@ entries))

Inserted(at, name, size, stamp) ==
  IF Failed(at.s) THEN at.s ELSE Store(at.s, at.id, name, size, stamp)

Stored(call, name, size, stamp) == [call |-> call, name |-> name, size |-> size, stamp |-> stamp]

Insert(name, size, stamp) ==
  Return(Stored("insert", name, size, stamp),
         IF Has(State, Find(State, name).id, name) THEN Fails(State, "exists")
         ELSE Inserted(Room(State, name, size), name, size, stamp))

\* realloc_metadata finds the entry again, and its two assertions are that it
\* is there, in the block that was given room.
Reallocated(at, name, size, stamp) ==
  IF Failed(at.s) THEN at.s
  ELSE LET id == Find(at.s, name).id
       IN  IF ~Has(at.s, id, name) \/ id # at.id THEN Fails(at.s, "assert")
           ELSE MetadataUpdated(Store(at.s, id, name, size, stamp), name, id)

SameSize(s, id, name, stamp) ==
  LET entries == Contents(s, id).entries
  IN  MetadataUpdated(Write(s, id, Leaf([entries EXCEPT ![name].stamp = stamp])), name, id)

Replace(name, size, stamp) ==
  LET id == Find(State, name).id
  IN  Return(Stored("replace", name, size, stamp),
             IF ~Has(State, id, name) THEN Fails(State, "absent")
             ELSE IF size = Contents(State, id).entries[name].size
             THEN SameSize(State, id, name, stamp)
             ELSE Reallocated(Room(State, name, size), name, size, stamp))

InitRoot(s) == Write(s, s.root, Leaf(NoEntries))

\* Mutant: the next key stays as well.
WithoutChildMoved(children, key) ==
  LET later == {k \in DOMAIN children : k > key}
  IN  IF key # NoKey \/ later = {} THEN Without(children, {key})
      ELSE [children EXCEPT ![NoKey] = children[Min(later)]]

\* DirectoryParentTree::erase: the first key stays and takes the next block.
WithoutChild(children, key) ==
  LET later == {k \in DOMAIN children : k > key}
  IN  IF key # NoKey \/ later = {} THEN Without(children, {key})
      ELSE Without([children EXCEPT ![NoKey] = children[Min(later)]], {Min(later)})

\* can_erase is false at most for a parent that is full.
MayErase(entries, cramped) == ~cramped \/ Cardinality(DOMAIN entries) < ParentCapacity

RECURSIVE DeleteChild(_, _, _), EraseChild(_, _, _)

\* The key's half is taken to be the right one, where the iterator is.
EraseInHalf(at, key, cramped) ==
  IF Failed(at.s) THEN at.s
  ELSE LET up    == Last(at.parents)
           right == Contents(at.s, up.id).entries[up.key]
           found == IF key = up.key THEN NoKey ELSE key
       IN  IF found \notin DOMAIN Contents(at.s, right).entries THEN Fails(at.s, "assert")
           ELSE EraseChild(at.s, Append(at.parents, [id |-> right, key |-> found]), cramped)

\* Mutant: the child's block is not returned.
DeleteChildOnly(s, parents, cramped) == EraseChild(s, parents, cramped)

\* The loop of erase, from the lowest parent up.
DeleteChild(s, parents, cramped) ==
  LET at      == Last(parents)
      entries == Contents(s, at.id).entries
      deleted == [s EXCEPT !.free = @ \cup {entries[at.key]}]
  IN  IF MayErase(entries, cramped) THEN EraseChild(deleted, parents, cramped)
      ELSE EraseInHalf(SplitTree(deleted, Front(parents), at.id, at.key), at.key, cramped)

EraseChild(s, parents, cramped) ==
  LET at   == Last(parents)
      rest == WithoutChild(Contents(s, at.id).entries, at.key)
      t    == Write(s, at.id, Parent(rest))
  IN  IF DOMAIN rest # {} THEN t
      ELSE IF Len(parents) = 1 THEN InitRoot(t)
      ELSE DeleteChild(t, Front(parents), cramped)

\* rebuilt: the leaf's nodes did not fit any more and it was copied anew
\* (merge_empty_node), which only long names bring about.
ErasedFromLeaf(s, id, name, rebuilt) ==
  LET rest == Without(Contents(s, id).entries, {name})
  IN  Invalidate(Write(s, id, Leaf(IF rebuilt THEN Replaced(rest) ELSE rest)), name)

Erase(name, rebuilt, cramped) ==
  LET at == Find(State, name)
      s  == ErasedFromLeaf(State, at.id, name, rebuilt)
  IN  Return([call |-> "erase", name |-> name],
             IF ~Has(State, at.id, name) THEN Fails(State, "absent")
             ELSE IF DOMAIN Contents(s, at.id).entries # {} THEN s
             ELSE IF at.parents = <<>> THEN InitRoot(s)
             ELSE DeleteChild(s, at.parents, cramped))

\* Load of an entry that is not loaded yet.
LoadEntry(name) ==
  LET id == Find(State, name).id
  IN  /\ name \notin DOMAIN handles
      /\ Return([call |-> "load", name |-> name],
                IF Has(State, id, name) THEN Handle(State, name, id) ELSE Fails(State, "absent"))

DropEntry(name) ==
  /\ name \in DOMAIN handles
  /\ Return([call |-> "drop", name |-> name], Invalidate(State, name))

\* The application writes where its handle points, whatever is there now.
UpdateEntry(name, stamp) ==
  /\ name \in DOMAIN handles
  /\ LET handle  == handles[name]
         entries == objects[handle.object].entries
         there   == {n \in DOMAIN entries : entries[n].place = handle.place}
     IN  Return([call |-> "update", name |-> name, stamp |-> stamp],
                Write(State, handle.object,
                  Leaf([n \in DOMAIN entries |->
                     IF n \in there THEN [entries[n] EXCEPT !.stamp = stamp] ELSE entries[n]])))

Flush == ~FlushEachCall /\ Return([call |-> "flush"], Flushed(State))

\* The directory is loaded, from the device.
Loaded(s) ==
  [s EXCEPT !.root = RootNumber, !.objects = RootNumber :> s.device[RootNumber]]

\* The directory is let go of and loaded again.
Reopen ==
  /\ handles = NoEntries
  /\ Return([call |-> "reopen"], Loaded(Collected([State EXCEPT !.root = Max(Numbers) + 1])))

\* The program ends at once, right after it has flushed, and is started again:
\* no object writes its data.
Killed ==
  /\ request.call = "flush"
  /\ Return([call |-> "killed"], Loaded([State EXCEPT !.handles = NoEntries]))

Init ==
  /\ device = [n \in Numbers |-> Leaf(NoEntries)]
  /\ free = Blocks
  /\ objects = RootNumber :> Leaf(NoEntries)
  /\ root = RootNumber
  /\ handles = NoEntries
  /\ request = [call |-> "reopen"]
  /\ outcome = "ok"

Either == IF LongNames THEN BOOLEAN ELSE {FALSE}

Next ==
  /\ outcome # "assert"
  /\ \/ \E name \in Names, size \in Sizes, stamp \in Stamps :
          Insert(name, size, stamp) \/ Replace(name, size, stamp)
     \/ \E name \in Names, rebuilt \in Either, cramped \in Either :
          Erase(name, rebuilt, cramped)
     \/ \E name \in HandleNames : LoadEntry(name) \/ DropEntry(name)
     \/ \E name \in HandleNames, stamp \in Stamps : UpdateEntry(name, stamp)
     \/ Flush
     \/ Reopen
     \/ Killed

Spec == Init /\ [][Next]_vars
-----------------------------------------------------------------------------
\* The entries that begin() and ++ show (a tree that leads back to itself is
\* cut off as in Descend).
RECURSIVE Walk(_, _, _)
Walk(s, id, depth) ==
  LET Shown(node) ==
        IF node.leaf
        THEN {[name |-> n, size |-> node.entries[n].size, stamp |-> node.entries[n].stamp] :
                n \in DOMAIN node.entries}
        ELSE UNION {Walk(s, node.entries[k], depth + 1) : k \in DOMAIN node.entries}
  IN  IF depth > Cardinality(Blocks) THEN {}
      ELSE UNION {Shown(node) : node \in {Contents(s, id)}}

EntriesOf(s) == Walk(s, s.root, 0)

entries == EntriesOf(State)

\* The nodes of the tree, by object or number.
RECURSIVE Subtree(_)
Subtree(id) ==
  LET node == Contents(State, id)
  IN  {id} \cup IF node.leaf THEN {}
                ELSE UNION {Subtree(node.entries[k]) : k \in DOMAIN node.entries}

Nodes == Subtree(root)

Links ==
  UNION {{<<id, k>> : k \in DOMAIN Contents(State, id).entries} :
           id \in {i \in Nodes : ~Contents(State, i).leaf}}

\* Every block of the directory is linked by one parent or free, whatever was
\* inserted, replaced and erased: none is lost, shared or used after it was
\* returned (the "releases blocks" test, for every history).
NoBlockLost ==
  /\ Nodes \ {root} = Blocks \ free
  /\ Cardinality(Links) = Cardinality(Nodes \ {root})

PointsAtEntry(name) ==
  LET id == Find(State, name).id
  IN  /\ Has(State, id, name)
      /\ handles[name] = [object |-> id, place |-> Contents(State, id).entries[name].place]

\* A live handle points at its entry's metadata, in the object the tree uses
\* (directory_entry_cache.cpp, RefreshMetadataRefs).
HandlesCurrent == \A name \in DOMAIN handles : PointsAtEntry(name)

\* No assertion of directory_map.cpp fails.
NoAssertFails == outcome # "assert"

\* A tree without the numbers of its blocks and the places in its leaves.
RECURSIVE Shape(_)
Shape(id) ==
  LET node == Contents(State, id)
  IN  IF node.leaf
      THEN [n \in DOMAIN node.entries |-> <<node.entries[n].size, node.entries[n].stamp>>]
      ELSE Parent([k \in DOMAIN node.entries |-> Shape(node.entries[k])])

\* Free blocks are alike, and so are free places in a leaf: whichever is taken,
\* the directory goes on in the same way.  The view of runs where all is
\* flushed, while every handle points at its entry.
UpToNumbers ==
  <<Shape(root), Shape(RootNumber), Cardinality(free), outcome = "assert",
    [name \in DOMAIN handles |-> PointsAtEntry(name)]>>

\* All that decides how it goes on: the view of the other runs.
UpToRequest ==
  <<device, free, objects, root, handles, request.call = "flush", outcome = "assert">>

Abstract == INSTANCE NameMap

\* Whatever is split, held, written back or read again, each call does to the
\* entry it names what it was asked for, and to no other, or says truly that it
\* is there or is not; once flushed, all is on the device (directory_map.cpp,
\* directory_entry_cache.cpp, Block::~Block, BlocksDevice::FlushAll).
KeepsMap == Abstract!Spec
=============================================================================
