# wfslib: TLA+ models, checks and proofs

wfslib reads and writes images of the Wii U file system (WFS).  This directory
holds TLA+ models of its core logic, TLC configurations that check them on
small instances, and TLAPS proofs of what matters most for every instance.
Names of definitions follow the source; `PROJECT.json` maps each of them to the
lines it stands for.

## 1. The system

An image is divided into *areas*; a quota area owns a range of device blocks,
a free blocks allocator over them, and a tree of directories.  A directory maps
names to *entry metadata*; a file's entry metadata holds, depending on the
size, the bytes themselves or the list of *data units* (blocks, large blocks,
clusters, or blocks full of cluster references) that hold them.  Every block is
protected by a hash kept elsewhere: in its own header for metadata blocks, in
the file's metadata for data blocks.

The library is single-threaded: a call of its API runs to its end, or to an
exception, before the next one starts.  What makes it hard is not parallelism
but **state shared between layers** (weak-pointer caches of blocks, entries and
directories; block numbers that change owner; live handles into blocks that are
split or reallocated under them), **failure half-way** (there is no journal:
each operation undoes by destructors what it did), and **path dependence**
(layouts with hysteresis, free lists whose shape depends on history).

| Component (source) | State | Operations | Correct when |
|---|---|---|---|
| File layout (`file_layout`) | none; decides category, unit count, sizes | `BuildLayout`, `Calculate` | units cover the file, fit the category's item list, and the category keeps to its documented range along any sequence of sizes |
| File resizer (`file_resizer*`) | one call's allocations until its commit | `Resize` in place, inline, by rebuild | contents survive, nothing leaks, the old layout is good until the commit, the new one from it |
| File and its stream (`file`) | position | `read`, `write`, `seek`, `Resize` | behaves as a plain byte sequence |
| Layout accessors (`file_layout_accessor`, `file_data_units`) | the data block in use | map a position to block, offset, hash | every byte has one place, every used block one hash |
| Blocks and cache (`block`, `blocks_device`) | data, dirty and detached flags; map number to weak pointer | load, fetch, flush, resize, detach, `FlushAll` | one live object per number, no change lost, no flush after detaching |
| Quota area (`area`, `quota_area`) | header, registries of directories and areas | allocate and delete blocks, load directories | numbers translate consistently, one live directory map per block |
| Free blocks allocator (`free_blocks_allocator`) | free extents by size bucket, a cache of single blocks, a count | `AllocBlocks`, `AllocAreaBlocks`, `AddFreeBlocks` | every block is free or in use, never both; refuses only when short |
| Free blocks trees (`ptree`, `rtree`, `ftree`, `ftrees`, `eptree`, `free_blocks_tree*`) | B-tree-like nodes in allocator blocks | insert, erase, find, split | a sorted map |
| Tree nodes allocator (`tree_nodes_allocator`) | sorted free list in one block | `Alloc`, `Free` | extents disjoint, coalesced |
| Sub-block allocator (`sub_block_allocator`) | buddy free lists in one directory block | `Alloc`, `Free`, `Shrink` | blocks disjoint, coalesced |
| Directory trees (`directory_tree*`) | radix tree of names in one block | insert, erase, find, split | a sorted map of names |
| Directory map (`directory_map`) | tree of directory blocks | insert, erase, `replace_metadata`, split | a map that survives splits and failures |
| Entry cache and entries (`directory_entry_cache`, `entry`) | live handles and entries by name | load, refresh, invalidate | a live handle refers to its entry's current metadata |
| Recovery, encryption, keys, host device, formatting, wrappers | | | not modelled (section 7) |

How they call each other: `file_device::write` calls `FileResizer` when it
writes past the end; the resizer allocates from the quota area, copies through
a layout accessor, and commits by `DirectoryMap::replace_metadata`, which may
split a directory block and so allocate in its turn; every layer reaches blocks
through the block cache.

## 2. Plan

The modules are written in the order of what would hurt a user most, each
parameterised by CONSTANTS with named assumptions, and none that is meant for
proofs uses a RECURSIVE operator.

| # | Modules | Models | State of the plan |
|---|---|---|---|
| 1 | `FileLayout`, `LayoutHistory`, `LayoutLemmas`, `LayoutProofs` | category and unit arithmetic; a file's layout along any sequence of sizes | done, proved |
| 2 | `ByteFile`, `BlockOwnership`, `BlockOwnershipProofs`, `FileResize`, `FileResizeProofs`, `FileContentsProofs` | what a file promises; who owns a block; resizing and writing down to bytes and hashes | done, proved (of liveness, that calls draw to their end) |
| 3 | `FreeBlocksAllocator` | extents by size bucket, joins, the cache of single blocks, tree pages taken from the extents they hold | done |
| 4 | `NameMap`, `DirectoryMap` | the tree of directory blocks with the entry cache and the block cache: insertion, replacement, erasure, splits and their failures, live handles, writing back | done |
| 5 | `PlacePool`, `TreeNodesAllocator`, `TreeNodesProofs` | the heap of nodes in a tree block, against a pool that only says "nobody else holds it" | done, proved |
| 6 | `BuddyHeap`, `SubBlockAllocator`, `SubBlockProofs` | the buddy heap in a directory block, down to its lists, against what it promises | done, proved |
| 7 | `SortedRecords`, `DirectoryTree` | the radix tree of names in a directory block, in its heap | done |
| 8 | `SortedKeys`, `PTree` | the search trees inside a block of the free blocks allocator, in the heap of nodes | done |
| 9 | `FTreesIterator`, `FTreesIteratorProofs` | one walk across the trees of a block | done, proved |
| 10 | `EPTree` | the levels of `RTree` blocks above one another and the blocks they take for themselves | left |
| 11 | `QuotaArea`, `EntryMetadata` | number translation, metadata sizes; would discharge the geometry assumptions for 4 and 8 KiB blocks | left |

Abstract specifications: `ByteFile`, `BlockOwnership`, `PlacePool`, `NameMap`,
`BuddyHeap`, `SortedRecords` and `SortedKeys`, each implemented by a module that
follows the code.  They are also the seams of the compositions: `FileResize`
takes blocks by `BlockOwnership`, `DirectoryTree` lives in `BuddyHeap`,
`PTree` in the first-fit heap of nodes, by the rule `TreeNodesProofs` shows that
heap to follow, and under `FTreesIterator`.  Worth proving next: that `PTree` keeps
its keys in order, with its paths and its growth written as recursive functions
on the depth of the tree, from an invariant that gives each node its tree, its
height and the range its keys are in.
## 3. The modules and the code

**`FileLayout`** translates `file_layout.cpp` operator by operator: the unit
size of a category, how many units and metadata items a size needs
(`DataUnitsCount`, `MetadataItemsCount`), the smallest and the largest category
allowed for a size (`MinimumCategory`, `MaximumCategory`) and `Calculate`, which
combines them with the present category.  Its constants are the literals of
`file_layout.h` and the block sizes; `PositiveGeometry` and `OrderedGeometry`
say what the code relies on (a unit of a higher category is larger, a
category's capacity is not below that of the one before).

**`LayoutHistory`** has one variable, the layout in the entry's metadata.
`Resize` is `FileResizer::Resize` reduced to the choice of the layout,
`ResizeTooLarge` the `kFileTooLarge` exception.  It starts from any layout the
format documents, since an image may come from another implementation.

**`ByteFile`** is what the user of a file is promised: bytes, `Resize`, `Write`
and a call that is refused and changes nothing.

**`BlockOwnership`** is the protocol by which blocks change hands, for any
number of files: `Allocate` (from free to pending), `Commit` (pending becomes
held, what was dropped becomes retired), `Release` (retired to free) and
`Rollback` (pending to free).

**`FileResize`** is `FileResizer`, `file_device` and the layout accessors for
one file.  State and code:

| Variable | In the code |
|---|---|
| `metadata` | the file's `EntryMetadata` in its directory leaf: layout, inline payload or unit list with a hash per data block |
| `disk` | the data bytes of the quota's area as the device holds them |
| `metadata_disk` | the unit lists inside cluster metadata blocks |
| `free` | what `FreeBlocksAllocator` may hand out |
| `attached` | block numbers that have a live `Block` object in the device's cache |
| `call` | the locals of the call in progress: `AllocatedDataUnits`, `AllocatedTargetMetadataBlocks`, the replacement metadata, the loop index |
| `outcome` | what the last call returned or threw |

A resize takes one of three ways, as in `FileResizer::Resize`: `inline` builds
the new payload and commits; `in_place` allocates the units it lacks, commits,
detaches the blocks it had loaded, adjusts the data blocks whose used size
changed and frees the units it dropped; `rebuild` allocates a complete set of
units and metadata blocks, copies data block by data block, flushes the
metadata blocks, commits, detaches and frees all old blocks.  Each of these is
an action (`AllocateDataUnits`, `AllocateMetadataBlock`, `CopyDataBlock`,
`FinishCopy`, `ReplaceMetadata`, `DetachOldBlocks`, `ResizeChangedDataBlock`,
`FreeRemovedDataUnits`, `FreeOldDataUnits`, `FreeOldMetadataBlocks`, `Return`),
and each place that can throw `kNoSpace` has an action that does what the
destructors then do (`Fail`).  A write past the end resizes first and goes on
in `WriteDataBlock`, block by block.

A byte is zero, the stamp of the position it was written for, or `Junk`, which
is what a free or new block holds: a file that ever shows junk or a byte of
another position has gone wrong.  A hash is the bytes it was taken of, so a
load whose hash does not match is visible; in the code it is an exception, in
the model it reads junk and every property about contents fails.

**`FreeBlocksAllocator`** is the allocator of an area with `FreeBlocksTree` and
`FreeBlocksTreeBucket` under it.

| Variable | In the code |
|---|---|
| `allocator.tree` | the extents in all `FTree`s, each with its bucket |
| `allocator.pages` | the entries of `EPTree`: the least key and the block of each `FTrees` page |
| `allocator.free_blocks_count`, `cache_first`, `cache_count` | the fields of `FreeBlocksAllocatorHeader` |
| `held` | what callers of `QuotaArea` were given and have not returned |

A call is one step (`AllocMetadataBlock`, `AllocDataBlocks`, `AllocArea`,
`DeleteBlocks`).  Inside it the functions of `free_blocks_allocator.cpp` are
operators from state to state, in the code's order, because their recursion is
where the difficulty is: `AddFreeBlocksForSize` joins neighbours, lifts what
became a larger unit, and inserts; an insertion into a full page (`Inserted`)
removes a block from the extents being split; a removal that empties a page
(`Erased`) adds that page's block; each of these may cause the next.  Removal
(`RemoveSpecificFreeBlocksExtent`) looks for an extent by number in its bucket
and upwards, with the fallbacks of `find` that the code has.

Two abstractions: the capacity of a page is a number of extents, where the code
shares the bytes of a block among the trees of all buckets; and `EPTree` is one
level in the allocator's own block, so its nodes never take or free blocks.

**`PlacePool`** is the promise of a heap inside a block: places nobody else
holds.  **`TreeNodesAllocator`** is the heap of tree nodes: `freelist_head` and
`allocated_entries` are the header's fields, `freelist` the words `count` and
`next` of those entries that are free now, `nodes` the entries callers hold.
`Alloc` is the first-fit loop (`FirstFit`) and what it writes (`Allocated`);
`Free` has the code's two branches, in front of the list and behind an entry,
and what is then written to the entry (`Written`).  A caller may give back part
of what it got, as `PTree` does.

**`NameMap`** is what a directory promises: entries with names of their own.  It
sees the request as well as the entries: a call does to the entry it names what
it was asked for, says truly that the name exists or is absent, or is refused and
changes nothing.  A call that quietly does nothing, or does not find what is
there, is no step of `NameMap`.
**`DirectoryMap`** is `DirectoryMap`, the parent and leaf trees, the handles of
`DirectoryEntryCache` and the blocks in memory.

| Variable | In the code |
|---|---|
| `device` | the directory's blocks as the device holds them: leaves (name to place, size and stamp of its metadata) and parents (key to block number) |
| `free` | what the area's allocator may hand out |
| `objects` | the live `Block` objects with their data; an attached one goes by its block's number, a detached one by a number no block has |
| `root` | `root_block_` |
| `handles` | the `EntryHandle` of each open name: the object and the place in it |
| `request` | the last call and its arguments; nothing but `Killed` depends on it |
| `outcome` | what the last call returned, threw or asserted |

A call is one action (`Insert`, `Replace`, `Erase`, `LoadEntry`, `DropEntry`,
`UpdateEntry`, `Flush`, `Reopen`), failed lookups among them.  `Killed` is the
environment: the program ends without running a destructor, right after
`WfsDevice::Flush` (wfs_device.cpp:85), and the directory is read again from what
the device has.  At other moments nothing is promised (section 7).  `split_tree` is `SplitTree`, with
`SplitRoot` and `SplitInPlace` for its branches and `InsertChild` for the
recursion into the parent; `Erase` goes up by `DeleteChild` and `EraseChild`.
Iterators are positions: the object of a leaf with the parents above it and the
key each is at, and keep stale keys where the code's iterators do.  At the end
of each call the objects nobody holds write their data and go (`Collected`), as
`~Block` does; writes set no dirty flag in the model because every write of this
code goes through `GetDataForWriting`, which sets it.  A failed assertion ends
the program; the model stops before that call.

Abstracted: which free block is taken (the least; `FreeBlocksAllocator` says
which); the room in a leaf, a sum of sizes where the code has a buddy heap with
fragmentation and nodes (`DirectoryTree`); the room in a parent, a number of
children; an entry
and its handle, which are one.  `LongNames` brings back what the inner nodes of
a block can do beyond this: a leaf copied anew when a name is erased, and
`can_erase` false, for full parents only.  `FlushEachCall` is an application
that flushes after every call; without it blocks stay in memory as long as a
handle holds them.

**`BuddyHeap`** is what the heap of a directory block promises: aligned blocks
of 2^k units that nobody else holds.  Its only variable is who holds what;
since freed neighbours are always joined, the free blocks (`FreeBlocks`) follow
from that.  **`SubBlockAllocator`** is the code, over the same `held` (it extends
`BuddyHeap`, whose sizes are the code's, and implements its `HeapSpec` with `held`
for itself): `free_list` is the header's lists, `entries` the links in the free
blocks, and `marks` what each place of the block says of itself (a free mark and
a size), true or left over.  `Freed` is the loop of `Free`: how far the block joins
(`JoinedSize`), the other halves unlinked, the result put at the end of its
list.  The halves are of different sizes, hence in different lists, so that
unlinking them at once is unlinking them one by one.  `WriteOver` is a caller
writing to its block; without it what was in the block stays.  `Reinit` sets
the heap up in a used block, as an emptied or rebuilt directory does.

**`DirectoryTree`** is the tree in one block of a directory, `DirectoryTree`
with what `DirectoryLeafTree` and `DirectoryParentTree` override, and the calls
`DirectoryMap` makes on one block.

| Variable | In the code |
|---|---|
| `held` | the block's heap, that of `BuddyHeap` |
| `nodes` | `DirectoryTreeNodeHeader` and what follows it, by offset: the prefix, a child's offset for each next character, the leaf |
| `root`, `records_count` | the fields of `DirectoryTreeHeader` |
| `metadata` | the entries' metadata in the block, by offset: the name each was written for |
| `kind`, `outcome` | whether the block is a leaf or a parent; what the last call returned, or that an assertion failed |
| `request` | the last call with its key and value, for `SortedRecords` |
| `scene` | constant: which names and sizes a behaviour uses |

`InsertedBelow` is `insert` with its four cases and what each gives back when a
node cannot be had; `RecreatedAs` is `recreate_node` (in its place, in a new
one, or shrunk), `Merged` and `MergeCopied` are `merge_empty_node` and the tree
written anew into its own block; `Pruned` is the loop at the end of `erase`;
`SplitCopied` is `split_copy`.  An iterator is the nodes above a leaf with the
character each is at.  `NodeLog2` computes a node's size from the very bytes the
code counts, so that nodes grow and shrink at the code's thresholds.

**`SortedRecords`** says what that is for: records with keys in the order of
bytes, of which a call adds, changes or drops the one it names, or is refused; a
division keeps the lesser or the greater half; the first key of a parent is empty.
`DirectoryMap` treats a block's tree as such a map; that is what
`directory_tree` checks of the tree.

**`PTree`** is `PTree` with its nodes, for the two uses the code has: an `RTree`
in a block of its own and the `FTree`s of one block, one for each size of
extent, whose nodes come from the same heap.

| Variable | In the code |
|---|---|
| `nodes` | `PTreeNode`s by entry of the heap: keys and, in parents, children |
| `headers` | `PTreeHeader` of each tree |
| `items` | what the trees hold from begin to end, in order: a function of the two above |
| `at`, `index`, `is_forward`, `reverse_end` | `FTreesIterator` |
| `other` | the keys of the half the caller did not go on with after a split |
| `request`, `outcome` | the last call with its tree and key, and what it returned |
| `build`, `calls` | constant: the block to begin with; how many calls may still change it |

`Grown` is `grow_tree`: the path of full parents up to one that has room, or to
a new root, each cut where `SplitPoint` says.  `InsertedCompact` writes five
items to a node, level by level, as the split of an FTrees block does;
`ErasedBack` is the erasure of a range.  Values stay with their keys and are
left out.  **`SortedKeys`** is the promise: sets of keys, of which a call adds or
drops the one it names, says that it exists, or is refused.

**`FTreesIterator`** is the iterator over all trees of a block at once, with
`FTrees::begin`, `end` and `find`; a tree is the sequence of its keys there, and
a tree's own `find` may be off by one as `PTree` says it can be (`Finds`).
`sure` is the model's own: it is FALSE after a `find` that missed.
## 4. The runs

| Run | Question | Properties |
|---|---|---|
| `layout` | over every size, up to the 32-bit bound, and any sequence of them: does a file keep to the documented range of its category, do units cover it, is it rebuilt only when it must be? | `WithinDocumentedRange`, `UnitsCoverFile`, `RebuildOnlyWhenForced` |
| `resize_small` | does a file behave as bytes through all categories, wherever calls fail? | `NothingLeaks`, `OldBytesUntilCommit`, `KeepsPromise` |
| `resize_large` | with several clusters and metadata blocks: is the copy complete at the commit, do blocks follow the protocol, does every call return? | `TargetDurableAtCommit`, `CachedBlocksOwned`, `FollowsOwnership`, `CallReturns` |
| `allocator_pages` | with tiny tree pages and a cache: is any block lost, given twice or counted wrong, through every history of single units? | `NothingLost`, `PagesInUse` |
| `allocator_extents` | with three unit sizes, requests of several units and quotas in one page: are extents maximal, and refusals justified? | `NothingLost`, `UnitsAligned`, `WholeUnitsFound`, `RefusedOnlyWhenShort` |
| `allocator_merge` | is what a call hands out really out of the tree? (violated) | `HandedOutTaken` |
| `tree_nodes` | is the free list sound through every history of allocations and partial frees? | `ListInOrder`, `Coalesced`, `FreeOrHeld`, `ImplementsPool` |
| `block_trees` | do the trees of a block keep their keys through splits at every place of full nodes, own each node once, and are they walked in order in both directions? | `NodesInTrees`, `FindsNearest`, `BeginIsLeast`, `KeepsKeys`, `WalksInOrder` |
| `sub_block` | through every history, with what is left in the block: are the buddy lists sound, and do they implement the heap? | `ListsLinked`, `WholeBlocksListed`, `MarksTellFree`, `ImplementsHeap` |
| `directory_tree` | whichever way nodes are cut, joined, moved, written anew or copied to the halves: does a block's tree keep its records, leak nothing, and find and walk in order? | `NeverBroken`, `BlocksAreTheTree`, `NoneToMerge`, `FindsNearest`, `WalksBothWays`, `KeepsRecords` |
| `directory_map` | with metadata of two sizes, replaced and erased in every order, repeated splits and open entries: does the directory stay a map, lose no block, keep its handles and fail no assertion? | `HandlesCurrent`, `NoBlockLost`, `NoAssertFails`, `KeepsMap` |
| `directory_flush` | with blocks held in memory, written back, flushed and read again, even after the program was killed once all was flushed: does each call still do exactly what it was asked, and does nothing get lost? | `KeepsMap` |

**What the violated run shows.**  `AllocBlocks` chooses several extents and then
removes them one by one, but a removal can change the others.  In
`allocator_merge` a request takes two single blocks from two extents.  Removing
the first empties its tree page; the page's block becomes free, joins the second
extent and lifts it to the next bucket.  The second is then looked for in its
old bucket, where `find` falls back on the first extent there, which lies behind
it but reaches far enough to be accepted (free_blocks_allocator.cpp:253-258):
that one is erased, its remainder refused, and the block handed out remains
free.  Hence `allocator_pages` asks for one unit at a time, so that each call
takes one extent, and `allocator_extents` keeps the tree in one page: in both
nothing is lost.

The models show more that a run of its own is not kept for.  Each can be seen by
changing constants:

* `allocator_merge.cfg` with SPECIFICATION `SpecUsed`, 44, `ThreeSizes`, 5, 0, 0
  for `LastBlock`, `SizeBuckets`, `PageCapacity`, `CacheLog2`, `AreaStart`,
  `NoRequests`, `SixPairs` and the invariant `AreaTaken`: the remainder of the
  first run of a quota's space is put back in two pieces; the full page splits
  and takes for its sibling a block of a run that was chosen, too.
* The same file with the invariant `RangeCheckExact`: `IsRangeIsFree` misses the
  first free extent when nothing lies before the range.
* `DirectoryMap` with 1..5, `{1, 3}`, `{0}`, 6, 3, 0, 1..10, `{}`, TRUE, FALSE
  for `Names`, `Sizes`, `Stamps`, `LeafCapacity`, `ParentCapacity`,
  `RootNumber`, `Blocks`, `HandleNames`, `FlushEachCall`, `LongNames` and the
  property `KeepsMap` (`VIEW UpToRequest`): `split_tree` leaves the parent's iterator at
  the new right block (directory_map.cpp:264); when the call goes on in the left
  half and that must be split too, line 257 writes its number over the link to
  the right half.
* The same with `{2}`, 4, 4, 1..12 for `Sizes`, the capacities and `Blocks` and
  `LongNames = TRUE`: when removing a child needs a split of the parent
  (`can_erase` false), the child is looked for in the right half only, and an
  assertion says that it is found there (`NoAssertFails`, directory_map.cpp:178).
  If the child is the first, its key is empty, and so is the first key of the
  right half, whose child is unlinked in its place (`KeepsMap`).
* `directory_map.cfg` with `LongNames = TRUE` and `Sizes = {1}`: erasing a name
  may copy its leaf anew, and nobody tells the handles of the other names
  (`HandlesCurrent`).
* `directory_map.cfg` with `Blocks = {1, 2, 3}`: both halves of a block are
  written before the parent takes the right one, so an insertion refused above
  them leaves the right half unreachable (`KeepsMap`).
* `directory_tree.cfg` with the only scene
  `[Parent({Repeat(1, 6), Repeat(1, 6) \o <<2>>, Repeat(1, 6) \o <<3>>, Repeat(1, 6) \o Repeat(4, 11), Repeat(2, 6)}) EXCEPT !.erased = {Repeat(1, 6)}]`,
  a sixth child and `LeastSplit = 9`: a parent filled to the last units loses a
  key whose node has three children.  The node is shrunk in its place, and there
  `init_new_node` clears it before it reads its children from it
  (directory_tree.h:324, 369): the assertion on its size fails (`NeverBroken`)
  and the children are gone (`BlocksAreTheTree`, `KeepsRecords`).
* The same with the only scene
  `[Parent({<<1, 1>>, <<1, 2>> \o Repeat(9, 25), <<2>> \o Repeat(9, 12), <<3>> \o Repeat(9, 5)}) EXCEPT !.erased = {<<1, 1>>}]`
  and `MaxLog2 = 3`: `can_erase` asks whether the node can be joined with its
  first child, which is the one that goes (directory_parent_tree.cpp:53); with the
  one that stays it grows beyond what a tree written anew has room for, and
  `merge_copy` uses a node it did not get (`NeverBroken`).

Three more paths were met in reading `ptree.h` and take callers or blocks the
repository does not have: `erase(key)` of a key that is absent and would be in
a leaf that is not the last erases behind that leaf (line 292), `insert_compact` does not ask
whether it got a node (lines 240, 257), and `split` ignores whether the right half
took every key (line 317).

The passing directory runs therefore have metadata of at most twice the least
size, so that one split makes room, blocks enough, `LongNames` false, and in
`directory_tree` no parent so full that the last two happen.

**Bounds.**  `layout` takes every size of a geometry in which the 32-bit bound is
what limits a file.  The theorems of section 6 cover every geometry that meets
`OrderedGeometry`, and the format's do: units of 4096, 32768 and 262144 bytes or
of twice that, five blocks, five large blocks and four clusters at most, and an
inline capacity below 512 bytes.  `resize_small` has units of 2, 4 and 8 bytes on 12
blocks with one taken in the middle, so that each category is reached by
growing and by shrinking, units are cut inside a sector, and space runs out
both at data units and at metadata blocks; `resize_large` has 32 blocks, three
clusters, two metadata blocks and a write across several blocks.  `Placing`
bounds which free extents an allocation may take to the lowest and the highest
ones; in the code it depends on the buckets.  The allocator's areas have 10 to 13 blocks and
units of 1 and 4 or of 1, 2 and 4 blocks.  With three extents to a page the 10
blocks of `allocator_pages` make up to four pages, and its histories reach the
empty and the whole area again; the area starts at an odd physical block so
that the cache's alignment differs from the extents'.  The 13 blocks of
`allocator_extents` let the last bucket cut a joined extent, which needs more
than twice its largest unit.
`directory_map` has five names with metadata of 1 or
2 in leaves of 4, three children to a parent and two names that may be open:
leaves split unevenly and again after a replacement, the root splits as a leaf
and as a parent, trees grow and empty.  Its view `UpToNumbers` leaves out the
numbers of blocks and the places in leaves: the code takes whichever is free and
goes on in the same way, so that directories that differ in these only have the
same future, and no property speaks of them, except that a handle points at its
entry, which the view keeps.  `directory_flush` has two children to a parent, one
open name, two stamps, and flushes at any time.  There a lost write shows later:
when the block is loaded again, when the directory is reopened, or when the
program is killed after a flush.  The views `UpToRequest` of `DirectoryMap`,
`DirectoryTree` and `PTree` leave out the last call, on which nothing depends,
except, in `DirectoryMap`, that it was a flush, after which `Killed` may follow.
TLC checks the refinements on every step it takes, also on those to states whose
view is known, and no invariant speaks of `request`.  `sub_block` has eight units in
two blocks of the largest size; joins over two steps, lists of several blocks
and left-over marks all occur.
`directory_tree` has blocks of 16 units of eight bytes, nodes of up to four units
and metadata of two or four, and goes through five scenes: long names, of which
erasing one joins nodes into larger ones, down to a tree written anew
(`Merging`); short names enough for a division (`Dividing`); metadata replaced by
larger and smaller (`Replacing`); parents that become full, of names without and
with a common prefix (`Filling`, `Sharing`), where `can_erase` refuses.  A refused
call may be followed by a division or, since the other half of the directory may
have been meant, by any other call.  `LeastSplit` is 4 because a block of the
real size is never full with fewer records; with three, the left half may end
at the root's own leaf, which `split_copy` copies with everything below it.
`Placing` says which of several least free blocks is at the head of its list: the
lowest; `sub_block` says that it may be any.  Blocks below a parent are alike
(symmetry).
`block_trees` has the code's own numbers of items to a node.  Since a node is
split only when full, its blocks begin filled: a parent of six leaves of which
each may be the one to split, the same without room for another node, two levels
of full parents of which the first or the fourth child is split, and FTrees
blocks written compactly; small blocks and walks start from empty.  `calls`
bounds the calls that change a large block, never those of a small one.  `sure`
keeps `WalksInOrder` to walks that start where no tree's `find` was off by one;
`FindsNearest` says how far that can be.
`tree_nodes` has ten entries and requests of one to three: all 1024 sets of
entries in use are reached.

**Mutants.**  Next to some definitions stands a variant marked "Mutant": the
same operator with a mistake of the kind the code could have had (a dropped
rollback, an index off by one, slack bytes left in a sector).  With the variant
in place the run must find the property violated; `PROJECT.json` lists the
pairs.  They show that each property depends on the code it is about.
## 5. Fairness

`FileResize` assumes weak fairness of `Proceed`, the steps of a call that has
begun: one thread runs the call to its end and nothing can block it, there
being no locks and no waiting in the library.  Nothing is assumed about whether
or when a user calls.  Under this `CallReturns` says that the loops of
`Resize` and `file_device::write` end.  The other specifications need no
fairness, their properties being safety properties.
## 6. What is proved

`LayoutProofs`, from `PositiveGeometry`, `OrderedGeometry` and
`FileSizesAssumption` only, for any set of sizes:

* `TypeCorrect`, `RangeHolds`, `UnitsAlwaysCover`, `ItemsNeverExceed`: the
  two invariants the layout run checks, and two more they rest on.  The
  inductive invariant is `LayoutInv`: the layout is exactly `BuildLayout` of its size and category,
  and size and category are in the documented range.  `WithinDocumentedRange`
  alone is not inductive: the next category is computed from the recorded size,
  so the record has to be known to be well formed.  The argument for a resize
  goes by direction: growing, the result is the larger of `MinimumCategory` and
  the present category, whose capacity is at least that of the minimum;
  shrinking, dually, the lower bound of the present category carries over.
* `RebuildsForced`: the action property, from the same invariant.

`BlockOwnershipProofs`, for any sets of blocks and files:

* `EveryBlockHasOneOwner` and `HeldIsNeverTaken`.  `TypeOK /\ OneOwner` is
  inductive: each action moves blocks between two of the four sets, and that
  those are pairwise disjoint is what makes `Release` and `Rollback` harmless.
  `ResizeFollowsOwnership` below shows that `FileResize` takes only steps of this
  protocol, so both theorems speak about it.

`FileResizeProofs`, from the geometry assumptions of `FileLayout` and
`DeviceAssumption`: for any area, whatever blocks others occupy in it, any block,
sector and cluster sizes that divide one another, any sizes to resize to and any
writes of at least one byte (`file_device::write` returns early for none).  `LayoutLemmas` holds
the arithmetic of layouts both this module and `LayoutProofs` use.

* `ResizeFollowsOwnership`: every step allocates, rolls back, commits, releases or
  leaves every block with its owner.
* `ResizeLeaksNothing`: between calls each block is free, another's, or one the
  metadata leads to, and never two of these.
* `CacheHoldsNoFreeBlock`: a block that may be handed out has no object in the
  device's cache.

  The inductive invariant is `FileResizeInv`, `StructureInv` and the ownership
  invariant of `BlockOwnershipProofs`.  Ownership alone is not inductive: a rollback
  is harmless only because the call's units are pending and its metadata is not
  built on them (`BeforeCommitInv`), a commit in place keeps the common prefix of
  the old list and frees the rest only because no two units share a block
  (`Apart`), a category 4 file has an item in its metadata blocks for each unit
  (`MetadataInv`, `BuiltInv`), and what is freed after the commit is what the
  entry kept at the start of the call led to (`RetiredInv`).

`FileContentsProofs`, from the same assumptions:

* `OldBytesStayUntilCommit`: until the commit the metadata in force reads as before
  the call.
* `RebuildDurableAtCommit`: the copy a rebuild made is complete on the device, hashes
  included, when it becomes the file.
* `ResizeKeepsPromise`: the refinement of `ByteFile`.  The steps of a call map to no
  step until the last, which is the whole resize, the whole write, or a refusal
  that leaves the file as it was.
* `CallsDrawToTheirEnd`: each step of a call goes on to a later stage, or stays in
  its stage and leaves less to do there: metadata blocks to allocate, data
  blocks to copy or to turn over, bytes to write.  What is left is never negative:
  no loop oversteps its end.  `CallReturns` needs besides only that a call which
  has begun can always go on, and does; that is left to TLC.

  The inductive invariant is `FileResizeInv /\ ContentsInv`.  `ContentsInv` says, for
  each stage of a call, which bytes are where: how many data blocks of the copy
  hold their share of the new bytes (`CopyInv`), which data blocks a resize in
  place has turned over after its commit and which still hold the old bytes
  (`TurnOverInv`), how far a write has come (`WritingInv`), and before and after
  that the whole file (`OldBytesInv`, `NewBytesInv`).  Three lemmas carry the
  proofs: `FlushedThenLoaded`, that a flushed data block loads as what was flushed
  and all others load as before, which needs `Apart` and that the hash slot
  written is the block's own; `ReadsEachBlock`, that a file reads as given bytes
  exactly if each data block holds its share of them; and `SameContents`, that a
  file does not notice changes to blocks it does not own, which is where ownership
  comes in.  TLC checked both invariants, and
  what `CallsDrawToTheirEnd` states, on the two resize runs' instances first.

`TreeNodesProofs`, for heaps of any size and requests of any count:

* `LinksVisitAll`, `NeighboursJoined`, `NoneLostOrShared`, `TypeCorrect`: the
  inductive invariant `ListInv` is the conjunction of all four.  None of the
  parts is inductive alone.  The heart is `FreedApart`: that a freed range lies
  between free entries follows from `FreeOrHeld`; and `WrittenEntry`: what the
  entry has after taking in its successor, and where it stands in the list.
* `CountIsRight` from these, by the cardinality of a union and a difference.
* `HeapIsAPool`: the refinement of `PlacePool`.
* `FirstRunIsTaken`: `Alloc` finds a place exactly if so many adjacent entries are
  free, and it is the lowest: a run of free entries lies in one entry of the list,
  because neighbours are joined.  `PTree` takes its nodes by this rule (`CanAlloc`
  and `FirstRun`), so its heap is the one proved here.
* `FreedHasItsPlace`: there is exactly one entry for the search of `Free` to end at,
  which only looks at links and has no check for the end of the list.

  TLC checked what the last two state on the instance of `tree_nodes` first.

`FTreesIteratorProofs`, for any number of trees of any length and any calls before:

* `StepsAreNeighbours`: `++` and `--` go to the next and to the previous of all
  keys, however the walk turned.  The inductive invariant `WalkInv` says where
  each iterator is relative to the current key: going forward all others are at
  their first key behind it; going backward at their last before it, or at their
  first, noted in `reverse_end_`.  It holds as long as `sure`, that is, wherever
  the walk was begun by `begin`, `end` or a `find` that missed no key.
* `BeginKnown`: `is_begin`, which looks at all iterators going forward and at
  `reverse_end_` going backward, is true exactly at the least key.

`SubBlockProofs`, for heaps and requests of any size, from `HeapAssumption`,
`BuddyAssumption` and `PowersAssumption` (how powers of two are computed, for which
the provers have no rules; TLC evaluates it):

* `HeapImplemented`: the refinement of `BuddyHeap`.  `Alloc`, `Free`, `Shrink` and
  `Reinit` map to `Take`, `Give`, `Cut` and `StartOver`, `WriteOver` to no step.
* `ListsStayLinked`, `BlocksListedWhole`, `MarksTrusted`: the three invariants of
  the run, and `HeapFitsTogether`, the inductive invariant they follow from.
* `RefusedOnlyWithoutRoom`: an allocation fails only if no free block is of its size.
* `RoomIsTaken`: whatever was taken, cut, freed and joined before, as long as an
  aligned run of the size is unused, `Alloc` comes to the head of a list, and what
  it takes there is such a run, in a block of the least size of which any is free.
* `NothingShared`: what `BuddyHeap` promises is worth having: blocks in use neither
  overlap nor leave the heap.

  The inductive invariant, `IInv`, is `Good` of the code's state and `held`.  None of the
  run's invariants is inductive alone: `Free` joins a block with its other half when
  the mark there says it is free, so the lists are right only if the marks are, and a
  mark left over from an earlier block does no harm only because of what can lie
  there now.  `Good` has: each list is one ring through the blocks of its size
  (`Lists`); listed and held blocks are apart (`Apart`) and together are the whole
  heap (`Partition`); no two halves are both listed (`NonePaired`); and `Marked`, that a held block
  starts with no free mark, a listed one bears its size (or no mark at the
  largest, which never joins), and any other mark left in the block is aligned and no larger
  than the block it lies in.  The steps of the code are followed by one lemma each: `HandOut`
  (unlink and mark used), `CutDown` (the halves `Alloc` and `Shrink` put back), `GiveBack`
  (the joins of `Free`) and `Overwrite` (a caller's writes).  `MarkTells` says that the
  mark at the other half is true when it says that half is free, and `LinkedLists`,
  `UnlinkedLists` and `SplitLists` what a link or an unlink does to the ring.  The
  recursive functions of the module are shown to exist first (`ShrunkIs`), by a
  least counterexample from the library's well-founded induction.  TLC checked `IInv` on the instance of
  `sub_block` before it was proved.

Only model-checked:

* Liveness: `CallReturns` under weak fairness, which the provers do not handle.  Its
  safety half is `CallsDrawToTheirEnd`.
* `FreeBlocksAllocator`, `DirectoryMap` and `DirectoryTree`.  Their operators follow
  code that calls itself, so they are RECURSIVE, which the provers do not read.  A
  theorem for every value of the constants is not to be had either: the code breaks
  most of their properties on instances beyond those of the runs, as `allocator_merge`
  and the list in section 4 show, so it would have to begin by excluding those.
* `PTree`, whose operators are RECURSIVE too: paths, walks and growth follow the
  depth of the tree.  What it stands on is proved, the heap its nodes come from and
  the walks over its keys (`FirstRunIsTaken`, `StepsAreNeighbours`, `BeginKnown`);
  that its calls keep the keys in order is not.
## 7. What is not modelled

* `EPTree` above one block, with its limit of three levels,
  `RecreateEPTreeIfNeeded` and `FindSmallestFreeBlockExtent`, the iterators
  across the blocks of the free blocks tree, quota area (section 2).  In
  `FreeBlocksAllocator` a page holds a number of extents, in `DirectoryMap` a
  block a sum of sizes: the nodes inside are `PTree` and `DirectoryTree`, each
  checked for one block, not composed with the layer above.  `FileResize` sees
  the allocator as a set of free blocks and the directory as one atomic
  replacement that may fail for lack of space.
* Errors other than lack of space.  A device error or a corrupted image ends a
  call by an exception at almost any point; the library promises nothing then.
* Crashes.  There is no journal and blocks are written back when their last
  reference goes, in an order that depends on object lifetimes; what an image
  looks like after a crash in the middle of a call, or between a change and the
  next flush, is not specified by the code, and no property could be stated
  against it.  The end of the program right after a flush is modelled (`Killed`).
* Encryption and hashing as such, key files, the host device, formatting,
  recovery heuristics, error texts, and the read-only wrappers around the
  directory map: no decisions of their own or pure I/O.
