------------------------ MODULE FreeBlocksAllocator ------------------------
(***************************************************************************)
(* The free blocks of an area (src/src/free_blocks_allocator.cpp and       *)
(* free_blocks_tree_bucket.cpp).  They are kept as extents, each in the    *)
(* bucket of the largest unit it is made of, joined and lifted to a higher *)
(* bucket when a larger unit becomes whole.  The extents live in tree      *)
(* pages which are themselves blocks: a full page takes its sibling from   *)
(* the very extents it holds, an empty one becomes an extent in turn.      *)
(* Metadata blocks come one at a time from a cache of contiguous blocks.   *)
(*                                                                         *)
(* One call is one step.  What the calls do to the allocator is written as *)
(* operators on its state, in the order of the code, because they call     *)
(* each other: inserting may remove, removing adds.                        *)
(***************************************************************************)
EXTENDS Integers, FiniteSets, SequencesExt, FiniteSetsExt, Functions

CONSTANTS
  SizeBuckets,     \* kSizeBuckets: log2 of the unit of each bucket
  TopBucketUnits,  \* units of the last bucket an extent may have, 2^4 in the code
  PageCapacity,    \* extents a page (a block of FTrees) has room for
  CacheLog2,       \* BlocksCacheSizeLog2(), 0 on small areas: no cache
  AreaStart,       \* physical number of the area's first block
  FreeRanges,      \* free when the area is formatted, ascending: [block_number, blocks_count]
  Requests,        \* [count, index] of the data units callers ask for
  AreaRequests     \* and of the space for quotas

MaxBucket == Len(SizeBuckets) - 1
UnitSize(bucket) == 2 ^ SizeBuckets[bucket + 1]

ASSUME BucketsAssumption ==
  /\ SizeBuckets[1] = 0
  /\ \A i \in 1..MaxBucket : SizeBuckets[i] < SizeBuckets[i + 1]
  /\ TopBucketUnits \in 2..16
  /\ \A b \in 1..MaxBucket : UnitSize(b) <= 16 * UnitSize(b - 1)

\* A page's fullest tree has two extents at least, so that it can be split.
ASSUME PageAssumption == PageCapacity > Len(SizeBuckets)

VARIABLES
  allocator,  \* the allocator's blocks, see Init
  held        \* what callers hold: [block_number, blocks_count, role]

vars == <<allocator, held>>

FirstPage == 2   \* the block of the first page, never deleted
-----------------------------------------------------------------------------
(* Extents, in the order of their block numbers.                           *)

NextUnitSize(bucket) ==
  IF bucket = MaxBucket THEN TopBucketUnits * UnitSize(bucket) ELSE UnitSize(bucket + 1)

align_ceil(n, unit) == ((n + unit - 1) \div unit) * unit
align_floor(n, unit) == (n \div unit) * unit

BlocksOf(extent) == extent.block_number..(extent.block_number + extent.blocks_count - 1)
EndOf(extent) == extent.block_number + extent.blocks_count

Before(e, f) == e.block_number < f.block_number
Sorted(set, Less(_, _)) ==
  [i \in 1..Cardinality(set) |->
     CHOOSE e \in set : Cardinality({f \in set : Less(f, e)}) = i - 1]
Ascending(extents) == Sorted(extents, Before)
Lowest(extents) == CHOOSE e \in extents : \A f \in extents : ~Before(f, e)
Highest(extents) == CHOOSE e \in extents : \A f \in extents : ~Before(e, f)

InBucket(tree, bucket) == {e \in tree : e.bucket_index = bucket}

\* find(key, exact_match = false): the last extent starting at or before the
\* key; failing that, the first extent of all.  Empty if there is none.
Find(extents, key) ==
  LET upto == {e \in extents : e.block_number <= key}
  IN  IF upto # {} THEN {Highest(upto)}
      ELSE IF extents # {} THEN {Lowest(extents)} ELSE {}

\* The page an extent belongs to: pages maps the least key of each to its block.
PageOf(pages, key) == Max({k \in DOMAIN pages : k <= key})

PageExtents(state, page) == {e \in state.tree : PageOf(state.pages, e.block_number) = page}

\* FreeBlocksAllocator::IsRangeIsFree
IsRangeIsFree(tree, first, count) ==
  LET found == Find(tree, first)
      after == {e \in tree : \A f \in found : Before(f, e)}
  IN  \/ \E e \in found : first \in BlocksOf(e)
      \/ after # {} /\ Lowest(after).block_number \in first..(first + count - 1)
-----------------------------------------------------------------------------
(* The cache of single blocks.                                             *)

\* Mutant: the count of free blocks is left as it is.
TakenNotCounted(state, count) ==
  [state EXCEPT !.cache_first = @ + count, !.cache_count = @ - count]

TakenFromCache(state, count) ==
  [state EXCEPT !.cache_first = @ + count, !.cache_count = @ - count,
                !.free_blocks_count = @ - count]

\* Aligned to the cache's size on the whole device, not in the area.
CacheAligned(block_number) ==
  align_ceil(AreaStart + block_number, 2 ^ CacheLog2) - AreaStart
-----------------------------------------------------------------------------
(* Adding and removing extents.  A range is [block_number, blocks_count].  *)

RangeOf(first, end) == [block_number |-> first, blocks_count |-> end - first]
Extent(range, bucket) ==
  [block_number |-> range.block_number, blocks_count |-> range.blocks_count, bucket_index |-> bucket]
NotEmpty(ranges) == SelectSeq(ranges, LAMBDA r : r.blocks_count > 0)

RECURSIVE AddFreeBlocks(_, _), AddFreeBlocksForSize(_, _, _), RemoveFreeBlocksExtent(_, _)

AddRanges(state, ranges) == FoldLeft(AddFreeBlocks, state, NotEmpty(ranges))

\* Mutant: pages are left behind empty.
NoPages(state, extents) == {}

\* FreeBlocksTreeBucket::erase: a page goes with its last extent.
EmptiedPages(state, extents) ==
  {k \in DOMAIN state.pages \ {0} :
     PageExtents(state, k) # {} /\ PageExtents(state, k) \subseteq extents}

Erased(state, extents) ==
  [state EXCEPT !.tree = @ \ extents,
                !.pages = Restrict(@, DOMAIN @ \ EmptiedPages(state, extents))]

\* Mutant: blocks_to_delete is dropped.
NothingToDelete(state, extents) == <<>>

\* blocks_to_delete: the blocks of the pages that go, the last page first.
BlocksToDelete(state, extents) ==
  LET pages == Sorted(EmptiedPages(state, extents), LAMBDA k, l : k > l)
  IN  [i \in DOMAIN pages |-> RangeOf(state.pages[pages[i]], state.pages[pages[i]] + 1)]

\* A page is split at the middle of its fullest tree.
SplitPoint(page) ==
  LET items(b) == Cardinality(InBucket(page, b))
      fullest  == Min({b \in 0..MaxBucket : \A c \in 0..MaxBucket : items(c) <= items(b)})
  IN  Ascending(InBucket(page, fullest))[(items(fullest) \div 2) + 1].block_number

Split(state, page, extent, block_number) ==
  [state EXCEPT !.tree = @ \cup {extent}, !.pages = (SplitPoint(page) :> block_number) @@ @]

\* The block of the new page is the first of the lowest bucket's extents in the
\* page; it is removed once the page is split.
SplitFromItself(state, page, extent, donor) ==
  RemoveFreeBlocksExtent(Split(state, page, extent, donor.block_number),
                         [donor EXCEPT !.blocks_count = 1])

InsertedIn(state, page, extent) ==
  IF \E e \in InBucket(page, extent.bucket_index) : e.block_number = extent.block_number THEN state
  ELSE IF Cardinality(page) < PageCapacity THEN [state EXCEPT !.tree = @ \cup {extent}]
  ELSE IF state.cache_count > 0
    THEN Split(TakenFromCache(state, 1), page, extent, state.cache_first)
  ELSE SplitFromItself(state, page, extent,
                       Lowest(InBucket(page, Min({e.bucket_index : e \in page}))))

\* FreeBlocksTreeBucket::insert
Inserted(state, extent) ==
  InsertedIn(state, PageExtents(state, PageOf(state.pages, extent.block_number)), extent)

\* Mutant: never join to the size of the next unit or more.
JoinsSmall(boundary, count, bucket) == count < NextUnitSize(bucket)

\* Two neighbours become one extent unless that would hide a whole larger unit.
Joins(boundary, count, bucket) ==
  boundary % NextUnitSize(bucket) # 0 \/ count < NextUnitSize(bucket)

\* Mutant: the last bucket does not cut.
WholePiece(first, end) == <<RangeOf(first, end)>>

\* Where the last bucket cuts an extent: at every boundary of the next size.
RECURSIVE Pieces(_, _)
Pieces(first, end) ==
  LET next == NextUnitSize(MaxBucket)
      cut  == align_ceil(first + 1, next)
  IN  IF first = end THEN <<>>
      ELSE IF end - first < next THEN <<RangeOf(first, end)>>
      ELSE <<RangeOf(first, cut)>> \o Pieces(cut, end)

\* Which extents of the bucket the new one joins: the one before it is reused
\* in place, unless all of them are lifted to the next bucket.
Join(tree, start, stop, bucket) ==
  LET here   == InBucket(tree, bucket)
      before == {e \in here : EndOf(e) = start /\ Joins(start, stop - e.block_number, bucket)}
      lo     == Min({start} \cup {e.block_number : e \in before})
      after  == {e \in here : e.block_number = stop /\ Joins(stop, EndOf(e) - lo, bucket)}
      hi     == Max({stop} \cup {EndOf(e) : e \in after})
      lifted == bucket < MaxBucket /\ before \cup after # {} /\ hi - lo >= NextUnitSize(bucket)
  IN  [range  |-> RangeOf(lo, hi),
       lifted |-> lifted,
       gone   |-> after \cup (IF lifted THEN before ELSE {}),
       reused |-> before]

\* In place for the reused extent, the rest is new.
Stored(state, reused, extents) ==
  IF reused = {} THEN FoldLeft(Inserted, state, extents)
  ELSE FoldLeft(Inserted, [state EXCEPT !.tree = (@ \ reused) \cup {Head(extents)}], Tail(extents))

Placed(state, join, bucket) ==
  LET first  == join.range.block_number
      pieces == IF bucket = MaxBucket THEN Pieces(first, EndOf(join.range)) ELSE <<join.range>>
  IN  IF join.lifted THEN AddFreeBlocksForSize(state, join.range, bucket + 1)
      ELSE Stored(state, join.reused, [i \in DOMAIN pieces |-> Extent(pieces[i], bucket)])

AddSmaller(state, ranges, bucket) ==
  FoldLeft(LAMBDA s, r : AddFreeBlocksForSize(s, r, bucket - 1), state, NotEmpty(ranges))

AddJoined(state, range, join, bucket) ==
  AddRanges(AddSmaller(Placed(Erased(state, join.gone), join, bucket),
                       <<RangeOf(range.block_number, join.range.block_number),
                         RangeOf(EndOf(join.range), EndOf(range))>>, bucket),
            BlocksToDelete(state, join.gone))

AddFreeBlocksForSize(state, range, bucket) ==
  LET unit  == UnitSize(bucket)
      start == align_ceil(range.block_number, unit)
      stop  == align_floor(EndOf(range), unit)
  IN  IF range.blocks_count >= unit /\ start < stop
        THEN AddJoined(state, range, Join(state.tree, start, stop, bucket), bucket)
      ELSE AddSmaller(state, IF range.blocks_count < unit THEN <<range>>
                             ELSE <<RangeOf(range.block_number, start), RangeOf(stop, EndOf(range))>>,
                      bucket)

\* Refused, with an assertion, if part of the range is already free.
AddFreeBlocks(state, range) ==
  IF IsRangeIsFree(state.tree, range.block_number, range.blocks_count) THEN state
  ELSE [AddFreeBlocksForSize(state, range, MaxBucket)
          EXCEPT !.free_blocks_count = @ + range.blocks_count]

\* The extents that reach at least as far as the one to remove, looked for in
\* its own bucket and in those it may have been lifted to.
Holding(tree, extent) ==
  {e \in UNION {Find(InBucket(tree, b), extent.block_number) : b \in extent.bucket_index..MaxBucket} :
     EndOf(e) >= EndOf(extent)}

CutOut(state, extent, range) ==
  [AddRanges(Erased(state, {extent}),
             BlocksToDelete(state, {extent})
               \o <<RangeOf(extent.block_number, range.block_number),
                    RangeOf(EndOf(range), EndOf(extent))>>)
     EXCEPT !.free_blocks_count = @ - extent.blocks_count]

RemoveSpecificFreeBlocksExtent(result, range) ==
  LET holding == Holding(result.state.tree, range)
      extent  == CHOOSE e \in holding : \A f \in holding : e.bucket_index <= f.bucket_index
  IN  IF ~result.ok \/ holding = {} THEN [result EXCEPT !.ok = FALSE]
      ELSE [result EXCEPT !.state = CutOut(@, extent, range)]

\* As a whole or else one block after the other, until one is not found.
RemoveFreeBlocksExtent(state, range) ==
  LET blocks == [i \in 1..range.blocks_count |->
                   [block_number |-> range.block_number + i - 1, blocks_count |-> 1, bucket_index |-> 0]]
  IN  FoldLeft(RemoveSpecificFreeBlocksExtent, [ok |-> TRUE, state |-> state],
               IF Holding(state.tree, range) # {} THEN <<range>> ELSE blocks).state

RemoveAll(state, extents) == FoldLeft(RemoveFreeBlocksExtent, state, extents)
-----------------------------------------------------------------------------
(* Handing out blocks.                                                     *)

Refused(state) == [ok |-> FALSE, state |-> state, blocks |-> <<>>]

\* Mutant: an extent with more blocks than are needed is passed over.
RECURSIVE GatherWhole(_, _)
GatherWhole(extents, count) ==
  IF count = 0 \/ extents = <<>> THEN <<>>
  ELSE IF Head(extents).blocks_count > count THEN GatherWhole(Tail(extents), count)
  ELSE <<Head(extents)>> \o GatherWhole(Tail(extents), count - Head(extents).blocks_count)

\* The first extents, in block order, that together have so many blocks; the
\* last one cut.
RECURSIVE Gather(_, _)
Gather(extents, count) ==
  IF count = 0 \/ extents = <<>> THEN <<>>
  ELSE LET take == Min({Head(extents).blocks_count, count})
       IN  <<[Head(extents) EXCEPT !.blocks_count = take]>> \o Gather(Tail(extents), count - take)

BlocksIn(extents) == FoldLeft(LAMBDA n, e : n + e.blocks_count, 0, extents)

GatherUpto(tree, count, index, last_bucket) ==
  Gather(Ascending({e \in tree : e.bucket_index \in index..last_bucket}), count)

UnitsIn(extents, index) ==
  FlattenSeq([i \in DOMAIN extents |->
    [u \in 1..(extents[i].blocks_count \div UnitSize(index)) |->
       extents[i].block_number + (u - 1) * UnitSize(index)]])

\* Small units come from small extents if those have enough of them.
AllocBlocksOfSpecificSize(state, count, index) ==
  LET tried   == IF index <= 1 THEN {index, 1, MaxBucket} ELSE {MaxBucket}
      enough  == {b \in tried : BlocksIn(GatherUpto(state.tree, count, index, b)) >= count}
      extents == GatherUpto(state.tree, count, index, Min(enough))
  IN  IF enough = {} THEN Refused(state)
      ELSE [ok |-> TRUE, state |-> RemoveAll(state, extents), blocks |-> UnitsIn(extents, index)]

\* Refills the empty cache from the lowest of the buckets' first extents that
\* has twice its size, and so an aligned part of its size.
ReplanishBlocksCache(state) ==
  LET size     == 2 ^ CacheLog2
      firsts   == {Lowest(InBucket(state.tree, e.bucket_index)) : e \in state.tree}
      large    == {e \in firsts : e.blocks_count >= 2 * size}
      extent   == Lowest(large)
      first    == CacheAligned(extent.block_number)
      refilled == [state EXCEPT !.cache_first = first, !.cache_count = size,
                                !.free_blocks_count = @ + size]
  IN  IF large = {} THEN [ok |-> FALSE, state |-> state]
      ELSE [ok |-> TRUE,
            state |-> RemoveFreeBlocksExtent(refilled, Extent(RangeOf(first, first + size), extent.bucket_index))]

\* What the cache gives, refilled as long as that is possible.
RECURSIVE DrainCache(_, _)
DrainCache(state, count) ==
  LET take   == Min({count, state.cache_count})
      taken  == TakenFromCache(state, take)
      blocks == [i \in 1..take |-> state.cache_first + i - 1]
      refill == ReplanishBlocksCache(taken)
      rest   == DrainCache(refill.state, count - take)
  IN  IF take = count \/ ~refill.ok THEN [state |-> taken, blocks |-> blocks]
      ELSE [rest EXCEPT !.blocks = blocks \o @]

\* What the cache could not give comes from extents.
AllocRest(drained, count, index) ==
  IF count = 0 THEN [ok |-> TRUE, state |-> drained.state, blocks |-> drained.blocks]
  ELSE [AllocBlocksOfSpecificSize(drained.state, count, index) EXCEPT !.blocks = drained.blocks \o @]

AllocBlocks(state, units, index, use_cache) ==
  IF use_cache /\ index = 0 /\ CacheLog2 > 0
    THEN LET drained == DrainCache(state, units)
         IN  AllocRest(drained, units - Len(drained.blocks), index)
  ELSE AllocRest([state |-> state, blocks |-> <<>>], units * UnitSize(index), index)

\* Runs of adjacent extents, from the highest down, each with its extents from
\* the highest down; stops at a run that is long enough by itself.
RECURSIVE Runs(_, _, _)
Runs(runs, extents, wanted) ==
  LET e    == Last(extents)
      back == Last(runs)
      last == IF runs # <<>> /\ back.block_number = EndOf(e)
                THEN [block_number |-> e.block_number, blocks_count |-> back.blocks_count + e.blocks_count,
                      extents |-> Append(back.extents, e)]
                ELSE [block_number |-> e.block_number, blocks_count |-> e.blocks_count,
                      extents |-> <<e>>]
      now  == Append(IF Len(last.extents) > 1 THEN Front(runs) ELSE runs, last)
  IN  IF extents = <<>> \/ (runs # <<>> /\ back.blocks_count >= wanted) THEN runs
      ELSE Runs(now, Front(extents), wanted)

\* Mutant: the run is shortened but its extents are removed whole.
ShortenedRange(run, remainder) ==
  [run EXCEPT !.block_number = @ + remainder, !.blocks_count = @ - remainder]

\* A run without its first blocks.
RECURSIVE Shortened(_, _)
Shortened(run, remainder) ==
  LET lowest == Last(run.extents)
      cut    == Min({remainder, lowest.blocks_count})
      rest   == [run EXCEPT !.block_number = @ + cut, !.blocks_count = @ - cut]
  IN  IF cut = lowest.blocks_count THEN Shortened([rest EXCEPT !.extents = Front(@)], remainder - cut)
      ELSE [rest EXCEPT !.extents =
              Append(Front(@), [lowest EXCEPT !.block_number = @ + cut, !.blocks_count = @ - cut])]

\* The space of a new quota: one run if one is long enough, otherwise the
\* longest runs, the lowest of them shortened.
AllocAreaBlocks(state, units, index) ==
  LET wanted  == units * UnitSize(index)
      runs    == Runs(<<>>, Ascending({e \in state.tree : e.bucket_index >= index}), wanted)
      single  == runs # <<>> /\ Last(runs).blocks_count >= wanted
      Longer(a, b) == \/ a.blocks_count > b.blocks_count
                      \/ a.blocks_count = b.blocks_count /\ Before(b, a)
      longest == Sorted(ToSet(runs), Longer)
      Total(n) == FoldLeft(LAMBDA t, r : t + r.blocks_count, 0, SubSeq(longest, 1, n))
      needed  == {n \in DOMAIN runs : Total(n) >= wanted}
      chosen  == IF single THEN <<Last(runs)>>
                 ELSE Ascending(ToSet(SubSeq(longest, 1, Min(needed))))
      surplus == IF single THEN Last(runs).blocks_count - wanted ELSE Total(Min(needed)) - wanted
      used    == <<Shortened(chosen[1], surplus)>> \o Tail(chosen)
  IN  IF ~single /\ (needed = {} \/ Min(needed) > 256) THEN Refused(state)
      ELSE [ok |-> TRUE,
            state |-> FoldLeft(LAMBDA s, run : RemoveAll(s, run.extents), state, used),
            blocks |-> [i \in DOMAIN used |->
                          [block_number |-> used[i].block_number, blocks_count |-> used[i].blocks_count]]]
-----------------------------------------------------------------------------
(* The allocator's blocks after FreeBlocksAllocator::Init, and the calls   *)
(* of QuotaArea.                                                           *)

Init ==
  LET size    == 2 ^ CacheLog2
      first   == FreeRanges[1]
      cached  == IF CacheLog2 = 0 THEN 0
                 ELSE Min({CacheAligned(first.block_number + size) - first.block_number,
                           first.blocks_count})
      empty   == [tree |-> {}, pages |-> (0 :> FirstPage), free_blocks_count |-> cached,
                  cache_first |-> IF CacheLog2 = 0 THEN 0 ELSE first.block_number,
                  cache_count |-> cached]
      rest    == <<[block_number |-> first.block_number + cached,
                    blocks_count |-> first.blocks_count - cached]>> \o Tail(FreeRanges)
  IN  /\ allocator = AddRanges(empty, rest)
      /\ held = {}

Unit(n, size, role) == [block_number |-> n, blocks_count |-> size, role |-> role]

AllocMetadataBlock ==
  LET result == AllocBlocks(allocator, 1, 0, TRUE)
  IN  /\ result.ok
      /\ allocator' = result.state
      /\ held' = held \cup {Unit(result.blocks[1], 1, "unit")}

AllocDataBlocks(count, index) ==
  LET result == AllocBlocks(allocator, count, index, FALSE)
  IN  /\ result.ok
      /\ allocator' = result.state
      /\ held' = held \cup {Unit(n, UnitSize(index), "unit") : n \in ToSet(result.blocks)}

\* The blocks of a quota's area stay with it.
AllocArea(count, index) ==
  LET result == AllocAreaBlocks(allocator, count, index)
  IN  /\ result.ok
      /\ allocator' = result.state
      /\ held' = held \cup {Unit(r.block_number, r.blocks_count, "area") : r \in ToSet(result.blocks)}

DeleteBlocks(unit) ==
  /\ unit.role # "area"
  /\ allocator' = AddFreeBlocks(allocator, unit)
  /\ held' = held \ {unit}

Next ==
  \/ AllocMetadataBlock
  \/ \E request \in Requests : AllocDataBlocks(request.count, request.index)
  \/ \E request \in AreaRequests : AllocArea(request.count, request.index)
  \/ \E unit \in held : DeleteBlocks(unit)

Spec == Init /\ [][Next]_vars
-----------------------------------------------------------------------------
CachedBlocks == allocator.cache_first..(allocator.cache_first + allocator.cache_count - 1)
FreeBlocks == UNION {BlocksOf(e) : e \in allocator.tree}
AreaBlocks == {FirstPage} \cup UNION {BlocksOf(r) : r \in ToSet(FreeRanges)}
AlignedUnits(size) ==
  {u \in {n..(n + size - 1) : n \in {b \in AreaBlocks : b % size = 0}} : u \subseteq AreaBlocks}
HeldBlocks == UNION {BlocksOf(u) : u \in held}
PageBlocks == {allocator.pages[k] : k \in DOMAIN allocator.pages}

Blocks(extents) == MapThenSumSet(LAMBDA e : e.blocks_count, extents)

CountRight == allocator.free_blocks_count = Blocks(allocator.tree) + allocator.cache_count

\* Through any sequence of calls, every block is in one extent, in the cache, a
\* tree page or held by one caller, exactly once: none is lost when extents are
\* cut and joined or when the tree takes a page from itself, and none is
\* handed out twice (free_blocks_allocator.cpp:119-304, free_blocks_tree_bucket.cpp:21-78).
\* The header's count, kept by increments along every path, agrees with that.
NothingLost ==
  /\ CountRight
  /\ FreeBlocks \cup CachedBlocks \cup HeldBlocks \cup PageBlocks = AreaBlocks
  /\ Blocks(allocator.tree) + allocator.cache_count + Blocks(held)
       + Cardinality(DOMAIN allocator.pages) = Cardinality(AreaBlocks)

\* Extents are whole aligned units of their bucket, no more than make one of
\* the next (16 in the code, what the four-bit value can say: the assertion
\* at free_blocks_allocator.cpp:210); units handed out are aligned.
UnitsAligned ==
  /\ \A e \in allocator.tree :
       /\ e.block_number % UnitSize(e.bucket_index) = 0
       /\ e.blocks_count % UnitSize(e.bucket_index) = 0
       /\ e.blocks_count <= NextUnitSize(e.bucket_index)
  /\ \A u \in held : u.role # "area" => u.block_number % u.blocks_count = 0

\* A unit that has become free as a whole is found in its bucket or above,
\* whatever pieces it was freed in; else large units would run out while
\* there is room for them (the joins of free_blocks_allocator.cpp:155-206).
WholeUnitsFound ==
  \A b \in 1..MaxBucket : \A unit \in AlignedUnits(UnitSize(b)) :
    unit \subseteq FreeBlocks =>
      \E e \in allocator.tree : e.bucket_index >= b /\ unit \subseteq BlocksOf(e)

\* Pages hold no more than they have room for, and none but the first is
\* left behind empty (free_blocks_allocator.cpp:231).
PagesInUse ==
  \A k \in DOMAIN allocator.pages :
    /\ Cardinality(PageExtents(allocator, k)) <= PageCapacity
    /\ k # 0 => PageExtents(allocator, k) # {}

\* A request is refused only when there are not so many aligned units free.
RefusedOnlyWhenShort ==
  \A r \in Requests :
    ~AllocBlocks(allocator, r.count, r.index, FALSE).ok =>
      Cardinality({u \in AlignedUnits(UnitSize(r.index)) : u \subseteq FreeBlocks}) < r.count

\* "Return whether any part of the block is freed" (free_blocks_allocator.h:72).
RangeCheckExact ==
  \A first, last \in AreaBlocks :
    first <= last =>
      (IsRangeIsFree(allocator.tree, first, last - first + 1)
         <=> (first..last) \cap FreeBlocks # {})

\* "Remove blocks from the tree" (free_blocks_allocator.h:68): what a call
\* hands out is no longer in an extent, in a page or in the cache.
OfAllocator(state) ==
  UNION {BlocksOf(e) : e \in state.tree} \cup {state.pages[k] : k \in DOMAIN state.pages}
    \cup state.cache_first..(state.cache_first + state.cache_count - 1)

HandedOutTaken ==
  \A r \in Requests :
    LET result == AllocBlocks(allocator, r.count, r.index, FALSE)
    IN  result.ok => \A n \in ToSet(result.blocks) :
                       n..(n + UnitSize(r.index) - 1) \cap OfAllocator(result.state) = {}

\* The same of the ranges that become a quota's area.
AreaTaken ==
  \A r \in AreaRequests :
    LET result == AllocAreaBlocks(allocator, r.count, r.index)
    IN  result.ok => \A b \in ToSet(result.blocks) : BlocksOf(b) \cap OfAllocator(result.state) = {}
=============================================================================
