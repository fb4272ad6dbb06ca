----------------------------- MODULE FileResize -----------------------------
(***************************************************************************)
(* Resizing and writing one file down to the bytes of its blocks           *)
(* (src/src/file_resizer*.cpp, file.cpp, file_layout_accessor.cpp).        *)
(* A resize that keeps the category edits the list of data units; any      *)
(* other one builds a complete copy in the new layout.  Either way the     *)
(* entry's metadata is replaced in one step, the commit, before which a    *)
(* failure undoes the allocations and after which the old blocks go.       *)
(*                                                                         *)
(* The library runs a call to its end in one thread, so one call is in     *)
(* progress at a time; its steps are the points where it can fail and      *)
(* those between which blocks change hands.  A byte of the device that is  *)
(* free or newly allocated is Junk: nothing may depend on it.  A load      *)
(* whose hash check fails (an exception in the code) yields Junk too, so   *)
(* that every property about contents fails with it.                       *)
(***************************************************************************)
EXTENDS FileLayout, FiniteSets, SequencesExt

CONSTANTS
  AreaBlocks,     \* block numbers of the quota's area, BlockSize bytes each
  OtherBlocks,    \* those other files and directories occupy
  SectorSize,     \* bytes a device reads or writes at a time
  Placing,        \* bound: ends of the free space allocations are made at
  FileSizes,      \* sizes Resize is called with
  WriteExtents    \* [pos, n] of the writes of file_device

ASSUME DeviceAssumption ==
  /\ IsFiniteSet(AreaBlocks)
  /\ AreaBlocks = 0..(Cardinality(AreaBlocks) - 1)
  /\ OtherBlocks \subseteq AreaBlocks
  /\ Placing \subseteq {"lowest", "highest"}
  /\ SectorSize \in Nat \ {0}
  /\ BlockSize % SectorSize = 0
  /\ LargeBlockSize % BlockSize = 0
  /\ ClusterSize % LargeBlockSize = 0
  /\ FileSizes \subseteq Nat
  /\ WriteExtents \subseteq [pos : Nat, n : Nat \ {0}]

VARIABLES
  metadata,       \* the file's entry metadata in its directory leaf
  disk,           \* contents of the area, byte by byte
  metadata_disk,  \* data-unit items in each cluster metadata block
  free,           \* blocks the free blocks allocator may hand out
  attached,       \* blocks whose Block object is in the device's cache
  call,           \* the call in progress
  outcome         \* how the last call ended

vars == <<metadata, disk, metadata_disk, free, attached, call, outcome>>

Zero == 0
Junk == -1
Stamp(position) == position   \* a written byte, told by where it belongs
NoHash == <<>>                \* hash slot of a block never flushed

Zeros(n) == [k \in 1..n |-> Zero]
Junks(n) == [k \in 1..n |-> Junk]
-----------------------------------------------------------------------------
(* Data units and the data blocks in them.  A unit item is the number of   *)
(* its first area block and one hash per data block; only clusters hold    *)
(* several data blocks.  A hash is modelled by the bytes it was taken of.  *)

DataBlockSize(category) ==
  IF category = Blocks THEN BlockSize ELSE LargeBlockSize

DataBlocksPerUnit(category) == CategoryDataUnitSize(category) \div DataBlockSize(category)

UnitBlocks(category) == CategoryDataUnitSize(category) \div BlockSize

Extent(number, count) == number..(number + count - 1)

UnitExtent(category, unit) == Extent(unit.block_number, UnitBlocks(category))

NewUnits(category, numbers) ==
  [u \in DOMAIN numbers |->
     [block_number |-> numbers[u], hash |-> [b \in 1..DataBlocksPerUnit(category) |-> NoHash]]]

UsedDataBlockSize(file_size, offset, size) ==
  IF file_size <= offset THEN 0 ELSE LesserOf(size, file_size - offset)

\* Data block number index of the file: where it is and what it should hash to.
Location(category, units, index) ==
  LET per   == DataBlocksPerUnit(category)
      unit  == units[(index \div per) + 1]
      block == index % per
  IN  [block_number |-> unit.block_number + (block * (DataBlockSize(category) \div BlockSize)),
       hash         |-> unit.hash[block + 1]]

\* Mutant: writes the hash slot of the unit's first data block.
WithFirstHash(category, units, index, hash) ==
  [units EXCEPT ![(index \div DataBlocksPerUnit(category)) + 1].hash[1] = hash]

WithHash(category, units, index, hash) ==
  LET per == DataBlocksPerUnit(category)
  IN  [units EXCEPT ![(index \div per) + 1].hash[(index % per) + 1] = hash]

DataBlocksCount(layout) ==
  IF layout.category = Inline THEN 0
  ELSE DivCeil(layout.file_size, DataBlockSize(layout.category))

\* The bytes of data block index that the file uses at this size.
UsedSize(layout, index) ==
  LET size == DataBlockSize(layout.category)
  IN  UsedDataBlockSize(layout.file_size, index * size, size)

AlignedSize(size) == RoundUpToUnit(size, SectorSize)
-----------------------------------------------------------------------------
(* Block::Fetch and Block::Flush: whole sectors, checked against the hash. *)

Fetch(location, size) ==
  LET data == [k \in 1..AlignedSize(size) |-> disk[location.block_number * BlockSize + k - 1]]
  IN  IF data = location.hash THEN data ELSE Junks(AlignedSize(size))

Flushed(location, data) ==
  LET first == location.block_number * BlockSize
  IN  [a \in DOMAIN disk |->
         IF a \in first..(first + Len(data) - 1) THEN data[a - first + 1] ELSE disk[a]]

\* Mutant: leaves in the slack of the last sector what it held before.
ResizedDataWithSlack(data, old_size, new_size) ==
  [k \in 1..AlignedSize(new_size) |-> IF k <= Len(data) THEN data[k] ELSE Zero]

\* Block::Resize: what the block held, zeros where the data grows.
ResizedData(data, old_size, new_size) ==
  [k \in 1..AlignedSize(new_size) |->
     IF k <= Len(data) /\ ~(k > old_size /\ k <= new_size) THEN data[k] ELSE Zero]

Erased(blocks) ==
  [a \in DOMAIN disk |-> IF a \div BlockSize \in blocks THEN Junk ELSE disk[a]]

ErasedMetadata(blocks) ==
  [b \in AreaBlocks |-> IF b \in blocks THEN <<>> ELSE metadata_disk[b]]
-----------------------------------------------------------------------------
(* What the entry's metadata leads to: the unit items in file order,       *)
(* those of category 4 through its metadata blocks, and the bytes.         *)

UnitsOf(entry) ==
  LET per == ClustersPerMetadataBlock
  IN  IF entry.layout.category # ClusterMetadataBlocks THEN entry.units
      ELSE [u \in 1..entry.layout.data_units_count |->
              metadata_disk[entry.metadata_blocks[((u - 1) \div per) + 1]][((u - 1) % per) + 1]]

ReadBytes(entry) ==
  LET layout == entry.layout
      size   == DataBlockSize(layout.category)
      units  == UnitsOf(entry)
      block  == [i \in 0..(DataBlocksCount(layout) - 1) |->
                   Fetch(Location(layout.category, units, i), UsedSize(layout, i))]
  IN  IF layout.category = Inline THEN entry.payload
      ELSE [k \in 1..layout.file_size |-> block[(k - 1) \div size][((k - 1) % size) + 1]]

BlocksOf(category, units, metadata_blocks) ==
  (UNION {UnitExtent(category, units[u]) : u \in DOMAIN units}) \cup ToSet(metadata_blocks)

ResizedTo(bytes, n) == [k \in 1..n |-> IF k <= Len(bytes) THEN bytes[k] ELSE Zero]
-----------------------------------------------------------------------------
(* Calls.  "step" is where the call stands; what it captured at its start  *)
(* (old, old_units) stays as it was, what it builds (payload, units,       *)
(* metadata_blocks) is nobody else's until the commit.  "before" is kept   *)
(* for the properties only.                                                *)

Idle == [step |-> "idle"]
NoWrite == [pos |-> 0, n |-> 0]

Started(size, write) ==
  LET old    == metadata.layout
      target == Calculate(old.file_size, size, old.category)
      mode   == IF target.category # old.category \/ target.category = ClusterMetadataBlocks
                  THEN "rebuild"
                ELSE IF target.category = Inline THEN "inline" ELSE "in_place"
  IN  [step            |-> IF mode = "inline" THEN "replace_metadata" ELSE "alloc_data_units",
       mode            |-> mode,
       target          |-> target,
       payload         |-> IF mode = "inline" THEN ResizedTo(metadata.payload, size) ELSE <<>>,
       units           |-> <<>>,
       metadata_blocks |-> <<>>,
       index           |-> 0,
       old             |-> metadata,
       old_units       |-> UnitsOf(metadata),
       before          |-> ReadBytes(metadata),
       write           |-> write]

Init ==
  /\ metadata = [layout |-> BuildLayout(0, Inline), payload |-> <<>>,
                 units |-> <<>>, metadata_blocks |-> <<>>]
  /\ disk = [a \in 0..(Cardinality(AreaBlocks) * BlockSize - 1) |-> Junk]
  /\ metadata_disk = [b \in AreaBlocks |-> <<>>]
  /\ free = AreaBlocks \ OtherBlocks
  /\ attached = {}
  /\ call = Idle
  /\ outcome = "ok"

\* FileResizer::Resize up to the choice of how to go about it.
Resize(size) ==
  /\ call.step = "idle"
  /\ size # metadata.layout.file_size
  /\ size <= MaxFileSize
  /\ call' = Started(size, NoWrite)
  /\ UNCHANGED <<metadata, disk, metadata_disk, free, attached, outcome>>

ResizeTooLarge(size) ==
  /\ call.step = "idle"
  /\ size > MaxFileSize
  /\ outcome' = "too_large"
  /\ UNCHANGED <<metadata, disk, metadata_disk, free, attached, call>>

\* file_device::write: past the end it resizes first, to just what it needs.
Write(write) ==
  LET end == write.pos + write.n
  IN  /\ call.step = "idle"
      /\ write.pos <= metadata.layout.file_size
      /\ end <= MaxFileSize
      /\ call' = IF end > metadata.layout.file_size THEN Started(end, write)
                 ELSE [step |-> "write", before |-> ReadBytes(metadata), write |-> write]
      /\ UNCHANGED <<metadata, disk, metadata_disk, free, attached, outcome>>

WriteTooLarge(write) ==
  /\ write.pos <= metadata.layout.file_size
  /\ ResizeTooLarge(write.pos + write.n)
-----------------------------------------------------------------------------
(* Before the commit.                                                      *)

\* Mutant: an extent counts as free if its first block is.
PlacementsByFirstBlock(width, count) ==
  LET starts  == {b \in free : b % width = 0 /\ Extent(b, width) \subseteq AreaBlocks \ OtherBlocks}
      n       == Cardinality(starts)
      ordered == [i \in 1..n |-> CHOOSE b \in starts : Cardinality({c \in starts : c < b}) = i - 1]
  IN  IF n < count THEN {} ELSE {SubSeq(ordered, 1, count)}

\* AllocBlocks hands out free extents in ascending order, the lowest it finds
\* in the buckets it searches.  Which those are depends on the buckets: Placing
\* bounds the choice to the lowest extents of all and the highest.
Placements(width, count) ==
  LET starts  == {b \in AreaBlocks : b % width = 0 /\ Extent(b, width) \subseteq free}
      n       == Cardinality(starts)
      ordered == [i \in 1..n |-> CHOOSE b \in starts : Cardinality({c \in starts : c < b}) = i - 1]
      from    == [lowest |-> 1, highest |-> n - count + 1]
  IN  IF n < count THEN {} ELSE {SubSeq(ordered, from[p], from[p] + count - 1) : p \in Placing}

\* Mutant: takes the units a resize in place keeps for new ones.
AllUnitsOfCall == call.units

NewUnitsOfCall ==
  IF call.mode = "in_place" THEN SubSeq(call.units, Len(call.old_units) + 1, Len(call.units))
  ELSE call.units

\* Mutant: the rollback of metadata blocks is missing.
PendingDataBlocks == BlocksOf(call.target.category, NewUnitsOfCall, <<>>)

PendingBlocks == BlocksOf(call.target.category, NewUnitsOfCall, call.metadata_blocks)

\* An exception before the commit: the destructors delete what was allocated.
Fail(why) ==
  /\ free' = free \cup PendingBlocks
  /\ disk' = Erased(PendingBlocks)
  /\ metadata_disk' = ErasedMetadata(PendingBlocks)
  /\ attached' = {}
  /\ call' = Idle
  /\ outcome' = why
  /\ UNCHANGED metadata

AllocatedUnitsCount ==
  LET target == call.target.data_units_count
      old    == call.old.layout.data_units_count
  IN  IF call.mode = "rebuild" THEN target ELSE IF target > old THEN target - old ELSE 0

\* AllocatedDataUnits or AllocatedTargetDataUnits; in place, the kept units
\* follow with the hashes they have by then.
AllocateDataUnits ==
  LET category == call.target.category
      kept     == LesserOf(Len(call.old_units), call.target.data_units_count)
  IN  /\ call.step = "alloc_data_units"
      /\ \E numbers \in Placements(UnitBlocks(category), AllocatedUnitsCount) :
           LET new == NewUnits(category, numbers)
           IN  /\ free' = free \ BlocksOf(category, new, <<>>)
               /\ call' = [call EXCEPT
                    !.step = IF call.mode = "rebuild" THEN "alloc_metadata_blocks"
                                                      ELSE "replace_metadata",
                    !.units = IF call.mode = "rebuild" THEN new
                              ELSE SubSeq(call.old_units, 1, kept) \o new]
      /\ UNCHANGED <<metadata, disk, metadata_disk, attached, outcome>>

NoSpaceForDataUnits ==
  /\ call.step = "alloc_data_units"
  /\ AllocatedUnitsCount > 0
  /\ Fail("no_space")

MetadataBlocksNeeded ==
  IF call.target.category = ClusterMetadataBlocks
    THEN MetadataItemsCount(ClusterMetadataBlocks, call.target.size_on_disk) ELSE 0

AllocateMetadataBlock ==
  /\ call.step = "alloc_metadata_blocks"
  /\ Len(call.metadata_blocks) < MetadataBlocksNeeded
  /\ \E numbers \in Placements(1, 1) :
       /\ free' = free \ ToSet(numbers)
       /\ attached' = attached \cup ToSet(numbers)
       /\ call' = [call EXCEPT !.metadata_blocks = @ \o numbers]
  /\ UNCHANGED <<metadata, disk, metadata_disk, outcome>>

NoSpaceForMetadataBlock ==
  /\ call.step = "alloc_metadata_blocks"
  /\ Len(call.metadata_blocks) < MetadataBlocksNeeded
  /\ Fail("no_space")

StartCopy ==
  /\ call.step = "alloc_metadata_blocks"
  /\ Len(call.metadata_blocks) = MetadataBlocksNeeded
  /\ call' = [call EXCEPT !.step = "copy"]
  /\ UNCHANGED <<metadata, disk, metadata_disk, free, attached, outcome>>

BytesToPreserve == LesserOf(call.old.layout.file_size, call.target.file_size)

\* What the source accessor keeps cached once it has read up to byte "last":
\* its current data block and, in category 4, the metadata block leading there.
HeldBySource(last) ==
  LET category == call.old.layout.category
      index    == (last - 1) \div DataBlockSize(category)
      cluster  == index \div DataBlocksPerUnit(category)
  IN  IF last = 0 \/ category = Inline THEN {}
      ELSE {Location(category, call.old_units, index).block_number}
             \cup IF category = ClusterMetadataBlocks
                    THEN {call.old.metadata_blocks[(cluster \div ClustersPerMetadataBlock) + 1]}
                    ELSE {}

\* One data block of CopyToDataUnitLayout / CopyToClusterMetadataBlocksLayout.
CopyDataBlock ==
  LET target   == call.target
      offset   == call.index * DataBlockSize(target.category)
      location == Location(target.category, call.units, call.index)
      source   == ReadBytes(metadata)
      data     == [k \in 1..AlignedSize(UsedSize(target, call.index)) |->
                     IF offset + k <= BytesToPreserve THEN source[offset + k] ELSE Zero]
      last     == LesserOf(offset + DataBlockSize(target.category), BytesToPreserve)
  IN  /\ call.step = "copy"
      /\ call.index < DataBlocksCount(target)
      /\ disk' = Flushed(location, data)
      /\ attached' = ToSet(call.metadata_blocks) \cup HeldBySource(last)
      /\ call' = [call EXCEPT !.index = @ + 1,
                    !.units = WithHash(target.category, @, call.index, data)]
      /\ UNCHANGED <<metadata, metadata_disk, free, outcome>>

\* The metadata blocks are flushed once all hashes are in them; an inline
\* target takes its bytes into the replacement metadata instead.
FinishCopy ==
  LET per == ClustersPerMetadataBlock
  IN  /\ call.step = "copy"
      /\ call.index = DataBlocksCount(call.target)
      /\ metadata_disk' =
           [b \in AreaBlocks |->
              IF b \in ToSet(call.metadata_blocks)
                THEN LET j == CHOOSE i \in DOMAIN call.metadata_blocks : call.metadata_blocks[i] = b
                     IN  SubSeq(call.units, (j - 1) * per + 1, LesserOf(j * per, Len(call.units)))
                ELSE metadata_disk[b]]
      /\ attached' = IF call.target.category = Inline THEN HeldBySource(BytesToPreserve) ELSE attached
      /\ call' = [call EXCEPT !.step = "replace_metadata",
                    !.payload = IF call.target.category = Inline
                                  THEN SubSeq(ReadBytes(metadata), 1, BytesToPreserve) ELSE <<>>]
      /\ UNCHANGED <<metadata, disk, free, outcome>>
-----------------------------------------------------------------------------
(* The commit and after.                                                   *)

Replacement ==
  [layout |-> call.target, payload |-> call.payload,
   units |-> IF call.target.category = ClusterMetadataBlocks THEN <<>> ELSE call.units,
   metadata_blocks |-> call.metadata_blocks]

ReplaceMetadata ==
  /\ call.step = "replace_metadata"
  /\ metadata' = Replacement
  /\ call' = [call EXCEPT !.step = IF call.mode = "inline" THEN "return" ELSE "detach"]
  /\ UNCHANGED <<disk, metadata_disk, free, attached, outcome>>

\* When the item list changes the metadata may outgrow its slot, and making
\* room in the directory may take a block there is no space for.
NoSpaceForMetadata ==
  /\ call.step = "replace_metadata"
  /\ \/ call.target.category # call.old.layout.category
     \/ MetadataItemsCount(call.target.category, call.target.size_on_disk)
          # MetadataItemsCount(call.old.layout.category, call.old.layout.size_on_disk)
  /\ Fail("no_space")

\* Mutant: misses the last data block.
OldDataBlocksButLast ==
  {Location(call.old.layout.category, call.old_units, i).block_number :
     i \in 0..(DataBlocksCount(call.old.layout) - 2)}

OldDataBlocks ==
  {Location(call.old.layout.category, call.old_units, i).block_number :
     i \in 0..(DataBlocksCount(call.old.layout) - 1)}

\* DetachDataBlocks and DetachMetadataBlocks.
DetachOldBlocks ==
  /\ call.step = "detach"
  /\ attached' = attached \ (OldDataBlocks \cup ToSet(call.old.metadata_blocks))
  /\ call' = [call EXCEPT !.step = IF call.mode = "rebuild" THEN "free_units" ELSE "resize_changed"]
  /\ UNCHANGED <<metadata, disk, metadata_disk, free, outcome>>

ChangedBlocksCount == GreaterOf(DataBlocksCount(call.old.layout), DataBlocksCount(call.target))

\* One data block of ResizeChangedDataBlocks: zeros if the file did not reach
\* it, the old bytes cut or extended if its used size changed.
ResizeChangedDataBlock ==
  LET category == call.target.category
      old_size == UsedSize(call.old.layout, call.index)
      new_size == UsedSize(call.target, call.index)
      location == Location(category, metadata.units, call.index)
      data     == IF old_size = 0 THEN Zeros(AlignedSize(new_size))
                  ELSE ResizedData(Fetch(location, old_size), old_size, new_size)
  IN  /\ call.step = "resize_changed"
      /\ call.index < ChangedBlocksCount
      /\ IF old_size = new_size \/ new_size = 0 THEN UNCHANGED <<metadata, disk>>
         ELSE /\ disk' = Flushed(location, data)
              /\ metadata' = [metadata EXCEPT
                               !.units = WithHash(category, @, call.index, data)]
      /\ call' = [call EXCEPT !.index = @ + 1]
      /\ UNCHANGED <<metadata_disk, free, attached, outcome>>

\* DeleteBlocks on blocks the old metadata referred to.
GiveBack(blocks) ==
  /\ free' = free \cup blocks
  /\ disk' = Erased(blocks)
  /\ metadata_disk' = ErasedMetadata(blocks)
  /\ UNCHANGED <<metadata, attached, outcome>>

FreeRemovedDataUnits ==
  /\ call.step = "resize_changed"
  /\ call.index = ChangedBlocksCount
  /\ GiveBack(BlocksOf(call.target.category,
                       SubSeq(call.old_units, call.target.data_units_count + 1, Len(call.old_units)),
                       <<>>))
  /\ call' = [call EXCEPT !.step = "return"]

FreeOldDataUnits ==
  /\ call.step = "free_units"
  /\ GiveBack(BlocksOf(call.old.layout.category, call.old_units, <<>>))
  /\ call' = [call EXCEPT !.step = "free_metadata_blocks"]

FreeOldMetadataBlocks ==
  /\ call.step = "free_metadata_blocks"
  /\ GiveBack(ToSet(call.old.metadata_blocks))
  /\ call' = [call EXCEPT !.step = "return"]

\* The accessor and the blocks a resize still holds go out of scope;
\* file_device::write then goes on to write.
Return ==
  /\ call.step = "return"
  /\ attached' = {}
  /\ IF call.write = NoWrite
       THEN call' = Idle /\ outcome' = "ok"
       ELSE /\ call' = [step |-> "write", before |-> call.before, write |-> call.write]
            /\ UNCHANGED outcome
  /\ UNCHANGED <<metadata, disk, metadata_disk, free>>
-----------------------------------------------------------------------------
(* The rest of file_device::write, one data block at a time.               *)

Written(data, first, n, offset) ==
  [k \in DOMAIN data |-> IF k > first /\ k <= first + n THEN Stamp(offset + k) ELSE data[k]]

\* Mutant: does not count the block's last byte.
BytesBeforeLast(n, used, first) == LesserOf(n, used - first - 1)

\* GetDataFromBlock: what is left of the block from where the write is.
BytesInBlock(n, used, first) == LesserOf(n, used - first)

WriteInline ==
  /\ call.step = "write"
  /\ metadata.layout.category = Inline
  /\ metadata' = [metadata EXCEPT !.payload = Written(@, call.write.pos, call.write.n, 0)]
  /\ call' = Idle
  /\ outcome' = "ok"
  /\ UNCHANGED <<disk, metadata_disk, free, attached>>

WriteDataBlock ==
  LET layout   == metadata.layout
      category == layout.category
      size     == DataBlockSize(category)
      index    == call.write.pos \div size
      first    == call.write.pos % size
      used     == UsedSize(layout, index)
      wrote    == BytesInBlock(call.write.n, used, first)
      location == Location(category, UnitsOf(metadata), index)
      data     == Written(Fetch(location, used), first, wrote, index * size)
      per      == ClustersPerMetadataBlock * DataBlocksPerUnit(category)
  IN  /\ call.step = "write"
      /\ category # Inline
      /\ disk' = Flushed(location, data)
      /\ IF category = ClusterMetadataBlocks
           THEN /\ metadata_disk' =
                     [metadata_disk EXCEPT ![metadata.metadata_blocks[(index \div per) + 1]] =
                        WithHash(category, @, index % per, data)]
                /\ UNCHANGED metadata
           ELSE /\ metadata' = [metadata EXCEPT !.units = WithHash(category, @, index, data)]
                /\ UNCHANGED metadata_disk
      /\ IF wrote = call.write.n
           THEN call' = Idle /\ outcome' = "ok"
           ELSE /\ call' = [call EXCEPT !.write = [pos |-> @.pos + wrote, n |-> @.n - wrote]]
                /\ UNCHANGED outcome
      /\ UNCHANGED <<free, attached>>
-----------------------------------------------------------------------------
Proceed ==
  \/ AllocateDataUnits \/ NoSpaceForDataUnits
  \/ AllocateMetadataBlock \/ NoSpaceForMetadataBlock
  \/ StartCopy \/ CopyDataBlock \/ FinishCopy
  \/ ReplaceMetadata \/ NoSpaceForMetadata
  \/ DetachOldBlocks \/ ResizeChangedDataBlock \/ FreeRemovedDataUnits
  \/ FreeOldDataUnits \/ FreeOldMetadataBlocks \/ Return
  \/ WriteInline \/ WriteDataBlock

Next ==
  \/ \E size \in FileSizes : Resize(size) \/ ResizeTooLarge(size)
  \/ \E write \in WriteExtents : Write(write) \/ WriteTooLarge(write)
  \/ Proceed

Spec == Init /\ [][Next]_vars

\* The thread that runs a call keeps running.
FairSpec == Spec /\ WF_vars(Proceed)
-----------------------------------------------------------------------------
\* The file as its user sees it: while a call runs, what it was before.
Promise == INSTANCE ByteFile WITH
  contents <- IF call.step = "idle" THEN ReadBytes(metadata) ELSE call.before

\* Through any sequence of resizes and writes, in whatever categories they
\* lead through and wherever they fail, the file reads as a plain byte
\* sequence would: nothing lost, moved or left over from an earlier life of a
\* block, every hash matching (file.cpp, file_resizer*.cpp).
KeepsPromise == Promise!Spec

Committed ==
  call.step \in {"detach", "resize_changed", "free_units", "free_metadata_blocks", "return", "write"}

HeldBlocks == BlocksOf(metadata.layout.category, UnitsOf(metadata), metadata.metadata_blocks)

RetiredBlocks ==
  LET category == call.old.layout.category
      units    == BlocksOf(category, call.old_units, <<>>)
  IN  CASE call.step \in {"detach", "resize_changed", "free_units"} ->
             (units \cup ToSet(call.old.metadata_blocks)) \ HeldBlocks
        [] call.step = "free_metadata_blocks" -> ToSet(call.old.metadata_blocks)
        [] OTHER -> {}

UncommittedBlocks == IF call.step = "idle" \/ Committed THEN {} ELSE PendingBlocks

Ownership == INSTANCE BlockOwnership WITH
  Blocks  <- AreaBlocks \ OtherBlocks,
  Files   <- {"file"},
  held    <- [f \in {"file"} |-> HeldBlocks],
  pending <- [f \in {"file"} |-> UncommittedBlocks],
  retired <- [f \in {"file"} |-> RetiredBlocks]

\* Blocks change hands in the order BlockOwnership lays down: allocated, then
\* committed, and only what the commit dropped is freed (the commit point of
\* file_resizer_data_units.cpp:254 and file_resizer_transitions.cpp:549).  The
\* parameters of each abstract action are named rather than searched for.
FollowsOwnership ==
  /\ Ownership!Init
  /\ [][\/ Ownership!Allocate("file", free \ free')
        \/ Ownership!Rollback("file")
        \/ Ownership!Commit("file", HeldBlocks \cap HeldBlocks')
        \/ Ownership!Release("file", free' \ free)]_Ownership!vars

\* Between calls every block is free, another file's, or referred to by this
\* file's metadata: neither success nor any failure leaks one or frees one
\* that is in use (the destructors of file_resizer_*.cpp; the tests compare
\* free block counts for a few paths).
NothingLeaks ==
  call.step = "idle" =>
    /\ HeldBlocks \cup free = AreaBlocks \ OtherBlocks
    /\ HeldBlocks \cap free = {}

\* Up to the commit the old layout stays readable byte for byte, so that a
\* failure can fall back on it (file_resizer_data_units.cpp:155).
OldBytesUntilCommit ==
  (call.step # "idle" /\ ~Committed) => ReadBytes(metadata) = call.before

\* When a rebuild is about to commit, the new layout already reads, from the
\* device alone, as the resized file (file_resizer_transitions.cpp:549).
TargetDurableAtCommit ==
  (call.step = "replace_metadata" /\ call.mode = "rebuild") =>
    ReadBytes(Replacement) = ResizedTo(call.before, call.target.file_size)

\* No block is both free and in the cache: the next owner of its number would
\* get the object left behind instead of its own (file_resizer_data_units.cpp:176).
CachedBlocksOwned == attached \cap free = {}

\* Every call returns: the loops over units, metadata blocks and data blocks end.
CallReturns == (call.step # "idle") ~> (call.step = "idle")
=============================================================================
