-------------------------- MODULE FileResizeProofs --------------------------
(***************************************************************************)
(* Proofs about FileResize, for every geometry, area, set of sizes and of  *)
(* writes that satisfies the module's assumptions: the resizes of a file   *)
(* follow BlockOwnership, no block leaks and none is free while it is      *)
(* cached.                                                                 *)
(***************************************************************************)
EXTENDS FileResize, LayoutLemmas, FiniteSetTheorems, SequenceTheorems, TLAPS

(***************************************************************************)
(* The inductive invariant.                                                *)
(***************************************************************************)
Layouts == [category : Categories, file_size : Nat, size_on_disk : Nat, data_units_count : Nat]

IsLayout(layout) ==
  layout \in Layouts /\ layout = BuildLayout(layout.file_size, layout.category)

\* A sequence of unit items; what their hashes are does not matter here.
IsUnits(units) ==
  /\ units \in Seq({units[u] : u \in DOMAIN units})
  /\ \A u \in DOMAIN units :
       /\ DOMAIN units[u] = {"block_number", "hash"}
       /\ units[u].block_number \in AreaBlocks

\* No two units, nor a unit and a metadata block, nor two metadata blocks share
\* a block.
Apart(category, units, metadata_blocks) ==
  /\ \A u, v \in DOMAIN units :
       u # v => UnitExtent(category, units[u]) \cap UnitExtent(category, units[v]) = {}
  /\ \A i, j \in DOMAIN metadata_blocks : i # j => metadata_blocks[i] # metadata_blocks[j]
  /\ \A u \in DOMAIN units, i \in DOMAIN metadata_blocks :
       metadata_blocks[i] \notin UnitExtent(category, units[u])

\* The metadata block unit u of a category 4 file is listed in, and its slot.
BlockOfUnit(metadata_blocks, u) == metadata_blocks[((u - 1) \div ClustersPerMetadataBlock) + 1]
SlotOfUnit(u) == ((u - 1) % ClustersPerMetadataBlock) + 1

MetadataBlocksOf(layout) ==
  IF layout.category = ClusterMetadataBlocks
    THEN ClusterMetadataBlocksCount(layout.data_units_count) ELSE 0

\* What an entry's metadata is like, whichever resize wrote it.
IsEntry(entry) ==
  /\ DOMAIN entry = {"layout", "payload", "units", "metadata_blocks"}
  /\ IsLayout(entry.layout)
  /\ IsUnits(entry.units)
  /\ entry.metadata_blocks \in Seq(AreaBlocks)
  /\ Len(entry.metadata_blocks) = MetadataBlocksOf(entry.layout)
  /\ entry.layout.category # ClusterMetadataBlocks =>
       Len(entry.units) = entry.layout.data_units_count

MetadataInv ==
  /\ IsEntry(metadata)
  /\ metadata_disk = [b \in AreaBlocks |-> metadata_disk[b]]
  /\ \A b \in AreaBlocks : IsUnits(metadata_disk[b])
  /\ metadata.layout.category = ClusterMetadataBlocks =>
       \A u \in 1..metadata.layout.data_units_count :
         SlotOfUnit(u) \in DOMAIN metadata_disk[BlockOfUnit(metadata.metadata_blocks, u)]
  /\ Apart(metadata.layout.category, UnitsOf(metadata), metadata.metadata_blocks)

Resizing == call.step \notin {"idle", "write"}

\* The steps each way of resizing goes through.
StepsOf(mode) ==
  CASE mode = "inline" -> {"replace_metadata", "return"}
    [] mode = "in_place" -> {"alloc_data_units", "replace_metadata", "detach", "resize_changed", "return"}
    [] mode = "rebuild" -> {"alloc_data_units", "alloc_metadata_blocks", "copy", "replace_metadata",
                            "detach", "free_units", "free_metadata_blocks", "return"}

CallInv ==
  IF ~Resizing
    THEN DOMAIN call = IF call.step = "idle" THEN {"step"} ELSE {"step", "before", "write"}
    ELSE
      /\ DOMAIN call = {"step", "mode", "target", "payload", "units", "metadata_blocks", "index",
                        "old", "old_units", "before", "write"}
      /\ call.mode \in {"inline", "in_place", "rebuild"}
      /\ call.step \in StepsOf(call.mode)
      /\ IsLayout(call.target)
      /\ IsUnits(call.units)
      /\ call.metadata_blocks \in Seq(AreaBlocks)
      /\ call.index \in Nat
      /\ IsEntry(call.old)
      /\ IsUnits(call.old_units)
      /\ Len(call.old_units) = call.old.layout.data_units_count
      /\ call.mode = "inline" =>
           call.target.category = Inline /\ call.old.layout.category = Inline
      /\ call.mode = "in_place" =>
           /\ call.target.category = call.old.layout.category
           /\ call.target.category \notin {Inline, ClusterMetadataBlocks}
      /\ call.mode # "rebuild" => call.metadata_blocks = <<>>

\* Up to the commit nothing the file's metadata leads to changes.
BeforeCommitInv ==
  Resizing /\ ~Committed =>
    /\ call.old = metadata
    /\ call.old_units = UnitsOf(metadata)

\* What a resize has built by the time it gets to a step.
BuiltInv ==
  Resizing =>
    /\ call.step = "alloc_data_units" \/ call.mode = "inline" =>
         call.units = <<>> /\ call.metadata_blocks = <<>>
    /\ call.step \in {"alloc_metadata_blocks", "copy", "replace_metadata"} /\ call.mode = "rebuild" =>
         /\ Len(call.units) = call.target.data_units_count
         /\ Apart(call.target.category, call.units, call.metadata_blocks)
         /\ Len(call.metadata_blocks) <= MetadataBlocksOf(call.target)
         /\ call.step # "alloc_metadata_blocks" =>
              Len(call.metadata_blocks) = MetadataBlocksOf(call.target)
    /\ call.step = "replace_metadata" /\ call.mode = "in_place" =>
         /\ Len(call.units) = call.target.data_units_count
         /\ Apart(call.target.category, call.units, call.metadata_blocks)
         /\ \A u \in DOMAIN call.units \cap DOMAIN call.old_units : call.units[u] = call.old_units[u]
    /\ call.step = "replace_metadata" /\ call.target.category = ClusterMetadataBlocks =>
         \A u \in DOMAIN call.units :
           LET items == metadata_disk[BlockOfUnit(call.metadata_blocks, u)]
           IN  SlotOfUnit(u) \in DOMAIN items /\ items[SlotOfUnit(u)] = call.units[u]

\* What is left to give back once the metadata is replaced.
RetiredInv ==
  /\ call.step \in {"detach", "resize_changed"} /\ call.mode = "in_place" =>
       RetiredBlocks =
         BlocksOf(call.target.category,
                  SubSeq(call.old_units, call.target.data_units_count + 1, Len(call.old_units)), <<>>)
  /\ call.step \in {"detach", "free_units"} /\ call.mode = "rebuild" =>
       /\ BlocksOf(call.old.layout.category, call.old_units, call.old.metadata_blocks)
            \cap HeldBlocks = {}
       /\ BlocksOf(call.old.layout.category, call.old_units, <<>>)
            \cap ToSet(call.old.metadata_blocks) = {}
  /\ Committed /\ Resizing =>
       call.target = metadata.layout /\ call.metadata_blocks = metadata.metadata_blocks

\* The blocks in the cache are the new metadata blocks and, until they are
\* detached, those of the old layout.
CacheInv ==
  IF Resizing /\ call.mode = "rebuild" /\ call.step # "alloc_data_units"
    THEN attached \subseteq
           ToSet(call.metadata_blocks) \cup
             (IF ~Committed \/ call.step = "detach"
                THEN OldDataBlocks \cup ToSet(call.old.metadata_blocks) ELSE {})
    ELSE attached = {}

StructureInv ==
  MetadataInv /\ CallInv /\ BeforeCommitInv /\ BuiltInv /\ RetiredInv /\ CacheInv

OwnershipProofs == INSTANCE BlockOwnershipProofs WITH
  Blocks  <- AreaBlocks \ OtherBlocks,
  Files   <- {"file"},
  held    <- [f \in {"file"} |-> HeldBlocks],
  pending <- [f \in {"file"} |-> UncommittedBlocks],
  retired <- [f \in {"file"} |-> RetiredBlocks]

FileResizeInv == StructureInv /\ OwnershipProofs!OwnershipInv
-----------------------------------------------------------------------------
(* Sizes.                                                                  *)

\* A data unit is a whole number of data blocks and of area blocks.
LEMMA UnitGeometry ==
  ASSUME NEW category \in Categories
  PROVE  /\ CategoryDataUnitSize(category) \in Nat \ {0}
         /\ DataBlockSize(category) \in Nat \ {0}
         /\ DataBlockSize(category) % SectorSize = 0
         /\ UnitBlocks(category) \in Nat \ {0}
         /\ DataBlockSize(category) \div BlockSize \in Nat \ {0}
         /\ DataBlockSize(category) = (DataBlockSize(category) \div BlockSize) * BlockSize
         /\ category # Inline =>
              /\ DataBlocksPerUnit(category) \in Nat \ {0}
              /\ CategoryDataUnitSize(category) = DataBlocksPerUnit(category) * DataBlockSize(category)
              /\ UnitBlocks(category) =
                   DataBlocksPerUnit(category) * (DataBlockSize(category) \div BlockSize)
<1> DEFINE L == LargeBlockSize \div BlockSize
           C == ClusterSize \div LargeBlockSize
<1>1. /\ BlockSize \in Nat \ {0} /\ LargeBlockSize \in Nat \ {0} /\ ClusterSize \in Nat \ {0}
      /\ SectorSize \in Nat \ {0}
  BY PositiveGeometry, DeviceAssumption
<1>2. ASSUME NEW a \in Nat \ {0}, NEW b \in Nat \ {0}, a % b = 0
      PROVE  a \div b \in Nat \ {0} /\ a = (a \div b) * b
  BY <1>2
<1>3. L \in Nat \ {0} /\ LargeBlockSize = L * BlockSize
  BY <1>1, <1>2, DeviceAssumption
<1>4. C \in Nat \ {0} /\ ClusterSize = C * LargeBlockSize
  BY <1>1, <1>2, DeviceAssumption
<1>5. ASSUME NEW k \in Nat \ {0}, NEW a \in Nat \ {0} PROVE (k * a) \div a = k
  BY <1>5
<1>6. ClusterSize \div BlockSize = C * L
  <2>1. ClusterSize = (C * L) * BlockSize
    BY <1>1, <1>3, <1>4
  <2>2. C * L \in Nat \ {0}
    BY <1>3, <1>4
  <2>. HIDE DEF C, L
  <2>. QED
    BY <1>1, <1>5, <2>1, <2>2
<1>7. BlockSize \div BlockSize = 1 /\ LargeBlockSize \div LargeBlockSize = 1
  BY <1>1
<1>8. BlockSize % SectorSize = 0 /\ LargeBlockSize % SectorSize = 0
  <2>1. BlockSize = (BlockSize \div SectorSize) * SectorSize /\ BlockSize \div SectorSize \in Nat
    BY <1>1, <1>2, DeviceAssumption
  <2>2. LargeBlockSize = (L * (BlockSize \div SectorSize)) * SectorSize
    <3>. DEFINE B == BlockSize \div SectorSize
    <3>. HIDE DEF L, B
    <3>1. \A x, y, z \in Nat : (x * y) * z = x * (y * z)
      OBVIOUS
    <3>2. B \in Nat /\ BlockSize = B * SectorSize
      BY <2>1 DEF B
    <3>3. (L * B) * SectorSize = L * (B * SectorSize)
      BY <3>1, <3>2, <1>3, <1>1
    <3>. QED
      BY <3>2, <3>3, <1>3 DEF B
  <2>3. ASSUME NEW k \in Nat, NEW a \in Nat \ {0} PROVE (k * a) % a = 0
    BY <2>3
  <2>4. L * (BlockSize \div SectorSize) \in Nat
    BY <1>3, <2>1
  <2>5. (L * (BlockSize \div SectorSize)) * SectorSize % SectorSize = 0
    BY <2>3, <2>4, <1>1
  <2>. QED
    BY <2>2, <2>5, DeviceAssumption
<1>9. category \in {0, 1, 2, 3, 4}
  BY DEF Categories
<1>10. /\ CategoryDataUnitSize(category) =
            IF category \in {0, 1} THEN BlockSize
            ELSE IF category = 2 THEN LargeBlockSize ELSE ClusterSize
       /\ DataBlockSize(category) = IF category = 1 THEN BlockSize ELSE LargeBlockSize
  BY DEF CategoryDataUnitSize, DataBlockSize, Inline, Blocks, LargeBlocks
<1>11. ClusterSize \div LargeBlockSize = C /\ LargeBlockSize \div BlockSize = L
  OBVIOUS
<1>12. C * L = C * L /\ 1 * BlockSize = BlockSize /\ 1 * LargeBlockSize = LargeBlockSize
       /\ C * L \in Nat \ {0}
  BY <1>1, <1>3, <1>4
<1>. HIDE DEF C, L
<1>13. CASE category \in {0, 1}
  BY <1>1, <1>3, <1>7, <1>8, <1>10, <1>11, <1>12, <1>13 DEF UnitBlocks, DataBlocksPerUnit, Inline
<1>14. CASE category = 2
  BY <1>1, <1>3, <1>7, <1>8, <1>10, <1>11, <1>12, <1>14 DEF UnitBlocks, DataBlocksPerUnit, Inline
<1>15. CASE category \in {3, 4}
  BY <1>1, <1>3, <1>4, <1>6, <1>8, <1>10, <1>11, <1>12, <1>15 DEF UnitBlocks, DataBlocksPerUnit, Inline
<1>. QED
  BY <1>9, <1>13, <1>14, <1>15

\* Item n of count lies in one of the chunks of size per that cover them.
LEMMA ChunkOfItem ==
  ASSUME NEW count \in Nat, NEW per \in Nat \ {0}, NEW u \in 1..count
  PROVE  /\ (u - 1) \div per \in 0..(DivCeil(count, per) - 1)
         /\ (u - 1) % per \in 0..(per - 1)
         /\ u - 1 = ((u - 1) \div per) * per + ((u - 1) % per)
<1> DEFINE q == (u - 1) \div per
           r == (u - 1) % per
           n == DivCeil(count, per)
<1>1. n \in Nat /\ count <= n * per
  BY DivCeilCovers
<1>2. q \in Nat /\ r \in 0..(per - 1) /\ u - 1 = q * per + r
  OBVIOUS
<1>. HIDE DEF q, r, n
<1>3. q < n
  <2>1. q * per < n * per
    BY <1>1, <1>2
  <2>2. ASSUME n <= q PROVE n * per <= q * per
    <3>1. q - n \in Nat /\ (q - n) * per \in Nat
      BY <1>1, <1>2, <2>2
    <3>2. q * per = n * per + (q - n) * per
      BY <1>1, <1>2
    <3>. QED
      BY <1>1, <1>2, <3>1, <3>2
  <2>. QED
    BY <1>1, <1>2, <2>1, <2>2
<1>. QED
  BY <1>1, <1>2, <1>3 DEF q, r, n

\* Every unit of category 4 has a metadata block that lists it.
LEMMA MetadataBlockOfUnit ==
  ASSUME NEW count \in Nat, NEW u \in 1..count
  PROVE  /\ ((u - 1) \div ClustersPerMetadataBlock) + 1 \in 1..ClusterMetadataBlocksCount(count)
         /\ ((u - 1) % ClustersPerMetadataBlock) + 1 \in 1..ClustersPerMetadataBlock
<1> DEFINE per == ClustersPerMetadataBlock
<1>1. per \in Nat \ {0}
  BY PositiveGeometry
<1>2. /\ (u - 1) \div per \in 0..(DivCeil(count, per) - 1)
      /\ (u - 1) % per \in 0..(per - 1)
      /\ DivCeil(count, per) \in Nat
  BY <1>1, ChunkOfItem, DivCeilCovers
<1>. QED
  BY <1>1, <1>2 DEF ClusterMetadataBlocksCount

\* A data block the file reaches into lies in one of its units.
LEMMA DataBlockInUnit ==
  ASSUME NEW layout, IsLayout(layout), layout.category # Inline,
         NEW index \in Nat, index * DataBlockSize(layout.category) < layout.file_size
  PROVE  /\ (index \div DataBlocksPerUnit(layout.category)) + 1 \in 1..layout.data_units_count
         /\ index % DataBlocksPerUnit(layout.category) \in 0..(DataBlocksPerUnit(layout.category) - 1)
<1> DEFINE size == DataBlockSize(layout.category)
           per == DataBlocksPerUnit(layout.category)
           unit == CategoryDataUnitSize(layout.category)
           count == layout.data_units_count
           q == index \div per
           r == index % per
<1>1. /\ layout.category \in Categories /\ layout.file_size \in Nat /\ count \in Nat
      /\ layout = BuildLayout(layout.file_size, layout.category)
  BY DEF IsLayout, Layouts
<1>2. layout.file_size <= count * unit
  <2>1. /\ layout.file_size <= BuildLayout(layout.file_size, layout.category).size_on_disk
        /\ BuildLayout(layout.file_size, layout.category).data_units_count * unit =
             BuildLayout(layout.file_size, layout.category).size_on_disk
    BY <1>1, BuildLayoutCovers
  <2>. QED
    BY <1>1, <2>1
<1>3. size \in Nat \ {0} /\ per \in Nat \ {0} /\ unit \in Nat \ {0} /\ unit = per * size
  BY <1>1, UnitGeometry DEF Inline
<1>4. q \in Nat /\ r \in 0..(per - 1) /\ index = q * per + r
  BY <1>3
<1>. HIDE DEF q, r, size, per, unit, count
<1>5. q * unit <= index * size
  <2>1. index * size = (q * per) * size + r * size
    BY <1>3, <1>4
  <2>2. (q * per) * size = q * unit
    BY <1>3, <1>4
  <2>3. r * size \in Nat /\ q * unit \in Nat
    BY <1>3, <1>4
  <2>. QED
    BY <2>1, <2>2, <2>3
<1>6. q < count
  <2>1. q * unit < count * unit
    <3>1. q * unit \in Nat /\ index * size \in Nat /\ count * unit \in Nat
      BY <1>1, <1>3, <1>4
    <3>2. index * size < layout.file_size
      BY DEF size
    <3>. QED
      BY <1>1, <1>2, <1>5, <3>1, <3>2
  <2>2. ASSUME count <= q PROVE count * unit <= q * unit
    <3>1. q - count \in Nat /\ (q - count) * unit \in Nat
      BY <1>1, <1>3, <1>4, <2>2
    <3>2. q * unit = count * unit + (q - count) * unit
      BY <1>1, <1>3, <1>4
    <3>. QED
      BY <1>1, <1>3, <1>4, <3>1, <3>2
  <2>3. q * unit \in Nat /\ count * unit \in Nat
    BY <1>1, <1>3, <1>4
  <2>. QED
    BY <1>1, <1>4, <2>1, <2>2, <2>3
<1>. QED
  BY <1>1, <1>3, <1>4, <1>6 DEF q, r, per, count

\* The data blocks counted in a layout are those the file reaches into.
LEMMA CountedDataBlocks ==
  ASSUME NEW layout, IsLayout(layout), layout.category # Inline
  PROVE  /\ DataBlocksCount(layout) \in Nat
         /\ \A i \in 0..(DataBlocksCount(layout) - 1) : i * DataBlockSize(layout.category) < layout.file_size
         /\ \A k \in 0..(layout.file_size - 1) :
              k \div DataBlockSize(layout.category) \in 0..(DataBlocksCount(layout) - 1)
<1> DEFINE size == DataBlockSize(layout.category)
           n == DivCeil(layout.file_size, size)
<1>1. layout.category \in Categories /\ layout.file_size \in Nat
  BY DEF IsLayout, Layouts
<1>2. size \in Nat \ {0}
  BY <1>1, UnitGeometry
<1>3. DataBlocksCount(layout) = n
  BY DEF DataBlocksCount
<1>4. n \in Nat /\ n * size < layout.file_size + size
  BY <1>1, <1>2, DivCeilCovers
<1>5. ASSUME NEW k \in 0..(layout.file_size - 1) PROVE k \div size \in 0..(n - 1)
  <2>1. k + 1 \in 1..layout.file_size /\ (k + 1) - 1 = k
    BY <1>1
  <2>2. ((k + 1) - 1) \div size \in 0..(n - 1)
    BY <1>1, <1>2, <2>1, ChunkOfItem
  <2>. HIDE DEF n, size
  <2>. QED
    BY <2>1, <2>2
<1>. HIDE DEF n, size
<1>6. ASSUME NEW i \in 0..(n - 1) PROVE i * size < layout.file_size
  <2>1. n - 1 - i \in Nat /\ (n - 1 - i) * size \in Nat
    BY <1>2, <1>4
  <2>2. n * size = i * size + size + (n - 1 - i) * size
    BY <1>2, <1>4
  <2>. QED
    BY <1>1, <1>2, <1>4, <2>1, <2>2
<1>. QED
  BY <1>3, <1>4, <1>5, <1>6 DEF n, size
-----------------------------------------------------------------------------
(* Placements.                                                             *)

\* A finite set of numbers has a member of every rank.
LEMMA EveryRankTaken ==
  ASSUME NEW S \in SUBSET Nat, IsFiniteSet(S), NEW i \in 1..Cardinality(S)
  PROVE  \E b \in S : Cardinality({c \in S : c < b}) = i - 1
<1> DEFINE Below(b) == {c \in S : c < b}
           n == Cardinality(S)
<1>1. n \in Nat
  BY FS_CardinalityType
<1>2. ASSUME NEW b \in S
      PROVE  IsFiniteSet(Below(b)) /\ Cardinality(Below(b)) \in 0..(n - 1)
  <2>1. Below(b) \in SUBSET S /\ Below(b) # S
    BY <1>2
  <2>2. IsFiniteSet(Below(b)) /\ Cardinality(Below(b)) <= n /\ Cardinality(Below(b)) # n
    BY <2>1, FS_Subset
  <2>3. Cardinality(Below(b)) \in Nat
    BY <2>2, FS_CardinalityType
  <2>. QED
    BY <1>1, <2>2, <2>3
<1>3. ASSUME NEW x \in S, NEW y \in S, x < y
      PROVE  Cardinality(Below(x)) # Cardinality(Below(y))
  <2>1. x \in Nat /\ y \in Nat /\ \A c \in S : c \in Nat
    OBVIOUS
  <2>2. \A c \in S : c < x => c < y
    BY <1>3, <2>1
  <2>3. Below(x) \subseteq Below(y) /\ x \in Below(y)
    BY <1>3, <2>2
  <2>5. x \notin Below(x)
    BY <2>1
  <2>4. IsFiniteSet(Below(y))
    BY <1>2
  <2>. HIDE DEF Below
  <2>. QED
    BY <2>3, <2>4, <2>5, FS_Subset
<1>. SUFFICES ASSUME \A b \in S : Cardinality(Below(b)) # i - 1
              PROVE  FALSE
  BY DEF Below
<1> DEFINE T == (0..(n - 1)) \ {i - 1}
           rank == [b \in S |-> Cardinality(Below(b))]
<1>4. rank \in [S -> T]
  BY <1>2
<1>5. IsFiniteSet(0..(n - 1)) /\ Cardinality(0..(n - 1)) = n
  <2>. HIDE DEF n
  <2>1. IsFiniteSet(0..(n - 1)) /\
        Cardinality(0..(n - 1)) = IF 0 > n - 1 THEN 0 ELSE (n - 1) - 0 + 1
    BY <1>1, FS_Interval
  <2>. QED
    BY <1>1, <2>1
<1>6. IsFiniteSet(T) /\ Cardinality(T) = n - 1
  <2>1. i - 1 \in 0..(n - 1)
    BY <1>1
  <2>. HIDE DEF n
  <2>2. /\ IsFiniteSet((0..(n - 1)) \ {i - 1})
        /\ Cardinality((0..(n - 1)) \ {i - 1}) =
             IF i - 1 \in 0..(n - 1) THEN Cardinality(0..(n - 1)) - 1 ELSE Cardinality(0..(n - 1))
    BY <1>5, FS_RemoveElement
  <2>. QED
    BY <1>5, <2>1, <2>2
<1>7. Cardinality(T) < n
  BY <1>1, <1>6
<1>8. \E x, y \in S : x # y /\ rank[x] = rank[y]
  <2>. HIDE DEF T, rank
  <2>. QED
    BY <1>4, <1>6, <1>7, FS_PigeonHole
<1>9. PICK x \in S, y \in S : x # y /\ Cardinality(Below(x)) = Cardinality(Below(y))
  BY <1>8
<1>10. x < y \/ y < x
  BY <1>9
<1>. QED
  BY <1>3, <1>9, <1>10

\* What the allocator hands out: as many extents as asked for, all of them
\* free, none twice.
LEMMA PlacementsAreFree ==
  ASSUME NEW width \in Nat \ {0}, NEW count \in Nat, free \subseteq AreaBlocks,
         NEW numbers \in Placements(width, count)
  PROVE  /\ numbers \in Seq(AreaBlocks)
         /\ Len(numbers) = count
         /\ \A u \in 1..count : Extent(numbers[u], width) \subseteq free
         /\ \A u, v \in 1..count :
              u # v => Extent(numbers[u], width) \cap Extent(numbers[v], width) = {}
<1> DEFINE starts == {b \in AreaBlocks : b % width = 0 /\ Extent(b, width) \subseteq free}
           n == Cardinality(starts)
           Rank(b) == Cardinality({c \in starts : c < b})
           ordered == [i \in 1..n |-> CHOOSE b \in starts : Rank(b) = i - 1]
<1>1. AreaBlocks \subseteq Nat
  <2>1. Cardinality(AreaBlocks) \in Nat
    BY DeviceAssumption, FS_CardinalityType
  <2>. QED
    BY <2>1, DeviceAssumption
<1>2. starts \in SUBSET AreaBlocks /\ starts \in SUBSET Nat /\ IsFiniteSet(starts) /\ n \in Nat
  <2>1. starts \in SUBSET AreaBlocks
    OBVIOUS
  <2>2. IsFiniteSet(starts)
    BY <2>1, DeviceAssumption, FS_Subset
  <2>. QED
    BY <1>1, <2>1, <2>2, FS_CardinalityType
<1>3. ASSUME NEW i \in 1..n PROVE ordered[i] \in starts /\ Rank(ordered[i]) = i - 1
  <2>1. \E b \in starts : Rank(b) = i - 1
    BY <1>2, EveryRankTaken
  <2>. HIDE DEF starts, Rank
  <2>2. ordered[i] = CHOOSE b \in starts : Rank(b) = i - 1
    OBVIOUS
  <2>. QED
    BY <2>1, <2>2
<1>4. PICK from \in Nat \ {0} :
        from + count - 1 <= n /\ numbers = SubSeq(ordered, from, from + count - 1)
  <2>1. ~(n < count)
    BY DEF Placements
  <2>2. numbers \in {SubSeq(ordered, [lowest |-> 1, highest |-> n - count + 1][p],
                             [lowest |-> 1, highest |-> n - count + 1][p] + count - 1) : p \in Placing}
    BY <2>1 DEF Placements
  <2>. HIDE DEF ordered, n
  <2>3. PICK p \in {"lowest", "highest"} :
          numbers = SubSeq(ordered, [lowest |-> 1, highest |-> n - count + 1][p],
                           [lowest |-> 1, highest |-> n - count + 1][p] + count - 1)
    BY <2>2, DeviceAssumption
  <2>4. CASE p = "lowest"
    <3>1. numbers = SubSeq(ordered, 1, 1 + count - 1)
      BY <2>3, <2>4
    <3>2. 1 + count - 1 <= n
      BY <1>2, <2>1 DEF n
    <3>. QED
      BY <3>1, <3>2
  <2>5. CASE p = "highest"
    <3>1. numbers = SubSeq(ordered, n - count + 1, n - count + 1 + count - 1)
      BY <2>3, <2>5
    <3>2. n - count + 1 \in Nat \ {0} /\ n - count + 1 + count - 1 <= n
      BY <1>2, <2>1 DEF n
    <3>. QED
      BY <3>1, <3>2
  <2>. QED
    BY <2>3, <2>4, <2>5
<1>5. /\ numbers \in Seq(AreaBlocks)
      /\ Len(numbers) = count
      /\ \A u \in 1..count : numbers[u] = ordered[from + u - 1]
  <2>1. ASSUME NEW i \in from..(from + count - 1) PROVE ordered[i] \in AreaBlocks
    <3>1. i \in 1..n
      BY <1>2, <1>4
    <3>. HIDE DEF starts, ordered
    <3>. QED
      BY <1>2, <1>3, <3>1
  <2>. HIDE DEF ordered
  <2>2. /\ SubSeq(ordered, from, from + count - 1) \in Seq(AreaBlocks)
        /\ Len(SubSeq(ordered, from, from + count - 1)) =
             IF from <= from + count - 1 THEN from + count - 1 - from + 1 ELSE 0
        /\ \A i \in 1..(from + count - 1 - from + 1) :
             SubSeq(ordered, from, from + count - 1)[i] = ordered[from + i - 1]
    BY <2>1, SubSeqProperties
  <2>. QED
    BY <1>4, <2>2
<1>6. ASSUME NEW u \in 1..count
      PROVE  numbers[u] \in starts /\ Rank(numbers[u]) = from + u - 2
  <2>1. from + u - 1 \in 1..n
    BY <1>2, <1>4
  <2>2. ordered[from + u - 1] \in starts /\ Rank(ordered[from + u - 1]) = (from + u - 1) - 1
    BY <1>3, <2>1
  <2>. HIDE DEF starts, ordered, Rank
  <2>. QED
    BY <1>4, <1>5, <2>2
<1>7. ASSUME NEW u \in 1..count, NEW v \in 1..count, u # v
      PROVE  Extent(numbers[u], width) \cap Extent(numbers[v], width) = {}
  <2>. DEFINE a == numbers[u]
              b == numbers[v]
  <2>1. a \in Nat /\ b \in Nat /\ a % width = 0 /\ b % width = 0
    BY <1>1, <1>6
  <2>2. a # b
    <3>1. Rank(a) = from + u - 2 /\ Rank(b) = from + v - 2
      BY <1>6
    <3>. HIDE DEF Rank
    <3>. QED
      BY <1>4, <1>7, <3>1
  <2>. HIDE DEF a, b
  <2>3. a + width <= b \/ b + width <= a
    <3>1. a = (a \div width) * width /\ b = (b \div width) * width
          /\ a \div width \in Nat /\ b \div width \in Nat
      BY <2>1
    <3>2. ASSUME NEW p \in Nat, NEW q \in Nat, p < q PROVE p * width + width <= q * width
      <4>1. q - p - 1 \in Nat /\ q * width = p * width + width + (q - p - 1) * width
        BY <3>2
      <4>2. (q - p - 1) * width \in Nat
        BY <4>1
      <4>. QED
        BY <4>1, <4>2
    <3>3. a \div width < b \div width \/ b \div width < a \div width
      BY <2>2, <3>1
    <3>. QED
      BY <3>1, <3>2, <3>3
  <2>. QED
    BY <2>1, <2>3 DEF Extent, a, b
<1>. QED
  BY <1>5, <1>6, <1>7
-----------------------------------------------------------------------------
(* Sequences of unit items.                                                *)

LEMMA AreaBlocksAreNumbers == AreaBlocks \subseteq Nat
<1>1. Cardinality(AreaBlocks) \in Nat
  BY DeviceAssumption, FS_CardinalityType
<1>. QED
  BY <1>1, DeviceAssumption

\* IsUnits from a length and a property of each item.
LEMMA UnitsFromItems ==
  ASSUME NEW n \in Nat, NEW units, units = [u \in 1..n |-> units[u]],
         \A u \in 1..n : /\ DOMAIN units[u] = {"block_number", "hash"}
                         /\ units[u].block_number \in AreaBlocks
  PROVE  IsUnits(units) /\ Len(units) = n /\ DOMAIN units = 1..n
<1>1. DOMAIN units = 1..n
  OBVIOUS
<1>2. units \in Seq({units[u] : u \in DOMAIN units})
  <2>1. \A u \in 1..n : units[u] \in {units[v] : v \in DOMAIN units}
    BY <1>1
  <2>2. units \in [1..n -> {units[v] : v \in DOMAIN units}]
    BY <2>1
  <2>. QED
    BY <2>2, SeqDef
<1>3. Len(units) = n
  <2>1. Len(units) \in Nat /\ DOMAIN units = 1..Len(units)
    BY <1>2, LenProperties
  <2>. QED
    BY <1>1, <2>1
<1>. QED
  BY <1>1, <1>2, <1>3 DEF IsUnits

LEMMA UnitsHaveItems ==
  ASSUME NEW units, IsUnits(units)
  PROVE  /\ Len(units) \in Nat
         /\ DOMAIN units = 1..Len(units)
         /\ units = [u \in 1..Len(units) |-> units[u]]
         /\ \A u \in 1..Len(units) : /\ DOMAIN units[u] = {"block_number", "hash"}
                                     /\ units[u].block_number \in AreaBlocks
<1>1. /\ Len(units) \in Nat
      /\ units \in [1..Len(units) -> {units[u] : u \in DOMAIN units}]
      /\ DOMAIN units = 1..Len(units)
  BY LenProperties DEF IsUnits
<1>. QED
  BY <1>1 DEF IsUnits

LEMMA NoUnits == IsUnits(<<>>) /\ Len(<<>>) = 0 /\ DOMAIN <<>> = {}
<1>1. <<>> = [u \in 1..0 |-> <<>>[u]]
  OBVIOUS
<1>2. 0 \in Nat /\ 1..0 = {}
  OBVIOUS
<1>. QED
  BY <1>1, <1>2, UnitsFromItems

LEMMA SubSeqOfUnits ==
  ASSUME NEW units, IsUnits(units), NEW m \in Nat \ {0}, NEW n \in Int, n <= Len(units)
  PROVE  /\ IsUnits(SubSeq(units, m, n))
         /\ Len(SubSeq(units, m, n)) = IF m <= n THEN n - m + 1 ELSE 0
         /\ \A u \in 1..(n - m + 1) : SubSeq(units, m, n)[u] = units[m + u - 1]
<1> DEFINE S == {units[u] : u \in DOMAIN units}
           sub == SubSeq(units, m, n)
           len == IF m <= n THEN n - m + 1 ELSE 0
<1>1. \A i \in m..n : i \in DOMAIN units /\ units[i] \in S
  BY UnitsHaveItems
<1>2. /\ sub \in Seq(S)
      /\ Len(sub) = len
      /\ \A i \in 1..(n - m + 1) : sub[i] = units[m + i - 1]
  <2>1. \A i \in m..n : units[i] \in S
    BY <1>1
  <2>. HIDE DEF S
  <2>. QED
    BY <2>1, SubSeqProperties DEF sub
<1>3. len \in Nat /\ sub = [u \in 1..len |-> sub[u]]
  <2>. HIDE DEF S, sub
  <2>. QED
    BY <1>2, LenProperties
<1>4. \A u \in 1..len : sub[u] = units[m + u - 1] /\ m + u - 1 \in DOMAIN units
  <2>1. \A u \in 1..len : u \in 1..(n - m + 1) /\ m + u - 1 \in m..n
    OBVIOUS
  <2>. HIDE DEF sub, len
  <2>. QED
    BY <1>1, <1>2, <2>1
<1>5. \A u \in 1..len : /\ DOMAIN sub[u] = {"block_number", "hash"}
                        /\ sub[u].block_number \in AreaBlocks
  BY <1>4 DEF IsUnits
<1>. HIDE DEF sub, len, S
<1>6. IsUnits(sub)
  BY <1>3, <1>5, UnitsFromItems
<1>. QED
  BY <1>2, <1>6 DEF sub, len

LEMMA ConcatOfUnits ==
  ASSUME NEW s, IsUnits(s), NEW t, IsUnits(t)
  PROVE  /\ IsUnits(s \o t)
         /\ Len(s \o t) = Len(s) + Len(t)
         /\ \A u \in 1..Len(s) : (s \o t)[u] = s[u]
         /\ \A u \in 1..Len(t) : (s \o t)[Len(s) + u] = t[u]
<1> DEFINE S == {s[u] : u \in DOMAIN s} \cup {t[u] : u \in DOMAIN t}
           n == Len(s) + Len(t)
<1>1. s \in Seq(S) /\ t \in Seq(S) /\ Len(s) \in Nat /\ Len(t) \in Nat
  BY SeqMonotonic, UnitsHaveItems DEF IsUnits
<1>2. /\ s \o t \in Seq(S)
      /\ Len(s \o t) = n
      /\ \A i \in 1..n : (s \o t)[i] = IF i <= Len(s) THEN s[i] ELSE t[i - Len(s)]
  <2>. HIDE DEF S
  <2>. QED
    BY <1>1, ConcatProperties
<1>3. s \o t = [u \in 1..n |-> (s \o t)[u]]
  <2>. HIDE DEF S
  <2>. QED
    BY <1>2, LenProperties
<1>4. \A u \in 1..n : /\ DOMAIN (s \o t)[u] = {"block_number", "hash"}
                      /\ (s \o t)[u].block_number \in AreaBlocks
  <2>1. ASSUME NEW u \in 1..n
        PROVE  (u <= Len(s) /\ u \in 1..Len(s)) \/ (~(u <= Len(s)) /\ u - Len(s) \in 1..Len(t))
    BY <1>1
  <2>. QED
    BY <1>2, <2>1, UnitsHaveItems
<1>5. IsUnits(s \o t)
  BY <1>1, <1>3, <1>4, UnitsFromItems
<1>6. \A u \in 1..Len(s) : u \in 1..n /\ u <= Len(s)
  BY <1>1
<1>7. \A u \in 1..Len(t) : Len(s) + u \in 1..n /\ ~(Len(s) + u <= Len(s)) /\ Len(s) + u - Len(s) = u
  BY <1>1
<1>. HIDE DEF n
<1>. QED
  BY <1>2, <1>5, <1>6, <1>7 DEF n

LEMMA NewUnitsAreUnits ==
  ASSUME NEW category, NEW numbers \in Seq(AreaBlocks)
  PROVE  /\ IsUnits(NewUnits(category, numbers))
         /\ Len(NewUnits(category, numbers)) = Len(numbers)
         /\ \A u \in 1..Len(numbers) : NewUnits(category, numbers)[u].block_number = numbers[u]
<1> DEFINE new == NewUnits(category, numbers)
<1>1. Len(numbers) \in Nat /\ DOMAIN numbers = 1..Len(numbers)
      /\ \A u \in 1..Len(numbers) : numbers[u] \in AreaBlocks
  BY LenProperties, ElementOfSeq
<1>2. new = [u \in 1..Len(numbers) |-> new[u]]
  BY <1>1 DEF NewUnits
<1>3. \A u \in 1..Len(numbers) :
        new[u] = [block_number |-> numbers[u],
                  hash |-> [b \in 1..DataBlocksPerUnit(category) |-> NoHash]]
  BY <1>1 DEF NewUnits
<1>. HIDE DEF new
<1>4. \A u \in 1..Len(numbers) : DOMAIN new[u] = {"block_number", "hash"} /\ new[u].block_number = numbers[u]
  <2>1. ASSUME NEW a, NEW h
        PROVE  /\ DOMAIN [block_number |-> a, hash |-> h] = {"block_number", "hash"}
               /\ [block_number |-> a, hash |-> h].block_number = a
    OBVIOUS
  <2>. SUFFICES ASSUME NEW u \in 1..Len(numbers)
                PROVE  DOMAIN new[u] = {"block_number", "hash"} /\ new[u].block_number = numbers[u]
    OBVIOUS
  <2>2. PICK h : new[u] = [block_number |-> numbers[u], hash |-> h]
    BY <1>3
  <2>. QED
    BY <2>1, <2>2
<1>5. IsUnits(new) /\ Len(new) = Len(numbers)
  BY <1>1, <1>2, <1>4, UnitsFromItems
<1>. QED
  BY <1>4, <1>5 DEF new

\* The same units, whatever hashes they carry.
SameNumbers(s, t) ==
  /\ DOMAIN s = DOMAIN t
  /\ \A u \in DOMAIN s : s[u].block_number = t[u].block_number

LEMMA WithHashKeepsNumbers ==
  ASSUME NEW category, NEW units, IsUnits(units), NEW index, NEW hash
  PROVE  /\ IsUnits(WithHash(category, units, index, hash))
         /\ Len(WithHash(category, units, index, hash)) = Len(units)
         /\ SameNumbers(WithHash(category, units, index, hash), units)
<1> DEFINE w == WithHash(category, units, index, hash)
           k == (index \div DataBlocksPerUnit(category)) + 1
           j == (index % DataBlocksPerUnit(category)) + 1
<1>1. /\ Len(units) \in Nat /\ DOMAIN units = 1..Len(units)
      /\ \A u \in 1..Len(units) : /\ DOMAIN units[u] = {"block_number", "hash"}
                                  /\ units[u].block_number \in AreaBlocks
  BY UnitsHaveItems
<1>2. w = [units EXCEPT ![k] = [units[k] EXCEPT !.hash = [units[k].hash EXCEPT ![j] = hash]]]
  BY DEF WithHash
<1>. HIDE DEF w, k, j
<1>3. w = [u \in 1..Len(units) |-> w[u]] /\ DOMAIN w = 1..Len(units)
  BY <1>1, <1>2
<1>4. \A u \in 1..Len(units) :
        w[u] = IF u = k THEN [units[k] EXCEPT !.hash = [units[k].hash EXCEPT ![j] = hash]] ELSE units[u]
  BY <1>1, <1>2
<1>5. \A u \in 1..Len(units) :
        /\ DOMAIN w[u] = {"block_number", "hash"}
        /\ w[u].block_number = units[u].block_number
  BY <1>1, <1>4
<1>6. IsUnits(w) /\ Len(w) = Len(units)
  BY <1>1, <1>3, <1>5, UnitsFromItems
<1>. QED
  BY <1>1, <1>3, <1>5, <1>6 DEF w, SameNumbers

LEMMA SameNumbersSameBlocks ==
  ASSUME NEW category, NEW s, NEW t, NEW metadata_blocks, SameNumbers(s, t)
  PROVE  /\ BlocksOf(category, s, metadata_blocks) = BlocksOf(category, t, metadata_blocks)
         /\ Apart(category, s, metadata_blocks) <=> Apart(category, t, metadata_blocks)
<1>1. DOMAIN s = DOMAIN t /\ \A u \in DOMAIN s : UnitExtent(category, s[u]) = UnitExtent(category, t[u])
  BY DEF SameNumbers, UnitExtent
<1>2. {UnitExtent(category, s[u]) : u \in DOMAIN s} = {UnitExtent(category, t[u]) : u \in DOMAIN t}
  BY <1>1
<1>3. BlocksOf(category, s, metadata_blocks) = BlocksOf(category, t, metadata_blocks)
  BY <1>2 DEF BlocksOf
<1>4. Apart(category, s, metadata_blocks) <=> Apart(category, t, metadata_blocks)
  BY <1>1 DEF Apart
<1>. QED
  BY <1>3, <1>4
-----------------------------------------------------------------------------
(* The blocks of units and of layouts.                                     *)

LEMMA BlocksOfParts ==
  ASSUME NEW category, NEW units, NEW metadata_blocks
  PROVE  BlocksOf(category, units, metadata_blocks)
           = BlocksOf(category, units, <<>>) \cup ToSet(metadata_blocks)
<1>1. ToSet(<<>>) = {}
  BY DEF ToSet
<1>2. ASSUME NEW blocks, NEW b
      PROVE  b \in BlocksOf(category, units, blocks) <=>
               (\E u \in DOMAIN units : b \in UnitExtent(category, units[u])) \/ b \in ToSet(blocks)
  BY DEF BlocksOf
<1>3. \A b : b \in BlocksOf(category, units, metadata_blocks) <=>
               b \in BlocksOf(category, units, <<>>) \/ b \in ToSet(metadata_blocks)
  BY <1>1, <1>2
<1>. QED
  BY <1>3

LEMMA NoBlocks ==
  ASSUME NEW category
  PROVE  BlocksOf(category, <<>>, <<>>) = {} /\ ToSet(<<>>) = {}
<1>1. DOMAIN <<>> = {}
  BY NoUnits
<1>2. ToSet(<<>>) = {}
  BY DEF ToSet
<1>. QED
  BY <1>1, <1>2 DEF BlocksOf

LEMMA BlocksOfConcat ==
  ASSUME NEW category, NEW s, IsUnits(s), NEW t, IsUnits(t)
  PROVE  BlocksOf(category, s \o t, <<>>) = BlocksOf(category, s, <<>>) \cup BlocksOf(category, t, <<>>)
<1>1. /\ DOMAIN s = 1..Len(s) /\ DOMAIN t = 1..Len(t)
      /\ Len(s) \in Nat /\ Len(t) \in Nat
      /\ DOMAIN (s \o t) = 1..(Len(s) + Len(t))
      /\ \A u \in 1..Len(s) : (s \o t)[u] = s[u]
      /\ \A u \in 1..Len(t) : (s \o t)[Len(s) + u] = t[u]
  <2>1. IsUnits(s \o t) /\ Len(s \o t) = Len(s) + Len(t)
    BY ConcatOfUnits
  <2>2. DOMAIN (s \o t) = 1..(Len(s) + Len(t))
    BY <2>1, UnitsHaveItems
  <2>3. /\ DOMAIN s = 1..Len(s) /\ DOMAIN t = 1..Len(t)
        /\ Len(s) \in Nat /\ Len(t) \in Nat
    BY UnitsHaveItems
  <2>4. /\ \A u \in 1..Len(s) : (s \o t)[u] = s[u]
        /\ \A u \in 1..Len(t) : (s \o t)[Len(s) + u] = t[u]
    BY ConcatOfUnits
  <2>. QED
    BY <2>2, <2>3, <2>4
<1>2. \A u \in 1..Len(s) : u \in 1..(Len(s) + Len(t))
  BY <1>1
<1>3. \A u \in 1..Len(t) : Len(s) + u \in 1..(Len(s) + Len(t))
  BY <1>1
<1>4. \A u \in 1..(Len(s) + Len(t)) :
        u \in 1..Len(s) \/ (u - Len(s) \in 1..Len(t) /\ u = Len(s) + (u - Len(s)))
  BY <1>1
<1>5. ASSUME NEW b PROVE b \in BlocksOf(category, s \o t, <<>>) <=>
                           \E u \in 1..(Len(s) + Len(t)) : b \in UnitExtent(category, (s \o t)[u])
  BY <1>1, NoBlocks DEF BlocksOf
<1>6. ASSUME NEW b PROVE b \in BlocksOf(category, s, <<>>) <=>
                           \E u \in 1..Len(s) : b \in UnitExtent(category, s[u])
  BY <1>1, NoBlocks DEF BlocksOf
<1>7. ASSUME NEW b PROVE b \in BlocksOf(category, t, <<>>) <=>
                           \E u \in 1..Len(t) : b \in UnitExtent(category, t[u])
  BY <1>1, NoBlocks DEF BlocksOf
<1>8. ASSUME NEW b, b \in BlocksOf(category, s \o t, <<>>)
      PROVE  b \in BlocksOf(category, s, <<>>) \cup BlocksOf(category, t, <<>>)
  <2>1. PICK u \in 1..(Len(s) + Len(t)) : b \in UnitExtent(category, (s \o t)[u])
    BY <1>5, <1>8
  <2>2. CASE u \in 1..Len(s)
    BY <1>1, <1>6, <2>1, <2>2
  <2>3. CASE u - Len(s) \in 1..Len(t)
    <3>1. (s \o t)[u] = t[u - Len(s)]
      BY <1>1, <1>4, <2>1, <2>3
    <3>. QED
      BY <1>7, <2>1, <2>3, <3>1
  <2>. QED
    BY <1>4, <2>2, <2>3
<1>9. ASSUME NEW b, b \in BlocksOf(category, s, <<>>) \cup BlocksOf(category, t, <<>>)
      PROVE  b \in BlocksOf(category, s \o t, <<>>)
  BY <1>1, <1>2, <1>3, <1>5, <1>6, <1>7, <1>9
<1>. QED
  BY <1>8, <1>9

\* Cutting a list of units in two splits its blocks, and keeps them apart if
\* the units were.
LEMMA BlocksOfCut ==
  ASSUME NEW category, NEW units, IsUnits(units), NEW k \in 0..Len(units)
  PROVE  /\ BlocksOf(category, units, <<>>) =
              BlocksOf(category, SubSeq(units, 1, k), <<>>)
                \cup BlocksOf(category, SubSeq(units, k + 1, Len(units)), <<>>)
         /\ Apart(category, units, <<>>) =>
              BlocksOf(category, SubSeq(units, 1, k), <<>>)
                \cap BlocksOf(category, SubSeq(units, k + 1, Len(units)), <<>>) = {}
<1> DEFINE n == Len(units)
           s == SubSeq(units, 1, k)
           t == SubSeq(units, k + 1, n)
<1>1. n \in Nat /\ DOMAIN units = 1..n /\ k \in 0..n
  BY UnitsHaveItems
<1>2. /\ IsUnits(s) /\ Len(s) = k
      /\ \A u \in 1..k : s[u] = units[u]
  <2>1. /\ IsUnits(s) /\ Len(s) = IF 1 <= k THEN k - 1 + 1 ELSE 0
        /\ \A u \in 1..(k - 1 + 1) : s[u] = units[1 + u - 1]
    BY <1>1, SubSeqOfUnits
  <2>. HIDE DEF s, n
  <2>. QED
    BY <1>1, <2>1
<1>3. /\ IsUnits(t) /\ Len(t) = n - k
      /\ \A u \in 1..(n - k) : t[u] = units[k + u]
  <2>1. /\ IsUnits(t) /\ Len(t) = IF k + 1 <= n THEN n - (k + 1) + 1 ELSE 0
        /\ \A u \in 1..(n - (k + 1) + 1) : t[u] = units[(k + 1) + u - 1]
    BY <1>1, SubSeqOfUnits
  <2>. HIDE DEF t, n
  <2>. QED
    BY <1>1, <2>1
<1>4. DOMAIN s = 1..k /\ DOMAIN t = 1..(n - k)
  BY <1>2, <1>3, UnitsHaveItems
<1>. HIDE DEF n, s, t
<1>5. ASSUME NEW b PROVE b \in BlocksOf(category, units, <<>>) <=>
                           \E u \in 1..n : b \in UnitExtent(category, units[u])
  BY <1>1, NoBlocks DEF BlocksOf
<1>6. ASSUME NEW b PROVE b \in BlocksOf(category, s, <<>>) <=>
                           \E u \in 1..k : b \in UnitExtent(category, units[u])
  BY <1>2, <1>4, NoBlocks DEF BlocksOf
<1>7. ASSUME NEW b PROVE b \in BlocksOf(category, t, <<>>) <=>
                           \E u \in 1..(n - k) : b \in UnitExtent(category, units[k + u])
  BY <1>3, <1>4, NoBlocks DEF BlocksOf
<1>8. \A u \in 1..n : u \in 1..k \/ (u - k \in 1..(n - k) /\ k + (u - k) = u)
  BY <1>1 DEF n
<1>9. \A u \in 1..k : u \in 1..n
  BY <1>1 DEF n
<1>10. \A u \in 1..(n - k) : k + u \in 1..n /\ \A v \in 1..k : k + u # v
  BY <1>1 DEF n
<1>11. BlocksOf(category, units, <<>>) = BlocksOf(category, s, <<>>) \cup BlocksOf(category, t, <<>>)
  <2>1. ASSUME NEW b, b \in BlocksOf(category, units, <<>>)
        PROVE  b \in BlocksOf(category, s, <<>>) \cup BlocksOf(category, t, <<>>)
    <3>1. PICK u \in 1..n : b \in UnitExtent(category, units[u])
      BY <1>5, <2>1
    <3>2. CASE u \in 1..k
      BY <1>6, <3>1, <3>2
    <3>3. CASE u - k \in 1..(n - k) /\ k + (u - k) = u
      BY <1>7, <3>1, <3>3
    <3>. QED
      BY <1>8, <3>2, <3>3
  <2>2. ASSUME NEW b, b \in BlocksOf(category, s, <<>>) \cup BlocksOf(category, t, <<>>)
        PROVE  b \in BlocksOf(category, units, <<>>)
    BY <1>5, <1>6, <1>7, <1>9, <1>10, <2>2
  <2>. QED
    BY <2>1, <2>2
<1>12. ASSUME Apart(category, units, <<>>)
       PROVE  BlocksOf(category, s, <<>>) \cap BlocksOf(category, t, <<>>) = {}
  <2>1. \A u \in 1..k, v \in 1..(n - k) :
          UnitExtent(category, units[u]) \cap UnitExtent(category, units[k + v]) = {}
    BY <1>1, <1>9, <1>10, <1>12 DEF Apart
  <2>. QED
    BY <1>6, <1>7, <2>1
<1>. QED
  BY <1>11, <1>12 DEF n, s, t

\* Freshly placed units take free blocks only, each of its own.
LEMMA PlacedUnits ==
  ASSUME NEW category \in Categories, NEW count \in Nat, free \subseteq AreaBlocks,
         NEW numbers \in Placements(UnitBlocks(category), count)
  PROVE  LET new == NewUnits(category, numbers)
         IN  /\ IsUnits(new)
             /\ Len(new) = count
             /\ BlocksOf(category, new, <<>>) \subseteq free
             /\ Apart(category, new, <<>>)
<1> DEFINE new == NewUnits(category, numbers)
<1>1. UnitBlocks(category) \in Nat \ {0}
  BY UnitGeometry
<1>2. /\ numbers \in Seq(AreaBlocks)
      /\ Len(numbers) = count
      /\ \A u \in 1..count : Extent(numbers[u], UnitBlocks(category)) \subseteq free
      /\ \A u, v \in 1..count :
           u # v => Extent(numbers[u], UnitBlocks(category)) \cap Extent(numbers[v], UnitBlocks(category)) = {}
  BY <1>1, PlacementsAreFree
<1>3. /\ IsUnits(new) /\ Len(new) = count /\ DOMAIN new = 1..count
      /\ \A u \in 1..count : new[u].block_number = numbers[u]
  BY <1>2, NewUnitsAreUnits, UnitsHaveItems
<1>. HIDE DEF new
<1>4. \A u \in 1..count : UnitExtent(category, new[u]) = Extent(numbers[u], UnitBlocks(category))
  BY <1>3 DEF UnitExtent
<1>5. BlocksOf(category, new, <<>>) \subseteq free
  BY <1>2, <1>3, <1>4, NoBlocks DEF BlocksOf
<1>6. DOMAIN <<>> = {}
  BY NoUnits
<1>7. Apart(category, new, <<>>)
  BY <1>2, <1>3, <1>4, <1>6 DEF Apart
<1>. QED
  BY <1>3, <1>5, <1>7 DEF new

\* The units a well-formed entry leads to.
LEMMA UnitsOfEntry ==
  ASSUME MetadataInv
  PROVE  /\ IsUnits(UnitsOf(metadata))
         /\ Len(UnitsOf(metadata)) = metadata.layout.data_units_count
<1> DEFINE count == metadata.layout.data_units_count
<1>1. IsEntry(metadata) /\ count \in Nat
  BY DEF MetadataInv, IsEntry, IsLayout, Layouts
<1>2. CASE metadata.layout.category # ClusterMetadataBlocks
  BY <1>1, <1>2 DEF IsEntry, UnitsOf
<1>3. CASE metadata.layout.category = ClusterMetadataBlocks
  <2> DEFINE Item(u) == metadata_disk[BlockOfUnit(metadata.metadata_blocks, u)][SlotOfUnit(u)]
  <2>1. UnitsOf(metadata) = [u \in 1..count |-> Item(u)]
    BY <1>3 DEF UnitsOf, BlockOfUnit, SlotOfUnit
  <2>2. ASSUME NEW u \in 1..count
        PROVE  DOMAIN Item(u) = {"block_number", "hash"} /\ Item(u).block_number \in AreaBlocks
    <3>1. BlockOfUnit(metadata.metadata_blocks, u) \in AreaBlocks
      <4>. DEFINE j == ((u - 1) \div ClustersPerMetadataBlock) + 1
      <4>1. Len(metadata.metadata_blocks) = ClusterMetadataBlocksCount(count)
        BY <1>1, <1>3 DEF IsEntry, MetadataBlocksOf
      <4>2. j \in 1..ClusterMetadataBlocksCount(count)
        BY <1>1, MetadataBlockOfUnit
      <4>. HIDE DEF j, count
      <4>3. metadata.metadata_blocks[j] \in AreaBlocks
        BY <1>1, <4>1, <4>2, ElementOfSeq DEF IsEntry
      <4>. QED
        BY <4>3 DEF BlockOfUnit, j
    <3>2. SlotOfUnit(u) \in DOMAIN metadata_disk[BlockOfUnit(metadata.metadata_blocks, u)]
      BY <1>3 DEF MetadataInv
    <3>. QED
      BY <3>1, <3>2 DEF MetadataInv, IsUnits
  <2>. HIDE DEF Item, count
  <2>3. \A u \in 1..count : UnitsOf(metadata)[u] = Item(u)
    BY <2>1
  <2>4. UnitsOf(metadata) = [u \in 1..count |-> UnitsOf(metadata)[u]]
    BY <2>1
  <2>5. IsUnits(UnitsOf(metadata)) /\ Len(UnitsOf(metadata)) = count
    BY <1>1, <2>2, <2>3, <2>4, UnitsFromItems
  <2>. QED
    BY <2>5 DEF count
<1>. QED
  BY <1>2, <1>3
-----------------------------------------------------------------------------
(* The steps of BlockOwnership, from what a step of FileResize does to the *)
(* blocks of the file.                                                     *)

Stuttering == UNCHANGED <<free, HeldBlocks, UncommittedBlocks, RetiredBlocks>>

\* One step of BlockOwnership or none, in the form FollowsOwnership gives it.
OwnershipStep ==
  \/ Ownership!Allocate("file", free \ free')
  \/ Ownership!Rollback("file")
  \/ Ownership!Commit("file", HeldBlocks \cap HeldBlocks')
  \/ Ownership!Release("file", free' \ free)
  \/ UNCHANGED Ownership!vars

LEMMA AllocateStep ==
  ASSUME NEW blocks \in SUBSET free, free' = free \ blocks,
         UncommittedBlocks' = UncommittedBlocks \cup blocks,
         HeldBlocks' = HeldBlocks, RetiredBlocks' = RetiredBlocks
  PROVE  OwnershipStep
<1>1. free \ free' = blocks
  OBVIOUS
<1>. QED
  BY <1>1 DEF OwnershipStep, Ownership!Allocate

LEMMA RollbackStep ==
  ASSUME free' = free \cup UncommittedBlocks, UncommittedBlocks' = {},
         HeldBlocks' = HeldBlocks, RetiredBlocks' = RetiredBlocks
  PROVE  OwnershipStep
  BY DEF OwnershipStep, Ownership!Rollback

LEMMA CommitStep ==
  ASSUME NEW kept \in SUBSET HeldBlocks, HeldBlocks' = kept \cup UncommittedBlocks,
         HeldBlocks \cap UncommittedBlocks = {},
         UncommittedBlocks' = {}, free' = free,
         RetiredBlocks' = RetiredBlocks \cup (HeldBlocks \ kept)
  PROVE  OwnershipStep
<1>1. HeldBlocks \cap HeldBlocks' = kept
  OBVIOUS
<1>. QED
  BY <1>1 DEF OwnershipStep, Ownership!Commit

LEMMA ReleaseStep ==
  ASSUME NEW blocks \in SUBSET RetiredBlocks, free' = free \cup blocks,
         free \cap RetiredBlocks = {}, RetiredBlocks' = RetiredBlocks \ blocks,
         HeldBlocks' = HeldBlocks, UncommittedBlocks' = UncommittedBlocks
  PROVE  OwnershipStep
<1>1. free' \ free = blocks
  OBVIOUS
<1>. QED
  BY <1>1 DEF OwnershipStep, Ownership!Release

LEMMA StutteringStep ==
  ASSUME Stuttering
  PROVE  OwnershipStep
  BY DEF Stuttering, OwnershipStep, Ownership!vars

\* What OwnershipInv says of this one file.
LEMMA OneFileOwnership ==
  OwnershipProofs!OwnershipInv <=>
    /\ free \cap HeldBlocks = {} /\ free \cap UncommittedBlocks = {} /\ free \cap RetiredBlocks = {}
    /\ HeldBlocks \cap UncommittedBlocks = {} /\ HeldBlocks \cap RetiredBlocks = {}
    /\ UncommittedBlocks \cap RetiredBlocks = {}
    /\ free \cup HeldBlocks \cup UncommittedBlocks \cup RetiredBlocks = AreaBlocks \ OtherBlocks
<1> DEFINE H == [f \in {"file"} |-> HeldBlocks]
           P == [f \in {"file"} |-> UncommittedBlocks]
           R == [f \in {"file"} |-> RetiredBlocks]
<1>1. H["file"] = HeldBlocks /\ P["file"] = UncommittedBlocks /\ R["file"] = RetiredBlocks
  OBVIOUS
<1>2. UNION {H[f] \cup P[f] \cup R[f] : f \in {"file"}} = HeldBlocks \cup UncommittedBlocks \cup RetiredBlocks
  BY <1>1
<1>. QED
  BY <1>1, <1>2
  DEF OwnershipProofs!OwnershipInv, OwnershipProofs!TypeOK, OwnershipProofs!OneOwner, OwnershipProofs!Owned

LEMMA StepPreservesOwnership ==
  ASSUME OwnershipProofs!OwnershipInv, OwnershipStep
  PROVE  OwnershipProofs!OwnershipInv'
<1>1. [OwnershipProofs!Next]_(OwnershipProofs!vars)
  <2>1. "file" \in {"file"}
    OBVIOUS
  <2>2. ASSUME Ownership!Allocate("file", free \ free')
        PROVE  OwnershipProofs!Allocate("file", free \ free') /\ free \ free' \in SUBSET free
    BY <2>2 DEF Ownership!Allocate, OwnershipProofs!Allocate
  <2>3. ASSUME Ownership!Rollback("file") PROVE OwnershipProofs!Rollback("file")
    BY <2>3 DEF Ownership!Rollback, OwnershipProofs!Rollback
  <2>4. ASSUME Ownership!Commit("file", HeldBlocks \cap HeldBlocks')
        PROVE  /\ OwnershipProofs!Commit("file", HeldBlocks \cap HeldBlocks')
               /\ HeldBlocks \cap HeldBlocks' \in SUBSET [f \in {"file"} |-> HeldBlocks]["file"]
    BY <2>4 DEF Ownership!Commit, OwnershipProofs!Commit
  <2>5. ASSUME Ownership!Release("file", free' \ free)
        PROVE  /\ OwnershipProofs!Release("file", free' \ free)
               /\ free' \ free \in SUBSET [f \in {"file"} |-> RetiredBlocks]["file"]
    BY <2>5 DEF Ownership!Release, OwnershipProofs!Release
  <2>6. ASSUME UNCHANGED Ownership!vars PROVE UNCHANGED OwnershipProofs!vars
    BY <2>6 DEF Ownership!vars, OwnershipProofs!vars
  <2>. QED
    BY <2>1, <2>2, <2>3, <2>4, <2>5, <2>6 DEF OwnershipStep, OwnershipProofs!Next
<1>. QED
  BY <1>1, OwnershipProofs!NextPreservesInv
-----------------------------------------------------------------------------
(* The file's metadata: what leaves it alone and what only rehashes it.    *)

LEMMA EntryFacts ==
  ASSUME NEW entry, IsEntry(entry)
  PROVE  /\ entry.layout.category \in Categories
         /\ entry.layout.file_size \in Nat
         /\ entry.layout.data_units_count \in Nat
         /\ MetadataBlocksOf(entry.layout) \in Nat
         /\ DOMAIN entry.metadata_blocks = 1..MetadataBlocksOf(entry.layout)
         /\ ToSet(entry.metadata_blocks) \subseteq AreaBlocks
         /\ entry.layout.category # ClusterMetadataBlocks => entry.metadata_blocks = <<>>
         /\ entry.layout.category = Inline => entry.units = <<>>
<1>1. /\ entry.layout \in Layouts
      /\ entry.layout = BuildLayout(entry.layout.file_size, entry.layout.category)
      /\ entry.metadata_blocks \in Seq(AreaBlocks)
      /\ Len(entry.metadata_blocks) = MetadataBlocksOf(entry.layout)
  BY DEF IsEntry, IsLayout
<1>2. /\ entry.layout.category \in Categories
      /\ entry.layout.file_size \in Nat
      /\ entry.layout.data_units_count \in Nat
  BY <1>1 DEF Layouts
<1>3. /\ DOMAIN entry.metadata_blocks = 1..MetadataBlocksOf(entry.layout)
      /\ MetadataBlocksOf(entry.layout) \in Nat
  BY <1>1, LenProperties
<1>4. ToSet(entry.metadata_blocks) \subseteq AreaBlocks
  BY <1>1, ElementOfSeq, LenProperties DEF ToSet
<1>5. entry.layout.category # ClusterMetadataBlocks => entry.metadata_blocks = <<>>
  BY <1>1, EmptySeq DEF MetadataBlocksOf
<1>6. entry.layout.category = Inline => entry.units = <<>>
  <2>. SUFFICES ASSUME entry.layout.category = Inline PROVE entry.units = <<>>
    OBVIOUS
  <2>1. entry.layout.data_units_count = 0
    BY <1>1 DEF BuildLayout, DataUnitsCount
  <2>2. Len(entry.units) = 0
    BY <2>1 DEF IsEntry, Inline, ClusterMetadataBlocks
  <2>3. entry.units \in Seq({entry.units[u] : u \in DOMAIN entry.units})
    BY DEF IsEntry, IsUnits
  <2>. QED
    BY <2>2, <2>3, EmptySeq
<1>. QED
  BY <1>2, <1>3, <1>4, <1>5, <1>6

\* The metadata blocks a category 4 file's units are listed in are its own.
LEMMA ListedInOwnBlocks ==
  ASSUME NEW entry, IsEntry(entry), entry.layout.category = ClusterMetadataBlocks,
         NEW u \in 1..entry.layout.data_units_count
  PROVE  /\ BlockOfUnit(entry.metadata_blocks, u) \in ToSet(entry.metadata_blocks)
         /\ BlockOfUnit(entry.metadata_blocks, u) \in AreaBlocks
<1> DEFINE j == ((u - 1) \div ClustersPerMetadataBlock) + 1
<1>1. /\ entry.layout.data_units_count \in Nat
      /\ DOMAIN entry.metadata_blocks = 1..ClusterMetadataBlocksCount(entry.layout.data_units_count)
      /\ ToSet(entry.metadata_blocks) \subseteq AreaBlocks
  BY EntryFacts DEF MetadataBlocksOf
<1>2. j \in DOMAIN entry.metadata_blocks
  BY <1>1, MetadataBlockOfUnit
<1>. HIDE DEF j
<1>3. entry.metadata_blocks[j] \in ToSet(entry.metadata_blocks)
  BY <1>2 DEF ToSet
<1>. QED
  BY <1>1, <1>3 DEF BlockOfUnit, j

\* A step that leaves the entry and its metadata blocks alone.
LEMMA MetadataKept ==
  ASSUME MetadataInv, metadata' = metadata,
         metadata_disk' = [b \in AreaBlocks |-> metadata_disk'[b]],
         \A b \in AreaBlocks : IsUnits(metadata_disk'[b]),
         \A b \in ToSet(metadata.metadata_blocks) : metadata_disk'[b] = metadata_disk[b]
  PROVE  /\ MetadataInv'
         /\ UnitsOf(metadata)' = UnitsOf(metadata)
         /\ HeldBlocks' = HeldBlocks
<1>1. IsEntry(metadata)
  BY DEF MetadataInv
<1>2. ASSUME metadata.layout.category = ClusterMetadataBlocks,
             NEW u \in 1..metadata.layout.data_units_count
      PROVE  metadata_disk'[BlockOfUnit(metadata.metadata_blocks, u)]
               = metadata_disk[BlockOfUnit(metadata.metadata_blocks, u)]
  BY <1>1, <1>2, ListedInOwnBlocks
<1>3. UnitsOf(metadata)' = UnitsOf(metadata)
  <2>1. CASE metadata.layout.category # ClusterMetadataBlocks
    BY <2>1 DEF UnitsOf
  <2>2. CASE metadata.layout.category = ClusterMetadataBlocks
    <3>1. UnitsOf(metadata) =
            [u \in 1..metadata.layout.data_units_count |->
               metadata_disk[BlockOfUnit(metadata.metadata_blocks, u)][SlotOfUnit(u)]]
      BY <2>2 DEF UnitsOf, BlockOfUnit, SlotOfUnit
    <3>2. UnitsOf(metadata)' =
            [u \in 1..metadata.layout.data_units_count |->
               metadata_disk'[BlockOfUnit(metadata.metadata_blocks, u)][SlotOfUnit(u)]]
      BY <2>2 DEF UnitsOf, BlockOfUnit, SlotOfUnit
    <3>. QED
      BY <1>2, <2>2, <3>1, <3>2
  <2>. QED
    BY <2>1, <2>2
<1>4. MetadataInv'
  BY <1>2, <1>3 DEF MetadataInv
<1>5. HeldBlocks' = HeldBlocks
  BY <1>3 DEF HeldBlocks
<1>. QED
  BY <1>3, <1>4, <1>5

\* Without its hashes, a step that flushes a block of the file changes nothing.
LEMMA MetadataRehashed ==
  ASSUME MetadataInv,
         NEW category, NEW index, NEW hash, NEW block,
         \/ /\ metadata.layout.category # ClusterMetadataBlocks
            /\ metadata' = [metadata EXCEPT !.units = WithHash(category, @, index, hash)]
            /\ metadata_disk' = metadata_disk
         \/ /\ metadata.layout.category = ClusterMetadataBlocks
            /\ metadata' = metadata
            /\ metadata_disk' = [metadata_disk EXCEPT ![block] = WithHash(category, @, index, hash)]
  PROVE  /\ MetadataInv'
         /\ HeldBlocks' = HeldBlocks
         /\ metadata'.layout = metadata.layout
         /\ metadata'.metadata_blocks = metadata.metadata_blocks
<1>1. /\ IsEntry(metadata)
      /\ DOMAIN metadata = {"layout", "payload", "units", "metadata_blocks"}
      /\ IsUnits(metadata.units)
      /\ \A b \in AreaBlocks : IsUnits(metadata_disk[b])
      /\ DOMAIN metadata_disk = AreaBlocks
  BY DEF MetadataInv, IsEntry
<1>2. CASE /\ metadata.layout.category # ClusterMetadataBlocks
           /\ metadata' = [metadata EXCEPT !.units = WithHash(category, @, index, hash)]
           /\ metadata_disk' = metadata_disk
  <2>1. /\ DOMAIN metadata' = DOMAIN metadata
        /\ metadata'.layout = metadata.layout
        /\ metadata'.metadata_blocks = metadata.metadata_blocks
        /\ metadata'.units = WithHash(category, metadata.units, index, hash)
    BY <1>1, <1>2
  <2>2. /\ IsUnits(metadata'.units)
        /\ Len(metadata'.units) = Len(metadata.units)
        /\ SameNumbers(metadata'.units, metadata.units)
    BY <1>1, <2>1, WithHashKeepsNumbers
  <2>3. UnitsOf(metadata) = metadata.units /\ UnitsOf(metadata)' = metadata'.units
    BY <1>2, <2>1 DEF UnitsOf
  <2>4. HeldBlocks' = HeldBlocks
    BY <2>1, <2>2, <2>3, SameNumbersSameBlocks DEF HeldBlocks
  <2>5. Apart(metadata'.layout.category, UnitsOf(metadata)', metadata'.metadata_blocks)
    BY <2>1, <2>2, <2>3, SameNumbersSameBlocks DEF MetadataInv
  <2>6. IsEntry(metadata')
    BY <1>1, <2>1, <2>2 DEF IsEntry
  <2>7. MetadataInv'
    BY <1>2, <2>1, <2>5, <2>6 DEF MetadataInv
  <2>. QED
    BY <2>1, <2>4, <2>7
<1>3. CASE /\ metadata.layout.category = ClusterMetadataBlocks
           /\ metadata' = metadata
           /\ metadata_disk' = [metadata_disk EXCEPT ![block] = WithHash(category, @, index, hash)]
  <2>1. /\ metadata_disk' = [b \in AreaBlocks |-> metadata_disk'[b]]
        /\ \A b \in AreaBlocks :
             metadata_disk'[b] = IF b = block THEN WithHash(category, metadata_disk[b], index, hash)
                                 ELSE metadata_disk[b]
    BY <1>1, <1>3
  <2>2. ASSUME NEW b \in AreaBlocks
        PROVE  IsUnits(metadata_disk'[b]) /\ SameNumbers(metadata_disk'[b], metadata_disk[b])
    <3>1. CASE b = block
      BY <1>1, <2>1, <3>1, WithHashKeepsNumbers
    <3>2. CASE b # block
      BY <1>1, <2>1, <3>2 DEF SameNumbers
    <3>. QED
      BY <3>1, <3>2
  <2> DEFINE count == metadata.layout.data_units_count
             Block(u) == BlockOfUnit(metadata.metadata_blocks, u)
  <2>3. \A u \in 1..count : Block(u) \in AreaBlocks /\ SlotOfUnit(u) \in DOMAIN metadata_disk[Block(u)]
    BY <1>1, <1>3, ListedInOwnBlocks DEF MetadataInv
  <2>4. UnitsOf(metadata) = [u \in 1..count |-> metadata_disk[Block(u)][SlotOfUnit(u)]]
    BY <1>3 DEF UnitsOf, BlockOfUnit, SlotOfUnit
  <2>5. UnitsOf(metadata)' = [u \in 1..count |-> metadata_disk'[Block(u)][SlotOfUnit(u)]]
    BY <1>3 DEF UnitsOf, BlockOfUnit, SlotOfUnit
  <2>. HIDE DEF Block, count
  <2>6. \A u \in 1..count : /\ SlotOfUnit(u) \in DOMAIN metadata_disk'[Block(u)]
                            /\ metadata_disk'[Block(u)][SlotOfUnit(u)].block_number
                                 = metadata_disk[Block(u)][SlotOfUnit(u)].block_number
    BY <2>2, <2>3 DEF SameNumbers
  <2>7. SameNumbers(UnitsOf(metadata)', UnitsOf(metadata))
    BY <2>4, <2>5, <2>6 DEF SameNumbers
  <2>8. HeldBlocks' = HeldBlocks
    BY <1>3, <2>7, SameNumbersSameBlocks DEF HeldBlocks
  <2>9. Apart(metadata'.layout.category, UnitsOf(metadata)', metadata'.metadata_blocks)
    BY <1>3, <2>7, SameNumbersSameBlocks DEF MetadataInv
  <2>10. MetadataInv'
    BY <1>1, <1>3, <2>1, <2>2, <2>6, <2>9 DEF MetadataInv, Block, count
  <2>. QED
    BY <1>3, <2>8, <2>10
<1>. QED
  BY <1>2, <1>3

\* What a resize aims at is a layout.
LEMMA CalculateIsLayout ==
  ASSUME NEW old_size \in Nat, NEW size \in Nat, NEW category \in Categories
  PROVE  /\ IsLayout(Calculate(old_size, size, category))
         /\ Calculate(old_size, size, category).file_size = size
<1>1. MinimumCategory(size) \in Categories /\ MaximumCategory(size) \in Categories
  BY DEF MinimumCategory, MaximumCategory, Categories, Inline, Blocks, LargeBlocks, Clusters,
         ClusterMetadataBlocks
<1>2. /\ GreaterOf(MinimumCategory(size), category) \in Categories
      /\ LesserOf(MaximumCategory(size), category) \in Categories
  BY <1>1 DEF GreaterOf, LesserOf
<1>3. PICK target \in Categories : Calculate(old_size, size, category) = BuildLayout(size, target)
  BY <1>2 DEF Calculate
<1>4. /\ BuildLayout(size, target) \in Layouts
      /\ BuildLayout(size, target).category = target
      /\ BuildLayout(size, target).file_size = size
  BY BuildLayoutCovers DEF Layouts
<1>. QED
  BY <1>3, <1>4 DEF IsLayout
-----------------------------------------------------------------------------
(* The invariant holds initially and is preserved by each step.            *)

LEMMA StepNames ==
  /\ Committed <=> call.step \in {"detach", "resize_changed", "free_units", "free_metadata_blocks",
                                  "return", "write"}
  /\ Resizing <=> call.step \notin {"idle", "write"}
  BY DEF Committed, Resizing

LEMMA InitEstablishesInv == Init => FileResizeInv
<1>. SUFFICES ASSUME Init PROVE FileResizeInv
  OBVIOUS
<1>1. /\ metadata.layout = BuildLayout(0, Inline) /\ metadata.units = <<>>
      /\ metadata.metadata_blocks = <<>>
      /\ DOMAIN metadata = {"layout", "payload", "units", "metadata_blocks"}
      /\ metadata_disk = [b \in AreaBlocks |-> <<>>]
      /\ free = AreaBlocks \ OtherBlocks
      /\ attached = {}
      /\ call = [step |-> "idle"]
  BY DEF Init, Idle
<1>2. /\ BuildLayout(0, Inline) \in Layouts /\ BuildLayout(0, Inline).category = Inline
      /\ BuildLayout(0, Inline).file_size = 0
  BY BuildLayoutCovers DEF Layouts, Categories, Inline
<1>3. BuildLayout(0, Inline).data_units_count = 0
  BY DEF BuildLayout, DataUnitsCount
<1>4. IsEntry(metadata)
  BY <1>1, <1>2, <1>3, NoUnits, EmptySeq
  DEF IsEntry, IsLayout, MetadataBlocksOf, Inline, ClusterMetadataBlocks
<1>5. UnitsOf(metadata) = <<>>
  BY <1>1, <1>2 DEF UnitsOf, Inline, ClusterMetadataBlocks
<1>6. MetadataInv
  BY <1>1, <1>2, <1>4, <1>5, NoUnits DEF MetadataInv, Apart, Inline, ClusterMetadataBlocks
<1>7. HeldBlocks = {}
  BY <1>1, <1>5, NoBlocks DEF HeldBlocks
<1>8. call.step = "idle" /\ DOMAIN call = {"step"}
  BY <1>1
<1>9. RetiredBlocks = {} /\ UncommittedBlocks = {}
  BY <1>8 DEF RetiredBlocks, UncommittedBlocks
<1>10. CallInv /\ BeforeCommitInv /\ BuiltInv /\ RetiredInv /\ CacheInv
  BY <1>1, <1>8 DEF CallInv, BeforeCommitInv, BuiltInv, RetiredInv, CacheInv, Resizing
<1>11. OwnershipProofs!OwnershipInv
  BY <1>1, <1>7, <1>9, OneFileOwnership
<1>. QED
  BY <1>6, <1>10, <1>11 DEF FileResizeInv, StructureInv

\* A call that starts by resizing owns nothing yet.
LEMMA StartedPreserves ==
  ASSUME FileResizeInv, call.step = "idle", NEW size \in Nat, NEW write,
         call' = Started(size, write),
         UNCHANGED <<metadata, metadata_disk, free, attached>>
  PROVE  OwnershipStep /\ StructureInv'
<1> DEFINE old == metadata.layout
           target == Calculate(old.file_size, size, old.category)
           mode == IF target.category # old.category \/ target.category = ClusterMetadataBlocks
                     THEN "rebuild"
                   ELSE IF target.category = Inline THEN "inline" ELSE "in_place"
<1>1. /\ MetadataInv /\ IsEntry(metadata) /\ attached = {}
      /\ \A b \in AreaBlocks : IsUnits(metadata_disk[b])
  BY DEF FileResizeInv, StructureInv, MetadataInv, CacheInv, Resizing
<1>2. MetadataInv' /\ UnitsOf(metadata)' = UnitsOf(metadata) /\ HeldBlocks' = HeldBlocks
  BY <1>1, MetadataKept DEF MetadataInv
<1>3. IsUnits(UnitsOf(metadata)) /\ Len(UnitsOf(metadata)) = metadata.layout.data_units_count
  BY <1>1, UnitsOfEntry
<1>4. IsLayout(target)
  BY <1>1, EntryFacts, CalculateIsLayout
<1>5. call' = [step |-> IF mode = "inline" THEN "replace_metadata" ELSE "alloc_data_units",
               mode |-> mode,
               target |-> target,
               payload |-> IF mode = "inline" THEN ResizedTo(metadata.payload, size) ELSE <<>>,
               units |-> <<>>,
               metadata_blocks |-> <<>>,
               index |-> 0,
               old |-> metadata,
               old_units |-> UnitsOf(metadata),
               before |-> ReadBytes(metadata),
               write |-> write]
  BY DEF Started
<1>. HIDE DEF target
<1>6. /\ DOMAIN call' = {"step", "mode", "target", "payload", "units", "metadata_blocks", "index",
                         "old", "old_units", "before", "write"}
      /\ call'.step = IF mode = "inline" THEN "replace_metadata" ELSE "alloc_data_units"
      /\ call'.mode = mode /\ call'.target = target
      /\ call'.units = <<>> /\ call'.metadata_blocks = <<>>
      /\ call'.old = metadata /\ call'.old_units = UnitsOf(metadata) /\ call'.index = 0
  BY <1>5
<1>7. /\ call'.step \in {"alloc_data_units", "replace_metadata"}
      /\ call'.mode \in {"inline", "in_place", "rebuild"}
      /\ call'.step = "replace_metadata" <=> call'.mode = "inline"
      /\ call'.mode = "inline" =>
           call'.target.category = Inline /\ metadata.layout.category = Inline
      /\ call'.mode = "in_place" =>
           /\ call'.target.category = metadata.layout.category
           /\ call'.target.category \notin {Inline, ClusterMetadataBlocks}
  BY <1>6
<1>. HIDE DEF mode
<1>8. call'.step \in StepsOf(call'.mode)
  BY <1>7 DEF StepsOf
<1>9. CallInv'
  BY <1>1, <1>3, <1>4, <1>6, <1>7, <1>8, NoUnits, EmptySeq DEF CallInv, Resizing
<1>10. BeforeCommitInv'
  BY <1>2, <1>6 DEF BeforeCommitInv
<1>11. BuiltInv'
  BY <1>6, <1>7 DEF BuiltInv, Inline, ClusterMetadataBlocks
<1>12. RetiredInv' /\ CacheInv'
  BY <1>1, <1>6, <1>7 DEF RetiredInv, CacheInv, Resizing, Committed
<1>13. RetiredBlocks = {} /\ UncommittedBlocks = {} /\ RetiredBlocks' = {}
  BY <1>7 DEF RetiredBlocks, UncommittedBlocks
<1>14. NewUnitsOfCall' = <<>>
  <2>1. Len(call'.old_units) \in Nat /\ Len(<<>>) = 0
    BY <1>3, <1>6, UnitsHaveItems, NoUnits
  <2>2. SubSeq(<<>>, Len(call'.old_units) + 1, 0) = <<>>
    BY <2>1, SubSeqEmpty
  <2>. QED
    BY <1>6, <2>1, <2>2 DEF NewUnitsOfCall
<1>15. UncommittedBlocks' = {}
  BY <1>6, <1>14, NoBlocks DEF UncommittedBlocks, PendingBlocks
<1>16. OwnershipStep
  BY <1>2, <1>13, <1>15, StutteringStep DEF Stuttering
<1>. QED
  BY <1>2, <1>9, <1>10, <1>11, <1>12, <1>16 DEF StructureInv

\* A step that changes no variable the invariant speaks of but the call, which
\* stays or becomes one that resizes nothing.
LEMMA NotResizingPreserves ==
  ASSUME FileResizeInv, ~Resizing, ~Resizing',
         DOMAIN call' = IF call'.step = "idle" THEN {"step"} ELSE {"step", "before", "write"},
         MetadataInv', HeldBlocks' = HeldBlocks, free' = free, attached' = {}
  PROVE  OwnershipStep /\ StructureInv'
<1>1. RetiredBlocks = {} /\ UncommittedBlocks = {} /\ RetiredBlocks' = {} /\ UncommittedBlocks' = {}
  BY DEF RetiredBlocks, UncommittedBlocks, Resizing, Committed
<1>2. CallInv' /\ BeforeCommitInv' /\ BuiltInv' /\ RetiredInv' /\ CacheInv'
  BY DEF CallInv, BeforeCommitInv, BuiltInv, RetiredInv, CacheInv, Resizing
<1>3. OwnershipStep
  BY <1>1, StutteringStep DEF Stuttering
<1>. QED
  BY <1>2, <1>3 DEF StructureInv

LEMMA ResizePreserves ==
  ASSUME FileResizeInv, NEW size \in FileSizes, Resize(size) \/ ResizeTooLarge(size)
  PROVE  OwnershipStep /\ StructureInv'
<1>1. size \in Nat
  BY DeviceAssumption
<1>2. CASE Resize(size)
  BY <1>1, <1>2, StartedPreserves DEF Resize
<1>3. CASE ResizeTooLarge(size)
  <2>1. /\ metadata' = metadata /\ metadata_disk' = metadata_disk /\ free' = free
        /\ attached' = attached /\ call' = call /\ call.step = "idle"
    BY <1>3 DEF ResizeTooLarge
  <2>2. /\ MetadataInv /\ \A b \in AreaBlocks : IsUnits(metadata_disk[b])
        /\ attached = {} /\ DOMAIN call = {"step"}
    BY <2>1 DEF FileResizeInv, StructureInv, MetadataInv, CacheInv, CallInv, Resizing
  <2>3. MetadataInv' /\ HeldBlocks' = HeldBlocks
    BY <2>1, <2>2, MetadataKept DEF MetadataInv
  <2>. QED
    BY <2>1, <2>2, <2>3, NotResizingPreserves DEF Resizing
<1>. QED
  BY <1>2, <1>3

LEMMA WritePreserves ==
  ASSUME FileResizeInv, NEW write \in WriteExtents, Write(write) \/ WriteTooLarge(write)
  PROVE  OwnershipStep /\ StructureInv'
<1>1. write.pos + write.n \in Nat
  BY DeviceAssumption
<1>2. /\ metadata' = metadata /\ metadata_disk' = metadata_disk /\ free' = free
      /\ attached' = attached /\ call.step = "idle"
  BY DEF Write, WriteTooLarge, ResizeTooLarge
<1>3. /\ MetadataInv /\ \A b \in AreaBlocks : IsUnits(metadata_disk[b])
      /\ attached = {} /\ DOMAIN call = {"step"}
  BY <1>2 DEF FileResizeInv, StructureInv, MetadataInv, CacheInv, CallInv, Resizing
<1>4. MetadataInv' /\ HeldBlocks' = HeldBlocks
  BY <1>2, <1>3, MetadataKept DEF MetadataInv
<1>5. CASE call' = Started(write.pos + write.n, write)
  BY <1>1, <1>2, <1>5, StartedPreserves
<1>6. CASE call' = [step |-> "write", before |-> ReadBytes(metadata), write |-> write]
  <2>1. call'.step = "write" /\ DOMAIN call' = {"step", "before", "write"}
    BY <1>6
  <2>. QED
    BY <1>2, <1>3, <1>4, <2>1, NotResizingPreserves DEF Resizing
<1>7. CASE call' = call
  BY <1>2, <1>3, <1>4, <1>7, NotResizingPreserves DEF Resizing
<1>. QED
  BY <1>5, <1>6, <1>7 DEF Write, WriteTooLarge, ResizeTooLarge
-----------------------------------------------------------------------------
(* Lists of units and metadata blocks that stay apart.                     *)

LEMMA ApartOfUnits ==
  ASSUME NEW category, NEW units, NEW metadata_blocks
  PROVE  /\ Apart(category, units, metadata_blocks) => Apart(category, units, <<>>)
         /\ Apart(category, units, metadata_blocks) =>
              BlocksOf(category, units, <<>>) \cap ToSet(metadata_blocks) = {}
<1>1. DOMAIN <<>> = {}
  BY NoUnits
<1>2. Apart(category, units, metadata_blocks) => Apart(category, units, <<>>)
  BY <1>1 DEF Apart
<1>3. ASSUME Apart(category, units, metadata_blocks)
      PROVE  BlocksOf(category, units, <<>>) \cap ToSet(metadata_blocks) = {}
  BY <1>3, NoBlocks DEF Apart, BlocksOf, ToSet
<1>. QED
  BY <1>2, <1>3

LEMMA ApartPrefix ==
  ASSUME NEW category, NEW units, IsUnits(units), NEW k \in 0..Len(units),
         Apart(category, units, <<>>)
  PROVE  /\ IsUnits(SubSeq(units, 1, k)) /\ Len(SubSeq(units, 1, k)) = k
         /\ \A u \in 1..k : SubSeq(units, 1, k)[u] = units[u]
         /\ Apart(category, SubSeq(units, 1, k), <<>>)
<1> DEFINE s == SubSeq(units, 1, k)
           n == Len(units)
<1>1. n \in Nat /\ DOMAIN units = 1..n /\ k \in 0..n
  BY UnitsHaveItems
<1>2. /\ IsUnits(s) /\ Len(s) = k
      /\ \A u \in 1..k : s[u] = units[u]
  <2>1. /\ IsUnits(s) /\ Len(s) = IF 1 <= k THEN k - 1 + 1 ELSE 0
        /\ \A u \in 1..(k - 1 + 1) : s[u] = units[1 + u - 1]
    BY <1>1, SubSeqOfUnits
  <2>. HIDE DEF s, n
  <2>. QED
    BY <1>1, <2>1
<1>3. DOMAIN s = 1..k /\ \A u \in 1..k : u \in 1..n
  BY <1>1, <1>2, UnitsHaveItems
<1>. HIDE DEF s, n
<1>4. DOMAIN <<>> = {}
  BY NoUnits
<1>5. Apart(category, s, <<>>)
  BY <1>1, <1>2, <1>3, <1>4 DEF Apart
<1>. QED
  BY <1>2, <1>5 DEF s

LEMMA ApartConcat ==
  ASSUME NEW category, NEW s, IsUnits(s), NEW t, IsUnits(t),
         Apart(category, s, <<>>), Apart(category, t, <<>>),
         BlocksOf(category, s, <<>>) \cap BlocksOf(category, t, <<>>) = {}
  PROVE  Apart(category, s \o t, <<>>)
<1> DEFINE st == s \o t
<1>1. /\ DOMAIN s = 1..Len(s) /\ DOMAIN t = 1..Len(t) /\ Len(s) \in Nat /\ Len(t) \in Nat
  BY UnitsHaveItems
<1>2. IsUnits(st) /\ Len(st) = Len(s) + Len(t)
  BY ConcatOfUnits
<1>3. DOMAIN st = 1..(Len(s) + Len(t))
  BY <1>2, UnitsHaveItems
<1>4. (\A u \in 1..Len(s) : st[u] = s[u]) /\ (\A u \in 1..Len(t) : st[Len(s) + u] = t[u])
  BY ConcatOfUnits
<1>. HIDE DEF st
<1>5. \A u \in DOMAIN st :
        \/ u \in DOMAIN s /\ st[u] = s[u]
        \/ u - Len(s) \in DOMAIN t /\ st[u] = t[u - Len(s)]
  <2>. TAKE u \in DOMAIN st
  <2>1. u \in 1..Len(s) \/ (u - Len(s) \in 1..Len(t) /\ Len(s) + (u - Len(s)) = u)
    BY <1>1, <1>3
  <2>. QED
    BY <1>1, <1>4, <2>1
<1>6. \A u \in DOMAIN s, v \in DOMAIN t : UnitExtent(category, s[u]) \cap UnitExtent(category, t[v]) = {}
  BY DEF BlocksOf
<1>7. DOMAIN <<>> = {}
  BY NoUnits
<1>8. ASSUME NEW u \in DOMAIN st, NEW v \in DOMAIN st, u # v
      PROVE  UnitExtent(category, st[u]) \cap UnitExtent(category, st[v]) = {}
  <2>1. CASE u - Len(s) \in DOMAIN t /\ v - Len(s) \in DOMAIN t
             /\ st[u] = t[u - Len(s)] /\ st[v] = t[v - Len(s)]
    <3>1. u - Len(s) # v - Len(s)
      BY <1>1, <1>3, <1>8
    <3>. QED
      BY <2>1, <3>1 DEF Apart
  <2>2. CASE u \in DOMAIN s /\ v \in DOMAIN s /\ st[u] = s[u] /\ st[v] = s[v]
    BY <1>8, <2>2 DEF Apart
  <2>3. CASE u \in DOMAIN s /\ v - Len(s) \in DOMAIN t /\ st[u] = s[u] /\ st[v] = t[v - Len(s)]
    BY <1>6, <2>3
  <2>4. CASE v \in DOMAIN s /\ u - Len(s) \in DOMAIN t /\ st[v] = s[v] /\ st[u] = t[u - Len(s)]
    BY <1>6, <2>4
  <2>. QED
    BY <1>5, <2>1, <2>2, <2>3, <2>4
<1>. QED
  BY <1>7, <1>8 DEF Apart, st

LEMMA NeededMetadataBlocks ==
  ASSUME IsLayout(call.target)
  PROVE  MetadataBlocksNeeded = MetadataBlocksOf(call.target)
<1>1. call.target.data_units_count = DataUnitsCount(call.target.category, call.target.size_on_disk)
  BY DEF IsLayout, BuildLayout
<1>. QED
  BY <1>1 DEF MetadataBlocksNeeded, MetadataBlocksOf, MetadataItemsCount, Inline, ClusterMetadataBlocks

\* The data blocks of a layout lie in its units.
LEMMA DataBlocksInUnits ==
  ASSUME NEW layout, IsLayout(layout), NEW units, IsUnits(units),
         Len(units) = layout.data_units_count,
         NEW i \in 0..(DataBlocksCount(layout) - 1)
  PROVE  Location(layout.category, units, i).block_number \in BlocksOf(layout.category, units, <<>>)
<1> DEFINE category == layout.category
           per == DataBlocksPerUnit(category)
           k == (i \div per) + 1
           r == i % per
           step == DataBlockSize(category) \div BlockSize
<1>1. category \in Categories
  BY DEF IsLayout, Layouts
<1>2. category # Inline
  BY DEF DataBlocksCount
<1>3. k \in 1..layout.data_units_count /\ r \in 0..(per - 1)
  <2>1. i \in Nat /\ i * DataBlockSize(category) < layout.file_size
    BY <1>2, CountedDataBlocks
  <2>. QED
    BY <1>2, <2>1, DataBlockInUnit
<1>4. /\ step \in Nat \ {0} /\ per \in Nat \ {0}
      /\ UnitBlocks(category) \in Nat \ {0} /\ UnitBlocks(category) = per * step
  BY <1>1, <1>2, UnitGeometry
<1>5. k \in DOMAIN units /\ units[k].block_number \in Nat
  BY <1>3, UnitsHaveItems, AreaBlocksAreNumbers
<1>6. Location(category, units, i).block_number = units[k].block_number + r * step
  BY DEF Location
<1>. HIDE DEF category, per, k, r, step
<1>7. r * step \in Nat /\ r * step < per * step
  <2>1. per * step = r * step + (per - r) * step
    BY <1>3, <1>4
  <2>2. (per - r) * step \in Nat \ {0} /\ r * step \in Nat
    BY <1>3, <1>4
  <2>. QED
    BY <2>1, <2>2
<1>8. units[k].block_number + r * step \in UnitExtent(category, units[k])
  BY <1>4, <1>5, <1>7 DEF UnitExtent, Extent
<1>. QED
  BY <1>5, <1>6, <1>8, BlocksOfParts DEF BlocksOf, category

\* What the source accessor holds are blocks of the old layout.
LEMMA HeldBySourceIsOld ==
  ASSUME IsEntry(call.old), Len(call.old_units) = call.old.layout.data_units_count,
         NEW last \in Nat, last <= call.old.layout.file_size
  PROVE  HeldBySource(last) \subseteq OldDataBlocks \cup ToSet(call.old.metadata_blocks)
<1> DEFINE layout == call.old.layout
           category == layout.category
           index == (last - 1) \div DataBlockSize(category)
           cluster == index \div DataBlocksPerUnit(category)
<1>1. CASE last = 0 \/ category = Inline
  BY <1>1 DEF HeldBySource
<1>2. CASE last # 0 /\ category # Inline
  <2>1. IsLayout(layout) /\ layout.file_size \in Nat /\ category \in Categories
    BY EntryFacts DEF IsEntry
  <2>2. last - 1 \in 0..(layout.file_size - 1)
    BY <1>2, <2>1
  <2>3. index \in 0..(DataBlocksCount(layout) - 1)
    BY <1>2, <2>1, <2>2, CountedDataBlocks
  <2>4. Location(category, call.old_units, index).block_number \in OldDataBlocks
    BY <2>3 DEF OldDataBlocks
  <2>5. ASSUME category = ClusterMetadataBlocks
        PROVE  call.old.metadata_blocks[(cluster \div ClustersPerMetadataBlock) + 1]
                 \in ToSet(call.old.metadata_blocks)
    <3>1. index \in Nat /\ index * DataBlockSize(category) < layout.file_size
      BY <1>2, <2>1, <2>3, CountedDataBlocks
    <3>2. cluster + 1 \in 1..layout.data_units_count
      BY <1>2, <2>1, <3>1, DataBlockInUnit
    <3>3. layout.data_units_count \in Nat
          /\ DOMAIN call.old.metadata_blocks = 1..ClusterMetadataBlocksCount(layout.data_units_count)
      BY <2>5, EntryFacts DEF MetadataBlocksOf
    <3>6. cluster \in Nat
      <4>1. DataBlocksPerUnit(category) \in Nat \ {0}
        BY <1>2, <2>1, UnitGeometry
      <4>. HIDE DEF index, category
      <4>. QED
        BY <3>1, <4>1
    <3>7. \A u \in 1..layout.data_units_count :
            ((u - 1) \div ClustersPerMetadataBlock) + 1
              \in 1..ClusterMetadataBlocksCount(layout.data_units_count)
      BY <3>3, MetadataBlockOfUnit
    <3>. HIDE DEF cluster, layout
    <3>4. PICK u \in 1..layout.data_units_count : u - 1 = cluster
      BY <3>2, <3>6
    <3>5. (cluster \div ClustersPerMetadataBlock) + 1
            \in 1..ClusterMetadataBlocksCount(layout.data_units_count)
      BY <3>4, <3>7
    <3>. QED
      BY <3>3, <3>5 DEF ToSet
  <2>6. HeldBySource(last) =
          {Location(category, call.old_units, index).block_number}
            \cup IF category = ClusterMetadataBlocks
                   THEN {call.old.metadata_blocks[(cluster \div ClustersPerMetadataBlock) + 1]} ELSE {}
    BY <1>2 DEF HeldBySource
  <2>. HIDE DEF cluster, index, category
  <2>. QED
    BY <2>4, <2>5, <2>6
<1>. QED
  BY <1>1, <1>2

LEMMA OldBlocksInUnits ==
  ASSUME IsEntry(call.old), IsUnits(call.old_units),
         Len(call.old_units) = call.old.layout.data_units_count
  PROVE  OldDataBlocks \cup ToSet(call.old.metadata_blocks)
           \subseteq BlocksOf(call.old.layout.category, call.old_units, call.old.metadata_blocks)
<1>1. IsLayout(call.old.layout)
  BY DEF IsEntry
<1>2. OldDataBlocks \subseteq BlocksOf(call.old.layout.category, call.old_units, <<>>)
  BY <1>1, DataBlocksInUnits DEF OldDataBlocks
<1>. QED
  BY <1>2, BlocksOfParts
-----------------------------------------------------------------------------
(* Giving blocks back, before the commit and after it.                     *)

\* Deleting blocks the metadata does not lead to leaves what it leads to.
LEMMA ErasedKeeps ==
  ASSUME MetadataInv, NEW blocks, blocks \cap HeldBlocks = {},
         metadata' = metadata, metadata_disk' = ErasedMetadata(blocks)
  PROVE  MetadataInv' /\ UnitsOf(metadata)' = UnitsOf(metadata) /\ HeldBlocks' = HeldBlocks
<1>1. IsEntry(metadata) /\ \A b \in AreaBlocks : IsUnits(metadata_disk[b])
  BY DEF MetadataInv
<1>2. ToSet(metadata.metadata_blocks) \subseteq HeldBlocks
  BY BlocksOfParts DEF HeldBlocks
<1>3. metadata_disk' = [b \in AreaBlocks |-> IF b \in blocks THEN <<>> ELSE metadata_disk[b]]
  BY DEF ErasedMetadata
<1>4. /\ metadata_disk' = [b \in AreaBlocks |-> metadata_disk'[b]]
      /\ \A b \in AreaBlocks : metadata_disk'[b] = IF b \in blocks THEN <<>> ELSE metadata_disk[b]
  BY <1>3
<1>5. \A b \in AreaBlocks : IsUnits(metadata_disk'[b])
  BY <1>1, <1>4, NoUnits
<1>6. \A b \in ToSet(metadata.metadata_blocks) : metadata_disk'[b] = metadata_disk[b]
  BY <1>1, <1>2, <1>4, EntryFacts
<1>. QED
  BY <1>4, <1>5, <1>6, MetadataKept

\* Where a call stands until its commit: what it captured is still current and
\* what it allocated is nobody's yet.
LEMMA BeforeCommitFacts ==
  ASSUME FileResizeInv,
         call.step \in {"alloc_data_units", "alloc_metadata_blocks", "copy", "replace_metadata"}
  PROVE  /\ Resizing /\ ~Committed
         /\ MetadataInv /\ IsEntry(metadata) /\ \A b \in AreaBlocks : IsUnits(metadata_disk[b])
         /\ metadata_disk = [b \in AreaBlocks |-> metadata_disk[b]]
         /\ IsUnits(UnitsOf(metadata)) /\ Len(UnitsOf(metadata)) = metadata.layout.data_units_count
         /\ call.old = metadata /\ call.old_units = UnitsOf(metadata)
         /\ UncommittedBlocks = PendingBlocks /\ RetiredBlocks = {}
         /\ free \subseteq AreaBlocks /\ HeldBlocks \cap PendingBlocks = {}
         /\ free \cap HeldBlocks = {} /\ free \cap PendingBlocks = {}
         /\ CallInv /\ BuiltInv /\ CacheInv
<1>1. Resizing /\ ~Committed
  BY DEF Resizing, Committed
<1>2. /\ MetadataInv /\ IsEntry(metadata) /\ \A b \in AreaBlocks : IsUnits(metadata_disk[b])
      /\ metadata_disk = [b \in AreaBlocks |-> metadata_disk[b]]
      /\ CallInv /\ BuiltInv /\ CacheInv
  BY DEF FileResizeInv, StructureInv, MetadataInv
<1>3. call.old = metadata /\ call.old_units = UnitsOf(metadata)
  BY <1>1 DEF FileResizeInv, StructureInv, BeforeCommitInv
<1>4. UncommittedBlocks = PendingBlocks
  BY <1>1 DEF UncommittedBlocks
<1>5. RetiredBlocks = {}
  BY DEF RetiredBlocks
<1>6. /\ free \subseteq AreaBlocks /\ HeldBlocks \cap PendingBlocks = {}
      /\ free \cap HeldBlocks = {} /\ free \cap PendingBlocks = {}
  BY <1>4, OneFileOwnership DEF FileResizeInv
<1>7. IsUnits(UnitsOf(metadata)) /\ Len(UnitsOf(metadata)) = metadata.layout.data_units_count
  BY <1>2, UnitsOfEntry
<1>. QED
  BY <1>1, <1>2, <1>3, <1>4, <1>5, <1>6, <1>7

LEMMA FailPreserves ==
  ASSUME FileResizeInv,
         call.step \in {"alloc_data_units", "alloc_metadata_blocks", "copy", "replace_metadata"},
         NEW why, Fail(why)
  PROVE  OwnershipStep /\ StructureInv'
<1>1. /\ free' = free \cup PendingBlocks /\ metadata_disk' = ErasedMetadata(PendingBlocks)
      /\ attached' = {} /\ call' = [step |-> "idle"] /\ metadata' = metadata
  BY DEF Fail, Idle
<1>2. /\ MetadataInv /\ PendingBlocks \cap HeldBlocks = {}
      /\ UncommittedBlocks = PendingBlocks /\ RetiredBlocks = {}
  BY BeforeCommitFacts
<1>3. MetadataInv' /\ HeldBlocks' = HeldBlocks
  BY <1>1, <1>2, ErasedKeeps
<1>4. call'.step = "idle" /\ DOMAIN call' = {"step"}
  BY <1>1
<1>5. RetiredBlocks' = {} /\ UncommittedBlocks' = {}
  BY <1>4 DEF RetiredBlocks, UncommittedBlocks
<1>6. OwnershipStep
  BY <1>1, <1>2, <1>3, <1>5, RollbackStep
<1>7. CallInv' /\ BeforeCommitInv' /\ BuiltInv' /\ RetiredInv' /\ CacheInv'
  BY <1>1, <1>4 DEF CallInv, BeforeCommitInv, BuiltInv, RetiredInv, CacheInv, Resizing, Committed
<1>. QED
  BY <1>3, <1>6, <1>7 DEF StructureInv

LEMMA NoSpacePreserves ==
  ASSUME FileResizeInv, NoSpaceForDataUnits \/ NoSpaceForMetadataBlock \/ NoSpaceForMetadata
  PROVE  OwnershipStep /\ StructureInv'
  BY FailPreserves DEF NoSpaceForDataUnits, NoSpaceForMetadataBlock, NoSpaceForMetadata
-----------------------------------------------------------------------------
(* Allocating what the new layout needs.                                   *)

LEMMA StillBeforeCommit ==
  ASSUME FileResizeInv,
         call.step \in {"alloc_data_units", "alloc_metadata_blocks", "copy", "replace_metadata"},
         call'.step \in {"alloc_data_units", "alloc_metadata_blocks", "copy", "replace_metadata"},
         call'.old = call.old, call'.old_units = call.old_units,
         metadata' = metadata, UnitsOf(metadata)' = UnitsOf(metadata)
  PROVE  /\ BeforeCommitInv' /\ RetiredInv' /\ RetiredBlocks' = {}
         /\ UncommittedBlocks' = PendingBlocks'
         /\ Resizing' /\ ~Committed'
<1>1. Resizing' /\ ~Committed'
  BY DEF Resizing, Committed
<1>2. BeforeCommitInv'
  BY BeforeCommitFacts DEF BeforeCommitInv
<1>3. RetiredBlocks' = {} /\ UncommittedBlocks' = PendingBlocks'
  BY <1>1 DEF RetiredBlocks, UncommittedBlocks
<1>4. RetiredInv'
  BY <1>1 DEF RetiredInv
<1>. QED
  BY <1>1, <1>2, <1>3, <1>4

LEMMA TailOfConcat ==
  ASSUME NEW s, IsUnits(s), NEW t, IsUnits(t)
  PROVE  SubSeq(s \o t, Len(s) + 1, Len(s) + Len(t)) = t
<1> DEFINE st == s \o t
           m == Len(s)
           n == Len(t)
           sub == SubSeq(st, m + 1, m + n)
<1>1. /\ m \in Nat /\ n \in Nat /\ t = [u \in 1..n |-> t[u]]
      /\ IsUnits(st) /\ Len(st) = m + n
      /\ \A u \in 1..n : st[m + u] = t[u]
  <2>1. m \in Nat /\ n \in Nat /\ t = [u \in 1..n |-> t[u]]
    BY UnitsHaveItems
  <2>2. IsUnits(s \o t) /\ Len(s \o t) = Len(s) + Len(t)
    BY ConcatOfUnits
  <2>3. \A u \in 1..Len(t) : (s \o t)[Len(s) + u] = t[u]
    BY ConcatOfUnits
  <2>. QED
    BY <2>1, <2>2, <2>3
<1>. HIDE DEF st, m, n
<1>2. /\ IsUnits(sub)
      /\ Len(sub) = IF m + 1 <= m + n THEN (m + n) - (m + 1) + 1 ELSE 0
      /\ \A u \in 1..((m + n) - (m + 1) + 1) : sub[u] = st[(m + 1) + u - 1]
  <2>1. m + 1 \in Nat \ {0} /\ m + n \in Int /\ m + n <= Len(st)
    BY <1>1
  <2>. QED
    BY <1>1, <2>1, SubSeqOfUnits
<1>3. sub = [u \in 1..Len(sub) |-> sub[u]]
  BY <1>2, UnitsHaveItems
<1>. HIDE DEF sub
<1>4. Len(sub) = n
  BY <1>1, <1>2
<1>5. \A u \in 1..n : sub[u] = t[u]
  <2>. TAKE u \in 1..n
  <2>1. u \in 1..((m + n) - (m + 1) + 1) /\ (m + 1) + u - 1 = m + u
    BY <1>1
  <2>. QED
    BY <1>1, <1>2, <2>1
<1>. QED
  BY <1>1, <1>3, <1>4, <1>5 DEF sub, st, m, n

\* At its first step a resize has allocated nothing.
LEMMA NothingPendingAtFirst ==
  ASSUME FileResizeInv, call.step = "alloc_data_units"
  PROVE  /\ call.units = <<>> /\ call.metadata_blocks = <<>>
         /\ call.mode \in {"in_place", "rebuild"}
         /\ UncommittedBlocks = {}
<1>1. CallInv /\ BuiltInv /\ Resizing /\ UncommittedBlocks = PendingBlocks
  BY BeforeCommitFacts
<1>2. call.units = <<>> /\ call.metadata_blocks = <<>>
  BY <1>1 DEF BuiltInv
<1>3. IsUnits(call.old_units) /\ call.mode \in {"inline", "in_place", "rebuild"}
      /\ call.step \in StepsOf(call.mode)
  BY <1>1 DEF CallInv
<1>4. call.mode \in {"in_place", "rebuild"}
  BY <1>3 DEF StepsOf
<1>5. NewUnitsOfCall = <<>>
  <2>1. Len(call.old_units) \in Nat /\ Len(<<>>) = 0
    BY <1>3, UnitsHaveItems, NoUnits
  <2>2. SubSeq(<<>>, Len(call.old_units) + 1, 0) = <<>>
    BY <2>1, SubSeqEmpty
  <2>. QED
    BY <1>2, <2>1, <2>2 DEF NewUnitsOfCall
<1>. QED
  BY <1>1, <1>2, <1>4, <1>5, NoBlocks DEF PendingBlocks

LEMMA AllocateDataUnitsPreserves ==
  ASSUME FileResizeInv, AllocateDataUnits
  PROVE  OwnershipStep /\ StructureInv'
<1> DEFINE category == call.target.category
           old_units == call.old_units
           m == Len(call.old_units)
           t == call.target.data_units_count
           kept == LesserOf(m, t)
<1>1. PICK numbers \in Placements(UnitBlocks(category), AllocatedUnitsCount) :
        /\ free' = free \ BlocksOf(category, NewUnits(category, numbers), <<>>)
        /\ call' = [call EXCEPT
              !.step = IF call.mode = "rebuild" THEN "alloc_metadata_blocks" ELSE "replace_metadata",
              !.units = IF call.mode = "rebuild" THEN NewUnits(category, numbers)
                        ELSE SubSeq(old_units, 1, kept) \o NewUnits(category, numbers)]
  BY DEF AllocateDataUnits
<1> DEFINE new == NewUnits(category, numbers)
<1>2. /\ call.step = "alloc_data_units"
      /\ metadata' = metadata /\ metadata_disk' = metadata_disk /\ attached' = attached
  BY DEF AllocateDataUnits
<1>3. /\ MetadataInv /\ \A b \in AreaBlocks : IsUnits(metadata_disk[b])
      /\ metadata_disk = [b \in AreaBlocks |-> metadata_disk[b]]
      /\ IsUnits(old_units)
      /\ call.old = metadata /\ call.old_units = UnitsOf(metadata)
      /\ RetiredBlocks = {} /\ free \subseteq AreaBlocks
      /\ free \cap HeldBlocks = {}
      /\ Resizing /\ CallInv /\ CacheInv
  BY <1>2, BeforeCommitFacts
<1>4. /\ call.units = <<>> /\ call.metadata_blocks = <<>>
      /\ call.mode \in {"in_place", "rebuild"}
      /\ UncommittedBlocks = {}
  BY <1>2, NothingPendingAtFirst
<1>5. MetadataInv' /\ UnitsOf(metadata)' = UnitsOf(metadata) /\ HeldBlocks' = HeldBlocks
  BY <1>2, <1>3, MetadataKept
<1>6. /\ DOMAIN call = {"step", "mode", "target", "payload", "units", "metadata_blocks", "index",
                        "old", "old_units", "before", "write"}
      /\ IsLayout(call.target) /\ IsEntry(call.old) /\ call.index \in Nat
      /\ m = call.old.layout.data_units_count
      /\ call.mode = "in_place" =>
           /\ call.target.category = call.old.layout.category
           /\ call.target.category \notin {Inline, ClusterMetadataBlocks}
  BY <1>3 DEF CallInv
<1>7. /\ DOMAIN call' = DOMAIN call
      /\ call'.step = IF call.mode = "rebuild" THEN "alloc_metadata_blocks" ELSE "replace_metadata"
      /\ call'.units = IF call.mode = "rebuild" THEN new ELSE SubSeq(old_units, 1, kept) \o new
      /\ call'.mode = call.mode /\ call'.target = call.target
      /\ call'.metadata_blocks = <<>>
      /\ call'.old = call.old /\ call'.old_units = old_units /\ call'.index = call.index
  BY <1>1, <1>4, <1>6
<1>8. /\ call'.step \in {"alloc_metadata_blocks", "replace_metadata"}
      /\ call'.step \in StepsOf(call'.mode)
  BY <1>4, <1>7 DEF StepsOf
<1>9. /\ BeforeCommitInv' /\ RetiredInv' /\ RetiredBlocks' = {}
      /\ UncommittedBlocks' = PendingBlocks'
      /\ Resizing' /\ ~Committed'
  BY <1>2, <1>5, <1>7, <1>8, StillBeforeCommit
<1>10. /\ m \in Nat /\ t \in Nat /\ category \in Categories
  BY <1>3, <1>6, UnitsHaveItems DEF IsLayout, Layouts
<1>11. AllocatedUnitsCount \in Nat
       /\ AllocatedUnitsCount = IF call.mode = "rebuild" THEN t ELSE IF t > m THEN t - m ELSE 0
  BY <1>6, <1>10 DEF AllocatedUnitsCount
<1>12. /\ IsUnits(new) /\ Len(new) = AllocatedUnitsCount
       /\ BlocksOf(category, new, <<>>) \subseteq free /\ Apart(category, new, <<>>)
  BY <1>3, <1>10, <1>11, PlacedUnits
<1>. HIDE DEF new, category, old_units, m, t, kept
<1>13. /\ IsUnits(call'.units) /\ Len(call'.units) = t
       /\ Apart(category, call'.units, <<>>)
       /\ NewUnitsOfCall' = new
       /\ call.mode = "in_place" =>
            \A u \in DOMAIN call'.units \cap DOMAIN old_units : call'.units[u] = old_units[u]
  <2>1. CASE call.mode = "rebuild"
    <3>1. call'.units = new
      BY <1>7, <2>1
    <3>. QED
      BY <1>7, <1>11, <1>12, <2>1, <3>1 DEF NewUnitsOfCall
  <2>2. CASE call.mode = "in_place"
    <3> DEFINE prefix == SubSeq(old_units, 1, kept)
    <3>1. kept \in 0..m /\ kept = IF m <= t THEN m ELSE t
      BY <1>10 DEF kept, LesserOf
    <3>2. category = metadata.layout.category
      BY <1>3, <1>6, <2>2 DEF category
    <3>3. Apart(category, old_units, <<>>)
      BY <1>3, <3>2, ApartOfUnits DEF MetadataInv, old_units
    <3>4. /\ IsUnits(prefix) /\ Len(prefix) = kept /\ Apart(category, prefix, <<>>)
          /\ \A u \in 1..kept : prefix[u] = old_units[u]
          /\ BlocksOf(category, prefix, <<>>) \subseteq BlocksOf(category, old_units, <<>>)
      BY <1>3, <3>1, <3>3, ApartPrefix, BlocksOfCut DEF m, old_units
    <3>5. BlocksOf(category, old_units, <<>>) \subseteq HeldBlocks
      BY <1>3, <3>2, BlocksOfParts DEF HeldBlocks, old_units
    <3>6. call'.units = prefix \o new
      BY <1>7, <2>2
    <3>. HIDE DEF prefix
    <3>7. /\ IsUnits(call'.units) /\ Len(call'.units) = kept + AllocatedUnitsCount
          /\ \A u \in 1..kept : call'.units[u] = prefix[u]
      <4>1. /\ IsUnits(prefix \o new) /\ Len(prefix \o new) = Len(prefix) + Len(new)
            /\ \A u \in 1..Len(prefix) : (prefix \o new)[u] = prefix[u]
        BY <1>12, <3>4, ConcatOfUnits
      <4>. QED
        BY <1>12, <3>4, <3>6, <4>1
    <3>8. Len(call'.units) = t
      BY <1>10, <1>11, <2>2, <3>1, <3>7
    <3>9. Apart(category, call'.units, <<>>)
      BY <1>3, <1>12, <3>4, <3>5, <3>6, ApartConcat
    <3>10. \A u \in DOMAIN call'.units \cap DOMAIN old_units : call'.units[u] = old_units[u]
      <4>1. DOMAIN call'.units = 1..t /\ DOMAIN old_units = 1..m
        BY <1>3, <3>7, <3>8, UnitsHaveItems DEF m, old_units
      <4>. QED
        BY <1>10, <3>1, <3>4, <3>7, <4>1
    <3>11. NewUnitsOfCall' = SubSeq(call'.units, m + 1, t)
      BY <1>7, <2>2, <3>8 DEF NewUnitsOfCall, m, old_units
    <3>12. CASE t > m
      <4>1. kept = m /\ m + Len(new) = t
        BY <1>10, <1>11, <1>12, <2>2, <3>1, <3>12
      <4>. QED
        BY <1>12, <3>4, <3>6, <3>7, <3>8, <3>9, <3>10, <3>11, <4>1, TailOfConcat
    <3>13. CASE t <= m
      <4>1. Len(new) = 0
        BY <1>10, <1>11, <1>12, <2>2, <3>13
      <4>2. new = <<>>
        BY <1>12, <4>1, EmptySeq DEF IsUnits
      <4>3. SubSeq(call'.units, m + 1, t) = <<>>
        BY <1>10, <3>7, <3>13, SubSeqEmpty
      <4>. QED
        BY <3>7, <3>8, <3>9, <3>10, <3>11, <4>2, <4>3
    <3>. QED
      BY <1>10, <3>12, <3>13
  <2>. QED
    BY <1>4, <2>1, <2>2
<1>14. UncommittedBlocks' = BlocksOf(category, new, <<>>)
  BY <1>7, <1>9, <1>13 DEF PendingBlocks, category
<1>15. OwnershipStep
  BY <1>1, <1>3, <1>4, <1>5, <1>9, <1>12, <1>14, AllocateStep DEF new, category
<1>16. CallInv'
  BY <1>3, <1>4, <1>6, <1>7, <1>8, <1>9, <1>13, EmptySeq DEF CallInv, old_units, m
<1>17. BuiltInv'
  <2>1. MetadataBlocksOf(call.target) \in Nat /\ Len(<<>>) = 0
    BY <1>10, PositiveGeometry, DivCeilCovers, NoUnits
    DEF MetadataBlocksOf, ClusterMetadataBlocksCount, t
  <2>2. call.mode = "in_place" => call.target.category # ClusterMetadataBlocks
    BY <1>6
  <2>3. CASE call.mode = "rebuild"
    BY <1>7, <1>13, <2>1, <2>3 DEF BuiltInv, category, t
  <2>4. CASE call.mode = "in_place"
    BY <1>7, <1>13, <2>2, <2>4 DEF BuiltInv, category, t, old_units
  <2>. QED
    BY <1>4, <2>3, <2>4
<1>18. CacheInv'
  BY <1>2, <1>3, <1>4, <1>7, <1>8, <1>9 DEF CacheInv
<1>. QED
  BY <1>5, <1>9, <1>15, <1>16, <1>17, <1>18 DEF StructureInv
LEMMA ApartWithBlock ==
  ASSUME NEW category, NEW units, NEW metadata_blocks \in Seq(AreaBlocks),
         NEW numbers \in Seq(AreaBlocks), Len(numbers) = 1,
         Apart(category, units, metadata_blocks),
         numbers[1] \notin BlocksOf(category, units, metadata_blocks)
  PROVE  LET longer == metadata_blocks \o numbers
         IN  /\ longer \in Seq(AreaBlocks)
             /\ Len(longer) = Len(metadata_blocks) + 1
             /\ ToSet(numbers) = {numbers[1]}
             /\ ToSet(longer) = ToSet(metadata_blocks) \cup {numbers[1]}
             /\ Apart(category, units, longer)
             /\ BlocksOf(category, units, longer)
                  = BlocksOf(category, units, metadata_blocks) \cup {numbers[1]}
<1> DEFINE longer == metadata_blocks \o numbers
           n == Len(metadata_blocks)
<1>1. /\ n \in Nat /\ DOMAIN metadata_blocks = 1..n /\ DOMAIN numbers = 1..1
  BY LenProperties
<1>2. /\ longer \in Seq(AreaBlocks) /\ Len(longer) = n + 1
      /\ \A i \in 1..(n + 1) : longer[i] = IF i <= n THEN metadata_blocks[i] ELSE numbers[i - n]
  <2>1. /\ longer \in Seq(AreaBlocks) /\ Len(longer) = n + Len(numbers)
        /\ \A i \in 1..(n + Len(numbers)) :
             longer[i] = IF i <= n THEN metadata_blocks[i] ELSE numbers[i - n]
    BY ConcatProperties
  <2>. QED
    BY <2>1
<1>3. DOMAIN longer = 1..(n + 1)
  BY <1>2, LenProperties
<1>. HIDE DEF longer, n
<1>4. (\A i \in 1..n : longer[i] = metadata_blocks[i]) /\ longer[n + 1] = numbers[1]
  BY <1>1, <1>2
<1>5. \A i \in DOMAIN longer : i \in DOMAIN metadata_blocks \/ i = n + 1
  BY <1>1, <1>3
<1>6. n + 1 \in DOMAIN longer /\ DOMAIN metadata_blocks \subseteq DOMAIN longer
  BY <1>1, <1>3
<1>7. ToSet(numbers) = {numbers[1]}
  BY <1>1 DEF ToSet
<1>8. ToSet(longer) = ToSet(metadata_blocks) \cup {numbers[1]}
  BY <1>1, <1>4, <1>5, <1>6 DEF ToSet
<1>9. /\ \A i \in DOMAIN metadata_blocks : metadata_blocks[i] # numbers[1]
      /\ \A u \in DOMAIN units : numbers[1] \notin UnitExtent(category, units[u])
  BY DEF BlocksOf, ToSet
<1>10. Apart(category, units, longer)
  <2>1. ASSUME NEW i \in DOMAIN longer, NEW j \in DOMAIN longer, i # j
        PROVE  longer[i] # longer[j]
    <3>1. CASE i \in DOMAIN metadata_blocks /\ j \in DOMAIN metadata_blocks
      BY <1>1, <1>4, <2>1, <3>1 DEF Apart
    <3>2. CASE i = n + 1 \/ j = n + 1
      BY <1>1, <1>4, <1>5, <1>9, <2>1, <3>2
    <3>. QED
      BY <1>5, <3>1, <3>2
  <2>2. ASSUME NEW u \in DOMAIN units, NEW i \in DOMAIN longer
        PROVE  longer[i] \notin UnitExtent(category, units[u])
    BY <1>1, <1>4, <1>5, <1>9 DEF Apart
  <2>3. \A u, v \in DOMAIN units :
          u # v => UnitExtent(category, units[u]) \cap UnitExtent(category, units[v]) = {}
    BY DEF Apart
  <2>. QED
    BY <2>1, <2>2, <2>3 DEF Apart
<1>11. BlocksOf(category, units, longer)
         = BlocksOf(category, units, metadata_blocks) \cup {numbers[1]}
  BY <1>8, BlocksOfParts
<1>. QED
  BY <1>2, <1>7, <1>8, <1>10, <1>11 DEF longer, n

\* What a rebuild has at hand between its allocations and its commit.
LEMMA RebuildFacts ==
  ASSUME FileResizeInv, call.step \in {"alloc_metadata_blocks", "copy"}
  PROVE  /\ call.mode = "rebuild"
         /\ DOMAIN call = {"step", "mode", "target", "payload", "units", "metadata_blocks", "index",
                           "old", "old_units", "before", "write"}
         /\ IsLayout(call.target) /\ IsUnits(call.units)
         /\ call.metadata_blocks \in Seq(AreaBlocks) /\ call.index \in Nat
         /\ IsEntry(call.old) /\ IsUnits(call.old_units)
         /\ Len(call.old_units) = call.old.layout.data_units_count
         /\ Len(call.units) = call.target.data_units_count
         /\ Apart(call.target.category, call.units, call.metadata_blocks)
         /\ Len(call.metadata_blocks) <= MetadataBlocksOf(call.target)
         /\ PendingBlocks = BlocksOf(call.target.category, call.units, call.metadata_blocks)
         /\ attached \subseteq ToSet(call.metadata_blocks) \cup OldDataBlocks
                                 \cup ToSet(call.old.metadata_blocks)
<1>1. Resizing /\ ~Committed /\ CallInv /\ BuiltInv /\ CacheInv
  BY BeforeCommitFacts
<1>2. /\ DOMAIN call = {"step", "mode", "target", "payload", "units", "metadata_blocks", "index",
                        "old", "old_units", "before", "write"}
      /\ call.mode \in {"inline", "in_place", "rebuild"} /\ call.step \in StepsOf(call.mode)
      /\ IsLayout(call.target) /\ IsUnits(call.units)
      /\ call.metadata_blocks \in Seq(AreaBlocks) /\ call.index \in Nat
      /\ IsEntry(call.old) /\ IsUnits(call.old_units)
      /\ Len(call.old_units) = call.old.layout.data_units_count
  BY <1>1 DEF CallInv
<1>3. call.mode = "rebuild"
  BY <1>2 DEF StepsOf
<1>4. /\ Len(call.units) = call.target.data_units_count
      /\ Apart(call.target.category, call.units, call.metadata_blocks)
      /\ Len(call.metadata_blocks) <= MetadataBlocksOf(call.target)
  BY <1>1, <1>3 DEF BuiltInv
<1>5. PendingBlocks = BlocksOf(call.target.category, call.units, call.metadata_blocks)
  BY <1>3 DEF PendingBlocks, NewUnitsOfCall
<1>6. attached \subseteq ToSet(call.metadata_blocks) \cup OldDataBlocks
                           \cup ToSet(call.old.metadata_blocks)
  BY <1>1, <1>3 DEF CacheInv
<1>. QED
  BY <1>2, <1>3, <1>4, <1>5, <1>6

LEMMA AllocateMetadataBlockPreserves ==
  ASSUME FileResizeInv, AllocateMetadataBlock
  PROVE  OwnershipStep /\ StructureInv'
<1> DEFINE category == call.target.category
           blocks == call.metadata_blocks
<1>1. PICK numbers \in Placements(1, 1) :
        /\ free' = free \ ToSet(numbers)
        /\ attached' = attached \cup ToSet(numbers)
        /\ call' = [call EXCEPT !.metadata_blocks = @ \o numbers]
  BY DEF AllocateMetadataBlock
<1>2. /\ call.step = "alloc_metadata_blocks"
      /\ Len(blocks) < MetadataBlocksNeeded
      /\ metadata' = metadata /\ metadata_disk' = metadata_disk
  BY DEF AllocateMetadataBlock
<1>3. /\ MetadataInv /\ \A b \in AreaBlocks : IsUnits(metadata_disk[b])
      /\ metadata_disk = [b \in AreaBlocks |-> metadata_disk[b]]
      /\ RetiredBlocks = {} /\ free \subseteq AreaBlocks /\ free \cap PendingBlocks = {}
      /\ UncommittedBlocks = PendingBlocks
      /\ CallInv
  BY <1>2, BeforeCommitFacts
<1>4. /\ call.mode = "rebuild"
      /\ DOMAIN call = {"step", "mode", "target", "payload", "units", "metadata_blocks", "index",
                        "old", "old_units", "before", "write"}
      /\ IsLayout(call.target)
      /\ blocks \in Seq(AreaBlocks)
      /\ Len(call.units) = call.target.data_units_count
      /\ Apart(category, call.units, blocks)
      /\ PendingBlocks = BlocksOf(category, call.units, blocks)
      /\ attached \subseteq ToSet(blocks) \cup OldDataBlocks \cup ToSet(call.old.metadata_blocks)
  BY <1>2, RebuildFacts
<1>5. /\ numbers \in Seq(AreaBlocks) /\ Len(numbers) = 1 /\ numbers[1] \in free
  <2>1. /\ numbers \in Seq(AreaBlocks) /\ Len(numbers) = 1
        /\ Extent(numbers[1], 1) \subseteq free
    <3>1. 1 \in Nat \ {0} /\ 1 \in Nat /\ 1 \in 1..1
      OBVIOUS
    <3>2. /\ numbers \in Seq(AreaBlocks) /\ Len(numbers) = 1
          /\ \A u \in 1..1 : Extent(numbers[u], 1) \subseteq free
      BY ONLY <1>3, <3>1, PlacementsAreFree, numbers \in Placements(1, 1)
    <3>. QED
      BY <3>1, <3>2
  <2>2. numbers[1] \in Nat
    <3>1. 1 \in 1..Len(numbers)
      BY <2>1
    <3>2. numbers[1] \in AreaBlocks
      BY <2>1, <3>1, ElementOfSeq
    <3>. QED
      BY <3>2, AreaBlocksAreNumbers
  <2>3. numbers[1] \in Extent(numbers[1], 1)
    BY <2>2 DEF Extent
  <2>. QED
    BY <2>1, <2>3
<1>6. /\ blocks \o numbers \in Seq(AreaBlocks)
      /\ Len(blocks \o numbers) = Len(blocks) + 1
      /\ ToSet(numbers) = {numbers[1]}
      /\ ToSet(blocks \o numbers) = ToSet(blocks) \cup {numbers[1]}
      /\ Apart(category, call.units, blocks \o numbers)
      /\ BlocksOf(category, call.units, blocks \o numbers) = PendingBlocks \cup {numbers[1]}
  BY <1>3, <1>4, <1>5, ApartWithBlock
<1>7. /\ DOMAIN call' = DOMAIN call /\ call'.step = "alloc_metadata_blocks"
      /\ call'.metadata_blocks = blocks \o numbers
      /\ call'.mode = call.mode /\ call'.target = call.target /\ call'.units = call.units
      /\ call'.old = call.old /\ call'.old_units = call.old_units /\ call'.index = call.index
  BY <1>1, <1>2, <1>4
<1>. HIDE DEF category, blocks
<1>8. MetadataInv' /\ UnitsOf(metadata)' = UnitsOf(metadata) /\ HeldBlocks' = HeldBlocks
  BY <1>2, <1>3, MetadataKept
<1>9. /\ BeforeCommitInv' /\ RetiredInv' /\ RetiredBlocks' = {}
      /\ UncommittedBlocks' = PendingBlocks'
      /\ Resizing' /\ ~Committed'
  BY <1>2, <1>7, <1>8, StillBeforeCommit
<1>10. UncommittedBlocks' = PendingBlocks \cup {numbers[1]}
  BY <1>4, <1>6, <1>7, <1>9 DEF PendingBlocks, NewUnitsOfCall, category
<1>11. OwnershipStep
  BY <1>1, <1>3, <1>5, <1>6, <1>8, <1>9, <1>10, AllocateStep
<1>12. Resizing
  BY <1>2 DEF Resizing
<1>13. CallInv'
  BY <1>2, <1>3, <1>4, <1>6, <1>7, <1>9, <1>12 DEF CallInv
<1>14. Len(blocks \o numbers) <= MetadataBlocksOf(call.target)
  <2>1. MetadataBlocksNeeded = MetadataBlocksOf(call.target)
    BY <1>4, NeededMetadataBlocks
  <2>2. MetadataBlocksOf(call.target) \in Nat /\ Len(blocks) \in Nat
    BY <1>4, PositiveGeometry, DivCeilCovers, LenProperties
    DEF MetadataBlocksOf, ClusterMetadataBlocksCount, IsLayout, Layouts
  <2>. QED
    BY <1>2, <1>6, <2>1, <2>2
<1>15. BuiltInv'
  BY <1>4, <1>6, <1>7, <1>14 DEF BuiltInv, category
<1>16. CacheInv'
  <2>1. OldDataBlocks' = OldDataBlocks
    BY <1>7 DEF OldDataBlocks
  <2>. QED
    BY <1>1, <1>4, <1>6, <1>7, <1>9, <2>1 DEF CacheInv
<1>. QED
  BY <1>8, <1>9, <1>11, <1>13, <1>15, <1>16 DEF StructureInv

LEMMA StartCopyPreserves ==
  ASSUME FileResizeInv, StartCopy
  PROVE  OwnershipStep /\ StructureInv'
<1>1. /\ call.step = "alloc_metadata_blocks"
      /\ Len(call.metadata_blocks) = MetadataBlocksNeeded
      /\ call' = [call EXCEPT !.step = "copy"]
      /\ metadata' = metadata /\ metadata_disk' = metadata_disk
      /\ free' = free /\ attached' = attached
  BY DEF StartCopy
<1>2. /\ MetadataInv /\ \A b \in AreaBlocks : IsUnits(metadata_disk[b])
      /\ metadata_disk = [b \in AreaBlocks |-> metadata_disk[b]]
      /\ RetiredBlocks = {} /\ UncommittedBlocks = PendingBlocks
      /\ CallInv /\ BuiltInv /\ CacheInv /\ Resizing /\ ~Committed
  BY <1>1, BeforeCommitFacts
<1>3. /\ call.mode = "rebuild" /\ IsLayout(call.target)
      /\ Len(call.units) = call.target.data_units_count
      /\ Apart(call.target.category, call.units, call.metadata_blocks)
  BY <1>1, RebuildFacts
<1>4. DOMAIN call = {"step", "mode", "target", "payload", "units", "metadata_blocks", "index",
                     "old", "old_units", "before", "write"}
  BY <1>1, RebuildFacts
<1>5. /\ DOMAIN call' = DOMAIN call /\ call'.step = "copy"
      /\ call'.mode = call.mode /\ call'.target = call.target /\ call'.units = call.units
      /\ call'.metadata_blocks = call.metadata_blocks
      /\ call'.old = call.old /\ call'.old_units = call.old_units /\ call'.index = call.index
  BY <1>1, <1>4
<1>6. MetadataInv' /\ UnitsOf(metadata)' = UnitsOf(metadata) /\ HeldBlocks' = HeldBlocks
  BY <1>1, <1>2, MetadataKept
<1>7. /\ BeforeCommitInv' /\ RetiredInv' /\ RetiredBlocks' = {}
      /\ UncommittedBlocks' = PendingBlocks'
      /\ Resizing' /\ ~Committed'
  BY <1>1, <1>5, <1>6, StillBeforeCommit
<1>8. PendingBlocks' = PendingBlocks
  BY <1>5 DEF PendingBlocks, NewUnitsOfCall
<1>9. OwnershipStep
  BY <1>1, <1>2, <1>6, <1>7, <1>8, StutteringStep DEF Stuttering
<1>10. CallInv'
  BY <1>2, <1>3, <1>5, <1>7 DEF CallInv, StepsOf
<1>11. BuiltInv'
  <2>1. Len(call.metadata_blocks) = MetadataBlocksOf(call.target)
    BY <1>1, <1>3, NeededMetadataBlocks
  <2>2. MetadataBlocksOf(call.target) \in Nat
    BY <1>3, PositiveGeometry, DivCeilCovers
    DEF MetadataBlocksOf, ClusterMetadataBlocksCount, IsLayout, Layouts
  <2>. QED
    BY <1>3, <1>5, <2>1, <2>2 DEF BuiltInv
<1>12. CacheInv'
  <2>1. OldDataBlocks' = OldDataBlocks
    BY <1>5 DEF OldDataBlocks
  <2>. QED
    BY <1>1, <1>2, <1>3, <1>5, <1>7, <2>1 DEF CacheInv
<1>. QED
  BY <1>6, <1>7, <1>9, <1>10, <1>11, <1>12 DEF StructureInv
-----------------------------------------------------------------------------
(* Copying into the new layout.                                            *)

\* The source accessor is never asked for a byte past the old end.
LEMMA PreservedBytes ==
  ASSUME IsEntry(call.old), IsLayout(call.target)
  PROVE  BytesToPreserve \in Nat /\ BytesToPreserve <= call.old.layout.file_size
  BY DEF BytesToPreserve, LesserOf, IsEntry, IsLayout, Layouts

LEMMA CopyDataBlockPreserves ==
  ASSUME FileResizeInv, CopyDataBlock
  PROVE  OwnershipStep /\ StructureInv'
<1> DEFINE target == call.target
           category == target.category
           offset == call.index * DataBlockSize(category)
           last == LesserOf(offset + DataBlockSize(category), BytesToPreserve)
<1>1. PICK data :
        /\ attached' = ToSet(call.metadata_blocks) \cup HeldBySource(last)
        /\ call' = [call EXCEPT !.index = @ + 1,
                      !.units = WithHash(category, @, call.index, data)]
  BY DEF CopyDataBlock
<1>2. /\ call.step = "copy"
      /\ metadata' = metadata /\ metadata_disk' = metadata_disk /\ free' = free
  BY DEF CopyDataBlock
<1>3. /\ MetadataInv /\ \A b \in AreaBlocks : IsUnits(metadata_disk[b])
      /\ metadata_disk = [b \in AreaBlocks |-> metadata_disk[b]]
      /\ RetiredBlocks = {} /\ UncommittedBlocks = PendingBlocks
      /\ CallInv /\ BuiltInv /\ Resizing /\ ~Committed
  BY <1>2, BeforeCommitFacts
<1>4. /\ call.mode = "rebuild"
      /\ DOMAIN call = {"step", "mode", "target", "payload", "units", "metadata_blocks", "index",
                        "old", "old_units", "before", "write"}
      /\ IsLayout(target) /\ IsUnits(call.units) /\ call.index \in Nat
      /\ IsEntry(call.old) /\ Len(call.old_units) = call.old.layout.data_units_count
      /\ Len(call.units) = target.data_units_count
      /\ Apart(category, call.units, call.metadata_blocks)
      /\ PendingBlocks = BlocksOf(category, call.units, call.metadata_blocks)
  BY <1>2, RebuildFacts
<1> DEFINE units == WithHash(category, call.units, call.index, data)
<1>5. /\ DOMAIN call' = DOMAIN call /\ call'.step = "copy"
      /\ call'.mode = call.mode /\ call'.target = target /\ call'.units = units
      /\ call'.metadata_blocks = call.metadata_blocks
      /\ call'.old = call.old /\ call'.old_units = call.old_units
      /\ call'.index = call.index + 1
  BY <1>1, <1>2, <1>4
<1>6. /\ IsUnits(units) /\ Len(units) = Len(call.units) /\ SameNumbers(units, call.units)
  BY <1>4, WithHashKeepsNumbers
<1>7. /\ BlocksOf(category, units, call.metadata_blocks) = PendingBlocks
      /\ Apart(category, units, call.metadata_blocks)
  BY <1>4, <1>6, SameNumbersSameBlocks
<1>8. MetadataInv' /\ UnitsOf(metadata)' = UnitsOf(metadata) /\ HeldBlocks' = HeldBlocks
  BY <1>2, <1>3, MetadataKept
<1>. HIDE DEF units
<1>9. /\ BeforeCommitInv' /\ RetiredInv' /\ RetiredBlocks' = {}
      /\ UncommittedBlocks' = PendingBlocks'
      /\ Resizing' /\ ~Committed'
  BY <1>2, <1>5, <1>8, StillBeforeCommit
<1>10. PendingBlocks' = PendingBlocks
  BY <1>4, <1>5, <1>7 DEF PendingBlocks, NewUnitsOfCall
<1>11. OwnershipStep
  BY <1>2, <1>3, <1>8, <1>9, <1>10, StutteringStep DEF Stuttering
<1>12. CallInv'
  BY <1>2, <1>3, <1>4, <1>5, <1>6, <1>9 DEF CallInv
<1>13. BuiltInv'
  BY <1>2, <1>3, <1>4, <1>5, <1>6, <1>7 DEF BuiltInv
<1>14. HeldBySource(last) \subseteq OldDataBlocks \cup ToSet(call.old.metadata_blocks)
  <2>1. BytesToPreserve \in Nat /\ BytesToPreserve <= call.old.layout.file_size
    BY <1>4, PreservedBytes
  <2>2. category \in Categories
    BY <1>4 DEF IsLayout, Layouts
  <2>3. DataBlockSize(category) \in Nat
    BY <2>2, UnitGeometry
  <2>. HIDE DEF category
  <2>4. offset + DataBlockSize(category) \in Nat
    BY <1>4, <2>3
  <2>5. call.old.layout.file_size \in Nat
    BY <1>4, EntryFacts
  <2>. HIDE DEF offset
  <2>6. last \in Nat /\ last <= call.old.layout.file_size
    BY <2>1, <2>4, <2>5 DEF LesserOf
  <2>. QED
    BY <1>4, <2>6, HeldBySourceIsOld
<1>15. CacheInv'
  <2>1. OldDataBlocks' = OldDataBlocks
    BY <1>5 DEF OldDataBlocks
  <2>. QED
    BY <1>1, <1>4, <1>5, <1>9, <1>14, <2>1 DEF CacheInv
<1>. QED
  BY <1>8, <1>9, <1>11, <1>12, <1>13, <1>15 DEF StructureInv

\* The item of unit u in the metadata block it belongs to.
LEMMA ItemInChunk ==
  ASSUME NEW units, IsUnits(units), NEW u \in 1..Len(units), NEW j \in Nat \ {0},
         j = ((u - 1) \div ClustersPerMetadataBlock) + 1
  PROVE  LET per == ClustersPerMetadataBlock
             items == SubSeq(units, (j - 1) * per + 1, LesserOf(j * per, Len(units)))
         IN  SlotOfUnit(u) \in DOMAIN items /\ items[SlotOfUnit(u)] = units[u]
<1> DEFINE per == ClustersPerMetadataBlock
           first == (j - 1) * per
           end == LesserOf(j * per, Len(units))
           items == SubSeq(units, first + 1, end)
           slot == SlotOfUnit(u)
<1>1. per \in Nat \ {0} /\ Len(units) \in Nat
  BY PositiveGeometry, UnitsHaveItems
<1>2. u - 1 = ((u - 1) \div per) * per + ((u - 1) % per) /\ (u - 1) % per \in 0..(per - 1)
  BY <1>1, ChunkOfItem
<1>3. slot = ((u - 1) % per) + 1
  BY DEF SlotOfUnit
<1>4. /\ slot \in 1..per /\ u = first + slot
  <2>. HIDE DEF per
  <2>1. (u - 1) \div per = j - 1
    <3>. DEFINE q == (u - 1) \div per
    <3>1. q \in Int
      BY <1>1
    <3>2. j = q + 1
      BY DEF per
    <3>. HIDE DEF q
    <3>3. q = j - 1
      BY <3>1, <3>2
    <3>. QED
      BY <3>3 DEF q
  <2>2. u - 1 = first + ((u - 1) % per)
    BY <1>2, <2>1
  <2>. DEFINE r == (u - 1) % per
  <2>3. first \in Nat
    BY <1>1
  <2>. HIDE DEF first, r, slot
  <2>4. slot = r + 1 /\ r \in 0..(per - 1) /\ u - 1 = first + r
    BY <1>2, <1>3, <2>2 DEF r
  <2>. QED
    BY <1>1, <2>3, <2>4
<1>5. first \in Nat /\ j * per = first + per
  BY <1>1
<1>6. end \in Nat /\ end <= Len(units) /\ end = IF j * per <= Len(units) THEN j * per ELSE Len(units)
  BY <1>1, <1>5 DEF LesserOf
<1>. HIDE DEF per, first, end, slot
<1>7. u <= end /\ first + slot <= end
  BY <1>1, <1>4, <1>5, <1>6
<1>8. /\ IsUnits(items) /\ Len(items) = IF first + 1 <= end THEN end - (first + 1) + 1 ELSE 0
      /\ \A k \in 1..(end - (first + 1) + 1) : items[k] = units[(first + 1) + k - 1]
  <2>1. first + 1 \in Nat \ {0} /\ end \in Int
    BY <1>5, <1>6
  <2>. QED
    BY <1>6, <2>1, SubSeqOfUnits
<1>9. DOMAIN items = 1..Len(items)
  BY <1>8, UnitsHaveItems
<1>. HIDE DEF items
<1>10. slot \in 1..(end - (first + 1) + 1) /\ slot \in 1..Len(items) /\ (first + 1) + slot - 1 = u
  BY <1>1, <1>4, <1>5, <1>6, <1>7, <1>8
<1>11. slot \in DOMAIN items /\ items[slot] = units[u]
  BY <1>8, <1>9, <1>10
<1>. QED
  BY <1>11 DEF per, first, end, items, slot
LEMMA ChunkOfUnits ==
  ASSUME NEW units, IsUnits(units), NEW j \in Nat \ {0}
  PROVE  IsUnits(SubSeq(units, (j - 1) * ClustersPerMetadataBlock + 1,
                        LesserOf(j * ClustersPerMetadataBlock, Len(units))))
<1> DEFINE per == ClustersPerMetadataBlock
           first == (j - 1) * per
           end == LesserOf(j * per, Len(units))
<1>1. per \in Nat \ {0} /\ Len(units) \in Nat
  BY PositiveGeometry, UnitsHaveItems
<1>2. first \in Nat /\ j * per \in Nat
  BY <1>1
<1>3. end \in Int /\ end <= Len(units)
  BY <1>1, <1>2 DEF LesserOf
<1>. HIDE DEF first, end
<1>4. first + 1 \in Nat \ {0}
  BY <1>2
<1>5. IsUnits(SubSeq(units, first + 1, end))
  BY <1>3, <1>4, SubSeqOfUnits
<1>. QED
  BY <1>5 DEF first, end, per

\* The items metadata block j lists.
ItemsOfBlock(units, j) ==
  SubSeq(units, (j - 1) * ClustersPerMetadataBlock + 1,
         LesserOf(j * ClustersPerMetadataBlock, Len(units)))

\* Every item is where the new metadata says it is.
LEMMA ItemsInBlocks ==
  ASSUME NEW units, IsUnits(units), NEW blocks \in Seq(AreaBlocks), NEW items,
         Len(blocks) = ClusterMetadataBlocksCount(Len(units)),
         \A j \in DOMAIN blocks : items[blocks[j]] = ItemsOfBlock(units, j),
         NEW u \in DOMAIN units
  PROVE  /\ SlotOfUnit(u) \in DOMAIN items[BlockOfUnit(blocks, u)]
         /\ items[BlockOfUnit(blocks, u)][SlotOfUnit(u)] = units[u]
<1> DEFINE j == ((u - 1) \div ClustersPerMetadataBlock) + 1
<1>1. u \in 1..Len(units) /\ Len(units) \in Nat
  BY UnitsHaveItems
<1>2. DOMAIN blocks = 1..Len(blocks) /\ Len(blocks) \in Nat
  BY LenProperties
<1>3. j \in 1..Len(blocks)
  BY <1>1, MetadataBlockOfUnit
<1>4. j = ((u - 1) \div ClustersPerMetadataBlock) + 1
  OBVIOUS
<1>. HIDE DEF j
<1>5. j \in DOMAIN blocks /\ j \in Nat \ {0}
  BY <1>2, <1>3
<1>6. SlotOfUnit(u) \in DOMAIN ItemsOfBlock(units, j) /\ ItemsOfBlock(units, j)[SlotOfUnit(u)] = units[u]
  BY ONLY <1>1, <1>4, <1>5, ItemInChunk, IsUnits(units) DEF ItemsOfBlock
<1>7. items[blocks[j]] = ItemsOfBlock(units, j)
  BY <1>5
<1>. QED
  BY <1>6, <1>7 DEF BlockOfUnit, j

LEMMA FinishCopyPreserves ==
  ASSUME FileResizeInv, FinishCopy
  PROVE  OwnershipStep /\ StructureInv'
<1> DEFINE per == ClustersPerMetadataBlock
           target == call.target
           blocks == call.metadata_blocks
           Chunk(b) == LET j == CHOOSE i \in DOMAIN blocks : blocks[i] = b
                       IN  SubSeq(call.units, (j - 1) * per + 1, LesserOf(j * per, Len(call.units)))
<1>1. /\ call.step = "copy"
      /\ metadata_disk' = [b \in AreaBlocks |-> IF b \in ToSet(blocks) THEN Chunk(b) ELSE metadata_disk[b]]
      /\ attached' = IF target.category = Inline THEN HeldBySource(BytesToPreserve) ELSE attached
      /\ metadata' = metadata /\ free' = free
  BY DEF FinishCopy
<1>2. PICK payload : call' = [call EXCEPT !.step = "replace_metadata", !.payload = payload]
  BY DEF FinishCopy
<1>3. /\ MetadataInv /\ IsEntry(metadata) /\ \A b \in AreaBlocks : IsUnits(metadata_disk[b])
      /\ RetiredBlocks = {} /\ UncommittedBlocks = PendingBlocks
      /\ HeldBlocks \cap PendingBlocks = {}
      /\ CallInv /\ BuiltInv /\ Resizing /\ ~Committed
  BY <1>1, BeforeCommitFacts
<1>4. /\ call.mode = "rebuild"
      /\ DOMAIN call = {"step", "mode", "target", "payload", "units", "metadata_blocks", "index",
                        "old", "old_units", "before", "write"}
      /\ IsLayout(target) /\ IsUnits(call.units) /\ blocks \in Seq(AreaBlocks)
      /\ IsEntry(call.old) /\ Len(call.old_units) = call.old.layout.data_units_count
      /\ Len(call.units) = target.data_units_count
      /\ Apart(target.category, call.units, blocks)
      /\ PendingBlocks = BlocksOf(target.category, call.units, blocks)
      /\ attached \subseteq ToSet(blocks) \cup OldDataBlocks \cup ToSet(call.old.metadata_blocks)
  BY <1>1, RebuildFacts
<1>5. Len(blocks) = MetadataBlocksOf(target)
  BY <1>1, <1>3, <1>4 DEF BuiltInv
<1>6. /\ DOMAIN call' = DOMAIN call /\ call'.step = "replace_metadata"
      /\ call'.mode = call.mode /\ call'.target = target /\ call'.units = call.units
      /\ call'.metadata_blocks = blocks
      /\ call'.old = call.old /\ call'.old_units = call.old_units /\ call'.index = call.index
  BY <1>2, <1>4
<1>7. \A b \in ToSet(blocks) : IsUnits(Chunk(b))
  <2>. TAKE b \in ToSet(blocks)
  <2> DEFINE j == CHOOSE i \in DOMAIN blocks : blocks[i] = b
  <2>1. j \in DOMAIN blocks
    BY DEF ToSet
  <2>. HIDE DEF j
  <2>2. j \in Nat \ {0}
    BY <1>4, <2>1, LenProperties
  <2>3. IsUnits(SubSeq(call.units, (j - 1) * per + 1, LesserOf(j * per, Len(call.units))))
    BY <1>4, <2>2, ChunkOfUnits
  <2>. QED
    BY <2>3 DEF j
<1>8. ToSet(blocks) \subseteq AreaBlocks /\ ToSet(blocks) \subseteq PendingBlocks
  <2>1. ToSet(blocks) \subseteq AreaBlocks
    BY <1>4, LenProperties, ElementOfSeq DEF ToSet
  <2>. QED
    BY <1>4, <2>1, BlocksOfParts
<1>. HIDE DEF Chunk
<1>9. /\ metadata_disk' = [b \in AreaBlocks |-> metadata_disk'[b]]
      /\ \A b \in AreaBlocks :
           metadata_disk'[b] = IF b \in ToSet(blocks) THEN Chunk(b) ELSE metadata_disk[b]
  BY <1>1
<1>10. \A b \in AreaBlocks : IsUnits(metadata_disk'[b])
  BY <1>3, <1>7, <1>9
<1>11. \A b \in ToSet(metadata.metadata_blocks) : metadata_disk'[b] = metadata_disk[b]
  <2>1. ToSet(metadata.metadata_blocks) \subseteq HeldBlocks
    BY BlocksOfParts DEF HeldBlocks
  <2>2. ToSet(metadata.metadata_blocks) \subseteq AreaBlocks
    BY <1>3, EntryFacts
  <2>. QED
    BY <1>3, <1>8, <1>9, <2>1, <2>2
<1>12. MetadataInv' /\ UnitsOf(metadata)' = UnitsOf(metadata) /\ HeldBlocks' = HeldBlocks
  BY <1>1, <1>3, <1>9, <1>10, <1>11, MetadataKept
<1>13. /\ BeforeCommitInv' /\ RetiredInv' /\ RetiredBlocks' = {}
       /\ UncommittedBlocks' = PendingBlocks'
       /\ Resizing' /\ ~Committed'
  BY <1>1, <1>6, <1>12, StillBeforeCommit
<1>14. PendingBlocks' = PendingBlocks
  BY <1>6 DEF PendingBlocks, NewUnitsOfCall
<1>15. OwnershipStep
  BY <1>1, <1>3, <1>12, <1>13, <1>14, StutteringStep DEF Stuttering
<1>16. CallInv'
  BY <1>3, <1>4, <1>6, <1>13 DEF CallInv, StepsOf
<1>17. ASSUME target.category = ClusterMetadataBlocks, NEW u \in DOMAIN call.units
       PROVE  /\ SlotOfUnit(u) \in DOMAIN metadata_disk'[BlockOfUnit(blocks, u)]
              /\ metadata_disk'[BlockOfUnit(blocks, u)][SlotOfUnit(u)] = call.units[u]
  <2>1. Len(blocks) = ClusterMetadataBlocksCount(Len(call.units))
    BY <1>4, <1>5, <1>17 DEF MetadataBlocksOf
  <2>2. \A i, j \in DOMAIN blocks : i # j => blocks[i] # blocks[j]
    BY <1>4 DEF Apart
  <2>3. PICK items : items = metadata_disk'
    OBVIOUS
  <2>4. ASSUME NEW j \in DOMAIN blocks PROVE items[blocks[j]] = ItemsOfBlock(call.units, j)
    <3> DEFINE chosen == CHOOSE i \in DOMAIN blocks : blocks[i] = blocks[j]
    <3>1. chosen = j
      BY <2>2
    <3>2. blocks[j] \in ToSet(blocks)
      BY DEF ToSet
    <3>3. items[blocks[j]] = Chunk(blocks[j])
      BY <1>8, <1>9, <2>3, <3>2
    <3>4. Chunk(blocks[j]) = ItemsOfBlock(call.units, chosen)
      BY DEF Chunk, ItemsOfBlock
    <3>. QED
      BY <3>1, <3>3, <3>4
  <2>5. /\ SlotOfUnit(u) \in DOMAIN items[BlockOfUnit(blocks, u)]
        /\ items[BlockOfUnit(blocks, u)][SlotOfUnit(u)] = call.units[u]
    BY <1>4, <1>17, <2>1, <2>4, ItemsInBlocks
  <2>. QED
    BY <2>3, <2>5
<1>18. BuiltInv'
  BY <1>4, <1>5, <1>6, <1>17 DEF BuiltInv
<1>19. CacheInv'
  <2>1. OldDataBlocks' = OldDataBlocks
    BY <1>6 DEF OldDataBlocks
  <2>2. HeldBySource(BytesToPreserve) \subseteq OldDataBlocks \cup ToSet(call.old.metadata_blocks)
    BY <1>4, PreservedBytes, HeldBySourceIsOld
  <2>. QED
    BY <1>1, <1>4, <1>6, <1>13, <2>1, <2>2 DEF CacheInv
<1>. QED
  BY <1>12, <1>13, <1>15, <1>16, <1>18, <1>19 DEF StructureInv
-----------------------------------------------------------------------------
(* The commit.                                                             *)

\* Whichever way the resize went, the new metadata is complete.
LEMMA BuiltEntry ==
  ASSUME FileResizeInv, call.step = "replace_metadata"
  PROVE  /\ DOMAIN call = {"step", "mode", "target", "payload", "units", "metadata_blocks", "index",
                           "old", "old_units", "before", "write"}
         /\ call.mode \in {"inline", "in_place", "rebuild"}
         /\ IsLayout(call.target) /\ IsUnits(call.units)
         /\ call.metadata_blocks \in Seq(AreaBlocks)
         /\ Len(call.metadata_blocks) = MetadataBlocksOf(call.target)
         /\ Len(call.units) = call.target.data_units_count
         /\ Apart(call.target.category, call.units, call.metadata_blocks)
         /\ call.mode = "inline" =>
              /\ call.units = <<>> /\ call.target.category = Inline
              /\ call.old.layout.category = Inline
         /\ call.mode = "in_place" =>
              /\ call.target.category = call.old.layout.category
              /\ call.target.category \notin {Inline, ClusterMetadataBlocks}
              /\ \A u \in DOMAIN call.units \cap DOMAIN call.old_units :
                   call.units[u] = call.old_units[u]
         /\ call.mode # "rebuild" => call.metadata_blocks = <<>>
         /\ call.target.category = ClusterMetadataBlocks =>
              \A u \in DOMAIN call.units :
                LET items == metadata_disk[BlockOfUnit(call.metadata_blocks, u)]
                IN  SlotOfUnit(u) \in DOMAIN items /\ items[SlotOfUnit(u)] = call.units[u]
<1>1. Resizing /\ CallInv /\ BuiltInv
  BY BeforeCommitFacts
<1>2. /\ DOMAIN call = {"step", "mode", "target", "payload", "units", "metadata_blocks", "index",
                        "old", "old_units", "before", "write"}
      /\ call.mode \in {"inline", "in_place", "rebuild"}
      /\ IsLayout(call.target) /\ IsUnits(call.units)
      /\ call.metadata_blocks \in Seq(AreaBlocks)
      /\ call.mode = "inline" => call.target.category = Inline /\ call.old.layout.category = Inline
      /\ call.mode = "in_place" =>
           /\ call.target.category = call.old.layout.category
           /\ call.target.category \notin {Inline, ClusterMetadataBlocks}
      /\ call.mode # "rebuild" => call.metadata_blocks = <<>>
  BY <1>1 DEF CallInv
<1>3. CASE call.mode = "rebuild"
  BY <1>1, <1>2, <1>3 DEF BuiltInv
<1>4. CASE call.mode = "in_place"
  <2>1. /\ Len(call.units) = call.target.data_units_count
        /\ Apart(call.target.category, call.units, call.metadata_blocks)
        /\ \A u \in DOMAIN call.units \cap DOMAIN call.old_units : call.units[u] = call.old_units[u]
    BY <1>1, <1>4 DEF BuiltInv
  <2>2. Len(call.metadata_blocks) = MetadataBlocksOf(call.target)
    BY <1>2, <1>4, NoUnits DEF MetadataBlocksOf
  <2>. QED
    BY <1>2, <1>4, <2>1, <2>2
<1>5. CASE call.mode = "inline"
  <2>1. call.units = <<>> /\ call.metadata_blocks = <<>>
    BY <1>1, <1>2, <1>5 DEF BuiltInv
  <2>2. Len(call.metadata_blocks) = MetadataBlocksOf(call.target)
    BY <1>2, <1>5, NoUnits DEF MetadataBlocksOf, Inline, ClusterMetadataBlocks
  <2>3. call.target.data_units_count = 0
    BY <1>2, <1>5 DEF IsLayout, BuildLayout, DataUnitsCount
  <2>4. Apart(call.target.category, <<>>, <<>>)
    BY NoUnits DEF Apart
  <2>. QED
    BY <1>2, <1>5, <2>1, <2>2, <2>3, <2>4, NoUnits DEF Inline, ClusterMetadataBlocks
<1>. QED
  BY <1>2, <1>3, <1>4, <1>5

LEMMA CommittedMetadata ==
  ASSUME FileResizeInv, ReplaceMetadata
  PROVE  /\ MetadataInv'
         /\ metadata'.layout = call.target /\ metadata'.metadata_blocks = call.metadata_blocks
         /\ HeldBlocks' = BlocksOf(call.target.category, call.units, call.metadata_blocks)
<1> DEFINE target == call.target
           units == call.units
           blocks == call.metadata_blocks
           count == call.target.data_units_count
<1>1. /\ call.step = "replace_metadata" /\ metadata_disk' = metadata_disk
      /\ metadata' = [layout |-> target, payload |-> call.payload,
                      units |-> IF target.category = ClusterMetadataBlocks THEN <<>> ELSE units,
                      metadata_blocks |-> blocks]
  BY DEF ReplaceMetadata, Replacement
<1>2. /\ DOMAIN metadata' = {"layout", "payload", "units", "metadata_blocks"}
      /\ metadata'.layout = target /\ metadata'.metadata_blocks = blocks
      /\ metadata'.units = IF target.category = ClusterMetadataBlocks THEN <<>> ELSE units
  BY <1>1
<1>3. /\ IsLayout(target) /\ IsUnits(units) /\ blocks \in Seq(AreaBlocks)
      /\ Len(blocks) = MetadataBlocksOf(target) /\ Len(units) = count
      /\ Apart(target.category, units, blocks)
      /\ target.category = ClusterMetadataBlocks =>
           \A u \in DOMAIN units :
             LET items == metadata_disk[BlockOfUnit(blocks, u)]
             IN  SlotOfUnit(u) \in DOMAIN items /\ items[SlotOfUnit(u)] = units[u]
  BY <1>1, BuiltEntry
<1>4. /\ metadata_disk = [b \in AreaBlocks |-> metadata_disk[b]]
      /\ \A b \in AreaBlocks : IsUnits(metadata_disk[b])
  BY <1>1, BeforeCommitFacts
<1>5. IsEntry(metadata')
  BY <1>2, <1>3, NoUnits DEF IsEntry
<1>6. DOMAIN units = 1..count /\ units = [u \in 1..count |-> units[u]]
  BY <1>3, UnitsHaveItems
<1>7. UnitsOf(metadata)' = units
  <2>1. CASE target.category # ClusterMetadataBlocks
    BY <1>2, <2>1 DEF UnitsOf
  <2>2. CASE target.category = ClusterMetadataBlocks
    <3>1. UnitsOf(metadata)' =
            [u \in 1..count |-> metadata_disk[BlockOfUnit(blocks, u)][SlotOfUnit(u)]]
      BY <1>1, <1>2, <2>2 DEF UnitsOf, BlockOfUnit, SlotOfUnit
    <3>2. \A u \in 1..count : metadata_disk[BlockOfUnit(blocks, u)][SlotOfUnit(u)] = units[u]
      BY <1>3, <1>6, <2>2
    <3>. QED
      BY <1>6, <3>1, <3>2
  <2>. QED
    BY <2>1, <2>2
<1>8. MetadataInv'
  BY <1>1, <1>2, <1>3, <1>4, <1>5, <1>6, <1>7 DEF MetadataInv
<1>9. HeldBlocks' = BlocksOf(target.category, units, blocks)
  BY <1>2, <1>7 DEF HeldBlocks
<1>. QED
  BY <1>2, <1>8, <1>9

\* Cutting two lists that agree where both have items, at the shorter's end.
LEMMA CommonPrefix ==
  ASSUME NEW s, IsUnits(s), NEW t, IsUnits(t), NEW k \in Nat,
         k <= Len(s), k <= Len(t),
         \A u \in DOMAIN s \cap DOMAIN t : s[u] = t[u]
  PROVE  SubSeq(s, 1, k) = SubSeq(t, 1, k)
<1>1. /\ DOMAIN s = 1..Len(s) /\ DOMAIN t = 1..Len(t) /\ Len(s) \in Nat /\ Len(t) \in Nat
  BY UnitsHaveItems
<1>2. \A u \in 1..k : s[u] = t[u]
  BY <1>1
<1>3. /\ IsUnits(SubSeq(s, 1, k)) /\ Len(SubSeq(s, 1, k)) = IF 1 <= k THEN k - 1 + 1 ELSE 0
      /\ \A u \in 1..(k - 1 + 1) : SubSeq(s, 1, k)[u] = s[1 + u - 1]
  BY SubSeqOfUnits
<1>4. /\ IsUnits(SubSeq(t, 1, k)) /\ Len(SubSeq(t, 1, k)) = IF 1 <= k THEN k - 1 + 1 ELSE 0
      /\ \A u \in 1..(k - 1 + 1) : SubSeq(t, 1, k)[u] = t[1 + u - 1]
  BY SubSeqOfUnits
<1> DEFINE a == SubSeq(s, 1, k)
           b == SubSeq(t, 1, k)
<1>5. a = [u \in 1..Len(a) |-> a[u]] /\ b = [u \in 1..Len(b) |-> b[u]]
  BY <1>3, <1>4, UnitsHaveItems
<1>. HIDE DEF a, b
<1>6. Len(a) = k /\ Len(b) = k
  BY <1>3, <1>4 DEF a, b
<1>7. \A u \in 1..k : a[u] = b[u]
  BY <1>2, <1>3, <1>4 DEF a, b
<1>. QED
  BY <1>5, <1>6, <1>7 DEF a, b
\* What a resize in place keeps, adds and drops.
Agree(s, t) == \A u \in DOMAIN s \cap DOMAIN t : s[u] = t[u]
Kept(old_units, units) == SubSeq(old_units, 1, LesserOf(Len(old_units), Len(units)))
Beyond(s, t) == SubSeq(t, Len(s) + 1, Len(t))

LEMMA InPlaceParts ==
  ASSUME NEW category, NEW old_units, IsUnits(old_units), NEW units, IsUnits(units),
         Agree(units, old_units), Apart(category, old_units, <<>>)
  PROVE  /\ BlocksOf(category, units, <<>>) =
              BlocksOf(category, Kept(old_units, units), <<>>)
                \cup BlocksOf(category, Beyond(old_units, units), <<>>)
         /\ BlocksOf(category, old_units, <<>>) =
              BlocksOf(category, Kept(old_units, units), <<>>)
                \cup BlocksOf(category, Beyond(units, old_units), <<>>)
         /\ BlocksOf(category, Kept(old_units, units), <<>>)
              \cap BlocksOf(category, Beyond(units, old_units), <<>>) = {}
<1> DEFINE m == Len(old_units)
           t == Len(units)
           k == LesserOf(m, t)
           added == Beyond(old_units, units)
           dropped == Beyond(units, old_units)
           kept == BlocksOf(category, Kept(old_units, units), <<>>)
<1>1. m \in Nat /\ t \in Nat
  BY UnitsHaveItems
<1>0. /\ added = SubSeq(units, m + 1, t) /\ dropped = SubSeq(old_units, t + 1, m)
      /\ kept = BlocksOf(category, SubSeq(old_units, 1, k), <<>>)
  BY DEF Beyond, Kept
<1>2. k \in 0..m /\ k \in 0..t /\ k = IF m <= t THEN m ELSE t
  BY <1>1 DEF LesserOf
<1>3. SubSeq(old_units, 1, k) = SubSeq(units, 1, k)
  <2>1. k \in Nat /\ k <= Len(units) /\ k <= Len(old_units)
    BY <1>1, <1>2
  <2>. HIDE DEF k
  <2>. QED
    BY <2>1, CommonPrefix DEF Agree
<1>4. /\ BlocksOf(category, units, <<>>) = kept \cup BlocksOf(category, SubSeq(units, k + 1, t), <<>>)
      /\ BlocksOf(category, old_units, <<>>)
           = kept \cup BlocksOf(category, SubSeq(old_units, k + 1, m), <<>>)
      /\ kept \cap BlocksOf(category, SubSeq(old_units, k + 1, m), <<>>) = {}
  <2>1. k \in 0..Len(units) /\ k \in 0..Len(old_units)
    BY <1>2
  <2>. HIDE DEF k
  <2>2. BlocksOf(category, units, <<>>) =
          BlocksOf(category, SubSeq(units, 1, k), <<>>)
            \cup BlocksOf(category, SubSeq(units, k + 1, t), <<>>)
    BY <2>1, BlocksOfCut
  <2>3. /\ BlocksOf(category, old_units, <<>>)
             = kept \cup BlocksOf(category, SubSeq(old_units, k + 1, m), <<>>)
        /\ kept \cap BlocksOf(category, SubSeq(old_units, k + 1, m), <<>>) = {}
    BY <1>0, <2>1, BlocksOfCut
  <2>. QED
    BY <1>0, <1>3, <2>2, <2>3
<1>. HIDE DEF k, m, t
<1>5. SubSeq(units, k + 1, t) = added /\ SubSeq(old_units, k + 1, m) = dropped
  <2>1. CASE m <= t
    <3>1. k = m
      BY <1>2, <2>1
    <3>2. SubSeq(old_units, m + 1, m) = <<>>
      BY <1>1, SubSeqEmpty
    <3>3. CASE m = t
      BY <1>0, <3>1, <3>3
    <3>4. CASE m < t
      <4>1. SubSeq(old_units, t + 1, m) = <<>>
        BY <1>1, <3>4, SubSeqEmpty
      <4>. QED
        BY <1>0, <3>1, <3>2, <4>1
    <3>5. m = t \/ m < t
      BY <1>1, <2>1
    <3>. QED
      BY <3>3, <3>4, <3>5
  <2>2. CASE t < m
    <3>1. k = t
      BY <1>1, <1>2, <2>2
    <3>2. SubSeq(units, t + 1, t) = <<>> /\ SubSeq(units, m + 1, t) = <<>>
      BY <1>1, <2>2, SubSeqEmpty
    <3>. QED
      BY <1>0, <3>1, <3>2
  <2>3. m <= t \/ t < m
    BY <1>1
  <2>. QED
    BY <2>1, <2>2, <2>3
<1>6. /\ BlocksOf(category, units, <<>>) = kept \cup BlocksOf(category, added, <<>>)
      /\ BlocksOf(category, old_units, <<>>) = kept \cup BlocksOf(category, dropped, <<>>)
      /\ kept \cap BlocksOf(category, dropped, <<>>) = {}
  BY <1>4, <1>5
<1>. QED
  BY <1>6

LEMMA ReplaceMetadataPreserves ==
  ASSUME FileResizeInv, ReplaceMetadata
  PROVE  OwnershipStep /\ StructureInv'
<1> DEFINE target == call.target
           units == call.units
           old_units == call.old_units
           blocks == call.metadata_blocks
           old_blocks == call.old.metadata_blocks
           dropped == SubSeq(old_units, target.data_units_count + 1, Len(old_units))
<1>1. /\ call.step = "replace_metadata"
      /\ call' = [call EXCEPT !.step = IF call.mode = "inline" THEN "return" ELSE "detach"]
      /\ free' = free /\ attached' = attached
  BY DEF ReplaceMetadata
<1>2. /\ MetadataInv' /\ metadata'.layout = target /\ metadata'.metadata_blocks = blocks
      /\ HeldBlocks' = BlocksOf(target.category, units, blocks)
  BY CommittedMetadata
<1>3. /\ DOMAIN call = {"step", "mode", "target", "payload", "units", "metadata_blocks", "index",
                        "old", "old_units", "before", "write"}
      /\ call.mode \in {"inline", "in_place", "rebuild"}
      /\ IsUnits(units) /\ Len(units) = target.data_units_count
      /\ call.mode = "inline" =>
           units = <<>> /\ target.category = Inline /\ call.old.layout.category = Inline
      /\ call.mode = "in_place" =>
           /\ target.category = call.old.layout.category
           /\ target.category \notin {Inline, ClusterMetadataBlocks}
           /\ \A u \in DOMAIN units \cap DOMAIN old_units : units[u] = old_units[u]
      /\ call.mode # "rebuild" => blocks = <<>>
  BY <1>1, BuiltEntry
<1>4. /\ MetadataInv /\ IsEntry(metadata) /\ IsUnits(UnitsOf(metadata))
      /\ call.old = metadata /\ old_units = UnitsOf(metadata)
      /\ UncommittedBlocks = PendingBlocks /\ RetiredBlocks = {}
      /\ HeldBlocks \cap PendingBlocks = {}
      /\ CallInv /\ CacheInv /\ Resizing /\ ~Committed
  BY <1>1, BeforeCommitFacts
<1>5. HeldBlocks = BlocksOf(call.old.layout.category, old_units, old_blocks)
  BY <1>4 DEF HeldBlocks
<1>6. /\ DOMAIN call' = DOMAIN call
      /\ call'.step = IF call.mode = "inline" THEN "return" ELSE "detach"
      /\ call'.mode = call.mode /\ call'.target = target /\ call'.units = units
      /\ call'.metadata_blocks = blocks
      /\ call'.old = call.old /\ call'.old_units = old_units /\ call'.index = call.index
  BY <1>1, <1>3
<1>7. Resizing' /\ Committed'
  BY <1>6 DEF Resizing, Committed
<1>8. UncommittedBlocks' = {}
  BY <1>7 DEF UncommittedBlocks
<1>9. CallInv'
  BY <1>3, <1>4, <1>6, <1>7 DEF CallInv, StepsOf
<1>10. BeforeCommitInv' /\ BuiltInv'
  BY <1>3, <1>6, <1>7 DEF BeforeCommitInv, BuiltInv
<1>11. CacheInv'
  <2>1. OldDataBlocks' = OldDataBlocks
    BY <1>6 DEF OldDataBlocks
  <2>. QED
    BY <1>1, <1>3, <1>4, <1>6, <1>7, <2>1 DEF CacheInv
<1>12. RetiredBlocks' = IF call.mode = "inline" THEN {} ELSE HeldBlocks \ HeldBlocks'
  <2>1. BlocksOf(call.old.layout.category, old_units, <<>>) \cup ToSet(old_blocks) = HeldBlocks
    BY <1>5, BlocksOfParts
  <2>2. ASSUME call.mode # "inline"
        PROVE  RetiredBlocks' =
          (BlocksOf(call.old.layout.category, old_units, <<>>) \cup ToSet(old_blocks)) \ HeldBlocks'
    BY <1>6, <2>2 DEF RetiredBlocks
  <2>3. ASSUME call.mode = "inline" PROVE RetiredBlocks' = {}
    BY <1>6, <2>3 DEF RetiredBlocks
  <2>. QED
    BY <2>1, <2>2, <2>3
<1>13. /\ OwnershipStep
       /\ call.mode = "in_place" =>
            RetiredBlocks' = BlocksOf(target.category, dropped, <<>>)
       /\ call.mode = "rebuild" => HeldBlocks \cap HeldBlocks' = {}
  <2>. HIDE DEF target, units, old_units, blocks, old_blocks, dropped
  <2>1. CASE call.mode = "inline"
    <3>1. old_units = <<>> /\ old_blocks = <<>>
      BY <1>3, <1>4, <2>1, EntryFacts
      DEF UnitsOf, Inline, ClusterMetadataBlocks, old_blocks
    <3>2. HeldBlocks = {} /\ HeldBlocks' = {}
      BY <1>2, <1>3, <1>5, <2>1, <3>1, NoBlocks
    <3>3. UncommittedBlocks = {}
      BY <1>3, <1>4, <2>1, NoBlocks DEF PendingBlocks, NewUnitsOfCall, units, blocks
    <3>. QED
      BY <1>1, <1>4, <1>8, <1>12, <2>1, <3>2, <3>3, CommitStep
  <2>2. CASE call.mode = "in_place"
    <3> DEFINE added == Beyond(old_units, units)
               kept == BlocksOf(target.category, Kept(old_units, units), <<>>)
    <3>1. old_blocks = <<>> /\ blocks = <<>>
      BY <1>3, <1>4, <2>2, EntryFacts DEF old_blocks
    <3>2. HeldBlocks = BlocksOf(target.category, old_units, <<>>)
      BY <1>3, <1>5, <2>2, <3>1
    <3>3. Apart(target.category, old_units, <<>>)
      BY <1>3, <1>4, <2>2, ApartOfUnits DEF MetadataInv
    <3>4. PendingBlocks = BlocksOf(target.category, added, <<>>)
      BY <2>2, <3>1 DEF PendingBlocks, NewUnitsOfCall, Beyond, target, units, old_units, blocks
    <3>5. dropped = Beyond(units, old_units)
      BY <1>3 DEF dropped, Beyond
    <3>6. /\ BlocksOf(target.category, units, <<>>) = kept \cup BlocksOf(target.category, added, <<>>)
          /\ BlocksOf(target.category, old_units, <<>>)
               = kept \cup BlocksOf(target.category, dropped, <<>>)
          /\ kept \cap BlocksOf(target.category, dropped, <<>>) = {}
      <4>1. IsUnits(units) /\ IsUnits(old_units) /\ Agree(units, old_units)
        BY <1>3, <1>4, <2>2 DEF Agree
      <4>. QED
        BY ONLY <3>3, <3>5, <4>1, InPlaceParts
    <3>. HIDE DEF kept, added
    <3>7. HeldBlocks' = kept \cup UncommittedBlocks
      BY <1>2, <1>4, <3>1, <3>4, <3>6
    <3>8. RetiredBlocks' = HeldBlocks \ kept
      BY <1>4, <1>12, <2>2, <3>2, <3>6, <3>7
    <3>9. OwnershipStep
      BY <1>1, <1>4, <1>8, <3>2, <3>6, <3>7, <3>8, CommitStep
    <3>10. RetiredBlocks' = BlocksOf(target.category, dropped, <<>>)
      BY <3>2, <3>6, <3>8
    <3>. QED
      BY <2>2, <3>9, <3>10
  <2>3. CASE call.mode = "rebuild"
    <3>1. PendingBlocks = HeldBlocks'
      BY <1>2, <2>3 DEF PendingBlocks, NewUnitsOfCall, target, units, blocks
    <3>2. HeldBlocks \cap HeldBlocks' = {}
      BY <1>4, <3>1
    <3>3. RetiredBlocks' = HeldBlocks
      BY <1>12, <2>3, <3>2
    <3>4. OwnershipStep
      BY <1>1, <1>4, <1>8, <3>1, <3>3, CommitStep
    <3>. QED
      BY <2>3, <3>2, <3>4
  <2>. QED
    BY <1>3, <2>1, <2>2, <2>3
<1>14. RetiredInv'
  <2>1. BlocksOf(call.old.layout.category, old_units, <<>>) \cap ToSet(old_blocks) = {}
    BY <1>4, ApartOfUnits DEF MetadataInv
  <2>. QED
    BY <1>2, <1>3, <1>5, <1>6, <1>13, <2>1 DEF RetiredInv
<1>. QED
  BY <1>2, <1>9, <1>10, <1>11, <1>13, <1>14 DEF StructureInv
-----------------------------------------------------------------------------
(* After the commit.                                                       *)

LEMMA AfterCommitFacts ==
  ASSUME FileResizeInv,
         call.step \in {"detach", "resize_changed", "free_units", "free_metadata_blocks", "return"}
  PROVE  /\ Resizing /\ Committed
         /\ MetadataInv /\ \A b \in AreaBlocks : IsUnits(metadata_disk[b])
         /\ metadata_disk = [b \in AreaBlocks |-> metadata_disk[b]]
         /\ UncommittedBlocks = {}
         /\ free \cap RetiredBlocks = {} /\ HeldBlocks \cap RetiredBlocks = {}
         /\ CallInv /\ RetiredInv /\ CacheInv
         /\ DOMAIN call = {"step", "mode", "target", "payload", "units", "metadata_blocks", "index",
                           "old", "old_units", "before", "write"}
         /\ call.mode \in {"inline", "in_place", "rebuild"} /\ call.step \in StepsOf(call.mode)
         /\ call.index \in Nat
         /\ call.mode = "in_place" =>
              call.target.category = call.old.layout.category
              /\ call.target.category \notin {Inline, ClusterMetadataBlocks}
         /\ call.mode = "inline" => call.units = <<>> /\ call.metadata_blocks = <<>>
         /\ call.target = metadata.layout /\ call.metadata_blocks = metadata.metadata_blocks
<1>1. Resizing /\ Committed
  BY DEF Resizing, Committed
<1>2. /\ MetadataInv /\ \A b \in AreaBlocks : IsUnits(metadata_disk[b])
      /\ metadata_disk = [b \in AreaBlocks |-> metadata_disk[b]]
      /\ CallInv /\ BuiltInv /\ RetiredInv /\ CacheInv
  BY DEF FileResizeInv, StructureInv, MetadataInv
<1>3. UncommittedBlocks = {}
  BY <1>1 DEF UncommittedBlocks
<1>4. free \cap RetiredBlocks = {} /\ HeldBlocks \cap RetiredBlocks = {}
  BY OneFileOwnership DEF FileResizeInv
<1>5. /\ DOMAIN call = {"step", "mode", "target", "payload", "units", "metadata_blocks", "index",
                        "old", "old_units", "before", "write"}
      /\ call.mode \in {"inline", "in_place", "rebuild"} /\ call.step \in StepsOf(call.mode)
      /\ call.index \in Nat
      /\ call.mode = "in_place" =>
           call.target.category = call.old.layout.category
           /\ call.target.category \notin {Inline, ClusterMetadataBlocks}
  BY <1>1, <1>2 DEF CallInv
<1>6. call.mode = "inline" => call.units = <<>> /\ call.metadata_blocks = <<>>
  BY <1>1, <1>2 DEF BuiltInv
<1>7. call.target = metadata.layout /\ call.metadata_blocks = metadata.metadata_blocks
  BY <1>1, <1>2 DEF RetiredInv
<1>. QED
  BY <1>1, <1>2, <1>3, <1>4, <1>5, <1>6, <1>7

\* A step after the commit that only moves the call on.
LEMMA StillAfterCommit ==
  ASSUME FileResizeInv,
         call.step \in {"detach", "resize_changed", "free_units", "free_metadata_blocks"},
         call'.step \in {"resize_changed", "free_units", "free_metadata_blocks", "return"},
         call'.step \in StepsOf(call.mode),
         NEW index \in Nat, call' = [call EXCEPT !.step = call'.step, !.index = index],
         metadata'.layout = metadata.layout,
         metadata'.metadata_blocks = metadata.metadata_blocks
  PROVE  /\ call'.target = call.target /\ call'.mode = call.mode
         /\ call'.old = call.old /\ call'.old_units = call.old_units
         /\ Resizing' /\ Committed' /\ UncommittedBlocks' = {}
         /\ CallInv' /\ BeforeCommitInv' /\ BuiltInv'
         /\ (Committed /\ Resizing => /\ call.target = metadata.layout
                                      /\ call.metadata_blocks = metadata.metadata_blocks)'
<1>1. /\ DOMAIN call = {"step", "mode", "target", "payload", "units", "metadata_blocks", "index",
                        "old", "old_units", "before", "write"}
      /\ call.mode = "inline" => call.units = <<>> /\ call.metadata_blocks = <<>>
      /\ call.target = metadata.layout /\ call.metadata_blocks = metadata.metadata_blocks
      /\ CallInv /\ Resizing
      /\ call.step \in StepsOf(call.mode)
  BY AfterCommitFacts
<1>2. /\ DOMAIN call' = DOMAIN call
      /\ call'.target = call.target /\ call'.mode = call.mode
      /\ call'.old = call.old /\ call'.old_units = call.old_units
      /\ call'.units = call.units /\ call'.metadata_blocks = call.metadata_blocks
      /\ call'.index = index
  BY <1>1
<1>3. Resizing' /\ Committed'
  BY DEF Resizing, Committed
<1>4. UncommittedBlocks' = {}
  BY <1>3 DEF UncommittedBlocks
<1>5. CallInv'
  BY <1>1, <1>2, <1>3 DEF CallInv
<1>6. BeforeCommitInv' /\ BuiltInv'
  BY <1>1, <1>2, <1>3 DEF BeforeCommitInv, BuiltInv
<1>. QED
  BY <1>1, <1>2, <1>3, <1>4, <1>5, <1>6

LEMMA DetachOldBlocksPreserves ==
  ASSUME FileResizeInv, DetachOldBlocks
  PROVE  OwnershipStep /\ StructureInv'
<1>1. /\ call.step = "detach"
      /\ attached' = attached \ (OldDataBlocks \cup ToSet(call.old.metadata_blocks))
      /\ call' = [call EXCEPT !.step = IF call.mode = "rebuild" THEN "free_units" ELSE "resize_changed"]
      /\ metadata' = metadata /\ metadata_disk' = metadata_disk /\ free' = free
  BY DEF DetachOldBlocks
<1>2. /\ MetadataInv /\ \A b \in AreaBlocks : IsUnits(metadata_disk[b])
      /\ metadata_disk = [b \in AreaBlocks |-> metadata_disk[b]]
      /\ UncommittedBlocks = {} /\ RetiredInv /\ CacheInv /\ Resizing /\ Committed
      /\ DOMAIN call = {"step", "mode", "target", "payload", "units", "metadata_blocks", "index",
                        "old", "old_units", "before", "write"}
      /\ call.mode \in {"inline", "in_place", "rebuild"} /\ call.step \in StepsOf(call.mode)
      /\ call.index \in Nat
  BY <1>1, AfterCommitFacts
<1>3. call.mode \in {"in_place", "rebuild"}
  BY <1>1, <1>2 DEF StepsOf
<1>4. /\ call'.step = IF call.mode = "rebuild" THEN "free_units" ELSE "resize_changed"
      /\ call'.metadata_blocks = call.metadata_blocks
      /\ call' = [call EXCEPT !.step = call'.step, !.index = call.index]
  BY <1>1, <1>2
<1>5. call'.step \in StepsOf(call.mode)
  BY <1>3, <1>4 DEF StepsOf
<1>6. MetadataInv' /\ HeldBlocks' = HeldBlocks
  BY <1>1, <1>2, MetadataKept
<1>7. /\ call'.target = call.target /\ call'.mode = call.mode
      /\ call'.old = call.old /\ call'.old_units = call.old_units
      /\ Resizing' /\ Committed' /\ UncommittedBlocks' = {}
      /\ CallInv' /\ BeforeCommitInv' /\ BuiltInv'
      /\ (Committed /\ Resizing => /\ call.target = metadata.layout
                                   /\ call.metadata_blocks = metadata.metadata_blocks)'
  BY <1>1, <1>2, <1>4, <1>5, StillAfterCommit
<1>8. RetiredBlocks' = RetiredBlocks
  BY <1>1, <1>4, <1>6, <1>7 DEF RetiredBlocks
<1>9. OwnershipStep
  BY <1>1, <1>2, <1>6, <1>7, <1>8, StutteringStep DEF Stuttering
<1>10. RetiredInv'
  BY <1>1, <1>2, <1>3, <1>4, <1>6, <1>7, <1>8 DEF RetiredInv
<1>11. CacheInv'
  BY <1>1, <1>2, <1>4, <1>7 DEF CacheInv
<1>. QED
  BY <1>6, <1>7, <1>9, <1>10, <1>11 DEF StructureInv

LEMMA ResizeChangedDataBlockPreserves ==
  ASSUME FileResizeInv, ResizeChangedDataBlock
  PROVE  OwnershipStep /\ StructureInv'
<1> DEFINE category == call.target.category
<1>1. PICK data :
        /\ \/ metadata' = metadata
           \/ metadata' = [metadata EXCEPT !.units = WithHash(category, @, call.index, data)]
        /\ call' = [call EXCEPT !.index = @ + 1]
  BY DEF ResizeChangedDataBlock
<1>2. /\ call.step = "resize_changed"
      /\ metadata_disk' = metadata_disk /\ free' = free /\ attached' = attached
  BY DEF ResizeChangedDataBlock
<1>3. /\ MetadataInv /\ \A b \in AreaBlocks : IsUnits(metadata_disk[b])
      /\ metadata_disk = [b \in AreaBlocks |-> metadata_disk[b]]
      /\ UncommittedBlocks = {} /\ RetiredInv /\ CacheInv /\ Resizing /\ Committed
      /\ DOMAIN call = {"step", "mode", "target", "payload", "units", "metadata_blocks", "index",
                        "old", "old_units", "before", "write"}
      /\ call.mode \in {"inline", "in_place", "rebuild"} /\ call.step \in StepsOf(call.mode)
      /\ call.index \in Nat
      /\ call.target = metadata.layout
      /\ call.mode = "in_place" => call.target.category \notin {Inline, ClusterMetadataBlocks}
  BY <1>2, AfterCommitFacts
<1>4. call.mode = "in_place"
  BY <1>2, <1>3 DEF StepsOf
<1>5. /\ MetadataInv' /\ HeldBlocks' = HeldBlocks
      /\ metadata'.layout = metadata.layout
      /\ metadata'.metadata_blocks = metadata.metadata_blocks
  <2>1. CASE metadata' = metadata
    BY <1>2, <1>3, <2>1, MetadataKept
  <2>2. CASE metadata' = [metadata EXCEPT !.units = WithHash(category, @, call.index, data)]
    BY <1>2, <1>3, <1>4, <2>2, MetadataRehashed
  <2>. QED
    BY <1>1, <2>1, <2>2
<1>6. /\ call'.step = "resize_changed" /\ call.index + 1 \in Nat
      /\ call' = [call EXCEPT !.step = call'.step, !.index = call.index + 1]
  <2>1. PICK next \in Nat : next = call.index + 1
    BY <1>3
  <2>2. call' = [call EXCEPT !.index = next]
    BY <1>1, <2>1
  <2>3. call'.step = "resize_changed" /\ call' = [call EXCEPT !.step = call'.step, !.index = next]
    BY <1>2, <1>3, <2>2
  <2>. QED
    BY <2>1, <2>3
<1>7. /\ call'.target = call.target /\ call'.mode = call.mode
      /\ call'.old = call.old /\ call'.old_units = call.old_units
      /\ Resizing' /\ Committed' /\ UncommittedBlocks' = {}
      /\ CallInv' /\ BeforeCommitInv' /\ BuiltInv'
      /\ (Committed /\ Resizing => /\ call.target = metadata.layout
                                   /\ call.metadata_blocks = metadata.metadata_blocks)'
  BY <1>2, <1>3, <1>5, <1>6, StillAfterCommit
<1>8. RetiredBlocks' = RetiredBlocks
  BY <1>2, <1>5, <1>6, <1>7 DEF RetiredBlocks
<1>9. OwnershipStep
  BY <1>2, <1>3, <1>5, <1>7, <1>8, StutteringStep DEF Stuttering
<1>10. RetiredInv'
  BY <1>2, <1>3, <1>4, <1>6, <1>7, <1>8 DEF RetiredInv
<1>11. CacheInv'
  BY <1>2, <1>3, <1>4, <1>7 DEF CacheInv
<1>. QED
  BY <1>5, <1>7, <1>9, <1>10, <1>11 DEF StructureInv
\* Giving back blocks that are retired, whichever they are.
LEMMA GiveBackStep ==
  ASSUME FileResizeInv,
         call.step \in {"resize_changed", "free_units", "free_metadata_blocks"},
         NEW blocks \in SUBSET RetiredBlocks, GiveBack(blocks)
  PROVE  /\ MetadataInv' /\ HeldBlocks' = HeldBlocks
         /\ free' = free \cup blocks /\ free \cap RetiredBlocks = {}
         /\ metadata' = metadata /\ attached' = attached
<1>1. /\ MetadataInv /\ free \cap RetiredBlocks = {} /\ blocks \cap HeldBlocks = {}
  BY AfterCommitFacts
<1>2. /\ free' = free \cup blocks /\ metadata_disk' = ErasedMetadata(blocks)
      /\ metadata' = metadata /\ attached' = attached
  BY DEF GiveBack
<1>. QED
  BY <1>1, <1>2, ErasedKeeps

LEMMA FreeRemovedDataUnitsPreserves ==
  ASSUME FileResizeInv, FreeRemovedDataUnits
  PROVE  OwnershipStep /\ StructureInv'
<1> DEFINE blocks == BlocksOf(call.target.category,
                              SubSeq(call.old_units, call.target.data_units_count + 1,
                                     Len(call.old_units)), <<>>)
<1>1. /\ call.step = "resize_changed" /\ GiveBack(blocks)
      /\ call' = [call EXCEPT !.step = "return"]
  BY DEF FreeRemovedDataUnits
<1>2. /\ UncommittedBlocks = {} /\ RetiredInv /\ CacheInv /\ Resizing /\ Committed
      /\ DOMAIN call = {"step", "mode", "target", "payload", "units", "metadata_blocks", "index",
                        "old", "old_units", "before", "write"}
      /\ call.mode \in {"inline", "in_place", "rebuild"} /\ call.step \in StepsOf(call.mode)
      /\ call.index \in Nat
  BY <1>1, AfterCommitFacts
<1>3. call.mode = "in_place"
  BY <1>1, <1>2 DEF StepsOf
<1>4. blocks = RetiredBlocks
  BY <1>1, <1>2, <1>3 DEF RetiredInv
<1>. HIDE DEF blocks
<1>5. /\ MetadataInv' /\ HeldBlocks' = HeldBlocks
      /\ free' = free \cup blocks /\ free \cap RetiredBlocks = {}
      /\ metadata' = metadata /\ attached' = attached
  BY <1>1, <1>4, GiveBackStep
<1>6. /\ call'.step = "return"
      /\ call' = [call EXCEPT !.step = call'.step, !.index = call.index]
  BY <1>1, <1>2
<1>7. /\ call'.target = call.target /\ call'.mode = call.mode
      /\ Resizing' /\ Committed' /\ UncommittedBlocks' = {}
      /\ CallInv' /\ BeforeCommitInv' /\ BuiltInv'
      /\ (Committed /\ Resizing => /\ call.target = metadata.layout
                                   /\ call.metadata_blocks = metadata.metadata_blocks)'
  BY <1>1, <1>2, <1>3, <1>5, <1>6, StillAfterCommit DEF StepsOf
<1>8. RetiredBlocks' = {}
  BY <1>6 DEF RetiredBlocks
<1>9. OwnershipStep
  BY <1>2, <1>4, <1>5, <1>7, <1>8, ReleaseStep
<1>10. RetiredInv' /\ CacheInv'
  BY <1>2, <1>3, <1>5, <1>6, <1>7 DEF RetiredInv, CacheInv
<1>. QED
  BY <1>5, <1>7, <1>9, <1>10 DEF StructureInv

LEMMA FreeOldDataUnitsPreserves ==
  ASSUME FileResizeInv, FreeOldDataUnits
  PROVE  OwnershipStep /\ StructureInv'
<1> DEFINE blocks == BlocksOf(call.old.layout.category, call.old_units, <<>>)
<1>1. /\ call.step = "free_units" /\ GiveBack(blocks)
      /\ call' = [call EXCEPT !.step = "free_metadata_blocks"]
  BY DEF FreeOldDataUnits
<1>2. /\ UncommittedBlocks = {} /\ RetiredInv /\ CacheInv /\ Resizing /\ Committed
      /\ DOMAIN call = {"step", "mode", "target", "payload", "units", "metadata_blocks", "index",
                        "old", "old_units", "before", "write"}
      /\ call.mode \in {"inline", "in_place", "rebuild"} /\ call.step \in StepsOf(call.mode)
      /\ call.index \in Nat
  BY <1>1, AfterCommitFacts
<1>3. call.mode = "rebuild"
  BY <1>1, <1>2 DEF StepsOf
<1>4. /\ BlocksOf(call.old.layout.category, call.old_units, call.old.metadata_blocks)
           \cap HeldBlocks = {}
      /\ blocks \cap ToSet(call.old.metadata_blocks) = {}
  BY <1>1, <1>2, <1>3 DEF RetiredInv
<1>5. RetiredBlocks = blocks \cup ToSet(call.old.metadata_blocks)
  <2>1. RetiredBlocks = (blocks \cup ToSet(call.old.metadata_blocks)) \ HeldBlocks
    BY <1>1 DEF RetiredBlocks
  <2>. HIDE DEF blocks
  <2>2. BlocksOf(call.old.layout.category, call.old_units, call.old.metadata_blocks)
          = blocks \cup ToSet(call.old.metadata_blocks)
    BY BlocksOfParts DEF blocks
  <2>. QED
    BY <1>4, <2>1, <2>2
<1>. HIDE DEF blocks
<1>6. /\ MetadataInv' /\ HeldBlocks' = HeldBlocks
      /\ free' = free \cup blocks /\ free \cap RetiredBlocks = {}
      /\ metadata' = metadata /\ attached' = attached
  BY <1>1, <1>5, GiveBackStep
<1>7. /\ call'.step = "free_metadata_blocks" /\ call'.metadata_blocks = call.metadata_blocks
      /\ call' = [call EXCEPT !.step = call'.step, !.index = call.index]
  BY <1>1, <1>2
<1>8. /\ call'.target = call.target /\ call'.mode = call.mode /\ call'.old = call.old
      /\ Resizing' /\ Committed' /\ UncommittedBlocks' = {}
      /\ CallInv' /\ BeforeCommitInv' /\ BuiltInv'
      /\ (Committed /\ Resizing => /\ call.target = metadata.layout
                                   /\ call.metadata_blocks = metadata.metadata_blocks)'
  BY <1>1, <1>2, <1>3, <1>6, <1>7, StillAfterCommit DEF StepsOf
<1>9. RetiredBlocks' = RetiredBlocks \ blocks
  BY <1>4, <1>5, <1>7, <1>8 DEF RetiredBlocks
<1>10. OwnershipStep
  BY <1>2, <1>5, <1>6, <1>8, <1>9, ReleaseStep
<1>11. RetiredInv' /\ CacheInv'
  BY <1>1, <1>2, <1>3, <1>6, <1>7, <1>8 DEF RetiredInv, CacheInv
<1>. QED
  BY <1>6, <1>8, <1>10, <1>11 DEF StructureInv

LEMMA FreeOldMetadataBlocksPreserves ==
  ASSUME FileResizeInv, FreeOldMetadataBlocks
  PROVE  OwnershipStep /\ StructureInv'
<1> DEFINE blocks == ToSet(call.old.metadata_blocks)
<1>1. /\ call.step = "free_metadata_blocks" /\ GiveBack(blocks)
      /\ call' = [call EXCEPT !.step = "return"]
  BY DEF FreeOldMetadataBlocks
<1>2. /\ UncommittedBlocks = {} /\ CacheInv /\ Resizing /\ Committed
      /\ DOMAIN call = {"step", "mode", "target", "payload", "units", "metadata_blocks", "index",
                        "old", "old_units", "before", "write"}
      /\ call.mode \in {"inline", "in_place", "rebuild"} /\ call.step \in StepsOf(call.mode)
      /\ call.index \in Nat
  BY <1>1, AfterCommitFacts
<1>3. call.mode = "rebuild"
  BY <1>1, <1>2 DEF StepsOf
<1>4. RetiredBlocks = blocks
  BY <1>1 DEF RetiredBlocks
<1>. HIDE DEF blocks
<1>5. /\ MetadataInv' /\ HeldBlocks' = HeldBlocks
      /\ free' = free \cup blocks /\ free \cap RetiredBlocks = {}
      /\ metadata' = metadata /\ attached' = attached
  BY <1>1, <1>4, GiveBackStep
<1>6. /\ call'.step = "return" /\ call'.metadata_blocks = call.metadata_blocks
      /\ call' = [call EXCEPT !.step = call'.step, !.index = call.index]
  BY <1>1, <1>2
<1>7. /\ call'.target = call.target /\ call'.mode = call.mode
      /\ Resizing' /\ Committed' /\ UncommittedBlocks' = {}
      /\ CallInv' /\ BeforeCommitInv' /\ BuiltInv'
      /\ (Committed /\ Resizing => /\ call.target = metadata.layout
                                   /\ call.metadata_blocks = metadata.metadata_blocks)'
  BY <1>1, <1>2, <1>3, <1>5, <1>6, StillAfterCommit DEF StepsOf
<1>8. RetiredBlocks' = {}
  BY <1>6 DEF RetiredBlocks
<1>9. OwnershipStep
  BY <1>2, <1>4, <1>5, <1>7, <1>8, ReleaseStep
<1>10. RetiredInv' /\ CacheInv'
  BY <1>1, <1>2, <1>3, <1>5, <1>6, <1>7 DEF RetiredInv, CacheInv
<1>. QED
  BY <1>5, <1>7, <1>9, <1>10 DEF StructureInv

LEMMA ReturnPreserves ==
  ASSUME FileResizeInv, Return
  PROVE  OwnershipStep /\ StructureInv'
<1>1. /\ call.step = "return" /\ attached' = {}
      /\ metadata' = metadata /\ metadata_disk' = metadata_disk /\ free' = free
  BY DEF Return
<1>2. \/ call'.step = "idle" /\ DOMAIN call' = {"step"}
      \/ call'.step = "write" /\ DOMAIN call' = {"step", "before", "write"}
  BY DEF Return, Idle
<1>3. /\ MetadataInv /\ \A b \in AreaBlocks : IsUnits(metadata_disk[b])
      /\ metadata_disk = [b \in AreaBlocks |-> metadata_disk[b]]
      /\ UncommittedBlocks = {}
  BY <1>1, AfterCommitFacts
<1>4. MetadataInv' /\ HeldBlocks' = HeldBlocks
  BY <1>1, <1>3, MetadataKept
<1>5. RetiredBlocks = {} /\ RetiredBlocks' = {} /\ UncommittedBlocks' = {}
  BY <1>1, <1>2 DEF RetiredBlocks, UncommittedBlocks, Committed
<1>6. OwnershipStep
  BY <1>1, <1>3, <1>4, <1>5, StutteringStep DEF Stuttering
<1>7. CallInv' /\ BeforeCommitInv' /\ BuiltInv' /\ RetiredInv' /\ CacheInv'
  BY <1>1, <1>2 DEF CallInv, BeforeCommitInv, BuiltInv, RetiredInv, CacheInv, Resizing
<1>. QED
  BY <1>4, <1>6, <1>7 DEF StructureInv

\* What a call that only writes starts from.
LEMMA WritingFacts ==
  ASSUME FileResizeInv, call.step = "write"
  PROVE  /\ ~Resizing /\ MetadataInv /\ IsEntry(metadata) /\ attached = {}
         /\ DOMAIN call = {"step", "before", "write"}
<1>1. ~Resizing
  BY DEF Resizing
<1>. QED
  BY <1>1 DEF FileResizeInv, StructureInv, MetadataInv, CallInv, CacheInv

LEMMA WriteInlinePreserves ==
  ASSUME FileResizeInv, WriteInline
  PROVE  OwnershipStep /\ StructureInv'
<1>1. PICK payload : metadata' = [metadata EXCEPT !.payload = payload]
  BY DEF WriteInline
<1>2. /\ call.step = "write" /\ metadata.layout.category = Inline
      /\ call'.step = "idle" /\ DOMAIN call' = {"step"}
      /\ metadata_disk' = metadata_disk /\ free' = free /\ attached' = attached
  BY DEF WriteInline, Idle
<1>3. /\ ~Resizing /\ MetadataInv /\ IsEntry(metadata) /\ attached = {}
  BY <1>2, WritingFacts
<1>4. /\ DOMAIN metadata' = DOMAIN metadata
      /\ metadata'.layout = metadata.layout /\ metadata'.units = metadata.units
      /\ metadata'.metadata_blocks = metadata.metadata_blocks
  BY <1>1, <1>3 DEF IsEntry
<1>5. UnitsOf(metadata)' = UnitsOf(metadata)
  BY <1>2, <1>4 DEF UnitsOf, Inline, ClusterMetadataBlocks
<1>6. MetadataInv' /\ HeldBlocks' = HeldBlocks
  BY <1>2, <1>3, <1>4, <1>5 DEF MetadataInv, IsEntry, HeldBlocks
<1>. QED
  BY <1>2, <1>3, <1>6, NotResizingPreserves DEF Resizing

LEMMA WriteDataBlockPreserves ==
  ASSUME FileResizeInv, WriteDataBlock
  PROVE  OwnershipStep /\ StructureInv'
<1> DEFINE category == metadata.layout.category
<1>1. PICK index, data, block :
        IF category = ClusterMetadataBlocks
          THEN /\ metadata_disk' = [metadata_disk EXCEPT ![block] = WithHash(category, @, index, data)]
               /\ metadata' = metadata
          ELSE /\ metadata' = [metadata EXCEPT !.units = WithHash(category, @, index, data)]
               /\ metadata_disk' = metadata_disk
  BY DEF WriteDataBlock
<1>2. /\ call.step = "write" /\ free' = free /\ attached' = attached
  BY DEF WriteDataBlock
<1>3. ~Resizing /\ MetadataInv /\ attached = {} /\ DOMAIN call = {"step", "before", "write"}
  BY <1>2, WritingFacts
<1>4. MetadataInv' /\ HeldBlocks' = HeldBlocks
  BY <1>1, <1>3, MetadataRehashed
<1>5. PICK write : call' = [step |-> "idle"] \/ call' = [call EXCEPT !.write = write]
  BY DEF WriteDataBlock, Idle
<1>6. DOMAIN call' = IF call'.step = "idle" THEN {"step"} ELSE {"step", "before", "write"}
  BY <1>2, <1>3, <1>5
<1>7. ~Resizing'
  BY <1>2, <1>3, <1>5 DEF Resizing
<1>. QED
  BY <1>2, <1>3, <1>4, <1>6, <1>7, NotResizingPreserves
-----------------------------------------------------------------------------
(* Every step, and the theorems.                                           *)

LEMMA StepPreserves ==
  ASSUME FileResizeInv, Next
  PROVE  OwnershipStep /\ StructureInv'
<1>1. ASSUME NEW size \in FileSizes, Resize(size) \/ ResizeTooLarge(size)
      PROVE  OwnershipStep /\ StructureInv'
  BY <1>1, ResizePreserves
<1>2. ASSUME NEW write \in WriteExtents, Write(write) \/ WriteTooLarge(write)
      PROVE  OwnershipStep /\ StructureInv'
  BY <1>2, WritePreserves
<1>3. ASSUME Proceed PROVE OwnershipStep /\ StructureInv'
  BY <1>3, AllocateDataUnitsPreserves, NoSpacePreserves, AllocateMetadataBlockPreserves,
     StartCopyPreserves, CopyDataBlockPreserves, FinishCopyPreserves, ReplaceMetadataPreserves,
     DetachOldBlocksPreserves, ResizeChangedDataBlockPreserves, FreeRemovedDataUnitsPreserves,
     FreeOldDataUnitsPreserves, FreeOldMetadataBlocksPreserves, ReturnPreserves,
     WriteInlinePreserves, WriteDataBlockPreserves
  DEF Proceed
<1>. QED
  BY <1>1, <1>2, <1>3 DEF Next

LEMMA UnchangedPreserves ==
  ASSUME FileResizeInv, UNCHANGED vars
  PROVE  OwnershipStep /\ StructureInv'
<1>1. /\ metadata' = metadata /\ disk' = disk /\ metadata_disk' = metadata_disk /\ free' = free
      /\ attached' = attached /\ call' = call /\ outcome' = outcome
  BY DEF vars
<1>2. HeldBlocks' = HeldBlocks
  BY <1>1 DEF HeldBlocks, UnitsOf
<1>3. RetiredBlocks' = RetiredBlocks
  BY <1>1, <1>2 DEF RetiredBlocks
<1>4. UncommittedBlocks' = UncommittedBlocks
  BY <1>1 DEF UncommittedBlocks, Committed, PendingBlocks, NewUnitsOfCall
<1>5. OwnershipStep
  BY <1>1, <1>2, <1>3, <1>4, StutteringStep DEF Stuttering
<1>6. MetadataInv' /\ CallInv' /\ BeforeCommitInv'
  BY <1>1 DEF FileResizeInv, StructureInv, MetadataInv, CallInv, BeforeCommitInv, UnitsOf, Resizing,
              Committed
<1>7. BuiltInv'
  BY <1>1 DEF FileResizeInv, StructureInv, BuiltInv, Resizing
<1>8. RetiredInv' /\ CacheInv'
  BY <1>1, <1>2, <1>3
  DEF FileResizeInv, StructureInv, RetiredInv, CacheInv, Resizing, Committed, OldDataBlocks
<1>. QED
  BY <1>5, <1>6, <1>7, <1>8 DEF StructureInv

LEMMA NextPreservesInv == FileResizeInv /\ [Next]_vars => FileResizeInv' /\ OwnershipStep
<1>. SUFFICES ASSUME FileResizeInv, [Next]_vars
              PROVE  FileResizeInv' /\ OwnershipStep
  OBVIOUS
<1>1. OwnershipStep /\ StructureInv'
  BY StepPreserves, UnchangedPreserves
<1>2. OwnershipProofs!OwnershipInv'
  BY <1>1, StepPreservesOwnership DEF FileResizeInv
<1>. QED
  BY <1>1, <1>2 DEF FileResizeInv

LEMMA InvHolds == Spec => []FileResizeInv
  BY InitEstablishesInv, NextPreservesInv, PTL DEF Spec

\* Whatever the geometry, the area and the calls: when no call is in progress
\* each block is free, another file's or one the metadata leads to, and none
\* is two of these.  No success and no failure of a resize leaks a block.
THEOREM ResizeLeaksNothing == Spec => []NothingLeaks
<1>1. FileResizeInv => NothingLeaks
  <2>. SUFFICES ASSUME FileResizeInv, call.step = "idle"
                PROVE  HeldBlocks \cup free = AreaBlocks \ OtherBlocks /\ HeldBlocks \cap free = {}
    BY DEF NothingLeaks
  <2>1. UncommittedBlocks = {} /\ RetiredBlocks = {}
    BY DEF UncommittedBlocks, RetiredBlocks
  <2>. QED
    BY <2>1, OneFileOwnership DEF FileResizeInv
<1>. QED
  BY <1>1, InvHolds, PTL

\* Blocks change hands in the order BlockOwnership lays down: every step of a
\* resize allocates, rolls back, commits or releases, or leaves all in place.
THEOREM ResizeFollowsOwnership == Spec => FollowsOwnership
<1>1. Init => Ownership!Init
  <2>. SUFFICES ASSUME Init PROVE Ownership!Init
    OBVIOUS
  <2>1. free = AreaBlocks \ OtherBlocks /\ call.step = "idle"
    BY DEF Init, Idle
  <2>2. UncommittedBlocks = {} /\ RetiredBlocks = {}
    BY <2>1 DEF UncommittedBlocks, RetiredBlocks
  <2>3. HeldBlocks = {}
    BY <2>1, InitEstablishesInv, OneFileOwnership DEF FileResizeInv
  <2>. QED
    BY <2>1, <2>2, <2>3 DEF Ownership!Init, Ownership!Disjoint
<1>2. FileResizeInv /\ [Next]_vars =>
        [\/ Ownership!Allocate("file", free \ free')
         \/ Ownership!Rollback("file")
         \/ Ownership!Commit("file", HeldBlocks \cap HeldBlocks')
         \/ Ownership!Release("file", free' \ free)]_Ownership!vars
  BY NextPreservesInv DEF OwnershipStep
<1>. QED
  BY <1>1, <1>2, InvHolds, PTL DEF Spec, FollowsOwnership

\* Every block in the device's cache has an owner other than the allocator: the
\* next owner of a freed number never meets an object left behind.
THEOREM CacheHoldsNoFreeBlock == Spec => []CachedBlocksOwned
<1>1. ASSUME FileResizeInv PROVE CachedBlocksOwned
  <2>1. /\ CallInv /\ CacheInv /\ BeforeCommitInv /\ RetiredInv
        /\ free \cap HeldBlocks = {} /\ free \cap UncommittedBlocks = {}
        /\ free \cap RetiredBlocks = {}
    BY <1>1, OneFileOwnership DEF FileResizeInv, StructureInv
  <2>2. ToSet(metadata.metadata_blocks) \subseteq HeldBlocks
    BY BlocksOfParts DEF HeldBlocks
  <2>3. CASE ~(Resizing /\ call.mode = "rebuild" /\ call.step # "alloc_data_units")
    BY <2>1, <2>3 DEF CacheInv, CachedBlocksOwned
  <2>4. CASE Resizing /\ call.mode = "rebuild" /\ call.step # "alloc_data_units"
    <3>1. ToSet(call.metadata_blocks) \subseteq HeldBlocks \cup UncommittedBlocks
      <4>1. CASE Committed
        BY <2>1, <2>2, <2>4, <4>1 DEF RetiredInv
      <4>2. CASE ~Committed
        <5>1. UncommittedBlocks = PendingBlocks
          BY <2>4, <4>2 DEF UncommittedBlocks, Resizing
        <5>. QED
          BY <5>1, BlocksOfParts DEF PendingBlocks
      <4>. QED
        BY <4>1, <4>2
    <3> DEFINE old == BlocksOf(call.old.layout.category, call.old_units, call.old.metadata_blocks)
    <3>2. OldDataBlocks \cup ToSet(call.old.metadata_blocks) \subseteq old
      BY <2>1, <2>4, OldBlocksInUnits DEF CallInv
    <3>3. ~Committed => old = HeldBlocks
      BY <2>1, <2>4 DEF BeforeCommitInv, HeldBlocks
    <3>4. call.step = "detach" => old \subseteq HeldBlocks \cup RetiredBlocks
      <4>. SUFFICES ASSUME call.step = "detach" PROVE old \subseteq HeldBlocks \cup RetiredBlocks
        OBVIOUS
      <4>1. RetiredBlocks = (BlocksOf(call.old.layout.category, call.old_units, <<>>)
                               \cup ToSet(call.old.metadata_blocks)) \ HeldBlocks
        BY DEF RetiredBlocks
      <4>. QED
        BY <4>1, BlocksOfParts
    <3>. HIDE DEF old
    <3>5. attached \subseteq ToSet(call.metadata_blocks) \cup
                               (IF ~Committed \/ call.step = "detach" THEN old ELSE {})
      BY <2>1, <2>4, <3>2 DEF CacheInv
    <3>. QED
      BY <2>1, <3>1, <3>3, <3>4, <3>5 DEF CachedBlocksOwned
  <2>. QED
    BY <2>3, <2>4
<1>. QED
  BY <1>1, InvHolds, PTL
=============================================================================
