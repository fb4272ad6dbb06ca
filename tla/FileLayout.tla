----------------------------- MODULE FileLayout -----------------------------
(***************************************************************************)
(* The on-disk layout of a file as a function of its size                  *)
(* (src/src/file_layout.cpp).  A file is stored in one of five categories, *)
(* from bytes inside its directory entry to clusters listed by dedicated   *)
(* metadata blocks.  Resizing picks a category with hysteresis: growing    *)
(* takes the smallest category that fits but never a lower one than now,   *)
(* shrinking takes the largest that is still allowed but never a higher    *)
(* one.  This module holds operators only; LayoutHistory runs them over    *)
(* sequences of resizes.                                                   *)
(***************************************************************************)
EXTENDS Integers

CONSTANTS
  InlineCapacity,                 (* payload bytes an entry can hold itself *)
  BlockSize,                      (* bytes in a regular block               *)
  LargeBlockSize,                 (* bytes in a large block                 *)
  ClusterSize,                    (* bytes in a cluster                     *)
  BlocksMaxCount,                 (* kBlocksMaxCount                        *)
  LargeBlocksMaxCount,            (* kLargeBlocksMaxCount                   *)
  ClustersMaxCount,               (* kClustersMaxCount                      *)
  ClusterMetadataBlocksMaxCount,  (* kClusterMetadataBlocksMaxCount         *)
  ClustersPerMetadataBlock,       (* ClustersPerClusterMetadataBlock()      *)
  AddressLimit                    (* 2^32 in the code: sizes are uint32_t   *)

ASSUME PositiveGeometry ==
  /\ InlineCapacity \in Nat
  /\ BlockSize \in Nat \ {0}
  /\ LargeBlockSize \in Nat \ {0}
  /\ ClusterSize \in Nat \ {0}
  /\ BlocksMaxCount \in Nat \ {0}
  /\ LargeBlocksMaxCount \in Nat \ {0}
  /\ ClustersMaxCount \in Nat \ {0}
  /\ ClusterMetadataBlocksMaxCount \in Nat \ {0}
  /\ ClustersPerMetadataBlock \in Nat \ {0}
  /\ AddressLimit \in Nat

\* Units and capacities grow with the category.
ASSUME OrderedGeometry ==
  /\ BlockSize < LargeBlockSize
  /\ LargeBlockSize < ClusterSize
  /\ InlineCapacity <= BlocksMaxCount * BlockSize
  /\ BlocksMaxCount * BlockSize <= LargeBlocksMaxCount * LargeBlockSize
  /\ LargeBlocksMaxCount * LargeBlockSize <= ClustersMaxCount * ClusterSize
  /\ ClusterSize <= AddressLimit

\* Categories, numbered as in the entry's size_category field.
Inline == 0
Blocks == 1
LargeBlocks == 2
Clusters == 3
ClusterMetadataBlocks == 4
Categories == 0..4

\* std::min, and std::max with CategoryLess.
LesserOf(a, b) == IF a <= b THEN a ELSE b
GreaterOf(a, b) == IF a <= b THEN b ELSE a

MaxFileSize ==
  LesserOf(AddressLimit - ClusterSize,
           (ClusterMetadataBlocksMaxCount * ClustersPerMetadataBlock) * ClusterSize)
-----------------------------------------------------------------------------
DivCeil(n, unit) == (n + unit - 1) \div unit

\* Mutant: forgets that a last, partly used unit is a unit.
RoundDownToUnit(size, unit) == (size \div unit) * unit

RoundUpToUnit(size, unit) == DivCeil(size, unit) * unit

CategoryDataUnitSize(category) ==
  IF category \in {Inline, Blocks} THEN BlockSize
  ELSE IF category = LargeBlocks THEN LargeBlockSize
  ELSE ClusterSize

DataUnitsCount(category, size_on_disk) ==
  IF category = Inline THEN 0
  ELSE DivCeil(size_on_disk, CategoryDataUnitSize(category))

ClusterMetadataBlocksCount(clusters_count) ==
  DivCeil(clusters_count, ClustersPerMetadataBlock)

MetadataItemsCount(category, size_on_disk) ==
  IF category = Inline THEN size_on_disk
  ELSE LET units == DataUnitsCount(category, size_on_disk)
       IN  IF category = ClusterMetadataBlocks
             THEN ClusterMetadataBlocksCount(units)
             ELSE units

SizeOnDisk(category, file_size) ==
  IF category = Inline THEN file_size
  ELSE RoundUpToUnit(file_size, CategoryDataUnitSize(category))

BuildLayout(file_size, category) ==
  LET size_on_disk == SizeOnDisk(category, file_size)
  IN  [category         |-> category,
       file_size        |-> file_size,
       size_on_disk     |-> size_on_disk,
       data_units_count |-> DataUnitsCount(category, size_on_disk)]

MinimumCategory(file_size) ==
  IF file_size <= InlineCapacity THEN Inline
  ELSE IF file_size <= BlocksMaxCount * BlockSize THEN Blocks
  ELSE IF file_size <= LargeBlocksMaxCount * LargeBlockSize THEN LargeBlocks
  ELSE IF file_size <= ClustersMaxCount * ClusterSize THEN Clusters
  ELSE ClusterMetadataBlocks

\* Mutant: one large block is enough to stay in clusters.
MaximumCategoryAtLeast(file_size) ==
  IF file_size >= ClusterSize THEN ClusterMetadataBlocks
  ELSE IF file_size >= LargeBlockSize THEN Clusters
  ELSE IF file_size > BlockSize THEN LargeBlocks
  ELSE IF file_size > InlineCapacity THEN Blocks
  ELSE Inline

\* Mutant: a full cluster no longer suffices for category 4.
MaximumCategoryMoreThan(file_size) ==
  IF file_size > ClusterSize THEN ClusterMetadataBlocks
  ELSE IF file_size > LargeBlockSize THEN Clusters
  ELSE IF file_size > BlockSize THEN LargeBlocks
  ELSE IF file_size > InlineCapacity THEN Blocks
  ELSE Inline

MaximumCategory(file_size) ==
  IF file_size >= ClusterSize THEN ClusterMetadataBlocks
  ELSE IF file_size > LargeBlockSize THEN Clusters
  ELSE IF file_size > BlockSize THEN LargeBlocks
  ELSE IF file_size > InlineCapacity THEN Blocks
  ELSE Inline

(***************************************************************************)
(* The layout a resize produces; asked for only when the target is at most *)
(* MaxFileSize (above it both category functions throw kFileTooLarge).     *)
(***************************************************************************)
Calculate(old_size, target_size, current_category) ==
  BuildLayout(target_size,
              IF target_size > old_size
                THEN GreaterOf(MinimumCategory(target_size), current_category)
                ELSE LesserOf(MaximumCategory(target_size), current_category))
=============================================================================
