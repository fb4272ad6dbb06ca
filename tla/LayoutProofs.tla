---------------------------- MODULE LayoutProofs ----------------------------
(***************************************************************************)
(* Proofs about LayoutHistory, for every geometry that satisfies           *)
(* PositiveGeometry and OrderedGeometry and for any set of sizes.          *)
(***************************************************************************)
EXTENDS LayoutHistory, LayoutLemmas, TLAPS

\* The category a resize picks holds the target size within its documented
\* range, given that the current category did so for the current size.
LEMMA TargetCategoryInRange ==
  ASSUME NEW old \in Nat, NEW current \in Categories, NEW target \in Nat,
         InDocumentedRange(current, old), target <= MaxFileSize
  PROVE  /\ target > old =>
              LET c == GreaterOf(MinimumCategory(target), current)
              IN  c \in Categories /\ InDocumentedRange(c, target)
         /\ target <= old =>
              LET c == LesserOf(MaximumCategory(target), current)
              IN  c \in Categories /\ InDocumentedRange(c, target)
<1> DEFINE blocksCap == BlocksMaxCount * BlockSize
           largeCap == LargeBlocksMaxCount * LargeBlockSize
           clustersCap == ClustersMaxCount * ClusterSize
           maxCap == (ClusterMetadataBlocksMaxCount * ClustersPerMetadataBlock) * ClusterSize
<1>1. /\ blocksCap \in Nat /\ largeCap \in Nat /\ clustersCap \in Nat /\ maxCap \in Nat
      /\ InlineCapacity <= blocksCap /\ blocksCap <= largeCap /\ largeCap <= clustersCap
      /\ BlockSize < LargeBlockSize /\ LargeBlockSize < ClusterSize
      /\ BlockSize <= blocksCap /\ LargeBlockSize <= largeCap /\ ClusterSize <= clustersCap
  BY PositiveGeometry, OrderedGeometry
<1>2. target <= maxCap
  BY <1>1, PositiveGeometry, OrderedGeometry DEF MaxFileSize, LesserOf
<1>3. BlockSize \in Nat /\ LargeBlockSize \in Nat /\ ClusterSize \in Nat /\ InlineCapacity \in Nat
  BY PositiveGeometry
<1>4. \A c \in Categories :
        Capacity(c) = IF c = 0 THEN InlineCapacity ELSE IF c = 1 THEN blocksCap
                      ELSE IF c = 2 THEN largeCap ELSE IF c = 3 THEN clustersCap
                      ELSE maxCap
  BY DEF Capacity, Categories, Inline, Blocks, LargeBlocks, Clusters
<1>5. MinimumCategory(target) = IF target <= InlineCapacity THEN 0
                                ELSE IF target <= blocksCap THEN 1
                                ELSE IF target <= largeCap THEN 2
                                ELSE IF target <= clustersCap THEN 3 ELSE 4
  BY DEF MinimumCategory, Inline, Blocks, LargeBlocks, Clusters, ClusterMetadataBlocks
<1>6. MaximumCategory(target) = IF target >= ClusterSize THEN 4
                                ELSE IF target > LargeBlockSize THEN 3
                                ELSE IF target > BlockSize THEN 2
                                ELSE IF target > InlineCapacity THEN 1 ELSE 0
  BY DEF MaximumCategory, Inline, Blocks, LargeBlocks, Clusters, ClusterMetadataBlocks
<1> HIDE DEF blocksCap, largeCap, clustersCap, maxCap
<1>7. ASSUME target > old
      PROVE  LET c == GreaterOf(MinimumCategory(target), current)
             IN  c \in Categories /\ InDocumentedRange(c, target)
  BY <1>1, <1>2, <1>3, <1>4, <1>5, <1>7
     DEF GreaterOf, Categories, InDocumentedRange, AtMinimum,
         LargeBlocks, Clusters, ClusterMetadataBlocks
<1>8. ASSUME target <= old
      PROVE  LET c == LesserOf(MaximumCategory(target), current)
             IN  c \in Categories /\ InDocumentedRange(c, target)
  BY <1>1, <1>2, <1>3, <1>4, <1>6, <1>8
     DEF LesserOf, Categories, InDocumentedRange, AtMinimum,
         LargeBlocks, Clusters, ClusterMetadataBlocks
<1> QED  BY <1>7, <1>8
-----------------------------------------------------------------------------
(***************************************************************************)
(* The inductive invariant.  WithinDocumentedRange is not inductive alone: *)
(* a step reads the recorded size and category, so they must be well typed *)
(* and the rest of the layout must be the one built from them.             *)
(***************************************************************************)
LayoutInv ==
  /\ layout.file_size \in Nat
  /\ layout.category \in Categories
  /\ layout = BuildLayout(layout.file_size, layout.category)
  /\ WithinDocumentedRange

\* A layout built in range satisfies the invariant.
LEMMA BuildEstablishesInv ==
  ASSUME NEW size \in Nat, NEW category \in Categories,
         InDocumentedRange(category, size),
         layout = BuildLayout(size, category)
  PROVE  LayoutInv
<1>1. layout.file_size = size /\ layout.category = category
  BY DEF BuildLayout
<1> QED  BY <1>1 DEF LayoutInv, WithinDocumentedRange

LEMMA InitEstablishesInv == Init => LayoutInv
<1> SUFFICES ASSUME Init PROVE LayoutInv
  OBVIOUS
<1>1. PICK size \in FileSizes, category \in Categories :
        /\ InDocumentedRange(category, size)
        /\ layout = BuildLayout(size, category)
  BY DEF Init
<1>2. size \in Nat
  BY FileSizesAssumption
<1> QED  BY <1>1, <1>2, BuildEstablishesInv

\* The layout after a resize is the one built for some in-range category.
LEMMA ResizeBuildsInRange ==
  ASSUME LayoutInv, NEW target \in FileSizes, Resize(target)
  PROVE  \E category \in Categories :
           /\ InDocumentedRange(category, target)
           /\ layout' = BuildLayout(target, category)
<1> DEFINE old == layout.file_size
           current == layout.category
<1>1. /\ old \in Nat /\ current \in Categories /\ target \in Nat
      /\ target <= MaxFileSize /\ InDocumentedRange(current, old)
      /\ layout' = Calculate(old, target, current)
  BY FileSizesAssumption DEF LayoutInv, WithinDocumentedRange, Resize
<1> HIDE DEF old, current
<1>2. CASE target > old
  <2> DEFINE c == GreaterOf(MinimumCategory(target), current)
  <2>1. c \in Categories /\ InDocumentedRange(c, target)
    BY <1>1, <1>2, TargetCategoryInRange
  <2>2. layout' = BuildLayout(target, c)
    BY <1>1, <1>2 DEF Calculate
  <2> QED  BY <2>1, <2>2
<1>3. CASE ~(target > old)
  <2> DEFINE c == LesserOf(MaximumCategory(target), current)
  <2>1. c \in Categories /\ InDocumentedRange(c, target)
    BY <1>1, <1>3, TargetCategoryInRange
  <2>2. layout' = BuildLayout(target, c)
    BY <1>1, <1>3 DEF Calculate
  <2> QED  BY <2>1, <2>2
<1> QED  BY <1>2, <1>3

LEMMA NextPreservesInv == LayoutInv /\ [Next]_layout => LayoutInv'
<1> SUFFICES ASSUME LayoutInv, [Next]_layout PROVE LayoutInv'
  OBVIOUS
<1>1. ASSUME NEW target \in FileSizes, Resize(target)
      PROVE  LayoutInv'
  <2>1. PICK category \in Categories :
          /\ InDocumentedRange(category, target)
          /\ layout' = BuildLayout(target, category)
    BY <1>1, ResizeBuildsInRange
  <2>2. layout'.file_size = target /\ layout'.category = category
    BY <2>1 DEF BuildLayout
  <2>3. target \in Nat
    BY FileSizesAssumption
  <2> QED  BY <2>1, <2>2, <2>3 DEF LayoutInv, WithinDocumentedRange
<1>2. ASSUME NEW target \in FileSizes, ResizeTooLarge(target)
      PROVE  LayoutInv'
  BY <1>2 DEF ResizeTooLarge, LayoutInv, WithinDocumentedRange
<1>3. CASE UNCHANGED layout
  BY <1>3 DEF LayoutInv, WithinDocumentedRange
<1> QED  BY <1>1, <1>2, <1>3 DEF Next

LEMMA InvHolds == Spec => []LayoutInv
<1> QED  BY InitEstablishesInv, NextPreservesInv, PTL DEF Spec
-----------------------------------------------------------------------------
\* The layout record keeps its type over every sequence of resizes.
THEOREM TypeCorrect == Spec => []TypeOK
<1>1. LayoutInv => TypeOK
  BY BuildLayoutCovers DEF LayoutInv, TypeOK
<1> QED  BY <1>1, InvHolds, PTL

\* Every sequence of resizes keeps the size within the range documented for
\* the category the code chose (file_layout.cpp:117-153).
THEOREM RangeHolds == Spec => []WithinDocumentedRange
<1>1. LayoutInv => WithinDocumentedRange
  BY DEF LayoutInv
<1> QED  BY <1>1, InvHolds, PTL

\* The recorded units always cover the file, tightly and within 32 bits.
THEOREM UnitsAlwaysCover == Spec => []UnitsCoverFile
<1>1. LayoutInv => UnitsCoverFile
  <2> SUFFICES ASSUME LayoutInv PROVE UnitsCoverFile
    OBVIOUS
  <2> DEFINE size == layout.file_size
             category == layout.category
             unit == CategoryDataUnitSize(category)
  <2>1. /\ size \in Nat /\ category \in Categories
        /\ layout = BuildLayout(size, category)
        /\ size <= MaxFileSize
    BY DEF LayoutInv, WithinDocumentedRange, InDocumentedRange
  <2>2. /\ layout.size_on_disk \in Nat
        /\ size <= layout.size_on_disk
        /\ layout.size_on_disk < size + unit
        /\ category # Inline => layout.data_units_count * unit = layout.size_on_disk
    BY <2>1, BuildLayoutCovers
  <2>3. unit \in Nat /\ unit <= ClusterSize
    BY <2>1, UnitSizePositive
  <2>4. MaxFileSize \in Nat /\ MaxFileSize <= AddressLimit - ClusterSize
    BY MaxFileSizeType
  <2>5. ClusterSize \in Nat /\ AddressLimit \in Nat
    BY PositiveGeometry
  <2> HIDE DEF size, category, unit
  <2>6. layout.size_on_disk < AddressLimit
    BY <2>1, <2>2, <2>3, <2>4, <2>5
  <2> QED  BY <2>2, <2>6 DEF UnitsCoverFile, size, category, unit
<1> QED  BY <1>1, InvHolds, PTL

\* The metadata items a layout needs never exceed what its category may list,
\* the two-level cluster lists of the largest category included.
THEOREM ItemsNeverExceed == Spec => []ItemsWithinLimit
<1>1. LayoutInv => ItemsWithinLimit
  <2> SUFFICES ASSUME LayoutInv PROVE ItemsWithinLimit
    OBVIOUS
  <2> DEFINE size == layout.file_size
             category == layout.category
             unit == CategoryDataUnitSize(category)
             count == DivCeil(size, unit)
  <2>1. /\ size \in Nat /\ category \in Categories
        /\ layout = BuildLayout(size, category)
        /\ size <= Capacity(category)
    BY DEF LayoutInv, WithinDocumentedRange, InDocumentedRange
  <2>2. unit \in Nat \ {0}
    BY <2>1, UnitSizePositive
  <2>3. category = Inline => MetadataItemsCount(category, layout.size_on_disk) = size
    BY <2>1 DEF BuildLayout, SizeOnDisk, MetadataItemsCount
  <2>4. category # Inline => DataUnitsCount(category, layout.size_on_disk) = count
    <3> SUFFICES ASSUME category # Inline
                 PROVE  DataUnitsCount(category, layout.size_on_disk) = count
      OBVIOUS
    <3>1. layout.size_on_disk = count * unit
      BY <2>1 DEF BuildLayout, SizeOnDisk, RoundUpToUnit
    <3>2. count \in Nat
      BY <2>1, <2>2, DivCeilCovers
    <3>3. DivCeil(count * unit, unit) = count
      BY <2>2, <3>2, DivCeilExact
    <3> QED  BY <3>1, <3>3 DEF DataUnitsCount
  <2>5. \A limit \in Nat : Capacity(category) = limit * unit => count <= limit
    BY <2>1, <2>2, DivCeilBound
  <2>6. CASE category = Inline
    BY <2>1, <2>3, <2>6
       DEF ItemsWithinLimit, Capacity, Inline, Blocks, LargeBlocks, Clusters,
           ClusterMetadataBlocks
  <2>7. CASE category = Blocks
    <3>1. count <= BlocksMaxCount
      BY <2>5, <2>7, PositiveGeometry
         DEF Capacity, CategoryDataUnitSize, Inline, Blocks
    <3> QED  BY <2>4, <2>7, <3>1
             DEF ItemsWithinLimit, MetadataItemsCount, Inline, Blocks,
                 LargeBlocks, Clusters, ClusterMetadataBlocks
  <2>8. CASE category = LargeBlocks
    <3>1. count <= LargeBlocksMaxCount
      BY <2>5, <2>8, PositiveGeometry
         DEF Capacity, CategoryDataUnitSize, Inline, Blocks, LargeBlocks
    <3> QED  BY <2>4, <2>8, <3>1
             DEF ItemsWithinLimit, MetadataItemsCount, Inline, Blocks,
                 LargeBlocks, Clusters, ClusterMetadataBlocks
  <2>9. CASE category = Clusters
    <3>1. count <= ClustersMaxCount
      BY <2>5, <2>9, PositiveGeometry
         DEF Capacity, CategoryDataUnitSize, Inline, Blocks, LargeBlocks, Clusters
    <3> QED  BY <2>4, <2>9, <3>1
             DEF ItemsWithinLimit, MetadataItemsCount, Inline, Blocks,
                 LargeBlocks, Clusters, ClusterMetadataBlocks
  <2>10. CASE category = ClusterMetadataBlocks
    <3>1. ClusterMetadataBlocksMaxCount * ClustersPerMetadataBlock \in Nat
      BY PositiveGeometry
    <3>2. count <= ClusterMetadataBlocksMaxCount * ClustersPerMetadataBlock
      BY <2>5, <2>10, <3>1
         DEF Capacity, CategoryDataUnitSize, Inline, Blocks, LargeBlocks,
             Clusters, ClusterMetadataBlocks
    <3>3. count \in Nat
      BY <2>1, <2>2, DivCeilCovers
    <3>4. DivCeil(count, ClustersPerMetadataBlock) <= ClusterMetadataBlocksMaxCount
      BY <3>2, <3>3, PositiveGeometry, DivCeilBound
    <3> QED  BY <2>4, <2>10, <3>4
             DEF ItemsWithinLimit, MetadataItemsCount, ClusterMetadataBlocksCount,
                 Inline, Blocks, LargeBlocks, Clusters, ClusterMetadataBlocks
  <2> QED  BY <2>1, <2>6, <2>7, <2>8, <2>9, <2>10
           DEF Categories, Inline, Blocks, LargeBlocks, Clusters, ClusterMetadataBlocks
<1> QED  BY <1>1, InvHolds, PTL

\* Resizing moves between categories only in the direction of the size change
\* and only when the current category cannot hold the new size.
THEOREM RebuildsForced == Spec => RebuildOnlyWhenForced
<1> DEFINE Forced ==
      LET from == layout.category
          to   == layout'.category
          size == layout'.file_size
      IN  /\ size > layout.file_size =>
               /\ to >= from
               /\ to # from => size > Capacity(from)
          /\ size < layout.file_size =>
               /\ to <= from
               /\ to # from => ~AtMinimum(from, size) \/ size <= InlineCapacity
<1>1. ASSUME LayoutInv, NEW target \in FileSizes, Resize(target)
      PROVE  Forced
  <2> DEFINE old == layout.file_size
             from == layout.category
             to == IF target > old THEN GreaterOf(MinimumCategory(target), from)
                   ELSE LesserOf(MaximumCategory(target), from)
  <2>1. /\ old \in Nat /\ from \in Categories /\ target \in Nat
        /\ target <= MaxFileSize
    BY <1>1, FileSizesAssumption DEF LayoutInv, Resize
  <2>2. layout'.category = to /\ layout'.file_size = target
    BY <1>1 DEF Resize, Calculate, BuildLayout
  <2> DEFINE blocksCap == BlocksMaxCount * BlockSize
             largeCap == LargeBlocksMaxCount * LargeBlockSize
             clustersCap == ClustersMaxCount * ClusterSize
             maxCap == (ClusterMetadataBlocksMaxCount * ClustersPerMetadataBlock) * ClusterSize
  <2>3. /\ blocksCap \in Nat /\ largeCap \in Nat /\ clustersCap \in Nat /\ maxCap \in Nat
        /\ InlineCapacity <= blocksCap /\ blocksCap <= largeCap /\ largeCap <= clustersCap
        /\ BlockSize < LargeBlockSize /\ LargeBlockSize < ClusterSize
        /\ BlockSize \in Nat /\ LargeBlockSize \in Nat /\ ClusterSize \in Nat
        /\ InlineCapacity \in Nat
    BY PositiveGeometry, OrderedGeometry
  <2>4. Capacity(from) = IF from = 0 THEN InlineCapacity ELSE IF from = 1 THEN blocksCap
                         ELSE IF from = 2 THEN largeCap ELSE IF from = 3 THEN clustersCap
                         ELSE maxCap
    BY DEF Capacity, Inline, Blocks, LargeBlocks, Clusters
  <2>5. MinimumCategory(target) = IF target <= InlineCapacity THEN 0
                                  ELSE IF target <= blocksCap THEN 1
                                  ELSE IF target <= largeCap THEN 2
                                  ELSE IF target <= clustersCap THEN 3 ELSE 4
    BY DEF MinimumCategory, Inline, Blocks, LargeBlocks, Clusters, ClusterMetadataBlocks
  <2>6. MaximumCategory(target) = IF target >= ClusterSize THEN 4
                                  ELSE IF target > LargeBlockSize THEN 3
                                  ELSE IF target > BlockSize THEN 2
                                  ELSE IF target > InlineCapacity THEN 1 ELSE 0
    BY DEF MaximumCategory, Inline, Blocks, LargeBlocks, Clusters, ClusterMetadataBlocks
  <2> HIDE DEF blocksCap, largeCap, clustersCap, maxCap, old, from
  <2>7. target > old => to >= from /\ (to # from => target > Capacity(from))
    BY <2>1, <2>3, <2>4, <2>5 DEF GreaterOf, Categories
  <2>8. target < old =>
          to <= from /\ (to # from => ~AtMinimum(from, target) \/ target <= InlineCapacity)
    BY <2>1, <2>3, <2>6
       DEF LesserOf, Categories, AtMinimum, LargeBlocks, Clusters, ClusterMetadataBlocks
  <2> QED  BY <2>2, <2>7, <2>8 DEF old, from
<1> HIDE DEF Forced
<1>2. LayoutInv /\ [Next]_layout => [Forced]_layout
  <2> SUFFICES ASSUME LayoutInv, Next PROVE [Forced]_layout
    OBVIOUS
  <2> QED  BY <1>1 DEF Next, ResizeTooLarge
<1> QED  BY <1>2, InvHolds, PTL DEF Spec, RebuildOnlyWhenForced, Forced
=============================================================================
