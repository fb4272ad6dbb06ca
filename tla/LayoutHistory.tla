---------------------------- MODULE LayoutHistory ----------------------------
(***************************************************************************)
(* One file through any sequence of resizes, looked at through its layout  *)
(* only: FileResizer::Resize decides the new layout from the old size and  *)
(* the old category, so what a layout looks like depends on the whole path *)
(* that led to it.  The limits the on-disk format documents for each       *)
(* category must hold along every path.                                    *)
(***************************************************************************)
EXTENDS FileLayout

CONSTANT FileSizes   \* sizes a file is opened with or resized to

ASSUME FileSizesAssumption == FileSizes \subseteq Nat

VARIABLE layout      \* the layout recorded in the file's entry metadata

(***************************************************************************)
(* The size range documented for each category, in the comments of         *)
(* src/src/file_layout_accessor.cpp: the most units it may have, and the   *)
(* size its files are never below.                                         *)
(***************************************************************************)
Capacity(category) ==
  IF category = Inline THEN InlineCapacity
  ELSE IF category = Blocks THEN BlocksMaxCount * BlockSize
  ELSE IF category = LargeBlocks THEN LargeBlocksMaxCount * LargeBlockSize
  ELSE IF category = Clusters THEN ClustersMaxCount * ClusterSize
  ELSE (ClusterMetadataBlocksMaxCount * ClustersPerMetadataBlock) * ClusterSize

AtMinimum(category, size) ==
  /\ category = LargeBlocks => size > BlockSize
  /\ category = Clusters => size > LargeBlockSize
  /\ category = ClusterMetadataBlocks => size >= ClusterSize

InDocumentedRange(category, size) ==
  /\ size <= MaxFileSize
  /\ size <= Capacity(category)
  /\ AtMinimum(category, size)

\* A file found on the device, in any category its size may be stored in.
Init ==
  \E size \in FileSizes, category \in Categories :
    /\ InDocumentedRange(category, size)
    /\ layout = BuildLayout(size, category)

\* FileResizer::Resize up to the choice of layout, the replacement committed.
Resize(target_size) ==
  /\ target_size # layout.file_size
  /\ target_size <= MaxFileSize
  /\ layout' = Calculate(layout.file_size, target_size, layout.category)

\* kFileTooLarge: the exception leaves the entry as it was.
ResizeTooLarge(target_size) ==
  /\ target_size > MaxFileSize
  /\ UNCHANGED layout

Next ==
  \E target_size \in FileSizes : Resize(target_size) \/ ResizeTooLarge(target_size)

Spec == Init /\ [][Next]_layout
-----------------------------------------------------------------------------
TypeOK ==
  layout \in [category : Categories, file_size : Nat,
              size_on_disk : Nat, data_units_count : Nat]

\* Whatever sequence of resizes led here, the category holds the size within
\* the limits the format documents (file_layout_accessor.cpp:23,174,184,194,256).
WithinDocumentedRange == InDocumentedRange(layout.category, layout.file_size)

\* The recorded units cover the file with less than one unit of slack, the
\* rounded size still fits the 32-bit field (the assertion of RoundUpToUnit),
\* and the units never outnumber the metadata items the category may hold.
UnitsCoverFile ==
  LET unit == CategoryDataUnitSize(layout.category)
  IN  /\ layout.size_on_disk < AddressLimit
      /\ layout.file_size <= layout.size_on_disk
      /\ layout.category # Inline =>
           /\ layout.size_on_disk < layout.file_size + unit
           /\ layout.data_units_count * unit = layout.size_on_disk

ItemsWithinLimit ==
  MetadataItemsCount(layout.category, layout.size_on_disk) <=
    CASE layout.category = Inline      -> InlineCapacity
      [] layout.category = Blocks      -> BlocksMaxCount
      [] layout.category = LargeBlocks -> LargeBlocksMaxCount
      [] layout.category = Clusters    -> ClustersMaxCount
      [] layout.category = ClusterMetadataBlocks -> ClusterMetadataBlocksMaxCount

\* Hysteresis: growing never moves to a lower category and shrinking never to
\* a higher one, and a rebuild is never gratuitous: growth leaves a category
\* only when the size no longer fits it, and shrinking only when the size has
\* fallen below what the category may hold or fits the entry itself.
RebuildOnlyWhenForced ==
  [][LET from == layout.category
         to   == layout'.category
         size == layout'.file_size
     IN  /\ size > layout.file_size =>
              /\ to >= from
              /\ to # from => size > Capacity(from)
         /\ size < layout.file_size =>
              /\ to <= from
              /\ to # from => ~AtMinimum(from, size) \/ size <= InlineCapacity
    ]_layout
=============================================================================
