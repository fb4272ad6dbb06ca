------------------------- MODULE FileContentsProofs -------------------------
(***************************************************************************)
(* Proofs about the bytes of FileResize, for every geometry, area, set of  *)
(* sizes and of writes that satisfies the module's assumptions: the old    *)
(* layout reads as before up to the commit, the copy a rebuild made reads  *)
(* as the resized file when it commits, every call does to the file what   *)
(* it would do to a plain sequence of bytes, and draws to its end.         *)
(***************************************************************************)
EXTENDS FileResizeProofs

(***************************************************************************)
(* What FileResize says of its variable disk, of any contents d: a step's  *)
(* two disks can then be compared.                                         *)
(***************************************************************************)
Addresses == 0..(Cardinality(AreaBlocks) * BlockSize - 1)

BytesAt(d, number, n) == [k \in 1..n |-> d[number * BlockSize + k - 1]]

Stored(d, location, size) ==
  IF BytesAt(d, location.block_number, AlignedSize(size)) = location.hash
    THEN BytesAt(d, location.block_number, AlignedSize(size))
    ELSE Junks(AlignedSize(size))

FlushedOn(d, location, data) ==
  [a \in DOMAIN d |->
     IF a \in (location.block_number * BlockSize)..(location.block_number * BlockSize + Len(data) - 1)
       THEN data[a - location.block_number * BlockSize + 1] ELSE d[a]]

DataBlockOf(d, layout, units, i) ==
  Stored(d, Location(layout.category, units, i), UsedSize(layout, i))

\* Data block i holds the bytes of the file that belong there.
Reads(d, layout, units, i, bytes) ==
  \A k \in 1..UsedSize(layout, i) :
    DataBlockOf(d, layout, units, i)[k] = bytes[i * DataBlockSize(layout.category) + k]

ReadsAll(d, layout, units, bytes) ==
  \A i \in 0..(DataBlocksCount(layout) - 1) : Reads(d, layout, units, i, bytes)

Contents(d, layout, payload, units) ==
  IF layout.category = Inline THEN payload
  ELSE [k \in 1..layout.file_size |->
          DataBlockOf(d, layout, units, (k - 1) \div DataBlockSize(layout.category))
            [((k - 1) % DataBlockSize(layout.category)) + 1]]

\* Each unit has a hash slot for each of its data blocks.
HasHashes(category, units) ==
  \A u \in DOMAIN units :
    units[u].hash = [b \in 1..DataBlocksPerUnit(category) |-> units[u].hash[b]]

(***************************************************************************)
(* The invariant about contents, on top of FileResizeInv.                  *)
(***************************************************************************)
IsBytes(bytes, n) == bytes = [k \in 1..n |-> bytes[k]]

DiskInv ==
  /\ disk = [a \in Addresses |-> disk[a]]
  /\ metadata.layout.category = Inline => IsBytes(metadata.payload, metadata.layout.file_size)
  /\ HasHashes(metadata.layout.category, UnitsOf(metadata))
  /\ Resizing => HasHashes(call.target.category, call.units)

\* What the call was asked for.
RequestInv ==
  Resizing =>
    /\ IsBytes(call.before, call.old.layout.file_size)
    /\ IF call.write = NoWrite THEN call.target.file_size \in FileSizes
       ELSE /\ call.write \in WriteExtents
            /\ call.write.pos <= call.old.layout.file_size
            /\ call.write.pos + call.write.n = call.target.file_size
            /\ call.old.layout.file_size < call.target.file_size
    /\ call.mode = "rebuild" /\ call.target.category = Inline =>
         call.target.file_size <= call.old.layout.file_size

OldBytesInv == Resizing /\ ~Committed => ReadBytes(metadata) = call.before

NewBytes == ResizedTo(call.before, call.target.file_size)

\* How far the copy has come.
CopyInv ==
  /\ call.step \in {"alloc_data_units", "alloc_metadata_blocks"} => call.index = 0
  /\ call.step = "copy" =>
       \A i \in 0..(DataBlocksCount(call.target) - 1) :
         i < call.index => Reads(disk, call.target, call.units, i, NewBytes)
  /\ call.step = "replace_metadata" /\ call.mode # "in_place" =>
       Contents(disk, call.target, call.payload, call.units) = NewBytes

\* A resize in place turns the data blocks over one by one after the commit.
TurnOverInv ==
  /\ call.step \in {"replace_metadata", "detach"} /\ call.mode = "in_place" => call.index = 0
  /\ call.step \in {"detach", "resize_changed"} /\ call.mode = "in_place" =>
       \A i \in 0..(DataBlocksCount(call.target) - 1) :
         IF i < call.index THEN Reads(disk, call.target, UnitsOf(metadata), i, NewBytes)
         ELSE i < DataBlocksCount(call.old.layout) =>
                Reads(disk, call.old.layout, UnitsOf(metadata), i, call.before)

NewBytesInv ==
  Resizing /\ Committed /\ ~(call.step \in {"detach", "resize_changed"} /\ call.mode = "in_place")
    => ReadBytes(metadata) = NewBytes

\* The file a write fills: grown first, if the write reaches past its end.
Grown(bytes, write) ==
  IF write.pos + write.n > Len(bytes) THEN ResizedTo(bytes, write.pos + write.n) ELSE bytes

\* The write has come as far as pos.
WrittenUpTo(bytes, write, pos) ==
  Promise!Overwritten(Grown(bytes, write), [pos |-> write.pos, n |-> pos - write.pos])

WritingInv ==
  call.step = "write" =>
    /\ call.write \in [pos : Nat, n : Nat \ {0}]
    /\ call.write.pos + call.write.n <= metadata.layout.file_size
    /\ \E write \in WriteExtents :
         /\ write.pos <= Len(call.before)
         /\ write.pos <= call.write.pos
         /\ call.write.pos + call.write.n = write.pos + write.n
         /\ ReadBytes(metadata) = WrittenUpTo(call.before, write, call.write.pos)

ContentsInv ==
  /\ DiskInv /\ RequestInv /\ OldBytesInv /\ CopyInv /\ TurnOverInv /\ NewBytesInv /\ WritingInv
-----------------------------------------------------------------------------
(* Where a data block is.                                                  *)

\* Data blocks the units have room for.
IndicesOf(category, units) ==
  {i \in Nat : (i \div DataBlocksPerUnit(category)) + 1 \in DOMAIN units}

DataBlockExtent(category, units, i) ==
  Extent(Location(category, units, i).block_number, DataBlockSize(category) \div BlockSize)

\* The two disks hold the same in these blocks.
SameOn(blocks, d, e) == \A a \in Addresses : a \div BlockSize \in blocks => e[a] = d[a]

\* The addresses of some blocks in a row.
LEMMA AddressOfBlock ==
  ASSUME NEW a \in Nat, NEW number \in Nat, NEW n \in Nat \ {0}
  PROVE  a \div BlockSize \in Extent(number, n)
           <=> a \in (number * BlockSize)..(number * BlockSize + n * BlockSize - 1)
<1> DEFINE q == a \div BlockSize
           r == a % BlockSize
<1>1. BlockSize \in Nat \ {0}
  BY PositiveGeometry
<1>2. q \in Nat /\ r \in 0..(BlockSize - 1) /\ a = q * BlockSize + r
  BY <1>1
<1>. HIDE DEF q, r
<1>3. ASSUME NEW x \in Nat, NEW y \in Nat, x <= y PROVE x * BlockSize <= y * BlockSize
  <2>1. y - x \in Nat /\ (y - x) * BlockSize \in Nat
    BY <1>1, <1>3
  <2>2. y * BlockSize = x * BlockSize + (y - x) * BlockSize
    BY <1>1
  <2>. QED
    BY <1>1, <2>1, <2>2
<1>4. /\ (q + 1) * BlockSize = q * BlockSize + BlockSize
      /\ (number + n) * BlockSize = number * BlockSize + n * BlockSize
      /\ q * BlockSize \in Nat /\ number * BlockSize \in Nat /\ n * BlockSize \in Nat
  BY <1>1, <1>2
<1>5. CASE q < number
  <2>1. (q + 1) * BlockSize <= number * BlockSize
    BY <1>2, <1>3, <1>5
  <2>. QED
    BY <1>1, <1>2, <1>4, <1>5, <2>1 DEF Extent, q
<1>6. CASE q >= number + n
  <2>1. (number + n) * BlockSize <= q * BlockSize
    BY <1>2, <1>3, <1>6
  <2>. QED
    BY <1>1, <1>2, <1>4, <1>6, <2>1 DEF Extent, q
<1>7. CASE number <= q /\ q < number + n
  <2>1. number * BlockSize <= q * BlockSize
    BY <1>2, <1>3, <1>7
  <2>2. (q + 1) * BlockSize <= (number + n) * BlockSize
    BY <1>2, <1>3, <1>7
  <2>. QED
    BY <1>1, <1>2, <1>4, <1>7, <2>1, <2>2 DEF Extent, q
<1>. QED
  BY <1>2, <1>5, <1>6, <1>7

\* A byte of the area is in one of its blocks.
LEMMA AddressesOfArea ==
  ASSUME NEW a \in Nat
  PROVE  a \div BlockSize \in AreaBlocks <=> a \in Addresses
<1> DEFINE n == Cardinality(AreaBlocks)
<1>1. n \in Nat /\ AreaBlocks = 0..(n - 1) /\ BlockSize \in Nat \ {0}
  BY DeviceAssumption, PositiveGeometry, FS_CardinalityType
<1>2. CASE n = 0
  <2>1. AreaBlocks = {} /\ Addresses = {}
    BY <1>1, <1>2 DEF Addresses
  <2>. QED
    BY <2>1
<1>3. CASE n # 0
  <2>1. AreaBlocks = Extent(0, n)
    BY <1>1 DEF Extent
  <2>2. a \div BlockSize \in Extent(0, n) <=> a \in (0 * BlockSize)..(0 * BlockSize + n * BlockSize - 1)
    BY <1>1, <1>3, AddressOfBlock
  <2>3. 0 * BlockSize = 0 /\ n * BlockSize \in Nat
    BY <1>1
  <2>. QED
    BY <1>1, <2>1, <2>2, <2>3 DEF Addresses
<1>. QED
  BY <1>2, <1>3

\* Whole sectors of a part of a data block stay within it.
LEMMA AlignedSizes ==
  ASSUME NEW category \in Categories, NEW size \in 0..DataBlockSize(category)
  PROVE  /\ AlignedSize(size) \in Nat
         /\ size <= AlignedSize(size)
         /\ AlignedSize(size) <= DataBlockSize(category)
<1> DEFINE whole == DataBlockSize(category)
           k == whole \div SectorSize
<1>1. whole \in Nat \ {0} /\ whole % SectorSize = 0 /\ SectorSize \in Nat \ {0}
  BY UnitGeometry, DeviceAssumption
<1>2. k \in Nat /\ whole = k * SectorSize
  BY <1>1
<1>. HIDE DEF whole, k
<1>3. size \in Nat /\ size <= k * SectorSize
  BY <1>2, <1>1 DEF whole
<1>4. /\ DivCeil(size, SectorSize) \in Nat
      /\ size <= DivCeil(size, SectorSize) * SectorSize
      /\ DivCeil(size, SectorSize) <= k
  BY <1>1, <1>2, <1>3, DivCeilCovers, DivCeilBound
<1>5. AlignedSize(size) = DivCeil(size, SectorSize) * SectorSize
  BY DEF AlignedSize, RoundUpToUnit
<1>. DEFINE c == DivCeil(size, SectorSize)
<1>. HIDE DEF c
<1>6. c * SectorSize <= k * SectorSize
  <2>1. k - c \in Nat /\ (k - c) * SectorSize \in Nat
    BY <1>1, <1>2, <1>4 DEF c
  <2>2. k * SectorSize = c * SectorSize + (k - c) * SectorSize
    BY <1>1, <1>2, <1>4 DEF c
  <2>3. c * SectorSize \in Nat
    BY <1>1, <1>4 DEF c
  <2>. QED
    BY <2>1, <2>2, <2>3
<1>7. c * SectorSize \in Nat
  BY <1>1, <1>4 DEF c
<1>. QED
  BY <1>2, <1>4, <1>5, <1>6, <1>7 DEF c, whole

\* A data block lies within its unit.
LEMMA DataBlockPlace ==
  ASSUME NEW category \in Categories \ {Inline}, NEW units, IsUnits(units),
         NEW i \in IndicesOf(category, units)
  PROVE  /\ (i \div DataBlocksPerUnit(category)) + 1 \in 1..Len(units)
         /\ i % DataBlocksPerUnit(category) \in 0..(DataBlocksPerUnit(category) - 1)
         /\ Location(category, units, i).block_number \in Nat
         /\ DataBlockExtent(category, units, i)
              \subseteq UnitExtent(category, units[(i \div DataBlocksPerUnit(category)) + 1])
         /\ DataBlockExtent(category, units, i) \subseteq BlocksOf(category, units, <<>>)
<1> DEFINE per == DataBlocksPerUnit(category)
           k == (i \div per) + 1
           r == i % per
           step == DataBlockSize(category) \div BlockSize
<1>1. /\ step \in Nat \ {0} /\ per \in Nat \ {0}
      /\ UnitBlocks(category) \in Nat \ {0} /\ UnitBlocks(category) = per * step
  BY UnitGeometry
<1>2. i \in Nat /\ k \in DOMAIN units
  BY DEF IndicesOf
<1>3. k \in 1..Len(units) /\ units[k].block_number \in Nat
  BY <1>2, UnitsHaveItems, AreaBlocksAreNumbers
<1>4. r \in 0..(per - 1)
  BY <1>1, <1>2
<1>5. Location(category, units, i).block_number = units[k].block_number + r * step
  BY DEF Location
<1>6. DataBlockExtent(category, units, i) = Extent(units[k].block_number + r * step, step)
  BY <1>5 DEF DataBlockExtent
<1>. HIDE DEF per, k, r, step
<1>7. r * step \in Nat /\ r * step + step <= per * step
  <2>1. per * step = (r * step + step) + (per - 1 - r) * step
    BY <1>1, <1>4
  <2>2. (per - 1 - r) * step \in Nat /\ r * step \in Nat
    BY <1>1, <1>4
  <2>. QED
    BY <1>1, <2>1, <2>2
<1>8. DataBlockExtent(category, units, i) \subseteq UnitExtent(category, units[k])
  BY <1>1, <1>3, <1>6, <1>7 DEF UnitExtent, Extent
<1>9. UnitExtent(category, units[k]) \subseteq BlocksOf(category, units, <<>>)
  BY <1>2, BlocksOfParts DEF BlocksOf
<1>. QED
  BY <1>3, <1>4, <1>5, <1>7, <1>8, <1>9 DEF per, k, r

\* No two data blocks overlap.
LEMMA DataBlocksApart ==
  ASSUME NEW category \in Categories \ {Inline}, NEW units, IsUnits(units),
         Apart(category, units, <<>>),
         NEW i \in IndicesOf(category, units), NEW j \in IndicesOf(category, units), i # j
  PROVE  DataBlockExtent(category, units, i) \cap DataBlockExtent(category, units, j) = {}
<1> DEFINE per == DataBlocksPerUnit(category)
           step == DataBlockSize(category) \div BlockSize
<1>1. step \in Nat \ {0} /\ per \in Nat \ {0}
  BY UnitGeometry
<1>2. i \in Nat /\ j \in Nat
  BY DEF IndicesOf
<1>3. CASE i \div per # j \div per
  <2>1. /\ (i \div per) + 1 \in DOMAIN units /\ (j \div per) + 1 \in DOMAIN units
    BY DEF IndicesOf
  <2>2. (i \div per) + 1 # (j \div per) + 1
    BY <1>1, <1>2, <1>3
  <2>. DEFINE p == (i \div per) + 1
              q == (j \div per) + 1
  <2>3. /\ DataBlockExtent(category, units, i) \subseteq UnitExtent(category, units[p])
        /\ DataBlockExtent(category, units, j) \subseteq UnitExtent(category, units[q])
    BY DataBlockPlace
  <2>4. p \in DOMAIN units /\ q \in DOMAIN units /\ p # q
    BY <2>1, <2>2
  <2>. HIDE DEF p, q
  <2>5. UnitExtent(category, units[p]) \cap UnitExtent(category, units[q]) = {}
    BY <2>4 DEF Apart
  <2>. QED
    BY <2>3, <2>5
<1>4. CASE i \div per = j \div per
  <2>. DEFINE n == units[(i \div per) + 1].block_number
              x == i % per
              y == j % per
  <2>1. /\ DataBlockExtent(category, units, i) = Extent(n + x * step, step)
        /\ DataBlockExtent(category, units, j) = Extent(n + y * step, step)
    BY <1>4 DEF DataBlockExtent, Location
  <2>2. x \in Nat /\ y \in Nat /\ x # y
    <3>. DEFINE a == i \div per
                b == j \div per
    <3>1. i = a * per + x /\ j = b * per + y /\ x \in Nat /\ y \in Nat
      <4>. HIDE DEF per
      <4>1. ASSUME NEW z \in Nat
            PROVE  z \div per \in Nat /\ z % per \in Nat /\ z = (z \div per) * per + (z % per)
        BY <1>1
      <4>. QED
        BY <1>2, <4>1
    <3>2. a = b
      BY <1>4
    <3>. HIDE DEF x, y, a, b
    <3>. QED
      BY <3>1, <3>2
  <2>3. n \in Nat
    <3>1. (i \div per) + 1 \in DOMAIN units
      BY DEF IndicesOf
    <3>. QED
      BY <3>1, UnitsHaveItems, AreaBlocksAreNumbers
  <2>. HIDE DEF n, x, y, per, step
  <2>4. ASSUME NEW v \in Nat, NEW w \in Nat, v < w
        PROVE  v * step + step <= w * step
    <3>1. w * step = (v * step + step) + (w - 1 - v) * step
      BY <1>1
    <3>2. w - 1 - v \in Nat
      BY <2>4
    <3>3. (w - 1 - v) * step \in Nat /\ v * step \in Nat
      BY <1>1, <3>2
    <3>. QED
      BY <1>1, <3>1, <3>3
  <2>5. x * step \in Nat /\ y * step \in Nat
    BY <1>1, <2>2
  <2>6. x * step + step <= y * step \/ y * step + step <= x * step
    BY <2>2, <2>4
  <2>7. Extent(n + x * step, step) \cap Extent(n + y * step, step) = {}
    BY <1>1, <2>3, <2>5, <2>6 DEF Extent
  <2>. QED
    BY <2>1, <2>7
<1>. QED
  BY <1>3, <1>4

\* The units of a file have room for each of its data blocks, and the file
\* uses a part of each.
LEMMA IndicesOfLayout ==
  ASSUME NEW layout, IsLayout(layout), NEW units, IsUnits(units),
         Len(units) = layout.data_units_count,
         NEW i \in 0..(DataBlocksCount(layout) - 1)
  PROVE  /\ layout.category \in Categories \ {Inline}
         /\ i \in IndicesOf(layout.category, units)
         /\ UsedSize(layout, i) \in 1..DataBlockSize(layout.category)
         /\ i * DataBlockSize(layout.category) + UsedSize(layout, i) <= layout.file_size
<1>1. layout.category \in Categories /\ layout.file_size \in Nat
  BY DEF IsLayout, Layouts
<1>2. layout.category # Inline
  BY DEF DataBlocksCount
<1>3. i \in Nat /\ i * DataBlockSize(layout.category) < layout.file_size
  BY <1>2, CountedDataBlocks
<1>4. (i \div DataBlocksPerUnit(layout.category)) + 1 \in DOMAIN units
  BY <1>2, <1>3, DataBlockInUnit, UnitsHaveItems
<1>. DEFINE size == DataBlockSize(layout.category)
<1>5. size \in Nat \ {0}
  BY <1>1, UnitGeometry
<1>6. UsedSize(layout, i) = LesserOf(size, layout.file_size - i * size)
  <2>1. /\ ~(layout.file_size <= i * size)
        /\ UsedSize(layout, i) = UsedDataBlockSize(layout.file_size, i * size, size)
    <3>1. i * size \in Nat
      BY <1>3, <1>5
    <3>. QED
      BY <1>1, <1>3, <3>1 DEF UsedSize
  <2>. QED
    BY <2>1 DEF UsedDataBlockSize
<1>. HIDE DEF size
<1>7. i * size \in Nat /\ i * size < layout.file_size
  BY <1>3, <1>5 DEF size
<1>8. UsedSize(layout, i) \in 1..size /\ i * size + UsedSize(layout, i) <= layout.file_size
  BY <1>1, <1>5, <1>6, <1>7 DEF LesserOf
<1>. QED
  BY <1>1, <1>2, <1>3, <1>4, <1>8 DEF IndicesOf, size
-----------------------------------------------------------------------------
(* Loading and flushing a data block.                                      *)

\* The length and the domain of a sequence of bytes.
LEMMA LengthOfBytes ==
  ASSUME NEW n \in Nat, NEW bytes, IsBytes(bytes, n)
  PROVE  Len(bytes) = n /\ DOMAIN bytes = 1..n
<1>1. bytes = [k \in 1..n |-> bytes[k]]
  BY DEF IsBytes
<1>2. DOMAIN bytes = 1..n
  BY <1>1
<1>3. bytes \in [1..n -> {bytes[k] : k \in 1..n}]
  BY <1>1
<1>4. bytes \in Seq({bytes[k] : k \in 1..n})
  BY <1>3, SeqDef
<1>5. Len(bytes) \in Nat /\ DOMAIN bytes = 1..Len(bytes)
  BY <1>4, LenProperties
<1>. QED
  BY <1>2, <1>5

\* Flushing a data block changes its own hash and no other.
LEMMA LocationRehashed ==
  ASSUME NEW category \in Categories \ {Inline}, NEW units, IsUnits(units), HasHashes(category, units),
         NEW i \in IndicesOf(category, units), NEW hash
  PROVE  LET new == WithHash(category, units, i, hash)
         IN  /\ IsUnits(new) /\ Len(new) = Len(units) /\ HasHashes(category, new)
             /\ SameNumbers(new, units)
             /\ IndicesOf(category, new) = IndicesOf(category, units)
             /\ Location(category, new, i) =
                  [block_number |-> Location(category, units, i).block_number, hash |-> hash]
             /\ \A j \in IndicesOf(category, units) :
                  j # i => Location(category, new, j) = Location(category, units, j)
<1> DEFINE per == DataBlocksPerUnit(category)
           new == WithHash(category, units, i, hash)
           p == (i \div per) + 1
           r == (i % per) + 1
<1>1. per \in Nat \ {0}
  BY UnitGeometry
<1>2. i \in Nat /\ p \in DOMAIN units
  BY DEF IndicesOf
<1>3. IsUnits(new) /\ Len(new) = Len(units) /\ SameNumbers(new, units)
  BY WithHashKeepsNumbers
<1>4. new = [units EXCEPT ![p].hash[r] = hash]
  BY DEF WithHash
<1>5. r \in 1..per
  BY <1>1, <1>2
<1>6. DOMAIN new = DOMAIN units
  BY <1>4
<1>. HIDE DEF new
<1>7. ASSUME NEW u \in DOMAIN units, u # p PROVE new[u] = units[u]
  BY <1>4, <1>7
<1>8. /\ new[p].block_number = units[p].block_number
      /\ new[p].hash = [units[p].hash EXCEPT ![r] = hash]
  <2>1. DOMAIN units[p] = {"block_number", "hash"}
    BY <1>2, UnitsHaveItems
  <2>2. new[p] = [units[p] EXCEPT !.hash[r] = hash]
    BY <1>2, <1>4
  <2>. QED
    BY <2>1, <2>2
<1>9. DOMAIN units[p].hash = 1..per
  BY <1>2 DEF HasHashes
<1>10. /\ new[p].hash = [b \in 1..per |-> new[p].hash[b]]
       /\ new[p].hash[r] = hash
       /\ \A b \in 1..per : b # r => new[p].hash[b] = units[p].hash[b]
  BY <1>5, <1>8, <1>9
<1>11. HasHashes(category, new)
  <2>. SUFFICES ASSUME NEW u \in DOMAIN new
                PROVE  new[u].hash = [b \in 1..per |-> new[u].hash[b]]
    BY DEF HasHashes
  <2>1. CASE u = p
    BY <1>10, <2>1
  <2>2. CASE u # p
    BY <1>6, <1>7, <2>2 DEF HasHashes
  <2>. QED
    BY <2>1, <2>2
<1>12. IndicesOf(category, new) = IndicesOf(category, units)
  BY <1>6 DEF IndicesOf
<1>13. Location(category, new, i) =
         [block_number |-> Location(category, units, i).block_number, hash |-> hash]
  BY <1>8, <1>10 DEF Location
<1>14. ASSUME NEW j \in IndicesOf(category, units), j # i
       PROVE  Location(category, new, j) = Location(category, units, j)
  <2>. DEFINE q == (j \div per) + 1
              s == (j % per) + 1
  <2>1. j \in Nat /\ q \in DOMAIN units
    BY DEF IndicesOf
  <2>2. s \in 1..per
    BY <1>1, <2>1
  <2>3. q # p \/ s # r
    <3>. DEFINE a == i \div per
                b == j \div per
                x == i % per
                y == j % per
    <3>1. /\ i = a * per + x /\ x \in Nat /\ a \in Nat
          /\ j = b * per + y /\ y \in Nat /\ b \in Nat
      <4>. HIDE DEF per
      <4>1. ASSUME NEW z \in Nat
            PROVE  z \div per \in Nat /\ z % per \in 0..(per - 1) /\ z = (z \div per) * per + (z % per)
        BY <1>1
      <4>. QED
        BY <1>2, <2>1, <4>1
    <3>2. q = b + 1 /\ p = a + 1 /\ s = y + 1 /\ r = x + 1
      OBVIOUS
    <3>. HIDE DEF a, b, x, y, q, p, s, r
    <3>. QED
      BY <1>14, <3>1, <3>2
  <2>4. new[q].block_number = units[q].block_number /\ new[q].hash[s] = units[q].hash[s]
    <3>1. CASE q # p
      BY <1>7, <2>1, <3>1
    <3>2. CASE q = p
      BY <1>8, <1>10, <2>2, <2>3, <3>2
    <3>. QED
      BY <3>1, <3>2
  <2>. QED
    BY <2>4 DEF Location
<1>. QED
  BY <1>3, <1>11, <1>12, <1>13, <1>14 DEF new

\* A load depends on nothing but the blocks it loads.
LEMMA SameStored ==
  ASSUME NEW category \in Categories, NEW location, location.block_number \in Nat,
         Extent(location.block_number, DataBlockSize(category) \div BlockSize) \subseteq AreaBlocks,
         NEW size \in 0..DataBlockSize(category), NEW d, NEW e,
         SameOn(Extent(location.block_number, DataBlockSize(category) \div BlockSize), d, e)
  PROVE  Stored(e, location, size) = Stored(d, location, size)
<1> DEFINE n == location.block_number
           step == DataBlockSize(category) \div BlockSize
           length == AlignedSize(size)
<1>1. /\ step \in Nat \ {0} /\ DataBlockSize(category) = step * BlockSize
      /\ BlockSize \in Nat \ {0}
  BY UnitGeometry, PositiveGeometry
<1>2. length \in Nat /\ length <= step * BlockSize
  BY <1>1, AlignedSizes
<1>. HIDE DEF n, step, length
<1>3. ASSUME NEW k \in 1..length PROVE e[n * BlockSize + k - 1] = d[n * BlockSize + k - 1]
  <2>. DEFINE a == n * BlockSize + k - 1
  <2>1. n * BlockSize \in Nat /\ step * BlockSize \in Nat
    BY <1>1 DEF n
  <2>2. a \in Nat /\ a \in (n * BlockSize)..(n * BlockSize + step * BlockSize - 1)
    BY <1>2, <2>1
  <2>. HIDE DEF a
  <2>3. a \div BlockSize \in Extent(n, step)
    BY <1>1, <2>2, AddressOfBlock DEF n
  <2>4. a \in Addresses
    BY <2>2, <2>3, AddressesOfArea DEF n, step
  <2>5. e[a] = d[a]
    BY <2>3, <2>4 DEF SameOn, n, step
  <2>. QED
    BY <2>5 DEF a
<1>4. BytesAt(e, n, length) = BytesAt(d, n, length)
  BY <1>3 DEF BytesAt
<1>. QED
  BY <1>4 DEF Stored, n, length

\* The same of a data block of given units.
LEMMA SameDataBlock ==
  ASSUME NEW category \in Categories \ {Inline}, NEW units, IsUnits(units),
         NEW i \in IndicesOf(category, units), BlocksOf(category, units, <<>>) \subseteq AreaBlocks,
         NEW size \in 0..DataBlockSize(category), NEW d, NEW e,
         SameOn(DataBlockExtent(category, units, i), d, e)
  PROVE  Stored(e, Location(category, units, i), size) = Stored(d, Location(category, units, i), size)
<1>1. /\ Location(category, units, i).block_number \in Nat
      /\ DataBlockExtent(category, units, i) \subseteq AreaBlocks
  BY DataBlockPlace
<1>. DEFINE location == Location(category, units, i)
<1>2. DataBlockExtent(category, units, i) =
        Extent(location.block_number, DataBlockSize(category) \div BlockSize)
  BY DEF DataBlockExtent
<1>. HIDE DEF location
<1>3. /\ location.block_number \in Nat
      /\ Extent(location.block_number, DataBlockSize(category) \div BlockSize) \subseteq AreaBlocks
      /\ SameOn(Extent(location.block_number, DataBlockSize(category) \div BlockSize), d, e)
  BY <1>1, <1>2 DEF location
<1>4. Stored(e, location, size) = Stored(d, location, size)
  BY <1>3, SameStored
<1>. QED
  BY <1>4 DEF location

\* A flush writes into the data block's own blocks.
LEMMA FlushedInPlace ==
  ASSUME NEW category \in Categories \ {Inline}, NEW units, IsUnits(units),
         NEW i \in IndicesOf(category, units), BlocksOf(category, units, <<>>) \subseteq AreaBlocks,
         NEW size \in 0..DataBlockSize(category),
         NEW data, IsBytes(data, AlignedSize(size)),
         NEW d, d = [a \in Addresses |-> d[a]],
         NEW e, e = FlushedOn(d, Location(category, units, i), data)
  PROVE  /\ e = [a \in Addresses |-> e[a]]
         /\ \A blocks : blocks \cap DataBlockExtent(category, units, i) = {} => SameOn(blocks, d, e)
         /\ BytesAt(e, Location(category, units, i).block_number, AlignedSize(size)) = data
<1> DEFINE n == Location(category, units, i).block_number
           step == DataBlockSize(category) \div BlockSize
           length == AlignedSize(size)
<1>1. /\ step \in Nat \ {0} /\ DataBlockSize(category) = step * BlockSize
      /\ BlockSize \in Nat \ {0}
  BY UnitGeometry, PositiveGeometry
<1>2. length \in Nat /\ length <= step * BlockSize
  BY <1>1, AlignedSizes
<1>3. n \in Nat /\ DataBlockExtent(category, units, i) = Extent(n, step)
      /\ Extent(n, step) \subseteq AreaBlocks
  BY DataBlockPlace DEF DataBlockExtent
<1>4. DOMAIN d = Addresses
  OBVIOUS
<1>5. Len(data) = length
  BY <1>2, LengthOfBytes
<1>6. e = [a \in Addresses |-> IF a \in (n * BlockSize)..(n * BlockSize + length - 1)
                                 THEN data[a - n * BlockSize + 1] ELSE d[a]]
  BY <1>4, <1>5 DEF FlushedOn
<1>. HIDE DEF n, step, length
<1>7. n * BlockSize \in Nat /\ step * BlockSize \in Nat
  BY <1>1, <1>3
<1>8. ASSUME NEW a \in (n * BlockSize)..(n * BlockSize + length - 1)
      PROVE  a \in Addresses /\ a \div BlockSize \in Extent(n, step)
  <2>1. a \in Nat /\ a \in (n * BlockSize)..(n * BlockSize + step * BlockSize - 1)
    BY <1>2, <1>7
  <2>2. a \div BlockSize \in Extent(n, step)
    BY <1>1, <1>3, <2>1, AddressOfBlock
  <2>. QED
    BY <1>3, <2>1, <2>2, AddressesOfArea
<1>9. e = [a \in Addresses |-> e[a]]
  BY <1>6
<1>10. ASSUME NEW blocks, blocks \cap DataBlockExtent(category, units, i) = {}
       PROVE  SameOn(blocks, d, e)
  <2>. SUFFICES ASSUME NEW a \in Addresses, a \div BlockSize \in blocks PROVE e[a] = d[a]
    BY DEF SameOn
  <2>1. a \div BlockSize \notin Extent(n, step)
    BY <1>3, <1>10
  <2>2. a \notin (n * BlockSize)..(n * BlockSize + length - 1)
    BY <1>8, <2>1
  <2>. QED
    BY <1>6, <2>2
<1>11. BytesAt(e, n, length) = data
  <2>1. ASSUME NEW k \in 1..length PROVE e[n * BlockSize + k - 1] = data[k]
    <3>. DEFINE a == n * BlockSize + k - 1
    <3>1. a \in (n * BlockSize)..(n * BlockSize + length - 1) /\ a - n * BlockSize + 1 = k
      BY <1>2, <1>7
    <3>. HIDE DEF a
    <3>2. a \in Addresses
      BY <1>8, <3>1
    <3>3. e[a] = data[k]
      BY <1>6, <3>1, <3>2
    <3>. QED
      BY <3>3 DEF a
  <2>. QED
    BY <2>1 DEF BytesAt, IsBytes, length
<1>. QED
  BY <1>9, <1>10, <1>11 DEF n, length

\* What was flushed to data block i is what is loaded from there, and every
\* other data block loads as before.
LEMMA FlushedThenLoaded ==
  ASSUME NEW category \in Categories \ {Inline}, NEW units, IsUnits(units), HasHashes(category, units),
         Apart(category, units, <<>>), BlocksOf(category, units, <<>>) \subseteq AreaBlocks,
         NEW i \in IndicesOf(category, units),
         NEW size \in 0..DataBlockSize(category), NEW data, IsBytes(data, AlignedSize(size)),
         NEW d, d = [a \in Addresses |-> d[a]],
         NEW e, e = FlushedOn(d, Location(category, units, i), data),
         NEW new, new = WithHash(category, units, i, data)
  PROVE  /\ Stored(e, Location(category, new, i), size) = data
         /\ \A j \in IndicesOf(category, units), other \in 0..DataBlockSize(category) :
              j # i => Stored(e, Location(category, new, j), other)
                         = Stored(d, Location(category, units, j), other)
<1>1. /\ Location(category, new, i) =
           [block_number |-> Location(category, units, i).block_number, hash |-> data]
      /\ \A j \in IndicesOf(category, units) :
           j # i => Location(category, new, j) = Location(category, units, j)
  BY LocationRehashed
<1>2. /\ \A blocks : blocks \cap DataBlockExtent(category, units, i) = {} => SameOn(blocks, d, e)
      /\ BytesAt(e, Location(category, units, i).block_number, AlignedSize(size)) = data
  BY FlushedInPlace
<1>3. Stored(e, Location(category, new, i), size) = data
  BY <1>1, <1>2 DEF Stored
<1>4. ASSUME NEW j \in IndicesOf(category, units), NEW other \in 0..DataBlockSize(category), j # i
      PROVE  Stored(e, Location(category, new, j), other)
               = Stored(d, Location(category, units, j), other)
  <2>1. DataBlockExtent(category, units, j) \cap DataBlockExtent(category, units, i) = {}
    BY <1>4, DataBlocksApart
  <2>2. SameOn(DataBlockExtent(category, units, j), d, e)
    BY <1>2, <2>1
  <2>3. Stored(e, Location(category, units, j), other) = Stored(d, Location(category, units, j), other)
    BY <2>2, SameDataBlock
  <2>. QED
    BY <1>1, <1>4, <2>3
<1>. QED
  BY <1>3, <1>4
-----------------------------------------------------------------------------
(* The bytes of a file and its data blocks.                                *)

\* Byte m of a file is byte k of its data block i.
LEMMA ByteInDataBlock ==
  ASSUME NEW layout, IsLayout(layout), layout.category # Inline
  PROVE  LET size == DataBlockSize(layout.category)
         IN  /\ size \in Nat \ {0}
             /\ \A i \in 0..(DataBlocksCount(layout) - 1) :
                  /\ UsedSize(layout, i) \in 1..size
                  /\ \A k \in 1..UsedSize(layout, i) :
                       /\ i * size + k \in 1..layout.file_size
                       /\ (i * size + k - 1) \div size = i
                       /\ ((i * size + k - 1) % size) + 1 = k
             /\ \A m \in 1..layout.file_size :
                  /\ (m - 1) \div size \in 0..(DataBlocksCount(layout) - 1)
                  /\ ((m - 1) % size) + 1 \in 1..UsedSize(layout, (m - 1) \div size)
                  /\ m = ((m - 1) \div size) * size + (((m - 1) % size) + 1)
<1> DEFINE size == DataBlockSize(layout.category)
<1>1. size \in Nat \ {0} /\ layout.file_size \in Nat
  BY UnitGeometry DEF IsLayout, Layouts
<1>2. /\ DataBlocksCount(layout) \in Nat
      /\ \A i \in 0..(DataBlocksCount(layout) - 1) : i * size < layout.file_size
      /\ \A k \in 0..(layout.file_size - 1) : k \div size \in 0..(DataBlocksCount(layout) - 1)
  BY CountedDataBlocks
<1>3. ASSUME NEW i \in 0..(DataBlocksCount(layout) - 1)
      PROVE  /\ i \in Nat /\ i * size \in Nat /\ i * size < layout.file_size
             /\ UsedSize(layout, i) = LesserOf(size, layout.file_size - i * size)
  <2>1. i \in Nat /\ i * size \in Nat /\ i * size < layout.file_size
    BY <1>1, <1>2
  <2>. QED
    BY <1>1, <2>1 DEF UsedSize, UsedDataBlockSize
<1>. HIDE DEF size
<1>4. ASSUME NEW i \in 0..(DataBlocksCount(layout) - 1)
      PROVE  /\ UsedSize(layout, i) \in 1..size
             /\ i * size + UsedSize(layout, i) <= layout.file_size
  BY <1>1, <1>3 DEF LesserOf
<1>5. ASSUME NEW i \in 0..(DataBlocksCount(layout) - 1), NEW k \in 1..UsedSize(layout, i)
      PROVE  /\ i * size + k \in 1..layout.file_size
             /\ (i * size + k - 1) \div size = i
             /\ ((i * size + k - 1) % size) + 1 = k
  <2>1. i \in Nat /\ i * size \in Nat /\ k \in 1..size /\ i * size + k <= layout.file_size
    BY <1>1, <1>3, <1>4
  <2>2. i * size + k \in 1..layout.file_size
    BY <1>1, <2>1
  <2>. DEFINE m == i * size + k - 1
              q == m \div size
              r == m % size
  <2>3. m \in Nat /\ q \in Nat /\ r \in 0..(size - 1) /\ m = q * size + r
    BY <1>1, <2>1
  <2>4. m = i * size + (k - 1) /\ k - 1 \in 0..(size - 1)
    <3>1. \A b \in Nat, c \in 1..size : b + c - 1 = b + (c - 1) /\ c - 1 \in 0..(size - 1)
      BY <1>1
    <3>. QED
      BY <2>1, <3>1
  <2>. HIDE DEF q, r, m
  <2>5. ASSUME NEW x \in Nat, NEW y \in Nat, x < y PROVE x * size + size <= y * size
    <3>1. y * size = (x * size + size) + (y - 1 - x) * size
      BY <1>1
    <3>2. y - 1 - x \in Nat
      BY <2>5
    <3>3. (y - 1 - x) * size \in Nat /\ x * size \in Nat
      BY <1>1, <3>2
    <3>. QED
      BY <1>1, <3>1, <3>3
  <2>6. q * size \in Nat /\ i * size \in Nat
    BY <1>1, <2>1, <2>3
  <2>7. q = i
    <3>1. ~(q < i)
      BY <1>1, <2>1, <2>3, <2>4, <2>5, <2>6
    <3>2. ~(i < q)
      BY <1>1, <2>1, <2>3, <2>4, <2>5, <2>6
    <3>. QED
      BY <2>1, <2>3, <3>1, <3>2
  <2>8. r = k - 1
    BY <2>3, <2>4, <2>6, <2>7
  <2>. QED
    BY <2>1, <2>2, <2>7, <2>8 DEF q, r, m
<1>6. ASSUME NEW m \in 1..layout.file_size
      PROVE  /\ (m - 1) \div size \in 0..(DataBlocksCount(layout) - 1)
             /\ ((m - 1) % size) + 1 \in 1..UsedSize(layout, (m - 1) \div size)
             /\ m = ((m - 1) \div size) * size + (((m - 1) % size) + 1)
  <2>. DEFINE i == (m - 1) \div size
              r == (m - 1) % size
  <2>1. m - 1 \in 0..(layout.file_size - 1)
    BY <1>1
  <2>2. i \in 0..(DataBlocksCount(layout) - 1)
    BY <1>2, <2>1 DEF size
  <2>3. i \in Nat /\ r \in 0..(size - 1) /\ m - 1 = i * size + r
    BY <1>1, <2>1
  <2>. HIDE DEF i, r
  <2>4. UsedSize(layout, i) = LesserOf(size, layout.file_size - i * size) /\ i * size \in Nat
    BY <1>3, <2>2
  <2>5. r + 1 \in 1..UsedSize(layout, i)
    BY <1>1, <2>1, <2>3, <2>4 DEF LesserOf
  <2>6. m = i * size + (r + 1)
    BY <2>3, <2>4
  <2>. QED
    BY <2>2, <2>5, <2>6 DEF i, r
<1>. QED
  BY <1>1, <1>4, <1>5, <1>6 DEF size

\* A file reads as these bytes if each of its data blocks holds its share.
LEMMA ReadsEachBlock ==
  ASSUME NEW layout, IsLayout(layout), layout.category # Inline,
         NEW d, NEW payload, NEW units, NEW bytes, IsBytes(bytes, layout.file_size)
  PROVE  Contents(d, layout, payload, units) = bytes <=> ReadsAll(d, layout, units, bytes)
<1> DEFINE size == DataBlockSize(layout.category)
           all == Contents(d, layout, payload, units)
<1>1. /\ size \in Nat \ {0}
      /\ \A i \in 0..(DataBlocksCount(layout) - 1) :
           \A k \in 1..UsedSize(layout, i) :
              /\ i * size + k \in 1..layout.file_size
              /\ (i * size + k - 1) \div size = i
              /\ ((i * size + k - 1) % size) + 1 = k
      /\ \A m \in 1..layout.file_size :
           /\ (m - 1) \div size \in 0..(DataBlocksCount(layout) - 1)
           /\ ((m - 1) % size) + 1 \in 1..UsedSize(layout, (m - 1) \div size)
           /\ m = ((m - 1) \div size) * size + (((m - 1) % size) + 1)
  BY ByteInDataBlock
<1>2. all = [m \in 1..layout.file_size |->
               DataBlockOf(d, layout, units, (m - 1) \div size)[((m - 1) % size) + 1]]
  BY DEF Contents
<1>. HIDE DEF size, all
<1>3. ASSUME all = bytes PROVE ReadsAll(d, layout, units, bytes)
  <2>. SUFFICES ASSUME NEW i \in 0..(DataBlocksCount(layout) - 1), NEW k \in 1..UsedSize(layout, i)
                PROVE  DataBlockOf(d, layout, units, i)[k] = bytes[i * size + k]
    BY DEF ReadsAll, Reads, size
  <2>. DEFINE m == i * size + k
  <2>1. m \in 1..layout.file_size /\ (m - 1) \div size = i /\ ((m - 1) % size) + 1 = k
    BY <1>1
  <2>. HIDE DEF m
  <2>2. all[m] = DataBlockOf(d, layout, units, i)[k]
    BY <1>2, <2>1
  <2>. QED
    BY <1>3, <2>2 DEF m
<1>4. ASSUME ReadsAll(d, layout, units, bytes) PROVE all = bytes
  <2>1. ASSUME NEW m \in 1..layout.file_size PROVE all[m] = bytes[m]
    <3>. DEFINE i == (m - 1) \div size
                k == ((m - 1) % size) + 1
    <3>1. i \in 0..(DataBlocksCount(layout) - 1) /\ k \in 1..UsedSize(layout, i) /\ m = i * size + k
      BY <1>1
    <3>2. all[m] = DataBlockOf(d, layout, units, i)[k]
      BY <1>2
    <3>. HIDE DEF i, k
    <3>3. DataBlockOf(d, layout, units, i)[k] = bytes[i * size + k]
      BY <1>4, <3>1 DEF ReadsAll, Reads, size
    <3>. QED
      BY <3>1, <3>2, <3>3
  <2>2. all = [m \in 1..layout.file_size |-> all[m]]
    BY <1>2
  <2>. QED
    BY <2>1, <2>2 DEF IsBytes
<1>. QED
  BY <1>3, <1>4 DEF all

\* What is read has the length of the file.
LEMMA ContentsAreBytes ==
  ASSUME NEW layout, NEW d, NEW payload, NEW units,
         layout.category = Inline => IsBytes(payload, layout.file_size)
  PROVE  IsBytes(Contents(d, layout, payload, units), layout.file_size)
  BY DEF IsBytes, Contents

\* A file does not change with blocks that are not its own.
LEMMA SameContents ==
  ASSUME NEW layout, IsLayout(layout), NEW units, IsUnits(units),
         Len(units) = layout.data_units_count,
         BlocksOf(layout.category, units, <<>>) \subseteq AreaBlocks,
         NEW d, NEW e, SameOn(BlocksOf(layout.category, units, <<>>), d, e), NEW payload
  PROVE  /\ Contents(e, layout, payload, units) = Contents(d, layout, payload, units)
         /\ \A i \in 0..(DataBlocksCount(layout) - 1) :
              DataBlockOf(e, layout, units, i) = DataBlockOf(d, layout, units, i)
<1>1. ASSUME NEW i \in 0..(DataBlocksCount(layout) - 1)
      PROVE  DataBlockOf(e, layout, units, i) = DataBlockOf(d, layout, units, i)
  <2>1. /\ layout.category \in Categories \ {Inline}
        /\ i \in IndicesOf(layout.category, units)
        /\ UsedSize(layout, i) \in 0..DataBlockSize(layout.category)
    BY IndicesOfLayout
  <2>2. DataBlockExtent(layout.category, units, i) \subseteq BlocksOf(layout.category, units, <<>>)
    BY <2>1, DataBlockPlace
  <2>3. SameOn(DataBlockExtent(layout.category, units, i), d, e)
    BY <2>2 DEF SameOn
  <2>. QED
    BY <2>1, <2>3, SameDataBlock DEF DataBlockOf
<1>2. CASE layout.category = Inline
  BY <1>1, <1>2 DEF Contents
<1>3. CASE layout.category # Inline
  <2>. DEFINE size == DataBlockSize(layout.category)
  <2>1. \A m \in 1..layout.file_size : (m - 1) \div size \in 0..(DataBlocksCount(layout) - 1)
    BY <1>3, ByteInDataBlock
  <2>. HIDE DEF size
  <2>2. ASSUME NEW m \in 1..layout.file_size
        PROVE  DataBlockOf(e, layout, units, (m - 1) \div size)
                 = DataBlockOf(d, layout, units, (m - 1) \div size)
    BY <1>1, <2>1
  <2>3. Contents(e, layout, payload, units) = Contents(d, layout, payload, units)
    BY <1>3, <2>2 DEF Contents, size
  <2>. QED
    BY <1>1, <2>3
<1>. QED
  BY <1>2, <1>3
-----------------------------------------------------------------------------
(* The file of a state.                                                    *)

\* The file as its user sees it, the contents ByteFile speaks of.
File == IF call.step = "idle" THEN ReadBytes(metadata) ELSE call.before

\* A step of ByteFile, or none.
PromiseStep == Promise!Next \/ (File' = File /\ outcome' = outcome)

\* Every block is the area's.
LEMMA BlocksInArea ==
  ASSUME FileResizeInv
  PROVE  /\ HeldBlocks \subseteq AreaBlocks /\ UncommittedBlocks \subseteq AreaBlocks
         /\ HeldBlocks \cap UncommittedBlocks = {} /\ HeldBlocks \cap RetiredBlocks = {}
  BY OneFileOwnership DEF FileResizeInv

\* What MetadataInv says of the file's units.
LEMMA FileFacts ==
  ASSUME FileResizeInv
  PROVE  /\ MetadataInv
         /\ IsLayout(metadata.layout)
         /\ metadata.layout.category \in Categories /\ metadata.layout.file_size \in Nat
         /\ IsUnits(UnitsOf(metadata))
         /\ Len(UnitsOf(metadata)) = metadata.layout.data_units_count
         /\ Apart(metadata.layout.category, UnitsOf(metadata), <<>>)
         /\ BlocksOf(metadata.layout.category, UnitsOf(metadata), <<>>) \subseteq HeldBlocks
         /\ BlocksOf(metadata.layout.category, UnitsOf(metadata), <<>>) \subseteq AreaBlocks
<1>1. MetadataInv /\ IsEntry(metadata)
  BY DEF FileResizeInv, StructureInv, MetadataInv
<1>2. /\ IsLayout(metadata.layout)
      /\ metadata.layout.category \in Categories /\ metadata.layout.file_size \in Nat
  BY <1>1, EntryFacts DEF IsEntry
<1>3. IsUnits(UnitsOf(metadata)) /\ Len(UnitsOf(metadata)) = metadata.layout.data_units_count
  BY <1>1, UnitsOfEntry
<1>4. Apart(metadata.layout.category, UnitsOf(metadata), metadata.metadata_blocks)
  BY <1>1 DEF MetadataInv
<1>5. Apart(metadata.layout.category, UnitsOf(metadata), <<>>)
  BY <1>4, ApartOfUnits
<1>6. BlocksOf(metadata.layout.category, UnitsOf(metadata), <<>>) \subseteq HeldBlocks
  BY BlocksOfParts DEF HeldBlocks
<1>. QED
  BY <1>1, <1>2, <1>3, <1>5, <1>6, BlocksInArea

\* The bytes an entry's metadata leads to, of any entry.
LEMMA BytesOfEntry ==
  ASSUME NEW entry, IsLayout(entry.layout)
  PROVE  ReadBytes(entry) = Contents(disk, entry.layout, entry.payload, UnitsOf(entry))
<1>1. CASE entry.layout.category = Inline
  BY <1>1 DEF ReadBytes, Contents
<1>2. CASE entry.layout.category # Inline
  <2>. DEFINE layout == entry.layout
              size == DataBlockSize(layout.category)
              units == UnitsOf(entry)
              block == [i \in 0..(DataBlocksCount(layout) - 1) |->
                          Fetch(Location(layout.category, units, i), UsedSize(layout, i))]
  <2>1. \A m \in 1..layout.file_size : (m - 1) \div size \in 0..(DataBlocksCount(layout) - 1)
    BY <1>2, ByteInDataBlock
  <2>2. \A i : Fetch(Location(layout.category, units, i), UsedSize(layout, i))
                 = DataBlockOf(disk, layout, units, i)
    BY DEF Fetch, DataBlockOf, Stored, BytesAt
  <2>3. \A m \in 1..layout.file_size :
          block[(m - 1) \div size] = DataBlockOf(disk, layout, units, (m - 1) \div size)
    BY <2>1, <2>2
  <2>4. ReadBytes(entry) =
          [m \in 1..layout.file_size |-> block[(m - 1) \div size][((m - 1) % size) + 1]]
    BY <1>2 DEF ReadBytes
  <2>5. Contents(disk, layout, entry.payload, units) =
          [m \in 1..layout.file_size |->
             DataBlockOf(disk, layout, units, (m - 1) \div size)[((m - 1) % size) + 1]]
    BY <1>2 DEF Contents
  <2>. HIDE DEF block, size, units, layout
  <2>6. ReadBytes(entry) = Contents(disk, layout, entry.payload, units)
    BY <2>3, <2>4, <2>5
  <2>. QED
    BY <2>6 DEF layout, units
<1>. QED
  BY <1>1, <1>2

\* The bytes of the file, told by Contents.
LEMMA FileBytes ==
  ASSUME MetadataInv
  PROVE  ReadBytes(metadata) = Contents(disk, metadata.layout, metadata.payload, UnitsOf(metadata))
<1>1. IsLayout(metadata.layout)
  BY DEF MetadataInv, IsEntry
<1>. QED
  BY <1>1, BytesOfEntry

\* The bytes of the file after a step.
LEMMA NextFileBytes ==
  ASSUME MetadataInv'
  PROVE  ReadBytes(metadata)'
           = Contents(disk', metadata'.layout, metadata'.payload, UnitsOf(metadata)')
<1>1. IsLayout(metadata'.layout)
  BY DEF MetadataInv, IsEntry
<1>2. CASE metadata'.layout.category = Inline
  BY <1>2 DEF ReadBytes, Contents
<1>3. CASE metadata'.layout.category # Inline
  <2>. DEFINE layout == metadata'.layout
              size == DataBlockSize(layout.category)
              units == UnitsOf(metadata)'
              block == [i \in 0..(DataBlocksCount(layout) - 1) |->
                          DataBlockOf(disk', layout, units, i)]
  <2>1. \A m \in 1..layout.file_size : (m - 1) \div size \in 0..(DataBlocksCount(layout) - 1)
    BY <1>1, <1>3, ByteInDataBlock
  <2>2. \A m \in 1..layout.file_size :
          block[(m - 1) \div size] = DataBlockOf(disk', layout, units, (m - 1) \div size)
    BY <2>1
  <2>3. ReadBytes(metadata)' =
          [m \in 1..layout.file_size |-> block[(m - 1) \div size][((m - 1) % size) + 1]]
    BY <1>3 DEF ReadBytes, Fetch, DataBlockOf, Stored, BytesAt
  <2>4. Contents(disk', layout, metadata'.payload, units) =
          [m \in 1..layout.file_size |->
             DataBlockOf(disk', layout, units, (m - 1) \div size)[((m - 1) % size) + 1]]
    BY <1>3 DEF Contents
  <2>. HIDE DEF block, size, units, layout
  <2>5. ReadBytes(metadata)' = Contents(disk', layout, metadata'.payload, units)
    BY <2>2, <2>3, <2>4
  <2>. QED
    BY <2>5 DEF layout, units
<1>. QED
  BY <1>2, <1>3

\* The file has as many bytes as its layout says.
LEMMA FileBytesAreBytes ==
  ASSUME FileResizeInv, DiskInv
  PROVE  /\ IsBytes(ReadBytes(metadata), metadata.layout.file_size)
         /\ Len(ReadBytes(metadata)) = metadata.layout.file_size
         /\ DOMAIN ReadBytes(metadata) = 1..metadata.layout.file_size
<1>1. MetadataInv /\ metadata.layout.file_size \in Nat
  BY FileFacts
<1>2. IsBytes(ReadBytes(metadata), metadata.layout.file_size)
  BY <1>1, FileBytes, ContentsAreBytes DEF DiskInv
<1>. QED
  BY <1>1, <1>2, LengthOfBytes

\* The file reads the same as long as nothing it owns changes.
LEMMA FileKept ==
  ASSUME FileResizeInv, MetadataInv', metadata' = metadata,
         UnitsOf(metadata)' = UnitsOf(metadata), SameOn(HeldBlocks, disk, disk')
  PROVE  ReadBytes(metadata)' = ReadBytes(metadata)
<1>1. SameOn(BlocksOf(metadata.layout.category, UnitsOf(metadata), <<>>), disk, disk')
  BY FileFacts DEF SameOn
<1>2. Contents(disk', metadata.layout, metadata.payload, UnitsOf(metadata))
        = Contents(disk, metadata.layout, metadata.payload, UnitsOf(metadata))
  BY <1>1, FileFacts, SameContents
<1>. QED
  BY <1>2, FileFacts, FileBytes, NextFileBytes

\* Erasing blocks leaves the others as they are.
LEMMA ErasedElsewhere ==
  ASSUME DiskInv, NEW blocks, disk' = Erased(blocks)
  PROVE  /\ disk' = [a \in Addresses |-> disk'[a]]
         /\ \A others : others \cap blocks = {} => SameOn(others, disk, disk')
<1>1. disk' = [a \in Addresses |-> IF a \div BlockSize \in blocks THEN Junk ELSE disk[a]]
  BY DEF DiskInv, Erased
<1>2. disk' = [a \in Addresses |-> disk'[a]]
  BY <1>1
<1>3. ASSUME NEW others, others \cap blocks = {} PROVE SameOn(others, disk, disk')
  BY <1>1, <1>3 DEF SameOn
<1>. QED
  BY <1>2, <1>3

\* DiskInv while the file's metadata stays what it is.
LEMMA DiskInvKept ==
  ASSUME DiskInv, metadata' = metadata, UnitsOf(metadata)' = UnitsOf(metadata),
         disk' = [a \in Addresses |-> disk'[a]],
         Resizing' => HasHashes(call'.target.category, call'.units)
  PROVE  DiskInv'
  BY DEF DiskInv

\* Between calls only DiskInv says anything.
LEMMA IdleContents ==
  ASSUME call.step = "idle", DiskInv
  PROVE  ContentsInv
  BY DEF ContentsInv, RequestInv, OldBytesInv, CopyInv, TurnOverInv, NewBytesInv, WritingInv, Resizing

\* The same after a step that ends a call.
LEMMA NextIdleContents ==
  ASSUME call'.step = "idle", DiskInv'
  PROVE  ContentsInv'
  BY DEF ContentsInv, RequestInv, OldBytesInv, CopyInv, TurnOverInv, NewBytesInv, WritingInv, Resizing
-----------------------------------------------------------------------------
(* The invariant about contents holds initially and is preserved by each   *)
(* step, and each step is one of ByteFile or none.                         *)

\* The empty file.
LEMMA InitEstablishesContents == Init => ContentsInv /\ Promise!Init
<1>. SUFFICES ASSUME Init PROVE ContentsInv /\ Promise!Init
  OBVIOUS
<1>1. /\ metadata.layout = BuildLayout(0, Inline) /\ metadata.payload = <<>> /\ metadata.units = <<>>
      /\ call.step = "idle" /\ outcome = "ok"
      /\ disk = [a \in 0..(Cardinality(AreaBlocks) * BlockSize - 1) |-> Junk]
  BY DEF Init, Idle
<1>2. metadata.layout.category = Inline /\ metadata.layout.file_size = 0
  BY <1>1 DEF BuildLayout
<1>3. UnitsOf(metadata) = <<>> /\ ReadBytes(metadata) = <<>>
  BY <1>1, <1>2 DEF UnitsOf, ReadBytes, Inline, ClusterMetadataBlocks
<1>4. IsBytes(metadata.payload, metadata.layout.file_size)
  BY <1>1, <1>2 DEF IsBytes
<1>5. disk = [a \in Addresses |-> disk[a]]
  BY <1>1 DEF Addresses
<1>6. HasHashes(metadata.layout.category, UnitsOf(metadata))
  BY <1>3, NoUnits DEF HasHashes
<1>7. DiskInv
  BY <1>1, <1>4, <1>5, <1>6 DEF DiskInv, Resizing
<1>. QED
  BY <1>1, <1>3, <1>7, IdleContents DEF Promise!Init

\* A step that changes no storage changes no file.
LEMMA QuietFile ==
  ASSUME UNCHANGED <<metadata, disk, metadata_disk>>
  PROVE  UnitsOf(metadata)' = UnitsOf(metadata) /\ ReadBytes(metadata)' = ReadBytes(metadata)
  BY DEF UnitsOf, ReadBytes, Fetch

\* A file that fits into its entry and could not before has shrunk.
LEMMA InlineAfterRebuild ==
  ASSUME NEW old_size \in Nat, NEW size \in Nat, NEW category \in Categories,
         Calculate(old_size, size, category).category = Inline, category # Inline
  PROVE  size <= old_size
<1>. SUFFICES ASSUME size > old_size PROVE FALSE
  OBVIOUS
<1>1. MinimumCategory(size) \in 0..4 /\ category \in 0..4
  BY DEF MinimumCategory, Categories, Inline, Blocks, LargeBlocks, Clusters, ClusterMetadataBlocks
<1>2. Calculate(old_size, size, category).category = GreaterOf(MinimumCategory(size), category)
  BY DEF Calculate, BuildLayout
<1>. QED
  BY <1>1, <1>2 DEF GreaterOf, Inline

\* The start of a resize, alone or on behalf of a write.
LEMMA StartedContents ==
  ASSUME FileResizeInv, FileResizeInv', ContentsInv, call.step = "idle",
         NEW size \in Nat, NEW write, call' = Started(size, write),
         UNCHANGED <<metadata, disk, metadata_disk, outcome>>,
         IF write = NoWrite THEN size \in FileSizes
         ELSE /\ write \in WriteExtents
              /\ write.pos <= metadata.layout.file_size
              /\ write.pos + write.n = size
              /\ metadata.layout.file_size < size
  PROVE  ContentsInv' /\ PromiseStep
<1> DEFINE old == metadata.layout
           target == Calculate(old.file_size, size, old.category)
           mode == IF target.category # old.category \/ target.category = ClusterMetadataBlocks
                     THEN "rebuild"
                   ELSE IF target.category = Inline THEN "inline" ELSE "in_place"
<1>1. /\ MetadataInv /\ IsLayout(metadata.layout)
      /\ metadata.layout.category \in Categories /\ metadata.layout.file_size \in Nat
  BY FileFacts
<1>2. UnitsOf(metadata)' = UnitsOf(metadata) /\ ReadBytes(metadata)' = ReadBytes(metadata)
  BY QuietFile
<1>3. DiskInv
  BY DEF ContentsInv
<1>4. target.file_size = size
  BY <1>1, CalculateIsLayout
<1>5. call' = [step |-> IF mode = "inline" THEN "replace_metadata" ELSE "alloc_data_units",
               mode |-> mode,
               target |-> target,
               payload |-> IF mode = "inline" THEN ResizedTo(metadata.payload, size) ELSE <<>>,
               units |-> <<>>,
               metadata_blocks |-> <<>>,
               index |-> 0,
               old |-> metadata,
               old_units |-> UnitsOf(metadata),
               before |-> ReadBytes(metadata),
               write |-> write]
  BY DEF Started
<1>6. mode = "rebuild" /\ target.category = Inline => size <= old.file_size
  BY <1>1, InlineAfterRebuild DEF Inline, ClusterMetadataBlocks
<1>7. mode = "inline" => target.category = Inline /\ old.category = Inline
  OBVIOUS
<1>8. mode \in {"rebuild", "inline", "in_place"}
  OBVIOUS
<1>. HIDE DEF target, mode
<1>9. /\ call'.step = IF mode = "inline" THEN "replace_metadata" ELSE "alloc_data_units"
      /\ call'.mode = mode /\ call'.target = target /\ call'.index = 0
      /\ call'.payload = IF mode = "inline" THEN ResizedTo(metadata.payload, size) ELSE <<>>
      /\ call'.units = <<>> /\ call'.old = metadata
      /\ call'.before = ReadBytes(metadata) /\ call'.write = write
  BY <1>5
<1>10. Resizing' /\ ~Committed' /\ call'.step \in {"alloc_data_units", "replace_metadata"}
  BY <1>9 DEF Resizing, Committed
<1>11. DiskInv'
  <2>1. HasHashes(call'.target.category, call'.units)
    BY <1>9, NoUnits DEF HasHashes
  <2>. QED
    BY <1>2, <1>3, <2>1 DEF DiskInv
<1>12. RequestInv'
  <2>1. IsBytes(call'.before, call'.old.layout.file_size)
    BY <1>3, <1>9, FileBytesAreBytes
  <2>. QED
    BY <1>4, <1>6, <1>9, <2>1 DEF RequestInv
<1>13. OldBytesInv'
  BY <1>2, <1>9 DEF OldBytesInv
<1>14. CopyInv'
  <2>1. CASE mode = "inline"
    <3>1. Contents(disk', call'.target, call'.payload, call'.units) = ResizedTo(metadata.payload, size)
      BY <1>7, <1>9, <2>1 DEF Contents
    <3>2. ReadBytes(metadata) = metadata.payload
      BY <1>7, <2>1 DEF ReadBytes
    <3>3. NewBytes' = ResizedTo(metadata.payload, size)
      BY <1>4, <1>9, <3>2 DEF NewBytes
    <3>. QED
      BY <1>9, <2>1, <3>1, <3>3 DEF CopyInv
  <2>2. CASE mode # "inline"
    BY <1>9, <2>2 DEF CopyInv
  <2>. QED
    BY <2>1, <2>2
<1>15. TurnOverInv' /\ NewBytesInv' /\ WritingInv'
  BY <1>9, <1>10 DEF TurnOverInv, NewBytesInv, WritingInv
<1>16. PromiseStep
  BY <1>9, <1>10 DEF PromiseStep, File
<1>. QED
  BY <1>11, <1>12, <1>13, <1>14, <1>15, <1>16 DEF ContentsInv

LEMMA ResizeContents ==
  ASSUME FileResizeInv, FileResizeInv', ContentsInv, NEW size \in FileSizes, Resize(size)
  PROVE  ContentsInv' /\ PromiseStep
<1>1. /\ call.step = "idle" /\ call' = Started(size, NoWrite)
      /\ UNCHANGED <<metadata, disk, metadata_disk, outcome>>
  BY DEF Resize
<1>2. size \in Nat
  BY DeviceAssumption
<1>. QED
  BY <1>1, <1>2, StartedContents

LEMMA TooLargeContents ==
  ASSUME FileResizeInv, FileResizeInv', ContentsInv, NEW size, ResizeTooLarge(size)
  PROVE  ContentsInv' /\ PromiseStep
<1>1. /\ call.step = "idle" /\ call' = call /\ outcome' = "too_large"
      /\ UNCHANGED <<metadata, disk, metadata_disk>>
  BY DEF ResizeTooLarge
<1>2. UnitsOf(metadata)' = UnitsOf(metadata) /\ ReadBytes(metadata)' = ReadBytes(metadata)
  BY <1>1, QuietFile
<1>3. DiskInv'
  BY <1>1, <1>2 DEF ContentsInv, DiskInv, Resizing
<1>4. ContentsInv'
  BY <1>1, <1>3, NextIdleContents
<1>5. Promise!Refuse
  BY <1>1, <1>2 DEF Promise!Refuse, Promise!Outcomes
<1>. QED
  BY <1>4, <1>5 DEF PromiseStep, Promise!Next

\* What a write extends a file by is nothing yet.
LEMMA NothingWritten ==
  ASSUME NEW n \in Nat, NEW bytes, IsBytes(bytes, n), NEW pos \in Nat
  PROVE  Promise!Overwritten(bytes, [pos |-> pos, n |-> 0]) = bytes
<1>1. DOMAIN bytes = 1..n
  BY LengthOfBytes
<1>2. ASSUME NEW k \in 1..n PROVE ~(k > pos /\ k <= pos + 0)
  OBVIOUS
<1>. QED
  BY <1>1, <1>2 DEF Promise!Overwritten, IsBytes

\* The start of a write, with or without a resize.
LEMMA WriteContents ==
  ASSUME FileResizeInv, FileResizeInv', ContentsInv, NEW write \in WriteExtents, Write(write)
  PROVE  ContentsInv' /\ PromiseStep
<1> DEFINE end == write.pos + write.n
<1>1. write \in [pos : Nat, n : Nat \ {0}] /\ end \in Nat
  BY DeviceAssumption
<1>2. /\ call.step = "idle" /\ write.pos <= metadata.layout.file_size
      /\ UNCHANGED <<metadata, disk, metadata_disk, outcome>>
      /\ call' = IF end > metadata.layout.file_size THEN Started(end, write)
                 ELSE [step |-> "write", before |-> ReadBytes(metadata), write |-> write]
  BY DEF Write
<1>3. metadata.layout.file_size \in Nat
  BY FileFacts
<1>4. CASE end > metadata.layout.file_size
  <2>1. write # NoWrite
    BY <1>1 DEF NoWrite
  <2>. QED
    BY <1>1, <1>2, <1>3, <1>4, <2>1, StartedContents
<1>5. CASE end <= metadata.layout.file_size
  <2>1. call' = [step |-> "write", before |-> ReadBytes(metadata), write |-> write]
    BY <1>1, <1>2, <1>3, <1>5
  <2>2. /\ call'.step = "write" /\ call'.before = ReadBytes(metadata) /\ call'.write = write
    BY <2>1
  <2>3. UnitsOf(metadata)' = UnitsOf(metadata) /\ ReadBytes(metadata)' = ReadBytes(metadata)
    BY <1>2, QuietFile
  <2>4. ~Resizing'
    BY <2>2 DEF Resizing
  <2>5. DiskInv'
    BY <1>2, <2>3, <2>4 DEF ContentsInv, DiskInv
  <2>6. IsBytes(ReadBytes(metadata), metadata.layout.file_size)
        /\ Len(ReadBytes(metadata)) = metadata.layout.file_size
    BY FileBytesAreBytes DEF ContentsInv
  <2>7. ReadBytes(metadata) = WrittenUpTo(ReadBytes(metadata), write, write.pos)
    <3>1. Grown(ReadBytes(metadata), write) = ReadBytes(metadata)
      BY <1>1, <1>3, <1>5, <2>6 DEF Grown
    <3>2. write.pos - write.pos = 0
      BY <1>1
    <3>. QED
      BY <1>1, <1>3, <2>6, <3>1, <3>2, NothingWritten DEF WrittenUpTo
  <2>8. WritingInv'
    BY <1>1, <1>2, <1>3, <1>5, <2>2, <2>3, <2>6, <2>7 DEF WritingInv
  <2>9. ContentsInv'
    BY <2>2, <2>4, <2>5, <2>8
       DEF ContentsInv, RequestInv, OldBytesInv, CopyInv, TurnOverInv, NewBytesInv
  <2>10. PromiseStep
    BY <1>2, <2>2 DEF PromiseStep, File
  <2>. QED
    BY <2>9, <2>10
<1>. QED
  BY <1>1, <1>3, <1>4, <1>5
-----------------------------------------------------------------------------
(* Before the commit.                                                      *)

\* What has been built so far is given back, and the file is as it was.
LEMMA FailContents ==
  ASSUME FileResizeInv, FileResizeInv', ContentsInv,
         call.step \in {"alloc_data_units", "alloc_metadata_blocks", "copy", "replace_metadata"},
         NEW why \in {"no_space", "too_large"}, Fail(why)
  PROVE  ContentsInv' /\ PromiseStep
<1>1. /\ metadata' = metadata /\ disk' = Erased(PendingBlocks)
      /\ metadata_disk' = ErasedMetadata(PendingBlocks)
      /\ call'.step = "idle" /\ outcome' = why
  BY DEF Fail, Idle
<1>2. /\ MetadataInv /\ HeldBlocks \cap PendingBlocks = {} /\ Resizing /\ ~Committed
  BY BeforeCommitFacts
<1>3. MetadataInv' /\ UnitsOf(metadata)' = UnitsOf(metadata)
  BY <1>1, <1>2, ErasedKeeps
<1>4. DiskInv
  BY DEF ContentsInv
<1>5. disk' = [a \in Addresses |-> disk'[a]] /\ SameOn(HeldBlocks, disk, disk')
  BY <1>1, <1>2, <1>4, ErasedElsewhere
<1>6. ReadBytes(metadata)' = ReadBytes(metadata)
  BY <1>1, <1>3, <1>5, FileKept
<1>7. DiskInv'
  BY <1>1, <1>3, <1>4, <1>5, DiskInvKept DEF Resizing
<1>8. ReadBytes(metadata) = call.before
  BY <1>2 DEF ContentsInv, OldBytesInv
<1>9. File' = File
  BY <1>1, <1>6, <1>8 DEF File
<1>10. Promise!Refuse
  BY <1>1, <1>9 DEF Promise!Refuse, Promise!Outcomes, File
<1>. QED
  BY <1>1, <1>7, <1>10, NextIdleContents DEF PromiseStep, Promise!Next

\* Wherever the space runs out.
LEMMA NoSpaceContents ==
  ASSUME FileResizeInv, FileResizeInv', ContentsInv,
         NoSpaceForDataUnits \/ NoSpaceForMetadataBlock \/ NoSpaceForMetadata
  PROVE  ContentsInv' /\ PromiseStep
<1>1. /\ Fail("no_space")
      /\ call.step \in {"alloc_data_units", "alloc_metadata_blocks", "copy", "replace_metadata"}
  BY DEF NoSpaceForDataUnits, NoSpaceForMetadataBlock, NoSpaceForMetadata
<1>. QED
  BY <1>1, FailContents

\* What does not change while a resize is getting ready.
LEMMA StillBuilding ==
  ASSUME FileResizeInv, FileResizeInv', ContentsInv,
         call.step \in {"alloc_data_units", "alloc_metadata_blocks", "copy", "replace_metadata"},
         call'.step \in {"alloc_data_units", "alloc_metadata_blocks", "copy", "replace_metadata"},
         call'.mode = call.mode, call'.target = call.target, call'.old = call.old,
         call'.before = call.before, call'.write = call.write,
         ReadBytes(metadata)' = ReadBytes(metadata), outcome' = outcome
  PROVE  /\ RequestInv' /\ OldBytesInv' /\ NewBytesInv' /\ WritingInv' /\ PromiseStep
         /\ NewBytes' = NewBytes
         /\ ReadBytes(metadata) = call.before
<1>1. Resizing /\ ~Committed /\ Resizing' /\ ~Committed'
  BY DEF Resizing, Committed
<1>2. RequestInv /\ OldBytesInv
  BY DEF ContentsInv
<1>3. ReadBytes(metadata) = call.before
  BY <1>1, <1>2 DEF OldBytesInv
<1>4. RequestInv'
  BY <1>1, <1>2 DEF RequestInv
<1>5. OldBytesInv' /\ NewBytesInv'
  BY <1>1, <1>3 DEF OldBytesInv, NewBytesInv
<1>6. WritingInv'
  BY DEF WritingInv
<1>7. PromiseStep
  BY DEF PromiseStep, File
<1>. QED
  BY <1>3, <1>4, <1>5, <1>6, <1>7 DEF NewBytes

\* New units have slots for the hashes of their data blocks.
LEMMA NewUnitsHaveHashes ==
  ASSUME NEW category, NEW numbers
  PROVE  HasHashes(category, NewUnits(category, numbers))
  BY DEF HasHashes, NewUnits

\* Hash slots of the parts of a list of units.
LEMMA HashesOfParts ==
  ASSUME NEW category, NEW s, IsUnits(s), HasHashes(category, s),
         NEW t, IsUnits(t), HasHashes(category, t), NEW k \in 0..Len(s)
  PROVE  HasHashes(category, SubSeq(s, 1, k) \o t)
<1> DEFINE head == SubSeq(s, 1, k)
<1>1. /\ IsUnits(head) /\ Len(head) = k
      /\ \A u \in 1..k : head[u] = s[u]
  <2>1. Len(s) \in Nat
    BY UnitsHaveItems
  <2>2. /\ IsUnits(head) /\ Len(head) = IF 1 <= k THEN k - 1 + 1 ELSE 0
        /\ \A u \in 1..(k - 1 + 1) : head[u] = s[1 + u - 1]
    BY <2>1, SubSeqOfUnits
  <2>. QED
    BY <2>1, <2>2
<1>. HIDE DEF head
<1>2. /\ IsUnits(head \o t) /\ Len(head \o t) = k + Len(t)
      /\ \A u \in 1..k : (head \o t)[u] = head[u]
      /\ \A u \in 1..Len(t) : (head \o t)[k + u] = t[u]
  <2>1. /\ IsUnits(head \o t) /\ Len(head \o t) = Len(head) + Len(t)
        /\ \A u \in 1..Len(head) : (head \o t)[u] = head[u]
        /\ \A u \in 1..Len(t) : (head \o t)[Len(head) + u] = t[u]
    <3>1. IsUnits(head) /\ IsUnits(t)
      BY <1>1
    <3>. QED
      BY ONLY <3>1, ConcatOfUnits
  <2>. QED
    BY ONLY <1>1, <2>1
<1>3. /\ Len(s) \in Nat /\ Len(t) \in Nat /\ DOMAIN s = 1..Len(s) /\ DOMAIN t = 1..Len(t)
      /\ DOMAIN (head \o t) = 1..(k + Len(t))
  BY <1>2, UnitsHaveItems
<1>. SUFFICES ASSUME NEW u \in DOMAIN (head \o t)
              PROVE  (head \o t)[u].hash = [b \in 1..DataBlocksPerUnit(category) |-> (head \o t)[u].hash[b]]
  BY DEF HasHashes, head
<1>4. CASE u <= k
  <2>1. (head \o t)[u] = s[u] /\ u \in DOMAIN s
    BY <1>1, <1>2, <1>3, <1>4
  <2>. QED
    BY <2>1 DEF HasHashes
<1>5. CASE ~(u <= k)
  <2>1. u - k \in 1..Len(t) /\ k + (u - k) = u
    BY <1>3, <1>5
  <2>2. (head \o t)[u] = t[u - k] /\ u - k \in DOMAIN t
    BY <1>2, <1>3, <2>1
  <2>. QED
    BY <2>2 DEF HasHashes
<1>. QED
  BY <1>4, <1>5

\* The new units are nobody's and hold nothing yet.
LEMMA AllocateDataUnitsContents ==
  ASSUME FileResizeInv, FileResizeInv', ContentsInv, AllocateDataUnits
  PROVE  ContentsInv' /\ PromiseStep
<1> DEFINE category == call.target.category
           kept == LesserOf(Len(call.old_units), call.target.data_units_count)
<1>1. /\ call.step = "alloc_data_units"
      /\ UNCHANGED <<metadata, disk, metadata_disk, attached, outcome>>
  BY DEF AllocateDataUnits
<1>2. PICK numbers \in Placements(UnitBlocks(category), AllocatedUnitsCount) :
        call' = [call EXCEPT
                   !.step = IF call.mode = "rebuild" THEN "alloc_metadata_blocks" ELSE "replace_metadata",
                   !.units = IF call.mode = "rebuild" THEN NewUnits(category, numbers)
                             ELSE SubSeq(call.old_units, 1, kept) \o NewUnits(category, numbers)]
  BY DEF AllocateDataUnits
<1>3. /\ CallInv /\ MetadataInv /\ free \subseteq AreaBlocks /\ Resizing
      /\ call.old = metadata /\ call.old_units = UnitsOf(metadata)
  BY <1>1, BeforeCommitFacts
<1>4. /\ DOMAIN call = {"step", "mode", "target", "payload", "units", "metadata_blocks", "index",
                        "old", "old_units", "before", "write"}
      /\ IsLayout(call.target) /\ IsUnits(call.old_units) /\ call.mode \in {"inline", "in_place", "rebuild"}
      /\ call.mode = "in_place" => call.target.category = call.old.layout.category
      /\ call.old_units = UnitsOf(metadata) /\ call.old = metadata
  BY <1>3 DEF CallInv
<1>5. call.mode \in {"in_place", "rebuild"}
  BY <1>1, NothingPendingAtFirst
<1>. DEFINE new == NewUnits(category, numbers)
            units == IF call.mode = "rebuild" THEN new ELSE SubSeq(call.old_units, 1, kept) \o new
<1>6. /\ call'.step = IF call.mode = "rebuild" THEN "alloc_metadata_blocks" ELSE "replace_metadata"
      /\ call'.units = units /\ call'.mode = call.mode /\ call'.target = call.target
      /\ call'.old = call.old /\ call'.before = call.before /\ call'.write = call.write
      /\ call'.index = call.index
  BY <1>2, <1>4
<1>7. UnitsOf(metadata)' = UnitsOf(metadata) /\ ReadBytes(metadata)' = ReadBytes(metadata)
  BY <1>1, QuietFile
<1>8. IsUnits(new) /\ HasHashes(category, new)
  <2>1. UnitBlocks(category) \in Nat \ {0} /\ category \in Categories
    BY <1>4, UnitGeometry DEF IsLayout, Layouts
  <2>2. AllocatedUnitsCount \in Nat
    BY <1>3, <1>4, EntryFacts DEF AllocatedUnitsCount, IsLayout, Layouts, MetadataInv
  <2>3. IsUnits(new)
    BY <1>3, <2>1, <2>2, PlacedUnits
  <2>. QED
    BY <2>3, NewUnitsHaveHashes
<1>9. HasHashes(category, units)
  <2>1. CASE call.mode = "rebuild"
    BY <1>8, <2>1
  <2>2. CASE call.mode # "rebuild"
    <3>1. HasHashes(category, call.old_units)
      BY <1>4, <1>5, <2>2 DEF ContentsInv, DiskInv
    <3>2. kept \in 0..Len(call.old_units)
      BY <1>4, UnitsHaveItems DEF LesserOf, IsLayout, Layouts
    <3>. HIDE DEF kept, new
    <3>3. HasHashes(category, SubSeq(call.old_units, 1, kept) \o new)
      BY <1>4, <1>8, <3>1, <3>2, HashesOfParts
    <3>. QED
      BY <2>2, <3>3
  <2>. QED
    BY <2>1, <2>2
<1>. HIDE DEF units
<1>10. DiskInv'
  BY <1>1, <1>6, <1>7, <1>9 DEF ContentsInv, DiskInv
<1>11. RequestInv' /\ OldBytesInv' /\ NewBytesInv' /\ WritingInv' /\ PromiseStep
  BY <1>1, <1>5, <1>6, <1>7, StillBuilding
<1>12. call.index = 0
  BY <1>1 DEF ContentsInv, CopyInv
<1>13. CopyInv'
  BY <1>5, <1>6, <1>12 DEF CopyInv
<1>14. TurnOverInv'
  BY <1>6, <1>12 DEF TurnOverInv
<1>. QED
  BY <1>10, <1>11, <1>13, <1>14 DEF ContentsInv

LEMMA AllocateMetadataBlockContents ==
  ASSUME FileResizeInv, FileResizeInv', ContentsInv, AllocateMetadataBlock \/ StartCopy
  PROVE  ContentsInv' /\ PromiseStep
<1>1. /\ call.step = "alloc_metadata_blocks"
      /\ UNCHANGED <<metadata, disk, metadata_disk, outcome>>
      /\ \/ \E numbers \in Placements(1, 1) : call' = [call EXCEPT !.metadata_blocks = @ \o numbers]
         \/ call' = [call EXCEPT !.step = "copy"]
  BY DEF AllocateMetadataBlock, StartCopy
<1>2. /\ call.mode = "rebuild"
      /\ DOMAIN call = {"step", "mode", "target", "payload", "units", "metadata_blocks", "index",
                        "old", "old_units", "before", "write"}
  BY <1>1, RebuildFacts
<1>3. /\ call'.step \in {"alloc_metadata_blocks", "copy"}
      /\ call'.units = call.units /\ call'.mode = call.mode /\ call'.target = call.target
      /\ call'.old = call.old /\ call'.before = call.before /\ call'.write = call.write
      /\ call'.index = call.index
  BY <1>1, <1>2
<1>4. UnitsOf(metadata)' = UnitsOf(metadata) /\ ReadBytes(metadata)' = ReadBytes(metadata)
  BY <1>1, QuietFile
<1>5. RequestInv' /\ OldBytesInv' /\ NewBytesInv' /\ WritingInv' /\ PromiseStep
  BY <1>1, <1>3, <1>4, StillBuilding
<1>6. DiskInv'
  BY <1>1, <1>3, <1>4 DEF ContentsInv, DiskInv, Resizing
<1>7. call.index = 0
  BY <1>1 DEF ContentsInv, CopyInv
<1>8. CopyInv'
  <2>1. \A i \in 0..(DataBlocksCount(call'.target) - 1) : ~(i < call'.index)
    BY <1>3, <1>7
  <2>2. call'.step # "replace_metadata"
    BY <1>3
  <2>. QED
    BY <1>3, <1>7, <2>1, <2>2 DEF CopyInv
<1>9. TurnOverInv'
  BY <1>2, <1>3 DEF TurnOverInv
<1>. QED
  BY <1>5, <1>6, <1>8, <1>9 DEF ContentsInv
\* Byte m of a file resized from these bytes.
LEMMA ByteOfResized ==
  ASSUME NEW n \in Nat, NEW bytes, IsBytes(bytes, n), NEW size \in Nat
  PROVE  /\ IsBytes(ResizedTo(bytes, size), size)
         /\ \A m \in 1..size :
              ResizedTo(bytes, size)[m] = IF m <= n THEN bytes[m] ELSE Zero
<1>1. Len(bytes) = n
  BY LengthOfBytes
<1>. QED
  BY <1>1 DEF ResizedTo, IsBytes

\* What a call that is on its way knows of the two sizes.
LEMMA ResizedBytes ==
  ASSUME FileResizeInv, ContentsInv, Resizing
  PROVE  /\ IsLayout(call.target) /\ IsLayout(call.old.layout)
         /\ call.target.file_size \in Nat /\ call.old.layout.file_size \in Nat
         /\ IsBytes(call.before, call.old.layout.file_size)
         /\ Len(call.before) = call.old.layout.file_size
         /\ IsBytes(NewBytes, call.target.file_size)
         /\ \A m \in 1..call.target.file_size :
              NewBytes[m] = IF m <= call.old.layout.file_size THEN call.before[m] ELSE Zero
<1>1. IsLayout(call.target) /\ IsLayout(call.old.layout)
  BY DEF FileResizeInv, StructureInv, CallInv, IsEntry
<1>2. call.target.file_size \in Nat /\ call.old.layout.file_size \in Nat
  BY <1>1 DEF IsLayout, Layouts
<1>3. IsBytes(call.before, call.old.layout.file_size)
  BY DEF ContentsInv, RequestInv
<1>4. Len(call.before) = call.old.layout.file_size
  BY <1>2, <1>3, LengthOfBytes
<1>. DEFINE resized == ResizedTo(call.before, call.target.file_size)
<1>5. /\ IsBytes(resized, call.target.file_size)
      /\ \A m \in 1..call.target.file_size :
           resized[m] = IF m <= call.old.layout.file_size THEN call.before[m] ELSE Zero
  BY <1>2, <1>3, ByteOfResized
<1>6. NewBytes = resized
  BY DEF NewBytes
<1>. HIDE DEF resized
<1>. QED
  BY <1>1, <1>2, <1>3, <1>4, <1>5, <1>6

\* One more data block of the copy holds its share of the new bytes.
LEMMA CopyDataBlockContents ==
  ASSUME FileResizeInv, FileResizeInv', ContentsInv, CopyDataBlock
  PROVE  ContentsInv' /\ PromiseStep
<1> DEFINE target == call.target
           category == target.category
           i == call.index
           offset == i * DataBlockSize(category)
           used == UsedSize(target, i)
           location == Location(category, call.units, i)
           data == [k \in 1..AlignedSize(used) |->
                      IF offset + k <= BytesToPreserve THEN ReadBytes(metadata)[offset + k] ELSE Zero]
<1>1. /\ call.step = "copy" /\ i < DataBlocksCount(target)
      /\ disk' = Flushed(location, data)
      /\ call' = [call EXCEPT !.index = @ + 1, !.units = WithHash(category, @, i, data)]
      /\ UNCHANGED <<metadata, metadata_disk, outcome>>
  BY DEF CopyDataBlock
<1>2. /\ call.mode = "rebuild"
      /\ DOMAIN call = {"step", "mode", "target", "payload", "units", "metadata_blocks", "index",
                        "old", "old_units", "before", "write"}
      /\ IsLayout(target) /\ IsUnits(call.units) /\ i \in Nat
      /\ Len(call.units) = target.data_units_count
      /\ Apart(category, call.units, call.metadata_blocks)
      /\ PendingBlocks = BlocksOf(category, call.units, call.metadata_blocks)
  BY <1>1, RebuildFacts
<1>3. /\ Resizing /\ MetadataInv /\ HeldBlocks \cap PendingBlocks = {}
      /\ UncommittedBlocks = PendingBlocks /\ call.old = metadata
  BY <1>1, BeforeCommitFacts
<1>4. /\ Apart(category, call.units, <<>>)
      /\ BlocksOf(category, call.units, <<>>) \subseteq PendingBlocks
      /\ PendingBlocks \subseteq AreaBlocks
  BY <1>2, <1>3, ApartOfUnits, BlocksOfParts, BlocksInArea
<1>5. i \in 0..(DataBlocksCount(target) - 1)
  BY <1>1, <1>2, CountedDataBlocks DEF DataBlocksCount
<1>6. /\ category \in Categories \ {Inline} /\ i \in IndicesOf(category, call.units)
      /\ used \in 0..DataBlockSize(category) /\ used \in Nat
  BY <1>2, <1>5, IndicesOfLayout, UnitGeometry
<1>7. HasHashes(category, call.units) /\ disk = [a \in Addresses |-> disk[a]]
  BY <1>3 DEF ContentsInv, DiskInv
<1>8. AlignedSize(used) \in Nat /\ used <= AlignedSize(used)
  BY <1>6, AlignedSizes
<1>9. disk' = FlushedOn(disk, location, data)
  BY <1>1 DEF Flushed, FlushedOn
<1>10. /\ call'.units = WithHash(category, call.units, i, data) /\ call'.index = i + 1
       /\ call'.step = "copy" /\ call'.mode = call.mode /\ call'.target = call.target
       /\ call'.old = call.old /\ call'.before = call.before /\ call'.write = call.write
  BY <1>1, <1>2
<1>11. IsBytes(data, AlignedSize(used))
  BY DEF IsBytes
<1>. DEFINE new == call'.units
<1>12. /\ disk' = [a \in Addresses |-> disk'[a]]
       /\ SameOn(HeldBlocks, disk, disk')
  <2>1. DataBlockExtent(category, call.units, i) \subseteq PendingBlocks
    BY <1>2, <1>4, <1>6, DataBlockPlace
  <2>. HIDE DEF category, used, data, i
  <2>2. /\ disk' = [a \in Addresses |-> disk'[a]]
        /\ \A blocks : blocks \cap DataBlockExtent(category, call.units, i) = {}
             => SameOn(blocks, disk, disk')
    BY <1>2, <1>4, <1>6, <1>7, <1>9, <1>11, FlushedInPlace
  <2>. QED
    BY <1>3, <2>1, <2>2
<1>13. /\ Stored(disk', Location(category, new, i), used) = data
       /\ \A j \in IndicesOf(category, call.units), other \in 0..DataBlockSize(category) :
            j # i => Stored(disk', Location(category, new, j), other)
                       = Stored(disk, Location(category, call.units, j), other)
       /\ HasHashes(category, new)
  <2>. HIDE DEF category, used, data, i, location
  <2>1. BlocksOf(category, call.units, <<>>) \subseteq AreaBlocks
    BY <1>4
  <2>2. disk' = FlushedOn(disk, Location(category, call.units, i), data)
    BY <1>9 DEF location
  <2>. QED
    BY <1>2, <1>4, <1>6, <1>7, <1>10, <1>11, <2>1, <2>2, FlushedThenLoaded, LocationRehashed
<1>14. UnitsOf(metadata)' = UnitsOf(metadata)
  BY <1>1 DEF UnitsOf
<1>15. MetadataInv'
  BY DEF FileResizeInv, StructureInv
<1>16. ReadBytes(metadata)' = ReadBytes(metadata)
  BY <1>1, <1>12, <1>14, <1>15, FileKept
<1>17. /\ RequestInv' /\ OldBytesInv' /\ NewBytesInv' /\ WritingInv' /\ PromiseStep
       /\ NewBytes' = NewBytes /\ ReadBytes(metadata) = call.before
  BY <1>1, <1>10, <1>16, StillBuilding
<1>18. DiskInv'
  BY <1>1, <1>10, <1>12, <1>13, <1>14, DiskInvKept DEF ContentsInv
<1>19. Reads(disk', target, new, i, NewBytes)
  <2>. SUFFICES ASSUME NEW k \in 1..used
                PROVE  DataBlockOf(disk', target, new, i)[k] = NewBytes[offset + k]
    BY DEF Reads
  <2>1. DataBlockOf(disk', target, new, i) = data
    BY <1>13 DEF DataBlockOf
  <2>2. offset + k \in 1..target.file_size
    BY <1>2, <1>5, <1>6, ByteInDataBlock
  <2>3. NewBytes[offset + k]
          = IF offset + k <= call.old.layout.file_size THEN call.before[offset + k] ELSE Zero
    BY <1>3, <2>2, ResizedBytes
  <2>4. offset + k <= BytesToPreserve <=> offset + k <= call.old.layout.file_size
    <3>1. target.file_size \in Nat /\ call.old.layout.file_size \in Nat
      BY <1>3, ResizedBytes
    <3>. HIDE DEF offset
    <3>. QED
      BY <2>2, <3>1 DEF BytesToPreserve, LesserOf
  <2>5. k \in 1..AlignedSize(used)
    BY <1>6, <1>8
  <2>. HIDE DEF offset, used
  <2>6. data[k] = IF offset + k <= BytesToPreserve THEN ReadBytes(metadata)[offset + k] ELSE Zero
    BY <2>5
  <2>. HIDE DEF data
  <2>. QED
    BY <1>17, <2>1, <2>3, <2>4, <2>6
<1>20. ASSUME NEW j \in 0..(DataBlocksCount(target) - 1), j < i
       PROVE  Reads(disk', target, new, j, NewBytes)
  <2>1. Reads(disk, target, call.units, j, NewBytes)
    BY <1>1, <1>20 DEF ContentsInv, CopyInv
  <2>2. j \in IndicesOf(category, call.units) /\ UsedSize(target, j) \in 0..DataBlockSize(category)
    BY <1>2, IndicesOfLayout
  <2>3. DataBlockOf(disk', target, new, j) = DataBlockOf(disk, target, call.units, j)
    BY <1>2, <1>13, <1>20, <2>2 DEF DataBlockOf
  <2>. QED
    BY <2>1, <2>3 DEF Reads
<1>21. CopyInv'
  <2>1. \A j \in 0..(DataBlocksCount(target) - 1) : j < i + 1 => j = i \/ j < i
    BY <1>2
  <2>2. \A j \in 0..(DataBlocksCount(target) - 1) :
          j < i + 1 => Reads(disk', target, new, j, NewBytes)
    BY <1>19, <1>20, <2>1
  <2>3. \A j \in 0..(DataBlocksCount(call'.target) - 1) :
          j < call'.index => Reads(disk', call'.target, call'.units, j, NewBytes')
    BY <1>10, <1>17, <2>2
  <2>. QED
    BY <1>10, <2>3 DEF CopyInv
<1>22. TurnOverInv'
  BY <1>2, <1>10 DEF TurnOverInv
<1>. QED
  BY <1>17, <1>18, <1>21, <1>22 DEF ContentsInv

\* The first bytes of a sequence.
LEMMA PrefixOfBytes ==
  ASSUME NEW n \in Nat, NEW bytes, IsBytes(bytes, n), NEW m \in 0..n
  PROVE  SubSeq(bytes, 1, m) = [k \in 1..m |-> bytes[k]]
<1>. DEFINE S == {bytes[k] : k \in 1..n}
<1>1. DOMAIN bytes = 1..n /\ Len(bytes) = n
  BY LengthOfBytes
<1>2. bytes \in Seq(S)
  <2>1. bytes \in [1..n -> S]
    BY DEF IsBytes
  <2>. QED
    BY <2>1, SeqDef
<1>3. SubSeq(bytes, 1, m) = [k \in 1..m |-> bytes[k]]
  BY <1>1, <1>2, SubSeqProperties
<1>. QED
  BY <1>3

\* With all its data blocks copied, the new layout reads as the new bytes.
LEMMA FinishCopyContents ==
  ASSUME FileResizeInv, FileResizeInv', ContentsInv, FinishCopy
  PROVE  ContentsInv' /\ PromiseStep
<1> DEFINE target == call.target
           payload == IF target.category = Inline
                        THEN SubSeq(ReadBytes(metadata), 1, BytesToPreserve) ELSE <<>>
<1>1. /\ call.step = "copy" /\ call.index = DataBlocksCount(target)
      /\ call' = [call EXCEPT !.step = "replace_metadata", !.payload = payload]
      /\ UNCHANGED <<metadata, disk, outcome>>
      /\ \A b \in AreaBlocks : b \notin ToSet(call.metadata_blocks) => metadata_disk'[b] = metadata_disk[b]
  BY DEF FinishCopy
<1>2. /\ call.mode = "rebuild"
      /\ DOMAIN call = {"step", "mode", "target", "payload", "units", "metadata_blocks", "index",
                        "old", "old_units", "before", "write"}
      /\ PendingBlocks = BlocksOf(target.category, call.units, call.metadata_blocks)
  BY <1>1, RebuildFacts
<1>3. /\ Resizing /\ MetadataInv /\ IsEntry(metadata) /\ HeldBlocks \cap PendingBlocks = {}
      /\ call.old = metadata
  BY <1>1, BeforeCommitFacts
<1>4. MetadataInv'
  BY DEF FileResizeInv, StructureInv
<1>5. \A b \in ToSet(metadata.metadata_blocks) : metadata_disk'[b] = metadata_disk[b]
  <2>1. ToSet(metadata.metadata_blocks) \subseteq HeldBlocks
    BY BlocksOfParts DEF HeldBlocks
  <2>2. ToSet(call.metadata_blocks) \subseteq PendingBlocks
    BY <1>2, BlocksOfParts
  <2>3. HeldBlocks \subseteq AreaBlocks
    BY BlocksInArea
  <2>. QED
    BY <1>1, <1>3, <2>1, <2>2, <2>3
<1>6. UnitsOf(metadata)' = UnitsOf(metadata)
  <2>1. /\ metadata_disk' = [b \in AreaBlocks |-> metadata_disk'[b]]
        /\ \A b \in AreaBlocks : IsUnits(metadata_disk'[b])
    BY <1>4 DEF MetadataInv
  <2>. QED
    BY <1>1, <1>3, <1>5, <2>1, MetadataKept
<1>7. /\ call'.step = "replace_metadata" /\ call'.payload = payload /\ call'.mode = call.mode
      /\ call'.target = call.target /\ call'.units = call.units /\ call'.index = call.index
      /\ call'.old = call.old /\ call'.before = call.before /\ call'.write = call.write
  BY <1>1, <1>2
<1>8. ReadBytes(metadata)' = ReadBytes(metadata)
  <2>1. SameOn(HeldBlocks, disk, disk')
    BY <1>1 DEF SameOn
  <2>. QED
    BY <1>1, <1>4, <1>6, <2>1, FileKept
<1>9. /\ RequestInv' /\ OldBytesInv' /\ NewBytesInv' /\ WritingInv' /\ PromiseStep
      /\ NewBytes' = NewBytes /\ ReadBytes(metadata) = call.before
  BY <1>1, <1>7, <1>8, StillBuilding
<1>10. DiskInv'
  BY <1>1, <1>3, <1>6, <1>7 DEF ContentsInv, DiskInv
<1>11. /\ IsLayout(target) /\ target.file_size \in Nat /\ call.old.layout.file_size \in Nat
       /\ IsBytes(call.before, call.old.layout.file_size)
       /\ IsBytes(NewBytes, target.file_size)
       /\ \A m \in 1..target.file_size :
            NewBytes[m] = IF m <= call.old.layout.file_size THEN call.before[m] ELSE Zero
  BY <1>3, ResizedBytes
<1>12. Contents(disk, target, payload, call.units) = NewBytes
  <2>1. CASE target.category = Inline
    <3>1. target.file_size <= call.old.layout.file_size
      BY <1>2, <1>3, <2>1 DEF ContentsInv, RequestInv
    <3>2. BytesToPreserve = target.file_size
      BY <1>11, <3>1 DEF BytesToPreserve, LesserOf
    <3>3. payload = [k \in 1..target.file_size |-> call.before[k]]
      BY <1>9, <1>11, <2>1, <3>1, <3>2, PrefixOfBytes
    <3>4. \A k \in 1..target.file_size : NewBytes[k] = call.before[k]
      BY <1>11, <3>1
    <3>5. payload = NewBytes
      BY <1>11, <3>3, <3>4 DEF IsBytes
    <3>. QED
      BY <2>1, <3>5 DEF Contents
  <2>2. CASE target.category # Inline
    <3>1. \A i \in 0..(DataBlocksCount(target) - 1) : i < call.index
      BY <1>1, <1>11, <2>2, CountedDataBlocks
    <3>2. ReadsAll(disk, target, call.units, NewBytes)
      BY <1>1, <3>1 DEF ContentsInv, CopyInv, ReadsAll
    <3>. QED
      BY <1>11, <2>2, <3>2, ReadsEachBlock
  <2>. QED
    BY <2>1, <2>2
<1>13. CopyInv'
  BY <1>1, <1>7, <1>9, <1>12 DEF CopyInv
<1>14. TurnOverInv'
  BY <1>2, <1>7 DEF TurnOverInv
<1>. QED
  BY <1>9, <1>10, <1>13, <1>14 DEF ContentsInv
-----------------------------------------------------------------------------
(* The commit.                                                             *)

\* The replacement leads to the units that were built.
LEMMA ReplacementUnits ==
  ASSUME FileResizeInv, call.step = "replace_metadata"
  PROVE  /\ UnitsOf(Replacement) = call.units
         /\ Replacement.layout = call.target /\ Replacement.payload = call.payload
         /\ IsLayout(call.target)
<1>1. /\ Replacement.layout = call.target /\ Replacement.payload = call.payload
      /\ Replacement.units = IF call.target.category = ClusterMetadataBlocks THEN <<>> ELSE call.units
      /\ Replacement.metadata_blocks = call.metadata_blocks
  BY DEF Replacement
<1>2. /\ IsLayout(call.target) /\ IsUnits(call.units)
      /\ Len(call.units) = call.target.data_units_count
      /\ call.target.category = ClusterMetadataBlocks =>
           \A u \in DOMAIN call.units :
             metadata_disk[BlockOfUnit(call.metadata_blocks, u)][SlotOfUnit(u)] = call.units[u]
  BY BuiltEntry
<1>. HIDE DEF Replacement
<1>3. CASE call.target.category # ClusterMetadataBlocks
  <2>1. Replacement.layout.category # ClusterMetadataBlocks /\ Replacement.units = call.units
    BY <1>1, <1>3
  <2>2. UnitsOf(Replacement) = call.units
    BY <2>1 DEF UnitsOf
  <2>. QED
    BY <1>1, <1>2, <2>2
<1>4. CASE call.target.category = ClusterMetadataBlocks
  <2>1. /\ DOMAIN call.units = 1..call.target.data_units_count
        /\ call.units = [u \in 1..call.target.data_units_count |-> call.units[u]]
    BY <1>2, UnitsHaveItems
  <2>2. UnitsOf(Replacement) =
          [u \in 1..call.target.data_units_count |->
             metadata_disk[BlockOfUnit(call.metadata_blocks, u)][SlotOfUnit(u)]]
    BY <1>1, <1>4 DEF UnitsOf, BlockOfUnit, SlotOfUnit
  <2>. QED
    BY <1>1, <1>2, <1>4, <2>1, <2>2
<1>. QED
  BY <1>1, <1>2, <1>3, <1>4

\* What stays while a resize goes on after the commit.
LEMMA StillResizing ==
  ASSUME ContentsInv, Resizing, Resizing',
         call'.mode = call.mode, call'.target = call.target, call'.old = call.old,
         call'.before = call.before, call'.write = call.write, outcome' = outcome
  PROVE  RequestInv' /\ WritingInv' /\ PromiseStep /\ NewBytes' = NewBytes
<1>1. call.step \notin {"idle", "write"} /\ call'.step \notin {"idle", "write"}
  BY DEF Resizing
<1>2. RequestInv'
  BY DEF ContentsInv, RequestInv
<1>. QED
  BY <1>1, <1>2 DEF WritingInv, PromiseStep, File, NewBytes

\* Units in the place of others lead to the same data blocks.
LEMMA SameLocation ==
  ASSUME NEW category, NEW s, NEW t, NEW i,
         s[(i \div DataBlocksPerUnit(category)) + 1] = t[(i \div DataBlocksPerUnit(category)) + 1]
  PROVE  Location(category, s, i) = Location(category, t, i)
  BY DEF Location

\* The commit: what was built becomes the file.
LEMMA ReplaceMetadataContents ==
  ASSUME FileResizeInv, FileResizeInv', ContentsInv, ReplaceMetadata
  PROVE  ContentsInv' /\ PromiseStep
<1>1. /\ call.step = "replace_metadata" /\ metadata' = Replacement
      /\ call' = [call EXCEPT !.step = IF call.mode = "inline" THEN "return" ELSE "detach"]
      /\ UNCHANGED <<disk, metadata_disk, outcome>>
  BY DEF ReplaceMetadata
<1>2. /\ DOMAIN call = {"step", "mode", "target", "payload", "units", "metadata_blocks", "index",
                        "old", "old_units", "before", "write"}
      /\ call.mode \in {"inline", "in_place", "rebuild"}
      /\ IsUnits(call.units) /\ Len(call.units) = call.target.data_units_count
      /\ call.mode = "in_place" =>
           /\ call.target.category = call.old.layout.category
           /\ call.target.category \notin {Inline, ClusterMetadataBlocks}
           /\ \A u \in DOMAIN call.units \cap DOMAIN call.old_units : call.units[u] = call.old_units[u]
  BY <1>1, BuiltEntry
<1>3. /\ call'.step = IF call.mode = "inline" THEN "return" ELSE "detach"
      /\ call'.mode = call.mode /\ call'.target = call.target /\ call'.units = call.units
      /\ call'.index = call.index /\ call'.old = call.old
      /\ call'.before = call.before /\ call'.write = call.write
  BY <1>1, <1>2
<1>4. /\ metadata'.layout = call.target /\ metadata'.payload = call.payload
      /\ UnitsOf(metadata)' = call.units /\ IsLayout(call.target)
  <2>1. /\ UnitsOf(Replacement) = call.units
        /\ Replacement.layout = call.target /\ Replacement.payload = call.payload
        /\ IsLayout(call.target)
    BY <1>1, ReplacementUnits
  <2>2. UnitsOf(metadata)' = UnitsOf(Replacement)
    BY <1>1 DEF UnitsOf
  <2>. QED
    BY <1>1, <2>1, <2>2
<1>5. Resizing /\ ~Committed /\ Resizing' /\ Committed'
  BY <1>1, <1>3 DEF Resizing, Committed
<1>6. RequestInv' /\ WritingInv' /\ PromiseStep /\ NewBytes' = NewBytes
  BY <1>1, <1>3, <1>5, StillResizing
<1>7. /\ IsBytes(NewBytes, call.target.file_size)
      /\ IsLayout(call.old.layout) /\ IsBytes(call.before, call.old.layout.file_size)
  BY <1>5, ResizedBytes
<1>8. ReadBytes(metadata)' = Contents(disk, call.target, call.payload, call.units)
  <2>1. MetadataInv'
    BY DEF FileResizeInv, StructureInv
  <2>. QED
    BY <1>1, <1>4, <2>1, NextFileBytes
<1>9. call.mode # "in_place" => Contents(disk, call.target, call.payload, call.units) = NewBytes
  BY <1>1 DEF ContentsInv, CopyInv
<1>10. DiskInv'
  <2>1. call.target.category = Inline => IsBytes(call.payload, call.target.file_size)
    <3>. SUFFICES ASSUME call.target.category = Inline PROVE IsBytes(call.payload, call.target.file_size)
      OBVIOUS
    <3>1. call.mode # "in_place"
      BY <1>2
    <3>2. call.payload = NewBytes
      BY <1>9, <3>1 DEF Contents
    <3>. QED
      BY <1>7, <3>2
  <2>2. HasHashes(call.target.category, call.units) /\ disk = [a \in Addresses |-> disk[a]]
    BY <1>5 DEF ContentsInv, DiskInv
  <2>. QED
    BY <1>1, <1>3, <1>4, <2>1, <2>2 DEF DiskInv
<1>11. OldBytesInv'
  BY <1>5 DEF OldBytesInv
<1>12. CopyInv'
  BY <1>3 DEF CopyInv
<1>13. NewBytesInv'
  BY <1>2, <1>3, <1>6, <1>8, <1>9 DEF NewBytesInv
<1>14. ASSUME call.mode = "in_place", NEW i \in 0..(DataBlocksCount(call.target) - 1),
              i < DataBlocksCount(call.old.layout)
       PROVE  Reads(disk, call.old.layout, call.units, i, call.before)
  <2>. DEFINE category == call.target.category
              p == (i \div DataBlocksPerUnit(category)) + 1
  <2>1. /\ call.old = metadata /\ call.old_units = UnitsOf(metadata)
        /\ MetadataInv /\ IsUnits(call.old_units)
        /\ Len(call.old_units) = call.old.layout.data_units_count
    BY <1>1, BeforeCommitFacts
  <2>2. ReadBytes(metadata) = call.before
    BY <1>5 DEF ContentsInv, OldBytesInv
  <2>3. Contents(disk, call.old.layout, metadata.payload, call.old_units) = call.before
    BY <2>1, <2>2, FileBytes
  <2>4. ReadsAll(disk, call.old.layout, call.old_units, call.before)
    BY <1>2, <1>7, <1>14, <2>3, ReadsEachBlock
  <2>5. i \in 0..(DataBlocksCount(call.old.layout) - 1)
    BY <1>2, <1>7, <1>14, CountedDataBlocks
  <2>6. Reads(disk, call.old.layout, call.old_units, i, call.before)
    BY <2>4, <2>5 DEF ReadsAll
  <2>7. i \in IndicesOf(category, call.units) /\ i \in IndicesOf(category, call.old_units)
    BY <1>2, <1>4, <1>7, <1>14, <2>1, <2>5, IndicesOfLayout
  <2>8. p \in DOMAIN call.units /\ p \in DOMAIN call.old_units
    BY <2>7 DEF IndicesOf
  <2>9. call.units[p] = call.old_units[p]
    BY <1>2, <1>14, <2>8
  <2>10. Location(category, call.units, i) = Location(category, call.old_units, i)
    BY <2>9, SameLocation
  <2>. QED
    BY <1>2, <1>14, <2>6, <2>10 DEF Reads, DataBlockOf
<1>15. TurnOverInv'
  <2>1. call.mode = "in_place" => call.index = 0
    BY <1>1 DEF ContentsInv, TurnOverInv
  <2>2. ASSUME call.mode = "in_place", NEW i \in 0..(DataBlocksCount(call.target) - 1)
        PROVE  ~(i < call.index)
               /\ (i < DataBlocksCount(call.old.layout)
                     => Reads(disk, call.old.layout, call.units, i, call.before))
    BY <1>14, <2>1, <2>2
  <2>. QED
    BY <1>1, <1>3, <1>4, <2>1, <2>2 DEF TurnOverInv
<1>. QED
  BY <1>6, <1>10, <1>11, <1>12, <1>13, <1>15 DEF ContentsInv
-----------------------------------------------------------------------------
(* After the commit.                                                       *)

\* Detaching the old blocks touches no byte.
LEMMA DetachContents ==
  ASSUME FileResizeInv, FileResizeInv', ContentsInv, DetachOldBlocks
  PROVE  ContentsInv' /\ PromiseStep
<1>1. /\ call.step = "detach"
      /\ call' = [call EXCEPT !.step = IF call.mode = "rebuild" THEN "free_units" ELSE "resize_changed"]
      /\ UNCHANGED <<metadata, disk, metadata_disk, outcome>>
  BY DEF DetachOldBlocks
<1>2. /\ Resizing /\ Committed /\ call.mode \in {"in_place", "rebuild"}
      /\ DOMAIN call = {"step", "mode", "target", "payload", "units", "metadata_blocks", "index",
                        "old", "old_units", "before", "write"}
  BY <1>1, AfterCommitFacts DEF StepsOf
<1>3. /\ call'.step = IF call.mode = "rebuild" THEN "free_units" ELSE "resize_changed"
      /\ call'.mode = call.mode /\ call'.target = call.target /\ call'.units = call.units
      /\ call'.index = call.index /\ call'.old = call.old
      /\ call'.before = call.before /\ call'.write = call.write
  BY <1>1, <1>2
<1>4. Resizing' /\ Committed'
  BY <1>3 DEF Resizing, Committed
<1>5. RequestInv' /\ WritingInv' /\ PromiseStep /\ NewBytes' = NewBytes
  BY <1>1, <1>2, <1>3, <1>4, StillResizing
<1>6. UnitsOf(metadata)' = UnitsOf(metadata) /\ ReadBytes(metadata)' = ReadBytes(metadata)
  BY <1>1, QuietFile
<1>7. DiskInv'
  BY <1>1, <1>2, <1>3, <1>6 DEF ContentsInv, DiskInv
<1>8. OldBytesInv' /\ CopyInv'
  BY <1>3, <1>4 DEF OldBytesInv, CopyInv
<1>9. TurnOverInv'
  BY <1>1, <1>3, <1>5, <1>6 DEF ContentsInv, TurnOverInv
<1>10. NewBytesInv'
  BY <1>1, <1>2, <1>3, <1>5, <1>6 DEF ContentsInv, NewBytesInv
<1>. QED
  BY <1>5, <1>7, <1>8, <1>9, <1>10 DEF ContentsInv

\* Giving back blocks the file does not refer to leaves it as it is.
LEMMA GiveBackFile ==
  ASSUME FileResizeInv, FileResizeInv', DiskInv, NEW blocks, blocks \cap HeldBlocks = {}, GiveBack(blocks)
  PROVE  /\ UnitsOf(metadata)' = UnitsOf(metadata)
         /\ ReadBytes(metadata)' = ReadBytes(metadata)
         /\ disk' = [a \in Addresses |-> disk'[a]]
         /\ metadata' = metadata /\ outcome' = outcome
<1>1. /\ metadata' = metadata /\ outcome' = outcome /\ disk' = Erased(blocks)
      /\ metadata_disk' = ErasedMetadata(blocks)
  BY DEF GiveBack
<1>2. MetadataInv
  BY FileFacts
<1>3. MetadataInv' /\ UnitsOf(metadata)' = UnitsOf(metadata)
  BY <1>1, <1>2, ErasedKeeps
<1>4. disk' = [a \in Addresses |-> disk'[a]] /\ SameOn(HeldBlocks, disk, disk')
  BY <1>1, ErasedElsewhere
<1>. QED
  BY <1>1, <1>3, <1>4, FileKept

\* The steps that free what the old layout had and the new one has not.
LEMMA FreeingContents ==
  ASSUME FileResizeInv, FileResizeInv', ContentsInv,
         FreeRemovedDataUnits \/ FreeOldDataUnits \/ FreeOldMetadataBlocks
  PROVE  ContentsInv' /\ PromiseStep
<1>1. /\ call.step \in {"resize_changed", "free_units", "free_metadata_blocks"}
      /\ call.step = "resize_changed" => call.index = ChangedBlocksCount
      /\ \/ call' = [call EXCEPT !.step = "free_metadata_blocks"]
         \/ call' = [call EXCEPT !.step = "return"]
  BY DEF FreeRemovedDataUnits, FreeOldDataUnits, FreeOldMetadataBlocks
<1>2. /\ Resizing /\ Committed /\ RetiredInv /\ call.mode \in {"inline", "in_place", "rebuild"}
      /\ call.step \in StepsOf(call.mode)
      /\ DOMAIN call = {"step", "mode", "target", "payload", "units", "metadata_blocks", "index",
                        "old", "old_units", "before", "write"}
      /\ HeldBlocks \cap RetiredBlocks = {} /\ call.target = metadata.layout
      /\ call.mode = "in_place" => call.target.category \notin {Inline, ClusterMetadataBlocks}
  BY <1>1, AfterCommitFacts
<1>3. call.mode = IF call.step = "resize_changed" THEN "in_place" ELSE "rebuild"
  BY <1>1, <1>2 DEF StepsOf
<1>4. PICK blocks : GiveBack(blocks) /\ blocks \cap HeldBlocks = {}
  <2>1. CASE FreeRemovedDataUnits
    <3>1. call.step = "resize_changed"
      BY <2>1 DEF FreeRemovedDataUnits
    <3>2. GiveBack(RetiredBlocks)
      BY <1>2, <1>3, <2>1, <3>1 DEF FreeRemovedDataUnits, RetiredInv
    <3>. QED
      BY <1>2, <3>2
  <2>2. CASE FreeOldDataUnits
    <3>1. call.step = "free_units" /\ GiveBack(BlocksOf(call.old.layout.category, call.old_units, <<>>))
      BY <2>2 DEF FreeOldDataUnits
    <3>2. BlocksOf(call.old.layout.category, call.old_units, call.old.metadata_blocks)
            \cap HeldBlocks = {}
      BY <1>2, <1>3, <3>1 DEF RetiredInv
    <3>3. BlocksOf(call.old.layout.category, call.old_units, <<>>) \cap HeldBlocks = {}
      BY <3>2, BlocksOfParts
    <3>. QED
      BY <3>1, <3>3
  <2>3. CASE FreeOldMetadataBlocks
    <3>1. call.step = "free_metadata_blocks" /\ GiveBack(ToSet(call.old.metadata_blocks))
      BY <2>3 DEF FreeOldMetadataBlocks
    <3>2. RetiredBlocks = ToSet(call.old.metadata_blocks)
      BY <3>1 DEF RetiredBlocks
    <3>. QED
      BY <1>2, <3>1, <3>2
  <2>. QED
    BY <2>1, <2>2, <2>3
<1>5. /\ call'.step \in {"free_metadata_blocks", "return"}
      /\ call'.mode = call.mode /\ call'.target = call.target /\ call'.units = call.units
      /\ call'.old = call.old /\ call'.before = call.before /\ call'.write = call.write
  BY <1>1, <1>2
<1>6. Resizing' /\ Committed'
  BY <1>5 DEF Resizing, Committed
<1>7. DiskInv
  BY DEF ContentsInv
<1>8. /\ UnitsOf(metadata)' = UnitsOf(metadata) /\ ReadBytes(metadata)' = ReadBytes(metadata)
      /\ disk' = [a \in Addresses |-> disk'[a]] /\ metadata' = metadata /\ outcome' = outcome
  BY <1>4, <1>7, GiveBackFile
<1>9. RequestInv' /\ WritingInv' /\ PromiseStep /\ NewBytes' = NewBytes
  BY <1>2, <1>5, <1>6, <1>8, StillResizing
<1>10. DiskInv'
  BY <1>2, <1>5, <1>7, <1>8, DiskInvKept DEF DiskInv
<1>11. OldBytesInv' /\ CopyInv' /\ TurnOverInv'
  BY <1>5, <1>6 DEF OldBytesInv, CopyInv, TurnOverInv
<1>12. ReadBytes(metadata) = NewBytes
  <2>1. CASE call.step # "resize_changed"
    BY <1>1, <1>2, <2>1 DEF ContentsInv, NewBytesInv
  <2>2. CASE call.step = "resize_changed"
    <3>1. call.mode = "in_place" /\ call.target.category # Inline
      BY <1>2, <1>3, <2>2
    <3>2. IsLayout(call.target) /\ IsLayout(call.old.layout) /\ IsBytes(NewBytes, call.target.file_size)
      BY <1>2, ResizedBytes
    <3>3. DataBlocksCount(call.target) \in Nat /\ DataBlocksCount(call.target) <= call.index
      <4>1. DataBlocksCount(call.target) \in Nat
        BY <3>1, <3>2, CountedDataBlocks
      <4>2. DataBlocksCount(call.old.layout) \in Nat
        BY <3>2, CountedDataBlocks DEF DataBlocksCount
      <4>. QED
        BY <1>1, <2>2, <4>1, <4>2 DEF ChangedBlocksCount, GreaterOf
    <3>4. call.index \in Nat
      BY <1>1, AfterCommitFacts
    <3>5. \A i \in 0..(DataBlocksCount(call.target) - 1) : i < call.index
      BY <3>3, <3>4
    <3>6. ReadsAll(disk, call.target, UnitsOf(metadata), NewBytes)
      BY <2>2, <3>1, <3>5 DEF ContentsInv, TurnOverInv, ReadsAll
    <3>7. Contents(disk, call.target, metadata.payload, UnitsOf(metadata)) = NewBytes
      BY <3>1, <3>2, <3>6, ReadsEachBlock
    <3>. QED
      BY <1>2, <3>7, FileFacts, FileBytes
  <2>. QED
    BY <2>1, <2>2
<1>13. NewBytesInv'
  BY <1>8, <1>9, <1>12 DEF NewBytesInv
<1>. QED
  BY <1>9, <1>10, <1>11, <1>13 DEF ContentsInv

\* A resize returns with the resized file, or goes on to write it.
LEMMA ReturnContents ==
  ASSUME FileResizeInv, FileResizeInv', ContentsInv, Return
  PROVE  ContentsInv' /\ PromiseStep
<1>1. /\ call.step = "return"
      /\ UNCHANGED <<metadata, disk, metadata_disk>>
      /\ IF call.write = NoWrite THEN call' = Idle /\ outcome' = "ok"
         ELSE /\ call' = [step |-> "write", before |-> call.before, write |-> call.write]
              /\ outcome' = outcome
  BY DEF Return
<1>2. /\ Resizing /\ Committed /\ call.target = metadata.layout
  BY <1>1, AfterCommitFacts
<1>3. UnitsOf(metadata)' = UnitsOf(metadata) /\ ReadBytes(metadata)' = ReadBytes(metadata)
  BY <1>1, QuietFile
<1>4. ReadBytes(metadata) = NewBytes
  BY <1>1, <1>2 DEF ContentsInv, NewBytesInv
<1>5. RequestInv
  BY DEF ContentsInv
<1>6. CASE call.write = NoWrite
  <2>1. call'.step = "idle" /\ outcome' = "ok"
    BY <1>1, <1>6 DEF Idle
  <2>2. DiskInv'
    BY <1>1, <1>3, <2>1 DEF ContentsInv, DiskInv, Resizing
  <2>3. call.target.file_size \in FileSizes
    BY <1>2, <1>5, <1>6 DEF RequestInv
  <2>4. File = call.before /\ File' = ResizedTo(call.before, call.target.file_size)
    BY <1>1, <1>3, <1>4, <2>1 DEF File, NewBytes
  <2>5. Promise!Resize(call.target.file_size)
    BY <2>1, <2>4 DEF Promise!Resize, Promise!ResizedTo, ResizedTo, Promise!Zero, Zero, File
  <2>6. Promise!Next
    BY <2>3, <2>5 DEF Promise!Next
  <2>. QED
    BY <2>1, <2>2, <2>6, NextIdleContents DEF PromiseStep
<1>7. CASE call.write # NoWrite
  <2>1. /\ call'.step = "write" /\ call'.before = call.before /\ call'.write = call.write
        /\ outcome' = outcome
    BY <1>1, <1>7
  <2>2. ~Resizing'
    BY <2>1 DEF Resizing
  <2>3. DiskInv'
    BY <1>1, <1>3, <2>2 DEF ContentsInv, DiskInv
  <2>4. /\ call.write \in WriteExtents /\ call.write \in [pos : Nat, n : Nat \ {0}]
        /\ call.write.pos <= call.old.layout.file_size
        /\ call.write.pos + call.write.n = call.target.file_size
        /\ call.old.layout.file_size < call.target.file_size
    BY <1>2, <1>5, <1>7, DeviceAssumption DEF RequestInv
  <2>5. /\ Len(call.before) = call.old.layout.file_size
        /\ call.target.file_size \in Nat /\ call.old.layout.file_size \in Nat
        /\ IsBytes(NewBytes, call.target.file_size)
    BY <1>2, ResizedBytes
  <2>6. Grown(call.before, call.write) = NewBytes
    BY <2>4, <2>5 DEF Grown, NewBytes
  <2>7. WrittenUpTo(call.before, call.write, call.write.pos) = NewBytes
    <3>1. call.write.pos - call.write.pos = 0
      BY <2>4
    <3>. QED
      BY <2>4, <2>5, <2>6, <3>1, NothingWritten DEF WrittenUpTo
  <2>8. WritingInv'
    <3>1. \E write \in WriteExtents :
            /\ write.pos <= Len(call'.before)
            /\ write.pos <= call'.write.pos
            /\ call'.write.pos + call'.write.n = write.pos + write.n
            /\ ReadBytes(metadata)' = WrittenUpTo(call'.before, write, call'.write.pos)
      <4>1. call.write.pos <= call.write.pos
        BY <2>4
      <4>. QED
        BY <1>3, <1>4, <2>1, <2>4, <2>5, <2>7, <4>1
    <3>2. call'.write.pos + call'.write.n <= metadata'.layout.file_size
      BY <1>1, <1>2, <2>1, <2>4, <2>5
    <3>. QED
      BY <2>1, <2>4, <3>1, <3>2 DEF WritingInv
  <2>9. ContentsInv'
    BY <2>1, <2>2, <2>3, <2>8
       DEF ContentsInv, RequestInv, OldBytesInv, CopyInv, TurnOverInv, NewBytesInv
  <2>10. PromiseStep
    BY <1>1, <2>1 DEF PromiseStep, File
  <2>. QED
    BY <2>9, <2>10
<1>. QED
  BY <1>6, <1>7

\* How much of a data block a file uses says where the file ends.
LEMMA UsedBytes ==
  ASSUME NEW layout, IsLayout(layout), NEW i \in Nat
  PROVE  LET size == DataBlockSize(layout.category)
         IN  /\ UsedSize(layout, i) \in 0..size
             /\ \A k \in 1..size : k <= UsedSize(layout, i) <=> i * size + k <= layout.file_size
<1> DEFINE size == DataBlockSize(layout.category)
           offset == i * size
<1>1. size \in Nat \ {0} /\ layout.file_size \in Nat
  BY UnitGeometry DEF IsLayout, Layouts
<1>2. offset \in Nat
  BY <1>1
<1>3. UsedSize(layout, i) = IF layout.file_size <= offset THEN 0
                            ELSE LesserOf(size, layout.file_size - offset)
  BY DEF UsedSize, UsedDataBlockSize
<1>. HIDE DEF size, offset
<1>4. UsedSize(layout, i) \in 0..size
  BY <1>1, <1>2, <1>3 DEF LesserOf
<1>5. \A k \in 1..size : k <= UsedSize(layout, i) <=> offset + k <= layout.file_size
  BY <1>1, <1>2, <1>3 DEF LesserOf
<1>. QED
  BY <1>4, <1>5 DEF size, offset

\* A data block the file uses is one it counts.
LEMMA UsedDataBlock ==
  ASSUME NEW layout, IsLayout(layout), layout.category # Inline, NEW i \in Nat,
         UsedSize(layout, i) # 0
  PROVE  i \in 0..(DataBlocksCount(layout) - 1)
<1> DEFINE size == DataBlockSize(layout.category)
           offset == i * size
<1>1. size \in Nat \ {0} /\ layout.file_size \in Nat /\ offset \in Nat
  BY UnitGeometry DEF IsLayout, Layouts
<1>2. ~(layout.file_size <= offset)
  BY DEF UsedSize, UsedDataBlockSize
<1>3. offset \div size = i
  BY <1>1
<1>. HIDE DEF offset
<1>4. offset \in 0..(layout.file_size - 1)
  BY <1>1, <1>2
<1>. QED
  BY <1>3, <1>4, CountedDataBlocks

\* A load yields whole sectors.
LEMMA StoredIsBytes ==
  ASSUME NEW d, NEW location, NEW size
  PROVE  IsBytes(Stored(d, location, size), AlignedSize(size))
  BY DEF IsBytes, Stored, BytesAt, Junks

\* The data block as ResizeChangedDataBlocks leaves it.
LEMMA TurnedOver ==
  ASSUME FileResizeInv, ContentsInv, Resizing, call.target.category # Inline,
         NEW i \in 0..(DataBlocksCount(call.target) - 1),
         NEW size, size = DataBlockSize(call.target.category),
         NEW held, NEW data,
         call.old.layout.category = call.target.category,
         \A k \in 1..UsedSize(call.old.layout, i) : held[k] = call.before[i * size + k],
         UsedSize(call.old.layout, i) # 0 => IsBytes(held, AlignedSize(UsedSize(call.old.layout, i))),
         data = IF UsedSize(call.old.layout, i) = 0
                  THEN Zeros(AlignedSize(UsedSize(call.target, i)))
                  ELSE ResizedData(held, UsedSize(call.old.layout, i), UsedSize(call.target, i))
  PROVE  /\ IsBytes(data, AlignedSize(UsedSize(call.target, i)))
         /\ \A k \in 1..UsedSize(call.target, i) : data[k] = NewBytes[i * size + k]
<1> DEFINE old_size == UsedSize(call.old.layout, i)
           new_size == UsedSize(call.target, i)
           offset == i * size
<1>1. /\ IsLayout(call.target) /\ IsLayout(call.old.layout)
      /\ call.target.file_size \in Nat /\ call.old.layout.file_size \in Nat
      /\ \A m \in 1..call.target.file_size :
           NewBytes[m] = IF m <= call.old.layout.file_size THEN call.before[m] ELSE Zero
  BY ResizedBytes
<1>2. /\ size \in Nat \ {0} /\ new_size \in 1..size /\ i \in Nat
      /\ \A k \in 1..new_size : offset + k \in 1..call.target.file_size
  <2>1. DataBlocksCount(call.target) \in Nat
    BY <1>1, CountedDataBlocks
  <2>2. i \in Nat
    BY <2>1
  <2>3. /\ size \in Nat \ {0} /\ new_size \in 1..size
        /\ \A k \in 1..new_size : offset + k \in 1..call.target.file_size
    BY <1>1, ByteInDataBlock
  <2>. QED
    BY <2>2, <2>3
<1>3. /\ old_size \in 0..size
      /\ \A k \in 1..size : k <= old_size <=> offset + k <= call.old.layout.file_size
  BY <1>1, <1>2, UsedBytes
<1>4. call.target.category \in Categories
  BY <1>1 DEF IsLayout, Layouts
<1>5. /\ AlignedSize(new_size) \in Nat /\ new_size <= AlignedSize(new_size)
      /\ AlignedSize(old_size) \in Nat /\ old_size <= AlignedSize(old_size)
  BY <1>2, <1>3, <1>4, AlignedSizes
<1>6. IsBytes(data, AlignedSize(new_size))
  BY DEF IsBytes, Zeros, ResizedData
<1>. HIDE DEF old_size, new_size, offset
<1>7. ASSUME NEW k \in 1..new_size PROVE data[k] = NewBytes[offset + k]
  <2>1. k \in 1..size /\ k \in 1..AlignedSize(new_size) /\ k \in Nat
    BY <1>2, <1>5
  <2>2. NewBytes[offset + k] = IF k <= old_size THEN call.before[offset + k] ELSE Zero
    BY <1>1, <1>2, <1>3, <2>1
  <2>3. CASE old_size = 0
    <3>1. data[k] = Zero
      BY <2>1, <2>3 DEF Zeros, old_size, new_size
    <3>2. ~(k <= old_size)
      BY <2>1, <2>3
    <3>. QED
      BY <2>2, <3>1, <3>2
  <2>4. CASE old_size # 0
    <3>1. data[k] = IF k <= Len(held) /\ ~(k > old_size /\ k <= new_size) THEN held[k] ELSE Zero
      BY <2>1, <2>4 DEF ResizedData, old_size, new_size
    <3>2. Len(held) = AlignedSize(old_size)
      BY <1>5, <2>4, LengthOfBytes DEF old_size
    <3>3. CASE k <= old_size
      <4>1. k <= Len(held) /\ ~(k > old_size /\ k <= new_size) /\ k \in 1..old_size
        BY <1>3, <1>5, <2>1, <3>2, <3>3
      <4>2. held[k] = call.before[offset + k]
        BY <4>1 DEF old_size, offset
      <4>. QED
        BY <2>2, <3>1, <3>3, <4>1, <4>2
    <3>4. CASE ~(k <= old_size)
      <4>1. k > old_size /\ k <= new_size
        BY <1>2, <1>3, <2>1, <3>4
      <4>. QED
        BY <2>2, <3>1, <3>4, <4>1
    <3>. QED
      BY <3>3, <3>4
  <2>. QED
    BY <2>3, <2>4
<1>. QED
  BY <1>6, <1>7 DEF new_size, offset

\* After the commit of a resize in place, one more data block is turned over.
LEMMA ResizeChangedContents ==
  ASSUME FileResizeInv, FileResizeInv', ContentsInv, ResizeChangedDataBlock
  PROVE  ContentsInv' /\ PromiseStep
<1> DEFINE target == call.target
           old == call.old.layout
           category == target.category
           size == DataBlockSize(category)
           i == call.index
           units == UnitsOf(metadata)
           old_size == UsedSize(old, i)
           new_size == UsedSize(target, i)
           location == Location(category, metadata.units, i)
           data == IF old_size = 0 THEN Zeros(AlignedSize(new_size))
                   ELSE ResizedData(Fetch(location, old_size), old_size, new_size)
<1>1. /\ call.step = "resize_changed"
      /\ IF old_size = new_size \/ new_size = 0 THEN UNCHANGED <<metadata, disk>>
         ELSE /\ disk' = Flushed(location, data)
              /\ metadata' = [metadata EXCEPT !.units = WithHash(category, @, i, data)]
      /\ call' = [call EXCEPT !.index = @ + 1]
      /\ UNCHANGED <<metadata_disk, outcome>>
  BY DEF ResizeChangedDataBlock
<1>2. /\ Resizing /\ Committed /\ call.step \in StepsOf(call.mode)
      /\ call.mode \in {"inline", "in_place", "rebuild"} /\ target = metadata.layout
      /\ call.mode = "in_place" =>
           target.category = old.category /\ target.category \notin {Inline, ClusterMetadataBlocks}
      /\ DOMAIN call = {"step", "mode", "target", "payload", "units", "metadata_blocks", "index",
                        "old", "old_units", "before", "write"}
      /\ i \in Nat
  BY <1>1, AfterCommitFacts
<1>3. call.mode = "in_place"
  BY <1>1, <1>2 DEF StepsOf
<1>4. /\ target.category = old.category /\ category # Inline /\ category # ClusterMetadataBlocks
  BY <1>2, <1>3
<1>5. units = metadata.units
  BY <1>2, <1>4 DEF UnitsOf
<1>6. /\ IsLayout(target) /\ IsLayout(old)
      /\ \A m \in 1..target.file_size :
           NewBytes[m] = IF m <= old.file_size THEN call.before[m] ELSE Zero
  BY <1>2, ResizedBytes
<1>7. /\ IsUnits(units) /\ Len(units) = target.data_units_count
      /\ Apart(category, units, <<>>) /\ BlocksOf(category, units, <<>>) \subseteq AreaBlocks
      /\ category \in Categories \ {Inline}
  BY <1>2, <1>4, FileFacts
<1>8. HasHashes(category, units) /\ disk = [a \in Addresses |-> disk[a]] /\ DiskInv
  BY <1>2 DEF ContentsInv, DiskInv
<1>9. /\ call'.step = "resize_changed" /\ call'.index = i + 1
      /\ call'.mode = call.mode /\ call'.target = call.target /\ call'.units = call.units
      /\ call'.old = call.old /\ call'.before = call.before /\ call'.write = call.write
  BY <1>1, <1>2
<1>10. Resizing' /\ Committed'
  BY <1>9 DEF Resizing, Committed
<1>11. RequestInv' /\ WritingInv' /\ PromiseStep /\ NewBytes' = NewBytes
  BY <1>1, <1>2, <1>9, <1>10, StillResizing
<1>12. OldBytesInv' /\ CopyInv' /\ NewBytesInv'
  BY <1>3, <1>9, <1>10 DEF OldBytesInv, CopyInv, NewBytesInv
<1>13. \A j \in 0..(DataBlocksCount(target) - 1) :
          IF j < i THEN Reads(disk, target, units, j, NewBytes)
          ELSE j < DataBlocksCount(old) => Reads(disk, old, units, j, call.before)
  BY <1>1, <1>3 DEF ContentsInv, TurnOverInv
<1>14. \A j \in 0..(DataBlocksCount(target) - 1) :
          /\ j \in IndicesOf(category, units)
          /\ UsedSize(target, j) \in 0..size /\ UsedSize(old, j) \in 0..size
          /\ j \in Nat
  <2>. SUFFICES ASSUME NEW j \in 0..(DataBlocksCount(target) - 1)
                PROVE  /\ j \in IndicesOf(category, units)
                       /\ UsedSize(target, j) \in 0..size /\ UsedSize(old, j) \in 0..size
                       /\ j \in Nat
    OBVIOUS
  <2>1. j \in IndicesOf(category, units)
    BY <1>6, <1>7, IndicesOfLayout
  <2>2. j \in Nat
    BY <2>1 DEF IndicesOf
  <2>. QED
    BY <1>4, <1>6, <2>1, <2>2, UsedBytes
<1>15. i \in 0..(DataBlocksCount(target) - 1) /\ old_size # 0 =>
          /\ i \in 0..(DataBlocksCount(old) - 1)
          /\ \A k \in 1..old_size : DataBlockOf(disk, old, units, i)[k] = call.before[i * size + k]
  <2>. SUFFICES ASSUME i \in 0..(DataBlocksCount(target) - 1), old_size # 0
                PROVE  /\ i \in 0..(DataBlocksCount(old) - 1)
                       /\ \A k \in 1..old_size :
                            DataBlockOf(disk, old, units, i)[k] = call.before[i * size + k]
    OBVIOUS
  <2>1. i \in 0..(DataBlocksCount(old) - 1)
    BY <1>2, <1>4, <1>6, UsedDataBlock
  <2>2. ~(i < i) /\ i < DataBlocksCount(old)
    <3>1. DataBlocksCount(old) \in Nat
      BY <1>4, <1>6, CountedDataBlocks
    <3>. QED
      BY <1>2, <2>1, <3>1
  <2>3. Reads(disk, old, units, i, call.before)
    BY <1>13, <2>2
  <2>. QED
    BY <1>4, <2>1, <2>3 DEF Reads
<1>. DEFINE Done == /\ DiskInv'
                    /\ \A j \in 0..(DataBlocksCount(target) - 1) :
                         IF j < i + 1 THEN Reads(disk', target, UnitsOf(metadata)', j, NewBytes)
                         ELSE j < DataBlocksCount(old) =>
                                Reads(disk', old, UnitsOf(metadata)', j, call.before)
<1>16. ASSUME old_size = new_size \/ new_size = 0 PROVE Done
  <2>1. UNCHANGED <<metadata, disk, metadata_disk>>
    BY <1>1, <1>16
  <2>2. UnitsOf(metadata)' = units
    BY <2>1, QuietFile
  <2>3. DiskInv'
    BY <1>2, <1>8, <1>9, <2>1, <2>2 DEF DiskInv
  <2>4. ASSUME i \in 0..(DataBlocksCount(target) - 1) PROVE Reads(disk, target, units, i, NewBytes)
    <3>1. /\ new_size \in 1..size
          /\ \A k \in 1..new_size : i * size + k \in 1..target.file_size
      BY <1>4, <1>6, <2>4, ByteInDataBlock
    <3>2. old_size = new_size /\ old_size # 0
      BY <1>16, <3>1
    <3>3. \A k \in 1..old_size : DataBlockOf(disk, old, units, i)[k] = call.before[i * size + k]
      BY <1>15, <2>4, <3>2
    <3>4. DataBlockOf(disk, target, units, i) = DataBlockOf(disk, old, units, i)
      BY <1>4, <3>2 DEF DataBlockOf
    <3>5. \A k \in 1..size : k <= old_size <=> i * size + k <= old.file_size
      BY <1>2, <1>4, <1>6, UsedBytes
    <3>8. size \in Nat \ {0}
      BY <1>6, UnitGeometry DEF IsLayout, Layouts
    <3>. HIDE DEF size, new_size, old_size, i, target
    <3>6. ASSUME NEW k \in 1..new_size
          PROVE  DataBlockOf(disk, target, units, i)[k] = NewBytes[i * size + k]
      <4>1. k \in 1..size /\ k <= old_size /\ k \in 1..old_size
        BY <3>1, <3>2, <3>8
      <4>2. i * size + k <= old.file_size
        BY <3>5, <4>1
      <4>3. NewBytes[i * size + k] = call.before[i * size + k]
        BY <1>6, <3>1, <4>2
      <4>. QED
        BY <3>3, <3>4, <4>1, <4>3
    <3>. QED
      BY <3>6 DEF Reads, size, new_size, target, category
  <2>5. ASSUME NEW j \in 0..(DataBlocksCount(target) - 1)
        PROVE  IF j < i + 1 THEN Reads(disk, target, units, j, NewBytes)
               ELSE j < DataBlocksCount(old) => Reads(disk, old, units, j, call.before)
    <3>1. j \in Nat /\ i \in Nat
      BY <1>2, <1>14
    <3>2. CASE j = i
      BY <2>4, <3>1, <3>2
    <3>3. CASE j # i
      <4>1. j < i + 1 <=> j < i
        BY <3>1, <3>3
      <4>. QED
        BY <1>13, <4>1
    <3>. QED
      BY <3>2, <3>3
  <2>. QED
    BY <2>1, <2>2, <2>3, <2>5
<1>17. ASSUME ~(old_size = new_size \/ new_size = 0) PROVE Done
  <2>1. i \in 0..(DataBlocksCount(target) - 1)
    BY <1>2, <1>4, <1>6, <1>17, UsedDataBlock
  <2>2. /\ disk' = Flushed(location, data) /\ location = Location(category, units, i)
        /\ metadata' = [metadata EXCEPT !.units = WithHash(category, @, i, data)]
    BY <1>1, <1>5, <1>17
  <2>3. Fetch(location, old_size) = DataBlockOf(disk, old, units, i)
    BY <1>4, <2>2 DEF Fetch, DataBlockOf, Stored, BytesAt
  <2>4. /\ IsBytes(data, AlignedSize(new_size))
        /\ \A k \in 1..new_size : data[k] = NewBytes[i * size + k]
    <3>1. IsBytes(Fetch(location, old_size), AlignedSize(old_size))
      BY <2>3, StoredIsBytes DEF DataBlockOf
    <3>2. \A k \in 1..old_size : Fetch(location, old_size)[k] = call.before[i * size + k]
      <4>1. CASE old_size = 0
        BY <4>1
      <4>2. CASE old_size # 0
        BY <1>15, <2>1, <2>3, <4>2
      <4>. QED
        BY <4>1, <4>2
    <3>. QED
      BY <1>2, <1>4, <2>1, <3>1, <3>2, TurnedOver
  <2>5. UnitsOf(metadata)' = WithHash(category, units, i, data)
    <3>1. metadata'.layout = metadata.layout
          /\ metadata'.units = WithHash(category, units, i, data)
      <4>1. DOMAIN metadata = {"layout", "payload", "units", "metadata_blocks"}
        BY FileFacts DEF MetadataInv, IsEntry
      <4>. HIDE DEF data
      <4>. QED
        BY <1>5, <2>2, <4>1
    <3>2. metadata'.layout.category # ClusterMetadataBlocks
      BY <1>2, <1>4, <3>1
    <3>. QED
      BY <3>1, <3>2 DEF UnitsOf
  <2>. DEFINE new == UnitsOf(metadata)'
  <2>6. /\ i \in IndicesOf(category, units) /\ new_size \in 0..size
    BY <1>14, <2>1
  <2>7. disk' = FlushedOn(disk, Location(category, units, i), data)
    BY <2>2 DEF Flushed, FlushedOn
  <2>. HIDE DEF data, new_size, i, category, units
  <2>8. /\ Stored(disk', Location(category, new, i), new_size) = data
        /\ \A j \in IndicesOf(category, units), other \in 0..DataBlockSize(category) :
             j # i => Stored(disk', Location(category, new, j), other)
                        = Stored(disk, Location(category, units, j), other)
    BY <1>7, <1>8, <2>4, <2>5, <2>6, <2>7, FlushedThenLoaded
  <2>9. HasHashes(category, new)
    BY <1>7, <1>8, <2>5, <2>6, LocationRehashed
  <2>10. disk' = [a \in Addresses |-> disk'[a]]
    BY <1>7, <1>8, <2>4, <2>6, <2>7, FlushedInPlace
  <2>11. DiskInv'
    <3>1. metadata'.layout = metadata.layout
      <4>1. DOMAIN metadata = {"layout", "payload", "units", "metadata_blocks"}
        BY FileFacts DEF MetadataInv, IsEntry
      <4>. QED
        BY <2>2, <4>1
    <3>2. metadata.layout.category = category /\ category # Inline
      BY <1>2, <1>4 DEF category
    <3>3. HasHashes(call'.target.category, call'.units)
      BY <1>2, <1>8, <1>9 DEF DiskInv
    <3>. QED
      BY <2>9, <2>10, <3>1, <3>2, <3>3 DEF DiskInv
  <2>12. Reads(disk', target, new, i, NewBytes)
    BY <2>4, <2>8 DEF Reads, DataBlockOf, new_size, category
  <2>13. ASSUME NEW j \in 0..(DataBlocksCount(target) - 1), j # i
         PROVE  /\ DataBlockOf(disk', target, new, j) = DataBlockOf(disk, target, units, j)
                /\ DataBlockOf(disk', old, new, j) = DataBlockOf(disk, old, units, j)
    <3>1. target.category = category /\ old.category = category
      BY <1>4 DEF category
    <3>. QED
      BY <1>14, <2>8, <2>13, <3>1 DEF DataBlockOf
  <2>14. ASSUME NEW j \in 0..(DataBlocksCount(target) - 1)
         PROVE  IF j < i + 1 THEN Reads(disk', target, new, j, NewBytes)
                ELSE j < DataBlocksCount(old) => Reads(disk', old, new, j, call.before)
    <3>1. j \in Nat /\ i \in Nat
      BY <1>2, <1>14
    <3>2. CASE j = i
      BY <2>12, <3>1, <3>2
    <3>3. CASE j # i
      <4>1. j < i + 1 <=> j < i
        BY <3>1, <3>3
      <4>. QED
        BY <1>13, <2>13, <3>3, <4>1 DEF Reads
    <3>. QED
      BY <3>2, <3>3
  <2>. QED
    BY <2>11, <2>14 DEF i
<1>18. Done
  BY <1>16, <1>17
<1>19. TurnOverInv'
  <2>. HIDE DEF i
  <2>1. \A j \in 0..(DataBlocksCount(call'.target) - 1) :
          IF j < call'.index THEN Reads(disk', call'.target, UnitsOf(metadata)', j, NewBytes')
          ELSE j < DataBlocksCount(call'.old.layout) =>
                 Reads(disk', call'.old.layout, UnitsOf(metadata)', j, call'.before)
    BY <1>9, <1>11, <1>18
  <2>. QED
    BY <1>9, <2>1 DEF TurnOverInv
<1>. QED
  BY <1>11, <1>12, <1>18, <1>19 DEF ContentsInv
-----------------------------------------------------------------------------
(* Writes.                                                                 *)

\* Two adjoining writes are one.
LEMMA WrittenFurther ==
  ASSUME NEW n \in Nat, NEW bytes, DOMAIN bytes = 1..n,
         NEW from \in Nat, NEW pos \in Nat, from <= pos, NEW wrote \in Nat
  PROVE  Promise!Overwritten(Promise!Overwritten(bytes, [pos |-> from, n |-> pos - from]),
                             [pos |-> pos, n |-> wrote])
           = Promise!Overwritten(bytes, [pos |-> from, n |-> (pos + wrote) - from])
<1> DEFINE once == Promise!Overwritten(bytes, [pos |-> from, n |-> pos - from])
           twice == Promise!Overwritten(once, [pos |-> pos, n |-> wrote])
           all == Promise!Overwritten(bytes, [pos |-> from, n |-> (pos + wrote) - from])
<1>1. /\ once = [k \in 1..n |-> IF k > from /\ k <= from + (pos - from) THEN Promise!Stamp(k)
                                ELSE bytes[k]]
      /\ all = [k \in 1..n |-> IF k > from /\ k <= from + ((pos + wrote) - from) THEN Promise!Stamp(k)
                               ELSE bytes[k]]
  BY DEF Promise!Overwritten
<1>2. twice = [k \in 1..n |-> IF k > pos /\ k <= pos + wrote THEN Promise!Stamp(k) ELSE once[k]]
  BY <1>1 DEF Promise!Overwritten
<1>. HIDE DEF once, twice, all
<1>3. ASSUME NEW k \in 1..n PROVE twice[k] = all[k]
  BY <1>1, <1>2
<1>4. twice = [k \in 1..n |-> twice[k]] /\ all = [k \in 1..n |-> all[k]]
  BY <1>1, <1>2
<1>5. twice = all
  BY <1>3, <1>4
<1>. QED
  BY <1>5 DEF once, twice, all

\* A step of a write that fills the next bytes.
LEMMA WriteGoesOn ==
  ASSUME FileResizeInv, ContentsInv, DiskInv', call.step = "write",
         NEW wrote \in 1..call.write.n, metadata'.layout = metadata.layout,
         ReadBytes(metadata)'
           = Promise!Overwritten(ReadBytes(metadata), [pos |-> call.write.pos, n |-> wrote]),
         IF wrote = call.write.n THEN call' = Idle /\ outcome' = "ok"
         ELSE /\ call' = [call EXCEPT !.write = [pos |-> @.pos + wrote, n |-> @.n - wrote]]
              /\ outcome' = outcome
  PROVE  ContentsInv' /\ PromiseStep
<1> DEFINE pos == call.write.pos
           left == call.write.n
<1>1. /\ call.write \in [pos : Nat, n : Nat \ {0}] /\ pos \in Nat /\ left \in Nat \ {0}
      /\ pos + left <= metadata.layout.file_size
  BY DEF ContentsInv, WritingInv
<1>2. PICK write \in WriteExtents :
         /\ write.pos <= Len(call.before)
         /\ write.pos <= pos
         /\ pos + left = write.pos + write.n
         /\ ReadBytes(metadata) = WrittenUpTo(call.before, write, pos)
  BY DEF ContentsInv, WritingInv
<1>3. /\ write \in [pos : Nat, n : Nat \ {0}] /\ write.pos \in Nat /\ write.n \in Nat
      /\ write = [pos |-> write.pos, n |-> write.n]
  BY DeviceAssumption
<1>. DEFINE grown == Grown(call.before, write)
            size == metadata.layout.file_size
<1>4. DOMAIN grown = 1..size /\ size \in Nat
  <2>1. DOMAIN ReadBytes(metadata) = 1..size /\ size \in Nat
    BY FileFacts, FileBytesAreBytes DEF ContentsInv
  <2>2. DOMAIN ReadBytes(metadata) = DOMAIN grown
    BY <1>2 DEF WrittenUpTo, Promise!Overwritten
  <2>. QED
    BY <2>1, <2>2
<1>5. ReadBytes(metadata)' = WrittenUpTo(call.before, write, pos + wrote)
  <2>1. ReadBytes(metadata) = Promise!Overwritten(grown, [pos |-> write.pos, n |-> pos - write.pos])
    BY <1>2 DEF WrittenUpTo
  <2>2. wrote \in Nat
    BY <1>1
  <2>. HIDE DEF grown, size, pos
  <2>3. Promise!Overwritten(Promise!Overwritten(grown, [pos |-> write.pos, n |-> pos - write.pos]),
                            [pos |-> pos, n |-> wrote])
          = Promise!Overwritten(grown, [pos |-> write.pos, n |-> (pos + wrote) - write.pos])
    BY <1>1, <1>2, <1>3, <1>4, <2>2, WrittenFurther
  <2>4. ReadBytes(metadata)' = Promise!Overwritten(ReadBytes(metadata), [pos |-> pos, n |-> wrote])
    BY DEF pos
  <2>. QED
    BY <2>1, <2>3, <2>4 DEF WrittenUpTo, grown
<1>6. CASE wrote = left
  <2>1. call'.step = "idle" /\ outcome' = "ok"
    BY <1>6 DEF Idle
  <2>2. (pos + wrote) - write.pos = write.n
    BY <1>1, <1>2, <1>3, <1>6
  <2>3. ReadBytes(metadata)' = Promise!Overwritten(grown, write)
    BY <1>3, <1>5, <2>2 DEF WrittenUpTo
  <2>4. File = call.before /\ File' = ReadBytes(metadata)'
    BY <2>1 DEF File
  <2>5. Promise!Write(write)
    BY <1>2, <2>1, <2>3, <2>4
       DEF Promise!Write, Promise!ResizedTo, ResizedTo, Promise!Zero, Zero, Grown, File
  <2>6. Promise!Next
    BY <2>5 DEF Promise!Next
  <2>. QED
    BY <2>1, <2>6, NextIdleContents DEF PromiseStep
<1>7. CASE wrote # left
  <2>1. /\ call' = [call EXCEPT !.write = [pos |-> @.pos + wrote, n |-> @.n - wrote]]
        /\ outcome' = outcome
    BY <1>7
  <2>2. DOMAIN call = {"step", "before", "write"}
    BY WritingFacts
  <2>3. /\ call'.step = "write" /\ call'.before = call.before
        /\ call'.write = [pos |-> pos + wrote, n |-> left - wrote]
    BY <2>1, <2>2
  <2>4. call'.write.pos = pos + wrote /\ call'.write.n = left - wrote
    BY <2>3
  <2>5. /\ pos + wrote \in Nat /\ left - wrote \in Nat \ {0} /\ wrote \in Nat
        /\ (pos + wrote) + (left - wrote) = pos + left
    BY <1>1, <1>7
  <2>6. WritingInv'
    <3>1. call'.write \in [pos : Nat, n : Nat \ {0}]
      BY <2>3, <2>5
    <3>2. call'.write.pos + call'.write.n <= metadata'.layout.file_size
      BY <1>1, <2>4, <2>5
    <3>3. write.pos <= call'.write.pos
      BY <1>1, <1>2, <1>3, <2>4, <2>5
    <3>4. call'.write.pos + call'.write.n = write.pos + write.n
      BY <1>2, <2>4, <2>5
    <3>5. ReadBytes(metadata)' = WrittenUpTo(call'.before, write, call'.write.pos)
      BY <1>5, <2>3, <2>4
    <3>. QED
      BY <1>2, <2>3, <3>1, <3>2, <3>3, <3>4, <3>5 DEF WritingInv
  <2>7. ~Resizing'
    BY <2>3 DEF Resizing
  <2>8. ContentsInv'
    BY <2>3, <2>6, <2>7
       DEF ContentsInv, RequestInv, OldBytesInv, CopyInv, TurnOverInv, NewBytesInv
  <2>9. PromiseStep
    BY <2>1, <2>3 DEF PromiseStep, File
  <2>. QED
    BY <2>8, <2>9
<1>. QED
  BY <1>6, <1>7

\* A write into the entry itself.
LEMMA WriteInlineContents ==
  ASSUME FileResizeInv, FileResizeInv', ContentsInv, WriteInline
  PROVE  ContentsInv' /\ PromiseStep
<1> DEFINE pos == call.write.pos
           n == call.write.n
           size == metadata.layout.file_size
<1>1. /\ call.step = "write" /\ metadata.layout.category = Inline
      /\ metadata' = [metadata EXCEPT !.payload = Written(metadata.payload, pos, n, 0)]
      /\ call' = Idle /\ outcome' = "ok" /\ disk' = disk
  BY DEF WriteInline
<1>2. IsEntry(metadata) /\ size \in Nat
  BY FileFacts DEF MetadataInv
<1>3. /\ metadata'.layout = metadata.layout /\ metadata'.units = metadata.units
      /\ metadata'.payload = Written(metadata.payload, pos, n, 0)
  BY <1>1, <1>2 DEF IsEntry
<1>4. UnitsOf(metadata)' = UnitsOf(metadata)
  BY <1>1, <1>3 DEF UnitsOf, Inline, ClusterMetadataBlocks
<1>5. ReadBytes(metadata) = metadata.payload /\ ReadBytes(metadata)' = metadata'.payload
  BY <1>1, <1>3 DEF ReadBytes
<1>6. n \in Nat \ {0}
  BY <1>1 DEF ContentsInv, WritingInv
<1>7. DOMAIN metadata.payload = 1..size
  BY <1>5, FileBytesAreBytes DEF ContentsInv
<1>8. metadata'.payload = Promise!Overwritten(metadata.payload, [pos |-> pos, n |-> n])
  <2>1. metadata'.payload =
          [k \in 1..size |-> IF k > pos /\ k <= pos + n THEN 0 + k ELSE metadata.payload[k]]
    BY <1>3, <1>7 DEF Written, Stamp
  <2>2. Promise!Overwritten(metadata.payload, [pos |-> pos, n |-> n]) =
          [k \in 1..size |-> IF k > pos /\ k <= pos + n THEN k ELSE metadata.payload[k]]
    BY <1>7 DEF Promise!Overwritten, Promise!Stamp
  <2>3. \A k \in 1..size : 0 + k = k
    BY <1>2
  <2>. QED
    BY <2>1, <2>2, <2>3
<1>9. IsBytes(metadata'.payload, size)
  BY <1>3, <1>7 DEF IsBytes, Written
<1>10. DiskInv'
  <2>1. ~Resizing'
    BY <1>1 DEF Resizing, Idle
  <2>. QED
    BY <1>1, <1>3, <1>4, <1>9, <2>1 DEF ContentsInv, DiskInv
<1>11. n \in 1..call.write.n
  BY <1>6
<1>12. ReadBytes(metadata)' = Promise!Overwritten(ReadBytes(metadata), [pos |-> pos, n |-> n])
  BY <1>5, <1>8
<1>. QED
  BY <1>1, <1>3, <1>10, <1>11, <1>12, WriteGoesOn

\* Data block index of a category 4 file is in the unit its metadata blocks
\* list at this place.
LEMMA PlaceInMetadataBlocks ==
  ASSUME NEW d \in Nat \ {0}, NEW index \in Nat
  PROVE  LET per == ClustersPerMetadataBlock * d
             q == index \div d
         IN  /\ q \in Nat
             /\ index \div per = q \div ClustersPerMetadataBlock
             /\ (index % per) \div d = q % ClustersPerMetadataBlock
             /\ (index % per) % d = index % d
<1> DEFINE P == ClustersPerMetadataBlock
           per == P * d
           q == index \div d
           r == index % d
           c == q \div P
           s == q % P
<1>1. P \in Nat \ {0} /\ per \in Nat \ {0}
  <2>1. P \in Nat \ {0}
    BY PositiveGeometry
  <2>. QED
    BY <2>1
<1>2. ASSUME NEW z \in Nat, NEW m \in Nat \ {0}
      PROVE  z \div m \in Nat /\ z % m \in 0..(m - 1) /\ z = (z \div m) * m + (z % m)
  OBVIOUS
<1>3. /\ q \in Nat /\ r \in 0..(d - 1) /\ index = q * d + r
      /\ c \in Nat /\ s \in 0..(P - 1) /\ q = c * P + s
  BY <1>1, <1>2
<1>4. \* the quotient and the remainder are the only ones
      ASSUME NEW m \in Nat \ {0}, NEW a \in Nat, NEW b \in 0..(m - 1), NEW z \in Nat, z = a * m + b
      PROVE  z \div m = a /\ z % m = b
  <2>. DEFINE x == z \div m
              y == z % m
  <2>1. x \in Nat /\ y \in 0..(m - 1) /\ z = x * m + y
    BY <1>2
  <2>. HIDE DEF x, y
  <2>2. ASSUME NEW v \in Nat, NEW w \in Nat, v < w PROVE v * m + m <= w * m
    <3>1. w * m = (v * m + m) + (w - 1 - v) * m
      OBVIOUS
    <3>2. w - 1 - v \in Nat
      BY <2>2
    <3>3. (w - 1 - v) * m \in Nat /\ v * m \in Nat
      BY <3>2
    <3>. QED
      BY <3>1, <3>3
  <2>3. x * m \in Nat /\ a * m \in Nat
    BY <2>1
  <2>4. ~(x < a) /\ ~(a < x)
    BY <1>4, <2>1, <2>2, <2>3
  <2>5. x = a
    BY <2>1, <2>4
  <2>6. y = b
    BY <1>4, <2>1, <2>3, <2>5
  <2>. QED
    BY <2>5, <2>6 DEF x, y
<1>. HIDE DEF q, r, c, s, P
<1>5. s * d + r \in 0..(per - 1)
  <2>1. P * d = (s * d + d) + (P - 1 - s) * d
    BY <1>1, <1>3
  <2>2. (P - 1 - s) * d \in Nat /\ s * d \in Nat
    <3>1. P - 1 - s \in Nat
      BY <1>1, <1>3
    <3>. QED
      BY <1>3, <3>1
  <2>. QED
    BY <1>1, <1>3, <2>1, <2>2
<1>6. index = c * per + (s * d + r)
  <2>1. q * d = (c * P) * d + s * d
    BY <1>1, <1>3
  <2>2. (c * P) * d = c * (P * d)
    BY <1>1, <1>3
  <2>3. (c * P) * d \in Nat /\ s * d \in Nat /\ r \in Nat
    BY <1>1, <1>3
  <2>4. index = ((c * P) * d + s * d) + r
    BY <1>3, <2>1
  <2>5. index = (c * P) * d + (s * d + r)
    BY <2>3, <2>4
  <2>. QED
    BY <2>2, <2>5
<1>. HIDE DEF per
<1>7. index \div per = c /\ index % per = s * d + r
  <2>. DEFINE b == s * d + r
  <2>. HIDE DEF b
  <2>1. c \in Nat /\ b \in 0..(per - 1) /\ index = c * per + b /\ per \in Nat \ {0} /\ index \in Nat
    BY <1>1, <1>3, <1>5, <1>6 DEF b
  <2>2. index \div per = c /\ index % per = b
    BY ONLY <1>4, <2>1
  <2>. QED
    BY <2>2 DEF b
<1>8. (s * d + r) \div d = s /\ (s * d + r) % d = r
  <2>1. s * d + r \in Nat /\ s \in Nat
    BY <1>1, <1>3, <1>5
  <2>. QED
    BY <1>3, <1>4, <2>1
<1>. QED
  BY <1>3, <1>7, <1>8 DEF q, r, c, s, P, per

\* Writing a data block of a category 4 file rehashes its item in the metadata
\* block that lists it.
LEMMA MetadataBlockRehashed ==
  ASSUME MetadataInv, metadata.layout.category = ClusterMetadataBlocks, metadata' = metadata,
         NEW d \in Nat \ {0}, d = DataBlocksPerUnit(ClusterMetadataBlocks),
         NEW index \in Nat, (index \div d) + 1 \in 1..metadata.layout.data_units_count, NEW data,
         metadata_disk' =
           [metadata_disk EXCEPT
              ![metadata.metadata_blocks[(index \div (ClustersPerMetadataBlock * d)) + 1]] =
                 WithHash(ClusterMetadataBlocks, @, index % (ClustersPerMetadataBlock * d), data)]
  PROVE  UnitsOf(metadata)' = WithHash(ClusterMetadataBlocks, UnitsOf(metadata), index, data)
<1> DEFINE P == ClustersPerMetadataBlock
           q == index \div d
           r == index % d
           count == metadata.layout.data_units_count
           blocks == metadata.metadata_blocks
           Block(u) == BlockOfUnit(blocks, u)
           unit == q + 1
           item == metadata_disk[Block(unit)][SlotOfUnit(unit)]
           rehashed == [item EXCEPT !.hash[r + 1] = data]
<1>1. /\ index \div (P * d) = q \div P
      /\ (index % (P * d)) \div d = q % P
      /\ (index % (P * d)) % d = r
      /\ q \in Nat
  BY PlaceInMetadataBlocks
<1>2. /\ IsEntry(metadata) /\ count \in Nat /\ P \in Nat \ {0}
      /\ blocks \in Seq(AreaBlocks) /\ Len(blocks) = ClusterMetadataBlocksCount(count)
      /\ DOMAIN metadata_disk = AreaBlocks
  BY PositiveGeometry DEF MetadataInv, IsEntry, MetadataBlocksOf, IsLayout, Layouts
<1>3. unit \in 1..count /\ unit - 1 = q
  BY <1>1
<1>4. \A u \in 1..count : Block(u) \in AreaBlocks /\ SlotOfUnit(u) \in DOMAIN metadata_disk[Block(u)]
  BY <1>2, ListedInOwnBlocks DEF MetadataInv
<1>5. blocks[(index \div (P * d)) + 1] = Block(unit) /\ SlotOfUnit(unit) = (q % P) + 1
  BY <1>1, <1>3 DEF BlockOfUnit, SlotOfUnit
<1>6. metadata_disk' =
        [metadata_disk EXCEPT ![Block(unit)] =
           [metadata_disk[Block(unit)] EXCEPT ![SlotOfUnit(unit)] = rehashed]]
  <2>1. \A units : WithHash(ClusterMetadataBlocks, units, index % (P * d), data) =
                     [units EXCEPT ![SlotOfUnit(unit)].hash[r + 1] = data]
    BY <1>1, <1>5 DEF WithHash
  <2>2. WithHash(ClusterMetadataBlocks, metadata_disk[Block(unit)], index % (P * d), data) =
          [metadata_disk[Block(unit)] EXCEPT ![SlotOfUnit(unit)] = rehashed]
    BY <2>1
  <2>3. metadata_disk' =
          [metadata_disk EXCEPT ![Block(unit)] =
             WithHash(ClusterMetadataBlocks, metadata_disk[Block(unit)], index % (P * d), data)]
    BY <1>5
  <2>. QED
    BY <2>2, <2>3
<1>7. ASSUME NEW u \in 1..count, u # unit, Block(u) = Block(unit)
      PROVE  SlotOfUnit(u) # SlotOfUnit(unit)
  <2>. DEFINE a == (u - 1) \div P
              b == (unit - 1) \div P
              x == (u - 1) % P
              y == (unit - 1) % P
  <2>1. /\ a + 1 \in 1..ClusterMetadataBlocksCount(count)
        /\ b + 1 \in 1..ClusterMetadataBlocksCount(count)
    BY <1>2, <1>3, MetadataBlockOfUnit
  <2>2. DOMAIN blocks = 1..ClusterMetadataBlocksCount(count)
    BY <1>2, LenProperties
  <2>3. blocks[a + 1] = blocks[b + 1]
    BY <1>7 DEF BlockOfUnit
  <2>4. \A i, j \in DOMAIN blocks : i # j => blocks[i] # blocks[j]
    BY DEF MetadataInv, Apart
  <2>5. a = b
    <3>1. a + 1 \in DOMAIN blocks /\ b + 1 \in DOMAIN blocks /\ blocks[a + 1] = blocks[b + 1]
      BY <2>1, <2>2, <2>3
    <3>2. a + 1 = b + 1
      BY <2>4, <3>1
    <3>3. a \in Int /\ b \in Int
      BY <1>2, <1>3
    <3>. HIDE DEF a, b
    <3>. QED
      BY <3>2, <3>3
  <2>6. /\ u - 1 = a * P + x /\ unit - 1 = b * P + y
        /\ x \in 0..(P - 1) /\ y \in 0..(P - 1) /\ a \in Nat /\ b \in Nat
    <3>1. u \in 1..count /\ unit \in 1..count
      BY <1>3
    <3>2. \A v \in 1..count :
            /\ (v - 1) \div P \in 0..(DivCeil(count, P) - 1)
            /\ (v - 1) % P \in 0..(P - 1)
            /\ v - 1 = ((v - 1) \div P) * P + ((v - 1) % P)
      BY <1>2, ChunkOfItem
    <3>3. 0..(DivCeil(count, P) - 1) \subseteq Nat
      BY <1>2, DivCeilCovers
    <3>. HIDE DEF P, unit
    <3>. QED
      BY <3>1, <3>2, <3>3
  <2>7. SlotOfUnit(u) = x + 1 /\ SlotOfUnit(unit) = y + 1
    BY DEF SlotOfUnit
  <2>8. u \in Nat /\ unit \in Nat
    BY <1>2, <1>3
  <2>. HIDE DEF a, b, x, y, unit
  <2>. QED
    BY <1>7, <2>5, <2>6, <2>7, <2>8
<1>8. UnitsOf(metadata) = [u \in 1..count |-> metadata_disk[Block(u)][SlotOfUnit(u)]]
  BY DEF UnitsOf, BlockOfUnit, SlotOfUnit
<1>9. UnitsOf(metadata)' = [u \in 1..count |-> metadata_disk'[Block(u)][SlotOfUnit(u)]]
  BY DEF UnitsOf, BlockOfUnit, SlotOfUnit
<1>10. WithHash(ClusterMetadataBlocks, UnitsOf(metadata), index, data) =
         [UnitsOf(metadata) EXCEPT ![unit].hash[r + 1] = data]
  BY DEF WithHash
<1>. HIDE DEF Block, unit, rehashed, item
<1>11. \A u \in 1..count :
         metadata_disk'[Block(u)][SlotOfUnit(u)] =
           IF u = unit THEN rehashed ELSE metadata_disk[Block(u)][SlotOfUnit(u)]
  <2>. SUFFICES ASSUME NEW u \in 1..count
                PROVE  metadata_disk'[Block(u)][SlotOfUnit(u)] =
                         IF u = unit THEN rehashed ELSE metadata_disk[Block(u)][SlotOfUnit(u)]
    OBVIOUS
  <2>1. /\ Block(u) \in DOMAIN metadata_disk /\ Block(unit) \in DOMAIN metadata_disk
        /\ SlotOfUnit(unit) \in DOMAIN metadata_disk[Block(unit)]
    BY <1>2, <1>3, <1>4
  <2>2. CASE u = unit
    BY <1>6, <2>1, <2>2
  <2>3. CASE u # unit /\ Block(u) = Block(unit)
    <3>1. SlotOfUnit(u) \in DOMAIN metadata_disk[Block(unit)]
      BY <1>4, <2>3
    <3>2. SlotOfUnit(u) # SlotOfUnit(unit)
      BY <1>7, <2>3
    <3>. QED
      BY <1>6, <2>1, <2>3, <3>1, <3>2
  <2>4. CASE Block(u) # Block(unit)
    BY <1>6, <2>1, <2>4
  <2>. QED
    BY <2>2, <2>3, <2>4
<1>12. UnitsOf(metadata)' =
         [u \in 1..count |-> IF u = unit THEN rehashed ELSE metadata_disk[Block(u)][SlotOfUnit(u)]]
  BY <1>9, <1>11
<1>13. UnitsOf(metadata)[unit] = item
  BY <1>3, <1>8 DEF item
<1>14. [UnitsOf(metadata) EXCEPT ![unit].hash[r + 1] = data] =
         [u \in 1..count |-> IF u = unit THEN rehashed ELSE metadata_disk[Block(u)][SlotOfUnit(u)]]
  <2>1. [UnitsOf(metadata) EXCEPT ![unit].hash[r + 1] = data] =
          [UnitsOf(metadata) EXCEPT ![unit] = rehashed]
    BY <1>13 DEF rehashed
  <2>. QED
    BY <1>3, <1>8, <2>1
<1>. QED
  BY <1>10, <1>12, <1>14

\* The file once data block index holds what the write put there.
LEMMA WrittenDataBlock ==
  ASSUME NEW layout, IsLayout(layout), layout.category # Inline,
         NEW pos \in 0..(layout.file_size - 1), NEW n \in Nat \ {0},
         NEW size, size = DataBlockSize(layout.category),
         NEW index, index = pos \div size, NEW first, first = pos % size,
         NEW used, used = UsedSize(layout, index), NEW wrote, wrote = BytesInBlock(n, used, first)
  PROVE  /\ index \in 0..(DataBlocksCount(layout) - 1)
         /\ wrote \in 1..n /\ used \in 1..size
         /\ \A k \in 1..used : index * size + k > pos /\ index * size + k <= pos + wrote
                                 <=> k > first /\ k <= first + wrote
         /\ \A j \in 0..(DataBlocksCount(layout) - 1) : \A k \in 1..UsedSize(layout, j) :
              j # index => ~(j * size + k > pos /\ j * size + k <= pos + wrote)
<1>1. layout.file_size \in Nat
  BY DEF IsLayout, Layouts
<1>2. /\ size \in Nat \ {0}
      /\ \A i \in 0..(DataBlocksCount(layout) - 1) :
           /\ UsedSize(layout, i) \in 1..size
           /\ \A k \in 1..UsedSize(layout, i) :
                /\ i * size + k \in 1..layout.file_size
                /\ (i * size + k - 1) \div size = i
      /\ \A m \in 1..layout.file_size :
           /\ (m - 1) \div size \in 0..(DataBlocksCount(layout) - 1)
           /\ ((m - 1) % size) + 1 \in 1..UsedSize(layout, (m - 1) \div size)
           /\ m = ((m - 1) \div size) * size + (((m - 1) % size) + 1)
  BY ByteInDataBlock
<1>3. pos + 1 \in 1..layout.file_size /\ (pos + 1) - 1 = pos /\ pos \in Nat
  BY <1>1
<1>4. /\ index \in 0..(DataBlocksCount(layout) - 1)
      /\ first + 1 \in 1..used
      /\ pos + 1 = index * size + (first + 1)
  BY <1>2, <1>3
<1>5. used \in 1..size
  BY <1>2, <1>4
<1>6. size \in Nat \ {0} /\ index \in Nat /\ first \in Nat
  <2>1. size \in Nat \ {0}
    BY <1>2
  <2>. QED
    BY <1>3, <2>1
<1>7. index * size \in Nat
  BY <1>2, <1>6
<1>. DEFINE offset == index * size
<1>8. /\ offset \in Nat /\ pos + 1 = offset + (first + 1)
      /\ \A k \in 1..used : (offset + k - 1) \div size = index
  BY <1>2, <1>4, <1>7
<1>. HIDE DEF offset
<1>9. wrote \in 1..n /\ first + wrote <= used /\ pos = offset + first
  <2>1. used \in Nat /\ first < used
    BY <1>4, <1>5, <1>6
  <2>2. wrote = IF n <= used - first THEN n ELSE used - first
    BY DEF BytesInBlock, LesserOf
  <2>3. offset \in Nat /\ pos + 1 = offset + (first + 1)
    BY <1>8
  <2>. QED
    BY ONLY <1>3, <1>6, <2>1, <2>2, <2>3, n \in Nat \ {0}
<1>10. \A k \in 1..used : offset + k > pos /\ offset + k <= pos + wrote
                             <=> k > first /\ k <= first + wrote
  BY <1>2, <1>3, <1>5, <1>6, <1>8, <1>9
<1>11. ASSUME NEW j \in 0..(DataBlocksCount(layout) - 1), NEW k \in 1..UsedSize(layout, j), j # index
       PROVE  ~(j * size + k > pos /\ j * size + k <= pos + wrote)
  <2>. DEFINE m == j * size + k
  <2>1. m \in Nat /\ (m - 1) \div size = j
    BY <1>1, <1>2
  <2>. HIDE DEF m
  <2>. SUFFICES ASSUME m > pos /\ m <= pos + wrote PROVE FALSE
    BY DEF m
  <2>. DEFINE l == m - offset
  <2>2. l \in 1..used /\ offset + l = m
    BY <1>2, <1>3, <1>5, <1>6, <1>8, <1>9, <2>1
  <2>. HIDE DEF l
  <2>3. (m - 1) \div size = index
    BY <1>8, <2>2
  <2>. QED
    BY <1>11, <2>1, <2>3
<1>. QED
  BY <1>4, <1>5, <1>9, <1>10, <1>11 DEF offset

\* A write of a part of a data block, which is flushed and rehashed.
LEMMA WriteDataBlockContents ==
  ASSUME FileResizeInv, FileResizeInv', ContentsInv, WriteDataBlock
  PROVE  ContentsInv' /\ PromiseStep
<1> DEFINE layout == metadata.layout
           category == layout.category
           units == UnitsOf(metadata)
           size == DataBlockSize(category)
           pos == call.write.pos
           index == pos \div size
           first == pos % size
           used == UsedSize(layout, index)
           wrote == BytesInBlock(call.write.n, used, first)
           location == Location(category, units, index)
           data == Written(Fetch(location, used), first, wrote, index * size)
           per == ClustersPerMetadataBlock * DataBlocksPerUnit(category)
           bytes == ReadBytes(metadata)
           written == Promise!Overwritten(bytes, [pos |-> pos, n |-> wrote])
<1>1. /\ call.step = "write" /\ category # Inline
      /\ disk' = Flushed(location, data)
      /\ IF category = ClusterMetadataBlocks
           THEN /\ metadata_disk' =
                     [metadata_disk EXCEPT ![metadata.metadata_blocks[(index \div per) + 1]] =
                        WithHash(category, @, index % per, data)]
                /\ metadata' = metadata
           ELSE /\ metadata' = [metadata EXCEPT !.units = WithHash(category, metadata.units, index, data)]
                /\ metadata_disk' = metadata_disk
      /\ IF wrote = call.write.n
           THEN call' = Idle /\ outcome' = "ok"
           ELSE /\ call' = [call EXCEPT !.write = [pos |-> @.pos + wrote, n |-> @.n - wrote]]
                /\ outcome' = outcome
  BY DEF WriteDataBlock
<1>2. /\ MetadataInv /\ IsLayout(layout) /\ category \in Categories \ {Inline}
      /\ layout.file_size \in Nat
      /\ IsUnits(units) /\ Len(units) = layout.data_units_count
      /\ Apart(category, units, <<>>) /\ BlocksOf(category, units, <<>>) \subseteq AreaBlocks
  BY <1>1, FileFacts
<1>3. DiskInv /\ disk = [a \in Addresses |-> disk[a]] /\ HasHashes(category, units)
  BY DEF ContentsInv, DiskInv
<1>4. /\ pos \in Nat /\ call.write.n \in Nat \ {0} /\ pos + call.write.n <= layout.file_size
  BY <1>1 DEF ContentsInv, WritingInv
<1>5. /\ index \in 0..(DataBlocksCount(layout) - 1)
      /\ wrote \in 1..call.write.n /\ used \in 1..size
      /\ \A k \in 1..used : index * size + k > pos /\ index * size + k <= pos + wrote
                              <=> k > first /\ k <= first + wrote
      /\ \A j \in 0..(DataBlocksCount(layout) - 1) : \A k \in 1..UsedSize(layout, j) :
           j # index => ~(j * size + k > pos /\ j * size + k <= pos + wrote)
  <2>1. pos \in 0..(layout.file_size - 1)
    BY <1>2, <1>4
  <2>2. /\ size = DataBlockSize(layout.category)
        /\ index = pos \div size /\ first = pos % size
        /\ used = UsedSize(layout, index) /\ wrote = BytesInBlock(call.write.n, used, first)
        /\ layout.category # Inline
    BY <1>1
  <2>. HIDE DEF size, index, first, used, wrote, pos, category, layout
  <2>. QED
    BY <1>2, <1>4, <2>1, <2>2, WrittenDataBlock
<1>6. index \in IndicesOf(category, units) /\ used \in 0..size /\ index \in Nat
      /\ (index \div DataBlocksPerUnit(category)) + 1 \in 1..layout.data_units_count
  <2>1. index \in IndicesOf(category, units)
    BY <1>2, <1>5, IndicesOfLayout
  <2>2. index \in Nat /\ (index \div DataBlocksPerUnit(category)) + 1 \in 1..Len(units)
    BY <1>2, <2>1, UnitsHaveItems DEF IndicesOf
  <2>. QED
    BY <1>2, <1>5, <2>1, <2>2
<1>7. UnitsOf(metadata)' = WithHash(category, units, index, data)
      /\ metadata'.layout = layout
  <2>. HIDE DEF data
  <2>1. DOMAIN metadata = {"layout", "payload", "units", "metadata_blocks"}
    BY <1>2 DEF MetadataInv, IsEntry
  <2>2. CASE category = ClusterMetadataBlocks
    <3>1. DataBlocksPerUnit(category) \in Nat \ {0}
      BY <1>2, UnitGeometry
    <3>. QED
      BY <1>1, <1>2, <1>6, <2>2, <3>1, MetadataBlockRehashed
  <2>3. CASE category # ClusterMetadataBlocks
    <3>1. metadata'.layout = layout /\ metadata'.units = WithHash(category, metadata.units, index, data)
      BY <1>1, <2>1, <2>3
    <3>. QED
      BY <2>3, <3>1 DEF UnitsOf
  <2>. QED
    BY <1>1, <2>2, <2>3
<1>. DEFINE new == UnitsOf(metadata)'
<1>8. /\ IsBytes(data, AlignedSize(used))
      /\ \A k \in 1..used : data[k] = IF k > first /\ k <= first + wrote THEN index * size + k
                                      ELSE DataBlockOf(disk, layout, units, index)[k]
  <2>. DEFINE held == Fetch(location, used)
  <2>1. held = DataBlockOf(disk, layout, units, index)
    BY DEF Fetch, DataBlockOf, Stored, BytesAt
  <2>2. IsBytes(held, AlignedSize(used))
    BY <2>1, StoredIsBytes DEF DataBlockOf
  <2>3. AlignedSize(used) \in Nat /\ used <= AlignedSize(used)
    BY <1>2, <1>6, AlignedSizes
  <2>4. used \in Nat
    BY <1>5
  <2>. HIDE DEF held, used, wrote, first, index, size
  <2>5. DOMAIN held = 1..AlignedSize(used)
    BY <2>2, <2>3, LengthOfBytes
  <2>6. data = [k \in 1..AlignedSize(used) |->
                  IF k > first /\ k <= first + wrote THEN index * size + k ELSE held[k]]
    BY <2>5 DEF Written, Stamp, held
  <2>7. 1..used \subseteq 1..AlignedSize(used)
    BY <2>3, <2>4
  <2>. HIDE DEF data
  <2>8. IsBytes(data, AlignedSize(used))
    BY <2>6 DEF IsBytes
  <2>9. \A k \in 1..used : data[k] = IF k > first /\ k <= first + wrote THEN index * size + k
                                     ELSE held[k]
    BY <2>6, <2>7
  <2>. QED
    BY <2>1, <2>8, <2>9
<1>9. disk' = FlushedOn(disk, Location(category, units, index), data)
  BY <1>1 DEF Flushed, FlushedOn
<1>10. IsBytes(bytes, layout.file_size) /\ DOMAIN bytes = 1..layout.file_size
  BY <1>3, FileBytesAreBytes
<1>11. bytes = Contents(disk, layout, metadata.payload, units)
  BY <1>2, FileBytes
<1>. HIDE DEF data, bytes
<1>12. ReadsAll(disk, layout, units, bytes)
  BY <1>1, <1>2, <1>10, <1>11, ReadsEachBlock
<1>13. /\ Stored(disk', Location(category, new, index), used) = data
       /\ \A j \in IndicesOf(category, units), other \in 0..DataBlockSize(category) :
            j # index => Stored(disk', Location(category, new, j), other)
                           = Stored(disk, Location(category, units, j), other)
  <2>. HIDE DEF index, used, category, units
  <2>. QED
    BY <1>2, <1>3, <1>6, <1>7, <1>8, <1>9, FlushedThenLoaded DEF size
<1>14. disk' = [a \in Addresses |-> disk'[a]] /\ HasHashes(category, new)
  <2>. HIDE DEF index, used, category, units
  <2>1. disk' = [a \in Addresses |-> disk'[a]]
    BY <1>2, <1>3, <1>6, <1>8, <1>9, FlushedInPlace DEF size
  <2>2. HasHashes(category, new)
    BY <1>2, <1>3, <1>6, <1>7, LocationRehashed
  <2>. QED
    BY <2>1, <2>2
<1>15. written = [k \in 1..layout.file_size |->
                    IF k > pos /\ k <= pos + wrote THEN k ELSE bytes[k]]
  BY <1>10 DEF Promise!Overwritten, Promise!Stamp
<1>16. IsBytes(written, layout.file_size)
  BY <1>15 DEF IsBytes
<1>17. \A j \in 0..(DataBlocksCount(layout) - 1) : \A k \in 1..UsedSize(layout, j) :
          j * size + k \in 1..layout.file_size
  BY <1>1, <1>2, ByteInDataBlock
<1>18. ReadsAll(disk', layout, new, written)
  <2>. SUFFICES ASSUME NEW j \in 0..(DataBlocksCount(layout) - 1), NEW k \in 1..UsedSize(layout, j)
                PROVE  DataBlockOf(disk', layout, new, j)[k] = written[j * size + k]
    BY DEF ReadsAll, Reads
  <2>1. DataBlockOf(disk, layout, units, j)[k] = bytes[j * size + k]
    BY <1>12 DEF ReadsAll, Reads
  <2>2. j * size + k \in 1..layout.file_size
    BY <1>17
  <2>3. /\ j \in IndicesOf(category, units)
        /\ UsedSize(layout, j) \in 0..size
    <3>1. /\ j \in IndicesOf(category, units)
          /\ UsedSize(layout, j) \in 1..size
      BY <1>2, IndicesOfLayout
    <3>2. size \in Nat
      BY <1>2, UnitGeometry
    <3>. QED
      BY <3>1, <3>2
  <2>. HIDE DEF written, index, first, wrote, units
  <2>4. CASE j = index
    <3>1. DataBlockOf(disk', layout, new, j) = data
      BY <1>13, <2>4 DEF DataBlockOf
    <3>2. written[j * size + k] =
            IF k > first /\ k <= first + wrote THEN j * size + k ELSE bytes[j * size + k]
      BY <1>5, <1>15, <2>2, <2>4
    <3>. QED
      BY <1>8, <2>1, <2>4, <3>1, <3>2
  <2>5. CASE j # index
    <3>1. DataBlockOf(disk', layout, new, j) = DataBlockOf(disk, layout, units, j)
      BY <1>13, <2>3, <2>5 DEF DataBlockOf
    <3>2. written[j * size + k] = bytes[j * size + k]
      BY <1>5, <1>15, <2>2, <2>5
    <3>. QED
      BY <2>1, <3>1, <3>2
  <2>. QED
    BY <2>4, <2>5
<1>19. Contents(disk', layout, metadata'.payload, new) = written
  BY <1>1, <1>2, <1>16, <1>18, ReadsEachBlock
<1>20. MetadataInv'
  BY DEF FileResizeInv, StructureInv
<1>21. ReadBytes(metadata)' = written
  BY <1>7, <1>19, <1>20, NextFileBytes
<1>22. DiskInv'
  <2>1. ~Resizing'
    <3>1. call'.step \in {"idle", "write"}
      <4>1. DOMAIN call = {"step", "before", "write"}
        BY <1>1, WritingFacts
      <4>. HIDE DEF wrote
      <4>. QED
        BY <1>1, <4>1 DEF Idle
    <3>. QED
      BY <3>1 DEF Resizing
  <2>. QED
    BY <1>1, <1>7, <1>14, <2>1 DEF DiskInv
<1>23. written = Promise!Overwritten(ReadBytes(metadata), [pos |-> call.write.pos, n |-> wrote])
  BY DEF bytes
<1>. HIDE DEF wrote, written
<1>. QED
  BY <1>1, <1>5, <1>7, <1>21, <1>22, <1>23, WriteGoesOn
-----------------------------------------------------------------------------
(* Every step, and the theorems.                                           *)

\* Each step, and a step that changes nothing.
LEMMA NextContents ==
  ASSUME FileResizeInv, FileResizeInv', ContentsInv, Next
  PROVE  ContentsInv' /\ PromiseStep
<1>1. ASSUME NEW size \in FileSizes, Resize(size) \/ ResizeTooLarge(size)
      PROVE  ContentsInv' /\ PromiseStep
  BY <1>1, ResizeContents, TooLargeContents
<1>2. ASSUME NEW write \in WriteExtents, Write(write) \/ WriteTooLarge(write)
      PROVE  ContentsInv' /\ PromiseStep
  BY <1>2, WriteContents, TooLargeContents DEF WriteTooLarge
<1>3. ASSUME Proceed PROVE ContentsInv' /\ PromiseStep
  BY <1>3, AllocateDataUnitsContents, NoSpaceContents, AllocateMetadataBlockContents,
     CopyDataBlockContents, FinishCopyContents, ReplaceMetadataContents,
     DetachContents, ResizeChangedContents, FreeingContents, ReturnContents,
     WriteInlineContents, WriteDataBlockContents
  DEF Proceed
<1>. QED
  BY <1>1, <1>2, <1>3 DEF Next

LEMMA UnchangedContents ==
  ASSUME ContentsInv, UNCHANGED vars
  PROVE  ContentsInv' /\ PromiseStep
<1>1. /\ metadata' = metadata /\ disk' = disk /\ metadata_disk' = metadata_disk
      /\ call' = call /\ outcome' = outcome
  BY DEF vars
<1>2. UnitsOf(metadata)' = UnitsOf(metadata) /\ ReadBytes(metadata)' = ReadBytes(metadata)
  BY <1>1, QuietFile
<1>3. DiskInv' /\ RequestInv' /\ OldBytesInv' /\ CopyInv'
  BY <1>1, <1>2
  DEF ContentsInv, DiskInv, RequestInv, OldBytesInv, CopyInv, NewBytes, Resizing, Committed
<1>4. TurnOverInv' /\ NewBytesInv' /\ WritingInv'
  BY <1>1, <1>2 DEF ContentsInv, TurnOverInv, NewBytesInv, WritingInv, NewBytes, Resizing, Committed
<1>5. PromiseStep
  BY <1>1, <1>2 DEF PromiseStep, File
<1>. QED
  BY <1>3, <1>4, <1>5 DEF ContentsInv

LEMMA NextPreservesContents ==
  FileResizeInv /\ ContentsInv /\ [Next]_vars => FileResizeInv' /\ ContentsInv' /\ PromiseStep
<1>. SUFFICES ASSUME FileResizeInv, ContentsInv, [Next]_vars
              PROVE  FileResizeInv' /\ ContentsInv' /\ PromiseStep
  OBVIOUS
<1>1. FileResizeInv'
  BY NextPreservesInv
<1>. QED
  BY <1>1, NextContents, UnchangedContents

\* Both invariants hold throughout.
LEMMA ContentsInvHolds == Spec => [](FileResizeInv /\ ContentsInv)
<1>1. Init => FileResizeInv /\ ContentsInv
  BY InitEstablishesInv, InitEstablishesContents
<1>2. (FileResizeInv /\ ContentsInv) /\ [Next]_vars => (FileResizeInv /\ ContentsInv)'
  BY NextPreservesContents
<1>. QED
  BY <1>1, <1>2, PTL DEF Spec

\* Whatever the geometry, the area and the calls: until a resize commits, the
\* metadata in force reads byte for byte as before the call, so a failure at
\* any point has the old file to fall back on.
THEOREM OldBytesStayUntilCommit == Spec => []OldBytesUntilCommit
<1>1. FileResizeInv /\ ContentsInv => OldBytesUntilCommit
  BY DEF ContentsInv, OldBytesInv, OldBytesUntilCommit, Resizing, Committed
<1>. QED
  BY <1>1, ContentsInvHolds, PTL

\* The copy a rebuild made is complete on the device before the commit that
\* makes it the file: its bytes are those of the resized file and each block
\* matches the hash kept for it.
THEOREM RebuildDurableAtCommit == Spec => []TargetDurableAtCommit
<1>1. FileResizeInv /\ ContentsInv => TargetDurableAtCommit
  <2>. SUFFICES ASSUME FileResizeInv, ContentsInv,
                       call.step = "replace_metadata", call.mode = "rebuild"
                PROVE  ReadBytes(Replacement) = NewBytes
    BY DEF TargetDurableAtCommit, NewBytes
  <2>1. /\ UnitsOf(Replacement) = call.units
        /\ Replacement.layout = call.target /\ Replacement.payload = call.payload
        /\ IsLayout(call.target)
    BY ReplacementUnits
  <2>2. Contents(disk, call.target, call.payload, call.units) = NewBytes
    BY DEF ContentsInv, CopyInv
  <2>3. ReadBytes(Replacement) = Contents(disk, call.target, call.payload, call.units)
    BY <2>1, BytesOfEntry
  <2>. QED
    BY <2>2, <2>3
<1>. QED
  BY <1>1, ContentsInvHolds, PTL

\* Every behaviour of FileResize is one of ByteFile: whatever blocks, layouts,
\* copies and failures a call goes through, the file its user reads is a plain
\* sequence of bytes, resized and overwritten by whole calls.
THEOREM ResizeKeepsPromise == Spec => KeepsPromise
<1>1. Init => Promise!Init
  BY InitEstablishesContents
<1>2. FileResizeInv /\ ContentsInv /\ [Next]_vars => [Promise!Next]_<<File, outcome>>
  BY NextPreservesContents DEF PromiseStep
<1>. QED
  BY <1>1, <1>2, ContentsInvHolds, PTL DEF Spec, KeepsPromise, Promise!Spec, File
-----------------------------------------------------------------------------
(* Every call draws to its end.                                            *)

\* The steps of a call by how many may be behind them, the last of them being
\* the write that is left when the file has grown.
Stages ==
  [idle |-> 0, write |-> 1, return |-> 2, free_metadata_blocks |-> 3, free_units |-> 4,
   resize_changed |-> 5, detach |-> 6, replace_metadata |-> 7, copy |-> 8,
   alloc_metadata_blocks |-> 9, alloc_data_units |-> 10]

\* What is left to do at a step: rounds of its loop or bytes to write.
Left ==
  CASE call.step = "alloc_metadata_blocks" -> MetadataBlocksNeeded - Len(call.metadata_blocks)
    [] call.step = "copy" -> DataBlocksCount(call.target) - call.index
    [] call.step = "resize_changed" -> ChangedBlocksCount - call.index
    [] call.step = "write" -> call.write.n
    [] OTHER -> 0

LeftInv == call.step \in DOMAIN Stages /\ Left \in Nat

Nearer ==
  \/ Stages[call.step]' < Stages[call.step]
  \/ call'.step = call.step /\ Left' < Left

\* The stages, as the provers are to see them.
LEMMA StageNumbers ==
  /\ DOMAIN Stages = {"idle", "write", "return", "free_metadata_blocks", "free_units", "resize_changed",
                      "detach", "replace_metadata", "copy", "alloc_metadata_blocks", "alloc_data_units"}
  /\ Stages["idle"] = 0 /\ Stages["write"] = 1 /\ Stages["return"] = 2
  /\ Stages["free_metadata_blocks"] = 3 /\ Stages["free_units"] = 4
  /\ Stages["resize_changed"] = 5 /\ Stages["detach"] = 6 /\ Stages["replace_metadata"] = 7
  /\ Stages["copy"] = 8 /\ Stages["alloc_metadata_blocks"] = 9 /\ Stages["alloc_data_units"] = 10
  BY DEF Stages

\* A layout has finitely many data blocks.
LEMMA CountOfDataBlocks ==
  ASSUME NEW layout, IsLayout(layout)
  PROVE  DataBlocksCount(layout) \in Nat
<1>1. CASE layout.category = Inline
  BY <1>1 DEF DataBlocksCount
<1>2. CASE layout.category # Inline
  BY <1>2, CountedDataBlocks
<1>. QED
  BY <1>1, <1>2

\* What FileResizeInv says of a resize under way, as far as the counts need it.
LEMMA CallFacts ==
  ASSUME FileResizeInv, Resizing
  PROVE  /\ DOMAIN call = {"step", "mode", "target", "payload", "units", "metadata_blocks", "index",
                           "old", "old_units", "before", "write"}
         /\ call.mode \in {"inline", "in_place", "rebuild"} /\ call.step \in StepsOf(call.mode)
         /\ IsLayout(call.target) /\ IsLayout(call.old.layout)
         /\ call.metadata_blocks \in Seq(AreaBlocks) /\ call.index \in Nat
         /\ DataBlocksCount(call.target) \in Nat /\ ChangedBlocksCount \in Nat
         /\ MetadataBlocksNeeded \in Nat
<1>1. CallInv
  BY DEF FileResizeInv, StructureInv
<1>2. /\ DOMAIN call = {"step", "mode", "target", "payload", "units", "metadata_blocks", "index",
                        "old", "old_units", "before", "write"}
      /\ call.mode \in {"inline", "in_place", "rebuild"} /\ call.step \in StepsOf(call.mode)
      /\ IsLayout(call.target) /\ IsEntry(call.old)
      /\ call.metadata_blocks \in Seq(AreaBlocks) /\ call.index \in Nat
  BY <1>1 DEF CallInv
<1>3. IsLayout(call.old.layout)
  BY <1>2 DEF IsEntry
<1>4. DataBlocksCount(call.target) \in Nat /\ DataBlocksCount(call.old.layout) \in Nat
  BY <1>2, <1>3, CountOfDataBlocks
<1>5. ChangedBlocksCount \in Nat
  BY <1>4 DEF ChangedBlocksCount, GreaterOf
<1>6. MetadataBlocksNeeded \in Nat
  <2>1. call.target.data_units_count \in Nat /\ ClustersPerMetadataBlock \in Nat \ {0}
    BY <1>2, PositiveGeometry DEF IsLayout, Layouts
  <2>2. MetadataBlocksOf(call.target) \in Nat
    BY <2>1, DivCeilCovers DEF MetadataBlocksOf, ClusterMetadataBlocksCount
  <2>. QED
    BY <1>2, <2>2, NeededMetadataBlocks
<1>. QED
  BY <1>2, <1>3, <1>4, <1>5, <1>6

\* A call begins.
LEMMA BeginsWithin ==
  ASSUME FileResizeInv', call.step = "idle",
         \/ \E size, write : call' = Started(size, write)
         \/ \E write : call' = [step |-> "write", before |-> ReadBytes(metadata), write |-> write]
                         /\ write.n \in Nat
  PROVE  LeftInv'
<1>1. ASSUME NEW size, NEW write, call' = Started(size, write)
      PROVE  LeftInv'
  <2>1. call'.step \in {"replace_metadata", "alloc_data_units"}
    BY <1>1 DEF Started
  <2>2. Left' = 0
    BY <2>1 DEF Left
  <2>. QED
    BY <2>1, <2>2, StageNumbers DEF LeftInv
<1>2. ASSUME NEW write, call' = [step |-> "write", before |-> ReadBytes(metadata), write |-> write],
             write.n \in Nat
      PROVE  LeftInv'
  <2>1. call'.step = "write" /\ Left' = write.n
    BY <1>2 DEF Left
  <2>. QED
    BY <1>2, <2>1, StageNumbers DEF LeftInv
<1>. QED
  BY <1>1, <1>2

\* A step that changes call.step alone, to a later one where nothing is counted.
LEMMA GoesToStage ==
  ASSUME call.step \in DOMAIN Stages, call'.step \in DOMAIN Stages,
         Stages[call'.step] < Stages[call.step],
         call'.step \notin {"alloc_metadata_blocks", "copy", "resize_changed", "write"}
  PROVE  LeftInv' /\ Nearer
<1>1. Left' = 0
  BY DEF Left
<1>. QED
  BY <1>1 DEF LeftInv, Nearer

\* One lemma per step: it counts down or goes on.
LEMMA AllocatesWithin ==
  ASSUME FileResizeInv, AllocateDataUnits
  PROVE  LeftInv' /\ Nearer
<1>1. PICK numbers \in Placements(UnitBlocks(call.target.category), AllocatedUnitsCount) :
        call' = [call EXCEPT
          !.step = IF call.mode = "rebuild" THEN "alloc_metadata_blocks" ELSE "replace_metadata",
          !.units = IF call.mode = "rebuild" THEN NewUnits(call.target.category, numbers)
                    ELSE SubSeq(call.old_units, 1,
                                LesserOf(Len(call.old_units), call.target.data_units_count))
                           \o NewUnits(call.target.category, numbers)]
  BY DEF AllocateDataUnits
<1>2. call.step = "alloc_data_units" /\ Resizing
  BY DEF AllocateDataUnits, Resizing
<1>3. BuiltInv
  BY DEF FileResizeInv, StructureInv
<1>4. call.metadata_blocks = <<>>
  BY <1>2, <1>3 DEF BuiltInv
<1>5. /\ call'.step = IF call.mode = "rebuild" THEN "alloc_metadata_blocks" ELSE "replace_metadata"
      /\ call'.target = call.target /\ call'.metadata_blocks = <<>>
  BY <1>1, <1>2, <1>4, CallFacts
<1>6. CASE call.mode = "rebuild"
  <2>1. call'.step = "alloc_metadata_blocks"
    BY <1>5, <1>6
  <2>2. Left' = MetadataBlocksNeeded' - Len(call'.metadata_blocks)
    BY <2>1 DEF Left
  <2>3. PICK n \in Nat : MetadataBlocksNeeded' = n
    BY <1>2, <1>5, CallFacts DEF MetadataBlocksNeeded
  <2>4. Left' = n - 0
    BY <1>5, <2>2, <2>3
  <2>5. Left' \in Nat
    BY <2>4
  <2>. QED
    BY <1>2, <2>1, <2>5, StageNumbers DEF LeftInv, Nearer
<1>7. CASE call.mode # "rebuild"
  BY <1>2, <1>5, <1>7, StageNumbers, GoesToStage
<1>. QED
  BY <1>6, <1>7

LEMMA FailsWithin ==
  ASSUME call.step \in DOMAIN Stages, call.step # "idle", NEW why, Fail(why)
  PROVE  LeftInv' /\ Nearer
<1>1. call'.step = "idle"
  BY DEF Fail, Idle
<1>. QED
  BY <1>1, StageNumbers, GoesToStage

LEMMA TakesMetadataBlockWithin ==
  ASSUME FileResizeInv, AllocateMetadataBlock
  PROVE  LeftInv' /\ Nearer
<1>1. PICK numbers \in Placements(1, 1) : call' = [call EXCEPT !.metadata_blocks = @ \o numbers]
  BY DEF AllocateMetadataBlock
<1>2. /\ call.step = "alloc_metadata_blocks" /\ Resizing
      /\ Len(call.metadata_blocks) < MetadataBlocksNeeded
  BY DEF AllocateMetadataBlock, Resizing
<1>3. /\ call'.step = "alloc_metadata_blocks" /\ call'.target = call.target
      /\ call'.metadata_blocks = call.metadata_blocks \o numbers
  BY <1>1, <1>2, CallFacts
<1>4. numbers \in Seq(AreaBlocks) /\ Len(numbers) = 1
  <2>1. free \subseteq AreaBlocks
    BY <1>2, BeforeCommitFacts
  <2>2. 1 \in Nat \ {0} /\ 1 \in Nat
    OBVIOUS
  <2>. QED
    BY <2>1, <2>2, PlacementsAreFree
<1>5. call.metadata_blocks \in Seq(AreaBlocks) /\ Len(call.metadata_blocks) \in Nat
  BY <1>2, CallFacts, LenProperties
<1>6. Len(call'.metadata_blocks) = Len(call.metadata_blocks) + 1
  <2>1. Len(call.metadata_blocks \o numbers) = Len(call.metadata_blocks) + Len(numbers)
    <3>1. ASSUME NEW one \in Seq(AreaBlocks), NEW two \in Seq(AreaBlocks)
          PROVE  Len(one \o two) = Len(one) + Len(two)
      BY ConcatProperties
    <3>. QED
      BY <1>4, <1>5, <3>1
  <2>. QED
    BY <1>3, <1>4, <2>1
<1>7. MetadataBlocksNeeded' = MetadataBlocksNeeded /\ MetadataBlocksNeeded \in Nat
  BY <1>2, <1>3, CallFacts DEF MetadataBlocksNeeded
<1>8. /\ Left = MetadataBlocksNeeded - Len(call.metadata_blocks)
      /\ Left' = MetadataBlocksNeeded' - Len(call'.metadata_blocks)
  BY <1>2, <1>3 DEF Left
<1>. QED
  BY <1>2, <1>3, <1>5, <1>6, <1>7, <1>8, StageNumbers DEF LeftInv, Nearer

LEMMA CopiesWithin ==
  ASSUME FileResizeInv, ContentsInv, StartCopy \/ CopyDataBlock \/ FinishCopy
  PROVE  LeftInv' /\ Nearer
<1>1. Resizing /\ call.step \in {"alloc_metadata_blocks", "copy"}
  BY DEF Resizing, StartCopy, CopyDataBlock, FinishCopy
<1>2. call.index \in Nat /\ DataBlocksCount(call.target) \in Nat
  BY <1>1, CallFacts
<1>3. CASE StartCopy
  <2>1. call.step = "alloc_metadata_blocks" /\ call' = [call EXCEPT !.step = "copy"]
    BY <1>3 DEF StartCopy
  <2>2. call'.step = "copy" /\ call'.index = call.index /\ call'.target = call.target
    BY <1>1, <2>1, CallFacts
  <2>3. call.index = 0
    BY <2>1 DEF ContentsInv, CopyInv
  <2>4. Left' = DataBlocksCount(call.target) - call.index
    BY <2>2 DEF Left
  <2>. QED
    BY <1>2, <2>1, <2>2, <2>3, <2>4, StageNumbers DEF LeftInv, Nearer
<1>4. CASE CopyDataBlock
  <2>1. PICK data : call' = [call EXCEPT !.index = @ + 1,
                               !.units = WithHash(call.target.category, @, call.index, data)]
    BY <1>4 DEF CopyDataBlock
  <2>2. call.step = "copy" /\ call.index < DataBlocksCount(call.target)
    BY <1>4 DEF CopyDataBlock
  <2>3. call'.step = "copy" /\ call'.index = call.index + 1 /\ call'.target = call.target
    BY <1>1, <2>1, <2>2, CallFacts
  <2>4. /\ Left = DataBlocksCount(call.target) - call.index
        /\ Left' = DataBlocksCount(call.target) - (call.index + 1)
    BY <2>2, <2>3 DEF Left
  <2>. QED
    BY <1>2, <2>2, <2>3, <2>4, StageNumbers DEF LeftInv, Nearer
<1>5. CASE FinishCopy
  <2>1. PICK payload : call' = [call EXCEPT !.step = "replace_metadata", !.payload = payload]
    BY <1>5 DEF FinishCopy
  <2>2. call'.step = "replace_metadata" /\ call.step = "copy"
    BY <1>1, <1>5, <2>1, CallFacts DEF FinishCopy
  <2>. QED
    BY <2>2, StageNumbers, GoesToStage
<1>. QED
  BY <1>3, <1>4, <1>5

LEMMA CommitsWithin ==
  ASSUME FileResizeInv, ContentsInv, ReplaceMetadata \/ DetachOldBlocks
  PROVE  LeftInv' /\ Nearer
<1>1. Resizing /\ call.step \in {"replace_metadata", "detach"}
  BY DEF Resizing, ReplaceMetadata, DetachOldBlocks
<1>2. CASE ReplaceMetadata
  <2>1. /\ call.step = "replace_metadata"
        /\ call' = [call EXCEPT !.step = IF call.mode = "inline" THEN "return" ELSE "detach"]
    BY <1>2 DEF ReplaceMetadata
  <2>2. call'.step \in {"return", "detach"}
    BY <1>1, <2>1, CallFacts
  <2>. QED
    BY <2>1, <2>2, StageNumbers, GoesToStage
<1>3. CASE DetachOldBlocks
  <2>1. /\ call.step = "detach"
        /\ call' = [call EXCEPT !.step = IF call.mode = "rebuild" THEN "free_units"
                                         ELSE "resize_changed"]
    BY <1>3 DEF DetachOldBlocks
  <2>2. /\ call'.step = IF call.mode = "rebuild" THEN "free_units" ELSE "resize_changed"
        /\ call'.target = call.target /\ call'.old = call.old /\ call'.index = call.index
    BY <1>1, <2>1, CallFacts
  <2>3. CASE call.mode = "rebuild"
    BY <2>1, <2>2, <2>3, StageNumbers, GoesToStage
  <2>4. CASE call.mode # "rebuild"
    <3>1. call.mode = "in_place"
      BY <1>1, <2>1, <2>4, CallFacts DEF StepsOf
    <3>2. call.index = 0
      BY <2>1, <3>1 DEF ContentsInv, TurnOverInv
    <3>3. Left' = ChangedBlocksCount' - call.index /\ ChangedBlocksCount' = ChangedBlocksCount
      BY <2>2, <2>4 DEF Left, ChangedBlocksCount
    <3>. QED
      BY <1>1, <2>1, <2>2, <2>4, <3>2, <3>3, CallFacts, StageNumbers DEF LeftInv, Nearer
  <2>. QED
    BY <2>3, <2>4
<1>. QED
  BY <1>2, <1>3

LEMMA TurnsOverWithin ==
  ASSUME FileResizeInv, ResizeChangedDataBlock
  PROVE  LeftInv' /\ Nearer
<1>1. /\ Resizing /\ call.step = "resize_changed" /\ call.index < ChangedBlocksCount
      /\ call' = [call EXCEPT !.index = @ + 1]
  BY DEF Resizing, ResizeChangedDataBlock
<1>2. /\ call'.step = "resize_changed" /\ call'.index = call.index + 1
      /\ call'.target = call.target /\ call'.old = call.old
  BY <1>1, CallFacts
<1>3. ChangedBlocksCount' = ChangedBlocksCount
  BY <1>2 DEF ChangedBlocksCount
<1>4. Left = ChangedBlocksCount - call.index /\ Left' = ChangedBlocksCount - (call.index + 1)
  BY <1>1, <1>2, <1>3 DEF Left
<1>. QED
  BY <1>1, <1>2, <1>4, CallFacts, StageNumbers DEF LeftInv, Nearer

LEMMA GivesBackWithin ==
  ASSUME FileResizeInv, FreeRemovedDataUnits \/ FreeOldDataUnits \/ FreeOldMetadataBlocks
  PROVE  LeftInv' /\ Nearer
<1>1. Resizing
  BY DEF Resizing, FreeRemovedDataUnits, FreeOldDataUnits, FreeOldMetadataBlocks
<1>2. /\ call.step \in {"resize_changed", "free_units", "free_metadata_blocks"}
      /\ call' = [call EXCEPT !.step = IF call.step = "free_units" THEN "free_metadata_blocks"
                                       ELSE "return"]
  BY DEF FreeRemovedDataUnits, FreeOldDataUnits, FreeOldMetadataBlocks
<1>3. call'.step = IF call.step = "free_units" THEN "free_metadata_blocks" ELSE "return"
  BY <1>1, <1>2, CallFacts
<1>. QED
  BY <1>2, <1>3, StageNumbers, GoesToStage

LEMMA ReturnsWithin ==
  ASSUME FileResizeInv, ContentsInv, Return
  PROVE  LeftInv' /\ Nearer
<1>1. /\ call.step = "return" /\ Resizing
      /\ IF call.write = NoWrite THEN call' = Idle
         ELSE call' = [step |-> "write", before |-> call.before, write |-> call.write]
  BY DEF Return, Resizing
<1>2. CASE call.write = NoWrite
  BY <1>1, <1>2, StageNumbers, GoesToStage DEF Idle
<1>3. CASE call.write # NoWrite
  <2>1. call.write \in [pos : Nat, n : Nat \ {0}]
    BY <1>1, <1>3, DeviceAssumption DEF ContentsInv, RequestInv
  <2>2. call'.step = "write" /\ Left' = call.write.n
    BY <1>1, <1>3 DEF Left
  <2>. QED
    BY <1>1, <2>1, <2>2, StageNumbers DEF LeftInv, Nearer
<1>. QED
  BY <1>2, <1>3

\* A write fills at least one byte of a data block.
LEMMA WritesWithin ==
  ASSUME FileResizeInv, ContentsInv, WriteInline \/ WriteDataBlock
  PROVE  LeftInv' /\ Nearer
<1>1. call.step = "write"
  BY DEF WriteInline, WriteDataBlock
<1>2. /\ call.write \in [pos : Nat, n : Nat \ {0}]
      /\ call.write.pos + call.write.n <= metadata.layout.file_size
  BY <1>1 DEF ContentsInv, WritingInv
<1>3. CASE WriteInline
  BY <1>1, <1>3, StageNumbers, GoesToStage DEF WriteInline, Idle
<1>4. CASE WriteDataBlock
  <2>. DEFINE layout == metadata.layout
              size == DataBlockSize(layout.category)
              index == call.write.pos \div size
              first == call.write.pos % size
              used == UsedSize(layout, index)
              wrote == BytesInBlock(call.write.n, used, first)
  <2>1. /\ layout.category # Inline
        /\ IF wrote = call.write.n THEN call' = Idle
           ELSE call' = [call EXCEPT !.write = [pos |-> @.pos + wrote, n |-> @.n - wrote]]
    BY <1>4 DEF WriteDataBlock
  <2>2. IsLayout(layout) /\ layout.file_size \in Nat
    BY FileFacts
  <2>3. wrote \in 1..call.write.n
    <3>1. call.write.pos \in 0..(layout.file_size - 1) /\ call.write.n \in Nat \ {0}
      BY <1>2, <2>2
    <3>. HIDE DEF size, index, first, used, wrote, layout
    <3>2. size = DataBlockSize(layout.category) /\ index = call.write.pos \div size
          /\ first = call.write.pos % size /\ used = UsedSize(layout, index)
          /\ wrote = BytesInBlock(call.write.n, used, first)
      BY DEF size, index, first, used, wrote
    <3>. QED
      BY <2>1, <2>2, <3>1, <3>2, WrittenDataBlock
  <2>. HIDE DEF wrote
  <2>4. CASE wrote = call.write.n
    BY <1>1, <2>1, <2>4, StageNumbers, GoesToStage DEF Idle
  <2>5. CASE wrote # call.write.n
    <3>1. /\ call'.step = "write" /\ call'.write.n = call.write.n - wrote
      BY <1>1, <2>1, <2>5, WritingFacts
    <3>2. Left = call.write.n /\ Left' = call.write.n - wrote
      BY <1>1, <3>1 DEF Left
    <3>. QED
      BY <1>1, <1>2, <2>3, <3>1, <3>2, StageNumbers DEF LeftInv, Nearer
  <2>. QED
    BY <2>4, <2>5
<1>. QED
  BY <1>3, <1>4

LEMMA StepsWithin ==
  ASSUME FileResizeInv, FileResizeInv', ContentsInv, LeftInv, Next
  PROVE  LeftInv' /\ (call.step # "idle" => Nearer)
<1>1. ASSUME NEW size \in FileSizes, Resize(size) \/ ResizeTooLarge(size)
      PROVE  LeftInv' /\ call.step = "idle"
  <2>1. CASE Resize(size)
    BY <2>1, BeginsWithin DEF Resize
  <2>2. CASE ResizeTooLarge(size)
    <3>1. call.step = "idle" /\ call'.step = "idle"
      BY <2>2 DEF ResizeTooLarge
    <3>2. Left' = 0
      BY <3>1 DEF Left
    <3>. QED
      BY <3>1, <3>2, StageNumbers DEF LeftInv
  <2>. QED
    BY <1>1, <2>1, <2>2
<1>2. ASSUME NEW write \in WriteExtents, Write(write) \/ WriteTooLarge(write)
      PROVE  LeftInv' /\ call.step = "idle"
  <2>1. write.n \in Nat
    BY DeviceAssumption
  <2>2. CASE Write(write)
    BY <2>1, <2>2, BeginsWithin DEF Write
  <2>3. CASE WriteTooLarge(write)
    <3>1. call.step = "idle" /\ call'.step = "idle"
      BY <2>3 DEF WriteTooLarge, ResizeTooLarge
    <3>2. Left' = 0
      BY <3>1 DEF Left
    <3>. QED
      BY <3>1, <3>2, StageNumbers DEF LeftInv
  <2>. QED
    BY <1>2, <2>2, <2>3
<1>3. ASSUME Proceed PROVE LeftInv' /\ Nearer
  <2>1. ASSUME NoSpaceForDataUnits \/ NoSpaceForMetadataBlock \/ NoSpaceForMetadata
        PROVE  LeftInv' /\ Nearer
    <3>1. Fail("no_space") /\ call.step # "idle"
      BY <2>1 DEF NoSpaceForDataUnits, NoSpaceForMetadataBlock, NoSpaceForMetadata
    <3>. QED
      BY <3>1, FailsWithin DEF LeftInv
  <2>. QED
    BY <1>3, <2>1, AllocatesWithin, TakesMetadataBlockWithin, CopiesWithin, CommitsWithin,
       TurnsOverWithin, GivesBackWithin, ReturnsWithin, WritesWithin
    DEF Proceed
<1>. QED
  BY <1>1, <1>2, <1>3 DEF Next

LEMMA NothingWithin ==
  ASSUME LeftInv, UNCHANGED vars
  PROVE  LeftInv'
<1>1. call' = call
  BY DEF vars
<1>2. Left' = Left
  BY <1>1 DEF Left, MetadataBlocksNeeded, ChangedBlocksCount
<1>. QED
  BY <1>1, <1>2 DEF LeftInv

\* Whatever call is made and wherever it fails, each step of it brings its end
\* nearer: it goes on to a later stage or has less left to do in this one, and
\* no loop over units, metadata blocks, data blocks or bytes overshoots its end
\* (the loops of file_resizer_*.cpp and of file_device::write).
THEOREM CallsDrawToTheirEnd ==
  Spec => [](Left \in Nat) /\ [][call.step # "idle" => Nearer]_vars
<1>1. Init => LeftInv
  <2>1. Init => call.step = "idle"
    BY DEF Init, Idle
  <2>2. call.step = "idle" => Left = 0
    BY DEF Left
  <2>. QED
    BY <2>1, <2>2, StageNumbers DEF LeftInv
<1>2. FileResizeInv /\ ContentsInv /\ LeftInv /\ [Next]_vars
        => LeftInv' /\ [call.step # "idle" => Nearer]_vars
  BY StepsWithin, NothingWithin, NextPreservesContents
<1>3. LeftInv => Left \in Nat
  BY DEF LeftInv
<1>. QED
  BY <1>1, <1>2, <1>3, ContentsInvHolds, PTL DEF Spec
=============================================================================
