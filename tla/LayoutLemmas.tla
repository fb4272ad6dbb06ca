---------------------------- MODULE LayoutLemmas ----------------------------
(***************************************************************************)
(* Facts about the operators of FileLayout, for every geometry that        *)
(* satisfies PositiveGeometry and OrderedGeometry.                         *)
(***************************************************************************)
EXTENDS FileLayout, TLAPS

\* DivCeil is the least number of units that covers n.
LEMMA DivCeilCovers ==
  ASSUME NEW n \in Nat, NEW unit \in Nat \ {0}
  PROVE  /\ DivCeil(n, unit) \in Nat
         /\ n <= DivCeil(n, unit) * unit
         /\ DivCeil(n, unit) * unit < n + unit
<1>1. n + unit - 1 \in Nat
  OBVIOUS
<1> QED  BY <1>1 DEF DivCeil

\* No more units than the limit when that many would cover n.
LEMMA DivCeilBound ==
  ASSUME NEW n \in Nat, NEW unit \in Nat \ {0}, NEW limit \in Nat,
         n <= limit * unit
  PROVE  DivCeil(n, unit) <= limit
<1> DEFINE q == DivCeil(n, unit)
<1>1. q \in Nat /\ q * unit < n + unit
  BY DivCeilCovers
<1> HIDE DEF q
<1>2. ASSUME NEW k \in Nat, k * unit < limit * unit + unit
      PROVE  k <= limit
  BY <1>2
<1>3. q <= limit
  BY <1>1, <1>2, q * unit \in Int, limit * unit \in Int
<1> QED  BY <1>3 DEF q

\* Whole units are counted exactly.
LEMMA DivCeilExact ==
  ASSUME NEW k \in Nat, NEW unit \in Nat \ {0}
  PROVE  DivCeil(k * unit, unit) = k
<1> DEFINE q == DivCeil(k * unit, unit)
<1>1. k * unit \in Nat
  OBVIOUS
<1>2. q \in Nat /\ k * unit <= q * unit /\ q * unit < k * unit + unit
  BY <1>1, DivCeilCovers
<1> HIDE DEF q
<1>3. q <= k /\ k <= q
  BY <1>2
<1> QED  BY <1>2, <1>3 DEF q

LEMMA UnitSizePositive ==
  ASSUME NEW category \in Categories
  PROVE  /\ CategoryDataUnitSize(category) \in Nat \ {0}
         /\ CategoryDataUnitSize(category) <= ClusterSize
  BY PositiveGeometry, OrderedGeometry DEF CategoryDataUnitSize

LEMMA MaxFileSizeType == MaxFileSize \in Nat /\ MaxFileSize <= AddressLimit - ClusterSize
  BY PositiveGeometry, OrderedGeometry DEF MaxFileSize, LesserOf

\* BuildLayout: the units cover the size with less than one unit of slack.
LEMMA BuildLayoutCovers ==
  ASSUME NEW size \in Nat, NEW category \in Categories
  PROVE  LET built == BuildLayout(size, category)
             unit  == CategoryDataUnitSize(category)
         IN  /\ built \in [category : Categories, file_size : Nat,
                           size_on_disk : Nat, data_units_count : Nat]
             /\ built.category = category
             /\ built.file_size = size
             /\ size <= built.size_on_disk
             /\ built.size_on_disk < size + unit
             /\ category # Inline => built.data_units_count * unit = built.size_on_disk
<1> DEFINE unit == CategoryDataUnitSize(category)
           count == DivCeil(size, unit)
<1>1. unit \in Nat \ {0}
  BY UnitSizePositive
<1>2. count \in Nat /\ size <= count * unit /\ count * unit < size + unit
  BY <1>1, DivCeilCovers
<1>3. CASE category = Inline
  BY <1>1, <1>3 DEF BuildLayout, SizeOnDisk, DataUnitsCount
<1>4. CASE category # Inline
  <2>1. SizeOnDisk(category, size) = count * unit /\ count * unit \in Nat
    BY <1>1, <1>2, <1>4 DEF SizeOnDisk, RoundUpToUnit
  <2>2. DivCeil(count * unit, unit) = count
    BY <1>1, <1>2, DivCeilExact
  <2>3. DataUnitsCount(category, count * unit) = count
    BY <1>4, <2>2 DEF DataUnitsCount
  <2> QED  BY <1>2, <1>4, <2>1, <2>3 DEF BuildLayout
<1> QED  BY <1>3, <1>4
=============================================================================
