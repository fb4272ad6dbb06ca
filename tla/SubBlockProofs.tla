--------------------------- MODULE SubBlockProofs ---------------------------
(***************************************************************************)
(* Of a heap of any size, for any order of allocating, shrinking, freeing, *)
(* writing and starting over: its lists stay linked and hold exactly the   *)
(* free blocks, whole; the marks that Free reads tell the truth; and it    *)
(* implements BuddyHeap, of which blocks in use never overlap and a        *)
(* request finds a block whenever an aligned run of its size is unused.    *)
(*                                                                         *)
(* The inductive invariant is Good, a predicate on a state of the heap and *)
(* the blocks in use.  It is kept by the four things that ever happen to   *)
(* blocks: a free one is handed out (HandOut), one in use is cut down to   *)
(* its front (CutDown), given back and joined (GiveBack), written over     *)
(* (Overwrite).  The lemmas before that are arithmetic (aligned blocks and *)
(* their buddies) and pointers (circular lists); those after it find that  *)
(* the code's operations are such changes.                                 *)
(***************************************************************************)
EXTENDS SubBlockAllocator, FiniteSetTheorems, WellFoundedInduction, TLAPS

\* Every set of numbers has a least one: what the proofs by induction start from.
LEMMA LeastOf ==
  ASSUME NEW S, S \subseteq Nat, S # {}
  PROVE  \E n \in S : \A m \in S : n <= m
<1> DEFINE R == OpToRel(<, Nat)
<1>1. IsWellFoundedOn(R, Nat)
  BY NatLessThanWellFounded
<1> HIDE DEF R
<1>2. PICK n \in S : \A m \in S : ~ (<<m, n>> \in R)
  BY <1>1, WFMin
<1>3. \A m \in S : m < n => <<m, n>> \in R
  BY DEF R, OpToRel
<1>4. ASSUME NEW m \in S PROVE n <= m
  <2>1. ~ (m < n)
    BY <1>2, <1>3
  <2>2. m \in Nat /\ n \in Nat
    OBVIOUS
  <2> QED BY <2>1, <2>2
<1> QED BY <1>4

\* Division by a positive number: what there is to know of it.
LEMMA Quotient ==
  ASSUME NEW z \in Nat, NEW q \in Nat \ {0}
  PROVE  z % q \in 0..(q - 1) /\ \E a \in Nat : z = q * a + (z % q)
<1>1. z \div q \in Nat /\ z % q \in 0..(q - 1) /\ z = q * (z \div q) + (z % q)
  OBVIOUS
<1> QED BY <1>1

LEMMA Remainder ==
  ASSUME NEW q \in Nat \ {0}, NEW a \in Nat, NEW r \in 0..(q - 1)
  PROVE  (q * a + r) % q = r
<1> DEFINE z == q * a + r
<1>1. z \in Nat
  OBVIOUS
<1>2. PICK b \in Nat : z = q * b + (z % q)
  BY <1>1, Quotient
<1>3. z % q \in 0..(q - 1)
  BY <1>1, Quotient
<1>4. a < b => q * (a + 1) <= q * b
  OBVIOUS
<1>5. b < a => q * (b + 1) <= q * a
  OBVIOUS
<1>6. q * (a + 1) = q * a + q /\ q * (b + 1) = q * b + q
  OBVIOUS
<1>7. q * a + r = q * b + (z % q)
  BY <1>2
<1> HIDE DEF z
<1>8. q * a \in Nat /\ q * b \in Nat
  OBVIOUS
<1>9. q * a = q * b
  BY <1>3, <1>4, <1>5, <1>6, <1>7, <1>8
<1>10. z % q = r
  BY <1>3, <1>7, <1>8, <1>9
<1> QED BY <1>10 DEF z

LEMMA MultipleIs ==
  ASSUME NEW z \in Nat, NEW q \in Nat \ {0}, z % q = 0
  PROVE  \E a \in Nat : z = q * a
<1>1. PICK a \in Nat : z = q * a + (z % q)
  BY Quotient
<1>2. q * a \in Nat
  OBVIOUS
<1> DEFINE w == q * a
<1> HIDE DEF w
<1>3. z = w + 0 /\ w \in Nat
  BY <1>1, <1>2 DEF w
<1>4. z = w
  BY <1>3
<1> QED BY <1>4 DEF w

LEMMA Multiple ==
  ASSUME NEW q \in Nat \ {0}, NEW a \in Nat
  PROVE  (q * a) % q = 0
<1>1. (q * a + 0) % q = 0
  BY Remainder
<1>2. q * a + 0 = q * a
  OBVIOUS
<1> QED BY <1>1, <1>2

\* Multiples of q, and of twice q.
LEMMA MultipleBelow ==
  ASSUME NEW x \in Nat, NEW q \in Nat \ {0}
  PROVE  /\ x - (x % q) \in Nat /\ x - (x % q) <= x /\ x < x - (x % q) + q
         /\ (x - (x % q)) % q = 0
<1>1. PICK a \in Nat : x = q * a + (x % q)
  BY Quotient
<1>2. x % q \in 0..(q - 1)
  BY Quotient
<1>3. q * a \in Nat /\ (q * a + 0) % q = 0
  BY Remainder
<1> QED BY <1>1, <1>2, <1>3

LEMMA MultiplesApart ==
  ASSUME NEW y \in Nat, NEW z \in Nat, NEW q \in Nat \ {0}, y % q = 0, z % q = 0, y < z
  PROVE  y + q <= z
<1>0. PICK a \in Nat : y = q * a
  BY MultipleIs
<1>1. PICK b \in Nat : z = q * b
  BY MultipleIs
<1>2. a < b
  <2>1. b <= a => q * b <= q * a
    OBVIOUS
  <2> QED BY <1>0, <1>1, <2>1
<1>3. q * (a + 1) <= q * b /\ q * (a + 1) = q * a + q
  BY <1>2
<1> QED BY <1>0, <1>1, <1>3

LEMMA OnlyMultiple ==
  ASSUME NEW o \in Nat, NEW x \in Nat, NEW q \in Nat \ {0}, o % q = 0, o <= x, x < o + q
  PROVE  x - (x % q) = o
<1>1. /\ x - (x % q) \in Nat /\ x - (x % q) <= x /\ x < x - (x % q) + q
      /\ (x - (x % q)) % q = 0
  BY MultipleBelow
<1> DEFINE y == x - (x % q)
<1> HIDE DEF y
<1>2. y \in Nat /\ y <= x /\ x < y + q /\ y % q = 0
  BY <1>1 DEF y
<1>3. ~ (y < o)
  <2>1. y < o => y + q <= o
    BY <1>2, MultiplesApart
  <2> QED BY <2>1, <1>2
<1>4. ~ (o < y)
  <2>1. o < y => o + q <= y
    BY <1>2, MultiplesApart
  <2> QED BY <2>1, <1>2
<1>5. y = o
  BY <1>2, <1>3, <1>4
<1> QED BY <1>5 DEF y

LEMMA TwiceMultiple ==
  ASSUME NEW o \in Nat, NEW q \in Nat \ {0}, o % q = 0
  PROVE  /\ (2 * o) % q = 0
         /\ (o + q) % q = 0
         /\ o >= q => (o - q) % q = 0
         /\ o # 0 => o >= q
<1>1. PICK a \in Nat : o = q * a
  BY MultipleIs
<1>2. 2 * o = q * (2 * a) /\ o + q = q * (a + 1)
  BY <1>1
<1>3. (q * (2 * a)) % q = 0 /\ (q * (a + 1)) % q = 0
  BY Multiple
<1>4. o # 0 => o >= q
  <2>1. 0 % q = 0
    BY Multiple
  <2> QED BY <2>1, MultiplesApart
<1>5. ASSUME o >= q PROVE (o - q) % q = 0
  <2>1. a # 0
    BY <1>1, <1>5
  <2>2. a - 1 \in Nat /\ o - q = q * (a - 1)
    BY <1>1, <2>1
  <2> QED BY <2>2, Multiple
<1> QED BY <1>2, <1>3, <1>4, <1>5

LEMMA HalfMultiple ==
  ASSUME NEW o \in Nat, NEW q \in Nat \ {0}
  PROVE  /\ o % (2 * q) = 0 => o % q = 0 /\ (o + q) % q = 0 /\ (o + q) % (2 * q) = q
         /\ o % q = 0 /\ o % (2 * q) # 0 => o >= q /\ (o - q) % (2 * q) = 0
<1> DEFINE r == o % (2 * q)
<1>0. 2 * q \in Nat \ {0}
  OBVIOUS
<1>1. PICK a \in Nat : o = (2 * q) * a + r
  BY <1>0, Quotient
<1>2. r \in 0..(2 * q - 1)
  BY <1>0, Quotient
<1> HIDE DEF r
<1> DEFINE w == (2 * q) * a
<1>3. w \in Nat /\ w % (2 * q) = 0 /\ w % q = 0
  <2>1. ((2 * q) * a) % (2 * q) = 0 /\ (q * (2 * a)) % q = 0
    BY <1>0, Multiple
  <2>2. (2 * q) * a = q * (2 * a)
    OBVIOUS
  <2> QED BY <2>1, <2>2
<1>4. (w + q) % (2 * q) = q
  <2>1. q \in 0..(2 * q - 1)
    OBVIOUS
  <2> QED BY <1>0, <2>1, Remainder
<1>5. (w + q) % q = 0
  BY <1>3, TwiceMultiple
<1> HIDE DEF w
<1>6. o = w + r
  BY <1>1 DEF w
<1>7. CASE r = 0
  BY <1>3, <1>4, <1>5, <1>6, <1>7 DEF r
<1>8. CASE r # 0
  <2>1. ASSUME o % q = 0 PROVE o = w + q
    <3>1. w < o
      BY <1>2, <1>3, <1>6, <1>8
    <3>2. w + q <= o
      BY <1>3, <2>1, <3>1, MultiplesApart
    <3>3. ~ (w + q < o)
      <4>0. w + q \in Nat
        BY <1>3
      <4>1. w + q < o => w + q + q <= o
        BY <4>0, <1>5, <2>1, MultiplesApart
      <4> QED BY <4>1, <1>2, <1>3, <1>6
    <3> QED BY <3>2, <3>3, <1>3
  <2>2. o % q = 0 => o >= q /\ (o - q) % (2 * q) = 0
    <3>1. ASSUME o = w + q PROVE o >= q /\ o - q = w
      BY <1>3, <3>1
    <3> QED BY <2>1, <3>1, <1>3
  <2> QED BY <2>2, <1>8 DEF r
<1> QED BY <1>7, <1>8

\* All powers that Units is reckoned with are positive, and grow.
LEMMA PowersNat == \A k \in 0..(2 * MaxLog2 + 1) : 2 ^ k \in Nat \ {0}
<1> DEFINE Bad == {k \in 0..(2 * MaxLog2 + 1) : 2 ^ k \notin Nat \ {0}}
<1>1. SUFFICES ASSUME Bad # {} PROVE FALSE
  OBVIOUS
<1>2. PICK k \in Bad : \A m \in Bad : k <= m
  <2>1. Bad \subseteq Nat
    OBVIOUS
  <2> HIDE DEF Bad
  <2> QED BY <1>1, <2>1, LeastOf
<1>3. k # 0
  <2>1. 2 ^ 0 \in Nat \ {0}
    BY PowersAssumption
  <2> QED BY <2>1
<1>4. k - 1 \in 0..(2 * MaxLog2) /\ k - 1 \notin Bad
  BY <1>2, <1>3, BuddyAssumption
<1>5. 2 ^ (k - 1) \in Nat \ {0}
  BY <1>4, BuddyAssumption
<1>6. 2 ^ k = 2 * 2 ^ (k - 1)
  <2>1. (k - 1) + 1 = k
    BY <1>2
  <2> QED BY <1>4, <2>1, PowersAssumption
<1> QED BY <1>2, <1>5, <1>6

LEMMA PowersGrow == \A k \in 0..(2 * MaxLog2 + 1) : \A j \in 0..k : 2 ^ j <= 2 ^ k
<1> SUFFICES ASSUME NEW k \in 0..(2 * MaxLog2 + 1), NEW i \in 0..k, ~ (2 ^ i <= 2 ^ k)
             PROVE  FALSE
  OBVIOUS
<1> DEFINE Bad == {n \in 0..k : ~ (2 ^ i <= 2 ^ n) /\ i <= n}
<1>1. k \in Bad
  BY BuddyAssumption
<1>2. PICK m \in Bad : \A n \in Bad : m <= n
  <2>1. Bad \subseteq Nat
    OBVIOUS
  <2> HIDE DEF Bad
  <2> QED BY <1>1, <2>1, LeastOf
<1>3. m \in Nat /\ m <= k /\ k <= 2 * MaxLog2 + 1
  BY BuddyAssumption
<1>4. m # i /\ i <= m
  BY <1>2, <1>3, PowersNat, BuddyAssumption
<1>5. m - 1 \in 0..(2 * MaxLog2) /\ i <= m - 1 /\ m - 1 \in 0..k
  BY <1>3, <1>4, BuddyAssumption
<1>6. m - 1 \notin Bad
  BY <1>2, <1>3
<1>7. 2 ^ i <= 2 ^ (m - 1)
  BY <1>5, <1>6
<1>8. 2 ^ m = 2 * 2 ^ (m - 1)
  <2>1. (m - 1) + 1 = m
    BY <1>3
  <2> QED BY <1>5, <2>1, PowersAssumption
<1>9. 2 ^ (m - 1) \in Nat /\ 2 ^ i \in Nat
  <2>1. i \in 0..(2 * MaxLog2 + 1) /\ m - 1 \in 0..(2 * MaxLog2 + 1)
    BY <1>5, <1>3, BuddyAssumption
  <2> QED BY <2>1, PowersNat
<1>10. 2 ^ i <= 2 ^ m
  BY <1>7, <1>8, <1>9
<1> QED BY <1>2, <1>10

\* The powers of a heap's sizes.
LEMMA Powers ==
  /\ Logs \subseteq Nat
  /\ \A k \in Logs : 2 ^ k \in Nat \ {0} /\ \A j \in 0..k : 2 ^ j <= 2 ^ k
  /\ \A k \in Logs : k # MaxLog2 => k + 1 \in Logs /\ 2 ^ (k + 1) = 2 * 2 ^ k
<1>1. ASSUME NEW k \in Logs PROVE k \in Nat /\ k \in 0..(2 * MaxLog2 + 1)
  BY BuddyAssumption DEF Logs
<1>2. ASSUME NEW k \in Logs, k # MaxLog2 PROVE k + 1 \in Logs /\ k \in 0..(2 * MaxLog2)
  BY <1>2, BuddyAssumption DEF Logs
<1> QED BY <1>1, <1>2, PowersNat, PowersGrow, PowersAssumption

\* What is a multiple of a power is a multiple of the lesser ones.
LEMMA Finer ==
  ASSUME NEW z \in Nat, NEW k \in Logs, NEW j \in 0..k, z % 2 ^ k = 0
  PROVE  z % 2 ^ j = 0
<1> SUFFICES ASSUME z % 2 ^ j # 0 PROVE FALSE
  OBVIOUS
<1> DEFINE Good == {n \in j..k : z % 2 ^ n = 0}
<1>0. k \in Nat /\ k <= MaxLog2 /\ MaxLog2 \in Nat
  BY BuddyAssumption DEF Logs
<1>1. k \in Good
  BY <1>0
<1>2. PICK m \in Good : \A n \in Good : m <= n
  <2>1. Good \subseteq Nat
    BY <1>0
  <2> HIDE DEF Good
  <2> QED BY <1>1, <2>1, LeastOf
<1>3. m # j /\ m \in Nat /\ m <= k /\ j <= m
  BY <1>0, <1>2
<1>4. m - 1 \in j..k /\ m - 1 \in Logs /\ m - 1 # MaxLog2
  BY <1>0, <1>3 DEF Logs
<1>5. m - 1 \notin Good
  BY <1>2, <1>3
<1>6. (m - 1) + 1 = m
  BY <1>3
<1>7. 2 ^ m = 2 * 2 ^ (m - 1) /\ 2 ^ (m - 1) \in Nat \ {0}
  BY <1>4, <1>6, Powers
<1>8. z % (2 * 2 ^ (m - 1)) = 0
  BY <1>2, <1>7
<1>9. z % 2 ^ (m - 1) = 0
  BY <1>7, <1>8, HalfMultiple
<1> QED BY <1>4, <1>5, <1>9

\* The heap is a number of blocks of each size.
LEMMA UnitsMultiple == Units \in Nat /\ \A k \in Logs : Units % 2 ^ k = 0
<1>1. PICK n \in 0..MaxLog2 : Units = 2 ^ (MaxLog2 + n)
  BY HeapAssumption
<1> DEFINE q == 2 ^ MaxLog2
<1>2. MaxLog2 \in Logs /\ q \in Nat \ {0}
  BY Powers, BuddyAssumption DEF Logs
<1>3. \A i \in 0..MaxLog2 : 2 ^ (MaxLog2 + i) \in Nat /\ 2 ^ (MaxLog2 + i) % q = 0
  <2> DEFINE Bad == {i \in 0..MaxLog2 : ~ (2 ^ (MaxLog2 + i) \in Nat /\ 2 ^ (MaxLog2 + i) % q = 0)}
  <2>1. SUFFICES ASSUME Bad # {} PROVE FALSE
    OBVIOUS
  <2>2. PICK i \in Bad : \A m \in Bad : i <= m
    <3>1. Bad \subseteq Nat
      OBVIOUS
    <3> HIDE DEF Bad
    <3> QED BY <2>1, <3>1, LeastOf
  <2>3. i # 0
    <3>1. q % q = 0
      <4>1. (q * 1) % q = 0 /\ q * 1 = q
        BY <1>2, Multiple
      <4> QED BY <4>1
    <3> QED BY <1>2, <2>2, <3>1, BuddyAssumption
  <2>4. i - 1 \in 0..MaxLog2 /\ i - 1 \notin Bad
    <3>1. i - 1 \in 0..MaxLog2 /\ ~ (i <= i - 1)
      BY <2>2, <2>3, BuddyAssumption
    <3> HIDE DEF Bad
    <3> QED BY <2>2, <3>1
  <2> DEFINE z == 2 ^ (MaxLog2 + (i - 1))
  <2>5. z \in Nat /\ z % q = 0
    BY <2>4
  <2>6. 2 ^ (MaxLog2 + i) = 2 * z
    <3>1. MaxLog2 + (i - 1) \in 0..(2 * MaxLog2) /\ (MaxLog2 + (i - 1)) + 1 = MaxLog2 + i
      BY <2>2, <2>3, BuddyAssumption
    <3> QED BY <3>1, PowersAssumption
  <2> HIDE DEF z, q
  <2>7. 2 * z \in Nat /\ (2 * z) % q = 0
    <3>1. z \in Nat /\ q \in Nat \ {0} /\ z % q = 0
      BY <1>2, <2>5
    <3>2. (2 * z) % q = 0
      BY ONLY <3>1, TwiceMultiple
    <3> QED BY <3>1, <3>2
  <2> QED BY <2>2, <2>6, <2>7
<1>4. Units \in Nat /\ Units % q = 0
  BY <1>1, <1>3
<1>5. ASSUME NEW k \in Logs PROVE Units % 2 ^ k = 0
  BY <1>2, <1>4, Finer, BuddyAssumption DEF Logs
<1> QED BY <1>4, <1>5

\* A size group is the least that is large enough.
LEMMA SizeGroups ==
  ASSUME NEW size \in 1..(2 ^ MaxLog2)
  PROVE  /\ GetSizeGroup(size) \in Logs /\ 2 ^ GetSizeGroup(size) >= size
         /\ \A j \in 0..(GetSizeGroup(size) - 1) : 2 ^ j < size
<1> DEFINE Enough == {k \in Logs : 2 ^ k >= size}
<1>1. MaxLog2 \in Enough
  BY BuddyAssumption, Powers DEF Logs
<1>2. PICK k \in Enough : \A j \in Enough : k <= j
  <2>1. Enough \subseteq Nat /\ Enough # {}
    BY <1>1, BuddyAssumption DEF Logs
  <2> HIDE DEF Enough
  <2> QED BY <2>1, LeastOf
<1>3. 2 ^ k >= size /\ \A j \in 0..(k - 1) : 2 ^ j < size
  <2>1. SUFFICES ASSUME NEW j \in 0..(k - 1) PROVE 2 ^ j < size
    OBVIOUS
  <2>2. j \in Logs /\ ~(k <= j)
    BY BuddyAssumption DEF Logs
  <2>3. 2 ^ j \in Nat
    BY <2>2, Powers
  <2> QED BY <1>2, <2>2, <2>3
<1> QED BY <1>2, <1>3 DEF GetSizeGroup, Logs

LEMMA Groups == \A size \in Sizes \cup {HeadersUnits} : GetSizeGroup(size) \in Logs
  BY SizeGroups, BuddyAssumption
-----------------------------------------------------------------------------
\* The heap that is promised.

\* The largest size of which anything fits is that of a free block.
LEMMA SomeBlockFree ==
  ASSUME NEW heap, NEW log2 \in Logs, HasRoom(heap, log2)
  PROVE  \E k \in log2..MaxLog2 : FreeBlocks(heap, k) # {}
<1> DEFINE Rest == {n \in Nat : n <= MaxLog2 - log2 /\ Fits(heap, MaxLog2 - n) # {}}
<1>1. MaxLog2 - log2 \in Rest
  BY BuddyAssumption DEF Logs, HasRoom
<1>2. PICK n \in Rest : \A m \in Rest : n <= m
  BY <1>1, LeastOf
<1>3. MaxLog2 - n \in log2..MaxLog2 /\ Fits(heap, MaxLog2 - n) # {}
  BY <1>2, BuddyAssumption DEF Logs
<1>4. n # 0 => Fits(heap, MaxLog2 - n + 1) = {}
  <2>1. ASSUME n # 0, Fits(heap, MaxLog2 - n + 1) # {} PROVE n - 1 \in Rest
    <3>1. MaxLog2 - (n - 1) = MaxLog2 - n + 1
      BY <1>2, BuddyAssumption
    <3> QED BY <1>2, <2>1, <3>1, BuddyAssumption DEF Logs
  <2> QED BY <1>2, <2>1
<1>5. FreeBlocks(heap, MaxLog2 - n) # {}
  BY <1>2, <1>3, <1>4, BuddyAssumption DEF FreeBlocks
<1> QED BY <1>3, <1>5

\* Where Places looks: the least size of which a block is free.
LEMMA PlacesFit ==
  ASSUME NEW heap, NEW log2 \in Logs, HasRoom(heap, log2)
  PROVE  \E k \in log2..MaxLog2 : Places(heap, log2) = FreeBlocks(heap, k) /\ FreeBlocks(heap, k) # {}
<1> DEFINE Some == {k \in log2..MaxLog2 : FreeBlocks(heap, k) # {}}
<1>1. Some # {} /\ Some \subseteq Nat
  BY SomeBlockFree, BuddyAssumption DEF Logs
<1>2. PICK k \in Some : \A j \in Some : k <= j
  BY <1>1, LeastOf
<1>3. FreeBlocks(heap, k) # {} /\ \A j \in log2..(k - 1) : FreeBlocks(heap, j) = {}
  BY <1>2, BuddyAssumption DEF Logs
<1> QED BY <1>2, <1>3 DEF Places
-----------------------------------------------------------------------------
\* What is handed out was unused.
LEMMA TakenUnused ==
  ASSUME NEW heap, NEW log2 \in Logs, HasRoom(heap, log2), NEW offset \in Places(heap, log2)
  PROVE  offset \in Offsets /\ Span(offset, log2) \subseteq Unused(heap)
<1>1. PICK k \in log2..MaxLog2 : offset \in FreeBlocks(heap, k)
  BY PlacesFit
<1>2. k \in 0..MaxLog2 /\ log2 \in 0..k
  BY BuddyAssumption DEF Logs
<1>3. offset \in Fits(heap, k)
  BY <1>1 DEF FreeBlocks
<1>4. offset \in Offsets /\ Span(offset, k) \subseteq Unused(heap)
  BY <1>3 DEF Fits
<1>5. Span(offset, log2) \subseteq Span(offset, k)
  <2>1. 2 ^ log2 <= 2 ^ k /\ 2 ^ log2 \in Nat /\ 2 ^ k \in Nat
    BY <1>2, Powers DEF Logs
  <2>2. offset \in Nat
    BY <1>4, BuddyAssumption DEF Offsets
  <2> QED BY <2>1, <2>2 DEF Span
<1> QED BY <1>4, <1>5

HeapInv ==
  /\ held \in [DOMAIN held -> Logs]
  /\ DOMAIN held \subseteq Offsets
  /\ NoneShared

LEMMA InitInv == HeapInit => HeapInv
<1> SUFFICES ASSUME HeapInit PROVE HeapInv
  OBVIOUS
<1>1. GetSizeGroup(HeadersUnits) \in Logs
  BY SizeGroups, BuddyAssumption
<1>2. 2 ^ GetSizeGroup(HeadersUnits) <= Units /\ 2 ^ GetSizeGroup(HeadersUnits) \in Nat \ {0}
  BY <1>1, BuddyAssumption, Powers DEF Logs
<1>3. Span(0, GetSizeGroup(HeadersUnits)) \subseteq Offsets /\ 0 \in Offsets
  BY <1>2, BuddyAssumption DEF Span, Offsets
<1> QED BY <1>1, <1>3 DEF HeapInit, Headers, HeapInv, NoneShared

LEMMA TakeKeeps ==
  ASSUME HeapInv, NEW size \in Sizes, Take(size)
  PROVE  HeapInv'
<1> DEFINE log2 == GetSizeGroup(size)
<1>1. log2 \in Logs
  BY SizeGroups, BuddyAssumption
<1>2. PICK offset \in Places(held, log2) : held' = Taken(held, offset, log2)
  BY DEF Take
<1>3. offset \in Offsets /\ Span(offset, log2) \subseteq Unused(held)
  BY <1>1, TakenUnused DEF Take
<1>4. Span(offset, log2) \subseteq Offsets
       /\ \A o \in DOMAIN held : Span(offset, log2) \cap Span(o, held[o]) = {}
  BY <1>3 DEF Unused
<1> HIDE DEF log2
<1>5. DOMAIN held' = DOMAIN held \cup {offset} /\ held'[offset] = log2
       /\ \A o \in DOMAIN held : o # offset => held'[o] = held[o]
  BY <1>2 DEF Taken
<1>6. held' \in [DOMAIN held' -> Logs] /\ DOMAIN held' \subseteq Offsets
  BY <1>1, <1>2, <1>3 DEF HeapInv, Taken
<1>7. NoneShared'
  BY <1>4, <1>5 DEF HeapInv, NoneShared
<1> QED BY <1>6, <1>7 DEF HeapInv

LEMMA CutKeeps ==
  ASSUME HeapInv, NEW offset \in DOMAIN held, NEW size \in Sizes, Cut(offset, size)
  PROVE  HeapInv'
<1> DEFINE log2 == GetSizeGroup(size)
<1>1. log2 \in Logs /\ held[offset] \in Logs /\ log2 < held[offset] /\ offset \in Nat
  BY SizeGroups, BuddyAssumption DEF Cut, HeapInv, Offsets
<1>2. held' = Taken(held, offset, log2)
  BY DEF Cut
<1> HIDE DEF log2
<1>3. Span(offset, log2) \subseteq Span(offset, held[offset])
  <2>1. log2 \in 0..held[offset] /\ held[offset] \in 0..MaxLog2
    BY <1>1, BuddyAssumption DEF Logs
  <2>2. 2 ^ log2 <= 2 ^ held[offset] /\ 2 ^ log2 \in Nat /\ 2 ^ held[offset] \in Nat
    BY <2>1, Powers, BuddyAssumption DEF Logs
  <2> QED BY <1>1, <2>2 DEF Span
<1>4. DOMAIN held' = DOMAIN held /\ held'[offset] = log2
       /\ \A o \in DOMAIN held : o # offset => held'[o] = held[o]
  BY <1>2 DEF Taken
<1>5. held' \in [DOMAIN held' -> Logs] /\ DOMAIN held' \subseteq Offsets
  BY <1>1, <1>2 DEF HeapInv, Taken
<1>6. NoneShared'
  BY <1>3, <1>4 DEF HeapInv, NoneShared
<1> QED BY <1>5, <1>6 DEF HeapInv

\* Blocks in use never overlap and never leave the heap, for any sizes asked for
\* and any order of taking, shrinking and giving back
\* (sub_block_allocator.cpp:45,80,120).
THEOREM NothingShared == HeapSpec => []NoneShared
<1>1. HeapInv /\ [HeapNext]_held => HeapInv'
  <2> SUFFICES ASSUME HeapInv, [HeapNext]_held PROVE HeapInv'
    OBVIOUS
  <2>1. ASSUME NEW size \in Sizes, Take(size) PROVE HeapInv'
    BY <2>1, TakeKeeps
  <2>2. ASSUME NEW offset \in DOMAIN held \ {0}, Give(offset) PROVE HeapInv'
    BY <2>2 DEF Give, GivenBack, HeapInv, NoneShared
  <2>3. ASSUME NEW offset \in DOMAIN held \ {0}, NEW size \in Sizes, Cut(offset, size) PROVE HeapInv'
    BY <2>3, CutKeeps
  <2>4. ASSUME StartOver PROVE HeapInv'
    <3>1. GetSizeGroup(HeadersUnits) \in Logs
      BY SizeGroups, BuddyAssumption
    <3>2. 2 ^ GetSizeGroup(HeadersUnits) <= Units /\ 2 ^ GetSizeGroup(HeadersUnits) \in Nat \ {0}
      BY <3>1, BuddyAssumption, Powers DEF Logs
    <3>3. Span(0, GetSizeGroup(HeadersUnits)) \subseteq Offsets /\ 0 \in Offsets
      BY <3>2, BuddyAssumption DEF Span, Offsets
    <3> QED BY <2>4, <3>1, <3>3 DEF StartOver, Headers, HeapInv, NoneShared
  <2>5. ASSUME UNCHANGED held PROVE HeapInv'
    BY <2>5 DEF HeapInv, NoneShared
  <2> QED BY <2>1, <2>2, <2>3, <2>4, <2>5 DEF HeapNext
<1>2. HeapInv => NoneShared
  BY DEF HeapInv
<1> QED BY InitInv, <1>1, <1>2, PTL DEF HeapSpec
-----------------------------------------------------------------------------
\* Blocks and their other halves.

LEMMA OffsetsNat == Units \in Nat /\ \A x \in Offsets : x \in Nat /\ x < Units
  BY BuddyAssumption DEF Offsets

\* The block of 2^k units that x lies in.
LEMMA AlignedIs ==
  ASSUME NEW x \in Offsets, NEW k \in Logs
  PROVE  /\ Aligned(x, k) \in Offsets
         /\ Aligned(x, k) \in Nat /\ Aligned(x, k) % 2 ^ k = 0
         /\ Aligned(x, k) <= x /\ x < Aligned(x, k) + 2 ^ k
         /\ Aligned(x, k) + 2 ^ k <= Units
<1> DEFINE q == 2 ^ k
           a == x - (x % q)
<1>1. q \in Nat \ {0} /\ x \in Nat /\ x < Units /\ Units \in Nat /\ Units % q = 0
  BY Powers, OffsetsNat, UnitsMultiple
<1> HIDE DEF q
<1>2. a \in Nat /\ a <= x /\ x < a + q /\ a % q = 0
  BY <1>1, MultipleBelow
<1> HIDE DEF a
<1>3. a + q <= Units
  <2>1. a < Units
    BY <1>1, <1>2
  <2> QED BY <1>1, <1>2, <2>1, MultiplesApart
<1>4. a \in Offsets
  BY <1>1, <1>2 DEF Offsets
<1>5. Aligned(x, k) = a
  BY DEF Aligned, a, q
<1> QED BY <1>2, <1>3, <1>4, <1>5 DEF q

LEMMA AlignedOnly ==
  ASSUME NEW x \in Offsets, NEW k \in Logs, NEW o \in Nat, o % 2 ^ k = 0, o <= x, x < o + 2 ^ k
  PROVE  Aligned(x, k) = o
<1>1. 2 ^ k \in Nat \ {0} /\ x \in Nat
  BY Powers, OffsetsNat
<1> QED BY <1>1, OnlyMultiple DEF Aligned

LEMMA AlignedSelf ==
  ASSUME NEW o \in Offsets, NEW k \in Logs
  PROVE  o % 2 ^ k = 0 <=> Aligned(o, k) = o
<1>1. 2 ^ k \in Nat \ {0} /\ o \in Nat
  BY Powers, OffsetsNat
<1>2. o % 2 ^ k = 0 => Aligned(o, k) = o
  BY <1>1, AlignedOnly
<1> QED BY <1>2, AlignedIs

LEMMA AlignedTwice ==
  ASSUME NEW x \in Offsets, NEW k \in Logs, NEW j \in Logs, j <= k
  PROVE  /\ Aligned(Aligned(x, k), j) = Aligned(x, k)
         /\ Aligned(Aligned(x, j), k) = Aligned(x, k)
<1> DEFINE a == Aligned(x, k)
           b == Aligned(x, j)
<1>1. /\ a \in Offsets /\ a \in Nat /\ a % 2 ^ k = 0 /\ a <= x /\ x < a + 2 ^ k
      /\ b \in Offsets /\ b \in Nat /\ b % 2 ^ j = 0 /\ b <= x /\ x < b + 2 ^ j
  BY AlignedIs
<1>2. x \in Nat /\ 2 ^ j \in Nat \ {0} /\ 2 ^ k \in Nat \ {0} /\ j \in 0..k
  BY Powers, OffsetsNat
<1> HIDE DEF a, b
<1>3. a % 2 ^ j = 0
  BY <1>1, <1>2, Finer
<1>4. Aligned(a, j) = a
  BY <1>1, <1>3, AlignedSelf
<1>5. a <= b
  <2>1. b < a => b + 2 ^ j <= a
    BY <1>1, <1>2, <1>3, MultiplesApart
  <2> QED BY <1>1, <1>2, <2>1
<1>6. Aligned(b, k) = a
  <2>1. b < a + 2 ^ k
    BY <1>1, <1>2
  <2> QED BY <1>1, <1>5, <2>1, AlignedOnly
<1> QED BY <1>4, <1>6 DEF a, b

\* The units of an aligned block are those that lie in it.
LEMMA SpanIs ==
  ASSUME NEW x \in Offsets, NEW k \in Logs, NEW o \in Offsets, Aligned(o, k) = o
  PROVE  x \in Span(o, k) <=> Aligned(x, k) = o
<1>1. 2 ^ k \in Nat \ {0} /\ x \in Nat /\ o \in Nat /\ o % 2 ^ k = 0
  BY Powers, OffsetsNat, AlignedSelf
<1>2. x \in Span(o, k) <=> o <= x /\ x < o + 2 ^ k
  BY <1>1 DEF Span
<1> QED BY <1>1, <1>2, AlignedOnly, AlignedIs

LEMMA SpanWithin ==
  ASSUME NEW k \in Logs, NEW o \in Offsets, Aligned(o, k) = o
  PROVE  Span(o, k) \subseteq Offsets
<1>1. 2 ^ k \in Nat \ {0} /\ o \in Nat /\ o + 2 ^ k <= Units /\ Units \in Nat
  BY Powers, OffsetsNat, AlignedIs
<1> QED BY <1>1 DEF Span, Offsets

\* A block and its buddy are the two halves of the next larger one.
LEMMA TwoHalves ==
  ASSUME NEW x \in Offsets, NEW k \in Logs, k # MaxLog2
  PROVE  /\ Aligned(x, k + 1) \in Offsets /\ Aligned(x, k + 1) + 2 ^ k \in Offsets
         /\ Aligned(Aligned(x, k + 1), k) = Aligned(x, k + 1)
         /\ Aligned(Aligned(x, k + 1) + 2 ^ k, k) = Aligned(x, k + 1) + 2 ^ k
         /\ Aligned(Aligned(x, k + 1) + 2 ^ k, k + 1) = Aligned(x, k + 1)
         /\ Aligned(x, k) \in {Aligned(x, k + 1), Aligned(x, k + 1) + 2 ^ k}
         /\ Aligned(x, k) = Aligned(x, k + 1) => Buddy(x, k) = Aligned(x, k + 1) + 2 ^ k
         /\ Aligned(x, k) = Aligned(x, k + 1) + 2 ^ k => Buddy(x, k) = Aligned(x, k + 1)
<1> DEFINE q == 2 ^ k
           c == Aligned(x, k + 1)
           d == c + q
<1>1. k + 1 \in Logs /\ q \in Nat \ {0} /\ 2 ^ (k + 1) = 2 * q /\ k \in Nat
  BY Powers
<1>2. /\ c \in Offsets /\ c \in Nat /\ c % (2 * q) = 0 /\ c <= x /\ x < c + 2 * q /\ c + 2 * q <= Units
  <2>1. /\ c \in Offsets /\ c \in Nat /\ c % 2 ^ (k + 1) = 0
        /\ c <= x /\ x < c + 2 ^ (k + 1) /\ c + 2 ^ (k + 1) <= Units
    BY <1>1, AlignedIs
  <2> HIDE DEF c, q
  <2> QED BY <2>1, <1>1
<1>3. c % q = 0 /\ d % q = 0 /\ d % (2 * q) = q
  <2> HIDE DEF c, q
  <2> QED BY <1>1, <1>2, HalfMultiple DEF d
<1>4. d \in Offsets /\ d \in Nat /\ x \in Nat
  <2> HIDE DEF c, q
  <2> QED BY <1>1, <1>2, OffsetsNat DEF Offsets, d
<1>5. Aligned(c, k) = c /\ Aligned(d, k) = d
  <2> HIDE DEF c, d
  <2> QED BY <1>2, <1>3, <1>4, AlignedSelf
<1>6. Aligned(d, k + 1) = c
  <2>1. c <= d /\ d < c + 2 ^ (k + 1)
    <3> HIDE DEF c, q
    <3> QED BY <1>1, <1>2 DEF d
  <2>2. c % 2 ^ (k + 1) = 0
    <3> HIDE DEF c, q
    <3> QED BY <1>1, <1>2
  <2> HIDE DEF c, d, q
  <2> QED BY <1>1, <1>2, <1>4, <2>1, <2>2, AlignedOnly
<1>7. Aligned(x, k) = IF x < d THEN c ELSE d
  <2> HIDE DEF c, q
  <2>1. x >= d => x < d + q
    BY <1>1, <1>2, <1>4 DEF d
  <2>2. x < d => x < c + q
    BY DEF d
  <2> HIDE DEF d
  <2>3. CASE x < d
    <3>1. x < c + 2 ^ k
      BY <2>2, <2>3 DEF q
    <3> QED BY <2>3, <3>1, <1>2, <1>3, AlignedOnly DEF q
  <2>4. CASE ~ (x < d)
    <3>1. d <= x /\ x < d + 2 ^ k /\ d % 2 ^ k = 0
      BY <2>1, <2>4, <1>3, <1>4 DEF q
    <3> QED BY <2>4, <3>1, <1>4, AlignedOnly
  <2> QED BY <2>3, <2>4
<1>8. c # d
  BY <1>1, <1>2
<1>9. Aligned(x, k) = c => Buddy(x, k) = d
  <2>1. Aligned(x, k) = c => c % 2 ^ (k + 1) = 0
    <3> HIDE DEF c
    <3> QED BY <1>1, <1>2
  <2> QED BY <2>1 DEF Buddy
<1>10. Aligned(x, k) = d => Buddy(x, k) = c
  <2>1. d % 2 ^ (k + 1) # 0 /\ d - q = c
    <3> HIDE DEF c, q
    <3> QED BY <1>1, <1>2, <1>3, <1>4 DEF d
  <2> HIDE DEF d, c
  <2> QED BY <2>1 DEF Buddy, q
<1> QED BY <1>2, <1>4, <1>5, <1>6, <1>7, <1>8, <1>9, <1>10

LEMMA Buddies ==
  ASSUME NEW x \in Offsets, NEW k \in Logs, k # MaxLog2
  PROVE  /\ k + 1 \in Logs
         /\ Buddy(x, k) \in Offsets
         /\ Aligned(Buddy(x, k), k) = Buddy(x, k)
         /\ Aligned(Buddy(x, k), k + 1) = Aligned(x, k + 1)
         /\ Buddy(x, k) # Aligned(x, k)
         /\ Buddy(Buddy(x, k), k) = Aligned(x, k)
         /\ \A y \in Offsets : Aligned(y, k + 1) = Aligned(x, k + 1) =>
                               Aligned(y, k) = Aligned(x, k) \/ Aligned(y, k) = Buddy(x, k)
         /\ \A y \in Offsets : Aligned(y, k) = Aligned(x, k) => Buddy(y, k) = Buddy(x, k)
<1> DEFINE c == Aligned(x, k + 1)
           d == c + 2 ^ k
<1>1. k + 1 \in Logs /\ 2 ^ k \in Nat \ {0} /\ k <= k + 1
  BY Powers
<1>2. /\ c \in Offsets /\ d \in Offsets /\ Aligned(c, k) = c /\ Aligned(d, k) = d /\ Aligned(d, k + 1) = c
      /\ Aligned(x, k) \in {c, d}
      /\ Aligned(x, k) = c => Buddy(x, k) = d
      /\ Aligned(x, k) = d => Buddy(x, k) = c
  BY TwoHalves
<1>3. c # d
  BY <1>1, <1>2, OffsetsNat
<1>4. Aligned(c, k + 1) = c
  <2>1. k + 1 <= k + 1
    BY Powers
  <2> QED BY <1>1, <2>1, AlignedTwice
<1>5. ASSUME NEW y \in Offsets, Aligned(y, k + 1) = c
      PROVE  /\ Aligned(y, k) \in {c, d}
             /\ Aligned(y, k) = c => Buddy(y, k) = d
             /\ Aligned(y, k) = d => Buddy(y, k) = c
  BY <1>5, TwoHalves
<1>6. \A y \in Offsets : Aligned(y, k) = Aligned(x, k) => Aligned(y, k + 1) = c
  <2>1. \A y \in Offsets : Aligned(Aligned(y, k), k + 1) = Aligned(y, k + 1)
    BY <1>1, AlignedTwice
  <2> HIDE DEF c
  <2>2. Aligned(Aligned(x, k), k + 1) = c
    BY <2>1 DEF c
  <2> QED BY <2>1, <2>2
<1> HIDE DEF d
<1>7. \A y \in Offsets : Aligned(y, k) = Aligned(x, k) => Buddy(y, k) = Buddy(x, k)
  BY <1>2, <1>5, <1>6
<1>8. Buddy(Buddy(x, k), k) = Aligned(x, k)
  BY <1>2, <1>3, <1>4, <1>5
<1>9. \A y \in Offsets : Aligned(y, k + 1) = c => Aligned(y, k) = Aligned(x, k) \/ Aligned(y, k) = Buddy(x, k)
  BY <1>2, <1>5
<1> QED BY <1>1, <1>2, <1>3, <1>4, <1>7, <1>8, <1>9

-----------------------------------------------------------------------------
\* What every state of the heap is like.  s is its lists, entries and marks, heap
\* the blocks in use.

ListedIn(s, k) == {o \in DOMAIN s.entries : s.entries[o].log2_block_size = k}

\* All blocks of each size, free or in use.
Blocks(s, heap) == [k \in Logs |-> ListedIn(s, k) \cup {o \in DOMAIN heap : heap[o] = k}]

Typed(s) ==
  /\ s \in [free_list : [Logs -> [count : Nat, head : Offsets]],
            entries   : [DOMAIN s.entries -> [next : Offsets, prev : Offsets, log2_block_size : Logs]],
            marks     : [Offsets -> Logs \cup {NoMark}]]
  /\ DOMAIN s.entries \subseteq Offsets

HeapTyped(heap) == heap \in [DOMAIN heap -> Logs] /\ DOMAIN heap \subseteq Offsets

\* A circular list: the way back is prev, and there is no shorter circle in it.
Ring(list, links) ==
  /\ \A o \in list :
       /\ links[o].next \in list /\ links[links[o].next].prev = o
       /\ links[o].prev \in list /\ links[links[o].prev].next = o
  /\ \A part \in (SUBSET list) \ {{}} : (\A o \in part : links[o].next \in part) => part = list

Lists(s) ==
  \A k \in Logs :
    /\ s.free_list[k].count = Cardinality(ListedIn(s, k))
    /\ ListedIn(s, k) # {} => s.free_list[k].head \in ListedIn(s, k)
    /\ Ring(ListedIn(s, k), s.entries)

Apart(s, heap) == \A k \in Logs : ListedIn(s, k) \cap DOMAIN heap = {}

\* Every unit lies in one block, and blocks are aligned to their size.
Partition(blocks) ==
  /\ blocks \in [Logs -> SUBSET Offsets]
  /\ \A k \in Logs : \A o \in blocks[k] : Aligned(o, k) = o
  /\ \A x \in Offsets : \E k \in Logs : Aligned(x, k) \in blocks[k]
  /\ \A x \in Offsets : \A j, k \in Logs : Aligned(x, j) \in blocks[j] /\ Aligned(x, k) \in blocks[k] => j = k

\* No two free blocks are halves of one: they would have been joined.
NonePaired(s) == \A k \in Logs \ {MaxLog2} : \A o \in ListedIn(s, k) : Buddy(o, k) \notin ListedIn(s, k)

\* A block in use begins with no mark, a free one with that of its size (but for
\* the largest, which are never joined); a mark left behind lies where a block of
\* its size could begin, and in a block at least that large.
Marked(s, heap) ==
  /\ \A o \in DOMAIN heap : s.marks[o] = NoMark
  /\ \A k \in Logs : \A o \in ListedIn(s, k) : s.marks[o] = k \/ (s.marks[o] = NoMark /\ k = MaxLog2)
  /\ \A x \in Offsets : s.marks[x] # NoMark => Aligned(x, s.marks[x]) = x
  /\ \A x \in Offsets : \A k \in Logs : Aligned(x, k) \in Blocks(s, heap)[k] => s.marks[x] <= k

Good(s, heap) ==
  /\ Typed(s)
  /\ Lists(s)
  /\ HeapTyped(heap)
  /\ Apart(s, heap)
  /\ Partition(Blocks(s, heap))
  /\ NonePaired(s)
  /\ Marked(s, heap)

\* What becomes of the blocks when one is cut, and when two are joined.
IsCut(blocks, after, p, new, old) ==
  \A i \in Logs : \A o \in Offsets :
    o \in after[i] <=> \/ o \in blocks[i] /\ ~ (i = old /\ o = p)
                       \/ i \in new..(old - 1) /\ o = Buddy(p, i)
                       \/ i = new /\ o = p

IsJoin(blocks, after, p, log2, k) ==
  \A i \in Logs : \A o \in Offsets :
    o \in after[i] <=> \/ /\ o \in blocks[i]
                          /\ ~ (i = log2 /\ o = p)
                          /\ ~ (i \in log2..(k - 1) /\ o = Buddy(p, i))
                       \/ i = k /\ o = Aligned(p, k)

\* Units in one block are in one larger block.
LEMMA StaysTogether ==
  ASSUME NEW x \in Offsets, NEW p \in Offsets, NEW j \in Logs, NEW k \in Logs, j <= k,
         Aligned(x, j) = Aligned(p, j)
  PROVE  Aligned(x, k) = Aligned(p, k)
<1>1. Aligned(Aligned(x, j), k) = Aligned(x, k) /\ Aligned(Aligned(p, j), k) = Aligned(p, k)
  BY AlignedTwice
<1> QED BY <1>1

\* What lies in the other half of p's next larger block.
LEMMA OtherHalf ==
  ASSUME NEW x \in Offsets, NEW p \in Offsets, NEW j \in Logs, j # MaxLog2,
         Aligned(x, j) = Buddy(p, j)
  PROVE  /\ \A i \in Logs : i <= j => Aligned(x, i) # Aligned(p, i)
         /\ \A i \in Logs : j < i => Aligned(x, i) = Aligned(p, i)
<1>1. /\ j + 1 \in Logs /\ Aligned(Buddy(p, j), j + 1) = Aligned(p, j + 1)
      /\ Buddy(p, j) # Aligned(p, j)
  BY Buddies
<1>2. \A i \in Logs : i <= j => Aligned(x, i) # Aligned(p, i)
  BY <1>1, StaysTogether
<1>3. j <= j + 1 /\ \A i \in Logs : j < i => j + 1 <= i
  BY Powers
<1>4. Aligned(Aligned(x, j), j + 1) = Aligned(x, j + 1)
  BY <1>1, <1>3, AlignedTwice
<1>5. Aligned(x, j + 1) = Aligned(p, j + 1)
  BY <1>1, <1>4
<1>6. \A i \in Logs : j < i => Aligned(x, i) = Aligned(p, i)
  BY <1>1, <1>3, <1>5, StaysTogether
<1> QED BY <1>2, <1>6

\* A block is its front part and the other halves on the way to it.
LEMMA Pieces ==
  ASSUME NEW x \in Offsets, NEW p \in Offsets, NEW new \in Logs, NEW old \in Logs, new <= old,
         Aligned(x, old) = Aligned(p, old), Aligned(x, new) # Aligned(p, new)
  PROVE  \E j \in new..(old - 1) : Aligned(x, j) = Buddy(p, j)
<1> DEFINE Same == {i \in Logs : new <= i /\ Aligned(x, i) = Aligned(p, i)}
<1>1. old \in Same /\ Same \subseteq Nat
  BY Powers
<1>2. PICK m \in Same : \A i \in Same : m <= i
  <2> HIDE DEF Same
  <2> QED BY <1>1, LeastOf
<1>3. m \in Logs /\ m \in Nat /\ new \in Nat /\ m # new /\ new <= m /\ m <= old
  BY <1>1, <1>2, Powers
<1>4. m - 1 \in Logs /\ m - 1 # MaxLog2 /\ m - 1 \in new..(old - 1) /\ (m - 1) + 1 = m
  BY <1>3, BuddyAssumption DEF Logs
<1>5. Aligned(x, m - 1) # Aligned(p, m - 1)
  <2>1. m - 1 \notin Same
    <3> HIDE DEF Same
    <3> QED BY <1>2, <1>3
  <2> QED BY <2>1, <1>4
<1>6. Aligned(x, (m - 1) + 1) = Aligned(p, (m - 1) + 1)
  BY <1>2, <1>4
<1>7. Aligned(x, m - 1) = Buddy(p, m - 1)
  BY <1>4, <1>5, <1>6, Buddies
<1> QED BY <1>4, <1>7

LEMMA PieceIndex ==
  ASSUME NEW new \in Logs, NEW old \in Logs, NEW i \in new..(old - 1)
  PROVE  i \in Logs /\ i # MaxLog2 /\ i \in Nat /\ new <= i /\ i < old /\ new \in Nat /\ old \in Nat
  BY BuddyAssumption DEF Logs

\* Cutting a block up, and joining blocks, leaves every unit in one block.
LEMMA CutParts ==
  ASSUME NEW blocks, Partition(blocks), NEW p \in Offsets, NEW new \in Logs, NEW old \in Logs, new <= old,
         p \in blocks[old], NEW after \in [Logs -> SUBSET Offsets], IsCut(blocks, after, p, new, old)
  PROVE  Partition(after)
<1>1. Aligned(p, old) = p /\ Aligned(p, new) = p
  <2>1. Aligned(p, old) = p
    BY DEF Partition
  <2> QED BY <2>1, AlignedTwice
<1>2. ASSUME NEW i \in Logs, NEW o \in after[i] PROVE Aligned(o, i) = o
  <2>1. o \in Offsets
    BY <1>2
  <2>2. CASE o \in blocks[i]
    BY <2>2 DEF Partition
  <2>3. CASE i \in new..(old - 1) /\ o = Buddy(p, i)
    BY <2>3, PieceIndex, Buddies
  <2>4. CASE i = new /\ o = p
    BY <2>4, <1>1
  <2> QED BY <2>1, <2>2, <2>3, <2>4, <1>2 DEF IsCut
<1>3. ASSUME NEW x \in Offsets PROVE \E k \in Logs : Aligned(x, k) \in after[k]
  <2>1. PICK k \in Logs : Aligned(x, k) \in blocks[k]
    BY DEF Partition
  <2>2. CASE k = old /\ Aligned(x, k) = p /\ Aligned(x, new) = p
    BY <2>2 DEF IsCut
  <2>3. CASE k = old /\ Aligned(x, k) = p /\ Aligned(x, new) # p
    <3>1. PICK j \in new..(old - 1) : Aligned(x, j) = Buddy(p, j)
      BY <2>3, <1>1, Pieces
    <3>2. j \in Logs /\ Aligned(x, j) \in Offsets
      BY PieceIndex, AlignedIs
    <3> QED BY <3>1, <3>2 DEF IsCut
  <2>4. CASE ~ (k = old /\ Aligned(x, k) = p)
    <3>1. Aligned(x, k) \in Offsets
      BY AlignedIs
    <3> QED BY <2>1, <2>4, <3>1 DEF IsCut
  <2> QED BY <2>2, <2>3, <2>4
<1>4. ASSUME NEW x \in Offsets, NEW i \in Logs, Aligned(x, i) \in after[i]
      PROVE  \/ Aligned(x, i) \in blocks[i] /\ Aligned(x, old) # p
             \/ i \in new..(old - 1) /\ Aligned(x, i) = Buddy(p, i) /\ Aligned(x, old) = p
             \/ i = new /\ Aligned(x, i) = p /\ Aligned(x, old) = p
  <2>1. Aligned(x, i) \in Offsets
    BY AlignedIs
  <2>2. CASE Aligned(x, i) \in blocks[i] /\ ~ (i = old /\ Aligned(x, i) = p)
    <3>1. Aligned(x, old) = p => i = old
      BY <2>2 DEF Partition
    <3> QED BY <2>2, <3>1
  <2>3. CASE i \in new..(old - 1) /\ Aligned(x, i) = Buddy(p, i)
    BY <2>3, <1>1, PieceIndex, OtherHalf
  <2>4. CASE i = new /\ Aligned(x, i) = p
    BY <2>4, <1>1, StaysTogether
  <2> QED BY <1>4, <2>1, <2>2, <2>3, <2>4 DEF IsCut
<1>5. ASSUME NEW x \in Offsets, NEW i \in Logs, NEW j \in Logs,
             Aligned(x, i) \in after[i], Aligned(x, j) \in after[j], i < j
      PROVE  FALSE
  <2>0. i \in Nat /\ j \in Nat /\ new \in Nat
    BY Powers
  <2>1. CASE Aligned(x, old) # p
    <3>1. Aligned(x, i) \in blocks[i] /\ Aligned(x, j) \in blocks[j]
      BY <1>4, <1>5, <2>1
    <3> QED BY <3>1, <2>0, <1>5 DEF Partition
  <2>2. CASE Aligned(x, old) = p
    <3>1. j \in new..(old - 1) /\ Aligned(x, j) = Buddy(p, j)
      BY <1>4, <1>5, <2>0, <2>2
    <3>2. Aligned(x, i) # Aligned(p, i) /\ Aligned(x, new) # Aligned(p, new) /\ Aligned(x, j) # Aligned(p, j)
      BY <3>1, <1>5, <2>0, PieceIndex, OtherHalf
    <3>3. i \in new..(old - 1) /\ Aligned(x, i) = Buddy(p, i)
      BY <1>1, <1>4, <1>5, <2>2, <3>2
    <3>4. Aligned(x, j) = Aligned(p, j)
      BY <3>3, <1>5, PieceIndex, OtherHalf
    <3> QED BY <3>2, <3>4
  <2> QED BY <2>1, <2>2
<1>6. \A x \in Offsets : \A i, j \in Logs : Aligned(x, i) \in after[i] /\ Aligned(x, j) \in after[j] => i = j
  <2>1. \A i, j \in Logs : i < j \/ j < i \/ i = j
    BY Powers
  <2> QED BY <2>1, <1>5
<1> QED BY <1>2, <1>3, <1>6 DEF Partition

\* Which blocks are p's part of the joined one.
LEMMA PartOfJoined ==
  ASSUME NEW blocks, Partition(blocks), NEW p \in Offsets, NEW log2 \in Logs, NEW k \in Logs, log2 <= k,
         p \in blocks[log2], \A j \in log2..(k - 1) : Buddy(p, j) \in blocks[j],
         NEW x \in Offsets, NEW i \in Logs, Aligned(x, i) \in blocks[i]
  PROVE  Aligned(x, k) = Aligned(p, k) <=>
           \/ i = log2 /\ Aligned(x, i) = p
           \/ i \in log2..(k - 1) /\ Aligned(x, i) = Buddy(p, i)
<1>0. Aligned(p, log2) = p
  BY DEF Partition
<1>1. CASE Aligned(x, log2) = p
  <2>1. i = log2
    BY <1>1 DEF Partition
  <2> QED BY <1>1, <2>1, <1>0, StaysTogether
<1>2. CASE Aligned(x, log2) # p
  <2>1. ASSUME Aligned(x, k) = Aligned(p, k) PROVE i \in log2..(k - 1) /\ Aligned(x, i) = Buddy(p, i)
    <3>1. PICK j \in log2..(k - 1) : Aligned(x, j) = Buddy(p, j)
      BY <1>0, <1>2, <2>1, Pieces
    <3>2. j \in Logs
      BY PieceIndex
    <3>3. i = j
      BY <3>1, <3>2 DEF Partition
    <3> QED BY <3>1, <3>3
  <2>2. ASSUME i \in log2..(k - 1), Aligned(x, i) = Buddy(p, i) PROVE Aligned(x, k) = Aligned(p, k)
    BY <2>2, PieceIndex, OtherHalf
  <2> QED BY <1>2, <2>1, <2>2
<1> QED BY <1>1, <1>2

LEMMA JoinParts ==
  ASSUME NEW blocks, Partition(blocks), NEW p \in Offsets, NEW log2 \in Logs, NEW k \in Logs, log2 <= k,
         p \in blocks[log2], \A j \in log2..(k - 1) : Buddy(p, j) \in blocks[j],
         NEW after \in [Logs -> SUBSET Offsets], IsJoin(blocks, after, p, log2, k)
  PROVE  Partition(after)
<1>0. Aligned(p, log2) = p
  BY DEF Partition
<1>1. Aligned(p, k) \in Offsets /\ Aligned(Aligned(p, k), k) = Aligned(p, k)
  <2>1. k <= k
    BY Powers
  <2> QED BY <2>1, AlignedIs, AlignedTwice
<1>2. ASSUME NEW i \in Logs, NEW o \in after[i] PROVE Aligned(o, i) = o
  BY <1>1, <1>2 DEF IsJoin, Partition
<1>3. ASSUME NEW x \in Offsets, NEW i \in Logs, Aligned(x, i) \in blocks[i]
      PROVE  Aligned(x, k) = Aligned(p, k) <=>
               \/ i = log2 /\ Aligned(x, i) = p
               \/ i \in log2..(k - 1) /\ Aligned(x, i) = Buddy(p, i)
  BY <1>3, PartOfJoined
<1>4. ASSUME NEW x \in Offsets PROVE \E i \in Logs : Aligned(x, i) \in after[i]
  <2>1. PICK i \in Logs : Aligned(x, i) \in blocks[i]
    BY DEF Partition
  <2>2. CASE Aligned(x, k) = Aligned(p, k)
    BY <1>1, <2>2 DEF IsJoin
  <2>3. CASE Aligned(x, k) # Aligned(p, k)
    <3>1. Aligned(x, i) \in Offsets
      BY AlignedIs
    <3> QED BY <1>3, <2>1, <2>3, <3>1 DEF IsJoin
  <2> QED BY <2>2, <2>3
<1>5. ASSUME NEW x \in Offsets, NEW i \in Logs, Aligned(x, i) \in after[i]
      PROVE  IF Aligned(x, k) = Aligned(p, k) THEN i = k ELSE Aligned(x, i) \in blocks[i]
  <2>1. Aligned(x, i) \in Offsets
    BY AlignedIs
  <2>2. CASE i = k /\ Aligned(x, i) = Aligned(p, k)
    BY <2>2
  <2>3. CASE /\ Aligned(x, i) \in blocks[i]
             /\ ~ (i = log2 /\ Aligned(x, i) = p)
             /\ ~ (i \in log2..(k - 1) /\ Aligned(x, i) = Buddy(p, i))
    BY <1>3, <2>3
  <2> QED BY <1>5, <2>1, <2>2, <2>3 DEF IsJoin
<1>6. \A x \in Offsets : \A i, j \in Logs : Aligned(x, i) \in after[i] /\ Aligned(x, j) \in after[j] => i = j
  BY <1>5 DEF Partition
<1> QED BY <1>2, <1>4, <1>6 DEF Partition
-----------------------------------------------------------------------------
\* Circular lists.

\* A circular list that nothing was done to, one of a single entry, an empty one.
LEMMA RingSame ==
  ASSUME NEW list, NEW links, NEW after, Ring(list, links),
         \A o \in list : after[o].next = links[o].next /\ after[o].prev = links[o].prev
  PROVE  Ring(list, after)
<1>1. ASSUME NEW o \in list
      PROVE  /\ after[o].next \in list /\ after[after[o].next].prev = o
             /\ after[o].prev \in list /\ after[after[o].prev].next = o
  BY DEF Ring
<1>2. ASSUME NEW part \in (SUBSET list) \ {{}}, \A o \in part : after[o].next \in part PROVE part = list
  BY <1>2 DEF Ring
<1> QED BY <1>1, <1>2 DEF Ring

LEMMA RingOfOne ==
  ASSUME NEW o, NEW links, links[o].next = o, links[o].prev = o
  PROVE  Ring({o}, links)
BY DEF Ring

LEMMA RingEmpty ==
  ASSUME NEW links
  PROVE  Ring({}, links)
BY DEF Ring

\* A ring with one taken out of it.
LEMMA RingWithout ==
  ASSUME NEW list, NEW links, NEW after, NEW g \in list, Ring(list, links),
         \A o \in list \ {g} :
           /\ after[o].next = IF links[o].next = g THEN links[g].next ELSE links[o].next
           /\ after[o].prev = IF links[o].prev = g THEN links[g].prev ELSE links[o].prev
  PROVE  Ring(list \ {g}, after) /\ (list # {g} => links[g].next \in list \ {g})
<1>1. \A o \in list :
        /\ links[o].next \in list /\ links[links[o].next].prev = o
        /\ links[o].prev \in list /\ links[links[o].prev].next = o
  BY DEF Ring
<1>2. list # {g} => links[g].next # g
  <2>1. ASSUME links[g].next = g PROVE {g} = list
    <3>1. {g} \in (SUBSET list) \ {{}} /\ \A o \in {g} : links[o].next \in {g}
      BY <2>1
    <3> QED BY <3>1 DEF Ring
  <2> QED BY <2>1
<1>3. list # {g} => links[g].prev # g
  BY <1>1, <1>2
<1>4. ASSUME NEW o \in list \ {g}
      PROVE  /\ after[o].next \in list \ {g} /\ after[after[o].next].prev = o
             /\ after[o].prev \in list \ {g} /\ after[after[o].prev].next = o
  <2>1. list # {g}
    OBVIOUS
  <2>2. after[o].next \in list \ {g} /\ after[after[o].next].prev = o
    <3>1. CASE links[o].next = g
      <4>1. after[o].next = links[g].next /\ links[g].next \in list \ {g}
        BY <3>1, <2>1, <1>1, <1>2
      <4>2. links[links[g].next].prev = g /\ links[g].prev = o
        BY <3>1, <1>1
      <4> QED BY <4>1, <4>2
    <3>2. CASE links[o].next # g
      <4>1. after[o].next = links[o].next /\ links[o].next \in list \ {g}
        BY <3>2, <1>1
      <4>2. links[links[o].next].prev = o
        BY <1>1
      <4> QED BY <4>1, <4>2
    <3> QED BY <3>1, <3>2
  <2>3. after[o].prev \in list \ {g} /\ after[after[o].prev].next = o
    <3>1. CASE links[o].prev = g
      <4>1. after[o].prev = links[g].prev /\ links[g].prev \in list \ {g}
        BY <3>1, <2>1, <1>1, <1>3
      <4>2. links[links[g].prev].next = g /\ links[g].next = o
        BY <3>1, <1>1
      <4> QED BY <4>1, <4>2
    <3>2. CASE links[o].prev # g
      <4>1. after[o].prev = links[o].prev /\ links[o].prev \in list \ {g}
        BY <3>2, <1>1
      <4>2. links[links[o].prev].next = o
        BY <1>1
      <4> QED BY <4>1, <4>2
    <3> QED BY <3>1, <3>2
  <2> QED BY <2>2, <2>3
<1>5. ASSUME NEW part \in (SUBSET (list \ {g})) \ {{}}, \A o \in part : after[o].next \in part
      PROVE  part = list \ {g}
  <2>1. CASE \E o \in part : links[o].next = g
    <3>1. PICK o \in part : links[o].next = g
      BY <2>1
    <3>2. links[g].next \in part
      BY <1>5, <3>1
    <3>3. \A q \in part \cup {g} : links[q].next \in part \cup {g}
      BY <1>5, <3>2
    <3>4. part \cup {g} = list
      <4>1. part \cup {g} \in (SUBSET list) \ {{}}
        OBVIOUS
      <4> QED BY <4>1, <3>3 DEF Ring
    <3> QED BY <3>4
  <2>2. CASE \A o \in part : links[o].next # g
    <3>1. \A o \in part : links[o].next \in part
      BY <1>5, <2>2
    <3>2. part \in (SUBSET list) \ {{}}
      OBVIOUS
    <3>3. part = list
      BY <3>1, <3>2 DEF Ring
    <3> QED BY <3>3
  <2> QED BY <2>1, <2>2
<1>6. list # {g} => links[g].next \in list \ {g}
  BY <1>1, <1>2
<1> QED BY <1>4, <1>5, <1>6 DEF Ring

\* A ring with one put in before its head.
LEMMA RingWith ==
  ASSUME NEW list, NEW links, NEW after, NEW x, x \notin list, NEW head \in list, Ring(list, links),
         after[x].next = head, after[x].prev = links[head].prev,
         \A o \in list :
           /\ after[o].next = IF o = links[head].prev THEN x ELSE links[o].next
           /\ after[o].prev = IF o = head THEN x ELSE links[o].prev
  PROVE  Ring(list \cup {x}, after)
<1> DEFINE last == links[head].prev
<1>1. \A o \in list :
        /\ links[o].next \in list /\ links[links[o].next].prev = o
        /\ links[o].prev \in list /\ links[links[o].prev].next = o
  BY DEF Ring
<1>2. last \in list /\ links[last].next = head
  BY <1>1
<1>3. \A o \in list : o # last => links[o].next # head
  BY <1>1
<1>4. \A o \in list : o # head => links[o].prev # last
  BY <1>1
<1> HIDE DEF last
<1>5. /\ after[x].next = head /\ after[x].prev = last
      /\ \A o \in list :
           /\ after[o].next = IF o = last THEN x ELSE links[o].next
           /\ after[o].prev = IF o = head THEN x ELSE links[o].prev
  BY DEF last
<1>6. ASSUME NEW o \in list \cup {x}
      PROVE  /\ after[o].next \in list \cup {x} /\ after[after[o].next].prev = o
             /\ after[o].prev \in list \cup {x} /\ after[after[o].prev].next = o
  <2>1. CASE o = x
    BY <2>1, <1>2, <1>5
  <2>2. CASE o \in list
    <3>1. after[o].next \in list \cup {x} /\ after[after[o].next].prev = o
      BY <2>2, <1>1, <1>3, <1>5
    <3>2. after[o].prev \in list \cup {x} /\ after[after[o].prev].next = o
      BY <2>2, <1>1, <1>4, <1>5
    <3> QED BY <3>1, <3>2
  <2> QED BY <2>1, <2>2
<1>7. ASSUME NEW part \in (SUBSET (list \cup {x})) \ {{}}, \A o \in part : after[o].next \in part
      PROVE  part = list \cup {x}
  <2>1. x \in part => head \in part
    BY <1>7, <1>5
  <2>2. part \cap list \in (SUBSET list) \ {{}}
    BY <2>1
  <2>3. ASSUME NEW o \in part \cap list PROVE links[o].next \in part \cap list
    <3>1. CASE o = last
      <4>1. after[o].next = x
        BY <3>1, <1>5
      <4>2. x \in part
        BY <4>1, <1>7
      <4> QED BY <4>2, <2>1, <3>1, <1>2
    <3>2. CASE o # last
      BY <3>2, <1>5, <1>1, <1>7
    <3> QED BY <3>1, <3>2
  <2>4. part \cap list = list
    BY <2>2, <2>3 DEF Ring
  <2>5. x \in part
    BY <2>4, <1>2, <1>5, <1>7
  <2> QED BY <2>4, <2>5
<1> QED BY <1>6, <1>7 DEF Ring

\* An entry, and what is listed, of a state with types.
LEMMA TypedFields ==
  ASSUME NEW s
  PROVE  Typed(s) <=>
           /\ \E a, b, c : s = [free_list |-> a, entries |-> b, marks |-> c]
           /\ s.free_list \in [Logs -> [count : Nat, head : Offsets]]
           /\ s.entries \in [DOMAIN s.entries -> [next : Offsets, prev : Offsets, log2_block_size : Logs]]
           /\ s.marks \in [Offsets -> Logs \cup {NoMark}]
           /\ DOMAIN s.entries \subseteq Offsets
<1> DEFINE fl == [Logs -> [count : Nat, head : Offsets]]
           en == [DOMAIN s.entries -> [next : Offsets, prev : Offsets, log2_block_size : Logs]]
           mk == [Offsets -> Logs \cup {NoMark}]
<1>1. Typed(s) <=> s \in [free_list : fl, entries : en, marks : mk] /\ DOMAIN s.entries \subseteq Offsets
  BY DEF Typed
<1> HIDE DEF fl, en, mk
<1>2. ASSUME s \in [free_list : fl, entries : en, marks : mk]
      PROVE  \E a, b, c : s = [free_list |-> a, entries |-> b, marks |-> c]
  <2>1. s = [free_list |-> s.free_list, entries |-> s.entries, marks |-> s.marks]
    BY <1>2
  <2> QED BY <2>1
<1>3. s \in [free_list : fl, entries : en, marks : mk] <=>
        /\ \E a, b, c : s = [free_list |-> a, entries |-> b, marks |-> c]
        /\ s.free_list \in fl /\ s.entries \in en /\ s.marks \in mk
  BY <1>2
<1> QED BY <1>1, <1>3 DEF fl, en, mk

LEMMA EntryFields ==
  ASSUME NEW s, Typed(s), NEW o \in DOMAIN s.entries
  PROVE  /\ o \in Offsets
         /\ s.entries[o] \in [next : Offsets, prev : Offsets, log2_block_size : Logs]
         /\ s.entries[o].next \in Offsets /\ s.entries[o].prev \in Offsets
         /\ s.entries[o].log2_block_size \in Logs
         /\ o \in ListedIn(s, s.entries[o].log2_block_size)
<1>1. s.entries[o] \in [next : Offsets, prev : Offsets, log2_block_size : Logs]
  BY DEF Typed
<1>2. o \in Offsets
  BY DEF Typed
<1> QED BY <1>1, <1>2 DEF ListedIn

LEMMA ListedFinite ==
  ASSUME NEW s, Typed(s), NEW k \in Logs
  PROVE  /\ ListedIn(s, k) \subseteq Offsets
         /\ IsFiniteSet(ListedIn(s, k)) /\ Cardinality(ListedIn(s, k)) \in Nat
         /\ (Cardinality(ListedIn(s, k)) = 0 <=> ListedIn(s, k) = {})
<1>1. ListedIn(s, k) \subseteq Offsets
  BY DEF Typed, ListedIn
<1>2. IsFiniteSet(Offsets)
  BY FS_Interval, BuddyAssumption DEF Offsets
<1>3. IsFiniteSet(ListedIn(s, k))
  BY <1>1, <1>2, FS_Subset
<1> QED BY <1>1, <1>3, FS_CardinalityType, FS_EmptySet

\* Unlinking takes blocks of different sizes out of their lists, no others.
OnePerSize(s, gone) ==
  /\ gone \subseteq DOMAIN s.entries
  /\ \A o, p \in gone : s.entries[o].log2_block_size = s.entries[p].log2_block_size => o = p

Of(s, gone, k) == {o \in gone : s.entries[o].log2_block_size = k}

LEMMA UnlinkedFields ==
  ASSUME NEW s, Typed(s), NEW gone, OnePerSize(s, gone)
  PROVE  /\ DOMAIN Unlinked(s, gone).entries = DOMAIN s.entries \ gone
         /\ Unlinked(s, gone).marks = s.marks
         /\ \A o \in DOMAIN s.entries \ gone :
              /\ Unlinked(s, gone).entries[o] \in [next : Offsets, prev : Offsets, log2_block_size : Logs]
              /\ Unlinked(s, gone).entries[o].log2_block_size = s.entries[o].log2_block_size
              /\ Unlinked(s, gone).entries[o].next =
                   IF s.entries[o].next \in gone THEN s.entries[s.entries[o].next].next ELSE s.entries[o].next
              /\ Unlinked(s, gone).entries[o].prev =
                   IF s.entries[o].prev \in gone THEN s.entries[s.entries[o].prev].prev ELSE s.entries[o].prev
         /\ \A k \in Logs :
              /\ Of(s, gone, k) = {} => Unlinked(s, gone).free_list[k] =
                   [count |-> s.free_list[k].count - Cardinality({}), head |-> s.free_list[k].head]
              /\ \A g : Of(s, gone, k) = {g} => Unlinked(s, gone).free_list[k] =
                   [count |-> s.free_list[k].count - Cardinality({g}), head |-> s.entries[g].next]
<1> DEFINE u == Unlinked(s, gone)
<1>1. u.entries = [o \in DOMAIN s.entries \ gone |->
        [s.entries[o] EXCEPT !.next = IF @ \in gone THEN s.entries[@].next ELSE @,
                             !.prev = IF @ \in gone THEN s.entries[@].prev ELSE @]]
  BY DEF Unlinked
<1>2. u.marks = s.marks
  BY DEF Unlinked
<1>3. u.free_list = [k \in Logs |->
        [count |-> s.free_list[k].count - Cardinality(Of(s, gone, k)),
         head  |-> IF Of(s, gone, k) = {} THEN s.free_list[k].head
                   ELSE s.entries[CHOOSE o \in Of(s, gone, k) : TRUE].next]]
  BY DEF Unlinked, Of
<1> HIDE DEF u
<1>4. ASSUME NEW o \in DOMAIN s.entries \ gone
      PROVE  /\ u.entries[o] \in [next : Offsets, prev : Offsets, log2_block_size : Logs]
             /\ u.entries[o].log2_block_size = s.entries[o].log2_block_size
             /\ u.entries[o].next =
                  IF s.entries[o].next \in gone THEN s.entries[s.entries[o].next].next ELSE s.entries[o].next
             /\ u.entries[o].prev =
                  IF s.entries[o].prev \in gone THEN s.entries[s.entries[o].prev].prev ELSE s.entries[o].prev
  <2>1. s.entries[o] \in [next : Offsets, prev : Offsets, log2_block_size : Logs]
    BY EntryFields
  <2>2. \A p \in gone : s.entries[p].next \in Offsets /\ s.entries[p].prev \in Offsets
    BY EntryFields DEF OnePerSize
  <2>3. u.entries[o] = [s.entries[o] EXCEPT !.next = IF @ \in gone THEN s.entries[@].next ELSE @,
                                            !.prev = IF @ \in gone THEN s.entries[@].prev ELSE @]
    BY <1>1
  <2> QED BY <2>1, <2>2, <2>3
<1>5. ASSUME NEW k \in Logs
      PROVE  /\ Of(s, gone, k) = {} => u.free_list[k] =
                  [count |-> s.free_list[k].count - Cardinality({}), head |-> s.free_list[k].head]
             /\ \A g : Of(s, gone, k) = {g} => u.free_list[k] =
                  [count |-> s.free_list[k].count - Cardinality({g}), head |-> s.entries[g].next]
  <2>1. Of(s, gone, k) = {} => u.free_list[k] =
                  [count |-> s.free_list[k].count - Cardinality({}), head |-> s.free_list[k].head]
    BY <1>3
  <2>2. ASSUME NEW g, Of(s, gone, k) = {g}
        PROVE  u.free_list[k] = [count |-> s.free_list[k].count - Cardinality({g}), head |-> s.entries[g].next]
    <3>1. (CHOOSE o \in {g} : TRUE) = g
      OBVIOUS
    <3>2. {g} # {}
      OBVIOUS
    <3> QED BY <1>3, <2>2, <3>1, <3>2
  <2> QED BY <2>1, <2>2
<1>6. DOMAIN u.entries = DOMAIN s.entries \ gone
  BY <1>1
<1> QED BY <1>2, <1>4, <1>5, <1>6 DEF u

LEMMA UnlinkedFunctions ==
  ASSUME NEW s, NEW gone
  PROVE  /\ Unlinked(s, gone).entries =
              [o \in DOMAIN Unlinked(s, gone).entries |-> Unlinked(s, gone).entries[o]]
         /\ Unlinked(s, gone).free_list = [k \in Logs |-> Unlinked(s, gone).free_list[k]]
<1> DEFINE u == Unlinked(s, gone)
<1>1. u.entries = [o \in DOMAIN s.entries \ gone |->
        [s.entries[o] EXCEPT !.next = IF @ \in gone THEN s.entries[@].next ELSE @,
                             !.prev = IF @ \in gone THEN s.entries[@].prev ELSE @]]
  BY DEF Unlinked
<1>2. u.free_list = [k \in Logs |->
        [count |-> s.free_list[k].count - Cardinality(Of(s, gone, k)),
         head  |-> IF Of(s, gone, k) = {} THEN s.free_list[k].head
                   ELSE s.entries[CHOOSE o \in Of(s, gone, k) : TRUE].next]]
  BY DEF Unlinked, Of
<1> HIDE DEF u
<1>3. u.entries = [o \in DOMAIN u.entries |-> u.entries[o]]
  BY <1>1
<1>4. u.free_list = [k \in Logs |-> u.free_list[k]]
  BY <1>2
<1> QED BY <1>3, <1>4 DEF u

\* Each of the lists stays linked when an entry is taken out of it.
LEMMA UnlinkedLists ==
  ASSUME NEW s, Typed(s), Lists(s), NEW gone, OnePerSize(s, gone)
  PROVE  /\ Typed(Unlinked(s, gone)) /\ Lists(Unlinked(s, gone))
         /\ \A k \in Logs : ListedIn(Unlinked(s, gone), k) = ListedIn(s, k) \ gone
<1> DEFINE u == Unlinked(s, gone)
<1>1. /\ DOMAIN u.entries = DOMAIN s.entries \ gone /\ u.marks = s.marks
  BY UnlinkedFields
<1>2. u.entries = [o \in DOMAIN u.entries |-> u.entries[o]] /\ u.free_list = [k \in Logs |-> u.free_list[k]]
  BY UnlinkedFunctions
<1>3. \A o \in DOMAIN s.entries \ gone :
        /\ u.entries[o] \in [next : Offsets, prev : Offsets, log2_block_size : Logs]
        /\ u.entries[o].log2_block_size = s.entries[o].log2_block_size
        /\ u.entries[o].next =
             IF s.entries[o].next \in gone THEN s.entries[s.entries[o].next].next ELSE s.entries[o].next
        /\ u.entries[o].prev =
             IF s.entries[o].prev \in gone THEN s.entries[s.entries[o].prev].prev ELSE s.entries[o].prev
  BY UnlinkedFields
<1>4. \A k \in Logs :
        /\ Of(s, gone, k) = {} => u.free_list[k] =
             [count |-> s.free_list[k].count - Cardinality({}), head |-> s.free_list[k].head]
        /\ \A g : Of(s, gone, k) = {g} => u.free_list[k] =
             [count |-> s.free_list[k].count - Cardinality({g}), head |-> s.entries[g].next]
  BY UnlinkedFields
<1> HIDE DEF u
<1>5. ASSUME NEW k \in Logs PROVE ListedIn(u, k) = ListedIn(s, k) \ gone
  BY <1>1, <1>3 DEF ListedIn
<1>6. u.entries \in [DOMAIN u.entries -> [next : Offsets, prev : Offsets, log2_block_size : Logs]]
  BY <1>1, <1>3, <1>2
<1>7. DOMAIN u.entries \subseteq Offsets /\ u.marks \in [Offsets -> Logs \cup {NoMark}]
  BY <1>1, TypedFields
<1>8. \E a, b, c : u = [free_list |-> a, entries |-> b, marks |-> c]
  BY DEF u, Unlinked
<1>9. ASSUME NEW k \in Logs
      PROVE  /\ u.free_list[k] \in [count : Nat, head : Offsets]
             /\ u.free_list[k].count = Cardinality(ListedIn(u, k))
             /\ ListedIn(u, k) # {} => u.free_list[k].head \in ListedIn(u, k)
             /\ Ring(ListedIn(u, k), u.entries)
  <2>1. /\ s.free_list[k].count = Cardinality(ListedIn(s, k))
        /\ ListedIn(s, k) # {} => s.free_list[k].head \in ListedIn(s, k)
        /\ Ring(ListedIn(s, k), s.entries)
    BY DEF Lists
  <2>2. s.free_list[k].count \in Nat /\ s.free_list[k].head \in Offsets
    BY DEF Typed
  <2>3. \A o \in ListedIn(s, k) : s.entries[o].next \in ListedIn(s, k) /\ s.entries[o].prev \in ListedIn(s, k)
    BY <2>1 DEF Ring
  <2>4. Of(s, gone, k) = gone \cap ListedIn(s, k)
    BY DEF Of, ListedIn, OnePerSize
  <2>5. \A o \in ListedIn(s, k) \ gone : o \in DOMAIN s.entries \ gone
    BY DEF ListedIn
  <2>6. CASE Of(s, gone, k) = {}
    <3>1. u.free_list[k] = [count |-> s.free_list[k].count, head |-> s.free_list[k].head]
      BY <1>4, <2>2, <2>6, FS_EmptySet
    <3>2. ListedIn(u, k) = ListedIn(s, k)
      BY <1>5, <2>4, <2>6
    <3>3. \A o \in ListedIn(s, k) :
            u.entries[o].next = s.entries[o].next /\ u.entries[o].prev = s.entries[o].prev
      BY <1>3, <2>3, <2>4, <2>5, <2>6
    <3>4. Ring(ListedIn(s, k), u.entries)
      BY <2>1, <3>3, RingSame
    <3> QED BY <2>1, <2>2, <3>1, <3>2, <3>4
  <2>7. CASE Of(s, gone, k) # {}
    <3>1. PICK g \in gone : Of(s, gone, k) = {g}
      BY <2>7 DEF Of, OnePerSize
    <3>2. g \in ListedIn(s, k)
      BY <3>1, <2>4
    <3>3. ListedIn(u, k) = ListedIn(s, k) \ {g}
      BY <1>5, <2>4, <3>1
    <3>4. u.free_list[k] = [count |-> s.free_list[k].count - 1, head |-> s.entries[g].next]
      <4>1. Cardinality({g}) = 1
        BY FS_Singleton
      <4> QED BY <1>4, <3>1, <4>1
    <3>5. \A o \in ListedIn(s, k) : o \in gone <=> o = g
      BY <2>4, <3>1
    <3>6. \A o \in ListedIn(s, k) \ {g} :
            /\ u.entries[o].next = IF s.entries[o].next = g THEN s.entries[g].next ELSE s.entries[o].next
            /\ u.entries[o].prev = IF s.entries[o].prev = g THEN s.entries[g].prev ELSE s.entries[o].prev
      BY <1>3, <2>3, <2>5, <3>5
    <3>7. Ring(ListedIn(s, k) \ {g}, u.entries)
          /\ (ListedIn(s, k) # {g} => s.entries[g].next \in ListedIn(s, k) \ {g})
      <4> DEFINE list == ListedIn(s, k)
                 links == s.entries
                 after == u.entries
      <4>1. g \in list /\ Ring(list, links)
        BY <2>1, <3>2
      <4>2. \A o \in list \ {g} :
              /\ after[o].next = IF links[o].next = g THEN links[g].next ELSE links[o].next
              /\ after[o].prev = IF links[o].prev = g THEN links[g].prev ELSE links[o].prev
        BY <3>6
      <4> HIDE DEF list, links, after
      <4>3. Ring(list \ {g}, after) /\ (list # {g} => links[g].next \in list \ {g})
        BY <4>1, <4>2, RingWithout
      <4> QED BY <4>3 DEF list, links, after
    <3>8. Cardinality(ListedIn(s, k) \ {g}) = Cardinality(ListedIn(s, k)) - 1
      BY <3>2, ListedFinite, FS_RemoveElement
    <3>9. s.entries[g].next \in Offsets /\ s.free_list[k].count - 1 \in Nat
      BY <2>1, <2>2, <3>2, ListedFinite, EntryFields DEF ListedIn
    <3> QED BY <2>1, <3>3, <3>4, <3>7, <3>8, <3>9
  <2> QED BY <2>6, <2>7
<1>10. u.free_list \in [Logs -> [count : Nat, head : Offsets]]
  BY <1>9, <1>2
<1>11. Typed(u) /\ Lists(u)
  BY <1>6, <1>7, <1>9, <1>10, <1>8, TypedFields DEF Lists
<1> QED BY <1>5, <1>11 DEF u

\* What lists depend on.
LEMMA ListsOf ==
  ASSUME NEW s, NEW t, t.entries = s.entries, t.free_list = s.free_list
  PROVE  /\ \A k \in Logs : ListedIn(t, k) = ListedIn(s, k)
         /\ Lists(s) => Lists(t)
<1>1. \A k \in Logs : ListedIn(t, k) = ListedIn(s, k)
  BY DEF ListedIn
<1> QED BY <1>1 DEF Lists

\* The head of a list is taken from it.
LEMMA Popped ==
  ASSUME NEW s, Typed(s), Lists(s), NEW k \in Logs, s.free_list[k].count # 0
  PROVE  /\ s.free_list[k].head \in ListedIn(s, k)
         /\ Typed(PopFreeEntry(s, k)) /\ Lists(PopFreeEntry(s, k))
         /\ \A i \in Logs : ListedIn(PopFreeEntry(s, k), i) = ListedIn(s, i) \ {s.free_list[k].head}
         /\ PopFreeEntry(s, k).marks = [s.marks EXCEPT ![s.free_list[k].head] = NoMark]
<1> DEFINE g == s.free_list[k].head
           u == Unlinked(s, {g})
           t == PopFreeEntry(s, k)
<1>1. g \in ListedIn(s, k)
  BY ListedFinite DEF Lists
<1>2. OnePerSize(s, {g})
  BY <1>1 DEF OnePerSize, ListedIn
<1>3. /\ Typed(u) /\ Lists(u) /\ u.marks = s.marks
      /\ \A i \in Logs : ListedIn(u, i) = ListedIn(s, i) \ {g}
  <2> DEFINE gone == {g}
  <2>1. OnePerSize(s, gone)
    BY <1>2
  <2> HIDE DEF gone, g
  <2>2. Unlinked(s, gone).marks = s.marks
    BY <2>1, UnlinkedFields
  <2>3. Typed(Unlinked(s, gone)) /\ Lists(Unlinked(s, gone))
    BY <2>1, UnlinkedLists
  <2>4. \A i \in Logs : ListedIn(Unlinked(s, gone), i) = ListedIn(s, i) \ gone
    BY <2>1, UnlinkedLists
  <2> QED BY <2>2, <2>3, <2>4 DEF gone
<1>4. t = [u EXCEPT !.marks[g] = NoMark]
  BY DEF PopFreeEntry
<1> HIDE DEF t, u, g
<1>5. PICK a, b, c : u = [free_list |-> a, entries |-> b, marks |-> c]
  BY <1>3, TypedFields
<1>6. t = [free_list |-> a, entries |-> b, marks |-> [c EXCEPT ![g] = NoMark]]
  BY <1>4, <1>5
<1>7. t.free_list = u.free_list /\ t.entries = u.entries /\ t.marks = [u.marks EXCEPT ![g] = NoMark]
  BY <1>5, <1>6
<1>8. [u.marks EXCEPT ![g] = NoMark] \in [Offsets -> Logs \cup {NoMark}]
  BY <1>3, TypedFields
<1>9. \E x, y, z : t = [free_list |-> x, entries |-> y, marks |-> z]
  BY <1>6
<1>10. Typed(t)
  <2>1. /\ u.free_list \in [Logs -> [count : Nat, head : Offsets]]
        /\ u.entries \in [DOMAIN u.entries -> [next : Offsets, prev : Offsets, log2_block_size : Logs]]
        /\ DOMAIN u.entries \subseteq Offsets
    BY <1>3, TypedFields
  <2> QED BY <2>1, <1>7, <1>8, <1>9, TypedFields
<1>11. Lists(t) /\ \A i \in Logs : ListedIn(t, i) = ListedIn(s, i) \ {g}
  BY <1>3, <1>7, ListsOf
<1> QED BY <1>1, <1>3, <1>7, <1>10, <1>11 DEF t, g

\* The other halves of a block on the way to its front part.
LEMMA BuddyOf ==
  ASSUME NEW p \in Offsets, NEW old \in Logs, Aligned(p, old) = p, NEW i \in Logs, i < old
  PROVE  i # MaxLog2 /\ Buddy(p, i) = p + 2 ^ i /\ Aligned(p, i) = p
<1>1. i \in Nat /\ old \in Nat /\ i # MaxLog2 /\ i + 1 \in Logs /\ i + 1 <= old /\ i <= old
  BY BuddyAssumption DEF Logs
<1>2. Aligned(p, i) = p /\ Aligned(p, i + 1) = p
  BY <1>1, AlignedTwice
<1> QED BY <1>1, <1>2, TwoHalves

LEMMA BuddiesDiffer ==
  ASSUME NEW p \in Offsets, NEW i \in Logs, i # MaxLog2, NEW j \in Logs, j # MaxLog2, i < j
  PROVE  Buddy(p, i) # Buddy(p, j)
<1> SUFFICES ASSUME Buddy(p, i) = Buddy(p, j) PROVE FALSE
  OBVIOUS
<1>1. /\ Buddy(p, i) \in Offsets /\ Aligned(Buddy(p, i), i) = Buddy(p, i)
      /\ Aligned(Buddy(p, j), j) = Buddy(p, j) /\ Buddy(p, j) # Aligned(p, j)
  BY Buddies
<1>2. Aligned(Buddy(p, i), j) = Aligned(p, j)
  BY <1>1, OtherHalf
<1> QED BY <1>1, <1>2

\* A free block is linked at the end of its list.
LEMMA LinkedLists ==
  ASSUME NEW s, Typed(s), Lists(s), NEW offset \in Offsets, offset \notin DOMAIN s.entries, NEW k \in Logs
  PROVE  /\ Typed(Linked(s, offset, k)) /\ Lists(Linked(s, offset, k))
         /\ \A i \in Logs : ListedIn(Linked(s, offset, k), i) =
                              IF i = k THEN ListedIn(s, i) \cup {offset} ELSE ListedIn(s, i)
         /\ Linked(s, offset, k).marks = [s.marks EXCEPT ![offset] = k]
<1> DEFINE t == Linked(s, offset, k)
           head == s.free_list[k].head
           last == s.entries[head].prev
           count == s.free_list[k].count
           fresh == [o \in DOMAIN s.entries \cup {offset} |->
                       IF o = offset THEN Entry(offset, offset, k) ELSE s.entries[o]]
           amid == [o \in DOMAIN s.entries \cup {offset} |->
                      IF o = offset THEN Entry(head, last, k)
                      ELSE Entry(IF o = last THEN offset ELSE s.entries[o].next,
                                 IF o = head THEN offset ELSE s.entries[o].prev,
                                 s.entries[o].log2_block_size)]
           place == IF count = 0 THEN [count |-> 1, head |-> offset]
                    ELSE [count |-> count + 1, head |-> head]
           en == IF count = 0 THEN fresh ELSE amid
<1>1. PICK a, b, c : s = [free_list |-> a, entries |-> b, marks |-> c]
  BY TypedFields
<1>2. /\ a \in [Logs -> [count : Nat, head : Offsets]]
      /\ b \in [DOMAIN b -> [next : Offsets, prev : Offsets, log2_block_size : Logs]]
      /\ c \in [Offsets -> Logs \cup {NoMark}]
      /\ DOMAIN b \subseteq Offsets
      /\ s.free_list = a /\ s.entries = b /\ s.marks = c
  <2>1. s.free_list = a /\ s.entries = b /\ s.marks = c
    BY <1>1
  <2> QED BY <2>1, TypedFields
<1>3. t = [free_list |-> [a EXCEPT ![k] = place], entries |-> en, marks |-> [c EXCEPT ![offset] = k]]
  <2>1. CASE count = 0
    BY <2>1, <1>1, <1>2 DEF Linked
  <2>2. CASE count # 0
    <3>1. a[k] \in [count : Nat, head : Offsets]
      BY <1>2
    <3>2. [a[k] EXCEPT !.count = @ + 1] = [count |-> count + 1, head |-> head]
      BY <3>1, <1>2
    <3>3. t = [free_list |-> [a EXCEPT ![k] = [a[k] EXCEPT !.count = @ + 1]],
               entries |-> amid, marks |-> [c EXCEPT ![offset] = k]]
      BY <2>2, <1>1, <1>2 DEF Linked
    <3> QED BY <2>2, <3>2, <3>3
  <2> QED BY <2>1, <2>2
<1>4. t.free_list = [a EXCEPT ![k] = place] /\ t.entries = en /\ t.marks = [c EXCEPT ![offset] = k]
  BY <1>3
<1>5. \E x, y, z : t = [free_list |-> x, entries |-> y, marks |-> z]
  BY <1>3
<1> HIDE DEF t
<1>6. /\ count \in Nat /\ head \in Offsets /\ count = Cardinality(ListedIn(s, k))
      /\ ListedIn(s, k) # {} => head \in ListedIn(s, k)
      /\ Ring(ListedIn(s, k), s.entries)
      /\ (count = 0 <=> ListedIn(s, k) = {})
  <2>1. a[k] \in [count : Nat, head : Offsets]
    BY <1>2
  <2> QED BY <1>2, <2>1, ListedFinite DEF Lists
<1>7. count # 0 => last \in ListedIn(s, k) /\ last \in Offsets /\ last \in DOMAIN b
  BY <1>2, <1>6, ListedFinite DEF Ring, ListedIn
<1>8. ASSUME NEW o \in DOMAIN s.entries
      PROVE  /\ s.entries[o] \in [next : Offsets, prev : Offsets, log2_block_size : Logs]
             /\ o # offset
  BY EntryFields
<1>9. DOMAIN en = DOMAIN s.entries \cup {offset}
  OBVIOUS
<1>10. ASSUME NEW o \in DOMAIN s.entries
       PROVE  /\ en[o] \in [next : Offsets, prev : Offsets, log2_block_size : Logs]
              /\ en[o].log2_block_size = s.entries[o].log2_block_size
              /\ en[o].next = IF count # 0 /\ o = last THEN offset ELSE s.entries[o].next
              /\ en[o].prev = IF count # 0 /\ o = head THEN offset ELSE s.entries[o].prev
  BY <1>8, <1>10 DEF Entry
<1>11. /\ en[offset] \in [next : Offsets, prev : Offsets, log2_block_size : Logs]
       /\ en[offset].log2_block_size = k
       /\ count = 0 => en[offset].next = offset /\ en[offset].prev = offset
       /\ count # 0 => en[offset].next = head /\ en[offset].prev = last
  BY <1>6, <1>7 DEF Entry
<1>12. en \in [DOMAIN en -> [next : Offsets, prev : Offsets, log2_block_size : Logs]]
  <2>1. ASSUME NEW o \in DOMAIN s.entries \cup {offset}
        PROVE  en[o] \in [next : Offsets, prev : Offsets, log2_block_size : Logs]
    BY <1>10, <1>11
  <2>2. CASE count = 0
    BY <2>1, <2>2
  <2>3. CASE count # 0
    BY <2>1, <2>3
  <2> QED BY <2>2, <2>3
<1>13. /\ place.head \in Offsets /\ place.count \in Nat
       /\ place \in [count : Nat, head : Offsets]
       /\ place.count = count + 1
       /\ place.head = IF count = 0 THEN offset ELSE head
  BY <1>6
<1> HIDE DEF en, place
<1>14. Typed(t)
  <2>1. [a EXCEPT ![k] = place] \in [Logs -> [count : Nat, head : Offsets]]
    BY <1>2, <1>13
  <2>2. [c EXCEPT ![offset] = k] \in [Offsets -> Logs \cup {NoMark}]
    BY <1>2
  <2>3. DOMAIN en \subseteq Offsets
    BY <1>2, <1>9
  <2> QED BY <1>4, <1>5, <1>12, <2>1, <2>2, <2>3, TypedFields
<1>15. ASSUME NEW i \in Logs
       PROVE  ListedIn(t, i) = IF i = k THEN ListedIn(s, i) \cup {offset} ELSE ListedIn(s, i)
  BY <1>4, <1>9, <1>10, <1>11, <1>8 DEF ListedIn
<1>16. ASSUME NEW i \in Logs
       PROVE  /\ t.free_list[i].count = Cardinality(ListedIn(t, i))
              /\ ListedIn(t, i) # {} => t.free_list[i].head \in ListedIn(t, i)
              /\ Ring(ListedIn(t, i), t.entries)
  <2>1. CASE i # k
    <3>1. ListedIn(t, i) = ListedIn(s, i) /\ t.free_list[i] = s.free_list[i]
      BY <2>1, <1>2, <1>4, <1>15
    <3>2. \A o \in ListedIn(s, i) : o \in DOMAIN s.entries /\ o \notin ListedIn(s, k)
      BY <2>1 DEF ListedIn
    <3>3. ASSUME NEW o \in ListedIn(s, i)
          PROVE t.entries[o].next = s.entries[o].next /\ t.entries[o].prev = s.entries[o].prev
      BY <3>2, <1>4, <1>6, <1>7, <1>10
    <3>4. Ring(ListedIn(s, i), s.entries)
      BY DEF Lists
    <3>5. Ring(ListedIn(s, i), t.entries)
      BY <3>3, <3>4, RingSame
    <3> QED BY <3>1, <3>5 DEF Lists
  <2>2. CASE i = k /\ count = 0
    <3>1. ListedIn(t, i) = {offset}
      BY <2>2, <1>6, <1>15
    <3>2. Cardinality({offset}) = 1
      BY FS_Singleton
    <3>3. Ring({offset}, t.entries)
      <4>1. t.entries[offset].next = offset /\ t.entries[offset].prev = offset
        BY <1>4, <1>11, <2>2
      <4> QED BY <4>1, RingOfOne
    <3>4. t.free_list[i] = place
      BY <1>2, <1>4, <2>2
    <3> QED BY <2>2, <1>13, <3>1, <3>2, <3>3, <3>4
  <2>3. CASE i = k /\ count # 0
    <3>1. ListedIn(t, i) = ListedIn(s, k) \cup {offset} /\ offset \notin ListedIn(s, k)
      BY <2>3, <1>15 DEF ListedIn
    <3>2. Cardinality(ListedIn(s, k) \cup {offset}) = Cardinality(ListedIn(s, k)) + 1
      BY <3>1, ListedFinite, FS_AddElement
    <3>3. Ring(ListedIn(s, k) \cup {offset}, en)
      <4> DEFINE list == ListedIn(s, k)
                 links == s.entries
      <4>1. offset \notin list /\ head \in list /\ Ring(list, links) /\ last = links[head].prev
        BY <3>1, <2>3, <1>6
      <4>2. en[offset].next = head /\ en[offset].prev = links[head].prev
        BY <2>3, <1>11
      <4>3. \A o \in list : /\ en[o].next = IF o = links[head].prev THEN offset ELSE links[o].next
                            /\ en[o].prev = IF o = head THEN offset ELSE links[o].prev
        BY <2>3, <1>10 DEF ListedIn
      <4> HIDE DEF list, links, head, last
      <4>4. Ring(list \cup {offset}, en)
        BY <4>1, <4>2, <4>3, RingWith
      <4> QED BY <4>4 DEF list
    <3>4. t.free_list[i] = place
      BY <1>2, <1>4, <2>3
    <3> QED BY <2>3, <1>4, <1>6, <1>13, <3>1, <3>2, <3>3, <3>4
  <2> QED BY <2>1, <2>2, <2>3
<1>17. Lists(t)
  BY <1>16 DEF Lists
<1>18. t.marks = [s.marks EXCEPT ![offset] = k]
  BY <1>2, <1>4
<1> QED BY <1>14, <1>15, <1>17, <1>18 DEF t

\* Where the pieces that Alloc cuts off are, and of what size.
LEMMA HalfIs ==
  ASSUME NEW offset \in Offsets, NEW k \in Logs, Aligned(offset, k) = offset, NEW base \in Logs, base <= k,
         NEW i \in base..(k - 1)
  PROVE  /\ offset + 2 ^ i = Buddy(offset, i) /\ Buddy(offset, i) \in Offsets
         /\ (CHOOSE j \in base..(k - 1) : offset + 2 ^ i = offset + 2 ^ j) = i
<1>1. i \in Logs /\ i # MaxLog2 /\ i < k /\ i \in Nat
  BY PieceIndex
<1>2. offset + 2 ^ i = Buddy(offset, i) /\ Buddy(offset, i) \in Offsets
  BY <1>1, BuddyOf, Buddies
<1>3. ASSUME NEW j \in base..(k - 1), offset + 2 ^ i = offset + 2 ^ j PROVE j = i
  <2>1. j \in Logs /\ j # MaxLog2 /\ j < k /\ j \in Nat
    BY PieceIndex
  <2>2. Buddy(offset, i) = Buddy(offset, j)
    BY <1>2, <1>3, <2>1, BuddyOf
  <2>3. ~ (i < j) /\ ~ (j < i)
    BY <1>1, <2>1, <2>2, BuddiesDiffer
  <2> QED BY <1>1, <2>1, <2>3
<1>4. (CHOOSE j \in base..(k - 1) : offset + 2 ^ i = offset + 2 ^ j) = i
  BY <1>3
<1> QED BY <1>2, <1>4

\* What Alloc cuts off becomes the only block of its list.
LEMMA SplitLists ==
  ASSUME NEW s, Typed(s), Lists(s), NEW offset \in Offsets, NEW k \in Logs, Aligned(offset, k) = offset,
         NEW base \in Logs, base <= k,
         \A i \in base..(k - 1) : ListedIn(s, i) = {} /\ Buddy(offset, i) \notin DOMAIN s.entries
  PROVE  /\ Typed(Split(s, offset, base, k)) /\ Lists(Split(s, offset, base, k))
         /\ \A i \in Logs : ListedIn(Split(s, offset, base, k), i) =
              IF i \in base..(k - 1) THEN {Buddy(offset, i)} ELSE ListedIn(s, i)
         /\ \A i \in base..(k - 1) : Split(s, offset, base, k).marks[Buddy(offset, i)] = i
         /\ \A x \in Offsets : (\A i \in base..(k - 1) : x # Buddy(offset, i)) =>
              Split(s, offset, base, k).marks[x] = s.marks[x]
<1> DEFINE t == Split(s, offset, base, k)
           Half(o) == CHOOSE i \in base..(k - 1) : o = offset + 2 ^ i
           halves == {offset + 2 ^ i : i \in base..(k - 1)}
           fl == [i \in Logs |-> IF i \in base..(k - 1) THEN [count |-> 1, head |-> offset + 2 ^ i]
                                 ELSE s.free_list[i]]
           en == [o \in DOMAIN s.entries \cup halves |->
                    IF o \in halves THEN Entry(o, o, Half(o)) ELSE s.entries[o]]
           mk == [o \in Offsets |-> IF o \in halves THEN Half(o) ELSE s.marks[o]]
<1>1. t = [free_list |-> fl, entries |-> en, marks |-> mk]
  BY DEF Split
<1>2. ASSUME NEW i \in base..(k - 1)
      PROVE  /\ i \in Logs
             /\ offset + 2 ^ i = Buddy(offset, i) /\ Buddy(offset, i) \in Offsets
             /\ Buddy(offset, i) \in halves /\ Half(Buddy(offset, i)) = i
             /\ Buddy(offset, i) \notin DOMAIN s.entries /\ ListedIn(s, i) = {}
  <2>1. offset + 2 ^ i = Buddy(offset, i) /\ Buddy(offset, i) \in Offsets /\ Half(offset + 2 ^ i) = i
    BY HalfIs
  <2>2. i \in Logs
    BY PieceIndex
  <2> HIDE DEF Half
  <2> QED BY <2>1, <2>2
<1>3. \A o \in halves : \E i \in base..(k - 1) : o = Buddy(offset, i)
  BY <1>2
<1>4. t.free_list = fl /\ t.entries = en /\ t.marks = mk
  BY <1>1
<1>5. \E a, b, c : t = [free_list |-> a, entries |-> b, marks |-> c]
  BY <1>1
<1> HIDE DEF t, Half, halves
<1>6. ASSUME NEW i \in base..(k - 1)
      PROVE  /\ fl[i] = [count |-> 1, head |-> Buddy(offset, i)]
             /\ en[Buddy(offset, i)] = [next |-> Buddy(offset, i), prev |-> Buddy(offset, i), log2_block_size |-> i]
             /\ mk[Buddy(offset, i)] = i
  BY <1>2 DEF Entry
<1>7. ASSUME NEW i \in base..(k - 1)
       PROVE  /\ en[Buddy(offset, i)] \in [next : Offsets, prev : Offsets, log2_block_size : Logs]
              /\ en[Buddy(offset, i)].log2_block_size = i
              /\ en[Buddy(offset, i)].next = Buddy(offset, i) /\ en[Buddy(offset, i)].prev = Buddy(offset, i)
  <2> DEFINE h == Buddy(offset, i)
             e == en[h]
  <2>1. i \in Logs /\ h \in Offsets /\ e = [next |-> h, prev |-> h, log2_block_size |-> i]
    BY <1>2, <1>6
  <2> HIDE DEF h, e
  <2>2. e \in [next : Offsets, prev : Offsets, log2_block_size : Logs]
         /\ e.log2_block_size = i /\ e.next = h /\ e.prev = h
    BY <2>1
  <2> QED BY <2>2 DEF e, h
<1>8. /\ \A i \in Logs : i \notin base..(k - 1) => fl[i] = s.free_list[i]
      /\ \A o \in DOMAIN s.entries : en[o] = s.entries[o] /\ o \notin halves
      /\ \A x \in Offsets : x \notin halves => mk[x] = s.marks[x]
      /\ DOMAIN en = DOMAIN s.entries \cup halves
  BY <1>2, <1>3
<1>9. /\ s.free_list \in [Logs -> [count : Nat, head : Offsets]]
      /\ s.entries \in [DOMAIN s.entries -> [next : Offsets, prev : Offsets, log2_block_size : Logs]]
      /\ s.marks \in [Offsets -> Logs \cup {NoMark}]
      /\ DOMAIN s.entries \subseteq Offsets
  BY TypedFields
<1>10. fl \in [Logs -> [count : Nat, head : Offsets]]
  BY <1>2, <1>6, <1>8, <1>9
<1>11. en \in [DOMAIN en -> [next : Offsets, prev : Offsets, log2_block_size : Logs]]
  <2>1. ASSUME NEW o \in DOMAIN s.entries \cup halves
        PROVE  en[o] \in [next : Offsets, prev : Offsets, log2_block_size : Logs]
    <3>1. CASE o \in halves
      <4>1. PICK i \in base..(k - 1) : o = Buddy(offset, i)
        BY <3>1, <1>3
      <4>2. en[Buddy(offset, i)] \in [next : Offsets, prev : Offsets, log2_block_size : Logs]
        BY <1>7
      <4> HIDE DEF en
      <4> QED BY <4>1, <4>2
    <3>2. CASE o \in DOMAIN s.entries
      BY <3>2, <1>8, <1>9
    <3> QED BY <3>1, <3>2
  <2> QED BY <2>1
<1>12. mk \in [Offsets -> Logs \cup {NoMark}]
  <2>1. ASSUME NEW x \in Offsets PROVE mk[x] \in Logs \cup {NoMark}
    BY <1>2, <1>3, <1>6, <1>8, <1>9
  <2> QED BY <2>1
<1> HIDE DEF fl, en, mk
<1>13. DOMAIN en \subseteq Offsets
  BY <1>2, <1>3, <1>8, <1>9
<1>14. Typed(t)
  BY <1>4, <1>5, <1>10, <1>11, <1>12, <1>13, TypedFields
<1>15. ASSUME NEW i \in Logs
       PROVE  ListedIn(t, i) = IF i \in base..(k - 1) THEN {Buddy(offset, i)} ELSE ListedIn(s, i)
  <2>1. ASSUME NEW o \in halves PROVE \E j \in base..(k - 1) : o = Buddy(offset, j) /\ t.entries[o].log2_block_size = j
    <3>1. PICK j \in base..(k - 1) : o = Buddy(offset, j)
      BY <1>3
    <3> QED BY <3>1, <1>4, <1>7
  <2>2. \A o \in DOMAIN s.entries : t.entries[o] = s.entries[o]
    BY <1>4, <1>8
  <2>3. DOMAIN t.entries = DOMAIN s.entries \cup halves
    BY <1>4, <1>8
  <2>4. CASE i \in base..(k - 1)
    <3>1. \A o \in DOMAIN s.entries : s.entries[o].log2_block_size # i
      BY <1>2, <2>4 DEF ListedIn
    <3>2. Buddy(offset, i) \in halves /\ t.entries[Buddy(offset, i)].log2_block_size = i
      BY <1>2, <1>4, <1>7, <2>4
    <3> QED BY <2>1, <2>2, <2>3, <2>4, <3>1, <3>2 DEF ListedIn
  <2>5. CASE i \notin base..(k - 1)
    BY <2>1, <2>2, <2>3, <2>5 DEF ListedIn
  <2> QED BY <2>4, <2>5
<1>16. ASSUME NEW i \in Logs
       PROVE  /\ t.free_list[i].count = Cardinality(ListedIn(t, i))
              /\ ListedIn(t, i) # {} => t.free_list[i].head \in ListedIn(t, i)
              /\ Ring(ListedIn(t, i), t.entries)
  <2>1. CASE i \in base..(k - 1)
    <3> DEFINE h == Buddy(offset, i)
    <3>1. ListedIn(t, i) = {h} /\ t.free_list[i] = [count |-> 1, head |-> h]
      BY <2>1, <1>4, <1>6, <1>15
    <3>2. t.entries[h].next = h /\ t.entries[h].prev = h
      BY <2>1, <1>4, <1>7
    <3> HIDE DEF h
    <3>3. Cardinality({h}) = 1
      BY FS_Singleton
    <3>4. Ring({h}, t.entries)
      BY <3>2, RingOfOne
    <3> QED BY <3>1, <3>3, <3>4
  <2>2. CASE i \notin base..(k - 1)
    <3>1. ListedIn(t, i) = ListedIn(s, i) /\ t.free_list[i] = s.free_list[i]
      BY <2>2, <1>4, <1>8, <1>15
    <3>2. \A o \in ListedIn(s, i) : t.entries[o] = s.entries[o]
      BY <1>4, <1>8 DEF ListedIn
    <3>3. Ring(ListedIn(s, i), t.entries)
      BY <3>2, RingSame DEF Lists
    <3> QED BY <3>1, <3>3 DEF Lists
  <2> QED BY <2>1, <2>2
<1>17. Lists(t)
  BY <1>16 DEF Lists
<1>18. /\ \A i \in base..(k - 1) : t.marks[Buddy(offset, i)] = i
       /\ \A x \in Offsets : (\A i \in base..(k - 1) : x # Buddy(offset, i)) => t.marks[x] = s.marks[x]
  <2>1. \A i \in base..(k - 1) : mk[Buddy(offset, i)] = i
    BY <1>6
  <2>2. ASSUME NEW x \in Offsets, \A i \in base..(k - 1) : x # Buddy(offset, i) PROVE mk[x] = s.marks[x]
    <3>1. x \notin halves
      BY <2>2, <1>3
    <3> QED BY <3>1, <1>8
  <2> QED BY <2>1, <2>2, <1>4
<1> QED BY <1>14, <1>15, <1>17, <1>18 DEF t
-----------------------------------------------------------------------------
\* What happens to blocks.

\* What lies where: the free blocks and those in use.
LEMMA BlocksAre ==
  ASSUME NEW s, Typed(s), NEW heap, HeapTyped(heap)
  PROVE  /\ Blocks(s, heap) \in [Logs -> SUBSET Offsets]
         /\ \A k \in Logs : \A o : o \in Blocks(s, heap)[k] <=>
              o \in ListedIn(s, k) \/ (o \in DOMAIN heap /\ heap[o] = k)
<1>1. \A k \in Logs : ListedIn(s, k) \subseteq Offsets
  BY ListedFinite
<1>2. \A k \in Logs : {o \in DOMAIN heap : heap[o] = k} \subseteq Offsets
  BY DEF HeapTyped
<1> QED BY <1>1, <1>2 DEF Blocks

LEMMA SizeIs ==
  ASSUME NEW s, Typed(s), NEW o \in DOMAIN s.entries
  PROVE  \E k \in Logs : o \in ListedIn(s, k)
BY EntryFields

\* A block in use, and a free one, is what lies there.
LEMMA OneBlock ==
  ASSUME NEW s, NEW heap, Good(s, heap), NEW x \in Offsets, NEW j \in Logs, NEW k \in Logs,
         Aligned(x, j) \in Blocks(s, heap)[j], Aligned(x, k) \in Blocks(s, heap)[k]
  PROVE  j = k
BY DEF Good, Partition

LEMMA BlockAligned ==
  ASSUME NEW s, NEW heap, Good(s, heap)
  PROVE  /\ \A o \in DOMAIN heap : /\ o \in Offsets /\ heap[o] \in Logs
                                   /\ Aligned(o, heap[o]) = o /\ o \in Blocks(s, heap)[heap[o]]
         /\ \A k \in Logs : \A o \in ListedIn(s, k) :
              o \in Offsets /\ Aligned(o, k) = o /\ o \in Blocks(s, heap)[k]
<1>1. Typed(s) /\ HeapTyped(heap)
  BY DEF Good
<1>2. \A o \in DOMAIN heap : o \in Offsets /\ heap[o] \in Logs
  BY <1>1 DEF HeapTyped
<1>3. \A k \in Logs : \A o \in ListedIn(s, k) : o \in Offsets
  BY <1>1, ListedFinite
<1>4. \A k \in Logs : \A o : o \in Blocks(s, heap)[k] <=>
        o \in ListedIn(s, k) \/ (o \in DOMAIN heap /\ heap[o] = k)
  BY <1>1, BlocksAre
<1>5. \A k \in Logs : \A o \in Blocks(s, heap)[k] : Aligned(o, k) = o
  BY DEF Good, Partition
<1> QED BY <1>2, <1>3, <1>4, <1>5
-----------------------------------------------------------------------------
\* A free block is handed out whole.
LEMMA HandOut ==
  ASSUME NEW s, NEW heap, Good(s, heap), NEW k \in Logs, NEW o \in ListedIn(s, k),
         NEW t, Typed(t), Lists(t),
         \A i \in Logs : ListedIn(t, i) = ListedIn(s, i) \ {o},
         t.marks = [s.marks EXCEPT ![o] = NoMark]
  PROVE  Good(t, Taken(heap, o, k))
<1> DEFINE after == Taken(heap, o, k)
<1>1. Typed(s) /\ HeapTyped(heap) /\ Apart(s, heap) /\ NonePaired(s) /\ Marked(s, heap)
  BY DEF Good
<1>2. o \in Offsets /\ Aligned(o, k) = o /\ o \notin DOMAIN heap
  BY <1>1, BlockAligned DEF Apart
<1>3. DOMAIN after = DOMAIN heap \cup {o} /\ after[o] = k /\ \A p \in DOMAIN heap : after[p] = heap[p]
  BY <1>2 DEF Taken
<1>4. HeapTyped(after)
  BY <1>1, <1>2 DEF HeapTyped, Taken
<1>5. \A i \in Logs : o \in ListedIn(s, i) => i = k
  BY DEF ListedIn
<1> HIDE DEF after
<1>6. \A i \in Logs : \A p : p \in Blocks(t, after)[i] <=> p \in Blocks(s, heap)[i]
  <2>1. ASSUME NEW i \in Logs, NEW p PROVE p \in Blocks(t, after)[i] <=> p \in Blocks(s, heap)[i]
    <3>1. p \in Blocks(t, after)[i] <=> p \in ListedIn(t, i) \/ (p \in DOMAIN after /\ after[p] = i)
      BY <1>4, BlocksAre
    <3>2. p \in Blocks(s, heap)[i] <=> p \in ListedIn(s, i) \/ (p \in DOMAIN heap /\ heap[p] = i)
      BY <1>1, BlocksAre
    <3>3. p = o => (p \in Blocks(t, after)[i] <=> i = k) /\ (p \in Blocks(s, heap)[i] <=> i = k)
      BY <3>1, <3>2, <1>2, <1>3, <1>5
    <3>4. p # o => (p \in ListedIn(t, i) <=> p \in ListedIn(s, i))
                    /\ (p \in DOMAIN after /\ after[p] = i <=> p \in DOMAIN heap /\ heap[p] = i)
      BY <1>3
    <3> QED BY <3>1, <3>2, <3>3, <3>4
  <2> QED BY <2>1
<1>7. Blocks(t, after) = Blocks(s, heap)
  <2>1. Blocks(t, after) \in [Logs -> SUBSET Offsets] /\ Blocks(s, heap) \in [Logs -> SUBSET Offsets]
    BY <1>1, <1>4, BlocksAre
  <2>2. \A i \in Logs : Blocks(t, after)[i] = Blocks(s, heap)[i]
    BY <1>6
  <2> QED BY <2>1, <2>2
<1>8. Apart(t, after)
  BY <1>1, <1>3 DEF Apart
<1>9. NonePaired(t)
  BY <1>1 DEF NonePaired
<1>10. \A x \in Offsets : t.marks[x] = IF x = o THEN NoMark ELSE s.marks[x]
  BY <1>1, TypedFields
<1>11. Marked(t, after)
  <2>1. ASSUME NEW p \in DOMAIN after PROVE t.marks[p] = NoMark
    <3>1. p \in Offsets
      BY <1>4 DEF HeapTyped
    <3> QED BY <3>1, <1>1, <1>3, <1>10 DEF Marked
  <2>2. ASSUME NEW i \in Logs, NEW p \in ListedIn(t, i) PROVE t.marks[p] = i \/ (t.marks[p] = NoMark /\ i = MaxLog2)
    <3>1. p \in ListedIn(s, i) /\ p # o /\ p \in Offsets
      BY BlockAligned
    <3> QED BY <3>1, <1>1, <1>10 DEF Marked
  <2>3. \A x \in Offsets : t.marks[x] # NoMark => Aligned(x, t.marks[x]) = x
    BY <1>1, <1>10 DEF Marked
  <2>4. \A x \in Offsets : \A i \in Logs : Aligned(x, i) \in Blocks(t, after)[i] => t.marks[x] <= i
    <3>1. \A i \in Logs : NoMark <= i
      <4>1. \A i \in Logs : i \in Nat
        BY Powers
      <4> QED BY <4>1 DEF NoMark
    <3> QED BY <3>1, <1>1, <1>7, <1>10 DEF Marked
  <2> QED BY <2>1, <2>2, <2>3, <2>4 DEF Marked
<1>12. Partition(Blocks(t, after))
  BY <1>7 DEF Good
<1> QED BY <1>4, <1>8, <1>9, <1>11, <1>12 DEF Good, after

\* A block in use is cut down to its front, the rest freed in pieces.
LEMMA CutDown ==
  ASSUME NEW s, NEW heap, Good(s, heap), NEW p \in DOMAIN heap, NEW new \in Logs, new <= heap[p],
         NEW t, Typed(t), Lists(t),
         \A i \in Logs : ListedIn(t, i) =
           ListedIn(s, i) \cup (IF i \in new..(heap[p] - 1) THEN {Buddy(p, i)} ELSE {}),
         \A i \in new..(heap[p] - 1) : t.marks[Buddy(p, i)] = i,
         \A x \in Offsets : (\A i \in new..(heap[p] - 1) : x # Buddy(p, i)) => t.marks[x] = s.marks[x]
  PROVE  Good(t, Taken(heap, p, new))
<1> DEFINE after == Taken(heap, p, new)
           old == heap[p]
           In(x, i) == Aligned(x, i) \in Blocks(s, heap)[i]
<1>1. Typed(s) /\ HeapTyped(heap) /\ Apart(s, heap) /\ NonePaired(s) /\ Marked(s, heap) /\ Partition(Blocks(s, heap))
  BY DEF Good
<1>2. p \in Offsets /\ old \in Logs /\ Aligned(p, old) = p /\ p \in Blocks(s, heap)[old] /\ new <= old
  BY BlockAligned
<1>3. DOMAIN after = DOMAIN heap /\ after[p] = new /\ \A q \in DOMAIN heap : q # p => after[q] = heap[q]
  BY DEF Taken
<1>4. HeapTyped(after)
  BY <1>1, <1>2 DEF HeapTyped, Taken
<1> HIDE DEF after
<1>5. \A i \in Logs : \A o :
        /\ o \in Blocks(t, after)[i] <=> o \in ListedIn(t, i) \/ (o \in DOMAIN after /\ after[o] = i)
        /\ o \in Blocks(s, heap)[i] <=> o \in ListedIn(s, i) \/ (o \in DOMAIN heap /\ heap[o] = i)
  BY <1>1, <1>4, BlocksAre
<1>6. \A i \in new..(old - 1) : /\ i \in Logs /\ i # MaxLog2 /\ i < old /\ new <= i
                                /\ Buddy(p, i) \in Offsets /\ Aligned(Buddy(p, i), i) = Buddy(p, i)
                                /\ Buddy(p, i) # p /\ Aligned(Buddy(p, i), old) = p
                                /\ Buddy(Buddy(p, i), i) = p
  <2>1. ASSUME NEW i \in new..(old - 1)
        PROVE  /\ i \in Logs /\ i # MaxLog2 /\ i < old /\ new <= i
               /\ Buddy(p, i) \in Offsets /\ Aligned(Buddy(p, i), i) = Buddy(p, i)
               /\ Buddy(p, i) # p /\ Aligned(Buddy(p, i), old) = p
               /\ Buddy(Buddy(p, i), i) = p
    <3> HIDE DEF old
    <3>1. i \in Logs /\ i # MaxLog2 /\ i < old /\ new <= i
      BY <1>2, PieceIndex
    <3>2. Aligned(p, i) = p
      BY <1>2, <3>1, BuddyOf
    <3>3. /\ Buddy(p, i) \in Offsets /\ Aligned(Buddy(p, i), i) = Buddy(p, i)
          /\ Buddy(p, i) # Aligned(p, i) /\ Buddy(Buddy(p, i), i) = Aligned(p, i)
      BY <1>2, <3>1, Buddies
    <3>4. Aligned(Buddy(p, i), old) = Aligned(p, old)
      BY <1>2, <3>1, <3>3, OtherHalf
    <3> QED BY <1>2, <3>1, <3>2, <3>3, <3>4
  <2> QED BY <2>1
\* The pieces were nobody's blocks.
<1>7. \A i \in new..(old - 1) : \A j \in Logs : Buddy(p, i) \notin ListedIn(s, j)
  BY <1>2, <1>6, BlockAligned, OneBlock
<1>8. \A i \in new..(old - 1) : Buddy(p, i) \notin DOMAIN heap
  BY <1>2, <1>6, BlockAligned, OneBlock
<1>9. \A i \in Logs : \A o : o \in ListedIn(t, i) <=> o \in ListedIn(s, i) \/ (i \in new..(old - 1) /\ o = Buddy(p, i))
  OBVIOUS
<1>10. IsCut(Blocks(s, heap), Blocks(t, after), p, new, old)
  <2>1. p \notin ListedIn(s, old)
    BY <1>1, <1>2 DEF Apart
  <2>2. ASSUME NEW i \in Logs, NEW o \in Offsets
        PROVE  o \in Blocks(t, after)[i] <=> \/ o \in Blocks(s, heap)[i] /\ ~ (i = old /\ o = p)
                                             \/ i \in new..(old - 1) /\ o = Buddy(p, i)
                                             \/ i = new /\ o = p
    <3> HIDE DEF old
    <3>1. heap[p] = old
      BY DEF old
    <3>2. CASE o = p
      BY <3>1, <3>2, <2>1, <1>1, <1>3, <1>5, <1>6, <1>9 DEF Apart
    <3>3. CASE o # p
      BY <3>3, <1>3, <1>5, <1>9
    <3> QED BY <3>2, <3>3
  <2> QED BY <2>2 DEF IsCut
<1>11. Partition(Blocks(t, after))
  <2>1. Blocks(t, after) \in [Logs -> SUBSET Offsets]
    BY <1>4, BlocksAre
  <2> QED BY <2>1, <1>1, <1>2, <1>10, CutParts
<1>12. Apart(t, after)
  BY <1>1, <1>3, <1>8, <1>9 DEF Apart
<1>13. NonePaired(t)
  <2>1. SUFFICES ASSUME NEW i \in Logs, i # MaxLog2, NEW o \in ListedIn(t, i), Buddy(o, i) \in ListedIn(t, i)
                 PROVE  FALSE
    BY DEF NonePaired
  <2>2. p \notin ListedIn(s, i)
    BY <1>1 DEF Apart
  <2>3. CASE o \in ListedIn(s, i)
    <3>1. Buddy(o, i) \notin ListedIn(s, i) /\ Aligned(o, i) = o /\ o \in Offsets
      BY <2>1, <2>3, <1>1, BlockAligned DEF NonePaired
    <3>2. i \in new..(old - 1) /\ Buddy(o, i) = Buddy(p, i)
      BY <2>1, <3>1, <1>9
    <3>3. Buddy(Buddy(o, i), i) = o
      BY <2>1, <3>1, Buddies
    <3> QED BY <2>2, <2>3, <3>2, <3>3, <1>6
  <2>4. CASE i \in new..(old - 1) /\ o = Buddy(p, i)
    BY <2>1, <2>2, <2>4, <1>6, <1>9
  <2> QED BY <2>1, <2>3, <2>4, <1>9
<1>14. Marked(t, after)
  <2>1. ASSUME NEW o \in DOMAIN after PROVE t.marks[o] = NoMark
    <3>1. o \in Offsets /\ s.marks[o] = NoMark
      BY <1>1, <1>3, BlockAligned DEF Marked
    <3> QED BY <3>1, <1>3, <1>8
  <2>2. ASSUME NEW i \in Logs, NEW o \in ListedIn(t, i)
        PROVE  t.marks[o] = i \/ (t.marks[o] = NoMark /\ i = MaxLog2)
    <3>1. CASE o \in ListedIn(s, i)
      <4>1. o \in Offsets /\ t.marks[o] = s.marks[o]
        BY <3>1, <1>7, BlockAligned
      <4> QED BY <3>1, <4>1, <1>1 DEF Marked
    <3>2. CASE i \in new..(old - 1) /\ o = Buddy(p, i)
      BY <3>2
    <3> QED BY <3>1, <3>2, <1>9
  <2>3. ASSUME NEW x \in Offsets, t.marks[x] # NoMark PROVE Aligned(x, t.marks[x]) = x
    <3>1. CASE \E i \in new..(old - 1) : x = Buddy(p, i)
      BY <3>1, <1>6
    <3>2. CASE \A i \in new..(old - 1) : x # Buddy(p, i)
      BY <3>2, <2>3, <1>1 DEF Marked
    <3> QED BY <3>1, <3>2
  <2>4. ASSUME NEW x \in Offsets, NEW k \in Logs, Aligned(x, k) \in Blocks(t, after)[k] PROVE t.marks[x] <= k
    <3>1. CASE \E i \in new..(old - 1) : x = Buddy(p, i)
      <4>1. PICK i \in new..(old - 1) : x = Buddy(p, i)
        BY <3>1
      <4>2. i \in Logs /\ Aligned(x, i) \in Blocks(t, after)[i]
        BY <4>1, <1>5, <1>6, <1>9
      <4>3. i = k
        BY <4>2, <2>4, <1>11 DEF Partition
      <4>4. t.marks[x] = i /\ i \in Nat
        BY <4>1, <4>2, Powers
      <4> QED BY <4>3, <4>4
    <3>2. CASE (\A i \in new..(old - 1) : x # Buddy(p, i)) /\ Aligned(x, old) # p
      <4>1. t.marks[x] = s.marks[x]
        BY <3>2
      <4>2. Aligned(x, k) \in Offsets
        BY AlignedIs
      <4>3. ~ (k \in new..(old - 1) /\ Aligned(x, k) = Buddy(p, k))
        BY <3>2, <1>2, PieceIndex, OtherHalf
      <4>4. ~ (k = new /\ Aligned(x, k) = p)
        <5>1. Aligned(p, new) = p
          BY <1>2, AlignedTwice
        <5> QED BY <5>1, <3>2, <1>2, StaysTogether
      <4>5. Aligned(x, k) \in Blocks(s, heap)[k]
        BY <2>4, <4>2, <4>3, <4>4, <1>10 DEF IsCut
      <4> QED BY <4>1, <4>5, <1>1 DEF Marked
    <3>3. CASE (\A i \in new..(old - 1) : x # Buddy(p, i)) /\ Aligned(x, old) = p
      <4> DEFINE j == s.marks[x]
      <4>1. t.marks[x] = j
        BY <3>3
      <4>2. j <= old /\ j \in Logs \cup {NoMark}
        BY <3>3, <1>1, <1>2, TypedFields DEF Marked
      <4>3. s.marks[p] = NoMark
        BY <1>1 DEF Marked
      <4>4. j # NoMark => Aligned(x, j) = x
        BY <1>1 DEF Marked
      <4> HIDE DEF j
      <4>5. j # NoMark => Aligned(p, j) = p
        BY <4>2, <1>2, AlignedTwice
      <4>6. \/ k \in new..(old - 1) /\ Aligned(x, k) = Buddy(p, k)
            \/ k = new /\ Aligned(x, k) = p
        <5>1. Aligned(x, k) \in Offsets
          BY AlignedIs
        <5>2. CASE Aligned(x, k) \in Blocks(s, heap)[k] /\ ~ (k = old /\ Aligned(x, k) = p)
          <6>1. k = old
            BY <5>2, <3>3, <1>2, OneBlock
          <6> QED BY <6>1, <5>2, <3>3
        <5> QED BY <2>4, <5>1, <5>2, <1>10 DEF IsCut
      <4>7. j # NoMark /\ k < j => Aligned(x, j) = Aligned(p, j)
        <5>1. CASE k \in new..(old - 1) /\ Aligned(x, k) = Buddy(p, k)
          BY <5>1, <4>2, <1>2, PieceIndex, OtherHalf
        <5>2. CASE k = new /\ Aligned(x, k) = p
          <6>1. Aligned(p, new) = p
            BY <1>2, AlignedTwice
          <6>2. j # NoMark /\ k < j => k <= j
            BY <4>2, Powers
          <6> QED BY <5>2, <6>1, <6>2, <4>2, <1>2, StaysTogether
        <5> QED BY <4>6, <5>1, <5>2
      <4>8. ~ (j # NoMark /\ k < j)
        BY <4>3, <4>4, <4>5, <4>7 DEF j
      <4>9. j <= k
        BY <4>2, <4>8, Powers DEF NoMark
      <4> QED BY <4>1, <4>9
    <3> QED BY <3>1, <3>2, <3>3
  <2> QED BY <2>1, <2>2, <2>3, <2>4 DEF Marked
<1> QED BY <1>4, <1>11, <1>12, <1>13, <1>14 DEF Good, after

\* A block is given back, joined with as many of its buddies as are free.
LEMMA GiveBack ==
  ASSUME NEW s, NEW heap, Good(s, heap), NEW p \in DOMAIN heap, NEW k \in Logs, heap[p] <= k,
         \A j \in heap[p]..(k - 1) : Buddy(p, j) \in ListedIn(s, j),
         k # MaxLog2 => Buddy(p, k) \notin ListedIn(s, k),
         NEW t, Typed(t), Lists(t),
         \A i \in Logs : ListedIn(t, i) =
           (ListedIn(s, i) \ (IF i \in heap[p]..(k - 1) THEN {Buddy(p, i)} ELSE {}))
             \cup (IF i = k THEN {Aligned(p, k)} ELSE {}),
         t.marks = [s.marks EXCEPT ![Aligned(p, k)] = k]
  PROVE  Good(t, GivenBack(heap, p))
<1> DEFINE after == GivenBack(heap, p)
           log2 == heap[p]
           a == Aligned(p, k)
<1>1. Typed(s) /\ HeapTyped(heap) /\ Apart(s, heap) /\ NonePaired(s) /\ Marked(s, heap) /\ Partition(Blocks(s, heap))
  BY DEF Good
<1>2. p \in Offsets /\ log2 \in Logs /\ Aligned(p, log2) = p /\ p \in Blocks(s, heap)[log2] /\ log2 <= k
  BY BlockAligned
<1>3. a \in Offsets /\ Aligned(a, k) = a
  <2>1. k <= k
    BY Powers
  <2> QED BY <2>1, <1>2, AlignedIs, AlignedTwice
<1>4. DOMAIN after = DOMAIN heap \ {p} /\ \A q \in DOMAIN after : after[q] = heap[q]
  BY DEF GivenBack
<1>5. HeapTyped(after)
  BY <1>1 DEF HeapTyped, GivenBack
<1> HIDE DEF after
<1>6. \A i \in Logs : \A o :
        /\ o \in Blocks(t, after)[i] <=> o \in ListedIn(t, i) \/ (o \in DOMAIN after /\ after[o] = i)
        /\ o \in Blocks(s, heap)[i] <=> o \in ListedIn(s, i) \/ (o \in DOMAIN heap /\ heap[o] = i)
  BY <1>1, <1>5, BlocksAre
<1>7. \A i \in log2..(k - 1) : i \in Logs /\ i # MaxLog2 /\ Buddy(p, i) \in ListedIn(s, i)
                               /\ Buddy(p, i) \notin DOMAIN heap
  BY <1>1, <1>2, PieceIndex DEF Apart
<1>8. \A i \in Logs : \A o : o \in ListedIn(t, i) <=>
        \/ o \in ListedIn(s, i) /\ ~ (i \in log2..(k - 1) /\ o = Buddy(p, i))
        \/ i = k /\ o = a
  OBVIOUS
\* What of the old blocks lies in the new one.
<1>9. ASSUME NEW x \in Offsets, NEW i \in Logs, Aligned(x, i) \in Blocks(s, heap)[i]
      PROVE  Aligned(x, k) = a <=> \/ i = log2 /\ Aligned(x, i) = p
                                   \/ i \in log2..(k - 1) /\ Aligned(x, i) = Buddy(p, i)
  <2>1. \A j \in log2..(k - 1) : Buddy(p, j) \in Blocks(s, heap)[j]
    BY <1>6, <1>7
  <2> HIDE DEF log2
  <2> QED BY <2>1, <1>1, <1>2, <1>9, PartOfJoined
<1>10. IsJoin(Blocks(s, heap), Blocks(t, after), p, log2, k)
  <2>1. p \notin ListedIn(s, log2)
    BY <1>1, <1>2 DEF Apart
  <2>2. ASSUME NEW i \in Logs, NEW o \in Offsets
        PROVE  o \in Blocks(t, after)[i] <=>
                 \/ o \in Blocks(s, heap)[i] /\ ~ (i = log2 /\ o = p) /\ ~ (i \in log2..(k - 1) /\ o = Buddy(p, i))
                 \/ i = k /\ o = a
    <3>1. o \in DOMAIN after /\ after[o] = i <=> o # p /\ o \in DOMAIN heap /\ heap[o] = i
      BY <1>4
    <3>2. p \notin ListedIn(s, i)
      BY <1>1 DEF Apart
    <3>3. heap[p] = log2
      OBVIOUS
    <3> HIDE DEF log2, a
    <3>4. CASE o = p
      BY <3>1, <3>2, <3>3, <3>4, <1>6, <1>7, <1>8
    <3>5. CASE o # p
      BY <3>1, <3>5, <1>6, <1>7, <1>8
    <3> QED BY <3>4, <3>5
  <2> QED BY <2>2 DEF IsJoin
<1>11. Partition(Blocks(t, after))
  <2>1. Blocks(t, after) \in [Logs -> SUBSET Offsets]
    BY <1>5, BlocksAre
  <2>2. \A j \in log2..(k - 1) : Buddy(p, j) \in Blocks(s, heap)[j]
    BY <1>6, <1>7
  <2> HIDE DEF log2
  <2> QED BY <2>1, <2>2, <1>1, <1>2, <1>10, JoinParts
<1>12. a \notin DOMAIN after
  <2>1. SUFFICES ASSUME a \in DOMAIN after PROVE FALSE
    OBVIOUS
  <2>2. /\ a \in DOMAIN heap /\ a # p /\ heap[a] \in Logs
        /\ Aligned(a, heap[a]) = a /\ a \in Blocks(s, heap)[heap[a]]
    BY <2>1, <1>4, BlockAligned
  <2>3. heap[a] \in log2..(k - 1) /\ a = Buddy(p, heap[a])
    <3> HIDE DEF a, log2
    <3> QED BY <2>2, <1>3, <1>9
  <2> QED BY <2>2, <2>3, <1>7
<1>13. Apart(t, after)
  BY <1>1, <1>4, <1>8, <1>12 DEF Apart
<1>14. NonePaired(t)
  <2>1. SUFFICES ASSUME NEW i \in Logs, i # MaxLog2, NEW o \in ListedIn(t, i), Buddy(o, i) \in ListedIn(t, i)
                 PROVE  FALSE
    BY DEF NonePaired
  <2>2. o \in Offsets /\ Aligned(o, i) = o
    BY <1>3, <1>8, BlockAligned
  <2>3. Buddy(o, i) # o /\ Buddy(Buddy(o, i), i) = o
    BY <2>1, <2>2, Buddies
  <2>4. CASE o \in ListedIn(s, i)
    <3>1. Buddy(o, i) \notin ListedIn(s, i)
      BY <2>1, <2>4, <1>1 DEF NonePaired
    <3>2. i = k /\ Buddy(o, i) = a
      BY <2>1, <3>1, <1>8
    <3>3. Buddy(a, i) = Buddy(p, i)
      BY <2>1, <3>2, <1>2, <1>3, Buddies
    <3> QED BY <2>1, <2>3, <2>4, <3>2, <3>3
  <2>5. CASE o = a /\ i = k
    <3>1. Buddy(a, k) = Buddy(p, k)
      BY <2>1, <2>5, <1>2, <1>3, Buddies
    <3>2. Buddy(p, k) \notin ListedIn(s, k)
      BY <2>1, <2>5
    <3> QED BY <2>1, <2>3, <2>5, <3>1, <3>2, <1>8
  <2> QED BY <2>4, <2>5, <1>8
<1>15. \A x \in Offsets : t.marks[x] = IF x = a THEN k ELSE s.marks[x]
  BY <1>1, TypedFields
<1>16. Marked(t, after)
  <2>1. ASSUME NEW o \in DOMAIN after PROVE t.marks[o] = NoMark
    <3>1. o \in Offsets /\ s.marks[o] = NoMark /\ o # a
      BY <1>1, <1>4, <1>12, BlockAligned DEF Marked
    <3> QED BY <3>1, <1>15
  <2>2. ASSUME NEW i \in Logs, NEW o \in ListedIn(t, i)
        PROVE  t.marks[o] = i \/ (t.marks[o] = NoMark /\ i = MaxLog2)
    <3>1. o \in Offsets
      BY <1>3, <1>8, BlockAligned
    <3>2. CASE o = a
      <4>1. Aligned(a, i) = a /\ a \in Blocks(t, after)[i] /\ a \in Blocks(t, after)[k]
        BY <3>2, <1>6, <1>8, <1>11 DEF Partition
      <4>2. i = k
        BY <4>1, <1>3, <1>11 DEF Partition
      <4> QED BY <4>2, <3>1, <3>2, <1>15
    <3>3. CASE o # a
      <4>1. o \in ListedIn(s, i)
        BY <3>3, <1>8
      <4> QED BY <4>1, <3>1, <3>3, <1>1, <1>15 DEF Marked
    <3> QED BY <3>2, <3>3
  <2>3. ASSUME NEW x \in Offsets, t.marks[x] # NoMark PROVE Aligned(x, t.marks[x]) = x
    BY <2>3, <1>1, <1>3, <1>15 DEF Marked
  <2>4. ASSUME NEW x \in Offsets, NEW i \in Logs, Aligned(x, i) \in Blocks(t, after)[i] PROVE t.marks[x] <= i
    <3>1. a \in Blocks(t, after)[k]
      BY <1>6, <1>8
    <3>2. CASE x = a
      <4>1. i = k
        BY <3>1, <3>2, <2>4, <1>3, <1>11 DEF Partition
      <4>2. t.marks[x] = k /\ k \in Nat
        BY <3>2, <1>3, <1>15, Powers
      <4> QED BY <4>1, <4>2
    <3>3. CASE x # a /\ Aligned(x, k) = a
      <4>1. i = k
        BY <3>1, <3>3, <2>4, <1>11 DEF Partition
      <4>2. PICK m \in Logs : Aligned(x, m) \in Blocks(s, heap)[m]
        BY <1>1 DEF Partition
      <4>3. m = log2 \/ m \in log2..(k - 1)
        BY <3>3, <4>2, <1>9
      <4>4. m <= k /\ m \in Nat /\ k \in Nat
        BY <4>3, <1>2, Powers
      <4>5. s.marks[x] <= m /\ s.marks[x] \in Logs \cup {NoMark}
        BY <4>2, <1>1, TypedFields DEF Marked
      <4>6. s.marks[x] <= k
        <5>1. s.marks[x] \in Int
          <6>1. \A n \in Logs : n \in Nat
            BY Powers
          <6> QED BY <4>5, <6>1 DEF NoMark
        <5> QED BY <4>4, <4>5, <5>1
      <4> QED BY <4>1, <4>6, <3>3, <1>15
    <3>4. CASE x # a /\ Aligned(x, k) # a
      <4>1. Aligned(x, i) \in Offsets
        BY AlignedIs
      <4>2. ~ (i = k /\ Aligned(x, i) = a)
        BY <3>4
      <4>3. Aligned(x, i) \in Blocks(s, heap)[i]
        BY <2>4, <4>1, <4>2, <1>10 DEF IsJoin
      <4> QED BY <4>3, <3>4, <1>1, <1>15 DEF Marked
    <3> QED BY <3>2, <3>3, <3>4
  <2> QED BY <2>1, <2>2, <2>3, <2>4 DEF Marked
<1> QED BY <1>5, <1>11, <1>13, <1>14, <1>16 DEF Good, after

\* What Free reads of the other half is the truth.
LEMMA MarkTells ==
  ASSUME NEW s, NEW heap, Good(s, heap), NEW p \in DOMAIN heap, NEW j \in Logs, heap[p] <= j, j # MaxLog2
  PROVE  OtherHalfFree(s, p, j) <=> Buddy(p, j) \in ListedIn(s, j)
<1> DEFINE b == Buddy(p, j)
<1>1. Typed(s) /\ HeapTyped(heap) /\ Marked(s, heap) /\ Partition(Blocks(s, heap))
  BY DEF Good
<1>2. /\ p \in Offsets /\ heap[p] \in Logs /\ Aligned(p, heap[p]) = p /\ p \in Blocks(s, heap)[heap[p]]
  BY BlockAligned
<1>3. b \in Offsets /\ Aligned(b, j) = b
  BY <1>2, Buddies
<1>4. ASSUME b \in ListedIn(s, j) PROVE OtherHalfFree(s, p, j)
  BY <1>1, <1>4 DEF Marked, OtherHalfFree
<1>5. ASSUME OtherHalfFree(s, p, j) PROVE b \in ListedIn(s, j)
  <2>1. s.marks[b] = j /\ j # NoMark
    <3>1. j \in Nat
      BY Powers
    <3> QED BY <3>1, <1>5 DEF OtherHalfFree, NoMark
  <2>2. PICK m \in Logs : Aligned(b, m) \in Blocks(s, heap)[m]
    BY <1>1, <1>3 DEF Partition
  <2>3. j <= m
    BY <2>1, <2>2, <1>1, <1>3 DEF Marked
  <2>4. CASE m = j
    <3>1. b \in Blocks(s, heap)[j]
      BY <2>2, <2>4, <1>3
    <3>2. b \notin DOMAIN heap
      BY <2>1, <1>1 DEF Marked
    <3> QED BY <3>1, <3>2, <1>1, BlocksAre
  <2>5. CASE m # j
    <3>1. j < m
      BY <2>3, <2>5, Powers
    <3>2. Aligned(b, m) = Aligned(p, m)
      BY <3>1, <1>2, <1>3, OtherHalf
    <3>3. m = heap[p]
      BY <3>2, <2>2, <1>2, OneBlock
    <3> QED BY <3>1, <3>3, Powers
  <2> QED BY <2>4, <2>5
<1> QED BY <1>4, <1>5

\* What is written into a block in use takes no free block's mark away.
LEMMA Overwrite ==
  ASSUME NEW s, NEW heap, Good(s, heap), NEW p \in DOMAIN heap,
         NEW t, t.entries = s.entries, t.free_list = s.free_list, Typed(t),
         \A x \in Offsets : t.marks[x] = IF x \in Span(p, heap[p]) THEN NoMark ELSE s.marks[x]
  PROVE  Good(t, heap)
<1>1. /\ Typed(s) /\ Lists(s) /\ HeapTyped(heap) /\ Apart(s, heap)
      /\ NonePaired(s) /\ Marked(s, heap) /\ Partition(Blocks(s, heap))
  BY DEF Good
<1>2. /\ p \in Offsets /\ heap[p] \in Logs /\ Aligned(p, heap[p]) = p /\ p \in Blocks(s, heap)[heap[p]]
  BY BlockAligned
<1>3. Lists(t) /\ \A k \in Logs : ListedIn(t, k) = ListedIn(s, k)
  BY <1>1, ListsOf
<1>4. Blocks(t, heap) = Blocks(s, heap)
  BY <1>3 DEF Blocks
<1>5. ASSUME NEW k \in Logs, NEW o \in ListedIn(s, k) PROVE o \notin Span(p, heap[p])
  <2>1. o \in Offsets /\ Aligned(o, k) = o /\ o \in Blocks(s, heap)[k]
    BY BlockAligned
  <2>2. Aligned(o, heap[p]) # p
    <3>1. Aligned(o, heap[p]) = p => k = heap[p]
      BY <2>1, <1>2, OneBlock
    <3> QED BY <3>1, <2>1, <1>1 DEF Apart
  <2> QED BY <2>1, <2>2, <1>2, SpanIs
<1>6. Apart(t, heap) /\ NonePaired(t) /\ Partition(Blocks(t, heap))
  BY <1>1, <1>3, <1>4 DEF Apart, NonePaired
<1>7. Marked(t, heap)
  <2>1. ASSUME NEW o \in DOMAIN heap PROVE t.marks[o] = NoMark
    <3>1. o \in Offsets
      BY BlockAligned
    <3> QED BY <3>1, <1>1 DEF Marked
  <2>2. ASSUME NEW i \in Logs, NEW o \in ListedIn(t, i)
        PROVE  t.marks[o] = i \/ (t.marks[o] = NoMark /\ i = MaxLog2)
    <3>1. o \in ListedIn(s, i) /\ o \in Offsets /\ o \notin Span(p, heap[p])
      BY <1>3, <1>5, BlockAligned
    <3> QED BY <3>1, <1>1 DEF Marked
  <2>3. \A x \in Offsets : t.marks[x] # NoMark => Aligned(x, t.marks[x]) = x
    BY <1>1 DEF Marked
  <2>4. \A x \in Offsets : \A i \in Logs : Aligned(x, i) \in Blocks(t, heap)[i] => t.marks[x] <= i
    <3>1. \A i \in Logs : NoMark <= i
      <4>1. \A i \in Logs : i \in Nat
        BY Powers
      <4> QED BY <4>1 DEF NoMark
    <3> QED BY <3>1, <1>1, <1>4 DEF Marked
  <2> QED BY <2>1, <2>2, <2>3, <2>4 DEF Marked
<1> QED BY <1>1, <1>3, <1>6, <1>7 DEF Good
-----------------------------------------------------------------------------
\* Alloc, Free and Shrink.

\* The loop that looks for a block ends at one that is there.
LEMMA FoundIs ==
  ASSUME NEW s, Typed(s), NEW size \in Sizes \cup {HeadersUnits}, CanAlloc(s, size)
  PROVE  /\ Found(s, size) \in Logs /\ GetSizeGroup(size) <= Found(s, size)
         /\ s.free_list[Found(s, size)].count # 0
         /\ \A j \in GetSizeGroup(size)..(Found(s, size) - 1) : s.free_list[j].count = 0
<1> DEFINE g == GetSizeGroup(size)
           Some == {k \in g..MaxLog2 : s.free_list[k].count # 0}
<1>1. g \in Logs /\ g \in Nat /\ MaxLog2 \in Nat
  BY Groups, Powers, BuddyAssumption
<1>2. Some # {} /\ Some \subseteq Nat
  BY <1>1 DEF CanAlloc
<1>3. PICK k \in Some : \A j \in Some : k <= j
  <2> HIDE DEF Some
  <2> QED BY <1>2, LeastOf
<1> HIDE DEF g
<1>4. k \in g..MaxLog2 /\ s.free_list[k].count # 0 /\ \A j \in g..(k - 1) : s.free_list[j].count = 0
  BY <1>1, <1>3
<1>5. Found(s, size) = CHOOSE i \in g..MaxLog2 : /\ s.free_list[i].count # 0
                                                 /\ \A j \in g..(i - 1) : s.free_list[j].count = 0
  BY DEF Found, g
<1>6. /\ Found(s, size) \in g..MaxLog2
      /\ s.free_list[Found(s, size)].count # 0
      /\ \A j \in g..(Found(s, size) - 1) : s.free_list[j].count = 0
  BY <1>4, <1>5
<1> QED BY <1>1, <1>6 DEF Logs, g

\* Alloc takes the head of that list and cuts the rest off.
LEMMA AllocatedGood ==
  ASSUME NEW s, NEW heap, Good(s, heap), NEW size \in Sizes \cup {HeadersUnits}, CanAlloc(s, size)
  PROVE  /\ s.free_list[Found(s, size)].head \in ListedIn(s, Found(s, size))
         /\ Good(Allocated(s, size), Taken(heap, s.free_list[Found(s, size)].head, GetSizeGroup(size)))
<1> DEFINE g == GetSizeGroup(size)
           k == Found(s, size)
           o == s.free_list[k].head
           p == PopFreeEntry(s, k)
           h == Taken(heap, o, k)
<1>1. Typed(s) /\ Lists(s)
  BY DEF Good
<1>2. /\ g \in Logs /\ k \in Logs /\ g <= k /\ s.free_list[k].count # 0
      /\ \A j \in g..(k - 1) : s.free_list[j].count = 0
  BY <1>1, FoundIs, Groups
<1>3. Allocated(s, size) = Split(p, o, g, k)
  BY DEF Allocated
<1> HIDE DEF g, k
<1>4. /\ o \in ListedIn(s, k) /\ Typed(p) /\ Lists(p)
      /\ \A i \in Logs : ListedIn(p, i) = ListedIn(s, i) \ {o}
      /\ p.marks = [s.marks EXCEPT ![o] = NoMark]
  BY <1>1, <1>2, Popped
<1>5. o \in Offsets /\ Aligned(o, k) = o
  BY <1>2, <1>4, BlockAligned
<1> HIDE DEF o, p
<1>6. Good(p, h)
  BY <1>2, <1>4, HandOut
<1>7. o \in DOMAIN h /\ h[o] = k
  BY DEF Taken
<1>8. Taken(h, o, g) = Taken(heap, o, g)
  BY DEF Taken
<1> HIDE DEF h
<1>9. ASSUME NEW i \in g..(k - 1) PROVE ListedIn(p, i) = {} /\ Buddy(o, i) \notin DOMAIN p.entries
  <2>1. i \in Logs /\ i # MaxLog2 /\ i < k
    BY <1>2, PieceIndex
  <2>2. ListedIn(s, i) = {}
    BY <1>1, <1>2, <2>1, ListedFinite DEF Lists
  <2>3. SUFFICES ASSUME Buddy(o, i) \in DOMAIN p.entries PROVE FALSE
    BY <1>4, <2>1, <2>2
  <2>4. PICK m \in Logs : Buddy(o, i) \in ListedIn(p, m)
    BY <1>4, <2>3, SizeIs
  <2>5. /\ Buddy(o, i) \in Offsets /\ Aligned(Buddy(o, i), i) = Buddy(o, i) /\ Buddy(o, i) # Aligned(o, i)
        /\ Aligned(Buddy(o, i), m) = Buddy(o, i) /\ Buddy(o, i) \in Blocks(p, h)[m]
    BY <1>5, <1>6, <2>1, <2>4, Buddies, BlockAligned
  <2>6. Aligned(Buddy(o, i), k) = o
    BY <1>2, <1>5, <2>1, <2>5, OtherHalf
  <2>7. o \in Blocks(p, h)[k]
    BY <1>6, <1>7, BlockAligned
  <2>8. m = k
    BY <1>2, <1>6, <2>5, <2>6, <2>7, OneBlock
  <2>9. Aligned(o, i) = o
    BY <1>2, <1>5, <2>1, BuddyOf
  <2> QED BY <2>5, <2>6, <2>8, <2>9
<1> DEFINE t == Split(p, o, g, k)
<1>10. /\ Typed(t) /\ Lists(t)
       /\ \A i \in Logs : ListedIn(t, i) = IF i \in g..(k - 1) THEN {Buddy(o, i)} ELSE ListedIn(p, i)
       /\ \A i \in g..(k - 1) : t.marks[Buddy(o, i)] = i
       /\ \A x \in Offsets : (\A i \in g..(k - 1) : x # Buddy(o, i)) => t.marks[x] = p.marks[x]
  <2>1. \A i \in g..(k - 1) : ListedIn(p, i) = {} /\ Buddy(o, i) \notin DOMAIN p.entries
    BY <1>9
  <2>2. Typed(p) /\ Lists(p) /\ o \in Offsets /\ k \in Logs /\ Aligned(o, k) = o /\ g \in Logs /\ g <= k
    BY <1>2, <1>4, <1>5
  <2>3. Typed(t) /\ Lists(t)
    BY ONLY <2>1, <2>2, SplitLists
  <2>4. \A i \in Logs : ListedIn(t, i) = IF i \in g..(k - 1) THEN {Buddy(o, i)} ELSE ListedIn(p, i)
    BY ONLY <2>1, <2>2, SplitLists
  <2>5. \A i \in g..(k - 1) : t.marks[Buddy(o, i)] = i
    BY ONLY <2>1, <2>2, SplitLists
  <2>6. \A x \in Offsets : (\A i \in g..(k - 1) : x # Buddy(o, i)) => t.marks[x] = p.marks[x]
    BY ONLY <2>1, <2>2, SplitLists
  <2> QED BY ONLY <2>3, <2>4, <2>5, <2>6
<1>11. Good(t, Taken(h, o, g))
  <2> HIDE DEF t
  <2>1. \A i \in Logs : ListedIn(t, i) = ListedIn(p, i) \cup (IF i \in g..(k - 1) THEN {Buddy(o, i)} ELSE {})
    BY <1>9, <1>10
  <2> QED BY <2>1, <1>2, <1>6, <1>7, <1>10, CutDown
<1> QED BY <1>3, <1>4, <1>8, <1>11 DEF g, k, o

\* Free joins until it meets a half that is not free.
LEMMA JoinedIs ==
  ASSUME NEW s, NEW offset, NEW log2 \in Logs
  PROVE  /\ JoinedSize(s, offset, log2) \in Logs /\ log2 <= JoinedSize(s, offset, log2)
         /\ JoinedSize(s, offset, log2) = MaxLog2 \/ ~OtherHalfFree(s, offset, JoinedSize(s, offset, log2))
         /\ \A j \in log2..(JoinedSize(s, offset, log2) - 1) : OtherHalfFree(s, offset, j)
<1> DEFINE Ends == {k \in log2..MaxLog2 : k = MaxLog2 \/ ~OtherHalfFree(s, offset, k)}
<1>1. log2 \in Nat /\ MaxLog2 \in Nat /\ log2 <= MaxLog2
  BY BuddyAssumption DEF Logs
<1>2. MaxLog2 \in Ends /\ Ends \subseteq Nat
  BY <1>1
<1>3. PICK k \in Ends : \A j \in Ends : k <= j
  <2> HIDE DEF Ends
  <2> QED BY <1>2, LeastOf
<1>4. /\ k \in log2..MaxLog2
      /\ k = MaxLog2 \/ ~OtherHalfFree(s, offset, k)
      /\ \A j \in log2..(k - 1) : OtherHalfFree(s, offset, j)
  BY <1>1, <1>3
<1>5. /\ JoinedSize(s, offset, log2) \in log2..MaxLog2
      /\ JoinedSize(s, offset, log2) = MaxLog2 \/ ~OtherHalfFree(s, offset, JoinedSize(s, offset, log2))
      /\ \A j \in log2..(JoinedSize(s, offset, log2) - 1) : OtherHalfFree(s, offset, j)
  BY <1>4 DEF JoinedSize
<1> QED BY <1>1, <1>5 DEF Logs

\* Unlinking the halves and linking what they make.
LEMMA JoinedLists ==
  ASSUME NEW s, Typed(s), Lists(s), NEW p \in Offsets, NEW log2 \in Logs, NEW k \in Logs, log2 <= k,
         JoinedSize(s, p, log2) = k,
         \A j \in log2..(k - 1) : Buddy(p, j) \in ListedIn(s, j),
         \A i \in Logs : Aligned(p, k) \in ListedIn(s, i) => i \in log2..(k - 1) /\ Aligned(p, k) = Buddy(p, i)
  PROVE  /\ Typed(Freed(s, p, log2)) /\ Lists(Freed(s, p, log2))
         /\ \A i \in Logs : ListedIn(Freed(s, p, log2), i) =
              (ListedIn(s, i) \ (IF i \in log2..(k - 1) THEN {Buddy(p, i)} ELSE {}))
                \cup (IF i = k THEN {Aligned(p, k)} ELSE {})
         /\ Freed(s, p, log2).marks = [s.marks EXCEPT ![Aligned(p, k)] = k]
<1> DEFINE gone == {Buddy(p, j) : j \in log2..(k - 1)}
           a == Aligned(p, k)
           u == Unlinked(s, gone)
           t == Linked(u, a, k)
<1>1. Freed(s, p, log2) = t
  BY DEF Freed
<1>2. \A j \in log2..(k - 1) : /\ j \in Logs /\ Buddy(p, j) \in DOMAIN s.entries
                               /\ s.entries[Buddy(p, j)].log2_block_size = j
  BY PieceIndex DEF ListedIn
<1>3. OnePerSize(s, gone)
  BY <1>2 DEF OnePerSize
<1>4. \A i \in Logs : ListedIn(s, i) \ gone = ListedIn(s, i) \ (IF i \in log2..(k - 1) THEN {Buddy(p, i)} ELSE {})
  BY <1>2 DEF ListedIn
<1>5. a \in Offsets
  BY AlignedIs
<1> HIDE DEF gone
<1>6. /\ Typed(u) /\ Lists(u) /\ u.marks = s.marks
      /\ \A i \in Logs : ListedIn(u, i) = ListedIn(s, i) \ gone
  BY <1>3, UnlinkedLists, UnlinkedFields
<1> HIDE DEF a, u
<1>7. a \notin DOMAIN u.entries
  <2>1. SUFFICES ASSUME a \in DOMAIN u.entries PROVE FALSE
    OBVIOUS
  <2>2. PICK i \in Logs : a \in ListedIn(u, i)
    BY <1>6, <2>1, SizeIs
  <2>3. a \in ListedIn(s, i) /\ a \notin gone
    BY <1>6, <2>2
  <2> QED BY <2>3 DEF gone, a
<1>8. /\ Typed(t) /\ Lists(t)
      /\ \A i \in Logs : ListedIn(t, i) = IF i = k THEN ListedIn(u, i) \cup {a} ELSE ListedIn(u, i)
      /\ t.marks = [u.marks EXCEPT ![a] = k]
  BY <1>5, <1>6, <1>7, LinkedLists
<1> HIDE DEF t
<1>9. \A i \in Logs : ListedIn(t, i) =
        (ListedIn(s, i) \ (IF i \in log2..(k - 1) THEN {Buddy(p, i)} ELSE {})) \cup (IF i = k THEN {a} ELSE {})
  BY <1>4, <1>6, <1>8
<1> QED BY <1>1, <1>6, <1>8, <1>9 DEF a

\* Free keeps the heap together.
LEMMA FreedGood ==
  ASSUME NEW s, NEW heap, Good(s, heap), NEW p \in DOMAIN heap
  PROVE  Good(Freed(s, p, heap[p]), GivenBack(heap, p))
<1> DEFINE log2 == heap[p]
           k == JoinedSize(s, p, log2)
           a == Aligned(p, k)
           t == Freed(s, p, log2)
<1>1. Typed(s) /\ Lists(s) /\ HeapTyped(heap) /\ Apart(s, heap) /\ Partition(Blocks(s, heap))
  BY DEF Good
<1>2. p \in Offsets /\ log2 \in Logs /\ p \in Blocks(s, heap)[log2]
  BY BlockAligned
<1>3. /\ k \in Logs /\ log2 <= k
      /\ k = MaxLog2 \/ ~OtherHalfFree(s, p, k)
      /\ \A j \in log2..(k - 1) : OtherHalfFree(s, p, j)
  BY <1>2, JoinedIs
<1> HIDE DEF k
<1>4. \A j \in log2..(k - 1) : Buddy(p, j) \in ListedIn(s, j)
  BY <1>2, <1>3, PieceIndex, MarkTells
<1>5. k # MaxLog2 => Buddy(p, k) \notin ListedIn(s, k)
  BY <1>2, <1>3, MarkTells
<1>6. ASSUME NEW i \in Logs, a \in ListedIn(s, i) PROVE i \in log2..(k - 1) /\ a = Buddy(p, i)
  <2>1. a \in Offsets /\ Aligned(a, i) = a /\ a \in Blocks(s, heap)[i]
    BY <1>6, BlockAligned
  <2>2. Aligned(a, k) = Aligned(p, k)
    <3>1. k <= k
      BY <1>3, Powers
    <3> QED BY <3>1, <1>2, <1>3, AlignedTwice
  <2>3. \A j \in log2..(k - 1) : Buddy(p, j) \in Blocks(s, heap)[j]
    BY <1>1, <1>2, <1>3, <1>4, PieceIndex, BlocksAre
  <2>4. \/ i = log2 /\ Aligned(a, i) = p
        \/ i \in log2..(k - 1) /\ Aligned(a, i) = Buddy(p, i)
    <3> HIDE DEF a, log2
    <3> QED BY <1>1, <1>2, <1>3, <2>1, <2>2, <2>3, PartOfJoined
  <2>5. a \notin DOMAIN heap
    BY <1>1, <1>6 DEF Apart
  <2> QED BY <2>1, <2>4, <2>5
<1>7. /\ Typed(t) /\ Lists(t)
      /\ \A i \in Logs : ListedIn(t, i) =
           (ListedIn(s, i) \ (IF i \in log2..(k - 1) THEN {Buddy(p, i)} ELSE {}))
             \cup (IF i = k THEN {Aligned(p, k)} ELSE {})
      /\ t.marks = [s.marks EXCEPT ![Aligned(p, k)] = k]
  <2>1. JoinedSize(s, p, log2) = k
    BY DEF k
  <2>2. \A i \in Logs : Aligned(p, k) \in ListedIn(s, i) => i \in log2..(k - 1) /\ Aligned(p, k) = Buddy(p, i)
    BY <1>6
  <2> HIDE DEF log2
  <2> QED BY <2>1, <2>2, <1>1, <1>2, <1>3, <1>4, JoinedLists
<1> HIDE DEF t
<1>8. Good(t, GivenBack(heap, p))
  BY <1>3, <1>4, <1>5, <1>7, GiveBack
<1> QED BY <1>8 DEF t

\* The states Shrink passes through: f[k] is that before the block of 2^k units
\* is freed.
Passes(f, s, offset, new, k) ==
  /\ DOMAIN f = new..k
  /\ f[new] = s
  /\ \A i \in (new + 1)..k : f[i] = Freed(f[i - 1], offset + 2 ^ (i - 1), i - 1)

LEMMA PassesExist ==
  ASSUME NEW s, NEW offset, NEW new \in Nat, NEW old \in Nat, new <= old
  PROVE  \E f : Passes(f, s, offset, new, old)
<1> DEFINE Missing == {k \in new..old : ~ \E f : Passes(f, s, offset, new, k)}
<1>1. SUFFICES ASSUME Missing # {} PROVE FALSE
  OBVIOUS
<1>2. Missing \subseteq Nat
  OBVIOUS
<1>3. PICK k \in Missing : \A j \in Missing : k <= j
  <2> HIDE DEF Missing
  <2> QED BY <1>1, <1>2, LeastOf
<1>4. k # new
  <2>1. Passes([i \in new..new |-> s], s, offset, new, new)
    BY DEF Passes
  <2> QED BY <2>1, <1>3
<1>5. k - 1 \in new..old /\ k - 1 \notin Missing
  BY <1>3, <1>4
<1>6. PICK f : Passes(f, s, offset, new, k - 1)
  BY <1>5
<1> DEFINE last == Freed(f[k - 1], offset + 2 ^ (k - 1), k - 1)
           g == [i \in new..k |-> IF i = k THEN last ELSE f[i]]
<1>7. DOMAIN g = new..k /\ g[new] = s
  BY <1>3, <1>4, <1>6 DEF Passes
<1>8. ASSUME NEW i \in (new + 1)..k PROVE g[i] = Freed(g[i - 1], offset + 2 ^ (i - 1), i - 1)
  <2>1. i \in new..k /\ i - 1 \in new..k /\ i - 1 # k
    BY <1>3
  <2>2. g[i - 1] = f[i - 1] /\ g[i] = IF i = k THEN last ELSE f[i]
    BY <2>1
  <2>3. CASE i = k
    BY <2>2, <2>3
  <2>4. CASE i # k
    <3>1. i \in (new + 1)..(k - 1)
      BY <2>4, <1>3
    <3> QED BY <2>2, <2>4, <3>1, <1>6 DEF Passes
  <2> QED BY <2>3, <2>4
<1>9. Passes(g, s, offset, new, k)
  <2> HIDE DEF g
  <2> QED BY <1>7, <1>8 DEF Passes
<1> QED BY <1>3, <1>9

\* Shrink passes through such states.
LEMMA ShrunkIs ==
  ASSUME NEW s, NEW offset, NEW new \in Nat, NEW old \in Nat, new <= old
  PROVE  \E f : Passes(f, s, offset, new, old) /\ Shrunk(s, offset, new, old) = f[old]
<1> DEFINE Step(f, k) == IF k = new THEN s ELSE Freed(f[k - 1], offset + 2 ^ (k - 1), k - 1)
           f == CHOOSE g : g = [k \in new..old |-> Step(g, k)]
<1>1. Shrunk(s, offset, new, old) = f[old]
  BY DEF Shrunk
<1>2. PICK h : Passes(h, s, offset, new, old)
  BY PassesExist
<1> DEFINE Through(g) == g = [k \in new..old |-> Step(g, k)]
           all == [k \in new..old |-> h[k]]
<1>3. ASSUME NEW k \in new..old PROVE h[k] = Step(all, k)
  <2>1. CASE k = new
    BY <2>1, <1>2 DEF Passes
  <2>2. CASE k # new
    <3>1. k \in (new + 1)..old /\ k - 1 \in new..old
      BY <2>2
    <3>2. all[k - 1] = h[k - 1]
      BY <3>1
    <3> QED BY <2>2, <3>1, <3>2, <1>2 DEF Passes
  <2> QED BY <2>1, <2>2
<1>4. Through(all)
  <2> HIDE DEF Step
  <2>1. \A k \in new..old : h[k] = Step(all, k)
    BY <1>3
  <2>2. [k \in new..old |-> h[k]] = [k \in new..old |-> Step(all, k)]
    BY <2>1
  <2> QED BY <2>2
<1>5. Through(f)
  <2>1. \E g : Through(g)
    BY <1>4
  <2>2. f = CHOOSE g : Through(g)
    OBVIOUS
  <2> HIDE DEF Through, f
  <2> QED BY <2>1, <2>2
<1>6. DOMAIN f = new..old /\ \A k \in new..old : f[k] = Step(f, k)
  <2> DEFINE by == [k \in new..old |-> Step(f, k)]
  <2>1. f = by
    BY <1>5
  <2>2. DOMAIN by = new..old /\ \A k \in new..old : by[k] = Step(f, k)
    <3> HIDE DEF Step, f
    <3> QED OBVIOUS
  <2> HIDE DEF by, f, Step
  <2> QED BY <2>1, <2>2
<1>7. Passes(f, s, offset, new, old)
  <2> HIDE DEF f
  <2>1. new \in new..old /\ \A k \in (new + 1)..old : k \in new..old /\ k # new
    OBVIOUS
  <2> QED BY <2>1, <1>6 DEF Passes
<1> QED BY <1>1, <1>7

\* What Shrink has freed before the block of 2^m units: one of each size below.
CutUpTo(t, s, p, new, m) ==
  /\ Typed(t) /\ Lists(t)
  /\ \A i \in Logs : ListedIn(t, i) = ListedIn(s, i) \cup (IF i \in new..(m - 1) THEN {Buddy(p, i)} ELSE {})
  /\ \A i \in new..(m - 1) : t.marks[Buddy(p, i)] = i
  /\ \A x \in Offsets : (\A i \in new..(m - 1) : x # Buddy(p, i)) => t.marks[x] = s.marks[x]

\* Its other half is the part that stays in use: it is joined to nothing.
LEMMA CutOff ==
  ASSUME NEW s, NEW heap, Good(s, heap), NEW p \in DOMAIN heap, NEW new \in Logs,
         NEW m \in new..(heap[p] - 1), NEW t, CutUpTo(t, s, p, new, m)
  PROVE  CutUpTo(Freed(t, p + 2 ^ m, m), s, p, new, m + 1)
<1> DEFINE old == heap[p]
           b == p + 2 ^ m
           u == Freed(t, b, m)
<1>1. p \in Offsets /\ old \in Logs /\ Aligned(p, old) = p /\ p \in Blocks(s, heap)[old] /\ s.marks[p] = NoMark
  BY BlockAligned DEF Good, Marked
<1>2. m \in Logs /\ m # MaxLog2 /\ m \in Nat /\ new <= m /\ m < old /\ new \in Nat /\ old \in Nat
  BY <1>1, PieceIndex
<1>3. b = Buddy(p, m) /\ Aligned(p, m) = p
  BY <1>1, <1>2, BuddyOf
<1> HIDE DEF b, old
<1>4. b \in Offsets /\ Aligned(b, m) = b /\ Buddy(b, m) = p /\ b # p
  BY <1>1, <1>2, <1>3, Buddies
<1>5. /\ Typed(t) /\ Lists(t)
      /\ \A i \in Logs : ListedIn(t, i) = ListedIn(s, i) \cup (IF i \in new..(m - 1) THEN {Buddy(p, i)} ELSE {})
      /\ \A i \in new..(m - 1) : t.marks[Buddy(p, i)] = i
      /\ \A x \in Offsets : (\A i \in new..(m - 1) : x # Buddy(p, i)) => t.marks[x] = s.marks[x]
  BY DEF CutUpTo
<1>6. \A i \in new..(m - 1) : i \in Logs /\ i # MaxLog2 /\ i < m /\ i < old
  BY <1>2, PieceIndex
<1>7. \A i \in new..(m - 1) : Buddy(p, i) # p /\ Buddy(p, i) # b
  <2>1. \A i \in new..(m - 1) : Aligned(p, i) = p
    BY <1>1, <1>6, BuddyOf
  <2> QED BY <2>1, <1>1, <1>2, <1>3, <1>6, Buddies, BuddiesDiffer
<1>8. JoinedSize(t, b, m) = m
  <2>1. t.marks[p] = NoMark
    BY <1>1, <1>5, <1>7
  <2>2. ~ OtherHalfFree(t, b, m)
    BY <2>1, <1>2, <1>4 DEF OtherHalfFree, NoMark
  <2>3. /\ JoinedSize(t, b, m) \in Nat /\ m <= JoinedSize(t, b, m)
        /\ \A j \in m..(JoinedSize(t, b, m) - 1) : OtherHalfFree(t, b, j)
    BY <1>2, JoinedIs, Powers
  <2> QED BY <2>2, <2>3, <1>2
<1>9. \A i \in Logs : b \notin ListedIn(t, i)
  <2>1. SUFFICES ASSUME NEW i \in Logs, b \in ListedIn(t, i) PROVE FALSE
    OBVIOUS
  <2>2. b \in ListedIn(s, i)
    BY <2>1, <1>5, <1>7
  <2>3. Aligned(b, i) = b /\ b \in Blocks(s, heap)[i]
    BY <2>2, BlockAligned
  <2>4. Aligned(b, old) = p
    BY <1>1, <1>2, <1>3, <1>4, OtherHalf
  <2>5. i = old
    BY <2>3, <2>4, <1>1, <1>4, OneBlock
  <2> QED BY <2>3, <2>4, <2>5, <1>4
<1>10. /\ Typed(u) /\ Lists(u)
       /\ \A i \in Logs : ListedIn(u, i) = ListedIn(t, i) \cup (IF i = m THEN {b} ELSE {})
       /\ u.marks = [t.marks EXCEPT ![b] = m]
  <2>1. \A i \in m..(m - 1) : FALSE
    BY <1>2
  <2>2. /\ \A j \in m..(m - 1) : Buddy(b, j) \in ListedIn(t, j)
        /\ \A i \in Logs : Aligned(b, m) \in ListedIn(t, i) => i \in m..(m - 1) /\ Aligned(b, m) = Buddy(b, i)
    BY <2>1, <1>4, <1>9
  <2>3. m <= m
    BY <1>2
  <2>4. /\ Typed(u) /\ Lists(u)
        /\ \A i \in Logs : ListedIn(u, i) =
             (ListedIn(t, i) \ (IF i \in m..(m - 1) THEN {Buddy(b, i)} ELSE {}))
               \cup (IF i = m THEN {Aligned(b, m)} ELSE {})
        /\ u.marks = [t.marks EXCEPT ![Aligned(b, m)] = m]
    BY <2>2, <2>3, <1>2, <1>4, <1>5, <1>8, JoinedLists
  <2> QED BY <2>1, <2>4, <1>4
<1> HIDE DEF u
<1>11. \A i : i \in new..((m + 1) - 1) <=> i \in new..(m - 1) \/ i = m
  BY <1>2
<1>12. \A x \in Offsets : u.marks[x] = IF x = b THEN m ELSE t.marks[x]
  BY <1>5, <1>10, TypedFields
<1>13. CutUpTo(u, s, p, new, m + 1)
  <2>1. \A i \in Logs : ListedIn(u, i) =
          ListedIn(s, i) \cup (IF i \in new..((m + 1) - 1) THEN {Buddy(p, i)} ELSE {})
    BY <1>3, <1>5, <1>10, <1>11, <1>6, <1>2
  <2>2. ASSUME NEW i \in new..((m + 1) - 1) PROVE u.marks[Buddy(p, i)] = i
    <3>1. CASE i = m
      BY <3>1, <1>3, <1>4, <1>12
    <3>2. CASE i # m
      <4>1. i \in new..(m - 1)
        BY <3>2, <1>11
      <4>2. Buddy(p, i) \in Offsets
        BY <4>1, <1>1, <1>6, Buddies
      <4> QED BY <4>1, <4>2, <1>5, <1>7, <1>12
    <3> QED BY <3>1, <3>2
  <2>3. ASSUME NEW x \in Offsets, \A i \in new..((m + 1) - 1) : x # Buddy(p, i) PROVE u.marks[x] = s.marks[x]
    BY <2>3, <1>3, <1>5, <1>11, <1>12
  <2> QED BY <2>1, <2>2, <2>3, <1>10 DEF CutUpTo
<1> QED BY <1>13 DEF u, b

\* Shrink keeps the heap together.
LEMMA ShrunkGood ==
  ASSUME NEW s, NEW heap, Good(s, heap), NEW p \in DOMAIN heap, NEW new \in Logs, new <= heap[p]
  PROVE  Good(Shrunk(s, p, new, heap[p]), Taken(heap, p, new))
<1> DEFINE old == heap[p]
<1>1. old \in Logs /\ old \in Nat /\ new \in Nat
  BY BlockAligned, Powers
<1>2. PICK f : Passes(f, s, p, new, old) /\ Shrunk(s, p, new, old) = f[old]
  BY <1>1, ShrunkIs
<1> DEFINE Wrong == {k \in new..old : ~ CutUpTo(f[k], s, p, new, k)}
<1>3. Wrong = {}
  <2>1. SUFFICES ASSUME Wrong # {} PROVE FALSE
    OBVIOUS
  <2>2. Wrong \subseteq Nat
    BY <1>1
  <2>3. PICK k \in Wrong : \A j \in Wrong : k <= j
    <3> HIDE DEF Wrong
    <3> QED BY <2>1, <2>2, LeastOf
  <2>4. k # new
    <3>1. \A i \in new..(new - 1) : FALSE
      BY <1>1
    <3>2. CutUpTo(s, s, p, new, new)
      BY <3>1 DEF CutUpTo, Good
    <3> QED BY <2>3, <3>2, <1>2 DEF Passes
  <2>5. k - 1 \in new..old /\ k - 1 \in new..(old - 1) /\ k \in (new + 1)..old /\ k - 1 \notin Wrong /\ (k - 1) + 1 = k
    BY <2>3, <2>4, <1>1
  <2>6. CutUpTo(f[k - 1], s, p, new, k - 1)
    BY <2>5
  <2>7. f[k] = Freed(f[k - 1], p + 2 ^ (k - 1), k - 1)
    BY <2>5, <1>2 DEF Passes
  <2>8. CutUpTo(Freed(f[k - 1], p + 2 ^ (k - 1), k - 1), s, p, new, (k - 1) + 1)
    BY <2>5, <2>6, CutOff
  <2> QED BY <2>3, <2>5, <2>7, <2>8
<1>4. old \in new..old
  BY <1>1
<1> DEFINE t == f[old]
<1>5. CutUpTo(t, s, p, new, old)
  BY <1>3, <1>4
<1> HIDE DEF t
<1>6. Good(t, Taken(heap, p, new))
  BY <1>5, CutDown DEF CutUpTo
<1> QED BY <1>2, <1>6 DEF t
-----------------------------------------------------------------------------
\* Init and starting over.

\* Init: the largest blocks in a row.
Starts == {o \in Offsets : o % 2 ^ MaxLog2 = 0}

LEMMA StartsAre ==
  /\ Units \in Nat \ {0} /\ 2 ^ MaxLog2 \in Nat \ {0} /\ MaxLog2 \in Logs
  /\ 0 \in Starts /\ Units - 2 ^ MaxLog2 \in Starts
  /\ \A o \in Starts : /\ o \in Offsets /\ o \in Nat /\ o + 2 ^ MaxLog2 <= Units
                       /\ o + 2 ^ MaxLog2 < Units => o + 2 ^ MaxLog2 \in Starts
                       /\ o # 0 => o >= 2 ^ MaxLog2 /\ o - 2 ^ MaxLog2 \in Starts
<1> DEFINE q == 2 ^ MaxLog2
<1>1. MaxLog2 \in Logs /\ q \in Nat \ {0} /\ q <= Units /\ Units \in Nat /\ Units % q = 0 /\ Units # 0
  <2>1. MaxLog2 \in Logs
    BY BuddyAssumption DEF Logs
  <2>2. q \in Nat \ {0} /\ Units % q = 0 /\ q <= Units /\ Units \in Nat
    BY <2>1, Powers, UnitsMultiple, BuddyAssumption
  <2> QED BY <2>1, <2>2
<1> HIDE DEF q
<1>2. Starts = {o \in Offsets : o % q = 0}
  BY DEF Starts, q
<1>3. 0 % q = 0
  BY <1>1
<1>4. (Units - q) % q = 0
  BY <1>1, TwiceMultiple
<1>5. 0 \in Starts /\ Units - q \in Starts
  BY <1>1, <1>2, <1>3, <1>4 DEF Offsets
<1>6. ASSUME NEW o \in Starts
      PROVE  /\ o \in Offsets /\ o \in Nat /\ o + q <= Units
             /\ o + q < Units => o + q \in Starts
             /\ o # 0 => o >= q /\ o - q \in Starts
  <2>1. o \in Offsets /\ o \in Nat /\ o < Units /\ o % q = 0
    BY <1>1, <1>2 DEF Offsets
  <2>2. o + q <= Units
    BY <2>1, <1>1, MultiplesApart
  <2>3. (o + q) % q = 0 /\ (o >= q => (o - q) % q = 0) /\ (o # 0 => o >= q)
    BY <2>1, <1>1, TwiceMultiple
  <2> QED BY <2>1, <2>2, <2>3, <1>1, <1>2 DEF Offsets
<1> QED BY <1>1, <1>5, <1>6 DEF q

\* Init links them in a row, the last to the first.
LEMMA RingOfStarts ==
  ASSUME NEW links,
         \A o \in Starts :
           /\ links[o].next = (o + 2 ^ MaxLog2) % Units
           /\ links[o].prev = (o + Units - 2 ^ MaxLog2) % Units
  PROVE  /\ Ring(Starts, links)
         /\ \A o \in Starts : links[o].next \in Starts /\ links[o].prev \in Starts
<1> DEFINE q == 2 ^ MaxLog2
<1>1. /\ Units \in Nat \ {0} /\ q \in Nat \ {0} /\ 0 \in Starts /\ Units - q \in Starts
      /\ \A o \in Starts : /\ o \in Nat /\ o + q <= Units
                           /\ o + q < Units => o + q \in Starts
                           /\ o # 0 => o >= q /\ o - q \in Starts
  BY StartsAre
<1>2. \A o \in Starts : links[o].next = (o + q) % Units /\ links[o].prev = (o + Units - q) % Units
  OBVIOUS
<1> HIDE DEF q
<1>3. ASSUME NEW n \in Nat, n < Units PROVE n % Units = n /\ (n + Units) % Units = n
  <2>1. n \in 0..(Units - 1) /\ Units * 0 + n = n /\ Units * 1 + n = n + Units
    BY <1>1, <1>3
  <2>2. (Units * 0 + n) % Units = n /\ (Units * 1 + n) % Units = n
    BY <1>1, <2>1, Remainder
  <2> QED BY <2>1, <2>2
<1>4. Units % Units = 0
  BY <1>1, <1>3
<1>5. ASSUME NEW o \in Starts
      PROVE  /\ links[o].next = IF o + q = Units THEN 0 ELSE o + q
             /\ links[o].prev = IF o = 0 THEN Units - q ELSE o - q
  <2>1. CASE o + q = Units
    <3>1. links[o].next = 0
      BY <2>1, <1>2, <1>4
    <3>2. o # 0 => o + Units - q = (o - q) + Units /\ o - q \in Nat /\ o - q < Units
      BY <1>1
    <3>3. o = 0 => o + Units - q = Units - q /\ Units - q \in Nat /\ Units - q < Units
      BY <1>1
    <3> QED BY <2>1, <3>1, <3>2, <3>3, <1>2, <1>3
  <2>2. CASE o + q # Units
    <3>1. o + q \in Nat /\ o + q < Units
      BY <2>2, <1>1
    <3>2. o # 0 => o + Units - q = (o - q) + Units /\ o - q \in Nat /\ o - q < Units
      BY <1>1
    <3>3. o = 0 => o + Units - q = Units - q /\ Units - q \in Nat /\ Units - q < Units
      BY <1>1
    <3> QED BY <2>2, <3>1, <3>2, <3>3, <1>2, <1>3
  <2> QED BY <2>1, <2>2
<1>6. ASSUME NEW o \in Starts
      PROVE  /\ links[o].next \in Starts /\ links[links[o].next].prev = o
             /\ links[o].prev \in Starts /\ links[links[o].prev].next = o
  <2>1. links[o].next \in Starts /\ links[o].prev \in Starts
    <3>1. o + q # Units => o + q < Units
      BY <1>1
    <3>2. links[o].next \in Starts
      BY <3>1, <1>1, <1>5
    <3>3. links[o].prev \in Starts
      BY <1>1, <1>5
    <3> QED BY <3>2, <3>3
  <2>2. links[links[o].next].prev = o
    <3>1. CASE o + q = Units
      BY <3>1, <1>1, <1>5
    <3>2. CASE o + q # Units
      BY <3>2, <1>1, <1>5
    <3> QED BY <3>1, <3>2
  <2>3. links[links[o].prev].next = o
    <3>1. CASE o = 0
      BY <3>1, <1>1, <1>5
    <3>2. CASE o # 0
      BY <3>2, <1>1, <1>5
    <3> QED BY <3>1, <3>2
  <2> QED BY <2>1, <2>2, <2>3
<1>7. ASSUME NEW part \in (SUBSET Starts) \ {{}}, \A o \in part : links[o].next \in part
      PROVE  part = Starts
\* Its last one leads to the first.
  <2>1. 0 \in part
    <3> DEFINE Behind == {Units - o : o \in part}
    <3>1. Behind \subseteq Nat /\ Behind # {}
      BY <1>1
    <3>2. PICK n \in Behind : \A m \in Behind : n <= m
      <4> HIDE DEF Behind
      <4> QED BY <3>1, LeastOf
    <3>3. PICK o \in part : n = Units - o
      BY <3>2
    <3>4. \A x \in part : x <= o
      <4>1. \A x \in part : n <= Units - x
        BY <3>2
      <4>2. \A x \in part : x \in Nat
        BY <1>1, <1>7
      <4> QED BY <4>1, <4>2, <3>3, <1>1
    <3>5. o + q = Units
      BY <3>3, <3>4, <1>1, <1>5, <1>7
    <3> QED BY <3>3, <3>5, <1>5, <1>7
  <2> DEFINE Missing == Starts \ part
  <2>2. SUFFICES ASSUME Missing # {} PROVE FALSE
    OBVIOUS
  <2>3. PICK n \in Missing : \A m \in Missing : n <= m
    <3>1. Missing \subseteq Nat
      BY <1>1
    <3> HIDE DEF Missing
    <3> QED BY <2>2, <3>1, LeastOf
  <2>4. n # 0 /\ n \in Starts /\ n - q \in Starts /\ n \in Nat /\ n < Units /\ ~(n <= n - q)
    BY <2>1, <2>3, <1>1
  <2>5. n - q \in part
    BY <2>3, <2>4
  <2>6. links[n - q].next = n
    BY <2>4, <1>1, <1>5
  <2> QED BY <2>3, <2>5, <2>6, <1>7
<1> QED BY <1>6, <1>7 DEF Ring

\* What may lie in a block a heap is set up in.
MarksAligned(old) ==
  old \in [Offsets -> Logs \cup {NoMark}] /\ \A x \in Offsets : old[x] # NoMark => Aligned(x, old[x]) = x

NothingHeld == [o \in {} |-> 0]

LEMMA FreshFields ==
  ASSUME NEW old
  PROVE  /\ \E a, b, c : Fresh(old) = [free_list |-> a, entries |-> b, marks |-> c]
         /\ Fresh(old).free_list =
              [k \in Logs |-> [count |-> IF k = MaxLog2 THEN Cardinality(Starts) ELSE 0, head |-> 0]]
         /\ Fresh(old).entries =
              [o \in Starts |-> Entry((o + 2 ^ MaxLog2) % Units, (o + Units - 2 ^ MaxLog2) % Units, MaxLog2)]
         /\ Fresh(old).marks =
              [o \in Offsets |-> IF o < HeadersUnits \/ old[o] = NoMark THEN NoMark
                                 ELSE IF o \in Starts THEN MaxLog2 ELSE old[o]]
BY DEF Fresh, Starts

LEMMA FreshTyped ==
  ASSUME NEW old, MarksAligned(old)
  PROVE  /\ Typed(Fresh(old))
         /\ \A k \in Logs : ListedIn(Fresh(old), k) = IF k = MaxLog2 THEN Starts ELSE {}
         /\ Cardinality(Starts) \in Nat \ {0}
         /\ \A k \in Logs : Fresh(old).free_list[k].count = Cardinality(ListedIn(Fresh(old), k))
                            /\ Fresh(old).free_list[k].head = 0
<1> DEFINE f == Fresh(old)
<1>1. Starts \subseteq Offsets /\ IsFiniteSet(Starts) /\ Cardinality(Starts) \in Nat \ {0}
  <2>1. Starts \subseteq Offsets /\ IsFiniteSet(Offsets) /\ 0 \in Starts
    <3>1. IsFiniteSet(0..(Units - 1))
      BY StartsAre, FS_Interval
    <3> QED BY <3>1, StartsAre DEF Starts, Offsets
  <2>2. IsFiniteSet(Starts)
    BY <2>1, FS_Subset
  <2> QED BY <2>1, <2>2, FS_CardinalityType, FS_EmptySet
<1>2. \A o \in Starts : /\ f.entries[o].next = (o + 2 ^ MaxLog2) % Units
                        /\ f.entries[o].prev = (o + Units - 2 ^ MaxLog2) % Units
                        /\ f.entries[o] \in [next : Int, prev : Int, log2_block_size : {MaxLog2}]
  <2>1. \A o \in Starts : f.entries[o] = Entry((o + 2 ^ MaxLog2) % Units, (o + Units - 2 ^ MaxLog2) % Units, MaxLog2)
    BY FreshFields
  <2>2. \A a, b : Entry(a, b, MaxLog2).next = a /\ Entry(a, b, MaxLog2).prev = b
                  /\ (a \in Int /\ b \in Int =>
                          Entry(a, b, MaxLog2) \in [next : Int, prev : Int, log2_block_size : {MaxLog2}])
    BY DEF Entry
  <2>3. \A o \in Starts : (o + 2 ^ MaxLog2) % Units \in Int /\ (o + Units - 2 ^ MaxLog2) % Units \in Int
    BY StartsAre
  <2> QED BY <2>1, <2>2, <2>3
<1>3. \A o \in Starts : f.entries[o].next \in Starts /\ f.entries[o].prev \in Starts
  BY <1>2, RingOfStarts
<1>4. DOMAIN f.entries = Starts
  BY FreshFields
<1>5. f.entries \in [DOMAIN f.entries -> [next : Offsets, prev : Offsets, log2_block_size : Logs]]
  <2>1. \A o \in Starts : f.entries[o] \in [next : Offsets, prev : Offsets, log2_block_size : Logs]
    BY <1>1, <1>2, <1>3, StartsAre
  <2> QED BY <2>1, <1>4, FreshFields
<1>6. /\ f.free_list \in [Logs -> [count : Nat, head : Offsets]]
      /\ \A k \in Logs : /\ f.free_list[k].count = IF k = MaxLog2 THEN Cardinality(Starts) ELSE 0
                         /\ f.free_list[k].head = 0
  <2> DEFINE n == Cardinality(Starts)
             lists == [k \in Logs |-> [count |-> IF k = MaxLog2 THEN n ELSE 0, head |-> 0]]
  <2>1. f.free_list = lists
    BY FreshFields
  <2>2. n \in Nat /\ 0 \in Offsets
    BY <1>1, StartsAre
  <2> HIDE DEF n, f
  <2>3. /\ lists \in [Logs -> [count : Nat, head : Offsets]]
        /\ \A k \in Logs : lists[k].count = (IF k = MaxLog2 THEN n ELSE 0) /\ lists[k].head = 0
    BY <2>2
  <2> HIDE DEF lists
  <2> QED BY <2>1, <2>3 DEF n
<1>7. f.marks \in [Offsets -> Logs \cup {NoMark}]
  <2>1. old \in [Offsets -> Logs \cup {NoMark}] /\ MaxLog2 \in Logs
    BY StartsAre DEF MarksAligned
  <2>2. f.marks = [o \in Offsets |-> IF o < HeadersUnits \/ old[o] = NoMark THEN NoMark
                                    ELSE IF o \in Starts THEN MaxLog2 ELSE old[o]]
    BY FreshFields
  <2> HIDE DEF f
  <2> QED BY <2>1, <2>2
<1>8. Typed(f)
  BY <1>1, <1>4, <1>5, <1>6, <1>7, FreshFields, TypedFields
<1>9. \A k \in Logs : ListedIn(f, k) = IF k = MaxLog2 THEN Starts ELSE {}
  BY <1>2, <1>4 DEF ListedIn
<1>10. \A k \in Logs : f.free_list[k].count = Cardinality(ListedIn(f, k)) /\ f.free_list[k].head = 0
  <2>1. Cardinality({}) = 0
    BY FS_EmptySet
  <2> HIDE DEF f
  <2> QED BY <2>1, <1>6, <1>9
<1> QED BY <1>1, <1>8, <1>9, <1>10

\* The heap before the headers are allocated, whatever marks lie in the block.
LEMMA FreshGood ==
  ASSUME NEW old, MarksAligned(old)
  PROVE  Good(Fresh(old), NothingHeld)
<1> DEFINE f == Fresh(old)
<1>1. /\ Typed(f) /\ \A k \in Logs : ListedIn(f, k) = IF k = MaxLog2 THEN Starts ELSE {}
      /\ \A k \in Logs : f.free_list[k].count = Cardinality(ListedIn(f, k)) /\ f.free_list[k].head = 0
  BY FreshTyped
<1>2. MaxLog2 \in Logs /\ 0 \in Starts
  BY StartsAre
<1>3. HeapTyped(NothingHeld) /\ DOMAIN NothingHeld = {}
  BY DEF HeapTyped, NothingHeld
<1>4. \A o \in Offsets : o \in Starts <=> Aligned(o, MaxLog2) = o
  BY <1>2, AlignedSelf DEF Starts
<1>5. Ring(Starts, f.entries)
  <2>1. \A o \in Starts : /\ f.entries[o].next = (o + 2 ^ MaxLog2) % Units
                          /\ f.entries[o].prev = (o + Units - 2 ^ MaxLog2) % Units
    <3>1. f.entries = [o \in Starts |-> Entry((o + 2 ^ MaxLog2) % Units, (o + Units - 2 ^ MaxLog2) % Units, MaxLog2)]
      BY FreshFields
    <3>2. \A a, b : Entry(a, b, MaxLog2).next = a /\ Entry(a, b, MaxLog2).prev = b
      BY DEF Entry
    <3> HIDE DEF f
    <3> QED BY <3>1, <3>2
  <2> HIDE DEF f
  <2> QED BY <2>1, RingOfStarts
<1>6. f.marks = [o \in Offsets |-> IF o < HeadersUnits \/ old[o] = NoMark THEN NoMark
                                   ELSE IF o \in Starts THEN MaxLog2 ELSE old[o]]
  BY FreshFields
<1> HIDE DEF f
<1>7. Lists(f)
  BY <1>1, <1>2, <1>5, RingEmpty DEF Lists
<1>8. \A k \in Logs : \A o : o \in Blocks(f, NothingHeld)[k] <=> k = MaxLog2 /\ o \in Starts
  BY <1>1, <1>3, BlocksAre
<1>9. Partition(Blocks(f, NothingHeld))
  <2>1. Blocks(f, NothingHeld) \in [Logs -> SUBSET Offsets]
    BY <1>1, <1>3, BlocksAre
  <2>2. \A k \in Logs : \A o \in Blocks(f, NothingHeld)[k] : Aligned(o, k) = o
    BY <1>4, <1>8 DEF Starts
  <2>3. \A x \in Offsets : Aligned(x, MaxLog2) \in Blocks(f, NothingHeld)[MaxLog2]
    BY <1>2, <1>8, AlignedIs DEF Starts
  <2> QED BY <1>2, <1>8, <2>1, <2>2, <2>3 DEF Partition
<1>10. NonePaired(f) /\ Apart(f, NothingHeld)
  BY <1>1, <1>3 DEF NonePaired, Apart
<1>11. Marked(f, NothingHeld)
  <2>1. \A o \in Starts : f.marks[o] = MaxLog2 \/ f.marks[o] = NoMark
    BY <1>6 DEF Starts
  <2>2. \A x \in Offsets : f.marks[x] # NoMark => Aligned(x, f.marks[x]) = x
    BY <1>4, <1>6 DEF MarksAligned
  <2>3. ASSUME NEW x \in Offsets, NEW k \in Logs, Aligned(x, k) \in Blocks(f, NothingHeld)[k] PROVE f.marks[x] <= k
    <3>1. k = MaxLog2
      BY <1>8, <2>3
    <3>2. f.marks[x] \in Logs \cup {NoMark}
      BY <1>1, TypedFields
    <3> QED BY <3>1, <3>2, BuddyAssumption DEF Logs, NoMark
  <2> QED BY <1>1, <1>3, <2>1, <2>2, <2>3 DEF Marked
<1>12. Good(f, NothingHeld)
  BY <1>1, <1>3, <1>7, <1>9, <1>10, <1>11 DEF Good
<1> QED BY <1>12 DEF f

\* The headers are the first block of it.
LEMMA StartGood ==
  ASSUME NEW old, MarksAligned(old)
  PROVE  Good(Allocated(Fresh(old), HeadersUnits), Headers)
<1> DEFINE f == Fresh(old)
           k == Found(f, HeadersUnits)
<1>1. Good(f, NothingHeld) /\ Typed(f)
  BY FreshGood, FreshTyped
<1>2. \A i \in Logs : f.free_list[i].head = 0
  BY FreshTyped
<1>3. CanAlloc(f, HeadersUnits)
  <2>1. f.free_list[MaxLog2].count # 0
    BY FreshTyped, StartsAre
  <2>2. MaxLog2 \in GetSizeGroup(HeadersUnits)..MaxLog2
    BY Groups, BuddyAssumption DEF Logs
  <2> QED BY <2>1, <2>2 DEF CanAlloc
<1> HIDE DEF f
<1>4. k \in Logs
  BY <1>1, <1>3, FoundIs
<1>5. Good(Allocated(f, HeadersUnits), Taken(NothingHeld, f.free_list[k].head, GetSizeGroup(HeadersUnits)))
  BY <1>1, <1>3, AllocatedGood
<1>6. f.free_list[k].head = 0
  BY <1>2, <1>4
<1>7. Taken(NothingHeld, 0, GetSizeGroup(HeadersUnits)) = Headers
  BY DEF Taken, NothingHeld, Headers
<1> QED BY <1>5, <1>6, <1>7 DEF f
-----------------------------------------------------------------------------
\* What is listed is what the promised heap calls free.

\* Blocks in use lie in the heap, and none in another.
LEMMA ApartInUse ==
  ASSUME NEW s, NEW heap, Good(s, heap)
  PROVE  /\ \A o \in DOMAIN heap : Span(o, heap[o]) \subseteq Offsets
         /\ \A o, p \in DOMAIN heap : o # p => Span(o, heap[o]) \cap Span(p, heap[p]) = {}
<1>1. \A o \in DOMAIN heap : /\ o \in Offsets /\ heap[o] \in Logs
                             /\ Aligned(o, heap[o]) = o /\ o \in Blocks(s, heap)[heap[o]]
  BY BlockAligned
<1>2. \A o \in DOMAIN heap : Span(o, heap[o]) \subseteq Offsets
  BY <1>1, SpanWithin
<1>3. ASSUME NEW o \in DOMAIN heap, NEW p \in DOMAIN heap, NEW x \in Span(o, heap[o]), x \in Span(p, heap[p])
      PROVE  o = p
  <2>1. x \in Offsets
    BY <1>2, <1>3
  <2>2. Aligned(x, heap[o]) = o /\ Aligned(x, heap[p]) = p
    BY <2>1, <1>1, <1>3, SpanIs
  <2>3. heap[o] = heap[p]
    BY <2>1, <2>2, <1>1, OneBlock
  <2> QED BY <2>2, <2>3
<1> QED BY <1>2, <1>3

\* What is not in use is listed.
LEMMA UnusedIs ==
  ASSUME NEW s, NEW heap, Good(s, heap), NEW x \in Offsets
  PROVE  x \in Unused(heap) <=> \E k \in Logs : Aligned(x, k) \in ListedIn(s, k)
<1>1. Typed(s) /\ HeapTyped(heap) /\ Apart(s, heap) /\ Partition(Blocks(s, heap))
  BY DEF Good
<1>2. PICK k \in Logs : Aligned(x, k) \in Blocks(s, heap)[k]
  BY <1>1 DEF Partition
<1>3. ASSUME x \in Unused(heap) PROVE Aligned(x, k) \in ListedIn(s, k)
  <2>1. SUFFICES ASSUME Aligned(x, k) \in DOMAIN heap, heap[Aligned(x, k)] = k PROVE FALSE
    BY <1>1, <1>2, BlocksAre
  <2>2. x \in Span(Aligned(x, k), k)
    BY <2>1, BlockAligned, SpanIs
  <2> QED BY <2>1, <2>2, <1>3 DEF Unused
<1>4. ASSUME NEW j \in Logs, Aligned(x, j) \in ListedIn(s, j), NEW o \in DOMAIN heap, x \in Span(o, heap[o]) PROVE FALSE
  <2>1. o \in Offsets /\ heap[o] \in Logs /\ Aligned(o, heap[o]) = o /\ o \in Blocks(s, heap)[heap[o]]
    BY BlockAligned
  <2>2. Aligned(x, heap[o]) = o
    BY <2>1, <1>4, SpanIs
  <2>3. Aligned(x, j) \in Blocks(s, heap)[j]
    BY <1>4, BlockAligned
  <2>4. j = heap[o]
    BY <2>1, <2>2, <2>3, OneBlock
  <2> QED BY <2>2, <2>4, <1>1, <1>4 DEF Apart
<1> QED BY <1>3, <1>4 DEF Unused

\* An aligned run that is unused lies in one free block: the least there is in
\* it would have another half beside it, which is unused too and no larger.
LEMMA FitsIn ==
  ASSUME NEW s, NEW heap, Good(s, heap), NEW k \in Logs, NEW o \in Fits(heap, k)
  PROVE  /\ o \in Offsets /\ Aligned(o, k) = o
         /\ \E m \in Logs : k <= m /\ Aligned(o, m) \in ListedIn(s, m)
<1> DEFINE Within == {m \in Logs : \E x \in Span(o, k) : Aligned(x, m) \in ListedIn(s, m)}
<1>1. o \in Offsets /\ Aligned(o, k) = o /\ Span(o, k) \subseteq Unused(heap)
  BY AlignedSelf DEF Fits
<1>2. o \in Span(o, k) /\ Span(o, k) \subseteq Offsets
  BY <1>1, SpanIs, SpanWithin
<1>3. \A x \in Span(o, k) : x \in Offsets /\ Aligned(x, k) = o /\ \E m \in Logs : Aligned(x, m) \in ListedIn(s, m)
  BY <1>1, <1>2, SpanIs, UnusedIs
<1>4. PICK m \in Within : \A j \in Within : m <= j
  <2>1. Within # {} /\ Within \subseteq Nat
    BY <1>2, <1>3, Powers
  <2> HIDE DEF Within
  <2> QED BY <2>1, LeastOf
<1>5. PICK x \in Span(o, k) : Aligned(x, m) \in ListedIn(s, m)
  BY <1>4
<1> HIDE DEF Within
<1>6. m \in Logs /\ m \in Nat /\ k \in Nat
  BY <1>4, Powers DEF Within
<1>7. CASE k <= m
  <2>1. Aligned(x, m) = Aligned(o, m)
    BY <1>1, <1>3, <1>6, <1>7, StaysTogether
  <2> QED BY <2>1, <1>1, <1>5, <1>6, <1>7
<1>8. CASE ~(k <= m)
  <2> DEFINE b == Aligned(x, m)
             c == Buddy(b, m)
  <2>1. m # MaxLog2 /\ m + 1 \in Logs /\ m + 1 <= k
    BY <1>6, <1>8, BuddyAssumption DEF Logs
  <2>2. x \in Offsets /\ Aligned(x, k) = o
    BY <1>3
  <2>3. b \in Offsets /\ Aligned(b, m) = b /\ Aligned(b, k) = o
    <3>1. m <= m /\ m <= k
      BY <1>6, <1>8
    <3> QED BY <3>1, <2>2, <1>6, AlignedIs, AlignedTwice
  <2>4. b \in ListedIn(s, m)
    BY <1>5
  <2> HIDE DEF b
  <2>5. c \in Offsets /\ Aligned(c, m) = c
    BY <2>1, <2>3, <1>6, Buddies
  <2>6. \A i \in Logs : m < i => Aligned(c, i) = Aligned(b, i)
    BY <2>1, <2>3, <2>5, <1>6, OtherHalf
  <2>7. c \in Span(o, k)
    BY <2>3, <2>5, <2>6, <1>1, <1>6, <1>8, SpanIs
  <2>8. PICK j \in Logs : Aligned(c, j) \in ListedIn(s, j)
    BY <2>7, <1>3
  <2>9. m <= j
    BY <2>7, <2>8, <1>4 DEF Within
  <2>10. CASE j = m
    BY <2>1, <2>4, <2>5, <2>8, <2>10, <1>6 DEF Good, NonePaired
  <2>11. CASE j # m
    <3>1. m < j
      BY <2>9, <2>11, <1>6, Powers
    <3>2. Aligned(b, j) \in Blocks(s, heap)[j] /\ Aligned(b, m) \in Blocks(s, heap)[m]
      BY <3>1, <2>3, <2>4, <2>6, <2>8, <1>6, BlockAligned
    <3> QED BY <3>2, <2>3, <2>11, <1>6, OneBlock
  <2> QED BY <2>10, <2>11
<1> QED BY <1>7, <1>8

\* What lies in a free block fits there.
LEMMA InListed ==
  ASSUME NEW s, NEW heap, Good(s, heap), NEW k \in Logs, NEW m \in Logs, k <= m,
         NEW o \in Offsets, Aligned(o, k) = o, Aligned(o, m) \in ListedIn(s, m)
  PROVE  o \in Fits(heap, k)
<1>1. o % 2 ^ k = 0
  BY AlignedSelf
<1>2. ASSUME NEW x \in Span(o, k) PROVE x \in Unused(heap)
  <2>1. x \in Offsets /\ Aligned(x, k) = Aligned(o, k)
    BY SpanWithin, SpanIs
  <2>2. Aligned(x, m) = Aligned(o, m)
    BY <2>1, StaysTogether
  <2> QED BY <2>1, <2>2, UnusedIs
<1> QED BY <1>1, <1>2 DEF Fits

\* The lists hold the blocks that are free, whole.
LEMMA ListedFree ==
  ASSUME NEW s, NEW heap, Good(s, heap), NEW k \in Logs
  PROVE  ListedIn(s, k) = FreeBlocks(heap, k)
<1>0. k <= k
  BY Powers
<1>1. ASSUME NEW o \in ListedIn(s, k) PROVE o \in FreeBlocks(heap, k)
  <2>1. o \in Offsets /\ Aligned(o, k) = o /\ o \in Blocks(s, heap)[k]
    BY BlockAligned
  <2>2. o \in Fits(heap, k)
    BY <1>0, <1>1, <2>1, InListed
  <2>3. ASSUME k # MaxLog2, Aligned(o, k + 1) \in Fits(heap, k + 1) PROVE FALSE
    <3>1. k + 1 \in Logs /\ ~(k + 1 <= k)
      BY <2>3, Powers
    <3>2. PICK m \in Logs : k + 1 <= m /\ Aligned(Aligned(o, k + 1), m) \in ListedIn(s, m)
      BY <2>3, <3>1, FitsIn
    <3>3. Aligned(Aligned(o, k + 1), m) = Aligned(o, m)
      BY <2>1, <3>1, <3>2, AlignedTwice
    <3>4. Aligned(o, m) \in Blocks(s, heap)[m]
      BY <3>2, <3>3, BlockAligned
    <3>5. m = k
      BY <2>1, <3>4, OneBlock
    <3> QED BY <3>1, <3>2, <3>5
  <2> QED BY <2>2, <2>3 DEF FreeBlocks, Aligned
<1>2. ASSUME NEW o \in FreeBlocks(heap, k) PROVE o \in ListedIn(s, k)
  <2>1. o \in Fits(heap, k)
    BY DEF FreeBlocks
  <2>2. o \in Offsets /\ Aligned(o, k) = o
    BY <2>1, FitsIn
  <2>3. PICK m \in Logs : k <= m /\ Aligned(o, m) \in ListedIn(s, m)
    BY <2>1, FitsIn
  <2>4. SUFFICES ASSUME m # k PROVE FALSE
    BY <2>2, <2>3
  <2>5. k # MaxLog2 /\ k + 1 \in Logs /\ k + 1 <= m /\ k + 1 <= k + 1
    BY <2>3, <2>4, BuddyAssumption DEF Logs
  <2>6. Aligned(o, k + 1) \in Offsets /\ Aligned(Aligned(o, k + 1), k + 1) = Aligned(o, k + 1)
    BY <2>2, <2>5, AlignedIs, AlignedTwice
  <2>7. Aligned(Aligned(o, k + 1), m) = Aligned(o, m)
    BY <2>2, <2>5, AlignedTwice
  <2>8. Aligned(o, k + 1) \in Fits(heap, k + 1)
    BY <2>3, <2>5, <2>6, <2>7, InListed
  <2> QED BY <2>5, <2>8, <1>2 DEF FreeBlocks, Aligned
<1> QED BY <1>1, <1>2

\* What Alloc takes is what the abstract heap takes.
LEMMA FoundPlace ==
  ASSUME NEW s, NEW heap, Good(s, heap), NEW size \in Sizes \cup {HeadersUnits}
  PROVE  /\ CanAlloc(s, size) <=> HasRoom(heap, GetSizeGroup(size))
         /\ CanAlloc(s, size) => Places(heap, GetSizeGroup(size)) = ListedIn(s, Found(s, size))
<1> DEFINE g == GetSizeGroup(size)
           k == Found(s, size)
<1>1. Typed(s) /\ Lists(s) /\ g \in Logs /\ g \in Nat
  BY Groups, Powers DEF Good
<1>2. \A j \in Logs : /\ s.free_list[j].count = 0 <=> ListedIn(s, j) = {}
                      /\ ListedIn(s, j) = FreeBlocks(heap, j)
  BY <1>1, ListedFree, ListedFinite DEF Lists
<1>3. ASSUME HasRoom(heap, g) PROVE CanAlloc(s, size)
  <2>1. PICK o \in Fits(heap, g) : TRUE
    BY <1>3 DEF HasRoom
  <2>2. PICK m \in Logs : g <= m /\ Aligned(o, m) \in ListedIn(s, m)
    BY <2>1, <1>1, FitsIn
  <2>3. m \in g..MaxLog2 /\ s.free_list[m].count # 0
    BY <2>2, <1>1, <1>2 DEF Logs
  <2> QED BY <2>3 DEF CanAlloc
<1>4. ASSUME CanAlloc(s, size) PROVE HasRoom(heap, g) /\ Places(heap, g) = ListedIn(s, k)
  <2>1. /\ k \in Logs /\ g <= k /\ s.free_list[k].count # 0
        /\ \A j \in g..(k - 1) : s.free_list[j].count = 0
    BY <1>1, <1>4, FoundIs
  <2> HIDE DEF g, k
  <2>2. PICK o \in ListedIn(s, k) : TRUE
    BY <2>1, <1>2
  <2>3. o \in Offsets /\ Aligned(o, k) = o
    BY <2>1, BlockAligned
  <2>4. Aligned(o, g) = o
    BY <2>1, <2>3, <1>1, AlignedTwice
  <2>5. o \in Fits(heap, g)
    BY <2>1, <2>3, <2>4, <1>1, InListed
  <2>6. k \in g..MaxLog2 /\ k \in Nat /\ \A i \in g..MaxLog2 : i \in Logs /\ i \in Nat
    BY <2>1, <1>1, BuddyAssumption DEF Logs
  <2>7. FreeBlocks(heap, k) # {} /\ \A j \in g..(k - 1) : FreeBlocks(heap, j) = {}
    <3>1. \A j \in g..(k - 1) : j \in Logs
      BY <2>1, <1>1, PieceIndex
    <3> QED BY <3>1, <2>1, <1>2
  <2> DEFINE i == CHOOSE i \in g..MaxLog2 : /\ FreeBlocks(heap, i) # {}
                                            /\ \A j \in g..(i - 1) : FreeBlocks(heap, j) = {}
  <2>8. i \in g..MaxLog2 /\ FreeBlocks(heap, i) # {} /\ \A j \in g..(i - 1) : FreeBlocks(heap, j) = {}
    BY <2>6, <2>7
  <2>9. Places(heap, g) = FreeBlocks(heap, i)
    BY DEF Places
  <2> HIDE DEF i
  <2>10. i = k
    <3>1. i < k => i \in g..(k - 1)
      BY <2>6, <2>8
    <3>2. k < i => k \in g..(i - 1)
      BY <2>6, <2>8
    <3> QED BY <3>1, <3>2, <2>6, <2>7, <2>8
  <2> QED BY <2>1, <2>5, <2>9, <2>10, <1>2 DEF HasRoom
<1> QED BY <1>3, <1>4
-----------------------------------------------------------------------------
\* The states of the specification.

IInv == Good(State, held)

LEMMA StateIs == State.free_list = free_list /\ State.entries = entries /\ State.marks = marks
  BY DEF State

\* A step leaves what was computed.
LEMMA Becomes ==
  ASSUME NEW s, Typed(s), Become(s)
  PROVE  State' = s
<1>1. PICK a, b, c : s = [free_list |-> a, entries |-> b, marks |-> c]
  BY TypedFields
<1> QED BY <1>1 DEF Become, State

\* Every step keeps the heap together.
LEMMA InitGood == Init => IInv
<1> SUFFICES ASSUME Init PROVE IInv
  OBVIOUS
<1> DEFINE clean == [o \in Offsets |-> NoMark]
           s == Allocated(Fresh(clean), HeadersUnits)
<1>1. MarksAligned(clean)
  BY DEF MarksAligned
<1>2. free_list = s.free_list /\ entries = s.entries /\ marks = s.marks /\ held = Headers
  BY DEF Init
<1> HIDE DEF clean
<1>3. Good(s, Headers)
  BY <1>1, StartGood
<1> HIDE DEF s
<1>4. PICK a, b, c : s = [free_list |-> a, entries |-> b, marks |-> c]
  BY <1>3, TypedFields DEF Good
<1>5. State = s
  BY <1>2, <1>4 DEF State
<1> QED BY <1>2, <1>3, <1>5 DEF IInv

LEMMA ReinitKeeps == IInv /\ Reinit => IInv'
<1> SUFFICES ASSUME IInv, Reinit PROVE IInv'
  OBVIOUS
<1> DEFINE s == Allocated(Fresh(marks), HeadersUnits)
<1>1. MarksAligned(marks)
  BY StateIs, TypedFields DEF IInv, Good, Marked, MarksAligned
<1>2. Become(s) /\ held' = Headers
  BY DEF Reinit
<1>3. Good(s, Headers)
  BY <1>1, StartGood
<1> HIDE DEF s
<1>4. State' = s
  BY <1>2, <1>3, Becomes DEF Good
<1> QED BY <1>2, <1>3, <1>4 DEF IInv

LEMMA AllocIs ==
  ASSUME IInv, NEW size \in Sizes, Alloc(size)
  PROVE  LET offset == free_list[Found(State, size)].head
         IN  /\ CanAlloc(State, size) /\ offset \in ListedIn(State, Found(State, size))
             /\ held' = Taken(held, offset, GetSizeGroup(size))
             /\ Good(State', Taken(held, offset, GetSizeGroup(size)))
<1> DEFINE s == Allocated(State, size)
           offset == free_list[Found(State, size)].head
           h == Taken(held, offset, GetSizeGroup(size))
<1>1. CanAlloc(State, size) /\ Become(s) /\ held' = h
  BY DEF Alloc
<1>2. offset \in ListedIn(State, Found(State, size)) /\ Good(s, h)
  BY <1>1, AllocatedGood, StateIs DEF IInv
<1> HIDE DEF s, h
<1>3. State' = s
  BY <1>1, <1>2, Becomes DEF Good
<1>4. Good(State', h)
  BY <1>2, <1>3
<1> QED BY <1>1, <1>2, <1>4 DEF h

LEMMA AllocKeeps ==
  ASSUME IInv, NEW size \in Sizes, Alloc(size)
  PROVE  IInv'
BY AllocIs DEF IInv

LEMMA ShrinkKeeps ==
  ASSUME IInv, NEW offset \in DOMAIN held, NEW size \in Sizes, Shrink(offset, size)
  PROVE  IInv' /\ held' = Taken(held, offset, GetSizeGroup(size))
<1> DEFINE g == GetSizeGroup(size)
           s == Shrunk(State, offset, g, held[offset])
           h == Taken(held, offset, g)
<1>1. g \in Logs /\ g < held[offset] /\ Become(s) /\ held' = h
  BY Groups DEF Shrink
<1>2. held[offset] \in Logs /\ \A k \in Logs : k \in Nat
  BY Powers DEF IInv, Good, HeapTyped
<1> HIDE DEF g
<1>3. g <= held[offset]
  BY <1>1, <1>2
<1>4. Good(s, h)
  BY <1>1, <1>3, ShrunkGood DEF IInv
<1> HIDE DEF s
<1>5. State' = s
  BY <1>1, <1>4, Becomes DEF Good
<1> QED BY <1>1, <1>4, <1>5 DEF IInv, g

LEMMA FreeKeeps ==
  ASSUME IInv, NEW offset \in DOMAIN held, Free(offset)
  PROVE  IInv' /\ held' = GivenBack(held, offset)
<1> DEFINE s == Freed(State, offset, held[offset])
           h == GivenBack(held, offset)
<1>1. Become(s) /\ held' = h
  BY DEF Free
<1>2. Good(s, h)
  BY FreedGood DEF IInv
<1> HIDE DEF s, h
<1>3. State' = s
  BY <1>1, <1>2, Becomes DEF Good
<1>4. IInv'
  BY <1>1, <1>2, <1>3 DEF IInv
<1> QED BY <1>1, <1>4 DEF h

LEMMA WriteOverKeeps ==
  ASSUME IInv, NEW offset \in DOMAIN held, WriteOver(offset)
  PROVE  IInv'
<1> DEFINE s == [free_list |-> free_list, entries |-> entries,
                 marks |-> [o \in Offsets |-> IF o \in Span(offset, held[offset]) THEN NoMark ELSE marks[o]]]
<1>1. State' = s /\ held' = held
  BY DEF WriteOver, State
<1>2. Good(State, held) /\ Typed(State)
  BY DEF IInv, Good
<1>3. s.entries = State.entries /\ s.free_list = State.free_list
  BY StateIs
<1>4. \A x \in Offsets : s.marks[x] = IF x \in Span(offset, held[offset]) THEN NoMark ELSE State.marks[x]
  BY StateIs
<1>5. Typed(s)
  <2>1. marks \in [Offsets -> Logs \cup {NoMark}]
    BY <1>2, StateIs, TypedFields
  <2>2. s.marks \in [Offsets -> Logs \cup {NoMark}]
    BY <2>1
  <2>3. \E a, b, c : s = [free_list |-> a, entries |-> b, marks |-> c]
    OBVIOUS
  <2> HIDE DEF s
  <2> QED BY <1>2, <1>3, <2>2, <2>3, TypedFields
<1> HIDE DEF s
<1>6. Good(s, held)
  BY <1>2, <1>3, <1>4, <1>5, Overwrite
<1> QED BY <1>1, <1>6 DEF IInv

\* The lists, the marks and what is in use fit together in every state.
THEOREM HeapFitsTogether == Spec => []IInv
<1>1. IInv /\ [Next]_vars => IInv'
  <2> SUFFICES ASSUME IInv, [Next]_vars PROVE IInv'
    OBVIOUS
  <2>1. ASSUME NEW size \in Sizes, Alloc(size) PROVE IInv'
    BY <2>1, AllocKeeps
  <2>2. ASSUME NEW offset \in DOMAIN held \ {0}, Free(offset) PROVE IInv'
    BY <2>2, FreeKeeps
  <2>3. ASSUME NEW offset \in DOMAIN held \ {0}, WriteOver(offset) PROVE IInv'
    BY <2>3, WriteOverKeeps
  <2>4. ASSUME NEW offset \in DOMAIN held \ {0}, NEW size \in Sizes, Shrink(offset, size) PROVE IInv'
    BY <2>4, ShrinkKeeps
  <2>5. ASSUME Reinit PROVE IInv'
    BY <2>5, ReinitKeeps
  <2>6. ASSUME UNCHANGED vars PROVE IInv'
    BY <2>6 DEF vars, IInv, State
  <2> QED BY <2>1, <2>2, <2>3, <2>4, <2>5, <2>6 DEF Next
<1> QED BY <1>1, InitGood, PTL DEF Spec

LEMMA ListedIs == \A k : Listed(k) = ListedIn(State, k)
  BY StateIs DEF Listed, ListedIn

\* From its head, each list leads through all the free blocks of its size and
\* back, whatever was taken, cut, freed and joined before
\* (sub_block_allocator.cpp:144).
THEOREM ListsStayLinked == Spec => []ListsLinked
<1>1. IInv => ListsLinked
  BY StateIs, ListedIs DEF IInv, Good, Lists, Ring, ListsLinked
<1> QED BY <1>1, HeapFitsTogether, PTL

\* The lists hold exactly the free blocks, whole.
THEOREM BlocksListedWhole == Spec => []WholeBlocksListed
<1>1. IInv => WholeBlocksListed
  BY ListedIs, ListedFree, ApartInUse DEF IInv, NoneShared, WholeBlocksListed
<1> QED BY <1>1, HeapFitsTogether, PTL

\* Free may trust the mark it reads.
THEOREM MarksTrusted == Spec => []MarksTellFree
<1>1. IInv => MarksTellFree
  <2> SUFFICES ASSUME IInv, NEW o \in DOMAIN held, held[o] < MaxLog2
               PROVE  OtherHalfFree(State, o, held[o]) <=> Buddy(o, held[o]) \in Listed(held[o])
    BY DEF MarksTellFree
  <2>1. held[o] \in Logs
    BY DEF IInv, Good, HeapTyped
  <2>2. held[o] <= held[o] /\ held[o] # MaxLog2
    BY <2>1, BuddyAssumption DEF Logs
  <2> QED BY <2>1, <2>2, ListedIs, MarkTells DEF IInv
<1> QED BY <1>1, HeapFitsTogether, PTL

\* A request is refused only when no aligned run of its size is unused.
THEOREM RefusedOnlyWithoutRoom ==
  Spec => [](\A size \in Sizes : CanAlloc(State, size) <=> HasRoom(held, GetSizeGroup(size)))
<1>1. IInv => \A size \in Sizes : CanAlloc(State, size) <=> HasRoom(held, GetSizeGroup(size))
  BY FoundPlace DEF IInv
<1> QED BY <1>1, HeapFitsTogether, PTL

\* What Alloc would take for a request.
TakesLeast(size) ==
  LET group  == GetSizeGroup(size)
      found  == Found(State, size)
      offset == free_list[found].head
  IN  /\ offset % 2 ^ group = 0 /\ Span(offset, group) \subseteq Unused(held)
      /\ offset \in FreeBlocks(held, found)
      /\ \A k \in group..MaxLog2 : FreeBlocks(held, k) # {} => found <= k

\* Whenever an aligned run of the size asked for is unused, the loop of Alloc comes
\* to a list whose head is the front of such a run, in a block of the least size of
\* which any is free (sub_block_allocator.cpp:45), whatever was taken, cut, freed
\* and joined before.
THEOREM RoomIsTaken ==
  Spec => [](\A size \in Sizes : HasRoom(held, GetSizeGroup(size)) => TakesLeast(size))
<1>1. IInv => \A size \in Sizes : HasRoom(held, GetSizeGroup(size)) => TakesLeast(size)
  <2> SUFFICES ASSUME IInv, NEW size \in Sizes, HasRoom(held, GetSizeGroup(size))
               PROVE  TakesLeast(size)
    OBVIOUS
  <2> DEFINE g == GetSizeGroup(size)
             k == Found(State, size)
             o == free_list[k].head
  <2>1. CanAlloc(State, size)
    BY FoundPlace DEF IInv
  <2>2. /\ k \in Logs /\ g <= k
        /\ \A j \in g..(k - 1) : free_list[j].count = 0
    BY <2>1, FoundIs, StateIs DEF IInv, Good
  <2>3. o \in ListedIn(State, k)
    BY <2>1, AllocatedGood, StateIs DEF IInv
  <2>4. g \in Logs /\ g \in Nat
    BY Groups, Powers
  <2> HIDE DEF g, k, o
  <2>5. o \in Offsets /\ Aligned(o, k) = o
    BY <2>2, <2>3, BlockAligned DEF IInv
  <2>6. Aligned(o, g) = o
    BY <2>2, <2>4, <2>5, AlignedTwice
  <2>7. o \in Fits(held, g)
    BY <2>2, <2>3, <2>4, <2>5, <2>6, InListed DEF IInv
  <2>8. o \in FreeBlocks(held, k)
    BY <2>2, <2>3, ListedFree DEF IInv
  <2>9. ASSUME NEW j \in g..MaxLog2, FreeBlocks(held, j) # {} PROVE k <= j
    <3>1. j \in Logs /\ j \in Nat /\ k \in Nat
      BY <2>2, <2>4, Powers, BuddyAssumption DEF Logs
    <3>2. free_list[j].count # 0
      BY <2>9, <3>1, ListedFree, ListedFinite, StateIs DEF IInv, Good, Lists
    <3> QED BY <2>2, <2>9, <3>1, <3>2
  <2> QED BY <2>7, <2>8, <2>9 DEF TakesLeast, Fits, g, k, o
<1> QED BY <1>1, HeapFitsTogether, PTL

LEMMA StepTakes ==
  ASSUME IInv, NEW size \in Sizes, Alloc(size)
  PROVE  Take(size)
<1> DEFINE offset == free_list[Found(State, size)].head
<1>1. /\ CanAlloc(State, size) /\ offset \in ListedIn(State, Found(State, size))
      /\ held' = Taken(held, offset, GetSizeGroup(size))
  BY AllocIs
<1>2. HasRoom(held, GetSizeGroup(size)) /\ offset \in Places(held, GetSizeGroup(size))
  BY <1>1, FoundPlace DEF IInv
<1> QED BY <1>1, <1>2 DEF Take

\* The lists, the links and the marks implement the heap the trees rely on.
THEOREM HeapImplemented == Spec => ImplementsHeap
<1>1. Init => HeapInit
  BY DEF Init, HeapInit
<1>2. IInv /\ [Next]_vars => [HeapNext]_held
  <2> SUFFICES ASSUME IInv, [Next]_vars PROVE [HeapNext]_held
    OBVIOUS
  <2>1. ASSUME NEW size \in Sizes, Alloc(size) PROVE HeapNext
    BY <2>1, StepTakes DEF HeapNext
  <2>2. ASSUME NEW offset \in DOMAIN held \ {0}, Free(offset) PROVE HeapNext
    BY <2>2, FreeKeeps DEF HeapNext, Give
  <2>3. ASSUME NEW offset \in DOMAIN held \ {0}, WriteOver(offset) PROVE held' = held
    BY <2>3 DEF WriteOver
  <2>4. ASSUME NEW offset \in DOMAIN held \ {0}, NEW size \in Sizes, Shrink(offset, size) PROVE HeapNext
    <3>1. held' = Taken(held, offset, GetSizeGroup(size))
      BY <2>4, ShrinkKeeps
    <3>2. Cut(offset, size)
      BY <2>4, <3>1 DEF Cut, Shrink
    <3> QED BY <3>2 DEF HeapNext
  <2>5. ASSUME Reinit PROVE HeapNext
    BY <2>5 DEF Reinit, HeapNext, StartOver
  <2>6. ASSUME UNCHANGED vars PROVE held' = held
    BY <2>6 DEF vars
  <2> QED BY <2>1, <2>2, <2>3, <2>4, <2>5, <2>6 DEF Next
<1> QED BY <1>1, <1>2, HeapFitsTogether, PTL DEF Spec, ImplementsHeap, HeapSpec
=============================================================================
