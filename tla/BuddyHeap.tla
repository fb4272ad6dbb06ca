----------------------------- MODULE BuddyHeap -----------------------------
(***************************************************************************)
(* What the heap of a directory block promises those who use it: blocks of *)
(* 2^k units, aligned to their size, that nobody else holds.  Since freed  *)
(* neighbours are always joined again, which blocks are free follows from  *)
(* those in use.  SubBlockAllocator is shown to implement this; the trees  *)
(* of DirectoryTree are built on it.                                       *)
(***************************************************************************)
EXTENDS Integers, FiniteSets

CONSTANTS
  Units,         \* units in the metadata block
  MaxLog2,       \* MAX_BLOCK_SIZE, in units
  HeadersUnits,  \* total_headers_size, in units
  Sizes          \* what callers ask for, in units

ASSUME BuddyAssumption ==
  /\ MaxLog2 \in Nat /\ Units \in Nat /\ 2 ^ MaxLog2 <= Units
  /\ Sizes \cup {HeadersUnits} \subseteq 1..(2 ^ MaxLog2)

\* How exponentiation is computed, for which the provers have no rules: to twice
\* the largest block, for the heap is a number of those.
ASSUME PowersAssumption ==
  2 ^ 0 = 1 /\ \A k \in 0..(2 * MaxLog2) : 2 ^ (k + 1) = 2 * 2 ^ k

VARIABLE held  \* log2 size of each block in use, and of the headers'

Offsets == 0..(Units - 1)
Logs == 0..MaxLog2

Span(offset, log2) == offset..(offset + 2 ^ log2 - 1)

GetSizeGroup(size) == CHOOSE k \in Logs : 2 ^ k >= size /\ \A j \in 0..(k - 1) : 2 ^ j < size

Headers == [o \in {0} |-> GetSizeGroup(HeadersUnits)]
-----------------------------------------------------------------------------
Unused(heap) == Offsets \ UNION {Span(o, heap[o]) : o \in DOMAIN heap}

\* Where the unused units hold an aligned block of that size.
Fits(heap, log2) ==
  LET unused == Unused(heap)
  IN  {o \in Offsets : o % 2 ^ log2 = 0 /\ Span(o, log2) \subseteq unused}

\* The free blocks: of such places those that are not half of a larger one.
FreeBlocks(heap, log2) ==
  LET larger == IF log2 = MaxLog2 THEN {} ELSE Fits(heap, log2 + 1)
  IN  {o \in Fits(heap, log2) : o - (o % 2 ^ (log2 + 1)) \notin larger}

HasRoom(heap, log2) == Fits(heap, log2) # {}

\* A block is cut from the front of one of the least free blocks it fits in.
Places(heap, log2) ==
  FreeBlocks(heap, CHOOSE k \in log2..MaxLog2 :
                     /\ FreeBlocks(heap, k) # {}
                     /\ \A j \in log2..(k - 1) : FreeBlocks(heap, j) = {})

Taken(heap, offset, log2) == [o \in DOMAIN heap \cup {offset} |-> IF o = offset THEN log2 ELSE heap[o]]

GivenBack(heap, offset) == [o \in DOMAIN heap \ {offset} |-> heap[o]]
-----------------------------------------------------------------------------
HeapInit == held = Headers

Take(size) ==
  /\ HasRoom(held, GetSizeGroup(size))
  /\ \E offset \in Places(held, GetSizeGroup(size)) :
       held' = Taken(held, offset, GetSizeGroup(size))

Give(offset) == held' = GivenBack(held, offset)

Cut(offset, size) ==
  /\ GetSizeGroup(size) < held[offset]
  /\ held' = Taken(held, offset, GetSizeGroup(size))

StartOver == held' = Headers

HeapNext ==
  \/ \E size \in Sizes : Take(size)
  \/ \E offset \in DOMAIN held \ {0} : Give(offset) \/ \E size \in Sizes : Cut(offset, size)
  \/ StartOver

HeapSpec == HeapInit /\ [][HeapNext]_held
-----------------------------------------------------------------------------
\* Nobody's block reaches into another's or behind the end: a node, an entry's
\* metadata or the headers are never written over by what belongs to others.
NoneShared ==
  /\ \A o \in DOMAIN held : Span(o, held[o]) \subseteq Offsets
  /\ \A o, p \in DOMAIN held : o # p => Span(o, held[o]) \cap Span(p, held[p]) = {}
=============================================================================
