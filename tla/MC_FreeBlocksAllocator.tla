----------------------- MODULE MC_FreeBlocksAllocator -----------------------
(* Instances of FreeBlocksAllocator: small units and few of them, so that  *)
(* joins, lifts, page splits and an empty area are a few calls away.       *)
EXTENDS FreeBlocksAllocator

CONSTANT LastBlock

\* Buckets of single blocks and of four; of one, two and four blocks.
TwoSizes == <<0, 2>>
ThreeSizes == <<0, 1, 2>>

OneRange == <<[block_number |-> 3, blocks_count |-> LastBlock - 2]>>

\* An area in use, as these calls leave it: all of it is taken, some units of
\* four are given back, a pair of blocks is taken, two more units are given
\* back.  The free blocks make four runs, and one page full of five extents.
InitUsed ==
  LET fresh     == [tree |-> {}, pages |-> (0 :> FirstPage), free_blocks_count |-> 0,
                    cache_first |-> 0, cache_count |-> 0]
      GiveBack(s, units) == FoldLeft(LAMBDA t, n : AddFreeBlocks(t, RangeOf(n, n + 4)), s, units)
      taken     == AllocBlocks(AllocBlocks(AddFreeBlocks(fresh, OneRange[1]),
                                           10, 2, FALSE).state, 2, 0, FALSE).state
      pairTaken == AllocBlocks(GiveBack(taken, <<16, 20, 24, 32, 40>>), 1, 1, FALSE)
  IN  /\ allocator = GiveBack(pairTaken.state, <<4, 8>>)
      /\ held = {Unit(n, 4, "unit") : n \in {12, 28, 36}} \cup {Unit(n, 1, "unit") : n \in {3, LastBlock}}
                  \cup {Unit(n, 2, "unit") : n \in ToSet(pairTaken.blocks)}

SpecUsed == InitUsed /\ [][Next]_vars

NoRequests == {}
OneOfEach == {[count |-> 1, index |-> 0], [count |-> 1, index |-> 1]}
Several == {[count |-> 2, index |-> 0], [count |-> 3, index |-> 1], [count |-> 1, index |-> 2]}
PairAndLarge == {[count |-> 2, index |-> 0], [count |-> 1, index |-> 1]}
TwoPairs == {[count |-> 2, index |-> 1]}
SixPairs == {[count |-> 6, index |-> 1]}
=============================================================================
