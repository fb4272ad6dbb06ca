------------------------------ MODULE MC_PTree ------------------------------
(* Blocks of search trees for the run block_trees. *)
EXTENDS PTree

\* n keys, a step apart, in ascending order.
Steps(first, step, n) == [i \in 1..n |-> first + step * (i - 1)]

RTreeBlock(size, keys, used, most) ==
  [kind |-> "rtree", entries |-> size, keys |-> [t \in Buckets |-> IF t = First THEN keys ELSE <<>>],
   compact |-> FALSE, used |-> used, calls |-> most, walks |-> FALSE]

FTreesBlock(size, keys, compact, used, most, walks) ==
  [kind |-> "ftree", entries |-> size, keys |-> keys, compact |-> compact, used |-> used,
   calls |-> most, walks |-> walks]

ThreeTrees(a, b, c) == [t \in Buckets |-> IF t = 0 THEN a ELSE IF t = 1 THEN b ELSE c]

MCKeys == 0..700

\* Any calls, on a block that two leaves or three fill.
Small == RTreeBlock(3, <<>>, 0..6, Endless)

\* A parent of six leaves, of which each may be the one to split.
Wide == RTreeBlock(10, Steps(0, 5, 19), {5 * i + j : i \in 0..18, j \in {2, 3}}, 2)

\* The same without room for another node, so that it is split.
Full == RTreeBlock(7, Steps(0, 5, 19), {5 * i + j : i \in 7..9, j \in {2, 3}}, 4)

\* Two levels of parents: the root is full, and the first of its children, or
\* the fourth, whose sibling's key is not kept by the new root's child.
DeepFirst == RTreeBlock(40, Reverse(Steps(0, 10, 62)), {5 * i + 1 : i \in 0..35}, 2)
DeepMiddle == RTreeBlock(40, Reverse(Steps(0, 10, 60)) \o Steps(331, 4, 10), {332, 333} \cup {5 * i + 2 : i \in 66..81}, 2)

\* The leaves written compactly, with room for two more keys each.
Packed == FTreesBlock(12, ThreeTrees(Steps(0, 4, 26), Steps(1, 4, 3), <<>>), TRUE, {2, 21, 22, 23, 103}, 4, FALSE)

\* Any calls and any walks over few keys; walks over more; walks where find
\* comes past the key it should.
Walked3 == FTreesBlock(3, Whole, FALSE, 0..2, Endless, TRUE)
Turned == FTreesBlock(4, ThreeTrees(<<0, 3, 5>>, <<1, 4>>, <<2>>), FALSE, 0..5, 0, TRUE)
Stale == FTreesBlock(4, ThreeTrees(Steps(0, 4, 8), <<5>>, <<>>), FALSE, {0, 12, 15, 16}, 1, TRUE)

MCBuilds == {Small, Wide, Full, DeepFirst, DeepMiddle, Packed, Walked3, Turned, Stale}
=============================================================================
