--------------------------- MODULE FTreesIterator ---------------------------
(***************************************************************************)
(* One walk over several trees (src/src/ftrees_iterator.cpp): an iterator  *)
(* in each of them, the index of the one it stands at, and what it takes   *)
(* to turn round.  Going forward the others stand at their first key       *)
(* behind the current one, going backward at their last key before it;     *)
(* reverse_end_ has those that have none, though they stand at a key.      *)
(*                                                                         *)
(* A tree is the sequence of its keys, an iterator a place in it, end()    *)
(* the place behind the last.                                              *)
(***************************************************************************)
EXTENDS Integers, Sequences

CONSTANTS
  Buckets,  \* the trees
  First     \* the one of index 0

ASSUME FirstAssumption == First \in Buckets

VARIABLES
  items,       \* the keys of each tree, in order
  at,          \* ftrees_[i].iterator
  index,       \* index_
  is_forward,  \* is_forward_
  reverse_end, \* reverse_end_
  sure         \* no tree has missed the key it looked for: see Finds

walk == <<at, index, is_forward, reverse_end, sure>>

EndOf(trees, b) == Len(trees[b]) + 1

IsEnd(b) == at[b] = EndOf(items, b)
IsBegin(b) == at[b] = 1

Here == items[index][at[index]]

\* Extents do not overlap: a key is in one tree, and once.
Sorted(trees) ==
  /\ \A b \in Buckets : \A i, j \in DOMAIN trees[b] : i < j => trees[b][i] < trees[b][j]
  /\ \A b, c \in Buckets : b # c =>
       \A i \in DOMAIN trees[b], j \in DOMAIN trees[c] : trees[b][i] # trees[c][j]
-----------------------------------------------------------------------------
(* find_next_extent_index: among the trees that have a key there and are   *)
(* not left out, the one with the least or the greatest; or the first.     *)

Candidates(trees, places, out) == {b \in Buckets \ out : places[b] # EndOf(trees, b)}

IsLeast(trees, places, out, b) ==
  \/ /\ b \in Candidates(trees, places, out)
     /\ \A c \in Candidates(trees, places, out) : trees[b][places[b]] <= trees[c][places[c]]
  \/ Candidates(trees, places, out) = {} /\ b = First

IsGreatest(trees, places, out, b) ==
  \/ /\ b \in Candidates(trees, places, out)
     /\ \A c \in Candidates(trees, places, out) : trees[c][places[c]] <= trees[b][places[b]]
  \/ Candidates(trees, places, out) = {} /\ b = First
-----------------------------------------------------------------------------
(* FTrees::begin, end and find.                                            *)

BeginIn(trees) ==
  /\ at' = [b \in Buckets |-> 1]
  /\ \E b \in Buckets : IsLeast(trees, at', {}, b) /\ index' = b
  /\ is_forward' = TRUE /\ reverse_end' = {} /\ sure' = TRUE

Begin == BeginIn(items) /\ UNCHANGED items

End ==
  /\ at' = [b \in Buckets |-> EndOf(items, b)]
  /\ index' = First
  /\ is_forward' = TRUE /\ reverse_end' = {} /\ sure' = TRUE
  /\ UNCHANGED items

Places == [Buckets -> UNION {1..EndOf(items, b) : b \in Buckets}]

\* The last key of a tree that is not above this one, or its first.
LastUpTo(b, key, i) ==
  /\ i # 1 => i \in DOMAIN items[b] /\ items[b][i] <= key
  /\ \A j \in DOMAIN items[b] : i < j => items[b][j] > key

\* Where a tree's own find ends: there, or one further, at the first of a leaf
\* that had keys before it when its parent was written (PTree).
Finds(b, key, i) ==
  \/ LastUpTo(b, key, i)
  \/ i \in DOMAIN items[b] /\ i # 1 /\ LastUpTo(b, key, i - 1) /\ items[b][i - 1] < key

Before(near, key) == {b \in Candidates(items, near, {}) : items[b][near[b]] <= key}

\* Mutant: the other trees stay at keys before this one.
FindThere(near, key) ==
  /\ \E b \in Buckets :
       /\ IF Before(near, key) # {} THEN IsGreatest(items, near, Buckets \ Before(near, key), b)
                                    ELSE IsLeast(items, near, {}, b)
       /\ index' = b
       /\ at' = near
  /\ is_forward' = TRUE /\ reverse_end' = {}
  /\ sure' = \A b \in Buckets : LastUpTo(b, key, near[b])
  /\ UNCHANGED items

\* To the last key that is not above this one, the others that have such keys
\* one further; if there is none, to the first key.
FindFrom(near, key) ==
  /\ \E b \in Buckets :
       /\ IF Before(near, key) # {} THEN IsGreatest(items, near, Buckets \ Before(near, key), b)
                                    ELSE IsLeast(items, near, {}, b)
       /\ index' = b
       /\ at' = [c \in Buckets |-> IF c \in Before(near, key) \ {b} THEN near[c] + 1 ELSE near[c]]
  /\ is_forward' = TRUE /\ reverse_end' = {}
  /\ sure' = \A b \in Buckets : LastUpTo(b, key, near[b])
  /\ UNCHANGED items

Find(key) == \E near \in Places : (\A b \in Buckets : Finds(b, key, near[b])) /\ FindFrom(near, key)
-----------------------------------------------------------------------------
(* operator++.  Turning round, each tree goes on to its first key that is  *)
(* not below the current one, unless it is there already.                  *)

Ahead(b, key, i) ==
  /\ i \in (at[b] + 1)..EndOf(items, b)
  /\ i # EndOf(items, b) => items[b][i] >= key
  /\ \A j \in (at[b] + 1)..(i - 1) : items[b][j] < key

\* Mutant: the tree it stands at stays where it is, if that is its first key.
TurnForwardStuck ==
  \A b \in Buckets :
    IF b \in reverse_end \/ IsEnd(b) THEN at'[b] = at[b] ELSE Ahead(b, Here, at'[b])

TurnForward ==
  \A b \in Buckets :
    IF b \in reverse_end \ {index} \/ IsEnd(b) THEN at'[b] = at[b] ELSE Ahead(b, Here, at'[b])

Forward ==
  /\ ~IsEnd(index)
  /\ IF is_forward THEN at' = [at EXCEPT ![index] = @ + 1]
     ELSE at' \in Places /\ TurnForward
  /\ is_forward' = TRUE
  /\ reverse_end' = IF is_forward THEN reverse_end ELSE {}
  /\ \E b \in Buckets : IsLeast(items, at', reverse_end', b) /\ index' = b
  /\ UNCHANGED <<items, sure>>
-----------------------------------------------------------------------------
(* operator--.  Turning round, each tree goes back to its last key that is *)
(* not above the current one; one that is at its first already has none    *)
(* before it.                                                              *)

AtBegin == IF is_forward THEN \A b \in Buckets : IsBegin(b) ELSE reverse_end = Buckets

IsAbove(key) == ~IsEnd(index) /\ key > Here

Behind(b, i) ==
  /\ i \in 1..(at[b] - 1)
  /\ i # 1 => ~IsAbove(items[b][i])
  /\ \A j \in (i + 1)..(at[b] - 1) : IsAbove(items[b][j])

\* Those that have nothing before the current key.
AlreadyFirst ==
  {b \in Buckets : IsBegin(b) /\ (IsEnd(b) \/ (~IsEnd(index) /\ items[b][at[b]] >= Here))}

TurnBackward ==
  \A b \in Buckets : IF IsBegin(b) THEN at'[b] = at[b] ELSE Behind(b, at'[b])

\* Mutant: that the tree it comes to has come to its first key is not noted.
BackwardUnmarked ==
  /\ ~AtBegin
  /\ \E out \in {IF is_forward THEN AlreadyFirst ELSE reverse_end} :
       /\ IF is_forward THEN at' \in Places /\ TurnBackward
          ELSE IF index \in reverse_end THEN at' = at
          ELSE at' = [at EXCEPT ![index] = @ - 1]
       /\ \E b \in Buckets : IsGreatest(items, at', out, b) /\ index' = b /\ reverse_end' = out
  /\ is_forward' = FALSE
  /\ UNCHANGED <<items, sure>>

Backward ==
  /\ ~AtBegin
  /\ \E out \in {IF is_forward THEN AlreadyFirst ELSE reverse_end} :
       /\ IF is_forward THEN at' \in Places /\ TurnBackward
          ELSE IF index \in reverse_end THEN at' = at
          ELSE at' = [at EXCEPT ![index] = @ - 1]
       /\ \E b \in Buckets :
            /\ IsGreatest(items, at', out, b)
            /\ index' = b
            /\ reverse_end' = out \cup (IF at'[b] = 1 THEN {b} ELSE {})
  /\ is_forward' = FALSE
  /\ UNCHANGED <<items, sure>>

WalkInit ==
  /\ items \in [Buckets -> Seq(Nat)] /\ Sorted(items)
  /\ at = [b \in Buckets |-> 1]
  /\ index \in Buckets /\ IsLeast(items, at, {}, index)
  /\ is_forward = TRUE /\ reverse_end = {} /\ sure = TRUE

WalkNext == Begin \/ End \/ (\E key \in Nat : Find(key)) \/ Forward \/ Backward

WalkSpec == WalkInit /\ [][WalkNext]_<<items, walk>>
-----------------------------------------------------------------------------
\* From a key, on to the least of all that are greater; after the greatest, to
\* the end.
Onward ==
  /\ ~IsEnd(index)' => Here' > Here
  /\ \A b \in Buckets : \A i \in DOMAIN items[b] :
       items[b][i] > Here => ~IsEnd(index)' /\ Here' <= items[b][i]

\* Back to the greatest of all that are less, or of all if at the end.
Backwards ==
  /\ ~IsEnd(index)' /\ (~IsEnd(index) => Here' < Here)
  /\ \A b \in Buckets : \A i \in DOMAIN items[b] :
       (~IsEnd(index) => items[b][i] < Here) => items[b][i] <= Here'

\* Whichever way the walk turned before, no key of any tree is passed over or
\* met twice, unless find has started it past one (ftrees_iterator.cpp:11, 35).
WalksInOrder == [][sure => (Forward => Onward) /\ (Backward => Backwards)]_<<items, walk>>

\* is_begin, by which loops know when to stop: it is true at the least key of
\* all, and only there (ftrees_iterator.cpp:73).
BeginIsLeast ==
  sure => (AtBegin <=> \A b \in Buckets : \A i \in DOMAIN items[b] : ~IsEnd(index) /\ Here <= items[b][i])
=============================================================================
