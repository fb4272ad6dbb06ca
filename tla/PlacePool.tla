----------------------------- MODULE PlacePool -----------------------------
(***************************************************************************)
(* What an allocator inside a block promises its callers: places nobody    *)
(* else holds.  Which places they are, and when a request is refused, is   *)
(* left open.  TreeNodesAllocator implements this.                         *)
(***************************************************************************)
EXTENDS Integers

CONSTANT Places   \* the places in the block

VARIABLE taken    \* those that callers hold

Init == taken = {}

Take(places) ==
  /\ places \cap taken = {}
  /\ taken' = taken \cup places

Give(places) ==
  /\ places \subseteq taken
  /\ taken' = taken \ places

Next == \E places \in SUBSET Places : Take(places) \/ Give(places)

Spec == Init /\ [][Next]_taken
=============================================================================
