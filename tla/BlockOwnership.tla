--------------------------- MODULE BlockOwnership ---------------------------
(***************************************************************************)
(* Who owns each area block while files are resized.  A resize allocates   *)
(* blocks nobody refers to yet, makes them the file's by replacing its     *)
(* metadata, and only then gives back what the old metadata referred to;   *)
(* if it fails before the replacement it gives back what it allocated.     *)
(* The order is the whole point: FileResize is shown to follow it.         *)
(***************************************************************************)
EXTENDS Integers

CONSTANTS
  Blocks,   \* area blocks
  Files

VARIABLES
  free,     \* blocks the free blocks allocator may hand out
  held,     \* per file: blocks its committed metadata refers to
  pending,  \* per file: blocks its running resize allocated, not committed
  retired   \* per file: blocks its last commit dropped, not yet given back

vars == <<free, held, pending, retired>>

Disjoint(f) == \A a, b \in Files : a # b => f[a] \cap f[b] = {}

Init ==
  /\ held \in [Files -> SUBSET Blocks]
  /\ Disjoint(held)
  /\ free = Blocks \ UNION {held[f] : f \in Files}
  /\ pending = [f \in Files |-> {}]
  /\ retired = [f \in Files |-> {}]

\* AllocDataBlocks or AllocMetadataBlock.
Allocate(f, blocks) ==
  /\ blocks \subseteq free
  /\ free' = free \ blocks
  /\ pending' = [pending EXCEPT ![f] = @ \cup blocks]
  /\ UNCHANGED <<held, retired>>

\* The destructors of a resize that did not get to its commit.
Rollback(f) ==
  /\ free' = free \cup pending[f]
  /\ pending' = [pending EXCEPT ![f] = {}]
  /\ UNCHANGED <<held, retired>>

\* ReplaceMetadata: the new blocks and those it keeps become the file's.
Commit(f, kept) ==
  /\ kept \subseteq held[f]
  /\ held' = [held EXCEPT ![f] = kept \cup pending[f]]
  /\ retired' = [retired EXCEPT ![f] = @ \cup (held[f] \ kept)]
  /\ pending' = [pending EXCEPT ![f] = {}]
  /\ UNCHANGED free

\* DeleteBlocks on what the old metadata no longer shares with the new.
Release(f, blocks) ==
  /\ blocks \subseteq retired[f]
  /\ free' = free \cup blocks
  /\ retired' = [retired EXCEPT ![f] = @ \ blocks]
  /\ UNCHANGED <<held, pending>>

Next ==
  \E f \in Files :
    \/ \E blocks \in SUBSET free : Allocate(f, blocks)
    \/ Rollback(f)
    \/ \E kept \in SUBSET held[f] : Commit(f, kept)
    \/ \E blocks \in SUBSET retired[f] : Release(f, blocks)

Spec == Init /\ [][Next]_vars
-----------------------------------------------------------------------------
TypeOK ==
  /\ free \subseteq Blocks
  /\ held \in [Files -> SUBSET Blocks]
  /\ pending \in [Files -> SUBSET Blocks]
  /\ retired \in [Files -> SUBSET Blocks]

Owned(f) == held[f] \cup pending[f] \cup retired[f]

\* Every block has exactly one owner: the allocator or one file, and in a file
\* one of its three roles.  Two files whose resizes interleave (or one file
\* and the allocator) never both believe a block is theirs, and none is lost.
OneOwner ==
  /\ \A f \in Files :
       /\ free \cap Owned(f) = {}
       /\ held[f] \cap pending[f] = {}
       /\ held[f] \cap retired[f] = {}
       /\ pending[f] \cap retired[f] = {}
       /\ \A g \in Files : f # g => Owned(f) \cap Owned(g) = {}
  /\ free \cup UNION {Owned(f) : f \in Files} = Blocks

\* A block a file's metadata refers to becomes another file's only after the
\* allocator had it back: no step hands it over, and no step frees it.
NeverTakenWhileHeld ==
  [][\A f \in Files : held[f] \cap (free' \cup UNION {Owned(g)' : g \in Files \ {f}}) = {}]_vars
=============================================================================
