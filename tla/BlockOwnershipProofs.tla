------------------------ MODULE BlockOwnershipProofs ------------------------
(***************************************************************************)
(* Proofs about BlockOwnership, for any set of blocks and of files: every  *)
(* block always has one owner, and none changes hands while it is held.    *)
(* OneOwner is inductive together with TypeOK; each action moves blocks    *)
(* between two of the sets it speaks of and leaves the others alone.       *)
(***************************************************************************)
EXTENDS BlockOwnership, TLAPS

OwnershipInv == TypeOK /\ OneOwner

LEMMA InitEstablishesInv == Init => OwnershipInv
<1>1. ASSUME Init PROVE TypeOK
  BY <1>1 DEF Init, TypeOK
<1>2. ASSUME Init PROVE OneOwner
  BY <1>2 DEF Init, OneOwner, Owned, Disjoint
<1>. QED
  BY <1>1, <1>2 DEF OwnershipInv

LEMMA AllocatePreserves ==
  ASSUME OwnershipInv, NEW f \in Files, NEW blocks \in SUBSET free, Allocate(f, blocks)
  PROVE  OwnershipInv'
<1>1. TypeOK'
  BY DEF OwnershipInv, TypeOK, Allocate
<1>2. \A g \in Files : Owned(g)' = IF g = f THEN Owned(g) \cup blocks ELSE Owned(g)
  BY DEF OwnershipInv, TypeOK, Allocate, Owned
<1>3. OneOwner'
  BY <1>2 DEF OwnershipInv, TypeOK, OneOwner, Allocate, Owned
<1>. QED
  BY <1>1, <1>3 DEF OwnershipInv

LEMMA RollbackPreserves ==
  ASSUME OwnershipInv, NEW f \in Files, Rollback(f)
  PROVE  OwnershipInv'
<1>1. TypeOK'
  BY DEF OwnershipInv, TypeOK, Rollback
<1>2. \A g \in Files : Owned(g)' = IF g = f THEN Owned(g) \ pending[g] ELSE Owned(g)
  BY DEF OwnershipInv, TypeOK, OneOwner, Rollback, Owned
<1>3. OneOwner'
  BY <1>2 DEF OwnershipInv, TypeOK, OneOwner, Rollback, Owned
<1>. QED
  BY <1>1, <1>3 DEF OwnershipInv

LEMMA CommitPreserves ==
  ASSUME OwnershipInv, NEW f \in Files, NEW kept \in SUBSET held[f], Commit(f, kept)
  PROVE  OwnershipInv'
<1>1. TypeOK'
  BY DEF OwnershipInv, TypeOK, Commit
<1>2. \A g \in Files : Owned(g)' = Owned(g)
  BY DEF OwnershipInv, TypeOK, Commit, Owned
<1>3. OneOwner'
  BY <1>2 DEF OwnershipInv, TypeOK, OneOwner, Commit, Owned
<1>. QED
  BY <1>1, <1>3 DEF OwnershipInv

LEMMA ReleasePreserves ==
  ASSUME OwnershipInv, NEW f \in Files, NEW blocks \in SUBSET retired[f], Release(f, blocks)
  PROVE  OwnershipInv'
<1>1. TypeOK'
  BY DEF OwnershipInv, TypeOK, Release
<1>2. \A g \in Files : Owned(g)' = IF g = f THEN Owned(g) \ blocks ELSE Owned(g)
  BY DEF OwnershipInv, TypeOK, OneOwner, Release, Owned
<1>3. OneOwner'
  BY <1>2 DEF OwnershipInv, TypeOK, OneOwner, Release, Owned
<1>. QED
  BY <1>1, <1>3 DEF OwnershipInv

LEMMA NextPreservesInv == OwnershipInv /\ [Next]_vars => OwnershipInv'
<1>1. ASSUME OwnershipInv, Next PROVE OwnershipInv'
  <2>1. PICK f \in Files :
          \/ \E blocks \in SUBSET free : Allocate(f, blocks)
          \/ Rollback(f)
          \/ \E kept \in SUBSET held[f] : Commit(f, kept)
          \/ \E blocks \in SUBSET retired[f] : Release(f, blocks)
    BY <1>1 DEF Next
  <2>. QED
    BY <1>1, <2>1, AllocatePreserves, RollbackPreserves, CommitPreserves, ReleasePreserves
<1>2. ASSUME OwnershipInv, UNCHANGED vars PROVE OwnershipInv'
  BY <1>2 DEF OwnershipInv, TypeOK, OneOwner, Owned, vars
<1>. QED
  BY <1>1, <1>2

LEMMA InvHolds == Spec => []OwnershipInv
  BY InitEstablishesInv, NextPreservesInv, PTL DEF Spec

\* Every block has one owner and none is lost, however the resizes of any
\* number of files interleave.
THEOREM EveryBlockHasOneOwner == Spec => []OneOwner
<1>1. OwnershipInv => OneOwner
  BY DEF OwnershipInv
<1>. QED
  BY <1>1, InvHolds, PTL

\* A step neither frees nor hands to another file a block that the metadata of
\* a file refers to: what a reader of that metadata finds is its own.
THEOREM HeldIsNeverTaken == Spec => NeverTakenWhileHeld
<1>1. ASSUME OwnershipInv, OwnershipInv', Next,
             NEW f \in Files
      PROVE  held[f] \cap (free' \cup UNION {Owned(g)' : g \in Files \ {f}}) = {}
  <2>1. PICK h \in Files :
          \/ \E blocks \in SUBSET free : Allocate(h, blocks)
          \/ Rollback(h)
          \/ \E kept \in SUBSET held[h] : Commit(h, kept)
          \/ \E blocks \in SUBSET retired[h] : Release(h, blocks)
    BY <1>1 DEF Next
  <2>2. held[f] \cap free' = {}
    BY <1>1, <2>1
    DEF OwnershipInv, TypeOK, OneOwner, Owned, Allocate, Rollback, Commit, Release
  <2>3. \A g \in Files \ {f} : held[f] \cap Owned(g)' = {}
    <3>1. ASSUME NEW g \in Files \ {f} PROVE Owned(g)' \subseteq Owned(g) \cup free
      BY <1>1, <2>1, <3>1
      DEF OwnershipInv, TypeOK, OneOwner, Owned, Allocate, Rollback, Commit, Release
    <3>. QED
      BY <1>1, <3>1 DEF OwnershipInv, OneOwner, Owned
  <2>. QED
    BY <2>2, <2>3
<1>2. OwnershipInv /\ OwnershipInv' /\ [Next]_vars =>
        [\A f \in Files :
           held[f] \cap (free' \cup UNION {Owned(g)' : g \in Files \ {f}}) = {}]_vars
  BY <1>1
<1>. QED
  BY <1>2, InvHolds, PTL DEF Spec, NeverTakenWhileHeld
=============================================================================
