----------------------------- MODULE SortedKeys -----------------------------
(***************************************************************************)
(* What the search trees inside a block promise their callers: sets of     *)
(* keys, one to a tree.  A call adds the key it names to the tree it names *)
(* or drops it, or it says that the key is there already, or it is refused *)
(* and changes nothing; a full block is split in two, and the caller goes  *)
(* on with either half.  PTree implements this.                            *)
(***************************************************************************)
CONSTANTS Trees, Keys, NotLess(_, _)

VARIABLES
  kept,     \* the keys of each tree
  other,    \* those of the other half, if the last call has split the block
  request,  \* the last call, with its tree and key
  outcome   \* what the last call returned

Whole == [tree \in Trees |-> {}]

Init == kept \in [Trees -> SUBSET Keys] /\ other = Whole /\ request = [call |-> "build"]

Has(r) == r.key \in kept[r.tree]

Add(r) ==
  /\ r.call = "insert" /\ ~Has(r)
  /\ kept' = [kept EXCEPT ![r.tree] = @ \cup {r.key}]
  /\ other' = Whole

Drop(r) ==
  /\ r.call = "erase" /\ Has(r)
  /\ kept' = [kept EXCEPT ![r.tree] = @ \ {r.key}]
  /\ other' = Whole

\* All trees at one point, and nothing is lost.
Halve(r) ==
  /\ r.call = "split"
  /\ \A tree \in Trees : kept[tree] = kept'[tree] \cup other'[tree]
  /\ kept' # Whole /\ other' # Whole
  /\ LET Above(upper, lower) ==
           \A one, two \in Trees : \A key \in upper[one], point \in lower[two] :
             NotLess(key, point) /\ key # point
     IN  Above(kept', other') \/ Above(other', kept')

Exists(r) == r.call = "insert" /\ Has(r) /\ UNCHANGED <<kept, other>>

Full(r) == r.call = "insert" /\ ~Has(r) /\ UNCHANGED <<kept, other>>

Next ==
  \E r \in {request'} :
    \/ outcome' = "ok" /\ (Add(r) \/ Drop(r) \/ Halve(r))
    \/ outcome' = "exists" /\ Exists(r)
    \/ outcome' = "full" /\ Full(r)

Spec == Init /\ [][Next]_<<kept, other, request, outcome>>
=============================================================================
