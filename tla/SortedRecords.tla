--------------------------- MODULE SortedRecords ---------------------------
(***************************************************************************)
(* What a block of a directory promises: records, each with a key of its   *)
(* own.  A call adds, changes or drops the one it names, or it is refused  *)
(* and changes nothing.  A block that is divided goes on as the lesser or the  *)
(* greater half, while the other goes on elsewhere, or becomes the parent  *)
(* of both.  The least key of a parent is always the empty one: it stands  *)
(* for whatever is before the second.                                      *)
(***************************************************************************)
EXTENDS Integers, Sequences, FiniteSets

VARIABLES
  parent,   \* whether the records are blocks
  records,
  request,  \* the last call: its name, key and value
  outcome   \* what it came to

\* Lexicographic order of names.
Precedes(key, other) ==
  \E i \in 1..Len(other) :
    /\ i <= Len(key) + 1
    /\ \A j \in 1..(i - 1) : key[j] = other[j]
    /\ i <= Len(key) => key[i] < other[i]

KeysOf(set) == {record.key : record \in set}

Others(set, key) == {record \in set : record.key # key}

\* The records that have at least n before them, and those that have not.
From(set, n) ==
  {record \in set : Cardinality({other \in set : Precedes(other.key, record.key)}) >= n}
Before(set, n) == set \ From(set, n)

Least(set) == CHOOSE record \in set : Before(set, 1) = {record}

\* The records as this block keeps them.
Kept(set) ==
  IF parent /\ set # {} THEN From(set, 1) \cup {[Least(set) EXCEPT !.key = <<>>]} ELSE set
-----------------------------------------------------------------------------
\* An empty directory, or the parent of two blocks it was just divided into.
Init ==
  /\ IF parent THEN Cardinality(records) = 2 /\ Least(records).key = <<>> ELSE records = {}
  /\ request = [call |-> "init"] /\ outcome = "ok"

(* r: the request; before, after: the records.                             *)

With(set, r) == Others(set, r.key) \cup {[key |-> r.key, value |-> r.value]}

Add(r, before, after) ==
  r.call = "insert" /\ r.key \notin KeysOf(before) /\ after = With(before, r)

\* Something else is stored with the key.
Change(r, before, after) ==
  r.call = "replace" /\ r.key \in KeysOf(before) /\ after = With(before, r)

Drop(r, before, after) ==
  r.call = "erase" /\ r.key \in KeysOf(before) /\ after = Kept(Others(before, r.key))

Halve(r, before, after) ==
  LET half == Cardinality(before) \div 2
  IN  r.call = "split" /\ after \in {Before(before, half), Kept(From(before, half))}

\* Above the halves, which are told apart by the second's first key.
Raise(r, before, after) ==
  /\ r.call = "split"
  /\ Cardinality(after) = 2
  /\ KeysOf(after) = {<<>>, Least(From(before, Cardinality(before) \div 2)).key}

\* A directory whose last block went away is an empty one again.
Restart(r, before, after) ==
  r.call = "erase" /\ KeysOf(before) = {r.key} /\ after = {}

\* Before and after are bound to be evaluated once: in DirectoryTree each is a
\* walk through the tree.
Call ==
  /\ outcome' = "ok"
  /\ \E r \in {request'}, before \in {records}, after \in {records'} :
       \/ parent' = parent /\ (\/ Add(r, before, after) \/ Change(r, before, after)
                               \/ Drop(r, before, after) \/ Halve(r, before, after))
       \/ parent' /\ Raise(r, before, after)
       \/ parent /\ ~parent' /\ Restart(r, before, after)

Refuse == outcome' = "full" /\ request'.call # "split" /\ UNCHANGED <<parent, records>>

Next == Call \/ Refuse

Spec == Init /\ [][Next]_<<parent, records, request, outcome>>
=============================================================================
