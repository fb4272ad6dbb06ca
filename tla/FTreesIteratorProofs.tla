------------------------ MODULE FTreesIteratorProofs ------------------------
(***************************************************************************)
(* A walk over any number of trees, of any length, visits their keys in    *)
(* order and knows its ends, however it turns round.                       *)
(***************************************************************************)
EXTENDS FTreesIterator, TLAPS

TypeInv ==
  /\ items \in [Buckets -> Seq(Nat)]
  /\ at \in [Buckets -> Nat]
  /\ \A b \in Buckets : at[b] \in 1..(Len(items[b]) + 1)
  /\ index \in Buckets
  /\ is_forward \in BOOLEAN
  /\ reverse_end \subseteq Buckets

\* Going forward, each tree is cut at the current key.
ForwardInv ==
  is_forward =>
    /\ reverse_end = {}
    /\ IsEnd(index) => \A b \in Buckets : IsEnd(b)
    /\ ~IsEnd(index) =>
         \A b \in Buckets : \A i \in DOMAIN items[b] :
           /\ i < at[b] => items[b][i] < Here
           /\ i >= at[b] => items[b][i] >= Here

\* Going backward, each other tree stands at its last key before the current
\* one, or is among those that have none.
BackwardInv ==
  ~is_forward =>
    /\ ~IsEnd(index)
    /\ index \in reverse_end <=> at[index] = 1
    /\ \A b \in Buckets \ {index} :
         IF b \in reverse_end
         THEN at[b] = 1 /\ \A i \in DOMAIN items[b] : items[b][i] > Here
         ELSE /\ ~IsEnd(b)
              /\ \A i \in DOMAIN items[b] :
                   /\ i <= at[b] => items[b][i] < Here
                   /\ i > at[b] => items[b][i] > Here

TreesInv == items \in [Buckets -> Seq(Nat)] /\ Sorted(items)

WalkInv == TypeInv /\ Sorted(items) /\ ForwardInv /\ BackwardInv

\* The places that a step reaches going forward cut each tree behind `key`.
CutBehind(key) ==
  \A b \in Buckets :
    /\ at'[b] \in 1..(Len(items[b]) + 1)
    /\ \A i \in DOMAIN items[b] : i < at'[b] => items[b][i] <= key
    /\ \A i \in DOMAIN items[b] : i >= at'[b] => items[b][i] > key

\* What is before the current key, everything if there is none.
IsBefore(key) == ~IsEnd(index) => key < Here

\* Those it reaches going backward are last before the current key, except in
\* the trees that are out.
CutBefore(out) ==
  \A b \in Buckets :
    /\ at'[b] \in 1..(Len(items[b]) + 1)
    /\ b \in out => at'[b] = 1 /\ \A i \in DOMAIN items[b] : ~IsBefore(items[b][i])
    /\ b \notin out =>
         /\ at'[b] # Len(items[b]) + 1
         /\ \A i \in DOMAIN items[b] : i <= at'[b] => IsBefore(items[b][i])
         /\ \A i \in DOMAIN items[b] : i > at'[b] => ~IsBefore(items[b][i])
-----------------------------------------------------------------------------
LEMMA TreesAreSequences ==
  ASSUME items \in [Buckets -> Seq(Nat)]
  PROVE  \A b \in Buckets :
           /\ Len(items[b]) \in Nat
           /\ DOMAIN items[b] = 1..Len(items[b])
           /\ \A i \in DOMAIN items[b] : items[b][i] \in Nat
<1> SUFFICES ASSUME NEW b \in Buckets
             PROVE  /\ Len(items[b]) \in Nat
                    /\ DOMAIN items[b] = 1..Len(items[b])
                    /\ \A i \in DOMAIN items[b] : items[b][i] \in Nat
  OBVIOUS
<1>1. items[b] \in Seq(Nat)
  OBVIOUS
<1>2. Len(items[b]) \in Nat /\ DOMAIN items[b] = 1..Len(items[b])
  BY <1>1
<1>3. \A i \in DOMAIN items[b] : items[b][i] \in Nat
  BY <1>1
<1> QED
  BY <1>2, <1>3

\* The least key at the places behind `key` is the next one.
LEMMA LeastIsNext ==
  ASSUME TreesInv, UNCHANGED items, at' \in [Buckets -> Nat],
         NEW key \in Int, CutBehind(key),
         is_forward' = TRUE, reverse_end' = {},
         index' \in Buckets, IsLeast(items, at', {}, index')
  PROVE  /\ WalkInv'
         /\ ~IsEnd(index)' => Here' > key
         /\ \A b \in Buckets : \A i \in DOMAIN items[b] :
              items[b][i] > key => ~IsEnd(index)' /\ Here' <= items[b][i]
<1> USE DEF WalkInv, EndOf, IsEnd, Here
<1>0. \A b \in Buckets :
        /\ Len(items[b]) \in Nat
        /\ DOMAIN items[b] = 1..Len(items[b])
        /\ \A i \in DOMAIN items[b] : items[b][i] \in Nat
  BY TreesAreSequences DEF TreesInv
<1>1. TypeInv'
  BY DEF TypeInv, TreesInv, CutBehind
<1>2. Sorted(items) /\ Sorted(items)'
  BY DEF Sorted, TreesInv
<1>3. CASE \A b \in Buckets : at'[b] = Len(items[b]) + 1
  <2>1. \A b \in Buckets : IsEnd(b)'
    BY <1>3
  <2>2. ForwardInv' /\ BackwardInv'
    BY <2>1 DEF ForwardInv, BackwardInv
  <2>3. \A b \in Buckets : \A i \in DOMAIN items[b] : items[b][i] <= key
    BY <1>0, <1>3, SMT DEF CutBehind
  <2>4. \A b \in Buckets : \A i \in DOMAIN items[b] : items[b][i] \in Nat
    BY <1>0
  <2> QED
    BY <1>1, <1>2, <2>1, <2>2, <2>3, <2>4, SMT
<1>4. CASE \E b \in Buckets : at'[b] # Len(items[b]) + 1
  <2>1. /\ index' \in Candidates(items, at', {})
        /\ \A c \in Candidates(items, at', {}) : items[index'][at'[index']] <= items[c][at'[c]]
    BY <1>4 DEF IsLeast, Candidates
  <2> DEFINE here == items[index'][at'[index']]
  <2>2. /\ index' \in Buckets /\ at'[index'] \in DOMAIN items[index'] /\ ~IsEnd(index)'
        /\ here \in Nat /\ here > key
    <3>1. index' \in Buckets /\ at'[index'] # Len(items[index']) + 1
      BY <2>1 DEF Candidates
    <3>2. at'[index'] \in 1..(Len(items[index']) + 1) /\ at'[index'] \in DOMAIN items[index']
      BY <1>0, <3>1, SMT DEF CutBehind
    <3>3. here \in Nat /\ here > key
      BY <1>0, <3>1, <3>2, SMT DEF CutBehind
    <3> QED
      BY <3>1, <3>2, <3>3
  <2>3. ASSUME NEW b \in Buckets, NEW i \in DOMAIN items[b], i >= at'[b]
        PROVE  items[b][i] >= here
    <3>1. at'[b] \in DOMAIN items[b] /\ b \in Candidates(items, at', {})
      BY <1>0, <2>3, SMT DEF CutBehind, Candidates
    <3>2. items[b][at'[b]] >= here
      BY <2>1, <3>1
    <3>3. i = at'[b] \/ items[b][at'[b]] < items[b][i]
      BY <1>0, <1>2, <2>3, <3>1, SMT DEF Sorted
    <3> QED
      BY <1>0, <2>2, <3>1, <3>2, <3>3, SMT
  <2>4. ASSUME NEW b \in Buckets, NEW i \in DOMAIN items[b], i < at'[b]
        PROVE  items[b][i] <= key /\ items[b][i] < here
    BY <1>0, <2>2, <2>4, SMT DEF CutBehind
  <2>5. ForwardInv' /\ BackwardInv'
    BY <1>0, <2>2, <2>3, <2>4, SMT DEF ForwardInv, BackwardInv
  <2>6. ASSUME NEW b \in Buckets, NEW i \in DOMAIN items[b], items[b][i] > key
        PROVE  here <= items[b][i]
    <3>1. i >= at'[b]
      BY <1>0, <2>4, <2>6, SMT DEF CutBehind
    <3> QED
      BY <2>3, <3>1
  <2> QED
    BY <1>1, <1>2, <2>2, <2>5, <2>6, SMT
<1> QED
  BY <1>3, <1>4

\* The greatest key at the places before the current one is the previous one.
LEMMA GreatestIsPrevious ==
  ASSUME WalkInv, UNCHANGED items, at' \in [Buckets -> Nat],
         NEW out \in SUBSET Buckets, CutBefore(out), out # Buckets,
         is_forward' = FALSE,
         index' \in Buckets, IsGreatest(items, at', out, index'),
         reverse_end' = out \cup (IF at'[index'] = 1 THEN {index'} ELSE {})
  PROVE  WalkInv' /\ Backwards
<1> USE DEF WalkInv, EndOf, IsEnd, Here
<1>0. \A b \in Buckets :
        /\ Len(items[b]) \in Nat
        /\ DOMAIN items[b] = 1..Len(items[b])
        /\ \A i \in DOMAIN items[b] : items[b][i] \in Nat
  BY TreesAreSequences DEF TypeInv
<1>1. TypeInv'
  BY DEF TypeInv, CutBefore
<1>2. Sorted(items)'
  BY DEF Sorted
<1>3. Candidates(items, at', out) = Buckets \ out
  BY DEF Candidates, CutBefore
<1>4. /\ index' \in Buckets \ out
      /\ \A c \in Buckets \ out : items[c][at'[c]] <= items[index'][at'[index']]
  BY <1>3 DEF IsGreatest
<1> DEFINE here == items[index'][at'[index']]
<1>5. /\ at'[index'] \in DOMAIN items[index'] /\ ~IsEnd(index)'
      /\ here \in Nat /\ IsBefore(here)
  BY <1>4, SMT DEF CutBefore, TypeInv
<1>6. ASSUME NEW b \in Buckets \ out
      PROVE  /\ at'[b] \in DOMAIN items[b]
             /\ \A i \in DOMAIN items[b] : i <= at'[b] => items[b][i] <= here
             /\ b # index' => \A i \in DOMAIN items[b] : i <= at'[b] => items[b][i] < here
  <2>1. at'[b] \in DOMAIN items[b]
    BY SMT DEF CutBefore, TypeInv
  <2>2. \A i \in DOMAIN items[b] : i <= at'[b] => items[b][i] <= items[b][at'[b]]
    BY <1>0, <2>1, SMT DEF Sorted
  <2>3. items[b][at'[b]] <= here /\ (b # index' => items[b][at'[b]] # here)
    BY <1>4, <1>5, <2>1 DEF Sorted
  <2>4. items[b][at'[b]] \in Nat /\ \A i \in DOMAIN items[b] : items[b][i] \in Nat
    BY <1>0, <2>1
  <2> QED
    BY <1>5, <2>1, <2>2, <2>3, <2>4, SMT
<1>7. \A b \in Buckets : \A i \in DOMAIN items[b] : ~IsBefore(items[b][i]) => items[b][i] > here
  <2>1. \A b \in Buckets : \A i \in DOMAIN items[b] : items[b][i] \in Nat
    BY DEF TypeInv
  <2>2. ~IsEnd(index) => Here \in Nat
    BY SMT DEF TypeInv
  <2> QED
    BY <1>5, <2>1, <2>2, SMT DEF IsBefore
<1>8. ForwardInv'
  BY DEF ForwardInv
<1>9. BackwardInv'
  <2>1. index' \in reverse_end' <=> at'[index'] = 1
    BY <1>4
  <2>2. ASSUME NEW b \in Buckets \ {index'}, b \in reverse_end'
        PROVE  at'[b] = 1 /\ \A i \in DOMAIN items[b] : items[b][i] > here
    BY <2>2, <1>7 DEF CutBefore
  <2>3. ASSUME NEW b \in Buckets \ {index'}, b \notin reverse_end'
        PROVE  /\ at'[b] # Len(items[b]) + 1
               /\ \A i \in DOMAIN items[b] : i <= at'[b] => items[b][i] < here
               /\ \A i \in DOMAIN items[b] : i > at'[b] => items[b][i] > here
    BY <2>3, <1>6, <1>7 DEF CutBefore
  <2> QED
    BY <1>5, <2>1, <2>2, <2>3 DEF BackwardInv
<1>10. Backwards
  <2>1. ~IsEnd(index)' /\ (~IsEnd(index) => Here' < Here)
    BY <1>5, SMT DEF IsBefore
  <2>2. ASSUME NEW b \in Buckets, NEW i \in DOMAIN items[b], IsBefore(items[b][i])
        PROVE  items[b][i] <= here
    <3>1. b \notin out
      BY <2>2 DEF CutBefore
    <3>2. i <= at'[b]
      BY <2>2, <3>1, <1>6, SMT DEF CutBefore, TypeInv
    <3> QED
      BY <3>1, <3>2, <1>6
  <2> QED
    BY <2>1, <2>2 DEF Backwards, IsBefore
<1> QED
  BY <1>1, <1>2, <1>8, <1>9, <1>10
-----------------------------------------------------------------------------
(* The operations reach such places.                                       *)

\* begin(): every tree at its first key.
LEMMA BeginCuts ==
  ASSUME TreesInv, at' = [b \in Buckets |-> 1]
  PROVE  CutBehind(-1) /\ at' \in [Buckets -> Nat]
BY TreesAreSequences, SMT DEF CutBehind, TreesInv

\* ++ the same way: only the current tree goes on, by one.
LEMMA ForwardCuts ==
  ASSUME WalkInv, is_forward, ~IsEnd(index), at' = [at EXCEPT ![index] = @ + 1]
  PROVE  CutBehind(Here) /\ at' \in [Buckets -> Nat] /\ Here \in Nat
<1> USE DEF WalkInv, EndOf, IsEnd, Here
<1>0. \A b \in Buckets :
        /\ Len(items[b]) \in Nat
        /\ DOMAIN items[b] = 1..Len(items[b])
        /\ \A i \in DOMAIN items[b] : items[b][i] \in Nat
  BY TreesAreSequences DEF TypeInv
<1>1. /\ index \in Buckets /\ at[index] \in DOMAIN items[index] /\ Here \in Nat
      /\ at \in [Buckets -> Nat] /\ \A b \in Buckets : at[b] \in 1..(Len(items[b]) + 1)
  BY <1>0, SMT DEF TypeInv
<1>2. \A b \in Buckets : \A i \in DOMAIN items[b] :
        (i < at[b] => items[b][i] < Here) /\ (i >= at[b] => items[b][i] >= Here)
  BY DEF ForwardInv
<1>3. ASSUME NEW b \in Buckets, b # index
      PROVE  /\ at'[b] = at[b]
             /\ \A i \in DOMAIN items[b] : items[b][i] # Here
  BY <1>1, <1>3 DEF Sorted
<1>4. ASSUME NEW i \in DOMAIN items[index]
      PROVE  (i < at[index] + 1 => items[index][i] <= Here) /\ (i >= at[index] + 1 => items[index][i] > Here)
  BY <1>0, <1>1, <1>2, <1>4, SMT DEF Sorted
<1>5. at'[index] = at[index] + 1 /\ at' \in [Buckets -> Nat]
  BY <1>1
<1>6. ASSUME NEW b \in Buckets
      PROVE  /\ at'[b] \in 1..(Len(items[b]) + 1)
             /\ \A i \in DOMAIN items[b] : i < at'[b] => items[b][i] <= Here
             /\ \A i \in DOMAIN items[b] : i >= at'[b] => items[b][i] > Here
  <2>1. CASE b = index
    BY <1>0, <1>1, <1>4, <1>5, <2>1, SMT
  <2>2. CASE b # index
    BY <1>0, <1>1, <1>2, <1>3, <2>2, SMT
  <2> QED
    BY <2>1, <2>2
<1> QED
  BY <1>1, <1>5, <1>6 DEF CutBehind

\* ++ after --: each tree that stands before the current key goes on by one.
LEMMA TurnForwardCuts ==
  ASSUME WalkInv, ~is_forward, at' \in [Buckets -> Nat], TurnForward
  PROVE  CutBehind(Here) /\ Here \in Nat
<1> USE DEF WalkInv, EndOf, IsEnd, Here
<1>0. \A b \in Buckets :
        /\ Len(items[b]) \in Nat
        /\ DOMAIN items[b] = 1..Len(items[b])
        /\ \A i \in DOMAIN items[b] : items[b][i] \in Nat
  BY TreesAreSequences DEF TypeInv
<1>1. /\ index \in Buckets /\ at[index] \in DOMAIN items[index] /\ Here \in Nat
      /\ at \in [Buckets -> Nat] /\ \A b \in Buckets : at[b] \in 1..(Len(items[b]) + 1)
  BY <1>0, SMT DEF TypeInv, BackwardInv
<1>2. ASSUME NEW b \in Buckets, b \in reverse_end \ {index}
      PROVE  at'[b] = 1 /\ \A i \in DOMAIN items[b] : items[b][i] > Here
  BY <1>2 DEF TurnForward, BackwardInv
<1>3. ASSUME NEW b \in Buckets, b \notin reverse_end \ {index}
      PROVE  /\ at[b] \in DOMAIN items[b]
             /\ \A i \in DOMAIN items[b] : i <= at[b] => items[b][i] <= Here
             /\ \A i \in DOMAIN items[b] : i > at[b] => items[b][i] > Here
  <2>1. CASE b = index
    BY <1>0, <1>1, <2>1, SMT DEF Sorted
  <2>2. CASE b # index
    <3>1. /\ ~IsEnd(b)
          /\ \A i \in DOMAIN items[b] : i <= at[b] => items[b][i] < Here
          /\ \A i \in DOMAIN items[b] : i > at[b] => items[b][i] > Here
      BY <1>3, <2>2 DEF BackwardInv
    <3> QED
      BY <1>0, <1>1, <3>1, SMT
  <2> QED
    BY <2>1, <2>2
<1>4. ASSUME NEW b \in Buckets, b \notin reverse_end \ {index}
      PROVE  at'[b] = at[b] + 1
  <2>1. at[b] # Len(items[b]) + 1
    BY <1>0, <1>1, <1>3, <1>4, SMT
  <2>2. Ahead(b, Here, at'[b])
    BY <1>4, <2>1 DEF TurnForward
  <2> QED
    <3>1. /\ at'[b] \in (at[b] + 1)..(Len(items[b]) + 1)
          /\ \A j \in (at[b] + 1)..(at'[b] - 1) : items[b][j] < Here
      BY <2>2 DEF Ahead
    <3>2. ASSUME at'[b] # at[b] + 1
          PROVE  FALSE
      <4>1. /\ at[b] + 1 \in (at[b] + 1)..(at'[b] - 1)
            /\ at[b] + 1 \in DOMAIN items[b] /\ at[b] + 1 > at[b]
        BY <1>0, <1>1, <3>1, <3>2, SMT
      <4>2. items[b][at[b] + 1] < Here /\ items[b][at[b] + 1] > Here
        BY <1>3, <1>4, <3>1, <4>1
      <4> QED
        BY <1>0, <1>1, <4>1, <4>2, SMT
    <3> QED
      BY <3>2
<1>5. ASSUME NEW b \in Buckets
      PROVE  /\ at'[b] \in 1..(Len(items[b]) + 1)
             /\ \A i \in DOMAIN items[b] : i < at'[b] => items[b][i] <= Here
             /\ \A i \in DOMAIN items[b] : i >= at'[b] => items[b][i] > Here
  <2>1. CASE b \in reverse_end \ {index}
    BY <1>0, <1>2, <2>1, SMT
  <2>2. CASE b \notin reverse_end \ {index}
    BY <1>0, <1>1, <1>3, <1>4, <2>2, SMT
  <2> QED
    BY <2>1, <2>2
<1> QED
  BY <1>1, <1>5 DEF CutBehind

\* -- after ++: each tree that has a key before the current one goes back to it.
LEMMA TurnBackwardCuts ==
  ASSUME WalkInv, is_forward, ~AtBegin, at' \in [Buckets -> Nat], TurnBackward
  PROVE  CutBefore(AlreadyFirst) /\ AlreadyFirst \in SUBSET Buckets /\ AlreadyFirst # Buckets
<1> USE DEF WalkInv, EndOf, IsEnd, IsBegin, Here
<1>0. \A b \in Buckets :
        /\ Len(items[b]) \in Nat
        /\ DOMAIN items[b] = 1..Len(items[b])
        /\ \A i \in DOMAIN items[b] : items[b][i] \in Nat
  BY TreesAreSequences DEF TypeInv
<1>1. /\ index \in Buckets
      /\ at \in [Buckets -> Nat] /\ \A b \in Buckets : at[b] \in 1..(Len(items[b]) + 1)
  BY DEF TypeInv
<1>2. ~IsEnd(index) => Here \in Nat
  BY <1>0, <1>1, SMT
<1>3. ASSUME NEW b \in Buckets, NEW i \in DOMAIN items[b]
      PROVE  (i < at[b] => IsBefore(items[b][i])) /\ (i >= at[b] => ~IsBefore(items[b][i]))
  <2>1. CASE IsEnd(index)
    <3>1. at[b] = Len(items[b]) + 1
      BY <2>1 DEF ForwardInv
    <3> QED
      BY <1>0, <1>1, <2>1, <3>1, SMT DEF IsBefore
  <2>2. CASE ~IsEnd(index)
    <3>1. (i < at[b] => items[b][i] < Here) /\ (i >= at[b] => items[b][i] >= Here)
      BY <2>2 DEF ForwardInv
    <3>2. items[b][i] \in Nat
      BY <1>0
    <3> QED
      BY <1>0, <1>1, <1>2, <2>2, <3>1, <3>2, SMT DEF IsBefore
  <2> QED
    BY <2>1, <2>2
<1>4. ASSUME NEW b \in Buckets
      PROVE  b \in AlreadyFirst <=> at[b] = 1
  <2>1. at[b] = 1 /\ ~IsEnd(b) => ~IsEnd(index) /\ items[b][1] >= Here
    BY <1>0, <1>1, SMT DEF ForwardInv
  <2> QED
    BY <2>1 DEF AlreadyFirst
<1>5. ASSUME NEW b \in Buckets, at[b] # 1
      PROVE  at'[b] = at[b] - 1
  <2>1. /\ at'[b] \in 1..(at[b] - 1)
        /\ \A j \in (at'[b] + 1)..(at[b] - 1) : IsAbove(items[b][j])
    BY <1>5 DEF TurnBackward, Behind
  <2>2. ASSUME at'[b] # at[b] - 1
        PROVE  FALSE
    <3>1. /\ at[b] - 1 \in (at'[b] + 1)..(at[b] - 1)
          /\ at[b] - 1 \in DOMAIN items[b] /\ at[b] - 1 < at[b]
      BY <1>0, <1>1, <2>1, <2>2, SMT
    <3>2. ~IsEnd(index) /\ items[b][at[b] - 1] > Here
      BY <2>1, <3>1 DEF IsAbove
    <3>3. items[b][at[b] - 1] < Here
      BY <1>3, <3>1, <3>2 DEF IsBefore
    <3> QED
      BY <1>0, <1>2, <3>1, <3>2, <3>3, SMT
  <2> QED
    BY <2>2
<1>6. ASSUME NEW b \in Buckets, b \in AlreadyFirst
      PROVE  at'[b] = 1 /\ \A i \in DOMAIN items[b] : ~IsBefore(items[b][i])
  <2>1. at[b] = 1 /\ at'[b] = 1
    BY <1>4, <1>6 DEF TurnBackward
  <2>2. \A i \in DOMAIN items[b] : i >= at[b]
    BY <1>0, <2>1, SMT
  <2> QED
    BY <1>3, <2>1, <2>2
<1>7. ASSUME NEW b \in Buckets, b \notin AlreadyFirst
      PROVE  /\ at'[b] \in 1..Len(items[b])
             /\ \A i \in DOMAIN items[b] : i <= at'[b] => IsBefore(items[b][i])
             /\ \A i \in DOMAIN items[b] : i > at'[b] => ~IsBefore(items[b][i])
  <2>1. at[b] # 1 /\ at'[b] = at[b] - 1
    BY <1>4, <1>5, <1>7
  <2>2. \A i \in DOMAIN items[b] : (i <= at'[b] => i < at[b]) /\ (i > at'[b] => i >= at[b])
    BY <1>0, <1>1, <2>1, SMT
  <2>3. at'[b] \in 1..Len(items[b])
    BY <1>0, <1>1, <2>1, SMT
  <2> QED
    BY <1>3, <2>2, <2>3
<1>8. CutBefore(AlreadyFirst)
  <2>1. ASSUME NEW b \in Buckets
        PROVE  at'[b] \in 1..(Len(items[b]) + 1)
               /\ (b \notin AlreadyFirst => at'[b] # Len(items[b]) + 1)
    BY <1>0, <1>6, <1>7, SMT
  <2> QED
    BY <1>6, <1>7, <2>1 DEF CutBefore
<1>9. AlreadyFirst # Buckets
  BY <1>4 DEF AtBegin
<1> QED
  BY <1>8, <1>9 DEF AlreadyFirst

\* -- the same way: the current tree goes back by one, unless it was at its first.
LEMMA BackwardCuts ==
  ASSUME WalkInv, ~is_forward, ~AtBegin,
         IF index \in reverse_end THEN at' = at ELSE at' = [at EXCEPT ![index] = @ - 1]
  PROVE  CutBefore(reverse_end) /\ reverse_end # Buckets /\ at' \in [Buckets -> Nat]
<1> USE DEF WalkInv, EndOf, IsEnd, IsBegin, Here
<1>0. \A b \in Buckets :
        /\ Len(items[b]) \in Nat
        /\ DOMAIN items[b] = 1..Len(items[b])
        /\ \A i \in DOMAIN items[b] : items[b][i] \in Nat
  BY TreesAreSequences DEF TypeInv
<1>1. /\ index \in Buckets /\ at[index] \in DOMAIN items[index] /\ Here \in Nat
      /\ at \in [Buckets -> Nat] /\ \A b \in Buckets : at[b] \in 1..(Len(items[b]) + 1)
      /\ ~IsEnd(index) /\ (index \in reverse_end <=> at[index] = 1)
  BY <1>0, SMT DEF TypeInv, BackwardInv
<1>2. \A i \in DOMAIN items[index] :
        (i < at[index] => items[index][i] < Here) /\ (i >= at[index] => items[index][i] >= Here)
  BY <1>0, <1>1, SMT DEF Sorted
<1>3. /\ at'[index] = IF index \in reverse_end THEN at[index] ELSE at[index] - 1
      /\ \A b \in Buckets \ {index} : at'[b] = at[b]
      /\ at' \in [Buckets -> Nat]
  BY <1>1, SMT
<1>4. \A b \in Buckets : \A i \in DOMAIN items[b] :
        (IsBefore(items[b][i]) <=> items[b][i] < Here) /\ items[b][i] \in Nat
  BY <1>0, <1>1 DEF IsBefore
<1>5. ASSUME NEW b \in Buckets
      PROVE  /\ at'[b] \in 1..(Len(items[b]) + 1)
             /\ b \in reverse_end => at'[b] = 1 /\ \A i \in DOMAIN items[b] : ~IsBefore(items[b][i])
             /\ b \notin reverse_end =>
                  /\ at'[b] # Len(items[b]) + 1
                  /\ \A i \in DOMAIN items[b] : i <= at'[b] => IsBefore(items[b][i])
                  /\ \A i \in DOMAIN items[b] : i > at'[b] => ~IsBefore(items[b][i])
  <2>1. CASE b = index
    <3>1. CASE index \in reverse_end
      BY <1>0, <1>1, <1>2, <1>3, <1>4, <2>1, <3>1, SMT
    <3>2. CASE index \notin reverse_end
      <4>1. /\ at'[b] = at[b] - 1 /\ at[b] # 1 /\ at[b] \in 1..Len(items[b])
            /\ \A i \in DOMAIN items[b] : (i < at[b] => IsBefore(items[b][i]))
                                          /\ (i >= at[b] => ~IsBefore(items[b][i]))
        BY <1>0, <1>1, <1>2, <1>3, <1>4, <2>1, <3>2, SMT
      <4> QED
        BY <1>0, <2>1, <3>2, <4>1, SMT
    <3> QED
      BY <3>1, <3>2
  <2>2. CASE b # index
    <3>1. CASE b \in reverse_end
      <4>1. at[b] = 1 /\ \A i \in DOMAIN items[b] : items[b][i] > Here
        BY <2>2, <3>1 DEF BackwardInv
      <4> QED
        BY <1>0, <1>1, <1>3, <1>4, <2>2, <3>1, <4>1, SMT
    <3>2. CASE b \notin reverse_end
      <4>1. /\ at[b] # Len(items[b]) + 1
            /\ \A i \in DOMAIN items[b] : i <= at[b] => items[b][i] < Here
            /\ \A i \in DOMAIN items[b] : i > at[b] => items[b][i] > Here
        BY <2>2, <3>2 DEF BackwardInv
      <4> QED
        BY <1>0, <1>1, <1>3, <1>4, <2>2, <3>2, <4>1, SMT
    <3> QED
      BY <3>1, <3>2
  <2> QED
    BY <2>1, <2>2
<1> QED
  BY <1>1, <1>3, <1>5 DEF CutBefore, AtBegin
-----------------------------------------------------------------------------
\* find(): the tree with the greatest key not above the one asked for stands
\* there, the others are cut behind it.
LEMMA FindCuts ==
  ASSUME TreesInv, NEW key \in Nat, Find(key), sure'
  PROVE  WalkInv'
<1> USE DEF WalkInv, EndOf, IsEnd, Here
<1>0. \A b \in Buckets :
        /\ Len(items[b]) \in Nat
        /\ DOMAIN items[b] = 1..Len(items[b])
        /\ \A i \in DOMAIN items[b] : items[b][i] \in Nat
  BY TreesAreSequences DEF TreesInv
<1>s. Sorted(items)
  BY DEF TreesInv
<1>1. PICK near \in Places : FindFrom(near, key)
  BY DEF Find
<1> DEFINE before == Before(near, key)
<1>2. /\ index' \in Buckets /\ UNCHANGED items /\ is_forward' = TRUE /\ reverse_end' = {}
      /\ before # {} => IsGreatest(items, near, Buckets \ before, index')
      /\ before = {} => IsLeast(items, near, {}, index')
      /\ at' = [c \in Buckets |-> IF c \in before \ {index'} THEN near[c] + 1 ELSE near[c]]
  BY <1>1 DEF FindFrom
<1>3. ASSUME NEW b \in Buckets
      PROVE  /\ near[b] \in Nat /\ near[b] >= 1
             /\ near[b] # 1 => near[b] \in DOMAIN items[b] /\ items[b][near[b]] <= key
             /\ \A j \in DOMAIN items[b] : near[b] < j => items[b][j] > key
  <2>1. near[b] \in UNION {1..EndOf(items, c) : c \in Buckets}
    BY DEF Places
  <2>2. near[b] \in Nat /\ near[b] >= 1
    BY <1>0, <2>1, SMT
  <2> QED
    BY <1>1, <2>2 DEF FindFrom, LastUpTo
<1>4. ASSUME NEW b \in Buckets, b \in before
      PROVE  near[b] \in DOMAIN items[b] /\ items[b][near[b]] <= key
  <2>1. near[b] # Len(items[b]) + 1 /\ items[b][near[b]] <= key
    BY <1>4 DEF Before, Candidates
  <2> QED
    BY <1>0, <1>3, <2>1, SMT
<1>5. ASSUME NEW b \in Buckets, b \notin before
      PROVE  near[b] = 1 /\ \A i \in DOMAIN items[b] : items[b][i] > key
  <2>1. near[b] = 1
    BY <1>0, <1>3, <1>5, SMT DEF Before, Candidates
  <2>2. ASSUME NEW i \in DOMAIN items[b]
        PROVE  items[b][i] > key
    <3>1. CASE i = 1
      <4>1. b \in Candidates(items, near, {})
        BY <1>0, <2>1, <3>1, SMT DEF Candidates
      <4>2. ~(items[b][1] <= key)
        BY <1>5, <2>1, <4>1 DEF Before
      <4> QED
        BY <1>0, <3>1, <4>2, SMT
    <3>2. CASE i # 1
      BY <1>0, <1>3, <2>1, <3>2, SMT
    <3> QED
      BY <3>1, <3>2
  <2> QED
    BY <2>1, <2>2
<1>6. at' \in [Buckets -> Nat]
  BY <1>2, <1>3, SMT
<1>7. CASE before = {}
  <2>1. at' = near /\ at' = [b \in Buckets |-> 1]
    <3>1. \A b \in Buckets : near[b] = 1
      BY <1>5, <1>7
    <3> QED
      BY <1>2, <1>7, <3>1 DEF Places
  <2>2. CutBehind(-1)
    BY <2>1, BeginCuts
  <2>3. IsLeast(items, at', {}, index')
    BY <1>2, <1>7, <2>1
  <2> QED
    BY <1>2, <1>6, <2>2, <2>3, LeastIsNext
<1>8. CASE before # {}
  <2>1. /\ index' \in before
        /\ \A c \in before : items[c][near[c]] <= items[index'][near[index']]
    <3>1. Candidates(items, near, Buckets \ before) = before
      BY DEF Before, Candidates
    <3> QED
      BY <1>2, <1>8, <3>1 DEF IsGreatest
  <2> DEFINE here == items[index'][near[index']]
  <2>2. /\ near[index'] \in DOMAIN items[index'] /\ here \in Nat /\ here <= key
        /\ at'[index'] = near[index'] /\ ~IsEnd(index)'
    BY <1>0, <1>2, <1>4, <2>1, SMT
  <2>3. ASSUME NEW b \in Buckets
        PROVE  /\ at'[b] \in 1..(Len(items[b]) + 1)
               /\ \A i \in DOMAIN items[b] : (i < at'[b] => items[b][i] < here)
                                             /\ (i >= at'[b] => items[b][i] >= here)
    <3>1. CASE b = index'
      BY <1>0, <1>s, <2>2, <3>1, SMT DEF Sorted
    <3>2. CASE b \in before \ {index'}
      <4>1. /\ near[b] \in DOMAIN items[b] /\ at'[b] = near[b] + 1
            /\ items[b][near[b]] <= here /\ items[b][near[b]] # here
        BY <1>s, <1>2, <1>4, <2>1, <2>2, <3>2 DEF Sorted
      <4>2. \A i \in DOMAIN items[b] : i < near[b] => items[b][i] < items[b][near[b]]
        BY <1>s, <4>1 DEF Sorted
      <4>3. \A i \in DOMAIN items[b] : near[b] < i => items[b][i] > key
        BY <1>3
      <4> QED
        BY <1>0, <2>2, <4>1, <4>2, <4>3, SMT
    <3>3. CASE b \notin before
      <4>1. at'[b] = 1 /\ \A i \in DOMAIN items[b] : items[b][i] > key
        BY <1>2, <1>5, <3>3
      <4> QED
        BY <1>0, <2>2, <4>1, SMT
    <3> QED
      BY <3>1, <3>2, <3>3
  <2>4. TypeInv'
    BY <1>2, <1>6, <2>3 DEF TypeInv, TreesInv
  <2>5. ForwardInv' /\ BackwardInv'
    BY <1>2, <2>2, <2>3 DEF ForwardInv, BackwardInv
  <2>6. Sorted(items)'
    BY <1>s, <1>2 DEF Sorted
  <2> QED
    BY <2>4, <2>5, <2>6
<1> QED
  BY <1>7, <1>8

\* end()
LEMMA EndCuts ==
  ASSUME TreesInv, End
  PROVE  WalkInv'
<1>0. \A b \in Buckets : Len(items[b]) \in Nat
  BY TreesAreSequences DEF TreesInv
<1>1. TypeInv'
  BY <1>0, FirstAssumption, SMT DEF TreesInv, TypeInv, End, EndOf
<1>2. Sorted(items)'
  BY DEF TreesInv, Sorted, End
<1>3. (\A b \in Buckets : IsEnd(b)') /\ index' \in Buckets /\ is_forward' = TRUE /\ reverse_end' = {}
  BY FirstAssumption DEF End, IsEnd
<1>4. ForwardInv' /\ BackwardInv'
  BY <1>3 DEF ForwardInv, BackwardInv
<1> QED
  BY <1>1, <1>2, <1>4 DEF WalkInv

LEMMA WalkStart == WalkInit => WalkInv
<1> SUFFICES ASSUME WalkInit PROVE WalkInv
  OBVIOUS
<1> USE DEF WalkInit
<1>1. TypeInv
  <2>1. ASSUME NEW b \in Buckets
        PROVE  Len(items[b]) \in Nat
    <3>1. items[b] \in Seq(Nat)
      OBVIOUS
    <3> QED
      BY <3>1
  <2> QED
    BY <2>1, SMT DEF TypeInv
<1>0. \A b \in Buckets :
        /\ Len(items[b]) \in Nat
        /\ DOMAIN items[b] = 1..Len(items[b])
        /\ \A i \in DOMAIN items[b] : items[b][i] \in Nat
  BY <1>1, TreesAreSequences DEF TypeInv
<1>2. CASE Candidates(items, at, {}) = {}
  <2>1. \A b \in Buckets : at[b] = EndOf(items, b)
    BY <1>2 DEF Candidates
  <2> QED
    BY <1>1, <2>1 DEF WalkInv, ForwardInv, BackwardInv, IsEnd
<1>3. CASE Candidates(items, at, {}) # {}
  <2>1. /\ index \in Candidates(items, at, {})
        /\ \A c \in Candidates(items, at, {}) : items[index][at[index]] <= items[c][at[c]]
    BY <1>3 DEF IsLeast
  <2>2. /\ at[index] = 1 /\ 1 \in DOMAIN items[index] /\ Here \in Nat /\ ~IsEnd(index)
    BY <1>0, <2>1, SMT DEF Candidates, EndOf, IsEnd, Here
  <2>3. ASSUME NEW b \in Buckets, NEW i \in DOMAIN items[b]
        PROVE  at[b] = 1 /\ i >= at[b] /\ items[b][i] >= Here
    <3>1. at[b] = 1 /\ i >= 1 /\ i \in Nat /\ 1 \in DOMAIN items[b] /\ b \in Candidates(items, at, {})
      BY <1>0, SMT DEF Candidates, EndOf
    <3>2. items[b][1] >= Here /\ (i # 1 => items[b][1] < items[b][i])
      BY <1>0, <2>1, <2>2, <3>1, SMT DEF Here, Sorted
    <3> QED
      BY <1>0, <2>2, <3>1, <3>2, SMT
  <2>4. ForwardInv /\ BackwardInv
    BY <1>0, <2>2, <2>3, SMT DEF ForwardInv, BackwardInv
  <2> QED
    BY <1>1, <2>4 DEF WalkInv
<1> QED
  BY <1>2, <1>3
-----------------------------------------------------------------------------
LEMMA ForwardSteps ==
  ASSUME WalkInv, Forward
  PROVE  WalkInv' /\ Onward
<1> USE DEF Forward
<1>1. at' \in [Buckets -> Nat] /\ CutBehind(Here) /\ Here \in Nat /\ reverse_end' = {}
  <2>1. CASE is_forward
    BY <2>1, ForwardCuts DEF WalkInv, ForwardInv
  <2>2. CASE ~is_forward
    <3>1. at' \in [Buckets -> Nat]
      <4>1. \A b \in Buckets : 1..EndOf(items, b) \subseteq Nat
        BY SMT
      <4> QED
        BY <2>2, <4>1 DEF Places
    <3> QED
      BY <2>2, <3>1, TurnForwardCuts
  <2> QED
    BY <2>1, <2>2
<1>2. index' \in Buckets /\ IsLeast(items, at', {}, index')
  BY <1>1
<1> QED
  BY <1>1, <1>2, LeastIsNext DEF Onward, WalkInv, TypeInv, TreesInv

LEMMA BackwardSteps ==
  ASSUME WalkInv, Backward
  PROVE  WalkInv' /\ Backwards
<1> DEFINE out == IF is_forward THEN AlreadyFirst ELSE reverse_end
<1>1. at' \in [Buckets -> Nat] /\ CutBefore(out) /\ out \in SUBSET Buckets /\ out # Buckets
  <2>1. CASE is_forward
    <3>1. at' \in [Buckets -> Nat]
      <4>1. \A b \in Buckets : 1..EndOf(items, b) \subseteq Nat
        BY SMT
      <4> QED
        BY <2>1, <4>1 DEF Places, Backward
    <3> QED
      BY <2>1, <3>1, TurnBackwardCuts DEF Backward
  <2>2. CASE ~is_forward
    <3>1. IF index \in reverse_end THEN at' = at ELSE at' = [at EXCEPT ![index] = @ - 1]
      BY <2>2 DEF Backward
    <3> QED
      BY <2>2, <3>1, BackwardCuts DEF Backward, WalkInv, TypeInv
  <2> QED
    BY <2>1, <2>2
<1>2. /\ index' \in Buckets /\ IsGreatest(items, at', out, index')
      /\ reverse_end' = out \cup (IF at'[index'] = 1 THEN {index'} ELSE {})
      /\ is_forward' = FALSE /\ UNCHANGED items
  BY DEF Backward
<1> HIDE DEF out
<1> QED
  BY <1>1, <1>2, GreatestIsPrevious

LEMMA BeginSteps ==
  ASSUME TreesInv, Begin
  PROVE  WalkInv'
<1>1. CutBehind(-1) /\ at' \in [Buckets -> Nat]
  BY BeginCuts DEF Begin, BeginIn
<1> QED
  BY <1>1, LeastIsNext DEF Begin, BeginIn

\* Once find has missed a key, nothing is known of the walk until it starts anew.
SureInv == TreesInv /\ (sure => WalkInv)

LEMMA WalkStep == SureInv /\ [WalkNext]_<<items, walk>> => SureInv'
<1> SUFFICES ASSUME SureInv, [WalkNext]_<<items, walk>>
             PROVE  SureInv'
  OBVIOUS
<1>1. TreesInv'
  <2>1. UNCHANGED items
    BY DEF WalkNext, Begin, End, Find, FindFrom, Forward, Backward
  <2> QED
    BY <2>1 DEF SureInv, TreesInv, Sorted
<1>2. ASSUME sure'
      PROVE  WalkInv'
  <2>1. CASE Begin
    BY <2>1, BeginSteps DEF SureInv
  <2>2. CASE End
    BY <2>2, EndCuts DEF SureInv
  <2>3. CASE \E key \in Nat : Find(key)
    BY <1>2, <2>3, FindCuts DEF SureInv
  <2>4. CASE Forward
    BY <1>2, <2>4, ForwardSteps DEF SureInv, Forward
  <2>5. CASE Backward
    BY <1>2, <2>5, BackwardSteps DEF SureInv, Backward
  <2>6. CASE UNCHANGED <<items, walk>>
    BY <1>2, <2>6 DEF SureInv, walk, WalkInv, TypeInv, Sorted, ForwardInv, BackwardInv, IsEnd, EndOf, Here
  <2> QED
    BY <2>1, <2>2, <2>3, <2>4, <2>5, <2>6 DEF WalkNext
<1> QED
  BY <1>1, <1>2 DEF SureInv

LEMMA WalkStarts == WalkInit => SureInv
BY WalkStart DEF SureInv, WalkInit, TreesInv

\* operator++ and operator-- of FTreesIterator go to the neighbour in the order
\* of all keys, for any number of trees and after any calls before.
THEOREM StepsAreNeighbours == WalkSpec => WalksInOrder
<1>1. SureInv => (sure => (Forward => Onward) /\ (Backward => Backwards))
  BY ForwardSteps, BackwardSteps DEF SureInv
<1> QED
  BY <1>1, WalkStarts, WalkStep, PTL DEF WalkSpec, WalksInOrder

\* The two forms of is_begin are true exactly at the first of all keys.
THEOREM BeginKnown == WalkSpec => []BeginIsLeast
<1>1. SureInv => BeginIsLeast
  <2> SUFFICES ASSUME WalkInv PROVE BeginIsLeast
    BY DEF SureInv, BeginIsLeast
  <2> USE DEF WalkInv, IsEnd, IsBegin, EndOf
  <2>0. \A b \in Buckets :
          /\ Len(items[b]) \in Nat
          /\ DOMAIN items[b] = 1..Len(items[b])
          /\ \A i \in DOMAIN items[b] : items[b][i] \in Nat
    BY TreesAreSequences DEF TypeInv
  <2>1. index \in Buckets /\ \A b \in Buckets : at[b] \in 1..(Len(items[b]) + 1)
    BY DEF TypeInv
  <2>2. CASE is_forward
    <3>1. ASSUME AtBegin, NEW b \in Buckets, NEW i \in DOMAIN items[b]
          PROVE  ~IsEnd(index) /\ Here <= items[b][i]
      <4>1. at[b] = 1 /\ i >= at[b] /\ at[b] # Len(items[b]) + 1
        BY <2>0, <2>2, <3>1, SMT DEF AtBegin
      <4>2. ~IsEnd(index)
        BY <2>2, <4>1 DEF ForwardInv
      <4>3. items[b][i] >= Here
        BY <2>2, <4>1, <4>2 DEF ForwardInv
      <4>4. Here \in Nat /\ items[b][i] \in Nat
        BY <2>0, <2>1, <4>2, SMT DEF Here
      <4> QED
        BY <4>2, <4>3, <4>4, SMT
    <3>2. ASSUME NEW b \in Buckets, at[b] # 1,
                 \A i \in DOMAIN items[b] : ~IsEnd(index) /\ Here <= items[b][i]
          PROVE  FALSE
      <4>1. 1 \in DOMAIN items[b] /\ 1 < at[b]
        BY <2>0, <2>1, <3>2, SMT
      <4>2. items[b][1] < Here /\ Here <= items[b][1]
        BY <2>2, <3>2, <4>1 DEF ForwardInv
      <4>3. Here \in Nat /\ items[b][1] \in Nat
        BY <2>0, <2>1, <3>2, <4>1, SMT DEF Here
      <4> QED
        BY <4>2, <4>3, SMT
    <3> QED
      BY <2>2, <3>1, <3>2 DEF BeginIsLeast, AtBegin
  <2>3. CASE ~is_forward
    <3>0. ~IsEnd(index) /\ at[index] \in DOMAIN items[index] /\ Here \in Nat
      BY <2>0, <2>1, <2>3, SMT DEF BackwardInv, Here
    <3>1. ASSUME AtBegin, NEW b \in Buckets, NEW i \in DOMAIN items[b]
          PROVE  Here <= items[b][i]
      <4>1. b \in reverse_end /\ index \in reverse_end
        BY <2>1, <2>3, <3>1 DEF AtBegin
      <4>2. CASE b = index
        <5>1. at[index] = 1
          BY <2>3, <4>1 DEF BackwardInv
        <5> QED
          BY <2>0, <3>0, <4>2, <5>1, SMT DEF Sorted, Here
      <4>3. CASE b # index
        <5>1. items[b][i] > Here
          BY <2>3, <4>1, <4>3 DEF BackwardInv
        <5> QED
          BY <2>0, <3>0, <5>1, SMT
      <4> QED
        BY <4>2, <4>3
    <3>2. ASSUME NEW b \in Buckets, b \notin reverse_end,
                 \A c \in Buckets : \A i \in DOMAIN items[c] : Here <= items[c][i]
          PROVE  FALSE
      <4>1. CASE b = index
        <5>1. at[index] # 1
          BY <2>3, <3>2, <4>1 DEF BackwardInv
        <5>2. 1 \in DOMAIN items[index] /\ items[index][1] < Here
          BY <2>0, <2>1, <3>0, <5>1, SMT DEF Sorted, Here
        <5> QED
          BY <2>0, <2>1, <3>0, <3>2, <5>2, SMT
      <4>2. CASE b # index
        <5>1. /\ at[b] # Len(items[b]) + 1
              /\ \A i \in DOMAIN items[b] : i <= at[b] => items[b][i] < Here
          BY <2>3, <3>2, <4>2 DEF BackwardInv
        <5>2. at[b] \in DOMAIN items[b] /\ at[b] <= at[b]
          BY <2>0, <2>1, <5>1, SMT
        <5>3. items[b][at[b]] < Here /\ Here <= items[b][at[b]]
          BY <3>2, <5>1, <5>2
        <5> QED
          BY <2>0, <3>0, <5>2, <5>3, SMT
      <4> QED
        BY <4>1, <4>2
    <3>3. reverse_end \subseteq Buckets
      BY DEF TypeInv
    <3> QED
      <4>1. AtBegin => \A b \in Buckets : \A i \in DOMAIN items[b] : ~IsEnd(index) /\ Here <= items[b][i]
        BY <3>0, <3>1
      <4>2. ASSUME \A b \in Buckets : \A i \in DOMAIN items[b] : ~IsEnd(index) /\ Here <= items[b][i]
            PROVE  AtBegin
        <5>1. \A b \in Buckets : b \in reverse_end
          BY <4>2, <3>2
        <5> QED
          BY <2>3, <3>3, <5>1 DEF AtBegin
      <4> QED
        BY <4>1, <4>2 DEF BeginIsLeast
  <2> QED
    BY <2>2, <2>3
<1> QED
  BY <1>1, WalkStarts, WalkStep, PTL DEF WalkSpec
=============================================================================
