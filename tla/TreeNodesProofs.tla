-------------------------- MODULE TreeNodesProofs --------------------------
(***************************************************************************)
(* TreeNodesAllocator is sound for heaps of any size and requests of any   *)
(* count, and implements PlacePool.  First fit finds the first run of free *)
(* entries, whenever there is one.                                         *)
(*                                                                         *)
(* The invariant is the conjunction of what the runs check.  None of its   *)
(* parts is inductive alone: that a freed range fits between its           *)
(* neighbours needs the order of the list and FreeOrHeld, and those need   *)
(* that free entries are apart.                                            *)
(***************************************************************************)
EXTENDS TreeNodesAllocator, FiniteSetTheorems, WellFoundedInduction, TLAPS

ListInv == TypeOK /\ ListInOrder /\ Coalesced /\ FreeOrHeld

-----------------------------------------------------------------------------
(* The initial list: one entry.                                            *)

LEMMA InitInv == Init => ListInv
BY HeapAssumption DEF Init, ListInv, TypeOK, ListInOrder, Coalesced, FreeOrHeld, EndOf, Entry

-----------------------------------------------------------------------------
(* Alloc.                                                                  *)

LEMMA AllocInv ==
  ASSUME ListInv, NEW count \in Counts, Alloc(count)
  PROVE  ListInv'
<1>1. PICK current \in DOMAIN freelist :
        /\ FirstFit(current, count)
        /\ freelist' = Allocated(current, count)
        /\ freelist_head' =
             IF current # freelist_head THEN freelist_head
             ELSE IF count < freelist[current].count THEN current + count
             ELSE freelist[current].next
        /\ allocated_entries' = allocated_entries + count
        /\ nodes' = nodes \cup Span(current, count)
  BY DEF Alloc
<1> DEFINE entry == freelist[current]
           rest  == current + count
<1>2. /\ count \in Nat \ {0} /\ count <= entry.count
      /\ EntriesCount \in Nat \ {0}
      /\ current \in 0..(EntriesCount - 1) /\ entry.count \in 1..EntriesCount
      /\ current + entry.count <= EntriesCount
  BY <1>1, HeapAssumption DEF FirstFit, ListInv, TypeOK, Coalesced, EndOf
<1>3. \A e \in Span(current, count) : e \in 0..(EntriesCount - 1)
  BY <1>2 DEF Span
<1>4. \A i \in DOMAIN freelist :
        /\ i \in 0..(EntriesCount - 1)
        /\ freelist[i].count \in 1..EntriesCount
        /\ freelist[i].next \in 0..EntriesCount
  BY DEF ListInv, TypeOK
<1>5. CASE count = entry.count
  <2>1. /\ DOMAIN freelist' = DOMAIN freelist \ {current}
        /\ \A i \in DOMAIN freelist' :
             freelist'[i] = IF freelist[i].next = current THEN Entry(freelist[i].count, entry.next)
                            ELSE freelist[i]
        /\ freelist' = [i \in DOMAIN freelist' |-> freelist'[i]]
    BY <1>1, <1>2, <1>5 DEF Allocated
  <2>2. /\ \A i \in DOMAIN freelist' : freelist'[i].count = freelist[i].count
        /\ \A i \in DOMAIN freelist' :
             freelist'[i].next = IF freelist[i].next = current THEN entry.next ELSE freelist[i].next
    BY <2>1 DEF Entry
  <2>3. freelist_head' = IF current # freelist_head THEN freelist_head ELSE entry.next
    BY <1>1, <1>2, <1>5
  <2>4. TypeOK'
    BY <1>1, <1>2, <1>3, <2>1, <2>3 DEF ListInv, TypeOK, Entry
  <2>5. ListInOrder'
    <3>1. freelist_head' \in DOMAIN freelist' \cup {EntriesCount}
      BY <1>2, <1>4, <2>1, <2>3 DEF ListInv, ListInOrder
    <3>2. ASSUME NEW i \in DOMAIN freelist'
          PROVE  /\ freelist_head' <= i
                 /\ freelist'[i].next \in DOMAIN freelist' \cup {EntriesCount}
                 /\ i < freelist'[i].next
      BY <1>2, <1>4, <2>1, <2>2, <2>3 DEF ListInv, ListInOrder
    <3>3. ASSUME NEW i \in DOMAIN freelist', NEW j \in DOMAIN freelist', i < j
          PROVE  freelist'[i].next <= j
      <4>1. i \in DOMAIN freelist /\ j \in DOMAIN freelist /\ j # current
        BY <2>1
      <4>2. freelist[i].next <= j /\ (current < j => entry.next <= j)
        BY <3>3, <4>1 DEF ListInv, ListInOrder
      <4> QED BY <1>2, <1>4, <2>2, <4>1, <4>2
    <3> QED BY <3>1, <3>2, <3>3 DEF ListInOrder
  <2>6. Coalesced'
    BY <2>1, <2>2 DEF ListInv, Coalesced, EndOf
  <2>7. FreeOrHeld'
    BY <1>1, <1>2, <1>5, <2>1, <2>2 DEF ListInv, TypeOK, FreeOrHeld, Coalesced, EndOf, Span
  <2> QED BY <2>4, <2>5, <2>6, <2>7 DEF ListInv
<1>6. CASE count < entry.count
  <2>1. /\ DOMAIN freelist' = (DOMAIN freelist \ {current}) \cup {rest}
        /\ \A i \in DOMAIN freelist' :
             freelist'[i] = IF i = rest THEN Entry(entry.count - count, entry.next)
                            ELSE IF freelist[i].next = current THEN Entry(freelist[i].count, rest)
                            ELSE freelist[i]
        /\ freelist' = [i \in DOMAIN freelist' |-> freelist'[i]]
    BY <1>1, <1>2, <1>6 DEF Allocated
  <2>2. /\ \A i \in DOMAIN freelist' :
             freelist'[i].count = IF i = rest THEN entry.count - count ELSE freelist[i].count
        /\ \A i \in DOMAIN freelist' :
             freelist'[i].next = IF i = rest THEN entry.next
                                 ELSE IF freelist[i].next = current THEN rest ELSE freelist[i].next
    <3>1. ASSUME NEW i \in DOMAIN freelist'
          PROVE  /\ freelist'[i].count = IF i = rest THEN entry.count - count ELSE freelist[i].count
                 /\ freelist'[i].next = IF i = rest THEN entry.next
                                        ELSE IF freelist[i].next = current THEN rest ELSE freelist[i].next
      <4>1. CASE i = rest
        <5>1. freelist'[i] = Entry(entry.count - count, entry.next)
          BY <2>1, <4>1
        <5> QED BY <4>1, <5>1 DEF Entry
      <4>2. CASE i # rest /\ freelist[i].next = current
        <5>1. freelist'[i] = Entry(freelist[i].count, rest)
          BY <2>1, <4>2
        <5> QED BY <4>2, <5>1 DEF Entry
      <4>3. CASE i # rest /\ freelist[i].next # current
        <5>1. freelist'[i] = freelist[i]
          BY <2>1, <4>3
        <5> QED BY <4>3, <5>1
      <4> QED BY <4>1, <4>2, <4>3
    <3> QED BY <3>1
  <2>3. freelist_head' = IF current # freelist_head THEN freelist_head ELSE rest
    BY <1>1, <1>2, <1>6
  <2>4. rest \in 0..(EntriesCount - 1) /\ rest \notin DOMAIN freelist
    BY <1>2, <1>6 DEF ListInv, TypeOK, Coalesced, EndOf
  <2>5. TypeOK'
    <3> DEFINE Entries == [count : 1..EntriesCount, next : 0..EntriesCount]
    <3>1. ASSUME NEW i \in DOMAIN freelist' PROVE freelist'[i] \in Entries
      <4>1. CASE i = rest
        <5>1. freelist'[i] = Entry(entry.count - count, entry.next)
          BY <2>1, <4>1
        <5>2. entry.count - count \in 1..EntriesCount /\ entry.next \in 0..EntriesCount
          BY <1>2, <1>4, <1>6
        <5> QED BY <5>1, <5>2 DEF Entry
      <4>2. CASE i # rest /\ freelist[i].next = current
        <5>1. freelist'[i] = Entry(freelist[i].count, rest) /\ i \in DOMAIN freelist
          BY <2>1, <4>2
        <5>2. freelist[i].count \in 1..EntriesCount /\ rest \in 0..EntriesCount
          BY <1>2, <1>4, <2>4, <5>1
        <5> QED BY <5>1, <5>2 DEF Entry
      <4>3. CASE i # rest /\ freelist[i].next # current
        <5>1. freelist'[i] = freelist[i] /\ i \in DOMAIN freelist
          BY <2>1, <4>3
        <5> QED BY <5>1 DEF ListInv, TypeOK
      <4> QED BY <4>1, <4>2, <4>3
    <3>2. DOMAIN freelist' \subseteq 0..(EntriesCount - 1)
      BY <1>4, <2>1, <2>4
    <3>3. nodes' \subseteq 0..(EntriesCount - 1) /\ allocated_entries' \in Int
      BY <1>1, <1>2, <1>3 DEF ListInv, TypeOK
    <3>4. freelist_head' \in 0..EntriesCount
      BY <1>2, <2>3, <2>4 DEF ListInv, TypeOK
    <3>5. freelist' \in [DOMAIN freelist' -> Entries]
      BY <2>1, <3>1
    <3> QED BY <3>2, <3>3, <3>4, <3>5 DEF TypeOK
  <2>6. ListInOrder'
    <3>1. freelist_head' \in DOMAIN freelist' \cup {EntriesCount}
      BY <1>2, <1>4, <2>1, <2>3 DEF ListInv, ListInOrder
    <3>2. \A i \in DOMAIN freelist : current < i => rest < i
      BY <1>2, <1>4, <1>6 DEF ListInv, Coalesced, EndOf
    <3>3. entry.next \in (DOMAIN freelist \ {current}) \cup {EntriesCount} /\ rest < entry.next
      BY <1>2, <1>4, <2>4, <3>2 DEF ListInv, ListInOrder
    <3>4. ASSUME NEW i \in DOMAIN freelist'
          PROVE  /\ freelist_head' <= i
                 /\ freelist'[i].next \in DOMAIN freelist' \cup {EntriesCount}
                 /\ i < freelist'[i].next
      <4>1. CASE i = rest
        BY <1>2, <1>4, <2>1, <2>2, <2>3, <2>4, <3>3, <4>1 DEF ListInv, ListInOrder
      <4>2. CASE i # rest
        BY <1>2, <1>4, <2>1, <2>2, <2>3, <2>4, <3>2, <4>2 DEF ListInv, ListInOrder
      <4> QED BY <4>1, <4>2
    <3>5. ASSUME NEW i \in DOMAIN freelist', NEW j \in DOMAIN freelist', i < j
          PROVE  freelist'[i].next <= j
      <4>1. CASE i = rest
        <5>1. j \in DOMAIN freelist /\ current < j
          BY <1>2, <1>4, <2>1, <3>5, <4>1
        <5> QED BY <2>2, <4>1, <5>1 DEF ListInv, ListInOrder
      <4>2. CASE i # rest /\ j = rest
        <5>1. i \in DOMAIN freelist /\ i < current
          BY <1>2, <1>4, <2>1, <3>2, <3>5, <4>2
        <5>2. freelist[i].next <= current
          BY <5>1 DEF ListInv, ListInOrder
        <5> QED BY <1>2, <1>4, <2>2, <4>2, <5>1, <5>2
      <4>3. CASE i # rest /\ j # rest
        <5>1. i \in DOMAIN freelist /\ j \in DOMAIN freelist /\ j # current /\ freelist[i].next <= j
          BY <2>1, <3>5, <4>3 DEF ListInv, ListInOrder
        <5> QED BY <1>2, <1>4, <2>2, <3>2, <4>3, <5>1
      <4> QED BY <4>1, <4>2, <4>3
    <3> QED BY <3>1, <3>4, <3>5 DEF ListInOrder
  <2>7. Coalesced'
    BY <1>2, <1>6, <2>1, <2>2, <2>4 DEF ListInv, TypeOK, Coalesced, EndOf
  <2>8. FreeOrHeld'
    BY <1>1, <1>2, <1>6, <2>1, <2>2, <2>4 DEF ListInv, TypeOK, FreeOrHeld, Coalesced, EndOf, Span
  <2> QED BY <2>5, <2>6, <2>7, <2>8 DEF ListInv
<1> QED BY <1>2, <1>5, <1>6
-----------------------------------------------------------------------------
(* Free.  A range written before the entry next takes that one in if it    *)
(* reaches it: what it then has, and what lies behind it.                  *)

Reaches(index, count, next) == next # EntriesCount /\ next = index + count
TakenIn(index, count, next) == IF Reaches(index, count, next) THEN {next} ELSE {}
Total(index, count, next) ==
  IF Reaches(index, count, next) THEN count + freelist[next].count ELSE count
Behind(index, count, next) ==
  IF Reaches(index, count, next) THEN freelist[next].next ELSE next

\* The range to free lies between free entries.
LEMMA FreedApart ==
  ASSUME ListInv, NEW count \in Counts, NEW index \in nodes, Span(index, count) \subseteq nodes
  PROVE  /\ count \in Nat \ {0} /\ EntriesCount \in Nat \ {0}
         /\ index \in 0..(EntriesCount - 1) /\ index + count <= EntriesCount
         /\ \A i \in DOMAIN freelist :
              /\ i \in 0..(EntriesCount - 1)
              /\ freelist[i].count \in 1..EntriesCount
              /\ freelist[i].next \in 0..EntriesCount
              /\ i + freelist[i].count <= index \/ index + count <= i
<1>1. /\ count \in Nat \ {0} /\ EntriesCount \in Nat \ {0} /\ index \in 0..(EntriesCount - 1)
  BY HeapAssumption DEF ListInv, TypeOK
<1>2. index + count - 1 \in 0..(EntriesCount - 1)
  <2>1. index + count - 1 \in Span(index, count)
    BY <1>1 DEF Span
  <2> QED BY <2>1 DEF ListInv, TypeOK
<1>3. ASSUME NEW i \in DOMAIN freelist
      PROVE  /\ i \in 0..(EntriesCount - 1)
             /\ freelist[i].count \in 1..EntriesCount
             /\ freelist[i].next \in 0..EntriesCount
             /\ i + freelist[i].count <= index \/ index + count <= i
  <2>1. i \in 0..(EntriesCount - 1) /\ freelist[i].count \in 1..EntriesCount
        /\ freelist[i].next \in 0..EntriesCount
    BY DEF ListInv, TypeOK
  <2>2. i \notin nodes
    BY <2>1 DEF ListInv, FreeOrHeld, EndOf
  <2>3. ~(i <= index /\ index < i + freelist[i].count)
    BY <1>1, <2>1 DEF ListInv, FreeOrHeld, EndOf
  <2>4. ~(index <= i /\ i < index + count)
    BY <1>1, <2>1, <2>2 DEF Span
  <2> QED BY <1>1, <2>1, <2>3, <2>4
<1> QED BY <1>1, <1>2, <1>3

\* What the written entry has, and its place in the list.
LEMMA WrittenEntry ==
  ASSUME ListInv, NEW count \in Counts, NEW index \in nodes, Span(index, count) \subseteq nodes,
         NEW next \in DOMAIN freelist \cup {EntriesCount}, index + count <= next
  PROVE  LET total  == Total(index, count, next)
             behind == Behind(index, count, next)
             kept   == DOMAIN freelist \ TakenIn(index, count, next)
         IN  /\ total \in 1..EntriesCount /\ index + total <= EntriesCount
             /\ behind \in kept \cup {EntriesCount} /\ index < behind /\ behind \in 0..EntriesCount
             /\ \A j \in kept : j < next \/ (behind <= j /\ index + total < j)
             /\ \A e \in 0..(EntriesCount - 1) :
                  (index <= e /\ e < index + total) <=>
                    \/ e \in Span(index, count)
                    \/ \E i \in TakenIn(index, count, next) : i <= e /\ e < EndOf(i)
<1>1. /\ count \in Nat \ {0} /\ EntriesCount \in Nat \ {0}
      /\ index \in 0..(EntriesCount - 1) /\ index + count <= EntriesCount
      /\ \A i \in DOMAIN freelist :
           /\ i \in 0..(EntriesCount - 1)
           /\ freelist[i].count \in 1..EntriesCount
           /\ freelist[i].next \in 0..EntriesCount
  BY FreedApart
<1>2. CASE Reaches(index, count, next)
  <2>1. next \in DOMAIN freelist /\ next = index + count
    BY <1>2 DEF Reaches
  <2>2. /\ Total(index, count, next) = count + freelist[next].count
        /\ Behind(index, count, next) = freelist[next].next
        /\ TakenIn(index, count, next) = {next}
    BY <1>2 DEF Total, Behind, TakenIn
  <2>3. next + freelist[next].count <= EntriesCount
    BY <2>1 DEF ListInv, Coalesced, EndOf
  <2>4. /\ freelist[next].next \in (DOMAIN freelist \ {next}) \cup {EntriesCount}
        /\ next < freelist[next].next
    BY <1>1, <2>1 DEF ListInv, ListInOrder
  <2>5. \A j \in DOMAIN freelist \ {next} :
          j < next \/ (freelist[next].next <= j /\ next + freelist[next].count < j)
    BY <1>1, <2>1 DEF ListInv, ListInOrder, Coalesced, EndOf
  <2> QED BY <1>1, <2>1, <2>2, <2>3, <2>4, <2>5 DEF Span, EndOf
<1>3. CASE ~Reaches(index, count, next)
  <2>1. /\ Total(index, count, next) = count
        /\ Behind(index, count, next) = next
        /\ TakenIn(index, count, next) = {}
    BY <1>3 DEF Total, Behind, TakenIn
  <2>2. next = EntriesCount \/ index + count < next
    BY <1>1, <1>3 DEF Reaches
  <2> QED BY <1>1, <2>1, <2>2 DEF Span
<1> QED BY <1>2, <1>3

\* In each case of Free, the list afterwards is the one before without the entry
\* taken in, and with one entry, at position, that has all of the freed range.
LEMMA FreeInv ==
  ASSUME ListInv, NEW count \in Counts, NEW index \in nodes, Free(index, count)
  PROVE  ListInv'
<1>1. Span(index, count) \subseteq nodes /\ nodes' = nodes \ Span(index, count)
      /\ allocated_entries' = allocated_entries - count
  BY DEF Free
<1>2. /\ count \in Nat \ {0} /\ EntriesCount \in Nat \ {0}
      /\ index \in 0..(EntriesCount - 1) /\ index + count <= EntriesCount
      /\ \A i \in DOMAIN freelist :
           /\ i \in 0..(EntriesCount - 1)
           /\ freelist[i].count \in 1..EntriesCount
           /\ freelist[i].next \in 0..EntriesCount
           /\ i + freelist[i].count <= index \/ index + count <= i
  BY <1>1, FreedApart
<1>3. /\ nodes' \subseteq 0..(EntriesCount - 1) /\ allocated_entries' \in Int
      /\ freelist_head \in 0..EntriesCount
  BY <1>1, <1>2 DEF ListInv, TypeOK
<1>4. CASE FreeAtFront(index, count)
  <2> DEFINE next   == freelist_head
             total  == Total(index, count, next)
             behind == Behind(index, count, next)
             kept   == DOMAIN freelist \ TakenIn(index, count, next)
  <2>1. next \in DOMAIN freelist \cup {EntriesCount} /\ index + count <= next
    BY <1>2, <1>4 DEF FreeAtFront, ListInv, ListInOrder
  <2>2. /\ total \in 1..EntriesCount /\ index + total <= EntriesCount
        /\ behind \in kept \cup {EntriesCount} /\ index < behind /\ behind \in 0..EntriesCount
        /\ \A j \in kept : j < next \/ (behind <= j /\ index + total < j)
        /\ \A e \in 0..(EntriesCount - 1) :
             (index <= e /\ e < index + total) <=>
               \/ e \in Span(index, count)
               \/ \E i \in TakenIn(index, count, next) : i <= e /\ e < EndOf(i)
    BY <1>1, <2>1, WrittenEntry
  <2> HIDE DEF total, behind, kept
  <2>3. /\ DOMAIN freelist' = kept \cup {index}
        /\ freelist'[index] = Entry(total, behind)
        /\ \A i \in kept : i # index /\ freelist'[i] = freelist[i]
        /\ freelist' = [i \in DOMAIN freelist' |-> freelist'[i]]
        /\ kept \subseteq DOMAIN freelist
        /\ freelist_head' = index
    BY <1>2, <1>4, <2>1 DEF FreeAtFront, Written, TakenIn, Total, Behind, Reaches, total, behind, kept, Entry
  <2>4. freelist'[index].count = total /\ freelist'[index].next = behind
    BY <2>3 DEF Entry
  <2>5. TypeOK'
    <3>1. \A i \in DOMAIN freelist' : freelist'[i] \in [count : 1..EntriesCount, next : 0..EntriesCount]
      BY <1>2, <2>2, <2>3 DEF Entry, ListInv, TypeOK
    <3> QED BY <1>2, <1>3, <2>3, <3>1 DEF TypeOK
  <2>6. ListInOrder'
    <3>1. \A i \in kept : /\ index <= i /\ behind <= i
                          /\ freelist[i].next \in kept \cup {EntriesCount} /\ i < freelist[i].next
      BY <1>2, <1>3, <2>2, <2>3, <2>1 DEF ListInv, ListInOrder, kept, TakenIn
    <3>2. ASSUME NEW i \in DOMAIN freelist'
          PROVE  /\ freelist_head' <= i
                 /\ freelist'[i].next \in DOMAIN freelist' \cup {EntriesCount}
                 /\ i < freelist'[i].next
      BY <1>2, <2>2, <2>3, <2>4, <3>1
    <3>3. ASSUME NEW i \in DOMAIN freelist', NEW j \in DOMAIN freelist', i < j
          PROVE  freelist'[i].next <= j
      <4>1. CASE i = index
        BY <1>2, <2>3, <2>4, <3>1, <3>3, <4>1
      <4>2. CASE i # index
        BY <1>2, <2>3, <2>4, <3>1, <3>3, <4>2 DEF ListInv, ListInOrder
      <4> QED BY <4>1, <4>2
    <3> QED BY <2>3, <3>2, <3>3 DEF ListInOrder
  <2>7. Coalesced'
    <3>1. \A j \in kept : index + total < j
      BY <1>2, <1>3, <2>2, <2>3, <2>1 DEF ListInv, ListInOrder
    <3> QED BY <1>2, <2>2, <2>3, <2>4, <3>1 DEF ListInv, Coalesced, EndOf
  <2>8. FreeOrHeld'
    <3> SUFFICES ASSUME NEW e \in 0..(EntriesCount - 1)
                 PROVE  e \in nodes' <=> ~\E i \in DOMAIN freelist' : i <= e /\ e < (EndOf(i))'
      BY DEF FreeOrHeld
    <3>1. e \in nodes <=> ~\E i \in DOMAIN freelist : i <= e /\ e < EndOf(i)
      BY DEF ListInv, FreeOrHeld
    <3>2. (\E i \in DOMAIN freelist : i <= e /\ e < EndOf(i)) <=>
             \/ \E i \in kept : i <= e /\ e < EndOf(i)
             \/ \E i \in TakenIn(index, count, next) : i <= e /\ e < EndOf(i)
      BY <2>1 DEF kept, TakenIn, Reaches
    <3>3. (\E i \in DOMAIN freelist' : i <= e /\ e < (EndOf(i))') <=>
             \/ \E i \in kept : i <= e /\ e < EndOf(i)
             \/ index <= e /\ e < index + total
      BY <2>3, <2>4 DEF EndOf
    <3>4. e \in Span(index, count) => e \in nodes
      BY <1>1
    <3> QED BY <1>1, <2>2, <3>1, <3>2, <3>3, <3>4
  <2> QED BY <2>5, <2>6, <2>7, <2>8 DEF ListInv
<1>5. CASE /\ freelist_head <= index
           /\ \E prev \in DOMAIN freelist : FreeBehind(index, count, prev)
  <2>1. PICK prev \in DOMAIN freelist : FreeBehind(index, count, prev)
    BY <1>5
  <2> DEFINE before == freelist[prev]
             next   == before.next
             total  == Total(index, count, next)
             behind == Behind(index, count, next)
             kept   == DOMAIN freelist \ TakenIn(index, count, next)
  <2>2. /\ next \in DOMAIN freelist \cup {EntriesCount} /\ index + count <= next
        /\ prev + before.count <= index /\ prev < next
    BY <1>2, <2>1 DEF FreeBehind, ListInv, ListInOrder
  <2>3. /\ total \in 1..EntriesCount /\ index + total <= EntriesCount
        /\ behind \in kept \cup {EntriesCount} /\ index < behind /\ behind \in 0..EntriesCount
        /\ \A j \in kept : j < next \/ (behind <= j /\ index + total < j)
        /\ \A e \in 0..(EntriesCount - 1) :
             (index <= e /\ e < index + total) <=>
               \/ e \in Span(index, count)
               \/ \E i \in TakenIn(index, count, next) : i <= e /\ e < EndOf(i)
    BY <1>1, <2>2, WrittenEntry
  <2>4. prev \in kept /\ prev < index /\ kept \subseteq DOMAIN freelist
    BY <1>2, <2>1, <2>2 DEF TakenIn, FreeBehind
  <2>5. \A i \in kept \ {prev} :
          /\ i < index => i + freelist[i].count < prev /\ freelist[i].next <= prev
          /\ index < i => behind <= i /\ index + total < i
          /\ i # index /\ freelist_head <= i
          /\ freelist[i].next \in kept \cup {EntriesCount} /\ i < freelist[i].next
    BY <1>2, <2>1, <2>2, <2>3, <2>4 DEF ListInv, ListInOrder, Coalesced, EndOf, TakenIn, FreeBehind
  <2>6. freelist_head' = freelist_head /\ freelist_head \in kept /\ freelist_head <= prev
    BY <1>2, <1>3, <2>1, <2>2, <2>4 DEF FreeBehind, ListInv, ListInOrder, TakenIn
  <2> DEFINE InOther(e) == \E i \in kept \ {prev} : i <= e /\ e < i + freelist[i].count
             InPrev(e)  == prev <= e /\ e < prev + before.count
             InTaken(e) == \E i \in TakenIn(index, count, next) : i <= e /\ e < EndOf(i)
             InFreed(e) == index <= e /\ e < index + total
  <2>7. ASSUME NEW e \in 0..(EntriesCount - 1)
        PROVE  e \in nodes' <=> ~(InOther(e) \/ InPrev(e) \/ InFreed(e))
    <3>1. e \in nodes <=> ~\E i \in DOMAIN freelist : i <= e /\ e < i + freelist[i].count
      BY DEF ListInv, FreeOrHeld, EndOf
    <3>2. (\E i \in DOMAIN freelist : i <= e /\ e < i + freelist[i].count) <=>
             (InOther(e) \/ InPrev(e) \/ InTaken(e))
      BY <2>2, <2>4 DEF kept, TakenIn, Reaches, EndOf
    <3>3. e \in Span(index, count) => e \in nodes
      BY <1>1
    <3>4. InFreed(e) <=> (e \in Span(index, count) \/ InTaken(e))
      BY <2>3
    <3> HIDE DEF InOther, InPrev, InTaken, InFreed
    <3> QED BY <1>1, <3>1, <3>2, <3>3, <3>4
  <2> HIDE DEF total, behind, kept
  <2> DEFINE touches == prev + before.count = index
  <2>8. CASE touches
    <3>1. /\ DOMAIN freelist' = kept
          /\ freelist'[prev] = Entry(before.count + total, behind)
          /\ \A i \in kept \ {prev} : freelist'[i] = freelist[i]
          /\ freelist' = [i \in DOMAIN freelist' |-> freelist'[i]]
      BY <1>2, <2>1, <2>2, <2>4, <2>8 DEF FreeBehind, total, behind, kept, Written, TakenIn, Total, Behind, Reaches, Entry
    <3>2. freelist'[prev].count = before.count + total /\ freelist'[prev].next = behind
      BY <3>1 DEF Entry
    <3>3. TypeOK'
      <4>1. before.count + total \in 1..EntriesCount /\ behind \in 0..EntriesCount
        BY <1>2, <2>2, <2>3, <2>4, <2>8
      <4>2. \A i \in DOMAIN freelist' : freelist'[i] \in [count : 1..EntriesCount, next : 0..EntriesCount]
        BY <2>4, <3>1, <4>1 DEF Entry, ListInv, TypeOK
      <4> QED BY <1>2, <1>3, <2>4, <2>6, <3>1, <4>2 DEF TypeOK
    <3>4. ListInOrder'
      <4>1. ASSUME NEW i \in DOMAIN freelist'
            PROVE  /\ freelist_head' <= i
                   /\ freelist'[i].next \in DOMAIN freelist' \cup {EntriesCount}
                   /\ i < freelist'[i].next
        BY <1>2, <1>3, <2>3, <2>4, <2>5, <2>6, <3>1, <3>2
      <4>2. ASSUME NEW i \in DOMAIN freelist', NEW j \in DOMAIN freelist', i < j
            PROVE  freelist'[i].next <= j
        <5>1. i \in DOMAIN freelist /\ j \in DOMAIN freelist => freelist[i].next <= j
          BY <4>2 DEF ListInv, ListInOrder
        <5>2. i \in Int /\ j \in Int
          BY <1>2, <2>4, <3>1
        <5> QED BY <1>2, <2>2, <2>3, <2>4, <2>5, <3>1, <3>2, <4>2, <5>1, <5>2
      <4> QED BY <2>6, <3>1, <4>1, <4>2 DEF ListInOrder
    <3>5. Coalesced'
      <4>1. \A i \in kept \ {prev} : i + freelist[i].count <= EntriesCount
        BY <2>4 DEF ListInv, Coalesced, EndOf
      <4>2. \A i, j \in kept \ {prev} : i < j => i + freelist[i].count < j
        BY <2>4 DEF ListInv, Coalesced, EndOf
      <4> QED BY <1>2, <2>2, <2>3, <2>4, <2>5, <2>8, <3>1, <3>2, <4>1, <4>2 DEF Coalesced, EndOf
    <3>6. FreeOrHeld'
      <4> SUFFICES ASSUME NEW e \in 0..(EntriesCount - 1)
                   PROVE  e \in nodes' <=> ~\E i \in DOMAIN freelist' : i <= e /\ e < (EndOf(i))'
        BY DEF FreeOrHeld
      <4>1. (\E i \in DOMAIN freelist' : i <= e /\ e < (EndOf(i))') <=>
               InOther(e) \/ (prev <= e /\ e < prev + (before.count + total))
        BY <2>4, <3>1, <3>2 DEF EndOf
      <4>2. (prev <= e /\ e < prev + (before.count + total)) <=>
               InPrev(e) \/ InFreed(e)
        BY <1>2, <2>2, <2>3, <2>4, <2>8
      <4>3. e \in nodes' <=> ~(InOther(e) \/ InPrev(e) \/ InFreed(e))
        BY <2>7
      <4> HIDE DEF InOther, InPrev, InFreed
      <4> QED BY <4>1, <4>2, <4>3
    <3> QED BY <3>3, <3>4, <3>5, <3>6 DEF ListInv
  <2>9. CASE ~touches
    <3>1. /\ DOMAIN freelist' = kept \cup {index}
          /\ freelist'[prev] = Entry(before.count, index)
          /\ freelist'[index] = Entry(total, behind)
          /\ \A i \in kept \ {prev} : freelist'[i] = freelist[i]
          /\ freelist' = [i \in DOMAIN freelist' |-> freelist'[i]]
      BY <1>2, <2>1, <2>2, <2>4, <2>9 DEF FreeBehind, total, behind, kept, Written, TakenIn, Total, Behind, Reaches, Entry
    <3>2. /\ freelist'[prev].count = before.count /\ freelist'[prev].next = index
          /\ freelist'[index].count = total /\ freelist'[index].next = behind
      BY <3>1 DEF Entry
    <3>3. TypeOK'
      <4>1. /\ before.count \in 1..EntriesCount /\ index \in 0..EntriesCount
            /\ total \in 1..EntriesCount /\ behind \in 0..EntriesCount
        BY <1>2, <2>2, <2>3, <2>4
      <4>2. \A i \in DOMAIN freelist' : freelist'[i] \in [count : 1..EntriesCount, next : 0..EntriesCount]
        BY <2>4, <3>1, <4>1 DEF Entry, ListInv, TypeOK
      <4> QED BY <1>2, <1>3, <2>4, <2>6, <3>1, <4>2 DEF TypeOK
    <3>4. ListInOrder'
      <4>1. ASSUME NEW i \in DOMAIN freelist'
            PROVE  /\ freelist_head' <= i
                   /\ freelist'[i].next \in DOMAIN freelist' \cup {EntriesCount}
                   /\ i < freelist'[i].next
        BY <1>2, <1>3, <2>3, <2>4, <2>5, <2>6, <3>1, <3>2
      <4>2. ASSUME NEW i \in DOMAIN freelist', NEW j \in DOMAIN freelist', i < j
            PROVE  freelist'[i].next <= j
        <5>1. i \in DOMAIN freelist /\ j \in DOMAIN freelist => freelist[i].next <= j
          BY <4>2 DEF ListInv, ListInOrder
        <5>2. i \in Int /\ j \in Int
          BY <1>2, <2>4, <3>1
        <5> QED BY <1>2, <2>2, <2>3, <2>4, <2>5, <3>1, <3>2, <4>2, <5>1, <5>2
      <4> QED BY <2>6, <3>1, <4>1, <4>2 DEF ListInOrder
    <3>5. Coalesced'
      <4>1. \A i \in kept \ {prev} : i + freelist[i].count <= EntriesCount
        BY <2>4 DEF ListInv, Coalesced, EndOf
      <4>2. \A i, j \in kept \ {prev} : i < j => i + freelist[i].count < j
        BY <2>4 DEF ListInv, Coalesced, EndOf
      <4> QED BY <1>2, <2>2, <2>3, <2>4, <2>5, <2>9, <3>1, <3>2, <4>1, <4>2 DEF Coalesced, EndOf
    <3>6. FreeOrHeld'
      <4> SUFFICES ASSUME NEW e \in 0..(EntriesCount - 1)
                   PROVE  e \in nodes' <=> ~\E i \in DOMAIN freelist' : i <= e /\ e < (EndOf(i))'
        BY DEF FreeOrHeld
      <4>1. (\E i \in DOMAIN freelist' : i <= e /\ e < (EndOf(i))') <=>
               InOther(e) \/ InPrev(e) \/ InFreed(e)
        BY <2>4, <2>5, <3>1, <3>2 DEF EndOf
      <4>2. e \in nodes' <=> ~(InOther(e) \/ InPrev(e) \/ InFreed(e))
        BY <2>7
      <4> HIDE DEF InOther, InPrev, InFreed
      <4> QED BY <4>1, <4>2
    <3> QED BY <3>3, <3>4, <3>5, <3>6 DEF ListInv
  <2> QED BY <2>8, <2>9
<1> QED BY <1>4, <1>5 DEF Free

LEMMA NextInv == ListInv /\ [Next]_vars => ListInv'
<1>1. ListInv /\ Next => ListInv'
  BY AllocInv, FreeInv DEF Next
<1>2. ListInv /\ UNCHANGED vars => ListInv'
  BY DEF vars, ListInv, TypeOK, ListInOrder, Coalesced, FreeOrHeld, EndOf
<1> QED BY <1>1, <1>2

LEMMA InvHolds == Spec => []ListInv
BY InitInv, NextInv, PTL DEF Spec
-----------------------------------------------------------------------------
(* What follows for callers.                                               *)

\* The list's words stay in the block: entries and links name places in it.
THEOREM TypeCorrect == Spec => []TypeOK
<1>1. ListInv => TypeOK
  BY DEF ListInv
<1> QED BY <1>1, InvHolds, PTL

\* Whatever is allocated and freed, the links visit the free entries one after
\* the other and end (the searches at tree_nodes_allocator.h:72 and line 113).
THEOREM LinksVisitAll == Spec => []ListInOrder
<1>1. ListInv => ListInOrder
  BY DEF ListInv
<1> QED BY <1>1, InvHolds, PTL

\* Freed neighbours are always one entry again, so that what first fit misses
\* (tree_nodes_allocator.h:77) is not there.
THEOREM NeighboursJoined == Spec => []Coalesced
<1>1. ListInv => Coalesced
  BY DEF ListInv
<1> QED BY <1>1, InvHolds, PTL

\* No entry is lost, and none that a caller holds is in the list.
THEOREM NoneLostOrShared == Spec => []FreeOrHeld
<1>1. ListInv => FreeOrHeld
  BY DEF ListInv
<1> QED BY <1>1, InvHolds, PTL

\* What Alloc takes, nobody held.
LEMMA AllocTakesFree ==
  ASSUME ListInv, NEW count \in Counts, NEW current \in DOMAIN freelist, FirstFit(current, count)
  PROVE  /\ Span(current, count) \subseteq 0..(EntriesCount - 1)
         /\ Span(current, count) \cap nodes = {}
<1>1. /\ count \in Nat \ {0} /\ EntriesCount \in Nat \ {0} /\ current \in 0..(EntriesCount - 1)
      /\ freelist[current].count \in 1..EntriesCount /\ count <= freelist[current].count
      /\ current + freelist[current].count <= EntriesCount
  BY HeapAssumption DEF FirstFit, ListInv, TypeOK, Coalesced, EndOf
<1>2. ASSUME NEW e \in Span(current, count) PROVE e \in 0..(EntriesCount - 1) /\ e \notin nodes
  <2>1. e \in 0..(EntriesCount - 1) /\ current <= e /\ e < EndOf(current)
    BY <1>1 DEF Span, EndOf
  <2> QED BY <2>1 DEF ListInv, FreeOrHeld
<1> QED BY <1>2

\* The header's count of allocated entries (tree_nodes_allocator.h:97, :143),
\* which nobody recomputes, is the number of entries handed out.
THEOREM CountIsRight == Spec => []CountRight
<1>1. Init => CountRight
  BY FS_EmptySet DEF Init, CountRight
<1>2. ASSUME ListInv, CountRight, [Next]_vars PROVE CountRight'
  <2>1. IsFiniteSet(nodes) /\ Cardinality(nodes) \in Nat
    <3>1. IsFiniteSet(0..(EntriesCount - 1))
      BY HeapAssumption, FS_Interval
    <3>2. nodes \in SUBSET (0..(EntriesCount - 1))
      BY <1>2 DEF ListInv, TypeOK
    <3>3. IsFiniteSet(nodes)
      BY <3>1, <3>2, FS_Subset
    <3> QED BY <3>3, FS_CardinalityType
  <2>2. ASSUME NEW index \in 0..(EntriesCount - 1), NEW count \in Counts
        PROVE  IsFiniteSet(Span(index, count)) /\ Cardinality(Span(index, count)) = count
    <3>1. index \in Int /\ index + count - 1 \in Int /\ count \in Nat \ {0}
      BY HeapAssumption
    <3>2. /\ IsFiniteSet(index..(index + count - 1))
          /\ Cardinality(index..(index + count - 1)) =
               IF index > index + count - 1 THEN 0 ELSE index + count - 1 - index + 1
      BY <3>1, FS_Interval
    <3> QED BY <3>1, <3>2 DEF Span
  <2>3. ASSUME NEW count \in Counts, Alloc(count) PROVE CountRight'
    <3>1. PICK current \in DOMAIN freelist :
            /\ FirstFit(current, count)
            /\ allocated_entries' = allocated_entries + count
            /\ nodes' = nodes \cup Span(current, count)
      BY <2>3 DEF Alloc
    <3>2. current \in 0..(EntriesCount - 1) /\ Span(current, count) \cap nodes = {}
      BY <1>2, <3>1, AllocTakesFree DEF ListInv, TypeOK
    <3>3. IsFiniteSet(Span(current, count)) /\ Cardinality(Span(current, count)) = count
      BY <2>2, <3>2
    <3>4. Cardinality(nodes') = Cardinality(nodes) + count - Cardinality(nodes \cap Span(current, count))
      BY <2>1, <3>1, <3>3, FS_Union
    <3>5. Cardinality(nodes \cap Span(current, count)) = 0
      BY <3>2, FS_EmptySet
    <3>6. count \in Nat
      BY HeapAssumption
    <3> QED BY <1>2, <2>1, <3>1, <3>4, <3>5, <3>6 DEF CountRight
  <2>4. ASSUME NEW count \in Counts, NEW index \in nodes, Free(index, count) PROVE CountRight'
    <3>1. /\ Span(index, count) \subseteq nodes
          /\ allocated_entries' = allocated_entries - count
          /\ nodes' = nodes \ Span(index, count)
      BY <2>4 DEF Free
    <3>2. Cardinality(Span(index, count)) = count
      BY <1>2, <2>2 DEF ListInv, TypeOK
    <3>3. Cardinality(nodes') = Cardinality(nodes) - Cardinality(nodes \cap Span(index, count))
      BY <2>1, <3>1, FS_Difference
    <3>4. nodes \cap Span(index, count) = Span(index, count)
      BY <3>1
    <3> QED BY <1>2, <3>1, <3>2, <3>3, <3>4 DEF CountRight
  <2>5. CASE UNCHANGED vars
    BY <1>2, <2>5 DEF CountRight, vars
  <2> QED BY <1>2, <2>3, <2>4, <2>5 DEF Next
<1> QED BY <1>1, <1>2, InvHolds, PTL DEF Spec

\* The heap keeps what PlacePool promises: entries are handed out to one caller
\* at a time, and only what a caller holds is taken back.
THEOREM HeapIsAPool == Spec => ImplementsPool
<1>1. Init => Pool!Init
  BY DEF Init, Pool!Init
<1>2. ASSUME ListInv, [Next]_vars PROVE [Pool!Next]_nodes
  <2>1. ASSUME NEW count \in Counts, Alloc(count) PROVE Pool!Next
    <3>1. PICK current \in DOMAIN freelist :
            FirstFit(current, count) /\ nodes' = nodes \cup Span(current, count)
      BY <2>1 DEF Alloc
    <3>2. /\ Span(current, count) \subseteq 0..(EntriesCount - 1)
          /\ Span(current, count) \cap nodes = {}
      BY <1>2, <3>1, AllocTakesFree
    <3> QED BY <3>1, <3>2 DEF Pool!Next, Pool!Take
  <2>2. ASSUME NEW count \in Counts, NEW index \in nodes, Free(index, count) PROVE Pool!Next
    <3>1. Span(index, count) \subseteq nodes /\ nodes' = nodes \ Span(index, count)
      BY <2>2 DEF Free
    <3>2. Span(index, count) \subseteq 0..(EntriesCount - 1)
      BY <1>2, <3>1 DEF ListInv, TypeOK
    <3> QED BY <3>1, <3>2 DEF Pool!Next, Pool!Give
  <2> QED BY <1>2, <2>1, <2>2 DEF Next, vars
<1> QED BY <1>1, <1>2, InvHolds, PTL DEF Spec, ImplementsPool, Pool!Spec
-----------------------------------------------------------------------------
(* What first fit finds.                                                   *)

FreeEntries == (0..(EntriesCount - 1)) \ nodes

IsFirstRun(index, count) ==
  /\ Span(index, count) \subseteq FreeEntries
  /\ \A j \in 0..(EntriesCount - 1) : Span(j, count) \subseteq FreeEntries => index <= j

FindsFirstRun ==
  \A count \in Counts :
    /\ \A current \in DOMAIN freelist : FirstFit(current, count) => IsFirstRun(current, count)
    /\ \A j \in 0..(EntriesCount - 1) :
         Span(j, count) \subseteq FreeEntries => \E current \in DOMAIN freelist : FirstFit(current, count)

LiesBehind(prev, index) == prev < index /\ index <= freelist[prev].next

FindsOnePlace ==
  \A index \in nodes :
    freelist_head <= index =>
      \E prev \in DOMAIN freelist :
        /\ LiesBehind(prev, index)
        /\ \A other \in DOMAIN freelist : LiesBehind(other, index) => other = prev

\* Every set of numbers has a least one.
LEMMA LeastOf ==
  ASSUME NEW S, S \subseteq Nat, S # {}
  PROVE  \E n \in S : \A m \in S : n <= m
<1> DEFINE R == OpToRel(<, Nat)
<1>1. IsWellFoundedOn(R, Nat)
  BY NatLessThanWellFounded
<1> HIDE DEF R
<1>2. PICK n \in S : \A m \in S : ~ (<<m, n>> \in R)
  BY <1>1, WFMin
<1>3. \A m \in S : m < n => <<m, n>> \in R
  BY DEF R, OpToRel
<1>4. ASSUME NEW m \in S PROVE n <= m
  <2>1. ~ (m < n)
    BY <1>2, <1>3
  <2> QED BY <2>1
<1> QED BY <1>4

\* The numbers of a free entry.
LEMMA FreeEntry ==
  ASSUME ListInv, NEW i \in DOMAIN freelist
  PROVE  /\ EntriesCount \in Nat \ {0} /\ i \in 0..(EntriesCount - 1)
         /\ freelist[i].count \in 1..EntriesCount /\ EndOf(i) = i + freelist[i].count
         /\ EndOf(i) <= EntriesCount /\ freelist[i].next \in 0..EntriesCount
BY HeapAssumption DEF ListInv, TypeOK, Coalesced, EndOf

\* Adjacent free entries are in one entry of the list.
LEMMA RunInOneEntry ==
  ASSUME ListInv, NEW count \in Nat \ {0}, NEW j \in 0..(EntriesCount - 1), Span(j, count) \subseteq FreeEntries
  PROVE  \E i \in DOMAIN freelist : i <= j /\ count <= freelist[i].count
<1>0. \A e \in Span(j, count) : e \in 0..(EntriesCount - 1) /\ \E i \in DOMAIN freelist : i <= e /\ e < EndOf(i)
  BY DEF ListInv, FreeOrHeld, FreeEntries
<1>1. EntriesCount \in Nat \ {0} /\ j \in Span(j, count)
  BY HeapAssumption DEF Span
<1>2. PICK i \in DOMAIN freelist : i <= j /\ j < EndOf(i)
  BY <1>0, <1>1
<1>3. /\ i \in 0..(EntriesCount - 1) /\ freelist[i].count \in 1..EntriesCount
      /\ EndOf(i) = i + freelist[i].count
  BY FreeEntry
<1>4. ASSUME EndOf(i) < j + count PROVE FALSE
  <2>1. EndOf(i) \in Span(j, count)
    BY <1>2, <1>3, <1>4 DEF Span
  <2>2. PICK k \in DOMAIN freelist : k <= EndOf(i) /\ EndOf(i) < EndOf(k)
    BY <1>0, <2>1
  <2>3. k \in 0..(EntriesCount - 1) /\ EndOf(k) \in Int
    BY FreeEntry
  <2>4. i < k => EndOf(i) < k
    BY DEF ListInv, Coalesced
  <2>5. k < i => EndOf(k) < i
    BY DEF ListInv, Coalesced
  <2> QED BY <1>2, <1>3, <2>2, <2>3, <2>4, <2>5
<1> QED BY <1>2, <1>3, <1>4

\* First fit finds the first run of free entries that is long enough, and finds
\* one whenever there is one: joining neighbours on every Free is enough for
\* that (tree_nodes_allocator.h:72).  PTree takes its nodes by this rule.
THEOREM FirstRunIsTaken == Spec => []FindsFirstRun
<1>1. ASSUME ListInv PROVE FindsFirstRun
  <2>1. ASSUME NEW count \in Counts PROVE
          /\ \A current \in DOMAIN freelist : FirstFit(current, count) => IsFirstRun(current, count)
          /\ \A j \in 0..(EntriesCount - 1) :
               Span(j, count) \subseteq FreeEntries => \E current \in DOMAIN freelist : FirstFit(current, count)
    <3>0. count \in Nat \ {0}
      BY HeapAssumption
    <3>1. ASSUME NEW current \in DOMAIN freelist, FirstFit(current, count)
          PROVE  IsFirstRun(current, count)
      <4>1. Span(current, count) \subseteq FreeEntries
        BY <1>1, <3>1, AllocTakesFree DEF FreeEntries
      <4>2. ASSUME NEW j \in 0..(EntriesCount - 1), Span(j, count) \subseteq FreeEntries
            PROVE  current <= j
        <5>1. PICK i \in DOMAIN freelist : i <= j /\ count <= freelist[i].count
          BY <1>1, <3>0, <4>2, RunInOneEntry
        <5>2. current <= i
          BY <3>1, <5>1 DEF FirstFit
        <5>3. i \in Int /\ current \in Int
          BY <1>1, FreeEntry
        <5> QED BY <5>1, <5>2, <5>3
      <4> QED BY <4>1, <4>2 DEF IsFirstRun
    <3>2. ASSUME NEW j \in 0..(EntriesCount - 1), Span(j, count) \subseteq FreeEntries
          PROVE  \E current \in DOMAIN freelist : FirstFit(current, count)
      <4> DEFINE Large == {i \in DOMAIN freelist : count <= freelist[i].count}
      <4>1. Large # {}
        BY <1>1, <3>0, <3>2, RunInOneEntry
      <4>2. Large \subseteq Nat
        BY <1>1, FreeEntry
      <4>3. PICK current \in Large : \A i \in Large : current <= i
        BY <4>1, <4>2, LeastOf
      <4> QED BY <4>3 DEF FirstFit
    <3> QED BY <3>1, <3>2
  <2> QED BY <2>1 DEF FindsFirstRun
<1> QED BY <1>1, InvHolds, PTL

\* The search of Free for the entry before the one given back ends at the only
\* entry it can stand behind, and never at the end of the list
\* (tree_nodes_allocator.h:113, which looks only at next).
THEOREM FreedHasItsPlace == Spec => []FindsOnePlace
<1>1. ASSUME ListInv PROVE FindsOnePlace
  <2>1. ASSUME NEW index \in nodes, freelist_head <= index
        PROVE  \E prev \in DOMAIN freelist :
                 /\ LiesBehind(prev, index)
                 /\ \A other \in DOMAIN freelist : LiesBehind(other, index) => other = prev
    <3>0. index \in 0..(EntriesCount - 1) /\ EntriesCount \in Nat \ {0}
      BY <1>1, HeapAssumption DEF ListInv, TypeOK
    <3>1. freelist_head \in DOMAIN freelist
      BY <1>1, <2>1, <3>0 DEF ListInv, ListInOrder
    <3>2. index \notin DOMAIN freelist
      <4>1. ASSUME index \in DOMAIN freelist PROVE FALSE
        <5>1. index <= index /\ index < EndOf(index)
          BY <1>1, <4>1, FreeEntry
        <5> QED BY <1>1, <3>0, <4>1, <5>1 DEF ListInv, FreeOrHeld
      <4> QED BY <4>1
    <3>3. \A i \in DOMAIN freelist : i \in 0..(EntriesCount - 1) /\ freelist[i].next \in 0..EntriesCount
      BY <1>1, FreeEntry
    <3>4. PICK prev \in DOMAIN freelist : prev < index /\ \A i \in DOMAIN freelist : i < index => i <= prev
      <4> DEFINE Backwards == {EntriesCount - i : i \in {k \in DOMAIN freelist : k < index}}
      <4>1. freelist_head < index
        BY <2>1, <3>0, <3>1, <3>2, <3>3
      <4>2. Backwards \subseteq Nat /\ Backwards # {}
        BY <3>0, <3>1, <3>3, <4>1
      <4>3. PICK n \in Backwards : \A m \in Backwards : n <= m
        BY <4>2, LeastOf
      <4>4. PICK prev \in DOMAIN freelist : prev < index /\ n = EntriesCount - prev
        BY <4>3
      <4>5. ASSUME NEW i \in DOMAIN freelist, i < index PROVE i <= prev
        <5>1. EntriesCount - i \in Backwards
          BY <4>5
        <5>2. EntriesCount - prev <= EntriesCount - i
          BY <4>3, <4>4, <5>1
        <5> QED BY <3>0, <3>3, <5>2
      <4> QED BY <4>4, <4>5
    <3>5. LiesBehind(prev, index)
      <4>1. freelist[prev].next \in DOMAIN freelist \cup {EntriesCount} /\ prev < freelist[prev].next
        BY <1>1 DEF ListInv, ListInOrder
      <4> QED BY <3>0, <3>3, <3>4, <4>1 DEF LiesBehind
    <3>6. ASSUME NEW other \in DOMAIN freelist, LiesBehind(other, index) PROVE other = prev
      <4>1. other < prev => freelist[other].next <= prev
        BY <1>1 DEF ListInv, ListInOrder
      <4>2. other < index /\ index <= freelist[other].next /\ other <= prev
        BY <3>4, <3>6 DEF LiesBehind
      <4> QED BY <3>0, <3>3, <3>4, <4>1, <4>2
    <3> QED BY <3>5, <3>6
  <2> QED BY <2>1 DEF FindsOnePlace
<1> QED BY <1>1, InvHolds, PTL
=============================================================================
