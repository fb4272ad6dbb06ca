------------------------- MODULE TreeNodesAllocator -------------------------
(***************************************************************************)
(* The heap of tree nodes inside a block (src/src/tree_nodes_allocator.h): *)
(* entries of one size and a list of the free ones, in ascending order,    *)
(* each naming the next.  First fit; neighbours are joined when freed.     *)
(*                                                                         *)
(* The list is kept in the free entries themselves: freelist has a value   *)
(* for those entries that now are one, and no other.                       *)
(***************************************************************************)
EXTENDS Integers, FiniteSets

CONSTANTS
  EntriesCount,  \* entries_count(): entries that fit between header and footer
  Counts         \* how many entries callers ask for at once

ASSUME HeapAssumption == EntriesCount \in Nat \ {0} /\ Counts \subseteq Nat \ {0}

VARIABLES
  freelist_head,      \* first free entry, EntriesCount if there is none
  freelist,           \* HeapFreelistEntry of each: [count, next]
  allocated_entries,  \* the header's count
  nodes               \* the entries callers hold

vars == <<freelist_head, freelist, allocated_entries, nodes>>

Span(index, count) == index..(index + count - 1)

Entry(count, next) == [count |-> count, next |-> next]

Init ==
  /\ freelist_head = 0
  /\ freelist = [i \in {0} |-> Entry(EntriesCount, EntriesCount)]
  /\ allocated_entries = 0
  /\ nodes = {}
-----------------------------------------------------------------------------
(* Alloc takes the front of the first entry that is large enough.          *)

FirstFit(current, count) ==
  /\ count <= freelist[current].count
  /\ \A i \in DOMAIN freelist : count <= freelist[i].count => current <= i

\* Mutant: the entry before keeps its link to what is now taken.
AllocatedStillLinked(current, count) ==
  LET entry == freelist[current]
      rest  == current + count
  IN  [i \in (DOMAIN freelist \ {current}) \cup (IF count < entry.count THEN {rest} ELSE {}) |->
         IF i = rest /\ count < entry.count THEN Entry(entry.count - count, entry.next)
         ELSE freelist[i]]

\* The list with what remains of the entry, if anything, in its place.
Allocated(current, count) ==
  LET entry == freelist[current]
      rest  == current + count
      part  == count < entry.count
      after == IF part THEN rest ELSE entry.next
  IN  [i \in (DOMAIN freelist \ {current}) \cup (IF part THEN {rest} ELSE {}) |->
         IF i = rest /\ part THEN Entry(entry.count - count, entry.next)
         ELSE IF freelist[i].next = current THEN Entry(freelist[i].count, after)
         ELSE freelist[i]]

Alloc(count) ==
  \E current \in DOMAIN freelist :
    /\ FirstFit(current, count)
    /\ freelist' = Allocated(current, count)
    /\ freelist_head' =
         IF current # freelist_head THEN freelist_head
         ELSE IF count < freelist[current].count THEN current + count
         ELSE freelist[current].next
    /\ allocated_entries' = allocated_entries + count
    /\ nodes' = nodes \cup Span(current, count)
-----------------------------------------------------------------------------
(* Free puts a range back before its successor in the list, and joins it   *)
(* with its neighbours.                                                    *)

\* Mutant: never joined.
WrittenApart(list, index, count, next) ==
  [i \in DOMAIN list \cup {index} |-> IF i = index THEN Entry(count, next) ELSE list[i]]

\* Mutant: of two joined entries only the second is counted.
WrittenShort(list, index, count, next) ==
  [i \in (DOMAIN list \cup {index}) \ {next} |->
     IF i # index THEN list[i]
     ELSE IF next \in DOMAIN list /\ next = index + count THEN list[next] ELSE Entry(count, next)]

\* Mutant: one entry more than was freed.
WrittenLong(list, index, count, next) ==
  [i \in DOMAIN list \cup {index} |-> IF i = index THEN Entry(count + 1, next) ELSE list[i]]

\* The list with an entry written, joined with the next one if it reaches it.
Written(list, index, count, next) ==
  LET joins == next # EntriesCount /\ next = index + count
  IN  [i \in (DOMAIN list \cup {index}) \ (IF joins THEN {next} ELSE {}) |->
         IF i # index THEN list[i]
         ELSE IF joins THEN Entry(count + list[next].count, list[next].next)
         ELSE Entry(count, next)]

\* Before the whole list.
FreeAtFront(index, count) ==
  /\ index < freelist_head
  /\ freelist_head' = index
  /\ freelist' = Written(freelist, index, count, freelist_head)

\* Behind the last entry that lies before it.
FreeBehind(index, count, prev) ==
  LET before == freelist[prev]
  IN  /\ prev < index
      /\ index <= before.next
      /\ freelist' =
           IF prev + before.count = index
           THEN Written(freelist, prev, before.count + count, before.next)
           ELSE Written([freelist EXCEPT ![prev] = Entry(before.count, index)],
                        index, count, before.next)
      /\ UNCHANGED freelist_head

\* Callers may give back a part of what they got: PTree takes several nodes at
\* once and frees them one by one.
Free(index, count) ==
  /\ Span(index, count) \subseteq nodes
  /\ \/ FreeAtFront(index, count)
     \/ freelist_head <= index /\ \E prev \in DOMAIN freelist : FreeBehind(index, count, prev)
  /\ allocated_entries' = allocated_entries - count
  /\ nodes' = nodes \ Span(index, count)

Next ==
  \E count \in Counts :
    \/ Alloc(count)
    \/ \E index \in nodes : Free(index, count)

Spec == Init /\ [][Next]_vars
-----------------------------------------------------------------------------
EndOf(i) == i + freelist[i].count

TypeOK ==
  /\ DOMAIN freelist \subseteq 0..(EntriesCount - 1)
  /\ freelist \in [DOMAIN freelist -> [count : 1..EntriesCount, next : 0..EntriesCount]]
  /\ freelist_head \in 0..EntriesCount
  /\ allocated_entries \in Int
  /\ nodes \subseteq 0..(EntriesCount - 1)

\* From the head the links visit all free entries, in ascending order, so that
\* the searches of Alloc (tree_nodes_allocator.h:72) and Free (line 113)
\* neither miss an entry nor run past the end.
ListInOrder ==
  /\ freelist_head \in DOMAIN freelist \cup {EntriesCount}
  /\ \A i \in DOMAIN freelist :
       /\ freelist_head <= i
       /\ freelist[i].next \in DOMAIN freelist \cup {EntriesCount}
       /\ i < freelist[i].next
       /\ \A j \in DOMAIN freelist : i < j => freelist[i].next <= j

\* Free entries are apart, and not even adjacent: whatever was freed next to
\* each other is one entry again.
Coalesced ==
  \A i \in DOMAIN freelist :
    /\ EndOf(i) <= EntriesCount
    /\ \A j \in DOMAIN freelist : i < j => EndOf(i) < j

\* Each entry is either held or in the list: none is lost, none is both.
FreeOrHeld ==
  \A e \in 0..(EntriesCount - 1) :
    e \in nodes <=> ~\E i \in DOMAIN freelist : i <= e /\ e < EndOf(i)

\* The header's count is that of the entries handed out.
CountRight == allocated_entries = Cardinality(nodes)

Pool == INSTANCE PlacePool WITH Places <- 0..(EntriesCount - 1), taken <- nodes

\* Whichever entry first fit finds, callers get entries of their own.
ImplementsPool == Pool!Spec
=============================================================================
