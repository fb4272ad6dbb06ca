------------------------- MODULE SubBlockAllocator -------------------------
(***************************************************************************)
(* The buddy heap inside a directory block                                 *)
(* (src/src/sub_block_allocator.cpp): blocks of 2^k units, a unit being    *)
(* 1 << BLOCK_SIZE_QUANTA bytes; for each k a circular list of the free    *)
(* ones, kept in themselves; a free block's mark tells its buddy that the  *)
(* two may be joined.                                                      *)
(*                                                                         *)
(* A mark is read from whatever lies there: those of joined blocks and of  *)
(* a heap that is set up anew stay until somebody writes over them.  What  *)
(* callers write is taken never to look like a mark.                       *)
(***************************************************************************)
EXTENDS BuddyHeap

ASSUME HeapAssumption ==
  /\ MaxLog2 \in Nat \ {0}
  /\ Units \in {2 ^ (MaxLog2 + n) : n \in 0..MaxLog2}

VARIABLES
  free_list,  \* the header's lists: [count, head] for each log2 size
  entries,    \* SubBlockAllocatorFreeListEntry of each free block
  marks       \* log2_block_size of each place whose free_mark is set

vars == <<free_list, entries, marks, held>>

NoMark == -1

\* The block of that size that offset lies in, and its other half in the next.
Aligned(offset, log2) == offset - (offset % 2 ^ log2)
Buddy(offset, log2) ==
  LET start == Aligned(offset, log2)
  IN  IF start % 2 ^ (log2 + 1) = 0 THEN start + 2 ^ log2 ELSE start - 2 ^ log2

Entry(next, prev, log2) == [next |-> next, prev |-> prev, log2_block_size |-> log2]

State == [free_list |-> free_list, entries |-> entries, marks |-> marks]
-----------------------------------------------------------------------------
\* Mutant: the entry behind keeps its prev.
UnlinkedForward(s, gone) ==
  [free_list |-> [k \in Logs |->
     LET of == {o \in gone : s.entries[o].log2_block_size = k}
     IN  [count |-> s.free_list[k].count - Cardinality(of),
          head  |-> IF of = {} THEN s.free_list[k].head
                    ELSE s.entries[CHOOSE o \in of : TRUE].next]],
   entries |-> [o \in DOMAIN s.entries \ gone |->
     [s.entries[o] EXCEPT !.next = IF @ \in gone THEN s.entries[@].next ELSE @]],
   marks |-> s.marks]

\* Unlink of entries of different lists: the head of each list moves to what is
\* behind the entry, wherever it was.
Unlinked(s, gone) ==
  [free_list |-> [k \in Logs |->
     LET of == {o \in gone : s.entries[o].log2_block_size = k}
     IN  [count |-> s.free_list[k].count - Cardinality(of),
          head  |-> IF of = {} THEN s.free_list[k].head
                    ELSE s.entries[CHOOSE o \in of : TRUE].next]],
   entries |-> [o \in DOMAIN s.entries \ gone |->
     [s.entries[o] EXCEPT !.next = IF @ \in gone THEN s.entries[@].next ELSE @,
                          !.prev = IF @ \in gone THEN s.entries[@].prev ELSE @]],
   marks |-> s.marks]

\* Mutant: the mark stays.
PopMarkedEntry(s, k) == Unlinked(s, {s.free_list[k].head})

PopFreeEntry(s, k) ==
  [Unlinked(s, {s.free_list[k].head}) EXCEPT !.marks[s.free_list[k].head] = NoMark]

CanAlloc(s, size) == \E k \in GetSizeGroup(size)..MaxLog2 : s.free_list[k].count # 0

\* Mutant: a large block is broken first.
FoundLargest(s, size) ==
  CHOOSE k \in GetSizeGroup(size)..MaxLog2 :
    /\ s.free_list[k].count # 0
    /\ \A j \in (k + 1)..MaxLog2 : s.free_list[j].count = 0

\* The size of the block that is taken, the least there is.
Found(s, size) ==
  CHOOSE k \in GetSizeGroup(size)..MaxLog2 :
    /\ s.free_list[k].count # 0
    /\ \A j \in GetSizeGroup(size)..(k - 1) : s.free_list[j].count = 0

\* Mutant: what is cut off is listed one size smaller.
SplitSmaller(s, offset, base, k) ==
  LET Half(o) == CHOOSE i \in base..(k - 1) : o = offset + 2 ^ i
      halves  == {offset + 2 ^ i : i \in base..(k - 1)}
  IN  [free_list |-> [i \in Logs |-> IF i \in base..(k - 1)
                                     THEN [count |-> 1, head |-> offset + 2 ^ i]
                                     ELSE s.free_list[i]],
       entries |-> [o \in DOMAIN s.entries \cup halves |->
                      IF o \in halves THEN Entry(o, o, Half(o)) ELSE s.entries[o]],
       marks |-> [o \in Offsets |-> IF o \in halves THEN base ELSE s.marks[o]]]

\* Of a block of 2^k units the first 2^base are used; what is cut off is one
\* block of each size between, which becomes the only one of its list.
Split(s, offset, base, k) ==
  LET Half(o) == CHOOSE i \in base..(k - 1) : o = offset + 2 ^ i
      halves  == {offset + 2 ^ i : i \in base..(k - 1)}
  IN  [free_list |-> [i \in Logs |-> IF i \in base..(k - 1)
                                     THEN [count |-> 1, head |-> offset + 2 ^ i]
                                     ELSE s.free_list[i]],
       entries |-> [o \in DOMAIN s.entries \cup halves |->
                      IF o \in halves THEN Entry(o, o, Half(o)) ELSE s.entries[o]],
       marks |-> [o \in Offsets |-> IF o \in halves THEN Half(o) ELSE s.marks[o]]]

Allocated(s, size) ==
  LET k == Found(s, size)
  IN  Split(PopFreeEntry(s, k), s.free_list[k].head, GetSizeGroup(size), k)
-----------------------------------------------------------------------------
\* Mutant: any free block that begins there will do.
OtherHalfMarked(s, offset, log2) == s.marks[Buddy(offset, log2)] # NoMark

OtherHalfFree(s, offset, log2) == s.marks[Buddy(offset, log2)] = log2

\* How large a block freed at offset becomes.
JoinedSize(s, offset, log2) ==
  CHOOSE k \in log2..MaxLog2 :
    /\ k = MaxLog2 \/ ~OtherHalfFree(s, offset, k)
    /\ \A j \in log2..(k - 1) : OtherHalfFree(s, offset, j)

\* Mutant: one of them is forgotten.
LinkedInstead(s, offset, k) ==
  [s EXCEPT !.free_list[k] = [count |-> 1, head |-> offset],
            !.entries = [o \in DOMAIN @ \cup {offset} |->
                           IF o = offset THEN Entry(offset, offset, k) ELSE @[o]],
            !.marks[offset] = k]

\* At the end of its list.
Linked(s, offset, k) ==
  LET list == s.free_list[k]
      last == s.entries[list.head].prev
  IN  IF list.count = 0
      THEN [s EXCEPT !.free_list[k] = [count |-> 1, head |-> offset],
                     !.entries = [o \in DOMAIN @ \cup {offset} |->
                                    IF o = offset THEN Entry(offset, offset, k) ELSE @[o]],
                     !.marks[offset] = k]
      ELSE [s EXCEPT !.free_list[k].count = @ + 1,
                     !.entries = [o \in DOMAIN @ \cup {offset} |->
                                    IF o = offset THEN Entry(list.head, last, k)
                                    ELSE Entry(IF o = last THEN offset ELSE @[o].next,
                                               IF o = list.head THEN offset ELSE @[o].prev,
                                               @[o].log2_block_size)],
                     !.marks[offset] = k]

Freed(s, offset, log2) ==
  LET k == JoinedSize(s, offset, log2)
  IN  Linked(Unlinked(s, {Buddy(offset, j) : j \in log2..(k - 1)}), Aligned(offset, k), k)

\* Shrink frees one block of each size between, from the smallest on.
Shrunk(s, offset, new, old) ==
  LET state[k \in new..old] ==
        IF k = new THEN s ELSE Freed(state[k - 1], offset + 2 ^ (k - 1), k - 1)
  IN  state[old]
-----------------------------------------------------------------------------
\* The lists of Init before the headers are allocated.  Marks that were in the
\* block stay, except under the headers.
Fresh(old) ==
  LET starts == {o \in Offsets : o % 2 ^ MaxLog2 = 0}
  IN  [free_list |-> [k \in Logs |->
                        [count |-> IF k = MaxLog2 THEN Cardinality(starts) ELSE 0, head |-> 0]],
       entries |-> [o \in starts |-> Entry((o + 2 ^ MaxLog2) % Units, (o + Units - 2 ^ MaxLog2) % Units, MaxLog2)],
       marks |-> [o \in Offsets |-> IF o < HeadersUnits \/ old[o] = NoMark THEN NoMark
                                    ELSE IF o \in starts THEN MaxLog2 ELSE old[o]]]

Become(s) == free_list' = s.free_list /\ entries' = s.entries /\ marks' = s.marks

Init ==
  /\ \E s \in {Allocated(Fresh([o \in Offsets |-> NoMark]), HeadersUnits)} :
       free_list = s.free_list /\ entries = s.entries /\ marks = s.marks
  /\ held = Headers

\* The directory starts over in the same block: its last entry was erased, or
\* it is copied anew from a copy (merge_empty_node).
Reinit ==
  /\ \E s \in {Allocated(Fresh(marks), HeadersUnits)} : Become(s)
  /\ held' = Headers

Alloc(size) ==
  /\ CanAlloc(State, size)
  /\ \E s \in {Allocated(State, size)} : Become(s)
  /\ held' = Taken(held, free_list[Found(State, size)].head, GetSizeGroup(size))

Shrink(offset, size) ==
  /\ GetSizeGroup(size) < held[offset]
  /\ \E s \in {Shrunk(State, offset, GetSizeGroup(size), held[offset])} : Become(s)
  /\ held' = Taken(held, offset, GetSizeGroup(size))

\* Callers free what they were given, whole.
Free(offset) ==
  /\ \E s \in {Freed(State, offset, held[offset])} : Become(s)
  /\ held' = GivenBack(held, offset)

\* A node or metadata is written to a block.
WriteOver(offset) ==
  /\ marks' = [o \in Offsets |-> IF o \in Span(offset, held[offset]) THEN NoMark ELSE marks[o]]
  /\ UNCHANGED <<free_list, entries, held>>

Next ==
  \/ \E size \in Sizes : Alloc(size)
  \/ \E offset \in DOMAIN held \ {0} :
       \/ Free(offset)
       \/ WriteOver(offset)
       \/ \E size \in Sizes : Shrink(offset, size)
  \/ Reinit

Spec == Init /\ [][Next]_vars
-----------------------------------------------------------------------------
Listed(log2) == {o \in DOMAIN entries : entries[o].log2_block_size = log2}

\* From its head, each list leads through all the free blocks of its size and
\* back, and prev is the way back: so that a block can be unlinked wherever it
\* is, and the head moved to whatever is behind it (sub_block_allocator.cpp:144).
ListsLinked ==
  \A k \in Logs :
    /\ free_list[k].count = Cardinality(Listed(k))
    /\ Listed(k) # {} => free_list[k].head \in Listed(k)
    /\ \A o \in Listed(k) :
         /\ entries[o].next \in Listed(k) /\ entries[entries[o].next].prev = o
         /\ entries[o].prev \in Listed(k) /\ entries[entries[o].prev].next = o
    /\ \A part \in (SUBSET Listed(k)) \ {{}} :
         (\A o \in part : entries[o].next \in part) => part = Listed(k)

\* The lists hold exactly the free blocks, whole: no unit in use is listed, none
\* that is unused is forgotten, and what was freed side by side is one block
\* again, whatever the order, though only marks say so.  Hence a request is
\* refused only when no aligned run of its size is unused.
WholeBlocksListed ==
  NoneShared /\ \A k \in Logs : Listed(k) = FreeBlocks(held, k)

\* What lies at the other half of a block in use looks like a free block's mark
\* exactly if that half is a free block, so that freeing this one may trust it
\* (sub_block_allocator.cpp:86): no mark left behind by a join, a split or an
\* earlier directory is ever read as one.
MarksTellFree ==
  \A o \in DOMAIN held :
    held[o] < MaxLog2 =>
      (OtherHalfFree(State, o, held[o]) <=> Buddy(o, held[o]) \in Listed(held[o]))

\* The lists, the links and the marks implement the heap that the directory
\* trees rely on: what Alloc hands out and Shrink keeps is cut from the least
\* free block there is and held by nobody else (sub_block_allocator.cpp:45,120).
ImplementsHeap == HeapSpec
=============================================================================
