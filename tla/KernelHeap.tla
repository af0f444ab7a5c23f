----------------------------- MODULE KernelHeap -----------------------------
(***************************************************************************)
(* The kernel heap (kernel/lib/malloc.c): a static array carved into       *)
(* blocks, each a header followed by its payload, the headers linked in    *)
(* both directions. The interrupt handler never allocates, so malloc, free *)
(* and calloc run one at a time and are one action each.                   *)
(*                                                                         *)
(* A block is named by the offset of its header in kernel_heap. hdr holds  *)
(* the headers that are on the list; split_block adds one in the middle of *)
(* a payload and coalesce leaves one behind as payload.                    *)
(***************************************************************************)
EXTENDS Integers, FiniteSets, FiniteSetsExt

CONSTANTS
  HeapSize,    \* KERNEL_HEAP_SIZE
  HeaderSize,  \* sizeof(block_header_t)
  Align,       \* ALIGNMENT
  WordSize,    \* the number of values of a size_t
  Requests,    \* the sizes callers pass to malloc
  Counts       \* the counts callers pass to calloc

ASSUME HeapAssumption ==
  /\ HeapSize \in Nat /\ HeaderSize \in Nat \ {0} /\ HeaderSize < HeapSize
  /\ Align \in Nat \ {0}
  /\ WordSize \in Nat \ {0} /\ HeapSize < WordSize
  /\ Requests \subseteq 0 .. WordSize - 1 /\ Counts \subseteq 0 .. WordSize - 1

VARIABLES
  heap_ready,  \* heap_ready
  hdr,         \* the headers reached from heap_head, by offset
  held         \* history: the payloads callers have and what they asked for

vars == <<heap_ready, hdr, held>>

NULL == -1
heap_head == 0
MIN_SPLIT == HeaderSize + Align
Offset == 0 .. HeapSize - HeaderSize
Header == [size : Nat, next : Offset \cup {NULL}, prev : Offset \cup {NULL}, free : BOOLEAN]

End(h, x) == x + HeaderSize + h[x].size

\* The addition wraps around; the mask then rounds down.
align_up(size) == LET s == (size + Align - 1) % WordSize IN s - (s % Align)

\* Mutation: the block after the new one keeps its old prev.
SplitKeepsPrev(h, x, payload) ==
  LET y == x + HeaderSize + payload
      n == h[x].next
  IN  IF h[x].size - payload <= MIN_SPLIT THEN h
      ELSE [z \in DOMAIN h \cup {y} |->
              IF z = x THEN [h[x] EXCEPT !.size = payload, !.next = y]
              ELSE IF z = y THEN [size |-> h[x].size - payload - HeaderSize,
                                  next |-> n, prev |-> x, free |-> TRUE]
              ELSE h[z]]

\* Mutation: the header of the new block is not taken off its size.
SplitForgetsHeader(h, x, payload) ==
  LET y == x + HeaderSize + payload
      n == h[x].next
  IN  IF h[x].size - payload <= MIN_SPLIT THEN h
      ELSE [z \in DOMAIN h \cup {y} |->
              IF z = x THEN [h[x] EXCEPT !.size = payload, !.next = y]
              ELSE IF z = y THEN [size |-> h[x].size - payload,
                                  next |-> n, prev |-> x, free |-> TRUE]
              ELSE IF z = n THEN [h[z] EXCEPT !.prev = y]
              ELSE h[z]]

\* The block keeps payload bytes and the rest becomes a free block after it,
\* unless the rest is too small.
split_block(h, x, payload) ==
  LET y == x + HeaderSize + payload
      n == h[x].next
  IN  IF h[x].size - payload <= MIN_SPLIT THEN h
      ELSE [z \in DOMAIN h \cup {y} |->
              IF z = x THEN [h[x] EXCEPT !.size = payload, !.next = y]
              ELSE IF z = y THEN [size |-> h[x].size - payload - HeaderSize,
                                  next |-> n, prev |-> x, free |-> TRUE]
              ELSE IF z = n THEN [h[z] EXCEPT !.prev = y]
              ELSE h[z]]

\* Block x takes over the block y that follows it.
Absorb(h, x, y) ==
  LET n == h[y].next
  IN  [z \in DOMAIN h \ {y} |->
         IF z = x THEN [h[x] EXCEPT !.size = @ + HeaderSize + h[y].size, !.next = n]
         ELSE IF z = n THEN [h[z] EXCEPT !.prev = x]
         ELSE h[z]]

MergeNext(h, x) == LET n == h[x].next
                   IN  IF n = NULL THEN h ELSE IF h[n].free THEN Absorb(h, x, n) ELSE h
MergePrev(h, x) == LET p == h[x].prev
                   IN  IF p = NULL THEN h ELSE IF h[p].free THEN Absorb(h, p, x) ELSE h

\* Mutation: the block before is looked at first, and then the one after is
\* only merged when there was none before.
CoalesceOneSide(h, x) == IF MergePrev(h, x) # h THEN MergePrev(h, x) ELSE MergeNext(h, x)

coalesce(h, x) == MergePrev(MergeNext(h, x), x)

\* First fit. The list is in address order (HeapTiled), so the first block on
\* it that fits is the one with the lowest offset.
Fits(h, size) == {x \in DOMAIN h : h[x].free /\ h[x].size >= size}

FreshHeap == [x \in {heap_head} |-> [size |-> HeapSize - HeaderSize, next |-> NULL,
                                     prev |-> NULL, free |-> TRUE]]

Init == heap_ready = FALSE /\ hdr = [x \in {} |-> FALSE] /\ held = {}

heap_init ==
  /\ ~heap_ready
  /\ hdr' = FreshHeap
  /\ heap_ready' = TRUE
  /\ UNCHANGED held

\* The allocation malloc and calloc share; nothing fits is a return of NULL
\* from a heap that is initialised all the same.
Allocate(size, asked) ==
  /\ size # 0
  /\ LET h == IF heap_ready THEN hdr ELSE FreshHeap
         need == align_up(size)
         fits == Fits(h, need)
     IN  /\ heap_ready' = TRUE
         /\ \/ /\ fits = {}
               /\ hdr' = h /\ UNCHANGED held
            \/ \E x \in fits :
                 LET s == split_block(h, x, need)
                 IN  /\ \A y \in fits : x <= y
                     /\ hdr' = [s EXCEPT ![x].free = FALSE]
                     /\ held' = held \cup {[at |-> x, size |-> asked]}

malloc(size) == Allocate(size, size)

\* Mutation: the overflow test is left out.
CallocUnchecked(count, size) ==
  count # 0 /\ Allocate((count * size) % WordSize, count * size)

\* The product wraps around; the division finds out.
calloc(count, size) ==
  LET total == (count * size) % WordSize
  IN  count # 0 /\ total \div count = size /\ Allocate(total, count * size)

\* A caller frees what it holds, once. pointer_in_heap and the test of the
\* free flag let such a pointer through.
free(p) ==
  /\ p \in held /\ ~hdr[p.at].free
  /\ hdr' = coalesce([hdr EXCEPT ![p.at].free = TRUE], p.at)
  /\ held' = held \ {p}
  /\ UNCHANGED heap_ready

heap_get_stats ==
  LET used == {x \in DOMAIN hdr : ~hdr[x].free}
      idle == DOMAIN hdr \ used
      bytes(S) == MapThenSumSet(LAMBDA x : hdr[x].size, S)
  IN  IF ~heap_ready
      THEN [used |-> 0, free |-> HeapSize - HeaderSize, allocations |-> 0, frees |-> 1]
      ELSE [used |-> bytes(used), free |-> bytes(idle),
            allocations |-> Cardinality(used), frees |-> Cardinality(idle)]

Next == \/ heap_init
        \/ \E n \in Requests : malloc(n)
        \/ \E k \in Counts, n \in Requests : calloc(k, n)
        \/ \E p \in held : free(p)

Spec == Init /\ [][Next]_vars

-----------------------------------------------------------------------------
(* Properties.                                                             *)

\* Headers are headers, and callers hold offsets of headers.
TypeOK == /\ heap_ready \in BOOLEAN
          /\ DOMAIN hdr \subseteq Offset
          /\ \A x \in DOMAIN hdr : hdr[x] \in Header
          /\ held \subseteq [at : DOMAIN hdr, size : Nat]

Linked(h) ==
  /\ heap_head \in DOMAIN h
  /\ \A x \in DOMAIN h :
       /\ h[x].prev = NULL <=> x = heap_head
       /\ h[x].prev # NULL => h[x].prev \in DOMAIN h /\ h[h[x].prev].next = x
       /\ IF h[x].next = NULL THEN End(h, x) = HeapSize
          ELSE /\ h[x].next \in DOMAIN h
               /\ h[x].next = End(h, x)
               /\ h[h[x].next].prev = x

Disjoint(h) == \A x, y \in DOMAIN h : x < y => End(h, x) <= y

\* The blocks tile kernel_heap from end to end, in the order of the list, and
\* next and prev are each other's inverse, after any sequence of splits and
\* merges: no byte is in two payloads or in none.
HeapTiled == heap_ready => Linked(hdr) /\ Disjoint(hdr)

\* free leaves no two free blocks side by side, so a request only fails when
\* no stretch of free memory holds it; when callers have freed everything the
\* heap is one block again.
NoFreeNeighbours ==
  \A x \in DOMAIN hdr : hdr[x].free /\ hdr[x].next # NULL => ~hdr[hdr[x].next].free

\* What a caller holds is a block of its own that is not free and has room for
\* what was asked for, except for the last sizes of a size_t, which align_up
\* wraps around to 0.
HeldBacked ==
  /\ \A p \in held : /\ ~hdr[p.at].free
                     /\ p.size \notin WordSize - Align + 1 .. WordSize - 1 => hdr[p.at].size >= p.size
  /\ \A p, q \in held : p.at = q.at => p = q
  /\ \A x \in DOMAIN hdr : hdr[x].free \/ \E p \in held : p.at = x

\* heap_get_stats accounts for every byte: payloads and headers add up to the
\* heap, and the values it reports before the heap is initialised are the
\* ones it reports after. The types hold.
StatsAccount ==
  LET s == heap_get_stats
  IN  TypeOK /\ s.used + s.free + HeaderSize * (s.allocations + s.frees) = HeapSize
=============================================================================
