----------------------------- MODULE HeapProofs -----------------------------
(***************************************************************************)
(* The kernel heap and the swap files over it, for every size of the heap, *)
(* of its headers and of a size_t, every alignment and every sequence of   *)
(* requests.                                                               *)
(*   The heap: its list of blocks tiles it, free neighbours are merged,    *)
(* what was handed out is backed by a block in use, and heap_get_stats     *)
(* counts every block and every byte once.                                 *)
(*   Swap files, with every sequence of texts, offsets and reservations    *)
(* and every other caller of malloc and free: the buffer keeps what was    *)
(* written to it (SwapKeepsText), it is owned once, is as large as the     *)
(* swap file believes, and is never leaked (BufferOwned), and the heap     *)
(* keeps its own invariants under these callers.                           *)
(***************************************************************************)
EXTENDS SwapFile, TLAPS, FiniteSetTheorems, NaturalsInduction, WellFoundedInduction

-----------------------------------------------------------------------------
(* The kernel heap.                                                        *)

\* A list of headers: well typed, linked both ways, tiling the heap.
Heap(h) == /\ DOMAIN h \subseteq Offset
           /\ \A x \in DOMAIN h : h[x] \in Header
           /\ h = [x \in DOMAIN h |-> h[x]]
           /\ Linked(h)
           /\ Disjoint(h)

\* The rounded size is a number, though possibly 0.
LEMMA AlignType ==
  ASSUME NEW size \in Nat
  PROVE  align_up(size) \in Nat
<1> DEFINE s == (size + Align - 1) % WordSize
<1>1. s \in Nat
  BY HeapAssumption
<1>2. s % Align \in 0 .. Align - 1 /\ s % Align <= s
  BY <1>1, HeapAssumption
<1> HIDE DEF s
<1>3. s - (s % Align) \in Nat
  BY <1>1, <1>2, HeapAssumption
<1> QED BY <1>3 DEF align_up, s

\* What is known of one block of a heap.
Facts(h, x) ==
  /\ x \in Nat /\ x <= HeapSize - HeaderSize /\ x # NULL
  /\ h[x].size \in Nat /\ End(h, x) \in Nat
  /\ h[x].next \in Offset \cup {NULL} /\ h[x].prev \in Offset \cup {NULL}
  /\ End(h, x) = x + HeaderSize + h[x].size /\ End(h, x) <= HeapSize
  /\ h[x].next # NULL => /\ h[x].next \in DOMAIN h
                         /\ h[x].next = End(h, x)
                         /\ h[h[x].next].prev = x
  /\ h[x].next = NULL => End(h, x) = HeapSize
  /\ h[x].prev # NULL => h[x].prev \in DOMAIN h /\ h[h[x].prev].next = x
  /\ h[x].prev = NULL <=> x = heap_head
  /\ h[x].prev # x /\ h[x].next # x

\* What the invariant says of one block and its neighbours.
LEMMA BlockFacts ==
  ASSUME NEW h, Heap(h)
  PROVE  \A x \in DOMAIN h : Facts(h, x)
<1> SUFFICES ASSUME NEW x \in DOMAIN h PROVE Facts(h, x)
  OBVIOUS
<1>1. /\ x \in Nat /\ x <= HeapSize - HeaderSize /\ x # NULL
      /\ h[x].size \in Nat /\ End(h, x) \in Nat /\ End(h, x) > x
      /\ h[x].next \in Offset \cup {NULL} /\ h[x].prev \in Offset \cup {NULL}
      /\ End(h, x) = x + HeaderSize + h[x].size
  BY HeapAssumption DEF Heap, Offset, Header, End, NULL
<1>2. /\ h[x].next # NULL => /\ h[x].next \in DOMAIN h
                             /\ h[x].next = End(h, x)
                             /\ h[h[x].next].prev = x
      /\ h[x].next = NULL => End(h, x) = HeapSize
      /\ h[x].prev # NULL => h[x].prev \in DOMAIN h /\ h[h[x].prev].next = x
      /\ h[x].prev = NULL <=> x = heap_head
  BY DEF Heap, Linked
<1>3. End(h, x) <= HeapSize
  <2>1. CASE h[x].next = NULL
    BY <1>1, <1>2, <2>1, HeapAssumption
  <2>2. CASE h[x].next # NULL
    <3>1. End(h, x) \in Offset
      BY <1>2, <2>2 DEF Heap
    <3> QED BY <3>1, HeapAssumption DEF Offset
  <2> QED BY <2>1, <2>2
<1>4. h[x].next # x
  BY <1>1, <1>2
<1>5. h[x].prev # x
  BY <1>1, <1>2, <1>4
<1> QED BY <1>1, <1>2, <1>3, <1>4, <1>5 DEF Facts

\* The heap that heap_init makes.
LEMMA FreshIsHeap == Heap(FreshHeap)
BY HeapAssumption DEF Heap, FreshHeap, Linked, Disjoint, End, Offset, Header,
   heap_head, NULL

\* split_block keeps the heap a heap, keeps the other blocks as they are, and
\* leaves x with at least what was asked for.
LEMMA SplitIsHeap ==
  ASSUME NEW h, Heap(h), NEW x \in DOMAIN h, NEW n \in Nat, h[x].size >= n
  PROVE  /\ Heap(split_block(h, x, n))
         /\ DOMAIN h \subseteq DOMAIN split_block(h, x, n)
         /\ split_block(h, x, n)[x].size >= n
         /\ split_block(h, x, n)[x].free = h[x].free
         /\ \A z \in DOMAIN h \ {x} :
              /\ split_block(h, x, n)[z].free = h[z].free
              /\ split_block(h, x, n)[z].size = h[z].size
<1> DEFINE y == x + HeaderSize + n
           g == split_block(h, x, n)
<1>1. CASE h[x].size - n <= MIN_SPLIT
  BY <1>1 DEF split_block
<1>2. CASE h[x].size - n > MIN_SPLIT
  <2>f. \A z \in DOMAIN h : Facts(h, z)
    BY BlockFacts
  <2>1. /\ h[x] \in Header /\ x \in Nat /\ h[x].size \in Nat
        /\ End(h, x) = x + HeaderSize + h[x].size /\ End(h, x) <= HeapSize
    BY <2>f DEF Facts, Heap
  <2>2. y \in Offset /\ y > x /\ y + HeaderSize < End(h, x)
    BY <1>2, <2>1, HeapAssumption DEF MIN_SPLIT, Offset, End, Header
  <2>3. y \notin DOMAIN h
    <3>1. y \in DOMAIN h => End(h, x) <= y
      BY <2>2 DEF Heap, Disjoint
    <3> QED BY <2>1, <2>2, <3>1, HeapAssumption
  <2>4. ~(h[x].size - n <= MIN_SPLIT)
    BY <1>2, <2>1, HeapAssumption DEF MIN_SPLIT, Header
  <2>5. /\ DOMAIN g = DOMAIN h \cup {y}
        /\ g = [z \in DOMAIN g |-> g[z]]
        /\ g[x] = [h[x] EXCEPT !.size = n, !.next = y]
        /\ g[y] = [size |-> h[x].size - n - HeaderSize, next |-> h[x].next,
                   prev |-> x, free |-> TRUE]
        /\ \A z \in DOMAIN h \ {x} :
             g[z] = IF z = h[x].next THEN [h[z] EXCEPT !.prev = y] ELSE h[z]
    BY <2>3, <2>4 DEF split_block
  <2> HIDE DEF g, y
  <2>6. \A z \in DOMAIN g : g[z] \in Header
    <3>1. g[x] \in Header
      BY <2>1, <2>2, <2>5 DEF Header
    <3>2. g[y] \in Header
      BY <1>2, <2>1, <2>5, HeapAssumption DEF Heap, Header, MIN_SPLIT
    <3>3. ASSUME NEW z \in DOMAIN h \ {x} PROVE g[z] \in Header
      BY <2>2, <2>5 DEF Heap, Header
    <3> QED BY <2>5, <3>1, <3>2, <3>3
  <2>a. /\ g[x].size = n /\ g[x].next = y /\ g[x].prev = h[x].prev
        /\ g[y].size = h[x].size - n - HeaderSize
        /\ g[y].next = h[x].next /\ g[y].prev = x
        /\ \A z \in DOMAIN h \ {x} :
             /\ g[z].size = h[z].size /\ g[z].next = h[z].next
             /\ g[z].prev = IF z = h[x].next THEN y ELSE h[z].prev
    BY <2>1, <2>5 DEF Heap, Header
  <2>b. /\ End(g, x) = y /\ End(g, y) = End(h, x)
        /\ \A z \in DOMAIN h \ {x} : End(g, z) = End(h, z)
    BY <2>1, <2>a, HeapAssumption DEF End, Header, y
  <2>c. y # NULL /\ y # heap_head /\ x # NULL /\ h[x].next # x /\ h[x].prev # x
    BY <2>1, <2>2, <2>f, HeapAssumption DEF NULL, heap_head, Facts, Offset
  <2>7. Linked(g)
    <3>1. heap_head \in DOMAIN g
      BY <2>5 DEF Heap, Linked
    <3>2. ASSUME NEW z \in DOMAIN g
          PROVE  /\ g[z].prev = NULL <=> z = heap_head
                 /\ g[z].prev # NULL => g[z].prev \in DOMAIN g /\ g[g[z].prev].next = z
      <4>1. CASE z = x
        <5>1. h[x].prev # NULL => h[x].prev \in DOMAIN h \ {x} /\ h[h[x].prev].next = x
          BY <2>f DEF Facts
        <5>2. h[x].prev = NULL <=> x = heap_head
          BY <2>f DEF Facts
        <5> QED BY <2>5, <2>a, <4>1, <5>1, <5>2
      <4>2. CASE z = y
        BY <2>3, <2>5, <2>a, <2>c, <4>2
      <4>3. CASE z \in DOMAIN h \ {x}
        BY <2>3, <2>5, <2>a, <2>c, <4>3, <2>f DEF Facts
      <4> QED BY <2>5, <4>1, <4>2, <4>3
    <3>3. ASSUME NEW z \in DOMAIN g
          PROVE  IF g[z].next = NULL THEN End(g, z) = HeapSize
                 ELSE /\ g[z].next \in DOMAIN g
                      /\ g[z].next = End(g, z)
                      /\ g[g[z].next].prev = z
      <4>1. CASE z = x
        BY <2>3, <2>5, <2>a, <2>b, <2>c, <4>1
      <4>2. CASE z = y
        BY <2>3, <2>5, <2>a, <2>b, <2>c, <4>2, <2>f DEF Facts
      <4>3. CASE z \in DOMAIN h \ {x}
        <5>1. /\ h[z].next = NULL => End(h, z) = HeapSize
              /\ h[z].next # NULL => /\ h[z].next \in DOMAIN h
                                     /\ h[z].next = End(h, z)
                                     /\ h[h[z].next].prev = z
          BY <2>f, <4>3 DEF Facts
        <5>2. h[x].next # NULL => h[h[x].next].prev = x
          BY <2>f DEF Facts
        <5>3. h[z].next # NULL => h[z].next # h[x].next
          BY <4>3, <5>1, <5>2
        <5>4. CASE h[z].next = NULL
          BY <2>5, <2>a, <2>b, <4>3, <5>1, <5>4
        <5>5. CASE h[z].next = x
          BY <2>5, <2>a, <2>b, <4>3, <5>1, <5>3, <5>5
        <5>6. CASE h[z].next \in DOMAIN h \ {x}
          <6>1. g[z].next = h[z].next /\ End(g, z) = End(h, z)
            BY <2>5, <2>a, <2>b, <4>3
          <6>2. h[z].next # NULL
            BY <5>6, <2>f DEF Facts
          <6>3. g[h[z].next].prev = h[h[z].next].prev
            BY <2>5, <2>a, <2>b, <4>3, <5>3, <5>6, <6>2
          <6> QED BY <2>5, <2>a, <2>b, <4>3, <5>1, <5>6, <6>1, <6>2, <6>3
        <5> QED BY <5>1, <5>3, <5>4, <5>5, <5>6
      <4> QED BY <2>5, <4>1, <4>2, <4>3
    <3> QED BY <3>1, <3>2, <3>3 DEF Linked
  <2>8. Disjoint(g)
    <3> SUFFICES ASSUME NEW u \in DOMAIN g, NEW v \in DOMAIN g, u < v
                 PROVE  End(g, u) <= v
      BY DEF Disjoint
    <3>1. \A p, q \in DOMAIN h : p < q => End(h, p) <= q
      BY DEF Heap, Disjoint
    <3>2. \A p \in DOMAIN h : p \in Nat /\ End(h, p) \in Nat
      BY <2>f DEF Facts
    <3>3. CASE u = x
      <4>1. End(g, u) = y /\ y \in Nat /\ x \in Nat /\ y < End(h, x)
        BY <2>1, <2>2, <2>b, <3>3, HeapAssumption DEF Offset
      <4>2. CASE v = y
        BY <4>1, <4>2
      <4>3. CASE v \in DOMAIN h
        <5>1. v \in Nat /\ End(h, x) \in Nat /\ End(h, x) <= v
          BY <3>1, <3>2, <3>3, <4>3
        <5> QED BY <4>1, <5>1
      <4> QED BY <2>5, <4>2, <4>3
    <3>4. CASE u = y
      BY <2>1, <2>2, <2>5, <2>b, <3>1, <3>2, <3>4 DEF Offset
    <3>5. CASE u \in DOMAIN h \ {x}
      BY <2>1, <2>2, <2>5, <2>b, <3>1, <3>2, <3>5, HeapAssumption DEF Offset
    <3> QED BY <2>5, <3>3, <3>4, <3>5
  <2>9. g[x].size >= n /\ g[x].free = h[x].free
    BY <2>1, <2>5 DEF Header
  <2>10. \A z \in DOMAIN h \ {x} : g[z].free = h[z].free /\ g[z].size = h[z].size
    BY <2>5 DEF Heap, Header
  <2>11. Heap(g) /\ DOMAIN h \subseteq DOMAIN g
    BY <2>2, <2>5, <2>6, <2>7, <2>8 DEF Heap
  <2> QED BY <2>9, <2>10, <2>11 DEF g
<1>3. h[x].size \in Nat /\ MIN_SPLIT \in Nat
  BY HeapAssumption DEF Heap, Header, MIN_SPLIT
<1> QED BY <1>1, <1>2, <1>3

\* What merging x with the block y after it gives.
Absorbed(h, x, y, g) ==
  /\ Heap(g) /\ DOMAIN g = DOMAIN h \ {y} /\ x # y
  /\ g[x].free = h[x].free /\ g[x].next = h[y].next
  /\ \A z \in DOMAIN h \ {x, y} : /\ g[z].free = h[z].free
                                  /\ g[z].next = h[z].next
                                  /\ g[z].size = h[z].size

\* Merging a block with the one after it keeps the heap a heap and keeps the
\* flags and sizes of all the others.
LEMMA AbsorbIsHeap ==
  ASSUME NEW h, Heap(h), NEW x \in DOMAIN h, NEW y \in DOMAIN h, h[x].next = y
  PROVE  Absorbed(h, x, y, Absorb(h, x, y))
<1> DEFINE g == Absorb(h, x, y)
<1>f. \A z \in DOMAIN h : Facts(h, z)
  BY BlockFacts
<1>1. /\ h[x] \in Header /\ h[y] \in Header /\ x \in Nat /\ y \in Nat
      /\ y = End(h, x) /\ y > x /\ y # NULL /\ x # NULL
  <2>1. h[x] \in Header /\ h[y] \in Header /\ x \in Nat /\ y \in Nat
    BY <1>f DEF Facts, Heap
  <2>2. y # NULL /\ x # NULL
    BY <2>1 DEF NULL
  <2> QED BY <2>1, <2>2, <1>f, HeapAssumption DEF Facts
<1>2. /\ DOMAIN g = DOMAIN h \ {y}
      /\ g = [z \in DOMAIN g |-> g[z]]
      /\ g[x] = [h[x] EXCEPT !.size = h[x].size + HeaderSize + h[y].size, !.next = h[y].next]
      /\ \A z \in DOMAIN h \ {x, y} :
           g[z] = IF z = h[y].next THEN [h[z] EXCEPT !.prev = x] ELSE h[z]
  BY <1>1 DEF Absorb
<1> HIDE DEF g
<1>3. \A z \in DOMAIN g : g[z] \in Header
  <2>1. g[x] \in Header
    <3>1. /\ h[y].next \in Offset \cup {NULL}
          /\ h[x].size + HeaderSize + h[y].size \in Nat
      BY <1>1, HeapAssumption DEF Header
    <3> QED BY <1>1, <1>2, <3>1 DEF Header
  <2>2. ASSUME NEW z \in DOMAIN h \ {x, y} PROVE g[z] \in Header
    <3>1. h[z] \in Header /\ x \in Offset
      BY DEF Heap
    <3> QED BY <1>2, <3>1 DEF Header
  <2> QED BY <1>2, <2>1, <2>2
<1>a. /\ g[x].size = h[x].size + HeaderSize + h[y].size
      /\ g[x].next = h[y].next /\ g[x].prev = h[x].prev
      /\ \A z \in DOMAIN h \ {x, y} :
           /\ g[z].size = h[z].size /\ g[z].next = h[z].next
           /\ g[z].prev = IF z = h[y].next THEN x ELSE h[z].prev
  <2>1. /\ g[x].size = h[x].size + HeaderSize + h[y].size
        /\ g[x].next = h[y].next /\ g[x].prev = h[x].prev
    BY <1>1, <1>2 DEF Header
  <2>2. ASSUME NEW z \in DOMAIN h \ {x, y}
        PROVE  /\ g[z].size = h[z].size /\ g[z].next = h[z].next
               /\ g[z].prev = IF z = h[y].next THEN x ELSE h[z].prev
    <3>1. h[z] \in Header
      BY DEF Heap
    <3> QED BY <1>2, <3>1 DEF Header
  <2> QED BY <2>1, <2>2
<1>b. /\ End(g, x) = End(h, y)
      /\ \A z \in DOMAIN h \ {x, y} : End(g, z) = End(h, z)
  BY <1>1, <1>a, HeapAssumption DEF End, Header
<1>c. y # heap_head /\ h[y].prev = x /\ h[y].next # x /\ h[y].next # y /\ h[x].prev # y
  <2>1. h[y].prev = x
    BY <1>1, <1>f DEF Facts
  <2>2. h[y].next # NULL => h[y].next > y
    BY <1>1, <1>f, HeapAssumption DEF Facts
  <2>3. h[x].prev # NULL => h[x].prev < x
    BY <1>1, <1>f, HeapAssumption DEF Facts
  <2>4. y # heap_head
    BY <1>1, <2>1, <1>f DEF Facts
  <2> QED BY <1>1, <2>1, <2>2, <2>3, <2>4
<1>4. Linked(g)
  <2>1. heap_head \in DOMAIN g
    BY <1>2, <1>c DEF Heap, Linked
  <2>2. ASSUME NEW z \in DOMAIN g
        PROVE  /\ g[z].prev = NULL <=> z = heap_head
               /\ g[z].prev # NULL => g[z].prev \in DOMAIN g /\ g[g[z].prev].next = z
    <3>1. CASE z = x
      <4>1. h[x].prev # NULL => h[x].prev \in DOMAIN h \ {x, y} /\ h[h[x].prev].next = x
        BY <1>c, <1>f DEF Facts
      <4>2. h[x].prev = NULL <=> x = heap_head
        BY <1>f DEF Facts
      <4> QED BY <1>2, <1>a, <3>1, <4>1, <4>2
    <3>2. CASE z \in DOMAIN h \ {x, y}
      <4>1. /\ h[z].prev # NULL => h[z].prev \in DOMAIN h /\ h[h[z].prev].next = z
            /\ h[z].prev = NULL <=> z = heap_head
        BY <1>f, <3>2 DEF Facts
      <4>2. CASE z = h[y].next
        <5>1. h[z].prev = y
          BY <1>f, <3>2, <4>2 DEF Facts
        <5> QED BY <1>1, <1>2, <1>a, <3>2, <4>1, <4>2, <5>1
      <4>3. CASE z # h[y].next
        <5>1. h[z].prev # NULL => h[z].prev \in DOMAIN h \ {x, y}
          BY <3>2, <4>1, <4>3
        <5> QED BY <1>2, <1>a, <3>2, <4>1, <4>3, <5>1
      <4> QED BY <4>2, <4>3
    <3> QED BY <1>2, <3>1, <3>2
  <2>3. ASSUME NEW z \in DOMAIN g
        PROVE  IF g[z].next = NULL THEN End(g, z) = HeapSize
               ELSE /\ g[z].next \in DOMAIN g
                    /\ g[z].next = End(g, z)
                    /\ g[g[z].next].prev = z
    <3>1. CASE z = x
      <4>1. /\ h[y].next = NULL => End(h, y) = HeapSize
            /\ h[y].next # NULL => /\ h[y].next \in DOMAIN h \ {x, y}
                                   /\ h[y].next = End(h, y)
        BY <1>c, <1>f DEF Facts
      <4> QED BY <1>2, <1>a, <1>b, <3>1, <4>1
    <3>2. CASE z \in DOMAIN h \ {x, y}
      <4>1. /\ h[z].next = NULL => End(h, z) = HeapSize
            /\ h[z].next # NULL => /\ h[z].next \in DOMAIN h
                                   /\ h[z].next = End(h, z)
                                   /\ h[h[z].next].prev = z
        BY <1>f, <3>2 DEF Facts
      <4>2. h[y].next # NULL => h[h[y].next].prev = y
        BY <1>f DEF Facts
      <4>3. h[z].next # NULL => h[z].next \notin {y, h[y].next}
        BY <1>c, <3>2, <4>1, <4>2
      <4>4. CASE h[z].next = NULL
        BY <1>2, <1>a, <1>b, <3>2, <4>1, <4>4
      <4>5. CASE h[z].next = x
        BY <1>1, <1>2, <1>a, <1>b, <3>2, <4>1, <4>3, <4>5
      <4>6. CASE h[z].next \in DOMAIN h \ {x, y}
        <5>1. g[z].next = h[z].next /\ End(g, z) = End(h, z)
          BY <1>2, <1>a, <1>b, <3>2
        <5>2. h[z].next # NULL
          BY <4>6, <1>f DEF Facts
        <5>3. g[h[z].next].prev = h[h[z].next].prev
          BY <1>2, <1>a, <1>b, <3>2, <4>3, <4>6, <5>2
        <5> QED BY <1>2, <1>a, <1>b, <3>2, <4>1, <4>6, <5>1, <5>2, <5>3
      <4> QED BY <4>1, <4>3, <4>4, <4>5, <4>6
    <3> QED BY <1>2, <3>1, <3>2
  <2> QED BY <2>1, <2>2, <2>3 DEF Linked
<1>5. Disjoint(g)
  <2> SUFFICES ASSUME NEW u \in DOMAIN g, NEW v \in DOMAIN g, u < v
               PROVE  End(g, u) <= v
    BY DEF Disjoint
  <2>1. \A p, q \in DOMAIN h : p < q => End(h, p) <= q
    BY DEF Heap, Disjoint
  <2>2. \A p \in DOMAIN h : p \in Nat /\ End(h, p) \in Nat
    BY <1>f, HeapAssumption DEF Facts
  <2>3. CASE u = x
    BY <1>1, <1>2, <1>b, <2>1, <2>2, <2>3
  <2>4. CASE u # x
    BY <1>2, <1>b, <2>1, <2>4
  <2> QED BY <2>3, <2>4
<1>6. Heap(g)
  BY <1>2, <1>3, <1>4, <1>5 DEF Heap
<1>7. g[x].free = h[x].free
  BY <1>1, <1>2 DEF Header
<1>8. ASSUME NEW z \in DOMAIN h \ {x, y} PROVE g[z].free = h[z].free
  <2>1. h[z] \in Header
    BY DEF Heap
  <2> QED BY <1>2, <2>1 DEF Header
<1>9. x # y
  BY <1>1
<1>10. Absorbed(h, x, y, g)
  BY <1>2, <1>6, <1>7, <1>8, <1>9, <1>a DEF Absorbed
<1> QED BY <1>10 DEF g

\* Changing the flag of a block changes nothing else.
LEMMA FlagIsHeap ==
  ASSUME NEW h, Heap(h), NEW x \in DOMAIN h, NEW b \in BOOLEAN
  PROVE  /\ Heap([h EXCEPT ![x].free = b])
         /\ DOMAIN [h EXCEPT ![x].free = b] = DOMAIN h
         /\ [h EXCEPT ![x].free = b][x].free = b
         /\ \A z \in DOMAIN h :
              /\ [h EXCEPT ![x].free = b][z].size = h[z].size
              /\ [h EXCEPT ![x].free = b][z].next = h[z].next
              /\ [h EXCEPT ![x].free = b][z].prev = h[z].prev
              /\ z # x => [h EXCEPT ![x].free = b][z].free = h[z].free
<1> DEFINE g == [h EXCEPT ![x].free = b]
<1>1. \A z \in DOMAIN h : h[z] \in Header
  BY DEF Heap
<1>2. DOMAIN g = DOMAIN h /\ g = [z \in DOMAIN g |-> g[z]]
  BY DEF Heap
<1>3. \A z \in DOMAIN h : g[z] = IF z = x THEN [h[x] EXCEPT !.free = b] ELSE h[z]
  BY DEF Heap
<1> HIDE DEF g
<1>4. \A z \in DOMAIN h : g[z] \in Header
  BY <1>1, <1>3 DEF Header
<1>5. /\ g[x].free = b
      /\ \A z \in DOMAIN h : /\ g[z].size = h[z].size
                             /\ g[z].next = h[z].next
                             /\ g[z].prev = h[z].prev
                             /\ z # x => g[z].free = h[z].free
  BY <1>1, <1>3 DEF Header
<1>6. \A z \in DOMAIN h : End(g, z) = End(h, z)
  BY <1>5 DEF End
<1>7. Linked(g)
  BY <1>2, <1>5, <1>6 DEF Heap, Linked
<1>8. Disjoint(g)
  BY <1>2, <1>6 DEF Heap, Disjoint
<1>9. Heap(g)
  BY <1>2, <1>4, <1>7, <1>8 DEF Heap
<1> QED BY <1>2, <1>5, <1>9 DEF g

-----------------------------------------------------------------------------
(* Free neighbours.                                                        *)

\* No two free blocks are side by side; not counting pairs that include x.
Apart(h) == \A z \in DOMAIN h : h[z].free /\ h[z].next # NULL => ~h[h[z].next].free
ApartBut(h, x) == \A z \in DOMAIN h \ {x} :
                    h[z].free /\ h[z].next \notin {NULL, x} => ~h[h[z].next].free

\* Blocks in use are the same in h and g.
SameUsed(h, g) ==
  /\ \A z \in DOMAIN h : ~h[z].free => /\ z \in DOMAIN g /\ ~g[z].free
                                       /\ g[z].size = h[z].size
  /\ \A z \in DOMAIN g : ~g[z].free => z \in DOMAIN h /\ ~h[z].free

\* The block after a merged block is not free, and no pair arises elsewhere.
LEMMA MergeNextApart ==
  ASSUME NEW h, Heap(h), NEW x \in DOMAIN h, h[x].free, ApartBut(h, x)
  PROVE  /\ Heap(MergeNext(h, x)) /\ x \in DOMAIN MergeNext(h, x)
         /\ MergeNext(h, x)[x].free
         /\ ApartBut(MergeNext(h, x), x)
         /\ MergeNext(h, x)[x].next # NULL =>
              ~MergeNext(h, x)[MergeNext(h, x)[x].next].free
         /\ SameUsed(h, MergeNext(h, x))
<1> DEFINE y == h[x].next
           g == Absorb(h, x, y)
<1>1. CASE y = NULL
  BY <1>1 DEF MergeNext, SameUsed
<1>2. CASE y # NULL /\ ~h[y].free
  BY <1>2 DEF MergeNext, SameUsed
<1>3. CASE y # NULL /\ h[y].free
  <2>f. \A z \in DOMAIN h : Facts(h, z) /\ h[z] \in Header
    BY BlockFacts DEF Heap
  <2>1. y \in DOMAIN h /\ h[y].prev = x
    BY <1>3, <2>f DEF Facts
  <2>a. h[x].next = y
    OBVIOUS
  <2> HIDE DEF y
  <2>2. Absorbed(h, x, y, g)
    BY <2>1, <2>a, AbsorbIsHeap
  <2> HIDE DEF g
  <2>3. /\ Heap(g) /\ DOMAIN g = DOMAIN h \ {y} /\ x # y
        /\ g[x].free = h[x].free /\ g[x].next = h[y].next
        /\ \A z \in DOMAIN h \ {x, y} : /\ g[z].free = h[z].free
                                        /\ g[z].next = h[z].next
                                        /\ g[z].size = h[z].size
    BY <2>2 DEF Absorbed
  <2>4. h[y].next # NULL => h[y].next \in DOMAIN h \ {x, y} /\ ~h[h[y].next].free
    <3>1. h[y].next # NULL => /\ h[y].next \in DOMAIN h /\ h[y].next # y
                              /\ h[h[y].next].prev = y
      BY <2>1, <2>f DEF Facts
    <3>2. h[x].prev # y
      <4>1. h[x].prev # NULL => h[h[x].prev].next = x
        BY <2>f DEF Facts
      <4>2. /\ x \in Nat /\ y \in Nat /\ y = End(h, x) /\ End(h, x) = x + HeaderSize + h[x].size
            /\ h[x].size \in Nat
            /\ h[y].next # NULL => h[y].next = End(h, y)
            /\ End(h, y) = y + HeaderSize + h[y].size /\ h[y].size \in Nat
        BY <1>3, <2>1, <2>f DEF Facts
      <4> QED BY <1>3, <4>1, <4>2, <2>f, HeapAssumption DEF Facts
    <3>3. h[y].next # NULL => h[y].next # x
      BY <3>1, <3>2
    <3> QED BY <1>3, <2>1, <2>3, <3>1, <3>3 DEF ApartBut
  <2>5. ApartBut(g, x)
    <3> SUFFICES ASSUME NEW z \in DOMAIN h \ {x, y}, h[z].free, h[z].next \notin {NULL, x}
                 PROVE  ~g[h[z].next].free
      BY <2>3 DEF ApartBut
    <3>1. h[z].next \in DOMAIN h /\ h[h[z].next].prev = z
      BY <2>f DEF Facts
    <3>2. h[z].next # y
      BY <2>1, <3>1
    <3> QED BY <2>3, <3>1, <3>2 DEF ApartBut
  <2>6. SameUsed(h, g)
    BY <1>3, <2>3 DEF SameUsed
  <2>7. MergeNext(h, x) = g
    BY <1>3 DEF MergeNext, g, y
  <2>8. g[x].next # NULL => ~g[g[x].next].free
    BY <2>3, <2>4
  <2> QED BY <2>3, <2>5, <2>6, <2>7, <2>8
<1> QED BY <1>1, <1>2, <1>3

\* Merging backwards as well leaves no pair at all.
LEMMA MergePrevApart ==
  ASSUME NEW h, Heap(h), NEW x \in DOMAIN h, h[x].free, ApartBut(h, x),
         h[x].next # NULL => ~h[h[x].next].free
  PROVE  /\ Heap(MergePrev(h, x))
         /\ Apart(MergePrev(h, x))
         /\ SameUsed(h, MergePrev(h, x))
<1> DEFINE p == h[x].prev
           g == Absorb(h, p, x)
<1>f. \A z \in DOMAIN h : Facts(h, z) /\ h[z] \in Header
  BY BlockFacts DEF Heap
<1>0. \A z \in DOMAIN h : h[z].next = x => z = p
  BY <1>f DEF Facts
<1>1. CASE p = NULL
  <2>1. \A z \in DOMAIN h : h[z].next # x
    BY <1>0, <1>1, <1>f DEF Facts
  <2> QED BY <1>1, <2>1 DEF MergePrev, SameUsed, Apart, ApartBut
<1>2. CASE p # NULL /\ ~h[p].free
  BY <1>0, <1>2 DEF MergePrev, SameUsed, Apart, ApartBut
<1>3. CASE p # NULL /\ h[p].free
  <2>1. p \in DOMAIN h /\ h[p].next = x
    BY <1>3, <1>f DEF Facts
  <2>a. h[x].prev = p
    OBVIOUS
  <2> HIDE DEF p
  <2>2. Absorbed(h, p, x, g)
    BY <2>1, AbsorbIsHeap
  <2> HIDE DEF g
  <2>3. /\ Heap(g) /\ DOMAIN g = DOMAIN h \ {x} /\ x # p
        /\ g[p].free = h[p].free /\ g[p].next = h[x].next
        /\ \A z \in DOMAIN h \ {p, x} : /\ g[z].free = h[z].free
                                        /\ g[z].next = h[z].next
                                        /\ g[z].size = h[z].size
    BY <2>2 DEF Absorbed
  <2>4. Apart(g)
    <3> SUFFICES ASSUME NEW z \in DOMAIN g, g[z].free, g[z].next # NULL
                 PROVE  ~g[g[z].next].free
      BY DEF Apart
    <3>1. CASE z = p
      <4>1. h[x].next \in DOMAIN h /\ h[x].next # x /\ ~h[h[x].next].free
        BY <2>3, <3>1, <1>f DEF Facts
      <4>2. h[x].next # p
        BY <1>3, <4>1
      <4> QED BY <2>3, <3>1, <4>1, <4>2
    <3>2. CASE z \in DOMAIN h \ {p, x}
      <4>1. h[z].next \in DOMAIN h /\ h[z].next # x /\ h[z].free
        BY <1>0, <2>3, <3>2, <1>f DEF Facts
      <4>2. ~h[h[z].next].free
        BY <2>3, <3>2, <4>1 DEF ApartBut
      <4>3. h[z].next # p
        BY <1>3, <4>2
      <4> QED BY <2>3, <3>2, <4>1, <4>2, <4>3
    <3> QED BY <2>3, <3>1, <3>2
  <2>5. SameUsed(h, g)
    BY <1>3, <2>1, <2>3 DEF SameUsed
  <2>6. MergePrev(h, x) = g
    BY <1>3 DEF MergePrev, g, p
  <2> QED BY <2>3, <2>4, <2>5, <2>6
<1> QED BY <1>1, <1>2, <1>3

\* Freeing a block: no pair of free blocks is left, and every other block in
\* use is as it was.
LEMMA CoalesceApart ==
  ASSUME NEW h, Heap(h), NEW x \in DOMAIN h, h[x].free, ApartBut(h, x)
  PROVE  Heap(coalesce(h, x)) /\ Apart(coalesce(h, x)) /\ SameUsed(h, coalesce(h, x))
<1> DEFINE g == MergeNext(h, x)
<1>1. /\ Heap(g) /\ x \in DOMAIN g /\ g[x].free /\ ApartBut(g, x)
      /\ g[x].next # NULL => ~g[g[x].next].free
      /\ SameUsed(h, g)
  BY MergeNextApart
<1> HIDE DEF g
<1>2. Heap(MergePrev(g, x)) /\ Apart(MergePrev(g, x)) /\ SameUsed(g, MergePrev(g, x))
  BY <1>1, MergePrevApart
<1>3. SameUsed(h, MergePrev(g, x))
  BY <1>1, <1>2 DEF SameUsed
<1> QED BY <1>2, <1>3 DEF coalesce, g

\* What taking n bytes of the free block x gives.
Taken(h, x, n, g) ==
  /\ Heap(g) /\ Apart(g)
  /\ x \in DOMAIN g /\ ~g[x].free /\ g[x].size >= n
  /\ \A z \in DOMAIN h \ {x} : ~h[z].free => /\ z \in DOMAIN g /\ ~g[z].free
                                             /\ g[z].size = h[z].size
  /\ \A z \in DOMAIN g \ {x} : ~g[z].free => z \in DOMAIN h /\ ~h[z].free

\* Allocating: the remainder that split_block makes free lies before a block
\* that is in use.
LEMMA TakeBlock ==
  ASSUME NEW h, Heap(h), Apart(h), NEW x \in DOMAIN h, h[x].free,
         NEW n \in Nat, h[x].size >= n
  PROVE  Taken(h, x, n, [split_block(h, x, n) EXCEPT ![x].free = FALSE])
<1> DEFINE s == split_block(h, x, n)
           g == [s EXCEPT ![x].free = FALSE]
<1>f. \A z \in DOMAIN h : Facts(h, z) /\ h[z] \in Header
  BY BlockFacts DEF Heap
<1>1. /\ Heap(s) /\ x \in DOMAIN s /\ s[x].size >= n
      /\ DOMAIN h \subseteq DOMAIN s
      /\ \A z \in DOMAIN h \ {x} : s[z].free = h[z].free /\ s[z].size = h[z].size
  BY SplitIsHeap
<1>2. /\ \A z \in DOMAIN h \ {x} : s[z].next = h[z].next
      /\ \A z \in DOMAIN s \ DOMAIN h : s[z].free /\ s[z].next = h[x].next
  <2>1. CASE h[x].size - n <= MIN_SPLIT
    BY <2>1 DEF split_block
  <2>2. CASE ~(h[x].size - n <= MIN_SPLIT)
    <3> DEFINE y == x + HeaderSize + n
    <3>1. y \notin DOMAIN h
      <4>1. /\ x \in Nat /\ h[x].size \in Nat /\ End(h, x) = x + HeaderSize + h[x].size
        BY <1>f DEF Facts
      <4>2. x < y /\ y < End(h, x)
        BY <2>2, <4>1, HeapAssumption DEF MIN_SPLIT
      <4>3. y \in DOMAIN h => End(h, x) <= y
        BY <4>2 DEF Heap, Disjoint
      <4> QED BY <4>1, <4>2, <4>3, HeapAssumption
    <3>2. /\ DOMAIN s = DOMAIN h \cup {y}
          /\ s[y].free /\ s[y].next = h[x].next
      BY <2>2, <3>1 DEF split_block
    <3>3. ASSUME NEW z \in DOMAIN h \ {x} PROVE s[z].next = h[z].next
      <4>1. s[z] = IF z = h[x].next THEN [h[z] EXCEPT !.prev = y] ELSE h[z]
        BY <2>2, <3>1 DEF split_block
      <4>2. h[z] \in Header
        BY <1>f
      <4> HIDE DEF s, y
      <4> QED BY <4>1, <4>2 DEF Header
    <3> HIDE DEF s, y
    <3> QED BY <3>2, <3>3
  <2> QED BY <2>1, <2>2
<1> HIDE DEF s
<1>3. /\ Heap(g) /\ DOMAIN g = DOMAIN s /\ g[x].free = FALSE
      /\ \A z \in DOMAIN s : /\ g[z].size = s[z].size
                             /\ g[z].next = s[z].next
                             /\ z # x => g[z].free = s[z].free
  BY <1>1, FlagIsHeap
<1> HIDE DEF g
<1>4. Apart(g)
  <2> SUFFICES ASSUME NEW z \in DOMAIN s \ {x}, s[z].free, s[z].next # NULL, s[z].next # x
               PROVE  ~g[s[z].next].free
    BY <1>3 DEF Apart
  <2>1. CASE z \in DOMAIN h
    <3>1. /\ h[z].next = s[z].next /\ h[z].next \in DOMAIN h
          /\ h[z].free /\ ~h[h[z].next].free
      BY <1>1, <1>2, <2>1, <1>f DEF Facts, Apart
    <3> QED BY <1>1, <1>3, <3>1
  <2>2. CASE z \notin DOMAIN h
    <3>1. /\ h[x].next = s[z].next /\ h[x].next \in DOMAIN h
          /\ ~h[h[x].next].free
      BY <1>2, <2>2, <1>f DEF Facts, Apart
    <3> QED BY <1>1, <1>3, <3>1
  <2> QED BY <2>1, <2>2
<1>5. Taken(h, x, n, g)
  BY <1>1, <1>2, <1>3, <1>4 DEF Taken
<1> QED BY <1>5 DEF g, s

-----------------------------------------------------------------------------
(* The rounding and the product.                                           *)

\* Rounding up does not shrink a size that is not one of the last.
LEMMA AlignGrows ==
  ASSUME NEW size \in Nat, size + Align - 1 < WordSize
  PROVE  align_up(size) >= size
<1> DEFINE s == size + Align - 1
<1>1. s \in Nat /\ s % WordSize = s
  BY HeapAssumption
<1>2. s % Align \in 0 .. Align - 1
  BY <1>1, HeapAssumption
<1>3. align_up(size) = s - (s % Align)
  BY <1>1 DEF align_up
<1> QED BY <1>1, <1>2, <1>3, HeapAssumption

\* A product that passes calloc's test did not wrap around.
LEMMA ProductExact ==
  ASSUME NEW count \in Nat \ {0}, NEW size \in Nat,
         ((count * size) % WordSize) \div count = size
  PROVE  (count * size) % WordSize = count * size
<1> DEFINE m == count * size
           t == m % WordSize
<1>1. m \in Nat
  OBVIOUS
<1>2. t \in Nat /\ t <= m
  BY <1>1, HeapAssumption
<1> HIDE DEF t
<1>3. t \div count = size
  BY DEF t
<1>4. count * (t \div count) <= t
  BY <1>2
<1>5. m <= t
  BY <1>3, <1>4
<1>6. t = m
  BY <1>1, <1>2, <1>5
<1> QED BY <1>6 DEF t

-----------------------------------------------------------------------------
(* The invariant.                                                          *)

HeldType == held \subseteq [at : DOMAIN hdr, size : Nat]

HeapInv ==
  /\ heap_ready \in BOOLEAN
  /\ ~heap_ready => hdr = [x \in {} |-> FALSE] /\ held = {}
  /\ heap_ready => Heap(hdr) /\ Apart(hdr)
  /\ HeldType
  /\ HeldBacked

\* malloc and the allocation inside calloc keep the invariant.
LEMMA AllocateKeeps ==
  ASSUME HeapInv, NEW size \in 0 .. WordSize - 1, Allocate(size, size)
  PROVE  HeapInv'
<1> DEFINE h == IF heap_ready THEN hdr ELSE FreshHeap
           need == align_up(size)
<1>1. Heap(h) /\ Apart(h) /\ heap_ready'
  BY FreshIsHeap DEF HeapInv, Allocate, Apart, FreshHeap
<1>2. /\ \A p \in held : p.at \in DOMAIN h /\ p.size \in Nat /\ ~h[p.at].free
      /\ \A p \in held : p.size \notin WordSize - Align + 1 .. WordSize - 1 =>
                            h[p.at].size >= p.size
      /\ \A p, q \in held : p.at = q.at => p = q
      /\ \A x \in DOMAIN h : h[x].free \/ \E p \in held : p.at = x
      /\ \A p \in held : p = [at |-> p.at, size |-> p.size]
  BY DEF HeapInv, HeldType, HeldBacked, FreshHeap
<1>3. CASE hdr' = h /\ UNCHANGED held
  <2>1. HeldType' /\ HeldBacked'
    BY <1>2, <1>3 DEF HeldType, HeldBacked
  <2> QED BY <1>1, <1>3, <2>1 DEF HeapInv
<1>4. ASSUME NEW x \in Fits(h, need),
             hdr' = [split_block(h, x, need) EXCEPT ![x].free = FALSE],
             held' = held \cup {[at |-> x, size |-> size]}
      PROVE  HeapInv'
  <2>0. size \in Nat /\ need \in Nat
    BY AlignType, HeapAssumption
  <2>1. x \in DOMAIN h /\ h[x].free /\ h[x].size >= need
    BY <1>4 DEF Fits
  <2> HIDE DEF h, need
  <2>2. Taken(h, x, need, hdr')
    BY <1>1, <1>4, <2>0, <2>1, TakeBlock
  <2>3. size \notin WordSize - Align + 1 .. WordSize - 1 => need >= size
    BY <2>0, AlignGrows, HeapAssumption DEF need
  <2>4. \A p \in held : p.at # x
    BY <1>2, <2>1
  <2>5. HeldType'
    BY <1>2, <1>4, <2>0, <2>2, <2>4 DEF HeldType, Taken
  <2>6. hdr'[x].size \in Nat /\ hdr'[x].size >= need
    BY <2>2 DEF Taken, Heap, Header
  <2>7. HeldBacked'
    <3>1. ASSUME NEW p \in held'
          PROVE  /\ ~hdr'[p.at].free
                 /\ p.size \notin WordSize - Align + 1 .. WordSize - 1 => hdr'[p.at].size >= p.size
      <4>1. CASE p \in held
        BY <1>2, <2>2, <2>4, <4>1 DEF Taken
      <4>2. CASE p = [at |-> x, size |-> size]
        BY <2>0, <2>2, <2>3, <2>6, <4>2 DEF Taken
      <4> QED BY <1>4, <3>1, <4>1, <4>2
    <3>2. \A p, q \in held' : p.at = q.at => p = q
      BY <1>2, <1>4, <2>4
    <3>3. \A z \in DOMAIN hdr' : hdr'[z].free \/ \E p \in held' : p.at = z
      <4> SUFFICES ASSUME NEW z \in DOMAIN hdr', ~hdr'[z].free
                   PROVE  \E p \in held' : p.at = z
        OBVIOUS
      <4>1. CASE z = x
        <5>1. [at |-> x, size |-> size] \in held' /\ [at |-> x, size |-> size].at = z
          BY <1>4, <4>1
        <5> QED BY <5>1
      <4>2. CASE z # x
        <5>1. z \in DOMAIN h /\ ~h[z].free
          BY <2>2, <4>2 DEF Taken
        <5>2. PICK p \in held : p.at = z
          BY <1>2, <5>1
        <5> QED BY <1>4, <5>2
      <4> QED BY <4>1, <4>2
    <3> QED BY <3>1, <3>2, <3>3 DEF HeldBacked
  <2> QED BY <1>1, <2>2, <2>5, <2>7 DEF HeapInv, Taken
<1> QED BY <1>3, <1>4 DEF Allocate

\* free keeps the invariant.
LEMMA FreeKeeps ==
  ASSUME HeapInv, NEW p \in held, free(p)
  PROVE  HeapInv'
<1> DEFINE x == p.at
           h == [hdr EXCEPT ![x].free = TRUE]
<1>1. heap_ready /\ Heap(hdr) /\ Apart(hdr) /\ x \in DOMAIN hdr /\ ~hdr[x].free
  BY DEF HeapInv, HeldType, free
<1>2. /\ Heap(h) /\ DOMAIN h = DOMAIN hdr /\ h[x].free = TRUE
      /\ \A z \in DOMAIN hdr : /\ h[z].size = hdr[z].size
                               /\ h[z].next = hdr[z].next
                               /\ z # x => h[z].free = hdr[z].free
  <2> HIDE DEF x
  <2> QED BY <1>1, FlagIsHeap
<1>3. hdr' = coalesce(h, x) /\ held' = held \ {p} /\ UNCHANGED heap_ready
  BY DEF free
<1> HIDE DEF h, x
<1>4. ApartBut(h, x)
  <2>1. \A z \in DOMAIN hdr : hdr[z].next # NULL => hdr[z].next \in DOMAIN hdr
    BY <1>1, BlockFacts DEF Facts
  <2> QED BY <1>1, <1>2, <2>1 DEF Apart, ApartBut
<1>5. Heap(hdr') /\ Apart(hdr') /\ SameUsed(h, hdr')
  BY <1>1, <1>2, <1>3, <1>4, CoalesceApart
<1>6. \A q \in held' : /\ q \in held /\ q.at # x
                       /\ q.at \in DOMAIN hdr' /\ ~hdr'[q.at].free
                       /\ hdr'[q.at].size = hdr[q.at].size
  BY <1>2, <1>3, <1>5 DEF HeapInv, HeldType, HeldBacked, SameUsed, x
<1>7. HeldType'
  BY <1>6 DEF HeapInv, HeldType
<1>8. \A z \in DOMAIN hdr' : hdr'[z].free \/ \E q \in held' : q.at = z
  <2> SUFFICES ASSUME NEW z \in DOMAIN hdr', ~hdr'[z].free
               PROVE  \E q \in held' : q.at = z
    OBVIOUS
  <2>1. z \in DOMAIN hdr /\ z # x /\ ~hdr[z].free
    BY <1>2, <1>5 DEF SameUsed
  <2>2. PICK q \in held : q.at = z
    BY <2>1 DEF HeapInv, HeldBacked
  <2> QED BY <1>3, <2>1, <2>2 DEF x
<1>9. HeldBacked'
  BY <1>6, <1>8 DEF HeapInv, HeldBacked
<1> QED BY <1>1, <1>3, <1>5, <1>7, <1>9 DEF HeapInv

\* Before heap_init nothing is held.
LEMMA InitHeap == Init => HeapInv
BY DEF Init, HeapInv, HeldType, HeldBacked

\* Every call keeps the invariant.
LEMMA NextHeap == HeapInv /\ [Next]_vars => HeapInv'
<1> SUFFICES ASSUME HeapInv, [Next]_vars PROVE HeapInv'
  OBVIOUS
<1>1. CASE heap_init
  <2>1. Heap(hdr') /\ heap_ready' /\ held' = {}
    BY <1>1, FreshIsHeap DEF heap_init, HeapInv
  <2>2. Apart(hdr') /\ \A x \in DOMAIN hdr' : hdr'[x].free
    BY <1>1 DEF heap_init, Apart, FreshHeap
  <2> QED BY <2>1, <2>2 DEF HeapInv, HeldType, HeldBacked
<1>2. ASSUME NEW n \in Requests, malloc(n) PROVE HeapInv'
  BY <1>2, AllocateKeeps, HeapAssumption DEF malloc
<1>3. ASSUME NEW k \in Counts, NEW n \in Requests, calloc(k, n) PROVE HeapInv'
  <2>1. k \in Nat \ {0} /\ n \in Nat
    BY <1>3, HeapAssumption DEF calloc
  <2>2. (k * n) % WordSize = k * n
    BY <1>3, <2>1, ProductExact DEF calloc
  <2>3. k * n \in Nat /\ (k * n) % WordSize \in 0 .. WordSize - 1
    BY <2>1, HeapAssumption
  <2>4. Allocate(k * n, k * n)
    BY <1>3, <2>2 DEF calloc
  <2> QED BY <2>2, <2>3, <2>4, AllocateKeeps
<1>4. ASSUME NEW p \in held, free(p) PROVE HeapInv'
  BY <1>4, FreeKeeps
<1>5. CASE UNCHANGED vars
  BY <1>5 DEF vars, HeapInv, HeldType, HeldBacked, Heap, Apart, Linked, Disjoint, End
<1> QED BY <1>1, <1>2, <1>3, <1>4, <1>5 DEF Next

\* Whatever sequence of malloc, calloc and free the kernel makes, the blocks
\* tile kernel_heap and the list links them in both directions.
THEOREM HeapAlwaysTiled == Spec => []HeapTiled
<1>1. HeapInv => HeapTiled
  BY DEF HeapInv, HeapTiled, Heap
<1> QED BY <1>1, InitHeap, NextHeap, PTL DEF Spec

\* free never leaves two free blocks side by side.
THEOREM AlwaysCoalesced == Spec => []NoFreeNeighbours
<1>1. HeapInv => NoFreeNeighbours
  BY DEF HeapInv, NoFreeNeighbours, Apart
<1> QED BY <1>1, InitHeap, NextHeap, PTL DEF Spec

\* What callers hold is theirs alone and large enough; calloc's overflow test
\* and split_block's threshold are what make it so.
THEOREM HeldAlwaysBacked == Spec => []HeldBacked
<1>1. HeapInv => HeldBacked
  BY DEF HeapInv
<1> QED BY <1>1, InitHeap, NextHeap, PTL DEF Spec

-----------------------------------------------------------------------------
(* What heap_get_stats adds up.                                            *)

\* The sizes are added one block at a time, in any order.
Pick(s) == CHOOSE x \in s : TRUE
Sums(it, h, S) ==
  it = [s \in SUBSET S |-> IF s = {} THEN 0 ELSE h[Pick(s)].size + it[s \ {Pick(s)}]]

\* A set of numbers that has a member has a least one.
LEMMA LeastNumber ==
  ASSUME NEW S, S \subseteq Nat, S # {}
  PROVE  \E m \in S : \A y \in S : m <= y
<1> DEFINE R == OpToRel(<, Nat)
<1>1. IsWellFoundedOn(R, Nat)
  BY NatLessThanWellFounded
<1> HIDE DEF R
<1>2. PICK x \in S : \A y \in S : ~(<<y, x>> \in R)
  BY <1>1, WFMin
<1>3. \A y \in S : y < x => <<y, x>> \in R
  BY DEF R, OpToRel
<1>4. \A y \in S : ~(y < x)
  BY <1>2, <1>3
<1> QED BY <1>4

\* A collection of finite sets that has a member has one from which nothing
\* can be taken away.
LEMMA MinimalSet ==
  ASSUME NEW S, IsFiniteSet(S), NEW B, B \subseteq SUBSET S, B # {}
  PROVE  \E s \in B : \A x \in s : s \ {x} \notin B
<1>1. \A s \in B : IsFiniteSet(s) /\ Cardinality(s) \in Nat
  BY FS_Subset, FS_CardinalityType
<1> DEFINE sizes == {Cardinality(s) : s \in B}
<1>2. sizes \subseteq Nat /\ sizes # {}
  BY <1>1
<1> HIDE DEF sizes
<1>3. PICK m \in sizes : \A y \in sizes : m <= y
  BY <1>2, LeastNumber
<1>4. PICK s \in B : m = Cardinality(s)
  BY <1>3 DEF sizes
<1>5. ASSUME NEW x \in s, s \ {x} \in B PROVE FALSE
  <2>1. Cardinality(s \ {x}) = Cardinality(s) - 1
    BY <1>1, FS_RemoveElement
  <2>2. Cardinality(s \ {x}) \in sizes
    BY <1>5 DEF sizes
  <2>3. m <= Cardinality(s \ {x}) /\ m \in Nat
    BY <1>1, <1>3, <1>4, <2>2
  <2> QED BY <1>4, <2>1, <2>3
<1> QED BY <1>5

\* What adding up comes to does not depend on the set it was part of.
LEMMA SumsAgree ==
  ASSUME NEW h, NEW S1, NEW S2, NEW f1, NEW f2, Sums(f1, h, S1), Sums(f2, h, S2),
         NEW t, t \subseteq S1, t \subseteq S2, IsFiniteSet(t)
  PROVE  f1[t] = f2[t]
<1> DEFINE B == {s \in SUBSET t : f1[s] # f2[s]}
<1> SUFFICES ASSUME B # {} PROVE FALSE
  OBVIOUS
<1>1. PICK s \in B : \A x \in s : s \ {x} \notin B
  <2>1. B \subseteq SUBSET t
    OBVIOUS
  <2> HIDE DEF B
  <2> QED BY <2>1, MinimalSet
<1>2. s \in SUBSET S1 /\ s \in SUBSET S2
  OBVIOUS
<1>3. /\ f1[s] = IF s = {} THEN 0 ELSE h[Pick(s)].size + f1[s \ {Pick(s)}]
      /\ f2[s] = IF s = {} THEN 0 ELSE h[Pick(s)].size + f2[s \ {Pick(s)}]
  BY <1>2 DEF Sums
<1>4. CASE s = {}
  BY <1>3, <1>4
<1>5. CASE s # {}
  <2>1. Pick(s) \in s
    BY <1>5 DEF Pick
  <2>2. f1[s \ {Pick(s)}] = f2[s \ {Pick(s)}]
    BY <1>1, <2>1
  <2> QED BY <1>3, <1>5, <2>2
<1> QED BY <1>4, <1>5

\* Part of a set that can be added up can be, too.
Summable(h, S) == \E it : Sums(it, h, S)

\* Its sum is the restriction of the sum of the whole.
LEMMA SumsRestrict ==
  ASSUME NEW h, NEW S, Summable(h, S), NEW t, t \subseteq S
  PROVE  Summable(h, t)
<1>1. PICK it : Sums(it, h, S)
  BY DEF Summable
<1> DEFINE g == [s \in SUBSET t |-> it[s]]
<1>2. ASSUME NEW s \in SUBSET t
      PROVE  g[s] = IF s = {} THEN 0 ELSE h[Pick(s)].size + g[s \ {Pick(s)}]
  <2>1. it[s] = IF s = {} THEN 0 ELSE h[Pick(s)].size + it[s \ {Pick(s)}]
    BY <1>1 DEF Sums
  <2> QED BY <2>1
<1>3. g = [s \in SUBSET t |-> g[s]]
  OBVIOUS
<1> HIDE DEF g
<1>4. Sums(g, h, t)
  BY <1>2, <1>3 DEF Sums
<1> QED BY <1>4 DEF Summable

\* One block is added to what the others come to.
Total(h, S) == (CHOOSE it : Sums(it, h, S))[S]

\* It is the block the fold picks first.
LEMMA TotalAdds ==
  ASSUME NEW h, NEW S, IsFiniteSet(S), Summable(h, S)
  PROVE  Total(h, S) = IF S = {} THEN 0 ELSE h[Pick(S)].size + Total(h, S \ {Pick(S)})
<1> DEFINE t == S \ {Pick(S)}
           f == CHOOSE it : Sums(it, h, S)
           g == CHOOSE it : Sums(it, h, t)
<1>1. Sums(f, h, S)
  BY DEF Summable
<1>2. Sums(g, h, t)
  BY SumsRestrict DEF Summable
<1>3. IsFiniteSet(t)
  BY FS_Subset
<1> HIDE DEF f, g
<1>4. f[t] = g[t]
  BY <1>1, <1>2, <1>3, SumsAgree
<1>5. f[S] = IF S = {} THEN 0 ELSE h[Pick(S)].size + f[t]
  BY <1>1 DEF Sums
<1> QED BY <1>4, <1>5 DEF Total, f, g

\* Every finite set of blocks can be added up.
LEMMA SumsExist ==
  ASSUME NEW h, NEW S, IsFiniteSet(S)
  PROVE  Summable(h, S)
<1> DEFINE B == {s \in SUBSET S : ~Summable(h, s)}
<1> SUFFICES ASSUME B # {} PROVE FALSE
  OBVIOUS
<1>1. PICK s \in B : \A x \in s : s \ {x} \notin B
  <2>1. B \subseteq SUBSET S
    OBVIOUS
  <2> HIDE DEF B
  <2> QED BY <2>1, MinimalSet
<1>2. ASSUME NEW t \in SUBSET s, t # s PROVE Summable(h, t) /\ IsFiniteSet(t)
  <2>1. PICK x \in s : x \notin t
    BY <1>2
  <2>2. Summable(h, s \ {x}) /\ t \subseteq s \ {x}
    BY <1>1, <2>1
  <2> QED BY <2>2, SumsRestrict, FS_Subset
<1> DEFINE whole == IF s = {} THEN 0 ELSE h[Pick(s)].size + Total(h, s \ {Pick(s)})
           g == [t \in SUBSET s |-> IF t = s THEN whole ELSE Total(h, t)]
<1>3. ASSUME NEW t \in SUBSET s
      PROVE  g[t] = IF t = {} THEN 0 ELSE h[Pick(t)].size + g[t \ {Pick(t)}]
  <2>1. t # {} => Pick(t) \in t
    BY DEF Pick
  <2>2. t # {} => g[t \ {Pick(t)}] = Total(h, t \ {Pick(t)})
    BY <2>1
  <2>3. CASE t = s
    BY <2>2, <2>3
  <2>4. CASE t # s
    <3>1. Total(h, t) = IF t = {} THEN 0 ELSE h[Pick(t)].size + Total(h, t \ {Pick(t)})
      BY <1>2, <2>4, TotalAdds
    <3> QED BY <2>2, <2>4, <3>1
  <2> QED BY <2>3, <2>4
<1>4. g = [t \in SUBSET s |-> g[t]]
  OBVIOUS
<1> HIDE DEF g, whole
<1>5. Sums(g, h, s)
  BY <1>3, <1>4 DEF Sums
<1> QED BY <1>5 DEF Summable

\* The blocks may be added up in any order.
LEMMA TotalTakes ==
  ASSUME NEW h, NEW S, IsFiniteSet(S), \A x \in S : h[x].size \in Nat
  PROVE  /\ Total(h, {}) = 0
         /\ \A s \in SUBSET S : Total(h, s) \in Nat
         /\ \A s \in SUBSET S : \A x \in s : Total(h, s) = h[x].size + Total(h, s \ {x})
<1>1. \A s \in SUBSET S : IsFiniteSet(s) /\ Summable(h, s)
  BY FS_Subset, SumsExist
<1>2. Total(h, {}) = 0
  BY <1>1, TotalAdds
<1>3. ASSUME NEW s \in SUBSET S, s # {}
      PROVE  Pick(s) \in s /\ Total(h, s) = h[Pick(s)].size + Total(h, s \ {Pick(s)})
  <2>1. Pick(s) \in s
    BY <1>3 DEF Pick
  <2> QED BY <1>1, <1>3, <2>1, TotalAdds
<1>4. \A s \in SUBSET S : Total(h, s) \in Nat
  <2> DEFINE B == {s \in SUBSET S : Total(h, s) \notin Nat}
  <2> SUFFICES ASSUME B # {} PROVE FALSE
    OBVIOUS
  <2>1. PICK s \in B : \A x \in s : s \ {x} \notin B
    <3>1. B \subseteq SUBSET S
      OBVIOUS
    <3> HIDE DEF B
    <3> QED BY <3>1, MinimalSet
  <2>2. s # {}
    BY <1>2
  <2>3. Total(h, s \ {Pick(s)}) \in Nat /\ h[Pick(s)].size \in Nat
    BY <1>3, <2>1, <2>2
  <2> QED BY <1>3, <2>2, <2>3
<1>5. \A s \in SUBSET S : \A x \in s : Total(h, s) = h[x].size + Total(h, s \ {x})
  <2> DEFINE Odd(s) == \E x \in s : Total(h, s) # h[x].size + Total(h, s \ {x})
             B == {s \in SUBSET S : Odd(s)}
  <2> SUFFICES ASSUME B # {} PROVE FALSE
    OBVIOUS
  <2>1. PICK s \in B : \A z \in s : s \ {z} \notin B
    <3>1. B \subseteq SUBSET S
      OBVIOUS
    <3> HIDE DEF B
    <3> QED BY <3>1, MinimalSet
  <2>2. PICK x \in s : Total(h, s) # h[x].size + Total(h, s \ {x})
    OBVIOUS
  <2> DEFINE y == Pick(s)
             rest == (s \ {x}) \ {y}
  <2>3. y \in s /\ Total(h, s) = h[y].size + Total(h, s \ {y}) /\ x # y
    BY <1>3, <2>2
  <2>4. ~Odd(s \ {x}) /\ ~Odd(s \ {y})
    BY <2>1, <2>2, <2>3
  <2> HIDE DEF y
  <2>5. rest = (s \ {y}) \ {x}
    OBVIOUS
  <2>6. Total(h, s \ {x}) = h[y].size + Total(h, rest)
    BY <2>2, <2>3, <2>4
  <2>7. Total(h, s \ {y}) = h[x].size + Total(h, rest)
    BY <2>2, <2>3, <2>4, <2>5
  <2>8. h[x].size \in Nat /\ h[y].size \in Nat /\ Total(h, rest) \in Nat
    BY <1>4, <2>2, <2>3
  <2> HIDE DEF rest
  <2> QED BY <2>2, <2>3, <2>6, <2>7, <2>8
<1> QED BY <1>2, <1>4, <1>5

\* This is what heap_get_stats computes.
LEMMA BytesIs ==
  ASSUME NEW h, NEW S
  PROVE  MapThenSumSet(LAMBDA x : h[x].size, S) = Total(h, S)
BY Zenon DEF MapThenSumSet, MapThenFoldSet, Total, Sums, Pick

\* The blocks below an address, and what they take with their headers.
Below(h, p) == {x \in DOMAIN h : x < p}
InUse(h, S) == {x \in S : ~h[x].free}
Accounted(h, S) ==
  Total(h, InUse(h, S)) + Total(h, S \ InUse(h, S))
    + HeaderSize * (Cardinality(InUse(h, S)) + Cardinality(S \ InUse(h, S)))

\* One more block.
LEMMA AccountAdds ==
  ASSUME NEW h, Heap(h), NEW S, S \subseteq DOMAIN h, NEW q \in DOMAIN h, q \notin S
  PROVE  /\ Accounted(h, S) \in Nat
         /\ Accounted(h, S \cup {q}) = Accounted(h, S) + HeaderSize + h[q].size
<1> DEFINE T == S \cup {q}
           u == InUse(h, S)
           v == S \ u
<1>1. IsFiniteSet(DOMAIN h) /\ \A x \in DOMAIN h : h[x].size \in Nat
  <2>1. DOMAIN h \subseteq 0 .. HeapSize - HeaderSize
    BY DEF Heap, Offset
  <2>2. IsFiniteSet(0 .. HeapSize - HeaderSize)
    BY HeapAssumption, FS_Interval
  <2> QED BY <2>1, <2>2, FS_Subset DEF Heap, Header
<1>2. /\ u \in SUBSET DOMAIN h /\ v \in SUBSET DOMAIN h /\ q \notin u /\ q \notin v
  BY DEF InUse
<1>3. /\ IsFiniteSet(u) /\ IsFiniteSet(v) /\ Cardinality(u) \in Nat /\ Cardinality(v) \in Nat
      /\ Total(h, u) \in Nat /\ Total(h, v) \in Nat /\ h[q].size \in Nat
  BY <1>1, <1>2, FS_Subset, FS_CardinalityType, TotalTakes
<1>4. ASSUME NEW s \in SUBSET DOMAIN h, q \notin s, IsFiniteSet(s)
      PROVE  /\ Total(h, s \cup {q}) = h[q].size + Total(h, s)
             /\ Cardinality(s \cup {q}) = Cardinality(s) + 1
  <2>1. s \cup {q} \in SUBSET DOMAIN h /\ q \in s \cup {q} /\ (s \cup {q}) \ {q} = s
    BY <1>4
  <2>2. Total(h, s \cup {q}) = h[q].size + Total(h, (s \cup {q}) \ {q})
    <3> DEFINE t == s \cup {q}
    <3> HIDE DEF t
    <3>1. t \in SUBSET DOMAIN h /\ q \in t
      BY <2>1 DEF t
    <3>2. Total(h, t) = h[q].size + Total(h, t \ {q})
      BY <1>1, <3>1, TotalTakes
    <3> QED BY <3>2 DEF t
  <2>3. Cardinality(s \cup {q}) = Cardinality(s) + 1
    BY <1>4, FS_AddElement
  <2> QED BY <2>1, <2>2, <2>3
<1> DEFINE n == Cardinality(u) + Cardinality(v)
<1>5. n \in Nat /\ HeaderSize \in Nat /\ HeaderSize * n \in Nat
      /\ HeaderSize * (n + 1) = HeaderSize * n + HeaderSize
  BY <1>3, HeapAssumption
<1>6. Accounted(h, S) = Total(h, u) + Total(h, v) + HeaderSize * n
  BY DEF Accounted
<1>7. Accounted(h, T) = Total(h, u) + Total(h, v) + h[q].size + HeaderSize * (n + 1)
  <2>1. CASE h[q].free
    <3>1. InUse(h, T) = u /\ T \ InUse(h, T) = v \cup {q}
      BY <2>1 DEF InUse
    <3>2. Total(h, v \cup {q}) = h[q].size + Total(h, v) /\ Cardinality(v \cup {q}) = Cardinality(v) + 1
      BY <1>2, <1>3, <1>4
    <3>3. Cardinality(u) + Cardinality(v \cup {q}) = n + 1
      BY <1>3, <3>2
    <3>4. Accounted(h, T) = Total(h, u) + Total(h, v \cup {q}) + HeaderSize * (n + 1)
      BY <3>1, <3>3 DEF Accounted
    <3> HIDE DEF u, v, n, T
    <3> QED BY <1>3, <1>5, <3>2, <3>4
  <2>2. CASE ~h[q].free
    <3>1. InUse(h, T) = u \cup {q} /\ T \ InUse(h, T) = v
      BY <2>2 DEF InUse
    <3>2. Total(h, u \cup {q}) = h[q].size + Total(h, u) /\ Cardinality(u \cup {q}) = Cardinality(u) + 1
      BY <1>2, <1>3, <1>4
    <3>3. Cardinality(u \cup {q}) + Cardinality(v) = n + 1
      BY <1>3, <3>2
    <3>4. Accounted(h, T) = Total(h, u \cup {q}) + Total(h, v) + HeaderSize * (n + 1)
      BY <3>1, <3>3 DEF Accounted
    <3> HIDE DEF u, v, n, T
    <3> QED BY <1>3, <1>5, <3>2, <3>4
  <2> QED BY <2>1, <2>2
<1> HIDE DEF u, v, n
<1> QED BY <1>3, <1>5, <1>6, <1>7

\* Up to the address of a block, the blocks account for every byte.
LEMMA AccountedBelow ==
  ASSUME NEW h, Heap(h), NEW p \in DOMAIN h
  PROVE  Accounted(h, Below(h, p)) = p
<1> DEFINE B == {x \in DOMAIN h : Accounted(h, Below(h, x)) # x}
<1> SUFFICES ASSUME B # {} PROVE FALSE
  OBVIOUS
<1>0. B \subseteq Nat
  BY BlockFacts DEF Facts
<1>1. PICK x \in B : \A y \in B : x <= y
  <2> HIDE DEF B
  <2> QED BY <1>0, LeastNumber
<1>2. CASE x = heap_head
  <2>1. Below(h, x) = {}
    BY <1>2, BlockFacts DEF Below, Facts, heap_head
  <2>2. Accounted(h, {}) = 0
    <3>1. InUse(h, {}) = {} /\ {} \ {} = {}
      BY DEF InUse
    <3>2. Total(h, {}) = 0 /\ Cardinality({}) = 0
      BY FS_EmptySet, TotalTakes
    <3> QED BY <3>1, <3>2, HeapAssumption DEF Accounted
  <2> QED BY <1>2, <2>1, <2>2 DEF heap_head
<1>3. CASE x # heap_head
  <2> DEFINE q == h[x].prev
  <2>1. q \in DOMAIN h /\ h[q].next = x /\ x # NULL
    BY <1>3, BlockFacts DEF Facts
  <2> HIDE DEF q
  <2>2. /\ x = End(h, q) /\ x \in Nat /\ q \in Nat /\ x = q + HeaderSize + h[q].size
        /\ h[q].size \in Nat
    BY <2>1, BlockFacts DEF Facts
  <2>3. q < x
    BY <2>2, HeapAssumption
  <2>4. Accounted(h, Below(h, q)) = q
    BY <1>1, <2>1, <2>2, <2>3
  <2>5. Below(h, x) = Below(h, q) \cup {q}
    <3>1. \A y \in DOMAIN h : y \in Nat /\ (q < y => x <= y)
      BY <2>1, <2>2, BlockFacts DEF Heap, Disjoint, Facts
    <3> QED BY <2>1, <2>2, <2>3, <3>1 DEF Below
  <2>6. q \notin Below(h, q) /\ Below(h, q) \subseteq DOMAIN h
    BY <2>2 DEF Below
  <2>7. Accounted(h, Below(h, x)) = Accounted(h, Below(h, q)) + HeaderSize + h[q].size
    BY <2>1, <2>5, <2>6, AccountAdds
  <2> QED BY <2>2, <2>4, <2>7
<1> QED BY <1>2, <1>3

\* The blocks of a heap account for all of it.
LEMMA HeapAccounted ==
  ASSUME NEW h, Heap(h)
  PROVE  Accounted(h, DOMAIN h) = HeapSize
<1> DEFINE far == {HeapSize - x : x \in DOMAIN h}
<1>1. \A x \in DOMAIN h : x \in Nat /\ x <= HeapSize
  BY BlockFacts, HeapAssumption DEF Facts
<1>2. far \subseteq Nat /\ far # {}
  BY <1>1, HeapAssumption DEF Heap, Linked
<1>3. PICK m \in far : \A y \in far : m <= y
  <2> HIDE DEF far
  <2> QED BY <1>2, LeastNumber
<1>4. PICK x \in DOMAIN h : m = HeapSize - x
  BY <1>3
<1>5. \A y \in DOMAIN h : y <= x
  <2> SUFFICES ASSUME NEW y \in DOMAIN h PROVE y <= x
    OBVIOUS
  <2>1. HeapSize - x <= HeapSize - y
    BY <1>3, <1>4
  <2>2. x \in Nat /\ y \in Nat /\ HeapSize \in Nat
    BY <1>1, HeapAssumption
  <2> QED BY <2>1, <2>2
<1>6. /\ x \in Nat /\ h[x].size \in Nat /\ End(h, x) = x + HeaderSize + h[x].size
      /\ h[x].next # NULL => h[x].next \in DOMAIN h /\ h[x].next = End(h, x)
      /\ h[x].next = NULL => End(h, x) = HeapSize
  BY BlockFacts DEF Facts
<1>7. x + HeaderSize + h[x].size = HeapSize
  BY <1>5, <1>6, HeapAssumption
<1>8. DOMAIN h = Below(h, x) \cup {x} /\ x \notin Below(h, x) /\ Below(h, x) \subseteq DOMAIN h
  BY <1>1, <1>5 DEF Below
<1>9. Accounted(h, Below(h, x)) = x
  BY AccountedBelow
<1>10. Accounted(h, Below(h, x) \cup {x}) = Accounted(h, Below(h, x)) + HeaderSize + h[x].size
  BY <1>8, AccountAdds
<1> QED BY <1>6, <1>7, <1>8, <1>9, <1>10

\* heap_get_stats accounts for every byte of the heap, whatever its size and
\* whatever was allocated and freed before: the two sums it takes over the list
\* and a header for every block come to KERNEL_HEAP_SIZE, and what it reports
\* before the first malloc is the same account.
THEOREM StatsAlwaysAccount == Spec => []StatsAccount
<1>1. HeapInv => StatsAccount
  <2> SUFFICES ASSUME HeapInv PROVE StatsAccount
    OBVIOUS
  <2>1. TypeOK
    BY DEF HeapInv, HeldType, TypeOK, Heap
  <2>2. CASE ~heap_ready
    BY <2>1, <2>2, HeapAssumption DEF StatsAccount, heap_get_stats
  <2>3. CASE heap_ready
    <3>1. Accounted(hdr, DOMAIN hdr) = HeapSize
      BY <2>3, HeapAccounted DEF HeapInv
    <3> DEFINE used == InUse(hdr, DOMAIN hdr)
               idle == DOMAIN hdr \ used
    <3>2. heap_get_stats = [used |-> Total(hdr, used), free |-> Total(hdr, idle),
                            allocations |-> Cardinality(used), frees |-> Cardinality(idle)]
      BY <2>3, BytesIs, Zenon DEF heap_get_stats, InUse
    <3>3. /\ heap_get_stats.used = Total(hdr, used) /\ heap_get_stats.free = Total(hdr, idle)
          /\ heap_get_stats.allocations = Cardinality(used)
          /\ heap_get_stats.frees = Cardinality(idle)
      <4> HIDE DEF used, idle
      <4> QED BY <3>2
    <3> QED BY <2>1, <3>1, <3>3 DEF StatsAccount, Accounted
  <2> QED BY <2>2, <2>3
<1> QED BY <1>1, InitHeap, NextHeap, PTL DEF Spec

-----------------------------------------------------------------------------
(* Swap files over the heap: the inductive invariant.                      *)

Chars == {Junk, Gap} \cup UNION {{t[i] : i \in 1 .. Len(t)} : t \in Texts}

SwapType == [data : Offset \cup {NULL}, size : Nat, capacity : Nat, bytes : Seq(Chars)]

CallType == [op : {"none", "init", "reserve", "write", "load"}, offset : Nat,
             text : Seq(Chars), need : Nat, new_capacity : Nat]

SwapTypes ==
  /\ swap \in SwapType /\ call \in CallType
  /\ phase \in {"idle", "grow", "free", "finish"}
  /\ file \in [exists : BOOLEAN, text : Seq(Chars)]
  /\ contents \in Seq(Chars) /\ mirror \in Seq(Chars)

\* A capacity that malloc does not round up past a size_t.
Sizable(n) == n \in 0 .. WordSize - 1 /\ n % Align = 0

\* Whose the buffer is. While the old buffer is still to be freed there are two.
Owned ==
  /\ swap.data = NULL => swap.capacity = 0
  /\ swap.data # NULL => \E p \in held : p.at = swap.data /\ p.size = swap.capacity
  /\ phase # "free" => mine = {swap.data} \ {NULL}
  /\ phase = "free" => /\ swap.data # NULL
                       /\ \E q \in held : q.at # swap.data /\ mine = {q.at, swap.data}

\* How far the doubling is, and that there is room when it is done.
Growing ==
  /\ Sizable(swap.capacity)
  /\ phase = "grow" => /\ Sizable(call.new_capacity) /\ swap.capacity < call.need
                       /\ \/ call.new_capacity >= DoubledFrom(swap.capacity)
                          \/ 2 * call.need > WordSize
  /\ phase \in {"free", "finish"} => call.need <= swap.capacity

\* s holds what t says, where t says something.
Holds(s, t) == \A i \in 1 .. Len(t) : t[i] # Gap => s[i] = t[i]

\* What the buffer and the file hold, and what the call in progress is about.
Kept ==
  /\ Len(swap.bytes) = swap.capacity /\ Len(contents) = swap.size
  /\ swap.size <= swap.capacity
  /\ Holds(swap.bytes, contents)
  /\ Len(mirror) = Len(file.text) /\ Holds(file.text, mirror)
  /\ phase # "idle" /\ call.op = "write" => call.need = call.offset + Len(call.text)
  /\ phase # "idle" /\ call.op = "load" => swap.size = 0 /\ call.need = Len(file.text)

SwapInv == HeapInv /\ SwapTypes /\ Owned /\ Growing /\ Kept

-----------------------------------------------------------------------------
(* The operators.                                                          *)

\* What callers write are sequences of characters.
LEMMA TextsAreChars == \A t \in Texts : t \in Seq(Chars)
<1> SUFFICES ASSUME NEW t \in Texts PROVE t \in Seq(Chars)
  OBVIOUS
<1>1. Len(t) \in Nat /\ t = [i \in 1 .. Len(t) |-> t[i]]
  BY SwapAssumption
<1>2. \A i \in 1 .. Len(t) : t[i] \in Chars
  BY DEF Chars
<1>3. [i \in 1 .. Len(t) |-> t[i]] \in Seq(Chars)
  BY <1>1, <1>2
<1> QED BY <1>1, <1>3

\* o is s with text over it, position by position.
Overlaid(o, s, offset, text, fill) ==
  /\ o \in Seq(Chars)
  /\ Len(o) = IF offset + Len(text) > Len(s) THEN offset + Len(text) ELSE Len(s)
  /\ \A i \in 1 .. Len(o) :
       o[i] = IF i \in offset + 1 .. offset + Len(text) THEN text[i - offset]
              ELSE IF i <= Len(s) THEN s[i] ELSE fill

\* What Overlay makes of two texts.
LEMMA OverlayIs ==
  ASSUME NEW s \in Seq(Chars), NEW text \in Seq(Chars), NEW offset \in Nat, NEW fill \in Chars
  PROVE  Overlaid(Overlay(s, offset, text, fill), s, offset, text, fill)
<1> DEFINE end == offset + Len(text)
           n == IF end > Len(s) THEN end ELSE Len(s)
           at(i) == IF i \in offset + 1 .. end THEN text[i - offset]
                    ELSE IF i <= Len(s) THEN s[i] ELSE fill
<1>1. n \in Nat /\ end \in Nat /\ Len(s) \in Nat /\ Len(text) \in Nat
  OBVIOUS
<1>2. ASSUME NEW i \in 1 .. n PROVE at(i) \in Chars
  <2>1. CASE i \in offset + 1 .. end
    <3>1. i - offset \in 1 .. Len(text)
      BY <1>1, <2>1
    <3> QED BY <2>1, <3>1
  <2>2. CASE i \notin offset + 1 .. end /\ i <= Len(s)
    BY <1>1, <2>2
  <2>3. CASE i \notin offset + 1 .. end /\ ~(i <= Len(s))
    BY <2>3
  <2> QED BY <2>1, <2>2, <2>3
<1>3. Overlay(s, offset, text, fill) = [i \in 1 .. n |-> at(i)]
  BY DEF Overlay
<1> HIDE DEF n, at
<1>4. [i \in 1 .. n |-> at(i)] \in Seq(Chars) /\ Len([i \in 1 .. n |-> at(i)]) = n
  BY <1>1, <1>2
<1> QED BY <1>1, <1>3, <1>4 DEF n, at, Overlaid

\* Writing the same text to both keeps what is held held.
LEMMA OverlayHolds ==
  ASSUME NEW s \in Seq(Chars), NEW t \in Seq(Chars), NEW text \in Seq(Chars),
         NEW offset \in Nat, Len(t) <= Len(s), Holds(s, t)
  PROVE  Holds(Overlay(s, offset, text, Junk), Overlay(t, offset, text, Gap))
<1> DEFINE end == offset + Len(text)
           a == Overlay(s, offset, text, Junk)
           b == Overlay(t, offset, text, Gap)
<1>1. Junk \in Chars /\ Gap \in Chars
  BY DEF Chars
<1>2. Overlaid(a, s, offset, text, Junk) /\ Overlaid(b, t, offset, text, Gap)
  BY <1>1, OverlayIs
<1> HIDE DEF a, b
<1>3. /\ Len(a) = (IF end > Len(s) THEN end ELSE Len(s))
      /\ Len(b) = (IF end > Len(t) THEN end ELSE Len(t))
      /\ \A i \in 1 .. Len(a) : a[i] = IF i \in offset + 1 .. end THEN text[i - offset]
                                       ELSE IF i <= Len(s) THEN s[i] ELSE Junk
      /\ \A i \in 1 .. Len(b) : b[i] = IF i \in offset + 1 .. end THEN text[i - offset]
                                       ELSE IF i <= Len(t) THEN t[i] ELSE Gap
  BY <1>2 DEF Overlaid
<1> SUFFICES ASSUME NEW i \in 1 .. Len(b), b[i] # Gap PROVE a[i] = b[i]
  BY DEF Holds, a, b
<1>4. Len(s) \in Nat /\ Len(t) \in Nat /\ end \in Nat
  OBVIOUS
<1>5. i \in 1 .. Len(a)
  BY <1>3, <1>4
<1>6. CASE i \in offset + 1 .. end
  BY <1>3, <1>5, <1>6
<1>7. CASE i \notin offset + 1 .. end
  <2>1. i <= Len(t) /\ b[i] = t[i]
    BY <1>3, <1>7
  <2>2. i \in 1 .. Len(t) /\ i <= Len(s)
    BY <1>3, <1>4, <2>1
  <2> QED BY <1>3, <1>5, <1>7, <2>1, <2>2 DEF Holds
<1> QED BY <1>6, <1>7

\* Doubling a capacity that malloc takes as it is gives another one.
LEMMA DoublingSizable ==
  ASSUME NEW c, Sizable(c)
  PROVE  Sizable((2 * c) % WordSize)
<1> DEFINE d == (2 * c) % WordSize
<1>1. /\ c \in Nat /\ c < WordSize /\ c % Align = 0 /\ WordSize % Align = 0
      /\ Align \in Nat /\ Align > 0 /\ WordSize \in Nat /\ WordSize > 0
  BY SwapAssumption, HeapAssumption DEF Sizable
<1>2. d \in 0 .. WordSize - 1
  BY <1>1
<1>3. d = 2 * c \/ d = 2 * c - WordSize
  BY <1>1
<1>4. PICK k \in Int, m \in Int : c = Align * k /\ WordSize = Align * m
  <2>1. c = Align * (c \div Align) /\ c \div Align \in Int
    BY <1>1
  <2>2. WordSize = Align * (WordSize \div Align) /\ WordSize \div Align \in Int
    BY <1>1
  <2> QED BY <2>1, <2>2
<1>5. d = Align * (2 * k) \/ d = Align * (2 * k - m)
  BY <1>1, <1>3, <1>4
<1>6. \A j \in Int : (Align * j) % Align = 0
  BY <1>1
<1>7. d % Align = 0
  BY <1>4, <1>5, <1>6
<1> QED BY <1>2, <1>7 DEF Sizable

\* Such a capacity is not among the sizes that align_up wraps around.
LEMMA SizableFits ==
  ASSUME NEW c, Sizable(c)
  PROVE  c \notin WordSize - Align + 1 .. WordSize - 1
<1>1. /\ c \in Nat /\ c < WordSize /\ c % Align = 0 /\ WordSize % Align = 0
      /\ Align \in Nat /\ Align > 0 /\ WordSize \in Nat
  BY SwapAssumption, HeapAssumption DEF Sizable
<1>2. c = Align * (c \div Align) /\ WordSize = Align * (WordSize \div Align)
      /\ c \div Align \in Int /\ WordSize \div Align \in Int
  BY <1>1
<1>3. c \div Align < WordSize \div Align
  BY <1>1, <1>2
<1>4. \A a, b \in Int : a < b => Align * a + Align <= Align * b
  BY <1>1
<1>5. c + Align <= WordSize
  BY <1>2, <1>3, <1>4
<1> QED BY <1>1, <1>5

-----------------------------------------------------------------------------
(* The heap under these callers.                                           *)

\* A step that leaves the heap alone keeps its invariant.
LEMMA QuietHeap == HeapInv /\ UNCHANGED heapvars => HeapInv'
BY NextHeap DEF heapvars, vars

\* What an allocation does to what callers hold: nothing, or one block more,
\* at an offset where none of them holds one.
Gives(asked) ==
  \/ held' = held
  \/ \E x \in Offset : /\ held' = held \cup {[at |-> x, size |-> asked]}
                       /\ \A p \in held : p.at # x

\* malloc answers no block, or one of the size asked for that nobody holds.
LEMMA AllocateGives ==
  ASSUME HeapInv, NEW size, NEW asked, Allocate(size, asked)
  PROVE  Gives(asked)
<1> DEFINE h == IF heap_ready THEN hdr ELSE FreshHeap
           fits == Fits(h, align_up(size))
<1>1. Heap(h) /\ \A p \in held : ~h[p.at].free
  BY FreshIsHeap DEF HeapInv, HeldBacked
<1>2. CASE held' = held
  BY <1>2 DEF Gives
<1>3. CASE \E x \in fits : held' = held \cup {[at |-> x, size |-> asked]}
  <2>1. PICK x \in fits : held' = held \cup {[at |-> x, size |-> asked]}
    BY <1>3
  <2>2. x \in Offset /\ h[x].free
    BY <1>1 DEF Heap, Fits
  <2> QED BY <1>1, <2>1, <2>2 DEF Gives
<1>4. held' = held \/ \E x \in fits : held' = held \cup {[at |-> x, size |-> asked]}
  BY DEF Allocate
<1> QED BY <1>2, <1>3, <1>4

\* The block at the offset of a pointer is the one that is held there.
LEMMA BlockIsHeld ==
  ASSUME HeapInv, NEW p \in held
  PROVE  BlockAt(p.at) = p
<1>1. BlockAt(p.at) \in held /\ BlockAt(p.at).at = p.at
  BY DEF BlockAt
<1> QED BY <1>1 DEF HeapInv, HeldBacked

\* The buffer of a swap file is large enough in the heap too.
LEMMA OwnedIsBacked == SwapInv => BufferOwned
<1> SUFFICES ASSUME SwapInv PROVE BufferOwned
  OBVIOUS
<1>1. phase = "grow" =>
        call.new_capacity >= DoubledFrom(swap.capacity) \/ 2 * call.need > WordSize
  BY DEF SwapInv, Growing
<1>2. phase = "idle" => mine = {swap.data} \ {NULL}
  BY DEF SwapInv, Owned
<1>3. ASSUME swap.data # NULL
      PROVE  \E p \in held : /\ p.at = swap.data /\ ~hdr[p.at].free
                             /\ hdr[p.at].size >= swap.capacity
  <2>1. PICK p \in held : p.at = swap.data /\ p.size = swap.capacity
    BY <1>3 DEF SwapInv, Owned
  <2>2. p.size \notin WordSize - Align + 1 .. WordSize - 1
    BY <2>1, SizableFits DEF SwapInv, Growing
  <2> QED BY <2>1, <2>2 DEF SwapInv, HeapInv, HeldBacked
<1> QED BY <1>1, <1>2, <1>3 DEF BufferOwned

-----------------------------------------------------------------------------
(* One lemma for each action.                                              *)

\* Nothing is loaded at first.
LEMMA SwapInvInit == SwapInit => SwapInv
<1> SUFFICES ASSUME SwapInit PROVE SwapInv
  OBVIOUS
<1>1. HeapInv
  BY InitHeap DEF SwapInit
<1>2. SwapTypes
  BY DEF SwapInit, SwapTypes, SwapType, CallType, EmptySwap, NoCall
<1>3. Owned
  BY DEF SwapInit, Owned, EmptySwap
<1>4. Growing
  <2>1. 0 % Align = 0 /\ 0 \in 0 .. WordSize - 1
    BY HeapAssumption
  <2> QED BY <2>1 DEF SwapInit, Growing, EmptySwap, Sizable
<1>5. Kept
  BY DEF SwapInit, Kept, EmptySwap, Holds
<1> QED BY <1>1, <1>2, <1>3, <1>4, <1>5 DEF SwapInv

\* Other callers keep the heap's invariant and leave the buffer held.
LEMMA OthersKeep ==
  ASSUME SwapInv, OtherCallers
  PROVE  SwapInv'
<1> USE DEF SwapInv
<1>1. UNCHANGED svars /\ phase = "idle"
  BY DEF OtherCallers
<1>2. HeapInv'
  BY NextHeap DEF OtherCallers, Next
<1>3. \A p \in held : p.at \in mine => p \in held'
  <2>1. CASE heap_init
    BY <2>1 DEF heap_init
  <2>2. ASSUME NEW n \in Requests, malloc(n) PROVE held \subseteq held'
    BY <2>2, AllocateGives DEF malloc, Gives
  <2>3. ASSUME NEW k \in Counts, NEW n \in Requests, calloc(k, n) PROVE held \subseteq held'
    BY <2>3, AllocateGives DEF calloc, Gives
  <2>4. ASSUME NEW p \in held, p.at \notin mine, free(p)
        PROVE  \A q \in held : q.at \in mine => q \in held'
    BY <2>4 DEF free
  <2> QED BY <2>1, <2>2, <2>3, <2>4 DEF OtherCallers
<1>4. Owned'
  BY <1>1, <1>3 DEF Owned, svars
<1>5. SwapTypes' /\ Growing' /\ Kept'
  BY <1>1 DEF SwapTypes, Growing, Kept, svars
<1> QED BY <1>2, <1>4, <1>5

\* What a call finds: the swap file as it is, or an empty one where there was
\* no buffer.
Finds(sw) ==
  \/ sw = swap /\ contents' = contents
  \/ sw = EmptySwap /\ swap.data = NULL /\ contents' = <<>>

\* The call's record is what the rest of the call needs.
LEMMA CallsKeeps ==
  ASSUME SwapInv, NEW c \in CallType, NEW sw, Calls(c, sw), Finds(sw),
         c.op = "write" => c.need = c.offset + Len(c.text),
         c.op = "load" => sw.size = 0 /\ c.need = Len(file.text)
  PROVE  SwapInv'
<1> USE DEF SwapInv
<1>1. /\ sw \in SwapType /\ sw.data = swap.data /\ sw.capacity = swap.capacity
      /\ Len(sw.bytes) = sw.capacity /\ sw.size <= sw.capacity
      /\ contents' \in Seq(Chars) /\ Len(contents') = sw.size
      /\ Holds(sw.bytes, contents')
  <2>1. CASE sw = swap /\ contents' = contents
    BY <2>1 DEF SwapTypes, Kept
  <2>2. CASE sw = EmptySwap /\ swap.data = NULL /\ contents' = <<>>
    BY <2>2 DEF SwapTypes, SwapType, Owned, EmptySwap, Holds
  <2> QED BY <2>1, <2>2 DEF Finds
<1>2. /\ swap' = sw /\ UNCHANGED <<heapvars, file, mirror, mine>> /\ phase = "idle"
      /\ phase' = IF sw.capacity >= c.need THEN "finish" ELSE "grow"
  BY DEF Calls
<1>3. Sizable(swap.capacity) /\ swap.capacity \in Nat
  BY DEF Growing, SwapTypes, SwapType
<1>4. Sizable(DoubledFrom(sw.capacity))
  BY <1>1, <1>3, SwapAssumption DEF DoubledFrom, Sizable
<1>5. DoubledFrom(sw.capacity) \in Nat
  BY <1>4 DEF Sizable
<1>6. /\ call' \in CallType /\ call'.need = c.need /\ call'.op = c.op /\ call'.text = c.text
      /\ call'.offset = c.offset /\ call'.new_capacity = DoubledFrom(sw.capacity)
  BY <1>5 DEF Calls, CallType
<1>7. c.need \in Nat
  BY DEF CallType
<1>8. HeapInv'
  BY <1>2, QuietHeap
<1>9. SwapTypes'
  BY <1>1, <1>2, <1>6 DEF SwapTypes
<1>10. Owned'
  BY <1>1, <1>2 DEF Owned, heapvars
<1>11. Growing'
  BY <1>1, <1>2, <1>3, <1>4, <1>5, <1>6, <1>7 DEF Growing
<1>12. Kept'
  BY <1>1, <1>2, <1>6 DEF Kept
<1> QED BY <1>8, <1>9, <1>10, <1>11, <1>12

\* Every call that may grow the buffer.
LEMMA CallersKeep ==
  ASSUME SwapInv
  PROVE  /\ \A n \in Reserves : swap_file_init(n) => SwapInv'
         /\ \A n \in Reserves : swap_file_reserve(n) => SwapInv'
         /\ \A s \in Starts, t \in Texts : swap_file_write(s, t) => SwapInv'
         /\ \A t \in Texts : swap_file_append(t) => SwapInv'
         /\ swap_file_load_path => SwapInv'
<1>t. SwapTypes
  BY DEF SwapInv
<1>n. NoCall \in CallType
  BY DEF NoCall, CallType
<1>1. ASSUME NEW n \in Reserves, swap_file_init(n) PROVE SwapInv'
  <2>1. n \in Nat
    BY SwapAssumption, HeapAssumption
  <2> DEFINE c == [NoCall EXCEPT !.op = "init", !.need = n]
  <2>2. c \in CallType /\ c.op = "init"
    BY <1>n, <2>1 DEF CallType
  <2>3. Calls(c, EmptySwap) /\ Finds(EmptySwap)
    BY <1>1 DEF swap_file_init, Finds
  <2> QED BY <2>2, <2>3, CallsKeeps
<1>2. ASSUME NEW n \in Reserves, swap_file_reserve(n) PROVE SwapInv'
  <2>1. n \in Nat
    BY SwapAssumption, HeapAssumption
  <2> DEFINE c == [NoCall EXCEPT !.op = "reserve", !.need = n]
  <2>2. c \in CallType /\ c.op = "reserve"
    BY <1>n, <2>1 DEF CallType
  <2>3. Calls(c, swap) /\ Finds(swap)
    BY <1>2 DEF swap_file_reserve, Finds
  <2> QED BY <2>2, <2>3, CallsKeeps
<1>3. ASSUME NEW s \in Nat, NEW t \in Texts, swap_file_write(s, t) PROVE SwapInv'
  <2>1. t \in Seq(Chars) /\ Len(t) \in Nat
    BY TextsAreChars
  <2> DEFINE c == [NoCall EXCEPT !.op = "write", !.offset = s, !.text = t, !.need = s + Len(t)]
  <2>2. s + Len(t) \in Nat
    BY <2>1
  <2>3. c \in CallType /\ c.op = "write" /\ c.need = c.offset + Len(c.text)
    BY <1>n, <2>1, <2>2 DEF CallType
  <2>4. Calls(c, swap) /\ Finds(swap)
    BY <1>3 DEF swap_file_write, Finds
  <2> QED BY <2>3, <2>4, CallsKeeps
<1>4. ASSUME NEW t \in Texts, swap_file_append(t) PROVE SwapInv'
  BY <1>t, <1>3, <1>4 DEF swap_file_append, SwapTypes, SwapType
<1>5. ASSUME swap_file_load_path PROVE SwapInv'
  <2>1. Len(file.text) \in Nat
    BY <1>t DEF SwapTypes
  <2> DEFINE c == [NoCall EXCEPT !.op = "load", !.need = Len(file.text)]
  <2>2. c \in CallType /\ c.op = "load" /\ c.need = Len(file.text)
    BY <1>n, <2>1 DEF CallType
  <2>3. Calls(c, EmptySwap) /\ Finds(EmptySwap) /\ EmptySwap.size = 0
    BY <1>5 DEF swap_file_load_path, Finds, EmptySwap
  <2> QED BY <2>2, <2>3, CallsKeeps
<1> QED BY <1>1, <1>2, <1>3, <1>4, <1>5, SwapAssumption

\* A doubling that cannot wrap around only grows.
LEMMA DoublesKeeps ==
  ASSUME SwapInv, Doubles
  PROVE  SwapInv'
<1> USE DEF SwapInv
<1>1. /\ UNCHANGED <<heapvars, swap, phase, file, contents, mirror, mine>>
      /\ phase = "grow" /\ call.new_capacity < call.need /\ call \in CallType
  BY DEF Doubles, SwapTypes
<1> DEFINE n == (2 * call.new_capacity) % WordSize
<1>2. Sizable(call.new_capacity) /\ Sizable(n)
  BY <1>1, DoublingSizable DEF Growing
<1>3. n \in Nat
  BY <1>2 DEF Sizable
<1>4. /\ call' \in CallType /\ call'.new_capacity = n /\ call'.need = call.need
      /\ call'.op = call.op /\ call'.offset = call.offset /\ call'.text = call.text
  <2>1. call' = [call EXCEPT !.new_capacity = n]
    BY DEF Doubles
  <2> HIDE DEF n
  <2> QED BY <1>1, <1>3, <2>1 DEF CallType
<1>5. n >= DoubledFrom(swap.capacity) \/ 2 * call.need > WordSize
  <2>1. CASE 2 * call.need > WordSize
    BY <2>1
  <2>2. CASE ~(2 * call.need > WordSize)
    <3>1. /\ call.new_capacity \in Nat /\ call.need \in Nat /\ WordSize \in Nat
          /\ swap.capacity \in Nat
      BY <1>1, HeapAssumption DEF CallType, SwapTypes, SwapType
    <3>2. DoubledFrom(swap.capacity) \in Nat
      BY <3>1, SwapAssumption, HeapAssumption DEF DoubledFrom
    <3>3. 2 * call.new_capacity < WordSize
      BY <1>1, <2>2, <3>1
    <3>4. n = 2 * call.new_capacity
      BY <3>1, <3>3
    <3>5. call.new_capacity >= DoubledFrom(swap.capacity)
      BY <1>1, <2>2 DEF Growing
    <3> QED BY <3>1, <3>2, <3>4, <3>5
  <2> QED BY <2>1, <2>2
<1> HIDE DEF n
<1>6. HeapInv'
  BY <1>1, QuietHeap
<1>7. SwapTypes'
  BY <1>1, <1>4 DEF SwapTypes
<1>8. Owned'
  BY <1>1 DEF Owned, heapvars
<1>9. Growing'
  BY <1>1, <1>2, <1>4, <1>5 DEF Growing
<1>10. Kept'
  BY <1>1, <1>4 DEF Kept
<1> QED BY <1>6, <1>7, <1>8, <1>9, <1>10

\* The new buffer is a block of its own that holds what the old one held.
LEMMA GrowKeeps ==
  ASSUME SwapInv, swap_file_grow
  PROVE  SwapInv'
<1> USE DEF SwapInv
<1> DEFINE n == call.new_capacity
           new == {p.at : p \in held' \ held}
<1>1. /\ phase = "grow" /\ n >= call.need /\ malloc(n) /\ call \in CallType
      /\ swap \in SwapType /\ Sizable(n) /\ swap.capacity < call.need
      /\ UNCHANGED <<file, contents, mirror>>
  BY DEF swap_file_grow, SwapTypes, Growing
<1>2. n \in 0 .. WordSize - 1 /\ n \in Nat /\ call.need \in Nat /\ swap.capacity \in Nat
  BY <1>1 DEF Sizable, CallType, SwapType
<1>3. HeapInv' /\ Gives(n)
  BY <1>1, <1>2, AllocateKeeps, AllocateGives DEF malloc
<1>4. CASE new = {} /\ Returns /\ UNCHANGED <<swap, mine>>
  <2>1. held' = held
    BY <1>3, <1>4 DEF Gives
  <2>2. phase' = "idle" /\ call' = NoCall /\ UNCHANGED <<swap, mine>>
    BY <1>4 DEF Returns
  <2>3. SwapTypes'
    BY <1>1, <2>2 DEF SwapTypes, NoCall, CallType
  <2>4. Owned'
    BY <1>1, <2>1, <2>2 DEF Owned
  <2>5. Growing' /\ Kept'
    BY <1>1, <2>2 DEF Growing, Kept
  <2> QED BY <1>3, <2>3, <2>4, <2>5
<1>5. ASSUME NEW b \in new, swap' = Moved(swap, b, n), mine' = mine \cup {b},
             phase' = IF swap.data = NULL THEN "finish" ELSE "free", UNCHANGED call
      PROVE  SwapInv'
  <2>1. /\ b \in Offset /\ held' = held \cup {[at |-> b, size |-> n]}
        /\ \A p \in held : p.at # b
    <3>1. held' # held
      OBVIOUS
    <3>2. PICK x \in Offset : /\ held' = held \cup {[at |-> x, size |-> n]}
                              /\ \A p \in held : p.at # x
      BY <1>3, <3>1 DEF Gives
    <3>3. b = x
      BY <3>2
    <3> QED BY <3>2, <3>3
  <2> DEFINE bytes == [i \in 1 .. n |-> IF i <= swap.size THEN swap.bytes[i] ELSE Junk]
  <2>2. swap.size \in Nat /\ swap.bytes \in Seq(Chars) /\ Len(swap.bytes) = swap.capacity
        /\ swap.size <= swap.capacity
    BY <1>1 DEF SwapType, Kept
  <2>3. \A i \in 1 .. n : (IF i <= swap.size THEN swap.bytes[i] ELSE Junk) \in Chars
    BY <1>2, <2>2 DEF Chars
  <2>4. bytes \in Seq(Chars) /\ Len(bytes) = n
    BY <1>2, <2>3
  <2>5. /\ swap' \in SwapType /\ swap'.data = b /\ swap'.capacity = n
        /\ swap'.size = swap.size /\ swap'.bytes = bytes
    <3>1. swap' = [swap EXCEPT !.data = b, !.capacity = n, !.bytes = bytes]
      BY <1>5 DEF Moved
    <3> HIDE DEF bytes, n
    <3> QED BY <1>1, <1>2, <2>1, <2>4, <3>1 DEF SwapType
  <2>6. \A i \in 1 .. swap.size : bytes[i] = swap.bytes[i]
    BY <1>1, <1>2, <2>2
  <2> HIDE DEF bytes, n
  <2>7. SwapTypes'
    BY <1>1, <1>5, <2>5 DEF SwapTypes
  <2>8. b # NULL
    BY <2>1, HeapAssumption DEF Offset, NULL
  <2>9. Owned'
    <3>1. [at |-> b, size |-> n] \in held'
      BY <2>1
    <3>2. CASE swap.data = NULL
      BY <1>1, <1>5, <2>5, <2>8, <3>1, <3>2 DEF Owned
    <3>3. CASE swap.data # NULL
      <4>1. PICK q \in held : q.at = swap.data
        BY <3>3 DEF Owned
      <4>2. q \in held' /\ q.at # b /\ mine' = {q.at, b}
        BY <1>1, <1>5, <2>1, <3>3, <4>1 DEF Owned
      <4> QED BY <1>5, <2>5, <2>8, <3>1, <3>3, <4>2 DEF Owned
    <3> QED BY <3>2, <3>3
  <2>10. Growing'
    BY <1>1, <1>5, <2>5 DEF Growing, n
  <2>11. Holds(swap'.bytes, contents)
    BY <1>2, <2>2, <2>5, <2>6 DEF Holds, Kept
  <2>12. Kept'
    <3>1. swap'.size <= swap'.capacity
      BY <1>1, <1>2, <2>2, <2>5 DEF n
    <3> QED BY <1>1, <1>5, <2>4, <2>5, <2>11, <3>1 DEF Kept
  <2> QED BY <1>3, <2>7, <2>9, <2>10, <2>12
<1> QED BY <1>4, <1>5 DEF swap_file_grow

\* A buffer that is given up: the heap has it back, and nothing else changed.
LEMMA GivenBack ==
  ASSUME SwapInv, NEW p \in held, free(BlockAt(p.at))
  PROVE  HeapInv' /\ held' = held \ {p}
<1>1. free(p)
  BY BlockIsHeld DEF SwapInv
<1> QED BY <1>1, FreeKeeps DEF SwapInv, free

\* The outgrown buffer is the one that is freed.
LEMMA GrowFreesKeeps ==
  ASSUME SwapInv, GrowFrees
  PROVE  SwapInv'
<1> USE DEF SwapInv
<1>1. phase = "free" /\ phase' = "finish" /\ UNCHANGED <<swap, call, file, contents, mirror>>
  BY DEF GrowFrees
<1>2. PICK old \in mine \ {swap.data} : free(BlockAt(old)) /\ mine' = mine \ {old}
  BY DEF GrowFrees
<1>3. PICK q \in held : q.at # swap.data /\ mine = {q.at, swap.data}
  BY <1>1 DEF Owned
<1>4. old = q.at
  BY <1>2, <1>3
<1>5. HeapInv' /\ held' = held \ {q}
  BY <1>2, <1>4, GivenBack
<1>6. SwapTypes'
  BY <1>1 DEF SwapTypes
<1>7. Owned'
  BY <1>1, <1>2, <1>3, <1>4, <1>5 DEF Owned
<1>8. Growing' /\ Kept'
  BY <1>1 DEF Growing, Kept
<1> QED BY <1>5, <1>6, <1>7, <1>8

\* An empty swap file, and no call, satisfy the invariant.
LEMMA EmptyKeeps ==
  ASSUME SwapInv, HeapInv', swap' = EmptySwap, contents' = <<>>, mine' = {},
         phase' = "idle", call' \in {call, NoCall}, UNCHANGED <<file, mirror>>
  PROVE  SwapInv'
<1> USE DEF SwapInv
<1>1. /\ EmptySwap \in SwapType /\ EmptySwap.data = NULL /\ EmptySwap.capacity = 0
      /\ EmptySwap.size = 0 /\ EmptySwap.bytes = <<>> /\ NoCall \in CallType
  BY DEF EmptySwap, NoCall, SwapType, CallType
<1>2. SwapTypes'
  BY <1>1 DEF SwapTypes
<1>3. Owned'
  BY <1>1 DEF Owned
<1>4. Sizable(0)
  BY HeapAssumption DEF Sizable
<1>5. Growing'
  BY <1>1, <1>4 DEF Growing
<1>6. Kept'
  BY <1>1 DEF Kept, Holds
<1> QED BY <1>2, <1>3, <1>5, <1>6

\* swap_file_free gives the buffer back and forgets it.
LEMMA FreeSwapKeeps ==
  ASSUME SwapInv, swap_file_free
  PROVE  SwapInv'
<1>1. /\ phase = "idle" /\ swap' = EmptySwap /\ contents' = <<>>
      /\ UNCHANGED <<phase, call, file, mirror>>
  BY DEF swap_file_free
<1>2. mine = {swap.data} \ {NULL}
  BY <1>1 DEF SwapInv, Owned
<1>3. CASE swap.data = NULL
  BY <1>1, <1>2, <1>3, QuietHeap, EmptyKeeps DEF swap_file_free, SwapInv
<1>4. CASE swap.data # NULL
  <2>1. PICK p \in held : p.at = swap.data
    BY <1>4 DEF SwapInv, Owned
  <2>2. HeapInv'
    BY <1>4, <2>1, GivenBack DEF swap_file_free
  <2>3. mine' = {}
    BY <1>2, <1>4 DEF swap_file_free
  <2> QED BY <1>1, <2>2, <2>3, EmptyKeeps
<1> QED BY <1>3, <1>4

\* A load that fails gives its buffer back.
LEMMA LoadFailsKeeps ==
  ASSUME SwapInv, LoadFails
  PROVE  SwapInv'
<1>1. /\ phase = "finish" /\ call.op = "load" /\ call.need # 0 /\ swap' = EmptySwap
      /\ phase' = "idle" /\ call' = NoCall /\ UNCHANGED <<file, contents, mirror>>
      /\ free(BlockAt(swap.data)) /\ mine' = mine \ {swap.data}
  BY DEF LoadFails, Returns
<1>2. contents = <<>>
  BY <1>1 DEF SwapInv, Kept, SwapTypes
<1>3. swap.data # NULL
  BY <1>1 DEF SwapInv, Growing, Owned, SwapTypes, CallType, SwapType
<1>4. PICK p \in held : p.at = swap.data
  BY <1>3 DEF SwapInv, Owned
<1>5. HeapInv'
  BY <1>1, <1>4, GivenBack
<1>6. mine' = {}
  BY <1>1, <1>3 DEF SwapInv, Owned
<1> QED BY <1>1, <1>2, <1>5, <1>6, EmptyKeeps

\* Writing or loading puts the same text into the buffer and into what it is
\* meant to hold.
LEMMA FinishesKeeps ==
  ASSUME SwapInv, Finishes
  PROVE  SwapInv'
<1> USE DEF SwapInv
<1>1. /\ phase = "finish" /\ phase' = "idle" /\ call' = NoCall
      /\ UNCHANGED <<heapvars, file, mirror, mine>>
  BY DEF Finishes, Returns
<1>2. /\ swap \in SwapType /\ call \in CallType /\ contents \in Seq(Chars)
      /\ file.text \in Seq(Chars) /\ mirror \in Seq(Chars) /\ NoCall \in CallType
  BY DEF SwapTypes, NoCall, CallType
<1>3. /\ swap.bytes \in Seq(Chars) /\ swap.size \in Nat /\ swap.capacity \in Nat
      /\ call.text \in Seq(Chars) /\ call.offset \in Nat /\ call.need \in Nat
      /\ Len(swap.bytes) = swap.capacity /\ call.need <= swap.capacity
      /\ Len(contents) = swap.size /\ swap.size <= swap.capacity
      /\ Holds(swap.bytes, contents)
  BY <1>1, <1>2 DEF SwapType, CallType, Kept, Growing
<1> DEFINE Rest == /\ swap' \in SwapType /\ swap'.data = swap.data
                   /\ swap'.capacity = swap.capacity /\ swap'.size \in Nat
                   /\ swap'.size <= swap.capacity /\ Len(swap'.bytes) = swap.capacity
                   /\ contents' \in Seq(Chars) /\ Len(contents') = swap'.size
                   /\ Holds(swap'.bytes, contents')
<1>4. ASSUME Rest PROVE SwapInv'
  <2>1. HeapInv'
    BY <1>1, QuietHeap
  <2>2. SwapTypes'
    BY <1>1, <1>2, <1>4 DEF SwapTypes
  <2>3. Owned'
    BY <1>1, <1>4 DEF Owned, heapvars
  <2>4. Growing'
    BY <1>1, <1>4 DEF Growing
  <2>5. Kept'
    BY <1>1, <1>4 DEF Kept
  <2> QED BY <2>1, <2>2, <2>3, <2>4, <2>5
<1>5. Junk \in Chars /\ Gap \in Chars
  BY DEF Chars
<1>6. CASE call.op = "write"
  <2> DEFINE b == Overlay(swap.bytes, call.offset, call.text, Junk)
             t == Overlay(contents, call.offset, call.text, Gap)
             n == IF call.need > swap.size THEN call.need ELSE swap.size
  <2>1. swap' = [swap EXCEPT !.bytes = b, !.size = n] /\ contents' = t
    BY <1>6 DEF Finishes
  <2>2. call.need = call.offset + Len(call.text)
    BY <1>1, <1>6 DEF Kept
  <2>3. Overlaid(b, swap.bytes, call.offset, call.text, Junk)
        /\ Overlaid(t, contents, call.offset, call.text, Gap)
    BY <1>2, <1>3, <1>5, OverlayIs
  <2>4. Holds(b, t)
    BY <1>2, <1>3, OverlayHolds
  <2> HIDE DEF b, t
  <2>5. b \in Seq(Chars) /\ t \in Seq(Chars) /\ Len(b) = swap.capacity /\ Len(t) = n
    BY <1>2, <1>3, <2>2, <2>3 DEF Overlaid
  <2>6. n \in Nat /\ n <= swap.capacity
    BY <1>3
  <2> HIDE DEF n
  <2>7. /\ swap' \in SwapType /\ swap'.data = swap.data /\ swap'.capacity = swap.capacity
        /\ swap'.size = n /\ swap'.bytes = b
    BY <1>2, <2>1, <2>5, <2>6 DEF SwapType
  <2>8. Rest
    BY <2>1, <2>4, <2>5, <2>6, <2>7
  <2> QED BY <1>4, <2>8
<1>7. CASE call.op = "load"
  <2> DEFINE b == Overlay(swap.bytes, 0, file.text, Junk)
  <2>1. swap' = [swap EXCEPT !.bytes = b, !.size = call.need] /\ contents' = mirror
    BY <1>7 DEF Finishes
  <2>2. /\ call.need = Len(file.text) /\ Len(mirror) = Len(file.text)
        /\ Holds(file.text, mirror)
    BY <1>1, <1>7 DEF Kept
  <2>3. Overlaid(b, swap.bytes, 0, file.text, Junk)
    BY <1>2, <1>3, <1>5, OverlayIs
  <2> HIDE DEF b
  <2>4. b \in Seq(Chars) /\ Len(b) = swap.capacity
    BY <1>2, <1>3, <2>2, <2>3 DEF Overlaid
  <2>5. \A i \in 1 .. Len(file.text) : b[i] = file.text[i]
    BY <1>2, <1>3, <2>2, <2>3, <2>4 DEF Overlaid
  <2>6. Holds(b, mirror)
    BY <2>2, <2>5 DEF Holds
  <2>7. /\ swap' \in SwapType /\ swap'.data = swap.data /\ swap'.capacity = swap.capacity
        /\ swap'.size = call.need /\ swap'.bytes = b
    BY <1>2, <1>3, <2>1, <2>4 DEF SwapType
  <2>8. Rest
    BY <1>2, <1>3, <2>1, <2>2, <2>4, <2>6, <2>7
  <2> QED BY <1>4, <2>8
<1>8. CASE call.op \notin {"write", "load"}
  <2>1. UNCHANGED <<swap, contents>>
    BY <1>8 DEF Finishes
  <2>2. Rest
    BY <1>2, <1>3, <2>1
  <2> QED BY <1>4, <2>2
<1> QED BY <1>6, <1>7, <1>8

\* The file gets what the buffer holds, or the beginning of it.
LEMMA FlushKeeps ==
  ASSUME SwapInv, swap_file_flush_path
  PROVE  SwapInv'
<1> USE DEF SwapInv
<1>1. phase = "idle" /\ UNCHANGED <<heapvars, swap, phase, call, contents, mine>>
  BY DEF swap_file_flush_path
<1>2. /\ file' \in [exists : BOOLEAN, text : Seq(Chars)] /\ mirror' \in Seq(Chars)
      /\ Len(mirror') = Len(file'.text) /\ Holds(file'.text, mirror')
  <2>1. CASE file' = [file EXCEPT !.exists = TRUE] /\ UNCHANGED mirror
    BY <2>1 DEF SwapTypes, Kept
  <2>2. CASE \E n \in 0 .. swap.size :
               /\ file' = [exists |-> TRUE, text |-> SubSeq(SwapText, 1, n)]
               /\ mirror' = SubSeq(contents, 1, n)
    <3>0. PICK n \in 0 .. swap.size :
            /\ file' = [exists |-> TRUE, text |-> SubSeq(SwapText, 1, n)]
            /\ mirror' = SubSeq(contents, 1, n)
      BY <2>2
    <3>1. /\ swap.bytes \in Seq(Chars) /\ contents \in Seq(Chars) /\ swap.size \in Nat
          /\ swap.size <= Len(swap.bytes) /\ Len(contents) = swap.size
          /\ Holds(swap.bytes, contents)
      BY DEF SwapTypes, SwapType, Kept
    <3>2. /\ SwapText \in Seq(Chars) /\ Len(SwapText) = swap.size
          /\ \A i \in 1 .. swap.size : SwapText[i] = swap.bytes[i]
      BY <3>1 DEF SwapText
    <3>3. n \in Nat /\ n <= swap.size
      BY <3>1
    <3> HIDE DEF SwapText
    <3>4. /\ SubSeq(SwapText, 1, n) \in Seq(Chars) /\ Len(SubSeq(SwapText, 1, n)) = n
          /\ \A i \in 1 .. n : SubSeq(SwapText, 1, n)[i] = SwapText[i]
      BY <3>2, <3>3
    <3>5. /\ SubSeq(contents, 1, n) \in Seq(Chars) /\ Len(SubSeq(contents, 1, n)) = n
          /\ \A i \in 1 .. n : SubSeq(contents, 1, n)[i] = contents[i]
      BY <3>1, <3>3
    <3>6. Holds(SubSeq(SwapText, 1, n), SubSeq(contents, 1, n))
      BY <3>1, <3>2, <3>3, <3>4, <3>5 DEF Holds
    <3> QED BY <3>0, <3>4, <3>5, <3>6
  <2> QED BY <2>1, <2>2 DEF swap_file_flush_path
<1>3. HeapInv'
  BY <1>1, QuietHeap
<1>4. SwapTypes'
  BY <1>1, <1>2 DEF SwapTypes
<1>5. Owned'
  BY <1>1 DEF Owned, heapvars
<1>6. Growing' /\ Kept'
  BY <1>1, <1>2 DEF Growing, Kept
<1> QED BY <1>3, <1>4, <1>5, <1>6

-----------------------------------------------------------------------------
(* The theorems.                                                           *)

\* Every step of the heap and of swap.c keeps the invariant.
LEMMA SwapInvNext == SwapInv /\ [SwapNext]_allvars => SwapInv'
<1> SUFFICES ASSUME SwapInv, [SwapNext]_allvars PROVE SwapInv'
  OBVIOUS
<1>1. CASE UNCHANGED allvars
  <2>1. UNCHANGED <<heapvars, swap, phase, call, file, contents, mirror, mine>>
    BY <1>1 DEF allvars, svars
  <2>2. HeapInv'
    BY <2>1, QuietHeap DEF SwapInv
  <2> QED BY <2>1, <2>2 DEF SwapInv, SwapTypes, Owned, Growing, Kept, heapvars
<1>2. CASE SwapNext
  BY <1>2, OthersKeep, CallersKeep, FreeSwapKeeps, FlushKeeps, DoublesKeeps, GrowKeeps,
     GrowFreesKeeps, FinishesKeeps, LoadFailsKeeps DEF SwapNext
<1> QED BY <1>1, <1>2

\* The inductive invariant always holds.
LEMMA SwapInvAlways == SwapSpec => []SwapInv
BY SwapInvInit, SwapInvNext, PTL DEF SwapSpec

\* Between two calls of swap.c the buffer holds what was written to it, through
\* every growth, write at any offset, flush and load, also when an allocation,
\* a read or a write of the file fails.
THEOREM SwapAlwaysKeepsText == SwapSpec => []SwapKeepsText
<1>1. SwapInv => SwapKeepsText
  BY DEF SwapInv, Kept, Holds, SwapKeepsText
<1> QED BY <1>1, SwapInvAlways, PTL

\* The buffer is one live block of the heap with room for its capacity, and
\* the only one allocated for the swap file that is not freed; the doubling in
\* swap_file_grow only goes wrong beyond half of a size_t.
THEOREM BufferAlwaysOwned == SwapSpec => []BufferOwned
BY OwnedIsBacked, SwapInvAlways, PTL

\* The heap under swap.c and every other caller: tiled, without free
\* neighbours, and every block held once and large enough. The sizes that
\* swap_file_grow asks for are not among the callers' Requests, so this is more
\* than HeldAlwaysBacked.
THEOREM HeapUnderSwap == SwapSpec => [](HeapTiled /\ NoFreeNeighbours /\ HeldBacked)
<1>1. SwapInv => HeapTiled /\ NoFreeNeighbours /\ HeldBacked
  BY DEF SwapInv, HeapInv, HeapTiled, NoFreeNeighbours, Heap, Apart
<1> QED BY <1>1, SwapInvAlways, PTL
=============================================================================
