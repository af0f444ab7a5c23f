---------------------------- MODULE ConsoleProofs ----------------------------
(***************************************************************************)
(* What the race of the IRQ1 handler and the polling thread cannot break,  *)
(* for any keyboard, any length of the event queue and of the pending      *)
(* input, and any number of keys: read_line gets the keys in order and     *)
(* none of them twice (KeysInOrder), and the event queue counts at most    *)
(* one event too many, whose slots it keeps to (QueueOverrun).             *)
(***************************************************************************)
EXTENDS Console, TLAPS

-----------------------------------------------------------------------------
(* The inductive invariant.                                                *)

Scanning == {"status", "data", "flag", "process", "test", "tail", "less", "store", "head",
             "count", "raise", "symbol", "empty"}

RingType == [slots : [0 .. Capacity - 1 -> Event], head : 0 .. Capacity - 1,
             tail : 0 .. Capacity - 1, count : Nat]

\* Types, also of what TypeOK leaves out.
Types ==
  /\ mods \subseteq {"left_shift", "left_ctrl", "right_ctrl", "caps", "alt_gr"}
  /\ extended \in BOOLEAN /\ obf \in BOOLEAN /\ requested \in BOOLEAN
  /\ subscribed \in BOOLEAN
  /\ port \in Byte /\ loc \in Locals /\ ring \in RingType
  /\ events \in 0 .. MaxEvents /\ wire \in Seq(Byte)
  /\ pending \in Seq(Event) /\ Len(pending) <= PendingSize
  /\ got \in Seq(Nat)
  /\ segs \in 0 .. MaxSegments /\ len \in {0, 1} /\ history \in {0, 1}
  /\ mode \in {"boot", "prompt", "line", "command", "collect"}
  /\ pc \in Scanning \cup {"none"}

\* A pipeline has a command left while it runs, the keyboard is scanned for a
\* line only when nothing is pending, and a prefix is never processed.
Control ==
  /\ mode \in {"command", "collect"} => segs >= 1
  /\ mode = "line" /\ pc # "none" => pending = <<>>
  /\ pc \in {"process", "test", "tail", "less", "store", "head", "count", "raise", "symbol"} =>
       loc.byte.kind # "prefix"

\* The handler keeps the count where it is once the queue is full, so the
\* thread finds room when it has made it.
CountBound ==
  /\ ring.count <= Capacity + 1
  /\ pc \in {"tail", "less"} =>
       ring.count >= Capacity /\ loc.count >= Capacity /\ loc.count <= Capacity + 1
  /\ pc \in {"store", "head", "count"} => ring.count <= Capacity /\ loc.count <= Capacity

\* Every press that was read, or waits in the pending input, came before x.
Past(x) == /\ \A i \in 1 .. Len(got) : got[i] < x
           /\ \A i \in 1 .. Len(pending) : pending[i].id < x

\* The thread works on a byte that may become a symbol.
Holding == /\ pc \in {"flag", "process", "test", "tail", "less", "store", "head", "count",
                      "raise", "symbol"}
           /\ loc.byte.kind # "prefix"

\* The port has a byte the thread has not read, and may read.
Fresh == obf \/ pc = "data"

\* The second byte of a key may have the number of the first, a prefix.
Follows(b, c) == b.id <= c.id /\ (b.kind # "prefix" => b.id < c.id)

\* Keys move from the wire to the port, to the thread, to the pending input and
\* to read_line without overtaking each other.
Order ==
  /\ \A i, j \in 1 .. Len(got) : i < j => got[i] < got[j]
  /\ \A i, j \in 1 .. Len(pending) : i < j => pending[i].id < pending[j].id
  /\ \A i \in 1 .. Len(got), j \in 1 .. Len(pending) : got[i] < pending[j].id
  /\ Holding => Past(loc.byte.id)
  /\ Fresh => Past(port.id)
  /\ \A i \in 1 .. Len(wire) : Past(wire[i].id)
  /\ Past(events + 1)

WireOrder ==
  /\ \A i, j \in 1 .. Len(wire) : i < j => Follows(wire[i], wire[j])
  /\ \A i \in 1 .. Len(wire) : Follows(port, wire[i]) /\ wire[i].id <= events
  /\ \A i \in 1 .. Len(wire) : Holding => loc.byte.id < wire[i].id
  /\ Holding /\ Fresh => loc.byte.id < port.id
  /\ port.id <= events /\ loc.byte.id <= events

IInv == Types /\ Control /\ CountBound /\ Order /\ WireOrder

-----------------------------------------------------------------------------
(* The operators of the driver.                                            *)

Flags == {"left_shift", "left_ctrl", "right_ctrl", "caps", "alt_gr"}

\* A scancode changes flags to flags, and gives a symbol or none.
LEMMA TranslationTypes ==
  ASSUME NEW m \in SUBSET Flags, NEW b \in Byte, NEW ext \in BOOLEAN
  PROVE  /\ keyboard_modifiers(m, b, ext) \in SUBSET Flags
         /\ keyboard_process_scancode(m, b, ext) \in Symbols \cup {NoSymbol}
<1>1. Flag(b, ext) \in SUBSET Flags
  BY DEF Flag, Byte, Flags
<1>2. keyboard_modifiers(m, b, ext) \in SUBSET Flags
  BY <1>1 DEF keyboard_modifiers, Byte, Flags
<1>3. keyboard_process_scancode(m, b, ext) \in Symbols \cup {NoSymbol}
  BY DEF keyboard_process_scancode, translate_extended_scancode, translate_scancode,
         Byte, Symbols
<1> QED BY <1>2, <1>3

\* The updates of keyboard_queue_event keep head and tail within the slots.
\* The first ones leave room in a queue that is full or one over.
LEMMA DropRoom ==
  ASSUME NEW r \in RingType, r.count <= Capacity + 1
  PROVE  /\ DropOldest(r) \in RingType /\ DropOldest(r).count <= Capacity
         /\ DropOldest(r).count + 1 <= Capacity \/ DropOldest(r).count + 1 = r.count
         /\ r.count >= Capacity => DropOldest(r).count + 1 = r.count
<1>1. (r.tail + 1) % Capacity \in 0 .. Capacity - 1
  BY ConsoleAssumption DEF RingType
<1>2. CASE r.count >= Capacity
  <2>1. r.count - 1 \in Nat
    BY <1>2, ConsoleAssumption DEF RingType
  <2>2. DropOldest(r) = [r EXCEPT !.tail = (r.tail + 1) % Capacity, !.count = r.count - 1]
    BY <1>2, <2>1 DEF DropOldest, Full, Skip, Less, RingType
  <2>3. DropOldest(r) \in RingType /\ DropOldest(r).count = r.count - 1
    BY <1>1, <2>1, <2>2 DEF RingType
  <2> QED BY <2>3, ConsoleAssumption DEF RingType
<1>3. CASE ~(r.count >= Capacity)
  BY <1>3, ConsoleAssumption DEF DropOldest, Full, RingType
<1> QED BY <1>2, <1>3

\* Storing an event, moving head or tail and counting keep the type of the ring.
LEMMA RingUpdates ==
  ASSUME NEW r \in RingType, NEW e \in Event, NEW h \in 0 .. Capacity - 1, NEW n \in Nat
  PROVE  /\ Store(r, e) \in RingType /\ Store(r, e).count = r.count
         /\ Advance(r, h) \in RingType /\ Advance(r, h).count = r.count
         /\ Count(r, n) \in RingType /\ Count(r, n).count = n + 1
         /\ Skip(r, h) \in RingType /\ Skip(r, h).count = r.count
<1>1. (h + 1) % Capacity \in 0 .. Capacity - 1
  BY ConsoleAssumption
<1>2. [r.slots EXCEPT ![r.head] = e] \in [0 .. Capacity - 1 -> Event]
  BY DEF RingType
<1>3. Store(r, e) \in RingType /\ Store(r, e).count = r.count
  BY <1>2 DEF Store, RingType
<1>4. Advance(r, h) \in RingType /\ Advance(r, h).count = r.count
  BY <1>1 DEF Advance, RingType
<1>5. Count(r, n) \in RingType /\ Count(r, n).count = n + 1
  BY DEF Count, RingType
<1>6. Skip(r, h) \in RingType /\ Skip(r, h).count = r.count
  BY <1>1 DEF Skip, RingType
<1> QED BY <1>3, <1>4, <1>5, <1>6

\* The handler's call as a whole: a queue with room has one event more, a full
\* one, or one that counts one too many, stays as full.
LEMMA QueueEvent ==
  ASSUME NEW r \in RingType, NEW e \in Event, r.count <= Capacity + 1
  PROVE  /\ keyboard_queue_event(r, e) \in RingType
         /\ \/ keyboard_queue_event(r, e).count <= Capacity
            \/ keyboard_queue_event(r, e).count = r.count
         /\ r.count >= Capacity => keyboard_queue_event(r, e).count = r.count
<1> DEFINE d == DropOldest(r)
           s == Store(d, e)
           a == Advance(s, s.head)
<1>1. /\ d \in RingType /\ (d.count + 1 <= Capacity \/ d.count + 1 = r.count)
      /\ r.count >= Capacity => d.count + 1 = r.count
  BY DropRoom
<1> HIDE DEF d
<1>2. 0 \in 0 .. Capacity - 1 /\ 0 \in Nat
  BY ConsoleAssumption
<1>3. s \in RingType /\ s.count = d.count
  BY <1>1, <1>2, RingUpdates
<1> HIDE DEF s
<1>4. s.head \in 0 .. Capacity - 1
  BY <1>3 DEF RingType
<1>5. a \in RingType /\ a.count = d.count
  BY <1>2, <1>3, <1>4, RingUpdates
<1> HIDE DEF a
<1>6. a.count \in Nat
  BY <1>5 DEF RingType
<1>7. Count(a, a.count) \in RingType /\ Count(a, a.count).count = d.count + 1
  BY <1>2, <1>5, <1>6, RingUpdates
<1>8. keyboard_queue_event(r, e) = Count(a, a.count)
  BY DEF keyboard_queue_event, d, s, a
<1> QED BY <1>1, <1>7, <1>8

-----------------------------------------------------------------------------
(* The order of the keys.                                                  *)

\* A step that takes no key further leaves the order as it is.
LEMMA OrderKept ==
  ASSUME IInv, UNCHANGED <<wire, port, events, got, pending>>,
         Holding' => Holding /\ loc'.byte = loc.byte, Fresh' => Fresh,
         loc'.byte.id <= events
  PROVE  Order' /\ WireOrder'
<1>1. \A x : Past(x)' <=> Past(x)
  BY DEF Past
<1>2. Order'
  BY <1>1 DEF IInv, Order
<1>3. WireOrder'
  BY DEF IInv, WireOrder, Follows
<1> QED BY <1>2, <1>3

-----------------------------------------------------------------------------
(* Every step preserves the invariant: keyboard_scan_symbol.               *)

\* The locals a handler starts with are well typed.
LEMMA NoLocalsType == NoLocals \in Locals
  BY ConsoleAssumption DEF NoLocals, Locals, NoByte, Byte

\* A byte the status register announces is fresh.
LEMMA ScanStatusKeeps ==
  ASSUME IInv, ScanStatus
  PROVE  IInv'
<1> USE DEF ScanStatus, ScanUnchanged, shell, driver
<1>1. Types'
  BY DEF IInv, Types, Scanning
<1>2. Control'
  BY DEF IInv, Types, Locals, Control
<1>3. CountBound'
  BY DEF IInv, Types, CountBound, RingType, Scanning
<1>4. Order' /\ WireOrder'
  <2>1. Holding' => Holding /\ loc'.byte = loc.byte
    BY DEF IInv, Types, Locals, Holding
  <2>2. (Fresh' => Fresh) /\ loc'.byte.id <= events
    BY DEF IInv, Types, Locals, Fresh, WireOrder, NoLocals, NoByte
  <2> QED BY <2>1, <2>2, OrderKept
<1> QED BY <1>1, <1>2, <1>3, <1>4 DEF IInv

\* The thread takes the byte in the port. The handler may have had it too.
LEMMA ScanDataKeeps ==
  ASSUME IInv, ScanData
  PROVE  IInv'
<1> USE DEF ScanData, ScanUnchanged, shell, driver
<1>a. loc' \in Locals /\ loc'.byte = port
  BY NoLocalsType DEF IInv, Types, Locals
<1>1. Types'
  BY <1>a DEF IInv, Types, Scanning
<1>2. Control'
  BY DEF IInv, Types, Control
<1>3. CountBound'
  BY DEF IInv, Types, CountBound
<1>b. ~Fresh' /\ Past(port.id)
  BY DEF IInv, Order, Fresh
<1>c. \A x : Past(x)' <=> Past(x)
  BY DEF Past
<1>4. Order'
  <2>1. Past(loc.byte.id)'
    BY <1>a, <1>b DEF Past
  <2> QED BY <2>1, <1>b, <1>c DEF IInv, Order
<1>5. WireOrder'
  BY <1>a, <1>b DEF IInv, WireOrder, Follows, Holding
<1> QED BY <1>1, <1>2, <1>3, <1>4, <1>5 DEF IInv

\* A prefix is only remembered.
LEMMA ScanFlagKeeps ==
  ASSUME IInv, ScanFlag
  PROVE  IInv'
<1> USE DEF ScanFlag, ScanUnchanged, shell, driver
<1>1. Types'
  <2>1. loc' \in Locals
    BY NoLocalsType DEF IInv, Types, Locals
  <2> QED BY <2>1 DEF IInv, Types, Scanning
<1>2. Control'
  BY DEF IInv, Types, Locals, Control
<1>3. CountBound'
  BY DEF IInv, Types, CountBound, RingType, Scanning
<1>4. Order' /\ WireOrder'
  <2>1. Holding' => Holding /\ loc'.byte = loc.byte
    BY DEF IInv, Types, Locals, Holding
  <2>2. (Fresh' => Fresh) /\ loc'.byte.id <= events
    BY DEF IInv, Types, Locals, Fresh, WireOrder, NoLocals, NoByte
  <2> QED BY <2>1, <2>2, OrderKept
<1> QED BY <1>1, <1>2, <1>3, <1>4 DEF IInv

\* The thread applies the byte to the flags, and goes on if it is a symbol.
LEMMA ScanProcessKeeps ==
  ASSUME IInv, ScanProcess
  PROVE  IInv'
<1> USE DEF ScanProcess, ScanUnchanged, shell, driver
<1>1. Types'
  <2> DEFINE symbol == keyboard_process_scancode(mods, loc.byte, loc.ext)
  <2>1. mods \in SUBSET Flags /\ loc.byte \in Byte /\ loc.ext \in BOOLEAN
    BY DEF IInv, Types, Flags, Locals
  <2>2. symbol \in Symbols \cup {NoSymbol} /\ mods' \in SUBSET Flags
    BY <2>1, TranslationTypes
  <2>3. loc' = NoLocals \/ loc' = [loc EXCEPT !.symbol = symbol]
    OBVIOUS
  <2> HIDE DEF symbol
  <2>4. loc' \in Locals
    BY <2>2, <2>3, NoLocalsType DEF IInv, Types, Locals
  <2> QED BY <2>2, <2>4 DEF IInv, Types, Scanning, Flags
<1>2. Control'
  BY DEF IInv, Types, Locals, Control
<1>3. CountBound'
  BY DEF IInv, Types, CountBound, RingType, Scanning
<1>4. Order' /\ WireOrder'
  <2>1. Holding' => Holding /\ loc'.byte = loc.byte
    BY DEF IInv, Types, Locals, Holding
  <2>2. (Fresh' => Fresh) /\ loc'.byte.id <= events
    BY DEF IInv, Types, Locals, Byte, Fresh, WireOrder, NoLocals, NoByte
  <2> QED BY <2>1, <2>2, OrderKept
<1> QED BY <1>1, <1>2, <1>3, <1>4 DEF IInv

\* A full queue is told from one with room.
LEMMA QueueTestKeeps ==
  ASSUME IInv, QueueTest
  PROVE  IInv'
<1> USE DEF QueueTest, ScanUnchanged, shell, driver
<1>1. Types'
  <2>1. loc' \in Locals
    BY DEF IInv, Types, Locals, RingType
  <2> QED BY <2>1 DEF IInv, Types, Scanning
<1>2. Control'
  BY DEF IInv, Types, Locals, Control
<1>3. CountBound'
  <2>1. loc'.count = ring.count /\ ring' = ring /\ ring.count \in Nat
    BY DEF IInv, Types, Locals, RingType
  <2> QED BY <2>1, ConsoleAssumption DEF IInv, CountBound, Full
<1>4. Order' /\ WireOrder'
  <2>1. Holding' => Holding /\ loc'.byte = loc.byte
    BY DEF IInv, Types, Locals, Holding
  <2>2. (Fresh' => Fresh) /\ loc'.byte.id <= events
    BY DEF IInv, Types, Locals, Fresh, WireOrder, NoLocals, NoByte
  <2> QED BY <2>1, <2>2, OrderKept
<1> QED BY <1>1, <1>2, <1>3, <1>4 DEF IInv

\* event_tail goes on, from where it is or was.
LEMMA QueueTailKeeps ==
  ASSUME IInv, QueueTail
  PROVE  IInv'
<1> USE DEF QueueTail, ScanUnchanged, shell, driver
<1>a. ring' \in RingType /\ ring'.count = ring.count
  <2>1. PICK t \in {ring.tail, loc.index} : ring' = Skip(ring, t)
    OBVIOUS
  <2>2. t \in 0 .. Capacity - 1
    BY DEF IInv, Types, RingType, Locals
  <2>3. (t + 1) % Capacity \in 0 .. Capacity - 1
    BY <2>2, ConsoleAssumption
  <2> QED BY <2>1, <2>3 DEF IInv, Types, RingType, Skip
<1>1. Types'
  BY <1>a DEF IInv, Types, Scanning
<1>2. Control'
  BY DEF IInv, Types, Locals, Control
<1>3. CountBound'
  BY <1>a DEF IInv, CountBound
<1>4. Order' /\ WireOrder'
  <2>1. Holding' => Holding /\ loc'.byte = loc.byte
    BY DEF IInv, Types, Locals, Holding
  <2>2. (Fresh' => Fresh) /\ loc'.byte.id <= events
    BY DEF IInv, Types, Locals, Fresh, WireOrder, NoLocals, NoByte
  <2> QED BY <2>1, <2>2, OrderKept
<1> QED BY <1>1, <1>2, <1>3, <1>4 DEF IInv

\* There is room in the queue after the oldest event is dropped.
LEMMA QueueLessKeeps ==
  ASSUME IInv, QueueLess
  PROVE  IInv'
<1> USE DEF QueueLess, ScanUnchanged, shell, driver
<1>0. PICK n \in {ring.count, loc.count} :
        ring' = Less(ring, n) /\ loc' = [loc EXCEPT !.count = n - 1]
  OBVIOUS
<1>a. n \in Nat /\ n >= Capacity /\ n <= Capacity + 1 /\ n - 1 \in Nat
  BY ConsoleAssumption DEF IInv, Types, RingType, Locals, CountBound
<1>b. ring' \in RingType /\ ring'.count = n - 1
  BY <1>0, <1>a DEF IInv, Types, RingType, Less
<1>c. loc' \in Locals /\ loc'.count = n - 1 /\ loc'.byte = loc.byte
  BY <1>0, <1>a DEF IInv, Types, Locals
<1>1. Types'
  BY <1>b, <1>c DEF IInv, Types, Scanning
<1>2. Control'
  BY <1>c DEF IInv, Control
<1>3. CountBound'
  BY <1>a, <1>b, <1>c, ConsoleAssumption DEF CountBound
<1>4. Order' /\ WireOrder'
  <2>1. Holding' => Holding /\ loc'.byte = loc.byte
    BY <1>c DEF Holding
  <2>2. (Fresh' => Fresh) /\ loc'.byte.id <= events
    BY <1>c DEF IInv, Fresh, WireOrder
  <2> QED BY <2>1, <2>2, OrderKept
<1> QED BY <1>1, <1>2, <1>3, <1>4 DEF IInv

\* The event goes to the slot of event_head.
LEMMA QueueStoreKeeps ==
  ASSUME IInv, QueueStore
  PROVE  IInv'
<1> USE DEF QueueStore, ScanUnchanged, shell, driver
<1>1. Types'
  <2>1. [symbol |-> loc.symbol, id |-> loc.byte.id] \in Event
    BY DEF IInv, Types, Locals, Byte, Event
  <2>2. ring.head \in 0 .. Capacity - 1 /\ 0 \in Nat /\ ring \in RingType
    BY DEF IInv, Types, RingType
  <2>3. ring' \in RingType
    BY <2>1, <2>2, RingUpdates
  <2>4. loc' \in Locals
    BY <2>2 DEF IInv, Types, Locals
  <2> QED BY <2>3, <2>4 DEF IInv, Types, Scanning
<1>2. Control'
  BY DEF IInv, Types, Locals, Control
<1>3. CountBound'
  <2>1. ring'.count = ring.count
    BY DEF IInv, Types, RingType, Store
  <2>2. loc'.count = loc.count
    BY DEF IInv, Types, Locals
  <2> QED BY <2>1, <2>2 DEF IInv, CountBound
<1>4. Order' /\ WireOrder'
  <2>1. Holding' => Holding /\ loc'.byte = loc.byte
    BY DEF IInv, Types, Locals, Holding
  <2>2. (Fresh' => Fresh) /\ loc'.byte.id <= events
    BY DEF IInv, Types, Locals, Fresh, WireOrder, NoLocals, NoByte
  <2> QED BY <2>1, <2>2, OrderKept
<1> QED BY <1>1, <1>2, <1>3, <1>4 DEF IInv

\* event_head goes on, from where it is or was.
LEMMA QueueHeadKeeps ==
  ASSUME IInv, QueueHead
  PROVE  IInv'
<1> USE DEF QueueHead, ScanUnchanged, shell, driver
<1>1. Types'
  <2>1. PICK h \in {ring.head, loc.index} : ring' = Advance(ring, h)
    OBVIOUS
  <2>2. h \in 0 .. Capacity - 1
    BY DEF IInv, Types, RingType, Locals
  <2>3. (h + 1) % Capacity \in 0 .. Capacity - 1
    BY <2>2, ConsoleAssumption
  <2>4. ring' \in RingType
    BY <2>1, <2>3 DEF IInv, Types, RingType, Advance
  <2> QED BY <2>4 DEF IInv, Types, Scanning
<1>2. Control'
  BY DEF IInv, Types, Locals, Control
<1>3. CountBound'
  <2>1. ring'.count = ring.count
    BY DEF IInv, Types, RingType, Advance
  <2> QED BY <2>1 DEF IInv, CountBound
<1>4. Order' /\ WireOrder'
  <2>1. Holding' => Holding /\ loc'.byte = loc.byte
    BY DEF IInv, Types, Locals, Holding
  <2>2. (Fresh' => Fresh) /\ loc'.byte.id <= events
    BY DEF IInv, Types, Locals, Fresh, WireOrder, NoLocals, NoByte
  <2> QED BY <2>1, <2>2, OrderKept
<1> QED BY <1>1, <1>2, <1>3, <1>4 DEF IInv

\* event_count goes up by one, from what it is or was: at most one too many.
LEMMA QueueCountKeeps ==
  ASSUME IInv, QueueCount
  PROVE  IInv'
<1> USE DEF QueueCount, ScanUnchanged, shell, driver
<1>1. Types'
  <2>1. PICK n \in {ring.count, loc.count} : ring' = Count(ring, n)
    OBVIOUS
  <2>2. n \in Nat
    BY DEF IInv, Types, RingType, Locals
  <2>3. ring' \in RingType
    BY <2>1, <2>2 DEF IInv, Types, RingType, Count
  <2> QED BY <2>3 DEF IInv, Types, Scanning
<1>2. Control'
  BY DEF IInv, Types, Locals, Control
<1>3. CountBound'
  <2>1. PICK n \in {ring.count, loc.count} : ring' = Count(ring, n)
    OBVIOUS
  <2>2. n \in Nat /\ n <= Capacity
    BY DEF IInv, Types, RingType, Locals, CountBound
  <2>3. ring'.count = n + 1
    BY <2>1 DEF IInv, Types, RingType, Count
  <2> QED BY <2>2, <2>3, ConsoleAssumption DEF CountBound
<1>4. Order' /\ WireOrder'
  <2>1. Holding' => Holding /\ loc'.byte = loc.byte
    BY DEF IInv, Types, Locals, Holding
  <2>2. (Fresh' => Fresh) /\ loc'.byte.id <= events
    BY DEF IInv, Types, Locals, Fresh, WireOrder, NoLocals, NoByte
  <2> QED BY <2>1, <2>2, OrderKept
<1> QED BY <1>1, <1>2, <1>3, <1>4 DEF IInv

\* interrupt_raise.
LEMMA ScanRaiseKeeps ==
  ASSUME IInv, ScanRaise
  PROVE  IInv'
<1> USE DEF ScanRaise, ScanUnchanged, shell, driver
<1>1. Types'
  BY DEF IInv, Types, Scanning, interrupt_raise
<1>2. Control'
  BY DEF IInv, Types, Locals, Control
<1>3. CountBound'
  BY DEF IInv, Types, CountBound, RingType, Scanning
<1>4. Order' /\ WireOrder'
  <2>1. Holding' => Holding /\ loc'.byte = loc.byte
    BY DEF IInv, Types, Locals, Holding
  <2>2. (Fresh' => Fresh) /\ loc'.byte.id <= events
    BY DEF IInv, Types, Locals, Fresh, WireOrder, NoLocals, NoByte
  <2> QED BY <2>1, <2>2, OrderKept
<1> QED BY <1>1, <1>2, <1>3, <1>4 DEF IInv

-----------------------------------------------------------------------------
(* The controller and the handler.                                         *)

\* Presses have numbers.
LEMMA Ids ==
  /\ \A b \in Byte : b.id \in Nat
  /\ \A e \in Event : e.id \in Nat
  /\ Types => /\ \A i \in 1 .. Len(got) : got[i] \in Nat
              /\ \A i \in 1 .. Len(pending) : pending[i].id \in Nat
<1>1. \A b \in Byte : b.id \in Nat
  BY ConsoleAssumption DEF Byte
<1>2. \A e \in Event : e.id \in Nat
  BY ConsoleAssumption DEF Event
<1>3. ASSUME Types, NEW i \in 1 .. Len(got)
      PROVE  got[i] \in Nat
  BY <1>3 DEF Types
<1>4. ASSUME Types, NEW i \in 1 .. Len(pending)
      PROVE  pending[i].id \in Nat
  <2>1. pending[i] \in Event
    BY <1>4 DEF Types
  <2> QED BY <2>1, <1>2
<1> QED BY <1>1, <1>2, <1>3, <1>4

\* The bytes of a key get a number that none before them has.
LEMMA KeyEventKeeps ==
  ASSUME IInv, KeyEvent
  PROVE  IInv'
<1> USE DEF KeyEvent, shell, driver
<1>1. PICK k \in Keys, kind \in {"make", "break"} : wire' = wire \o Bytes(k, kind, events')
  OBVIOUS
<1>a. events \in Nat /\ events' = events + 1 /\ events' \in 0 .. MaxEvents
  BY ConsoleAssumption DEF IInv, Types
<1>b. /\ Bytes(k, kind, events') \in Seq(Byte)
      /\ Len(Bytes(k, kind, events')) \in 1 .. 2
      /\ \A i \in 1 .. Len(Bytes(k, kind, events')) : Bytes(k, kind, events')[i].id = events'
      /\ Len(Bytes(k, kind, events')) = 2 => Bytes(k, kind, events')[1].kind = "prefix"
  <2>1. \A t \in {"prefix", "make", "break"} :
          [kind |-> t, code |-> k.code, id |-> events'] \in Byte
    BY <1>a, ConsoleAssumption DEF Byte
  <2>2. CASE k.ext
    BY <2>1, <2>2 DEF Bytes
  <2>3. CASE ~k.ext
    BY <2>1, <2>3 DEF Bytes
  <2> QED BY <2>2, <2>3
<1> DEFINE new == Bytes(k, kind, events')
<1> HIDE DEF new
<1>c. new \in Seq(Byte) /\ Len(new) \in 1 .. 2 /\ (\A i \in 1 .. Len(new) : new[i].id = events + 1)
      /\ (Len(new) = 2 => new[1].kind = "prefix") /\ wire' = wire \o new /\ wire \in Seq(Byte)
  BY <1>1, <1>a, <1>b DEF new, IInv, Types
<1>d. /\ wire' \in Seq(Byte) /\ Len(wire') = Len(wire) + Len(new)
      /\ \A i \in 1 .. Len(wire) : wire'[i] = wire[i]
      /\ \A i \in Len(wire) + 1 .. Len(wire') : wire'[i] = new[i - Len(wire)]
  BY <1>c
<1>2. Types'
  BY <1>a, <1>d DEF IInv, Types
<1>3. Control' /\ CountBound'
  BY DEF IInv, Control, CountBound
<1>e. \A x : Past(x)' <=> Past(x)
  BY DEF Past
<1>f. UNCHANGED <<Holding, Fresh>>
  BY DEF Holding, Fresh
<1>g. \A i \in 1 .. Len(wire') : wire'[i] \in Byte /\ wire'[i].id \in Nat
  <2>1. \A i \in 1 .. Len(wire') : wire'[i] \in Byte
    BY <1>d
  <2> QED BY <2>1, Ids
<1>h. \A i \in 1 .. Len(wire') : i <= Len(wire) \/ wire'[i].id = events + 1
  BY <1>c, <1>d
<1>4. Order'
  <2>1. \A i \in 1 .. Len(got) : got[i] < events + 2
    BY <1>a, Ids DEF IInv, Order, Past
  <2>2. \A i \in 1 .. Len(pending) : pending[i].id < events + 2
    BY <1>a, Ids DEF IInv, Order, Past
  <2>3. Past(events + 1)'
    BY <1>a, <2>1, <2>2 DEF Past
  <2>4. \A i \in 1 .. Len(wire') : Past(wire[i].id)'
    BY <1>a, <1>d, <1>e, <1>h DEF IInv, Order, Past
  <2> QED BY <1>e, <1>f, <2>3, <2>4 DEF IInv, Order
<1>5. WireOrder'
  <2>1. \A i \in 1 .. Len(wire') : wire'[i].id <= events'
    BY <1>a, <1>d, <1>g, <1>h DEF IInv, WireOrder
  <2>2. \A i \in 1 .. Len(wire') : Follows(port, wire'[i]) /\ (Holding => loc.byte.id < wire'[i].id)
    <3>1. port.id <= events /\ loc.byte.id <= events /\ port.id \in Nat /\ loc.byte.id \in Nat
      BY Ids DEF IInv, Types, Locals, WireOrder
    <3>2. \A i \in 1 .. Len(wire) : Follows(port, wire[i]) /\ (Holding => loc.byte.id < wire[i].id)
      BY DEF IInv, WireOrder
    <3>3. \A i \in 1 .. Len(wire') : wire'[i].id = events + 1 =>
            Follows(port, wire'[i]) /\ (Holding => loc.byte.id < wire'[i].id)
      BY <1>a, <3>1 DEF Follows
    <3> QED BY <1>d, <1>h, <3>2, <3>3
  <2>3. \A i, j \in 1 .. Len(wire') : i < j => Follows(wire'[i], wire'[j])
    <3> SUFFICES ASSUME NEW i \in 1 .. Len(wire'), NEW j \in 1 .. Len(wire'), i < j
                 PROVE  Follows(wire'[i], wire'[j])
      OBVIOUS
    <3>1. CASE j <= Len(wire)
      BY <3>1, <1>d DEF IInv, WireOrder
    <3>2. CASE i <= Len(wire) /\ ~(j <= Len(wire))
      BY <3>2, <1>a, <1>d, <1>g, <1>h DEF IInv, WireOrder, Follows
    <3>3. CASE ~(i <= Len(wire))
      <4>1. i = Len(wire) + 1 /\ j = Len(wire) + 2 /\ Len(new) = 2
        <5>1. Len(wire) \in Nat /\ i >= Len(wire) + 1 /\ j >= i + 1 /\ j <= Len(wire) + Len(new)
              /\ i \in Nat /\ j \in Nat
          BY <3>3, <1>c, <1>d
        <5>2. Len(new) = 1 \/ Len(new) = 2
          BY <1>c
        <5>3. ASSUME Len(new) = 1 PROVE FALSE
          <6>1. j <= Len(wire) + 1
            BY <5>1, <5>3
          <6> QED BY <5>1, <6>1
        <5>4. j <= Len(wire) + 2
          BY <5>1, <5>2, <5>3
        <5> QED BY <5>1, <5>2, <5>3, <5>4
      <4>2. wire'[i] = new[1] /\ wire'[j].id = events + 1 /\ wire'[i].id = events + 1
        BY <4>1, <1>c, <1>d, <1>h
      <4> QED BY <4>1, <4>2, <1>a, <1>c DEF Follows
    <3> QED BY <3>1, <3>2, <3>3
  <2> QED BY <1>a, <1>f, <2>1, <2>2, <2>3 DEF IInv, Types, Byte, Locals, WireOrder
<1> QED BY <1>2, <1>3, <1>4, <1>5 DEF IInv

\* The byte that comes off the wire is newer than what was read before.
LEMMA OfferByteKeeps ==
  ASSUME IInv, OfferByte
  PROVE  IInv'
<1> USE DEF OfferByte, shell, driver
<1>a. wire \in Seq(Byte) /\ wire # <<>> /\ port' = wire[1] /\ wire' = Tail(wire)
  BY DEF IInv, Types
<1>b. /\ Len(wire) >= 1 /\ wire' \in Seq(Byte) /\ Len(wire') = Len(wire) - 1
      /\ \A i \in 1 .. Len(wire') : wire'[i] = wire[i + 1] /\ i + 1 \in 1 .. Len(wire)
      /\ 1 \in 1 .. Len(wire) /\ port' \in Byte
  BY <1>a
<1>1. Types'
  BY <1>b DEF IInv, Types
<1>2. Control' /\ CountBound'
  BY DEF IInv, Control, CountBound
<1>c. \A x : Past(x)' <=> Past(x)
  BY DEF Past
<1>3. Order'
  <2>1. Past(port.id)'
    BY <1>a, <1>b, <1>c DEF IInv, Order, Past
  <2>2. \A i \in 1 .. Len(wire') : Past(wire[i].id)'
    BY <1>b DEF IInv, Order, Past
  <2>3. Holding' <=> Holding
    BY DEF Holding
  <2> QED BY <1>c, <2>1, <2>2, <2>3 DEF IInv, Order
<1>4. WireOrder'
  <2>1. \A i, j \in 1 .. Len(wire') : i < j => Follows(wire'[i], wire'[j])
    BY <1>b DEF IInv, WireOrder
  <2>2. \A i \in 1 .. Len(wire') : Follows(port', wire'[i])
    BY <1>a, <1>b DEF IInv, WireOrder
  <2>3. Holding' <=> Holding
    BY DEF Holding
  <2> QED BY <1>a, <1>b, <2>1, <2>2, <2>3 DEF IInv, WireOrder
<1> QED BY <1>1, <1>2, <1>3, <1>4 DEF IInv

\* The handler takes the byte in the port; the thread does not see what it
\* makes of it.
LEMMA HandlerKeeps ==
  ASSUME IInv, keyboard_irq_handler_c
  PROVE  IInv'
<1> USE DEF keyboard_irq_handler_c, shell, driver
<1> DEFINE symbol == keyboard_process_scancode(mods, port, extended)
           event == [symbol |-> symbol, id |-> port.id]
<1>a. mods \in SUBSET Flags /\ port \in Byte /\ extended \in BOOLEAN
  BY DEF IInv, Types, Flags
<1>b. symbol \in Symbols \cup {NoSymbol} /\ keyboard_modifiers(mods, port, extended) \in SUBSET Flags
  BY <1>a, TranslationTypes
<1> HIDE DEF symbol
<1>c. event \in Event
  BY <1>a, <1>b DEF Event, Byte
<1>d. ring' = ring \/ ring' = keyboard_queue_event(ring, event)
  BY DEF symbol
<1> HIDE DEF event
<1>e. /\ ring' \in RingType
      /\ ring'.count = ring.count \/ ring'.count <= Capacity
      /\ ring.count >= Capacity => ring'.count = ring.count
  BY <1>c, <1>d, QueueEvent DEF IInv, Types, CountBound
<1>1. Types'
  <2>1. requested' \in BOOLEAN /\ extended' \in BOOLEAN /\ obf' \in BOOLEAN
    BY DEF IInv, Types, interrupt_raise
  <2>2. mods' \in SUBSET Flags
    BY <1>a, <1>b
  <2> QED BY <1>e, <2>1, <2>2 DEF IInv, Types, Flags
<1>2. Control'
  BY DEF IInv, Control
<1>3. CountBound'
  BY <1>e, ConsoleAssumption DEF IInv, Types, RingType, CountBound
<1>4. Order' /\ WireOrder'
  <2>1. Holding' => Holding /\ loc'.byte = loc.byte
    BY DEF Holding
  <2>2. (Fresh' => Fresh) /\ loc'.byte.id <= events
    BY DEF IInv, Fresh, WireOrder
  <2> QED BY <2>1, <2>2, OrderKept
<1> QED BY <1>1, <1>2, <1>3, <1>4 DEF IInv

-----------------------------------------------------------------------------
(* The shell.                                                              *)

\* A step after which the thread holds no byte, and that moves no key.
LEMMA IdleThread ==
  ASSUME IInv, UNCHANGED <<controller, got, pending>>, loc' = NoLocals,
         pc' \in {"none", "status"}
  PROVE  Order' /\ WireOrder'
<1>1. ~Holding' /\ (Fresh' => Fresh)
  BY DEF Holding, Fresh, controller
<1>2. loc'.byte.id <= events
  BY DEF IInv, Types, NoLocals, NoByte
<1> QED BY <1>1, <1>2, OrderKept DEF controller

\* The shell subscribes.
LEMMA ShellRunKeeps ==
  ASSUME IInv, shell_run
  PROVE  IInv'
<1> USE DEF shell_run, Enter, shell, driver, controller
<1>1. Types'
  BY NoLocalsType DEF IInv, Types, Scanning
<1>2. Control'
  BY DEF IInv, Types, Control
<1>3. CountBound'
  BY DEF IInv, CountBound
<1>4. Order' /\ WireOrder'
  BY IdleThread
<1> QED BY <1>1, <1>2, <1>3, <1>4 DEF IInv

\* The top of the loop.
LEMMA ResetKeeps ==
  ASSUME IInv, shell_interrupt_reset_state
  PROVE  IInv'
<1> USE DEF shell_interrupt_reset_state, Enter, shell, driver, controller
<1>1. Types'
  <2>1. segs' \in 0 .. MaxSegments
    BY ConsoleAssumption
  <2> QED BY <2>1, NoLocalsType DEF IInv, Types, Scanning
<1>2. Control'
  BY DEF IInv, Types, Control
<1>3. CountBound'
  BY DEF IInv, CountBound
<1>4. Order' /\ WireOrder'
  BY IdleThread
<1> QED BY <1>1, <1>2, <1>3, <1>4 DEF IInv

\* A command returns.
LEMMA CommandReturnsKeeps ==
  ASSUME IInv, CommandReturns
  PROVE  IInv'
<1> USE DEF CommandReturns, Enter, shell, driver, controller
<1>1. Types'
  BY NoLocalsType DEF IInv, Types, Scanning
<1>2. Control'
  BY DEF IInv, Types, Control
<1>3. CountBound'
  BY DEF IInv, CountBound
<1>4. Order' /\ WireOrder'
  BY IdleThread
<1> QED BY <1>1, <1>2, <1>3, <1>4 DEF IInv

\* The pipeline ends or goes on.
LEMMA PollKeeps ==
  ASSUME IInv, shell_interrupt_poll
  PROVE  IInv'
<1> USE DEF shell_interrupt_poll, Enter, shell, driver, controller
<1>a. segs \in 1 .. MaxSegments
  BY DEF IInv, Types, Control
<1>1. Types'
  <2>1. segs' \in 0 .. MaxSegments
    BY <1>a, ConsoleAssumption
  <2> QED BY <2>1, NoLocalsType DEF IInv, Types, Scanning
<1>2. Control'
  BY <1>a DEF Control
<1>3. CountBound'
  BY DEF IInv, CountBound
<1>4. Order' /\ WireOrder'
  BY IdleThread
<1> QED BY <1>1, <1>2, <1>3, <1>4 DEF IInv

\* read_line takes a press that came after those it had, and before those that
\* are still on the way.
LEMMA ReadLineKeeps ==
  ASSUME IInv, NEW e \in Event, read_line(e), UNCHANGED <<controller, driver, subscribed, requested>>,
         pending' \in Seq(Event), Len(pending') <= PendingSize,
         \A i \in 1 .. Len(got) : got[i] < e.id,
         \A i \in 1 .. Len(pending') : e.id < pending'[i].id,
         \A i, j \in 1 .. Len(pending') : i < j => pending'[i].id < pending'[j].id,
         \A i \in 1 .. Len(pending') : \E j \in 1 .. Len(pending) : pending'[i] = pending[j],
         Fresh => e.id < port.id, \A i \in 1 .. Len(wire) : e.id < wire[i].id, e.id <= events
  PROVE  IInv'
<1> USE DEF driver, controller
<1>a. e.id \in Nat /\ got \in Seq(Nat) /\ got' = Append(got, e.id)
  BY Ids DEF IInv, Types, read_line
<1>b. /\ got' \in Seq(Nat) /\ Len(got') = Len(got) + 1 /\ got'[Len(got) + 1] = e.id
      /\ \A i \in 1 .. Len(got) : got'[i] = got[i]
  BY <1>a
<1>g. \A i \in 1 .. Len(got') : \/ i \in 1 .. Len(got) /\ got'[i] = got[i]
                                \/ i = Len(got) + 1 /\ got'[i] = e.id
  <2>1. Len(got) \in Nat
    BY <1>a
  <2>2. \A i \in 1 .. Len(got) + 1 : i \in 1 .. Len(got) \/ i = Len(got) + 1
    BY <2>1
  <2> QED BY <1>b, <2>2
<1>c. loc' = NoLocals /\ pc' = "none" /\ mode' \in {"prompt", "line", "command"}
  BY DEF read_line, Enter
<1>d. /\ segs' \in 0 .. MaxSegments /\ (mode' = "command" => segs' >= 1)
      /\ len' \in {0, 1} /\ history' \in {0, 1}
  BY ConsoleAssumption DEF IInv, Types, read_line, Enter
<1>1. Types'
  BY <1>b, <1>c, <1>d, NoLocalsType DEF IInv, Types
<1>2. Control' /\ CountBound'
  BY <1>c, <1>d DEF IInv, Control, CountBound
<1>e. ASSUME NEW x, Past(x), e.id < x
      PROVE  Past(x)'
  <2>1. \A i \in 1 .. Len(got') : got'[i] < x
    BY <1>e, <1>g DEF Past
  <2>2. \A i \in 1 .. Len(pending') : pending'[i].id < x
    BY <1>e DEF Past
  <2> QED BY <2>1, <2>2 DEF Past
<1>f. ~Holding' /\ (Fresh' => Fresh)
  BY <1>c DEF Holding, Fresh
<1>3. Order'
  <2>1. \A i, j \in 1 .. Len(got') : i < j => got'[i] < got'[j]
    <3> SUFFICES ASSUME NEW i \in 1 .. Len(got'), NEW j \in 1 .. Len(got'), i < j
                 PROVE  got'[i] < got'[j]
      OBVIOUS
    <3>1. i \in 1 .. Len(got) /\ got'[i] = got[i]
      BY <1>a, <1>b, <1>g
    <3>2. CASE j \in 1 .. Len(got) /\ got'[j] = got[j]
      BY <3>1, <3>2 DEF IInv, Order
    <3>3. CASE got'[j] = e.id
      BY <3>1, <3>3
    <3> QED BY <1>g, <3>2, <3>3
  <2>2. \A i \in 1 .. Len(got'), j \in 1 .. Len(pending') : got'[i] < pending'[j].id
    BY <1>g DEF IInv, Order
  <2>3. Fresh' => Past(port.id)'
    BY <1>e, <1>f DEF IInv, Order
  <2>4. \A i \in 1 .. Len(wire') : Past(wire[i].id)'
    BY <1>e DEF IInv, Order
  <2>5. Past(events + 1)'
    BY <1>a, <1>e DEF IInv, Types, Order
  <2> QED BY <1>f, <2>1, <2>2, <2>3, <2>4, <2>5 DEF Order
<1>4. WireOrder'
  <2>1. loc'.byte.id <= events
    BY <1>c DEF IInv, Types, NoLocals, NoByte
  <2> QED BY <1>f, <2>1 DEF IInv, WireOrder, Follows
<1> QED BY <1>1, <1>2, <1>3, <1>4 DEF IInv

\* Pending input is read before the keyboard, first in, first out.
LEMMA PendingKeeps ==
  ASSUME IInv, read_char_with_pending
  PROVE  IInv'
<1>1. CASE pending = <<>>
  <2> USE DEF read_char_with_pending, Enter, shell, driver, controller
  <2>1. Types'
    BY <1>1, NoLocalsType DEF IInv, Types, Scanning
  <2>2. Control' /\ CountBound'
    BY <1>1 DEF IInv, Types, Control, CountBound
  <2>3. Order' /\ WireOrder'
    BY <1>1, IdleThread
  <2> QED BY <2>1, <2>2, <2>3 DEF IInv
<1>2. CASE pending # <<>>
  <2> DEFINE e == pending[1]
  <2>a. /\ pending \in Seq(Event) /\ e \in Event /\ e = Head(pending) /\ Len(pending) >= 1
        /\ Len(Tail(pending)) = Len(pending) - 1 /\ Tail(pending) \in Seq(Event)
        /\ \A i \in 1 .. Len(Tail(pending)) :
             Tail(pending)[i] = pending[i + 1] /\ i + 1 \in 1 .. Len(pending) /\ 1 < i + 1
    BY <1>2 DEF IInv, Types
  <2>b. read_line(e) /\ pending' = Tail(pending) /\ UNCHANGED <<controller, driver, subscribed, requested>>
    BY <1>2, <2>a DEF read_char_with_pending
  <2>c. 1 \in 1 .. Len(pending) /\ Len(pending') <= PendingSize
    BY <2>a, <2>b, ConsoleAssumption DEF IInv, Types
  <2>d. \A i, j \in 1 .. Len(pending') : i < j => pending'[i].id < pending'[j].id
    BY <2>a, <2>b DEF IInv, Order
  <2>e. \A i \in 1 .. Len(pending') : e.id < pending'[i].id
    BY <2>a, <2>b, <2>c DEF IInv, Order
  <2>f. e.id \in Nat /\ e.id <= events
    BY <2>a, <2>c, Ids DEF IInv, Types, Order, Past
  <2>g. \A i \in 1 .. Len(got) : got[i] < e.id
    BY <2>c DEF IInv, Order
  <2>h. (Fresh => e.id < port.id) /\ \A i \in 1 .. Len(wire) : e.id < wire[i].id
    BY <2>c DEF IInv, Order, Past
  <2>i. \A i \in 1 .. Len(pending') : \E j \in 1 .. Len(pending) : pending'[i] = pending[j]
    BY <2>a, <2>b
  <2> HIDE DEF e
  <2> QED BY <2>a, <2>b, <2>c, <2>d, <2>e, <2>f, <2>g, <2>h, <2>i, ReadLineKeeps
<1> QED BY <1>1, <1>2

\* A symbol scanned for the line is read when nothing is pending.
LEMMA ReadCharKeeps ==
  ASSUME IInv, keyboard_read_char
  PROVE  IInv'
<1>1. CASE pc = "empty"
  <2> USE DEF keyboard_read_char, Enter, shell, driver, controller
  <2>1. Types'
    BY <1>1, NoLocalsType DEF IInv, Types, Scanning
  <2>2. Control' /\ CountBound'
    BY <1>1 DEF IInv, Types, Control, CountBound
  <2>3. Order' /\ WireOrder'
    BY <1>1, IdleThread
  <2> QED BY <2>1, <2>2, <2>3 DEF IInv
<1>2. CASE pc = "symbol"
  <2> DEFINE e == [symbol |-> loc.symbol, id |-> loc.byte.id]
  <2>a. e \in Event /\ e.id = loc.byte.id
    BY DEF IInv, Types, Locals, Byte, Event
  <2>b. read_line(e) /\ pending' = pending /\ UNCHANGED <<controller, driver, subscribed, requested>>
    BY <1>2 DEF keyboard_read_char
  <2>c. pending = <<>> /\ Holding
    BY <1>2 DEF IInv, Control, keyboard_read_char, Holding
  <2>d. e.id <= events /\ \A i \in 1 .. Len(wire) : e.id < wire[i].id
    BY <2>a, <2>c DEF IInv, WireOrder
  <2>e. (Fresh => e.id < port.id) /\ \A i \in 1 .. Len(got) : got[i] < e.id
    BY <2>a, <2>c DEF IInv, WireOrder, Order, Past
  <2>f. Len(pending') = 0 /\ pending' \in Seq(Event) /\ Len(pending') <= PendingSize
    BY <2>b, <2>c DEF IInv, Types
  <2> HIDE DEF e
  <2> QED BY <2>a, <2>b, <2>d, <2>e, <2>f, ReadLineKeeps
<1> QED BY <1>1, <1>2 DEF keyboard_read_char

\* Input taken while a command ran goes behind what is pending; when there is
\* no room the oldest is given up.
LEMMA CollectKeeps ==
  ASSUME IInv, collect_background_input
  PROVE  IInv'
<1> USE DEF collect_background_input, Enter, shell, driver, controller
<1> DEFINE e == [symbol |-> loc.symbol, id |-> loc.byte.id]
           kept == IF Len(pending) >= PendingSize THEN Tail(pending) ELSE pending
<1>a. e \in Event /\ e.id = loc.byte.id /\ e.id \in Nat
  BY Ids DEF IInv, Types, Locals, Byte, Event
<1>b. /\ Holding /\ Past(e.id) /\ (Fresh => e.id < port.id)
      /\ e.id <= events /\ \A i \in 1 .. Len(wire) : e.id < wire[i].id
  <2>1. Holding
    BY DEF IInv, Control, Holding
  <2> QED BY <2>1, <1>a DEF IInv, Order, WireOrder
<1>1. CASE pending' = pending
  <2>1. Types'
    BY <1>1, NoLocalsType DEF IInv, Types, Scanning
  <2>2. Control' /\ CountBound'
    BY DEF IInv, Control, CountBound
  <2>3. Order' /\ WireOrder'
    BY <1>1, IdleThread
  <2> QED BY <2>1, <2>2, <2>3 DEF IInv
<1>2. CASE pending' = Append(kept, e)
  <2> HIDE DEF e
  <2>a. pending \in Seq(Event) /\ Len(pending) <= PendingSize
    BY DEF IInv, Types
  <2>b. PICK drop \in {0, 1} :
          /\ kept \in Seq(Event) /\ Len(kept) = Len(pending) - drop /\ Len(kept) < PendingSize
          /\ \A i \in 1 .. Len(kept) : kept[i] = pending[i + drop] /\ i + drop \in 1 .. Len(pending)
    <3>1. CASE Len(pending) >= PendingSize
      <4>1. pending # <<>> /\ kept = Tail(pending)
        BY <3>1, <2>a, ConsoleAssumption
      <4>2. /\ Tail(pending) \in Seq(Event) /\ Len(Tail(pending)) = Len(pending) - 1
            /\ \A i \in 1 .. Len(Tail(pending)) :
                 Tail(pending)[i] = pending[i + 1] /\ i + 1 \in 1 .. Len(pending)
        BY <4>1, <2>a
      <4>3. Len(pending) - 1 < PendingSize
        BY <2>a, ConsoleAssumption
      <4> QED BY <4>1, <4>2, <4>3
    <3>2. CASE ~(Len(pending) >= PendingSize)
      <4>1. kept = pending /\ Len(pending) < PendingSize
        BY <3>2, <2>a, ConsoleAssumption
      <4>2. Len(pending) = Len(pending) - 0 /\ \A i \in 1 .. Len(pending) : i + 0 = i
        BY <2>a
      <4> QED BY <4>1, <4>2, <2>a
    <3> QED BY <3>1, <3>2
  <2> HIDE DEF kept
  <2>c. /\ pending' \in Seq(Event) /\ Len(pending') = Len(kept) + 1 /\ Len(pending') <= PendingSize
        /\ \A i \in 1 .. Len(pending') : \/ i \in 1 .. Len(kept) /\ pending'[i] = kept[i]
                                         \/ i = Len(kept) + 1 /\ pending'[i] = e
    BY <1>2, <1>a, <2>b, ConsoleAssumption
  <2>d. \A i \in 1 .. Len(kept) : \E j \in 1 .. Len(pending) : kept[i] = pending[j]
    BY <2>b
  <2>1. Types'
    BY <2>c, NoLocalsType DEF IInv, Types, Scanning
  <2>2. Control' /\ CountBound'
    BY DEF IInv, Control, CountBound
  <2>e. ASSUME NEW x, Past(x), e.id < x
        PROVE  Past(x)'
    <3>1. \A i \in 1 .. Len(pending') : pending'[i].id < x
      BY <2>c, <2>d, <2>e DEF Past
    <3> QED BY <3>1, <2>e DEF Past
  <2>f. ~Holding' /\ (Fresh' => Fresh)
    BY DEF Holding, Fresh
  <2>3. Order'
    <3>1. \A i, j \in 1 .. Len(pending') : i < j => pending'[i].id < pending'[j].id
      <4> SUFFICES ASSUME NEW i \in 1 .. Len(pending'), NEW j \in 1 .. Len(pending'), i < j
                   PROVE  pending'[i].id < pending'[j].id
        OBVIOUS
      <4>1. i \in 1 .. Len(kept) /\ pending'[i] = kept[i]
        BY <2>b, <2>c
      <4>2. CASE j \in 1 .. Len(kept) /\ pending'[j] = kept[j]
        <5>1. i + drop < j + drop /\ i + drop \in 1 .. Len(pending) /\ j + drop \in 1 .. Len(pending)
          BY <4>1, <4>2, <2>b
        <5> QED BY <4>1, <4>2, <5>1, <2>b DEF IInv, Order
      <4>3. CASE pending'[j] = e
        BY <4>1, <4>3, <1>b, <2>d DEF Past
      <4> QED BY <4>2, <4>3, <2>c
    <3>2. \A i \in 1 .. Len(got), j \in 1 .. Len(pending') : got[i] < pending'[j].id
      BY <1>b, <2>c, <2>d DEF IInv, Order, Past
    <3>3. (Fresh' => Past(port.id)') /\ \A i \in 1 .. Len(wire') : Past(wire[i].id)'
      BY <1>b, <2>e, <2>f DEF IInv, Order
    <3>4. e.id < events + 1
      BY <1>a, <1>b DEF IInv, Types
    <3>5. Past(events + 1)'
      BY <2>e, <3>4 DEF IInv, Order
    <3> QED BY <2>f, <3>1, <3>2, <3>3, <3>5 DEF IInv, Order
  <2>4. WireOrder'
    <3>1. loc'.byte.id <= events
      BY DEF IInv, Types, NoLocals, NoByte
    <3> QED BY <2>f, <3>1 DEF IInv, WireOrder, Follows
  <2> QED BY <2>1, <2>2, <2>3, <2>4 DEF IInv
<1> QED BY <1>1, <1>2 DEF pending_input_push

-----------------------------------------------------------------------------
(* The theorems.                                                           *)

\* The invariant holds when the kernel starts.
LEMMA InitIInv == Init => IInv
<1> SUFFICES ASSUME Init PROVE IInv
  OBVIOUS
<1>1. Types
  <2>1. NoEvent \in Event /\ NoByte \in Byte
    BY ConsoleAssumption DEF NoEvent, Event, NoByte, Byte
  <2>2. ring \in RingType
    BY <2>1, ConsoleAssumption DEF Init, RingType
  <2>3. 0 \in 0 .. MaxEvents /\ 0 \in 0 .. MaxSegments /\ 0 <= PendingSize
    BY ConsoleAssumption
  <2>4. /\ <<>> \in Seq(Byte) /\ <<>> \in Seq(Event) /\ <<>> \in Seq(Nat)
        /\ Len(pending) = 0
    BY DEF Init
  <2> QED BY <2>1, <2>2, <2>3, <2>4, NoLocalsType DEF Init, Types
<1>2. Control /\ CountBound
  BY ConsoleAssumption DEF Init, Control, CountBound
<1>3. Order /\ WireOrder
  BY DEF Init, Order, WireOrder, Past, Holding, Fresh, NoByte, NoLocals
<1> QED BY <1>1, <1>2, <1>3 DEF IInv

\* Every step of the keyboard, the handler and the thread preserves it.
LEMMA NextIInv == IInv /\ [Next]_vars => IInv'
<1> SUFFICES ASSUME IInv, [Next]_vars PROVE IInv'
  OBVIOUS
<1>1. CASE KeyEvent \/ OfferByte \/ keyboard_irq_handler_c
  BY <1>1, KeyEventKeeps, OfferByteKeeps, HandlerKeeps
<1>2. CASE keyboard_scan_symbol
  BY <1>2, ScanStatusKeeps, ScanDataKeeps, ScanFlagKeeps, ScanProcessKeeps, QueueTestKeeps,
     QueueTailKeeps, QueueLessKeeps, QueueStoreKeeps, QueueHeadKeeps, QueueCountKeeps, ScanRaiseKeeps DEF keyboard_scan_symbol
<1>3. CASE shell_run \/ shell_interrupt_reset_state \/ CommandReturns \/ shell_interrupt_poll
  BY <1>3, ShellRunKeeps, ResetKeeps, CommandReturnsKeeps, PollKeeps
<1>4. CASE read_char_with_pending \/ keyboard_read_char \/ collect_background_input
  BY <1>4, PendingKeeps, ReadCharKeeps, CollectKeeps
<1>5. CASE UNCHANGED vars
  <2> USE <1>5 DEF vars, controller, driver, shell
  <2>1. Types' /\ Control' /\ CountBound'
    BY DEF IInv, Types, Control, CountBound
  <2>2. (Holding' <=> Holding) /\ (Fresh' <=> Fresh) /\ loc'.byte.id <= events
    BY DEF IInv, Holding, Fresh, WireOrder
  <2>3. Order' /\ WireOrder'
    BY <2>2, OrderKept
  <2> QED BY <2>1, <2>3 DEF IInv
<1> QED BY <1>1, <1>2, <1>3, <1>4, <1>5 DEF Next, Thread

\* The inductive invariant always holds.
LEMMA Invariance == Spec => []IInv
  BY InitIInv, NextIInv, PTL DEF Spec

\* However the handler and the thread interleave in keyboard_queue_event, the
\* queue counts at most one event too many, and head and tail stay within the
\* slots.
THEOREM OverrunIsOne == Spec => []QueueOverrun
<1>1. IInv => QueueOverrun
  BY DEF IInv, Types, CountBound, RingType, QueueOverrun, TypeOK
<1> QED BY <1>1, Invariance, PTL

\* read_line gets keys in the order they were pressed, and none twice.
THEOREM KeysAreInOrder == Spec => []KeysInOrder
<1>1. IInv => KeysInOrder
  <2> SUFFICES ASSUME IInv, NEW i \in 1 .. Len(got) - 1
               PROVE  got[i] < got[i + 1]
    BY DEF KeysInOrder
  <2>1. Len(got) \in Nat
    BY DEF IInv, Types
  <2>2. i \in 1 .. Len(got) /\ i + 1 \in 1 .. Len(got) /\ i < i + 1
    BY <2>1
  <2> QED BY <2>2 DEF IInv, Order
<1> QED BY <1>1, Invariance, PTL
==============================================================================
