------------------------------ MODULE SwapFile ------------------------------
(***************************************************************************)
(* Swap files (kernel/fs/swap.c): a growing buffer on the kernel heap, as  *)
(* one more caller of malloc and free beside the others, that mirrors a    *)
(* file of the filesystem. Nothing in the kernel calls it yet: the calls   *)
(* are the ones swap.h allows, with ranges that do not exceed a size_t,    *)
(* and a swap file is initialised or loaded only while it has no buffer.   *)
(*                                                                         *)
(* A call that grows the buffer is made of the heap's own actions and of   *)
(* one step per doubling, so it takes several steps; phase says which is   *)
(* next, and nothing else runs until it is "idle" again.                   *)
(***************************************************************************)
EXTENDS KernelHeap, Sequences

CONSTANTS
  FirstCapacity,  \* 512
  Texts,          \* what callers write
  Starts,         \* the offsets they write at
  Reserves,       \* the capacities they reserve
  MaxSwap         \* bound: the size an append leads to

ASSUME SwapAssumption ==
  /\ FirstCapacity \in 1 .. WordSize - 1
  /\ FirstCapacity % Align = 0 /\ WordSize % Align = 0
  /\ Reserves \subseteq 0 .. WordSize - 1 /\ Starts \subseteq Nat
  /\ \A t \in Texts : Len(t) \in Nat /\ t = [i \in 1 .. Len(t) |-> t[i]]
  /\ \A s \in Starts, t \in Texts : s + Len(t) < WordSize
  /\ MaxSwap \in 0 .. WordSize - 1

VARIABLES
  swap,      \* struct swap_file; bytes is what the buffer at data holds
  phase,     \* "idle", "grow", "free" or "finish"
  call,      \* the call in progress
  file,      \* the file that is mirrored
  contents,  \* history: what was written to swap, Gap where nothing was
  mirror,    \* history: what the file was last given, likewise
  mine       \* history: the blocks that were allocated for swap

heapvars == <<heap_ready, hdr, held>>
svars == <<swap, phase, call, file, contents, mirror, mine>>
allvars == <<heapvars, svars>>

Junk == "junk"
Gap == "gap"
NoCall == [op |-> "none", offset |-> 0, text |-> <<>>, need |-> 0, new_capacity |-> 0]
EmptySwap == [data |-> NULL, size |-> 0, capacity |-> 0, bytes |-> <<>>]
SwapText == [i \in 1 .. swap.size |-> swap.bytes[i]]
BlockAt(x) == CHOOSE p \in held : p.at = x

\* text put into s from an offset on; what is skipped is filled.
Overlay(s, offset, text, fill) ==
  LET end == offset + Len(text)
  IN  [i \in 1 .. (IF end > Len(s) THEN end ELSE Len(s)) |->
         IF i \in offset + 1 .. end THEN text[i - offset]
         ELSE IF i <= Len(s) THEN s[i] ELSE fill]

-----------------------------------------------------------------------------
(* Growing.                                                                *)

\* The capacity that is doubled.
DoubledFrom(capacity) == IF capacity = 0 THEN FirstCapacity ELSE capacity

\* A call that needs a capacity.
Calls(c, sw) ==
  /\ phase = "idle"
  /\ call' = [c EXCEPT !.new_capacity = DoubledFrom(sw.capacity)]
  /\ swap' = sw
  /\ phase' = IF sw.capacity >= c.need THEN "finish" ELSE "grow"
  /\ UNCHANGED <<heapvars, file, mirror, mine>>

Returns == phase' = "idle" /\ call' = NoCall

\* Mutation: nothing is copied to the new buffer.
MovedWithoutCopy(sw, block, capacity) ==
  [sw EXCEPT !.data = block, !.capacity = capacity, !.bytes = [i \in 1 .. capacity |-> Junk]]

\* The new buffer holds what the old one held.
Moved(sw, block, capacity) ==
  [sw EXCEPT !.data = block, !.capacity = capacity,
             !.bytes = [i \in 1 .. capacity |-> IF i <= sw.size THEN sw.bytes[i] ELSE Junk]]

\* Mutation: the old buffer is not freed.
GrowKeepsOld ==
  LET capacity == call.new_capacity
      new == {p.at : p \in held' \ held}
  IN  /\ phase = "grow" /\ capacity >= call.need
      /\ malloc(capacity)
      /\ \/ new = {} /\ Returns /\ UNCHANGED <<swap, mine>>
         \/ \E block \in new :
              /\ swap' = Moved(swap, block, capacity)
              /\ mine' = mine \cup {block}
              /\ phase' = "finish"
              /\ UNCHANGED call
      /\ UNCHANGED <<file, contents, mirror>>

\* The doubling wraps around as a size_t does.
Doubles ==
  /\ phase = "grow" /\ call.new_capacity < call.need
  /\ call' = [call EXCEPT !.new_capacity = (2 * @) % WordSize]
  /\ UNCHANGED <<heapvars, swap, phase, file, contents, mirror, mine>>

\* malloc, and the copy when it succeeds; otherwise the call returns false.
swap_file_grow ==
  LET capacity == call.new_capacity
      new == {p.at : p \in held' \ held}
  IN  /\ phase = "grow" /\ capacity >= call.need
      /\ malloc(capacity)
      /\ \/ new = {} /\ Returns /\ UNCHANGED <<swap, mine>>
         \/ \E block \in new :
              /\ swap' = Moved(swap, block, capacity)
              /\ mine' = mine \cup {block}
              /\ phase' = IF swap.data = NULL THEN "finish" ELSE "free"
              /\ UNCHANGED call
      /\ UNCHANGED <<file, contents, mirror>>

\* The buffer that was outgrown is freed.
GrowFrees ==
  /\ phase = "free"
  /\ \E old \in mine \ {swap.data} :
       free(BlockAt(old)) /\ mine' = mine \ {old}
  /\ phase' = "finish"
  /\ UNCHANGED <<swap, call, file, contents, mirror>>

-----------------------------------------------------------------------------
(* The calls.                                                              *)

swap_file_init(n) ==
  /\ swap.data = NULL
  /\ Calls([NoCall EXCEPT !.op = "init", !.need = n], EmptySwap)
  /\ contents' = <<>>

swap_file_reserve(n) ==
  /\ Calls([NoCall EXCEPT !.op = "reserve", !.need = n], swap)
  /\ UNCHANGED contents

swap_file_write(offset, text) ==
  /\ Calls([NoCall EXCEPT !.op = "write", !.offset = offset, !.text = text,
                          !.need = offset + Len(text)], swap)
  /\ UNCHANGED contents

swap_file_append(text) ==
  /\ swap.size + Len(text) <= MaxSwap
  /\ swap_file_write(swap.size, text)

\* A file that is not there, or cannot be read, makes no difference; fs_read
\* fills the buffer with the whole file or fails.
swap_file_load_path ==
  /\ swap.data = NULL
  /\ file.exists
  /\ Calls([NoCall EXCEPT !.op = "load", !.need = Len(file.text)], EmptySwap)
  /\ contents' = <<>>

swap_file_free ==
  /\ phase = "idle"
  /\ IF swap.data = NULL THEN UNCHANGED <<heapvars, mine>>
     ELSE free(BlockAt(swap.data)) /\ mine' = mine \ {swap.data}
  /\ swap' = EmptySwap /\ contents' = <<>>
  /\ UNCHANGED <<phase, call, file, mirror>>

\* The rest of a call once there is room.
Finishes ==
  /\ phase = "finish"
  /\ CASE call.op = "write" ->
            /\ swap' = [swap EXCEPT
                 !.bytes = Overlay(@, call.offset, call.text, Junk),
                 !.size = IF call.need > @ THEN call.need ELSE @]
            /\ contents' = Overlay(contents, call.offset, call.text, Gap)
       [] call.op = "load" ->
            /\ call.need = 0 \/ swap.data # NULL
            /\ swap' = [swap EXCEPT !.bytes = Overlay(@, 0, file.text, Junk), !.size = call.need]
            /\ contents' = mirror
       [] OTHER -> UNCHANGED <<swap, contents>>
  /\ Returns
  /\ UNCHANGED <<heapvars, file, mirror, mine>>

LoadFails ==
  /\ phase = "finish" /\ call.op = "load" /\ call.need # 0
  /\ free(BlockAt(swap.data)) /\ mine' = mine \ {swap.data}
  /\ swap' = EmptySwap
  /\ Returns
  /\ UNCHANGED <<file, contents, mirror>>

\* Without a buffer the file is touched, which leaves one that is there as it
\* is. Otherwise it is truncated and written if it is there (fs_write makes no
\* file), and a write that fails leaves the old text or a part of the new one.
swap_file_flush_path ==
  /\ phase = "idle"
  /\ \/ /\ swap.data = NULL
        /\ file' = [file EXCEPT !.exists = TRUE]
        /\ UNCHANGED mirror
     \/ /\ swap.data # NULL /\ file.exists
        /\ \E n \in 0 .. swap.size :
             /\ file' = [exists |-> TRUE, text |-> SubSeq(SwapText, 1, n)]
             /\ mirror' = SubSeq(contents, 1, n)
  /\ UNCHANGED <<heapvars, swap, phase, call, contents, mine>>

-----------------------------------------------------------------------------

\* The other callers of the heap, between two calls. They free what is theirs.
OtherCallers ==
  /\ phase = "idle"
  /\ \/ heap_init
     \/ \E n \in Requests : malloc(n)
     \/ \E k \in Counts, n \in Requests : calloc(k, n)
     \/ \E p \in held : p.at \notin mine /\ free(p)
  /\ UNCHANGED svars

SwapInit ==
  /\ Init
  /\ swap = EmptySwap /\ phase = "idle" /\ call = NoCall
  /\ file = [exists |-> FALSE, text |-> <<>>]
  /\ contents = <<>> /\ mirror = <<>> /\ mine = {}

SwapNext ==
  \/ OtherCallers
  \/ \E n \in Reserves : swap_file_init(n)
  \/ \E n \in Reserves : swap_file_reserve(n)
  \/ \E s \in Starts, t \in Texts : swap_file_write(s, t)
  \/ \E t \in Texts : swap_file_append(t)
  \/ swap_file_load_path \/ swap_file_free \/ swap_file_flush_path
  \/ Doubles \/ swap_file_grow \/ GrowFrees \/ Finishes \/ LoadFails

SwapSpec == SwapInit /\ [][SwapNext]_allvars

-----------------------------------------------------------------------------
(* Properties.                                                             *)

\* What the buffer holds is what was written, however often it was moved to a
\* larger block, written to a file and loaded again; bytes nobody wrote are
\* whatever the heap left there (swap_file_grow, swap_file_write,
\* swap_file_load_path, swap_file_flush_path).
SwapKeepsText ==
  phase = "idle" =>
    /\ Len(contents) = swap.size
    /\ swap.size <= swap.capacity
    /\ \A i \in 1 .. swap.size : contents[i] # Gap => swap.bytes[i] = contents[i]

\* Every block allocated for the swap file is its buffer or was freed, and the
\* buffer is a live block of the heap with room for its capacity: growing,
\* failing to load and freeing neither leak nor free a buffer in use. The
\* doubling in swap_file_grow never falls below where it began, and so ends,
\* for every capacity up to half of what a size_t counts; beyond that it wraps
\* around to 0 and does not.
BufferOwned ==
  /\ phase = "grow" =>
       call.new_capacity >= DoubledFrom(swap.capacity) \/ 2 * call.need > WordSize
  /\ phase = "idle" => mine = {swap.data} \ {NULL}
  /\ swap.data # NULL =>
       \E p \in held : p.at = swap.data /\ ~hdr[p.at].free /\ hdr[p.at].size >= swap.capacity
=============================================================================
