------------------------------- MODULE Console -------------------------------
(***************************************************************************)
(* Keyboard input (kernel/drivers/input/keyboard.c, kernel/core/idt.c,     *)
(* kernel/core/interrupt.c) and the loop of the shell that reads it        *)
(* (kernel/shell/shell.c: shell_run, read_line, execute_pipeline).         *)
(*                                                                         *)
(* Two parties take scancodes from the PS/2 controller: the shell's        *)
(* thread, which polls, and the IRQ1 handler, which may run between any    *)
(* two instructions of the thread and runs to its end (interrupt gate, one *)
(* CPU). They share the modifier flags, the 0xE0 flag and the event queue  *)
(* without any protection, so every access of the thread is an action.     *)
(***************************************************************************)
EXTENDS Integers, Sequences, FiniteSets

CONSTANTS
  Keys,         \* the keys that are there: records [code, ext]
  Capacity,     \* KEYBOARD_EVENT_CAPACITY
  PendingSize,  \* INPUT_BUFFER_SIZE of the pending input of the shell
  MaxEvents,    \* bound: key presses and releases
  MaxSegments   \* bound: commands in a pipeline

ASSUME ConsoleAssumption ==
  /\ Keys \subseteq [code : {"shift", "ctrl", "alt", "caps", "letter", "enter", "up"},
                     ext : BOOLEAN]
  /\ Capacity \in Nat \ {0} /\ PendingSize \in Nat \ {0}
  /\ MaxEvents \in Nat /\ MaxSegments \in Nat \ {0}

VARIABLES
  down, events, \* keys held down, and how many presses and releases there were
  wire,         \* bytes the controller has yet to offer
  obf, port,    \* KEYBOARD_STATUS_OUT_BUFFER, and what the data port reads as
  mods,         \* the modifier flags that are true
  extended,     \* extended_scancode_pending
  ring,         \* event_queue, event_head, event_tail, event_count
  subscribed,   \* the shell's handler is in subscriptions[]
  requested,    \* shell_interrupt_requested
  mode,         \* what the thread is doing
  pc, loc,      \* where it is in keyboard_scan_symbol, and the locals there
  pending,      \* the shell's pending input
  len, history, \* 1 if the line read so far is not empty; 1 if history[] is not
  segs,         \* commands of the pipeline still to run
  got           \* history: the presses whose symbol read_line received

controller == <<down, events, wire, obf, port>>
driver == <<mods, extended, ring>>
shell == <<pending, len, history, segs, got>>
vars == <<controller, driver, subscribed, requested, mode, pc, loc, shell>>

Byte == [kind : {"prefix", "make", "break"}, id : 0 .. MaxEvents,
         code : {"shift", "ctrl", "alt", "caps", "letter", "enter", "up"}]
NoByte == [kind |-> "break", code |-> "letter", id |-> 0]
Symbols == {"a", "A", "etx", "enter", "up", "8"}
NoSymbol == "none"
Event == [symbol : Symbols \cup {NoSymbol}, id : 0 .. MaxEvents]
NoEvent == [symbol |-> NoSymbol, id |-> 0]

-----------------------------------------------------------------------------
(* Translation: what a scancode does to the modifiers, and its symbol.     *)

\* The flag a scancode stands for, if any. The release of a shift is taken
\* with or without a prefix.
Flag(b, ext) ==
  CASE b.code = "ctrl" -> IF ext THEN {"right_ctrl"} ELSE {"left_ctrl"}
    [] b.code = "shift" -> IF ext /\ b.kind = "make" THEN {} ELSE {"left_shift"}
    [] b.code = "alt" -> IF ext THEN {"alt_gr"} ELSE {}
    [] OTHER -> {}

keyboard_modifiers(m, b, ext) ==
  CASE b.kind = "break" -> m \ Flag(b, ext)
    [] b.kind = "make" /\ b.code = "caps" /\ ~ext -> IF "caps" \in m THEN m \ {"caps"} ELSE m \cup {"caps"}
    [] OTHER -> m \cup Flag(b, ext)

control_modifier_active(m) == m \cap {"left_ctrl", "right_ctrl"} # {}

\* A letter is shifted by Shift or Caps Lock, not both, and then mapped by Ctrl.
translate_scancode(m, b) ==
  CASE b.code = "letter" -> IF control_modifier_active(m) THEN "etx"
                            ELSE IF ("left_shift" \in m) # ("caps" \in m) THEN "A" ELSE "a"
    [] b.code = "enter" -> "enter"
    [] b.code = "up" -> "8"
    [] OTHER -> NoSymbol

translate_extended_scancode(b) == IF b.code = "up" THEN "up" ELSE NoSymbol

keyboard_process_scancode(m, b, ext) ==
  IF b.kind = "break" THEN NoSymbol
  ELSE IF ext THEN translate_extended_scancode(b) ELSE translate_scancode(m, b)

-----------------------------------------------------------------------------
(* The event queue. The IRQ handler makes all updates at once.             *)

\* Mutation: the queue is not looked at before an event is stored.
NeverFull(r) == FALSE

Full(r) == r.count >= Capacity
Skip(r, t) == [r EXCEPT !.tail = (t + 1) % Capacity]
Less(r, n) == [r EXCEPT !.count = n - 1]
DropOldest(r) == IF Full(r) THEN Less(Skip(r, r.tail), r.count) ELSE r
Store(r, e) == [r EXCEPT !.slots[r.head] = e]

Advance(r, h) == [r EXCEPT !.head = (h + 1) % Capacity]
Count(r, n) == [r EXCEPT !.count = n + 1]

keyboard_queue_event(r, e) ==
  LET s == Store(DropOldest(r), e)
      a == Advance(s, s.head)
  IN  Count(a, a.count)

\* interrupt_raise calls the shell's handler if the shell has subscribed.
interrupt_raise(symbol) == requested' = (requested \/ (symbol = "etx" /\ subscribed))

-----------------------------------------------------------------------------
(* The keyboard and its controller (external).                             *)

Bytes(k, kind, id) ==
  LET byte(t) == [kind |-> t, code |-> k.code, id |-> id]
  IN  IF k.ext THEN <<byte("prefix"), byte(kind)>> ELSE <<byte(kind)>>

\* A key goes down or up. Presses are numbered by events.
KeyEvent ==
  /\ events < MaxEvents /\ events' = events + 1
  /\ \E k \in Keys :
       IF k \in down
       THEN down' = down \ {k} /\ wire' = wire \o Bytes(k, "break", events')
       ELSE down' = down \cup {k} /\ wire' = wire \o Bytes(k, "make", events')
  /\ UNCHANGED <<obf, port, driver, subscribed, requested, mode, pc, loc, shell>>

\* The next byte is offered when the one before it has been taken.
OfferByte ==
  /\ wire # <<>> /\ ~obf
  /\ obf' = TRUE /\ port' = Head(wire) /\ wire' = Tail(wire)
  /\ UNCHANGED <<down, events, driver, subscribed, requested, mode, pc, loc, shell>>

\* IRQ1: read the byte and process it; the symbol goes to the event queue only.
\* The handler reads the port without a look at its status: the controller
\* holds the line of IRQ1 up only while a byte waits, and the thread's read
\* lets it down.
keyboard_irq_handler_c ==
  LET symbol == keyboard_process_scancode(mods, port, extended)
  IN  /\ obf /\ obf' = FALSE
      /\ IF port.kind = "prefix"
         THEN extended' = TRUE /\ UNCHANGED <<mods, ring, requested>>
         ELSE /\ extended' = FALSE
              /\ mods' = keyboard_modifiers(mods, port, extended)
              /\ ring' = IF symbol = NoSymbol THEN ring
                         ELSE keyboard_queue_event(ring, [symbol |-> symbol, id |-> port.id])
              /\ interrupt_raise(symbol)
      /\ UNCHANGED <<down, events, wire, port, subscribed, mode, pc, loc, shell>>

-----------------------------------------------------------------------------
(* keyboard_scan_symbol in the thread. It is entered at "status" and ends  *)
(* at "symbol" with loc.symbol, or at "empty".                             *)

Locals == [byte : Byte, ext : BOOLEAN, symbol : Symbols \cup {NoSymbol},
           count : Nat, index : 0 .. Capacity - 1]
NoLocals == [byte |-> NoByte, ext |-> FALSE, symbol |-> NoSymbol, count |-> 0, index |-> 0]

ScanUnchanged == UNCHANGED <<down, events, wire, subscribed, mode, shell>>

\* Mutation: the data port is read whatever the status says.
ScanStatusIgnored ==
  /\ pc = "status" /\ pc' = "data"
  /\ UNCHANGED <<obf, port, driver, requested, loc>> /\ ScanUnchanged

ScanStatus ==
  /\ pc = "status"
  /\ pc' = IF obf THEN "data" ELSE "empty"
  /\ UNCHANGED <<obf, port, driver, requested, loc>> /\ ScanUnchanged

\* If the handler has taken the byte since, the port still reads as that byte.
ScanData ==
  /\ pc = "data" /\ pc' = "flag"
  /\ obf' = FALSE
  /\ loc' = [NoLocals EXCEPT !.byte = port]
  /\ UNCHANGED <<port, driver, requested>> /\ ScanUnchanged

ScanFlag ==
  /\ pc = "flag"
  /\ IF loc.byte.kind = "prefix"
     THEN extended' = TRUE /\ pc' = "status" /\ loc' = NoLocals
     ELSE extended' = FALSE /\ pc' = "process" /\ loc' = [loc EXCEPT !.ext = extended]
  /\ UNCHANGED <<obf, port, mods, ring, requested>> /\ ScanUnchanged

ScanProcess ==
  LET symbol == keyboard_process_scancode(mods, loc.byte, loc.ext)
  IN  /\ pc = "process"
      /\ mods' = keyboard_modifiers(mods, loc.byte, loc.ext)
      /\ IF symbol = NoSymbol THEN pc' = "status" /\ loc' = NoLocals
         ELSE pc' = "test" /\ loc' = [loc EXCEPT !.symbol = symbol]
      /\ UNCHANGED <<obf, port, extended, ring, requested>> /\ ScanUnchanged

\* keyboard_queue_event. The compiler may keep event_count, event_tail and
\* event_head in registers once they were read, or read them again.
QueueTest ==
  /\ pc = "test" /\ pc' = IF Full(ring) THEN "tail" ELSE "store"
  /\ loc' = [loc EXCEPT !.count = ring.count, !.index = ring.tail]
  /\ UNCHANGED <<obf, port, driver, requested>> /\ ScanUnchanged

QueueTail ==
  /\ pc = "tail" /\ pc' = "less"
  /\ \E t \in {ring.tail, loc.index} : ring' = Skip(ring, t)
  /\ UNCHANGED <<obf, port, mods, extended, requested, loc>> /\ ScanUnchanged

QueueLess ==
  /\ pc = "less" /\ pc' = "store"
  /\ \E n \in {ring.count, loc.count} :
       ring' = Less(ring, n) /\ loc' = [loc EXCEPT !.count = n - 1]
  /\ UNCHANGED <<obf, port, mods, extended, requested>> /\ ScanUnchanged

QueueStore ==
  /\ pc = "store" /\ pc' = "head"
  /\ ring' = Store(ring, [symbol |-> loc.symbol, id |-> loc.byte.id])
  /\ loc' = [loc EXCEPT !.index = ring.head]
  /\ UNCHANGED <<obf, port, mods, extended, requested>> /\ ScanUnchanged

QueueHead ==
  /\ pc = "head" /\ pc' = "count"
  /\ \E h \in {ring.head, loc.index} : ring' = Advance(ring, h)
  /\ UNCHANGED <<obf, port, mods, extended, requested, loc>> /\ ScanUnchanged

QueueCount ==
  /\ pc = "count" /\ pc' = "raise"
  /\ \E n \in {ring.count, loc.count} : ring' = Count(ring, n)
  /\ UNCHANGED <<obf, port, mods, extended, requested, loc>> /\ ScanUnchanged

ScanRaise ==
  /\ pc = "raise" /\ pc' = "symbol"
  /\ interrupt_raise(loc.symbol)
  /\ UNCHANGED <<obf, port, driver, loc>> /\ ScanUnchanged

keyboard_scan_symbol ==
  \/ ScanStatus \/ ScanData \/ ScanFlag \/ ScanProcess
  \/ QueueTest \/ QueueTail \/ QueueLess \/ QueueStore \/ QueueHead \/ QueueCount
  \/ ScanRaise

-----------------------------------------------------------------------------
(* The shell.                                                              *)

Enter(m, p) == mode' = m /\ pc' = p /\ loc' = NoLocals

\* Before shell_run subscribes, a Ctrl-C finds no handler.
shell_run ==
  /\ mode = "boot"
  /\ subscribed' = TRUE /\ Enter("prompt", "none")
  /\ UNCHANGED <<controller, driver, requested, shell>>

\* The top of the loop: shell_interrupt_reset_state, then read_line.
shell_interrupt_reset_state ==
  /\ mode = "prompt"
  /\ requested' = FALSE /\ len' = 0 /\ segs' = 0 /\ Enter("line", "none")
  /\ UNCHANGED <<controller, driver, subscribed, pending, history, got>>

\* What read_line does with a symbol, and shell_run with the line: an empty
\* line or one that Ctrl-C gave up is forgotten, any other goes to history_add
\* and is run, unless it is not a pipeline of known commands.
read_line(e) ==
  /\ got' = Append(got, e.id)
  /\ CASE e.symbol = "etx" \/ (e.symbol = "enter" /\ len = 0) ->
            Enter("prompt", "none") /\ UNCHANGED <<len, history, segs>>
       [] e.symbol = "enter" /\ len > 0 ->
            /\ history' = 1 /\ UNCHANGED len
            /\ \/ Enter("prompt", "none") /\ UNCHANGED segs
               \/ Enter("command", "none") /\ segs' \in 1 .. MaxSegments
       [] e.symbol = "up" -> /\ Enter("line", "none") /\ UNCHANGED <<history, segs>>
                             /\ len' = IF history = 1 THEN 1 ELSE len
       [] OTHER -> Enter("line", "none") /\ len' = 1 /\ UNCHANGED <<history, segs>>

\* read_char_with_pending: pending input first, then the keyboard.
read_char_with_pending ==
  /\ mode = "line" /\ pc = "none"
  /\ IF pending # <<>>
     THEN read_line(Head(pending)) /\ pending' = Tail(pending)
     ELSE Enter("line", "status") /\ UNCHANGED shell
  /\ UNCHANGED <<controller, driver, subscribed, requested>>

\* keyboard_read_char repeats the scan until it gives a symbol.
keyboard_read_char ==
  /\ mode = "line"
  /\ \/ pc = "empty" /\ Enter("line", "status") /\ UNCHANGED shell
     \/ pc = "symbol" /\ read_line([symbol |-> loc.symbol, id |-> loc.byte.id])
                      /\ UNCHANGED pending
  /\ UNCHANGED <<controller, driver, subscribed, requested>>

\* The handler of a command. It returns when it is done, or because
\* shell_command_should_stop told it that Ctrl-C was pressed.
CommandReturns ==
  /\ mode = "command" /\ pc = "none"
  /\ Enter("collect", "status")
  /\ UNCHANGED <<controller, driver, subscribed, requested, shell>>

\* A command such as sleep that goes on until Ctrl-C, or for very long.
CommandStops == requested /\ CommandReturns

pending_input_push(e) ==
  pending' = Append(IF Len(pending) >= PendingSize THEN Tail(pending) ELSE pending, e)

\* One symbol taken while a command ran; Ctrl-C itself is not kept.
collect_background_input ==
  /\ mode = "collect" /\ pc = "symbol"
  /\ IF loc.symbol = "etx" THEN UNCHANGED pending
     ELSE pending_input_push([symbol |-> loc.symbol, id |-> loc.byte.id])
  /\ Enter("collect", "status")
  /\ UNCHANGED <<controller, driver, subscribed, requested, len, history, segs, got>>

\* Mutation: the flag is cleared before every command of the pipeline.
PollResets ==
  /\ mode = "collect" /\ pc = "empty"
  /\ segs' = segs - 1
  /\ IF segs = 1 THEN Enter("prompt", "none") ELSE Enter("command", "none")
  /\ requested' = FALSE
  /\ UNCHANGED <<controller, driver, subscribed, pending, len, history, got>>

\* Nothing more to collect: the pipeline is given up, or goes on to its next
\* command if there is one and it is known; then the shell prompts again.
shell_interrupt_poll ==
  /\ mode = "collect" /\ pc = "empty"
  /\ segs' = segs - 1
  /\ \/ Enter("prompt", "none")
     \/ ~requested /\ segs > 1 /\ Enter("command", "none")
  /\ UNCHANGED <<controller, driver, subscribed, requested, pending, len, history, got>>

-----------------------------------------------------------------------------
Init ==
  /\ down = {} /\ events = 0 /\ wire = <<>> /\ obf = FALSE /\ port = NoByte
  /\ mods = {} /\ extended = FALSE
  /\ ring = [slots |-> [i \in 0 .. Capacity - 1 |-> NoEvent],
             head |-> 0, tail |-> 0, count |-> 0]
  /\ subscribed = FALSE /\ requested = FALSE
  /\ mode = "boot" /\ pc = "none" /\ loc = NoLocals
  /\ pending = <<>> /\ len = 0 /\ history = 0 /\ segs = 0 /\ got = <<>>

Thread == \/ shell_run \/ shell_interrupt_reset_state
          \/ keyboard_scan_symbol
          \/ read_char_with_pending \/ keyboard_read_char
          \/ collect_background_input \/ shell_interrupt_poll

Next == KeyEvent \/ OfferByte \/ keyboard_irq_handler_c \/ Thread \/ CommandReturns

Spec == Init /\ [][Next]_vars

\* The thread always goes on, since the handler returns; a command that has
\* been told to stop does. Bytes are offered in finite time. Nothing is
\* assumed of keys, nor of a command ending by itself.
FairSpec == Spec /\ WF_vars(Thread) /\ WF_vars(CommandStops) /\ WF_vars(OfferByte)

-----------------------------------------------------------------------------
(* Properties.                                                             *)

\* Types of the driver's and the shell's state.
TypeOK ==
  /\ mods \subseteq {"left_shift", "left_ctrl", "right_ctrl", "caps", "alt_gr"}
  /\ extended \in BOOLEAN /\ obf \in BOOLEAN /\ requested \in BOOLEAN
  /\ port \in Byte /\ loc \in Locals
  /\ ring.slots \in [0 .. Capacity - 1 -> Event]
  /\ ring.head \in 0 .. Capacity - 1 /\ ring.tail \in 0 .. Capacity - 1
  /\ ring.count \in Nat
  /\ Len(pending) <= PendingSize
  /\ segs \in 0 .. MaxSegments /\ len \in {0, 1} /\ history \in {0, 1}

\* read_line gets keys in the order they were pressed and none of them twice,
\* although the data port keeps a byte the IRQ handler has taken, keys typed
\* during a command wait in the pending input, and both sides process bytes.
KeysInOrder == \A i \in 1 .. Len(got) - 1 : got[i] < got[i + 1]

\* A Ctrl-C that was raised while a pipeline ran brings the prompt back: the
\* flag is not lost on the way to whoever tests it, and no later command of
\* the pipeline runs to its end first.
CtrlCStops == requested /\ mode \in {"command", "collect"} ~> mode = "prompt"

\* The event queue is not bounded by its capacity: the handler may run between
\* the thread's test of event_count and its increment (keyboard_queue_event).
\* But the excess is one event, and does not grow from one race to the next,
\* although every later call takes one event out and puts one in; head and
\* tail stay within the slots.
QueueOverrun == TypeOK /\ ring.count <= Capacity + 1

(* Sentences of the source that the code does not keep (README, section 4). *)

\* Keys that produce a symbol are all read ("Read the next translated
\* character from the keyboard, waiting until one is available"): when
\* read_line waits with nothing on the way, it has had every symbol.
KeysAllRead ==
  mode = "line" /\ pc = "empty" /\ wire = <<>> /\ ~obf =>
    \A i \in 0 .. Capacity - 1 : ring.slots[i].symbol \notin {NoSymbol, "etx"} =>
      \E j \in 1 .. Len(got) : got[j] = ring.slots[i].id

\* The event queue never counts more than it can hold ("When the queue is
\* full, the oldest event is dropped to make room for the new one").
QueueBounded == ring.count <= Capacity

\* A pipeline starts with no Ctrl-C pending ("so subsequent operations proceed
\* without a pending Ctrl-C").
StartsFresh == [][mode = "line" /\ mode' = "command" => ~requested]_vars
=============================================================================
