# lux-kernel: TLA+ models, checks and proofs

lux-kernel is a small 32-bit kernel: it boots, mounts a filesystem of its own on
an ATA disk, and runs a shell that reads the keyboard. One thread runs all of it;
the only concurrency is IRQ1, the keyboard interrupt, the disk that works at its
own pace behind a polled port, and the power that may go at any moment. That is
where its hard behaviours are, and what these modules are about.

## 1. Inventory

| Component | State | Operations | Interacts with | Hard behaviour | What makes it correct |
|---|---|---|---|---|---|
| LuxFS (`kernel/fs/fs.c`) | superblock, bitmaps, inodes in memory and on disk, data blocks on disk | mount/format, touch, mkdir, write, read, list, stat | one sector at a time through the ATA driver | power loss and failing accesses between any two sector writes; partial undo; full volume | tree of unique names, no shared block, memory and disk agree between calls, a write that answers true stored its bytes |
| Kernel heap (`lib/malloc.c`) | list of block headers | malloc, calloc, free, stats | none | wrap-around of sizes, merging on both sides | blocks tile the heap, nobody's block is too small or shared |
| Keyboard (`drivers/input/keyboard.c`, `core/idt.c`) | modifiers, prefix flag, event ring | polling scan, IRQ handler | port, interrupt dispatcher, shell | handler between any two steps of the scan; shared flags and ring | keys arrive in order, none twice, none lost |
| Interrupt dispatcher (`core/interrupt.c`) | subscription table | subscribe, unsubscribe, raise | keyboard calls it, shell subscribes | raised inside the handler | Ctrl-C reaches the shell |
| Shell loop (`shell/shell.c`) | interrupt flags, pending input, history | run, read line, poll | keyboard, commands | flag set while it is being reset; characters typed during a command | Ctrl-C ends a pipeline, and only that one |
| Shell parser (`shell/shell.c`) | none | pipeline, redirection, words | shell loop | terminators written in place | what is typed is run or refused |
| Pipelines (`shell/shell.c`, `commands/cat.c`, `touch.c`) | pipe buffer, file writer | execute, the two writers, cat, touch | filesystem | a file read and written by one line; failures and Ctrl-C between writes; buffer limit | data arrives unchanged, appended files keep what they held |
| ATA driver (`drivers/storage/ata_pio.c`) | ready flag, device registers | identify, read, write | the disk | a wait that runs out and an answer that comes later | true means done; every call ends |
| Swap files (`fs/swap.c`) | buffer, size, capacity | reserve, write, append, load, flush, free | heap, filesystem | doubling that wraps around, a failed read after the growth | the buffer holds what was written and is the one block it owns |
| Line editor, history, completion (`shell/shell.c`) | array, cursor, history ring, the line kept aside | one per key | keyboard, terminal | ring at its limit, stale bytes behind the line, redrawing over what was shown | an abstract editor of a text with a list of lines, and the row that shows it |
| Terminal (`drivers/video/tty.c`) | cells, cursor, overlay, screen | put, write, scroll, clear, cells, cursor | everybody writes | the block of the cursor over changing cells, last and first cell | the screen shows the cells and one block |
| Off-screen surfaces (`drivers/video/term.c`) | cells, cursor | create, resize, draw, fill, scroll, flush | heap, terminal | overlapping copies, arrays of two widths, regions over the edge | cells move as rows and columns say |
| Pager (`commands/less.c`) | two blocks, lines, top line | load, split, page, keys | keyboard, terminal, filesystem, heap | failure and Ctrl-C at any point, the last cell of the screen | lines of the text in order, memory freed once, Ctrl-C ends it |
| Paths (`shell/shell.c`, `commands/cd.c`) | working directory | resolve, cd | filesystem | lengths at the limit, slashes | a path names the same thing wherever it is resolved |
| Numbers and formats (`lib/printf.c`, `lib/div64.c`, `commands/printf.c`, `hexdump.c`, `sleep.c`) | none | divide, write, parse, format | everybody prints | limits of a word and of a buffer | a number survives its text |
| Boot, timer, fonts | none | start-up order | all | none | not modelled, see section 8 |

How they interact: `kernel()` initialises heap, terminal, dispatcher and IDT, enables
interrupts, identifies the disk, mounts, and calls `shell_run`. From there the
shell thread calls everything else synchronously. The IRQ handler shares the keyboard's
state with the polling loop without any lock, and sets the shell's interrupt flag
through `interrupt_raise`. `fs.c` believes what `ata_pio_read` and
`ata_pio_write` answer; the shell believes `fs.c`.

The hazards this code is exposed to are listed, with their lines and the properties
that watch them, under `hazards` in `PROJECT.json`.

## 2. Modules

| Module | Models | State and actions |
|---|---|---|
| `LuxFS` | `fs/fs.c`, the power-off of `commands/shutdown.c` | memory (`mounted, inodes, inode_bitmap, block_bitmap`), disk (`d_*`), the call in progress (`pc`, `c`). One action per sector write; what lies between two writes is one step, because nothing can intervene in memory. Every access may succeed or fail. |
| `Volume` | what a volume promises | entries, contents and the answer of the last write; names appear at once, one write at a time; a write answers true exactly in the step that leaves what was asked for, false when it stops before; only a power loss ends one without an answer, and changes only the file being written |
| `KernelHeap` | `lib/malloc.c` | headers by offset (`hdr`), what callers hold; one action per call |
| `Console` | `keyboard.c`, `idt.c`, `interrupt_raise`, the loop of `shell.c` | the polling scan is one action per shared access (status port, data port, prefix flag, modifiers, the test of the ring and each update of it, with the value in memory or one read before); the IRQ handler is one atomic action between any two |
| `ShellParse` | the parser of `shell.c` | pure operators on lines of characters, the in-place terminators included |
| `ShellPipeline` | `execute_pipeline`, writers, `cat`, `touch` | one action per filesystem call or write; Ctrl-C may end the pipeline after any command |
| `SwapFile` | `fs/swap.c` | composed with `KernelHeap`: a swap file is one caller of malloc and free beside others, and a call that grows is made of the heap's own actions; the loop that doubles the capacity is one step per doubling |
| `Terminal` | `drivers/video/tty.c` | a terminal is a record, every operation an operator from one to the next; `drawn` is what each cell of the screen shows, the block of the cursor included |
| `LineEditor` | `read_line`, history, completion of `shell.c`; `clear`, `noise` | composed with `Terminal`: one action per key, on the caller's array with its uninitialised bytes; commands write between two lines |
| `EditedLine` | what a line editor promises | the text left and right of the cursor, the lines entered before, the one looked at, the draft kept aside, the line handed to the shell, which is remembered unless it is blank |
| `Pager` | `commands/less.c` | composed with `Terminal`: one action per chunk loaded, character split, page drawn, look at the flag, poll of the keyboard; Ctrl-C between any two |
| `Numbers`, `Formats`, `ShellPath`, `Surface` | `div64.c`, `lib/printf.c`, the commands' parsers, `printf`, `hexdump`; paths and `cd`; `term.c` | pure operators; those of `term.c` that allocate or free take a heap, in which any one allocation may fail |
| `TextFunctions` | their callers | one call at a time, with every argument of small sets, against reference definitions; also for `ShellParse` |
| `AtaPio` | `ata_pio.c` | one action per poll, per sector moved, per command; the device (external) is busy, offers data, stores or fails at its own pace |
| `LuxFSProofs`, `LuxFSTree`, `HeapProofs`, `AtaPioProofs`, `ConsoleProofs`, `ShellPipelineProofs`, `TerminalProofs`, `ScreenProofs` | | theorems (section 6); `TerminalProofs` has the lemmas about the terminal on which `ScreenProofs`, about the line editor and the pager, rests |
| `MC*` | | values of constants for TLC, the refinement mapping of `Volume` |

`Volume` is implemented by `LuxFS`: `MCLuxFS` reads entries and contents off the
disk variables (never memory), so the run says what a reboot would find, and the
answer off the call that returns.
`LuxFS` takes from the driver that a failed sector write leaves the sector as it
was; `AtaPio` states that in `WriteExact`. `EditedLine` is implemented by
`LineEditor`: the mapping reads the text off the array up to `len`, and the list of
lines off the ring.

Abstractions. A sector of `LuxFS` is a few cells; a directory record takes two cells
and a sector three, so that records lie across sectors as 36-byte records do in
512-byte sectors. File contents are model values, one per call. The
superblock is valid or not. In `Console` a key is one of a few codes, each press
has a number, and a line is empty or not. In `AtaPio` a sector is one value. In
`ShellPipeline` the filesystem is a function from paths to contents whose calls
fail as `fs.c` can: a failed write may have truncated, overwritten part of the
file, or only failed to flush. Its lines have the shape the parser
gives them (`LinesAssumption`), and a `touch` of the path the line itself is
redirected to is told apart (`Itself`). A glyph is one value in `Terminal`. The
prompt of `LineEditor` is a fixed text. The status line of `Pager` depends on the label only,
because the numbers are not in it (section 4, `StatusReports`). Integers have 6 bits
where the code has 32 or 64.

Every module defines, next to the operator it changes, the mutations (comments
beginning `Mutation:`) with which the properties are tested: each property is
violated when the named definition is replaced by its mutation (`mutants` in
`PROJECT.json`).

## 3. Runs that pass

| Run | Checks | Bounds and why they are enough |
|---|---|---|
| `faults` | types, no shared blocks, sizes equal readable bytes, records on disk stay, calls end | 1 failing access and 1 power loss anywhere, 3 inodes, 2 of them in one sector, files of 2 blocks: a failed call, then another call that flushes the same sector. States after a tear are left out |
| `crash` | tree, unique names, memory = disk between calls, list = lookup, `LuxFS` implements `Volume` | power loss between any two sector writes, nested paths, two values, so that an overwrite can be told from what it replaces, truncating and overlapping writes of more than a block; directories of two blocks, whose second record lies across them; 8 blocks: enough for every inode (`Roomy`), so `Synced` covers file contents too |
| `full` | failed creates undone, `LuxFS` implements `Volume`: a write cut short answers false | 2 data blocks, 1 direct block, two values, writes that begin and end inside a block, dotted, too long and too deep paths: every resource runs out first in some behaviour |
| `heap` | tiling, coalescing, backing, statistics; a swap file keeps its text and owns its buffer | a heap of 28 units, sizes that leave less than, exactly, and more than a header, and sizes and products that wrap a 6-bit `size_t`; a swap file that starts with 2 bytes, doubles up to 32, which does not fit, and is asked for 33, which never ends |
| `keys` | keys in order and at most once, ring over its limit by one at most, Ctrl-C brings the prompt back | 4 key events on 4 keys, 2 of them with a prefix (an arrow that loses it is the 8 of the keypad); a ring of 2 and a pending buffer of 1, so both overflow; pipelines of 2 commands |
| `functions` | parser, numbers, output, paths and surfaces equal their definitions | every line of up to 7 characters over letter, space, tab, pipe, redirection; every 6-bit integer with every divisor and base; all texts of 4 characters, formats of 3 directives with 2 arguments, paths of 6 characters where 5 fit; surfaces smaller and larger than the terminal, with all different cells |
| `data` | pipes, redirection, append, touch, every line is done with | 16 lines incl. `c f >f` and `c f >>f`; a pipe buffer of 4 and a file of 3: both overflow; one failing call of touch, read or write |
| `transfer` | reads and writes exact, failed writes leave the sector, device free when a command is issued, transfers end | 3 sectors, chunks of at most 2, 2 polls, 1 device error: a request of two chunks, an error or a timeout in each; a device that stays busy for ever |
| `editor` | the screen shows the cells; the row shows prompt, line and cursor; `LineEditor` implements `EditedLine` | 6 keys of 3 characters, 9 editing keys, Tab, Enter and Ctrl-C; an array of 5, so it fills; a history of 2, so it wraps; 2 rows of 5 columns, so it scrolls and a full line is wider than its row; names that share a prefix, are a prefix of another, do not fit. The bound on keys ends the behaviours, so deadlock is not checked |
| `pager` | memory on every path, the lines of the text, the page on the screen, Ctrl-C ends it | every text of up to 4 characters and two of more lines than a page, with wide and empty lines; files read by 2 characters, and pipes; a status line shorter and longer than the row; no bound on keys |

`StatsAccount`, `QueueOverrun`, `PipeFaithful`, `DeviceFree`, `LineShown` and
`PageConsecutive` include the type invariants of their modules.

The runs `faults`, `crash` and `full` stop at states where power was lost between freeing
blocks on disk and flushing the inode that named them, or inside a format
(`torn`, constraint `NotTorn`). The bitmaps and the inode table of such a volume contradict
each other, and nothing structural holds after it. A directory's block may then hold a
file's bytes, and `luxfs_resolve` indexes `g_fs.inodes` with whatever they spell
(fs.c:931), which is undefined: `RecordInode` answers `NONE` there and is not a claim
about the code. The source promises nothing of such volumes, and apart from the types the
properties are stated or checked, and proved, for the others only; `ImplementsVolume` treats the tear as the
volume being lost.

A `fs_write` that runs out of blocks returns without flushing the inode it has
changed, so memory holds new block pointers that the disk does not until the next
flush of that sector. `Synced` therefore promises whole file inodes only where no
write runs out of space (`Roomy`), and names, types, parents and bitmaps always. For the
same reason `ImplementsVolume` is checked on volumes that are roomy (`crash`) or whose
files have one block (`full`), and is false on others: a truncating write that runs out
of blocks leaves an empty file in memory and the old inode on disk, and the next write
continues the one in memory. TLC shows it with `DirectBlocks = 2`, `DataBlocks = 2`,
`Lengths = {1, 3, 4}` and `MaxCrashes = 0`.

`ReadExact`, `WriteExact` and `DeviceFree` are about calls before which no wait ran out
of polls (`late`): a device so slow that one does is left out, and `ReadMeansRead` of
section 4 shows what happens then. `WriteExact` says what the sectors asked for hold only as long
as the device has reported no failure (`WriteMeansWritten`). `SurfaceExact` leaves out
the sizes and regions whose product or sum wraps around a `size_t`, and regions of one
row that scroll (`OneRowScrolls`). `LineShown` is about lines
that fit their row, because `refresh_prompt_line` computes with one row, and says
that nothing is left over only until a bell or a list of matches was written into the
row, because both are drawn as characters and nothing erases them. A prompt wider than the
screen is such a case too: the prompt is the working directory and six characters.
`PageConsecutive` allows for one line lost at the top, because the status line scrolls
the page (`PageShown`), and for no more.

`luxfs_dir_iterate` and `fs_read` are closed forms of their loops (fs.c:698-744, 1248-1310):
they change nothing, and no step of another party comes between their sector reads, so
the bytes they put together are those on the disk when the call is made. `fs_touch` and the
`fs_write` behind it are one step of `touch` for the same reason.

## 4. Where the code and its documentation disagree

Two runs each check one sentence of the repository's documentation or comments,
quoted in `findings` of `PROJECT.json`, and find it violated.

| Run | The code |
|---|---|
| `reformat` | formats a valid volume when one sector cannot be read at mount time |
| `lostkey` | never returns a key the IRQ handler has taken |

The modules state further sentences the code does not keep, next to those two. To
see TLC refute one, put it in place of the properties of the configuration named
here (without its constraint), with the change given.

| Statement | Configuration | The sentence, and what the code does |
|---|---|---|
| `MountedMeansReady` | `MCLuxFS_reformat`, `MaxCrashes = 1` | fs.c:1001 "`true` if the filesystem is mounted and ready": the format writes the superblock first (fs.c:484), so one cut off after that leaves a volume that mounts without a root directory |
| `FailedCreateInvisible` | `MCLuxFS_reformat` | fs.c:1055 "`true` if the file exists or was created successfully, `false` otherwise": when the last flush fails, `dir->size` stays grown (fs.c:839) and the name stays in the directory until the next boot |
| `NamesUnique` | `MCLuxFS_reformat`, `MaxFaults = 2` | fs.c:1104 fs_mkdir fails if "an entry with the same name already exists": `luxfs_dir_find` answers a read error as a missing name (fs.c:767), so a second entry can be made |
| `TouchAnswersFile` | `MCLuxFS_reformat` | fs.c:1051 "Fails if an existing entry at the path is not a regular file": if only the first lookup fails to read, fs_touch answers true for a directory (fs.c:1079) |
| `QueueBounded` | `MCConsole_keys` | keyboard.c:314 "the oldest event is dropped to make room": IRQ1 between the test and the increment lets the count exceed the capacity (keyboard.c:333), by one at most (`QueueOverrun`) |
| `StartsFresh` | `MCConsole_keys` | shell.c:606 "so subsequent operations proceed without a pending Ctrl-C": the flag is reset before the line is read only (shell.c:1539), so a Ctrl-C the handler takes while a line is typed stops that line's pipeline |
| `NothingDropped` | `MCTextFunctions_functions` | README.md:89 "The shell understands simple pipelines (cmd1 \| cmd2) and whitespace-separated arguments": when no blank precedes a pipe, the terminator overwrites it (shell.c:1300), and the rest of the line is neither run nor refused |
| `TrailingPipeRefused` | `MCTextFunctions_functions` | shell.c:1264 "`false` on parse error (... trailing pipe ...)": not when blanks follow it or none precedes it (shell.c:1306) |
| `OneRedirection` | `MCTextFunctions_functions` | shell.c:258 "Multiple output redirections are not supported": the second becomes part of the path |
| `AppendKeeps` | `MCShellPipeline_data`, `Faulty = {"stat"}` | shell.c:356 "`true` if ... the file is ready for writing": when the size cannot be read the offset stays 0 (shell.c:389) and appending overwrites; holds when `fs_stat_path` does not fail (`FilesExact` of `data`) |
| `InitEnds` | `MCAtaPio_transfer`, `Presence = {"floating"}` | ata_pio.c:180 "`false` otherwise (e.g., no device present, ...)": the wait for BSY has no bound (ata_pio.c:201) |
| `WriteMeansWritten` | `MCAtaPio_transfer` | ata_pio.c:277 "`true` if all sectors were written successfully": after the last sector the error bits are not looked at (ata_pio.c:168) |
| `ReadMeansRead` | `MCAtaPio_transfer` | ata_pio.c:249 "`true` if all requested sectors were read successfully": a command is issued without waiting for the device (ata_pio.c:142), so a read after one that ran out of polls takes the data of the earlier one |
| `StatusReports` | `MCTextFunctions_functions`, `WordBits = 7` | less.c:214 "showing the document label, visible line range, total lines, and percentage progress": the format is `[less] %s  %zu-%zu/%zu  %zu%% ...` (less.c:250) and kvprintf has no case for z (printf.c:215), so no number is written |
| `PageShown` | `MCPager_pager` | less.c:212 "writes up to `viewport_rows` lines starting at `top_line` [...] and then writes a status line at `status_row`": padding it to the last column makes tty_putc wrap and scroll (less.c:260), so the first line leaves the screen |
| `FullLineFinishes` | `MCLineEditor_editor` | shell.c:1030 read_line "finishes when a newline is entered or the buffer capacity is reached": when the buffer is full it rings the bell and reads on (shell.c:1202), and only Enter or Ctrl-C finish it; `EditedLine` promises what the code does |
| `OneRowScrolls` | `MCTextFunctions_functions` | term.c:310 "Shifts rows in the inclusive range [top_row, bottom_row]": a range of one row is left as it is (term.c:338) |
| `RegionClamped` | `MCTextFunctions_functions` | term.c:412 "The region is clamped to the surface bounds": `row + height` wraps around first (term.c:427), and a region that is tall enough is not flushed at all |

Met while modelling, and kept as the code has it: after a completion the cursor stays
where it was, in front of what was added (`handle_tab_completion` changes
`cursor_pos` for an empty line only), so the next character is inserted there;
the bell is a character of the terminal like any other; without a filesystem the
shell starts in `/home`, where shell.c:694 says "otherwise the CWD is set to `/`".

## 5. Fairness

Only the liveness properties `CallsReturn`, `CtrlCStops`, `LinesEnd`,
`TransfersEnd` and `CtrlCEndsPager` use it.
- `LuxFS`: weak fairness of the steps inside a call. Nothing blocks them: every
  sector access answers (`TransfersEnd` of `AtaPio`).
- `Console`: the thread goes on, because the handler returns; a command told to
  stop returns, which is what `shell_command_should_stop` is called for in the
  commands' loops; the controller offers its next byte. Nothing is assumed of
  keys or of commands that are not told to stop.
- `ShellPipeline`: weak fairness of the pipeline's own steps.
- `AtaPio`: weak fairness of the driver, none of the device.
- `Pager`: weak fairness of the thread, written out (it is always again at a line
  of the shell, where it waits for the user, or takes a step), because `ENABLED` of
  its large actions is slow to evaluate. No key is ever assumed to come.

## 6. Theorems

TLAPS proves them for every value of the constants that satisfies the modules'
assumptions. These are: sizes are natural numbers, a sector is not empty, a volume has
an inode and a block (`SizeAssumption`), and `.`, `..` and a name that is too long are
not names of records (`NamesAssumption`); the heap has room for a header and its sizes are
aligned (`HeapAssumption`); the sizes callers ask of a swap file, and the ends of
their writes, are below the word size (`SwapAssumption`); a wait polls at least once and
a chunk has a sector (`AtaAssumption`); the ring, the pending input and a pipeline have
room for one (`ConsoleAssumption`); a read asks for at least one byte
(`PagerAssumption`, `PipelineAssumption`); the screen has a cell
(`TerminalAssumption`), and the array of a line and its history have room for one
(`EditorAssumption`); characters are strings and colors numbers; letters, the prompt and the names of commands have
no control characters, and there are commands, no two of the same name (`TextAssumption`);
lines have the shape the parser gives them (`LinesAssumption`).
No bound on failures, crashes, keys, lines or calls is assumed: the bounds of the runs
are constants of any value.

`LuxFS` (`LuxFSProofs`; the directories, from `AlwaysTree` on, in `LuxFSTree`)
- `TypeCorrect`: `Spec => []TypeOK`. `TypeOK` is not inductive: that
  the locals of a call point to an inode, a slot and a block depends on where the
  call is. `TypeInv` adds, for each `pc`, what the call knows (which inode it
  works on, that the offset is below the largest size, that what is left
  fits). One step per action, one lemma for each kind of update.
- `NoCrossLinks`: `Spec => []CrossLinkFree`. `LinkInv` adds to
  `TypeInv` the same statement about the disk, because a mount copies the disk into
  memory, and that a block reserved by the call in progress belongs to nobody. Steps
  are sorted by what they do to pointers: drop some, install the reserved
  block, or neither (`DropsKeeps`, `InstallsKeeps`, `CallKeeps`).
- `ReadsWhatStatSays`: `Spec => []StatReadAgree`. `SolidInv` says that every file is solid (it has a block for every byte of
  its size) in memory and on disk, except the file of a truncating write while
  its blocks are being freed; that a write's offset never leaves a hole behind
  the end; and that it ends within the largest size. That a path resolves to an inode or to
  none is shown from the definition of the walk: its existence by a least
  counterexample, the rank of records by counting.
- `DiskIsSynced`: `Spec => []Synced`. `SyncInv` adds to `SolidInv`, for
  runs without a failing access, at which steps of a call a bitmap differs from its
  sector and which inode differs from its record (`Bitmaps`, `Table`), and the order of
  the writes: on disk an inode's bit comes before the inode and goes after it
  (`Taken`), a format writes the bitmaps before the table (`Booting`). fs_write gives up
  without flushing the inode when there is no free block, so two arguments are
  needed for the inode. A directory has a block for every record (`Covered`), so an
  append that takes a block takes all that is left of its record, and the flush
  follows; this needs a record to fit a sector, the hypothesis
  `RecordSize <= SectorSize` (36 and 512 in the code). And on a roomy volume a free
  block is always found: marked blocks that no inode has were lost by crashes, at
  most the blocks of one inode each (`Counted`), which is what `Roomy` makes room for.
- `RecordsStay`: `Spec => EntriesDurable`, an action property, with failing accesses and
  power losses. `KeptInv` says that memory has every record of a directory that the disk has
  (`Grows`), so that a flush of an inode's sector, which writes its neighbours as well,
  can lose none of their records; that a directory with records is marked as taken
  (`Marked`), so that no create is given its inode (`NewInode`); and that a create writes
  behind the records that are there (`NewRecord`).
- `AlwaysTree`: `Spec => []TreeShaped`, and `ListMatchesLookup`: `Spec => []ListStatAgree`.
  `TreeInv` says the same of rows of cells, two per record (`Sound`), of memory while
  the volume is mounted and of the disk while it is not, with the directories of even size; and
  that the inode of a create in progress has no record yet. A lookup walks the records in
  order, so that the record it finds is the one a listing shows.
- `NoInodeLost`: `Spec => []NoOrphans`. `HomeInv` says that every inode that is taken has a
  record, the one of a create in progress excepted; `CalmInv` that between calls
  the disk points to no block that memory has freed. That holds although fs_write
  gives up without a flush: a truncating write that runs out of space has retaken every
  block it freed.
- `NamesStayUnique`: `Spec => [](faults < 2 => NamesUnique)`. A create looks its name up
  twice before it makes a record, so one failed read cannot make a second one, and two can
  (section 4). `NameInv` is about memory and disk, and adds that the name of the create in
  progress is new.
  `AlwaysTree`, `ListMatchesLookup` and `NoInodeLost` also assume `RecordSize <= SectorSize`.

`KernelHeap`, `SwapFile`
- `HeapAlwaysTiled`, `AlwaysCoalesced`, `HeldAlwaysBacked` (`HeapProofs`):
  the heap's three invariants, from their conjunction `HeapInv` with the types of
  the headers. Splitting and absorbing are shown to keep the list (`SplitIsHeap`,
  `AbsorbIsHeap`), a free block to have no free neighbour after both merges
  (`CoalesceApart`), and calloc's division test to be exact (`ProductExact`).
- `StatsAlwaysAccount` (`HeapProofs`): `Spec => []StatsAccount`. The sums of
  heap_get_stats are folds over sets of blocks; that the blocks below an offset add up to
  that offset is shown by the least offset at which they do not.
- `SwapAlwaysKeepsText`, `BufferAlwaysOwned`, `HeapUnderSwap` (`HeapProofs`): from
  `SwapInv`, which joins `HeapInv` with who owns which block. While the buffer grows there
  are two blocks, the new one with a copy and the old one yet to be freed; the
  capacity is a doubling of the first one until it passes half of a `size_t`.

`AtaPio`, `Console`
- `DeviceIsFree`, `ReadsAreExact`, `WritesAreExact` (`AtaPioProofs`), of calls before
  which no wait ran out of polls: until then driver and device agree about the command, the sector it is at and who
  moves next (`Agree`); that is what makes the sectors read so far, and those
  written so far, the ones asked for (`ReadSoFar`, `WriteSoFar`). `WritesAreExact` is what
  `LuxFS` takes from the driver.
- `OverrunIsOne`, `KeysAreInOrder` (`ConsoleProofs`): `CountBound` says at which steps
  of the polling scan the count may exceed the ring, given where the handler came
  between. `Order` and `WireOrder` order the numbers of the presses along the
  way (wire, port, the byte the scan holds, what read_line got), so a key
  can be lost but never overtake another.

`ShellPipeline`
- `PipesAreFaithful`, `FilesAreExact` (`ShellPipelineProofs`): `Piped` for what a
  command reads, `Target` for what the redirected file holds at each step of the writer,
  `Touching` and `Touched` for the file of `touch`. `FilesAreExact` assumes
  `"stat" \notin Faulty`, because `>>` writes at 0 when `fs_stat_path` fails
  (`AppendKeeps`, section 4).

`Terminal`, `LineEditor`, `Pager`
- `TerminalProofs` shows what each operation of the terminal leaves: it is `Settled` (the
  screen shows the cells and one block, at the cursor), and these cells have
  changed. A text, a list of names, a frame of noise and the rows of a page are folds;
  `DoingExists` and `DoingSteps` turn a fold into a sequence of steps, and the first
  step that goes wrong is refuted. `WriteFills` is about a text that ends before its row,
  `WriteEnds` about one that fills it, after which the cursor wraps or all rows move up.
- `ScreenAlwaysFaithful` (`ScreenProofs`): `EditInv`, the types of the array, the ring
  and the history, with `Settled`, which `ScreenFaithful` is part of.
- `LineAlwaysShown` (`ScreenProofs`): `RowShown` is `LineShown` cell by cell, with
  the fact that a row with nothing left over in it shows its line whole, so that a
  redraw that is shorter than what it replaces can be shown to erase it.
- `ImplementsEdited` (`ScreenProofs`): `Spec => ImplementsEditedLine`, one lemma
  per action. The array is split at the cursor, the slots of the ring are counted back from
  its head, and `WaitInv` says that a line is kept aside only while older ones are
  looked at. For Tab, the characters appended one by one are shown to be the longest
  common prefix of the names that begin with the line.
- `AlwaysBalanced`, `PageWithinText`, `LinesAlwaysExact` (`ScreenProofs`), of `PagerSpec`: `Loaded` and
  `Divided` follow the text into the buffer and the terminators into the text; that every
  newline ends exactly one line is by the least one that does not.
- `PagesAreConsecutive` (`ScreenProofs`): `PagerSpec => []PageConsecutive`, if the screen has two rows
  and no text has a backspace in it (`NoBackspace`). Both are needed: a backspace steps
  back over the cells of the page, and with one row the status line scrolls itself
  off the screen. `PageInv` says that the terminal is settled and, while a key is
  awaited, which text each row shows. The lines end before the last row, so writing one
  never scrolls, even one as wide as the screen; the status line, padded to the end of the
  last row, scrolls exactly once.

Only model-checked: liveness, which is out of the prover's reach; the refinement
`ImplementsVolume`, whose mapping reads the volume's contents off the disk through
directories, pointers and blocks, and which holds only under the conditions of section 3; and the
run `functions`, whose operators are recursive, where induction over their arguments
would be needed.

## 7. Plan

Done: the filesystem, the heap, the console, parser and pipelines, the disk driver;
then swap files over the heap, the terminal with the line editor and the pager
over it, and the functions (numbers, formats, paths, surfaces).

Left, modelling: the dispatcher's table with several subscribers and
`interrupt_unsubscribe`; `LuxFS` over `AtaPio`, a failed access as the driver's
outcomes instead of as an assumption, and the consequences of `WriteMeansWritten` and
`ReadMeansRead` for a volume.

Left, proofs: the refinement of `Volume`, for roomy volumes, from `RecordsStay`,
`AlwaysTree` and `DiskIsSynced`.

## 8. Not modelled

Boot sector, mode switch and entry code (BIOS and hardware set-up, one path), the
pixels of glyphs and the font, and the timer's calibration: hardware set-up, data or
hardware time. `ls`, `meminfo` and `help` only write, and stand behind one action of
`ShellPipeline`. String primitives are sequences in the modules. The layouts' tables are
reduced to the keys the properties tell apart. `keyboard_poll_event` and
`keyboard_read_event` have no caller. Torn volumes are
not followed (section 3).
