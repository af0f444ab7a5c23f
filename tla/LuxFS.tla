------------------------------- MODULE LuxFS -------------------------------
(***************************************************************************)
(* The LuxFS filesystem of the kernel (kernel/fs/fs.c): an in-memory copy  *)
(* of the metadata (g_fs), the sectors of the volume, and the calls        *)
(* fs_mount, fs_touch, fs_mkdir, fs_write, fs_read, fs_list, fs_stat_path. *)
(*                                                                         *)
(* The filesystem has no journal and no ordering other than program order, *)
(* so an action is ONE sector write together with the assignments to g_fs  *)
(* around it. Every sector access can fail (ata_pio_read and ata_pio_write *)
(* return false), and the power can go between any two writes; memory is   *)
(* then lost and the sectors stay.                                         *)
(*                                                                         *)
(* Bytes are grouped into units: a directory record (inode number, name)   *)
(* is two units, a sector SectorSize units. With SectorSize odd a record   *)
(* straddles two sectors, as the 36-byte record does in 512-byte sectors.  *)
(***************************************************************************)
EXTENDS Integers, Sequences, FiniteSets

CONSTANTS
  MaxInodes,       \* LUXFS_MAX_INODES
  InodesPerBlock,  \* LUXFS_INODES_PER_BLOCK: inodes that share a table sector
  DataBlocks,      \* LUXFS_DATA_BLOCK_COUNT
  DirectBlocks,    \* LUXFS_DIRECT_BLOCKS
  SectorSize,      \* ATA_SECTOR_SIZE, in units
  MaxPathDepth,    \* LUXFS_MAX_PATH_DEPTH
  Names,           \* file names short enough for a directory record
  Values,          \* file bytes
  Paths,           \* the paths callers pass
  Offsets,         \* the offsets callers pass to fs_write
  Lengths,         \* the lengths callers pass to fs_write
  MaxFaults,       \* bound: sector accesses that fail
  MaxCrashes       \* bound: power losses in the middle of a call

\* A path component is a name, ".", "..", or one too long for FS_NAME_MAX.
Components == Names \cup {".", "..", "long"}

ASSUME SizeAssumption ==
  /\ MaxInodes \in Nat \ {0}
  /\ InodesPerBlock \in Nat \ {0}
  /\ DataBlocks \in Nat \ {0}
  /\ DirectBlocks \in Nat \ {0}
  /\ SectorSize \in Nat \ {0}
  /\ MaxPathDepth \in Nat
  /\ Offsets \subseteq Nat
  /\ Lengths \subseteq Nat
  /\ MaxFaults \in Nat
  /\ MaxCrashes \in Nat

ASSUME NamesAssumption ==
  /\ Names \cap {".", "..", "long"} = {}
  /\ Paths \subseteq Seq(Components)

VARIABLES
  mounted,         \* g_fs.mounted
  inodes,          \* g_fs.inodes
  inode_bitmap,    \* g_fs.inode_bitmap, as the set of its one bits
  block_bitmap,    \* g_fs.block_bitmap, as the set of its one bits
  d_super,         \* sector 0 holds a superblock luxfs_validate_superblock accepts
  d_inode_bitmap,  \* sector 1
  d_block_bitmap,  \* sector 2
  d_inodes,        \* the inode table sectors
  d_data,          \* the data sectors
  pc,              \* the sector write the kernel is about to make
  c,               \* the arguments and locals of the call in progress
  faults, crashes, \* how much of MaxFaults and MaxCrashes is used
  torn             \* history: the metadata sectors were left contradicting each other

mem == <<mounted, inodes, inode_bitmap, block_bitmap>>
disk == <<d_super, d_inode_bitmap, d_block_bitmap, d_inodes, d_data>>
vars == <<mem, disk, pc, c, faults, crashes, torn>>

Inodes == 0 .. MaxInodes - 1
Blocks == 0 .. DataBlocks - 1
Slots == 0 .. DirectBlocks - 1
Units == 0 .. SectorSize - 1
INVALID == -1                    \* LUXFS_INVALID_BLOCK
NONE == -1                       \* no inode
Root == 0                        \* super.root_inode
RecordSize == 2                  \* sizeof(struct luxfs_dir_record)
MaxSize == DirectBlocks * SectorSize

Zero == <<"zero", 0>>
Cell == {Zero} \cup ({"ino"} \X Inodes) \cup ({"name"} \X Names)
               \cup ({"byte"} \X Values)
Sector == [Units -> Cell]
ZeroSector == [u \in Units |-> Zero]

Inode == [type : {"free", "dir", "file"}, size : Nat, parent : Inodes,
          direct : [Slots -> Blocks \cup {INVALID}]]

\* What zero-filled memory and zero-filled sectors hold. The direct pointers
\* of such an inode name block 0, not LUXFS_INVALID_BLOCK.
ZeroInode == [type |-> "free", size |-> 0, parent |-> 0,
              direct |-> [k \in Slots |-> 0]]

luxfs_inode_clear == [type |-> "free", size |-> 0, parent |-> 0,
                      direct |-> [k \in Slots |-> INVALID]]

\* What a lookup answers.
Found == Inodes \cup {NONE}

NoName == "none"
NoVal == "none"
Frame == [op : {"none", "touch", "mkdir", "write"}, dir : Found, ino : Found,
          name : Names \cup {NoName}, start : Nat, trunc : BOOLEAN, off : Nat,
          left : Nat, val : Values \cup {NoVal}, blk : Blocks \cup {INVALID},
          fresh : BOOLEAN, ok : BOOLEAN, ret : BOOLEAN]
NoCall == [op |-> "none", dir |-> NONE, ino |-> NONE, name |-> NoName,
           start |-> 0, trunc |-> FALSE, off |-> 0, left |-> 0, val |-> NoVal,
           blk |-> INVALID, fresh |-> FALSE, ok |-> TRUE, ret |-> FALSE]

FormatPcs == {"fmt_super", "fmt_ibm", "fmt_bbm", "fmt_itab"}
Pcs == FormatPcs \cup {"off", "idle", "ret", "ai_bitmap", "ai_inode", "ap", "ap_bitmap",
         "ap_zero", "ap_inode", "rl", "un_inode", "un_bitmap", "wr", "wr_bitmap", "wr_inode"}

-----------------------------------------------------------------------------
(* Reading the volume: path lookup, directories, files.                    *)

\* The cell a node stores at an offset; blocks are visited in order, so an
\* offset is reached only if every block before it is there.
Reachable(node, o) == \A k \in 0 .. o \div SectorSize :
                        k \in Slots /\ node.direct[k] # INVALID
CellAt(node, o) == d_data[node.direct[o \div SectorSize]][o % SectorSize]

\* On a volume that is not torn every record is one luxfs_dir_append_record
\* wrote. On a torn one a directory's block may hold a file's bytes, and
\* luxfs_resolve indexes g_fs.inodes with whatever they spell: that is
\* undefined, and NONE stands for it. So what the model does on a torn volume
\* is no claim about the code: the properties are about the others, and TypeOK,
\* which holds on all, says nothing of the code there.
RecordInode(cell) == IF cell[1] = "ino" THEN cell[2] ELSE NONE

\* The complete records the iteration hands to its callback, in order.
luxfs_dir_iterate(node) ==
  LET last(r) == r * RecordSize - 1
      complete == {r \in 1 .. node.size \div RecordSize : Reachable(node, last(r))}
  IN  [r \in 1 .. Cardinality(complete) |->
         [inode |-> RecordInode(CellAt(node, last(r) - 1)), name |-> CellAt(node, last(r))]]

\* Mutation: the search starts at the second record.
DirFindSkipsFirst(d, name) ==
  LET records == luxfs_dir_iterate(inodes[d])
      hits == {r \in DOMAIN records : r > 1 /\ records[r].name = <<"name", name>>}
  IN  IF inodes[d].type # "dir" \/ hits = {} THEN NONE
      ELSE records[CHOOSE r \in hits : \A q \in hits : r <= q].inode

luxfs_dir_find(d, name) ==
  LET records == luxfs_dir_iterate(inodes[d])
      hits == {r \in DOMAIN records : records[r].name = <<"name", name>>}
  IN  IF inodes[d].type # "dir" \/ hits = {} THEN NONE
      ELSE records[CHOOSE r \in hits : \A q \in hits : r <= q].inode

\* Empty components are dropped with the slashes, and "." as well: the tokens
\* are the positions of the others. The depth is tested before each component
\* is read, so a "." after MaxPathDepth names is refused too.
luxfs_tokenize_path(path) ==
  LET tokens == {i \in 1 .. Len(path) : path[i] # "."}
  IN  [ok |-> \A i \in 1 .. Len(path) :
                /\ path[i] # "long"
                /\ Cardinality({j \in tokens : j < i}) < MaxPathDepth,
       tokens |-> tokens]

\* ".." moves to the parent of any inode; a name must be found.
luxfs_resolve(path) ==
  LET walk[k \in 0 .. Len(path)] ==
        IF k = 0 THEN Root
        ELSE IF walk[k - 1] = NONE \/ path[k] = "." THEN walk[k - 1]
        ELSE IF path[k] = ".." THEN inodes[walk[k - 1]].parent
        ELSE luxfs_dir_find(walk[k - 1], path[k])
  IN  IF luxfs_tokenize_path(path).ok THEN walk[Len(path)] ELSE NONE

LastToken(path) == LET tokens == luxfs_tokenize_path(path).tokens
                   IN  CHOOSE i \in tokens : \A j \in tokens : j <= i
Leaf(path) == path[LastToken(path)]

\* The same walk over all tokens but the last, through directories only.
luxfs_resolve_parent(path) ==
  LET t == luxfs_tokenize_path(path)
      directory(i) == IF i # NONE /\ inodes[i].type = "dir" THEN i ELSE NONE
      walk[k \in 0 .. Len(path)] ==
        IF k = 0 THEN Root
        ELSE IF walk[k - 1] = NONE \/ path[k] = "." THEN walk[k - 1]
        ELSE IF path[k] = ".." THEN inodes[walk[k - 1]].parent
        ELSE directory(luxfs_dir_find(walk[k - 1], path[k]))
  IN  IF t.ok /\ t.tokens # {} THEN walk[LastToken(path) - 1] ELSE NONE

\* A lookup that reads at least one sector can fail with a read error, which
\* luxfs_dir_find reports exactly as it reports a missing name. The first
\* name of a path is always looked up in the root.
Misses(path) ==
  LET tokens == luxfs_tokenize_path(path).tokens
      names == {k \in tokens : path[k] # ".."}
  IN  (IF inodes[Root].size > 0 /\ names # {} THEN {"resolve"} ELSE {})
      \cup (IF inodes[Root].size > 0 /\ (\E k \in names : k # LastToken(path))
            THEN {"parent"} ELSE {})
      \cup (IF luxfs_resolve_parent(path) # NONE
               /\ inodes[luxfs_resolve_parent(path)].size > 0 THEN {"find"} ELSE {})

\* The set of lookups of one call whose sector reads fail.
ReadFaults(missed) == /\ faults' = faults + Cardinality(missed)
                      /\ faults' \in faults .. MaxFaults

\* The bytes fs_read copies out and counts: it stops at the end of the file
\* or at the first block that is not there.
fs_read(path, offset, length) ==
  LET i == luxfs_resolve(path)
      avail == {o \in offset .. offset + length - 1 :
                  o < inodes[i].size /\ Reachable(inodes[i], o)}
  IN  IF ~mounted \/ i = NONE THEN [ok |-> FALSE, bytes |-> <<>>]
      ELSE IF inodes[i].type # "file" THEN [ok |-> FALSE, bytes |-> <<>>]
      ELSE [ok |-> TRUE, bytes |-> [n \in 1 .. Cardinality(avail) |->
                                      CellAt(inodes[i], offset + n - 1)]]

fs_stat_path(path) ==
  LET i == luxfs_resolve(path)
  IN  IF ~mounted \/ i = NONE THEN [ok |-> FALSE]
      ELSE [ok |-> TRUE, is_dir |-> inodes[i].type = "dir", size |-> inodes[i].size]

\* The names fs_list emits for a directory: entries whose inode is free are
\* skipped.
fs_list(path) ==
  LET i == luxfs_resolve(path)
      records == luxfs_dir_iterate(inodes[i])
      live == {r \in DOMAIN records : /\ records[r].inode \in Inodes
                                      /\ inodes[records[r].inode].type # "free"}
  IN  IF ~mounted \/ i = NONE THEN {}
      ELSE IF inodes[i].type # "dir" THEN {}
      ELSE {records[r].name[2] : r \in live}

-----------------------------------------------------------------------------
(* Sector writes. Each is tried once: it reaches the sector, or it fails   *)
(* and leaves the sector as it was.                                        *)

Succeeds == UNCHANGED faults
Fails == faults < MaxFaults /\ faults' = faults + 1

luxfs_flush_superblock == d_super' = TRUE
luxfs_flush_inode_bitmap == d_inode_bitmap' = inode_bitmap
luxfs_flush_block_bitmap == d_block_bitmap' = block_bitmap

\* The table sector of an inode is written whole: its neighbours go with it.
luxfs_flush_inode_block(b) ==
  d_inodes' = [j \in Inodes |-> IF j \div InodesPerBlock = b
                               THEN inodes[j] ELSE d_inodes[j]]
luxfs_flush_inode(i) == luxfs_flush_inode_block(i \div InodesPerBlock)

disk_write_data_block(b, sector) == d_data' = [d_data EXCEPT ![b] = sector]

Goto(label) == pc' = label /\ UNCHANGED c
Return(v) == pc' = "ret" /\ c' = [c EXCEPT !.ret = v]

\* Inodes whose sector points to a block that memory no longer gives them.
Stale == {i \in Inodes : \E k \in Slots : d_inodes[i].direct[k]
            \notin {INVALID} \cup {inodes[i].direct[l] : l \in Slots}}

\* Stopping now leaves metadata sectors that contradict each other: a format
\* that is under way, or blocks that are free but still pointed to.
Tears == \/ pc \in FormatPcs \ {"fmt_super"}
         \/ mounted /\ Stale # {}

-----------------------------------------------------------------------------
(* Mounting, formatting, and losing power.                                 *)

\* The image is built zero-filled, and memory starts zeroed at every boot.
Init ==
  /\ mounted = FALSE
  /\ inodes = [i \in Inodes |-> ZeroInode]
  /\ inode_bitmap = {} /\ block_bitmap = {}
  /\ d_super = FALSE
  /\ d_inode_bitmap = {} /\ d_block_bitmap = {}
  /\ d_inodes = [i \in Inodes |-> ZeroInode]
  /\ d_data = [b \in Blocks |-> ZeroSector]
  /\ pc = "off" /\ c = NoCall
  /\ faults = 0 /\ crashes = 0 /\ torn = FALSE

\* The image luxfs_format builds in memory before it writes any sector.
FormatImage ==
  /\ inodes' = [[i \in Inodes |-> luxfs_inode_clear] EXCEPT ![Root].type = "dir"]
  /\ inode_bitmap' = {Root}
  /\ block_bitmap' = {}

\* fs_mount at boot. With no usable device the volume stays unmounted; a
\* sector of the metadata that cannot be read, like a superblock that does
\* not validate, leads to luxfs_format.
fs_mount ==
  /\ pc = "off"
  /\ UNCHANGED <<disk, c, crashes, torn>>
  /\ \/ Succeeds /\ pc' = "idle" /\ UNCHANGED mem          \* no device
     \/ /\ Succeeds /\ d_super
        /\ inodes' = d_inodes
        /\ inode_bitmap' = d_inode_bitmap
        /\ block_bitmap' = d_block_bitmap
        /\ mounted' = TRUE /\ pc' = "idle"
     \/ /\ \/ Succeeds /\ ~d_super
           \/ Fails
        /\ FormatImage
        /\ pc' = "fmt_super" /\ UNCHANGED mounted

\* A failed write ends the format; g_fs.mounted stays false.
FormatFails ==
  /\ pc \in FormatPcs
  /\ Fails
  /\ pc' = "idle" /\ c' = NoCall
  /\ torn' = (torn \/ Tears)
  /\ UNCHANGED <<mem, disk, crashes>>

FormatSuperblock ==
  /\ pc = "fmt_super"
  /\ luxfs_flush_superblock /\ Succeeds /\ Goto("fmt_ibm")
  /\ UNCHANGED <<mem, d_inode_bitmap, d_block_bitmap, d_inodes, d_data, crashes, torn>>

FormatInodeBitmap ==
  /\ pc = "fmt_ibm"
  /\ luxfs_flush_inode_bitmap /\ Succeeds /\ Goto("fmt_bbm")
  /\ UNCHANGED <<mem, d_super, d_block_bitmap, d_inodes, d_data, crashes, torn>>

FormatBlockBitmap ==
  /\ pc = "fmt_bbm"
  /\ luxfs_flush_block_bitmap /\ Succeeds /\ Goto("fmt_itab")
  /\ UNCHANGED <<mem, d_super, d_inode_bitmap, d_inodes, d_data, crashes, torn>>

\* One sector of the inode table (number c.off); the last one mounts.
FormatInodeTable ==
  /\ pc = "fmt_itab"
  /\ luxfs_flush_inode_block(c.off) /\ Succeeds
  /\ IF c.off = (MaxInodes - 1) \div InodesPerBlock
     THEN mounted' = TRUE /\ pc' = "idle" /\ c' = NoCall
     ELSE UNCHANGED <<mounted, pc>> /\ c' = [c EXCEPT !.off = c.off + 1]
  /\ UNCHANGED <<inodes, inode_bitmap, block_bitmap>>
  /\ UNCHANGED <<d_super, d_inode_bitmap, d_block_bitmap, d_data, crashes, torn>>

luxfs_format == \/ FormatSuperblock \/ FormatInodeBitmap \/ FormatBlockBitmap
                \/ FormatInodeTable \/ FormatFails

\* Memory is gone; the sectors are what they were.
LosePower ==
  /\ mounted' = FALSE
  /\ inodes' = [i \in Inodes |-> ZeroInode]
  /\ inode_bitmap' = {} /\ block_bitmap' = {}
  /\ pc' = "off" /\ c' = NoCall
  /\ torn' = (torn \/ Tears)
  /\ UNCHANGED <<disk, faults>>

\* The shutdown command between two calls: no flush, no unmount.
shutdown == pc = "idle" /\ LosePower /\ UNCHANGED crashes

\* Power lost in the middle of a call.
Crash ==
  /\ pc \notin {"off", "idle", "ret"}
  /\ crashes < MaxCrashes /\ crashes' = crashes + 1
  /\ LosePower

-----------------------------------------------------------------------------
(* fs_touch and fs_mkdir: look the path up, allocate an inode, append a    *)
(* record to the parent, and undo the inode if the record does not fit.    *)

IsFirst(x, S) == \A y \in S : x <= y
FreeInodes == Inodes \ inode_bitmap
FreeBlocks == Blocks \ block_bitmap

\* The call returns without having changed anything.
Answer(op, i, v) == /\ pc' = "ret"
                    /\ c' = [NoCall EXCEPT !.op = op, !.ino = i, !.ret = v]
                    /\ UNCHANGED mem

\* luxfs_alloc_inode up to its first sector write.
luxfs_alloc_inode(op, type, parent, name) ==
  \E i \in FreeInodes :
    /\ IsFirst(i, FreeInodes)
    /\ inodes' = [inodes EXCEPT
         ![i] = [luxfs_inode_clear EXCEPT !.type = type, !.parent = parent]]
    /\ inode_bitmap' = inode_bitmap \cup {i}
    /\ c' = [NoCall EXCEPT !.op = op, !.dir = parent, !.ino = i, !.name = name]
    /\ pc' = "ai_bitmap"
    /\ UNCHANGED <<mounted, block_bitmap>>

\* The body fs_touch and fs_mkdir share; they differ in the inode's type and
\* in what they answer for a path that is already there.
CreateCall(op, type, path) ==
  /\ pc = "idle"
  /\ UNCHANGED <<disk, crashes, torn>>
  /\ \E missed \in SUBSET Misses(path), existing, parent, found \in Found :
       /\ ReadFaults(missed)
       /\ existing = IF "resolve" \in missed THEN NONE ELSE luxfs_resolve(path)
       /\ parent = IF "parent" \in missed THEN NONE ELSE luxfs_resolve_parent(path)
       /\ found = IF "find" \in missed \/ parent = NONE THEN NONE
                  ELSE luxfs_dir_find(parent, Leaf(path))
       /\ IF ~mounted THEN Answer(op, NONE, FALSE)
          ELSE IF existing # NONE THEN Answer(op, existing, op = "touch" /\ inodes[existing].type = "file")
          ELSE IF parent = NONE \/ Leaf(path) \notin Names THEN Answer(op, NONE, FALSE)
          ELSE IF found # NONE THEN Answer(op, found, op = "touch")
          ELSE IF FreeInodes = {} THEN Answer(op, NONE, FALSE)
          ELSE luxfs_alloc_inode(op, type, parent, Leaf(path))

fs_touch(path) == CreateCall("touch", "file", path)

fs_mkdir(path) == CreateCall("mkdir", "dir", path)

\* A failed flush abandons the inode, its bit still set in memory.
AllocInodeBitmap ==
  /\ pc = "ai_bitmap"
  /\ \/ luxfs_flush_inode_bitmap /\ Succeeds /\ Goto("ai_inode")
     \/ UNCHANGED d_inode_bitmap /\ Fails /\ Return(FALSE)
  /\ UNCHANGED <<mem, d_super, d_block_bitmap, d_inodes, d_data, crashes, torn>>

\* Mutation: the record is appended to the parent with the inode not flushed.
AllocInodeUnflushed ==
  /\ pc = "ai_inode"
  /\ Succeeds /\ pc' = "ap"
  /\ c' = [c EXCEPT !.off = inodes[c.dir].size, !.left = RecordSize]
  /\ UNCHANGED <<mem, disk, crashes, torn>>

AllocInodeFlush ==
  /\ pc = "ai_inode"
  /\ \/ /\ luxfs_flush_inode(c.ino) /\ Succeeds
        /\ pc' = "ap"
        /\ c' = [c EXCEPT !.off = inodes[c.dir].size, !.left = RecordSize]
     \/ UNCHANGED d_inodes /\ Fails /\ Return(FALSE)
  /\ UNCHANGED <<mem, d_super, d_inode_bitmap, d_block_bitmap, d_data, crashes, torn>>

\* The slot and the position the loops of luxfs_dir_append_record and
\* fs_write have reached, and how much of the sector they fill.
Slot == c.off \div SectorSize
At == c.off % SectorSize

\* Mutations: the rest of the sector whatever is left to write; one unit less.
ChunkUnclamped == SectorSize - At
ChunkShort == IF SectorSize - 1 - At > c.left THEN c.left ELSE SectorSize - 1 - At

Chunk == IF SectorSize - At > c.left THEN c.left ELSE SectorSize - At

\* luxfs_alloc_block up to its sector write.
luxfs_alloc_block(label) ==
  /\ \E b \in FreeBlocks : /\ IsFirst(b, FreeBlocks)
                           /\ block_bitmap' = block_bitmap \cup {b}
                           /\ c' = [c EXCEPT !.blk = b]
  /\ pc' = label
  /\ UNCHANGED <<mounted, inodes, inode_bitmap>>

\* The parent is not a directory, is full, or needs a block and none is free.
AppendRefused ==
  /\ pc = "ap"
  /\ \/ inodes[c.dir].type # "dir"
     \/ Slot >= DirectBlocks
     \/ Slot < DirectBlocks /\ inodes[c.dir].direct[Slot] = INVALID /\ FreeBlocks = {}
  /\ Succeeds /\ Goto("rl")
  /\ UNCHANGED <<mem, disk, crashes, torn>>

AppendAllocates ==
  /\ pc = "ap" /\ inodes[c.dir].type = "dir" /\ Slot < DirectBlocks
  /\ inodes[c.dir].direct[Slot] = INVALID /\ FreeBlocks # {}
  /\ luxfs_alloc_block("ap_bitmap") /\ Succeeds
  /\ UNCHANGED <<disk, crashes, torn>>

AppendBlockBitmap ==
  /\ pc = "ap_bitmap"
  /\ \/ luxfs_flush_block_bitmap /\ Succeeds /\ Goto("ap_zero")
     \/ UNCHANGED d_block_bitmap /\ Fails /\ Goto("rl")
  /\ UNCHANGED <<mem, d_super, d_inode_bitmap, d_inodes, d_data, crashes, torn>>

\* The new block is zeroed before the directory points to it.
AppendZeroes ==
  /\ pc = "ap_zero"
  /\ \/ /\ disk_write_data_block(c.blk, ZeroSector) /\ Succeeds
        /\ inodes' = [inodes EXCEPT ![c.dir].direct[Slot] = c.blk]
        /\ pc' = "ap" /\ c' = [c EXCEPT !.blk = INVALID]
     \/ UNCHANGED <<d_data, inodes>> /\ Fails /\ Goto("rl")
  /\ UNCHANGED <<mounted, inode_bitmap, block_bitmap>>
  /\ UNCHANGED <<d_super, d_inode_bitmap, d_block_bitmap, d_inodes, crashes, torn>>

\* One part of the record: read the sector, patch it, write it back. After
\* the last part the directory grows, in memory.
RecordCell(n) == IF n = 0 THEN <<"ino", c.ino>> ELSE <<"name", c.name>>

\* Mutation: the sector is not read before it is patched.
AppendPatchesUnread ==
  /\ pc = "ap" /\ inodes[c.dir].type = "dir" /\ Slot < DirectBlocks
  /\ inodes[c.dir].direct[Slot] # INVALID
  /\ LET b == inodes[c.dir].direct[Slot]
         patched == [u \in Units |-> IF u \in At .. At + Chunk - 1
                                    THEN RecordCell(RecordSize - c.left + u - At)
                                    ELSE Zero]
     IN  /\ disk_write_data_block(b, patched) /\ Succeeds
         /\ c' = [c EXCEPT !.off = c.off + Chunk, !.left = c.left - Chunk]
         /\ IF Chunk = c.left
            THEN /\ inodes' = [inodes EXCEPT ![c.dir].size = @ + RecordSize]
                 /\ pc' = "ap_inode"
            ELSE UNCHANGED <<inodes, pc>>
  /\ UNCHANGED <<mounted, inode_bitmap, block_bitmap>>
  /\ UNCHANGED <<d_super, d_inode_bitmap, d_block_bitmap, d_inodes, crashes, torn>>

AppendPatches ==
  /\ pc = "ap" /\ inodes[c.dir].type = "dir" /\ Slot < DirectBlocks
  /\ inodes[c.dir].direct[Slot] # INVALID
  /\ LET b == inodes[c.dir].direct[Slot]
         patched == [u \in Units |-> IF u \in At .. At + Chunk - 1
                                    THEN RecordCell(RecordSize - c.left + u - At)
                                    ELSE d_data[b][u]]
     IN  \/ /\ disk_write_data_block(b, patched) /\ Succeeds
            /\ c' = [c EXCEPT !.off = c.off + Chunk, !.left = c.left - Chunk]
            /\ IF Chunk = c.left
               THEN /\ inodes' = [inodes EXCEPT ![c.dir].size = @ + RecordSize]
                    /\ pc' = "ap_inode"
               ELSE UNCHANGED <<inodes, pc>>
         \/ UNCHANGED <<d_data, inodes>> /\ Fails /\ Goto("rl")
  /\ UNCHANGED <<mounted, inode_bitmap, block_bitmap>>
  /\ UNCHANGED <<d_super, d_inode_bitmap, d_block_bitmap, d_inodes, crashes, torn>>

AppendInode ==
  /\ pc = "ap_inode"
  /\ \/ luxfs_flush_inode(c.dir) /\ Succeeds /\ Return(TRUE)
     \/ UNCHANGED d_inodes /\ Fails /\ Goto("rl")
  /\ UNCHANGED <<mem, d_super, d_inode_bitmap, d_block_bitmap, d_data, crashes, torn>>

luxfs_dir_append_record ==
  \/ AppendRefused \/ AppendAllocates \/ AppendBlockBitmap
  \/ AppendZeroes \/ AppendPatches \/ AppendInode

-----------------------------------------------------------------------------
(* Releasing the blocks of an inode: for a truncating fs_write, and for    *)
(* luxfs_mark_inode_free when a new inode could not be entered.            *)

HeldSlots == {k \in Slots : inodes[c.ino].direct[k] # INVALID}

\* Mutation: a pointer whose bit could not be flushed as free is kept.
ReleaseBlockKeepsPointer ==
  /\ pc = "rl"
  /\ \E k \in HeldSlots :
       LET b == inodes[c.ino].direct[k]
       IN  /\ IsFirst(k, HeldSlots)
           /\ block_bitmap' = block_bitmap \ {b}
           /\ \/ /\ d_block_bitmap' = block_bitmap \ {b}
                 /\ inodes' = [inodes EXCEPT ![c.ino].direct[k] = INVALID]
                 /\ Succeeds /\ UNCHANGED <<c, pc>>
              \/ UNCHANGED <<d_block_bitmap, inodes>> /\ Fails /\ Return(FALSE)
  /\ UNCHANGED <<mounted, inode_bitmap>>
  /\ UNCHANGED <<d_super, d_inode_bitmap, d_inodes, d_data, crashes, torn>>

\* One iteration: luxfs_free_block clears the bit and flushes the bitmap; the
\* pointer is dropped in memory whether or not the flush succeeded.
ReleaseBlock ==
  /\ pc = "rl"
  /\ \E k \in HeldSlots :
       LET b == inodes[c.ino].direct[k]
       IN  /\ IsFirst(k, HeldSlots)
           /\ inodes' = [inodes EXCEPT ![c.ino].direct[k] = INVALID]
           /\ block_bitmap' = block_bitmap \ {b}
           /\ \/ /\ d_block_bitmap' = IF b \in block_bitmap THEN block_bitmap \ {b}
                                       ELSE d_block_bitmap
                 /\ Succeeds /\ UNCHANGED c
              \/ /\ b \in block_bitmap
                 /\ UNCHANGED d_block_bitmap /\ Fails
                 /\ c' = [c EXCEPT !.ok = FALSE]
  /\ UNCHANGED <<mounted, inode_bitmap, pc>>
  /\ UNCHANGED <<d_super, d_inode_bitmap, d_inodes, d_data, crashes, torn>>

\* Mutation: the size is reset only when every block was released.
ReleasedKeepsSize ==
  /\ pc = "rl" /\ HeldSlots = {} /\ c.op = "write"
  /\ IF ~c.ok THEN UNCHANGED inodes /\ Return(FALSE)
     ELSE /\ inodes' = [inodes EXCEPT ![c.ino].size = 0]
          /\ Goto(IF c.left = 0 THEN "wr_inode" ELSE "wr")
  /\ Succeeds
  /\ UNCHANGED <<mounted, inode_bitmap, block_bitmap, disk, crashes, torn>>

\* fs_write goes on if every block was released, and otherwise returns with
\* the inode not flushed.
ReleasedForWrite ==
  /\ pc = "rl" /\ HeldSlots = {} /\ c.op = "write"
  /\ inodes' = [inodes EXCEPT ![c.ino].size = 0]
  /\ IF ~c.ok THEN Return(FALSE)
     ELSE Goto(IF c.left = 0 THEN "wr_inode" ELSE "wr")
  /\ Succeeds
  /\ UNCHANGED <<mounted, inode_bitmap, block_bitmap, disk, crashes, torn>>

ReleasedForFree ==
  /\ pc = "rl" /\ HeldSlots = {} /\ c.op # "write"
  /\ inodes' = [inodes EXCEPT ![c.ino] = luxfs_inode_clear]
  /\ inode_bitmap' = inode_bitmap \ {c.ino}
  /\ Goto("un_inode") /\ Succeeds
  /\ UNCHANGED <<mounted, block_bitmap, disk, crashes, torn>>

\* luxfs_mark_inode_free ignores the results of its two flushes.
FreeInodeFlush ==
  /\ pc = "un_inode"
  /\ \/ luxfs_flush_inode(c.ino) /\ Succeeds
     \/ UNCHANGED d_inodes /\ Fails
  /\ Goto("un_bitmap")
  /\ UNCHANGED <<mem, d_super, d_inode_bitmap, d_block_bitmap, d_data, crashes, torn>>

\* Mutation: the bitmap that gives the inode back is not flushed.
FreeInodeUnflushed ==
  /\ pc = "un_bitmap"
  /\ Succeeds /\ Return(FALSE)
  /\ UNCHANGED <<mem, disk, crashes, torn>>

FreeInodeBitmap ==
  /\ pc = "un_bitmap"
  /\ \/ luxfs_flush_inode_bitmap /\ Succeeds
     \/ UNCHANGED d_inode_bitmap /\ Fails
  /\ Return(FALSE)
  /\ UNCHANGED <<mem, d_super, d_block_bitmap, d_inodes, d_data, crashes, torn>>

luxfs_mark_inode_free == ReleasedForFree \/ FreeInodeFlush \/ FreeInodeBitmap

-----------------------------------------------------------------------------
(* fs_write: truncate if asked, then fill sector by sector.                *)

\* Mutation: the offset is not compared with the size of the file.
WriteAnyOffset(path, offset, length, val, truncate) ==
  /\ pc = "idle"
  /\ UNCHANGED <<mem, disk, crashes, torn>>
  /\ \E i \in Found :
       LET refused == \/ ~mounted
                      \/ offset > MaxSize \/ length > MaxSize - offset
                      \/ i = NONE
                      \/ inodes[i].type # "file"
       IN  /\ i = luxfs_resolve(path) /\ Succeeds
           /\ IF refused THEN Answer("write", NONE, FALSE)
              ELSE /\ c' = [NoCall EXCEPT !.op = "write", !.ino = i, !.start = offset,
                                         !.trunc = truncate, !.off = offset,
                                         !.left = length, !.val = val]
                   /\ pc' = IF truncate THEN "rl"
                            ELSE IF length = 0 THEN "wr_inode" ELSE "wr"

fs_write(path, offset, length, val, truncate) ==
  /\ pc = "idle"
  /\ UNCHANGED <<mem, disk, crashes, torn>>
  /\ \E missed \in SUBSET (Misses(path) \cap {"resolve"}), i \in Found :
       LET refused == \/ ~mounted
                      \/ offset > MaxSize \/ length > MaxSize - offset
                      \/ i = NONE
                      \/ inodes[i].type # "file"
                      \/ ~truncate /\ offset > inodes[i].size
       IN  /\ ReadFaults(missed)
           /\ i = IF "resolve" \in missed THEN NONE ELSE luxfs_resolve(path)
           /\ IF refused THEN Answer("write", NONE, FALSE)
              ELSE /\ c' = [NoCall EXCEPT !.op = "write", !.ino = i, !.start = offset,
                                         !.trunc = truncate, !.off = offset,
                                         !.left = length, !.val = val]
                   /\ pc' = IF truncate THEN "rl"
                            ELSE IF length = 0 THEN "wr_inode" ELSE "wr"

\* Mutation: a write that found no block answers like one that is through.
WriteNoSpaceTrue ==
  /\ pc = "wr" /\ inodes[c.ino].direct[Slot] = INVALID /\ FreeBlocks = {}
  /\ Succeeds /\ Return(TRUE)
  /\ UNCHANGED <<mem, disk, crashes, torn>>

WriteNoSpace ==
  /\ pc = "wr" /\ inodes[c.ino].direct[Slot] = INVALID /\ FreeBlocks = {}
  /\ Succeeds /\ Return(FALSE)
  /\ UNCHANGED <<mem, disk, crashes, torn>>

WriteAllocates ==
  /\ pc = "wr" /\ inodes[c.ino].direct[Slot] = INVALID /\ FreeBlocks # {}
  /\ luxfs_alloc_block("wr_bitmap") /\ Succeeds
  /\ UNCHANGED <<disk, crashes, torn>>

WriteBlockBitmap ==
  /\ pc = "wr_bitmap"
  /\ \/ /\ luxfs_flush_block_bitmap /\ Succeeds
        /\ inodes' = [inodes EXCEPT ![c.ino].direct[Slot] = c.blk]
        /\ pc' = "wr" /\ c' = [c EXCEPT !.blk = INVALID, !.fresh = TRUE]
     \/ UNCHANGED <<d_block_bitmap, inodes>> /\ Fails /\ Return(FALSE)
  /\ UNCHANGED <<mounted, inode_bitmap, block_bitmap>>
  /\ UNCHANGED <<d_super, d_inode_bitmap, d_inodes, d_data, crashes, torn>>

\* One sector of the data. A block the loop has just allocated starts from a
\* zeroed buffer, any other from what the sector holds. After the last sector
\* the size grows, in memory.
WritePatches ==
  /\ pc = "wr" /\ inodes[c.ino].direct[Slot] # INVALID
  /\ LET b == inodes[c.ino].direct[Slot]
         patched == [u \in Units |-> IF u \in At .. At + Chunk - 1 THEN <<"byte", c.val>>
                                    ELSE IF c.fresh THEN Zero ELSE d_data[b][u]]
         end == c.off + Chunk
     IN  \/ /\ disk_write_data_block(b, patched) /\ Succeeds
            /\ c' = [c EXCEPT !.off = end, !.left = c.left - Chunk, !.fresh = FALSE]
            /\ IF Chunk = c.left
               THEN /\ inodes' = [inodes EXCEPT ![c.ino].size = IF end > @ THEN end ELSE @]
                    /\ pc' = "wr_inode"
               ELSE UNCHANGED <<inodes, pc>>
         \/ UNCHANGED <<d_data, inodes>> /\ Fails /\ Return(FALSE)
  /\ UNCHANGED <<mounted, inode_bitmap, block_bitmap>>
  /\ UNCHANGED <<d_super, d_inode_bitmap, d_block_bitmap, d_inodes, crashes, torn>>

\* Mutation: an inode whose size did not grow is not flushed.
WriteInodeIfGrown ==
  /\ pc = "wr_inode"
  /\ IF inodes[c.ino].size > d_inodes[c.ino].size THEN luxfs_flush_inode(c.ino)
     ELSE UNCHANGED d_inodes
  /\ Succeeds /\ Return(TRUE)
  /\ UNCHANGED <<mem, d_super, d_inode_bitmap, d_block_bitmap, d_data, crashes, torn>>

WriteInode ==
  /\ pc = "wr_inode"
  /\ \/ luxfs_flush_inode(c.ino) /\ Succeeds /\ Return(TRUE)
     \/ UNCHANGED d_inodes /\ Fails /\ Return(FALSE)
  /\ UNCHANGED <<mem, d_super, d_inode_bitmap, d_block_bitmap, d_data, crashes, torn>>

\* The call gives its result to the caller.
Returns ==
  /\ pc = "ret"
  /\ pc' = "idle" /\ c' = NoCall
  /\ UNCHANGED <<mem, disk, faults, crashes, torn>>

-----------------------------------------------------------------------------
\* What the shell and its commands ask for; they truncate only at offset 0.
Call == \E path \in Paths :
          \/ fs_touch(path)
          \/ fs_mkdir(path)
          \/ \E off \in Offsets, len \in Lengths, v \in Values, t \in BOOLEAN :
               (t => off = 0) /\ fs_write(path, off, len, v, t)

\* The steps of a call or a boot that has begun; nothing but power loss can
\* stop them, since the kernel has one thread and polls the device.
Running ==
  \/ luxfs_format
  \/ AllocInodeBitmap \/ AllocInodeFlush
  \/ luxfs_dir_append_record
  \/ ReleaseBlock \/ ReleasedForWrite \/ luxfs_mark_inode_free
  \/ WriteNoSpace \/ WriteAllocates \/ WriteBlockBitmap \/ WritePatches \/ WriteInode
  \/ Returns

Next == fs_mount \/ Call \/ Running \/ shutdown \/ Crash

Spec == Init /\ [][Next]_vars
FairSpec == Spec /\ WF_vars(Running)

-----------------------------------------------------------------------------
(* Properties.                                                             *)

FlagType == mounted \in BOOLEAN /\ d_super \in BOOLEAN /\ torn \in BOOLEAN

MemType == /\ inodes \in [Inodes -> Inode]
           /\ inode_bitmap \subseteq Inodes
           /\ block_bitmap \subseteq Blocks

DiskType == /\ d_inode_bitmap \subseteq Inodes
            /\ d_block_bitmap \subseteq Blocks
            /\ d_inodes \in [Inodes -> Inode]
            /\ d_data \in [Blocks -> Sector]

CallType == pc \in Pcs /\ c \in Frame

BudgetType == faults \in 0 .. MaxFaults /\ crashes \in 0 .. MaxCrashes

\* Type correctness of g_fs, the sectors and the locals of the call.
TypeOK == FlagType /\ MemType /\ DiskType /\ CallType /\ BudgetType

\* No data block belongs to two inodes or to two slots of one, and a block
\* that is pointed to is never one luxfs_alloc_block can hand out again. The
\* bitmap and the inode table are separate sectors written at separate times
\* by luxfs_alloc_block, luxfs_free_block and luxfs_flush_inode, any of which
\* can fail, and a reboot reloads whatever mixture reached the disk.
CrossLinkFree ==
  mounted /\ ~torn =>
    \A i \in Inodes, k \in Slots : inodes[i].direct[k] # INVALID =>
       /\ inodes[i].direct[k] \in block_bitmap
       /\ \A j \in Inodes, l \in Slots :
            inodes[j].direct[l] = inodes[i].direct[k] => i = j /\ k = l

\* Between calls a file has as many readable bytes as fs_stat_path reports:
\* fs_read, which stops silently at a missing block, never comes up short,
\* whichever writes failed or were cut off before, as long as the volume is
\* not torn (fs_write sets the size after the blocks,
\* luxfs_release_inode_blocks drops the blocks first).
StatReadAgree ==
  pc = "idle" /\ ~torn =>
    \A path \in Paths :
      LET s == fs_stat_path(path)
      IN  s.ok => s.is_dir \/ Len(fs_read(path, 0, s.size).bytes) = s.size

Records(table, d) == IF table[d].type = "dir" THEN luxfs_dir_iterate(table[d]) ELSE <<>>
Entries(table) ==
  UNION {LET records == Records(table, d)
         IN  {[dir |-> d, name |-> records[r].name[2], inode |-> records[r].inode] :
                r \in DOMAIN records} : d \in Inodes}

\* The volume is a tree: every record names an allocated inode whose parent
\* field is the directory holding the record, and no inode has two records.
\* fs_touch and fs_mkdir write the bitmap, the inode, the record and the
\* directory in four or more sectors, and the power can go between any two.
TreeShaped ==
  mounted /\ ~torn /\ faults = 0 =>
    /\ \A e \in Entries(inodes) : /\ e.inode \in inode_bitmap \ {Root}
                                  /\ inodes[e.inode].type # "free"
                                  /\ inodes[e.inode].parent = e.dir
    /\ \A d \in Inodes :
         LET records == Records(inodes, d)
         IN  \A r, q \in DOMAIN records : records[r].inode = records[q].inode => r = q

\* A directory never holds two records of one name (fs_mkdir: "Fails if ...
\* an entry with the same name already exists").
NamesUnique ==
  mounted /\ ~torn =>
    \A d \in Inodes :
      LET records == Records(inodes, d)
      IN  \A r, q \in DOMAIN records : records[r].name = records[q].name => r = q

\* ls and open agree: between calls the names fs_list shows in a directory are
\* the ones that resolve there, although fs_list reads every record and skips
\* free inodes while luxfs_dir_find takes the first record of the name.
ListStatAgree ==
  pc = "idle" /\ mounted /\ ~torn /\ faults = 0 =>
    \A path \in Paths, name \in Names :
      LET s == fs_stat_path(path)
          entry == Append(path, name)
      IN  s.ok /\ luxfs_tokenize_path(entry).ok =>
            (name \in fs_list(path) <=> s.is_dir /\ fs_stat_path(entry).ok)

\* Every inode can have all its blocks at once, and a power loss costs the
\* blocks of one call, which stay marked: no write runs out of space.
Roomy == DataBlocks >= (MaxInodes + MaxCrashes) * DirectBlocks

\* Between calls the disk has what memory has, so the shutdown command, which
\* powers off without a sync, loses no name and no directory, even after
\* creates that failed half way. The same goes for the files of a volume that
\* never runs out of blocks; a fs_write that does (it returns without a flush)
\* leaves the disk with the inode its file had before.
Synced ==
  pc = "idle" /\ mounted /\ ~torn /\ faults = 0 =>
    /\ d_inode_bitmap = inode_bitmap
    /\ d_block_bitmap = block_bitmap
    /\ \A i \in Inodes : /\ d_inodes[i].type = inodes[i].type
                         /\ d_inodes[i].parent = inodes[i].parent
                         /\ Roomy \/ inodes[i].type # "file" => d_inodes[i] = inodes[i]

\* An inode that is taken has an entry: a create that finds the directory or
\* the volume full gives its inode back, in memory and on disk, however many
\* creates fail, so failed creates cannot use up the inodes.
NoOrphans ==
  pc = "idle" /\ mounted /\ faults = 0 /\ crashes = 0 =>
    inode_bitmap = {Root} \cup {e.inode : e \in Entries(inodes)}

\* A record that reached the disk stays there: no later call, failed sector
\* write, power loss or reboot removes it; only luxfs_format does.
EntriesDurable ==
  [][~torn /\ pc \notin FormatPcs => Entries(d_inodes) \subseteq Entries(d_inodes)']_vars

\* Every call and every format ends: it returns, or the power goes.
CallsReturn == pc \notin {"off", "idle"} ~> pc \in {"off", "idle"}

(* Sentences of the source that the code does not keep (README, section 4). *)

\* A fs_touch or fs_mkdir that got as far as making a record and then
\* answered false has left no entry of that name behind.
FailedCreateInvisible ==
  pc = "ret" /\ c.op \in {"touch", "mkdir"} /\ c.name # NoName /\ ~c.ret =>
    luxfs_dir_find(c.dir, c.name) = NONE

\* fs_touch answers true only for a regular file (its comment: "Fails if an
\* existing entry at the path is not a regular file").
TouchAnswersFile ==
  pc = "ret" /\ c.op = "touch" /\ c.ret => inodes[c.ino].type = "file"

\* fs_mount answers true only for a volume that is ready: its root is a
\* directory.
MountedMeansReady == mounted => inodes[Root].type = "dir"

\* "The first mount formats the region if no superblock exists": a volume
\* whose superblock is valid is never formatted.
ValidVolumeKept == [][pc = "off" /\ d_super => pc' \notin FormatPcs]_vars
=============================================================================
