----------------------------- MODULE LuxFSProofs ----------------------------
(***************************************************************************)
(* Proofs about LuxFS, for volumes of any size, any number of failing      *)
(* sector accesses and any number of power losses.                         *)
(*                                                                         *)
(* First the types and the lookups. Then the data blocks an inode has:     *)
(* LuxFS never gives a block to two owners (CrossLinkFree), and a file has *)
(* a block for every byte of its size (StatReadAgree); the first as long   *)
(* as the power does not go while the disk still points to blocks that     *)
(* memory has freed. Then what the disk holds: between calls it has what   *)
(* memory has, as long as no sector access failed (Synced), and            *)
(* a record of a directory that reached it stays there, whatever fails     *)
(* afterwards (EntriesDurable).                                            *)
(***************************************************************************)
EXTENDS LuxFS, TLAPS, FiniteSetTheorems, NaturalsInduction, WellFoundedInduction

CreatePcs == {"ai_bitmap", "ai_inode", "ap", "ap_bitmap", "ap_zero", "ap_inode"}
FreePcs == {"un_inode", "un_bitmap"}
WritePcs == {"wr", "wr_bitmap", "wr_inode"}

\* What each step of a call may rely on about the call's locals: a create has
\* its directory, inode and name, a write its file and its byte.
CallOK ==
  /\ pc \in CreatePcs => c.dir \in Inodes /\ c.ino \in Inodes /\ c.name \in Names
                         /\ c.op \in {"touch", "mkdir"}
  /\ pc \in FreePcs \cup {"rl"} => c.ino \in Inodes
  /\ pc \in WritePcs \/ (pc = "rl" /\ c.op = "write") =>
       c.ino \in Inodes /\ c.val \in Values
  /\ pc \in CreatePcs \cup FreePcs \cup WritePcs \cup {"rl"} => mounted
  /\ pc \in FormatPcs \cup {"off"} => ~mounted

TypeInv == TypeOK /\ CallOK

-----------------------------------------------------------------------------
(* Facts about the operators of the model.                                 *)

\* Inodes and blocks are numbers, and INVALID and NONE are neither.
LEMMA Ranges ==
  /\ 0 \in Inodes /\ 0 \in Blocks
  /\ Inodes \subseteq Nat /\ Blocks \subseteq Nat /\ Slots \subseteq Nat
  /\ INVALID \notin Blocks /\ NONE \notin Inodes
BY SizeAssumption DEF Inodes, Blocks, Slots, INVALID, NONE

\* The position inside a sector and the part of the sector a loop fills: the
\* part is never more than what is left to write.
LEMMA ChunkBounds ==
  ASSUME c.off \in Nat, c.left \in Nat
  PROVE  /\ At \in Nat /\ At < SectorSize
         /\ Slot \in Nat
         /\ Chunk \in Nat /\ Chunk <= c.left
<1>1. SectorSize \in Nat /\ SectorSize > 0
  BY SizeAssumption
<1>2. c.off % SectorSize \in 0 .. SectorSize - 1 /\ c.off \div SectorSize \in Nat
  BY <1>1
<1> QED BY <1>1, <1>2 DEF At, Slot, Chunk

\* A cleared inode is an inode, with or without its type and parent set.
LEMMA ClearType ==
  /\ luxfs_inode_clear \in Inode
  /\ \A t \in {"free", "dir", "file"}, p \in Inodes :
       [luxfs_inode_clear EXCEPT !.type = t, !.parent = p] \in Inode
BY Ranges DEF luxfs_inode_clear, Inode

\* Writing one table sector keeps the table a table.
LEMMA FlushType ==
  ASSUME TypeOK, NEW b, luxfs_flush_inode_block(b)
  PROVE  d_inodes' \in [Inodes -> Inode]
BY DEF TypeOK, MemType, DiskType, luxfs_flush_inode_block

\* Zeroed and cleared memory is well typed.
LEMMA NoCallType == NoCall \in Frame
BY DEF NoCall, Frame, Found

\* The updates the loops and returns make to the locals of a call leave its
\* arguments alone.
SameArgs(f, g) == /\ g \in Frame
                  /\ g.op = f.op /\ g.dir = f.dir /\ g.ino = f.ino
                  /\ g.name = f.name /\ g.val = f.val

\* Updates of one pointer or one size keep the inode table a table.
LEMMA PointerUpdate ==
  ASSUME NEW table \in [Inodes -> Inode], NEW i \in Inodes, NEW k,
         NEW x \in Blocks \cup {INVALID}
  PROVE  [table EXCEPT ![i].direct[k] = x] \in [Inodes -> Inode]
<1>1. [table[i].direct EXCEPT ![k] = x] \in [Slots -> Blocks \cup {INVALID}]
  BY DEF Inode
<1>2. [table[i] EXCEPT !.direct = [table[i].direct EXCEPT ![k] = x]] \in Inode
  BY <1>1 DEF Inode
<1> QED BY <1>2

\* The same for a size.
LEMMA SizeUpdate ==
  ASSUME NEW table \in [Inodes -> Inode], NEW i \in Inodes, NEW n \in Nat
  PROVE  [table EXCEPT ![i].size = n] \in [Inodes -> Inode]
<1>1. [table[i] EXCEPT !.size = n] \in Inode
  BY DEF Inode
<1> QED BY <1>1

\* Zero-filled sectors and inodes are well typed.
LEMMA ZeroType ==
  ZeroInode \in Inode /\ ZeroSector \in Sector
BY Ranges DEF ZeroInode, Inode, ZeroSector, Sector, Cell

\* The state the kernel boots in is well typed.
LEMMA TypeInit == Init => TypeInv
<1> SUFFICES ASSUME Init PROVE TypeInv
  OBVIOUS
<1>1. MemType /\ DiskType
  BY ZeroType DEF Init, MemType, DiskType
<1>2. CallType
  BY NoCallType DEF Init, CallType, Pcs
<1>3. FlagType
  BY DEF Init, FlagType
<1>4. BudgetType
  BY SizeAssumption DEF Init, BudgetType
<1>5. CallOK
  BY DEF Init, CallOK, CreatePcs, FreePcs, WritePcs, FormatPcs
<1> QED BY <1>1, <1>2, <1>3, <1>4, <1>5 DEF TypeInv, TypeOK

\* The image luxfs_format builds is well typed, and so is zeroed memory.
LEMMA FormatType ==
  FormatImage => MemType'
<1>1. [luxfs_inode_clear EXCEPT !.type = "dir"] \in Inode
  BY ClearType DEF luxfs_inode_clear, Inode
<1>2. [[i \in Inodes |-> luxfs_inode_clear] EXCEPT ![Root].type = "dir"]
        \in [Inodes -> Inode]
  BY <1>1, ClearType, Ranges DEF Root
<1> QED BY <1>2, Ranges DEF FormatImage, MemType, Root

\* Losing power keeps the types: memory is zeroed, the disk stays.
LEMMA PowerType ==
  LosePower => MemType'
BY ZeroType DEF LosePower, MemType

\* A patched sector is a sector.
LEMMA RecordPatchType ==
  ASSUME NEW s \in Sector, c.ino \in Inodes, c.name \in Names
  PROVE  [u \in Units |-> IF u \in At .. At + Chunk - 1
                         THEN RecordCell(RecordSize - c.left + u - At)
                         ELSE s[u]] \in Sector
<1>1. \A n : RecordCell(n) \in Cell
  BY DEF RecordCell, Cell
<1> QED BY <1>1 DEF Sector

\* The same for the bytes fs_write puts into a sector.
LEMMA BytePatchType ==
  ASSUME NEW s \in Sector, c.val \in Values
  PROVE  [u \in Units |-> IF u \in At .. At + Chunk - 1 THEN <<"byte", c.val>>
                         ELSE IF c.fresh THEN Zero ELSE s[u]] \in Sector
<1>1. <<"byte", c.val>> \in Cell /\ Zero \in Cell
  BY DEF Cell
<1> QED BY <1>1 DEF Sector

\* A block that an inode points to is a block.
LEMMA PointerType ==
  ASSUME MemType, NEW i \in Inodes, NEW k \in Slots, inodes[i].direct[k] # INVALID
  PROVE  inodes[i].direct[k] \in Blocks
BY DEF MemType, Inode

\* How a call begins: it answers at once, or it allocates an inode in memory.
Answered(op) == \E i \in Found, v \in BOOLEAN : Answer(op, i, v)
Allocated(op, type) ==
  \E parent \in Inodes, name \in Names :
    mounted /\ luxfs_alloc_inode(op, type, parent, name)
Begins(op, type) == /\ pc = "idle"
                    /\ UNCHANGED <<disk, crashes, torn>>
                    /\ faults' \in faults .. MaxFaults
                    /\ Answered(op) \/ Allocated(op, type)

\* fs_touch answers at once or begins to allocate an inode.
LEMMA TouchBegins ==
  ASSUME NEW path, fs_touch(path)
  PROVE  Begins("touch", "file")
BY Ranges DEF fs_touch, CreateCall, ReadFaults, Found, Begins, Answered, Allocated

\* So does fs_mkdir.
LEMMA MkdirBegins ==
  ASSUME NEW path, fs_mkdir(path)
  PROVE  Begins("mkdir", "dir")
BY Ranges DEF fs_mkdir, CreateCall, ReadFaults, Found, Begins, Answered, Allocated

\* Every step of the kernel keeps the types.
LEMMA TypeNext ==
  ASSUME TypeInv, Next
  PROVE  TypeInv'
<1>1. CASE fs_mount
  <2>1. FlagType'
    BY <1>1 DEF TypeInv, TypeOK, FlagType, fs_mount, Succeeds, Fails, mem, disk
  <2>2. BudgetType'
    BY <1>1, SizeAssumption DEF TypeInv, TypeOK, BudgetType, fs_mount, Succeeds,
          Fails
  <2>3. MemType'
    BY <1>1, FormatType DEF TypeInv, TypeOK, MemType, DiskType, fs_mount,
          Succeeds, Fails, mem, disk
  <2>4. DiskType'
    BY <1>1, FlushType DEF TypeInv, TypeOK, DiskType, MemType, fs_mount,
          Succeeds, Fails, disk
  <2>6. CallType'
    BY <1>1, NoCallType DEF TypeInv, TypeOK, CallType, Pcs, FormatPcs, fs_mount,
          Succeeds, Fails
  <2>7. CallOK'
    <3>1. ~mounted
      BY <1>1 DEF TypeInv, CallOK, FormatPcs, fs_mount
    <3>2. pc' \in {"idle", "fmt_super"} /\ (pc' = "fmt_super" => ~mounted')
      BY <1>1, <3>1 DEF fs_mount
    <3> QED BY <3>2 DEF CallOK, CreatePcs, FreePcs, WritePcs, FormatPcs
  <2> QED BY <2>1, <2>2, <2>3, <2>4, <2>6, <2>7 DEF TypeInv, TypeOK
<1>2. CASE FormatSuperblock
  <2>1. FlagType'
    BY <1>2 DEF TypeInv, TypeOK, FlagType, FormatSuperblock,
          luxfs_flush_superblock, Goto, Succeeds, mem, disk
  <2>2. BudgetType'
    BY <1>2, SizeAssumption DEF TypeInv, TypeOK, BudgetType, FormatSuperblock,
          luxfs_flush_superblock, Goto, Succeeds
  <2>3. MemType'
    BY <1>2, ClearType DEF TypeInv, TypeOK, MemType, FormatSuperblock,
          luxfs_flush_superblock, Goto, Succeeds, mem
  <2>4. DiskType'
    BY <1>2, FlushType DEF TypeInv, TypeOK, DiskType, MemType, FormatSuperblock,
          luxfs_flush_superblock, Goto, Succeeds, disk
  <2>6. CallType'
    BY <1>2, NoCallType DEF TypeInv, TypeOK, CallType, Pcs, FormatPcs,
          FormatSuperblock, luxfs_flush_superblock, Goto, Succeeds
  <2>7. CallOK'
    BY <1>2 DEF TypeInv, CallOK, CreatePcs, FreePcs, WritePcs, FormatPcs,
          FormatSuperblock, luxfs_flush_superblock, Goto, Succeeds, mem
  <2> QED BY <2>1, <2>2, <2>3, <2>4, <2>6, <2>7 DEF TypeInv, TypeOK
<1>3. CASE FormatInodeBitmap
  <2>1. FlagType'
    BY <1>3 DEF TypeInv, TypeOK, FlagType, FormatInodeBitmap,
          luxfs_flush_inode_bitmap, Goto, Succeeds, mem, disk
  <2>2. BudgetType'
    BY <1>3, SizeAssumption DEF TypeInv, TypeOK, BudgetType, FormatInodeBitmap,
          luxfs_flush_inode_bitmap, Goto, Succeeds
  <2>3. MemType'
    BY <1>3, ClearType DEF TypeInv, TypeOK, MemType, FormatInodeBitmap,
          luxfs_flush_inode_bitmap, Goto, Succeeds, mem
  <2>4. DiskType'
    BY <1>3, FlushType DEF TypeInv, TypeOK, DiskType, MemType,
          FormatInodeBitmap, luxfs_flush_inode_bitmap, Goto, Succeeds, disk
  <2>6. CallType'
    BY <1>3, NoCallType DEF TypeInv, TypeOK, CallType, Pcs, FormatPcs,
          FormatInodeBitmap, luxfs_flush_inode_bitmap, Goto, Succeeds
  <2>7. CallOK'
    BY <1>3 DEF TypeInv, CallOK, CreatePcs, FreePcs, WritePcs, FormatPcs,
          FormatInodeBitmap, luxfs_flush_inode_bitmap, Goto, Succeeds, mem
  <2> QED BY <2>1, <2>2, <2>3, <2>4, <2>6, <2>7 DEF TypeInv, TypeOK
<1>4. CASE FormatBlockBitmap
  <2>1. FlagType'
    BY <1>4 DEF TypeInv, TypeOK, FlagType, FormatBlockBitmap,
          luxfs_flush_block_bitmap, Goto, Succeeds, mem, disk
  <2>2. BudgetType'
    BY <1>4, SizeAssumption DEF TypeInv, TypeOK, BudgetType, FormatBlockBitmap,
          luxfs_flush_block_bitmap, Goto, Succeeds
  <2>3. MemType'
    BY <1>4, ClearType DEF TypeInv, TypeOK, MemType, FormatBlockBitmap,
          luxfs_flush_block_bitmap, Goto, Succeeds, mem
  <2>4. DiskType'
    BY <1>4, FlushType DEF TypeInv, TypeOK, DiskType, MemType,
          FormatBlockBitmap, luxfs_flush_block_bitmap, Goto, Succeeds, disk
  <2>6. CallType'
    BY <1>4, NoCallType DEF TypeInv, TypeOK, CallType, Pcs, FormatPcs,
          FormatBlockBitmap, luxfs_flush_block_bitmap, Goto, Succeeds
  <2>7. CallOK'
    BY <1>4 DEF TypeInv, CallOK, CreatePcs, FreePcs, WritePcs, FormatPcs,
          FormatBlockBitmap, luxfs_flush_block_bitmap, Goto, Succeeds, mem
  <2> QED BY <2>1, <2>2, <2>3, <2>4, <2>6, <2>7 DEF TypeInv, TypeOK
<1>5. CASE FormatInodeTable
  <2>1. FlagType'
    BY <1>5 DEF TypeInv, TypeOK, FlagType, FormatInodeTable, Succeeds, mem, disk
  <2>2. BudgetType'
    BY <1>5, SizeAssumption DEF TypeInv, TypeOK, BudgetType, FormatInodeTable,
          Succeeds
  <2>3. MemType'
    BY <1>5, ClearType DEF TypeInv, TypeOK, MemType, FormatInodeTable, Succeeds, mem
  <2>4. DiskType'
    BY <1>5, FlushType DEF TypeInv, TypeOK, DiskType, MemType, FormatInodeTable,
          Succeeds, disk
  <2>6. CallType'
    <3>1. [c EXCEPT !.off = c.off + 1] \in Frame
      BY DEF TypeInv, TypeOK, CallType, Frame
    <3> QED BY <1>5, <3>1, NoCallType DEF TypeInv, TypeOK, CallType, Pcs,
          FormatPcs, FormatInodeTable, Succeeds
  <2>7. CallOK'
    BY <1>5 DEF TypeInv, CallOK, CreatePcs, FreePcs, WritePcs, FormatPcs,
          FormatInodeTable, Succeeds, mem
  <2> QED BY <2>1, <2>2, <2>3, <2>4, <2>6, <2>7 DEF TypeInv, TypeOK
<1>6. CASE FormatFails
  <2>1. FlagType'
    BY <1>6 DEF TypeInv, TypeOK, FlagType, FormatFails, Fails, mem, disk
  <2>2. BudgetType'
    BY <1>6, SizeAssumption DEF TypeInv, TypeOK, BudgetType, FormatFails, Fails
  <2>3. MemType'
    BY <1>6, ClearType DEF TypeInv, TypeOK, MemType, FormatFails, Fails, mem
  <2>4. DiskType'
    BY <1>6, FlushType DEF TypeInv, TypeOK, DiskType, MemType, FormatFails,
          Fails, disk
  <2>6. CallType'
    BY <1>6, NoCallType DEF TypeInv, TypeOK, CallType, Pcs, FormatPcs,
          FormatFails, Fails
  <2>7. CallOK'
    BY <1>6 DEF TypeInv, CallOK, CreatePcs, FreePcs, WritePcs, FormatPcs,
          FormatFails, Fails, mem
  <2> QED BY <2>1, <2>2, <2>3, <2>4, <2>6, <2>7 DEF TypeInv, TypeOK
<1>7. CASE shutdown
  <2>1. FlagType'
    BY <1>7 DEF TypeInv, TypeOK, FlagType, shutdown, LosePower, mem, disk
  <2>2. BudgetType'
    BY <1>7, SizeAssumption DEF TypeInv, TypeOK, BudgetType, shutdown, LosePower
  <2>3. MemType'
    BY <1>7, PowerType DEF shutdown
  <2>4. DiskType'
    BY <1>7, FlushType DEF TypeInv, TypeOK, DiskType, MemType, shutdown,
          LosePower, disk
  <2>6. CallType'
    BY <1>7, NoCallType DEF TypeInv, TypeOK, CallType, Pcs, FormatPcs, shutdown,
          LosePower
  <2>7. CallOK'
    BY <1>7 DEF TypeInv, CallOK, CreatePcs, FreePcs, WritePcs, FormatPcs,
          shutdown, LosePower, mem
  <2> QED BY <2>1, <2>2, <2>3, <2>4, <2>6, <2>7 DEF TypeInv, TypeOK
<1>8. CASE Crash
  <2>1. FlagType'
    BY <1>8 DEF TypeInv, TypeOK, FlagType, Crash, LosePower, mem, disk
  <2>2. BudgetType'
    BY <1>8, SizeAssumption DEF TypeInv, TypeOK, BudgetType, Crash, LosePower
  <2>3. MemType'
    BY <1>8, PowerType DEF Crash
  <2>4. DiskType'
    BY <1>8, FlushType DEF TypeInv, TypeOK, DiskType, MemType, Crash, LosePower,
          disk
  <2>6. CallType'
    BY <1>8, NoCallType DEF TypeInv, TypeOK, CallType, Pcs, FormatPcs, Crash,
          LosePower
  <2>7. CallOK'
    BY <1>8 DEF TypeInv, CallOK, CreatePcs, FreePcs, WritePcs, FormatPcs, Crash,
          LosePower, mem
  <2> QED BY <2>1, <2>2, <2>3, <2>4, <2>6, <2>7 DEF TypeInv, TypeOK
<1>9. CASE AllocInodeBitmap
  <2>1. FlagType'
    BY <1>9 DEF TypeInv, TypeOK, FlagType, AllocInodeBitmap,
          luxfs_flush_inode_bitmap, Goto, Return, Succeeds, Fails, mem, disk
  <2>2. BudgetType'
    BY <1>9, SizeAssumption DEF TypeInv, TypeOK, BudgetType, AllocInodeBitmap,
          luxfs_flush_inode_bitmap, Goto, Return, Succeeds, Fails
  <2>3. MemType'
    BY <1>9, ClearType DEF TypeInv, TypeOK, MemType, AllocInodeBitmap,
          luxfs_flush_inode_bitmap, Goto, Return, Succeeds, Fails, mem
  <2>4. DiskType'
    BY <1>9, FlushType DEF TypeInv, TypeOK, DiskType, MemType, AllocInodeBitmap,
          luxfs_flush_inode_bitmap, Goto, Return, Succeeds, Fails, disk
  <2>5. SameArgs(c, c')
    BY <1>9 DEF TypeInv, TypeOK, CallType, Frame, SameArgs, AllocInodeBitmap,
          luxfs_flush_inode_bitmap, Goto, Return, Succeeds, Fails
  <2>6. CallType'
    BY <1>9, <2>5 DEF TypeInv, TypeOK, CallType, Pcs, SameArgs,
          AllocInodeBitmap, luxfs_flush_inode_bitmap, Goto, Return, Succeeds,
          Fails
  <2>7. CallOK'
    BY <1>9, <2>5 DEF TypeInv, CallOK, SameArgs, CreatePcs, FreePcs, WritePcs,
          FormatPcs, AllocInodeBitmap, luxfs_flush_inode_bitmap, Goto, Return,
          Succeeds, Fails, mem
  <2> QED BY <2>1, <2>2, <2>3, <2>4, <2>6, <2>7 DEF TypeInv, TypeOK
<1>10. CASE AllocInodeFlush
  <2>1. FlagType'
    BY <1>10 DEF TypeInv, TypeOK, FlagType, AllocInodeFlush, luxfs_flush_inode,
          Return, Succeeds, Fails, RecordSize, mem, disk
  <2>2. BudgetType'
    BY <1>10, SizeAssumption DEF TypeInv, TypeOK, BudgetType, AllocInodeFlush,
          luxfs_flush_inode, Return, Succeeds, Fails, RecordSize
  <2>3. MemType'
    BY <1>10, ClearType DEF TypeInv, TypeOK, MemType, AllocInodeFlush,
          luxfs_flush_inode, Return, Succeeds, Fails, RecordSize, mem
  <2>4. DiskType'
    BY <1>10, FlushType DEF TypeInv, TypeOK, DiskType, MemType, AllocInodeFlush,
          luxfs_flush_inode, Return, Succeeds, Fails, RecordSize, disk
  <2>5. SameArgs(c, c')
    <3>1. inodes[c.dir].size \in Nat /\ RecordSize \in Nat
      BY <1>10 DEF TypeInv, TypeOK, MemType, Inode, CallOK, CreatePcs,
            AllocInodeFlush, RecordSize
    <3> QED BY <1>10, <3>1
            DEF TypeInv, TypeOK, CallType, Frame, SameArgs, AllocInodeFlush, Return
  <2>6. CallType'
    BY <1>10, <2>5 DEF TypeInv, TypeOK, CallType, Pcs, SameArgs,
          AllocInodeFlush, luxfs_flush_inode, Return, Succeeds, Fails,
          RecordSize
  <2>7. CallOK'
    BY <1>10, <2>5 DEF TypeInv, CallOK, SameArgs, CreatePcs, FreePcs, WritePcs,
          FormatPcs, AllocInodeFlush, luxfs_flush_inode, Return, Succeeds,
          Fails, RecordSize, mem
  <2> QED BY <2>1, <2>2, <2>3, <2>4, <2>6, <2>7 DEF TypeInv, TypeOK
<1>11. CASE AppendRefused
  <2>1. FlagType'
    BY <1>11 DEF TypeInv, TypeOK, FlagType, AppendRefused, Goto, Succeeds, mem, disk
  <2>2. BudgetType'
    BY <1>11, SizeAssumption DEF TypeInv, TypeOK, BudgetType, AppendRefused,
          Goto, Succeeds
  <2>3. MemType'
    BY <1>11, ClearType DEF TypeInv, TypeOK, MemType, AppendRefused, Goto,
          Succeeds, mem
  <2>4. DiskType'
    BY <1>11, FlushType DEF TypeInv, TypeOK, DiskType, MemType, AppendRefused,
          Goto, Succeeds, disk
  <2>5. SameArgs(c, c')
    BY <1>11 DEF TypeInv, TypeOK, CallType, Frame, SameArgs, AppendRefused,
          Goto, Succeeds
  <2>6. CallType'
    BY <1>11, <2>5 DEF TypeInv, TypeOK, CallType, Pcs, SameArgs, AppendRefused,
          Goto, Succeeds
  <2>7. CallOK'
    BY <1>11, <2>5 DEF TypeInv, CallOK, SameArgs, CreatePcs, FreePcs, WritePcs,
          FormatPcs, AppendRefused, Goto, Succeeds, mem
  <2> QED BY <2>1, <2>2, <2>3, <2>4, <2>6, <2>7 DEF TypeInv, TypeOK
<1>12. CASE AppendAllocates
  <2>1. FlagType'
    BY <1>12 DEF TypeInv, TypeOK, FlagType, AppendAllocates, luxfs_alloc_block,
          FreeBlocks, Succeeds, mem, disk
  <2>2. BudgetType'
    BY <1>12, SizeAssumption DEF TypeInv, TypeOK, BudgetType, AppendAllocates,
          luxfs_alloc_block, FreeBlocks, Succeeds
  <2>3. MemType'
    BY <1>12, ClearType DEF TypeInv, TypeOK, MemType, AppendAllocates,
          luxfs_alloc_block, FreeBlocks, Succeeds, mem
  <2>4. DiskType'
    BY <1>12, FlushType DEF TypeInv, TypeOK, DiskType, MemType, AppendAllocates,
          luxfs_alloc_block, FreeBlocks, Succeeds, disk
  <2>5. SameArgs(c, c')
    BY <1>12 DEF TypeInv, TypeOK, CallType, Frame, SameArgs, AppendAllocates,
          luxfs_alloc_block, FreeBlocks, Succeeds
  <2>6. CallType'
    BY <1>12, <2>5 DEF TypeInv, TypeOK, CallType, Pcs, SameArgs,
          AppendAllocates, luxfs_alloc_block, FreeBlocks, Succeeds
  <2>7. CallOK'
    BY <1>12, <2>5 DEF TypeInv, CallOK, SameArgs, CreatePcs, FreePcs, WritePcs,
          FormatPcs, AppendAllocates, luxfs_alloc_block, FreeBlocks, Succeeds,
          mem
  <2> QED BY <2>1, <2>2, <2>3, <2>4, <2>6, <2>7 DEF TypeInv, TypeOK
<1>13. CASE AppendBlockBitmap
  <2>1. FlagType'
    BY <1>13 DEF TypeInv, TypeOK, FlagType, AppendBlockBitmap,
          luxfs_flush_block_bitmap, Goto, Succeeds, Fails, mem, disk
  <2>2. BudgetType'
    BY <1>13, SizeAssumption DEF TypeInv, TypeOK, BudgetType, AppendBlockBitmap,
          luxfs_flush_block_bitmap, Goto, Succeeds, Fails
  <2>3. MemType'
    BY <1>13, ClearType DEF TypeInv, TypeOK, MemType, AppendBlockBitmap,
          luxfs_flush_block_bitmap, Goto, Succeeds, Fails, mem
  <2>4. DiskType'
    BY <1>13, FlushType DEF TypeInv, TypeOK, DiskType, MemType,
          AppendBlockBitmap, luxfs_flush_block_bitmap, Goto, Succeeds, Fails,
          disk
  <2>5. SameArgs(c, c')
    BY <1>13 DEF TypeInv, TypeOK, CallType, Frame, SameArgs, AppendBlockBitmap,
          luxfs_flush_block_bitmap, Goto, Succeeds, Fails
  <2>6. CallType'
    BY <1>13, <2>5 DEF TypeInv, TypeOK, CallType, Pcs, SameArgs,
          AppendBlockBitmap, luxfs_flush_block_bitmap, Goto, Succeeds, Fails
  <2>7. CallOK'
    BY <1>13, <2>5 DEF TypeInv, CallOK, SameArgs, CreatePcs, FreePcs, WritePcs,
          FormatPcs, AppendBlockBitmap, luxfs_flush_block_bitmap, Goto,
          Succeeds, Fails, mem
  <2> QED BY <2>1, <2>2, <2>3, <2>4, <2>6, <2>7 DEF TypeInv, TypeOK
<1>14. CASE AppendZeroes
  <2>1. FlagType'
    BY <1>14 DEF TypeInv, TypeOK, FlagType, AppendZeroes, disk_write_data_block,
          Goto, Succeeds, Fails, mem, disk
  <2>2. BudgetType'
    BY <1>14, SizeAssumption DEF TypeInv, TypeOK, BudgetType, AppendZeroes,
          disk_write_data_block, Goto, Succeeds, Fails
  <2>3. MemType'
    <3>1. c.dir \in Inodes /\ c.blk \in Blocks \cup {INVALID}
      BY <1>14 DEF TypeInv, TypeOK, CallType, Frame, CallOK, CreatePcs, AppendZeroes
    <3>2. [inodes EXCEPT ![c.dir].direct[Slot] = c.blk] \in [Inodes -> Inode]
      BY <3>1, PointerUpdate DEF TypeInv, TypeOK, MemType
    <3> QED BY <1>14, <3>2 DEF TypeInv, TypeOK, MemType, AppendZeroes
  <2>4. DiskType'
    BY <1>14, ZeroType DEF TypeInv, TypeOK, DiskType, AppendZeroes,
          disk_write_data_block
  <2>5. SameArgs(c, c')
    BY <1>14 DEF TypeInv, TypeOK, CallType, Frame, SameArgs, AppendZeroes,
          disk_write_data_block, Goto, Succeeds, Fails
  <2>6. CallType'
    BY <1>14, <2>5 DEF TypeInv, TypeOK, CallType, Pcs, SameArgs, AppendZeroes,
          disk_write_data_block, Goto, Succeeds, Fails
  <2>7. CallOK'
    BY <1>14, <2>5 DEF TypeInv, CallOK, SameArgs, CreatePcs, FreePcs, WritePcs,
          FormatPcs, AppendZeroes, disk_write_data_block, Goto, Succeeds, Fails,
          mem
  <2> QED BY <2>1, <2>2, <2>3, <2>4, <2>6, <2>7 DEF TypeInv, TypeOK
<1>15. CASE AppendPatches
  <2>1. FlagType'
    BY <1>15 DEF TypeInv, TypeOK, FlagType, AppendPatches,
          disk_write_data_block, Goto, Succeeds, Fails, mem, disk
  <2>2. BudgetType'
    BY <1>15, SizeAssumption DEF TypeInv, TypeOK, BudgetType, AppendPatches,
          disk_write_data_block, Goto, Succeeds, Fails
  <2>3. MemType'
    <3>1. c.dir \in Inodes /\ inodes[c.dir].size + RecordSize \in Nat
      BY <1>15 DEF TypeInv, TypeOK, MemType, Inode, CallOK, CreatePcs,
            AppendPatches, RecordSize
    <3>2. [inodes EXCEPT ![c.dir].size = @ + RecordSize] \in [Inodes -> Inode]
      BY <3>1, SizeUpdate DEF TypeInv, TypeOK, MemType
    <3> QED BY <1>15, <3>2 DEF TypeInv, TypeOK, MemType, AppendPatches
  <2>4. DiskType'
    <3> DEFINE b == inodes[c.dir].direct[Slot]
    <3>1. b \in Blocks
      BY <1>15, ChunkBounds, PointerType, SizeAssumption
         DEF TypeInv, TypeOK, CallType, Frame, CallOK, CreatePcs,
               AppendPatches, Slots
    <3>2. d_data[b] \in Sector /\ c.ino \in Inodes /\ c.name \in Names
      BY <1>15, <3>1 DEF TypeInv, TypeOK, DiskType, CallOK, CreatePcs, AppendPatches
    <3> HIDE DEF b
    <3>3. [u \in Units |-> IF u \in At .. At + Chunk - 1
                          THEN RecordCell(RecordSize - c.left + u - At)
                          ELSE d_data[b][u]] \in Sector
      BY <3>2, RecordPatchType
    <3> QED BY <1>15, <3>3 DEF TypeInv, TypeOK, DiskType, AppendPatches,
          disk_write_data_block, b
  <2>5. SameArgs(c, c')
    <3>1. c.off + Chunk \in Nat /\ c.left - Chunk \in Nat
      BY ChunkBounds DEF TypeInv, TypeOK, CallType, Frame
    <3> HIDE DEF Chunk
    <3> QED BY <1>15, <3>1
            DEF TypeInv, TypeOK, CallType, Frame, SameArgs, AppendPatches, Goto
  <2>6. CallType'
    BY <1>15, <2>5 DEF TypeInv, TypeOK, CallType, Pcs, SameArgs, AppendPatches,
          disk_write_data_block, Goto, Succeeds, Fails
  <2>7. CallOK'
    BY <1>15, <2>5 DEF TypeInv, CallOK, SameArgs, CreatePcs, FreePcs, WritePcs,
          FormatPcs, AppendPatches, disk_write_data_block, Goto, Succeeds,
          Fails, mem
  <2> QED BY <2>1, <2>2, <2>3, <2>4, <2>6, <2>7 DEF TypeInv, TypeOK
<1>16. CASE AppendInode
  <2>1. FlagType'
    BY <1>16 DEF TypeInv, TypeOK, FlagType, AppendInode, luxfs_flush_inode,
          Return, Goto, Succeeds, Fails, mem, disk
  <2>2. BudgetType'
    BY <1>16, SizeAssumption DEF TypeInv, TypeOK, BudgetType, AppendInode,
          luxfs_flush_inode, Return, Goto, Succeeds, Fails
  <2>3. MemType'
    BY <1>16, ClearType DEF TypeInv, TypeOK, MemType, AppendInode,
          luxfs_flush_inode, Return, Goto, Succeeds, Fails, mem
  <2>4. DiskType'
    BY <1>16, FlushType DEF TypeInv, TypeOK, DiskType, MemType, AppendInode,
          luxfs_flush_inode, Return, Goto, Succeeds, Fails, disk
  <2>5. SameArgs(c, c')
    BY <1>16 DEF TypeInv, TypeOK, CallType, Frame, SameArgs, AppendInode,
          luxfs_flush_inode, Return, Goto, Succeeds, Fails
  <2>6. CallType'
    BY <1>16, <2>5 DEF TypeInv, TypeOK, CallType, Pcs, SameArgs, AppendInode,
          luxfs_flush_inode, Return, Goto, Succeeds, Fails
  <2>7. CallOK'
    BY <1>16, <2>5 DEF TypeInv, CallOK, SameArgs, CreatePcs, FreePcs, WritePcs,
          FormatPcs, AppendInode, luxfs_flush_inode, Return, Goto, Succeeds,
          Fails, mem
  <2> QED BY <2>1, <2>2, <2>3, <2>4, <2>6, <2>7 DEF TypeInv, TypeOK
<1>17. CASE ReleaseBlock
  <2>1. FlagType'
    BY <1>17 DEF TypeInv, TypeOK, FlagType, ReleaseBlock, Succeeds, Fails,
          HeldSlots, mem, disk
  <2>2. BudgetType'
    BY <1>17, SizeAssumption DEF TypeInv, TypeOK, BudgetType, ReleaseBlock,
          Succeeds, Fails, HeldSlots
  <2>3. MemType'
    <3>1. c.ino \in Inodes
      BY <1>17 DEF TypeInv, CallOK, ReleaseBlock
    <3>2. \A k : [inodes EXCEPT ![c.ino].direct[k] = INVALID] \in [Inodes -> Inode]
      BY <3>1, PointerUpdate DEF TypeInv, TypeOK, MemType
    <3> QED BY <1>17, <3>2 DEF TypeInv, TypeOK, MemType, ReleaseBlock
  <2>4. DiskType'
    BY <1>17, FlushType DEF TypeInv, TypeOK, DiskType, MemType, ReleaseBlock,
          Succeeds, Fails, HeldSlots, disk
  <2>5. SameArgs(c, c')
    BY <1>17 DEF TypeInv, TypeOK, CallType, Frame, SameArgs, ReleaseBlock,
          Succeeds, Fails, HeldSlots
  <2>6. CallType'
    BY <1>17, <2>5 DEF TypeInv, TypeOK, CallType, Pcs, SameArgs, ReleaseBlock,
          Succeeds, Fails, HeldSlots
  <2>7. CallOK'
    BY <1>17, <2>5 DEF TypeInv, CallOK, SameArgs, CreatePcs, FreePcs, WritePcs,
          FormatPcs, ReleaseBlock, Succeeds, Fails, HeldSlots, mem
  <2> QED BY <2>1, <2>2, <2>3, <2>4, <2>6, <2>7 DEF TypeInv, TypeOK
<1>18. CASE ReleasedForWrite
  <2>1. FlagType'
    BY <1>18 DEF TypeInv, TypeOK, FlagType, ReleasedForWrite, Return, Goto,
          Succeeds, mem, disk
  <2>2. BudgetType'
    BY <1>18, SizeAssumption DEF TypeInv, TypeOK, BudgetType, ReleasedForWrite,
          Return, Goto, Succeeds
  <2>3. MemType'
    BY <1>18, SizeUpdate DEF TypeInv, TypeOK, MemType, CallOK, ReleasedForWrite
  <2>4. DiskType'
    BY <1>18, FlushType DEF TypeInv, TypeOK, DiskType, MemType,
          ReleasedForWrite, Return, Goto, Succeeds, disk
  <2>5. SameArgs(c, c')
    BY <1>18 DEF TypeInv, TypeOK, CallType, Frame, SameArgs, ReleasedForWrite,
          Return, Goto, Succeeds
  <2>6. CallType'
    BY <1>18, <2>5 DEF TypeInv, TypeOK, CallType, Pcs, SameArgs,
          ReleasedForWrite, Return, Goto, Succeeds
  <2>7. CallOK'
    BY <1>18, <2>5 DEF TypeInv, CallOK, SameArgs, CreatePcs, FreePcs, WritePcs,
          FormatPcs, ReleasedForWrite, Return, Goto, Succeeds, mem
  <2> QED BY <2>1, <2>2, <2>3, <2>4, <2>6, <2>7 DEF TypeInv, TypeOK
<1>19. CASE ReleasedForFree
  <2>1. FlagType'
    BY <1>19 DEF TypeInv, TypeOK, FlagType, ReleasedForFree, Goto, Succeeds,
          mem, disk
  <2>2. BudgetType'
    BY <1>19, SizeAssumption DEF TypeInv, TypeOK, BudgetType, ReleasedForFree,
          Goto, Succeeds
  <2>3. MemType'
    BY <1>19, ClearType DEF TypeInv, TypeOK, MemType, ReleasedForFree, Goto,
          Succeeds, mem
  <2>4. DiskType'
    BY <1>19, FlushType DEF TypeInv, TypeOK, DiskType, MemType, ReleasedForFree,
          Goto, Succeeds, disk
  <2>5. SameArgs(c, c')
    BY <1>19 DEF TypeInv, TypeOK, CallType, Frame, SameArgs, ReleasedForFree,
          Goto, Succeeds
  <2>6. CallType'
    BY <1>19, <2>5 DEF TypeInv, TypeOK, CallType, Pcs, SameArgs,
          ReleasedForFree, Goto, Succeeds
  <2>7. CallOK'
    BY <1>19, <2>5 DEF TypeInv, CallOK, SameArgs, CreatePcs, FreePcs, WritePcs,
          FormatPcs, ReleasedForFree, Goto, Succeeds, mem
  <2> QED BY <2>1, <2>2, <2>3, <2>4, <2>6, <2>7 DEF TypeInv, TypeOK
<1>20. CASE FreeInodeFlush
  <2>1. FlagType'
    BY <1>20 DEF TypeInv, TypeOK, FlagType, FreeInodeFlush, luxfs_flush_inode,
          Goto, Succeeds, Fails, mem, disk
  <2>2. BudgetType'
    BY <1>20, SizeAssumption DEF TypeInv, TypeOK, BudgetType, FreeInodeFlush,
          luxfs_flush_inode, Goto, Succeeds, Fails
  <2>3. MemType'
    BY <1>20, ClearType DEF TypeInv, TypeOK, MemType, FreeInodeFlush,
          luxfs_flush_inode, Goto, Succeeds, Fails, mem
  <2>4. DiskType'
    BY <1>20, FlushType DEF TypeInv, TypeOK, DiskType, MemType, FreeInodeFlush,
          luxfs_flush_inode, Goto, Succeeds, Fails, disk
  <2>5. SameArgs(c, c')
    BY <1>20 DEF TypeInv, TypeOK, CallType, Frame, SameArgs, FreeInodeFlush,
          luxfs_flush_inode, Goto, Succeeds, Fails
  <2>6. CallType'
    BY <1>20, <2>5 DEF TypeInv, TypeOK, CallType, Pcs, SameArgs, FreeInodeFlush,
          luxfs_flush_inode, Goto, Succeeds, Fails
  <2>7. CallOK'
    BY <1>20, <2>5 DEF TypeInv, CallOK, SameArgs, CreatePcs, FreePcs, WritePcs,
          FormatPcs, FreeInodeFlush, luxfs_flush_inode, Goto, Succeeds, Fails,
          mem
  <2> QED BY <2>1, <2>2, <2>3, <2>4, <2>6, <2>7 DEF TypeInv, TypeOK
<1>21. CASE FreeInodeBitmap
  <2>1. FlagType'
    BY <1>21 DEF TypeInv, TypeOK, FlagType, FreeInodeBitmap,
          luxfs_flush_inode_bitmap, Return, Succeeds, Fails, mem, disk
  <2>2. BudgetType'
    BY <1>21, SizeAssumption DEF TypeInv, TypeOK, BudgetType, FreeInodeBitmap,
          luxfs_flush_inode_bitmap, Return, Succeeds, Fails
  <2>3. MemType'
    BY <1>21, ClearType DEF TypeInv, TypeOK, MemType, FreeInodeBitmap,
          luxfs_flush_inode_bitmap, Return, Succeeds, Fails, mem
  <2>4. DiskType'
    BY <1>21, FlushType DEF TypeInv, TypeOK, DiskType, MemType, FreeInodeBitmap,
          luxfs_flush_inode_bitmap, Return, Succeeds, Fails, disk
  <2>5. SameArgs(c, c')
    BY <1>21 DEF TypeInv, TypeOK, CallType, Frame, SameArgs, FreeInodeBitmap,
          luxfs_flush_inode_bitmap, Return, Succeeds, Fails
  <2>6. CallType'
    BY <1>21, <2>5 DEF TypeInv, TypeOK, CallType, Pcs, SameArgs,
          FreeInodeBitmap, luxfs_flush_inode_bitmap, Return, Succeeds, Fails
  <2>7. CallOK'
    BY <1>21, <2>5 DEF TypeInv, CallOK, SameArgs, CreatePcs, FreePcs, WritePcs,
          FormatPcs, FreeInodeBitmap, luxfs_flush_inode_bitmap, Return,
          Succeeds, Fails, mem
  <2> QED BY <2>1, <2>2, <2>3, <2>4, <2>6, <2>7 DEF TypeInv, TypeOK
<1>22. CASE WriteNoSpace
  <2>1. FlagType'
    BY <1>22 DEF TypeInv, TypeOK, FlagType, WriteNoSpace, Return, Succeeds, mem,
          disk
  <2>2. BudgetType'
    BY <1>22, SizeAssumption DEF TypeInv, TypeOK, BudgetType, WriteNoSpace,
          Return, Succeeds
  <2>3. MemType'
    BY <1>22, ClearType DEF TypeInv, TypeOK, MemType, WriteNoSpace, Return,
          Succeeds, mem
  <2>4. DiskType'
    BY <1>22, FlushType DEF TypeInv, TypeOK, DiskType, MemType, WriteNoSpace,
          Return, Succeeds, disk
  <2>5. SameArgs(c, c')
    BY <1>22 DEF TypeInv, TypeOK, CallType, Frame, SameArgs, WriteNoSpace,
          Return, Succeeds
  <2>6. CallType'
    BY <1>22, <2>5 DEF TypeInv, TypeOK, CallType, Pcs, SameArgs, WriteNoSpace,
          Return, Succeeds
  <2>7. CallOK'
    BY <1>22, <2>5 DEF TypeInv, CallOK, SameArgs, CreatePcs, FreePcs, WritePcs,
          FormatPcs, WriteNoSpace, Return, Succeeds, mem
  <2> QED BY <2>1, <2>2, <2>3, <2>4, <2>6, <2>7 DEF TypeInv, TypeOK
<1>23. CASE WriteAllocates
  <2>1. FlagType'
    BY <1>23 DEF TypeInv, TypeOK, FlagType, WriteAllocates, luxfs_alloc_block,
          FreeBlocks, Succeeds, mem, disk
  <2>2. BudgetType'
    BY <1>23, SizeAssumption DEF TypeInv, TypeOK, BudgetType, WriteAllocates,
          luxfs_alloc_block, FreeBlocks, Succeeds
  <2>3. MemType'
    BY <1>23, ClearType DEF TypeInv, TypeOK, MemType, WriteAllocates,
          luxfs_alloc_block, FreeBlocks, Succeeds, mem
  <2>4. DiskType'
    BY <1>23, FlushType DEF TypeInv, TypeOK, DiskType, MemType, WriteAllocates,
          luxfs_alloc_block, FreeBlocks, Succeeds, disk
  <2>5. SameArgs(c, c')
    BY <1>23 DEF TypeInv, TypeOK, CallType, Frame, SameArgs, WriteAllocates,
          luxfs_alloc_block, FreeBlocks, Succeeds
  <2>6. CallType'
    BY <1>23, <2>5 DEF TypeInv, TypeOK, CallType, Pcs, SameArgs, WriteAllocates,
          luxfs_alloc_block, FreeBlocks, Succeeds
  <2>7. CallOK'
    BY <1>23, <2>5 DEF TypeInv, CallOK, SameArgs, CreatePcs, FreePcs, WritePcs,
          FormatPcs, WriteAllocates, luxfs_alloc_block, FreeBlocks, Succeeds,
          mem
  <2> QED BY <2>1, <2>2, <2>3, <2>4, <2>6, <2>7 DEF TypeInv, TypeOK
<1>24. CASE WriteBlockBitmap
  <2>1. FlagType'
    BY <1>24 DEF TypeInv, TypeOK, FlagType, WriteBlockBitmap,
          luxfs_flush_block_bitmap, Return, Succeeds, Fails, mem, disk
  <2>2. BudgetType'
    BY <1>24, SizeAssumption DEF TypeInv, TypeOK, BudgetType, WriteBlockBitmap,
          luxfs_flush_block_bitmap, Return, Succeeds, Fails
  <2>3. MemType'
    <3>1. c.ino \in Inodes /\ c.blk \in Blocks \cup {INVALID}
      BY <1>24 DEF TypeInv, TypeOK, CallType, Frame, CallOK, WritePcs,
            WriteBlockBitmap
    <3>2. [inodes EXCEPT ![c.ino].direct[Slot] = c.blk] \in [Inodes -> Inode]
      BY <3>1, PointerUpdate DEF TypeInv, TypeOK, MemType
    <3> QED BY <1>24, <3>2 DEF TypeInv, TypeOK, MemType, WriteBlockBitmap
  <2>4. DiskType'
    BY <1>24, FlushType DEF TypeInv, TypeOK, DiskType, MemType,
          WriteBlockBitmap, luxfs_flush_block_bitmap, Return, Succeeds, Fails,
          disk
  <2>5. SameArgs(c, c')
    BY <1>24 DEF TypeInv, TypeOK, CallType, Frame, SameArgs, WriteBlockBitmap,
          luxfs_flush_block_bitmap, Return, Succeeds, Fails
  <2>6. CallType'
    BY <1>24, <2>5 DEF TypeInv, TypeOK, CallType, Pcs, SameArgs,
          WriteBlockBitmap, luxfs_flush_block_bitmap, Return, Succeeds, Fails
  <2>7. CallOK'
    BY <1>24, <2>5 DEF TypeInv, CallOK, SameArgs, CreatePcs, FreePcs, WritePcs,
          FormatPcs, WriteBlockBitmap, luxfs_flush_block_bitmap, Return,
          Succeeds, Fails, mem
  <2> QED BY <2>1, <2>2, <2>3, <2>4, <2>6, <2>7 DEF TypeInv, TypeOK
<1>25. CASE WritePatches
  <2>1. FlagType'
    BY <1>25 DEF TypeInv, TypeOK, FlagType, WritePatches, disk_write_data_block,
          Return, Succeeds, Fails, mem, disk
  <2>2. BudgetType'
    BY <1>25, SizeAssumption DEF TypeInv, TypeOK, BudgetType, WritePatches,
          disk_write_data_block, Return, Succeeds, Fails
  <2>3. MemType'
    <3> DEFINE end == c.off + Chunk
    <3>1. c.ino \in Inodes /\ inodes[c.ino].size \in Nat /\ end \in Nat
      BY <1>25, ChunkBounds
         DEF TypeInv, TypeOK, MemType, Inode, CallType, Frame, CallOK,
               WritePcs, WritePatches
    <3>2. [inodes EXCEPT ![c.ino].size = IF end > @ THEN end ELSE @] \in [Inodes -> Inode]
      BY <3>1, SizeUpdate DEF TypeInv, TypeOK, MemType
    <3> QED BY <1>25, <3>2 DEF TypeInv, TypeOK, MemType, WritePatches
  <2>4. DiskType'
    <3> DEFINE b == inodes[c.ino].direct[Slot]
    <3>1. CASE b \in Blocks
      <4>1. d_data[b] \in Sector /\ c.val \in Values
        BY <1>25, <3>1 DEF TypeInv, TypeOK, DiskType, CallOK, WritePcs, WritePatches
      <4> HIDE DEF b
      <4>2. [u \in Units |-> IF u \in At .. At + Chunk - 1 THEN <<"byte", c.val>>
                            ELSE IF c.fresh THEN Zero ELSE d_data[b][u]] \in Sector
        BY <4>1, BytePatchType
      <4> QED BY <1>25, <4>2 DEF TypeInv, TypeOK, DiskType, WritePatches,
            disk_write_data_block, b
    <3>2. CASE b \notin Blocks
      BY <1>25, <3>2 DEF TypeInv, TypeOK, DiskType, WritePatches,
            disk_write_data_block
    <3> QED BY <3>1, <3>2
  <2>5. SameArgs(c, c')
    <3>1. c.off + Chunk \in Nat /\ c.left - Chunk \in Nat
      BY ChunkBounds DEF TypeInv, TypeOK, CallType, Frame
    <3> HIDE DEF Chunk
    <3> QED BY <1>25, <3>1
            DEF TypeInv, TypeOK, CallType, Frame, SameArgs, WritePatches, Return
  <2>6. CallType'
    BY <1>25, <2>5 DEF TypeInv, TypeOK, CallType, Pcs, SameArgs, WritePatches,
          disk_write_data_block, Return, Succeeds, Fails
  <2>7. CallOK'
    BY <1>25, <2>5 DEF TypeInv, CallOK, SameArgs, CreatePcs, FreePcs, WritePcs,
          FormatPcs, WritePatches, disk_write_data_block, Return, Succeeds,
          Fails, mem
  <2> QED BY <2>1, <2>2, <2>3, <2>4, <2>6, <2>7 DEF TypeInv, TypeOK
<1>26. CASE WriteInode
  <2>1. FlagType'
    BY <1>26 DEF TypeInv, TypeOK, FlagType, WriteInode, luxfs_flush_inode,
          Return, Succeeds, Fails, mem, disk
  <2>2. BudgetType'
    BY <1>26, SizeAssumption DEF TypeInv, TypeOK, BudgetType, WriteInode,
          luxfs_flush_inode, Return, Succeeds, Fails
  <2>3. MemType'
    BY <1>26, ClearType DEF TypeInv, TypeOK, MemType, WriteInode,
          luxfs_flush_inode, Return, Succeeds, Fails, mem
  <2>4. DiskType'
    BY <1>26, FlushType DEF TypeInv, TypeOK, DiskType, MemType, WriteInode,
          luxfs_flush_inode, Return, Succeeds, Fails, disk
  <2>5. SameArgs(c, c')
    BY <1>26 DEF TypeInv, TypeOK, CallType, Frame, SameArgs, WriteInode,
          luxfs_flush_inode, Return, Succeeds, Fails
  <2>6. CallType'
    BY <1>26, <2>5 DEF TypeInv, TypeOK, CallType, Pcs, SameArgs, WriteInode,
          luxfs_flush_inode, Return, Succeeds, Fails
  <2>7. CallOK'
    BY <1>26, <2>5 DEF TypeInv, CallOK, SameArgs, CreatePcs, FreePcs, WritePcs,
          FormatPcs, WriteInode, luxfs_flush_inode, Return, Succeeds, Fails, mem
  <2> QED BY <2>1, <2>2, <2>3, <2>4, <2>6, <2>7 DEF TypeInv, TypeOK
<1>27. CASE Returns
  <2>1. FlagType'
    BY <1>27 DEF TypeInv, TypeOK, FlagType, Returns, mem, disk
  <2>2. BudgetType'
    BY <1>27, SizeAssumption DEF TypeInv, TypeOK, BudgetType, Returns
  <2>3. MemType'
    BY <1>27, ClearType DEF TypeInv, TypeOK, MemType, Returns, mem
  <2>4. DiskType'
    BY <1>27, FlushType DEF TypeInv, TypeOK, DiskType, MemType, Returns, disk
  <2>6. CallType'
    BY <1>27, NoCallType DEF TypeInv, TypeOK, CallType, Pcs, FormatPcs, Returns
  <2>7. CallOK'
    BY <1>27 DEF TypeInv, CallOK, CreatePcs, FreePcs, WritePcs, FormatPcs,
          Returns, mem
  <2> QED BY <2>1, <2>2, <2>3, <2>4, <2>6, <2>7 DEF TypeInv, TypeOK
<1>28. CASE \E path \in Paths : fs_touch(path) \/ fs_mkdir(path)
  <2>1. PICK op \in {"touch", "mkdir"}, type \in {"file", "dir"} : Begins(op, type)
    BY <1>28, TouchBegins, MkdirBegins
  <2>2. FlagType'
    BY <2>1 DEF TypeInv, TypeOK, FlagType, Begins, Answered, Allocated, Answer,
                luxfs_alloc_inode, mem, disk
  <2>3. BudgetType'
    BY <2>1 DEF TypeInv, TypeOK, BudgetType, Begins
  <2>4. DiskType'
    BY <2>1 DEF TypeInv, TypeOK, DiskType, Begins, disk
  <2>5. CASE Answered(op)
    <3>1. MemType'
      BY <2>5 DEF TypeInv, TypeOK, MemType, Answered, Answer, mem
    <3>2. CallType' /\ CallOK'
      BY <2>5, NoCallType DEF CallType, Pcs, Frame, NoCall, CallOK, Answered, Answer,
         CreatePcs, FreePcs, WritePcs, FormatPcs
    <3> QED BY <2>2, <2>3, <2>4, <3>1, <3>2 DEF TypeInv, TypeOK
  <2>6. CASE Allocated(op, type)
    <3>1. PICK parent \in Inodes, name \in Names :
            mounted /\ luxfs_alloc_inode(op, type, parent, name)
      BY <2>6 DEF Allocated
    <3>2. MemType'
      <4>1. PICK i \in Inodes :
              /\ inodes' = [inodes EXCEPT ![i] =
                              [luxfs_inode_clear EXCEPT !.type = type, !.parent = parent]]
              /\ inode_bitmap' = inode_bitmap \cup {i}
              /\ UNCHANGED block_bitmap
        BY <3>1 DEF luxfs_alloc_inode, FreeInodes
      <4>2. [luxfs_inode_clear EXCEPT !.type = type, !.parent = parent] \in Inode
        BY ClearType
      <4> QED BY <4>1, <4>2 DEF TypeInv, TypeOK, MemType
    <3>3. CallType'
      BY <3>1, NoCallType DEF CallType, Pcs, Frame, NoCall, Found, luxfs_alloc_inode, FreeInodes
    <3>4. CallOK'
      BY <3>1 DEF CallOK, NoCall, luxfs_alloc_inode, FreeInodes, mem,
         CreatePcs, FreePcs, WritePcs, FormatPcs
    <3> QED BY <2>2, <2>3, <2>4, <3>2, <3>3, <3>4 DEF TypeInv, TypeOK
  <2> QED BY <2>1, <2>5, <2>6 DEF Begins
<1>29. ASSUME NEW path \in Paths, NEW off \in Offsets, NEW len \in Lengths,
              NEW v \in Values, NEW t \in BOOLEAN, fs_write(path, off, len, v, t)
       PROVE  TypeInv'
  <2> DEFINE begun(i) == [NoCall EXCEPT !.op = "write", !.ino = i, !.start = off,
                            !.trunc = t, !.off = off, !.left = len, !.val = v]
  <2>1. \/ Answer("write", NONE, FALSE)
        \/ \E i \in Inodes : /\ mounted
                           /\ c' = begun(i)
                           /\ pc' \in {"rl", "wr", "wr_inode"}
    BY <1>29 DEF fs_write, Found
  <2>2. FlagType' /\ MemType' /\ DiskType'
    BY <1>29 DEF TypeInv, TypeOK, FlagType, MemType, DiskType, fs_write, mem, disk
  <2>3. BudgetType'
    <3>1. faults' \in faults .. MaxFaults /\ UNCHANGED crashes
      BY <1>29 DEF fs_write, ReadFaults
    <3> QED BY <3>1 DEF TypeInv, TypeOK, BudgetType
  <2>4. off \in Nat /\ len \in Nat
    BY SizeAssumption
  <2>5. CallType'
    <3>1. \A i \in Inodes : begun(i) \in Frame
      BY <2>4 DEF Frame, NoCall, Found
    <3>2. [NoCall EXCEPT !.op = "write", !.ino = NONE, !.ret = FALSE] \in Frame
      BY DEF Frame, NoCall, Found
    <3> HIDE DEF begun
    <3> QED BY <2>1, <3>1, <3>2 DEF CallType, Pcs, Answer
  <2>6. CallOK'
    BY <1>29, <2>1 DEF CallOK, NoCall, Answer, fs_write, mem,
       CreatePcs, FreePcs, WritePcs, FormatPcs
  <2> QED BY <2>2, <2>3, <2>5, <2>6 DEF TypeInv, TypeOK
<1> QED
  BY <1>1, <1>2, <1>3, <1>4, <1>5, <1>6, <1>7, <1>8, <1>9, <1>10, <1>11, <1>12, <1>13,
     <1>14, <1>15, <1>16, <1>17, <1>18, <1>19, <1>20, <1>21, <1>22, <1>23, <1>24, <1>25,
     <1>26, <1>27, <1>28, <1>29
  DEF Next, Call, Running, luxfs_format, luxfs_dir_append_record, luxfs_mark_inode_free

\* The kernel keeps every variable of the filesystem well typed: what fs_mount
\* reads back, what the loops of luxfs_dir_append_record and fs_write leave in
\* their locals, and every sector they write. (On a torn volume this is the
\* model's reading of an undefined record, see RecordInode.)
THEOREM TypeCorrect == Spec => []TypeOK
<1>1. TypeInv /\ UNCHANGED vars => TypeInv'
  BY DEF TypeInv, TypeOK, FlagType, MemType, DiskType, CallType, BudgetType, CallOK,
         vars, mem, disk
<1>2. TypeInv /\ [Next]_vars => TypeInv'
  BY <1>1, TypeNext
<1>3. TypeInv => TypeOK
  BY DEF TypeInv
<1> QED BY TypeInit, <1>2, <1>3, PTL DEF Spec

-----------------------------------------------------------------------------
(* Numbers.                                                                *)

\* Quotient and remainder.
LEMMA DivFacts ==
  ASSUME NEW n \in Nat \ {0}, NEW o \in Nat
  PROVE  /\ o \div n \in Nat /\ o % n \in 0 .. n - 1
         /\ o = n * (o \div n) + (o % n)
OBVIOUS

\* Being in the q-th sector.
LEMMA Quotient ==
  ASSUME NEW n \in Nat \ {0}, NEW o \in Nat, NEW q \in Nat, n * q <= o, o < n * q + n
  PROVE  o \div n = q
<1> DEFINE p == o \div n
<1>1. p \in Nat /\ n * p <= o /\ o < n * p + n
  BY DivFacts
<1> HIDE DEF p
<1>2. ASSUME NEW a \in Nat, NEW b \in Nat, a < b
      PROVE  n * a + n <= n * b
  <2>1. PICK d \in Nat : b = a + 1 + d
    <3>1. b - a - 1 \in Nat /\ b = a + 1 + (b - a - 1)
      BY <1>2
    <3> QED BY <3>1
  <2>2. n * b = n * a + n + n * d
    BY <2>1
  <2>3. n * d \in Nat /\ n * a \in Nat
    OBVIOUS
  <2> QED BY <2>2, <2>3
<1>3. ~(p < q) /\ ~(q < p)
  <2>0. n * p \in Nat /\ n * q \in Nat
    BY <1>1
  <2>1. ASSUME p < q PROVE FALSE
    BY <1>1, <1>2, <2>1, <2>0
  <2>2. ASSUME q < p PROVE FALSE
    BY <1>1, <1>2, <2>2, <2>0
  <2> QED BY <2>1, <2>2
<1>4. p = q
  BY <1>1, <1>3
<1> QED BY <1>4 DEF p

\* A later byte is in the same sector or in a later one.
LEMMA Monotone ==
  ASSUME NEW n \in Nat \ {0}, NEW o \in Nat, NEW p \in Nat, o <= p
  PROVE  o \div n <= p \div n
<1> DEFINE a == o \div n
           b == p \div n
<1>1. a \in Nat /\ b \in Nat /\ n * a <= o /\ p < n * b + n
  BY DivFacts
<1> HIDE DEF a, b
<1>2. n * a < n * b + n
  <2>1. n * a \in Nat /\ n * b \in Nat
    BY <1>1
  <2> QED BY <1>1, <2>1
<1>3. a < b + 1
  BY <1>1, <1>2
<1> QED BY <1>1, <1>3 DEF a, b

-----------------------------------------------------------------------------
(* What a format has written.                                              *)

\* A format begins with an empty call, writes the same image from memory to
\* the bitmaps and then the sectors of the table, one by one.
FormatInv ==
  /\ pc \in {"off", "fmt_super", "fmt_ibm", "fmt_bbm"} => c = NoCall
  /\ pc \in FormatPcs => /\ inode_bitmap = {Root} /\ block_bitmap = {}
                         /\ inodes = [[i \in Inodes |-> luxfs_inode_clear]
                                        EXCEPT ![Root].type = "dir"]
  /\ pc \in {"fmt_bbm", "fmt_itab"} => d_inode_bitmap = {Root}
  /\ pc = "fmt_itab" => \A i \in Inodes : i \div InodesPerBlock < c.off => d_inodes[i] = inodes[i]

\* A blank machine has not begun a format.
LEMMA FormatInit == Init => FormatInv
BY DEF Init, FormatInv, FormatPcs

\* Writing the sector c.off of the table.
LEMMA FormatSector ==
  ASSUME TypeInv, FormatInv, FormatInodeTable
  PROVE  /\ c.off \in Nat
         /\ \A i \in Inodes : i \div InodesPerBlock <= c.off => d_inodes'[i] = inodes[i]
<1>1. c.off \in Nat /\ pc = "fmt_itab"
  BY DEF FormatInodeTable, TypeInv, TypeOK, CallType, Frame
<1>2. \A i \in Inodes : i \div InodesPerBlock \in Nat
  BY Ranges, DivFacts, SizeAssumption
<1>3. \A i \in Inodes : /\ i \div InodesPerBlock = c.off => d_inodes'[i] = inodes[i]
                        /\ i \div InodesPerBlock # c.off => d_inodes'[i] = d_inodes[i]
  BY DEF FormatInodeTable, luxfs_flush_inode_block
<1> QED BY <1>1, <1>2, <1>3 DEF FormatInv

\* The last sector completes the table.
LEMMA FormatDone ==
  ASSUME TypeInv, FormatInv, FormatInodeTable, mounted'
  PROVE  /\ \A i \in Inodes : d_inodes'[i] = inodes[i] /\ inodes'[i] = inodes[i]
         /\ pc' = "idle" /\ c' = NoCall
<1>1. ~mounted
  BY DEF FormatInodeTable, TypeInv, CallOK, FormatPcs
<1>2. /\ c.off = (MaxInodes - 1) \div InodesPerBlock /\ pc' = "idle" /\ c' = NoCall
      /\ inodes' = inodes
  BY <1>1 DEF FormatInodeTable
<1> SUFFICES ASSUME NEW i \in Inodes PROVE d_inodes'[i] = inodes[i]
  BY <1>2
<1>3. i \in Nat /\ MaxInodes - 1 \in Nat /\ i <= MaxInodes - 1
  BY SizeAssumption DEF Inodes
<1>4. i \div InodesPerBlock <= c.off
  BY <1>2, <1>3, Monotone, SizeAssumption
<1> QED BY <1>4, FormatSector

\* A call that begins changes nothing but memory.
LEMMA CallBegins ==
  ASSUME Call
  PROVE  /\ pc = "idle" /\ pc' \in {"ret", "ai_bitmap", "rl", "wr_inode", "wr"}
         /\ UNCHANGED <<mounted, block_bitmap, disk, crashes, torn>>
<1>1. ASSUME NEW op, NEW type, Begins(op, type)
      PROVE  /\ pc = "idle" /\ pc' \in {"ret", "ai_bitmap"}
             /\ UNCHANGED <<mounted, block_bitmap, disk, crashes, torn>>
  BY <1>1 DEF Begins, Answered, Allocated, Answer, luxfs_alloc_inode, mem
<1>2. CASE \E path \in Paths : fs_touch(path)
  BY <1>1, <1>2, TouchBegins
<1>3. CASE \E path \in Paths : fs_mkdir(path)
  BY <1>1, <1>3, MkdirBegins
<1>4. ASSUME NEW path, NEW off, NEW len, NEW v, NEW t, fs_write(path, off, len, v, t)
      PROVE  /\ pc = "idle" /\ pc' \in {"ret", "rl", "wr_inode", "wr"}
             /\ UNCHANGED <<mounted, block_bitmap, disk, crashes, torn>>
  BY <1>4 DEF fs_write, Answer, mem
<1> QED BY <1>2, <1>3, <1>4 DEF Call

\* Only a boot begins a format, and only the format goes on with it.
LEMMA FormatNext ==
  ASSUME TypeInv, FormatInv, Next
  PROVE  FormatInv'
<1>1. CASE fs_mount
  BY <1>1 DEF fs_mount, FormatImage, FormatInv, FormatPcs, disk, mem
<1>2. CASE FormatSuperblock \/ FormatInodeBitmap \/ FormatBlockBitmap \/ FormatFails
  <2>1. CASE FormatSuperblock
    BY <2>1 DEF FormatSuperblock, Goto, FormatInv, FormatPcs, mem
  <2>2. CASE FormatInodeBitmap
    BY <2>2 DEF FormatInodeBitmap, luxfs_flush_inode_bitmap, Goto, FormatInv, FormatPcs, mem
  <2>3. CASE FormatBlockBitmap
    <3>1. \A i \in Inodes : i \div InodesPerBlock \in Nat
      BY Ranges, DivFacts, SizeAssumption
    <3>2. c' = NoCall /\ pc' = "fmt_itab"
      BY <2>3 DEF FormatBlockBitmap, Goto, FormatInv
    <3>3. \A i \in Inodes : ~(i \div InodesPerBlock < c'.off)
      <4>1. c'.off = 0
        BY <3>2 DEF NoCall
      <4> QED BY <3>1, <4>1
    <3> QED BY <2>3, <3>2, <3>3 DEF FormatBlockBitmap, FormatInv, FormatPcs, mem
  <2>4. CASE FormatFails
    BY <2>4 DEF FormatFails, FormatInv, FormatPcs
  <2> QED BY <1>2, <2>1, <2>2, <2>3, <2>4
<1>3. CASE FormatInodeTable
  <2>1. pc = "fmt_itab" /\ UNCHANGED <<inodes, inode_bitmap, block_bitmap, d_inode_bitmap>>
    BY <1>3 DEF FormatInodeTable
  <2>2. CASE pc' = "idle"
    BY <2>2 DEF FormatInv, FormatPcs
  <2>3. CASE pc' = pc /\ c' = [c EXCEPT !.off = c.off + 1]
    <3>1. c'.off = c.off + 1 /\ c.off \in Nat
      BY <1>3, <2>3, FormatSector DEF TypeInv, TypeOK, CallType, Frame
    <3>2. \A i \in Inodes : i \div InodesPerBlock \in Nat
      BY Ranges, DivFacts, SizeAssumption
    <3>3. \A i \in Inodes : i \div InodesPerBlock < c'.off => d_inodes'[i] = inodes'[i]
      BY <1>3, <2>1, <3>1, <3>2, FormatSector
    <3> QED BY <2>1, <2>3, <3>3 DEF FormatInv, FormatPcs
  <2> QED BY <1>3, <2>2, <2>3 DEF FormatInodeTable
<1>4. CASE shutdown \/ Crash
  BY <1>4 DEF shutdown, Crash, LosePower, FormatInv, FormatPcs
<1>5. CASE Call
  <2>1. pc' \notin FormatPcs \cup {"off"}
    BY <1>5, CallBegins DEF FormatPcs
  <2> QED BY <2>1 DEF FormatInv, FormatPcs
<1>6. CASE Running /\ ~luxfs_format
  <2>1. pc' \notin FormatPcs \cup {"off"}
    BY <1>6 DEF Running, AllocInodeBitmap, AllocInodeFlush, luxfs_dir_append_record, AppendRefused,
       AppendAllocates, AppendBlockBitmap, AppendZeroes, AppendPatches, AppendInode, ReleaseBlock,
       ReleasedForWrite, luxfs_mark_inode_free, ReleasedForFree, FreeInodeFlush, FreeInodeBitmap,
       WriteNoSpace, WriteAllocates, WriteBlockBitmap, WritePatches, WriteInode, Returns,
       luxfs_alloc_block, Goto, Return, FormatPcs
  <2> QED BY <2>1 DEF FormatInv, FormatPcs
<1> QED BY <1>1, <1>2, <1>3, <1>4, <1>5, <1>6 DEF Next, Running, luxfs_format

-----------------------------------------------------------------------------
(* Blocks have one owner.                                                  *)
(*                                                                         *)
(* CrossLinkFree is not inductive: after a reboot memory is what the disk  *)
(* held, and the two bitmaps differ whenever a flush has failed. LinkInv   *)
(* says what makes it so: a pointer's bit is set in memory AND on disk, a  *)
(* block being handed out has no pointer yet, and an unmounted disk is     *)
(* itself free of cross links.                                             *)

\* Every pointer's block is allocated, in memory and on disk.
Owned == \A i \in Inodes, k \in Slots : inodes[i].direct[k] # INVALID =>
           inodes[i].direct[k] \in block_bitmap /\ inodes[i].direct[k] \in d_block_bitmap

\* No two pointers name the same block.
Distinct(table) == \A i, j \in Inodes, k, l \in Slots :
                     table[i].direct[k] # INVALID /\ table[i].direct[k] = table[j].direct[l]
                       => i = j /\ k = l

\* The block luxfs_alloc_block has just taken belongs to no one yet.
Reserved == pc \in {"ap_bitmap", "ap_zero", "wr_bitmap"} =>
              /\ c.blk \in block_bitmap
              /\ pc = "ap_zero" => c.blk \in d_block_bitmap
              /\ \A i \in Inodes, k \in Slots : inodes[i].direct[k] # c.blk

DiskOwned == \A i \in Inodes, k \in Slots : d_inodes[i].direct[k] # INVALID =>
               d_inodes[i].direct[k] \in d_block_bitmap

\* What holds of memory while the volume is mounted, and of the disk while it
\* is not: the format and the crash are where one turns into the other.
MemLinks == mounted /\ ~torn => Owned /\ Distinct(inodes) /\ Reserved
FormatLinks == pc \in FormatPcs =>
                 \A i \in Inodes, k \in Slots : inodes[i].direct[k] = INVALID
DiskLinks == ~mounted /\ pc \notin FormatPcs \ {"fmt_super"} /\ d_super /\ ~torn =>
               DiskOwned /\ Distinct(d_inodes)

LinkInv == TypeInv /\ MemLinks /\ FormatLinks /\ DiskLinks

\* On disk the slots of one inode name different blocks, also while another
\* inode of the disk may name one of them.
DiskNeat == mounted /\ ~torn => \A i \in Inodes, k, l \in Slots :
              d_inodes[i].direct[k] # INVALID /\ d_inodes[i].direct[k] = d_inodes[i].direct[l]
                => k = l

\* No inode points anywhere before the first mount.
LEMMA LinkInit == Init => LinkInv
BY TypeInit DEF Init, LinkInv, MemLinks, FormatLinks, DiskLinks, FormatPcs

\* A step that only drops pointers, and frees no block still pointed to.
Drops == /\ \A i \in Inodes, k \in Slots :
              inodes'[i].direct[k] = INVALID \/ inodes'[i].direct[k] = inodes[i].direct[k]
         /\ \A i \in Inodes, k \in Slots : inodes'[i].direct[k] # INVALID =>
              inodes'[i].direct[k] \in block_bitmap' /\ inodes'[i].direct[k] \in d_block_bitmap'

\* Giving up pointers and then their blocks keeps the links apart.
LEMMA DropsKeeps ==
  ASSUME Distinct(inodes), Drops
  PROVE  Owned' /\ Distinct(inodes)'
<1>1. Owned'
  BY DEF Drops, Owned
<1>2. Distinct(inodes)'
  BY DEF Drops, Distinct
<1> QED BY <1>1, <1>2

\* A step that gives one slot the reserved block.
Installs(i0, k0) ==
  /\ c.blk \in block_bitmap' /\ c.blk \in d_block_bitmap'
  /\ \A i \in Inodes, k \in Slots : inodes[i].direct[k] # c.blk
  /\ \A i \in Inodes, k \in Slots :
       inodes'[i].direct[k] = IF i = i0 /\ k = k0 THEN c.blk ELSE inodes[i].direct[k]
  /\ \A i \in Inodes, k \in Slots : inodes[i].direct[k] # INVALID =>
       inodes[i].direct[k] \in block_bitmap' /\ inodes[i].direct[k] \in d_block_bitmap'

\* So does pointing to the block that was just allocated.
LEMMA InstallsKeeps ==
  ASSUME Distinct(inodes), NEW i0, NEW k0, Installs(i0, k0)
  PROVE  Owned' /\ Distinct(inodes)'
<1>1. Owned'
  BY DEF Installs, Owned
<1>2. Distinct(inodes)'
  BY DEF Installs, Distinct
<1> QED BY <1>1, <1>2

\* The steps inside a call: only the links in memory are at stake.
LEMMA CallKeeps ==
  ASSUME LinkInv, TypeInv', pc \in CreatePcs \cup FreePcs \cup WritePcs \cup {"rl"},
         UNCHANGED <<mounted, torn>>, pc' \notin FormatPcs,
         ~torn /\ Owned /\ Distinct(inodes) /\ Reserved =>
           Owned' /\ Distinct(inodes)' /\ Reserved'
  PROVE  LinkInv'
<1>1. mounted
  BY DEF LinkInv, TypeInv, CallOK
<1> QED BY <1>1 DEF LinkInv, MemLinks, FormatLinks, DiskLinks

\* Writing one pointer, in terms of all pointers.
LEMMA OnePointer ==
  ASSUME NEW table \in [Inodes -> Inode], NEW i0 \in Inodes, NEW k0,
         NEW x \in Blocks \cup {INVALID}
  PROVE  \A i \in Inodes, k \in Slots :
           [table EXCEPT ![i0].direct[k0] = x][i].direct[k]
             = IF i = i0 /\ k = k0 THEN x ELSE table[i].direct[k]
BY DEF TypeInv, TypeOK, MemType, Inode

\* Writing one size leaves all pointers alone.
LEMMA OneSize ==
  ASSUME NEW table \in [Inodes -> Inode], NEW i0, NEW n
  PROVE  \A i \in Inodes : [table EXCEPT ![i0].size = n][i].direct = table[i].direct
BY DEF Inode

\* Every step keeps the links. One step per action: the calls first, then
\* the boot, the format and the loss of power.
LEMMA LinkNext ==
  ASSUME LinkInv, DiskNeat, Next
  PROVE  LinkInv'
<1>0. TypeInv /\ TypeInv'
  BY TypeNext DEF LinkInv
<1>a. inodes \in [Inodes -> Inode]
  BY <1>0 DEF TypeInv, TypeOK, MemType
<1>1. CASE AllocInodeBitmap
  <2>1. /\ pc \in CreatePcs \cup FreePcs \cup WritePcs \cup {"rl"}
        /\ pc' \notin FormatPcs /\ UNCHANGED <<mounted, torn>>
    BY <1>1 DEF AllocInodeBitmap, Goto, Return, CreatePcs, FreePcs, WritePcs,
          FormatPcs, mem
  <2>2. ASSUME Owned, Distinct(inodes), Reserved
        PROVE  Owned' /\ Distinct(inodes)' /\ Reserved'
    BY <1>1, <2>2 DEF AllocInodeBitmap, Goto, Return, Owned, Distinct, Reserved,
          mem, disk
  <2> QED BY <1>0, <2>1, <2>2, CallKeeps
<1>2. CASE AllocInodeFlush
  <2>1. /\ pc \in CreatePcs \cup FreePcs \cup WritePcs \cup {"rl"}
        /\ pc' \notin FormatPcs /\ UNCHANGED <<mounted, torn>>
    BY <1>2 DEF AllocInodeFlush, Return, CreatePcs, FreePcs, WritePcs, FormatPcs, mem
  <2>2. ASSUME Owned, Distinct(inodes), Reserved
        PROVE  Owned' /\ Distinct(inodes)' /\ Reserved'
    BY <1>2, <2>2 DEF AllocInodeFlush, Return, Owned, Distinct, Reserved, mem, disk
  <2> QED BY <1>0, <2>1, <2>2, CallKeeps
<1>3. CASE AppendRefused
  <2>1. /\ pc \in CreatePcs \cup FreePcs \cup WritePcs \cup {"rl"}
        /\ pc' \notin FormatPcs /\ UNCHANGED <<mounted, torn>>
    BY <1>3 DEF AppendRefused, Goto, CreatePcs, FreePcs, WritePcs, FormatPcs, mem
  <2>2. ASSUME Owned, Distinct(inodes), Reserved
        PROVE  Owned' /\ Distinct(inodes)' /\ Reserved'
    BY <1>3, <2>2 DEF AppendRefused, Goto, Owned, Distinct, Reserved, mem, disk
  <2> QED BY <1>0, <2>1, <2>2, CallKeeps
<1>4. CASE AppendBlockBitmap
  <2>1. /\ pc \in CreatePcs \cup FreePcs \cup WritePcs \cup {"rl"}
        /\ pc' \notin FormatPcs /\ UNCHANGED <<mounted, torn>>
    BY <1>4 DEF AppendBlockBitmap, luxfs_flush_block_bitmap, Goto, CreatePcs,
          FreePcs, WritePcs, FormatPcs, mem
  <2>2. ASSUME Owned, Distinct(inodes), Reserved
        PROVE  Owned' /\ Distinct(inodes)' /\ Reserved'
    BY <1>4, <2>2 DEF AppendBlockBitmap, luxfs_flush_block_bitmap, Goto, Owned,
          Distinct, Reserved, mem, disk
  <2> QED BY <1>0, <2>1, <2>2, CallKeeps
<1>5. CASE AppendInode
  <2>1. /\ pc \in CreatePcs \cup FreePcs \cup WritePcs \cup {"rl"}
        /\ pc' \notin FormatPcs /\ UNCHANGED <<mounted, torn>>
    BY <1>5 DEF AppendInode, Goto, Return, CreatePcs, FreePcs, WritePcs,
          FormatPcs, mem
  <2>2. ASSUME Owned, Distinct(inodes), Reserved
        PROVE  Owned' /\ Distinct(inodes)' /\ Reserved'
    BY <1>5, <2>2 DEF AppendInode, Goto, Return, Owned, Distinct, Reserved, mem, disk
  <2> QED BY <1>0, <2>1, <2>2, CallKeeps
<1>6. CASE FreeInodeFlush
  <2>1. /\ pc \in CreatePcs \cup FreePcs \cup WritePcs \cup {"rl"}
        /\ pc' \notin FormatPcs /\ UNCHANGED <<mounted, torn>>
    BY <1>6 DEF FreeInodeFlush, Goto, CreatePcs, FreePcs, WritePcs, FormatPcs, mem
  <2>2. ASSUME Owned, Distinct(inodes), Reserved
        PROVE  Owned' /\ Distinct(inodes)' /\ Reserved'
    BY <1>6, <2>2 DEF FreeInodeFlush, Goto, Owned, Distinct, Reserved, mem, disk
  <2> QED BY <1>0, <2>1, <2>2, CallKeeps
<1>7. CASE FreeInodeBitmap
  <2>1. /\ pc \in CreatePcs \cup FreePcs \cup WritePcs \cup {"rl"}
        /\ pc' \notin FormatPcs /\ UNCHANGED <<mounted, torn>>
    BY <1>7 DEF FreeInodeBitmap, Return, CreatePcs, FreePcs, WritePcs, FormatPcs, mem
  <2>2. ASSUME Owned, Distinct(inodes), Reserved
        PROVE  Owned' /\ Distinct(inodes)' /\ Reserved'
    BY <1>7, <2>2 DEF FreeInodeBitmap, Return, Owned, Distinct, Reserved, mem, disk
  <2> QED BY <1>0, <2>1, <2>2, CallKeeps
<1>8. CASE WriteNoSpace
  <2>1. /\ pc \in CreatePcs \cup FreePcs \cup WritePcs \cup {"rl"}
        /\ pc' \notin FormatPcs /\ UNCHANGED <<mounted, torn>>
    BY <1>8 DEF WriteNoSpace, Return, CreatePcs, FreePcs, WritePcs, FormatPcs, mem
  <2>2. ASSUME Owned, Distinct(inodes), Reserved
        PROVE  Owned' /\ Distinct(inodes)' /\ Reserved'
    BY <1>8, <2>2 DEF WriteNoSpace, Return, Owned, Distinct, Reserved, mem, disk
  <2> QED BY <1>0, <2>1, <2>2, CallKeeps
<1>9. CASE WriteInode
  <2>1. /\ pc \in CreatePcs \cup FreePcs \cup WritePcs \cup {"rl"}
        /\ pc' \notin FormatPcs /\ UNCHANGED <<mounted, torn>>
    BY <1>9 DEF WriteInode, Return, CreatePcs, FreePcs, WritePcs, FormatPcs, mem
  <2>2. ASSUME Owned, Distinct(inodes), Reserved
        PROVE  Owned' /\ Distinct(inodes)' /\ Reserved'
    BY <1>9, <2>2 DEF WriteInode, Return, Owned, Distinct, Reserved, mem, disk
  <2> QED BY <1>0, <2>1, <2>2, CallKeeps
<1>10. CASE AppendAllocates
  <2>1. /\ pc \in CreatePcs \cup FreePcs \cup WritePcs \cup {"rl"}
        /\ pc' \notin FormatPcs /\ UNCHANGED <<mounted, torn>>
    BY <1>10 DEF AppendAllocates, luxfs_alloc_block, CreatePcs, FreePcs,
          WritePcs, FormatPcs, mem
  <2>2. ASSUME Owned, Distinct(inodes), Reserved
        PROVE  Owned' /\ Distinct(inodes)' /\ Reserved'
    <3>1. PICK b \in Blocks \ block_bitmap : /\ block_bitmap' = block_bitmap \cup {b}
                                             /\ c'.blk = b
      BY <1>0, <1>10 DEF AppendAllocates, luxfs_alloc_block, FreeBlocks,
            TypeInv, TypeOK, CallType, Frame
    <3>2. UNCHANGED <<inodes, d_block_bitmap>> /\ pc' # "ap_zero"
      BY <1>10 DEF AppendAllocates, luxfs_alloc_block, disk
    <3>3. b # INVALID
      BY Ranges
    <3>4. Owned' /\ Distinct(inodes)'
      BY <2>2, <3>1, <3>2 DEF Owned, Distinct
    <3>5. Reserved'
      BY <2>2, <3>1, <3>2, <3>3 DEF Owned, Reserved
    <3> QED BY <3>4, <3>5
  <2> QED BY <1>0, <2>1, <2>2, CallKeeps
<1>11. CASE WriteAllocates
  <2>1. /\ pc \in CreatePcs \cup FreePcs \cup WritePcs \cup {"rl"}
        /\ pc' \notin FormatPcs /\ UNCHANGED <<mounted, torn>>
    BY <1>11 DEF WriteAllocates, luxfs_alloc_block, CreatePcs, FreePcs,
          WritePcs, FormatPcs, mem
  <2>2. ASSUME Owned, Distinct(inodes), Reserved
        PROVE  Owned' /\ Distinct(inodes)' /\ Reserved'
    <3>1. PICK b \in Blocks \ block_bitmap : /\ block_bitmap' = block_bitmap \cup {b}
                                             /\ c'.blk = b
      BY <1>0, <1>11 DEF WriteAllocates, luxfs_alloc_block, FreeBlocks,
            TypeInv, TypeOK, CallType, Frame
    <3>2. UNCHANGED <<inodes, d_block_bitmap>> /\ pc' # "ap_zero"
      BY <1>11 DEF WriteAllocates, luxfs_alloc_block, disk
    <3>3. b # INVALID
      BY Ranges
    <3>4. Owned' /\ Distinct(inodes)'
      BY <2>2, <3>1, <3>2 DEF Owned, Distinct
    <3>5. Reserved'
      BY <2>2, <3>1, <3>2, <3>3 DEF Owned, Reserved
    <3> QED BY <3>4, <3>5
  <2> QED BY <1>0, <2>1, <2>2, CallKeeps
<1>12. CASE AppendZeroes
  <2>1. /\ pc \in CreatePcs \cup FreePcs \cup WritePcs \cup {"rl"}
        /\ pc' \notin FormatPcs /\ UNCHANGED <<mounted, torn>>
    BY <1>12 DEF AppendZeroes, Goto, CreatePcs, FreePcs, WritePcs, FormatPcs, mem
  <2>2. ASSUME Owned, Distinct(inodes), Reserved
        PROVE  Owned' /\ Distinct(inodes)' /\ Reserved'
    <3>1. c.dir \in Inodes /\ c.blk \in Blocks \cup {INVALID}
      BY <1>0, <1>12 DEF TypeInv, TypeOK, CallType, Frame, CallOK, CreatePcs,
            AppendZeroes
    <3>2. UNCHANGED <<block_bitmap, d_block_bitmap>> /\ Reserved'
      BY <1>12 DEF AppendZeroes, Goto, Reserved
    <3>3. CASE inodes' = [inodes EXCEPT ![c.dir].direct[Slot] = c.blk]
      <4>1. \A i \in Inodes, k \in Slots : inodes'[i].direct[k] =
              IF i = c.dir /\ k = Slot THEN c.blk ELSE inodes[i].direct[k]
        BY <1>a, <3>1, <3>3, OnePointer
      <4>2. Installs(c.dir, Slot)
        BY <1>12, <2>2, <3>2, <4>1 DEF Installs, Owned, Reserved, AppendZeroes
      <4> QED BY <2>2, <3>2, <4>2, InstallsKeeps
    <3>4. CASE UNCHANGED inodes
      BY <2>2, <3>2, <3>4 DEF Owned, Distinct
    <3> QED BY <1>12, <3>3, <3>4 DEF AppendZeroes
  <2> QED BY <1>0, <2>1, <2>2, CallKeeps
<1>13. CASE WriteBlockBitmap
  <2>1. /\ pc \in CreatePcs \cup FreePcs \cup WritePcs \cup {"rl"}
        /\ pc' \notin FormatPcs /\ UNCHANGED <<mounted, torn>>
    BY <1>13 DEF WriteBlockBitmap, Return, CreatePcs, FreePcs, WritePcs,
          FormatPcs, mem
  <2>2. ASSUME Owned, Distinct(inodes), Reserved
        PROVE  Owned' /\ Distinct(inodes)' /\ Reserved'
    <3>1. c.ino \in Inodes /\ c.blk \in Blocks \cup {INVALID}
      BY <1>0, <1>13 DEF TypeInv, TypeOK, CallType, Frame, CallOK, WritePcs,
            WriteBlockBitmap
    <3>2. UNCHANGED block_bitmap /\ Reserved'
      BY <1>13 DEF WriteBlockBitmap, Return, Reserved
    <3>3. CASE /\ inodes' = [inodes EXCEPT ![c.ino].direct[Slot] = c.blk]
               /\ d_block_bitmap' = block_bitmap
      <4>0. inodes' = [inodes EXCEPT ![c.ino].direct[Slot] = c.blk]
        BY <3>3
      <4>1. \A i \in Inodes, k \in Slots : inodes'[i].direct[k] =
              IF i = c.ino /\ k = Slot THEN c.blk ELSE inodes[i].direct[k]
        BY <1>a, <3>1, <4>0, OnePointer
      <4>2. Installs(c.ino, Slot)
        BY <1>13, <2>2, <3>2, <3>3, <4>1 DEF Installs, Owned, Reserved,
              WriteBlockBitmap
      <4> QED BY <2>2, <3>2, <4>2, InstallsKeeps
    <3>4. CASE UNCHANGED <<inodes, d_block_bitmap>>
      BY <2>2, <3>2, <3>4 DEF Owned, Distinct
    <3> QED BY <1>13, <3>3, <3>4 DEF WriteBlockBitmap, luxfs_flush_block_bitmap
  <2> QED BY <1>0, <2>1, <2>2, CallKeeps
<1>14. CASE AppendPatches
  <2>1. /\ pc \in CreatePcs \cup FreePcs \cup WritePcs \cup {"rl"}
        /\ pc' \notin FormatPcs /\ UNCHANGED <<mounted, torn>>
    BY <1>14 DEF AppendPatches, Goto, CreatePcs, FreePcs, WritePcs, FormatPcs, mem
  <2>2. ASSUME Owned, Distinct(inodes), Reserved
        PROVE  Owned' /\ Distinct(inodes)' /\ Reserved'
    <3>1. \A i \in Inodes : inodes'[i].direct = inodes[i].direct
      <4>1. UNCHANGED inodes \/ \E n : inodes' = [inodes EXCEPT ![c.dir].size = n]
        BY <1>14 DEF AppendPatches
      <4>2. CASE UNCHANGED inodes
        BY <4>2
      <4>3. ASSUME NEW n, inodes' = [inodes EXCEPT ![c.dir].size = n]
            PROVE  \A i \in Inodes : inodes'[i].direct = inodes[i].direct
        BY <1>a, <4>3, OneSize
      <4> QED BY <4>1, <4>2, <4>3
    <3>2. UNCHANGED <<block_bitmap, d_block_bitmap>> /\ Reserved'
      BY <1>14 DEF AppendPatches, Goto, Reserved
    <3> QED BY <2>2, <3>1, <3>2 DEF Owned, Distinct
  <2> QED BY <1>0, <2>1, <2>2, CallKeeps
<1>15. CASE WritePatches
  <2>1. /\ pc \in CreatePcs \cup FreePcs \cup WritePcs \cup {"rl"}
        /\ pc' \notin FormatPcs /\ UNCHANGED <<mounted, torn>>
    BY <1>15 DEF WritePatches, Return, CreatePcs, FreePcs, WritePcs, FormatPcs, mem
  <2>2. ASSUME Owned, Distinct(inodes), Reserved
        PROVE  Owned' /\ Distinct(inodes)' /\ Reserved'
    <3>1. \A i \in Inodes : inodes'[i].direct = inodes[i].direct
      <4>1. UNCHANGED inodes \/ \E n : inodes' = [inodes EXCEPT ![c.ino].size = n]
        BY <1>15 DEF WritePatches
      <4>2. CASE UNCHANGED inodes
        BY <4>2
      <4>3. ASSUME NEW n, inodes' = [inodes EXCEPT ![c.ino].size = n]
            PROVE  \A i \in Inodes : inodes'[i].direct = inodes[i].direct
        BY <1>a, <4>3, OneSize
      <4> QED BY <4>1, <4>2, <4>3
    <3>2. UNCHANGED <<block_bitmap, d_block_bitmap>> /\ Reserved'
      BY <1>15 DEF WritePatches, Return, Reserved
    <3> QED BY <2>2, <3>1, <3>2 DEF Owned, Distinct
  <2> QED BY <1>0, <2>1, <2>2, CallKeeps
<1>16. CASE ReleaseBlock
  <2>1. /\ pc \in CreatePcs \cup FreePcs \cup WritePcs \cup {"rl"}
        /\ pc' \notin FormatPcs /\ UNCHANGED <<mounted, torn>>
    BY <1>16 DEF ReleaseBlock, HeldSlots, CreatePcs, FreePcs, WritePcs, FormatPcs, mem
  <2>2. ASSUME Owned, Distinct(inodes), Reserved
        PROVE  Owned' /\ Distinct(inodes)' /\ Reserved'
    <3>1. c.ino \in Inodes
      BY <1>0, <1>16 DEF TypeInv, CallOK, ReleaseBlock
    <3>2. PICK k0 \in Slots :
            LET b == inodes[c.ino].direct[k0]
            IN  /\ b # INVALID
                /\ inodes' = [inodes EXCEPT ![c.ino].direct[k0] = INVALID]
                /\ block_bitmap' = block_bitmap \ {b}
                /\ d_block_bitmap' = block_bitmap \ {b} \/ UNCHANGED d_block_bitmap
      BY <1>16 DEF ReleaseBlock, HeldSlots
    <3>3. \A i \in Inodes, k \in Slots :
            inodes'[i].direct[k] = IF i = c.ino /\ k = k0 THEN INVALID ELSE inodes[i].direct[k]
      BY <1>a, <3>1, <3>2, OnePointer
    <3>4. Drops
      BY <2>2, <3>1, <3>2, <3>3 DEF Drops, Owned, Distinct
    <3>5. Reserved'
      BY <1>16 DEF ReleaseBlock, Reserved
    <3> QED BY <2>2, <3>4, <3>5, DropsKeeps
  <2> QED BY <1>0, <2>1, <2>2, CallKeeps
<1>17. CASE ReleasedForWrite
  <2>1. /\ pc \in CreatePcs \cup FreePcs \cup WritePcs \cup {"rl"}
        /\ pc' \notin FormatPcs /\ UNCHANGED <<mounted, torn>>
    BY <1>17 DEF ReleasedForWrite, Return, Goto, CreatePcs, FreePcs, WritePcs,
          FormatPcs, mem
  <2>2. ASSUME Owned, Distinct(inodes), Reserved
        PROVE  Owned' /\ Distinct(inodes)' /\ Reserved'
    <3>1. \A i \in Inodes : inodes'[i].direct = inodes[i].direct
      BY <1>0, <1>17 DEF ReleasedForWrite, TypeInv, TypeOK, MemType, Inode
    <3>2. UNCHANGED <<block_bitmap, d_block_bitmap>> /\ Reserved'
      BY <1>17 DEF ReleasedForWrite, Return, Goto, Reserved, disk
    <3> QED BY <2>2, <3>1, <3>2 DEF Owned, Distinct
  <2> QED BY <1>0, <2>1, <2>2, CallKeeps
<1>18. CASE ReleasedForFree
  <2>1. /\ pc \in CreatePcs \cup FreePcs \cup WritePcs \cup {"rl"}
        /\ pc' \notin FormatPcs /\ UNCHANGED <<mounted, torn>>
    BY <1>18 DEF ReleasedForFree, Goto, CreatePcs, FreePcs, WritePcs, FormatPcs, mem
  <2>2. ASSUME Owned, Distinct(inodes), Reserved
        PROVE  Owned' /\ Distinct(inodes)' /\ Reserved'
    <3>1. Drops
      BY <1>0, <1>18, <2>2 DEF ReleasedForFree, luxfs_inode_clear, Drops,
            Owned, TypeInv, TypeOK,
         MemType, disk
    <3>2. Reserved'
      BY <1>18 DEF ReleasedForFree, Goto, Reserved
    <3> QED BY <2>2, <3>1, <3>2, DropsKeeps
  <2> QED BY <1>0, <2>1, <2>2, CallKeeps
<1>19. CASE Returns
  BY <1>0, <1>19 DEF Returns, LinkInv, MemLinks, FormatLinks, DiskLinks, Owned, DiskOwned,
     Distinct, Reserved, FormatPcs, mem, disk
<1>20. CASE \E path \in Paths : fs_touch(path) \/ fs_mkdir(path)
  <2>1. PICK op \in {"touch", "mkdir"}, type \in {"file", "dir"} : Begins(op, type)
    BY <1>20, TouchBegins, MkdirBegins
  <2>2. CASE Answered(op)
    <3>1. UNCHANGED <<mem, disk, torn>> /\ pc = "idle" /\ pc' = "ret"
      BY <2>1, <2>2 DEF Answered, Answer, Begins
    <3> QED BY <1>0, <3>1 DEF LinkInv, MemLinks, FormatLinks, DiskLinks, Owned, DiskOwned,
               Distinct, Reserved, FormatPcs, mem, disk
  <2>3. CASE Allocated(op, type)
    <3>1. PICK parent \in Inodes, name \in Names :
            mounted /\ luxfs_alloc_inode(op, type, parent, name)
      BY <2>3 DEF Allocated
    <3>2. PICK i0 \in Inodes : inodes' = [inodes EXCEPT ![i0] =
                  [luxfs_inode_clear EXCEPT !.type = type, !.parent = parent]]
      BY <3>1 DEF luxfs_alloc_inode, FreeInodes
    <3>3. [luxfs_inode_clear EXCEPT !.type = type, !.parent = parent].direct
            = [k \in Slots |-> INVALID]
      BY DEF luxfs_inode_clear
    <3>4. /\ UNCHANGED <<mounted, torn, block_bitmap, d_block_bitmap>>
          /\ pc' = "ai_bitmap"
      BY <2>1, <3>1 DEF luxfs_alloc_inode, Begins, disk
    <3>5. ASSUME Owned, Distinct(inodes)
          PROVE  Owned' /\ Distinct(inodes)'
      <4>1. \A i \in Inodes : \/ inodes'[i].direct = [k \in Slots |-> INVALID]
                              \/ inodes'[i].direct = inodes[i].direct
        BY <1>0, <3>2, <3>3 DEF TypeInv, TypeOK, MemType
      <4>2. Drops
        BY <3>4, <3>5, <4>1 DEF Drops, Owned
      <4> QED BY <3>5, <4>2, DropsKeeps
    <3> QED BY <1>0, <3>1, <3>4, <3>5 DEF LinkInv, MemLinks, FormatLinks, DiskLinks, Reserved, FormatPcs
  <2> QED BY <2>1, <2>2, <2>3 DEF Begins
<1>21. ASSUME NEW path \in Paths, NEW off \in Offsets, NEW len \in Lengths,
              NEW v \in Values, NEW t \in BOOLEAN, fs_write(path, off, len, v, t)
       PROVE  LinkInv'
  <2>1. UNCHANGED <<mem, disk, torn>> /\ pc = "idle" /\ pc' \in {"ret", "rl", "wr", "wr_inode"}
    BY <1>21 DEF fs_write, Answer
  <2> QED BY <1>0, <2>1 DEF LinkInv, MemLinks, FormatLinks, DiskLinks, Owned, DiskOwned,
             Distinct, Reserved, FormatPcs, mem, disk
<1>22. CASE fs_mount
  <2>1. ~mounted /\ pc = "off" /\ UNCHANGED <<disk, torn>>
    BY <1>0, <1>22 DEF fs_mount, TypeInv, CallOK
  <2>2. CASE pc' = "idle" /\ UNCHANGED mem
    BY <1>0, <2>1, <2>2 DEF LinkInv, MemLinks, FormatLinks, DiskLinks, Owned, DiskOwned,
       Distinct, Reserved, FormatPcs, mem, disk
  <2>3. CASE /\ d_super /\ inodes' = d_inodes /\ block_bitmap' = d_block_bitmap
             /\ mounted' /\ pc' = "idle"
    <3>1. ~torn => DiskOwned /\ Distinct(d_inodes)
      BY <2>1, <2>3 DEF LinkInv, DiskLinks, FormatPcs
    <3> QED BY <1>0, <2>1, <2>3, <3>1 DEF LinkInv, MemLinks, FormatLinks, DiskLinks, Owned,
               DiskOwned, Distinct, Reserved, FormatPcs, disk
  <2>4. CASE FormatImage /\ pc' = "fmt_super" /\ UNCHANGED mounted
    <3>1. \A i \in Inodes, k \in Slots : inodes'[i].direct[k] = INVALID
      BY <2>4, Ranges DEF FormatImage, luxfs_inode_clear, Root
    <3> QED BY <1>0, <2>1, <2>4, <3>1 DEF LinkInv, MemLinks, FormatLinks, DiskLinks,
               DiskOwned, Distinct, FormatPcs, disk
  <2> QED BY <1>22, <2>2, <2>3, <2>4 DEF fs_mount
<1>23. CASE FormatSuperblock \/ FormatInodeBitmap \/ FormatBlockBitmap
  <2>1. /\ pc \in FormatPcs /\ pc' \in FormatPcs \ {"fmt_super"}
        /\ UNCHANGED <<mounted, inodes>>
    BY <1>23 DEF FormatSuperblock, FormatInodeBitmap, FormatBlockBitmap, Goto, FormatPcs, mem
  <2>2. ~mounted
    BY <1>0, <2>1 DEF TypeInv, CallOK
  <2> QED BY <1>0, <2>1, <2>2 DEF LinkInv, MemLinks, FormatLinks, DiskLinks
<1>24. CASE FormatInodeTable
  <2>1. \A i \in Inodes, k \in Slots : inodes'[i].direct[k] = INVALID
    BY <1>24 DEF FormatInodeTable, LinkInv, FormatLinks, FormatPcs
  <2>2. \/ mounted' /\ pc' = "idle"
        \/ ~mounted' /\ pc' = "fmt_itab"
    <3>1. ~mounted
      BY <1>0, <1>24 DEF FormatInodeTable, TypeInv, CallOK, FormatPcs
    <3>2. (mounted' = TRUE /\ pc' = "idle") \/ UNCHANGED <<mounted, pc>>
      BY <1>24 DEF FormatInodeTable
    <3>3. pc = "fmt_itab"
      BY <1>24 DEF FormatInodeTable
    <3>4. CASE mounted' = TRUE /\ pc' = "idle"
      BY <3>4
    <3>5. CASE UNCHANGED <<mounted, pc>>
      BY <3>1, <3>3, <3>5
    <3> QED BY <3>2, <3>4, <3>5
  <2> QED BY <1>0, <2>1, <2>2 DEF LinkInv, MemLinks, FormatLinks, DiskLinks, Owned, Distinct,
             Reserved, FormatPcs
<1>25. CASE FormatFails
  <2>1. ~mounted' /\ pc' = "idle" /\ UNCHANGED disk
    BY <1>0, <1>25 DEF FormatFails, TypeInv, CallOK, mem
  <2>2. d_super /\ ~torn' => DiskOwned /\ Distinct(d_inodes)
    BY <1>0, <1>25 DEF FormatFails, Tears, LinkInv, DiskLinks, TypeInv, CallOK
  <2> QED BY <1>0, <2>1, <2>2 DEF LinkInv, MemLinks, FormatLinks, DiskLinks, DiskOwned,
             Distinct, FormatPcs, disk
<1>26. CASE shutdown \/ Crash
  <2>1. LosePower
    BY <1>26 DEF shutdown, Crash
  <2>2. ~mounted' /\ pc' = "off" /\ UNCHANGED disk
    BY <2>1 DEF LosePower
  <2>3. ASSUME d_super, ~torn'
        PROVE  DiskOwned /\ Distinct(d_inodes)
    <3>1. ~torn /\ ~Tears
      BY <2>1, <2>3 DEF LosePower
    <3>2. CASE ~mounted
      BY <2>3, <3>1, <3>2 DEF Tears, LinkInv, DiskLinks
    <3>3. CASE mounted
      <4>1. \A i \in Inodes, k \in Slots : \/ d_inodes[i].direct[k] = INVALID
              \/ \E l \in Slots : d_inodes[i].direct[k] = inodes[i].direct[l]
        BY <3>1, <3>3 DEF Tears, Stale
      <4>2. Owned /\ Distinct(inodes)
        BY <3>1, <3>3 DEF LinkInv, MemLinks
      <4>3. DiskOwned
        BY <4>1, <4>2 DEF Owned, DiskOwned
      <4>4. ASSUME NEW i \in Inodes, NEW j \in Inodes, NEW k \in Slots, NEW l \in Slots,
                   d_inodes[i].direct[k] # INVALID, d_inodes[i].direct[k] = d_inodes[j].direct[l]
            PROVE  i = j /\ k = l
        <5>1. PICK m \in Slots, n \in Slots : /\ d_inodes[i].direct[k] = inodes[i].direct[m]
                                             /\ d_inodes[j].direct[l] = inodes[j].direct[n]
          BY <4>1, <4>4
        <5>2. i = j
          <6>1. inodes[i].direct[m] # INVALID /\ inodes[i].direct[m] = inodes[j].direct[n]
            BY <4>4, <5>1
          <6> QED BY <4>2, <6>1 DEF Distinct
        <5> QED BY <3>1, <3>3, <4>4, <5>2 DEF DiskNeat
      <4> QED BY <4>3, <4>4 DEF Distinct
    <3> QED BY <3>2, <3>3
  <2> QED BY <1>0, <2>2, <2>3 DEF LinkInv, MemLinks, FormatLinks, DiskLinks, DiskOwned,
             Distinct, FormatPcs, disk
<1> QED
  BY <1>1, <1>2, <1>3, <1>4, <1>5, <1>6, <1>7, <1>8, <1>9, <1>10, <1>11, <1>12, <1>13,
     <1>14, <1>15, <1>16, <1>17, <1>18, <1>19, <1>20, <1>21, <1>22, <1>23, <1>24, <1>25, <1>26
  DEF Next, Call, Running, luxfs_format, luxfs_dir_append_record, luxfs_mark_inode_free

\* Writing a sector of the table copies inodes whose slots differ.
LEMMA NeatFlush ==
  ASSUME LinkInv, DiskNeat, mounted, ~torn, NEW b, luxfs_flush_inode_block(b)
  PROVE  \A i \in Inodes, k, l \in Slots :
           d_inodes'[i].direct[k] # INVALID /\ d_inodes'[i].direct[k] = d_inodes'[i].direct[l]
             => k = l
<1>1. Distinct(inodes)
  BY DEF LinkInv, MemLinks
<1>2. \A i \in Inodes : d_inodes'[i] = inodes[i] \/ d_inodes'[i] = d_inodes[i]
  BY DEF luxfs_flush_inode_block
<1> QED BY <1>1, <1>2 DEF Distinct, DiskNeat

\* The table on disk stays neat: it is written from memory, and memory is
\* loaded from a disk without cross links.
LEMMA NeatNext ==
  ASSUME LinkInv, DiskNeat, FormatInv, Next
  PROVE  DiskNeat'
<1>0. TypeInv /\ LinkInv'
  BY LinkNext DEF LinkInv
<1>1. CASE UNCHANGED <<mounted, d_inodes>> /\ (torn => torn')
  BY <1>1 DEF DiskNeat
<1>2. CASE AllocInodeFlush \/ AppendInode \/ FreeInodeFlush \/ WriteInode
  <2>1. mounted /\ UNCHANGED <<mounted, torn>>
    BY <1>0, <1>2 DEF AllocInodeFlush, AppendInode, FreeInodeFlush, WriteInode, mem, TypeInv,
       CallOK, CreatePcs, FreePcs, WritePcs
  <2>2. CASE UNCHANGED d_inodes
    BY <2>1, <2>2 DEF DiskNeat
  <2>3. CASE \E b \in Int : luxfs_flush_inode_block(b)
    BY <2>1, <2>3, NeatFlush DEF DiskNeat
  <2>4. ASSUME NEW i \in Inodes, luxfs_flush_inode(i) PROVE \E b \in Int : luxfs_flush_inode_block(b)
    <3>1. i \div InodesPerBlock \in Int
      BY Ranges, SizeAssumption
    <3> QED BY <2>4, <3>1 DEF luxfs_flush_inode
  <2>5. (pc \in CreatePcs => c.dir \in Inodes) /\ c.ino \in Inodes
    BY <1>0, <1>2 DEF AllocInodeFlush, AppendInode, FreeInodeFlush, WriteInode, TypeInv,
       CallOK, CreatePcs, FreePcs, WritePcs
  <2> QED BY <1>2, <2>2, <2>3, <2>4, <2>5 DEF AllocInodeFlush, AppendInode, FreeInodeFlush,
             WriteInode, CreatePcs
<1>3. CASE FormatInodeTable \/ fs_mount
  <2>1. ASSUME mounted', ~torn' PROVE Distinct(d_inodes')
    <3>1. CASE FormatInodeTable
      <4>1. \A i \in Inodes, k \in Slots : inodes[i].direct[k] = INVALID
        BY <3>1 DEF FormatInodeTable, LinkInv, FormatLinks, FormatPcs
      <4>2. \A i \in Inodes : d_inodes'[i] = inodes[i]
        BY <1>0, <2>1, <3>1, FormatDone
      <4> QED BY <4>1, <4>2 DEF Distinct
    <3>2. CASE fs_mount
      <4>1. ~mounted
        BY <1>0, <3>2 DEF fs_mount, TypeInv, CallOK, FormatPcs
      <4>2. inodes' = d_inodes /\ d_inodes' = d_inodes
        BY <2>1, <3>2, <4>1 DEF fs_mount, mem, disk
      <4>3. Distinct(inodes)'
        BY <1>0, <2>1 DEF LinkInv, MemLinks
      <4> QED BY <4>2, <4>3 DEF Distinct
    <3> QED BY <1>3, <3>1, <3>2
  <2> QED BY <2>1 DEF DiskNeat, Distinct
<1>4. CASE shutdown \/ Crash
  BY <1>4 DEF shutdown, Crash, LosePower, DiskNeat
<1>5. CASE Call
  BY <1>1, <1>5, CallBegins DEF disk
<1>6. CASE luxfs_format /\ ~FormatInodeTable
  <2>1. UNCHANGED <<mounted, d_inodes>>
    BY <1>6 DEF luxfs_format, FormatSuperblock, FormatInodeBitmap, FormatBlockBitmap,
       FormatFails, mem, disk
  <2>2. torn => torn'
    BY <1>6 DEF luxfs_format, FormatSuperblock, FormatInodeBitmap, FormatBlockBitmap,
       FormatFails
  <2> QED BY <1>1, <2>1, <2>2
<1>7. CASE /\ Running /\ ~luxfs_format
           /\ ~(AllocInodeFlush \/ AppendInode \/ FreeInodeFlush \/ WriteInode)
  <2>1. UNCHANGED <<mounted, d_inodes, torn>>
    BY <1>7 DEF Running, AllocInodeBitmap, luxfs_dir_append_record, AppendRefused,
     AppendAllocates, AppendBlockBitmap, AppendZeroes, AppendPatches, ReleaseBlock,
     ReleasedForWrite, luxfs_mark_inode_free, ReleasedForFree, FreeInodeBitmap,
     WriteNoSpace, WriteAllocates, WriteBlockBitmap, WritePatches, Returns,
     luxfs_alloc_block, mem, disk
  <2> QED BY <1>1, <2>1
<1> QED BY <1>2, <1>3, <1>4, <1>5, <1>6, <1>7 DEF Next, Running, luxfs_format

\* No step at all keeps them, too.
LEMMA LinkStutter ==
  ASSUME LinkInv, DiskNeat, UNCHANGED vars
  PROVE  LinkInv' /\ DiskNeat'
BY DEF LinkInv, TypeInv, TypeOK, FlagType, MemType, DiskType, CallType, BudgetType, CallOK,
   MemLinks, FormatLinks, DiskLinks, Owned, DiskOwned, Distinct, Reserved, DiskNeat, vars, mem, disk

\* No failed sector write and no reboot ever makes LuxFS give one data block
\* to two owners, or treat a block that is in use as free, on a volume of any
\* size: the order in which luxfs_alloc_block, luxfs_free_block and
\* luxfs_flush_inode write their sectors is enough, except for a loss of power
\* (or a failed format) that the variable torn records.
THEOREM NoCrossLinks == Spec => []CrossLinkFree
<1> DEFINE Inv == LinkInv /\ DiskNeat /\ FormatInv
<1>1. Inv /\ [Next]_vars => Inv'
  <2>1. TypeInv /\ FormatInv /\ UNCHANGED vars => FormatInv'
    BY DEF FormatInv, vars, mem, disk
  <2>2. LinkInv => TypeInv
    BY DEF LinkInv
  <2> QED BY <2>1, <2>2, LinkStutter, LinkNext, NeatNext, FormatNext
<1>2. LinkInv => CrossLinkFree
  BY DEF LinkInv, MemLinks, Owned, Distinct, CrossLinkFree
<1>3. Init => Inv
  BY LinkInit, FormatInit DEF Init, DiskNeat
<1> QED BY <1>1, <1>2, <1>3, PTL DEF Spec
-----------------------------------------------------------------------------
(* A file has a block for every byte of its size.                          *)

\* The node has a block for each of its first n bytes.
CoveredTo(node, n) ==
  \A o \in Nat : o < n => o \div SectorSize \in Slots
                          /\ node.direct[o \div SectorSize] # INVALID

\* An inode of which fs_stat_path may report the size: a file is covered, an
\* inode that is free has no size. Of directories nothing is claimed.
Solid(node) == /\ node.type = "file" => CoveredTo(node, node.size)
               /\ node.type = "free" => node.size = 0

\* A truncating write is the only place where a file is not solid: its blocks
\* go one by one before its size does.
Truncating == pc = "rl" /\ c.op = "write"
Writing == pc \in WritePcs \/ Truncating

MemSolid == \A i \in Inodes : Solid(inodes[i]) \/ (Truncating /\ i = c.ino)
DiskSolid == \A i \in Inodes : Solid(d_inodes[i])

\* What a write may rely on: its bytes fit into the file, and every byte
\* before the one it has reached has a block. fs_write checked both before it
\* began, the second as offset <= size.
WriteOK == Writing => /\ inodes[c.ino].type = "file"
                      /\ c.off + c.left <= MaxSize
                      /\ Truncating => c.off = 0
                      /\ pc \in {"wr", "wr_bitmap"} => CoveredTo(inodes[c.ino], c.off)

\* A create that gives its inode back releases the blocks of an inode that
\* has no bytes.
CreateOK == pc \in CreatePcs \cup {"rl"} /\ c.op # "write" =>
              inodes[c.ino].type = "dir" \/ inodes[c.ino].size = 0

\* The block that is about to be pointed to is one.
BlockOK == pc \in {"ap_bitmap", "ap_zero", "wr_bitmap"} => c.blk \in Blocks

SolidInv == TypeInv /\ MemSolid /\ DiskSolid /\ WriteOK /\ CreateOK /\ BlockOK

\* A node that is covered has its bytes where fs_read looks for them.
LEMMA CoveredReads ==
  ASSUME NEW node, NEW n \in Nat, CoveredTo(node, n), NEW o \in Nat, o < n
  PROVE  Reachable(node, o)
<1> SUFFICES ASSUME NEW k \in 0 .. o \div SectorSize
             PROVE  k \in Slots /\ node.direct[k] # INVALID
  BY DEF Reachable
<1>0. SectorSize \in Nat \ {0}
  BY SizeAssumption
<1>1. PICK q \in Nat : q = o \div SectorSize /\ SectorSize * q <= o
  <2>1. PICK q \in Nat, r \in 0 .. SectorSize - 1 :
           q = o \div SectorSize /\ o = SectorSize * q + r
    BY <1>0, DivFacts
  <2>2. SectorSize * q \in Nat /\ r \in Nat
    BY <1>0, <2>1
  <2> QED BY <2>1, <2>2
<1>2. k \in Nat /\ k <= q
  BY <1>1
<1>3. PICK p \in Nat : p = SectorSize * k
  BY <1>0, <1>2
<1>4. p <= SectorSize * q
  <2>1. PICK d \in Nat : q = k + d
    <3>1. q - k \in Nat /\ q = k + (q - k)
      BY <1>1, <1>2
    <3> QED BY <3>1
  <2>2. SectorSize * q = SectorSize * k + SectorSize * d
    BY <1>0, <1>2, <2>1
  <2>3. SectorSize * d \in Nat /\ SectorSize * k \in Nat
    BY <1>0, <1>2
  <2> QED BY <1>3, <2>2, <2>3
<1>5. p \div SectorSize = k
  <2>1. SectorSize * k <= p /\ p < SectorSize * k + SectorSize
    BY <1>0, <1>3
  <2> QED BY <1>0, <1>2, <1>3, <2>1, Quotient
<1>6. p < n
  <2>1. SectorSize * q \in Nat
    BY <1>0
  <2> QED BY <1>1, <1>3, <1>4, <2>1
<1> QED BY <1>5, <1>6 DEF CoveredTo

\* With the block of the sector that the loop of fs_write has reached, all
\* that it fills of the sector is covered.
LEMMA CoveredFurther ==
  ASSUME NEW node, NEW off \in Nat, NEW m \in Nat, CoveredTo(node, off),
         off \div SectorSize \in Slots, node.direct[off \div SectorSize] # INVALID,
         m <= SectorSize - (off % SectorSize)
  PROVE  CoveredTo(node, off + m)
<1> SUFFICES ASSUME NEW o \in Nat, o < off + m
             PROVE  /\ o \div SectorSize \in Slots
                    /\ node.direct[o \div SectorSize] # INVALID
  BY DEF CoveredTo
<1>0. SectorSize \in Nat \ {0}
  BY SizeAssumption
<1>1. CASE o < off
  BY <1>1 DEF CoveredTo
<1>2. CASE ~(o < off)
  <2>1. PICK q \in Nat, r \in 0 .. SectorSize - 1 :
           /\ q = off \div SectorSize /\ r = off % SectorSize
           /\ off = SectorSize * q + r
    BY <1>0, DivFacts
  <2>2. SectorSize * q \in Nat
    BY <1>0
  <2>3. SectorSize * q <= o /\ o < SectorSize * q + SectorSize
    BY <1>0, <1>2, <2>1, <2>2
  <2>4. o \div SectorSize = q
    BY <1>0, <2>3, Quotient
  <2> QED BY <2>1, <2>4
<1> QED BY <1>1, <1>2

\* Covering does not look at anything but the pointers, and is not lost when
\* there are more of them.
LEMMA CoveredMore ==
  ASSUME NEW a, NEW b, NEW n, CoveredTo(a, n),
         \A k \in Slots : a.direct[k] # INVALID => b.direct[k] # INVALID
  PROVE  CoveredTo(b, n)
BY DEF CoveredTo

\* Nothing is covered in vain, and no byte is needed for no size.
LEMMA CoveredNone ==
  ASSUME NEW node
  PROVE  CoveredTo(node, 0)
BY DEF CoveredTo

-----------------------------------------------------------------------------
(* The files stay solid. Facts about updates of the table first.           *)

\* Writing one size, in terms of all fields.
LEMMA ResizeFields ==
  ASSUME NEW table \in [Inodes -> Inode], NEW i \in Inodes, NEW n
  PROVE  /\ \A j \in Inodes : j # i => [table EXCEPT ![i].size = n][j] = table[j]
         /\ [table EXCEPT ![i].size = n][i].type = table[i].type
         /\ [table EXCEPT ![i].size = n][i].size = n
         /\ [table EXCEPT ![i].size = n][i].direct = table[i].direct
BY DEF Inode

\* The same for one pointer.
LEMMA RepointFields ==
  ASSUME NEW table \in [Inodes -> Inode], NEW i \in Inodes, NEW k, NEW x
  PROVE  /\ \A j \in Inodes : j # i => [table EXCEPT ![i].direct[k] = x][j] = table[j]
         /\ [table EXCEPT ![i].direct[k] = x][i].type = table[i].type
         /\ [table EXCEPT ![i].direct[k] = x][i].size = table[i].size
         /\ \A l \in Slots : [table EXCEPT ![i].direct[k] = x][i].direct[l]
                               = IF l = k THEN x ELSE table[i].direct[l]
BY DEF Inode

\* Cleared and zeroed inodes are solid, whatever type they are given.
LEMMA ClearSolid ==
  /\ Solid(ZeroInode) /\ Solid(luxfs_inode_clear)
  /\ \A t \in {"file", "dir"}, p \in Inodes :
       LET node == [luxfs_inode_clear EXCEPT !.type = t, !.parent = p]
       IN  Solid(node) /\ node.type = t /\ node.size = 0
  /\ Solid([luxfs_inode_clear EXCEPT !.type = "dir"])
<1>1. Solid(ZeroInode) /\ Solid(luxfs_inode_clear)
  BY DEF Solid, ZeroInode, luxfs_inode_clear
<1>2. ASSUME NEW t \in {"file", "dir"}, NEW p \in Inodes
      PROVE  LET node == [luxfs_inode_clear EXCEPT !.type = t, !.parent = p]
             IN  Solid(node) /\ node.type = t /\ node.size = 0
  <2> DEFINE node == [luxfs_inode_clear EXCEPT !.type = t, !.parent = p]
  <2>1. node.type = t /\ node.size = 0
    BY DEF luxfs_inode_clear
  <2>2. CoveredTo(node, 0)
    BY CoveredNone
  <2> QED BY <2>1, <2>2 DEF Solid
<1>3. Solid([luxfs_inode_clear EXCEPT !.type = "dir"])
  BY DEF Solid, luxfs_inode_clear
<1> QED BY <1>1, <1>2, <1>3

\* A sector of the table that is flushed holds solid inodes.
LEMMA FlushSolid ==
  ASSUME MemSolid, ~Truncating, DiskSolid, NEW b, luxfs_flush_inode_block(b)
  PROVE  DiskSolid'
BY DEF MemSolid, DiskSolid, luxfs_flush_inode_block

\* A node whose pointers become more stays solid.
LEMMA SolidMore ==
  ASSUME NEW a, NEW b, Solid(a), b.type = a.type, b.size = a.size,
         \A k \in Slots : a.direct[k] # INVALID => b.direct[k] # INVALID
  PROVE  Solid(b)
<1>1. CASE a.type = "file"
  <2>1. CoveredTo(a, a.size)
    BY <1>1 DEF Solid
  <2>2. CoveredTo(b, b.size)
    BY <2>1, CoveredMore
  <2> QED BY <1>1, <2>2 DEF Solid
<1>2. CASE a.type # "file"
  BY <1>2 DEF Solid
<1> QED BY <1>1, <1>2

\* An inode with no size is solid.
LEMMA SolidEmpty ==
  ASSUME NEW node, node.type = "dir" \/ node.size = 0
  PROVE  Solid(node)
BY CoveredNone DEF Solid

\* No file is there before the first mount.
LEMMA SolidInit == Init => SolidInv
<1> SUFFICES ASSUME Init PROVE SolidInv
  OBVIOUS
<1>1. MemSolid /\ DiskSolid
  BY ClearSolid DEF Init, MemSolid, DiskSolid
<1>2. WriteOK /\ CreateOK /\ BlockOK
  BY DEF Init, WriteOK, Writing, Truncating, WritePcs, CreateOK, CreatePcs, BlockOK
<1> QED BY <1>1, <1>2, TypeInit DEF SolidInv

\* The locals that the invariant looks at, and what the labels say of them.
SameCall == /\ c'.op = c.op /\ c'.ino = c.ino /\ c'.off = c.off /\ c'.left = c.left
            /\ c'.blk = c.blk

\* A step that changes no inode, in memory, and goes where it may.
LEMMA QuietSolid ==
  ASSUME SolidInv, TypeInv', UNCHANGED inodes, DiskSolid',
         pc' \in WritePcs \cup CreatePcs \cup {"rl"} => SameCall,
         pc' \in WritePcs => pc \in WritePcs /\ (pc' = "wr" => pc # "wr_inode"),
         pc' \in {"ap_bitmap", "ap_zero", "wr_bitmap"} =>
           pc \in {"ap_bitmap", "ap_zero", "wr_bitmap"},
         pc' \in CreatePcs => pc \in CreatePcs,
         pc' = "rl" => pc \in CreatePcs /\ c.op # "write",
         ~Truncating
  PROVE  SolidInv'
<1>1. MemSolid'
  BY DEF SolidInv, MemSolid
<1>2. CreateOK' /\ BlockOK'
  <2>1. CreateOK'
    BY DEF SolidInv, CreateOK, SameCall
  <2>2. BlockOK'
    BY DEF SolidInv, BlockOK, SameCall, CreatePcs, WritePcs
  <2> QED BY <2>1, <2>2
<1>3. ~Truncating'
  BY DEF SameCall, Truncating
<1>4. WriteOK'
  <2> SUFFICES ASSUME pc' \in WritePcs PROVE WriteOK'
    BY <1>3 DEF WriteOK, Writing
  <2>1. inodes[c.ino].type = "file" /\ c.off + c.left <= MaxSize
    BY DEF SolidInv, WriteOK, Writing
  <2>2. pc' \in {"wr", "wr_bitmap"} => pc \in {"wr", "wr_bitmap"}
    BY DEF WritePcs
  <2> QED BY <1>3, <2>1, <2>2 DEF SolidInv, WriteOK, Writing, SameCall
<1> QED BY <1>1, <1>2, <1>4 DEF SolidInv

\* Every step keeps the files solid.
LEMMA SolidNext ==
  ASSUME SolidInv, Next
  PROVE  SolidInv'
<1>0. TypeInv /\ TypeInv'
  BY TypeNext DEF SolidInv
<1>a. /\ inodes \in [Inodes -> Inode] /\ inodes' \in [Inodes -> Inode]
      /\ c \in Frame /\ c' \in Frame
  BY <1>0 DEF TypeInv, TypeOK, MemType, CallType
<1>1. CASE AllocInodeBitmap
  <2>1. UNCHANGED <<inodes, d_inodes>>
    BY <1>1 DEF AllocInodeBitmap, mem, disk
  <2>2. DiskSolid'
    BY <2>1 DEF SolidInv, DiskSolid
  <2>3. SameCall \/ pc' = "idle"
    BY <1>a, <1>1 DEF AllocInodeBitmap, luxfs_flush_inode_bitmap, Goto, Return, SameCall, Frame
  <2> QED BY <1>0, <1>1, <2>1, <2>2, <2>3, QuietSolid DEF AllocInodeBitmap, luxfs_flush_inode_bitmap, Goto, Return, SolidInv,
        CreatePcs, WritePcs, FormatPcs, Truncating, TypeInv, CallOK
<1>2. CASE AppendRefused
  <2>1. UNCHANGED <<inodes, d_inodes>>
    BY <1>2 DEF AppendRefused, mem, disk
  <2>2. DiskSolid'
    BY <2>1 DEF SolidInv, DiskSolid
  <2>3. SameCall \/ pc' = "idle"
    BY <1>a, <1>2 DEF AppendRefused, Goto, SameCall, Frame
  <2> QED BY <1>0, <1>2, <2>1, <2>2, <2>3, QuietSolid DEF AppendRefused, Goto, SolidInv,
        CreatePcs, WritePcs, FormatPcs, Truncating, TypeInv, CallOK
<1>3. CASE AppendBlockBitmap
  <2>1. UNCHANGED <<inodes, d_inodes>>
    BY <1>3 DEF AppendBlockBitmap, mem, disk
  <2>2. DiskSolid'
    BY <2>1 DEF SolidInv, DiskSolid
  <2>3. SameCall \/ pc' = "idle"
    BY <1>a, <1>3 DEF AppendBlockBitmap, Goto, SameCall, Frame
  <2> QED BY <1>0, <1>3, <2>1, <2>2, <2>3, QuietSolid DEF AppendBlockBitmap, Goto, SolidInv,
        CreatePcs, WritePcs, FormatPcs, Truncating, TypeInv, CallOK
<1>4. CASE FreeInodeBitmap
  <2>1. UNCHANGED <<inodes, d_inodes>>
    BY <1>4 DEF FreeInodeBitmap, mem, disk
  <2>2. DiskSolid'
    BY <2>1 DEF SolidInv, DiskSolid
  <2>3. SameCall \/ pc' = "idle"
    BY <1>a, <1>4 DEF FreeInodeBitmap, Return, SameCall, Frame
  <2> QED BY <1>0, <1>4, <2>1, <2>2, <2>3, QuietSolid DEF FreeInodeBitmap, Return, SolidInv,
        CreatePcs, WritePcs, FormatPcs, Truncating, TypeInv, CallOK
<1>5. CASE WriteNoSpace
  <2>1. UNCHANGED <<inodes, d_inodes>>
    BY <1>5 DEF WriteNoSpace, mem, disk
  <2>2. DiskSolid'
    BY <2>1 DEF SolidInv, DiskSolid
  <2>3. SameCall \/ pc' = "idle"
    BY <1>a, <1>5 DEF WriteNoSpace, Return, SameCall, Frame
  <2> QED BY <1>0, <1>5, <2>1, <2>2, <2>3, QuietSolid DEF WriteNoSpace, Return, SolidInv,
        CreatePcs, WritePcs, FormatPcs, Truncating, TypeInv, CallOK
<1>6. CASE Returns
  <2>1. UNCHANGED <<inodes, d_inodes>>
    BY <1>6 DEF Returns, mem, disk
  <2>2. DiskSolid'
    BY <2>1 DEF SolidInv, DiskSolid
  <2>3. SameCall \/ pc' = "idle"
    BY <1>a, <1>6 DEF Returns, SameCall, Frame
  <2> QED BY <1>0, <1>6, <2>1, <2>2, <2>3, QuietSolid DEF Returns, SolidInv,
        CreatePcs, WritePcs, FormatPcs, Truncating, TypeInv, CallOK
<1>7. CASE FormatSuperblock
  <2>1. UNCHANGED <<inodes, d_inodes>>
    BY <1>7 DEF FormatSuperblock, mem, disk
  <2>2. DiskSolid'
    BY <2>1 DEF SolidInv, DiskSolid
  <2>3. SameCall \/ pc' = "idle"
    BY <1>a, <1>7 DEF FormatSuperblock, Goto, SameCall, Frame
  <2> QED BY <1>0, <1>7, <2>1, <2>2, <2>3, QuietSolid DEF FormatSuperblock, Goto, SolidInv,
        CreatePcs, WritePcs, FormatPcs, Truncating, TypeInv, CallOK
<1>8. CASE FormatInodeBitmap
  <2>1. UNCHANGED <<inodes, d_inodes>>
    BY <1>8 DEF FormatInodeBitmap, mem, disk
  <2>2. DiskSolid'
    BY <2>1 DEF SolidInv, DiskSolid
  <2>3. SameCall \/ pc' = "idle"
    BY <1>a, <1>8 DEF FormatInodeBitmap, Goto, SameCall, Frame
  <2> QED BY <1>0, <1>8, <2>1, <2>2, <2>3, QuietSolid DEF FormatInodeBitmap, Goto, SolidInv,
        CreatePcs, WritePcs, FormatPcs, Truncating, TypeInv, CallOK
<1>9. CASE FormatBlockBitmap
  <2>1. UNCHANGED <<inodes, d_inodes>>
    BY <1>9 DEF FormatBlockBitmap, mem, disk
  <2>2. DiskSolid'
    BY <2>1 DEF SolidInv, DiskSolid
  <2>3. SameCall \/ pc' = "idle"
    BY <1>a, <1>9 DEF FormatBlockBitmap, Goto, SameCall, Frame
  <2> QED BY <1>0, <1>9, <2>1, <2>2, <2>3, QuietSolid DEF FormatBlockBitmap, Goto, SolidInv,
        CreatePcs, WritePcs, FormatPcs, Truncating, TypeInv, CallOK
<1>10. CASE FormatFails
  <2>1. UNCHANGED <<inodes, d_inodes>>
    BY <1>10 DEF FormatFails, mem, disk
  <2>2. DiskSolid'
    BY <2>1 DEF SolidInv, DiskSolid
  <2>3. SameCall \/ pc' = "idle"
    BY <1>a, <1>10 DEF FormatFails, SameCall, Frame
  <2> QED BY <1>0, <1>10, <2>1, <2>2, <2>3, QuietSolid DEF FormatFails, SolidInv,
        CreatePcs, WritePcs, FormatPcs, Truncating, TypeInv, CallOK
<1>11. CASE AllocInodeFlush
  <2>1. UNCHANGED inodes /\ ~Truncating
    BY <1>11 DEF AllocInodeFlush, mem, Truncating
  <2>2. DiskSolid'
    <3>1. UNCHANGED d_inodes \/ \E b : luxfs_flush_inode_block(b)
      BY <1>11 DEF AllocInodeFlush, luxfs_flush_inode
    <3>2. CASE UNCHANGED d_inodes
      BY <3>2 DEF SolidInv, DiskSolid
    <3>3. CASE \E b : luxfs_flush_inode_block(b)
      BY <2>1, <3>3, FlushSolid DEF SolidInv
    <3> QED BY <3>1, <3>2, <3>3
  <2>3. pc = "ai_inode" /\ pc' \in {"ap", "ret"} /\ c'.op = c.op /\ c'.ino = c.ino
    BY <1>a, <1>11 DEF AllocInodeFlush, Return, Frame
  <2>4. MemSolid' /\ WriteOK' /\ BlockOK' /\ CreateOK'
    BY <2>1, <2>3 DEF SolidInv, MemSolid, WriteOK, Writing, Truncating, WritePcs, BlockOK,
          CreateOK, CreatePcs
  <2> QED BY <1>0, <2>2, <2>4 DEF SolidInv
<1>12. CASE AppendInode
  <2>1. UNCHANGED inodes /\ ~Truncating
    BY <1>12 DEF AppendInode, mem, Truncating
  <2>2. DiskSolid'
    <3>1. UNCHANGED d_inodes \/ \E b : luxfs_flush_inode_block(b)
      BY <1>12 DEF AppendInode, luxfs_flush_inode
    <3>2. CASE UNCHANGED d_inodes
      BY <3>2 DEF SolidInv, DiskSolid
    <3>3. CASE \E b : luxfs_flush_inode_block(b)
      BY <2>1, <3>3, FlushSolid DEF SolidInv
    <3> QED BY <3>1, <3>2, <3>3
  <2>3. SameCall \/ pc' \in {"idle", "ret"} \cup FormatPcs
    BY <1>a, <1>12 DEF AppendInode, Goto, Return, SameCall, Frame, FormatPcs
  <2> QED BY <1>0, <1>12, <2>1, <2>2, <2>3, QuietSolid DEF AppendInode, Goto, Return, SolidInv,
        CreatePcs, WritePcs, FormatPcs, Truncating, TypeInv, CallOK
<1>13. CASE FreeInodeFlush
  <2>1. UNCHANGED inodes /\ ~Truncating
    BY <1>13 DEF FreeInodeFlush, mem, Truncating
  <2>2. DiskSolid'
    <3>1. UNCHANGED d_inodes \/ \E b : luxfs_flush_inode_block(b)
      BY <1>13 DEF FreeInodeFlush, luxfs_flush_inode
    <3>2. CASE UNCHANGED d_inodes
      BY <3>2 DEF SolidInv, DiskSolid
    <3>3. CASE \E b : luxfs_flush_inode_block(b)
      BY <2>1, <3>3, FlushSolid DEF SolidInv
    <3> QED BY <3>1, <3>2, <3>3
  <2>3. SameCall \/ pc' \in {"idle", "ret"} \cup FormatPcs
    BY <1>a, <1>13 DEF FreeInodeFlush, Goto, SameCall, Frame, FormatPcs
  <2> QED BY <1>0, <1>13, <2>1, <2>2, <2>3, QuietSolid DEF FreeInodeFlush, Goto, SolidInv,
        CreatePcs, WritePcs, FormatPcs, Truncating, TypeInv, CallOK
<1>14. CASE WriteInode
  <2>1. UNCHANGED inodes /\ ~Truncating
    BY <1>14 DEF WriteInode, mem, Truncating
  <2>2. DiskSolid'
    <3>1. UNCHANGED d_inodes \/ \E b : luxfs_flush_inode_block(b)
      BY <1>14 DEF WriteInode, luxfs_flush_inode
    <3>2. CASE UNCHANGED d_inodes
      BY <3>2 DEF SolidInv, DiskSolid
    <3>3. CASE \E b : luxfs_flush_inode_block(b)
      BY <2>1, <3>3, FlushSolid DEF SolidInv
    <3> QED BY <3>1, <3>2, <3>3
  <2>3. SameCall \/ pc' \in {"idle", "ret"} \cup FormatPcs
    BY <1>a, <1>14 DEF WriteInode, Return, SameCall, Frame, FormatPcs
  <2> QED BY <1>0, <1>14, <2>1, <2>2, <2>3, QuietSolid DEF WriteInode, Return, SolidInv,
        CreatePcs, WritePcs, FormatPcs, Truncating, TypeInv, CallOK
<1>15. CASE FormatInodeTable
  <2>1. UNCHANGED inodes /\ ~Truncating
    BY <1>15 DEF FormatInodeTable, mem, Truncating
  <2>2. DiskSolid'
    <3>1. UNCHANGED d_inodes \/ \E b : luxfs_flush_inode_block(b)
      BY <1>15 DEF FormatInodeTable, luxfs_flush_inode
    <3>2. CASE UNCHANGED d_inodes
      BY <3>2 DEF SolidInv, DiskSolid
    <3>3. CASE \E b : luxfs_flush_inode_block(b)
      BY <2>1, <3>3, FlushSolid DEF SolidInv
    <3> QED BY <3>1, <3>2, <3>3
  <2>3. SameCall \/ pc' \in {"idle", "ret"} \cup FormatPcs
    BY <1>a, <1>15 DEF FormatInodeTable, SameCall, Frame, FormatPcs
  <2> QED BY <1>0, <1>15, <2>1, <2>2, <2>3, QuietSolid DEF FormatInodeTable, SolidInv,
        CreatePcs, WritePcs, FormatPcs, Truncating, TypeInv, CallOK
<1>16. CASE AppendAllocates \/ WriteAllocates
  <2>1. UNCHANGED <<inodes, d_inodes>> /\ c'.blk \in Blocks
    BY <1>a, <1>16 DEF AppendAllocates, WriteAllocates, luxfs_alloc_block, FreeBlocks, disk, Frame
  <2>2. /\ c'.op = c.op /\ c'.ino = c.ino /\ c'.off = c.off /\ c'.left = c.left
        /\ (pc = "ap" /\ pc' = "ap_bitmap") \/ (pc = "wr" /\ pc' = "wr_bitmap")
    <3>1. (pc = "ap" /\ pc' = "ap_bitmap") \/ (pc = "wr" /\ pc' = "wr_bitmap")
      BY <1>16 DEF AppendAllocates, WriteAllocates, luxfs_alloc_block
    <3>2. \E b \in Blocks : c' = [c EXCEPT !.blk = b]
      BY <1>16 DEF AppendAllocates, WriteAllocates, luxfs_alloc_block, FreeBlocks
    <3> QED BY <1>a, <3>1, <3>2 DEF Frame
  <2>3. MemSolid' /\ DiskSolid'
    BY <2>1, <2>2 DEF SolidInv, MemSolid, DiskSolid, Truncating
  <2>4. CreateOK' /\ BlockOK'
    BY <2>1, <2>2 DEF SolidInv, CreateOK, CreatePcs, BlockOK
  <2>5. WriteOK'
    BY <2>1, <2>2 DEF SolidInv, WriteOK, Writing, Truncating, WritePcs
  <2> QED BY <1>0, <2>3, <2>4, <2>5 DEF SolidInv
<1>17. CASE AppendZeroes
  <2>1. UNCHANGED d_inodes /\ ~Truncating
    BY <1>17 DEF AppendZeroes, Truncating
  <2>2. DiskSolid'
    BY <2>1 DEF SolidInv, DiskSolid
  <2>3. CASE UNCHANGED inodes
    <3>1. pc = "ap_zero" /\ pc' \in {"ap", "rl"} /\ c'.op = c.op /\ c'.ino = c.ino
      BY <1>a, <1>17 DEF AppendZeroes, Goto, Frame
    <3>2. c.op # "write"
      BY <1>0, <3>1 DEF TypeInv, CallOK, CreatePcs
    <3> QED BY <1>0, <2>1, <2>2, <2>3, <3>1, <3>2 DEF SolidInv, MemSolid, WriteOK, Writing,
               Truncating, WritePcs, CreateOK, CreatePcs, BlockOK
  <2>4. CASE inodes' = [inodes EXCEPT ![c.dir].direct[Slot] = c.blk] /\ pc' = "ap"
             /\ c' = [c EXCEPT !.blk = INVALID]
    <3>1. c.dir \in Inodes /\ c.ino \in Inodes /\ c.op # "write" /\ c.blk # INVALID
      BY <1>0, <1>17, Ranges DEF AppendZeroes, TypeInv, CallOK, CreatePcs, SolidInv, BlockOK
    <3>2. /\ \A j \in Inodes : j # c.dir => inodes'[j] = inodes[j]
          /\ inodes'[c.dir].type = inodes[c.dir].type
          /\ inodes'[c.dir].size = inodes[c.dir].size
          /\ \A l \in Slots : inodes'[c.dir].direct[l]
                               = IF l = Slot THEN c.blk ELSE inodes[c.dir].direct[l]
      <4>1. inodes' = [inodes EXCEPT ![c.dir].direct[Slot] = c.blk]
        BY <2>4
      <4>2. /\ \A j \in Inodes : j # c.dir => inodes'[j] = inodes[j]
            /\ inodes'[c.dir].type = inodes[c.dir].type
            /\ inodes'[c.dir].size = inodes[c.dir].size
        BY <1>a, <3>1, <4>1, RepointFields
      <4>3. c.blk \in Blocks \cup {INVALID}
        BY <1>a DEF Frame
      <4>4. \A i \in Inodes, k \in Slots : inodes'[i].direct[k] =
              IF i = c.dir /\ k = Slot THEN c.blk ELSE inodes[i].direct[k]
        BY <1>a, <3>1, <4>1, <4>3, OnePointer
      <4> QED BY <3>1, <4>2, <4>4
    <3>3. MemSolid'
      <4> SUFFICES ASSUME NEW i \in Inodes PROVE Solid(inodes'[i])
        BY DEF MemSolid
      <4>1. Solid(inodes[i])
        BY <2>1 DEF SolidInv, MemSolid
      <4> QED BY <3>1, <3>2, <4>1, SolidMore
    <3>4. c'.op = c.op /\ c'.ino = c.ino
      BY <1>a, <2>4 DEF Frame
    <3>5. CreateOK'
      BY <1>17, <3>1, <3>2, <3>4 DEF AppendZeroes, SolidInv, CreateOK, CreatePcs
    <3> QED BY <1>0, <2>2, <2>4, <3>3, <3>5 DEF SolidInv, WriteOK, Writing, Truncating, WritePcs,
               BlockOK
  <2> QED BY <1>17, <2>3, <2>4 DEF AppendZeroes
<1>18. CASE AppendPatches
  <2>1. UNCHANGED d_inodes /\ ~Truncating /\ inodes[c.dir].type = "dir"
        /\ pc = "ap" /\ pc' \in {"ap", "ap_inode", "rl"} /\ c'.op = c.op /\ c'.ino = c.ino
    BY <1>a, <1>18 DEF AppendPatches, Truncating, Goto, Frame
  <2>2. c.dir \in Inodes /\ c.ino \in Inodes /\ c.op # "write"
    BY <1>0, <2>1 DEF TypeInv, CallOK, CreatePcs
  <2>3. \A i \in Inodes : \/ inodes'[i] = inodes[i]
                          \/ inodes'[i].type = "dir"
    <3>1. CASE UNCHANGED inodes
      BY <3>1
    <3>2. CASE \E n : inodes' = [inodes EXCEPT ![c.dir].size = n]
      <4>1. PICK n : inodes' = [inodes EXCEPT ![c.dir].size = n]
        BY <3>2
      <4> QED BY <1>a, <2>1, <2>2, <4>1, ResizeFields
    <3> QED BY <1>18, <3>1, <3>2 DEF AppendPatches
  <2>4. MemSolid' /\ DiskSolid'
    <3>1. \A i \in Inodes : Solid(inodes'[i])
      BY <2>1, <2>3, SolidEmpty DEF SolidInv, MemSolid
    <3> QED BY <2>1, <3>1 DEF SolidInv, MemSolid, DiskSolid
  <2>5. CreateOK'
    BY <2>1, <2>2, <2>3 DEF SolidInv, CreateOK, CreatePcs
  <2>6. WriteOK' /\ BlockOK'
    BY <2>1, <2>2 DEF WriteOK, Writing, Truncating, WritePcs, BlockOK
  <2> QED BY <1>0, <2>4, <2>5, <2>6 DEF SolidInv
<1>19. CASE ReleaseBlock
  <2>1. /\ UNCHANGED d_inodes /\ pc = "rl" /\ pc' = "rl" /\ c.ino \in Inodes
        /\ c'.op = c.op /\ c'.ino = c.ino /\ c'.off = c.off /\ c'.left = c.left
    BY <1>a, <1>0, <1>19 DEF ReleaseBlock, Frame, TypeInv, CallOK
  <2>2. PICK k \in Slots : inodes' = [inodes EXCEPT ![c.ino].direct[k] = INVALID]
    BY <1>19 DEF ReleaseBlock, HeldSlots
  <2>3. /\ \A j \in Inodes : j # c.ino => inodes'[j] = inodes[j]
        /\ inodes'[c.ino].type = inodes[c.ino].type
        /\ inodes'[c.ino].size = inodes[c.ino].size
    BY <1>a, <2>1, <2>2, RepointFields
  <2>4. CreateOK'
    BY <2>1, <2>3 DEF SolidInv, CreateOK
  <2>5. MemSolid'
    <3> SUFFICES ASSUME NEW i \in Inodes, ~(Truncating /\ i = c.ino) PROVE Solid(inodes'[i])
      BY <2>1 DEF MemSolid, Truncating
    <3>1. CASE i # c.ino
      BY <2>3, <3>1 DEF SolidInv, MemSolid
    <3>2. CASE i = c.ino
      <4>1. inodes'[c.ino].type = "dir" \/ inodes'[c.ino].size = 0
        BY <2>1, <2>3, <3>2 DEF SolidInv, CreateOK, Truncating
      <4> QED BY <3>2, <4>1, SolidEmpty
    <3> QED BY <3>1, <3>2
  <2>6. WriteOK' /\ BlockOK' /\ DiskSolid'
    BY <2>1, <2>3 DEF SolidInv, WriteOK, Writing, Truncating, WritePcs, BlockOK, DiskSolid
  <2> QED BY <1>0, <2>4, <2>5, <2>6 DEF SolidInv
<1>20. CASE ReleasedForWrite
  <2>1. /\ UNCHANGED d_inodes /\ Truncating /\ pc' \in {"ret", "wr", "wr_inode"}
        /\ inodes' = [inodes EXCEPT ![c.ino].size = 0]
        /\ c'.op = c.op /\ c'.ino = c.ino /\ c'.off = c.off /\ c'.left = c.left
    BY <1>a, <1>20 DEF ReleasedForWrite, Return, Goto, Frame, Truncating, disk
  <2>2. c.ino \in Inodes /\ inodes[c.ino].type = "file" /\ c.off + c.left <= MaxSize /\ c.off = 0
    BY <1>0, <2>1 DEF TypeInv, CallOK, SolidInv, WriteOK, Writing, Truncating
  <2>3. /\ \A j \in Inodes : j # c.ino => inodes'[j] = inodes[j]
        /\ inodes'[c.ino].type = inodes[c.ino].type
        /\ inodes'[c.ino].size = 0
    BY <1>a, <2>1, <2>2, ResizeFields
  <2>4. MemSolid'
    <3> SUFFICES ASSUME NEW i \in Inodes PROVE Solid(inodes'[i])
      BY DEF MemSolid
    <3>1. CASE i # c.ino
      BY <2>3, <3>1 DEF SolidInv, MemSolid
    <3>2. CASE i = c.ino
      BY <2>3, <3>2, SolidEmpty
    <3> QED BY <3>1, <3>2
  <2>5. WriteOK'
    <3>1. CoveredTo(inodes'[c.ino], 0)
      BY CoveredNone
    <3> QED BY <2>1, <2>2, <2>3, <3>1 DEF WriteOK, Writing, Truncating
  <2>6. DiskSolid' /\ CreateOK' /\ BlockOK'
    BY <2>1 DEF SolidInv, DiskSolid, CreateOK, CreatePcs, BlockOK
  <2> QED BY <1>0, <2>4, <2>5, <2>6 DEF SolidInv
<1>21. CASE ReleasedForFree
  <2>1. /\ UNCHANGED d_inodes /\ pc = "rl" /\ pc' = "un_inode" /\ c.op # "write" /\ c.ino \in Inodes
        /\ inodes' = [inodes EXCEPT ![c.ino] = luxfs_inode_clear]
    BY <1>0, <1>21 DEF ReleasedForFree, Goto, disk, TypeInv, CallOK
  <2>2. MemSolid' /\ DiskSolid'
    BY <1>a, <2>1, ClearSolid DEF SolidInv, MemSolid, DiskSolid, Truncating
  <2>3. WriteOK' /\ CreateOK' /\ BlockOK'
    BY <2>1 DEF WriteOK, Writing, Truncating, WritePcs, CreateOK, CreatePcs, BlockOK
  <2> QED BY <1>0, <2>2, <2>3 DEF SolidInv
<1>22. CASE WriteBlockBitmap
  <2>1. UNCHANGED d_inodes /\ ~Truncating /\ pc = "wr_bitmap" /\ c.ino \in Inodes /\ c.blk # INVALID
    BY <1>0, <1>22, Ranges DEF WriteBlockBitmap, Truncating, TypeInv, CallOK, WritePcs, SolidInv,
          BlockOK
  <2>2. CASE UNCHANGED inodes /\ pc' = "ret"
    BY <1>0, <2>1, <2>2 DEF SolidInv, MemSolid, DiskSolid, WriteOK, Writing, Truncating,
       WritePcs, CreateOK, CreatePcs, BlockOK
  <2>3. CASE /\ inodes' = [inodes EXCEPT ![c.ino].direct[Slot] = c.blk]
             /\ pc' = "wr" /\ c' = [c EXCEPT !.blk = INVALID, !.fresh = TRUE]
    <3>1. inodes' = [inodes EXCEPT ![c.ino].direct[Slot] = c.blk]
      BY <2>3
    <3>2. /\ \A j \in Inodes : j # c.ino => inodes'[j] = inodes[j]
          /\ inodes'[c.ino].type = inodes[c.ino].type
          /\ inodes'[c.ino].size = inodes[c.ino].size
          /\ \A l \in Slots : inodes'[c.ino].direct[l]
                               = IF l = Slot THEN c.blk ELSE inodes[c.ino].direct[l]
      <4>1. /\ \A j \in Inodes : j # c.ino => inodes'[j] = inodes[j]
            /\ inodes'[c.ino].type = inodes[c.ino].type
            /\ inodes'[c.ino].size = inodes[c.ino].size
        BY <1>a, <2>1, <3>1, RepointFields
      <4>2. c.ino \in Inodes /\ c.blk \in Blocks \cup {INVALID}
        BY <1>a, <2>1 DEF Frame
      <4>3. \A i \in Inodes, k \in Slots : inodes'[i].direct[k] =
              IF i = c.ino /\ k = Slot THEN c.blk ELSE inodes[i].direct[k]
        BY <1>a, <3>1, <4>2, OnePointer
      <4> QED BY <2>1, <4>1, <4>3
    <3>3. MemSolid'
      <4> SUFFICES ASSUME NEW i \in Inodes PROVE Solid(inodes'[i])
        BY DEF MemSolid
      <4>1. Solid(inodes[i])
        BY <2>1 DEF SolidInv, MemSolid
      <4> QED BY <2>1, <3>2, <4>1, SolidMore
    <3>4. c'.op = c.op /\ c'.ino = c.ino /\ c'.off = c.off /\ c'.left = c.left
      BY <1>a, <2>3 DEF Frame
    <3>5. /\ inodes[c.ino].type = "file" /\ c.off + c.left <= MaxSize
          /\ CoveredTo(inodes[c.ino], c.off)
      BY <2>1 DEF SolidInv, WriteOK, Writing, WritePcs
    <3>6. CoveredTo(inodes'[c.ino], c.off)
      BY <2>1, <3>2, <3>5, CoveredMore
    <3>7. WriteOK'
      BY <2>3, <3>2, <3>4, <3>5, <3>6 DEF WriteOK, Truncating
    <3> QED BY <1>0, <2>1, <2>3, <3>3, <3>7 DEF SolidInv, DiskSolid, CreateOK, CreatePcs, BlockOK
  <2> QED BY <1>22, <2>2, <2>3 DEF WriteBlockBitmap, Return
<1>23. CASE WritePatches
  <2>1. /\ UNCHANGED d_inodes /\ ~Truncating /\ pc = "wr" /\ c.ino \in Inodes
        /\ inodes[c.ino].direct[Slot] # INVALID
    BY <1>0, <1>23 DEF WritePatches, Truncating, TypeInv, CallOK, WritePcs
  <2>2. /\ inodes[c.ino].type = "file" /\ c.off + c.left <= MaxSize
        /\ CoveredTo(inodes[c.ino], c.off) /\ Solid(inodes[c.ino])
    BY <2>1 DEF SolidInv, WriteOK, Writing, WritePcs, MemSolid
  <2>3. CASE UNCHANGED inodes /\ pc' = "ret"
    BY <1>0, <2>1, <2>3 DEF SolidInv, MemSolid, DiskSolid, WriteOK, Writing, Truncating,
       WritePcs, CreateOK, CreatePcs, BlockOK
  <2> DEFINE end == c.off + Chunk
  <2>4. CASE /\ c' = [c EXCEPT !.off = end, !.left = c.left - Chunk, !.fresh = FALSE]
             /\ IF Chunk = c.left
                THEN /\ inodes' = [inodes EXCEPT ![c.ino].size = IF end > @ THEN end ELSE @]
                     /\ pc' = "wr_inode"
                ELSE UNCHANGED <<inodes, pc>>
    <3>1. c.off \in Nat /\ c.left \in Nat /\ inodes[c.ino].size \in Nat
      BY <1>a, <2>1 DEF Frame, Inode
    <3>2. /\ Chunk \in Nat /\ Chunk <= c.left /\ At \in Nat /\ At < SectorSize
          /\ Slot \in Nat /\ end \in Nat
      BY <3>1, ChunkBounds
    <3>3. Chunk <= SectorSize - (c.off % SectorSize)
      BY <3>1, <3>2, SizeAssumption DEF Chunk, At
    <3>4. Chunk > 0 => Slot \in Slots
      <4>1. PICK n \in Nat \ {0}, d \in Nat \ {0} : n = SectorSize /\ d = DirectBlocks
        BY SizeAssumption
      <4>2. n * Slot <= c.off
        <5>1. PICK r \in 0 .. n - 1 : c.off = n * (c.off \div n) + r
          <6>1. c.off % n \in 0 .. n - 1 /\ c.off = n * (c.off \div n) + (c.off % n)
            BY <3>1, DivFacts
          <6> QED BY <6>1
        <5>2. n * (c.off \div n) \in Nat
          BY <3>1, <3>2, <4>1 DEF Slot
        <5> QED BY <4>1, <5>1, <5>2 DEF Slot
      <4>3. Chunk > 0 => c.off < d * n
        <5>1. d * n \in Nat
          OBVIOUS
        <5> QED BY <2>2, <3>1, <3>2, <4>1, <5>1 DEF MaxSize
      <4>4. ASSUME Slot >= d PROVE d * n <= n * Slot
        <5>1. PICK e \in Nat : Slot = d + e
          <6>1. Slot - d \in Nat /\ Slot = d + (Slot - d)
            BY <3>2, <4>4
          <6> QED BY <6>1
        <5>2. n * Slot = d * n + n * e
          BY <5>1
        <5>3. d * n \in Nat /\ n * e \in Nat
          OBVIOUS
        <5> QED BY <5>2, <5>3
      <4>5. Chunk > 0 => Slot < d
        <5>1. n * Slot \in Nat /\ d * n \in Nat
          BY <3>2
        <5> QED BY <3>1, <3>2, <4>2, <4>3, <4>4, <5>1
      <4> QED BY <3>2, <4>1, <4>5 DEF Slots
    <3>5. CoveredTo(inodes[c.ino], end)
      <4>1. CASE Chunk = 0
        <5>1. end = c.off
          BY <3>1, <4>1
        <5> QED BY <2>2, <5>1
      <4>2. CASE Chunk # 0
        <5>1. c.off \div SectorSize \in Slots /\ inodes[c.ino].direct[c.off \div SectorSize] # INVALID
          BY <2>1, <3>2, <3>4, <4>2 DEF Slot
        <5> HIDE DEF Chunk
        <5> QED BY <2>2, <3>1, <3>2, <3>3, <5>1, CoveredFurther
      <4> QED BY <4>1, <4>2
    <3>6. c'.op = c.op /\ c'.ino = c.ino /\ c'.off = end /\ c'.left = c.left - Chunk
      BY <1>a, <2>4 DEF Frame
    <3>7. c'.off + c'.left <= MaxSize
      BY <2>2, <3>1, <3>2, <3>6, SizeAssumption DEF MaxSize
    <3>8. CASE Chunk = c.left
      <4>1. PICK n \in Nat : /\ n = (IF end > inodes[c.ino].size THEN end ELSE inodes[c.ino].size)
                             /\ inodes' = [inodes EXCEPT ![c.ino].size = n]
        BY <2>4, <3>1, <3>2, <3>8
      <4>2. /\ \A j \in Inodes : j # c.ino => inodes'[j] = inodes[j]
            /\ inodes'[c.ino].type = inodes[c.ino].type
            /\ inodes'[c.ino].size = n
            /\ inodes'[c.ino].direct = inodes[c.ino].direct
        BY <1>a, <2>1, <4>1, ResizeFields
      <4>3. CoveredTo(inodes[c.ino], n)
        BY <2>2, <3>5, <4>1 DEF Solid
      <4>4. CoveredTo(inodes'[c.ino], n)
        BY <4>2, <4>3 DEF CoveredTo
      <4>5. MemSolid'
        <5> SUFFICES ASSUME NEW i \in Inodes PROVE Solid(inodes'[i])
          BY DEF MemSolid
        <5>1. CASE i # c.ino
          BY <2>1, <4>2, <5>1 DEF SolidInv, MemSolid
        <5>2. CASE i = c.ino
          BY <2>2, <4>2, <4>4, <5>2 DEF Solid
        <5> QED BY <5>1, <5>2
      <4>6. pc' = "wr_inode"
        BY <2>4, <3>8
      <4>7. WriteOK' /\ CreateOK' /\ BlockOK' /\ DiskSolid'
        BY <2>1, <2>2, <3>6, <3>7, <4>2, <4>6 DEF WriteOK, Truncating, CreateOK, CreatePcs, BlockOK,
           SolidInv, DiskSolid
      <4> QED BY <1>0, <4>5, <4>7 DEF SolidInv
    <3>9. CASE Chunk # c.left
      <4>1. UNCHANGED <<inodes, pc>>
        BY <2>4, <3>9
      <4>2. MemSolid' /\ DiskSolid' /\ CreateOK' /\ BlockOK'
        BY <2>1, <4>1 DEF SolidInv, MemSolid, DiskSolid, Truncating, CreateOK, CreatePcs, BlockOK
      <4>3. WriteOK'
        BY <2>1, <2>2, <3>5, <3>6, <3>7, <4>1 DEF WriteOK, Truncating
      <4> QED BY <1>0, <4>2, <4>3 DEF SolidInv
    <3> QED BY <3>8, <3>9
  <2> QED BY <1>23, <2>3, <2>4 DEF WritePatches, Return
<1>24. CASE \E path \in Paths : fs_touch(path) \/ fs_mkdir(path)
  <2>1. PICK op \in {"touch", "mkdir"}, type \in {"file", "dir"} : Begins(op, type)
    BY <1>24, TouchBegins, MkdirBegins
  <2>2. UNCHANGED d_inodes /\ pc = "idle" /\ DiskSolid'
    BY <2>1 DEF Begins, disk, SolidInv, DiskSolid
  <2>3. CASE Answered(op)
    <3>1. UNCHANGED inodes /\ pc' = "ret"
      BY <2>3 DEF Answered, Answer, mem
    <3> QED BY <1>0, <2>2, <3>1 DEF SolidInv, MemSolid, WriteOK, Writing, Truncating,
               WritePcs, CreateOK, CreatePcs, BlockOK
  <2>4. CASE Allocated(op, type)
    <3>1. PICK parent \in Inodes, name \in Names : luxfs_alloc_inode(op, type, parent, name)
      BY <2>4 DEF Allocated
    <3> DEFINE node == [luxfs_inode_clear EXCEPT !.type = type, !.parent = parent]
    <3>2. PICK i0 \in Inodes : /\ inodes' = [inodes EXCEPT ![i0] = node]
                               /\ c' = [NoCall EXCEPT !.op = op, !.dir = parent, !.ino = i0,
                                                     !.name = name]
      BY <3>1 DEF luxfs_alloc_inode, FreeInodes
    <3>3. Solid(node) /\ node.size = 0
      BY ClearSolid
    <3> HIDE DEF node
    <3>4. MemSolid'
      BY <1>a, <2>2, <3>2, <3>3 DEF SolidInv, MemSolid, Truncating
    <3>5. pc' = "ai_bitmap" /\ c'.ino = i0
      BY <3>1, <3>2 DEF luxfs_alloc_inode, NoCall
    <3>6. CreateOK'
      BY <1>a, <3>2, <3>3, <3>5 DEF CreateOK
    <3> QED BY <1>0, <2>2, <3>4, <3>5, <3>6 DEF SolidInv, WriteOK, Writing, Truncating,
               WritePcs, BlockOK
  <2> QED BY <2>1, <2>3, <2>4 DEF Begins
<1>25. ASSUME NEW path \in Paths, NEW off \in Offsets, NEW len \in Lengths,
              NEW v \in Values, NEW t \in BOOLEAN, t => off = 0, fs_write(path, off, len, v, t)
       PROVE  SolidInv'
  <2>1. UNCHANGED <<inodes, d_inodes>> /\ pc = "idle"
    BY <1>25 DEF fs_write, mem, disk
  <2>2. MemSolid' /\ DiskSolid' /\ CreateOK' /\ BlockOK'
    <3>1. pc' \in {"ret", "rl", "wr", "wr_inode"} /\ (pc' = "rl" => c'.op = "write")
      BY <1>25 DEF fs_write, Answer, NoCall
    <3> QED BY <2>1, <3>1 DEF SolidInv, MemSolid, DiskSolid, Truncating, CreateOK, CreatePcs, BlockOK
  <2>3. CASE pc' = "ret"
    BY <1>0, <2>2, <2>3 DEF SolidInv, WriteOK, Writing, Truncating, WritePcs
  <2>4. CASE pc' # "ret"
    <3>1. PICK i \in Inodes : /\ inodes[i].type = "file" /\ (~t => off <= inodes[i].size)
                              /\ off <= MaxSize /\ len <= MaxSize - off
                              /\ c' = [NoCall EXCEPT !.op = "write", !.ino = i, !.start = off,
                                         !.trunc = t, !.off = off, !.left = len, !.val = v]
                              /\ pc' = IF t THEN "rl" ELSE IF len = 0 THEN "wr_inode" ELSE "wr"
      <4>1. PICK i \in Found :
              IF \/ ~mounted \/ off > MaxSize \/ len > MaxSize - off \/ i = NONE
                 \/ inodes[i].type # "file" \/ (~t /\ off > inodes[i].size)
              THEN Answer("write", NONE, FALSE)
              ELSE /\ c' = [NoCall EXCEPT !.op = "write", !.ino = i, !.start = off,
                                         !.trunc = t, !.off = off, !.left = len, !.val = v]
                   /\ pc' = IF t THEN "rl" ELSE IF len = 0 THEN "wr_inode" ELSE "wr"
        BY <1>25 DEF fs_write
      <4>2. ~Answer("write", NONE, FALSE)
        BY <2>4 DEF Answer
      <4>3. i \in Inodes /\ inodes[i].size \in Nat
        BY <1>a, <4>1, <4>2 DEF Found, Inode
      <4>4. MaxSize \in Nat /\ off \in Nat /\ len \in Nat
        BY SizeAssumption DEF MaxSize
      <4>5. off <= MaxSize /\ len <= MaxSize - off /\ (~t => off <= inodes[i].size)
        <5>1. ~(off > MaxSize) /\ ~(len > MaxSize - off) /\ ~(~t /\ off > inodes[i].size)
          BY <4>1, <4>2
        <5> QED BY <4>3, <4>4, <5>1
      <4> QED BY <4>1, <4>2, <4>3, <4>5
    <3>2. c'.ino = i /\ c'.off = off /\ c'.left = len /\ c'.op = "write"
      BY <3>1 DEF NoCall
    <3>3. off + len <= MaxSize
      BY <3>1, SizeAssumption DEF MaxSize
    <3>4. pc' \in {"wr", "wr_bitmap"} => CoveredTo(inodes[i], off)
      <4> SUFFICES ASSUME pc' \in {"wr", "wr_bitmap"} PROVE CoveredTo(inodes[i], off)
        OBVIOUS
      <4>1. off <= inodes[i].size /\ inodes[i].size \in Nat /\ off \in Nat
        BY <1>a, <3>1, SizeAssumption DEF Inode
      <4>2. CoveredTo(inodes[i], inodes[i].size)
        BY <2>1, <3>1 DEF SolidInv, MemSolid, Solid, Truncating
      <4> QED BY <4>1, <4>2 DEF CoveredTo
    <3>5. WriteOK'
      BY <1>25, <2>1, <3>1, <3>2, <3>3, <3>4 DEF WriteOK, Truncating
    <3> QED BY <1>0, <2>2, <3>5 DEF SolidInv
  <2> QED BY <2>3, <2>4
<1>26. CASE fs_mount
  <2>1. UNCHANGED d_inodes /\ pc = "off" /\ pc' \in {"idle", "fmt_super"}
    BY <1>26 DEF fs_mount, disk
  <2>2. MemSolid'
    <3>1. CASE UNCHANGED inodes
      BY <2>1, <3>1 DEF SolidInv, MemSolid, Truncating
    <3>2. CASE inodes' = d_inodes
      BY <2>1, <3>2 DEF SolidInv, MemSolid, DiskSolid
    <3>3. CASE FormatImage
      BY <3>3, ClearSolid, Ranges DEF FormatImage, MemSolid, Root
    <3> QED BY <1>26, <3>1, <3>2, <3>3 DEF fs_mount, mem
  <2> QED BY <1>0, <2>1, <2>2 DEF SolidInv, DiskSolid, WriteOK, Writing, Truncating,
             WritePcs, CreateOK, CreatePcs, BlockOK
<1>27. CASE shutdown \/ Crash
  <2>1. UNCHANGED d_inodes /\ pc' = "off" /\ inodes' = [i \in Inodes |-> ZeroInode]
    BY <1>27 DEF shutdown, Crash, LosePower, disk
  <2> QED BY <1>0, <2>1, ClearSolid DEF SolidInv, MemSolid, DiskSolid, WriteOK, Writing, Truncating,
             WritePcs, CreateOK, CreatePcs, BlockOK
<1> QED
  BY <1>1, <1>2, <1>3, <1>4, <1>5, <1>6, <1>7, <1>8, <1>9, <1>10, <1>11, <1>12, <1>13, <1>14, <1>15, <1>16, <1>17, <1>18, <1>19, <1>20, <1>21, <1>22, <1>23, <1>24, <1>25, <1>26, <1>27
  DEF Next, Call, Running, luxfs_format, luxfs_dir_append_record, luxfs_mark_inode_free

-----------------------------------------------------------------------------
(* What the lookups answer.                                                *)

\* A set of numbers that has a member has a least one.
LEMMA LeastNumber ==
  ASSUME NEW S, S \subseteq Nat, S # {}
  PROVE  \E m \in S : \A y \in S : m <= y
<1> DEFINE R == OpToRel(<, Nat)
<1>1. IsWellFoundedOn(R, Nat)
  BY NatLessThanWellFounded
<1> HIDE DEF R
<1>2. PICK x \in S : \A y \in S : ~(<<y, x>> \in R)
  BY <1>1, WFMin
<1>3. \A y \in S : y < x => <<y, x>> \in R
  BY DEF R, OpToRel
<1>4. \A y \in S : ~(y < x)
  BY <1>2, <1>3
<1>5. \A y \in S : x <= y
  BY <1>4
<1> QED BY <1>5

\* Counting from one, or from zero.
LEMMA Counting ==
  ASSUME NEW n \in Nat
  PROVE  /\ IsFiniteSet(1 .. n) /\ Cardinality(1 .. n) = n
         /\ IsFiniteSet(0 .. n - 1) /\ Cardinality(0 .. n - 1) = n
<1>1. \A a, b \in Int : /\ IsFiniteSet(a .. b)
                        /\ Cardinality(a .. b) = IF a > b THEN 0 ELSE b - a + 1
  BY FS_Interval
<1>2. IsFiniteSet(1 .. n) /\ Cardinality(1 .. n) = IF 1 > n THEN 0 ELSE n - 1 + 1
  BY <1>1
<1>3. /\ IsFiniteSet(0 .. n - 1)
      /\ Cardinality(0 .. n - 1) = IF 0 > n - 1 THEN 0 ELSE (n - 1) - 0 + 1
  <2>1. 0 \in Int /\ n - 1 \in Int
    OBVIOUS
  <2> QED BY <1>1, <2>1
<1> QED BY <1>2, <1>3

\* A cell that can be reached is one of the disk.
LEMMA CellThere ==
  ASSUME TypeOK, NEW i \in Inodes, NEW o \in Nat, Reachable(inodes[i], o)
  PROVE  CellAt(inodes[i], o) \in Cell
<1>0. SectorSize \in Nat \ {0}
  BY SizeAssumption
<1>1. o \div SectorSize \in Nat /\ o % SectorSize \in Units
  BY <1>0, DivFacts DEF Units
<1>2. o \div SectorSize \in Slots /\ inodes[i].direct[o \div SectorSize] # INVALID
  BY <1>1 DEF Reachable
<1>3. inodes[i].direct[o \div SectorSize] \in Blocks
  BY <1>2, PointerType DEF TypeOK
<1>4. d_data[inodes[i].direct[o \div SectorSize]] \in Sector
  BY <1>3 DEF TypeOK, DiskType
<1> QED BY <1>1, <1>4 DEF CellAt, Sector

\* The bytes before a byte that can be reached can be reached.
LEMMA ReachableBefore ==
  ASSUME NEW node, NEW o \in Nat, NEW p \in Nat, p <= o, Reachable(node, o)
  PROVE  Reachable(node, p)
<1>0. SectorSize \in Nat \ {0}
  BY SizeAssumption
<1>1. /\ p \div SectorSize <= o \div SectorSize
      /\ p \div SectorSize \in Nat /\ o \div SectorSize \in Nat
  BY <1>0, DivFacts, Monotone
<1> QED BY <1>1 DEF Reachable

\* The number of a record that luxfs_dir_iterate hands out is that of a
\* complete record: the complete ones are the first ones.
LEMMA CompleteRecords ==
  ASSUME NEW node, node.size \in Nat
  PROVE  LET complete == {r \in 1 .. node.size \div RecordSize :
                            Reachable(node, r * RecordSize - 1)}
         IN  /\ Cardinality(complete) \in Nat
             /\ \A r \in 1 .. Cardinality(complete) :
                  r \in Nat /\ r > 0 /\ Reachable(node, r * RecordSize - 1)
<1> DEFINE n == node.size \div RecordSize
           complete == {r \in 1 .. n : Reachable(node, r * RecordSize - 1)}
<1>1. n \in Nat
  BY DEF RecordSize
<1>2. IsFiniteSet(1 .. n)
  BY <1>1, Counting
<1>3. IsFiniteSet(complete) /\ Cardinality(complete) \in Nat
  BY <1>2, FS_Subset, FS_CardinalityType
<1>4. ASSUME NEW r \in 1 .. Cardinality(complete), r \notin complete
      PROVE  FALSE
  <2>1. r \in Nat /\ r > 0
    BY <1>3
  <2>2. complete \subseteq 1 .. r - 1
    <3> SUFFICES ASSUME NEW q \in complete, q >= r PROVE FALSE
      BY <2>1
    <3>1. /\ q \in Nat /\ q <= n /\ r \in 1 .. n
          /\ q * RecordSize - 1 \in Nat /\ r * RecordSize - 1 \in Nat
          /\ r * RecordSize - 1 <= q * RecordSize - 1
      BY <1>1, <2>1 DEF RecordSize
    <3>2. Reachable(node, r * RecordSize - 1)
      BY <3>1, ReachableBefore
    <3> QED BY <1>4, <3>1, <3>2
  <2>3. IsFiniteSet(1 .. r - 1) /\ Cardinality(1 .. r - 1) = r - 1
    <3>1. r - 1 \in Nat
      BY <2>1
    <3> QED BY <3>1, Counting
  <2>4. Cardinality(complete) <= r - 1
    BY <2>2, <2>3, FS_Subset
  <2> QED BY <1>3, <2>1, <2>4
<1> QED BY <1>3, <1>4

\* luxfs_dir_find answers an inode or none.
LEMMA FindFound ==
  ASSUME TypeOK, NEW d \in Inodes, NEW name
  PROVE  luxfs_dir_find(d, name) \in Found
<1> DEFINE node == inodes[d]
           complete == {r \in 1 .. node.size \div RecordSize :
                          Reachable(node, r * RecordSize - 1)}
           records == luxfs_dir_iterate(node)
           hits == {r \in DOMAIN records : records[r].name = <<"name", name>>}
           first == CHOOSE r \in hits : \A q \in hits : r <= q
<1>1. node.size \in Nat
  BY DEF TypeOK, MemType, Inode
<1>2. /\ Cardinality(complete) \in Nat
      /\ \A r \in 1 .. Cardinality(complete) :
           r \in Nat /\ r > 0 /\ Reachable(node, r * RecordSize - 1)
  BY <1>1, CompleteRecords
<1>3. records = [r \in 1 .. Cardinality(complete) |->
                   [inode |-> RecordInode(CellAt(node, r * RecordSize - 1 - 1)),
                    name |-> CellAt(node, r * RecordSize - 1)]]
  BY DEF luxfs_dir_iterate
<1> HIDE DEF records, complete
<1>4. ASSUME NEW r \in DOMAIN records PROVE records[r].inode \in Found
  <2>1. r \in 1 .. Cardinality(complete)
    BY <1>3
  <2>2. r * RecordSize - 1 - 1 \in Nat /\ r * RecordSize - 1 \in Nat
    BY <1>2, <2>1 DEF RecordSize
  <2>3. Reachable(node, r * RecordSize - 1 - 1)
    BY <1>2, <2>1, <2>2, ReachableBefore
  <2>4. CellAt(node, r * RecordSize - 1 - 1) \in Cell
    BY <2>2, <2>3, CellThere
  <2>5. RecordInode(CellAt(node, r * RecordSize - 1 - 1)) \in Found
    BY <2>4 DEF RecordInode, Cell, Zero, Found
  <2> QED BY <1>3, <2>1, <2>5
<1>5. CASE hits = {}
  BY <1>5 DEF luxfs_dir_find, records, Found
<1>6. CASE hits # {}
  <2>1. hits \subseteq Nat
    BY <1>2, <1>3
  <2>2. \E r \in hits : \A q \in hits : r <= q
    <3> HIDE DEF hits
    <3> QED BY <1>6, <2>1, LeastNumber
  <2>3. first \in hits
    BY <2>2
  <2>4. records[first].inode \in Found
    BY <1>4, <2>3
  <2> QED BY <2>4 DEF luxfs_dir_find, records, Found
<1> QED BY <1>5, <1>6

\* One step of the walk of luxfs_resolve, and the walk over n components.
Hop(i, comp) == IF i = NONE \/ comp = "." THEN i
                ELSE IF comp = ".." THEN inodes[i].parent
                ELSE luxfs_dir_find(i, comp)
IsWalk(w, path, n) == w = [k \in 0 .. n |-> IF k = 0 THEN Root ELSE Hop(w[k - 1], path[k])]

\* A step leads to an inode, or nowhere.
LEMMA HopFound ==
  ASSUME TypeOK, NEW i \in Found, NEW comp
  PROVE  Hop(i, comp) \in Found
<1>1. CASE i = NONE \/ comp = "."
  BY <1>1 DEF Hop
<1>2. CASE ~(i = NONE \/ comp = ".") /\ comp = ".."
  BY <1>2 DEF Hop, Found, TypeOK, MemType, Inode
<1>3. CASE ~(i = NONE \/ comp = ".") /\ comp # ".."
  BY <1>3, FindFound DEF Hop, Found
<1> QED BY <1>1, <1>2, <1>3

\* There is a walk over any number of components.
LEMMA WalkExists ==
  ASSUME NEW path, NEW n \in Nat
  PROVE  \E w : IsWalk(w, path, n)
<1> DEFINE S == {m \in Nat : ~ \E w : IsWalk(w, path, m)}
<1> SUFFICES ASSUME S # {} PROVE FALSE
  OBVIOUS
<1>1. PICK m \in S : \A y \in S : m <= y
  <2>1. S \subseteq Nat
    OBVIOUS
  <2> HIDE DEF S
  <2> QED BY <2>1, LeastNumber
<1>2. CASE m = 0
  <2>1. IsWalk([k \in 0 .. 0 |-> Root], path, 0)
    BY DEF IsWalk
  <2> QED BY <1>2, <2>1
<1>3. CASE m # 0
  <2>1. m - 1 \in Nat /\ m - 1 \notin S
    BY <1>1, <1>3
  <2>2. PICK w : IsWalk(w, path, m - 1)
    BY <2>1
  <2> DEFINE v == [k \in 0 .. m |-> IF k < m THEN w[k] ELSE Hop(w[m - 1], path[m])]
  <2>3. ASSUME NEW k \in 0 .. m
        PROVE  v[k] = IF k = 0 THEN Root ELSE Hop(v[k - 1], path[k])
    <3>1. CASE k = 0
      BY <1>3, <2>1, <2>2, <3>1 DEF IsWalk
    <3>2. CASE k # 0 /\ k < m
      <4>1. k \in 0 .. m - 1 /\ k - 1 \in 0 .. m /\ k - 1 < m
        BY <2>1, <3>2
      <4>2. w[k] = Hop(w[k - 1], path[k])
        BY <2>2, <3>2, <4>1 DEF IsWalk
      <4> QED BY <3>2, <4>1, <4>2
    <3>3. CASE k = m
      <4>1. k - 1 \in 0 .. m /\ k - 1 < m /\ k # 0
        BY <1>3, <2>1, <3>3
      <4> QED BY <3>3, <4>1
    <3> QED BY <1>1, <3>1, <3>2, <3>3
  <2>4. IsWalk(v, path, m)
    <3>1. v = [k \in 0 .. m |-> v[k]]
      OBVIOUS
    <3> HIDE DEF v
    <3> QED BY <2>3, <3>1 DEF IsWalk
  <2> QED BY <2>4
<1> QED BY <1>2, <1>3

\* Every place of a walk is an inode, or nowhere.
LEMMA WalkFound ==
  ASSUME TypeOK, NEW path, NEW n \in Nat, NEW w, IsWalk(w, path, n)
  PROVE  \A k \in 0 .. n : w[k] \in Found
<1> DEFINE S == {k \in 0 .. n : w[k] \notin Found}
<1> SUFFICES ASSUME S # {} PROVE FALSE
  OBVIOUS
<1>1. PICK m \in S : \A y \in S : m <= y
  <2>1. S \subseteq Nat
    OBVIOUS
  <2> HIDE DEF S
  <2> QED BY <2>1, LeastNumber
<1>2. CASE m = 0
  BY <1>2, Ranges DEF IsWalk, Root, Found
<1>3. CASE m # 0
  <2>1. m \in 0 .. n /\ m - 1 \in 0 .. n /\ m - 1 \notin S
    BY <1>1, <1>3
  <2>2. w[m - 1] \in Found
    BY <2>1
  <2>3. w[m] = Hop(w[m - 1], path[m])
    BY <1>3, <2>1 DEF IsWalk
  <2> QED BY <2>1, <2>2, <2>3, HopFound
<1> QED BY <1>2, <1>3

\* luxfs_resolve answers an inode or none.
LEMMA ResolveFound ==
  ASSUME TypeOK, NEW path \in Paths
  PROVE  luxfs_resolve(path) \in Found
<1>1. Len(path) \in Nat
  BY NamesAssumption
<1>2. \E w : IsWalk(w, path, Len(path))
  BY <1>1, WalkExists
<1>3. \A w : IsWalk(w, path, Len(path)) => w[Len(path)] \in Found
  BY <1>1, WalkFound
<1>4. luxfs_resolve(path) = (IF luxfs_tokenize_path(path).ok
        THEN (CHOOSE w : IsWalk(w, path, Len(path)))[Len(path)] ELSE NONE)
  BY Zenon DEF luxfs_resolve, IsWalk, Hop
<1>5. IsWalk((CHOOSE w : IsWalk(w, path, Len(path))), path, Len(path))
  BY <1>2
<1> QED BY <1>3, <1>4, <1>5 DEF Found

\* On a volume whose files are solid fs_read delivers what fs_stat_path says.
LEMMA SolidReads ==
  ASSUME TypeOK, mounted, NEW path \in Paths, NEW i \in Inodes, i = luxfs_resolve(path),
         Solid(inodes[i]), inodes[i].type # "dir"
  PROVE  Len(fs_read(path, 0, inodes[i].size).bytes) = inodes[i].size
<1>0. inodes[i].size \in Nat /\ inodes[i].type \in {"free", "dir", "file"} /\ i # NONE
  BY Ranges DEF TypeOK, MemType, Inode
<1> DEFINE size == inodes[i].size
           avail == {o \in 0 .. 0 + size - 1 : o < inodes[i].size /\ Reachable(inodes[i], o)}
<1>1. CASE inodes[i].type = "file"
  <2>1. CoveredTo(inodes[i], size)
    BY <1>1 DEF Solid
  <2>2. \A o \in 0 .. size - 1 : Reachable(inodes[i], o)
    BY <1>0, <2>1, CoveredReads
  <2>3. avail = 0 .. size - 1
    BY <1>0, <2>2
  <2>4. Cardinality(avail) = size
    BY <1>0, <2>3, Counting
  <2>5. fs_read(path, 0, size).bytes
          = [n \in 1 .. Cardinality(avail) |-> CellAt(inodes[i], 0 + n - 1)]
    BY <1>0, <1>1 DEF fs_read
  <2> HIDE DEF avail
  <2> QED BY <1>0, <2>4, <2>5
<1>2. CASE inodes[i].type = "free"
  <2>1. size = 0
    BY <1>2 DEF Solid
  <2>2. fs_read(path, 0, size).bytes = <<>>
    BY <1>0, <1>2 DEF fs_read
  <2> QED BY <2>1, <2>2
<1> QED BY <1>0, <1>1, <1>2

\* fs_read never comes up short of the size fs_stat_path reports, on a volume
\* of any geometry, for any path, after any sequence of calls, failed sector
\* accesses, power losses and reboots that has not torn the volume: fs_write
\* makes the size grow only after the blocks are there, and a truncating write
\* that fails has dropped the size with the blocks.
THEOREM ReadsWhatStatSays == Spec => []StatReadAgree
<1>1. SolidInv /\ UNCHANGED vars => SolidInv'
  BY DEF SolidInv, TypeInv, TypeOK, FlagType, MemType, DiskType, CallType, BudgetType, CallOK,
     MemSolid, DiskSolid, WriteOK, Writing, Truncating, CreateOK, BlockOK, vars, mem, disk
<1>2. SolidInv /\ [Next]_vars => SolidInv'
  BY <1>1, SolidNext
<1>3. SolidInv => StatReadAgree
  <2> SUFFICES ASSUME SolidInv, pc = "idle", ~torn, NEW path \in Paths, fs_stat_path(path).ok,
                      ~fs_stat_path(path).is_dir
               PROVE  LET size == fs_stat_path(path).size
                      IN  Len(fs_read(path, 0, size).bytes) = size
    BY DEF StatReadAgree
  <2>1. TypeOK
    BY DEF SolidInv, TypeInv
  <2> DEFINE i == luxfs_resolve(path)
  <2>2. mounted /\ i # NONE
    BY DEF fs_stat_path
  <2>3. i \in Inodes
    BY <2>1, <2>2, ResolveFound DEF Found
  <2>4. fs_stat_path(path).size = inodes[i].size /\ inodes[i].type # "dir"
    BY <2>2 DEF fs_stat_path
  <2>5. Solid(inodes[i])
    BY <2>3 DEF SolidInv, MemSolid, Truncating
  <2> QED BY <2>1, <2>2, <2>3, <2>4, <2>5, SolidReads
<1> QED BY SolidInit, <1>2, <1>3, PTL DEF Spec

-----------------------------------------------------------------------------
(* What the disk holds.                                                    *)

\* What a boot finds and makes. Before the first format the sectors are
\* blank; a format writes the bitmaps before the table, and the table sector
\* by sector.
Booting ==
  /\ ~d_super => /\ d_inode_bitmap = {} /\ d_block_bitmap = {}
                 /\ d_inodes = [i \in Inodes |-> ZeroInode]
  /\ mounted \/ pc \in FormatPcs \ {"fmt_super"} => d_super
  /\ pc = "off" => c = NoCall
  /\ pc = "fmt_super" => ~d_super
  /\ pc \in FormatPcs =>
       /\ block_bitmap = {} /\ d_block_bitmap = {} /\ inode_bitmap = {Root}
       /\ \A i \in Inodes : inodes[i].size = 0 /\ (inodes[i].type # "free" => i = Root)
       /\ IF pc = "fmt_itab"
          THEN \A i \in Inodes : i \div InodesPerBlock < c.off => d_inodes[i] = inodes[i]
          ELSE c = NoCall
       /\ IF pc \in {"fmt_bbm", "fmt_itab"} THEN d_inode_bitmap = {Root}
          ELSE \A i \in Inodes : d_inodes[i].type = "free"

\* A bitmap differs from its sector only until it is flushed. On disk an
\* inode's bit comes before the inode and goes after it.
Bitmaps ==
  mounted => /\ pc \notin {"ai_bitmap", "un_inode", "un_bitmap"} => d_inode_bitmap = inode_bitmap
             /\ pc = "ai_bitmap" => inode_bitmap = d_inode_bitmap \cup {c.ino}
             /\ pc \in FreePcs => inode_bitmap = d_inode_bitmap \ {c.ino}
             /\ pc \notin {"ap_bitmap", "wr_bitmap"} => d_block_bitmap = block_bitmap
             /\ d_block_bitmap \subseteq block_bitmap

\* The inode that the call in progress has changed and not flushed: the one
\* it creates, gives back or writes, or the directory the record goes to.
Reborn(i) == i = c.ino /\ ( \/ pc \in {"ai_bitmap", "ai_inode", "un_inode"}
                            \/ pc = "rl" /\ c.op # "write")
Changed(i) == \/ Reborn(i)
              \/ i = c.ino /\ Writing
              \/ i = c.dir /\ pc \in {"ap", "ap_inode"}

\* All others are on disk as they are in memory; of a file on a volume that
\* can run out of blocks this goes for type and parent only.
Table ==
  mounted => \A i \in Inodes :
    /\ Changed(i) \/ (~Roomy /\ inodes[i].type = "file") \/ d_inodes[i] = inodes[i]
    /\ Reborn(i) \/ (d_inodes[i].type = inodes[i].type /\ d_inodes[i].parent = inodes[i].parent)

\* An inode in use has its bit, in memory and on disk.
Taken == /\ \A i \in Inodes : mounted /\ inodes[i].type # "free" => i \in inode_bitmap
         /\ \A i \in Inodes : d_inodes[i].type # "free" => i \in d_inode_bitmap

\* A directory has a block for every record.
Covered(node) == node.type = "dir" => CoveredTo(node, node.size)
Directories ==
  /\ \A i \in Inodes : Covered(inodes[i]) \/ (pc = "rl" /\ i = c.ino)
  /\ \A i \in Inodes : Covered(d_inodes[i])

\* What the loop of luxfs_dir_append_record knows of the directory: it is
\* covered up to where the loop is, and a directory with a new block takes
\* all that is left of the record into it, so the loop does not stop there.
Appending ==
  /\ pc \in {"ap", "ap_bitmap", "ap_zero"} /\ inodes[c.dir].type = "dir" =>
       /\ c.left \in 1 .. RecordSize
       /\ c.off + c.left = inodes[c.dir].size + RecordSize
       /\ CoveredTo(inodes[c.dir], c.off)
  /\ pc = "ap" /\ d_inodes[c.dir] # inodes[c.dir] =>
       \/ ~Roomy /\ inodes[c.dir].type = "file"
       \/ /\ inodes[c.dir].type = "dir" /\ Slot \in Slots
          /\ inodes[c.dir].direct[Slot] # INVALID /\ Chunk = c.left
  /\ pc \in {"ap_bitmap", "ap_zero"} =>
       inodes[c.dir].type = "dir" /\ Slot \in Slots /\ inodes[c.dir].direct[Slot] = INVALID

\* The other locals: nothing has failed, and a block is reserved only for a
\* slot that is empty.
Locals ==
  /\ c.ok
  /\ pc \notin {"ap_bitmap", "ap_zero", "wr_bitmap"} => c.blk = INVALID
  /\ pc \in {"wr", "wr_bitmap"} => c.left > 0
  /\ pc = "wr_bitmap" => inodes[c.ino].direct[Slot] = INVALID

\* The blocks that inodes in use have. All others that are marked were lost
\* by calls that were cut off, at most those of one inode each time.
Held(table, bits) == {table[i].direct[k] : i \in bits, k \in Slots}
Counted ==
  \E lost \in SUBSET Blocks :
    /\ Cardinality(lost) <= crashes * DirectBlocks
    /\ IF mounted THEN block_bitmap \subseteq Held(inodes, inode_bitmap) \cup {c.blk} \cup lost
       ELSE d_block_bitmap \subseteq Held(d_inodes, d_inode_bitmap) \cup lost

AllInOrder == /\ Booting /\ Bitmaps /\ Table /\ Taken /\ Directories
              /\ Appending /\ Locals
              /\ Roomy => Counted

SyncInv == SolidInv /\ (faults = 0 => AllInOrder)

-----------------------------------------------------------------------------
(* Facts about steps.                                                      *)

\* What holds before a step of a call after which nothing has failed yet.
Before == /\ AllInOrder /\ SolidInv /\ TypeInv
          /\ inodes \in [Inodes -> Inode] /\ d_inodes \in [Inodes -> Inode]
          /\ inode_bitmap \subseteq Inodes /\ block_bitmap \subseteq Blocks
          /\ d_inode_bitmap \subseteq Inodes /\ d_block_bitmap \subseteq Blocks
          /\ c \in Frame /\ pc \in Pcs /\ crashes \in Nat

\* What a step that ends without a failed access starts from.
LEMMA BeforeStep ==
  ASSUME SyncInv, faults' = 0, Succeeds \/ Fails
  PROVE  Before /\ Succeeds
<1>1. TypeInv /\ TypeOK /\ SolidInv
  BY DEF SyncInv, SolidInv, TypeInv
<1>2. faults \in Nat /\ crashes \in Nat
  BY <1>1, SizeAssumption DEF TypeOK, BudgetType
<1>3. faults = 0 /\ Succeeds
  BY <1>2 DEF Succeeds, Fails
<1> QED BY <1>1, <1>2, <1>3 DEF SyncInv, Before, TypeOK, MemType, DiskType, CallType

\* Flushing the sector of an inode writes that inode, and others as they are.
LEMMA FlushWrites ==
  ASSUME NEW w \in Inodes, luxfs_flush_inode(w)
  PROVE  /\ d_inodes'[w] = inodes[w]
         /\ \A i \in Inodes : d_inodes'[i] = inodes[i] \/ d_inodes'[i] = d_inodes[i]
BY DEF luxfs_flush_inode, luxfs_flush_inode_block

\* A step that marks no block which nobody has loses none.
LEMMA StillCounted ==
  ASSUME Counted, mounted, mounted', crashes' = crashes,
         \A b \in block_bitmap' :
           b \in Held(inodes', inode_bitmap') \/ b = c'.blk
           \/ (b \in block_bitmap /\ b \notin Held(inodes, inode_bitmap) /\ b # c.blk)
  PROVE  Counted'
<1>1. PICK lost \in SUBSET Blocks :
        /\ Cardinality(lost) <= crashes * DirectBlocks
        /\ block_bitmap \subseteq Held(inodes, inode_bitmap) \cup {c.blk} \cup lost
  BY DEF Counted
<1>2. block_bitmap' \subseteq Held(inodes', inode_bitmap') \cup {c'.blk} \cup lost
  BY <1>1
<1>3. (Held(inodes, inode_bitmap))' = Held(inodes', inode_bitmap')
  BY DEF Held
<1> QED BY <1>1, <1>2, <1>3 DEF Counted

-----------------------------------------------------------------------------
(* The steps of fs_touch and fs_mkdir.                                     *)

\* The bit of the new inode reaches the disk.
LEMMA SyncAllocBitmap ==
  ASSUME SyncInv, SolidInv', faults' = 0, AllocInodeBitmap
  PROVE  AllInOrder'
<1>1. /\ Before /\ pc = "ai_bitmap" /\ pc' = "ai_inode" /\ c' = c /\ mounted
      /\ d_inode_bitmap' = inode_bitmap
      /\ UNCHANGED <<mem, d_super, d_block_bitmap, d_inodes, d_data, crashes, torn>>
  <2>1. Before /\ Succeeds
    BY BeforeStep DEF AllocInodeBitmap
  <2>2. faults' # faults + 1
    BY <2>1 DEF Before, Succeeds, TypeInv, TypeOK, BudgetType
  <2> QED BY <2>1, <2>2 DEF AllocInodeBitmap, Fails, Goto, luxfs_flush_inode_bitmap, Before,
        TypeInv, CallOK, CreatePcs
<1> USE DEF mem
<1>2. Booting'
  BY <1>1 DEF Before, AllInOrder, Booting, FormatPcs
<1>3. Bitmaps'
  BY <1>1 DEF Before, AllInOrder, Bitmaps, FreePcs
<1>4. Table'
  BY <1>1 DEF Before, AllInOrder, Table, Changed, Reborn, Writing, Truncating, WritePcs
<1>5. Taken'
  BY <1>1 DEF Before, AllInOrder, Taken, Bitmaps
<1>6. Directories'
  BY <1>1 DEF Before, AllInOrder, Directories, Covered, CoveredTo
<1>7. Appending' /\ Locals'
  BY <1>1 DEF Before, AllInOrder, Appending, Locals
<1>8. Roomy => Counted'
  BY <1>1 DEF Before, AllInOrder, Counted, Held
<1> QED BY <1>2, <1>3, <1>4, <1>5, <1>6, <1>7, <1>8 DEF AllInOrder, Roomy

\* The new inode reaches the disk, and the record is next.
LEMMA SyncAllocInode ==
  ASSUME SyncInv, SolidInv', faults' = 0, AllocInodeFlush
  PROVE  AllInOrder'
<1>1. /\ Before /\ pc = "ai_inode" /\ pc' = "ap" /\ mounted
      /\ c.ino \in Inodes /\ c.dir \in Inodes
      /\ c' = [c EXCEPT !.off = inodes[c.dir].size, !.left = RecordSize]
      /\ luxfs_flush_inode(c.ino)
      /\ UNCHANGED <<mem, d_super, d_inode_bitmap, d_block_bitmap, d_data, crashes, torn>>
  <2>1. Before /\ Succeeds
    BY BeforeStep DEF AllocInodeFlush
  <2>2. faults' # faults + 1
    BY <2>1 DEF Before, Succeeds, TypeInv, TypeOK, BudgetType
  <2> QED BY <2>1, <2>2 DEF AllocInodeFlush, Fails, Before, TypeInv, CallOK, CreatePcs
<1>2. /\ c'.off = inodes[c.dir].size /\ c'.left = RecordSize
      /\ c'.op = c.op /\ c'.dir = c.dir /\ c'.ino = c.ino /\ c'.ok = c.ok /\ c'.blk = c.blk
  BY <1>1 DEF Before, Frame
<1>3. /\ d_inodes'[c.ino] = inodes[c.ino]
      /\ \A i \in Inodes : d_inodes'[i] = inodes[i] \/ d_inodes'[i] = d_inodes[i]
  BY <1>1, FlushWrites
<1> USE DEF mem
<1>4. Booting'
  BY <1>1 DEF Before, AllInOrder, Booting, FormatPcs
<1>5. Bitmaps'
  BY <1>1 DEF Before, AllInOrder, Bitmaps, FreePcs
<1>6. Table'
  BY <1>1, <1>2, <1>3
     DEF Before, AllInOrder, Table, Changed, Reborn, Writing, Truncating, WritePcs
<1>7. Taken'
  BY <1>1, <1>3 DEF Before, AllInOrder, Taken, Bitmaps
<1>8. Directories'
  BY <1>1, <1>3 DEF Before, AllInOrder, Directories, Covered, CoveredTo
<1>9. Appending'
  <2>1. inodes[c.dir].size \in Nat
    BY <1>1 DEF Before, Inode
  <2>2. inodes[c.dir].type = "dir" => CoveredTo(inodes[c.dir], inodes[c.dir].size)
    BY <1>1 DEF Before, AllInOrder, Directories, Covered
  <2>3. d_inodes'[c.dir] = inodes[c.dir] \/ (~Roomy /\ inodes[c.dir].type = "file")
    BY <1>1, <1>3
       DEF Before, AllInOrder, Table, Changed, Reborn, Writing, Truncating, WritePcs
  <2> QED BY <1>1, <1>2, <2>1, <2>2, <2>3 DEF Appending, RecordSize, CoveredTo, Roomy
<1>10. Locals'
  BY <1>1, <1>2 DEF Before, AllInOrder, Locals
<1>11. Roomy => Counted'
  BY <1>1, <1>2 DEF Before, AllInOrder, Counted, Held
<1> QED BY <1>4, <1>5, <1>6, <1>7, <1>8, <1>9, <1>10, <1>11 DEF AllInOrder, Roomy

\* A step that changes neither memory nor disk and ends or answers a call.
LEMMA SyncQuiet ==
  ASSUME Before, UNCHANGED <<mem, disk, crashes>>, pc' \in {"ret", "idle"},
         pc \notin FreePcs \cup FormatPcs
                  \cup {"off", "ai_bitmap", "ap_bitmap", "ap_zero", "wr_bitmap"},
         c'.ok, c'.blk = INVALID,
         \A i \in Inodes : Changed(i) => /\ i = c.ino /\ Writing /\ ~Roomy
                                         /\ inodes[i].type = "file"
  PROVE  AllInOrder'
<1> USE DEF mem, disk
<1>1. Booting'
  BY DEF Before, AllInOrder, Booting, FormatPcs
<1>2. Bitmaps'
  BY DEF Before, AllInOrder, Bitmaps, FreePcs
<1>3. Table'
  <2>1. \A i \in Inodes : Reborn(i) => inodes[i].type = "file" /\ Writing
    BY DEF Changed
  <2>2. \A i \in Inodes : ~Reborn(i)
    BY <2>1 DEF Reborn, Writing, Truncating, WritePcs
  <2>3. \A i \in Inodes : ~Changed(i) \/ (~Roomy /\ inodes[i].type = "file")
    OBVIOUS
  <2> HIDE DEF Changed, Reborn
  <2> QED BY <2>2, <2>3 DEF Before, AllInOrder, Table, Roomy
<1>4. Taken'
  BY DEF Before, AllInOrder, Taken
<1>5. Directories'
  <2>1. \A i \in Inodes : Covered(inodes[i])
    <3> SUFFICES ASSUME NEW i \in Inodes, pc = "rl", i = c.ino PROVE inodes[i].type # "dir"
      BY DEF Before, AllInOrder, Directories, Covered
    <3>1. Changed(i)
      BY DEF Changed, Reborn, Writing, Truncating
    <3> QED BY <3>1
  <2> QED BY <2>1 DEF Before, AllInOrder, Directories, Covered, CoveredTo
<1>6. Appending' /\ Locals'
  BY DEF Before, Appending, Locals
<1>7. Roomy => Counted'
  <2> SUFFICES ASSUME Roomy PROVE Counted'
    OBVIOUS
  <2>1. CASE mounted
    <3>1. \A b \in block_bitmap' :
             b \in Held(inodes', inode_bitmap') \/ b = c'.blk
             \/ (b \in block_bitmap /\ b \notin Held(inodes, inode_bitmap) /\ b # c.blk)
      <4> SUFFICES ASSUME NEW b \in block_bitmap, b = c.blk,
                          b \notin Held(inodes, inode_bitmap)
                   PROVE  FALSE
        OBVIOUS
      <4>1. c.blk # INVALID
        BY Ranges DEF Before
      <4> QED BY <4>1 DEF Before, AllInOrder, Locals
    <3> QED BY <2>1, <3>1, StillCounted DEF Before, AllInOrder
  <2>2. CASE ~mounted
    BY <2>2 DEF Before, AllInOrder, Counted, Held
  <2> QED BY <2>1, <2>2
<1> QED BY <1>1, <1>2, <1>3, <1>4, <1>5, <1>6, <1>7 DEF AllInOrder, Roomy

\* fs_touch and fs_mkdir answer, or take an inode in memory.
LEMMA SyncCreate ==
  ASSUME SyncInv, SolidInv', faults' = 0,
         NEW op \in {"touch", "mkdir"}, NEW type \in {"file", "dir"}, Begins(op, type)
  PROVE  AllInOrder'
<1>1. Before /\ pc = "idle"
  <2>1. TypeInv /\ TypeOK /\ SolidInv
    BY DEF SyncInv, SolidInv, TypeInv
  <2>2. faults \in Nat /\ crashes \in Nat
    BY <2>1, SizeAssumption DEF TypeOK, BudgetType
  <2>3. faults = 0
    BY <2>2, SizeAssumption DEF Begins
  <2> QED BY <2>1, <2>2, <2>3 DEF SyncInv, Before, TypeOK, MemType, DiskType, CallType, Begins
<1>2. \A i \in Inodes : ~Changed(i)
  BY <1>1 DEF Changed, Reborn, Writing, Truncating, WritePcs
<1>3. CASE Answered(op)
  <2>1. /\ UNCHANGED <<mem, disk, crashes>> /\ pc' = "ret"
        /\ \E i \in Found, v \in BOOLEAN : c' = [NoCall EXCEPT !.op = op, !.ino = i, !.ret = v]
    BY <1>3 DEF Answered, Answer, Begins
  <2>2. c'.ok /\ c'.blk = INVALID
    BY <2>1 DEF NoCall
  <2> QED BY <1>1, <1>2, <2>1, <2>2, SyncQuiet DEF FreePcs, FormatPcs
<1>4. CASE Allocated(op, type)
  <2>1. PICK parent \in Inodes, name \in Names :
          mounted /\ luxfs_alloc_inode(op, type, parent, name)
    BY <1>4 DEF Allocated
  <2> DEFINE node == [luxfs_inode_clear EXCEPT !.type = type, !.parent = parent]
  <2>2. PICK i0 \in Inodes \ inode_bitmap :
           /\ inodes' = [inodes EXCEPT ![i0] = node]
           /\ inode_bitmap' = inode_bitmap \cup {i0}
           /\ c' = [NoCall EXCEPT !.op = op, !.dir = parent, !.ino = i0, !.name = name]
    BY <2>1 DEF luxfs_alloc_inode, FreeInodes
  <2>3. /\ pc' = "ai_bitmap" /\ mounted /\ mounted' /\ block_bitmap' = block_bitmap
        /\ UNCHANGED <<d_super, d_inode_bitmap, d_block_bitmap, d_inodes, crashes>>
    BY <2>1 DEF luxfs_alloc_inode, Begins, disk
  <2>4. c'.op = op /\ c'.ino = i0 /\ c'.dir = parent /\ c'.ok /\ c'.blk = INVALID
    BY <2>2 DEF NoCall
  <2>5. node.size = 0
    BY DEF luxfs_inode_clear
  <2> HIDE DEF node
  <2>6. inodes'[i0] = node /\ \A j \in Inodes : j # i0 => inodes'[j] = inodes[j]
    BY <1>1, <2>2 DEF Before
  <2>7. Booting'
    BY <1>1, <2>3 DEF Before, AllInOrder, Booting, FormatPcs
  <2>8. Bitmaps'
    BY <1>1, <2>2, <2>3, <2>4 DEF Before, AllInOrder, Bitmaps, FreePcs
  <2>9. Table'
    <3> SUFFICES ASSUME NEW i \in Inodes, i # i0
                 PROVE  /\ \/ ~Roomy /\ inodes'[i].type = "file"
                           \/ d_inodes'[i] = inodes'[i]
                        /\ d_inodes'[i].type = inodes'[i].type
                        /\ d_inodes'[i].parent = inodes'[i].parent
      BY <2>3, <2>4 DEF Table, Changed, Reborn, Roomy
    <3>1. ~Changed(i) /\ ~Reborn(i)
      BY <1>2 DEF Changed
    <3> HIDE DEF Changed, Reborn
    <3> QED BY <1>1, <2>3, <2>6, <3>1 DEF Before, AllInOrder, Table
  <2>10. Taken'
    BY <1>1, <2>2, <2>3, <2>6 DEF Before, AllInOrder, Taken
  <2>11. Directories'
    <3>1. Covered(node)
      BY <2>5, CoveredNone DEF Covered
    <3>2. \A i \in Inodes : Covered(inodes[i])
      BY <1>1 DEF Before, AllInOrder, Directories
    <3>3. \A i \in Inodes : Covered(inodes'[i])
      BY <2>6, <3>1, <3>2
    <3> QED BY <1>1, <2>3, <3>3 DEF Before, AllInOrder, Directories
  <2>12. Appending' /\ Locals'
    BY <2>3, <2>4 DEF Appending, Locals
  <2>13. Roomy => Counted'
    <3> SUFFICES ASSUME Roomy PROVE Counted'
      OBVIOUS
    <3>1. Held(inodes, inode_bitmap) \subseteq Held(inodes', inode_bitmap')
      BY <1>1, <2>2, <2>6 DEF Held, Before
    <3>2. c.blk = INVALID
      BY <1>1 DEF Before, AllInOrder, Locals
    <3>3. \A b \in block_bitmap : b # INVALID
      BY <1>1, Ranges DEF Before
    <3> QED BY <1>1, <2>3, <3>1, <3>2, <3>3, StillCounted DEF Before, AllInOrder
  <2> QED BY <2>7, <2>8, <2>9, <2>10, <2>11, <2>12, <2>13 DEF AllInOrder, Roomy
<1> QED BY <1>3, <1>4 DEF Begins

\* A block that is not there is the first one behind what is covered.
LEMMA SlotStart ==
  ASSUME NEW node, NEW off \in Nat, CoveredTo(node, off),
         node.direct[off \div SectorSize] = INVALID
  PROVE  off % SectorSize = 0
<1>0. SectorSize \in Nat \ {0}
  BY SizeAssumption
<1>1. PICK q \in Nat, r \in 0 .. SectorSize - 1 :
         q = off \div SectorSize /\ r = off % SectorSize /\ off = SectorSize * q + r
  BY <1>0, DivFacts
<1>2. PICK p \in Nat : p = SectorSize * q
  BY <1>0
<1>3. ASSUME r # 0 PROVE FALSE
  <2>1. off = p + r /\ r \in Nat /\ r < SectorSize
    <3>1. off = p + r
      BY <1>1, <1>2, Zenon
    <3>2. r \in Nat /\ r < SectorSize
      BY <1>0
    <3> QED BY <3>1, <3>2
  <2>2. off - 1 \in Nat /\ p <= off - 1 /\ off - 1 < p + SectorSize
    BY <1>0, <1>2, <1>3, <2>1
  <2>3. (off - 1) \div SectorSize = q
    BY <1>0, <1>2, <2>2, Quotient
  <2>4. off - 1 < off
    OBVIOUS
  <2> QED BY <1>1, <2>2, <2>3, <2>4 DEF CoveredTo
<1> QED BY <1>1, <1>3

\* The record does not fit: a directory that is not as it is on disk would
\* have gone on.
LEMMA SyncRefused ==
  ASSUME SyncInv, SolidInv', faults' = 0, AppendRefused
  PROVE  AllInOrder'
<1>1. /\ Before /\ pc = "ap" /\ pc' = "rl" /\ c' = c /\ mounted
      /\ c.dir \in Inodes /\ c.ino \in Inodes /\ c.op # "write"
      /\ UNCHANGED <<mem, disk, crashes>>
  <2>1. Before /\ Succeeds
    BY BeforeStep DEF AppendRefused
  <2> QED BY <2>1 DEF AppendRefused, Goto, Before, TypeInv, CallOK, CreatePcs
<1>2. d_inodes[c.dir] = inodes[c.dir] \/ (~Roomy /\ inodes[c.dir].type = "file")
  <2>1. \/ inodes[c.dir].type # "dir" \/ Slot >= DirectBlocks
        \/ inodes[c.dir].direct[Slot] = INVALID
    BY DEF AppendRefused
  <2>2. Slot \in Slots => ~(Slot >= DirectBlocks)
    BY SizeAssumption DEF Slots
  <2> HIDE DEF Slot
  <2> QED BY <1>1, <2>1, <2>2 DEF Before, AllInOrder, Appending
<1> USE DEF mem, disk
<1>3. Booting'
  BY <1>1 DEF Before, AllInOrder, Booting, FormatPcs
<1>4. Bitmaps'
  BY <1>1 DEF Before, AllInOrder, Bitmaps, FreePcs
<1>5. Table'
  BY <1>1, <1>2
     DEF Before, AllInOrder, Table, Changed, Reborn, Writing, Truncating, WritePcs, Roomy
<1>6. Taken'
  BY <1>1 DEF Before, AllInOrder, Taken
<1>7. Directories'
  BY <1>1 DEF Before, AllInOrder, Directories, Covered, CoveredTo
<1>8. Appending' /\ Locals'
  BY <1>1 DEF Before, AllInOrder, Appending, Locals
<1>9. Roomy => Counted'
  BY <1>1 DEF Before, AllInOrder, Counted, Held
<1> QED BY <1>3, <1>4, <1>5, <1>6, <1>7, <1>8, <1>9 DEF AllInOrder, Roomy

\* A block is reserved for the directory, in memory.
LEMMA SyncAppendAllocates ==
  ASSUME SyncInv, SolidInv', faults' = 0, AppendAllocates
  PROVE  AllInOrder'
<1>1. /\ Before /\ pc = "ap" /\ pc' = "ap_bitmap" /\ mounted
      /\ c.dir \in Inodes /\ c.ino \in Inodes /\ c.op # "write" /\ c.off \in Nat
      /\ inodes[c.dir].type = "dir" /\ Slot < DirectBlocks
      /\ inodes[c.dir].direct[Slot] = INVALID
      /\ UNCHANGED <<mounted, inodes, inode_bitmap, disk, crashes>>
  <2>1. Before /\ Succeeds
    BY BeforeStep DEF AppendAllocates
  <2> QED BY <2>1
      DEF AppendAllocates, luxfs_alloc_block, Before, TypeInv, CallOK, CreatePcs, Frame
<1>2. PICK b \in Blocks : block_bitmap' = block_bitmap \cup {b} /\ c' = [c EXCEPT !.blk = b]
  BY DEF AppendAllocates, luxfs_alloc_block, FreeBlocks
<1>3. /\ c'.op = c.op /\ c'.dir = c.dir /\ c'.ino = c.ino /\ c'.ok = c.ok /\ c'.blk = b
      /\ c'.off = c.off /\ c'.left = c.left
  BY <1>1, <1>2 DEF Before, Frame
<1>4. d_inodes[c.dir] = inodes[c.dir]
  <2> HIDE DEF Slot
  <2> QED BY <1>1 DEF Before, AllInOrder, Appending
<1> USE DEF disk
<1>5. Booting'
  BY <1>1 DEF Before, AllInOrder, Booting, FormatPcs
<1>6. Bitmaps'
  BY <1>1, <1>2 DEF Before, AllInOrder, Bitmaps, FreePcs
<1>7. Table'
  BY <1>1, <1>3, <1>4
     DEF Before, AllInOrder, Table, Changed, Reborn, Writing, Truncating, WritePcs, Roomy
<1>8. Taken'
  BY <1>1 DEF Before, AllInOrder, Taken
<1>9. Directories'
  BY <1>1 DEF Before, AllInOrder, Directories, Covered, CoveredTo
<1>10. Appending'
  <2>1. Slot' = Slot
    BY <1>3 DEF Slot
  <2>2. Slot \in Slots
    <3>1. Slot \in Nat
      BY <1>1, ChunkBounds DEF Before, Frame
    <3> QED BY <1>1, <3>1, SizeAssumption DEF Slots
  <2> HIDE DEF Slot
  <2> QED BY <1>1, <1>3, <2>1, <2>2 DEF Before, AllInOrder, Appending, CoveredTo
<1>11. Locals'
  BY <1>1, <1>3 DEF Before, AllInOrder, Locals
<1>12. Roomy => Counted'
  <2> SUFFICES ASSUME Roomy PROVE Counted'
    OBVIOUS
  <2>1. c.blk = INVALID /\ \A x \in block_bitmap : x # INVALID
    BY <1>1, Ranges DEF Before, AllInOrder, Locals
  <2>2. Held(inodes', inode_bitmap') = Held(inodes, inode_bitmap)
    BY <1>1
  <2> QED BY <1>1, <1>2, <1>3, <2>1, <2>2, StillCounted DEF Before, AllInOrder
<1> QED BY <1>5, <1>6, <1>7, <1>8, <1>9, <1>10, <1>11, <1>12 DEF AllInOrder, Roomy

\* Its bit reaches the disk.
LEMMA SyncAppendBitmap ==
  ASSUME SyncInv, SolidInv', faults' = 0, AppendBlockBitmap
  PROVE  AllInOrder'
<1>1. /\ Before /\ pc = "ap_bitmap" /\ pc' = "ap_zero" /\ c' = c /\ mounted
      /\ d_block_bitmap' = block_bitmap /\ c.op # "write"
      /\ UNCHANGED <<mem, d_super, d_inode_bitmap, d_inodes, crashes>>
  <2>1. Before /\ Succeeds
    BY BeforeStep DEF AppendBlockBitmap
  <2>2. faults' # faults + 1
    BY <2>1 DEF Before, Succeeds, TypeInv, TypeOK, BudgetType
  <2> QED BY <2>1, <2>2 DEF AppendBlockBitmap, Fails, Goto, luxfs_flush_block_bitmap, Before,
        TypeInv, CallOK, CreatePcs
<1> USE DEF mem
<1>2. Booting'
  BY <1>1 DEF Before, AllInOrder, Booting, FormatPcs
<1>3. Bitmaps'
  BY <1>1 DEF Before, AllInOrder, Bitmaps, FreePcs
<1>4. Table'
  BY <1>1 DEF Before, AllInOrder, Table, Changed, Reborn, Writing, Truncating, WritePcs
<1>5. Taken'
  BY <1>1 DEF Before, AllInOrder, Taken
<1>6. Directories'
  BY <1>1 DEF Before, AllInOrder, Directories, Covered, CoveredTo
<1>7. Appending' /\ Locals'
  <2>1. Slot' = Slot
    BY <1>1 DEF Slot
  <2> HIDE DEF Slot
  <2> QED BY <1>1, <2>1 DEF Before, AllInOrder, Appending, Locals, CoveredTo
<1>8. Roomy => Counted'
  BY <1>1 DEF Before, AllInOrder, Counted, Held
<1> QED BY <1>2, <1>3, <1>4, <1>5, <1>6, <1>7, <1>8 DEF AllInOrder, Roomy

\* Writing one pointer, or one size, leaves type and parent alone.
LEMMA RepointParent ==
  ASSUME NEW table \in [Inodes -> Inode], NEW i \in Inodes, NEW k, NEW x
  PROVE  /\ [table EXCEPT ![i].direct[k] = x][i].parent = table[i].parent
         /\ [table EXCEPT ![i].size = x][i].parent = table[i].parent
BY DEF Inode

\* The directory gets the block. It has nothing of the record yet, so the
\* rest of the record fits into the block.
LEMMA SyncAppendZeroes ==
  ASSUME RecordSize <= SectorSize, SyncInv, SolidInv', faults' = 0, AppendZeroes
  PROVE  AllInOrder'
<1>1. /\ Before /\ pc = "ap_zero" /\ pc' = "ap" /\ mounted
      /\ c.dir \in Inodes /\ c.ino \in Inodes /\ c.op # "write"
      /\ c.off \in Nat /\ c.left \in Nat /\ c.blk \in Blocks
      /\ inodes' = [inodes EXCEPT ![c.dir].direct[Slot] = c.blk]
      /\ c' = [c EXCEPT !.blk = INVALID]
      /\ UNCHANGED <<mounted, inode_bitmap, block_bitmap>>
      /\ UNCHANGED <<d_super, d_inode_bitmap, d_block_bitmap, d_inodes, crashes>>
  <2>1. Before /\ Succeeds
    BY BeforeStep DEF AppendZeroes
  <2>2. faults' # faults + 1
    BY <2>1 DEF Before, Succeeds, TypeInv, TypeOK, BudgetType
  <2>3. c.blk \in Blocks /\ c.off \in Nat /\ c.left \in Nat
    BY <2>1 DEF AppendZeroes, Before, SolidInv, BlockOK, Frame
  <2> QED BY <2>1, <2>2, <2>3 DEF AppendZeroes, Fails, Before, TypeInv, CallOK, CreatePcs
<1>2. /\ c'.op = c.op /\ c'.dir = c.dir /\ c'.ino = c.ino /\ c'.ok = c.ok /\ c'.blk = INVALID
      /\ c'.off = c.off /\ c'.left = c.left
  BY <1>1 DEF Before, Frame
<1>3. Slot' = Slot /\ At' = At /\ Chunk' = Chunk
  BY <1>2 DEF Slot, At, Chunk
<1>4. /\ \A j \in Inodes : j # c.dir => inodes'[j] = inodes[j]
      /\ inodes'[c.dir].type = inodes[c.dir].type
      /\ inodes'[c.dir].size = inodes[c.dir].size
      /\ inodes'[c.dir].parent = inodes[c.dir].parent
      /\ \A l \in Slots : inodes'[c.dir].direct[l]
                            = IF l = Slot THEN c.blk ELSE inodes[c.dir].direct[l]
  <2>1. inodes \in [Inodes -> Inode]
    BY <1>1 DEF Before
  <2>2. inodes'[c.dir].parent = inodes[c.dir].parent
    BY <1>1, <2>1, RepointParent
  <2>3. /\ \A j \in Inodes : j # c.dir => inodes'[j] = inodes[j]
        /\ inodes'[c.dir].type = inodes[c.dir].type
        /\ inodes'[c.dir].size = inodes[c.dir].size
    BY <1>1, <2>1, RepointFields
  <2>4. \A i \in Inodes, l \in Slots : inodes'[i].direct[l] =
          IF i = c.dir /\ l = Slot THEN c.blk ELSE inodes[i].direct[l]
    BY <1>1, <2>1, OnePointer
  <2> QED BY <1>1, <2>2, <2>3, <2>4
<1>5. /\ inodes[c.dir].type = "dir" /\ Slot \in Slots /\ inodes[c.dir].direct[Slot] = INVALID
      /\ c.left \in 1 .. RecordSize /\ c.off + c.left = inodes[c.dir].size + RecordSize
      /\ CoveredTo(inodes[c.dir], c.off)
  BY <1>1 DEF Before, AllInOrder, Appending
<1>6. c.blk # INVALID
  BY <1>1, Ranges
<1>7. \A l \in Slots : inodes[c.dir].direct[l] # INVALID => inodes'[c.dir].direct[l] # INVALID
  BY <1>4, <1>6
<1>8. Booting'
  BY <1>1 DEF Before, AllInOrder, Booting, FormatPcs
<1>9. Bitmaps'
  BY <1>1 DEF Before, AllInOrder, Bitmaps, FreePcs
<1>10. Table'
  BY <1>1, <1>2, <1>4
     DEF Before, AllInOrder, Table, Changed, Reborn, Writing, Truncating, WritePcs, Roomy
<1>11. Taken'
  BY <1>1, <1>4 DEF Before, AllInOrder, Taken
<1>12. Directories'
  <2>1. \A i \in Inodes : Covered(inodes[i])
    BY <1>1 DEF Before, AllInOrder, Directories
  <2>2. Covered(inodes'[c.dir])
    <3>1. CoveredTo(inodes[c.dir], inodes[c.dir].size)
      BY <1>1, <1>5, <2>1 DEF Covered
    <3> QED BY <1>4, <1>7, <3>1, CoveredMore DEF Covered
  <2>3. \A i \in Inodes : Covered(inodes'[i])
    BY <1>4, <2>1, <2>2
  <2> QED BY <1>1, <2>3 DEF Before, AllInOrder, Directories
<1>13. Appending'
  <2>1. At = 0
    BY <1>1, <1>5, SlotStart DEF At, Slot
  <2>2. Chunk = c.left
    BY <1>1, <1>5, <2>1, SizeAssumption DEF Chunk, RecordSize
  <2>3. CoveredTo(inodes'[c.dir], c.off)
    BY <1>5, <1>7, CoveredMore
  <2>4. inodes'[c.dir].direct[Slot] # INVALID
    BY <1>4, <1>5, <1>6
  <2> HIDE DEF Slot, Chunk
  <2> QED BY <1>1, <1>2, <1>3, <1>4, <1>5, <2>2, <2>3, <2>4 DEF Appending
<1>14. Locals'
  BY <1>1, <1>2 DEF Before, AllInOrder, Locals
<1>15. Roomy => Counted'
  <2> SUFFICES ASSUME Roomy PROVE Counted'
    OBVIOUS
  <2>1. c.dir \in inode_bitmap
    BY <1>1, <1>5 DEF Before, AllInOrder, Taken
  <2>2. c.blk \in Held(inodes', inode_bitmap')
    BY <1>1, <1>4, <1>5, <2>1 DEF Held
  <2>3. ASSUME NEW b \in block_bitmap, b \in Held(inodes, inode_bitmap)
        PROVE  b \in Held(inodes', inode_bitmap')
    <3>1. PICK i \in inode_bitmap, k \in Slots : b = inodes[i].direct[k]
      BY <2>3 DEF Held
    <3>2. b # INVALID
      BY <1>1, <2>3, Ranges DEF Before
    <3>3. b = inodes'[i].direct[k]
      BY <1>1, <1>4, <1>5, <3>1, <3>2 DEF Before
    <3> QED BY <1>1, <3>1, <3>3 DEF Held
  <2> QED BY <1>1, <2>2, <2>3, StillCounted DEF Before, AllInOrder
<1> QED BY <1>8, <1>9, <1>10, <1>11, <1>12, <1>13, <1>14, <1>15 DEF AllInOrder, Roomy

\* A part of the record is written; after the last one the directory grows.
LEMMA SyncAppendPatches ==
  ASSUME SyncInv, SolidInv', faults' = 0, AppendPatches
  PROVE  AllInOrder'
<1>1. /\ Before /\ pc = "ap" /\ mounted
      /\ c.dir \in Inodes /\ c.ino \in Inodes /\ c.op # "write"
      /\ c.off \in Nat /\ c.left \in Nat
      /\ inodes[c.dir].type = "dir" /\ Slot < DirectBlocks
      /\ inodes[c.dir].direct[Slot] # INVALID
      /\ c' = [c EXCEPT !.off = c.off + Chunk, !.left = c.left - Chunk]
      /\ IF Chunk = c.left
         THEN inodes' = [inodes EXCEPT ![c.dir].size = @ + RecordSize] /\ pc' = "ap_inode"
         ELSE UNCHANGED <<inodes, pc>>
      /\ UNCHANGED <<mounted, inode_bitmap, block_bitmap>>
      /\ UNCHANGED <<d_super, d_inode_bitmap, d_block_bitmap, d_inodes, crashes>>
  <2>1. Before /\ Succeeds
    BY BeforeStep DEF AppendPatches
  <2>2. faults' # faults + 1
    BY <2>1 DEF Before, Succeeds, TypeInv, TypeOK, BudgetType
  <2>3. c.off \in Nat /\ c.left \in Nat
    BY <2>1 DEF Before, Frame
  <2> HIDE DEF Chunk, Slot
  <2> QED BY <2>1, <2>2, <2>3 DEF AppendPatches, Fails, Before, TypeInv, CallOK, CreatePcs
<1>2. /\ Chunk \in Nat /\ Chunk <= c.left /\ Chunk <= SectorSize - At
      /\ Slot \in Slots /\ At \in Nat
  BY <1>1, ChunkBounds, SizeAssumption DEF Chunk, Slots
<1>3. /\ c'.op = c.op /\ c'.dir = c.dir /\ c'.ino = c.ino /\ c'.ok = c.ok /\ c'.blk = c.blk
      /\ c'.off = c.off + Chunk /\ c'.left = c.left - Chunk
  BY <1>1 DEF Before, Frame
<1>4. /\ c.left \in 1 .. RecordSize /\ c.off + c.left = inodes[c.dir].size + RecordSize
      /\ CoveredTo(inodes[c.dir], c.off)
  BY <1>1 DEF Before, AllInOrder, Appending
<1>5. CoveredTo(inodes[c.dir], c.off + Chunk)
  BY <1>1, <1>2, <1>4, CoveredFurther DEF Slot, At
<1>6. inodes[c.dir].size \in Nat
  BY <1>1 DEF Before, Inode
<1> HIDE DEF Chunk, Slot
<1>7. Booting'
  BY <1>1 DEF Before, AllInOrder, Booting, FormatPcs
<1>8. Bitmaps'
  BY <1>1 DEF Before, AllInOrder, Bitmaps, FreePcs
<1>9. Locals'
  BY <1>1, <1>3 DEF Before, AllInOrder, Locals
<1>10. CASE Chunk = c.left
  <2>1. pc' = "ap_inode" /\ inodes' = [inodes EXCEPT ![c.dir].size = c.off + Chunk]
    <3>1. inodes[c.dir].size + RecordSize = c.off + Chunk
      BY <1>4, <1>10
    <3> QED BY <1>1, <1>10, <3>1
  <2>2. /\ \A j \in Inodes : j # c.dir => inodes'[j] = inodes[j]
        /\ inodes'[c.dir].type = inodes[c.dir].type
        /\ inodes'[c.dir].size = c.off + Chunk
        /\ inodes'[c.dir].parent = inodes[c.dir].parent
        /\ inodes'[c.dir].direct = inodes[c.dir].direct
    BY <1>1, <2>1, ResizeFields, RepointParent DEF Before
  <2>3. Table'
    BY <1>1, <1>3, <2>1, <2>2
       DEF Before, AllInOrder, Table, Changed, Reborn, Writing, Truncating, WritePcs, Roomy
  <2>4. Taken'
    BY <1>1, <2>2 DEF Before, AllInOrder, Taken
  <2>5. Directories'
    <3>1. \A i \in Inodes : Covered(inodes[i])
      BY <1>1 DEF Before, AllInOrder, Directories
    <3>2. Covered(inodes'[c.dir])
      BY <1>5, <2>2, CoveredMore DEF Covered
    <3>3. \A i \in Inodes : Covered(inodes'[i])
      BY <2>2, <3>1, <3>2
    <3> QED BY <1>1, <3>3 DEF Before, AllInOrder, Directories
  <2>6. Appending'
    BY <2>1 DEF Appending
  <2>7. Roomy => Counted'
    <3>1. \A i \in Inodes : inodes'[i].direct = inodes[i].direct
      BY <2>2
    <3>2. Held(inodes', inode_bitmap') = Held(inodes, inode_bitmap)
      BY <1>1, <3>1 DEF Held, Before
    <3> QED BY <1>1, <1>3, <3>2, StillCounted DEF Before, AllInOrder, Counted
  <2> QED BY <1>7, <1>8, <1>9, <2>3, <2>4, <2>5, <2>6, <2>7 DEF AllInOrder, Roomy
<1>11. CASE Chunk # c.left
  <2>1. pc' = pc /\ inodes' = inodes
    BY <1>1, <1>11
  <2>2. d_inodes[c.dir] = inodes[c.dir]
    BY <1>1, <1>11 DEF Before, AllInOrder, Appending
  <2>3. Table'
    BY <1>1, <1>3, <2>1
       DEF Before, AllInOrder, Table, Changed, Reborn, Writing, Truncating, WritePcs, Roomy
  <2>4. Taken' /\ Directories'
    BY <1>1, <1>3, <2>1 DEF Before, AllInOrder, Taken, Directories, Covered, CoveredTo
  <2>5. Appending'
    <3>1. c'.left \in 1 .. RecordSize
      BY <1>2, <1>3, <1>4, <1>11 DEF RecordSize
    <3>2. c'.off + c'.left = inodes[c.dir].size + RecordSize
      BY <1>1, <1>2, <1>3, <1>4
    <3> QED BY <1>1, <1>3, <1>5, <2>1, <2>2, <3>1, <3>2 DEF Appending, CoveredTo
  <2>6. Roomy => Counted'
    BY <1>1, <1>3, <2>1 DEF Before, AllInOrder, Counted, Held
  <2> QED BY <1>7, <1>8, <1>9, <2>3, <2>4, <2>5, <2>6 DEF AllInOrder, Roomy
<1> QED BY <1>10, <1>11

\* The directory reaches the disk.
LEMMA SyncAppendInode ==
  ASSUME SyncInv, SolidInv', faults' = 0, AppendInode
  PROVE  AllInOrder'
<1>1. /\ Before /\ pc = "ap_inode" /\ pc' = "ret" /\ mounted /\ c.dir \in Inodes
      /\ c.op # "write" /\ c' = [c EXCEPT !.ret = TRUE] /\ luxfs_flush_inode(c.dir)
      /\ UNCHANGED <<mem, d_super, d_inode_bitmap, d_block_bitmap, crashes>>
  <2>1. Before /\ Succeeds
    BY BeforeStep DEF AppendInode
  <2>2. faults' # faults + 1
    BY <2>1 DEF Before, Succeeds, TypeInv, TypeOK, BudgetType
  <2> QED BY <2>1, <2>2 DEF AppendInode, Fails, Return, Before, TypeInv, CallOK, CreatePcs
<1>2. c'.ok = c.ok /\ c'.blk = c.blk
  BY <1>1 DEF Before, Frame
<1>3. /\ d_inodes'[c.dir] = inodes[c.dir]
      /\ \A i \in Inodes : d_inodes'[i] = inodes[i] \/ d_inodes'[i] = d_inodes[i]
  BY <1>1, FlushWrites
<1> USE DEF mem
<1>4. Booting'
  BY <1>1 DEF Before, AllInOrder, Booting, FormatPcs
<1>5. Bitmaps'
  BY <1>1 DEF Before, AllInOrder, Bitmaps, FreePcs
<1>6. Table'
  BY <1>1, <1>3
     DEF Before, AllInOrder, Table, Changed, Reborn, Writing, Truncating, WritePcs, Roomy
<1>7. Taken'
  BY <1>1, <1>3 DEF Before, AllInOrder, Taken, Bitmaps, FreePcs
<1>8. Directories'
  BY <1>1, <1>3 DEF Before, AllInOrder, Directories, Covered, CoveredTo
<1>9. Appending' /\ Locals'
  BY <1>1, <1>2 DEF Before, AllInOrder, Appending, Locals
<1>10. Roomy => Counted'
  BY <1>1, <1>2 DEF Before, AllInOrder, Counted, Held
<1> QED BY <1>4, <1>5, <1>6, <1>7, <1>8, <1>9, <1>10 DEF AllInOrder, Roomy

-----------------------------------------------------------------------------
(* Giving blocks and inodes back.                                          *)

\* One block less: the pointer goes in memory, the bit on disk as well.
LEMMA SyncRelease ==
  ASSUME SyncInv, SolidInv', faults' = 0, ReleaseBlock
  PROVE  AllInOrder'
<1>1. /\ Before /\ pc = "rl" /\ pc' = "rl" /\ mounted /\ c.ino \in Inodes
      /\ UNCHANGED <<mounted, inode_bitmap, d_super, d_inode_bitmap, d_inodes, crashes>>
  <2>1. Before /\ Succeeds
    BY BeforeStep DEF ReleaseBlock
  <2> QED BY <2>1 DEF ReleaseBlock, Before, TypeInv, CallOK
<1>2. PICK k0 \in Slots :
         LET b == inodes[c.ino].direct[k0]
         IN  /\ inodes' = [inodes EXCEPT ![c.ino].direct[k0] = INVALID]
             /\ block_bitmap' = block_bitmap \ {b}
             /\ d_block_bitmap' = IF b \in block_bitmap THEN block_bitmap \ {b} ELSE d_block_bitmap
             /\ c' = c
  <2>1. faults' # faults + 1
    BY BeforeStep DEF ReleaseBlock, Succeeds, Before, TypeInv, TypeOK, BudgetType
  <2> QED BY <2>1 DEF ReleaseBlock, HeldSlots, Fails
<1>3. /\ \A j \in Inodes : j # c.ino => inodes'[j] = inodes[j]
      /\ inodes'[c.ino].type = inodes[c.ino].type
      /\ inodes'[c.ino].parent = inodes[c.ino].parent
  <2>1. inodes \in [Inodes -> Inode]
    BY <1>1 DEF Before
  <2>2. inodes'[c.ino].parent = inodes[c.ino].parent
    BY <1>1, <1>2, <2>1, RepointParent
  <2> QED BY <1>1, <1>2, <2>1, <2>2, RepointFields
<1>4. \A i \in Inodes, l \in Slots : inodes'[i].direct[l] =
        IF i = c.ino /\ l = k0 THEN INVALID ELSE inodes[i].direct[l]
  BY <1>1, <1>2, OnePointer DEF Before
<1>5. Booting'
  BY <1>1, <1>2 DEF Before, AllInOrder, Booting, FormatPcs
<1>6. Bitmaps'
  BY <1>1, <1>2 DEF Before, AllInOrder, Bitmaps, FreePcs
<1>7. Table'
  BY <1>1, <1>2, <1>3
     DEF Before, AllInOrder, Table, Changed, Reborn, Writing, Truncating, WritePcs, Roomy
<1>8. Taken'
  BY <1>1, <1>3 DEF Before, AllInOrder, Taken
<1>9. Directories'
  BY <1>1, <1>2, <1>3 DEF Before, AllInOrder, Directories, Covered, CoveredTo
<1>10. Appending' /\ Locals'
  BY <1>1, <1>2 DEF Before, AllInOrder, Appending, Locals
<1>11. Roomy => Counted'
  <2> SUFFICES ASSUME Roomy PROVE Counted'
    OBVIOUS
  <2>1. ASSUME NEW b \in block_bitmap', b \in Held(inodes, inode_bitmap)
        PROVE  b \in Held(inodes', inode_bitmap')
    <3>1. PICK i \in inode_bitmap, k \in Slots : b = inodes[i].direct[k]
      BY <2>1 DEF Held
    <3>2. ~(i = c.ino /\ k = k0)
      BY <1>2, <2>1, <3>1
    <3>3. b = inodes'[i].direct[k]
      BY <1>1, <1>4, <3>1, <3>2 DEF Before
    <3> QED BY <1>1, <3>1, <3>3 DEF Held
  <2>2. c'.blk = c.blk /\ block_bitmap' \subseteq block_bitmap
    BY <1>2
  <2> QED BY <1>1, <2>1, <2>2, StillCounted DEF Before, AllInOrder
<1> QED BY <1>5, <1>6, <1>7, <1>8, <1>9, <1>10, <1>11 DEF AllInOrder, Roomy

\* The file has no blocks and no size, and is about to be written.
LEMMA SyncReleasedForWrite ==
  ASSUME SyncInv, SolidInv', faults' = 0, ReleasedForWrite
  PROVE  AllInOrder'
<1>1. /\ Before /\ pc = "rl" /\ c.op = "write" /\ mounted
      /\ c.ino \in Inodes /\ c.left \in Nat /\ inodes[c.ino].type = "file"
      /\ inodes' = [inodes EXCEPT ![c.ino].size = 0]
      /\ c' = c /\ pc' = IF c.left = 0 THEN "wr_inode" ELSE "wr"
      /\ UNCHANGED <<mounted, inode_bitmap, block_bitmap, disk, crashes>>
  <2>1. Before /\ Succeeds
    BY BeforeStep DEF ReleasedForWrite
  <2>2. c.ok
    BY <2>1 DEF Before, AllInOrder, Locals
  <2>3. c.left \in Nat /\ c.ino \in Inodes /\ mounted
    BY <2>1 DEF ReleasedForWrite, Before, Frame, TypeInv, CallOK
  <2>4. inodes[c.ino].type = "file"
    BY <2>1 DEF ReleasedForWrite, Before, SolidInv, WriteOK, Writing, Truncating
  <2> QED BY <2>1, <2>2, <2>3, <2>4 DEF ReleasedForWrite, Goto, Return
<1>2. /\ \A j \in Inodes : j # c.ino => inodes'[j] = inodes[j]
      /\ inodes'[c.ino].type = inodes[c.ino].type
      /\ inodes'[c.ino].parent = inodes[c.ino].parent
      /\ inodes'[c.ino].direct = inodes[c.ino].direct
  BY <1>1, ResizeFields, RepointParent DEF Before
<1> USE DEF disk
<1>3. Booting'
  BY <1>1 DEF Before, AllInOrder, Booting, FormatPcs
<1>4. Bitmaps'
  BY <1>1 DEF Before, AllInOrder, Bitmaps, FreePcs
<1>5. Table'
  BY <1>1, <1>2
     DEF Before, AllInOrder, Table, Changed, Reborn, Writing, Truncating, WritePcs, Roomy
<1>6. Taken'
  BY <1>1, <1>2 DEF Before, AllInOrder, Taken
<1>7. Directories'
  BY <1>1, <1>2 DEF Before, AllInOrder, Directories, Covered, CoveredTo
<1>8. Appending' /\ Locals'
  BY <1>1 DEF Before, AllInOrder, Appending, Locals
<1>9. Roomy => Counted'
  <2>1. \A i \in Inodes : inodes'[i].direct = inodes[i].direct
    BY <1>2
  <2>2. Held(inodes', inode_bitmap') = Held(inodes, inode_bitmap)
    BY <1>1, <2>1 DEF Held, Before
  <2> QED BY <1>1, <2>2, StillCounted DEF Before, AllInOrder, Counted
<1> QED BY <1>3, <1>4, <1>5, <1>6, <1>7, <1>8, <1>9 DEF AllInOrder, Roomy

\* The new inode is given back in memory.
LEMMA SyncReleasedForFree ==
  ASSUME SyncInv, SolidInv', faults' = 0, ReleasedForFree
  PROVE  AllInOrder'
<1>1. /\ Before /\ pc = "rl" /\ c.op # "write" /\ mounted /\ c.ino \in Inodes
      /\ HeldSlots = {}
      /\ inodes' = [inodes EXCEPT ![c.ino] = luxfs_inode_clear]
      /\ inode_bitmap' = inode_bitmap \ {c.ino}
      /\ c' = c /\ pc' = "un_inode"
      /\ UNCHANGED <<mounted, block_bitmap, disk, crashes>>
  <2>1. Before /\ Succeeds
    BY BeforeStep DEF ReleasedForFree
  <2> QED BY <2>1 DEF ReleasedForFree, Goto, Before, TypeInv, CallOK
<1>2. inodes'[c.ino] = luxfs_inode_clear /\ \A j \in Inodes : j # c.ino => inodes'[j] = inodes[j]
  BY <1>1 DEF Before
<1>3. luxfs_inode_clear.type = "free"
  BY DEF luxfs_inode_clear
<1> USE DEF disk
<1>4. Booting'
  BY <1>1 DEF Before, AllInOrder, Booting, FormatPcs
<1>5. Bitmaps'
  BY <1>1 DEF Before, AllInOrder, Bitmaps, FreePcs
<1>6. Table'
  BY <1>1, <1>2
     DEF Before, AllInOrder, Table, Changed, Reborn, Writing, Truncating, WritePcs, Roomy
<1>7. Taken'
  BY <1>1, <1>2, <1>3 DEF Before, AllInOrder, Taken
<1>8. Directories'
  BY <1>1, <1>2, <1>3 DEF Before, AllInOrder, Directories, Covered, CoveredTo
<1>9. Appending' /\ Locals'
  BY <1>1 DEF Before, AllInOrder, Appending, Locals
<1>10. Roomy => Counted'
  <2> SUFFICES ASSUME Roomy PROVE Counted'
    OBVIOUS
  <2>1. ASSUME NEW b \in block_bitmap, b \in Held(inodes, inode_bitmap)
        PROVE  b \in Held(inodes', inode_bitmap')
    <3>1. PICK i \in inode_bitmap, k \in Slots : b = inodes[i].direct[k]
      BY <2>1 DEF Held
    <3>2. b # INVALID
      BY <1>1, <2>1, Ranges DEF Before
    <3>3. i # c.ino
      BY <1>1, <3>1, <3>2 DEF HeldSlots
    <3>4. b = inodes'[i].direct[k] /\ i \in inode_bitmap'
      BY <1>1, <1>2, <3>1, <3>3 DEF Before
    <3> QED BY <3>1, <3>4 DEF Held
  <2> QED BY <1>1, <2>1, StillCounted DEF Before, AllInOrder
<1> QED BY <1>4, <1>5, <1>6, <1>7, <1>8, <1>9, <1>10 DEF AllInOrder, Roomy

\* It goes on disk as well, the inode first and then the bit.
LEMMA SyncFreeFlush ==
  ASSUME SyncInv, SolidInv', faults' = 0, FreeInodeFlush
  PROVE  AllInOrder'
<1>1. /\ Before /\ pc = "un_inode" /\ pc' = "un_bitmap" /\ c' = c /\ mounted
      /\ c.ino \in Inodes /\ luxfs_flush_inode(c.ino)
      /\ UNCHANGED <<mem, d_super, d_inode_bitmap, d_block_bitmap, crashes>>
  <2>1. Before /\ Succeeds
    BY BeforeStep DEF FreeInodeFlush
  <2>2. faults' # faults + 1
    BY <2>1 DEF Before, Succeeds, TypeInv, TypeOK, BudgetType
  <2> QED BY <2>1, <2>2 DEF FreeInodeFlush, Fails, Goto, Before, TypeInv, CallOK, FreePcs
<1>2. /\ d_inodes'[c.ino] = inodes[c.ino]
      /\ \A i \in Inodes : d_inodes'[i] = inodes[i] \/ d_inodes'[i] = d_inodes[i]
  BY <1>1, FlushWrites
<1> USE DEF mem
<1>3. Booting'
  BY <1>1 DEF Before, AllInOrder, Booting, FormatPcs
<1>4. Bitmaps'
  BY <1>1 DEF Before, AllInOrder, Bitmaps, FreePcs
<1>5. Table'
  BY <1>1, <1>2
     DEF Before, AllInOrder, Table, Changed, Reborn, Writing, Truncating, WritePcs, Roomy
<1>6. Taken'
  BY <1>1, <1>2 DEF Before, AllInOrder, Taken, Bitmaps, FreePcs
<1>7. Directories'
  BY <1>1, <1>2 DEF Before, AllInOrder, Directories, Covered, CoveredTo
<1>8. Appending' /\ Locals'
  BY <1>1 DEF Before, AllInOrder, Appending, Locals
<1>9. Roomy => Counted'
  BY <1>1 DEF Before, AllInOrder, Counted, Held
<1> QED BY <1>3, <1>4, <1>5, <1>6, <1>7, <1>8, <1>9 DEF AllInOrder, Roomy

\* Giving an inode back ends with its bit cleared on disk.
LEMMA SyncFreeBitmap ==
  ASSUME SyncInv, SolidInv', faults' = 0, FreeInodeBitmap
  PROVE  AllInOrder'
<1>1. /\ Before /\ pc = "un_bitmap" /\ pc' = "ret" /\ c' = [c EXCEPT !.ret = FALSE] /\ mounted
      /\ d_inode_bitmap' = inode_bitmap
      /\ UNCHANGED <<mem, d_super, d_inodes, d_block_bitmap, crashes>>
  <2>1. Before /\ Succeeds
    BY BeforeStep DEF FreeInodeBitmap
  <2>2. faults' # faults + 1
    BY <2>1 DEF Before, Succeeds, TypeInv, TypeOK, BudgetType
  <2> QED BY <2>1, <2>2 DEF FreeInodeBitmap, luxfs_flush_inode_bitmap, Fails, Return, Before,
        TypeInv, CallOK, FreePcs
<1>2. c'.ok = c.ok /\ c'.blk = c.blk
  BY <1>1 DEF Before, Frame
<1>3. \A i \in Inodes : ~Changed(i) /\ ~Reborn(i)
  BY <1>1 DEF Changed, Reborn, Writing, Truncating, WritePcs
<1> USE DEF mem
<1>4. Booting'
  BY <1>1 DEF Before, AllInOrder, Booting, FormatPcs
<1>5. Bitmaps'
  BY <1>1 DEF Before, AllInOrder, Bitmaps, FreePcs
<1>6. Table'
  <2> HIDE DEF Changed, Reborn
  <2> QED BY <1>1, <1>3 DEF Before, AllInOrder, Table, Roomy
<1>7. Taken'
  <2> HIDE DEF Changed, Reborn
  <2> QED BY <1>1, <1>3 DEF Before, AllInOrder, Taken, Table
<1>8. Directories'
  BY <1>1 DEF Before, AllInOrder, Directories, Covered, CoveredTo
<1>9. Appending' /\ Locals'
  BY <1>1, <1>2 DEF Before, AllInOrder, Appending, Locals
<1>10. Roomy => Counted'
  BY <1>1, <1>2 DEF Before, AllInOrder, Counted, Held
<1> QED BY <1>4, <1>5, <1>6, <1>7, <1>8, <1>9, <1>10 DEF AllInOrder, Roomy

-----------------------------------------------------------------------------
(* fs_write. On a roomy volume it finds a block whenever it needs one.     *)

\* A set has at least as many elements as its image.
LEMMA ImageBound ==
  ASSUME NEW S, IsFiniteSet(S), NEW f, f = [x \in S |-> f[x]]
  PROVE  LET T == {f[x] : x \in S}
         IN  IsFiniteSet(T) /\ Cardinality(T) <= Cardinality(S)
<1> DEFINE T == {f[x] : x \in S}
<1>1. f \in Surjection(S, T)
  BY DEF Surjection
<1> QED BY <1>1, FS_Surjection

\* The sets that are counted.
LEMMA Counts ==
  /\ IsFiniteSet(Blocks) /\ Cardinality(Blocks) = DataBlocks
  /\ IsFiniteSet(Slots) /\ Cardinality(Slots) = DirectBlocks
  /\ IsFiniteSet(Inodes) /\ Cardinality(Inodes) = MaxInodes
<1>1. ASSUME NEW n \in Nat \ {0}
      PROVE  IsFiniteSet(0 .. n - 1) /\ Cardinality(0 .. n - 1) = n
  <2>1. n - 1 \in Int /\ ~(0 > n - 1) /\ (n - 1) - 0 + 1 = n
    OBVIOUS
  <2>2. /\ IsFiniteSet(0 .. n - 1)
        /\ Cardinality(0 .. n - 1) = IF 0 > n - 1 THEN 0 ELSE (n - 1) - 0 + 1
    BY <2>1, FS_Interval
  <2> QED BY <2>1, <2>2
<1> QED BY <1>1, SizeAssumption DEF Blocks, Slots, Inodes

\* A union has at most as many elements as its parts together.
LEMMA UnionBound ==
  ASSUME NEW S, IsFiniteSet(S), NEW T, IsFiniteSet(T)
  PROVE  /\ IsFiniteSet(S \cup T)
         /\ Cardinality(S) \in Nat /\ Cardinality(T) \in Nat /\ Cardinality(S \cup T) \in Nat
         /\ Cardinality(S \cup T) <= Cardinality(S) + Cardinality(T)
<1>1. /\ IsFiniteSet(S \cup T)
      /\ Cardinality(S \cup T) = Cardinality(S) + Cardinality(T) - Cardinality(S \cap T)
  BY FS_Union
<1>2. IsFiniteSet(S \cap T)
  BY FS_Intersection
<1>3. Cardinality(S) \in Nat /\ Cardinality(T) \in Nat /\ Cardinality(S \cup T) \in Nat
      /\ Cardinality(S \cap T) \in Nat
  BY <1>1, <1>2, FS_CardinalityType
<1> QED BY <1>1, <1>3

\* While one slot of one inode is empty, the blocks that inodes have and the
\* ones that were lost are not all there are.
LEMMA RoomLeft ==
  ASSUME Roomy, Counted, Before, mounted, c.blk = INVALID, crashes <= MaxCrashes,
         NEW i0 \in Inodes, NEW k0 \in Slots, inodes[i0].direct[k0] = INVALID
  PROVE  FreeBlocks # {}
<1> SUFFICES ASSUME Blocks \subseteq block_bitmap PROVE FALSE
  BY DEF FreeBlocks
<1>1. PICK lost \in SUBSET Blocks :
        /\ Cardinality(lost) <= crashes * DirectBlocks
        /\ block_bitmap \subseteq Held(inodes, inode_bitmap) \cup {c.blk} \cup lost
  BY DEF Counted
<1> DEFINE P == (Inodes \X Slots) \ {<<i0, k0>>}
           f == [p \in P |-> inodes[p[1]].direct[p[2]]]
           T == {f[p] : p \in P}
<1>2. IsFiniteSet(P) /\ Cardinality(P) = MaxInodes * DirectBlocks - 1
  <2>1. /\ IsFiniteSet(Inodes \X Slots)
        /\ Cardinality(Inodes \X Slots) = MaxInodes * DirectBlocks
    BY Counts, FS_Product
  <2>2. <<i0, k0>> \in Inodes \X Slots
    OBVIOUS
  <2> DEFINE S == Inodes \X Slots
             x == <<i0, k0>>
  <2> HIDE DEF S, x
  <2>3. IsFiniteSet(S) => /\ IsFiniteSet(S \ {x})
                          /\ Cardinality(S \ {x}) = IF x \in S THEN Cardinality(S) - 1
                                                    ELSE Cardinality(S)
    BY FS_RemoveElement
  <2> QED BY <2>1, <2>2, <2>3 DEF S, x
<1>3. IsFiniteSet(T) /\ Cardinality(T) <= MaxInodes * DirectBlocks - 1
  <2>1. f = [p \in P |-> f[p]]
    OBVIOUS
  <2> HIDE DEF f, P
  <2> QED BY <1>2, <2>1, ImageBound
<1>4. Blocks \subseteq T \cup lost
  <2> SUFFICES ASSUME NEW b \in Blocks, b \notin lost PROVE b \in T
    OBVIOUS
  <2>1. b # INVALID
    BY Ranges
  <2>2. PICK i \in inode_bitmap, k \in Slots : b = inodes[i].direct[k]
    BY <1>1, <2>1 DEF Held
  <2>3. i \in Inodes /\ <<i, k>> # <<i0, k0>>
    BY <2>1, <2>2 DEF Before
  <2>4. <<i, k>> \in P
    BY <2>3
  <2>5. f[<<i, k>>] = b
    BY <2>2, <2>4
  <2> QED BY <2>4, <2>5
<1> HIDE DEF T
<1>5. IsFiniteSet(lost)
  BY Counts, FS_Subset
<1>6. DataBlocks <= Cardinality(T) + Cardinality(lost)
  <2>1. IsFiniteSet(T \cup lost) /\ Cardinality(T \cup lost) <= Cardinality(T) + Cardinality(lost)
        /\ Cardinality(T \cup lost) \in Nat /\ Cardinality(T) \in Nat /\ Cardinality(lost) \in Nat
    BY <1>3, <1>5, UnionBound
  <2>2. Cardinality(Blocks) <= Cardinality(T \cup lost)
    BY <1>4, <2>1, FS_Subset
  <2> QED BY <2>1, <2>2, Counts, SizeAssumption
<1>7. Cardinality(T) \in Nat /\ Cardinality(lost) \in Nat
  BY <1>3, <1>5, FS_CardinalityType
<1>8. PICK m \in Nat, d \in Nat, x \in Nat, y \in Nat :
         m = MaxInodes /\ d = DirectBlocks /\ x = crashes /\ y = MaxCrashes
  BY SizeAssumption DEF Before
<1>9. x * d <= y * d
  <2>1. PICK e \in Nat : y = x + e
    <3>1. y - x \in Nat /\ y = x + (y - x)
      BY <1>8
    <3> QED BY <3>1
  <2>2. y * d = x * d + e * d
    BY <2>1
  <2>3. x * d \in Nat /\ e * d \in Nat
    OBVIOUS
  <2> QED BY <2>2, <2>3
<1>10. (m + y) * d = m * d + y * d
  OBVIOUS
<1>11. m * d \in Nat /\ x * d \in Nat /\ y * d \in Nat
  OBVIOUS
<1>12. DataBlocks >= m * d + y * d
  BY <1>8, <1>10 DEF Roomy
<1>13. Cardinality(T) <= m * d - 1 /\ Cardinality(lost) <= x * d
  BY <1>1, <1>3, <1>8
<1> QED BY <1>6, <1>7, <1>9, <1>11, <1>12, <1>13, SizeAssumption

\* The slot of a byte that is left to write.
LEMMA WriteSlot ==
  ASSUME c.off \in Nat, c.left \in Nat \ {0}, c.off + c.left <= MaxSize
  PROVE  Slot \in Slots
<1>1. PICK n \in Nat \ {0}, d \in Nat \ {0} : n = SectorSize /\ d = DirectBlocks
  BY SizeAssumption
<1>2. PICK q \in Nat, p \in Nat : q = Slot /\ p = n * q /\ p <= c.off
  <2>1. PICK q \in Nat, r \in 0 .. n - 1 : q = c.off \div n /\ c.off = n * q + r
    BY DivFacts
  <2>2. n * q \in Nat /\ n * q <= c.off
    <3>1. n * q \in Nat
      OBVIOUS
    <3> QED BY <2>1, <3>1
  <2>3. q = Slot
    BY <1>1, <2>1 DEF Slot
  <2> QED BY <2>2, <2>3
<1>3. c.off < d * n /\ d * n \in Nat
  <2>1. d * n \in Nat
    OBVIOUS
  <2> QED BY <1>1, <2>1 DEF MaxSize
<1>4. ASSUME q >= d PROVE FALSE
  <2>1. PICK e \in Nat : q = d + e
    <3>1. q - d \in Nat /\ q = d + (q - d)
      BY <1>4
    <3> QED BY <3>1
  <2>2. n * q = d * n + n * e
    BY <2>1
  <2>3. n * e \in Nat
    OBVIOUS
  <2> QED BY <1>2, <1>3, <2>2, <2>3
<1> QED BY <1>1, <1>2, <1>4 DEF Slots

\* What a step of the loop of fs_write may rely on.
LEMMA WriteStep ==
  ASSUME Before, pc \in WritePcs
  PROVE  /\ mounted /\ c.ino \in Inodes /\ inodes[c.ino].type = "file"
         /\ c.ino \in inode_bitmap
         /\ c.off \in Nat /\ c.left \in Nat
         /\ pc # "wr_inode" => c.left > 0 /\ Slot \in Slots
<1>1. mounted /\ c.ino \in Inodes /\ c.off \in Nat /\ c.left \in Nat
  BY DEF Before, TypeInv, CallOK, Frame
<1>2. inodes[c.ino].type = "file" /\ c.off + c.left <= MaxSize
  BY DEF Before, SolidInv, WriteOK, Writing
<1>3. c.ino \in inode_bitmap
  BY <1>1, <1>2 DEF Before, AllInOrder, Taken
<1>4. pc # "wr_inode" => c.left > 0
  BY DEF Before, AllInOrder, Locals, WritePcs
<1> QED BY <1>1, <1>2, <1>3, <1>4, WriteSlot

\* fs_write refuses, or begins with the file it found.
LEMMA SyncWriteCall ==
  ASSUME SyncInv, SolidInv', faults' = 0, NEW path, NEW off \in Offsets, NEW len \in Lengths,
         NEW v, NEW t \in BOOLEAN, fs_write(path, off, len, v, t)
  PROVE  AllInOrder'
<1>1. Before /\ pc = "idle" /\ UNCHANGED <<mem, disk, crashes>>
  <2>1. TypeInv /\ TypeOK /\ SolidInv
    BY DEF SyncInv, SolidInv, TypeInv
  <2>2. faults \in Nat /\ crashes \in Nat
    BY <2>1, SizeAssumption DEF TypeOK, BudgetType
  <2>3. faults = 0
    BY <2>2, SizeAssumption DEF fs_write, ReadFaults
  <2> QED BY <2>1, <2>2, <2>3
      DEF SyncInv, Before, TypeOK, MemType, DiskType, CallType, fs_write
<1>2. \A i \in Inodes : ~Changed(i) /\ ~Reborn(i)
  BY <1>1 DEF Changed, Reborn, Writing, Truncating, WritePcs
<1>3. CASE Answer("write", NONE, FALSE)
  <2>1. pc' = "ret" /\ c' = [NoCall EXCEPT !.op = "write", !.ino = NONE, !.ret = FALSE]
    BY <1>3 DEF Answer
  <2>2. c'.ok /\ c'.blk = INVALID
    BY <2>1 DEF NoCall
  <2> HIDE DEF Changed, Reborn
  <2> QED BY <1>1, <1>2, <2>1, <2>2, SyncQuiet DEF FreePcs, FormatPcs
<1>4. CASE ~Answer("write", NONE, FALSE)
  <2>1. PICK i0 \in Found :
          /\ mounted /\ i0 # NONE /\ inodes[i0].type = "file"
          /\ c' = [NoCall EXCEPT !.op = "write", !.ino = i0, !.start = off, !.trunc = t,
                                !.off = off, !.left = len, !.val = v]
          /\ pc' = IF t THEN "rl" ELSE IF len = 0 THEN "wr_inode" ELSE "wr"
    BY <1>4 DEF fs_write
  <2>2. i0 \in Inodes /\ len \in Nat
    BY <2>1, SizeAssumption DEF Found
  <2>3. c'.op = "write" /\ c'.ino = i0 /\ c'.left = len /\ c'.ok /\ c'.blk = INVALID
    BY <2>1 DEF NoCall
  <2> USE DEF mem, disk
  <2>4. Booting'
    BY <1>1, <2>1 DEF Before, AllInOrder, Booting, FormatPcs
  <2>5. Bitmaps'
    BY <1>1, <2>1 DEF Before, AllInOrder, Bitmaps, FreePcs
  <2>6. Table'
    <3> SUFFICES ASSUME NEW i \in Inodes, mounted
                 PROVE  /\ (~Roomy /\ inodes[i].type = "file") \/ d_inodes[i] = inodes[i]
                        /\ d_inodes[i].type = inodes[i].type
                        /\ d_inodes[i].parent = inodes[i].parent
      BY <1>1 DEF Table, Roomy
    <3> HIDE DEF Changed, Reborn
    <3> QED BY <1>1, <1>2 DEF Before, AllInOrder, Table
  <2>7. Taken'
    BY <1>1 DEF Before, AllInOrder, Taken
  <2>8. Directories'
    BY <1>1 DEF Before, AllInOrder, Directories, Covered, CoveredTo
  <2>9. Appending' /\ Locals'
    BY <2>1, <2>2, <2>3 DEF Appending, Locals
  <2>10. Roomy => Counted'
    <3>1. c.blk = INVALID
      BY <1>1 DEF Before, AllInOrder, Locals
    <3> QED BY <1>1, <2>3, <3>1 DEF Before, AllInOrder, Counted, Held
  <2> QED BY <2>4, <2>5, <2>6, <2>7, <2>8, <2>9, <2>10 DEF AllInOrder, Roomy
<1> QED BY <1>3, <1>4

\* fs_write runs out of blocks only where the volume is not roomy.
LEMMA SyncNoSpace ==
  ASSUME SyncInv, SolidInv', faults' = 0, WriteNoSpace
  PROVE  AllInOrder'
<1>1. /\ Before /\ pc = "wr" /\ inodes[c.ino].direct[Slot] = INVALID /\ FreeBlocks = {}
      /\ pc' = "ret" /\ c' = [c EXCEPT !.ret = FALSE] /\ UNCHANGED <<mem, disk, crashes>>
      /\ crashes <= MaxCrashes
  <2>1. Before /\ Succeeds
    BY BeforeStep DEF WriteNoSpace
  <2>2. crashes <= MaxCrashes
    BY <2>1, SizeAssumption DEF Before, TypeInv, TypeOK, BudgetType
  <2> QED BY <2>1, <2>2 DEF WriteNoSpace, Return
<1>2. c'.ok = c.ok /\ c'.blk = c.blk
  BY <1>1 DEF Before, Frame
<1>3. c.ok /\ c.blk = INVALID
  BY <1>1 DEF Before, AllInOrder, Locals
<1>4. mounted /\ c.ino \in Inodes /\ Slot \in Slots /\ inodes[c.ino].type = "file"
  BY <1>1, WriteStep DEF WritePcs
<1>5. ~Roomy
  <2>1. Roomy => Counted
    BY <1>1 DEF Before, AllInOrder
  <2> QED BY <1>1, <1>3, <1>4, <2>1, RoomLeft
<1>6. \A i \in Inodes : Changed(i) => i = c.ino /\ Writing
  BY <1>1 DEF Changed, Reborn, Writing, Truncating, WritePcs
<1> QED BY <1>1, <1>2, <1>3, <1>4, <1>5, <1>6, SyncQuiet DEF FreePcs, FormatPcs

\* A block is reserved for the file, in memory.
LEMMA SyncWriteAllocates ==
  ASSUME SyncInv, SolidInv', faults' = 0, WriteAllocates
  PROVE  AllInOrder'
<1>1. /\ Before /\ pc = "wr" /\ pc' = "wr_bitmap"
      /\ inodes[c.ino].direct[Slot] = INVALID
      /\ UNCHANGED <<mounted, inodes, inode_bitmap, disk, crashes>>
  <2>1. Before /\ Succeeds
    BY BeforeStep DEF WriteAllocates
  <2> QED BY <2>1 DEF WriteAllocates, luxfs_alloc_block
<1>2. mounted /\ c.ino \in Inodes /\ c.left > 0
  BY <1>1, WriteStep DEF WritePcs
<1>3. PICK b \in Blocks : block_bitmap' = block_bitmap \cup {b} /\ c' = [c EXCEPT !.blk = b]
  BY DEF WriteAllocates, luxfs_alloc_block, FreeBlocks
<1>4. /\ c'.op = c.op /\ c'.dir = c.dir /\ c'.ino = c.ino /\ c'.ok = c.ok /\ c'.blk = b
      /\ c'.off = c.off /\ c'.left = c.left
  BY <1>1, <1>3 DEF Before, Frame
<1>5. Slot' = Slot
  BY <1>4 DEF Slot
<1> HIDE DEF Slot
<1> USE DEF disk
<1>6. Booting'
  BY <1>1 DEF Before, AllInOrder, Booting, FormatPcs
<1>7. Bitmaps'
  BY <1>1, <1>3 DEF Before, AllInOrder, Bitmaps, FreePcs
<1>8. Table'
  BY <1>1, <1>4
     DEF Before, AllInOrder, Table, Changed, Reborn, Writing, Truncating, WritePcs, Roomy
<1>9. Taken'
  BY <1>1 DEF Before, AllInOrder, Taken
<1>10. Directories'
  BY <1>1 DEF Before, AllInOrder, Directories, Covered, CoveredTo
<1>11. Appending' /\ Locals'
  BY <1>1, <1>2, <1>4, <1>5 DEF Before, AllInOrder, Appending, Locals
<1>12. Roomy => Counted'
  <2> SUFFICES ASSUME Roomy PROVE Counted'
    OBVIOUS
  <2>1. c.blk = INVALID /\ \A x \in block_bitmap : x # INVALID
    BY <1>1, Ranges DEF Before, AllInOrder, Locals
  <2>2. Held(inodes', inode_bitmap') = Held(inodes, inode_bitmap)
    BY <1>1
  <2> QED BY <1>1, <1>2, <1>3, <1>4, <2>1, <2>2, StillCounted DEF Before, AllInOrder
<1> QED BY <1>6, <1>7, <1>8, <1>9, <1>10, <1>11, <1>12 DEF AllInOrder, Roomy

\* Its bit reaches the disk, and the file gets it.
LEMMA SyncWriteBitmap ==
  ASSUME SyncInv, SolidInv', faults' = 0, WriteBlockBitmap
  PROVE  AllInOrder'
<1>1. /\ Before /\ pc = "wr_bitmap" /\ pc' = "wr" /\ c.blk \in Blocks
      /\ d_block_bitmap' = block_bitmap
      /\ inodes' = [inodes EXCEPT ![c.ino].direct[Slot] = c.blk]
      /\ c' = [c EXCEPT !.blk = INVALID, !.fresh = TRUE]
      /\ UNCHANGED <<mounted, inode_bitmap, block_bitmap>>
      /\ UNCHANGED <<d_super, d_inode_bitmap, d_inodes, crashes>>
  <2>1. Before /\ Succeeds
    BY BeforeStep DEF WriteBlockBitmap
  <2>2. faults' # faults + 1
    BY <2>1 DEF Before, Succeeds, TypeInv, TypeOK, BudgetType
  <2>3. c.blk \in Blocks
    BY <2>1 DEF WriteBlockBitmap, Before, SolidInv, BlockOK
  <2> QED BY <2>1, <2>2, <2>3 DEF WriteBlockBitmap, luxfs_flush_block_bitmap, Fails
<1>2. /\ mounted /\ c.ino \in Inodes /\ c.ino \in inode_bitmap /\ c.left > 0 /\ Slot \in Slots
      /\ inodes[c.ino].type = "file"
  BY <1>1, WriteStep DEF WritePcs
<1>3. /\ c'.op = c.op /\ c'.dir = c.dir /\ c'.ino = c.ino /\ c'.ok = c.ok /\ c'.blk = INVALID
      /\ c'.left = c.left
  BY <1>1 DEF Before, Frame
<1>4. /\ \A j \in Inodes : j # c.ino => inodes'[j] = inodes[j]
      /\ inodes'[c.ino].type = inodes[c.ino].type
      /\ inodes'[c.ino].parent = inodes[c.ino].parent
  <2>1. inodes \in [Inodes -> Inode]
    BY <1>1 DEF Before
  <2>2. inodes'[c.ino].parent = inodes[c.ino].parent
    BY <1>1, <1>2, <2>1, RepointParent
  <2> QED BY <1>1, <1>2, <2>1, <2>2, RepointFields
<1>5. \A i \in Inodes, l \in Slots : inodes'[i].direct[l] =
        IF i = c.ino /\ l = Slot THEN c.blk ELSE inodes[i].direct[l]
  BY <1>1, <1>2, OnePointer DEF Before
<1>6. inodes[c.ino].direct[Slot] = INVALID
  BY <1>1 DEF Before, AllInOrder, Locals
<1> HIDE DEF Slot
<1>7. Booting'
  BY <1>1, <1>2 DEF Before, AllInOrder, Booting, FormatPcs
<1>8. Bitmaps'
  BY <1>1 DEF Before, AllInOrder, Bitmaps, FreePcs
<1>9. Table'
  BY <1>1, <1>3, <1>4
     DEF Before, AllInOrder, Table, Changed, Reborn, Writing, Truncating, WritePcs, Roomy
<1>10. Taken'
  BY <1>1, <1>4 DEF Before, AllInOrder, Taken
<1>11. Directories'
  BY <1>1, <1>2, <1>4 DEF Before, AllInOrder, Directories, Covered, CoveredTo
<1>12. Appending' /\ Locals'
  BY <1>1, <1>2, <1>3 DEF Before, AllInOrder, Appending, Locals
<1>13. Roomy => Counted'
  <2> SUFFICES ASSUME Roomy PROVE Counted'
    OBVIOUS
  <2>1. c.blk \in Held(inodes', inode_bitmap')
    BY <1>1, <1>2, <1>5 DEF Held
  <2>2. ASSUME NEW b \in block_bitmap, b \in Held(inodes, inode_bitmap)
        PROVE  b \in Held(inodes', inode_bitmap')
    <3>1. PICK i \in inode_bitmap, k \in Slots : b = inodes[i].direct[k]
      BY <2>2 DEF Held
    <3>2. b # INVALID
      BY <1>1, <2>2, Ranges DEF Before
    <3>3. b = inodes'[i].direct[k]
      BY <1>1, <1>5, <1>6, <3>1, <3>2 DEF Before
    <3> QED BY <1>1, <3>1, <3>3 DEF Held
  <2> QED BY <1>1, <1>2, <2>1, <2>2, StillCounted DEF Before, AllInOrder
<1> QED BY <1>7, <1>8, <1>9, <1>10, <1>11, <1>12, <1>13 DEF AllInOrder, Roomy

\* A sector of the data; after the last one the size grows.
LEMMA SyncWritePatches ==
  ASSUME SyncInv, SolidInv', faults' = 0, WritePatches
  PROVE  AllInOrder'
<1>1. /\ Before /\ pc = "wr"
      /\ c' = [c EXCEPT !.off = c.off + Chunk, !.left = c.left - Chunk, !.fresh = FALSE]
      /\ IF Chunk = c.left
         THEN /\ \E n : inodes' = [inodes EXCEPT ![c.ino].size = n]
              /\ pc' = "wr_inode"
         ELSE UNCHANGED <<inodes, pc>>
      /\ UNCHANGED <<mounted, inode_bitmap, block_bitmap>>
      /\ UNCHANGED <<d_super, d_inode_bitmap, d_block_bitmap, d_inodes, crashes>>
  <2>1. Before /\ Succeeds
    BY BeforeStep DEF WritePatches
  <2>2. faults' # faults + 1
    BY <2>1 DEF Before, Succeeds, TypeInv, TypeOK, BudgetType
  <2> HIDE DEF Chunk, Slot
  <2> QED BY <2>1, <2>2 DEF WritePatches, Fails
<1>2. /\ mounted /\ c.ino \in Inodes /\ c.left > 0 /\ c.left \in Nat /\ c.off \in Nat
      /\ inodes[c.ino].type = "file"
  BY <1>1, WriteStep DEF WritePcs
<1>3. /\ c'.op = c.op /\ c'.dir = c.dir /\ c'.ino = c.ino /\ c'.ok = c.ok /\ c'.blk = c.blk
      /\ c'.left = c.left - Chunk
  BY <1>1 DEF Before, Frame
<1>4. Chunk \in Nat /\ Chunk <= c.left
  BY <1>2, ChunkBounds
<1> HIDE DEF Chunk
<1>5. /\ \A j \in Inodes : j # c.ino => inodes'[j] = inodes[j]
      /\ inodes'[c.ino].type = inodes[c.ino].type
      /\ inodes'[c.ino].parent = inodes[c.ino].parent
      /\ inodes'[c.ino].direct = inodes[c.ino].direct
  <2>1. inodes \in [Inodes -> Inode]
    BY <1>1 DEF Before
  <2>2. CASE inodes' = inodes
    BY <2>2
  <2>3. CASE \E n : inodes' = [inodes EXCEPT ![c.ino].size = n]
    BY <1>2, <2>1, <2>3, ResizeFields, RepointParent
  <2> QED BY <1>1, <2>2, <2>3
<1>6. pc' \in {"wr", "wr_inode"} /\ (pc' = "wr" => Chunk # c.left)
  BY <1>1
<1>7. Booting'
  BY <1>1, <1>2, <1>6 DEF Before, AllInOrder, Booting, FormatPcs
<1>8. Bitmaps'
  BY <1>1, <1>6 DEF Before, AllInOrder, Bitmaps, FreePcs
<1>9. Table'
  BY <1>1, <1>3, <1>5, <1>6
     DEF Before, AllInOrder, Table, Changed, Reborn, Writing, Truncating, WritePcs, Roomy
<1>10. Taken'
  BY <1>1, <1>5 DEF Before, AllInOrder, Taken
<1>11. Directories'
  BY <1>1, <1>2, <1>5 DEF Before, AllInOrder, Directories, Covered, CoveredTo
<1>12. Appending' /\ Locals'
  BY <1>1, <1>2, <1>3, <1>4, <1>6 DEF Before, AllInOrder, Appending, Locals
<1>13. Roomy => Counted'
  <2>1. \A i \in Inodes : inodes'[i].direct = inodes[i].direct
    BY <1>5
  <2>2. Held(inodes', inode_bitmap') = Held(inodes, inode_bitmap)
    BY <1>1, <2>1 DEF Held, Before
  <2> QED BY <1>1, <1>2, <1>3, <2>2, StillCounted DEF Before, AllInOrder, Counted
<1> QED BY <1>7, <1>8, <1>9, <1>10, <1>11, <1>12, <1>13 DEF AllInOrder, Roomy

\* The file reaches the disk.
LEMMA SyncWriteInode ==
  ASSUME SyncInv, SolidInv', faults' = 0, WriteInode
  PROVE  AllInOrder'
<1>1. /\ Before /\ pc = "wr_inode" /\ pc' = "ret" /\ c' = [c EXCEPT !.ret = TRUE]
      /\ luxfs_flush_inode(c.ino)
      /\ UNCHANGED <<mem, d_super, d_inode_bitmap, d_block_bitmap, crashes>>
  <2>1. Before /\ Succeeds
    BY BeforeStep DEF WriteInode
  <2>2. faults' # faults + 1
    BY <2>1 DEF Before, Succeeds, TypeInv, TypeOK, BudgetType
  <2> QED BY <2>1, <2>2 DEF WriteInode, Fails, Return
<1>2. mounted /\ c.ino \in Inodes
  BY <1>1, WriteStep DEF WritePcs
<1>3. c'.ok = c.ok /\ c'.blk = c.blk
  BY <1>1 DEF Before, Frame
<1>4. /\ d_inodes'[c.ino] = inodes[c.ino]
      /\ \A i \in Inodes : d_inodes'[i] = inodes[i] \/ d_inodes'[i] = d_inodes[i]
  BY <1>1, <1>2, FlushWrites
<1> USE DEF mem
<1>5. Booting'
  BY <1>1, <1>2 DEF Before, AllInOrder, Booting, FormatPcs
<1>6. Bitmaps'
  BY <1>1 DEF Before, AllInOrder, Bitmaps, FreePcs
<1>7. Table'
  BY <1>1, <1>4
     DEF Before, AllInOrder, Table, Changed, Reborn, Writing, Truncating, WritePcs, Roomy
<1>8. Taken'
  BY <1>1, <1>2, <1>4 DEF Before, AllInOrder, Taken, Bitmaps, FreePcs
<1>9. Directories'
  BY <1>1, <1>4 DEF Before, AllInOrder, Directories, Covered, CoveredTo
<1>10. Appending' /\ Locals'
  BY <1>1, <1>3 DEF Before, AllInOrder, Appending, Locals
<1>11. Roomy => Counted'
  BY <1>1, <1>2, <1>3 DEF Before, AllInOrder, Counted, Held
<1> QED BY <1>5, <1>6, <1>7, <1>8, <1>9, <1>10, <1>11 DEF AllInOrder, Roomy

\* The caller has its result.
LEMMA SyncReturns ==
  ASSUME SyncInv, SolidInv', faults' = 0, Returns
  PROVE  AllInOrder'
<1>1. Before /\ pc = "ret" /\ pc' = "idle" /\ c' = NoCall /\ UNCHANGED <<mem, disk, crashes>>
  BY BeforeStep DEF Returns, Succeeds
<1>2. c'.ok /\ c'.blk = INVALID
  BY <1>1 DEF NoCall
<1>3. \A i \in Inodes : ~Changed(i)
  BY <1>1 DEF Changed, Reborn, Writing, Truncating, WritePcs
<1> QED BY <1>1, <1>2, <1>3, SyncQuiet DEF FreePcs, FormatPcs

-----------------------------------------------------------------------------
(* Booting, formatting, and losing power.                                  *)

\* A mount finds no device, loads what the disk has, or finds a blank disk.
LEMMA SyncMount ==
  ASSUME SyncInv, SolidInv', faults' = 0, fs_mount
  PROVE  AllInOrder'
<1>1. /\ Before /\ Succeeds /\ pc = "off" /\ ~mounted /\ c = NoCall /\ c' = c
      /\ UNCHANGED <<disk, crashes>>
  <2>1. Before /\ Succeeds
    BY BeforeStep DEF fs_mount
  <2> QED BY <2>1 DEF fs_mount, Before, TypeInv, CallOK, AllInOrder, Booting
<1>2. c.ok /\ c.blk = INVALID
  BY <1>1 DEF NoCall
<1> USE DEF disk
<1>3. CASE pc' = "idle" /\ UNCHANGED mem
  BY <1>1, <1>2, <1>3 DEF mem, Before, AllInOrder, Booting, FormatPcs, Bitmaps, Table, Taken,
     Directories, Covered, CoveredTo, Appending, Locals, Counted, Held
<1>4. CASE /\ d_super /\ inodes' = d_inodes /\ inode_bitmap' = d_inode_bitmap
           /\ block_bitmap' = d_block_bitmap /\ mounted' /\ pc' = "idle"
  <2>1. Booting' /\ Bitmaps'
    BY <1>1, <1>4 DEF Before, AllInOrder, Booting, FormatPcs, Bitmaps, FreePcs
  <2>2. Table' /\ Taken'
    BY <1>1, <1>4 DEF Before, AllInOrder, Table, Taken
  <2>3. Directories'
    BY <1>1, <1>4 DEF Before, AllInOrder, Directories, Covered, CoveredTo
  <2>4. Appending' /\ Locals'
    BY <1>1, <1>2, <1>4 DEF Appending, Locals
  <2>5. Roomy => Counted'
    BY <1>1, <1>4 DEF Before, AllInOrder, Counted, Held
  <2> QED BY <2>1, <2>2, <2>3, <2>4, <2>5 DEF AllInOrder, Roomy
<1>5. CASE ~d_super /\ FormatImage /\ pc' = "fmt_super" /\ UNCHANGED mounted
  <2>1. /\ inodes' = [[i \in Inodes |-> luxfs_inode_clear] EXCEPT ![Root].type = "dir"]
        /\ inode_bitmap' = {Root} /\ block_bitmap' = {}
    BY <1>5 DEF FormatImage
  <2>2. \A i \in Inodes : inodes'[i].size = 0 /\ (inodes'[i].type # "free" => i = Root)
    BY <2>1, Ranges DEF luxfs_inode_clear, Root
  <2>3. Booting'
    <3>1. \A i \in Inodes : d_inodes[i].type = "free"
      BY <1>1, <1>5 DEF Before, AllInOrder, Booting, ZeroInode
    <3> QED BY <1>1, <1>5, <2>1, <2>2, <3>1 DEF Before, AllInOrder, Booting
  <2>4. Bitmaps' /\ Table' /\ Taken'
    BY <1>1, <1>5 DEF Before, AllInOrder, Bitmaps, Table, Taken
  <2>5. Directories'
    <3>1. \A i \in Inodes : Covered(inodes'[i])
      BY <2>2, CoveredNone DEF Covered
    <3> QED BY <1>1, <3>1 DEF Before, AllInOrder, Directories
  <2>6. Appending' /\ Locals'
    BY <1>1, <1>2, <1>5 DEF Appending, Locals
  <2>7. Roomy => Counted'
    BY <1>1, <1>5 DEF Before, AllInOrder, Counted, Held
  <2> QED BY <2>3, <2>4, <2>5, <2>6, <2>7 DEF AllInOrder, Roomy
<1>6. faults' # faults + 1
  BY <1>1 DEF Before, Succeeds, TypeInv, TypeOK, BudgetType
<1> QED BY <1>3, <1>4, <1>5, <1>6 DEF fs_mount, Fails

\* The superblock, the bitmaps and the sectors of the table, one by one.
LEMMA SyncFormat ==
  ASSUME SyncInv, SolidInv', faults' = 0, luxfs_format
  PROVE  AllInOrder'
<1>1. /\ Before /\ Succeeds /\ pc \in FormatPcs /\ ~mounted /\ faults' # faults + 1
      /\ UNCHANGED <<inodes, inode_bitmap, block_bitmap, crashes>>
  <2>1. Before /\ Succeeds
    BY BeforeStep DEF luxfs_format, FormatSuperblock, FormatInodeBitmap, FormatBlockBitmap,
       FormatInodeTable, FormatFails
  <2>2. faults' # faults + 1
    BY <2>1 DEF Before, Succeeds, TypeInv, TypeOK, BudgetType
  <2>3. pc \in FormatPcs /\ UNCHANGED <<inodes, inode_bitmap, block_bitmap, crashes>>
    BY DEF luxfs_format, FormatSuperblock, FormatInodeBitmap, FormatBlockBitmap,
       FormatInodeTable, FormatFails, FormatPcs, mem
  <2> QED BY <2>1, <2>2, <2>3 DEF Before, TypeInv, CallOK
<1>2. ~FormatFails
  BY <1>1 DEF FormatFails, Fails
<1>3. /\ block_bitmap = {} /\ d_block_bitmap = {} /\ inode_bitmap = {Root}
      /\ \A i \in Inodes : inodes[i].size = 0 /\ (inodes[i].type # "free" => i = Root)
  BY <1>1 DEF Before, AllInOrder, Booting
<1>4. CASE FormatSuperblock
  BY <1>1, <1>4 DEF FormatSuperblock, Goto, luxfs_flush_superblock, mem, Before, AllInOrder,
     Booting, FormatPcs, Bitmaps, Table, Taken, Directories, Covered, CoveredTo, Appending,
     Locals, Counted, Held
<1>5. CASE FormatInodeBitmap
  <2>1. /\ pc = "fmt_ibm" /\ pc' = "fmt_bbm" /\ c' = c /\ d_inode_bitmap' = {Root}
        /\ UNCHANGED <<mounted, d_super, d_block_bitmap, d_inodes>>
    BY <1>3, <1>5 DEF FormatInodeBitmap, Goto, luxfs_flush_inode_bitmap, mem
  <2>2. d_super /\ c = NoCall /\ \A i \in Inodes : d_inodes[i].type = "free"
    BY <1>1, <2>1 DEF Before, AllInOrder, Booting, FormatPcs
  <2>3. Booting'
    BY <1>1, <1>3, <2>1, <2>2 DEF Before, AllInOrder, Booting, FormatPcs
  <2>4. Bitmaps' /\ Table' /\ Taken'
    BY <1>1, <2>1, <2>2 DEF Before, AllInOrder, Bitmaps, Table, Taken
  <2>5. Directories' /\ Appending' /\ Locals'
    BY <1>1, <2>1, <2>2 DEF Before, AllInOrder, Directories, Covered, CoveredTo, Appending,
       Locals, NoCall
  <2>6. Roomy => Counted'
    BY <1>1, <1>3, <2>1 DEF Before, AllInOrder, Counted, Held
  <2> QED BY <2>3, <2>4, <2>5, <2>6 DEF AllInOrder, Roomy
<1>6. CASE FormatBlockBitmap
  <2>1. /\ pc = "fmt_bbm" /\ pc' = "fmt_itab" /\ c' = c /\ d_block_bitmap' = {}
        /\ UNCHANGED <<mounted, d_super, d_inode_bitmap, d_inodes>>
    BY <1>3, <1>6 DEF FormatBlockBitmap, Goto, luxfs_flush_block_bitmap, mem
  <2>2. Booting'
    <3>1. c.off = 0
      BY <1>1, <2>1 DEF Before, AllInOrder, Booting, NoCall
    <3>2. \A i \in Inodes : ~(i \div InodesPerBlock < 0)
      <4>1. \A i \in Inodes : i \div InodesPerBlock \in Nat
        BY Ranges, DivFacts, SizeAssumption
      <4> QED BY <4>1
    <3> QED BY <1>1, <1>3, <2>1, <3>1, <3>2 DEF Before, AllInOrder, Booting, FormatPcs
  <2> QED BY <1>1, <2>1, <2>2 DEF Before, AllInOrder,
     Bitmaps, Table, Taken, Directories, Covered, CoveredTo, Appending, Locals, Counted, Held
<1>7. CASE FormatInodeTable
  <2>1. /\ pc = "fmt_itab" /\ luxfs_flush_inode_block(c.off)
        /\ UNCHANGED <<d_super, d_inode_bitmap, d_block_bitmap>>
    BY <1>7 DEF FormatInodeTable
  <2>2. /\ d_inode_bitmap = {Root} /\ d_super
        /\ \A i \in Inodes : i \div InodesPerBlock < c.off => d_inodes[i] = inodes[i]
    <3>1. d_inode_bitmap = {Root}
      BY <1>1, <2>1 DEF Before, AllInOrder, Booting
    <3>2. d_super
      BY <1>1, <3>1 DEF Before, AllInOrder, Booting
    <3> QED BY <1>1, <2>1, <3>1, <3>2 DEF Before, AllInOrder, Booting
  <2>3. \A i \in Inodes : /\ i \div InodesPerBlock < c.off \/ i \div InodesPerBlock = c.off
                             => d_inodes'[i] = inodes[i]
                          /\ d_inodes'[i] = inodes[i] \/ d_inodes'[i] = d_inodes[i]
    BY <2>1, <2>2 DEF luxfs_flush_inode_block
  <2>4. Taken' /\ Directories'
    <3>1. \A i \in Inodes : d_inodes'[i].type # "free" => i = Root
      BY <1>1, <1>3, <2>2, <2>3 DEF Before, AllInOrder, Taken
    <3>2. \A i \in Inodes : Covered(inodes[i]) /\ Covered(d_inodes[i])
      BY <1>1 DEF Before, AllInOrder, Directories, FormatPcs
    <3>3. \A i \in Inodes : Covered(d_inodes'[i])
      BY <2>3, <3>2
    <3>4. Directories'
      BY <1>1, <3>2, <3>3 DEF Directories
    <3> QED BY <1>1, <1>3, <2>1, <2>2, <3>1, <3>4 DEF Taken
  <2>5. \A i \in Inodes : i \div InodesPerBlock \in Nat
    BY Ranges, DivFacts, SizeAssumption
  <2>6. CASE c.off = (MaxInodes - 1) \div InodesPerBlock
    <3>1. mounted' /\ pc' = "idle" /\ c' = NoCall
      BY <1>7, <2>6 DEF FormatInodeTable
    <3>2. \A i \in Inodes : d_inodes'[i] = inodes[i]
      <4> SUFFICES ASSUME NEW i \in Inodes PROVE d_inodes'[i] = inodes[i]
        OBVIOUS
      <4>1. i \in Nat /\ MaxInodes - 1 \in Nat /\ i <= MaxInodes - 1
        BY SizeAssumption DEF Inodes
      <4>2. i \div InodesPerBlock <= c.off
        BY <2>6, <4>1, Monotone, SizeAssumption
      <4>3. c.off \in Nat
        BY <1>1 DEF Before, Frame
      <4> QED BY <2>3, <2>5, <4>2, <4>3
    <3>3. Booting' /\ Bitmaps'
      BY <1>1, <1>3, <2>1, <2>2, <3>1 DEF Booting, FormatPcs, Bitmaps, FreePcs
    <3>4. Table'
      BY <1>1, <3>2 DEF Table
    <3>5. Appending' /\ Locals'
      BY <3>1 DEF Appending, Locals, NoCall
    <3>6. Roomy => Counted'
      BY <1>1, <1>3, <3>1 DEF Before, AllInOrder, Counted
    <3> QED BY <2>4, <3>3, <3>4, <3>5, <3>6 DEF AllInOrder, Roomy
  <2>7. CASE c.off # (MaxInodes - 1) \div InodesPerBlock
    <3>1. mounted' = mounted /\ pc' = pc /\ c' = [c EXCEPT !.off = c.off + 1]
      BY <1>7, <2>7 DEF FormatInodeTable
    <3>2. c'.off = c.off + 1 /\ c'.ok = c.ok /\ c'.blk = c.blk /\ c.off \in Nat
      BY <1>1, <3>1 DEF Before, Frame
    <3>3. \A i \in Inodes : i \div InodesPerBlock < c'.off => d_inodes'[i] = inodes[i]
      BY <2>3, <2>5, <3>2
    <3>4. Booting'
      BY <1>1, <1>3, <2>1, <2>2, <3>1, <3>3 DEF Booting, FormatPcs
    <3>5. Bitmaps' /\ Table'
      BY <1>1, <3>1 DEF Bitmaps, Table
    <3>6. Appending' /\ Locals'
      BY <1>1, <2>1, <3>1, <3>2 DEF Before, AllInOrder, Appending, Locals
    <3>7. Roomy => Counted'
      BY <1>1, <1>3, <2>1, <3>1 DEF Before, AllInOrder, Counted
    <3> QED BY <2>4, <3>4, <3>5, <3>6, <3>7 DEF AllInOrder, Roomy
  <2> QED BY <2>6, <2>7
<1> QED BY <1>2, <1>4, <1>5, <1>6, <1>7 DEF luxfs_format

\* Power lost inside a call leaves at most the blocks of one inode marked
\* with nobody to have them: the ones of the inode that was not flushed.
LEMMA LostByCrash ==
  ASSUME Before, Roomy, mounted, pc \in CreatePcs \cup FreePcs \cup WritePcs \cup {"rl"}
  PROVE  \E lost \in SUBSET Blocks :
           /\ Cardinality(lost) <= (crashes + 1) * DirectBlocks
           /\ d_block_bitmap \subseteq Held(d_inodes, d_inode_bitmap) \cup lost
<1>1. PICK lost \in SUBSET Blocks :
        /\ Cardinality(lost) <= crashes * DirectBlocks
        /\ block_bitmap \subseteq Held(inodes, inode_bitmap) \cup {c.blk} \cup lost
  BY DEF Before, AllInOrder, Counted
<1>2. PICK w \in Inodes :
        /\ \A i \in Inodes : i # w => /\ d_inodes[i] = inodes[i]
                                      /\ i \in inode_bitmap => i \in d_inode_bitmap
        /\ c.blk # INVALID => Slot \in Slots /\ inodes[w].direct[Slot] = INVALID
  <2>1. CASE pc \in {"ap", "ap_bitmap", "ap_zero", "ap_inode"}
    <3>1. c.dir \in Inodes
      BY <2>1 DEF Before, TypeInv, CallOK, CreatePcs
    <3>2. \A i \in Inodes : i # c.dir => ~Changed(i)
      BY <2>1 DEF Changed, Reborn, Writing, Truncating, WritePcs
    <3>3. d_inode_bitmap = inode_bitmap
      BY <2>1 DEF Before, AllInOrder, Bitmaps
    <3>4. c.blk # INVALID => Slot \in Slots /\ inodes[c.dir].direct[Slot] = INVALID
      BY <2>1 DEF Before, AllInOrder, Appending, Locals
    <3> HIDE DEF Changed
    <3>5. \A i \in Inodes : i # c.dir => d_inodes[i] = inodes[i]
      BY <3>2 DEF Before, AllInOrder, Table
    <3> QED BY <3>1, <3>3, <3>4, <3>5
  <2>2. CASE pc \notin {"ap", "ap_bitmap", "ap_zero", "ap_inode"}
    <3>1. c.ino \in Inodes
      BY <2>2 DEF Before, TypeInv, CallOK
    <3>2. \A i \in Inodes : i # c.ino => ~Changed(i)
      BY <2>2 DEF Changed, Reborn, Writing, Truncating
    <3>3. \A i \in inode_bitmap : i # c.ino => i \in d_inode_bitmap
      BY DEF Before, AllInOrder, Bitmaps, FreePcs
    <3>4. c.blk # INVALID => Slot \in Slots /\ inodes[c.ino].direct[Slot] = INVALID
      <4> SUFFICES ASSUME c.blk # INVALID
                   PROVE  Slot \in Slots /\ inodes[c.ino].direct[Slot] = INVALID
        OBVIOUS
      <4>1. pc = "wr_bitmap" /\ inodes[c.ino].direct[Slot] = INVALID
        BY <2>2 DEF Before, AllInOrder, Locals
      <4> QED BY <4>1, WriteStep DEF WritePcs
    <3> HIDE DEF Changed
    <3>5. \A i \in Inodes : i # c.ino => d_inodes[i] = inodes[i]
      BY <3>2 DEF Before, AllInOrder, Table
    <3> QED BY <3>1, <3>3, <3>4, <3>5
  <2> QED BY <2>1, <2>2
<1> DEFINE g == [k \in Slots |-> IF k = Slot /\ c.blk # INVALID THEN c.blk
                                 ELSE inodes[w].direct[k]]
           G == {g[k] : k \in Slots}
           more == lost \cup (G \cap Blocks)
<1>3. IsFiniteSet(G) /\ Cardinality(G) <= DirectBlocks
  <2>1. g = [k \in Slots |-> g[k]]
    OBVIOUS
  <2> HIDE DEF g
  <2> QED BY <2>1, Counts, ImageBound
<1>4. Cardinality(more) <= (crashes + 1) * DirectBlocks
  <2>1. IsFiniteSet(lost)
    BY Counts, FS_Subset
  <2>2. IsFiniteSet(G \cap Blocks) /\ Cardinality(G \cap Blocks) <= Cardinality(G)
    BY <1>3, FS_Intersection
  <2>3. /\ Cardinality(more) <= Cardinality(lost) + Cardinality(G \cap Blocks)
        /\ Cardinality(more) \in Nat /\ Cardinality(lost) \in Nat
        /\ Cardinality(G \cap Blocks) \in Nat
    <3> HIDE DEF G
    <3> QED BY <2>1, <2>2, UnionBound
  <2>4. Cardinality(G) \in Nat
    BY <1>3, FS_CardinalityType
  <2> HIDE DEF G, more
  <2>5. PICK x \in Nat, d \in Nat : x = crashes /\ d = DirectBlocks
    BY SizeAssumption DEF Before
  <2>6. (x + 1) * d = x * d + d /\ x * d \in Nat
    OBVIOUS
  <2>7. Cardinality(lost) <= x * d /\ Cardinality(G) <= d
    BY <1>1, <1>3, <2>5
  <2>8. Cardinality(more) <= x * d + d
    BY <2>2, <2>3, <2>4, <2>6, <2>7
  <2> QED BY <2>5, <2>6, <2>8
<1>5. d_block_bitmap \subseteq Held(d_inodes, d_inode_bitmap) \cup more
  <2> SUFFICES ASSUME NEW b \in d_block_bitmap, b \notin lost,
                      b \notin Held(d_inodes, d_inode_bitmap)
               PROVE  b \in G \cap Blocks
    OBVIOUS
  <2>1. b \in block_bitmap /\ b \in Blocks /\ b # INVALID
    BY Ranges DEF Before, AllInOrder, Bitmaps
  <2>2. CASE b = c.blk
    <3>1. Slot \in Slots /\ g[Slot] = b
      BY <1>2, <2>1, <2>2
    <3> QED BY <2>1, <3>1
  <2>3. CASE b \in Held(inodes, inode_bitmap)
    <3>1. PICK i \in inode_bitmap, k \in Slots : b = inodes[i].direct[k]
      BY <2>3 DEF Held
    <3>2. i = w
      <4> SUFFICES ASSUME i # w PROVE FALSE
        OBVIOUS
      <4>1. i \in Inodes
        BY DEF Before
      <4>2. b = d_inodes[i].direct[k] /\ i \in d_inode_bitmap
        BY <1>2, <3>1, <4>1
      <4> QED BY <3>1, <4>2 DEF Held
    <3>3. g[k] = b
      BY <1>2, <2>1, <3>1, <3>2
    <3> QED BY <2>1, <3>1, <3>3
  <2> QED BY <1>1, <2>1, <2>2, <2>3
<1> HIDE DEF g
<1>6. more \in SUBSET Blocks
  OBVIOUS
<1> QED BY <1>4, <1>5, <1>6

\* The disk stays as it is.
LEMMA SyncPower ==
  ASSUME SyncInv, SolidInv', faults' = 0, shutdown \/ Crash
  PROVE  AllInOrder'
<1>1. /\ Before /\ UNCHANGED disk /\ ~mounted' /\ pc' = "off" /\ c' = NoCall
      /\ inodes' = [i \in Inodes |-> ZeroInode]
      /\ \/ pc = "idle" /\ crashes' = crashes
         \/ pc \notin {"off", "idle", "ret"} /\ crashes' = crashes + 1
  <2>1. LosePower /\ (\/ pc = "idle" /\ crashes' = crashes
                      \/ pc \notin {"off", "idle", "ret"} /\ crashes' = crashes + 1)
    BY DEF shutdown, Crash
  <2>2. Succeeds
    BY <2>1 DEF LosePower, Succeeds
  <2> QED BY <2>1, <2>2, BeforeStep DEF LosePower
<1> USE DEF disk
<1>2. Booting'
  BY <1>1 DEF Before, AllInOrder, Booting, FormatPcs
<1>3. Bitmaps' /\ Table' /\ Taken'
  BY <1>1 DEF Before, AllInOrder, Bitmaps, Table, Taken
<1>4. Directories'
  <2>1. ZeroInode.type = "free"
    BY DEF ZeroInode
  <2>2. \A i \in Inodes : Covered(inodes'[i])
    BY <1>1, <2>1 DEF Covered
  <2> QED BY <1>1, <2>2 DEF Before, AllInOrder, Directories
<1>5. Appending' /\ Locals'
  BY <1>1 DEF Appending, Locals, NoCall
<1>6. Roomy => Counted'
  <2> SUFFICES ASSUME Roomy PROVE Counted'
    OBVIOUS
  <2> SUFFICES \E lost \in SUBSET Blocks :
                 /\ Cardinality(lost) <= crashes' * DirectBlocks
                 /\ d_block_bitmap \subseteq Held(d_inodes, d_inode_bitmap) \cup lost
    BY <1>1 DEF Counted, Held
  <2>1. PICK lost \in SUBSET Blocks :
          /\ Cardinality(lost) <= crashes * DirectBlocks
          /\ IF mounted
             THEN block_bitmap \subseteq Held(inodes, inode_bitmap) \cup {c.blk} \cup lost
             ELSE d_block_bitmap \subseteq Held(d_inodes, d_inode_bitmap) \cup lost
    BY <1>1 DEF Before, AllInOrder, Counted
  <2>2. Cardinality(lost) <= crashes' * DirectBlocks
    <3>1. PICK x \in Nat, d \in Nat, y \in Nat :
            x = crashes /\ d = DirectBlocks /\ y = crashes' /\ (y = x \/ y = x + 1)
      <4>1. crashes \in Nat /\ DirectBlocks \in Nat
        BY <1>1, SizeAssumption DEF Before, TypeInv, TypeOK, BudgetType
      <4>2. crashes' \in Nat /\ (crashes' = crashes \/ crashes' = crashes + 1)
        BY <1>1, <4>1
      <4> QED BY <4>1, <4>2
    <3>2. x * d <= y * d
      <4>1. (x + 1) * d = x * d + d /\ x * d \in Nat
        OBVIOUS
      <4>2. CASE y = x
        BY <4>1, <4>2
      <4>3. CASE y = x + 1
        BY <4>1, <4>3
      <4> QED BY <3>1, <4>2, <4>3
    <3>3. IsFiniteSet(lost)
      BY Counts, FS_Subset
    <3>4. Cardinality(lost) \in Nat /\ x * d \in Nat /\ y * d \in Nat
      BY <3>3, FS_CardinalityType
    <3> QED BY <2>1, <3>1, <3>2, <3>4
  <2>3. CASE ~mounted
    BY <2>1, <2>2, <2>3
  <2>4. CASE mounted /\ pc = "idle"
    <3>1. \A i \in Inodes : ~Changed(i)
      BY <2>4 DEF Changed, Reborn, Writing, Truncating, WritePcs
    <3>2. d_inode_bitmap = inode_bitmap /\ d_block_bitmap = block_bitmap /\ c.blk = INVALID
      BY <1>1, <2>4 DEF Before, AllInOrder, Bitmaps, Locals
    <3> HIDE DEF Changed
    <3>3. \A i \in Inodes : d_inodes[i] = inodes[i]
      BY <1>1, <2>4, <3>1 DEF Before, AllInOrder, Table
    <3>4. Held(d_inodes, d_inode_bitmap) = Held(inodes, inode_bitmap)
      BY <1>1, <3>2, <3>3 DEF Held, Before
    <3>5. \A b \in block_bitmap : b # INVALID
      BY <1>1, Ranges DEF Before
    <3> QED BY <2>1, <2>2, <2>4, <3>2, <3>4, <3>5
  <2>5. CASE mounted /\ pc # "idle"
    <3>1. pc \in CreatePcs \cup FreePcs \cup WritePcs \cup {"rl"}
      BY <1>1, <2>5 DEF Before, TypeInv, CallOK, Pcs, CreatePcs, FreePcs, WritePcs, FormatPcs
    <3> QED BY <1>1, <2>5, <3>1, LostByCrash
  <2> QED BY <2>3, <2>4, <2>5
<1> QED BY <1>2, <1>3, <1>4, <1>5, <1>6 DEF AllInOrder, Roomy

-----------------------------------------------------------------------------
(* The invariant, and the theorem.                                         *)

\* A blank disk, before the first boot.
LEMMA SyncInit == Init => SyncInv
<1> SUFFICES ASSUME Init PROVE SyncInv
  OBVIOUS
<1>1. SolidInv
  BY SolidInit
<1>2. Booting /\ Bitmaps /\ Table
  BY DEF Init, Booting, FormatPcs, Bitmaps, Table
<1>3. Taken /\ Directories
  BY DEF Init, Taken, Directories, Covered, ZeroInode
<1>4. Appending /\ Locals
  BY DEF Init, Appending, Locals, NoCall
<1>5. Counted
  <2>1. d_block_bitmap = {} /\ ~mounted /\ crashes = 0
    BY DEF Init
  <2>2. Cardinality({}) = 0 /\ 0 * DirectBlocks = 0
    BY FS_EmptySet, SizeAssumption
  <2>3. {} \in SUBSET Blocks
    OBVIOUS
  <2> QED BY <2>1, <2>2, <2>3 DEF Counted
<1> QED BY <1>1, <1>2, <1>3, <1>4, <1>5 DEF SyncInv, AllInOrder

\* Every step keeps it.
LEMMA SyncNext ==
  ASSUME RecordSize <= SectorSize, SyncInv, Next
  PROVE  SyncInv'
<1>1. SolidInv'
  BY SolidNext DEF SyncInv
<1> SUFFICES ASSUME faults' = 0 PROVE AllInOrder'
  BY <1>1 DEF SyncInv
<1>2. CASE fs_mount \/ shutdown \/ Crash \/ luxfs_format
  BY <1>1, <1>2, SyncMount, SyncPower, SyncFormat
<1>3. CASE \E path \in Paths : fs_touch(path) \/ fs_mkdir(path)
  <2>1. PICK op \in {"touch", "mkdir"}, type \in {"file", "dir"} : Begins(op, type)
    BY <1>3, TouchBegins, MkdirBegins
  <2> QED BY <1>1, <2>1, SyncCreate
<1>4. CASE \E path \in Paths, off \in Offsets, len \in Lengths, v \in Values, t \in BOOLEAN :
             fs_write(path, off, len, v, t)
  BY <1>1, <1>4, SyncWriteCall
<1>5. CASE AllocInodeBitmap \/ AllocInodeFlush \/ luxfs_dir_append_record
  BY <1>1, <1>5, SyncAllocBitmap, SyncAllocInode, SyncRefused, SyncAppendAllocates,
     SyncAppendBitmap, SyncAppendZeroes, SyncAppendPatches, SyncAppendInode
     DEF luxfs_dir_append_record
<1>6. CASE ReleaseBlock \/ ReleasedForWrite \/ luxfs_mark_inode_free
  BY <1>1, <1>6, SyncRelease, SyncReleasedForWrite, SyncReleasedForFree, SyncFreeFlush,
     SyncFreeBitmap DEF luxfs_mark_inode_free
<1>7. CASE WriteNoSpace \/ WriteAllocates \/ WriteBlockBitmap \/ WritePatches \/ WriteInode
           \/ Returns
  BY <1>1, <1>7, SyncNoSpace, SyncWriteAllocates, SyncWriteBitmap, SyncWritePatches,
     SyncWriteInode, SyncReturns
<1> QED BY <1>2, <1>3, <1>4, <1>5, <1>6, <1>7 DEF Next, Call, Running

\* Steps that change nothing keep the disk in step with memory.
LEMMA SyncStutter ==
  ASSUME SyncInv, UNCHANGED vars
  PROVE  SyncInv'
<1> USE DEF vars, mem, disk
<1>1. SolidInv'
  BY DEF SyncInv, SolidInv, TypeInv, TypeOK, FlagType, MemType, DiskType, CallType, BudgetType,
     CallOK, MemSolid, DiskSolid, WriteOK, Writing, Truncating, CreateOK, BlockOK
<1>2. faults = 0 => Booting' /\ Bitmaps' /\ Table' /\ Taken'
  BY DEF SyncInv, AllInOrder, Booting, Bitmaps, Table, Changed, Reborn, Writing, Truncating,
     Taken
<1>3. faults = 0 => Directories' /\ Appending' /\ Locals' /\ (Roomy => Counted)'
  BY DEF SyncInv, AllInOrder, Directories, Covered, CoveredTo, Appending, Slot, At, Chunk,
     Locals, Counted, Held, Roomy
<1> QED BY <1>1, <1>2, <1>3 DEF SyncInv, AllInOrder

\* As long as no sector access fails, the disk has between calls what memory
\* has, on a volume of any geometry whose sectors hold a record, after any
\* calls, power losses and reboots that have not torn it: shutdown needs no
\* sync. Only the file of a fs_write that ran out of blocks can differ, and on a volume
\* with room for all files none does, however often the power goes.
THEOREM DiskIsSynced ==
  ASSUME RecordSize <= SectorSize
  PROVE  Spec => []Synced
<1>2. SyncInv /\ [Next]_vars => SyncInv'
  BY SyncStutter, SyncNext
<1>3. SyncInv => Synced
  <2> SUFFICES ASSUME SyncInv, pc = "idle", mounted, ~torn, faults = 0 PROVE Synced
    BY DEF Synced
  <2>1. Bitmaps /\ Table
    BY DEF SyncInv, AllInOrder
  <2>2. d_inode_bitmap = inode_bitmap /\ d_block_bitmap = block_bitmap
    BY <2>1 DEF Bitmaps
  <2>3. \A i \in Inodes : ~Changed(i) /\ ~Reborn(i)
    BY DEF Changed, Reborn, Writing, Truncating, WritePcs
  <2> HIDE DEF Changed, Reborn
  <2> QED BY <2>1, <2>2, <2>3 DEF Table, Synced
<1> QED BY SyncInit, <1>2, <1>3, PTL DEF Spec

-----------------------------------------------------------------------------
(* Records on disk, and what keeps them.                                   *)

\* A directory that holds records, and one that has all records of another.
Nonempty(node) == node.type = "dir" /\ node.size # 0
Grown(a, b) == /\ b.type = "dir" /\ a.size <= b.size
               /\ \A k \in Slots : a.direct[k] # INVALID => b.direct[k] = a.direct[k]

\* A fs_touch or fs_mkdir that has an inode and has not returned.
Creating == pc \in CreatePcs \cup FreePcs \/ (pc = "rl" /\ c.op # "write")

\* luxfs_alloc_inode takes the first free inode. An inode that something may
\* refer to, by a record or as a parent, need not be allocated (a create whose
\* directory could not be flushed leaves a record of the inode it gave back),
\* but every inode before it is: it is allocated or the next to be.
Within(x, S) == \A y \in Inodes : y < x => y \in S
Refs == {x \in Inodes : /\ mounted => Within(x, inode_bitmap)
                        /\ Within(x, d_inode_bitmap)
                        /\ Creating => x <= c.ino}

\* The records of directories, as far as they are written, and the parents.
Points(table, b) == \E i \in Inodes, k \in Slots :
                      table[i].type = "dir" /\ table[i].direct[k] = b
Named == \A b \in Blocks, u \in Units, x \in Inodes :
           /\ d_data[b][u] = <<"ino", x>>
           /\ Points(d_inodes, b) \/ (mounted /\ Points(inodes, b))
           => x \in Refs
Parents == \A j \in Inodes : /\ d_inodes[j].parent \in Refs
                             /\ mounted => inodes[j].parent \in Refs

\* A directory with records is allocated, and memory has the records of the
\* disk.
Marked == \A j \in Inodes :
            /\ Nonempty(d_inodes[j]) => j \in d_inode_bitmap
            /\ mounted /\ Nonempty(inodes[j]) => j \in inode_bitmap /\ j \in d_inode_bitmap
Grows == mounted => \A j \in Inodes :
           Nonempty(d_inodes[j]) => Grown(d_inodes[j], inodes[j])

\* What a create knows: nothing of its inode is on disk that it could lose,
\* the directory it appends to is allocated, and it writes behind the records.
NewInode ==
  /\ Creating => Within(c.ino, inode_bitmap) /\ ~Nonempty(d_inodes[c.ino])
  /\ pc \in {"ai_bitmap", "ai_inode"} \cup FreePcs => inodes[c.ino].size = 0
NewRecord ==
  /\ pc \in CreatePcs => c.dir \in inode_bitmap
  /\ pc \in CreatePcs \ {"ai_bitmap"} => c.dir \in d_inode_bitmap /\ Within(c.ino, d_inode_bitmap)
  /\ pc \in {"ap", "ap_bitmap", "ap_zero"} /\ inodes[c.dir].type = "dir" =>
       inodes[c.dir].size <= c.off
  /\ pc \in {"ap_bitmap", "ap_zero"} => Slot \in Slots /\ inodes[c.dir].direct[Slot] = INVALID

Kept == Named /\ Parents /\ Marked /\ Grows /\ NewInode /\ NewRecord

\* All of it holds until the volume is torn or being formatted.
KeptInv == ~torn /\ pc \notin FormatPcs \ {"fmt_super"} => Kept

\* What a step of a call on an intact volume starts from.
Intact == /\ TypeInv /\ WriteOK /\ mounted /\ Owned /\ Distinct(inodes) /\ Reserved /\ Kept
          /\ inodes \in [Inodes -> Inode] /\ d_inodes \in [Inodes -> Inode]
          /\ inode_bitmap \subseteq Inodes /\ d_inode_bitmap \subseteq Inodes
          /\ d_data \in [Blocks -> Sector] /\ c \in Frame /\ pc \in Pcs

\* A mounted volume is intact until it is torn.
LEMMA IntactStep ==
  ASSUME LinkInv, SolidInv, KeptInv, ~torn,
         mounted
  PROVE  Intact
<1>1. TypeInv /\ TypeOK /\ WriteOK
  BY DEF SolidInv, TypeInv
<1>2. pc \notin FormatPcs
  BY <1>1 DEF TypeInv, CallOK
<1>3. Owned /\ Distinct(inodes) /\ Reserved
  BY DEF LinkInv, MemLinks
<1> QED BY <1>1, <1>2, <1>3 DEF KeptInv, Intact, TypeOK, MemType, DiskType, CallType

-----------------------------------------------------------------------------
(* Facts about steps.                                                      *)

\* What may be referred to stays so while bits are only set and no other
\* create begins.
LEMMA RefsKept ==
  ASSUME mounted, mounted', UNCHANGED <<inode_bitmap, d_inode_bitmap>>,
         Creating' => Creating /\ c'.ino = c.ino
  PROVE  \A x \in Refs : x \in Refs'
BY DEF Refs, Within

\* A step that changes no inode, no bitmap of inodes and no data.
LEMMA QuietKeeps ==
  ASSUME Intact, UNCHANGED <<mounted, inodes, inode_bitmap, d_inode_bitmap, d_inodes, d_data>>,
         Creating' => Creating /\ c'.ino = c.ino, NewInode', NewRecord'
  PROVE  Kept'
<1>1. \A x \in Refs : x \in Refs'
  BY RefsKept DEF Intact
<1>2. Named'
  BY <1>1 DEF Intact, Kept, Named, Points
<1>3. Parents'
  BY <1>1 DEF Intact, Kept, Parents
<1>4. Marked' /\ Grows'
  BY DEF Intact, Kept, Marked, Grows, Grown, Nonempty
<1> QED BY <1>2, <1>3, <1>4 DEF Kept

\* A step that writes a sector of the table, from memory.
LEMMA FlushKeeps ==
  ASSUME Intact, UNCHANGED <<mounted, inodes, inode_bitmap, d_inode_bitmap, d_data>>,
         \A i \in Inodes : d_inodes'[i] = inodes[i] \/ d_inodes'[i] = d_inodes[i],
         Creating' => Creating /\ c'.ino = c.ino, NewInode', NewRecord'
  PROVE  Kept'
<1>1. \A x \in Refs : x \in Refs'
  BY RefsKept DEF Intact
<1>2. Named'
  <2>1. \A b \in Blocks : Points(d_inodes', b) => Points(d_inodes, b) \/ Points(inodes, b)
    BY DEF Points
  <2>2. \A b \in Blocks : Points(inodes', b) => Points(inodes, b)
    BY DEF Points
  <2>3. mounted /\ Named
    BY DEF Intact, Kept
  <2> HIDE DEF Refs
  <2> QED BY <1>1, <2>1, <2>2, <2>3 DEF Named, Points
<1>3. Parents'
  BY <1>1 DEF Intact, Kept, Parents
<1>4. Marked'
  BY DEF Intact, Kept, Marked
<1>5. Grows'
  <2> SUFFICES ASSUME NEW j \in Inodes, Nonempty(d_inodes'[j])
               PROVE  Grown(d_inodes'[j], inodes[j])
    BY DEF Grows
  <2>1. CASE d_inodes'[j] = inodes[j]
    BY <2>1 DEF Grown, Nonempty, Intact, Inode
  <2>2. CASE d_inodes'[j] = d_inodes[j]
    BY <2>2 DEF Intact, Kept, Grows
  <2> QED BY <2>1, <2>2
<1> QED BY <1>2, <1>3, <1>4, <1>5 DEF Kept

\* A step that changes one inode that no record of the disk depends on.
LEMMA TableKeeps ==
  ASSUME Intact, UNCHANGED <<mounted, inode_bitmap, d_inode_bitmap, d_inodes, d_data>>,
         NEW w \in Inodes, \A i \in Inodes : i # w => inodes'[i] = inodes[i],
         inodes'[w].parent = inodes[w].parent, inodes'[w].type = inodes[w].type,
         ~Nonempty(d_inodes[w]),
         inodes[w].type = "dir" =>
           /\ inodes'[w].size = inodes[w].size
           /\ \A k \in Slots : inodes'[w].direct[k] \in {inodes[w].direct[k], INVALID},
         Creating' => Creating /\ c'.ino = c.ino, NewInode', NewRecord'
  PROVE  Kept'
<1>1. \A x \in Refs : x \in Refs'
  BY RefsKept DEF Intact
<1>2. Named'
  <2>1. \A b \in Blocks : Points(inodes', b) => Points(inodes, b)
    BY Ranges DEF Points
  <2>2. \A b \in Blocks : Points(d_inodes', b) => Points(d_inodes, b)
    BY DEF Points
  <2>3. mounted /\ Named
    BY DEF Intact, Kept
  <2> HIDE DEF Refs
  <2> QED BY <1>1, <2>1, <2>2, <2>3 DEF Named, Points
<1>3. Parents'
  BY <1>1 DEF Intact, Kept, Parents
<1>4. Marked'
  <2>1. \A j \in Inodes : Nonempty(inodes'[j]) => Nonempty(inodes[j])
    BY DEF Nonempty
  <2> QED BY <2>1 DEF Intact, Kept, Marked
<1>5. Grows'
  BY DEF Intact, Kept, Grows
<1> QED BY <1>2, <1>3, <1>4, <1>5 DEF Kept

-----------------------------------------------------------------------------
(* The steps of fs_touch and fs_mkdir.                                     *)

\* A step of the call in progress leaves its arguments alone.
LEMMA SameLocals ==
  ASSUME c \in Frame
  PROVE  /\ \A b \in Blocks \cup {INVALID} : LET d == [c EXCEPT !.blk = b]
              IN  d.op = c.op /\ d.ino = c.ino /\ d.dir = c.dir /\ d.off = c.off
         /\ \A v \in BOOLEAN : LET d == [c EXCEPT !.ret = v]
              IN  d.op = c.op /\ d.ino = c.ino /\ d.dir = c.dir /\ d.off = c.off
         /\ \A v \in BOOLEAN : LET d == [c EXCEPT !.ok = v]
              IN  d.op = c.op /\ d.ino = c.ino /\ d.dir = c.dir /\ d.off = c.off
BY DEF Frame

\* The record cannot be entered, or needs a block.
LEMMA KeptRefused ==
  ASSUME Intact, AppendRefused
  PROVE  Kept'
<1>1. /\ pc = "ap" /\ pc' = "rl" /\ c' = c /\ c.op # "write"
      /\ UNCHANGED <<mounted, inodes, inode_bitmap, d_inode_bitmap, d_inodes, d_data>>
  BY DEF AppendRefused, Goto, mem, disk, Intact, TypeInv, CallOK, CreatePcs
<1>2. NewInode' /\ NewRecord'
  BY <1>1 DEF Intact, Kept, NewInode, NewRecord, Creating, CreatePcs, FreePcs
<1> QED BY <1>1, <1>2, QuietKeeps DEF Creating, CreatePcs

\* luxfs_dir_append_record takes a free block for a slot that has none.
LEMMA KeptAppendAllocates ==
  ASSUME Intact, AppendAllocates
  PROVE  Kept'
<1>1. /\ pc = "ap" /\ pc' = "ap_bitmap" /\ inodes[c.dir].direct[Slot] = INVALID
      /\ Slot < DirectBlocks
      /\ UNCHANGED <<mounted, inodes, inode_bitmap, d_inode_bitmap, d_inodes, d_data>>
  <2> HIDE DEF Slot
  <2> QED BY DEF AppendAllocates, luxfs_alloc_block, disk
<1>2. PICK b \in FreeBlocks : c' = [c EXCEPT !.blk = b]
  BY DEF AppendAllocates, luxfs_alloc_block
<1>3. c'.ino = c.ino /\ c'.dir = c.dir /\ c'.off = c.off
  BY <1>2, SameLocals DEF Intact, FreeBlocks
<1>4. Slot \in Slots
  <2>1. c.off \in Nat /\ c.left \in Nat
    BY DEF Intact, Frame
  <2> QED BY <1>1, <2>1, ChunkBounds, SizeAssumption DEF Slots
<1>5. Slot' = Slot
  BY <1>3 DEF Slot
<1> HIDE DEF Slot
<1>6. NewInode'
  BY <1>1, <1>3 DEF Intact, Kept, NewInode, Creating, CreatePcs, FreePcs, Within
<1>7. NewRecord'
  BY <1>1, <1>3, <1>4, <1>5 DEF Intact, Kept, NewRecord, CreatePcs, Within
<1> QED BY <1>1, <1>3, <1>6, <1>7, QuietKeeps DEF Creating, CreatePcs

\* The bitmap sector with that block is written, or the create gives up.
LEMMA KeptAppendBitmap ==
  ASSUME Intact, AppendBlockBitmap
  PROVE  Kept'
<1>1. /\ pc = "ap_bitmap" /\ pc' \in {"ap_zero", "rl"} /\ c' = c /\ c.op # "write"
      /\ UNCHANGED <<mounted, inodes, inode_bitmap, d_inode_bitmap, d_inodes, d_data>>
  BY DEF AppendBlockBitmap, Goto, mem, disk, Intact, TypeInv, CallOK, CreatePcs
<1>2. Slot' = Slot
  BY <1>1 DEF Slot
<1> HIDE DEF Slot
<1>3. NewInode' /\ NewRecord'
  BY <1>1, <1>2 DEF Intact, Kept, NewInode, NewRecord, Creating, CreatePcs, FreePcs
<1> QED BY <1>1, <1>3, QuietKeeps DEF Creating, CreatePcs

\* The bit of the new inode, then the inode, then the directory.
LEMMA KeptAllocBitmap ==
  ASSUME Intact, AllocInodeBitmap
  PROVE  Kept'
<1>1. /\ pc = "ai_bitmap" /\ UNCHANGED <<mounted, inodes, inode_bitmap, d_inodes, d_data>>
      /\ mounted
  BY DEF AllocInodeBitmap, mem, Intact
<1>2. CASE d_inode_bitmap' = inode_bitmap /\ pc' = "ai_inode" /\ c' = c
  <2>1. \A x \in Refs : x \in Refs'
    BY <1>1, <1>2 DEF Refs, Within, Creating, CreatePcs
  <2>2. Named'
    BY <1>1, <2>1 DEF Intact, Kept, Named, Points
  <2>3. Parents'
    BY <1>1, <2>1 DEF Intact, Kept, Parents
  <2>4. Marked'
    <3>1. \A j \in Inodes : Nonempty(d_inodes[j]) => Nonempty(inodes[j])
      BY <1>1 DEF Intact, Kept, Grows, Grown, Nonempty, Inode
    <3> QED BY <1>1, <1>2, <3>1 DEF Intact, Kept, Marked
  <2>5. Grows'
    BY <1>1 DEF Intact, Kept, Grows
  <2>6. NewInode' /\ NewRecord'
    BY <1>1, <1>2 DEF Intact, Kept, NewInode, NewRecord, Creating, CreatePcs, FreePcs
  <2> QED BY <2>2, <2>3, <2>4, <2>5, <2>6 DEF Kept
<1>3. CASE UNCHANGED d_inode_bitmap /\ pc' = "ret"
  <2>1. NewInode' /\ NewRecord' /\ ~Creating'
    BY <1>1, <1>3 DEF NewInode, NewRecord, Creating, CreatePcs, FreePcs
  <2> QED BY <1>1, <1>3, <2>1, QuietKeeps
<1> QED BY <1>2, <1>3 DEF AllocInodeBitmap, luxfs_flush_inode_bitmap, Goto, Return

\* The new inode is flushed; nothing on disk refers to it yet.
LEMMA KeptAllocInode ==
  ASSUME Intact, AllocInodeFlush
  PROVE  Kept'
<1>1. /\ pc = "ai_inode" /\ UNCHANGED <<mounted, inodes, inode_bitmap, d_inode_bitmap, d_data>>
      /\ c.ino \in Inodes /\ c.dir \in Inodes
  BY DEF AllocInodeFlush, mem, Intact, TypeInv, CallOK, CreatePcs
<1>2. CASE /\ luxfs_flush_inode(c.ino) /\ pc' = "ap"
           /\ c' = [c EXCEPT !.off = inodes[c.dir].size, !.left = RecordSize]
  <2>1. c'.ino = c.ino /\ c'.dir = c.dir /\ c'.off = inodes[c.dir].size
    BY <1>2 DEF Intact, Frame
  <2>2. /\ d_inodes'[c.ino] = inodes[c.ino]
        /\ \A i \in Inodes : d_inodes'[i] = inodes[i] \/ d_inodes'[i] = d_inodes[i]
    BY <1>1, <1>2, FlushWrites
  <2>3. inodes[c.dir].size \in Nat
    BY <1>1 DEF Intact, Inode
  <2>4. NewInode'
    BY <1>1, <1>2, <2>1, <2>2 DEF Intact, Kept, NewInode, Creating, CreatePcs, FreePcs,
       Nonempty, Within
  <2>5. NewRecord'
    BY <1>1, <1>2, <2>1, <2>3 DEF Intact, Kept, NewRecord, CreatePcs, Within
  <2> QED BY <1>1, <1>2, <2>1, <2>2, <2>4, <2>5, FlushKeeps DEF Creating, CreatePcs
<1>3. CASE UNCHANGED d_inodes /\ pc' = "ret"
  <2>1. NewInode' /\ NewRecord' /\ ~Creating'
    BY <1>3 DEF NewInode, NewRecord, Creating, CreatePcs, FreePcs
  <2> QED BY <1>1, <1>3, <2>1, QuietKeeps
<1> QED BY <1>2, <1>3 DEF AllocInodeFlush, Return

\* The last sector of a create: the directory with its new size.
LEMMA KeptAppendInode ==
  ASSUME Intact, AppendInode
  PROVE  Kept'
<1>1. /\ pc = "ap_inode" /\ UNCHANGED <<mounted, inodes, inode_bitmap, d_inode_bitmap, d_data>>
      /\ c.ino \in Inodes /\ c.dir \in Inodes /\ c.op # "write"
  BY DEF AppendInode, mem, Intact, TypeInv, CallOK, CreatePcs
<1>2. CASE luxfs_flush_inode(c.dir) /\ pc' = "ret"
  <2>1. \A i \in Inodes : d_inodes'[i] = inodes[i] \/ d_inodes'[i] = d_inodes[i]
    BY <1>1, <1>2, FlushWrites
  <2>2. NewInode' /\ NewRecord' /\ ~Creating'
    BY <1>2 DEF NewInode, NewRecord, Creating, CreatePcs, FreePcs
  <2> QED BY <1>1, <2>1, <2>2, FlushKeeps
<1>3. CASE UNCHANGED d_inodes /\ pc' = "rl" /\ c' = c
  <2>1. NewInode' /\ NewRecord'
    BY <1>1, <1>3 DEF Intact, Kept, NewInode, NewRecord, Creating, CreatePcs, FreePcs
  <2> QED BY <1>1, <1>3, <2>1, QuietKeeps DEF Creating, CreatePcs
<1> QED BY <1>2, <1>3 DEF AppendInode, Return, Goto

\* The new block is zero before the directory points to it.
LEMMA KeptAppendZeroes ==
  ASSUME Intact, AppendZeroes
  PROVE  Kept'
<1>1. /\ pc = "ap_zero" /\ UNCHANGED <<mounted, inode_bitmap, d_inode_bitmap, d_inodes>>
      /\ mounted /\ c.ino \in Inodes /\ c.dir \in Inodes /\ c.op # "write"
      /\ Slot \in Slots /\ inodes[c.dir].direct[Slot] = INVALID
  BY DEF AppendZeroes, Intact, TypeInv, CallOK, CreatePcs, Kept, NewRecord
<1>2. CASE /\ d_data' = [d_data EXCEPT ![c.blk] = ZeroSector]
           /\ inodes' = [inodes EXCEPT ![c.dir].direct[Slot] = c.blk]
           /\ pc' = "ap" /\ c' = [c EXCEPT !.blk = INVALID]
  <2>1. c'.ino = c.ino /\ c'.dir = c.dir /\ c'.off = c.off
    BY <1>2, SameLocals DEF Intact
  <2>2. inodes'[c.dir].parent = inodes[c.dir].parent
    BY <1>1, <1>2, RepointParent DEF Intact
  <2>3. /\ \A j \in Inodes : j # c.dir => inodes'[j] = inodes[j]
        /\ inodes'[c.dir].type = inodes[c.dir].type
        /\ inodes'[c.dir].size = inodes[c.dir].size
    BY <1>1, <1>2, RepointFields DEF Intact
  <2>4. \A l \in Slots : inodes'[c.dir].direct[l]
                           = IF l = Slot THEN c.blk ELSE inodes[c.dir].direct[l]
    <3>1. c.blk \in Blocks \cup {INVALID}
      BY DEF Intact, Frame
    <3>2. \A i \in Inodes, l \in Slots : inodes'[i].direct[l] =
            IF i = c.dir /\ l = Slot THEN c.blk ELSE inodes[i].direct[l]
      <4>1. inodes \in [Inodes -> Inode]
        BY DEF Intact
      <4>2. c.dir \in Inodes /\ inodes' = [inodes EXCEPT ![c.dir].direct[Slot] = c.blk]
        BY <1>1, <1>2
      <4> QED BY <3>1, <4>1, <4>2, OnePointer
    <3> QED BY <1>1, <3>2
  <2> HIDE DEF Slot
  <2>5. \A x \in Refs : x \in Refs'
    BY <1>1, <1>2, <2>1, RefsKept DEF Creating, CreatePcs
  <2>6. Named'
    <3> SUFFICES ASSUME NEW b \in Blocks, NEW u \in Units, NEW x \in Inodes,
                        d_data'[b][u] = <<"ino", x>>,
                        Points(d_inodes', b) \/ Points(inodes', b)
                 PROVE  x \in Refs'
      BY DEF Named, Points
    <3>1. b # c.blk
      BY <1>2 DEF Intact, ZeroSector, Zero
    <3>2. d_data[b][u] = <<"ino", x>>
      BY <1>2, <3>1 DEF Intact
    <3>3. Points(d_inodes, b) \/ Points(inodes, b)
      BY <1>1, <2>3, <2>4, <3>1 DEF Points
    <3> QED BY <1>1, <2>5, <3>2, <3>3 DEF Intact, Kept, Named
  <2>7. Parents'
    BY <1>1, <2>2, <2>3, <2>5 DEF Intact, Kept, Parents
  <2>8. Marked'
    BY <1>1, <2>3 DEF Intact, Kept, Marked, Nonempty
  <2>9. Grows'
    <3> SUFFICES ASSUME NEW j \in Inodes, Nonempty(d_inodes[j])
                 PROVE  Grown(d_inodes[j], inodes'[j])
      BY <1>1 DEF Grows
    <3>1. Grown(d_inodes[j], inodes[j])
      BY <1>1 DEF Intact, Kept, Grows
    <3>2. CASE j = c.dir
      BY <1>1, <2>3, <2>4, <3>1, <3>2 DEF Grown
    <3> QED BY <2>3, <3>1, <3>2
  <2>10. NewInode' /\ NewRecord'
    BY <1>1, <1>2, <2>1, <2>3 DEF Intact, Kept, NewInode, NewRecord, Creating, CreatePcs, FreePcs,
       Within
  <2> QED BY <2>6, <2>7, <2>8, <2>9, <2>10 DEF Kept
<1>3. CASE UNCHANGED <<d_data, inodes>> /\ pc' = "rl" /\ c' = c
  <2>1. NewInode' /\ NewRecord'
    BY <1>1, <1>3 DEF Intact, Kept, NewInode, NewRecord, Creating, CreatePcs, FreePcs
  <2> QED BY <1>1, <1>3, <2>1, QuietKeeps DEF Creating, CreatePcs
<1> HIDE DEF Slot
<1> QED BY <1>2, <1>3 DEF AppendZeroes, disk_write_data_block, Goto

\* A part of the record: the sector gets the number of the new inode, or its
\* name, and keeps the rest.
LEMMA KeptAppendPatches ==
  ASSUME Intact, AppendPatches
  PROVE  Kept'
<1> HIDE DEF Slot, At, Chunk
<1>1. /\ pc = "ap" /\ UNCHANGED <<mounted, inode_bitmap, d_inode_bitmap, d_inodes>>
      /\ mounted /\ c.ino \in Inodes /\ c.dir \in Inodes /\ c.op # "write"
      /\ inodes[c.dir].type = "dir" /\ Slot < DirectBlocks
      /\ inodes[c.dir].direct[Slot] # INVALID
  BY DEF AppendPatches, Intact, TypeInv, CallOK, CreatePcs
<1>2. /\ c.off \in Nat /\ c.left \in Nat /\ inodes[c.dir].size \in Nat
      /\ inodes[c.dir].size <= c.off
  BY <1>1 DEF Intact, Frame, Inode, Kept, NewRecord
<1>3. Slot \in Slots /\ Chunk \in Nat
  BY <1>1, <1>2, ChunkBounds, SizeAssumption DEF Slots
<1> DEFINE b == inodes[c.dir].direct[Slot]
           patched == [u \in Units |-> IF u \in At .. At + Chunk - 1
                                      THEN RecordCell(RecordSize - c.left + u - At)
                                      ELSE d_data[b][u]]
<1>4. CASE /\ d_data' = [d_data EXCEPT ![b] = patched]
           /\ c' = [c EXCEPT !.off = c.off + Chunk, !.left = c.left - Chunk]
           /\ IF Chunk = c.left
              THEN inodes' = [inodes EXCEPT ![c.dir].size = @ + RecordSize] /\ pc' = "ap_inode"
              ELSE UNCHANGED <<inodes, pc>>
  <2>1. c'.ino = c.ino /\ c'.dir = c.dir /\ c'.off = c.off + Chunk
    BY <1>4 DEF Intact, Frame
  <2>2. /\ \A j \in Inodes : j # c.dir => inodes'[j] = inodes[j]
        /\ inodes'[c.dir].type = inodes[c.dir].type
        /\ inodes'[c.dir].parent = inodes[c.dir].parent
        /\ inodes'[c.dir].direct = inodes[c.dir].direct
        /\ inodes'[c.dir].size >= inodes[c.dir].size
        /\ pc' = "ap" => inodes' = inodes
        /\ pc' \in {"ap", "ap_inode"}
    <3>1. CASE inodes' = inodes /\ pc' = pc
      BY <1>1, <1>2, <3>1
    <3>2. CASE inodes' = [inodes EXCEPT ![c.dir].size = @ + RecordSize] /\ pc' = "ap_inode"
      <4>1. inodes' = [inodes EXCEPT ![c.dir].size = inodes[c.dir].size + RecordSize]
        BY <3>2
      <4>2. inodes[c.dir].size + RecordSize >= inodes[c.dir].size
        BY <1>2 DEF RecordSize
      <4> QED BY <1>1, <3>2, <4>1, <4>2, ResizeFields, RepointParent DEF Intact
    <3> QED BY <1>4, <3>1, <3>2
  <2>3. \A x \in Refs : x \in Refs'
    BY <1>1, <2>1, <2>2, RefsKept DEF Creating, CreatePcs
  <2>4. c.ino \in Refs
    <3>1. Within(c.ino, inode_bitmap) /\ Within(c.ino, d_inode_bitmap)
      BY <1>1 DEF Intact, Kept, NewInode, NewRecord, Creating, CreatePcs
    <3>2. c.ino <= c.ino
      <4>1. c.ino \in Nat
        BY <1>1, Ranges
      <4> QED BY <4>1
    <3> QED BY <1>1, <3>1, <3>2 DEF Refs
  <2>5. Named'
    <3> SUFFICES ASSUME NEW bb \in Blocks, NEW u \in Units, NEW x \in Inodes,
                        d_data'[bb][u] = <<"ino", x>>,
                        Points(d_inodes', bb) \/ Points(inodes', bb)
                 PROVE  x \in Refs'
      BY DEF Named, Points
    <3>1. d_data[bb][u] = <<"ino", x>> \/ x = c.ino
      <4>1. CASE bb # b
        BY <1>4, <4>1 DEF Intact
      <4>2. CASE bb = b
        <5>1. d_data'[bb] = patched
          BY <1>4, <4>2 DEF Intact
        <5>2. \A n : RecordCell(n) = <<"ino", x>> => x = c.ino
          BY DEF RecordCell
        <5>3. \/ patched[u] = d_data[b][u]
              \/ patched[u] = RecordCell(RecordSize - c.left + u - At)
          OBVIOUS
        <5> HIDE DEF b, patched
        <5> QED BY <4>2, <5>1, <5>2, <5>3
      <4> QED BY <4>1, <4>2
    <3>2. Points(d_inodes, bb) \/ Points(inodes, bb)
      BY <1>1, <2>2 DEF Points
    <3> QED BY <1>1, <2>3, <2>4, <3>1, <3>2 DEF Intact, Kept, Named
  <2>6. Parents'
    BY <1>1, <2>2, <2>3 DEF Intact, Kept, Parents
  <2>7. Marked'
    <3>1. c.dir \in inode_bitmap /\ c.dir \in d_inode_bitmap
      BY <1>1 DEF Intact, Kept, NewRecord, CreatePcs
    <3> QED BY <1>1, <2>2, <3>1 DEF Intact, Kept, Marked
  <2>8. Grows'
    <3> SUFFICES ASSUME NEW j \in Inodes, Nonempty(d_inodes[j])
                 PROVE  Grown(d_inodes[j], inodes'[j])
      BY <1>1 DEF Grows
    <3>1. Grown(d_inodes[j], inodes[j])
      BY <1>1 DEF Intact, Kept, Grows
    <3>2. CASE j = c.dir
      <4>1. d_inodes[j].size \in Nat /\ inodes'[j].size \in Nat
        <5>1. CASE inodes' = inodes
          BY <5>1 DEF Intact, Inode
        <5>2. CASE inodes' = [inodes EXCEPT ![c.dir].size = @ + RecordSize]
          BY <1>1, <1>2, <3>2, <5>2 DEF Intact, Inode, RecordSize
        <5> QED BY <1>4, <5>1, <5>2
      <4> QED BY <1>2, <2>2, <3>1, <3>2, <4>1 DEF Grown
    <3> QED BY <2>2, <3>1, <3>2
  <2>9. NewInode'
    BY <1>1, <2>1, <2>2 DEF Intact, Kept, NewInode, Creating, CreatePcs, FreePcs, Within
  <2>10. NewRecord'
    BY <1>1, <1>2, <1>3, <2>1, <2>2 DEF Intact, Kept, NewRecord, CreatePcs, Within
  <2> QED BY <2>5, <2>6, <2>7, <2>8, <2>9, <2>10 DEF Kept
<1>5. CASE UNCHANGED <<d_data, inodes>> /\ pc' = "rl" /\ c' = c
  <2>1. NewInode' /\ NewRecord'
    BY <1>1, <1>5 DEF Intact, Kept, NewInode, NewRecord, Creating, CreatePcs, FreePcs
  <2> QED BY <1>1, <1>5, <2>1, QuietKeeps DEF Creating, CreatePcs
<1> QED BY <1>4, <1>5 DEF AppendPatches, disk_write_data_block, Goto

-----------------------------------------------------------------------------
(* Giving blocks back, and fs_write.                                       *)

\* A block of a file that is truncated, or of an inode that is given back.
LEMMA KeptRelease ==
  ASSUME Intact, ReleaseBlock
  PROVE  Kept'
<1>1. /\ pc = "rl" /\ pc' = "rl" /\ c.ino \in Inodes /\ mounted
      /\ UNCHANGED <<mounted, inode_bitmap, d_inode_bitmap, d_inodes, d_data>>
  BY DEF ReleaseBlock, Intact, TypeInv, CallOK
<1>2. PICK k \in HeldSlots : inodes' = [inodes EXCEPT ![c.ino].direct[k] = INVALID]
  BY DEF ReleaseBlock
<1>3. c'.ino = c.ino /\ c'.op = c.op
  <2>1. c' = c \/ c' = [c EXCEPT !.ok = FALSE]
    BY DEF ReleaseBlock
  <2> QED BY <2>1, SameLocals DEF Intact
<1>4. inodes'[c.ino].parent = inodes[c.ino].parent
  BY <1>1, <1>2, RepointParent DEF Intact
<1>5. /\ \A j \in Inodes : j # c.ino => inodes'[j] = inodes[j]
      /\ inodes'[c.ino].type = inodes[c.ino].type
      /\ inodes'[c.ino].size = inodes[c.ino].size
  BY <1>1, <1>2, RepointFields DEF Intact
<1>6. \A l \in Slots : inodes'[c.ino].direct[l] \in {inodes[c.ino].direct[l], INVALID}
  <2>1. \A i \in Inodes, l \in Slots : inodes'[i].direct[l] =
          IF i = c.ino /\ l = k THEN INVALID ELSE inodes[i].direct[l]
    <3>1. inodes \in [Inodes -> Inode] /\ INVALID \in Blocks \cup {INVALID}
      BY DEF Intact
    <3> QED BY <1>1, <1>2, <3>1, OnePointer
  <2> QED BY <1>1, <2>1
<1>7. ~Nonempty(d_inodes[c.ino])
  <2>1. CASE c.op = "write"
    BY <1>1, <2>1 DEF Intact, WriteOK, Writing, Truncating, Kept, Grows, Grown
  <2>2. CASE c.op # "write"
    BY <1>1, <2>2 DEF Intact, Kept, NewInode, Creating
  <2> QED BY <2>1, <2>2
<1>8. NewInode' /\ NewRecord'
  BY <1>1, <1>3 DEF Intact, Kept, NewInode, NewRecord, Creating, CreatePcs, FreePcs, Within
<1> QED BY <1>1, <1>3, <1>4, <1>5, <1>6, <1>7, <1>8, TableKeeps
        DEF Creating, CreatePcs, FreePcs

\* The size of a truncated file.
LEMMA KeptReleasedForWrite ==
  ASSUME Intact, ReleasedForWrite
  PROVE  Kept'
<1>1. /\ pc = "rl" /\ pc' \in {"ret", "wr_inode", "wr"} /\ c.ino \in Inodes /\ mounted
      /\ c.op = "write" /\ inodes[c.ino].type = "file"
      /\ UNCHANGED <<mounted, inode_bitmap, d_inode_bitmap, d_inodes, d_data>>
      /\ inodes' = [inodes EXCEPT ![c.ino].size = 0]
  BY DEF ReleasedForWrite, Return, Goto, disk, Intact, TypeInv, CallOK, WriteOK, Writing, Truncating
<1>2. /\ \A j \in Inodes : j # c.ino => inodes'[j] = inodes[j]
      /\ inodes'[c.ino].type = inodes[c.ino].type
      /\ inodes'[c.ino].parent = inodes[c.ino].parent
  BY <1>1, ResizeFields, RepointParent DEF Intact
<1>3. ~Nonempty(d_inodes[c.ino])
  BY <1>1 DEF Intact, Kept, Grows, Grown
<1>4. NewInode' /\ NewRecord' /\ ~Creating'
  BY <1>1 DEF NewInode, NewRecord, Creating, CreatePcs, FreePcs
<1> QED BY <1>1, <1>2, <1>3, <1>4, TableKeeps

\* The new inode is given back: every inode referred to is before it.
LEMMA KeptReleasedForFree ==
  ASSUME Intact, ReleasedForFree
  PROVE  Kept'
<1>1. /\ pc = "rl" /\ pc' = "un_inode" /\ c.ino \in Inodes /\ mounted /\ c.op # "write" /\ c' = c
      /\ UNCHANGED <<mounted, d_inode_bitmap, d_inodes, d_data>>
      /\ inodes' = [inodes EXCEPT ![c.ino] = luxfs_inode_clear]
      /\ inode_bitmap' = inode_bitmap \ {c.ino}
  BY DEF ReleasedForFree, Goto, disk, Intact, TypeInv, CallOK
<1>2. /\ \A j \in Inodes : j # c.ino => inodes'[j] = inodes[j]
      /\ inodes'[c.ino] = luxfs_inode_clear
  BY <1>1 DEF Intact
<1>3. \A x \in Refs : x \in Refs'
  <2>1. \A x \in Refs : x <= c.ino /\ x \in Nat /\ c.ino \in Nat
    BY <1>1, Ranges DEF Refs, Creating
  <2> QED BY <1>1, <2>1, Ranges DEF Refs, Within, Creating, FreePcs
<1>4. 0 \in Refs'
  <2>1. 0 \in Inodes /\ 0 <= c.ino /\ \A y \in Inodes : ~(y < 0)
    <3>1. c.ino \in Nat /\ 0 \in Inodes /\ \A y \in Inodes : y \in Nat
      BY <1>1, Ranges
    <3> QED BY <3>1
  <2> QED BY <1>1, <2>1 DEF Refs, Within
<1>5. /\ luxfs_inode_clear.type = "free" /\ luxfs_inode_clear.parent = 0
      /\ luxfs_inode_clear.size = 0
  BY DEF luxfs_inode_clear
<1>6. Named'
  <2>1. \A b \in Blocks : Points(inodes', b) => Points(inodes, b)
    BY <1>2, <1>5 DEF Points
  <2>2. \A b \in Blocks : Points(d_inodes', b) => Points(d_inodes, b)
    BY <1>1 DEF Points
  <2>3. mounted /\ Named
    BY DEF Intact, Kept
  <2> HIDE DEF Refs
  <2> QED BY <1>1, <1>3, <2>1, <2>2, <2>3 DEF Named, Points
<1>7. Parents'
  BY <1>1, <1>2, <1>3, <1>4, <1>5 DEF Intact, Kept, Parents
<1>8. Marked'
  BY <1>1, <1>2, <1>5 DEF Intact, Kept, Marked, Nonempty
<1>9. ~Nonempty(d_inodes[c.ino])
  BY <1>1 DEF Intact, Kept, NewInode, Creating
<1>10. Grows'
  BY <1>1, <1>2, <1>9 DEF Intact, Kept, Grows
<1>11. NewInode' /\ NewRecord'
  <2>1. Within(c.ino, inode_bitmap)
    BY <1>1 DEF Intact, Kept, NewInode, Creating
  <2>2. Within(c.ino, inode_bitmap')
    BY <1>1, <2>1, Ranges DEF Within
  <2> QED BY <1>1, <1>2, <1>5, <1>9, <2>2 DEF NewInode, NewRecord, Creating, CreatePcs, FreePcs
<1> QED BY <1>6, <1>7, <1>8, <1>10, <1>11 DEF Kept

\* The inode that is given back is flushed as free.
LEMMA KeptFreeFlush ==
  ASSUME Intact, FreeInodeFlush
  PROVE  Kept'
<1>1. /\ pc = "un_inode" /\ pc' = "un_bitmap" /\ c' = c /\ c.ino \in Inodes
      /\ UNCHANGED <<mounted, inodes, inode_bitmap, d_inode_bitmap, d_data>>
  BY DEF FreeInodeFlush, Goto, mem, Intact, TypeInv, CallOK, FreePcs
<1>2. /\ d_inodes'[c.ino] \in {inodes[c.ino], d_inodes[c.ino]}
      /\ \A i \in Inodes : d_inodes'[i] = inodes[i] \/ d_inodes'[i] = d_inodes[i]
  BY <1>1, FlushWrites DEF FreeInodeFlush
<1>3. NewInode' /\ NewRecord'
  BY <1>1, <1>2 DEF Intact, Kept, NewInode, NewRecord, Creating, CreatePcs, FreePcs, Nonempty
<1> QED BY <1>1, <1>2, <1>3, FlushKeeps DEF Creating, FreePcs

\* Its bit is cleared on disk: no record refers to it.
LEMMA KeptFreeBitmap ==
  ASSUME Intact, FreeInodeBitmap
  PROVE  Kept'
<1>1. /\ pc = "un_bitmap" /\ pc' = "ret" /\ mounted
      /\ UNCHANGED <<mounted, inodes, inode_bitmap, d_inodes, d_data>>
      /\ d_inode_bitmap' \in {inode_bitmap, d_inode_bitmap}
  BY DEF FreeInodeBitmap, luxfs_flush_inode_bitmap, Return, mem, Intact
<1>2. \A x \in Refs : x \in Refs'
  BY <1>1 DEF Refs, Within, Creating, CreatePcs, FreePcs
<1>3. Named'
  BY <1>1, <1>2 DEF Intact, Kept, Named, Points
<1>4. Parents'
  BY <1>1, <1>2 DEF Intact, Kept, Parents
<1>5. Marked'
  <2>1. \A j \in Inodes : Nonempty(d_inodes[j]) => Nonempty(inodes[j])
    BY <1>1 DEF Intact, Kept, Grows, Grown, Nonempty, Inode
  <2> QED BY <1>1, <2>1 DEF Intact, Kept, Marked
<1>6. Grows' /\ NewInode' /\ NewRecord'
  BY <1>1 DEF Intact, Kept, Grows, NewInode, NewRecord, Creating, CreatePcs, FreePcs
<1> QED BY <1>3, <1>4, <1>5, <1>6 DEF Kept

\* fs_write changes a file, and flushes a sector of the table.
LEMMA KeptWriteQuiet ==
  ASSUME Intact, WriteNoSpace \/ WriteAllocates \/ Returns
  PROVE  Kept'
<1>1. UNCHANGED <<mounted, inodes, inode_bitmap, d_inode_bitmap, d_inodes, d_data>>
  BY DEF WriteNoSpace, WriteAllocates, luxfs_alloc_block, Returns, mem, disk
<1>2. pc' \in {"ret", "wr_bitmap", "idle"}
  BY DEF WriteNoSpace, WriteAllocates, luxfs_alloc_block, Returns, Return
<1>3. NewInode' /\ NewRecord' /\ ~Creating'
  BY <1>2 DEF NewInode, NewRecord, Creating, CreatePcs, FreePcs
<1> QED BY <1>1, <1>3, QuietKeeps

\* The last sector of a write: the inode of its file.
LEMMA KeptWriteInode ==
  ASSUME Intact, WriteInode
  PROVE  Kept'
<1>1. /\ pc' = "ret" /\ c.ino \in Inodes
      /\ UNCHANGED <<mounted, inodes, inode_bitmap, d_inode_bitmap, d_data>>
  BY DEF WriteInode, Return, mem, Intact, TypeInv, CallOK, WritePcs
<1>2. \A i \in Inodes : d_inodes'[i] = inodes[i] \/ d_inodes'[i] = d_inodes[i]
  BY <1>1, FlushWrites DEF WriteInode
<1>3. NewInode' /\ NewRecord' /\ ~Creating'
  BY <1>1 DEF NewInode, NewRecord, Creating, CreatePcs, FreePcs
<1> QED BY <1>1, <1>2, <1>3, FlushKeeps

\* fs_write points its file to the block it has taken.
LEMMA KeptWriteBitmap ==
  ASSUME Intact, WriteBlockBitmap
  PROVE  Kept'
<1> HIDE DEF Slot
<1>1. /\ pc = "wr_bitmap" /\ pc' \in {"ret", "wr"} /\ c.ino \in Inodes /\ mounted
      /\ inodes[c.ino].type = "file"
      /\ UNCHANGED <<mounted, inode_bitmap, d_inode_bitmap, d_inodes, d_data>>
  BY DEF WriteBlockBitmap, Return, Intact, TypeInv, CallOK, WritePcs, WriteOK, Writing
<1>2. CASE UNCHANGED inodes
  <2>1. NewInode' /\ NewRecord' /\ ~Creating'
    BY <1>1 DEF NewInode, NewRecord, Creating, CreatePcs, FreePcs
  <2> QED BY <1>1, <1>2, <2>1, QuietKeeps
<1>3. CASE inodes' = [inodes EXCEPT ![c.ino].direct[Slot] = c.blk]
  <2>1. inodes'[c.ino].parent = inodes[c.ino].parent
    BY <1>1, <1>3, RepointParent DEF Intact
  <2>2. /\ \A j \in Inodes : j # c.ino => inodes'[j] = inodes[j]
        /\ inodes'[c.ino].type = inodes[c.ino].type
    BY <1>1, <1>3, RepointFields DEF Intact
  <2>3. ~Nonempty(d_inodes[c.ino])
    BY <1>1 DEF Intact, Kept, Grows, Grown
  <2>4. NewInode' /\ NewRecord' /\ ~Creating'
    BY <1>1 DEF NewInode, NewRecord, Creating, CreatePcs, FreePcs
  <2> QED BY <1>1, <2>1, <2>2, <2>3, <2>4, TableKeeps
<1> QED BY <1>2, <1>3 DEF WriteBlockBitmap

\* What fs_write puts into a sector is no record.
LEMMA KeptWritePatches ==
  ASSUME Intact, WritePatches
  PROVE  Kept'
<1> HIDE DEF Slot, At, Chunk
<1>1. /\ pc = "wr" /\ pc' \in {"ret", "wr", "wr_inode"} /\ c.ino \in Inodes /\ mounted
      /\ inodes[c.ino].type = "file"
      /\ UNCHANGED <<mounted, inode_bitmap, d_inode_bitmap, d_inodes>>
  BY DEF WritePatches, Return, Intact, TypeInv, CallOK, WritePcs, WriteOK, Writing
<1> DEFINE b == inodes[c.ino].direct[Slot]
           patched == [u \in Units |-> IF u \in At .. At + Chunk - 1 THEN <<"byte", c.val>>
                                      ELSE IF c.fresh THEN Zero ELSE d_data[b][u]]
<1>2. d_data' = d_data \/ d_data' = [d_data EXCEPT ![b] = patched]
  BY DEF WritePatches, disk_write_data_block
<1>3. ASSUME NEW bb \in Blocks, NEW u \in Units, NEW x \in Inodes, d_data'[bb][u] = <<"ino", x>>
      PROVE  d_data[bb][u] = <<"ino", x>>
  <2>1. CASE d_data'[bb] = d_data[bb]
    BY <1>3, <2>1
  <2>2. CASE bb = b /\ d_data'[b] = patched
    <3>1. patched[u] \in {<<"byte", c.val>>, Zero, d_data[b][u]}
      OBVIOUS
    <3> HIDE DEF b, patched
    <3> QED BY <1>3, <2>2, <3>1 DEF Zero
  <2> HIDE DEF b, patched
  <2> QED BY <1>2, <2>1, <2>2 DEF Intact
<1> HIDE DEF b, patched
<1>4. /\ \A j \in Inodes : j # c.ino => inodes'[j] = inodes[j]
      /\ inodes'[c.ino].type = inodes[c.ino].type
      /\ inodes'[c.ino].parent = inodes[c.ino].parent
  <2>1. \/ inodes' = inodes
        \/ \E n : inodes' = [inodes EXCEPT ![c.ino].size = n]
    BY DEF WritePatches
  <2>2. CASE inodes' = inodes
    BY <2>2
  <2>3. ASSUME NEW n, inodes' = [inodes EXCEPT ![c.ino].size = n]
        PROVE  /\ \A j \in Inodes : j # c.ino => inodes'[j] = inodes[j]
               /\ inodes'[c.ino].type = inodes[c.ino].type
               /\ inodes'[c.ino].parent = inodes[c.ino].parent
    <3>1. inodes \in [Inodes -> Inode]
      BY DEF Intact
    <3> QED BY <1>1, <2>3, <3>1, ResizeFields, RepointParent
  <2> QED BY <2>1, <2>2, <2>3
<1>5. NewInode' /\ NewRecord' /\ ~Creating'
  BY <1>1 DEF NewInode, NewRecord, Creating, CreatePcs, FreePcs
<1>6. \A x \in Refs : x \in Refs'
  BY <1>1, <1>5, RefsKept
<1>7. Named'
  <2>1. \A bb \in Blocks : Points(inodes', bb) => Points(inodes, bb)
    BY <1>1, <1>4 DEF Points
  <2>2. \A bb \in Blocks : Points(d_inodes', bb) => Points(d_inodes, bb)
    BY <1>1 DEF Points
  <2>3. mounted /\ Named
    BY DEF Intact, Kept
  <2> HIDE DEF Refs
  <2> QED BY <1>1, <1>3, <1>6, <2>1, <2>2, <2>3 DEF Named, Points
<1>8. Parents'
  BY <1>1, <1>4, <1>6 DEF Intact, Kept, Parents
<1>9. Marked'
  BY <1>1, <1>4 DEF Intact, Kept, Marked, Nonempty
<1>10. Grows'
  <2>1. ~Nonempty(d_inodes[c.ino])
    BY <1>1 DEF Intact, Kept, Grows, Grown
  <2> QED BY <1>1, <1>4, <2>1 DEF Intact, Kept, Grows
<1> QED BY <1>5, <1>7, <1>8, <1>9, <1>10 DEF Kept

-----------------------------------------------------------------------------
(* What lookups find.                                                      *)

\* The cells and the records of a directory, given the data sectors.
CellOf(data, node, o) == data[node.direct[o \div SectorSize]][o % SectorSize]
Complete(node) == {r \in 1 .. node.size \div RecordSize : Reachable(node, r * RecordSize - 1)}
Iterate(data, node) ==
  [r \in 1 .. Cardinality(Complete(node)) |->
     [inode |-> RecordInode(CellOf(data, node, r * RecordSize - 1 - 1)),
      name |-> CellOf(data, node, r * RecordSize - 1)]]

\* They are the complete ones, as many as there are.
LEMMA Iterated ==
  ASSUME NEW data, NEW node, node.size \in Nat
  PROVE  /\ DOMAIN Iterate(data, node) = Complete(node)
         /\ \E n \in Nat : Complete(node) = 1 .. n
         /\ \A r \in Complete(node) : Iterate(data, node)[r] =
              [inode |-> RecordInode(CellOf(data, node, r * RecordSize - 1 - 1)),
               name |-> CellOf(data, node, r * RecordSize - 1)]
<1> DEFINE n == node.size \div RecordSize
           card == Cardinality(Complete(node))
<1>1. n \in Nat
  BY DEF RecordSize
<1>2. IsFiniteSet(1 .. n) /\ Cardinality(1 .. n) = n
  BY <1>1, Counting
<1>3. Complete(node) \subseteq 1 .. n
  BY DEF Complete
<1>4. IsFiniteSet(Complete(node)) /\ card \in Nat /\ card <= n
  BY <1>2, <1>3, FS_Subset, FS_CardinalityType
<1>5. \A r \in 1 .. card : r \in Nat /\ r > 0 /\ Reachable(node, r * RecordSize - 1)
  BY CompleteRecords DEF Complete
<1>6. ASSUME NEW r \in 1 .. card PROVE r \in Complete(node)
  <2>1. r \in 1 .. n
    BY <1>1, <1>4
  <2> QED BY <1>5, <2>1 DEF Complete
<1>7. ASSUME NEW r \in Complete(node) PROVE r \in 1 .. card
  <2>1. r \in Nat /\ r > 0 /\ r <= n /\ Reachable(node, r * RecordSize - 1)
    BY <1>1 DEF Complete
  <2>2. 1 .. r \subseteq Complete(node)
    <3> SUFFICES ASSUME NEW q \in 1 .. r PROVE q \in Complete(node)
      OBVIOUS
    <3>1. /\ q \in 1 .. n /\ q * RecordSize - 1 \in Nat /\ r * RecordSize - 1 \in Nat
          /\ q * RecordSize - 1 <= r * RecordSize - 1
      BY <1>1, <2>1 DEF RecordSize
    <3>2. Reachable(node, q * RecordSize - 1)
      BY <2>1, <3>1, ReachableBefore
    <3> QED BY <3>1, <3>2 DEF Complete
  <2>3. Cardinality(1 .. r) = r
    BY <2>1, Counting
  <2>4. r <= card
    <3>1. 1 .. r \in SUBSET Complete(node)
      BY <2>2
    <3>2. Cardinality(1 .. r) <= Cardinality(Complete(node))
      BY <1>4, <3>1, FS_Subset
    <3> QED BY <2>3, <3>2
  <2> QED BY <1>4, <2>1, <2>4
<1>8. Complete(node) = 1 .. card
  BY <1>6, <1>7
<1> QED BY <1>4, <1>8 DEF Iterate

\* A complete record has its two cells on the disk.
LEMMA RecordCells ==
  ASSUME NEW node \in Inode, NEW r \in Complete(node)
  PROVE  /\ r \in Nat /\ r > 0 /\ r * RecordSize <= node.size
         /\ \A o \in {r * RecordSize - 1 - 1, r * RecordSize - 1} :
              /\ o \in Nat /\ o < node.size /\ Reachable(node, o)
              /\ o \div SectorSize \in Slots /\ node.direct[o \div SectorSize] \in Blocks
              /\ o % SectorSize \in Units
<1>0. SectorSize \in Nat \ {0} /\ node.size \in Nat
  BY SizeAssumption DEF Inode
<1>1. r \in Nat /\ r > 0 /\ r * RecordSize <= node.size /\ Reachable(node, r * RecordSize - 1)
  BY <1>0 DEF Complete, RecordSize
<1>2. SUFFICES ASSUME NEW o \in {r * RecordSize - 1 - 1, r * RecordSize - 1}
               PROVE  /\ o \in Nat /\ o < node.size /\ Reachable(node, o)
                      /\ o \div SectorSize \in Slots
                      /\ node.direct[o \div SectorSize] \in Blocks
                      /\ o % SectorSize \in Units
  BY <1>1
<1>3. /\ o \in Nat /\ o < node.size /\ r * RecordSize - 1 \in Nat
      /\ o <= r * RecordSize - 1
  BY <1>0, <1>1 DEF RecordSize
<1>4. Reachable(node, o)
  BY <1>1, <1>3, ReachableBefore
<1>5. o \div SectorSize \in Nat /\ o % SectorSize \in Units
  BY <1>0, <1>3, DivFacts DEF Units
<1>6. o \div SectorSize \in Slots /\ node.direct[o \div SectorSize] # INVALID
  BY <1>4, <1>5 DEF Reachable
<1>7. node.direct[o \div SectorSize] \in Blocks
  BY <1>6 DEF Inode
<1> QED BY <1>3, <1>4, <1>5, <1>6, <1>7

\* luxfs_dir_find answers the inode of the first record of the name.
LEMMA FindRecord ==
  ASSUME NEW d, inodes[d].size \in Nat, NEW name
  PROVE  LET records == Iterate(d_data, inodes[d])
             hits == {r \in Complete(inodes[d]) : records[r].name = <<"name", name>>}
         IN  \/ /\ luxfs_dir_find(d, name) = NONE
                /\ inodes[d].type = "dir" => hits = {}
             \/ /\ inodes[d].type = "dir"
                /\ \E r \in hits : luxfs_dir_find(d, name) = records[r].inode
<1> DEFINE records == Iterate(d_data, inodes[d])
           hits == {r \in Complete(inodes[d]) : records[r].name = <<"name", name>>}
           first == CHOOSE r \in hits : \A q \in hits : r <= q
<1>1. luxfs_dir_iterate(inodes[d]) = records
  BY DEF luxfs_dir_iterate, Iterate, Complete, CellAt, CellOf
<1>2. DOMAIN records = Complete(inodes[d])
  BY Iterated
<1> HIDE DEF records
<1>3. luxfs_dir_find(d, name) = IF inodes[d].type # "dir" \/ hits = {} THEN NONE
                                ELSE records[first].inode
  BY <1>1, <1>2 DEF luxfs_dir_find
<1>4. hits # {} => first \in hits
  <2>1. hits \subseteq Nat
    BY DEF Complete
  <2> HIDE DEF hits
  <2> QED BY <2>1, LeastNumber
<1> HIDE DEF hits, first
<1>5. \/ /\ luxfs_dir_find(d, name) = NONE
         /\ inodes[d].type = "dir" => hits = {}
      \/ /\ inodes[d].type = "dir"
         /\ \E r \in hits : luxfs_dir_find(d, name) = records[r].inode
  BY <1>3, <1>4
<1> QED BY <1>5 DEF hits, records

\* The walk of luxfs_resolve_parent goes through directories only.
Directory(i) == IF i # NONE /\ inodes[i].type = "dir" THEN i ELSE NONE
ParentHop(i, comp) == IF i = NONE \/ comp = "." THEN i
                      ELSE IF comp = ".." THEN inodes[i].parent
                      ELSE Directory(luxfs_dir_find(i, comp))
IsParentWalk(w, path, n) ==
  w = [k \in 0 .. n |-> IF k = 0 THEN Root ELSE ParentHop(w[k - 1], path[k])]

\* A property of the first place of a walk that every step keeps holds of all.
LEMMA StaysIn ==
  ASSUME NEW n \in Nat, NEW S, 0 \in S, \A k \in 1 .. n : k - 1 \in S => k \in S
  PROVE  \A k \in 0 .. n : k \in S
<1> DEFINE T == {k \in 0 .. n : k \notin S}
<1> SUFFICES ASSUME T # {} PROVE FALSE
  OBVIOUS
<1>1. PICK m \in T : \A y \in T : m <= y
  <2>1. T \subseteq Nat
    OBVIOUS
  <2> HIDE DEF T
  <2> QED BY <2>1, LeastNumber
<1>2. m \in 1 .. n /\ m - 1 \in 0 .. n /\ m - 1 \notin T
  BY <1>1
<1> QED BY <1>1, <1>2

\* The walk of luxfs_resolve_parent is defined on every path.
LEMMA ParentWalkExists ==
  ASSUME NEW path, NEW n \in Nat
  PROVE  \E w : IsParentWalk(w, path, n)
<1> DEFINE S == {m \in Nat : \E w : IsParentWalk(w, path, m)}
<1>1. 0 \in S
  <2>1. IsParentWalk([k \in 0 .. 0 |-> Root], path, 0)
    BY DEF IsParentWalk
  <2> QED BY <2>1
<1>2. ASSUME NEW m \in 1 .. n, m - 1 \in S PROVE m \in S
  <2>1. PICK w : IsParentWalk(w, path, m - 1)
    BY <1>2
  <2> DEFINE v == [k \in 0 .. m |-> IF k < m THEN w[k] ELSE ParentHop(w[m - 1], path[m])]
  <2>2. ASSUME NEW k \in 0 .. m
        PROVE  v[k] = IF k = 0 THEN Root ELSE ParentHop(v[k - 1], path[k])
    <3>1. CASE k = 0
      BY <2>1, <3>1 DEF IsParentWalk
    <3>2. CASE k # 0 /\ k < m
      <4>1. k \in 0 .. m - 1 /\ k - 1 \in 0 .. m /\ k - 1 < m
        BY <3>2
      <4>2. w[k] = ParentHop(w[k - 1], path[k])
        BY <2>1, <3>2, <4>1 DEF IsParentWalk
      <4> QED BY <3>2, <4>1, <4>2
    <3>3. CASE k = m
      <4>1. k - 1 \in 0 .. m /\ k - 1 < m /\ k # 0
        BY <3>3
      <4> QED BY <3>3, <4>1
    <3> QED BY <3>1, <3>2, <3>3
  <2>3. IsParentWalk(v, path, m)
    <3>1. v = [k \in 0 .. m |-> v[k]]
      OBVIOUS
    <3> HIDE DEF v
    <3> QED BY <2>2, <3>1 DEF IsParentWalk
  <2> QED BY <2>3
<1> HIDE DEF S
<1>3. n \in S
  BY <1>1, <1>2, StaysIn
<1> QED BY <1>3 DEF S

\* It goes where luxfs_resolve goes, or nowhere.
LEMMA ParentFollows ==
  ASSUME NEW path, NEW n \in Nat, NEW w, IsWalk(w, path, n), NEW v, IsParentWalk(v, path, n)
  PROVE  \A k \in 0 .. n : v[k] \in {NONE, w[k]}
<1> DEFINE S == {k \in 0 .. n : v[k] \in {NONE, w[k]}}
<1>1. 0 \in S
  BY DEF IsWalk, IsParentWalk
<1>2. ASSUME NEW k \in 1 .. n, k - 1 \in S PROVE k \in S
  <2>1. w[k] = Hop(w[k - 1], path[k]) /\ v[k] = ParentHop(v[k - 1], path[k])
    BY DEF IsWalk, IsParentWalk
  <2>2. v[k] \in {NONE, w[k]}
    BY <1>2, <2>1 DEF Hop, ParentHop, Directory
  <2> QED BY <2>2
<1> HIDE DEF S
<1>3. \A k \in 0 .. n : k \in S
  BY <1>1, <1>2, StaysIn
<1> QED BY <1>3 DEF S

\* A walk stays inside a set that records and parents do not lead out of.
LEMMA WalkInside ==
  ASSUME NEW S, Root \in S, \A i \in S : inodes[i].parent \in S,
         \A i \in S, name \in Components \ {".", ".."} : luxfs_dir_find(i, name) \in S \cup {NONE},
         NEW n \in Nat, NEW path \in [1 .. n -> Components], NEW w, IsWalk(w, path, n)
  PROVE  \A k \in 0 .. n : w[k] \in S \cup {NONE}
<1> DEFINE T == {k \in 0 .. n : w[k] \in S \cup {NONE}}
<1>1. 0 \in T
  BY DEF IsWalk
<1>2. ASSUME NEW k \in 1 .. n, k - 1 \in T PROVE k \in T
  <2>1. w[k] = Hop(w[k - 1], path[k]) /\ path[k] \in Components
    BY DEF IsWalk
  <2>2. w[k] \in S \cup {NONE}
    BY <1>2, <2>1 DEF Hop
  <2> QED BY <2>2
<1> HIDE DEF T
<1>3. \A k \in 0 .. n : k \in T
  BY <1>1, <1>2, StaysIn
<1> QED BY <1>3 DEF T

\* The lookups in terms of walks.
LEMMA ResolveIs ==
  ASSUME NEW path, Len(path) \in Nat
  PROVE  \E w : /\ IsWalk(w, path, Len(path))
                /\ luxfs_resolve(path) = IF luxfs_tokenize_path(path).ok THEN w[Len(path)] ELSE NONE
<1>1. \E w : IsWalk(w, path, Len(path))
  BY WalkExists
<1>2. luxfs_resolve(path) = (IF luxfs_tokenize_path(path).ok
        THEN (CHOOSE w : IsWalk(w, path, Len(path)))[Len(path)] ELSE NONE)
  BY Zenon DEF luxfs_resolve, IsWalk, Hop
<1>3. IsWalk((CHOOSE w : IsWalk(w, path, Len(path))), path, Len(path))
  BY <1>1
<1> QED BY <1>2, <1>3

\* luxfs_resolve_parent answers where its walk is before the last token.
LEMMA ResolveParentIs ==
  ASSUME NEW path, Len(path) \in Nat
  PROVE  \E v : /\ IsParentWalk(v, path, Len(path))
                /\ luxfs_resolve_parent(path) =
                     IF luxfs_tokenize_path(path).ok /\ luxfs_tokenize_path(path).tokens # {}
                     THEN v[LastToken(path) - 1] ELSE NONE
<1>1. \E w : IsParentWalk(w, path, Len(path))
  BY ParentWalkExists
<1>2. luxfs_resolve_parent(path) =
        (IF luxfs_tokenize_path(path).ok /\ luxfs_tokenize_path(path).tokens # {}
         THEN (CHOOSE w : IsParentWalk(w, path, Len(path)))[LastToken(path) - 1] ELSE NONE)
  BY Zenon DEF luxfs_resolve_parent, IsParentWalk, ParentHop, Directory
<1>3. IsParentWalk((CHOOSE w : IsParentWalk(w, path, Len(path))), path, Len(path))
  BY <1>1
<1> QED BY <1>2, <1>3

\* The tokens of a path, and the last of them.
LEMMA LastTokenIs ==
  ASSUME NEW path, Len(path) \in Nat, luxfs_tokenize_path(path).tokens # {}
  PROVE  /\ luxfs_tokenize_path(path).tokens = {i \in 1 .. Len(path) : path[i] # "."}
         /\ LastToken(path) \in 1 .. Len(path) /\ path[LastToken(path)] # "."
         /\ \A i \in 1 .. Len(path) : i > LastToken(path) => path[i] = "."
<1> DEFINE tokens == {i \in 1 .. Len(path) : path[i] # "."}
           back == {Len(path) - i : i \in tokens}
<1>1. luxfs_tokenize_path(path).tokens = tokens
  BY DEF luxfs_tokenize_path
<1>2. \E m \in tokens : \A j \in tokens : j <= m
  <2>1. back \subseteq Nat /\ back # {}
    BY <1>1
  <2> HIDE DEF back
  <2>2. PICK b \in back : \A y \in back : b <= y
    BY <2>1, LeastNumber
  <2> USE DEF back
  <2>3. PICK m \in tokens : b = Len(path) - m
    BY <2>2
  <2>4. \A j \in tokens : Len(path) - m <= Len(path) - j
    BY <2>2, <2>3
  <2> QED BY <2>4
<1>3. LastToken(path) \in tokens /\ \A j \in tokens : j <= LastToken(path)
  <2>1. LastToken(path) = CHOOSE i \in tokens : \A j \in tokens : j <= i
    BY <1>1 DEF LastToken
  <2> HIDE DEF tokens
  <2> QED BY <1>2, <2>1
<1> QED BY <1>1, <1>3

\* A name leads to an inode that may be referred to.
LEMMA FindRef ==
  ASSUME TypeOK, mounted, Named, NEW d \in Inodes, NEW name
  PROVE  luxfs_dir_find(d, name) \in Refs \cup {NONE}
<1> DEFINE node == inodes[d]
<1>0. node \in Inode /\ node.size \in Nat
  BY DEF TypeOK, MemType, Inode
<1>1. SUFFICES ASSUME luxfs_dir_find(d, name) # NONE
               PROVE  luxfs_dir_find(d, name) \in Refs
  OBVIOUS
<1>2. PICK r \in Complete(node) : /\ node.type = "dir"
                                  /\ luxfs_dir_find(d, name) = Iterate(d_data, node)[r].inode
  BY <1>0, <1>1, FindRecord
<1> DEFINE o == r * RecordSize - 1 - 1
           b == node.direct[o \div SectorSize]
           cell == CellOf(d_data, node, o)
<1>3. luxfs_dir_find(d, name) = RecordInode(cell)
  <2>1. Iterate(d_data, node)[r] = [inode |-> RecordInode(cell),
                                    name |-> CellOf(d_data, node, r * RecordSize - 1)]
    BY <1>0, Iterated
  <2> HIDE DEF cell, node
  <2> QED BY <1>2, <2>1
<1>4. o \div SectorSize \in Slots /\ b \in Blocks /\ o % SectorSize \in Units
  BY <1>0, RecordCells
<1>5. cell = d_data[b][o % SectorSize] /\ cell \in Cell
  BY <1>4 DEF CellOf, TypeOK, DiskType, Sector
<1>6. Points(inodes, b)
  BY <1>2, <1>4 DEF Points
<1> HIDE DEF b, o, cell
<1>7. cell = <<"ino", luxfs_dir_find(d, name)>> /\ luxfs_dir_find(d, name) \in Inodes
  BY <1>1, <1>3, <1>5 DEF RecordInode, Cell, Zero
<1> QED BY <1>4, <1>5, <1>6, <1>7 DEF Named

\* So does a path.
LEMMA ResolveRef ==
  ASSUME TypeInv, mounted, Named, Parents, NEW path \in Paths
  PROVE  /\ luxfs_resolve(path) \in Refs \cup {NONE}
         /\ luxfs_resolve_parent(path) \in Refs \cup {NONE}
<1>1. Len(path) \in Nat /\ path \in [1 .. Len(path) -> Components]
  BY NamesAssumption
<1>2. Root \in Refs
  <2>1. 0 \in Inodes /\ \A y \in Inodes : y \in Nat
    BY Ranges
  <2>2. \A y \in Inodes : ~(y < 0)
    BY <2>1
  <2>3. Creating => c.ino \in Nat
    BY Ranges DEF Creating, TypeInv, CallOK
  <2>4. Creating => 0 <= c.ino
    BY <2>3
  <2> QED BY <2>1, <2>2, <2>4 DEF Refs, Within, Root
<1>3. Refs \subseteq Inodes
  BY DEF Refs
<1>4. PICK w : /\ IsWalk(w, path, Len(path))
               /\ luxfs_resolve(path) = IF luxfs_tokenize_path(path).ok THEN w[Len(path)] ELSE NONE
  BY <1>1, ResolveIs
<1>5. PICK v : /\ IsParentWalk(v, path, Len(path))
               /\ luxfs_resolve_parent(path) =
                    IF luxfs_tokenize_path(path).ok /\ luxfs_tokenize_path(path).tokens # {}
                    THEN v[LastToken(path) - 1] ELSE NONE
  BY <1>1, ResolveParentIs
<1>6. \A k \in 0 .. Len(path) : w[k] \in Refs \cup {NONE}
  <2>1. \A i \in Refs : inodes[i].parent \in Refs
    BY <1>3 DEF Parents
  <2>2. \A i \in Refs, name \in Components \ {".", ".."} : luxfs_dir_find(i, name) \in Refs \cup {NONE}
    BY <1>3, FindRef DEF TypeInv
  <2> HIDE DEF Refs
  <2> QED BY <1>1, <1>2, <1>4, <2>1, <2>2, WalkInside
<1>7. \A k \in 0 .. Len(path) : v[k] \in Refs \cup {NONE}
  <2>1. \A k \in 0 .. Len(path) : v[k] \in {NONE, w[k]}
    BY <1>1, <1>4, <1>5, ParentFollows
  <2> QED BY <1>6, <2>1
<1>8. luxfs_tokenize_path(path).tokens # {} => LastToken(path) - 1 \in 0 .. Len(path)
  BY <1>1, LastTokenIs
<1> QED BY <1>1, <1>4, <1>5, <1>6, <1>7, <1>8

-----------------------------------------------------------------------------
(* How calls begin, and the machine.                                       *)

\* fs_touch and fs_mkdir answer at once or allocate an inode under the
\* directory that luxfs_resolve_parent has found.
LEMMA CreateBegins ==
  ASSUME NEW op, NEW type, NEW path, CreateCall(op, type, path)
  PROVE  /\ pc = "idle" /\ UNCHANGED <<disk, crashes, torn>>
         /\ \/ pc' = "ret" /\ UNCHANGED mem
            \/ /\ mounted /\ luxfs_resolve_parent(path) \in Inodes /\ Leaf(path) \in Names
               /\ luxfs_alloc_inode(op, type, luxfs_resolve_parent(path), Leaf(path))
<1>1. PICK missed \in SUBSET Misses(path), existing \in Found, parent \in Found, found \in Found :
       /\ ReadFaults(missed)
       /\ existing = IF "resolve" \in missed THEN NONE ELSE luxfs_resolve(path)
       /\ parent = IF "parent" \in missed THEN NONE ELSE luxfs_resolve_parent(path)
       /\ found = IF "find" \in missed \/ parent = NONE THEN NONE
                  ELSE luxfs_dir_find(parent, Leaf(path))
       /\ IF ~mounted THEN Answer(op, NONE, FALSE)
          ELSE IF existing # NONE THEN Answer(op, existing, op = "touch" /\ inodes[existing].type = "file")
          ELSE IF parent = NONE \/ Leaf(path) \notin Names THEN Answer(op, NONE, FALSE)
          ELSE IF found # NONE THEN Answer(op, found, op = "touch")
          ELSE IF FreeInodes = {} THEN Answer(op, NONE, FALSE)
          ELSE luxfs_alloc_inode(op, type, parent, Leaf(path))
  BY DEF CreateCall
<1>2. \A i, v : Answer(op, i, v) => pc' = "ret" /\ UNCHANGED mem
  BY DEF Answer
<1>3. CASE \E i, v : Answer(op, i, v)
  BY <1>2, <1>3 DEF CreateCall
<1>4. CASE /\ mounted /\ parent # NONE /\ Leaf(path) \in Names
           /\ luxfs_alloc_inode(op, type, parent, Leaf(path))
  <2>1. parent = luxfs_resolve_parent(path) /\ parent \in Inodes
    BY <1>1, <1>4 DEF Found
  <2> QED BY <1>4, <2>1 DEF CreateCall
<1> QED BY <1>1, <1>3, <1>4

\* The inode that luxfs_alloc_inode takes has no records to lose.
LEMMA KeptCreate ==
  ASSUME Intact, pc = "idle", NEW op, NEW type \in {"file", "dir"}, NEW parent \in Refs, NEW name,
         luxfs_alloc_inode(op, type, parent, name), UNCHANGED disk
  PROVE  Kept'
<1>1. PICK i \in FreeInodes :
    /\ IsFirst(i, FreeInodes)
    /\ inodes' = [inodes EXCEPT
         ![i] = [luxfs_inode_clear EXCEPT !.type = type, !.parent = parent]]
    /\ inode_bitmap' = inode_bitmap \cup {i}
    /\ c' = [NoCall EXCEPT !.op = op, !.dir = parent, !.ino = i, !.name = name]
    /\ pc' = "ai_bitmap"
    /\ UNCHANGED <<mounted, block_bitmap>>
  BY DEF luxfs_alloc_inode
<1>2. c'.ino = i /\ c'.dir = parent
  BY <1>1 DEF NoCall
<1>3. /\ i \in Inodes /\ i \notin inode_bitmap /\ mounted
      /\ UNCHANGED <<d_inode_bitmap, d_inodes, d_data>>
      /\ \A y \in Inodes : y \in Nat
  BY <1>1, Ranges DEF FreeInodes, disk, Intact
<1>4. /\ \A j \in Inodes : j # i => inodes'[j] = inodes[j]
      /\ inodes'[i].type = type /\ inodes'[i].parent = parent /\ inodes'[i].size = 0
      /\ \A k \in Slots : inodes'[i].direct[k] = INVALID
  BY <1>1, <1>3 DEF Intact, luxfs_inode_clear
<1>5. Within(i, inode_bitmap)
  <2>1. \A y \in Inodes \ inode_bitmap : i <= y
    BY <1>1 DEF IsFirst, FreeInodes
  <2> QED BY <1>3, <2>1 DEF Within
<1>6. \A x \in Refs : x \in Inodes /\ x <= i /\ (x = i \/ x \in inode_bitmap)
  <2> SUFFICES ASSUME NEW x \in Refs PROVE x \in Inodes /\ x <= i /\ (x = i \/ x \in inode_bitmap)
    OBVIOUS
  <2>1. x \in Inodes /\ Within(x, inode_bitmap)
    BY <1>3 DEF Refs
  <2>2. x <= i
    BY <1>3, <2>1 DEF Within
  <2>3. x < i => x \in inode_bitmap
    BY <1>5, <2>1 DEF Within
  <2> QED BY <1>3, <2>1, <2>2, <2>3
<1>7. \A x \in Refs : x \in Refs'
  BY <1>1, <1>2, <1>3, <1>6 DEF Refs, Within
<1>8. ~Nonempty(d_inodes[i])
  BY <1>3 DEF Intact, Kept, Marked, Grows, Grown, Nonempty, Inode
<1>9. Named'
  <2>1. \A b \in Blocks : Points(inodes', b) => Points(inodes, b)
    BY <1>4, Ranges DEF Points
  <2>2. \A b \in Blocks : Points(d_inodes', b) => Points(d_inodes, b)
    BY <1>3 DEF Points
  <2>3. mounted /\ Named
    BY DEF Intact, Kept
  <2> HIDE DEF Refs
  <2> QED BY <1>3, <1>7, <2>1, <2>2, <2>3 DEF Named, Points
<1>10. Parents'
  BY <1>1, <1>3, <1>4, <1>7 DEF Intact, Kept, Parents
<1>11. Marked'
  <2>1. ~Nonempty(inodes'[i])
    BY <1>4 DEF Nonempty
  <2> QED BY <1>1, <1>3, <1>4, <2>1 DEF Intact, Kept, Marked
<1>12. Grows'
  BY <1>1, <1>3, <1>4, <1>8 DEF Intact, Kept, Grows
<1>13. NewInode'
  BY <1>1, <1>2, <1>3, <1>4, <1>5, <1>8 DEF NewInode, Within
<1>14. NewRecord'
  BY <1>1, <1>2, <1>6 DEF NewRecord
<1> QED BY <1>9, <1>10, <1>11, <1>12, <1>13, <1>14 DEF Kept

\* A call that begins keeps the records.
LEMMA KeptCall ==
  ASSUME Intact, Call
  PROVE  Kept'
<1>0. pc = "idle"
  BY CallBegins
<1>1. ASSUME pc' \in {"ret", "rl", "wr_inode", "wr"}, pc' = "rl" => c'.op = "write", UNCHANGED <<mem, disk>>
      PROVE  Kept'
  <2>1. NewInode' /\ NewRecord' /\ ~Creating'
    BY <1>1 DEF NewInode, NewRecord, Creating, CreatePcs, FreePcs
  <2> QED BY <1>1, <2>1, QuietKeeps DEF mem, disk
<1>2. ASSUME NEW op, NEW type \in {"file", "dir"}, NEW path \in Paths, CreateCall(op, type, path)
      PROVE  Kept'
  <2>1. luxfs_resolve_parent(path) \in Inodes => luxfs_resolve_parent(path) \in Refs
    BY ResolveRef, Ranges DEF Intact, Kept
  <2> QED BY <1>0, <1>1, <1>2, <2>1, CreateBegins, KeptCreate
<1>3. ASSUME NEW path, NEW off, NEW len, NEW v, NEW t, fs_write(path, off, len, v, t)
      PROVE  Kept'
  <2>1. pc' \in {"ret", "rl", "wr_inode", "wr"} /\ UNCHANGED <<mem, disk>>
    BY <1>3 DEF fs_write, Answer
  <2>2. pc' = "rl" => c'.op = "write"
    BY <1>3 DEF fs_write, Answer, NoCall
  <2> QED BY <1>1, <2>1, <2>2
<1> QED BY <1>2, <1>3 DEF Call, fs_touch, fs_mkdir

\* Mounting takes the disk as it is; a format leaves one empty directory.
LEMMA KeptMount ==
  ASSUME TypeInv, KeptInv, fs_mount
  PROVE  KeptInv'
<1> SUFFICES ASSUME ~torn' PROVE Kept'
  BY DEF KeptInv
<1>1. pc = "off" /\ ~torn /\ ~mounted /\ UNCHANGED <<d_inode_bitmap, d_inodes, d_data>>
  BY DEF fs_mount, disk, TypeInv, CallOK, FormatPcs
<1>2. Kept
  BY <1>1 DEF KeptInv, FormatPcs
<1>3. pc' \in {"idle", "fmt_super"}
  BY DEF fs_mount
<1>4. NewInode' /\ NewRecord' /\ ~Creating'
  BY <1>3 DEF NewInode, NewRecord, Creating, CreatePcs, FreePcs
<1>5. CASE ~mounted'
  <2>1. \A x \in Refs : x \in Refs'
    BY <1>1, <1>4, <1>5 DEF Refs, Within
  <2> QED BY <1>1, <1>2, <1>4, <1>5, <2>1 DEF Kept, Named, Points, Parents, Marked, Grows
<1>6. CASE mounted'
  <2>1. inodes' = d_inodes /\ inode_bitmap' = d_inode_bitmap
    BY <1>1, <1>6 DEF fs_mount, mem
  <2>2. \A x \in Refs : x \in Refs'
    BY <1>1, <1>4, <1>6, <2>1 DEF Refs, Within
  <2>3. Named' /\ Parents'
    BY <1>1, <1>2, <1>6, <2>1, <2>2 DEF Kept, Named, Points, Parents
  <2>4. Marked' /\ Grows'
    BY <1>1, <1>2, <1>6, <2>1 DEF Kept, Marked, Grows, Grown, Nonempty, TypeInv, TypeOK, DiskType, Inode
  <2> QED BY <1>4, <2>3, <2>4 DEF Kept
<1> QED BY <1>5, <1>6

\* A format that ends leaves one empty directory, one that fails at once the old disk.
LEMMA KeptFormat ==
  ASSUME TypeInv, FormatInv, KeptInv, luxfs_format
  PROVE  KeptInv'
<1> SUFFICES ASSUME ~torn', pc' \notin FormatPcs \ {"fmt_super"} PROVE Kept'
  BY DEF KeptInv
<1>1. ~(FormatSuperblock \/ FormatInodeBitmap \/ FormatBlockBitmap)
  BY DEF FormatSuperblock, FormatInodeBitmap, FormatBlockBitmap, Goto, FormatPcs
<1>2. pc \in FormatPcs /\ ~mounted
  BY DEF luxfs_format, FormatSuperblock, FormatInodeBitmap, FormatBlockBitmap, FormatInodeTable,
     FormatFails, FormatPcs, TypeInv, CallOK
<1>3. CASE FormatFails
  <2>1. /\ pc = "fmt_super" /\ ~torn /\ pc' = "idle" /\ UNCHANGED mem
        /\ UNCHANGED <<d_inode_bitmap, d_inodes, d_data>>
    BY <1>3 DEF FormatFails, Tears, disk
  <2>2. Kept
    BY <2>1 DEF KeptInv
  <2>3. NewInode' /\ NewRecord' /\ ~Creating' /\ ~mounted'
    BY <1>2, <2>1 DEF NewInode, NewRecord, Creating, CreatePcs, FreePcs, mem
  <2>4. \A x \in Refs : x \in Refs'
    BY <2>1, <2>3 DEF Refs, Within
  <2> QED BY <2>1, <2>2, <2>3, <2>4 DEF Kept, Named, Points, Parents, Marked, Grows
<1>4. CASE FormatInodeTable
  <2>1. mounted'
    BY <1>2, <1>4 DEF FormatInodeTable, FormatPcs
  <2>2. /\ \A i \in Inodes : d_inodes'[i] = inodes[i] /\ inodes'[i] = inodes[i]
        /\ pc' = "idle" /\ c' = NoCall
    BY <1>4, <2>1, FormatDone
  <2>3. inodes = [[i \in Inodes |-> luxfs_inode_clear] EXCEPT ![Root].type = "dir"]
    BY <1>2 DEF FormatInv
  <2>4. \A i \in Inodes : /\ inodes[i].size = 0 /\ inodes[i].parent = 0
                          /\ \A k \in Slots : inodes[i].direct[k] = INVALID
    BY <2>3, Ranges DEF luxfs_inode_clear, Root
  <2>5. NewInode' /\ NewRecord' /\ ~Creating'
    BY <2>2 DEF NewInode, NewRecord, Creating, CreatePcs, FreePcs
  <2>6. 0 \in Refs'
    <3>1. 0 \in Inodes /\ \A y \in Inodes : y \in Nat
      BY Ranges
    <3>2. \A y \in Inodes : ~(y < 0)
      BY <3>1
    <3> QED BY <2>5, <3>1, <3>2 DEF Refs, Within
  <2>7. Named'
    BY <2>2, <2>4, Ranges DEF Named, Points
  <2>8. Parents'
    BY <2>2, <2>4, <2>6 DEF Parents
  <2>9. Marked' /\ Grows'
    BY <2>2, <2>4 DEF Marked, Grows, Nonempty
  <2> QED BY <2>5, <2>7, <2>8, <2>9 DEF Kept
<1> QED BY <1>1, <1>3, <1>4 DEF luxfs_format

\* Without power the disk stays as it is.
LEMMA KeptPower ==
  ASSUME KeptInv, LosePower
  PROVE  KeptInv'
<1> SUFFICES ASSUME ~torn' PROVE Kept'
  BY DEF KeptInv
<1>1. /\ ~torn /\ pc \notin FormatPcs \ {"fmt_super"} /\ pc' = "off" /\ ~mounted'
      /\ UNCHANGED <<d_inode_bitmap, d_inodes, d_data>>
  BY DEF LosePower, Tears, disk
<1>2. Kept
  BY <1>1 DEF KeptInv
<1>3. NewInode' /\ NewRecord' /\ ~Creating'
  BY <1>1 DEF NewInode, NewRecord, Creating, CreatePcs, FreePcs
<1>4. \A x \in Refs : x \in Refs'
  BY <1>1, <1>3 DEF Refs, Within
<1> QED BY <1>1, <1>2, <1>3, <1>4 DEF Kept, Named, Points, Parents, Marked, Grows

\* While nothing is mounted, calls only answer.
LEMMA KeptUnmounted ==
  ASSUME Kept, ~mounted, ~mounted', UNCHANGED <<d_inode_bitmap, d_inodes, d_data>>,
         pc' \in {"idle", "ret"}
  PROVE  Kept'
<1>1. NewInode' /\ NewRecord' /\ ~Creating'
  BY DEF NewInode, NewRecord, Creating, CreatePcs, FreePcs
<1>2. \A x \in Refs : x \in Refs'
  BY <1>1 DEF Refs, Within
<1> QED BY <1>1, <1>2 DEF Kept, Named, Points, Parents, Marked, Grows

\* The calls that begin and the steps that go on with them.
LEMMA UnmountedStep ==
  ASSUME TypeInv, ~mounted, Call \/ (Running /\ ~luxfs_format)
  PROVE  UNCHANGED disk /\ ~mounted' /\ pc \in {"idle", "ret"} /\ pc' \in {"idle", "ret"} /\ torn' = torn
<1>1. CASE Call
  <2>1. pc = "idle" /\ UNCHANGED <<mounted, disk, torn>>
    BY <1>1, CallBegins
  <2>2. pc' = "ret"
    <3>1. ASSUME NEW op, NEW type, NEW path, CreateCall(op, type, path) PROVE pc' = "ret"
      BY <3>1, CreateBegins
    <3>2. ASSUME NEW path, NEW off, NEW len, NEW v, NEW t, fs_write(path, off, len, v, t)
          PROVE  pc' = "ret"
      BY <3>2 DEF fs_write, Answer
    <3> QED BY <1>1, <3>1, <3>2 DEF Call, fs_touch, fs_mkdir
  <2> QED BY <2>1, <2>2
<1>2. CASE Running /\ ~luxfs_format
  <2>1. pc \notin CreatePcs \cup FreePcs \cup WritePcs \cup {"rl"}
    BY DEF TypeInv, CallOK
  <2>2. Returns
    BY <1>2, <2>1 DEF Running, AllocInodeBitmap, AllocInodeFlush, luxfs_dir_append_record,
       AppendRefused, AppendAllocates, AppendBlockBitmap, AppendZeroes, AppendPatches, AppendInode,
       ReleaseBlock, ReleasedForWrite, luxfs_mark_inode_free, ReleasedForFree, FreeInodeFlush,
       FreeInodeBitmap, WriteNoSpace, WriteAllocates, WriteBlockBitmap, WritePatches, WriteInode,
       CreatePcs, FreePcs, WritePcs
  <2> QED BY <2>2 DEF Returns, mem
<1> QED BY <1>1, <1>2

\* The volume is torn by a loss of power or a format that fails, only.
LEMMA TornStep ==
  ASSUME Call \/ (Running /\ ~luxfs_format)
  PROVE  torn' = torn
<1>1. CASE Call
  BY <1>1, CallBegins
<1>2. CASE Running /\ ~luxfs_format
  BY <1>2 DEF Running, AllocInodeBitmap, AllocInodeFlush, luxfs_dir_append_record,
     AppendRefused, AppendAllocates, AppendBlockBitmap, AppendZeroes, AppendPatches, AppendInode,
     ReleaseBlock, ReleasedForWrite, luxfs_mark_inode_free, ReleasedForFree, FreeInodeFlush,
     FreeInodeBitmap, WriteNoSpace, WriteAllocates, WriteBlockBitmap, WritePatches, WriteInode,
     Returns
<1> QED BY <1>1, <1>2

\* Every step keeps the records, and what they refer to.
LEMMA KeptNext ==
  ASSUME LinkInv, SolidInv, FormatInv, KeptInv, Next
  PROVE  KeptInv'
<1>0. TypeInv
  BY DEF SolidInv
<1>1. CASE fs_mount \/ luxfs_format \/ shutdown \/ Crash
  BY <1>0, <1>1, KeptMount, KeptFormat, KeptPower DEF shutdown, Crash
<1>2. CASE Call \/ (Running /\ ~luxfs_format)
  <2> SUFFICES ASSUME ~torn', pc' \notin FormatPcs \ {"fmt_super"} PROVE Kept'
    BY DEF KeptInv
  <2>1. ~torn
    BY <1>2, TornStep
  <2>2. CASE ~mounted
    <3>1. UNCHANGED disk /\ ~mounted' /\ pc \in {"idle", "ret"} /\ pc' \in {"idle", "ret"}
      BY <1>0, <1>2, <2>2, UnmountedStep
    <3>2. Kept
      BY <2>1, <3>1 DEF KeptInv, FormatPcs
    <3> QED BY <2>2, <3>1, <3>2, KeptUnmounted DEF disk
  <2>3. CASE mounted
    <3>1. Intact
      BY <2>1, <2>3, IntactStep
    <3>2. CASE Call
      BY <3>1, <3>2, KeptCall
    <3>3. CASE AllocInodeBitmap \/ AllocInodeFlush \/ luxfs_dir_append_record
      BY <3>1, <3>3, KeptAllocBitmap, KeptAllocInode, KeptRefused, KeptAppendAllocates,
         KeptAppendBitmap, KeptAppendZeroes, KeptAppendPatches, KeptAppendInode
         DEF luxfs_dir_append_record
    <3>4. CASE ReleaseBlock \/ ReleasedForWrite \/ luxfs_mark_inode_free
      BY <3>1, <3>4, KeptRelease, KeptReleasedForWrite, KeptReleasedForFree, KeptFreeFlush,
         KeptFreeBitmap DEF luxfs_mark_inode_free
    <3>5. CASE WriteNoSpace \/ WriteAllocates \/ WriteBlockBitmap \/ WritePatches \/ WriteInode
               \/ Returns
      BY <3>1, <3>5, KeptWriteQuiet, KeptWriteBitmap, KeptWritePatches, KeptWriteInode
    <3> QED BY <1>2, <3>2, <3>3, <3>4, <3>5 DEF Running
  <2> QED BY <2>2, <2>3
<1> QED BY <1>1, <1>2 DEF Next, Running

\* A blank volume has no directory.
LEMMA KeptInit == Init => KeptInv
<1> SUFFICES ASSUME Init PROVE Kept
  BY DEF KeptInv
<1>1. /\ ~mounted /\ pc = "off" /\ \A j \in Inodes : d_inodes[j].type = "free" /\ d_inodes[j].parent = 0
  BY DEF Init, ZeroInode
<1>2. ~Creating /\ NewInode /\ NewRecord
  BY <1>1 DEF Creating, CreatePcs, FreePcs, NewInode, NewRecord
<1>3. 0 \in Refs
  <2>1. 0 \in Inodes /\ \A y \in Inodes : y \in Nat
    BY Ranges
  <2>2. \A y \in Inodes : ~(y < 0)
    BY <2>1
  <2> QED BY <1>1, <1>2, <2>1, <2>2 DEF Refs, Within
<1> QED BY <1>1, <1>2, <1>3 DEF Kept, Named, Points, Parents, Marked, Nonempty, Grows

-----------------------------------------------------------------------------
(* A record that reached the disk stays there.                             *)

\* More blocks, more size and the same cells: the records are all there.
LEMMA EntriesKept ==
  ASSUME TypeOK, TypeOK',
         \A j \in Inodes : Nonempty(d_inodes[j]) => Grown(d_inodes[j], d_inodes'[j]),
         \A j \in Inodes, o \in Nat :
           /\ Nonempty(d_inodes[j]) /\ o < d_inodes[j].size /\ o \div SectorSize \in Slots
           /\ d_inodes[j].direct[o \div SectorSize] \in Blocks /\ o % SectorSize \in Units
           => CellOf(d_data', d_inodes[j], o) = CellOf(d_data, d_inodes[j], o)
  PROVE  Entries(d_inodes) \subseteq Entries(d_inodes)'
<1> SUFFICES ASSUME NEW e \in Entries(d_inodes) PROVE e \in Entries(d_inodes)'
  OBVIOUS
<1>0. PICK d \in Inodes : \E r \in DOMAIN Records(d_inodes, d) :
        e = [dir |-> d, name |-> Records(d_inodes, d)[r].name[2],
             inode |-> Records(d_inodes, d)[r].inode]
  BY DEF Entries
<1>1. PICK r \in DOMAIN Records(d_inodes, d) :
        e = [dir |-> d, name |-> Records(d_inodes, d)[r].name[2],
             inode |-> Records(d_inodes, d)[r].inode]
  BY <1>0
<1> DEFINE a == d_inodes[d]
           b == d_inodes'[d]
<1>2. a.type = "dir" /\ Records(d_inodes, d) = Iterate(d_data, a)
  <2>1. a.type = "dir"
    <3> SUFFICES ASSUME a.type # "dir" PROVE FALSE
      OBVIOUS
    <3>1. Records(d_inodes, d) = <<>>
      BY DEF Records
    <3>2. DOMAIN Records(d_inodes, d) = {}
      BY <3>1
    <3> QED BY <3>2
  <2>2. Records(d_inodes, d) = luxfs_dir_iterate(a)
    BY <2>1 DEF Records
  <2>3. luxfs_dir_iterate(a) = Iterate(d_data, a)
    BY DEF luxfs_dir_iterate, Iterate, Complete, CellAt, CellOf
  <2> QED BY <2>1, <2>2, <2>3
<1>3. a \in Inode /\ b \in Inode /\ a.size \in Nat /\ b.size \in Nat
  BY DEF TypeOK, DiskType, Inode
<1>4. r \in Complete(a)
  BY <1>1, <1>2, <1>3, Iterated
<1>5. /\ r \in Nat /\ r > 0 /\ r * RecordSize <= a.size
      /\ \A o \in {r * RecordSize - 1 - 1, r * RecordSize - 1} :
              /\ o \in Nat /\ o < a.size /\ Reachable(a, o)
              /\ o \div SectorSize \in Slots /\ a.direct[o \div SectorSize] \in Blocks
              /\ o % SectorSize \in Units
  BY <1>3, <1>4, RecordCells
<1>6. Nonempty(a)
  BY <1>2, <1>3, <1>5 DEF Nonempty, RecordSize
<1>7. Grown(a, b)
  BY <1>6
<1>8. \A o \in {r * RecordSize - 1 - 1, r * RecordSize - 1} :
        CellOf(d_data', b, o) = CellOf(d_data, a, o)
  <2> TAKE o \in {r * RecordSize - 1 - 1, r * RecordSize - 1}
  <2>1. CellOf(d_data', a, o) = CellOf(d_data, a, o)
    BY <1>5, <1>6
  <2>2. b.direct[o \div SectorSize] = a.direct[o \div SectorSize]
    BY <1>5, <1>7, Ranges DEF Grown
  <2> QED BY <2>1, <2>2 DEF CellOf
<1>9. r \in Complete(b)
  <2>1. r \in 1 .. b.size \div RecordSize
    BY <1>3, <1>5, <1>7 DEF Grown, RecordSize
  <2>2. Reachable(b, r * RecordSize - 1)
    BY <1>5, <1>7 DEF Reachable, Grown
  <2> QED BY <2>1, <2>2 DEF Complete
<1>10. Records(d_inodes, d)' = Iterate(d_data', b)
  BY <1>7 DEF Grown, Records, luxfs_dir_iterate, Iterate, Complete, CellAt, CellOf, Reachable
<1>11. r \in DOMAIN Records(d_inodes, d)'
  BY <1>3, <1>9, <1>10, Iterated
<1>12. Iterate(d_data', b)[r] = Iterate(d_data, a)[r]
  <2>1. Iterate(d_data, a)[r] =
          [inode |-> RecordInode(CellOf(d_data, a, r * RecordSize - 1 - 1)),
           name |-> CellOf(d_data, a, r * RecordSize - 1)]
    BY <1>3, <1>4, Iterated
  <2>2. Iterate(d_data', b)[r] =
          [inode |-> RecordInode(CellOf(d_data', b, r * RecordSize - 1 - 1)),
           name |-> CellOf(d_data', b, r * RecordSize - 1)]
    BY <1>3, <1>9, Iterated
  <2>3. /\ CellOf(d_data', b, r * RecordSize - 1 - 1) = CellOf(d_data, a, r * RecordSize - 1 - 1)
        /\ CellOf(d_data', b, r * RecordSize - 1) = CellOf(d_data, a, r * RecordSize - 1)
    BY <1>8
  <2> HIDE DEF a, b
  <2> QED BY <2>1, <2>2, <2>3
<1> HIDE DEF a, b
<1>13. e = [dir |-> d, name |-> Records(d_inodes, d)'[r].name[2],
            inode |-> Records(d_inodes, d)'[r].inode]
  BY <1>1, <1>2, <1>10, <1>12
<1> QED BY <1>11, <1>13 DEF Entries

\* The loop of fs_write has something left to write.
Left == pc \in {"wr", "wr_bitmap"} => c.left > 0

\* fs_write enters its loop with something to write.
LEMMA LeftCall ==
  ASSUME NEW path, NEW off \in Offsets, NEW len \in Lengths, NEW v, NEW t,
         fs_write(path, off, len, v, t)
  PROVE  Left'
<1>1. PICK missed \in SUBSET (Misses(path) \cap {"resolve"}) : \E i \in Found :
        \/ Answer("write", NONE, FALSE)
        \/ /\ c' = [NoCall EXCEPT !.op = "write", !.ino = i, !.start = off,
                                  !.trunc = t, !.off = off, !.left = len, !.val = v]
           /\ pc' = IF t THEN "rl" ELSE IF len = 0 THEN "wr_inode" ELSE "wr"
  BY DEF fs_write
<1>2. len \in Nat
  BY SizeAssumption
<1>3. PICK i \in Found :
        \/ Answer("write", NONE, FALSE)
        \/ /\ c' = [NoCall EXCEPT !.op = "write", !.ino = i, !.start = off,
                                  !.trunc = t, !.off = off, !.left = len, !.val = v]
           /\ pc' = IF t THEN "rl" ELSE IF len = 0 THEN "wr_inode" ELSE "wr"
  BY <1>1
<1>4. CASE Answer("write", NONE, FALSE)
  BY <1>4 DEF Left, Answer
<1>5. CASE /\ c' = [NoCall EXCEPT !.op = "write", !.ino = i, !.start = off,
                                 !.trunc = t, !.off = off, !.left = len, !.val = v]
           /\ pc' = IF t THEN "rl" ELSE IF len = 0 THEN "wr_inode" ELSE "wr"
  <2>1. c'.left = len
    BY <1>5 DEF NoCall
  <2>2. pc' \in {"wr", "wr_bitmap"} => len # 0
    BY <1>5
  <2> QED BY <1>2, <2>1, <2>2 DEF Left
<1> QED BY <1>3, <1>4, <1>5

\* And stays in it while something is left.
LEMMA LeftNext ==
  ASSUME TypeInv, Left, Next
  PROVE  Left'
<1>0. c \in Frame /\ c.left \in Nat
  BY DEF TypeInv, TypeOK, CallType, Frame
<1>1. CASE Call
  <2>1. ASSUME NEW path, NEW op, NEW type, CreateCall(op, type, path) PROVE Left'
    <3>1. pc' \in {"ret", "ai_bitmap"}
      BY <2>1, CreateBegins DEF luxfs_alloc_inode
    <3> QED BY <3>1 DEF Left
  <2> QED BY <1>1, <2>1, LeftCall DEF Call, fs_touch, fs_mkdir
<1>2. CASE fs_mount \/ shutdown \/ Crash \/ luxfs_format
  <2>1. pc' \notin {"wr", "wr_bitmap"}
    BY <1>2 DEF fs_mount, shutdown, Crash, LosePower, luxfs_format, FormatSuperblock, Goto,
       FormatInodeBitmap, FormatBlockBitmap, FormatInodeTable, FormatFails
  <2> QED BY <2>1 DEF Left
<1>3. CASE AllocInodeBitmap \/ AllocInodeFlush \/ luxfs_dir_append_record
  <2>1. pc' \notin {"wr", "wr_bitmap"}
    BY <1>3 DEF AllocInodeBitmap, AllocInodeFlush, luxfs_dir_append_record, AppendRefused,
       AppendAllocates, luxfs_alloc_block, AppendBlockBitmap, AppendZeroes, AppendPatches,
       AppendInode, Goto, Return
  <2> QED BY <2>1 DEF Left
<1>4. CASE ReleaseBlock \/ luxfs_mark_inode_free \/ WriteNoSpace \/ WriteInode \/ Returns
  <2>1. pc' \notin {"wr", "wr_bitmap"}
    BY <1>4 DEF ReleaseBlock, luxfs_mark_inode_free, ReleasedForFree, FreeInodeFlush,
       FreeInodeBitmap, WriteNoSpace, WriteInode, Returns, Goto, Return
  <2> QED BY <2>1 DEF Left
<1>5. CASE ReleasedForWrite
  BY <1>0, <1>5 DEF ReleasedForWrite, Left, Goto, Return
<1>6. CASE WriteAllocates
  <2>1. pc = "wr" /\ \E b : c' = [c EXCEPT !.blk = b]
    BY <1>6 DEF WriteAllocates, luxfs_alloc_block
  <2> QED BY <1>0, <2>1 DEF Left, Frame
<1>7. CASE WriteBlockBitmap
  <2>1. pc = "wr_bitmap" /\ (pc' = "ret" \/ c' = [c EXCEPT !.blk = INVALID, !.fresh = TRUE])
    BY <1>7 DEF WriteBlockBitmap, Return
  <2> QED BY <1>0, <2>1 DEF Left, Frame
<1>8. CASE WritePatches
  <2>1. \/ pc' \in {"ret", "wr_inode"}
        \/ /\ Chunk # c.left
           /\ c' = [c EXCEPT !.off = c.off + Chunk, !.left = c.left - Chunk, !.fresh = FALSE]
    <3> HIDE DEF Chunk, At, Slot
    <3> QED BY <1>8 DEF WritePatches, Return
  <2>2. Chunk \in Nat /\ Chunk <= c.left
    BY <1>0, ChunkBounds DEF TypeInv, TypeOK, CallType, Frame
  <2> HIDE DEF Chunk
  <2>3. CASE Chunk # c.left /\ c' = [c EXCEPT !.off = c.off + Chunk, !.left = c.left - Chunk, !.fresh = FALSE]
    <3>1. c'.left = c.left - Chunk
      BY <1>0, <2>3 DEF Frame
    <3> QED BY <1>0, <2>2, <2>3, <3>1 DEF Left
  <2> QED BY <2>1, <2>3 DEF Left
<1> QED BY <1>1, <1>2, <1>3, <1>4, <1>5, <1>6, <1>7, <1>8 DEF Next, Running

\* The cells below the size of a directory with records are not written.
CellsStay == \A j \in Inodes, o \in Nat :
               /\ Nonempty(d_inodes[j]) /\ o < d_inodes[j].size /\ o \div SectorSize \in Slots
               /\ d_inodes[j].direct[o \div SectorSize] \in Blocks /\ o % SectorSize \in Units
               => CellOf(d_data', d_inodes[j], o) = CellOf(d_data, d_inodes[j], o)

\* A sector write that spares the blocks of directories with records.
LEMMA CellsSpared ==
  ASSUME d_data \in [Blocks -> Sector], NEW b, NEW sector,
         d_data' = [d_data EXCEPT ![b] = sector],
         \A j \in Inodes, k \in Slots : Nonempty(d_inodes[j]) => d_inodes[j].direct[k] # b
  PROVE  CellsStay
BY DEF CellsStay, CellOf

\* Memory has the pointers of a directory with records.
LEMMA RecordPointers ==
  ASSUME Intact, NEW j \in Inodes, NEW k \in Slots, Nonempty(d_inodes[j]),
         d_inodes[j].direct[k] \in Blocks
  PROVE  inodes[j].type = "dir" /\ inodes[j].direct[k] = d_inodes[j].direct[k]
BY Ranges DEF Intact, Kept, Grows, Grown

\* luxfs_dir_append_record zeroes a block that nobody has.
LEMMA ZeroesSpare ==
  ASSUME Intact, AppendZeroes
  PROVE  CellsStay
<1>1. CASE d_data' = [d_data EXCEPT ![c.blk] = ZeroSector]
  <2>1. c.blk \in Blocks \cup {INVALID} /\ pc = "ap_zero"
    BY DEF AppendZeroes, Intact, Frame
  <2>2. \A i \in Inodes, k \in Slots : inodes[i].direct[k] # c.blk
    BY <2>1 DEF Intact, Reserved
  <2>3. CASE c.blk \in Blocks
    <3>1. \A j \in Inodes, k \in Slots : Nonempty(d_inodes[j]) => d_inodes[j].direct[k] # c.blk
      BY <2>2, <2>3, RecordPointers
    <3> QED BY <1>1, <3>1, CellsSpared DEF Intact
  <2>4. CASE c.blk \notin Blocks
    <3>1. d_data' = d_data
      BY <1>1, <2>4 DEF Intact
    <3> QED BY <3>1 DEF CellsStay
  <2> QED BY <2>3, <2>4
<1>2. CASE d_data' = d_data
  BY <1>2 DEF CellsStay
<1> QED BY <1>1, <1>2 DEF AppendZeroes, disk_write_data_block

\* fs_write writes the blocks of its file.
LEMMA WritesSpare ==
  ASSUME Intact, Left, WritePatches
  PROVE  CellsStay
<1> HIDE DEF Slot, At, Chunk
<1>1. /\ pc = "wr" /\ c.ino \in Inodes /\ inodes[c.ino].direct[Slot] # INVALID
      /\ inodes[c.ino].type = "file" /\ c.off \in Nat
  BY DEF WritePatches, Intact, TypeInv, CallOK, WritePcs, WriteOK, Writing, Frame
<1> DEFINE b == inodes[c.ino].direct[Slot]
<1>2. Slot \in Slots
  BY <1>1, WriteSlot DEF Intact, WriteOK, Writing, WritePcs, Frame, Left
<1>3. \A j \in Inodes, k \in Slots : Nonempty(d_inodes[j]) => d_inodes[j].direct[k] # b
  <2> SUFFICES ASSUME NEW j \in Inodes, NEW k \in Slots, Nonempty(d_inodes[j]),
                      d_inodes[j].direct[k] = b
               PROVE  FALSE
    OBVIOUS
  <2>1. b \in Blocks
    BY <1>1, <1>2 DEF Intact, Inode
  <2>2. inodes[j].type = "dir" /\ inodes[j].direct[k] = b
    BY <2>1, RecordPointers
  <2>3. j = c.ino
    BY <1>1, <1>2, <2>2 DEF Intact, Distinct
  <2> QED BY <1>1, <2>2, <2>3
<1>4. CASE d_data' = d_data
  BY <1>4 DEF CellsStay
<1>5. CASE \E sector : d_data' = [d_data EXCEPT ![b] = sector]
  <2> PICK sector : d_data' = [d_data EXCEPT ![b] = sector]
    BY <1>5
  <2> HIDE DEF b
  <2> QED BY <1>3, CellsSpared DEF Intact
<1> QED BY <1>4, <1>5 DEF WritePatches, disk_write_data_block

\* luxfs_dir_append_record writes behind the records of its directory.
LEMMA AppendsSpare ==
  ASSUME Intact, AppendPatches
  PROVE  CellsStay
<1> HIDE DEF Slot, At, Chunk
<1>1. /\ pc = "ap" /\ c.dir \in Inodes /\ inodes[c.dir].direct[Slot] # INVALID
      /\ inodes[c.dir].type = "dir" /\ Slot < DirectBlocks
      /\ c.off \in Nat /\ c.left \in Nat
  BY DEF AppendPatches, Intact, TypeInv, CallOK, CreatePcs, Frame
<1>2. inodes[c.dir].size \in Nat /\ inodes[c.dir].size <= c.off
  BY <1>1 DEF Intact, Inode, Kept, NewRecord
<1>3. Slot \in Slots /\ At \in Nat /\ Chunk \in Nat
  BY <1>1, ChunkBounds, SizeAssumption DEF Slots
<1> DEFINE b == inodes[c.dir].direct[Slot]
           patched == [u \in Units |-> IF u \in At .. At + Chunk - 1
                                      THEN RecordCell(RecordSize - c.left + u - At)
                                      ELSE d_data[b][u]]
<1>4. b \in Blocks
  BY <1>1, <1>3 DEF Intact, Inode
<1>5. CASE d_data' = d_data
  BY <1>5 DEF CellsStay
<1>6. CASE d_data' = [d_data EXCEPT ![b] = patched]
  <2> SUFFICES ASSUME NEW j \in Inodes, NEW o \in Nat,
                      Nonempty(d_inodes[j]), o < d_inodes[j].size, o \div SectorSize \in Slots,
                      d_inodes[j].direct[o \div SectorSize] \in Blocks, o % SectorSize \in Units
               PROVE  CellOf(d_data', d_inodes[j], o) = CellOf(d_data, d_inodes[j], o)
    BY DEF CellsStay
  <2> DEFINE k == o \div SectorSize
             u == o % SectorSize
  <2>1. CASE d_inodes[j].direct[k] # b
    BY <1>6, <2>1 DEF CellOf, Intact
  <2>2. CASE d_inodes[j].direct[k] = b
    <3>1. inodes[j].direct[k] = b
      BY <2>2, RecordPointers
    <3>2. j = c.dir /\ k = Slot
      BY <1>1, <1>3, <3>1 DEF Intact, Distinct
    <3>3. o < c.off
      <4>1. d_inodes[j].size <= inodes[j].size
        BY DEF Intact, Kept, Grows, Grown
      <4>2. d_inodes[j].size \in Nat
        BY DEF Intact, Inode
      <4> QED BY <1>1, <1>2, <3>2, <4>1, <4>2
    <3>4. u < At
      <4>1. SectorSize \in Nat \ {0}
        BY SizeAssumption
      <4>2. /\ k \in Nat /\ o = SectorSize * k + u /\ u \in Nat
            /\ c.off = SectorSize * (c.off \div SectorSize) + (c.off % SectorSize)
        <5>1. k \in Nat /\ o = SectorSize * k + u /\ u \in 0 .. SectorSize - 1
          BY <4>1, DivFacts
        <5>2. c.off = SectorSize * (c.off \div SectorSize) + (c.off % SectorSize)
          BY <1>1, <4>1, DivFacts
        <5> HIDE DEF k, u
        <5> QED BY <5>1, <5>2
      <4>3. c.off = SectorSize * k + At
        BY <3>2, <4>2 DEF Slot, At
      <4>4. SectorSize * k \in Nat
        BY <4>1, <4>2
      <4> HIDE DEF k, u
      <4> QED BY <1>3, <3>3, <4>2, <4>3, <4>4
    <3>5. patched[u] = d_data[b][u]
      <4>1. u \notin At .. At + Chunk - 1
        <5>1. u \in Nat
          BY SizeAssumption, DivFacts
        <5> HIDE DEF u
        <5> QED BY <1>3, <3>4, <5>1
      <4> QED BY <4>1
    <3>6. d_data'[b] = patched
      BY <1>4, <1>6 DEF Intact
    <3> HIDE DEF patched
    <3> QED BY <2>2, <3>5, <3>6 DEF CellOf
  <2> QED BY <2>1, <2>2
<1> QED BY <1>5, <1>6 DEF AppendPatches, disk_write_data_block

\* A step of a call writes the table from memory, a sector at a time.
LEMMA TableFlushed ==
  ASSUME Intact, Call \/ (Running /\ ~luxfs_format)
  PROVE  \A j \in Inodes : d_inodes'[j] = inodes[j] \/ d_inodes'[j] = d_inodes[j]
<1>1. CASE Call
  BY <1>1, CallBegins DEF disk
<1>2. CASE AllocInodeBitmap \/ AllocInodeFlush \/ luxfs_dir_append_record
  <2>1. pc \in CreatePcs
    BY <1>2 DEF AllocInodeBitmap, AllocInodeFlush, luxfs_dir_append_record, AppendRefused,
       AppendAllocates, AppendBlockBitmap, AppendZeroes, AppendPatches, AppendInode, CreatePcs
  <2>2. c.ino \in Inodes /\ c.dir \in Inodes
    BY <2>1 DEF Intact, TypeInv, CallOK
  <2>3. \/ UNCHANGED d_inodes
        \/ luxfs_flush_inode(c.ino) \/ luxfs_flush_inode(c.dir)
    BY <1>2 DEF AllocInodeBitmap, AllocInodeFlush, luxfs_dir_append_record, AppendRefused,
       AppendAllocates, AppendBlockBitmap, AppendZeroes, AppendPatches, AppendInode, disk
  <2> QED BY <2>2, <2>3, FlushWrites
<1>3. CASE ReleaseBlock \/ ReleasedForWrite \/ luxfs_mark_inode_free
  <2>1. pc \in FreePcs \cup {"rl"}
    BY <1>3 DEF ReleaseBlock, ReleasedForWrite, luxfs_mark_inode_free, ReleasedForFree,
       FreeInodeFlush, FreeInodeBitmap, FreePcs
  <2>2. c.ino \in Inodes
    BY <2>1 DEF Intact, TypeInv, CallOK
  <2>3. UNCHANGED d_inodes \/ luxfs_flush_inode(c.ino)
    BY <1>3 DEF ReleaseBlock, ReleasedForWrite, luxfs_mark_inode_free, ReleasedForFree,
       FreeInodeFlush, FreeInodeBitmap, disk
  <2> QED BY <2>2, <2>3, FlushWrites
<1>4. CASE WriteNoSpace \/ WriteAllocates \/ WriteBlockBitmap \/ WritePatches \/ WriteInode
           \/ Returns
  <2>1. UNCHANGED d_inodes \/ (pc = "wr_inode" /\ luxfs_flush_inode(c.ino))
    BY <1>4 DEF WriteNoSpace, WriteAllocates, WriteBlockBitmap, WritePatches, WriteInode,
       Returns, disk
  <2>2. pc = "wr_inode" => c.ino \in Inodes
    BY DEF Intact, TypeInv, CallOK, WritePcs
  <2> QED BY <2>1, <2>2, FlushWrites
<1> QED BY <1>1, <1>2, <1>3, <1>4 DEF Running

\* And of the data only what no record depends on.
LEMMA DataSpared ==
  ASSUME Intact, Left, Call \/ (Running /\ ~luxfs_format)
  PROVE  CellsStay
<1>1. CASE UNCHANGED d_data
  BY <1>1 DEF CellsStay
<1>2. CASE Call
  BY <1>1, <1>2, CallBegins DEF disk
<1>3. CASE AllocInodeBitmap \/ AllocInodeFlush \/ luxfs_dir_append_record
  <2>1. UNCHANGED d_data \/ AppendZeroes \/ AppendPatches
    BY <1>3 DEF AllocInodeBitmap, AllocInodeFlush, luxfs_dir_append_record, AppendRefused,
       AppendAllocates, AppendBlockBitmap, AppendInode, disk
  <2> QED BY <1>1, <2>1, ZeroesSpare, AppendsSpare
<1>4. CASE ReleaseBlock \/ ReleasedForWrite \/ luxfs_mark_inode_free
  <2>1. UNCHANGED d_data
    BY <1>4 DEF ReleaseBlock, ReleasedForWrite, luxfs_mark_inode_free, ReleasedForFree,
       FreeInodeFlush, FreeInodeBitmap, disk
  <2> QED BY <1>1, <2>1
<1>5. CASE WriteNoSpace \/ WriteAllocates \/ WriteBlockBitmap \/ WritePatches \/ WriteInode
           \/ Returns
  <2>1. UNCHANGED d_data \/ WritePatches
    BY <1>5 DEF WriteNoSpace, WriteAllocates, WriteBlockBitmap, WriteInode, Returns, disk
  <2> QED BY <1>1, <2>1, WritesSpare
<1> QED BY <1>2, <1>3, <1>4, <1>5 DEF Running

\* Nothing changed on disk: the same records.
LEMMA SameEntries ==
  ASSUME UNCHANGED <<d_inodes, d_data>>
  PROVE  Entries(d_inodes) \subseteq Entries(d_inodes)'
BY DEF Entries, Records, luxfs_dir_iterate, CellAt

\* One step keeps the records of the disk.
LEMMA EntriesStep ==
  ASSUME LinkInv, SolidInv, KeptInv, Left, TypeOK', Next, ~torn, pc \notin FormatPcs
  PROVE  Entries(d_inodes) \subseteq Entries(d_inodes)'
<1>0. TypeInv /\ TypeOK
  BY DEF SolidInv, TypeInv
<1>1. CASE fs_mount \/ shutdown \/ Crash
  <2>1. UNCHANGED <<d_inodes, d_data>>
    BY <1>1 DEF fs_mount, shutdown, Crash, LosePower, disk
  <2> QED BY <2>1, SameEntries
<1>2. CASE luxfs_format
  BY <1>2 DEF luxfs_format, FormatSuperblock, FormatInodeBitmap, FormatBlockBitmap,
     FormatInodeTable, FormatFails, FormatPcs
<1>3. CASE Call \/ (Running /\ ~luxfs_format)
  <2>1. CASE ~mounted
    <3>1. UNCHANGED disk
      BY <1>0, <1>3, <2>1, UnmountedStep
    <3> QED BY <3>1, SameEntries DEF disk
  <2>2. CASE mounted
    <3>1. Intact
      BY <2>2, IntactStep
    <3>2. \A j \in Inodes : Nonempty(d_inodes[j]) => Grown(d_inodes[j], d_inodes'[j])
      <4> SUFFICES ASSUME NEW j \in Inodes, Nonempty(d_inodes[j])
                   PROVE  Grown(d_inodes[j], d_inodes'[j])
        OBVIOUS
      <4>1. CASE d_inodes'[j] = inodes[j]
        BY <2>2, <3>1, <4>1 DEF Intact, Kept, Grows
      <4>2. CASE d_inodes'[j] = d_inodes[j]
        BY <3>1, <4>2 DEF Grown, Nonempty, Intact, Inode
      <4> QED BY <1>3, <3>1, <4>1, <4>2, TableFlushed
    <3>3. CellsStay
      BY <1>3, <3>1, DataSpared
    <3> QED BY <1>0, <3>2, <3>3, EntriesKept DEF CellsStay
  <2> QED BY <2>1, <2>2
<1> QED BY <1>1, <1>2, <1>3 DEF Next

\* Nothing changes, nothing is lost.
LEMMA SolidStutter ==
  ASSUME SolidInv, UNCHANGED vars
  PROVE  SolidInv'
BY DEF SolidInv, TypeInv, TypeOK, FlagType, MemType, DiskType, CallType, BudgetType, CallOK,
   MemSolid, DiskSolid, WriteOK, Writing, Truncating, CreateOK, BlockOK, vars, mem, disk

\* The same for what the records depend on.
LEMMA KeptStutter ==
  ASSUME KeptInv, UNCHANGED vars
  PROVE  KeptInv'
<1> SUFFICES ASSUME Kept PROVE Kept'
  BY DEF KeptInv, vars
<1>0. UNCHANGED <<mounted, inodes, inode_bitmap, d_inode_bitmap, d_inodes, d_data, pc, c>>
  BY DEF vars, mem, disk
<1>1. Creating' = Creating /\ Slot' = Slot
  BY <1>0 DEF Creating, Slot
<1>2. Refs' = Refs
  BY <1>0, <1>1 DEF Refs
<1> HIDE DEF Slot, Refs, Creating
<1>3. Named' /\ Parents' /\ Marked' /\ Grows'
  BY <1>0, <1>2 DEF Kept, Named, Points, Parents, Marked, Grows
<1>4. NewInode' /\ NewRecord'
  BY <1>0, <1>1 DEF Kept, NewInode, NewRecord
<1> QED BY <1>3, <1>4 DEF Kept

\* A record of a directory that has reached the disk is there for good, on a
\* volume of any size: no failed sector write, no power loss at any point and
\* no later call takes it away or changes what it names (only luxfs_format,
\* and what a reboot does to a volume whose sectors contradict each other).
\* The names of two directories share table sectors and the blocks of a
\* directory are written again and again, one part of a record at a time.
THEOREM RecordsStay == Spec => EntriesDurable
<1> DEFINE Inv == /\ LinkInv /\ DiskNeat /\ FormatInv /\ SolidInv /\ KeptInv /\ Left
           Step == ~torn /\ pc \notin FormatPcs => Entries(d_inodes) \subseteq Entries(d_inodes)'
<1>1. Init => Inv
  <2>1. Init => DiskNeat /\ Left
    BY DEF Init, DiskNeat, Left
  <2> QED BY <2>1, LinkInit, FormatInit, SolidInit, KeptInit
<1>2. Inv /\ [Next]_vars => Inv'
  <2> SUFFICES ASSUME Inv, [Next]_vars PROVE Inv'
    OBVIOUS
  <2>1. CASE Next
    <3>1. TypeInv
      BY DEF SolidInv
    <3> QED BY <2>1, <3>1, LinkNext, NeatNext, FormatNext, SolidNext, KeptNext, LeftNext
  <2>2. CASE UNCHANGED vars
    <3>1. LinkInv' /\ DiskNeat'
      BY <2>2, LinkStutter
    <3>2. FormatInv' /\ Left'
      BY <2>2 DEF FormatInv, Left, vars, mem, disk
    <3>3. SolidInv'
      BY <2>2, SolidStutter
    <3>4. KeptInv'
      BY <2>2, KeptStutter
    <3> QED BY <3>1, <3>2, <3>3, <3>4
  <2> QED BY <2>1, <2>2
<1>3. Inv /\ Inv' /\ [Next]_vars => [Step]_vars
  <2> SUFFICES ASSUME Inv, Inv', Next, ~torn, pc \notin FormatPcs
               PROVE  Entries(d_inodes) \subseteq Entries(d_inodes)'
    OBVIOUS
  <2>1. TypeOK'
    BY DEF SolidInv, TypeInv
  <2> QED BY <2>1, EntriesStep
<1> QED BY <1>1, <1>2, <1>3, PTL DEF Spec, EntriesDurable
=============================================================================
