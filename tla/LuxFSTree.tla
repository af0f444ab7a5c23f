------------------------------ MODULE LuxFSTree -----------------------------
(***************************************************************************)
(* The directories of LuxFS, for volumes of any size: the volume is a tree *)
(* at every sector write and after every power loss (TreeShaped); a name   *)
(* is listed if and only if its lookup succeeds (ListStatAgree); no inode  *)
(* is taken without a record (NoOrphans); and no directory has two records *)
(* of one name (NamesUnique).                                              *)
(***************************************************************************)
EXTENDS LuxFSProofs

\* The n-th record of a directory is its cells 2 * n and 2 * n + 1; it names x.
Even(n) == \E m \in Nat : n = 2 * m
Rows(node) == {n \in Nat : 2 * n < node.size}
Entry(data, node, n, x) == CellOf(data, node, 2 * n) = <<"ino", x>>

\* Every record names an inode that is taken and has the directory for its
\* parent, and no two records of a directory name the same inode.
Sound(data, table, bits) ==
  \A d \in Inodes : table[d].type = "dir" =>
    /\ Even(table[d].size)
    /\ \A n \in Rows(table[d]) :
         /\ \E x \in bits \ {Root} : /\ Entry(data, table[d], n, x)
                                     /\ table[x].type # "free" /\ table[x].parent = d
         /\ \E y \in Names : CellOf(data, table[d], 2 * n + 1) = <<"name", y>>
    /\ \A n, m \in Rows(table[d]) :
         CellOf(data, table[d], 2 * n) = CellOf(data, table[d], 2 * m) => n = m

\* No record names x.
Unnamed(data, table, x) ==
  \A d \in Inodes : table[d].type = "dir" =>
    \A n \in Rows(table[d]) : ~Entry(data, table[d], n, x)

\* The inode a create works on is a leaf that no record names until its own
\* is complete; the part of the record that is written is what it should be.
Making ==
  /\ Creating => c.ino # Root
  /\ pc \in CreatePcs => inodes[c.ino].type # "free" /\ inodes[c.ino].parent = c.dir
  /\ Creating /\ pc # "ap_inode" => inodes[c.ino].size = 0 /\ Unnamed(d_data, inodes, c.ino)
Begun ==
  pc \in {"ap", "ap_bitmap", "ap_zero"} /\ inodes[c.dir].type = "dir" =>
    \A o \in Nat : inodes[c.dir].size <= o /\ o < c.off =>
      CellOf(d_data, inodes[c.dir], o) = RecordCell(o - inodes[c.dir].size)

Shape == inodes[Root].type = "dir" /\ Sound(d_data, inodes, inode_bitmap) /\ Making /\ Begun
DiskShape == d_inodes[Root].type = "dir" /\ Sound(d_data, d_inodes, d_inode_bitmap)
DiskEven == \A i \in Inodes : d_inodes[i].type = "dir" => Even(d_inodes[i].size)

\* Memory is in shape while the volume is mounted, the disk while it is not.
TreeInv == faults = 0 /\ ~torn => /\ mounted => Shape
                                  /\ ~mounted /\ d_super /\ pc \notin FormatPcs => DiskShape
                                  /\ DiskEven

\* What a step of a call on a volume in shape starts from.
Whole == Intact /\ SolidInv /\ AllInOrder /\ Shape

-----------------------------------------------------------------------------
(* Facts about tables.                                                     *)

\* Fewer records, the same cells: still sound, if the inodes that are named
\* are as they were.
LEMMA SoundKept ==
  ASSUME NEW data, NEW table \in [Inodes -> Inode], NEW bits \in SUBSET Inodes,
         NEW data2, NEW table2 \in [Inodes -> Inode], NEW bits2,
         Sound(data, table, bits),
         \A d \in Inodes : table2[d].type = "dir" =>
           /\ Even(table2[d].size)
           /\ \/ table2[d].size = 0
              \/ /\ table[d].type = "dir" /\ table2[d].size <= table[d].size
                 /\ \A o \in Nat : o < table2[d].size =>
                      CellOf(data2, table2[d], o) = CellOf(data, table[d], o),
         \A x \in bits \ {Root} :
           \/ Unnamed(data, table, x)
           \/ x \in bits2 /\ table2[x].type = table[x].type /\ table2[x].parent = table[x].parent
  PROVE  Sound(data2, table2, bits2)
<1> SUFFICES ASSUME NEW d \in Inodes, table2[d].type = "dir"
             PROVE  /\ Even(table2[d].size)
                    /\ \A n \in Rows(table2[d]) :
                         /\ \E x \in bits2 \ {Root} :
                              /\ Entry(data2, table2[d], n, x)
                              /\ table2[x].type # "free" /\ table2[x].parent = d
                         /\ \E y \in Names : CellOf(data2, table2[d], 2 * n + 1) = <<"name", y>>
                    /\ \A n, m \in Rows(table2[d]) :
                         CellOf(data2, table2[d], 2 * n) = CellOf(data2, table2[d], 2 * m) => n = m
  BY DEF Sound
<1>0. table[d].size \in Nat /\ table2[d].size \in Nat
  BY DEF Inode
<1>1. Even(table2[d].size)
  OBVIOUS
<1>2. CASE table2[d].size = 0
  <2>1. Rows(table2[d]) = {}
    BY <1>2 DEF Rows
  <2> QED BY <1>1, <2>1
<1>3. CASE /\ table[d].type = "dir" /\ table2[d].size <= table[d].size
           /\ \A o \in Nat : o < table2[d].size =>
                CellOf(data2, table2[d], o) = CellOf(data, table[d], o)
  <2>1. ASSUME NEW n \in Rows(table2[d])
        PROVE  /\ n \in Rows(table[d])
               /\ CellOf(data2, table2[d], 2 * n) = CellOf(data, table[d], 2 * n)
               /\ CellOf(data2, table2[d], 2 * n + 1) = CellOf(data, table[d], 2 * n + 1)
    <3>1. n \in Nat /\ 2 * n < table2[d].size
      BY DEF Rows
    <3>2. 2 * n + 1 < table2[d].size
      BY <1>0, <1>1, <3>1 DEF Even
    <3>3. n \in Rows(table[d])
      BY <1>0, <1>3, <3>1 DEF Rows
    <3>4. 2 * n \in Nat /\ 2 * n + 1 \in Nat
      BY <3>1
    <3> QED BY <1>3, <3>1, <3>2, <3>3, <3>4
  <2>2. ASSUME NEW n \in Rows(table2[d])
        PROVE  \E x \in bits2 \ {Root} : /\ Entry(data2, table2[d], n, x)
                                         /\ table2[x].type # "free" /\ table2[x].parent = d
    <3>1. PICK x \in bits \ {Root} : /\ Entry(data, table[d], n, x)
                                     /\ table[x].type # "free" /\ table[x].parent = d
      BY <1>3, <2>1 DEF Sound
    <3>2. ~Unnamed(data, table, x)
      BY <1>3, <2>1, <3>1 DEF Unnamed
    <3>3. Entry(data2, table2[d], n, x)
      BY <2>1, <3>1 DEF Entry
    <3> QED BY <3>1, <3>2, <3>3
  <2>3. \A n \in Rows(table2[d]) :
          \E y \in Names : CellOf(data2, table2[d], 2 * n + 1) = <<"name", y>>
    BY <1>3, <2>1 DEF Sound
  <2>4. \A n, m \in Rows(table2[d]) :
          CellOf(data2, table2[d], 2 * n) = CellOf(data2, table2[d], 2 * m) => n = m
    BY <1>3, <2>1 DEF Sound
  <2> QED BY <1>1, <2>2, <2>3, <2>4
<1> QED BY <1>2, <1>3

\* What nobody names before, nobody names after.
LEMMA UnnamedKept ==
  ASSUME NEW data, NEW table \in [Inodes -> Inode], NEW data2, NEW table2 \in [Inodes -> Inode],
         NEW x, Unnamed(data, table, x),
         \A d \in Inodes : table2[d].type = "dir" =>
           \/ table2[d].size = 0
           \/ /\ table[d].type = "dir" /\ table2[d].size <= table[d].size
              /\ \A o \in Nat : o < table2[d].size =>
                   CellOf(data2, table2[d], o) = CellOf(data, table[d], o)
  PROVE  Unnamed(data2, table2, x)
<1> SUFFICES ASSUME NEW d \in Inodes, table2[d].type = "dir", NEW n \in Rows(table2[d]),
                    Entry(data2, table2[d], n, x)
             PROVE  FALSE
  BY DEF Unnamed
<1>0. table[d].size \in Nat /\ table2[d].size \in Nat /\ n \in Nat /\ 2 * n < table2[d].size
  BY DEF Inode, Rows
<1>1. table[d].type = "dir" /\ n \in Rows(table[d])
  BY <1>0 DEF Rows
<1>2. Entry(data, table[d], n, x)
  <2>1. 2 * n \in Nat /\ table2[d].size # 0
    BY <1>0
  <2> QED BY <1>0, <2>1 DEF Entry
<1> QED BY <1>1, <1>2 DEF Unnamed

\* An inode that is not taken is not named.
LEMMA UntakenUnnamed ==
  ASSUME NEW data, NEW table, NEW bits, Sound(data, table, bits), NEW x, x \notin bits \ {Root}
  PROVE  Unnamed(data, table, x)
<1> SUFFICES ASSUME NEW d \in Inodes, table[d].type = "dir", NEW n \in Rows(table[d]),
                    Entry(data, table[d], n, x)
             PROVE  FALSE
  BY DEF Unnamed
<1>1. PICK y \in bits \ {Root} : Entry(data, table[d], n, y)
  BY DEF Sound
<1> QED BY <1>1 DEF Entry

\* The offsets of a directory in memory have their blocks.
LEMMA CoveredCell ==
  ASSUME NEW node \in Inode, NEW n, CoveredTo(node, n), NEW o \in Nat, o < n
  PROVE  o \div SectorSize \in Slots /\ node.direct[o \div SectorSize] \in Blocks
<1>1. o \div SectorSize \in Slots /\ node.direct[o \div SectorSize] # INVALID
  BY DEF CoveredTo
<1> QED BY <1>1 DEF Inode

-----------------------------------------------------------------------------
(* Steps that leave the directories alone.                                 *)

\* A directory in memory has a block for every record.
LEMMA MemCovered ==
  ASSUME Whole, NEW d \in Inodes, inodes[d].type = "dir"
  PROVE  CoveredTo(inodes[d], inodes[d].size)
<1>1. CASE pc = "rl" /\ d = c.ino
  <2>1. c.op # "write"
    BY <1>1 DEF Whole, Intact, WriteOK, Writing, Truncating
  <2>2. inodes[d].size = 0
    BY <1>1, <2>1 DEF Whole, Shape, Making, Creating
  <2> QED BY <2>2, CoveredNone
<1>2. CASE ~(pc = "rl" /\ d = c.ino)
  BY <1>2 DEF Whole, AllInOrder, Directories, Covered
<1> QED BY <1>1, <1>2

\* No create is under way afterwards.
LEMMA ShapeEnds ==
  ASSUME Whole, UNCHANGED <<inodes, inode_bitmap, d_data>>, ~Creating'
  PROVE  Shape'
<1>1. Making' /\ Begun'
  BY DEF Making, Begun, Creating, CreatePcs
<1>2. Sound(d_data, inodes, inode_bitmap)'
  BY DEF Whole, Shape
<1> QED BY <1>1, <1>2 DEF Whole, Shape

\* A create goes on, with no record written.
LEMMA ShapeGoesOn ==
  ASSUME Whole, UNCHANGED <<inodes, inode_bitmap, d_data>>,
         Creating, pc # "ap_inode", c'.ino = c.ino, c'.dir = c.dir, c'.name = c.name,
         pc' \in CreatePcs => pc \in CreatePcs,
         pc' \in {"ap", "ap_bitmap", "ap_zero"} =>
           \/ pc \in {"ap", "ap_bitmap", "ap_zero"} /\ c'.off = c.off
           \/ c'.off = inodes[c.dir].size /\ inodes[c.dir].size \in Nat
  PROVE  Shape'
<1>1. Making'
  BY DEF Whole, Shape, Making, Unnamed, Entry
<1>2. Begun'
  <2> SUFFICES ASSUME pc' \in {"ap", "ap_bitmap", "ap_zero"}, inodes[c.dir].type = "dir",
                      NEW o \in Nat, inodes[c.dir].size <= o, o < c'.off
               PROVE  CellOf(d_data, inodes[c.dir], o) = RecordCell(o - inodes[c.dir].size)'
    BY DEF Begun
  <2>1. pc \in {"ap", "ap_bitmap", "ap_zero"} /\ c'.off = c.off
    OBVIOUS
  <2>2. CellOf(d_data, inodes[c.dir], o) = RecordCell(o - inodes[c.dir].size)
    BY <2>1 DEF Whole, Shape, Begun
  <2> QED BY <2>2 DEF RecordCell
<1>3. Sound(d_data, inodes, inode_bitmap)'
  BY DEF Whole, Shape
<1> QED BY <1>1, <1>2, <1>3 DEF Whole, Shape

\* The two sectors of a new inode.
LEMMA ShapeAlloc ==
  ASSUME Whole, Succeeds, AllocInodeBitmap \/ AllocInodeFlush
  PROVE  Shape'
<1>0. ~Fails
  <2>1. faults' = faults /\ faults \in Nat
    BY DEF Succeeds, Whole, Intact, TypeInv, TypeOK, BudgetType
  <2> QED BY <2>1 DEF Fails
<1>1. CASE AllocInodeBitmap
  <2>1. /\ pc = "ai_bitmap" /\ pc' = "ai_inode" /\ c' = c
        /\ UNCHANGED <<inodes, inode_bitmap, d_data>>
    BY <1>0, <1>1 DEF AllocInodeBitmap, Goto, mem
  <2> QED BY <2>1, ShapeGoesOn DEF Creating, CreatePcs
<1>2. CASE AllocInodeFlush
  <2>1. /\ pc = "ai_inode" /\ pc' = "ap"
        /\ c' = [c EXCEPT !.off = inodes[c.dir].size, !.left = RecordSize]
        /\ UNCHANGED <<inodes, inode_bitmap, d_data>>
    BY <1>0, <1>2 DEF AllocInodeFlush, mem
  <2>2. c'.ino = c.ino /\ c'.dir = c.dir /\ c'.name = c.name /\ c'.off = inodes[c.dir].size
    BY <2>1 DEF Whole, Intact, Frame
  <2>3. inodes[c.dir].size \in Nat
    <3>1. c.dir \in Inodes
      BY <2>1 DEF Whole, Intact, TypeInv, CallOK, CreatePcs
    <3> QED BY <3>1 DEF Whole, Intact, Inode
  <2> QED BY <2>1, <2>2, <2>3, ShapeGoesOn DEF Creating, CreatePcs
<1> QED BY <1>1, <1>2

\* Asking for a block of the directory, and the last sector of a create.
LEMMA ShapeAppend ==
  ASSUME Whole, Succeeds,
         AppendRefused \/ AppendAllocates \/ AppendBlockBitmap \/ AppendInode
  PROVE  Shape'
<1>0. faults' = faults /\ faults \in Nat
  BY DEF Succeeds, Whole, Intact, TypeInv, TypeOK, BudgetType
<1>1. CASE AppendRefused
  <2>1. pc = "ap" /\ pc' = "rl" /\ c' = c /\ UNCHANGED <<inodes, inode_bitmap, d_data>>
    BY <1>1 DEF AppendRefused, Goto, mem, disk
  <2> QED BY <2>1, ShapeGoesOn DEF Creating, CreatePcs
<1>2. CASE AppendAllocates
  <2>1. /\ pc = "ap" /\ pc' = "ap_bitmap" /\ UNCHANGED <<inodes, inode_bitmap, d_data>>
        /\ \E b : c' = [c EXCEPT !.blk = b]
    BY <1>2 DEF AppendAllocates, luxfs_alloc_block, disk
  <2>2. c'.ino = c.ino /\ c'.dir = c.dir /\ c'.name = c.name /\ c'.off = c.off
    BY <2>1 DEF Whole, Intact, Frame
  <2> QED BY <2>1, <2>2, ShapeGoesOn DEF Creating, CreatePcs
<1>3. CASE AppendBlockBitmap
  <2>1. pc = "ap_bitmap" /\ pc' = "ap_zero" /\ c' = c /\ UNCHANGED <<inodes, inode_bitmap, d_data>>
    BY <1>0, <1>3 DEF AppendBlockBitmap, Fails, Goto, mem
  <2> QED BY <2>1, ShapeGoesOn DEF Creating, CreatePcs
<1>4. CASE AppendInode
  <2>1. pc' = "ret" /\ UNCHANGED <<inodes, inode_bitmap, d_data>>
    BY <1>0, <1>4 DEF AppendInode, Fails, Return, mem
  <2> QED BY <2>1, ShapeEnds DEF Creating, CreatePcs, FreePcs
<1> QED BY <1>1, <1>2, <1>3, <1>4

\* The sectors of an inode that is given back, and the quiet steps of fs_write.
LEMMA ShapeQuiet ==
  ASSUME Whole, FreeInodeFlush \/ FreeInodeBitmap \/ WriteNoSpace \/ WriteAllocates
                \/ WriteInode \/ Returns
  PROVE  Shape'
<1>1. CASE FreeInodeFlush
  <2>1. pc = "un_inode" /\ pc' = "un_bitmap" /\ c' = c /\ UNCHANGED <<inodes, inode_bitmap, d_data>>
    BY <1>1 DEF FreeInodeFlush, Goto, mem
  <2> QED BY <2>1, ShapeGoesOn DEF Creating, CreatePcs, FreePcs
<1>2. CASE FreeInodeBitmap \/ WriteNoSpace \/ WriteAllocates \/ WriteInode \/ Returns
  <2>1. pc' \in {"ret", "wr_bitmap", "idle"} /\ UNCHANGED <<inodes, inode_bitmap, d_data>>
    BY <1>2 DEF FreeInodeBitmap, WriteNoSpace, WriteAllocates, luxfs_alloc_block, WriteInode,
       Returns, Return, mem, disk
  <2> QED BY <2>1, ShapeEnds DEF Creating, CreatePcs, FreePcs
<1> QED BY <1>1, <1>2

-----------------------------------------------------------------------------
(* Steps that change an inode or a sector.                                 *)

\* The inodes of directories and the cells of their records stay as they are.
Spared == \A d \in Inodes : inodes'[d].type = "dir" =>
            \/ inodes'[d].size = 0
            \/ /\ inodes[d].type = "dir" /\ inodes'[d].size = inodes[d].size
               /\ \A o \in Nat : o < inodes[d].size =>
                    CellOf(d_data', inodes'[d], o) = CellOf(d_data, inodes[d], o)

\* A step that spares the records keeps the table sound, if what they name stays.
LEMMA SparedSound ==
  ASSUME Whole, inodes' \in [Inodes -> Inode], Spared,
         \A x \in inode_bitmap \ {Root} :
           \/ Unnamed(d_data, inodes, x)
           \/ /\ x \in inode_bitmap' /\ inodes'[x].type = inodes[x].type
              /\ inodes'[x].parent = inodes[x].parent
  PROVE  /\ Sound(d_data, inodes, inode_bitmap)'
         /\ \A x : Unnamed(d_data, inodes, x) => Unnamed(d_data', inodes', x)
<1>1. Even(0)
  BY DEF Even
<1>2. \A d \in Inodes : inodes'[d].type = "dir" =>
        /\ Even(inodes'[d].size)
        /\ \/ inodes'[d].size = 0
           \/ /\ inodes[d].type = "dir" /\ inodes'[d].size <= inodes[d].size
              /\ \A o \in Nat : o < inodes'[d].size =>
                   CellOf(d_data', inodes'[d], o) = CellOf(d_data, inodes[d], o)
  <2> SUFFICES ASSUME NEW d \in Inodes, inodes'[d].type = "dir", inodes'[d].size # 0
               PROVE  /\ Even(inodes'[d].size)
                      /\ inodes[d].type = "dir" /\ inodes'[d].size <= inodes[d].size
                      /\ \A o \in Nat : o < inodes'[d].size =>
                           CellOf(d_data', inodes'[d], o) = CellOf(d_data, inodes[d], o)
    BY <1>1
  <2>1. /\ inodes[d].type = "dir" /\ inodes'[d].size = inodes[d].size
        /\ \A o \in Nat : o < inodes[d].size =>
             CellOf(d_data', inodes'[d], o) = CellOf(d_data, inodes[d], o)
    BY DEF Spared
  <2>2. Even(inodes[d].size)
    BY <2>1 DEF Whole, Shape, Sound
  <2>3. inodes[d].size \in Nat
    BY DEF Whole, Intact, Inode
  <2> QED BY <2>1, <2>2, <2>3
<1>3. inodes \in [Inodes -> Inode] /\ inode_bitmap \in SUBSET Inodes
      /\ Sound(d_data, inodes, inode_bitmap)
  BY DEF Whole, Intact, Shape
<1>4. Sound(d_data', inodes', inode_bitmap')
  BY <1>2, <1>3, SoundKept
<1>5. \A x : Unnamed(d_data, inodes, x) => Unnamed(d_data', inodes', x)
  BY <1>2, <1>3, UnnamedKept
<1> QED BY <1>4, <1>5

\* One inode changes that is a file or has no records.
LEMMA ShapeTable ==
  ASSUME Whole, inodes' \in [Inodes -> Inode], UNCHANGED <<inode_bitmap, d_data>>,
         NEW w \in Inodes, \A i \in Inodes : i # w => inodes'[i] = inodes[i],
         inodes'[w].type = inodes[w].type, inodes'[w].parent = inodes[w].parent,
         inodes[w].type = "dir" => inodes'[w].size = 0,
         pc' \notin CreatePcs,
         Creating' => Creating /\ pc # "ap_inode" /\ c'.ino = c.ino /\ inodes'[c.ino].size = 0
  PROVE  Shape'
<1>1. Spared
  BY DEF Spared
<1>2. \A x \in inode_bitmap \ {Root} :
        /\ x \in inode_bitmap' /\ inodes'[x].type = inodes[x].type
        /\ inodes'[x].parent = inodes[x].parent
  BY DEF Whole, Intact
<1>3. /\ Sound(d_data, inodes, inode_bitmap)'
      /\ \A x : Unnamed(d_data, inodes, x) => Unnamed(d_data', inodes', x)
  BY <1>1, <1>2, SparedSound
<1>4. Making'
  BY <1>3 DEF Whole, Shape, Making
<1>5. Begun'
  BY DEF Begun, CreatePcs
<1>6. inodes'[Root].type = "dir"
  BY Ranges DEF Whole, Shape, Root
<1> QED BY <1>3, <1>4, <1>5, <1>6 DEF Shape

\* A block of a file that is truncated, or of an inode that is given back.
LEMMA ShapeRelease ==
  ASSUME Whole, MemType', ReleaseBlock
  PROVE  Shape'
<1>1. /\ pc = "rl" /\ pc' = "rl" /\ c.ino \in Inodes /\ UNCHANGED <<inode_bitmap, d_data>>
      /\ \E k : inodes' = [inodes EXCEPT ![c.ino].direct[k] = INVALID]
      /\ c' = c \/ c' = [c EXCEPT !.ok = FALSE]
  BY DEF ReleaseBlock, Whole, Intact, TypeInv, CallOK
<1>2. c'.ino = c.ino /\ c'.op = c.op
  BY <1>1 DEF Whole, Intact, Frame
<1>3. /\ \A i \in Inodes : i # c.ino => inodes'[i] = inodes[i]
      /\ inodes'[c.ino].type = inodes[c.ino].type
      /\ inodes'[c.ino].size = inodes[c.ino].size
      /\ inodes'[c.ino].parent = inodes[c.ino].parent
  <2>1. PICK k : inodes' = [inodes EXCEPT ![c.ino].direct[k] = INVALID]
    BY <1>1
  <2>2. inodes \in [Inodes -> Inode]
    BY DEF Whole, Intact
  <2> QED BY <1>1, <2>1, <2>2, RepointFields, RepointParent
<1>4. c.op = "write" => inodes[c.ino].type = "file"
  BY <1>1 DEF Whole, Intact, WriteOK, Writing, Truncating
<1>5. c.op # "write" => inodes[c.ino].size = 0
  BY <1>1 DEF Whole, Shape, Making, Creating
<1>6. Creating' => c.op # "write" /\ Creating
  BY <1>1, <1>2 DEF Creating, CreatePcs, FreePcs
<1>7. inodes' \in [Inodes -> Inode]
  BY DEF MemType
<1> QED BY <1>1, <1>2, <1>3, <1>4, <1>5, <1>6, <1>7, ShapeTable DEF CreatePcs

\* fs_write goes on after the truncation.
LEMMA ShapeReleasedForWrite ==
  ASSUME Whole, MemType', ReleasedForWrite
  PROVE  Shape'
<1>1. /\ pc = "rl" /\ pc' \in {"ret", "wr", "wr_inode"} /\ c.ino \in Inodes
      /\ UNCHANGED <<inode_bitmap, d_data>> /\ inodes' = [inodes EXCEPT ![c.ino].size = 0]
  BY DEF ReleasedForWrite, Return, Goto, disk, Whole, Intact, TypeInv, CallOK
<1>2. inodes \in [Inodes -> Inode] /\ inodes' \in [Inodes -> Inode]
  BY DEF Whole, Intact, MemType
<1>3. /\ \A i \in Inodes : i # c.ino => inodes'[i] = inodes[i]
      /\ inodes'[c.ino].type = inodes[c.ino].type
      /\ inodes'[c.ino].size = 0
      /\ inodes'[c.ino].parent = inodes[c.ino].parent
  BY <1>1, <1>2, ResizeFields, RepointParent
<1> QED BY <1>1, <1>2, <1>3, ShapeTable DEF CreatePcs, Creating, FreePcs

\* A file gets a block.
LEMMA ShapeWriteBitmap ==
  ASSUME Whole, MemType', Succeeds, WriteBlockBitmap
  PROVE  Shape'
<1>0. ~Fails
  <2>1. faults' = faults /\ faults \in Nat
    BY DEF Succeeds, Whole, Intact, TypeInv, TypeOK, BudgetType
  <2> QED BY <2>1 DEF Fails
<1>1. /\ pc = "wr_bitmap" /\ pc' = "wr" /\ c.ino \in Inodes /\ inodes[c.ino].type = "file"
      /\ UNCHANGED <<inode_bitmap, d_data>>
      /\ \E k, b : inodes' = [inodes EXCEPT ![c.ino].direct[k] = b]
  BY <1>0 DEF WriteBlockBitmap, Whole, Intact, TypeInv, CallOK, WritePcs, WriteOK, Writing
<1>2. inodes \in [Inodes -> Inode] /\ inodes' \in [Inodes -> Inode]
  BY DEF Whole, Intact, MemType
<1>3. /\ \A i \in Inodes : i # c.ino => inodes'[i] = inodes[i]
      /\ inodes'[c.ino].type = inodes[c.ino].type
      /\ inodes'[c.ino].parent = inodes[c.ino].parent
  BY <1>1, <1>2, RepointFields, RepointParent
<1> QED BY <1>1, <1>2, <1>3, ShapeTable DEF CreatePcs, Creating, FreePcs

\* A new inode that could not be entered is given back.
LEMMA ShapeReleasedForFree ==
  ASSUME Whole, MemType', ReleasedForFree
  PROVE  Shape'
<1>1. /\ pc = "rl" /\ pc' = "un_inode" /\ c.ino \in Inodes /\ c.op # "write" /\ c' = c
      /\ UNCHANGED d_data
      /\ inodes' = [inodes EXCEPT ![c.ino] = luxfs_inode_clear]
      /\ inode_bitmap' = inode_bitmap \ {c.ino}
  BY DEF ReleasedForFree, Goto, disk, Whole, Intact, TypeInv, CallOK
<1>2. inodes \in [Inodes -> Inode] /\ inodes' \in [Inodes -> Inode]
  BY DEF Whole, Intact, MemType
<1>3. /\ \A i \in Inodes : i # c.ino => inodes'[i] = inodes[i]
      /\ inodes'[c.ino] = luxfs_inode_clear
  BY <1>1, <1>2
<1>4. inodes'[c.ino].type = "free" /\ inodes'[c.ino].size = 0
  BY <1>3 DEF luxfs_inode_clear
<1>5. c.ino # Root /\ Unnamed(d_data, inodes, c.ino)
  BY <1>1 DEF Whole, Shape, Making, Creating
<1>6. Spared
  BY <1>1, <1>3, <1>4 DEF Spared
<1>7. \A x \in inode_bitmap \ {Root} :
        \/ Unnamed(d_data, inodes, x)
        \/ /\ x \in inode_bitmap' /\ inodes'[x].type = inodes[x].type
           /\ inodes'[x].parent = inodes[x].parent
  BY <1>1, <1>3, <1>5 DEF Whole, Intact
<1>8. /\ Sound(d_data, inodes, inode_bitmap)'
      /\ \A x : Unnamed(d_data, inodes, x) => Unnamed(d_data', inodes', x)
  BY <1>2, <1>6, <1>7, SparedSound
<1>9. Making'
  BY <1>1, <1>4, <1>5, <1>8 DEF Making, CreatePcs
<1>10. Begun'
  BY <1>1 DEF Begun
<1>11. inodes'[Root].type = "dir"
  BY <1>3, <1>5, Ranges DEF Whole, Shape, Root
<1> QED BY <1>8, <1>9, <1>10, <1>11 DEF Shape

\* A create begins: its inode is one that nobody names.
LEMMA ShapeCreate ==
  ASSUME Whole, MemType', UNCHANGED d_data, NEW op, NEW type \in {"file", "dir"},
         NEW parent \in Inodes, NEW name, luxfs_alloc_inode(op, type, parent, name)
  PROVE  Shape'
<1>1. PICK i \in FreeInodes :
        /\ inodes' = [inodes EXCEPT
             ![i] = [luxfs_inode_clear EXCEPT !.type = type, !.parent = parent]]
        /\ inode_bitmap' = inode_bitmap \cup {i}
        /\ c' = [NoCall EXCEPT !.op = op, !.dir = parent, !.ino = i, !.name = name]
        /\ pc' = "ai_bitmap"
  BY DEF luxfs_alloc_inode
<1>2. i \in Inodes /\ i \notin inode_bitmap
  BY DEF FreeInodes
<1>3. inodes \in [Inodes -> Inode] /\ inodes' \in [Inodes -> Inode]
  BY DEF Whole, Intact, MemType
<1>4. /\ \A j \in Inodes : j # i => inodes'[j] = inodes[j]
      /\ inodes'[i].type = type /\ inodes'[i].parent = parent /\ inodes'[i].size = 0
  <2>1. inodes'[i] = [luxfs_inode_clear EXCEPT !.type = type, !.parent = parent]
    BY <1>1, <1>2, <1>3
  <2> QED BY <1>1, <1>2, <1>3, <2>1 DEF luxfs_inode_clear
<1>5. c'.ino = i /\ c'.dir = parent
  BY <1>1 DEF NoCall
<1>6. Unnamed(d_data, inodes, i)
  BY <1>2, UntakenUnnamed DEF Whole, Shape
<1>7. i # Root
  <2>1. Root \in inode_bitmap
    BY Ranges DEF Whole, Shape, AllInOrder, Taken, Root, Intact
  <2> QED BY <1>2, <2>1
<1>8. Spared
  BY <1>4 DEF Spared
<1>9. \A x \in inode_bitmap \ {Root} :
        /\ x \in inode_bitmap' /\ inodes'[x].type = inodes[x].type
        /\ inodes'[x].parent = inodes[x].parent
  BY <1>1, <1>2, <1>4 DEF Whole, Intact
<1>10. /\ Sound(d_data, inodes, inode_bitmap)'
       /\ \A x : Unnamed(d_data, inodes, x) => Unnamed(d_data', inodes', x)
  BY <1>3, <1>8, <1>9, SparedSound
<1>11. Making'
  BY <1>1, <1>4, <1>5, <1>6, <1>7, <1>10 DEF Making
<1>12. Begun'
  BY <1>1 DEF Begun
<1>13. inodes'[Root].type = "dir"
  BY <1>4, <1>7, Ranges DEF Whole, Shape, Root
<1> QED BY <1>10, <1>11, <1>12, <1>13 DEF Shape

-----------------------------------------------------------------------------
(* Steps that write a data sector.                                         *)

\* fs_write fills a block of its file, and no directory has that block.
LEMMA FileCells ==
  ASSUME Intact, Left, WritePatches, NEW d \in Inodes, inodes[d].type = "dir", NEW o \in Nat,
         o \div SectorSize \in Slots, inodes[d].direct[o \div SectorSize] \in Blocks
  PROVE  CellOf(d_data', inodes[d], o) = CellOf(d_data, inodes[d], o)
<1> HIDE DEF Slot, At, Chunk
<1>1. /\ pc = "wr" /\ c.ino \in Inodes
      /\ inodes[c.ino].type = "file" /\ inodes[c.ino].direct[Slot] # INVALID
  BY DEF WritePatches, Intact, TypeInv, CallOK, WritePcs, WriteOK, Writing
<1>2. Slot \in Slots
  BY <1>1, WriteSlot DEF Intact, WriteOK, Writing, WritePcs, Frame, Left
<1> DEFINE b == inodes[c.ino].direct[Slot]
<1>3. d_data' = d_data \/ \E sector : d_data' = [d_data EXCEPT ![b] = sector]
  BY DEF WritePatches, disk_write_data_block
<1>4. inodes[d].direct[o \div SectorSize] # b
  BY <1>1, <1>2 DEF Intact, Distinct
<1> HIDE DEF b
<1> QED BY <1>3, <1>4 DEF CellOf, Intact

\* So no record is written over.
LEMMA FileSpared ==
  ASSUME Whole, WritePatches
  PROVE  \A d \in Inodes, o \in Nat : inodes[d].type = "dir" /\ o < inodes[d].size =>
           CellOf(d_data', inodes[d], o) = CellOf(d_data, inodes[d], o)
<1>1. Intact /\ Left /\ inodes \in [Inodes -> Inode]
  BY DEF Whole, Intact, AllInOrder, Locals, Left
<1> SUFFICES ASSUME NEW d \in Inodes, inodes[d].type = "dir", NEW o \in Nat, o < inodes[d].size
             PROVE  CellOf(d_data', inodes[d], o) = CellOf(d_data, inodes[d], o)
  OBVIOUS
<1>2. CoveredTo(inodes[d], inodes[d].size)
  BY MemCovered
<1>3. o \div SectorSize \in Slots /\ inodes[d].direct[o \div SectorSize] \in Blocks
  BY <1>1, <1>2, CoveredCell
<1> QED BY <1>1, <1>3, FileCells

\* fs_write writes blocks of its file, so no cell of a directory.
LEMMA ShapeWritePatches ==
  ASSUME Whole, MemType', WritePatches
  PROVE  Shape'
<1> HIDE DEF Slot, At, Chunk
<1>1. /\ pc = "wr" /\ pc' \in {"ret", "wr", "wr_inode"} /\ c.ino \in Inodes
      /\ inodes[c.ino].type = "file" /\ inodes[c.ino].direct[Slot] # INVALID
      /\ UNCHANGED inode_bitmap
  BY DEF WritePatches, Return, Whole, Intact, TypeInv, CallOK, WritePcs, WriteOK, Writing
<1>2. inodes \in [Inodes -> Inode] /\ inodes' \in [Inodes -> Inode]
  BY DEF Whole, Intact, MemType
<1>3. /\ \A j \in Inodes : j # c.ino => inodes'[j] = inodes[j]
      /\ inodes'[c.ino].type = inodes[c.ino].type
      /\ inodes'[c.ino].parent = inodes[c.ino].parent
  <2>1. \/ inodes' = inodes
        \/ \E n : inodes' = [inodes EXCEPT ![c.ino].size = n]
    BY DEF WritePatches
  <2>2. ASSUME NEW n, inodes' = [inodes EXCEPT ![c.ino].size = n]
        PROVE  /\ \A j \in Inodes : j # c.ino => inodes'[j] = inodes[j]
               /\ inodes'[c.ino].type = inodes[c.ino].type
               /\ inodes'[c.ino].parent = inodes[c.ino].parent
    BY <1>1, <1>2, <2>2, ResizeFields, RepointParent
  <2> QED BY <2>1, <2>2
<1>6. Spared
  BY <1>1, <1>3, FileSpared DEF Spared
<1>7. \A x \in inode_bitmap \ {Root} :
        /\ x \in inode_bitmap' /\ inodes'[x].type = inodes[x].type
        /\ inodes'[x].parent = inodes[x].parent
  BY <1>1, <1>3 DEF Whole, Intact
<1>8. Sound(d_data, inodes, inode_bitmap)'
  BY <1>2, <1>6, <1>7, SparedSound
<1>9. Making' /\ Begun'
  BY <1>1 DEF Making, Begun, Creating, CreatePcs, FreePcs
<1>10. inodes'[Root].type = "dir"
  BY <1>1, <1>3, Ranges DEF Whole, Shape, Root
<1> QED BY <1>8, <1>9, <1>10 DEF Shape

\* The block luxfs_dir_append_record zeroes and gives to its directory was
\* nobody's: the cells that the directories had stay as they are.
LEMMA ZeroesKeep ==
  ASSUME Intact, Succeeds, AppendZeroes,
         NEW d \in Inodes, NEW o \in Nat, o \div SectorSize \in Slots,
         inodes[d].direct[o \div SectorSize] \in Blocks
  PROVE  CellOf(d_data', inodes'[d], o) = CellOf(d_data, inodes[d], o)
<1> HIDE DEF Slot
<1> DEFINE k == o \div SectorSize
<1>0. ~Fails
  <2>1. faults' = faults /\ faults \in Nat
    BY DEF Succeeds, Intact, TypeInv, TypeOK, BudgetType
  <2> QED BY <2>1 DEF Fails
<1>1. /\ pc = "ap_zero" /\ c.dir \in Inodes
      /\ d_data' = [d_data EXCEPT ![c.blk] = ZeroSector]
      /\ inodes' = [inodes EXCEPT ![c.dir].direct[Slot] = c.blk]
  BY <1>0 DEF AppendZeroes, disk_write_data_block, Intact, TypeInv, CallOK, CreatePcs
<1>2. inodes \in [Inodes -> Inode] /\ c.blk \in Blocks
  BY <1>1 DEF Intact, Reserved, TypeInv, TypeOK, MemType
<1>3. inodes[c.dir].direct[Slot] = INVALID
  BY <1>1 DEF Intact, Kept, NewRecord
<1>4. \A i \in Inodes, l \in Slots : inodes'[i].direct[l] =
        IF i = c.dir /\ l = Slot THEN c.blk ELSE inodes[i].direct[l]
  <2>1. \A i \in Inodes, l \in Slots : [inodes EXCEPT ![c.dir].direct[Slot] = c.blk][i].direct[l] =
          IF i = c.dir /\ l = Slot THEN c.blk ELSE inodes[i].direct[l]
    BY <1>1, <1>2 DEF Inode
  <2> QED BY <1>1, <2>1
<1>5. inodes[d].direct[k] # c.blk
  BY <1>1 DEF Intact, Reserved
<1>6. inodes'[d].direct[k] = inodes[d].direct[k]
  BY <1>3, <1>4, Ranges
<1>7. d_data'[inodes[d].direct[k]] = d_data[inodes[d].direct[k]]
  BY <1>1, <1>5 DEF Intact
<1> QED BY <1>6, <1>7 DEF CellOf

\* The directory gets a block behind all it has, and no cell of another.
LEMMA ShapeAppendZeroes ==
  ASSUME Whole, MemType', Succeeds, AppendZeroes
  PROVE  Shape'
<1> HIDE DEF Slot
<1>0. ~Fails
  <2>1. faults' = faults /\ faults \in Nat
    BY DEF Succeeds, Whole, Intact, TypeInv, TypeOK, BudgetType
  <2> QED BY <2>1 DEF Fails
<1>1. /\ pc = "ap_zero" /\ pc' = "ap" /\ c.ino \in Inodes /\ c.dir \in Inodes
      /\ d_data' = [d_data EXCEPT ![c.blk] = ZeroSector]
      /\ inodes' = [inodes EXCEPT ![c.dir].direct[Slot] = c.blk]
      /\ c' = [c EXCEPT !.blk = INVALID] /\ UNCHANGED inode_bitmap
  BY <1>0 DEF AppendZeroes, disk_write_data_block, Whole, Intact, TypeInv, CallOK, CreatePcs
<1>2. inodes \in [Inodes -> Inode] /\ inodes' \in [Inodes -> Inode]
  BY DEF Whole, Intact, MemType
<1>3. /\ c'.ino = c.ino /\ c'.dir = c.dir /\ c'.off = c.off /\ c'.name = c.name
      /\ c.blk \in Blocks
  BY <1>1 DEF Whole, Intact, Frame, SolidInv, BlockOK
<1>4. /\ \A j \in Inodes : j # c.dir => inodes'[j] = inodes[j]
      /\ inodes'[c.dir].type = inodes[c.dir].type
      /\ inodes'[c.dir].size = inodes[c.dir].size
      /\ inodes'[c.dir].parent = inodes[c.dir].parent
      /\ \A l \in Slots : inodes'[c.dir].direct[l]
                            = IF l = Slot THEN c.blk ELSE inodes[c.dir].direct[l]
  <2>1. inodes'[c.dir].parent = inodes[c.dir].parent
    BY <1>1, <1>2, RepointParent
  <2>2. /\ \A j \in Inodes : j # c.dir => inodes'[j] = inodes[j]
        /\ inodes'[c.dir].type = inodes[c.dir].type
        /\ inodes'[c.dir].size = inodes[c.dir].size
    BY <1>1, <1>2, RepointFields
  <2>3. \A l \in Slots : inodes'[c.dir].direct[l]
                           = IF l = Slot THEN c.blk ELSE inodes[c.dir].direct[l]
    <3>1. \A i \in Inodes, l \in Slots : inodes'[i].direct[l] =
            IF i = c.dir /\ l = Slot THEN c.blk ELSE inodes[i].direct[l]
      BY <1>1, <1>2, <1>3, OnePointer
    <3> QED BY <1>1, <3>1
  <2> QED BY <2>1, <2>2, <2>3
<1>5. inodes[c.dir].type = "dir" /\ inodes[c.dir].direct[Slot] = INVALID /\ Slot \in Slots
  BY <1>1 DEF Whole, AllInOrder, Appending
<1>6. ASSUME NEW d \in Inodes, NEW o \in Nat, o \div SectorSize \in Slots,
             inodes[d].direct[o \div SectorSize] \in Blocks
      PROVE  CellOf(d_data', inodes'[d], o) = CellOf(d_data, inodes[d], o)
  BY <1>6, ZeroesKeep DEF Whole
<1>7. Spared
  <2> SUFFICES ASSUME NEW d \in Inodes, inodes[d].type = "dir", NEW o \in Nat, o < inodes[d].size
               PROVE  CellOf(d_data', inodes'[d], o) = CellOf(d_data, inodes[d], o)
    BY <1>4 DEF Spared
  <2>1. CoveredTo(inodes[d], inodes[d].size)
    BY MemCovered
  <2> QED BY <1>2, <1>6, <2>1, CoveredCell
<1>8. \A x \in inode_bitmap \ {Root} :
        /\ x \in inode_bitmap' /\ inodes'[x].type = inodes[x].type
        /\ inodes'[x].parent = inodes[x].parent
  BY <1>1, <1>4 DEF Whole, Intact
<1>9. /\ Sound(d_data, inodes, inode_bitmap)'
      /\ \A x : Unnamed(d_data, inodes, x) => Unnamed(d_data', inodes', x)
  BY <1>2, <1>7, <1>8, SparedSound
<1>10. inodes'[c.ino].type = inodes[c.ino].type /\ inodes'[c.ino].parent = inodes[c.ino].parent
       /\ inodes'[c.ino].size = inodes[c.ino].size
  BY <1>1, <1>4
<1>11. Making'
  <2>1. /\ c.ino # Root /\ inodes[c.ino].type # "free" /\ inodes[c.ino].parent = c.dir
        /\ inodes[c.ino].size = 0 /\ Unnamed(d_data, inodes, c.ino)
    BY <1>1 DEF Whole, Shape, Making, Creating, CreatePcs
  <2> QED BY <1>1, <1>3, <1>9, <1>10, <2>1 DEF Making
<1>12. Begun'
  <2> SUFFICES ASSUME NEW o \in Nat, inodes[c.dir].size <= o, o < c.off
               PROVE  CellOf(d_data', inodes'[c.dir], o) = RecordCell(o - inodes[c.dir].size)'
    BY <1>3, <1>4 DEF Begun
  <2>1. CoveredTo(inodes[c.dir], c.off)
    BY <1>1, <1>5 DEF Whole, AllInOrder, Appending
  <2>2. CellOf(d_data', inodes'[c.dir], o) = CellOf(d_data, inodes[c.dir], o)
    BY <1>1, <1>2, <1>6, <2>1, CoveredCell
  <2>3. CellOf(d_data, inodes[c.dir], o) = RecordCell(o - inodes[c.dir].size)
    BY <1>1, <1>5 DEF Whole, Shape, Begun
  <2>4. RecordCell(o - inodes[c.dir].size)' = RecordCell(o - inodes[c.dir].size)
    BY <1>3, <1>4 DEF RecordCell
  <2> QED BY <2>2, <2>3, <2>4
<1>13. inodes'[Root].type = "dir"
  BY <1>1, <1>4, Ranges DEF Whole, Shape, Root
<1> QED BY <1>9, <1>11, <1>12, <1>13 DEF Shape

\* A record is complete when its two cells are there and the size says so.
LEMMA RowAdded ==
  ASSUME NEW data, NEW table \in [Inodes -> Inode], NEW bits \in SUBSET Inodes,
         Sound(data, table, bits), NEW d0 \in Inodes, table[d0].type = "dir",
         NEW x \in bits \ {Root}, table[x].type # "free", table[x].parent = d0,
         Unnamed(data, table, x), CellOf(data, table[d0], table[d0].size) = <<"ino", x>>,
         NEW y \in Names, CellOf(data, table[d0], table[d0].size + 1) = <<"name", y>>,
         NEW table2, table2 = [table EXCEPT ![d0].size = table[d0].size + RecordSize]
  PROVE  Sound(data, table2, bits)
<1> DEFINE s == table[d0].size
<1>0. s \in Nat
  BY DEF Inode
<1>1. /\ \A j \in Inodes : j # d0 => table2[j] = table[j]
      /\ table2[d0].type = table[d0].type /\ table2[d0].size = s + 2
      /\ table2[d0].direct = table[d0].direct
      /\ table2[d0].parent = table[d0].parent
  BY ResizeFields, RepointParent DEF RecordSize
<1> HIDE DEF s
<1>2. PICK k \in Nat : s = 2 * k
  BY DEF Sound, Even, s
<1>3. \A j \in Inodes : table2[j].type = table[j].type /\ table2[j].parent = table[j].parent
  BY <1>1
<1>4. \A j \in Inodes : \A o : CellOf(data, table2[j], o) = CellOf(data, table[j], o)
  BY <1>1 DEF CellOf
<1>5. \A n : n \in Rows(table2[d0]) <=> n \in Rows(table[d0]) \/ n = k
  BY <1>0, <1>1, <1>2 DEF Rows, s
<1>6. Entry(data, table2[d0], k, x) /\ CellOf(data, table2[d0], 2 * k + 1) = <<"name", y>>
  BY <1>2, <1>4 DEF Entry, s
<1> SUFFICES ASSUME NEW d \in Inodes, table2[d].type = "dir"
             PROVE  /\ Even(table2[d].size)
                    /\ \A n \in Rows(table2[d]) :
                         /\ \E z \in bits \ {Root} :
                              /\ Entry(data, table2[d], n, z)
                              /\ table2[z].type # "free" /\ table2[z].parent = d
                         /\ \E z \in Names : CellOf(data, table2[d], 2 * n + 1) = <<"name", z>>
                    /\ \A n, m \in Rows(table2[d]) :
                         CellOf(data, table2[d], 2 * n) = CellOf(data, table2[d], 2 * m) => n = m
  BY DEF Sound
<1>7. ASSUME NEW n \in Rows(table[d])
      PROVE  /\ \E z \in bits \ {Root} : /\ Entry(data, table2[d], n, z)
                                         /\ table2[z].type # "free" /\ table2[z].parent = d
             /\ \E z \in Names : CellOf(data, table2[d], 2 * n + 1) = <<"name", z>>
             /\ ~Entry(data, table2[d], n, x)
  <2>0. table[d].type = "dir"
    BY <1>3
  <2>1. PICK z \in bits \ {Root} : /\ Entry(data, table[d], n, z)
                                   /\ table[z].type # "free" /\ table[z].parent = d
    BY <1>7, <2>0 DEF Sound
  <2>2. table2[z].type # "free" /\ table2[z].parent = d
    BY <1>3, <2>1
  <2>3. Entry(data, table2[d], n, z)
    BY <1>4, <2>1 DEF Entry
  <2>4. \E zz \in Names : CellOf(data, table2[d], 2 * n + 1) = <<"name", zz>>
    BY <1>4, <1>7, <2>0 DEF Sound
  <2>5. ~Entry(data, table2[d], n, x)
    BY <1>4, <1>7, <2>0 DEF Unnamed, Entry
  <2> QED BY <2>1, <2>2, <2>3, <2>4, <2>5
<1>8. \A n, m \in Rows(table[d]) :
        CellOf(data, table2[d], 2 * n) = CellOf(data, table2[d], 2 * m) => n = m
  BY <1>3, <1>4 DEF Sound
<1>9. CASE d # d0
  <2>1. table2[d] = table[d]
    BY <1>1, <1>9
  <2>2. Even(table2[d].size) /\ Rows(table2[d]) = Rows(table[d])
    BY <2>1 DEF Sound
  <2> QED BY <1>7, <1>8, <2>2
<1>10. CASE d = d0
  <2>1. Even(table2[d].size)
    <3>1. s + 2 = 2 * (k + 1) /\ k + 1 \in Nat
      BY <1>2
    <3> QED BY <1>1, <1>10, <3>1 DEF Even
  <2>2. ASSUME NEW n \in Rows(table2[d])
        PROVE  /\ \E z \in bits \ {Root} : /\ Entry(data, table2[d], n, z)
                                           /\ table2[z].type # "free" /\ table2[z].parent = d
               /\ \E z \in Names : CellOf(data, table2[d], 2 * n + 1) = <<"name", z>>
    <3>1. CASE n \in Rows(table[d])
      BY <1>7, <3>1
    <3>2. CASE n = k
      BY <1>3, <1>6, <1>10, <3>2
    <3> QED BY <1>5, <1>10, <2>2, <3>1, <3>2
  <2>3. ASSUME NEW n \in Rows(table2[d]), NEW m \in Rows(table2[d]),
               CellOf(data, table2[d], 2 * n) = CellOf(data, table2[d], 2 * m)
        PROVE  n = m
    <3>1. CASE n \in Rows(table[d]) /\ m \in Rows(table[d])
      BY <1>8, <2>3, <3>1
    <3>2. CASE n = k /\ m \in Rows(table[d])
      BY <1>6, <1>7, <1>10, <2>3, <3>2 DEF Entry
    <3>3. CASE m = k /\ n \in Rows(table[d])
      BY <1>6, <1>7, <1>10, <2>3, <3>3 DEF Entry
    <3> QED BY <1>5, <1>10, <2>3, <3>1, <3>2, <3>3
  <2> QED BY <2>1, <2>2, <2>3
<1> QED BY <1>9, <1>10

\* A loop fills at most the rest of the sector.
LEMMA ChunkFits ==
  ASSUME c.off \in Nat, c.left \in Nat
  PROVE  Chunk <= SectorSize - At
<1>1. SectorSize \in Nat \ {0}
  BY SizeAssumption
<1>2. At \in Nat /\ At < SectorSize
  BY ChunkBounds
<1> HIDE DEF At
<1> QED BY <1>1, <1>2 DEF Chunk

\* The record is written behind the records of its directory, cell by cell.
LEMMA PartWritten ==
  ASSUME Intact, c.dir \in Inodes, Slot \in Slots, inodes[c.dir].direct[Slot] \in Blocks,
         d_data' = [d_data EXCEPT ![inodes[c.dir].direct[Slot]] =
                      [u \in Units |-> IF u \in At .. At + Chunk - 1
                                      THEN RecordCell(RecordSize - c.left + u - At)
                                      ELSE d_data[inodes[c.dir].direct[Slot]][u]]],
         c.left \in 1 .. RecordSize, c.off + c.left = inodes[c.dir].size + RecordSize,
         CoveredTo(inodes[c.dir], c.off),
         \A o \in Nat : inodes[c.dir].size <= o /\ o < c.off =>
           CellOf(d_data, inodes[c.dir], o) = RecordCell(o - inodes[c.dir].size)
  PROVE  /\ \A d \in Inodes, o \in Nat :
              /\ o \div SectorSize \in Slots /\ inodes[d].direct[o \div SectorSize] \in Blocks
              /\ d = c.dir => o < c.off
              => CellOf(d_data', inodes[d], o) = CellOf(d_data, inodes[d], o)
         /\ \A o \in Nat : inodes[c.dir].size <= o /\ o < c.off + Chunk =>
              CellOf(d_data', inodes[c.dir], o) = RecordCell(o - inodes[c.dir].size)
<1> HIDE DEF Slot, At, Chunk
<1> DEFINE b == inodes[c.dir].direct[Slot]
           patched == [u \in Units |-> IF u \in At .. At + Chunk - 1
                                      THEN RecordCell(RecordSize - c.left + u - At)
                                      ELSE d_data[b][u]]
           size == inodes[c.dir].size
<1>1. /\ c.off \in Nat /\ c.left \in Nat /\ size \in Nat
      /\ c.left \in 1 .. 2 /\ c.off + c.left = size + 2
      /\ CoveredTo(inodes[c.dir], c.off)
  BY DEF Intact, Frame, Inode, RecordSize
<1>2. At \in Nat /\ At < SectorSize /\ Chunk \in Nat /\ Chunk <= SectorSize - At
  BY <1>1, ChunkBounds, ChunkFits
<1>3. SectorSize \in Nat \ {0} /\ Slot \in Nat /\ SectorSize * Slot \in Nat
      /\ c.off = SectorSize * Slot + At
  <2>1. SectorSize \in Nat \ {0}
    BY SizeAssumption
  <2>2. c.off \div SectorSize \in Nat
        /\ c.off = SectorSize * (c.off \div SectorSize) + (c.off % SectorSize)
    BY <1>1, <2>1, DivFacts
  <2> QED BY <2>1, <2>2 DEF Slot, At
<1>4. d_data'[b] = patched /\ \A e \in Blocks : e # b => d_data'[e] = d_data[e]
  BY DEF Intact
<1>5. ASSUME NEW d \in Inodes, NEW o \in Nat, o \div SectorSize \in Slots,
             inodes[d].direct[o \div SectorSize] \in Blocks, d = c.dir => o < c.off
      PROVE  CellOf(d_data', inodes[d], o) = CellOf(d_data, inodes[d], o)
  <2> DEFINE k == o \div SectorSize
             u == o % SectorSize
  <2>1. CASE inodes[d].direct[k] # b
    BY <1>4, <1>5, <2>1 DEF CellOf
  <2>2. CASE inodes[d].direct[k] = b
    <3>1. d = c.dir /\ k = Slot
      <4>1. b # INVALID
        BY Ranges
      <4> QED BY <1>5, <2>2, <4>1 DEF Intact, Distinct
    <3>2. k \in Nat /\ o = SectorSize * k + u /\ u \in 0 .. SectorSize - 1
      BY <1>3, DivFacts
    <3> HIDE DEF k, u
    <3>3. u \in Units /\ u \notin At .. At + Chunk - 1
      BY <1>2, <1>3, <1>5, <3>1, <3>2 DEF Units
    <3>4. patched[u] = d_data[b][u]
      BY <3>3
    <3> HIDE DEF patched, b
    <3> QED BY <1>4, <2>2, <3>4 DEF CellOf, k, u
  <2> QED BY <2>1, <2>2
<1>6. ASSUME NEW o \in Nat, size <= o, o < c.off + Chunk
      PROVE  CellOf(d_data', inodes[c.dir], o) = RecordCell(o - size)
  <2>1. CASE o < c.off
    <3>1. o \div SectorSize \in Slots /\ inodes[c.dir].direct[o \div SectorSize] \in Blocks
      <4>1. inodes[c.dir] \in Inode
        BY DEF Intact
      <4> QED BY <1>1, <2>1, <4>1, CoveredCell
    <3>2. CellOf(d_data', inodes[c.dir], o) = CellOf(d_data, inodes[c.dir], o)
      BY <1>5, <2>1, <3>1
    <3>3. CellOf(d_data, inodes[c.dir], o) = RecordCell(o - size)
      BY <1>6, <2>1
    <3> QED BY <3>2, <3>3
  <2>2. CASE c.off <= o
    <3>1. o \div SectorSize = Slot
      <4>1. SectorSize * Slot <= o /\ o < SectorSize * Slot + SectorSize
        BY <1>1, <1>2, <1>3, <1>6, <2>2
      <4> QED BY <1>3, <4>1, Quotient
    <3>2. o % SectorSize = o - SectorSize * Slot
      <4>1. o = SectorSize * (o \div SectorSize) + (o % SectorSize)
            /\ o % SectorSize \in 0 .. SectorSize - 1
        BY <1>3, DivFacts
      <4> QED BY <1>3, <3>1, <4>1
    <3> DEFINE u == o - SectorSize * Slot
    <3>3. u \in Units /\ u \in At .. At + Chunk - 1
      BY <1>1, <1>2, <1>3, <1>6, <2>2 DEF Units
    <3>4. RecordSize - c.left + u - At = o - size
      <4> DEFINE p == SectorSize * Slot
      <4>1. p \in Nat /\ c.off = p + At /\ u = o - p
        BY <1>3
      <4> HIDE DEF p, u, size
      <4> QED BY <1>1, <1>2, <4>1 DEF RecordSize
    <3> HIDE DEF u
    <3>5. patched[u] = RecordCell(o - size)
      BY <3>3, <3>4
    <3> HIDE DEF patched, b
    <3> QED BY <1>4, <3>1, <3>2, <3>5 DEF CellOf, u, b
  <2> QED BY <1>1, <2>1, <2>2
<1> QED BY <1>5, <1>6

\* No record before it is touched.
LEMMA RecordWritten ==
  ASSUME Whole, pc = "ap", c.dir \in Inodes, inodes[c.dir].type = "dir", Slot \in Slots,
         inodes[c.dir].direct[Slot] \in Blocks,
         d_data' = [d_data EXCEPT ![inodes[c.dir].direct[Slot]] =
                      [u \in Units |-> IF u \in At .. At + Chunk - 1
                                      THEN RecordCell(RecordSize - c.left + u - At)
                                      ELSE d_data[inodes[c.dir].direct[Slot]][u]]]
  PROVE  /\ \A d \in Inodes, o \in Nat : inodes[d].type = "dir" /\ o < inodes[d].size =>
              CellOf(d_data', inodes[d], o) = CellOf(d_data, inodes[d], o)
         /\ \A o \in Nat : inodes[c.dir].size <= o /\ o < c.off + Chunk =>
              CellOf(d_data', inodes[c.dir], o) = RecordCell(o - inodes[c.dir].size)
<1> HIDE DEF Slot, At, Chunk
<1>1. /\ Intact /\ c.off \in Nat /\ inodes[c.dir].size \in Nat
      /\ c.left \in 1 .. RecordSize /\ c.off + c.left = inodes[c.dir].size + RecordSize
      /\ CoveredTo(inodes[c.dir], c.off)
  BY DEF Whole, AllInOrder, Appending, Intact, Frame, Inode
<1>2. \A o \in Nat : inodes[c.dir].size <= o /\ o < c.off =>
        CellOf(d_data, inodes[c.dir], o) = RecordCell(o - inodes[c.dir].size)
  BY DEF Whole, Shape, Begun
<1>3. /\ \A d \in Inodes, o \in Nat :
           /\ o \div SectorSize \in Slots /\ inodes[d].direct[o \div SectorSize] \in Blocks
           /\ d = c.dir => o < c.off
           => CellOf(d_data', inodes[d], o) = CellOf(d_data, inodes[d], o)
      /\ \A o \in Nat : inodes[c.dir].size <= o /\ o < c.off + Chunk =>
           CellOf(d_data', inodes[c.dir], o) = RecordCell(o - inodes[c.dir].size)
  BY <1>1, <1>2, PartWritten
<1>4. ASSUME NEW d \in Inodes, NEW o \in Nat, inodes[d].type = "dir", o < inodes[d].size
      PROVE  CellOf(d_data', inodes[d], o) = CellOf(d_data, inodes[d], o)
  <2>1. o \div SectorSize \in Slots /\ inodes[d].direct[o \div SectorSize] \in Blocks
    <3>1. CoveredTo(inodes[d], inodes[d].size)
      BY <1>4, MemCovered
    <3>2. inodes[d] \in Inode
      BY DEF Whole, Intact
    <3> QED BY <1>4, <3>1, <3>2, CoveredCell
  <2>2. d = c.dir => o < c.off
    BY <1>1, <1>4 DEF RecordSize
  <2> QED BY <1>3, <2>1, <2>2
<1> QED BY <1>3, <1>4

\* A part of the record, or the rest of it.
LEMMA ShapeAppendPatches ==
  ASSUME Whole, MemType', Succeeds, AppendPatches
  PROVE  Shape'
<1> HIDE DEF Slot, At, Chunk
<1>0. ~Fails
  <2>1. faults' = faults /\ faults \in Nat
    BY DEF Succeeds, Whole, Intact, TypeInv, TypeOK, BudgetType
  <2> QED BY <2>1 DEF Fails
<1>1. /\ pc = "ap" /\ c.ino \in Inodes /\ c.dir \in Inodes /\ c.name \in Names
      /\ inodes[c.dir].type = "dir" /\ Slot < DirectBlocks
      /\ inodes[c.dir].direct[Slot] # INVALID /\ UNCHANGED inode_bitmap
      /\ c' = [c EXCEPT !.off = c.off + Chunk, !.left = c.left - Chunk]
      /\ IF Chunk = c.left
         THEN /\ inodes' = [inodes EXCEPT ![c.dir].size = inodes[c.dir].size + RecordSize]
              /\ pc' = "ap_inode"
         ELSE UNCHANGED <<inodes, pc>>
  BY <1>0 DEF AppendPatches, Whole, Intact, TypeInv, CallOK, CreatePcs
<1>2. inodes \in [Inodes -> Inode] /\ inodes' \in [Inodes -> Inode]
      /\ inode_bitmap \in SUBSET Inodes
  BY DEF Whole, Intact, MemType
<1>3. /\ c.off \in Nat /\ c.left \in Nat /\ c.off + c.left = inodes[c.dir].size + 2
      /\ c'.ino = c.ino /\ c'.dir = c.dir /\ c'.off = c.off + Chunk /\ c'.name = c.name
      /\ inodes[c.dir].size \in Nat
  BY <1>1 DEF Whole, Intact, Frame, AllInOrder, Appending, RecordSize, Inode
<1>4. Slot \in Slots /\ Chunk \in Nat /\ inodes[c.dir].direct[Slot] \in Blocks
  <2>1. Slot \in Slots /\ Chunk \in Nat
    BY <1>1, <1>3, ChunkBounds, SizeAssumption DEF Slots
  <2> QED BY <1>1, <1>2, <2>1 DEF Inode
<1>5. d_data' = [d_data EXCEPT ![inodes[c.dir].direct[Slot]] =
                      [u \in Units |-> IF u \in At .. At + Chunk - 1
                                      THEN RecordCell(RecordSize - c.left + u - At)
                                      ELSE d_data[inodes[c.dir].direct[Slot]][u]]]
  BY <1>0 DEF AppendPatches, disk_write_data_block
<1>6. /\ \A d \in Inodes, o \in Nat : inodes[d].type = "dir" /\ o < inodes[d].size =>
           CellOf(d_data', inodes[d], o) = CellOf(d_data, inodes[d], o)
      /\ \A o \in Nat : inodes[c.dir].size <= o /\ o < c.off + Chunk =>
           CellOf(d_data', inodes[c.dir], o) = RecordCell(o - inodes[c.dir].size)
  BY <1>1, <1>4, <1>5, RecordWritten
<1>7. /\ c.ino # Root /\ inodes[c.ino].type # "free" /\ inodes[c.ino].parent = c.dir
      /\ inodes[c.ino].size = 0 /\ Unnamed(d_data, inodes, c.ino)
  BY <1>1 DEF Whole, Shape, Making, Creating, CreatePcs
<1>8. Sound(d_data', inodes, inode_bitmap) /\ Unnamed(d_data', inodes, c.ino)
  <2>1. \A d \in Inodes : inodes[d].type = "dir" => Even(inodes[d].size)
    BY DEF Whole, Shape, Sound
  <2>2. \A d \in Inodes : inodes[d].type = "dir" =>
          /\ Even(inodes[d].size)
          /\ \/ inodes[d].size = 0
             \/ /\ inodes[d].type = "dir" /\ inodes[d].size <= inodes[d].size
                /\ \A o \in Nat : o < inodes[d].size =>
                     CellOf(d_data', inodes[d], o) = CellOf(d_data, inodes[d], o)
    BY <1>2, <1>6, <2>1 DEF Inode
  <2>3. Sound(d_data, inodes, inode_bitmap)
    BY DEF Whole, Shape
  <2>4. Sound(d_data', inodes, inode_bitmap)
    BY <1>2, <2>2, <2>3, SoundKept
  <2>5. Unnamed(d_data', inodes, c.ino)
    BY <1>2, <1>7, <2>2, UnnamedKept
  <2> QED BY <2>4, <2>5
<1>9. CASE Chunk # c.left
  <2>1. inodes' = inodes /\ pc' = "ap"
    BY <1>1, <1>9
  <2>2. Making'
    BY <1>1, <1>3, <1>7, <1>8, <2>1 DEF Making
  <2>3. Begun'
    <3> SUFFICES ASSUME NEW o \in Nat, inodes[c.dir].size <= o, o < c.off + Chunk
                 PROVE  CellOf(d_data', inodes[c.dir], o) = RecordCell(o - inodes[c.dir].size)'
      BY <1>3, <2>1 DEF Begun
    <3>1. RecordCell(o - inodes[c.dir].size)' = RecordCell(o - inodes[c.dir].size)
      BY <1>3, <2>1 DEF RecordCell
    <3> QED BY <1>6, <3>1
  <2>4. Sound(d_data, inodes, inode_bitmap)'
    BY <1>1, <1>8, <2>1
  <2> QED BY <2>1, <2>2, <2>3, <2>4 DEF Whole, Shape
<1>10. CASE Chunk = c.left
  <2>1. /\ inodes' = [inodes EXCEPT ![c.dir].size = inodes[c.dir].size + RecordSize]
        /\ pc' = "ap_inode"
    BY <1>1, <1>10
  <2>2. c.ino \in inode_bitmap
    BY <1>1, <1>7 DEF Whole, AllInOrder, Taken, Intact
  <2>3. /\ CellOf(d_data', inodes[c.dir], inodes[c.dir].size) = <<"ino", c.ino>>
        /\ CellOf(d_data', inodes[c.dir], inodes[c.dir].size + 1) = <<"name", c.name>>
    <3> DEFINE s == inodes[c.dir].size
    <3>1. s \in Nat /\ s + 1 \in Nat /\ s < c.off + Chunk /\ s + 1 < c.off + Chunk
          /\ s <= s + 1 /\ s - s = 0 /\ (s + 1) - s = 1
      BY <1>3, <1>10
    <3>2. CellOf(d_data', inodes[c.dir], s) = RecordCell(s - s)
      BY <1>6, <3>1
    <3>3. CellOf(d_data', inodes[c.dir], s + 1) = RecordCell((s + 1) - s)
      BY <1>6, <3>1
    <3> QED BY <3>1, <3>2, <3>3 DEF RecordCell
  <2>4. Sound(d_data', inodes', inode_bitmap)
    BY <1>1, <1>2, <1>7, <1>8, <2>1, <2>2, <2>3, RowAdded
  <2>5. \A i \in Inodes : inodes'[i].type = inodes[i].type /\ inodes'[i].parent = inodes[i].parent
    BY <1>1, <1>2, <2>1, ResizeFields, RepointParent
  <2>6. Making'
    BY <1>1, <1>3, <1>7, <2>1, <2>5 DEF Making
  <2>7. Begun'
    BY <2>1 DEF Begun
  <2>8. inodes'[Root].type = "dir"
    BY <2>5, Ranges DEF Whole, Shape, Root
  <2> QED BY <1>1, <2>4, <2>6, <2>7, <2>8 DEF Shape
<1> QED BY <1>9, <1>10

-----------------------------------------------------------------------------
(* All steps.                                                              *)

\* As long as nothing has failed, nothing has failed before.
LEMMA FaultFree ==
  ASSUME TypeInv, Next, faults' = 0
  PROVE  faults = 0 /\ Succeeds
<1>0. faults \in Nat
  BY SizeAssumption DEF TypeInv, TypeOK, BudgetType
<1> SUFFICES ASSUME ~Succeeds PROVE faults' # 0
  BY DEF Succeeds
<1>1. CASE Call
  <2>1. ASSUME NEW missed, ReadFaults(missed) PROVE faults' # 0
    BY <1>0, <2>1, SizeAssumption DEF ReadFaults, Succeeds
  <2>2. ASSUME NEW op, NEW type, NEW path, CreateCall(op, type, path) PROVE faults' # 0
    <3>1. \E missed : ReadFaults(missed)
      BY <2>2 DEF CreateCall
    <3> QED BY <2>1, <3>1
  <2>3. ASSUME NEW path, NEW off, NEW len, NEW v, NEW t, fs_write(path, off, len, v, t)
        PROVE  faults' # 0
    <3>1. \E missed : ReadFaults(missed)
      BY <2>3 DEF fs_write
    <3> QED BY <2>1, <3>1
  <2> QED BY <1>1, <2>2, <2>3 DEF Call, fs_touch, fs_mkdir
<1>2. CASE fs_mount \/ shutdown \/ Crash \/ luxfs_format
  <2>1. Fails
    BY <1>2 DEF fs_mount, shutdown, Crash, LosePower, luxfs_format, FormatSuperblock,
       FormatInodeBitmap, FormatBlockBitmap, FormatInodeTable, FormatFails, Succeeds
  <2> QED BY <1>0, <2>1 DEF Fails
<1>3. CASE AllocInodeBitmap \/ AllocInodeFlush \/ luxfs_dir_append_record
  <2>1. Fails
    BY <1>3 DEF AllocInodeBitmap, AllocInodeFlush, luxfs_dir_append_record, AppendRefused,
       AppendAllocates, AppendBlockBitmap, AppendZeroes, AppendPatches, AppendInode
  <2> QED BY <1>0, <2>1 DEF Fails
<1>4. CASE ReleaseBlock \/ ReleasedForWrite \/ luxfs_mark_inode_free
  <2>1. Fails
    BY <1>4 DEF ReleaseBlock, ReleasedForWrite, luxfs_mark_inode_free, ReleasedForFree,
       FreeInodeFlush, FreeInodeBitmap
  <2> QED BY <1>0, <2>1 DEF Fails
<1>5. CASE WriteNoSpace \/ WriteAllocates \/ WriteBlockBitmap \/ WritePatches \/ WriteInode
           \/ Returns
  <2>1. Fails
    BY <1>5 DEF WriteNoSpace, WriteAllocates, WriteBlockBitmap, WritePatches, WriteInode,
       Returns, Succeeds
  <2> QED BY <1>0, <2>1 DEF Fails
<1> QED BY <1>1, <1>2, <1>3, <1>4, <1>5 DEF Next, Running

\* The sectors are flushed from directories of even size.
LEMMA EvenFlush ==
  ASSUME DiskEven, \A i \in Inodes : inodes[i].type = "dir" => Even(inodes[i].size),
         \A j \in Inodes : d_inodes'[j] = inodes[j] \/ d_inodes'[j] = d_inodes[j]
  PROVE  DiskEven'
BY DEF DiskEven

\* What the power finds on disk is in shape, between any two sector writes.
LEMMA DiskFollows ==
  ASSUME Whole, DiskEven
  PROVE  DiskShape
<1>0. /\ inodes \in [Inodes -> Inode] /\ d_inodes \in [Inodes -> Inode]
      /\ inode_bitmap \in SUBSET Inodes /\ mounted
      /\ Sound(d_data, inodes, inode_bitmap)
  BY DEF Whole, Intact, Shape
<1>1. ASSUME NEW x \in inode_bitmap \ {Root}, ~Unnamed(d_data, inodes, x)
      PROVE  x \in d_inode_bitmap
  <2>1. ~(Creating /\ pc # "ap_inode" /\ x = c.ino)
    BY <1>1 DEF Whole, Shape, Making
  <2>2. CASE pc = "ai_bitmap"
    BY <1>0, <1>1, <2>1, <2>2 DEF Whole, AllInOrder, Bitmaps, Creating, CreatePcs
  <2>3. CASE pc \in FreePcs
    BY <1>0, <1>1, <2>3 DEF Whole, AllInOrder, Bitmaps
  <2>4. CASE pc \notin {"ai_bitmap"} \cup FreePcs
    BY <1>0, <1>1, <2>4 DEF Whole, AllInOrder, Bitmaps, FreePcs
  <2> QED BY <2>2, <2>3, <2>4
<1>2. ASSUME NEW x \in Inodes, ~Unnamed(d_data, inodes, x) \/ x = Root
      PROVE  d_inodes[x].type = inodes[x].type /\ d_inodes[x].parent = inodes[x].parent
  <2>1. ~Reborn(x)
    BY <1>2 DEF Reborn, Whole, Shape, Making, Creating, CreatePcs, FreePcs
  <2> QED BY <1>0, <2>1 DEF Whole, AllInOrder, Table
<1>3. \A x \in inode_bitmap \ {Root} :
        \/ Unnamed(d_data, inodes, x)
        \/ /\ x \in d_inode_bitmap /\ d_inodes[x].type = inodes[x].type
           /\ d_inodes[x].parent = inodes[x].parent
  BY <1>0, <1>1, <1>2
<1>4. \A d \in Inodes : d_inodes[d].type = "dir" =>
        /\ Even(d_inodes[d].size)
        /\ \/ d_inodes[d].size = 0
           \/ /\ inodes[d].type = "dir" /\ d_inodes[d].size <= inodes[d].size
              /\ \A o \in Nat : o < d_inodes[d].size =>
                   CellOf(d_data, d_inodes[d], o) = CellOf(d_data, inodes[d], o)
  <2> SUFFICES ASSUME NEW d \in Inodes, d_inodes[d].type = "dir", d_inodes[d].size # 0
               PROVE  /\ inodes[d].type = "dir" /\ d_inodes[d].size <= inodes[d].size
                      /\ \A o \in Nat : o < d_inodes[d].size =>
                           CellOf(d_data, d_inodes[d], o) = CellOf(d_data, inodes[d], o)
    BY DEF DiskEven
  <2>1. Grown(d_inodes[d], inodes[d])
    BY <1>0 DEF Whole, Intact, Kept, Grows, Nonempty
  <2>2. ASSUME NEW o \in Nat, o < d_inodes[d].size
        PROVE  CellOf(d_data, d_inodes[d], o) = CellOf(d_data, inodes[d], o)
    <3>1. CoveredTo(d_inodes[d], d_inodes[d].size)
      BY DEF Whole, AllInOrder, Directories, Covered
    <3>2. o \div SectorSize \in Slots /\ d_inodes[d].direct[o \div SectorSize] \in Blocks
      BY <1>0, <2>2, <3>1, CoveredCell
    <3> QED BY <2>1, <3>2, Ranges DEF Grown, CellOf
  <2> QED BY <2>1, <2>2 DEF Grown
<1>5. Sound(d_data, d_inodes, d_inode_bitmap)
  BY <1>0, <1>3, <1>4, SoundKept
<1>6. d_inodes[Root].type = "dir"
  BY <1>2, Ranges DEF Whole, Shape, Root
<1> QED BY <1>5, <1>6 DEF DiskShape

\* A step of a call does not unmount.
LEMMA StaysMounted ==
  ASSUME Call \/ (Running /\ ~luxfs_format)
  PROVE  mounted' = mounted
<1>1. CASE Call
  BY <1>1, CallBegins
<1>2. CASE AllocInodeBitmap \/ AllocInodeFlush \/ luxfs_dir_append_record
  BY <1>2 DEF AllocInodeBitmap, AllocInodeFlush, luxfs_dir_append_record, AppendRefused,
     AppendAllocates, luxfs_alloc_block, AppendBlockBitmap, AppendZeroes, AppendPatches,
     AppendInode, mem
<1>3. CASE ReleaseBlock \/ ReleasedForWrite \/ luxfs_mark_inode_free
  BY <1>3 DEF ReleaseBlock, ReleasedForWrite, luxfs_mark_inode_free, ReleasedForFree,
     FreeInodeFlush, FreeInodeBitmap, mem
<1>4. CASE WriteNoSpace \/ WriteAllocates \/ WriteBlockBitmap \/ WritePatches \/ WriteInode
           \/ Returns
  BY <1>4 DEF WriteNoSpace, WriteAllocates, luxfs_alloc_block, WriteBlockBitmap, WritePatches,
     WriteInode, Returns, mem
<1> QED BY <1>1, <1>2, <1>3, <1>4 DEF Running

\* The calls.
LEMMA ShapeCall ==
  ASSUME Whole, MemType', Call
  PROVE  Shape'
<1>1. ASSUME NEW op, NEW type \in {"file", "dir"}, NEW path, CreateCall(op, type, path)
      PROVE  Shape'
  <2>1. CASE pc' = "ret" /\ UNCHANGED mem
    BY <1>1, <2>1, CreateBegins, ShapeEnds DEF mem, disk, Creating, CreatePcs, FreePcs
  <2>2. CASE /\ luxfs_resolve_parent(path) \in Inodes
             /\ luxfs_alloc_inode(op, type, luxfs_resolve_parent(path), Leaf(path))
    BY <1>1, <2>2, CreateBegins, ShapeCreate DEF disk
  <2> QED BY <1>1, <2>1, <2>2, CreateBegins
<1>2. ASSUME NEW path, NEW off, NEW len, NEW v, NEW t, fs_write(path, off, len, v, t)
      PROVE  Shape'
  <2>1. pc' \in {"ret", "rl", "wr_inode", "wr"} /\ UNCHANGED <<mem, disk>>
    BY <1>2 DEF fs_write, Answer
  <2>2. pc' = "rl" => c'.op = "write"
    BY <1>2 DEF fs_write, Answer, NoCall
  <2> QED BY <2>1, <2>2, ShapeEnds DEF mem, disk, Creating, CreatePcs, FreePcs
<1> QED BY <1>1, <1>2 DEF Call, fs_touch, fs_mkdir

\* The steps of a call.
LEMMA ShapeRunning ==
  ASSUME Whole, MemType', Succeeds, Running, ~luxfs_format
  PROVE  Shape'
<1>1. CASE AllocInodeBitmap \/ AllocInodeFlush \/ luxfs_dir_append_record
  BY <1>1, ShapeAlloc, ShapeAppend, ShapeAppendZeroes, ShapeAppendPatches
     DEF luxfs_dir_append_record
<1>2. CASE ReleaseBlock \/ ReleasedForWrite \/ luxfs_mark_inode_free
  BY <1>2, ShapeRelease, ShapeReleasedForWrite, ShapeReleasedForFree, ShapeQuiet
     DEF luxfs_mark_inode_free
<1>3. CASE WriteNoSpace \/ WriteAllocates \/ WriteBlockBitmap \/ WritePatches \/ WriteInode
           \/ Returns
  BY <1>3, ShapeQuiet, ShapeWriteBitmap, ShapeWritePatches
<1> QED BY <1>1, <1>2, <1>3 DEF Running

\* No directory has a record: nothing to be wrong.
LEMMA EmptyShape ==
  ASSUME NEW table, \A i \in Inodes : table[i].size = 0, NEW data, NEW bits
  PROVE  Sound(data, table, bits)
<1>1. Even(0)
  BY DEF Even
<1>2. \A i \in Inodes : Rows(table[i]) = {}
  BY DEF Rows
<1> QED BY <1>1, <1>2 DEF Sound

\* Mounting takes the disk as it is.
LEMMA ShapeMount ==
  ASSUME SyncInv, TreeInv, fs_mount, faults' = 0, faults = 0, ~torn', Succeeds
  PROVE  TreeInv'
<1>1. pc = "off" /\ ~torn /\ ~mounted /\ UNCHANGED disk
  BY DEF fs_mount, disk, SyncInv, SolidInv, TypeInv, CallOK, FormatPcs
<1>2. DiskEven'
  BY <1>1 DEF TreeInv, DiskEven, disk
<1>3. CASE ~mounted'
  <2>1. d_super' /\ pc' \notin FormatPcs => DiskShape'
    BY <1>1 DEF TreeInv, DiskShape, disk, FormatPcs
  <2> QED BY <1>2, <1>3, <2>1 DEF TreeInv
<1>4. CASE mounted'
  <2>1. /\ d_super /\ inodes' = d_inodes /\ inode_bitmap' = d_inode_bitmap /\ pc' = "idle"
    BY <1>1, <1>4 DEF fs_mount, mem
  <2>2. DiskShape
    BY <1>1, <2>1 DEF TreeInv, FormatPcs
  <2>3. Making' /\ Begun'
    BY <2>1 DEF Making, Begun, Creating, CreatePcs, FreePcs
  <2>4. inodes'[Root].type = "dir" /\ Sound(d_data, inodes, inode_bitmap)'
    BY <1>1, <2>1, <2>2 DEF DiskShape, disk
  <2> QED BY <1>2, <1>4, <2>3, <2>4 DEF TreeInv, Shape
<1> QED BY <1>3, <1>4

\* A format that is over leaves the root, and nothing in it.
LEMMA ShapeFormat ==
  ASSUME SyncInv, FormatInv, TreeInv, luxfs_format, faults = 0, ~torn', Succeeds
  PROVE  TreeInv'
<1>0. TypeInv /\ ~Fails
  <2>1. faults' = faults /\ faults \in Nat
    BY DEF Succeeds
  <2> QED BY <2>1 DEF Fails, SyncInv, SolidInv
<1>1. pc \in FormatPcs /\ ~torn /\ ~mounted
  BY <1>0 DEF luxfs_format, FormatSuperblock, FormatInodeBitmap, FormatBlockBitmap, FormatInodeTable,
     FormatFails, FormatPcs, TypeInv, CallOK
<1>2. \A i \in Inodes : inodes[i].size = 0 /\ (i = Root => inodes[i].type = "dir")
  BY <1>1, Ranges DEF FormatInv, luxfs_inode_clear, Root
<1>3. DiskEven'
  <2>1. \A j \in Inodes : d_inodes'[j] = inodes[j] \/ d_inodes'[j] = d_inodes[j]
    BY DEF luxfs_format, FormatSuperblock, FormatInodeBitmap, FormatBlockBitmap, FormatInodeTable,
       FormatFails, luxfs_flush_inode_block, disk
  <2>2. Even(0) /\ DiskEven
    BY <1>1 DEF Even, TreeInv
  <2> QED BY <1>2, <2>1, <2>2, EvenFlush
<1>4. CASE ~mounted'
  <2>1. pc' \in FormatPcs
    BY <1>0, <1>1, <1>4 DEF luxfs_format, FormatSuperblock, FormatInodeBitmap, FormatBlockBitmap,
       FormatInodeTable, FormatFails, FormatPcs, Goto
  <2> QED BY <1>3, <1>4, <2>1 DEF TreeInv
<1>5. CASE mounted'
  <2>1. FormatInodeTable
    BY <1>0, <1>1, <1>5 DEF luxfs_format, FormatSuperblock, FormatInodeBitmap, FormatBlockBitmap,
       FormatFails, mem
  <2>2. (\A i \in Inodes : inodes'[i] = inodes[i]) /\ pc' = "idle"
    BY <1>0, <1>5, <2>1, FormatDone
  <2>3. Sound(d_data', inodes', inode_bitmap')
    BY <1>2, <2>2, EmptyShape
  <2>4. Making' /\ Begun'
    BY <2>2 DEF Making, Begun, Creating, CreatePcs, FreePcs
  <2>5. inodes'[Root].type = "dir"
    BY <1>2, <2>2, Ranges DEF Root
  <2> QED BY <1>3, <1>5, <2>3, <2>4, <2>5 DEF TreeInv, Shape
<1> QED BY <1>4, <1>5

\* What a step of a call on a volume that nothing happened to starts from.
LEMMA WholeStep ==
  ASSUME LinkInv, SyncInv, KeptInv, TreeInv, ~torn, mounted, faults = 0
  PROVE  Whole
<1>1. Intact
  BY IntactStep DEF SyncInv
<1> QED BY <1>1 DEF Whole, SyncInv, TreeInv

\* The power goes: memory is lost, and the disk is in shape.
LEMMA ShapePower ==
  ASSUME LinkInv, SyncInv, KeptInv, TreeInv, faults = 0, LosePower, ~torn'
  PROVE  TreeInv'
<1>1. /\ ~torn /\ ~Tears /\ ~mounted' /\ pc' = "off" /\ UNCHANGED disk
  BY DEF LosePower
<1>2. DiskEven'
  BY <1>1 DEF TreeInv, DiskEven, disk
<1>3. d_super => DiskShape
  <2>1. CASE mounted
    <3>1. DiskEven
      BY <1>1 DEF TreeInv
    <3> QED BY <1>1, <2>1, <3>1, WholeStep, DiskFollows
  <2>2. CASE ~mounted /\ pc \notin FormatPcs
    BY <1>1, <2>2 DEF TreeInv
  <2>3. CASE pc \in FormatPcs
    <3>1. pc = "fmt_super"
      BY <1>1, <2>3 DEF Tears, FormatPcs
    <3> QED BY <3>1 DEF SyncInv, AllInOrder, Booting
  <2> QED BY <2>1, <2>2, <2>3
<1>4. d_super' => DiskShape'
  BY <1>1, <1>3 DEF DiskShape, disk
<1> QED BY <1>1, <1>2, <1>4 DEF TreeInv

\* The first boot finds a blank disk.
LEMMA TreeInit == Init => TreeInv
<1> SUFFICES ASSUME Init PROVE TreeInv
  OBVIOUS
<1>1. ~mounted /\ ~d_super /\ \A i \in Inodes : d_inodes[i].size = 0
  BY DEF Init, ZeroInode
<1>2. Even(0)
  BY DEF Even
<1> QED BY <1>1, <1>2 DEF TreeInv, DiskEven

\* Every step keeps the tree.
LEMMA TreeNext ==
  ASSUME LinkInv, SyncInv, FormatInv, KeptInv, TreeInv, TypeOK', Next
  PROVE  TreeInv'
<1>0. TypeInv /\ MemType'
  BY DEF SyncInv, SolidInv, TypeOK
<1> SUFFICES ASSUME faults' = 0, ~torn' PROVE TreeInv'
  BY DEF TreeInv
<1>1. faults = 0 /\ Succeeds
  BY <1>0, FaultFree
<1>2. CASE fs_mount
  BY <1>1, <1>2, ShapeMount
<1>3. CASE luxfs_format
  BY <1>1, <1>3, ShapeFormat
<1>4. CASE shutdown \/ Crash
  BY <1>1, <1>4, ShapePower DEF shutdown, Crash
<1>5. CASE Call \/ (Running /\ ~luxfs_format)
  <2>1. ~torn
    BY <1>5, TornStep
  <2>2. CASE ~mounted
    <3>1. UNCHANGED disk /\ ~mounted' /\ pc \in {"idle", "ret"} /\ pc' \in {"idle", "ret"}
      BY <1>0, <1>5, <2>2, UnmountedStep
    <3>2. DiskEven' /\ (d_super' => DiskShape')
      BY <1>1, <2>1, <2>2, <3>1 DEF TreeInv, DiskEven, DiskShape, disk, FormatPcs
    <3> QED BY <3>1, <3>2 DEF TreeInv
  <2>3. CASE mounted
    <3>1. Whole
      BY <1>1, <2>1, <2>3, WholeStep
    <3>2. Shape'
      BY <1>0, <1>1, <1>5, <3>1, ShapeCall, ShapeRunning
    <3>3. DiskEven'
      <4>1. \A j \in Inodes : d_inodes'[j] = inodes[j] \/ d_inodes'[j] = d_inodes[j]
        BY <1>5, <3>1, TableFlushed DEF Whole
      <4>2. \A i \in Inodes : inodes[i].type = "dir" => Even(inodes[i].size)
        BY <3>1 DEF Whole, Shape, Sound
      <4>3. DiskEven
        BY <1>1, <2>1 DEF TreeInv
      <4> QED BY <4>1, <4>2, <4>3, EvenFlush
    <3>4. mounted'
      BY <1>5, <2>3, StaysMounted
    <3> QED BY <3>2, <3>3, <3>4 DEF TreeInv
  <2> QED BY <2>2, <2>3
<1> QED BY <1>2, <1>3, <1>4, <1>5 DEF Next

-----------------------------------------------------------------------------
(* What the shape of the cells says of the records.                        *)

\* The r-th record of a directory is its row r - 1.
LEMMA RecordRow ==
  ASSUME TypeOK, NEW d \in Inodes, NEW r \in DOMAIN Records(inodes, d)
  PROVE  /\ inodes[d].type = "dir" /\ r \in Nat /\ r - 1 \in Rows(inodes[d])
         /\ Records(inodes, d)[r].inode = RecordInode(CellOf(d_data, inodes[d], 2 * (r - 1)))
         /\ Records(inodes, d)[r].name = CellOf(d_data, inodes[d], 2 * (r - 1) + 1)
<1> DEFINE a == inodes[d]
<1>1. a.type = "dir"
  <2> SUFFICES ASSUME a.type # "dir" PROVE FALSE
    OBVIOUS
  <2>1. Records(inodes, d) = <<>>
    BY DEF Records
  <2>2. DOMAIN Records(inodes, d) = {}
    BY <2>1
  <2> QED BY <2>2
<1>2. Records(inodes, d) = Iterate(d_data, a)
  BY <1>1 DEF Records, luxfs_dir_iterate, Iterate, Complete, CellAt, CellOf
<1>3. a \in Inode /\ a.size \in Nat
  BY DEF TypeOK, MemType, Inode
<1>4. r \in Complete(a)
  BY <1>2, <1>3, Iterated
<1>5. r \in Nat /\ r > 0 /\ r * RecordSize <= a.size
  BY <1>3, <1>4, RecordCells
<1>6. /\ r * RecordSize - 1 - 1 = 2 * (r - 1) /\ r * RecordSize - 1 = 2 * (r - 1) + 1
      /\ r - 1 \in Nat /\ 2 * (r - 1) < a.size
  BY <1>3, <1>5 DEF RecordSize
<1>7. Iterate(d_data, a)[r] = [inode |-> RecordInode(CellOf(d_data, a, 2 * (r - 1))),
                               name |-> CellOf(d_data, a, 2 * (r - 1) + 1)]
  BY <1>3, <1>4, <1>6, Iterated
<1>8. r - 1 \in Rows(a)
  BY <1>6 DEF Rows
<1> HIDE DEF a
<1>9. /\ Records(inodes, d)[r].inode = RecordInode(CellOf(d_data, a, 2 * (r - 1)))
      /\ Records(inodes, d)[r].name = CellOf(d_data, a, 2 * (r - 1) + 1)
  BY <1>2, <1>7
<1> QED BY <1>1, <1>5, <1>8, <1>9 DEF a

\* A record of a sound table names an inode below its directory.
LEMMA SoundRecord ==
  ASSUME TypeOK, Sound(d_data, inodes, inode_bitmap),
         NEW d \in Inodes, NEW r \in DOMAIN Records(inodes, d)
  PROVE  \E x \in inode_bitmap \ {Root}, y \in Names :
           /\ CellOf(d_data, inodes[d], 2 * (r - 1)) = <<"ino", x>>
           /\ Records(inodes, d)[r].inode = x /\ Records(inodes, d)[r].name = <<"name", y>>
           /\ inodes[x].type # "free" /\ inodes[x].parent = d
<1>1. /\ inodes[d].type = "dir" /\ r \in Nat /\ r - 1 \in Rows(inodes[d])
      /\ Records(inodes, d)[r].inode = RecordInode(CellOf(d_data, inodes[d], 2 * (r - 1)))
      /\ Records(inodes, d)[r].name = CellOf(d_data, inodes[d], 2 * (r - 1) + 1)
  BY RecordRow
<1>2. PICK x \in inode_bitmap \ {Root} : /\ Entry(d_data, inodes[d], r - 1, x)
                                         /\ inodes[x].type # "free" /\ inodes[x].parent = d
  BY <1>1 DEF Sound
<1>3. PICK y \in Names : CellOf(d_data, inodes[d], 2 * (r - 1) + 1) = <<"name", y>>
  BY <1>1 DEF Sound
<1>4. CellOf(d_data, inodes[d], 2 * (r - 1)) = <<"ino", x>>
  BY <1>2 DEF Entry
<1>5. Records(inodes, d)[r].inode = x
  BY <1>1, <1>4 DEF RecordInode
<1> QED BY <1>1, <1>2, <1>3, <1>4, <1>5

\* A sound table is a tree.
LEMMA SoundTree ==
  ASSUME TypeOK, Sound(d_data, inodes, inode_bitmap)
  PROVE  TreeShaped
<1>1. ASSUME NEW e \in Entries(inodes)
      PROVE  /\ e.inode \in inode_bitmap \ {Root}
             /\ inodes[e.inode].type # "free" /\ inodes[e.inode].parent = e.dir
  <2>1. PICK d \in Inodes : \E r \in DOMAIN Records(inodes, d) :
          e = [dir |-> d, name |-> Records(inodes, d)[r].name[2],
               inode |-> Records(inodes, d)[r].inode]
    BY DEF Entries
  <2>2. PICK r \in DOMAIN Records(inodes, d) :
          e = [dir |-> d, name |-> Records(inodes, d)[r].name[2],
               inode |-> Records(inodes, d)[r].inode]
    BY <2>1
  <2>3. PICK x \in inode_bitmap \ {Root}, y \in Names :
           /\ CellOf(d_data, inodes[d], 2 * (r - 1)) = <<"ino", x>>
           /\ Records(inodes, d)[r].inode = x /\ Records(inodes, d)[r].name = <<"name", y>>
           /\ inodes[x].type # "free" /\ inodes[x].parent = d
    BY SoundRecord
  <2>4. e.inode = x /\ e.dir = d
    BY <2>2, <2>3
  <2> QED BY <2>3, <2>4
<1>2. ASSUME NEW d \in Inodes, NEW r \in DOMAIN Records(inodes, d),
             NEW q \in DOMAIN Records(inodes, d),
             Records(inodes, d)[r].inode = Records(inodes, d)[q].inode
      PROVE  r = q
  <2>1. /\ inodes[d].type = "dir" /\ r \in Nat /\ r - 1 \in Rows(inodes[d])
        /\ q \in Nat /\ q - 1 \in Rows(inodes[d])
    BY RecordRow
  <2>2. CellOf(d_data, inodes[d], 2 * (r - 1)) = <<"ino", Records(inodes, d)[r].inode>>
    BY SoundRecord
  <2>3. CellOf(d_data, inodes[d], 2 * (q - 1)) = <<"ino", Records(inodes, d)[q].inode>>
    BY SoundRecord
  <2>4. CellOf(d_data, inodes[d], 2 * (r - 1)) = CellOf(d_data, inodes[d], 2 * (q - 1))
    BY <1>2, <2>2, <2>3
  <2>5. r - 1 = q - 1
    BY <2>1, <2>4 DEF Sound
  <2> QED BY <2>1, <2>5
<1> QED BY <1>1, <1>2 DEF TreeShaped

\* Steps that change nothing keep the tree.
LEMMA TreeStutter ==
  ASSUME TreeInv, UNCHANGED vars
  PROVE  TreeInv'
<1>1. /\ UNCHANGED <<mounted, inodes, inode_bitmap, d_super, d_inode_bitmap, d_inodes, d_data>>
      /\ UNCHANGED <<pc, c, faults, torn>>
  BY DEF vars, mem, disk
<1> SUFFICES ASSUME faults = 0, ~torn
             PROVE  /\ mounted => Shape'
                    /\ ~mounted /\ d_super /\ pc \notin FormatPcs => DiskShape'
                    /\ DiskEven'
  BY <1>1 DEF TreeInv
<1>2. DiskEven' /\ (DiskShape => DiskShape')
  BY <1>1 DEF TreeInv, DiskEven, DiskShape
<1>3. Creating' = Creating /\ \A o : RecordCell(o)' = RecordCell(o)
  BY <1>1 DEF Creating, RecordCell
<1>4. Making => Making'
  BY <1>1, <1>3 DEF Making
<1>5. Begun => Begun'
  BY <1>1, <1>3 DEF Begun
<1>6. Shape => Shape'
  BY <1>1, <1>4, <1>5 DEF Shape
<1> QED BY <1>2, <1>6 DEF TreeInv

\* What the shape of the tree rests on.
FsInv == LinkInv /\ DiskNeat /\ FormatInv /\ SyncInv /\ KeptInv /\ TreeInv

\* It holds at all times.
LEMMA FsHolds ==
  ASSUME RecordSize <= SectorSize
  PROVE  Spec => []FsInv
<1>1. Init => FsInv
  <2>1. Init => DiskNeat
    BY DEF Init, DiskNeat
  <2> QED BY <2>1, LinkInit, FormatInit, SyncInit, KeptInit, TreeInit DEF FsInv
<1>2. FsInv /\ [Next]_vars => FsInv'
  <2> SUFFICES ASSUME FsInv, [Next]_vars PROVE FsInv'
    OBVIOUS
  <2>1. CASE Next
    <3>1. TypeInv /\ SolidInv
      BY DEF FsInv, SyncInv, SolidInv
    <3>2. LinkInv' /\ DiskNeat' /\ FormatInv'
      BY <2>1, <3>1, LinkNext, NeatNext, FormatNext DEF FsInv
    <3>3. SyncInv'
      BY <2>1, SyncNext DEF FsInv
    <3>4. KeptInv'
      BY <2>1, <3>1, KeptNext DEF FsInv
    <3>5. TypeOK'
      BY <3>3 DEF SyncInv, SolidInv, TypeInv
    <3>6. TreeInv'
      BY <2>1, <3>5, TreeNext DEF FsInv
    <3> QED BY <3>2, <3>3, <3>4, <3>6 DEF FsInv
  <2>2. CASE UNCHANGED vars
    <3>1. LinkInv' /\ DiskNeat' /\ FormatInv'
      BY <2>2, LinkStutter DEF FsInv, FormatInv, vars, mem, disk
    <3>2. SyncInv'
      BY <2>2, SyncStutter DEF FsInv
    <3>3. KeptInv' /\ TreeInv'
      BY <2>2, KeptStutter, TreeStutter DEF FsInv
    <3> QED BY <3>1, <3>2, <3>3 DEF FsInv
  <2> QED BY <2>1, <2>2
<1> QED BY <1>1, <1>2, PTL DEF Spec

\* The volume is a tree, on a volume of any size, with any number of power
\* losses and reboots: every record of every directory names an inode that is
\* taken and whose parent is that directory, and no inode is named twice.
\* fs_touch and fs_mkdir write the bitmap, the inode, the block of the
\* directory and the directory's inode at separate times, in that order, and
\* a create that runs out of blocks takes the inode back.
THEOREM AlwaysTree ==
  ASSUME RecordSize <= SectorSize
  PROVE  Spec => []TreeShaped
<1>1. FsInv => TreeShaped
  <2> SUFFICES ASSUME FsInv, mounted, ~torn, faults = 0 PROVE TreeShaped
    BY DEF TreeShaped
  <2>1. TypeOK /\ Sound(d_data, inodes, inode_bitmap)
    BY DEF FsInv, SyncInv, SolidInv, TypeInv, TreeInv, Shape
  <2> QED BY <2>1, SoundTree
<1> QED BY <1>1, FsHolds, PTL

-----------------------------------------------------------------------------
(* Listing and looking up.                                                 *)

\* Walks over the same components visit the same inodes.
LEMMA SameWalk ==
  ASSUME NEW n \in Nat, NEW m \in Nat, n <= m, NEW path, NEW path2,
         \A k \in 1 .. n : path2[k] = path[k],
         NEW w, IsWalk(w, path, n), NEW v, IsWalk(v, path2, m)
  PROVE  \A k \in 0 .. n : v[k] = w[k]
<1> DEFINE S == {k \in 0 .. n : v[k] = w[k]}
<1>1. 0 \in S
  BY DEF IsWalk
<1>2. ASSUME NEW k \in 1 .. n, k - 1 \in S PROVE k \in S
  <2>1. w[k] = Hop(w[k - 1], path[k])
    BY DEF IsWalk
  <2>2. k \in 0 .. m /\ k # 0
    OBVIOUS
  <2>3. v[k] = Hop(v[k - 1], path2[k])
    BY <2>2 DEF IsWalk
  <2> QED BY <1>2, <2>1, <2>3
<1> HIDE DEF S
<1>3. \A k \in 0 .. n : k \in S
  BY <1>1, <1>2, StaysIn
<1> QED BY <1>3 DEF S

\* Looking up a path with one more name is looking the name up in the inode
\* of the path.
LEMMA ResolveEntry ==
  ASSUME NEW path \in Paths, NEW name \in Names, luxfs_resolve(path) # NONE,
         luxfs_tokenize_path(Append(path, name)).ok
  PROVE  luxfs_resolve(Append(path, name)) = luxfs_dir_find(luxfs_resolve(path), name)
<1> DEFINE entry == Append(path, name)
           n == Len(path)
<1>1. path \in Seq(Components) /\ name \in Components /\ name # "." /\ name # ".."
  BY NamesAssumption DEF Components
<1>2. n \in Nat /\ Len(entry) = n + 1 /\ entry[n + 1] = name /\ \A k \in 1 .. n : entry[k] = path[k]
  BY <1>1
<1> HIDE DEF entry
<1>3. PICK w : /\ IsWalk(w, path, n)
               /\ luxfs_resolve(path) = IF luxfs_tokenize_path(path).ok THEN w[n] ELSE NONE
  BY <1>2, ResolveIs
<1>4. luxfs_resolve(path) = w[n]
  BY <1>3
<1>5. PICK v : /\ IsWalk(v, entry, Len(entry))
               /\ luxfs_resolve(entry) =
                    IF luxfs_tokenize_path(entry).ok THEN v[Len(entry)] ELSE NONE
  BY <1>2, ResolveIs
<1>6. IsWalk(v, entry, n + 1) /\ luxfs_resolve(entry) = v[n + 1]
  BY <1>2, <1>5 DEF entry
<1>7. v[n] = w[n]
  <2>1. n \in Nat /\ n + 1 \in Nat /\ n <= n + 1 /\ n \in 0 .. n
    BY <1>2
  <2>2. IsWalk(w, path, n) /\ IsWalk(v, entry, n + 1) /\ \A k \in 1 .. n : entry[k] = path[k]
    BY <1>2, <1>3, <1>6
  <2> HIDE DEF n
  <2>3. \A k \in 0 .. n : v[k] = w[k]
    BY <2>1, <2>2, SameWalk
  <2> QED BY <2>1, <2>3
<1>8. v[n + 1] = Hop(v[n], entry[n + 1])
  <2>1. n + 1 \in 0 .. n + 1 /\ n + 1 # 0 /\ (n + 1) - 1 = n
    BY <1>2
  <2> HIDE DEF n
  <2> QED BY <1>6, <2>1 DEF IsWalk
<1>9. v[n + 1] = luxfs_dir_find(w[n], name)
  BY <1>1, <1>2, <1>4, <1>7, <1>8 DEF Hop
<1> QED BY <1>4, <1>6, <1>9 DEF entry

\* In a sound table a name is listed if and only if it is found.
LEMMA ListFinds ==
  ASSUME TypeOK, Sound(d_data, inodes, inode_bitmap), mounted,
         NEW path, luxfs_resolve(path) \in Inodes, inodes[luxfs_resolve(path)].type = "dir",
         NEW name
  PROVE  name \in fs_list(path) <=> luxfs_dir_find(luxfs_resolve(path), name) # NONE
<1> DEFINE i == luxfs_resolve(path)
           records == luxfs_dir_iterate(inodes[i])
           live == {r \in DOMAIN records : /\ records[r].inode \in Inodes
                                           /\ inodes[records[r].inode].type # "free"}
<1>0. i # NONE /\ NONE \notin Inodes
  BY Ranges DEF NONE
<1>1. Records(inodes, i) = records
  BY DEF Records
<1>2. fs_list(path) = {records[r].name[2] : r \in live}
  BY <1>0 DEF fs_list
<1> HIDE DEF records, i
<1>3. ASSUME NEW r \in DOMAIN records
      PROVE  /\ records[r].inode \in inode_bitmap /\ inodes[records[r].inode].type # "free"
             /\ \E y \in Names : records[r].name = <<"name", y>>
  BY <1>1, SoundRecord DEF i
<1>4. inode_bitmap \subseteq Inodes
  BY DEF TypeOK, MemType
<1>5. live = DOMAIN records
  BY <1>3, <1>4
<1>6. \A r \in DOMAIN records : records[r].name[2] = name <=> records[r].name = <<"name", name>>
  BY <1>3
<1>7. name \in fs_list(path) <=> \E r \in DOMAIN records : records[r].name = <<"name", name>>
  <2> HIDE DEF live
  <2> QED BY <1>2, <1>5, <1>6
<1>8. inodes[i].size \in Nat /\ records = Iterate(d_data, inodes[i])
  BY DEF i, TypeOK, MemType, Inode, records, luxfs_dir_iterate, Iterate, Complete, CellAt, CellOf
<1>9. DOMAIN records = Complete(inodes[i])
  BY <1>8, Iterated
<1>10. \/ /\ luxfs_dir_find(i, name) = NONE
          /\ \A r \in DOMAIN records : records[r].name # <<"name", name>>
       \/ \E r \in DOMAIN records : /\ records[r].name = <<"name", name>>
                                    /\ luxfs_dir_find(i, name) = records[r].inode
  BY <1>8, <1>9, FindRecord DEF i
<1>11. \A r \in DOMAIN records : records[r].inode # NONE
  BY <1>0, <1>3, <1>4
<1> QED BY <1>7, <1>10, <1>11 DEF i

\* ls and open agree, on a volume of any size, whatever was created and
\* written and wherever the power went: fs_list, which reads every record and
\* skips those of free inodes, shows the names luxfs_dir_find finds, and no
\* others.
THEOREM ListMatchesLookup ==
  ASSUME RecordSize <= SectorSize
  PROVE  Spec => []ListStatAgree
<1>1. FsInv => ListStatAgree
  <2> SUFFICES ASSUME FsInv, mounted, ~torn, faults = 0,
                      NEW path \in Paths, NEW name \in Names,
                      fs_stat_path(path).ok, luxfs_tokenize_path(Append(path, name)).ok
               PROVE  name \in fs_list(path) <=>
                        fs_stat_path(path).is_dir /\ fs_stat_path(Append(path, name)).ok
    BY DEF ListStatAgree
  <2>1. TypeOK /\ Sound(d_data, inodes, inode_bitmap)
    BY DEF FsInv, SyncInv, SolidInv, TypeInv, TreeInv, Shape
  <2> DEFINE i == luxfs_resolve(path)
  <2>2. i \in Found
    BY <2>1, ResolveFound
  <2>3. i # NONE /\ fs_stat_path(path).is_dir = (inodes[i].type = "dir")
    BY DEF fs_stat_path
  <2>4. fs_stat_path(Append(path, name)).ok <=> luxfs_dir_find(i, name) # NONE
    <3>1. luxfs_resolve(Append(path, name)) = luxfs_dir_find(i, name)
      BY <2>3, ResolveEntry
    <3> QED BY <3>1 DEF fs_stat_path
  <2> HIDE DEF i
  <2>5. CASE inodes[i].type = "dir"
    <3>1. name \in fs_list(path) <=> luxfs_dir_find(i, name) # NONE
      BY <2>1, <2>2, <2>3, <2>5, ListFinds DEF i, Found
    <3> QED BY <2>3, <2>4, <2>5, <3>1
  <2>6. CASE inodes[i].type # "dir"
    <3>1. fs_list(path) = {}
      BY <2>3, <2>6 DEF fs_list, i
    <3> QED BY <2>3, <2>6, <3>1
  <2> QED BY <2>5, <2>6
<1> QED BY <1>1, FsHolds, PTL

-----------------------------------------------------------------------------
(* Blocks the disk points to and memory does not.                          *)

Bare(node) == \A k \in Slots : node.direct[k] = INVALID
Own(node, b) == b = INVALID \/ \E l \in Slots : node.direct[l] = b

\* A write that truncates leaves the old pointers of its file on disk; the
\* blocks are free until the write takes them again, so a write that runs out
\* of blocks has taken them all.
Loose(b) == Writing /\ (b \notin block_bitmap \/ (pc = "wr_bitmap" /\ b = c.blk))
Calm == \A i \in Inodes, k \in Slots :
          \/ Own(inodes[i], d_inodes[i].direct[k])
          \/ i = c.ino /\ Loose(d_inodes[i].direct[k])

\* An inode that is free has no blocks, and a new one has none on disk.
Blank == /\ \A i \in Inodes : inodes[i].type = "free" => Bare(inodes[i])
         /\ Creating => Bare(d_inodes[c.ino])
         /\ pc \in {"ai_bitmap", "ai_inode"} \cup FreePcs => Bare(inodes[c.ino])
DiskBlank == \A i \in Inodes : d_inodes[i].type = "free" => Bare(d_inodes[i])

CalmInv == faults = 0 /\ ~torn =>
             /\ mounted => Calm /\ Blank
             /\ ~mounted /\ d_super /\ pc \notin FormatPcs => DiskBlank

\* The device has not failed.
LEMMA NoFail ==
  ASSUME Whole, Succeeds
  PROVE  ~Fails
<1>1. faults' = faults /\ faults \in Nat
  BY DEF Succeeds, Whole, Intact, TypeInv, TypeOK, BudgetType
<1> QED BY <1>1 DEF Fails

\* The pointers stay as they are, in memory or in the sector that is flushed.
LEMMA CalmQuiet ==
  ASSUME Calm, ~Writing, \A i \in Inodes : inodes'[i].direct = inodes[i].direct,
         \A j \in Inodes : d_inodes'[j] = inodes[j] \/ d_inodes'[j] = d_inodes[j]
  PROVE  Calm'
<1> SUFFICES ASSUME NEW i \in Inodes, NEW k \in Slots
             PROVE  Own(inodes'[i], d_inodes'[i].direct[k])
  BY DEF Calm
<1>1. Own(inodes[i], d_inodes[i].direct[k])
  BY DEF Calm, Loose
<1>2. Own(inodes[i], inodes[i].direct[k])
  BY DEF Own
<1>3. Own(inodes[i], d_inodes'[i].direct[k])
  BY <1>1, <1>2
<1> QED BY <1>3 DEF Own

\* A step that moves no pointer and frees no inode.
LEMMA BlankQuiet ==
  ASSUME Blank, \A i \in Inodes : inodes'[i].direct = inodes[i].direct,
         \A i \in Inodes : inodes'[i].type = "free" => inodes[i].type = "free",
         Creating' => UNCHANGED d_inodes /\ Creating /\ c'.ino = c.ino /\ c.ino \in Inodes,
         pc' \in {"ai_bitmap", "ai_inode"} \cup FreePcs =>
           pc \in {"ai_bitmap", "ai_inode"} \cup FreePcs
  PROVE  Blank'
<1>1. \A i \in Inodes : Bare(inodes[i]) => Bare(inodes'[i])
  BY DEF Bare
<1>2. \A i \in Inodes : inodes'[i].type = "free" => Bare(inodes'[i])
  BY <1>1 DEF Blank
<1>3. Creating' => Bare(d_inodes'[c'.ino])
  BY DEF Blank
<1>4. pc' \in {"ai_bitmap", "ai_inode"} \cup FreePcs => Bare(inodes'[c'.ino])
  <2>1. pc' \in {"ai_bitmap", "ai_inode"} \cup FreePcs => Creating'
    BY DEF Creating, CreatePcs
  <2> QED BY <1>1, <2>1 DEF Blank
<1> QED BY <1>2, <1>3, <1>4 DEF Blank

\* The steps of a create but those that give a pointer or take the inode back.
LEMMA CalmCreate ==
  ASSUME Whole, Calm, Blank, Succeeds,
         AllocInodeBitmap \/ AllocInodeFlush \/ AppendRefused \/ AppendAllocates
         \/ AppendBlockBitmap \/ AppendPatches \/ AppendInode
  PROVE  Calm' /\ Blank'
<1> HIDE DEF Slot, At, Chunk
<1>0. ~Fails
  BY NoFail
<1>1. /\ pc \in CreatePcs /\ ~Writing /\ Creating /\ c.ino \in Inodes /\ c.dir \in Inodes
      /\ inodes \in [Inodes -> Inode] /\ c \in Frame
  <2>1. pc \in CreatePcs
    BY DEF AllocInodeBitmap, AllocInodeFlush, AppendRefused, AppendAllocates, AppendBlockBitmap,
       AppendPatches, AppendInode, CreatePcs
  <2> QED BY <2>1 DEF Whole, Intact, TypeInv, CallOK, Writing, Truncating, WritePcs, CreatePcs,
          Creating
<1>2. \A i \in Inodes : inodes'[i].direct = inodes[i].direct /\ inodes'[i].type = inodes[i].type
  <2>1. inodes' = inodes \/ \E n : inodes' = [inodes EXCEPT ![c.dir].size = n]
    BY DEF AllocInodeBitmap, AllocInodeFlush, AppendRefused, AppendAllocates, luxfs_alloc_block,
       AppendBlockBitmap, AppendPatches, AppendInode, mem
  <2>2. ASSUME NEW n, inodes' = [inodes EXCEPT ![c.dir].size = n]
        PROVE  \A i \in Inodes : /\ inodes'[i].direct = inodes[i].direct
                                 /\ inodes'[i].type = inodes[i].type
    BY <1>1, <2>2, ResizeFields
  <2> QED BY <2>1, <2>2
<1>3. \A j \in Inodes : d_inodes'[j] = inodes[j] \/ d_inodes'[j] = d_inodes[j]
  <2>1. UNCHANGED d_inodes \/ luxfs_flush_inode(c.ino) \/ luxfs_flush_inode(c.dir)
    BY DEF AllocInodeBitmap, AllocInodeFlush, AppendRefused, AppendAllocates, AppendBlockBitmap,
       AppendPatches, AppendInode, disk
  <2> QED BY <1>1, <2>1, FlushWrites
<1>4. Calm'
  BY <1>1, <1>2, <1>3, CalmQuiet
<1>5. c'.ino = c.ino
  <2>1. \/ c' = c \/ \E b : c' = [c EXCEPT !.blk = b]
        \/ \E o, l : c' = [c EXCEPT !.off = o, !.left = l]
        \/ \E r : c' = [c EXCEPT !.ret = r]
    BY DEF AllocInodeBitmap, AllocInodeFlush, AppendRefused, AppendAllocates, luxfs_alloc_block,
       AppendBlockBitmap, AppendPatches, AppendInode, Goto, Return
  <2> QED BY <1>1, <2>1 DEF Frame
<1>6. CASE AllocInodeFlush
  <2>1. pc = "ai_inode" /\ pc' = "ap" /\ luxfs_flush_inode(c.ino)
    BY <1>0, <1>6 DEF AllocInodeFlush
  <2>2. d_inodes'[c.ino] = inodes[c.ino] /\ Bare(inodes[c.ino])
    BY <1>1, <2>1, FlushWrites DEF Blank
  <2>3. \A i \in Inodes : Bare(inodes[i]) => Bare(inodes'[i])
    BY <1>2 DEF Bare
  <2> QED BY <1>2, <1>4, <1>5, <2>1, <2>2, <2>3 DEF Blank, FreePcs
<1>7. CASE AppendInode
  <2>1. pc' = "ret"
    BY <1>0, <1>7 DEF AppendInode, Return
  <2> QED BY <1>2, <1>4, <2>1, BlankQuiet DEF Creating, CreatePcs, FreePcs
<1>8. CASE AllocInodeBitmap \/ AppendRefused \/ AppendAllocates \/ AppendBlockBitmap \/ AppendPatches
  <2>1. /\ pc' \in {"ai_bitmap", "ai_inode"} \cup FreePcs => pc \in {"ai_bitmap", "ai_inode"}
        /\ UNCHANGED d_inodes
    BY <1>0, <1>8 DEF AllocInodeBitmap, AppendRefused, AppendAllocates, luxfs_alloc_block,
       AppendBlockBitmap, AppendPatches, Goto, Return, FreePcs, disk
  <2> QED BY <1>1, <1>2, <1>4, <1>5, <2>1, BlankQuiet
<1> QED BY <1>6, <1>7, <1>8

\* Taking an inode back.
LEMMA CalmFree ==
  ASSUME Whole, Calm, Blank, FreeInodeFlush \/ FreeInodeBitmap \/ Returns
  PROVE  Calm' /\ Blank'
<1>1. /\ ~Writing /\ inodes' = inodes /\ pc \in FreePcs \cup {"ret"}
      /\ (pc # "ret" => c.ino \in Inodes) /\ c \in Frame
  <2>1. pc \in FreePcs \cup {"ret"}
    BY DEF FreeInodeFlush, FreeInodeBitmap, Returns, FreePcs
  <2> QED BY <2>1 DEF Whole, Intact, TypeInv, CallOK, Writing, Truncating, WritePcs, FreePcs,
          FreeInodeFlush, FreeInodeBitmap, Returns, mem
<1>2. CASE FreeInodeFlush
  <2>1. /\ pc = "un_inode" /\ pc' = "un_bitmap" /\ c' = c
        /\ luxfs_flush_inode(c.ino) \/ UNCHANGED d_inodes
    BY <1>2 DEF FreeInodeFlush, Goto
  <2>2. \A j \in Inodes : d_inodes'[j] = inodes[j] \/ d_inodes'[j] = d_inodes[j]
    BY <1>1, <2>1, FlushWrites
  <2>3. Calm'
    BY <1>1, <2>2, CalmQuiet
  <2>4. Bare(d_inodes[c.ino]) /\ Bare(inodes[c.ino])
    BY <2>1 DEF Blank, Creating, FreePcs
  <2>5. Bare(d_inodes'[c.ino])
    BY <1>1, <2>1, <2>2, <2>4
  <2> QED BY <1>1, <2>1, <2>3, <2>4, <2>5 DEF Blank
<1>3. CASE FreeInodeBitmap \/ Returns
  <2>1. UNCHANGED d_inodes /\ pc' \in {"ret", "idle"}
    BY <1>3 DEF FreeInodeBitmap, Returns, Return, disk
  <2>2. Calm'
    BY <1>1, <2>1, CalmQuiet
  <2> QED BY <1>1, <2>1, <2>2, BlankQuiet DEF Creating, CreatePcs, FreePcs
<1> QED BY <1>2, <1>3

\* The directory gets a block where it had none.
LEMMA CalmZeroes ==
  ASSUME Whole, Calm, Blank, Succeeds, AppendZeroes
  PROVE  Calm' /\ Blank'
<1> HIDE DEF Slot
<1>0. ~Fails
  BY NoFail
<1>1. /\ pc = "ap_zero" /\ pc' = "ap" /\ c.ino \in Inodes /\ c.dir \in Inodes
      /\ inodes' = [inodes EXCEPT ![c.dir].direct[Slot] = c.blk] /\ UNCHANGED d_inodes
      /\ c' = [c EXCEPT !.blk = INVALID]
  BY <1>0 DEF AppendZeroes, Whole, Intact, TypeInv, CallOK, CreatePcs
<1>2. inodes \in [Inodes -> Inode] /\ c'.ino = c.ino /\ c.blk \in Blocks
  BY <1>1 DEF Whole, Intact, Frame, SolidInv, BlockOK
<1>3. inodes[c.dir].type = "dir" /\ inodes[c.dir].direct[Slot] = INVALID
  BY <1>1 DEF Whole, AllInOrder, Appending
<1>4. /\ \A j \in Inodes : j # c.dir => inodes'[j] = inodes[j]
      /\ inodes'[c.dir].type = inodes[c.dir].type
  BY <1>1, <1>2, RepointFields
<1>5. \A i \in Inodes, l \in Slots : inodes'[i].direct[l] =
        IF i = c.dir /\ l = Slot THEN c.blk ELSE inodes[i].direct[l]
  BY <1>1, <1>2, OnePointer
<1>6. ~Writing /\ Creating
  BY <1>1 DEF Writing, Truncating, WritePcs, Creating, CreatePcs
<1>7. Calm'
  <2> SUFFICES ASSUME NEW i \in Inodes, NEW k \in Slots
               PROVE  Own(inodes'[i], d_inodes[i].direct[k])
    BY <1>1 DEF Calm
  <2>1. Own(inodes[i], d_inodes[i].direct[k])
    BY <1>6 DEF Calm, Loose
  <2>2. \A l \in Slots : inodes[i].direct[l] # INVALID => inodes'[i].direct[l] = inodes[i].direct[l]
    BY <1>3, <1>5
  <2> QED BY <2>1, <2>2 DEF Own
<1>8. Blank'
  <2>1. \A i \in Inodes : inodes'[i].type = "free" => Bare(inodes'[i])
    BY <1>3, <1>4 DEF Blank
  <2> QED BY <1>1, <1>2, <1>6, <2>1 DEF Blank, FreePcs
<1> QED BY <1>7, <1>8

\* A pointer is dropped and its block is free, or the disk had no pointer.
LEMMA CalmRelease ==
  ASSUME Whole, Calm, Blank, Succeeds, ReleaseBlock
  PROVE  Calm' /\ Blank'
<1>0. ~Fails
  BY NoFail
<1>1. PICK k0 \in Slots :
        /\ pc = "rl" /\ pc' = "rl" /\ c.ino \in Inodes /\ c' = c /\ UNCHANGED d_inodes
        /\ inodes' = [inodes EXCEPT ![c.ino].direct[k0] = INVALID]
        /\ block_bitmap' = block_bitmap \ {inodes[c.ino].direct[k0]}
  BY <1>0 DEF ReleaseBlock, HeldSlots, Whole, Intact, TypeInv, CallOK
<1>2. inodes \in [Inodes -> Inode]
  BY DEF Whole, Intact
<1>3. /\ \A j \in Inodes : j # c.ino => inodes'[j] = inodes[j]
      /\ inodes'[c.ino].type = inodes[c.ino].type
  BY <1>1, <1>2, RepointFields
<1>4. \A i \in Inodes, l \in Slots : inodes'[i].direct[l] =
        IF i = c.ino /\ l = k0 THEN INVALID ELSE inodes[i].direct[l]
  BY <1>1, <1>2, OnePointer
<1>5. Blank'
  <2>1. \A i \in Inodes : Bare(inodes[i]) => Bare(inodes'[i])
    BY <1>4 DEF Bare
  <2>2. Creating' => Creating
    BY <1>1 DEF Creating
  <2>3. \A i \in Inodes : inodes'[i].type = "free" => inodes[i].type = "free"
    BY <1>3
  <2> QED BY <1>1, <2>1, <2>2, <2>3 DEF Blank, FreePcs
<1>6. Calm'
  <2> SUFFICES ASSUME NEW i \in Inodes, NEW k \in Slots
               PROVE  \/ Own(inodes'[i], d_inodes[i].direct[k])
                      \/ /\ i = c.ino /\ c.op = "write"
                         /\ d_inodes[i].direct[k] \notin block_bitmap'
    BY <1>1 DEF Calm, Loose, Writing, Truncating
  <2>1. CASE i # c.ino
    BY <1>3, <2>1 DEF Calm
  <2>2. CASE i = c.ino /\ c.op # "write"
    <3>1. Bare(d_inodes[c.ino])
      BY <1>1, <2>2 DEF Blank, Creating
    <3> QED BY <2>2, <3>1 DEF Bare, Own
  <2>3. CASE i = c.ino /\ c.op = "write"
    <3>2. CASE d_inodes[i].direct[k] \notin block_bitmap'
      BY <2>3, <3>2
    <3>3. CASE d_inodes[i].direct[k] \in block_bitmap'
      <4>1. Own(inodes[i], d_inodes[i].direct[k])
        BY <1>1, <3>3 DEF Calm, Loose
      <4>2. d_inodes[i].direct[k] # inodes[c.ino].direct[k0]
        BY <1>1, <3>3
      <4> QED BY <1>4, <2>3, <4>1, <4>2 DEF Own
    <3> QED BY <3>2, <3>3
  <2> QED BY <2>1, <2>2, <2>3
<1> QED BY <1>5, <1>6

\* All blocks of the file, or of the inode that is taken back, are released.
LEMMA CalmReleased ==
  ASSUME Whole, Calm, Blank, Succeeds, ReleasedForWrite \/ ReleasedForFree
  PROVE  Calm' /\ Blank'
<1>0. pc = "rl" /\ c.ino \in Inodes /\ inodes \in [Inodes -> Inode]
  BY DEF ReleasedForWrite, ReleasedForFree, Whole, Intact, TypeInv, CallOK
<1>1. CASE ReleasedForWrite
  <2>1. /\ c.op = "write" /\ inodes' = [inodes EXCEPT ![c.ino].size = 0] /\ c' = c
        /\ pc' \in {"wr", "wr_inode"} /\ UNCHANGED <<block_bitmap, d_inodes>>
    BY <1>1 DEF ReleasedForWrite, Goto, disk, Whole, AllInOrder, Locals
  <2>2. \A i \in Inodes : inodes'[i].direct = inodes[i].direct /\ inodes'[i].type = inodes[i].type
    BY <1>0, <2>1, ResizeFields
  <2>3. Writing' /\ ~Creating'
    BY <2>1 DEF Writing, WritePcs, Creating, CreatePcs, FreePcs
  <2>4. Calm'
    <3> SUFFICES ASSUME NEW i \in Inodes, NEW k \in Slots
                 PROVE  \/ Own(inodes'[i], d_inodes[i].direct[k])
                        \/ i = c.ino /\ d_inodes[i].direct[k] \notin block_bitmap
      BY <2>1, <2>3 DEF Calm, Loose
    <3>1. \/ Own(inodes[i], d_inodes[i].direct[k])
          \/ i = c.ino /\ d_inodes[i].direct[k] \notin block_bitmap
      BY <1>0 DEF Calm, Loose
    <3> QED BY <2>2, <3>1 DEF Own
  <2> QED BY <2>1, <2>2, <2>3, <2>4, BlankQuiet DEF FreePcs
<1>2. CASE ReleasedForFree
  <2>1. /\ c.op # "write" /\ inodes' = [inodes EXCEPT ![c.ino] = luxfs_inode_clear] /\ c' = c
        /\ pc' = "un_inode" /\ UNCHANGED d_inodes
    BY <1>2 DEF ReleasedForFree, Goto, disk
  <2>2. /\ \A i \in Inodes : i # c.ino => inodes'[i] = inodes[i]
        /\ Bare(inodes'[c.ino])
    BY <1>0, <2>1 DEF luxfs_inode_clear, Bare
  <2>3. Bare(d_inodes[c.ino]) /\ ~Writing
    BY <1>0, <2>1 DEF Blank, Creating, Writing, Truncating, WritePcs
  <2>4. Calm'
    <3> SUFFICES ASSUME NEW i \in Inodes, NEW k \in Slots
                 PROVE  Own(inodes'[i], d_inodes[i].direct[k])
      BY <2>1 DEF Calm
    <3>1. CASE i = c.ino
      BY <2>3, <3>1 DEF Bare, Own
    <3>2. CASE i # c.ino
      BY <2>2, <3>2 DEF Calm
    <3> QED BY <3>1, <3>2
  <2> QED BY <2>1, <2>2, <2>3, <2>4 DEF Blank
<1> QED BY <1>1, <1>2

\* The loop of fs_write takes a block, or finds none and has them all.
LEMMA CalmWriteTakes ==
  ASSUME Whole, Calm, Blank, Succeeds, WriteNoSpace \/ WriteAllocates
  PROVE  Calm' /\ Blank'
<1> HIDE DEF Slot
<1>0. /\ pc = "wr" /\ c.ino \in Inodes /\ inodes' = inodes /\ d_inodes' = d_inodes
      /\ Writing /\ d_inodes \in [Inodes -> Inode] /\ c \in Frame
  <2>1. pc = "wr"
    BY DEF WriteNoSpace, WriteAllocates
  <2> QED BY <2>1 DEF WriteNoSpace, WriteAllocates, luxfs_alloc_block, Whole, Intact, TypeInv,
          CallOK, WritePcs, Writing, mem, disk
<1>1. ~Creating' /\ pc' \in {"ret", "wr_bitmap"}
  BY DEF WriteNoSpace, WriteAllocates, luxfs_alloc_block, Return, Creating, CreatePcs, FreePcs
<1>2. Blank'
  BY <1>0, <1>1, BlankQuiet DEF FreePcs
<1>3. CASE WriteNoSpace
  <2> SUFFICES ASSUME NEW i \in Inodes, NEW k \in Slots
               PROVE  Own(inodes[i], d_inodes[i].direct[k])
    BY <1>0, <1>2 DEF Calm
  <2>1. Blocks \subseteq block_bitmap
    BY <1>3 DEF WriteNoSpace, FreeBlocks
  <2>2. d_inodes[i].direct[k] \in Blocks \cup {INVALID}
    BY <1>0 DEF Inode
  <2>3. CASE d_inodes[i].direct[k] = INVALID
    BY <2>3 DEF Own
  <2>4. CASE d_inodes[i].direct[k] \in Blocks
    BY <1>0, <2>1, <2>4 DEF Calm, Loose
  <2> QED BY <2>2, <2>3, <2>4
<1>4. CASE WriteAllocates
  <2>1. PICK b : c' = [c EXCEPT !.blk = b] /\ block_bitmap' = block_bitmap \cup {b}
    BY <1>4 DEF WriteAllocates, luxfs_alloc_block
  <2>2. c'.ino = c.ino /\ c'.blk = b /\ pc' = "wr_bitmap"
    BY <1>0, <1>4, <2>1 DEF WriteAllocates, luxfs_alloc_block, Frame
  <2>3. Writing'
    BY <2>2 DEF Writing, WritePcs
  <2> SUFFICES ASSUME NEW i \in Inodes, NEW k \in Slots
               PROVE  \/ Own(inodes[i], d_inodes[i].direct[k])
                      \/ i = c.ino /\ (d_inodes[i].direct[k] \notin block_bitmap'
                                       \/ d_inodes[i].direct[k] = b)
    BY <1>0, <1>2, <2>2, <2>3 DEF Calm, Loose
  <2>4. \/ Own(inodes[i], d_inodes[i].direct[k])
        \/ i = c.ino /\ d_inodes[i].direct[k] \notin block_bitmap
    BY <1>0 DEF Calm, Loose
  <2> QED BY <2>1, <2>4
<1> QED BY <1>2, <1>3, <1>4

\* The file gets its block, its bytes, and its sector of the table.
LEMMA CalmWrites ==
  ASSUME Whole, Calm, Blank, Succeeds, WriteBlockBitmap \/ WritePatches \/ WriteInode
  PROVE  Calm' /\ Blank'
<1> HIDE DEF Slot, At, Chunk
<1>0. ~Fails
  BY NoFail
<1>1. /\ pc \in WritePcs /\ c.ino \in Inodes /\ inodes[c.ino].type = "file" /\ Writing
      /\ inodes \in [Inodes -> Inode] /\ c \in Frame
  <2>1. pc \in WritePcs
    BY DEF WriteBlockBitmap, WritePatches, WriteInode, WritePcs
  <2> QED BY <2>1 DEF Whole, Intact, TypeInv, CallOK, Writing, WriteOK
<1>2. pc' \in {"ret", "wr", "wr_inode"} /\ ~Creating'
  BY <1>0 DEF WriteBlockBitmap, WritePatches, WriteInode, Return, Creating, CreatePcs, FreePcs
<1>3. CASE WriteBlockBitmap
  <2>1. /\ inodes' = [inodes EXCEPT ![c.ino].direct[Slot] = c.blk] /\ pc = "wr_bitmap"
        /\ pc' = "wr" /\ c' = [c EXCEPT !.blk = INVALID, !.fresh = TRUE]
        /\ UNCHANGED <<block_bitmap, d_inodes>>
    BY <1>0, <1>3 DEF WriteBlockBitmap
  <2>2. c'.ino = c.ino /\ c.blk \in Blocks /\ inodes[c.ino].direct[Slot] = INVALID /\ Writing'
    BY <1>1, <2>1 DEF Frame, Whole, SolidInv, BlockOK, AllInOrder, Locals, Writing, WritePcs
  <2>3. Slot \in Slots
    BY <2>1, <1>1, WriteSlot DEF Whole, Intact, WriteOK, Writing, WritePcs, Frame, AllInOrder, Locals
  <2>4. /\ \A j \in Inodes : j # c.ino => inodes'[j] = inodes[j]
        /\ inodes'[c.ino].type = inodes[c.ino].type
    BY <1>1, <2>1, RepointFields
  <2>5. \A i \in Inodes, l \in Slots : inodes'[i].direct[l] =
          IF i = c.ino /\ l = Slot THEN c.blk ELSE inodes[i].direct[l]
    <3>1. /\ c.blk \in Blocks \cup {INVALID} /\ c.ino \in Inodes /\ inodes \in [Inodes -> Inode]
          /\ inodes' = [inodes EXCEPT ![c.ino].direct[Slot] = c.blk]
      BY <1>1, <2>1, <2>2
    <3>2. \A i \in Inodes, l \in Slots : [inodes EXCEPT ![c.ino].direct[Slot] = c.blk][i].direct[l] =
            IF i = c.ino /\ l = Slot THEN c.blk ELSE inodes[i].direct[l]
      BY <3>1 DEF Inode
    <3> QED BY <3>1, <3>2, Zenon
  <2>6. Blank'
    <3>1. \A i \in Inodes : inodes'[i].type = "free" => Bare(inodes'[i])
      BY <1>1, <2>4 DEF Blank
    <3> QED BY <1>2, <3>1 DEF Blank, FreePcs
  <2>7. ASSUME NEW i \in Inodes, NEW k \in Slots
        PROVE  \/ Own(inodes'[i], d_inodes[i].direct[k])
               \/ i = c.ino /\ d_inodes[i].direct[k] \notin block_bitmap
    <3>1. \/ Own(inodes[i], d_inodes[i].direct[k])
          \/ i = c.ino /\ (d_inodes[i].direct[k] \notin block_bitmap \/ d_inodes[i].direct[k] = c.blk)
      BY DEF Calm, Loose
    <3>2. Own(inodes[i], d_inodes[i].direct[k]) => Own(inodes'[i], d_inodes[i].direct[k])
      BY <2>2, <2>5 DEF Own
    <3>3. i = c.ino => Own(inodes'[i], c.blk)
      BY <2>3, <2>5 DEF Own
    <3> QED BY <3>1, <3>2, <3>3
  <2>8. Calm'
    BY <2>1, <2>2, <2>7 DEF Calm, Loose
  <2> QED BY <2>6, <2>8
<1>4. CASE WritePatches
  <2>1. /\ pc = "wr" /\ pc' \in {"wr", "wr_inode"} /\ UNCHANGED <<block_bitmap, d_inodes>>
        /\ \E o, l : c' = [c EXCEPT !.off = o, !.left = l, !.fresh = FALSE]
        /\ inodes' = inodes \/ \E n : inodes' = [inodes EXCEPT ![c.ino].size = n]
    BY <1>0, <1>4 DEF WritePatches
  <2>2. c'.ino = c.ino /\ Writing'
    BY <1>1, <2>1 DEF Frame, Writing, WritePcs
  <2>3. ASSUME NEW n, inodes' = [inodes EXCEPT ![c.ino].size = n]
        PROVE  \A i \in Inodes : /\ inodes'[i].direct = inodes[i].direct
                                 /\ inodes'[i].type = inodes[i].type
    BY <1>1, <2>3, ResizeFields
  <2>4. \A i \in Inodes : inodes'[i].direct = inodes[i].direct /\ inodes'[i].type = inodes[i].type
    BY <2>1, <2>3
  <2>5. Blank'
    BY <1>2, <2>4, BlankQuiet DEF FreePcs
  <2>6. ASSUME NEW i \in Inodes, NEW k \in Slots
        PROVE  \/ Own(inodes'[i], d_inodes[i].direct[k])
               \/ i = c.ino /\ d_inodes[i].direct[k] \notin block_bitmap
    <3>1. \/ Own(inodes[i], d_inodes[i].direct[k])
          \/ i = c.ino /\ d_inodes[i].direct[k] \notin block_bitmap
      BY <2>1 DEF Calm, Loose
    <3> QED BY <2>4, <3>1 DEF Own
  <2>7. Calm'
    BY <2>1, <2>2, <2>6 DEF Calm, Loose
  <2> QED BY <2>5, <2>7
<1>5. CASE WriteInode
  <2>1. luxfs_flush_inode(c.ino) /\ inodes' = inodes
    BY <1>0, <1>5 DEF WriteInode, mem
  <2>2. /\ d_inodes'[c.ino] = inodes[c.ino]
        /\ \A i \in Inodes : d_inodes'[i] = inodes[i] \/ d_inodes'[i] = d_inodes[i]
    BY <1>1, <2>1, FlushWrites
  <2>3. Blank'
    BY <1>2, <2>1, BlankQuiet DEF FreePcs
  <2>4. ASSUME NEW i \in Inodes, NEW k \in Slots
        PROVE  Own(inodes[i], d_inodes'[i].direct[k])
    <3>1. CASE d_inodes'[i] = inodes[i]
      BY <3>1 DEF Own
    <3>2. CASE d_inodes'[i] = d_inodes[i] /\ i # c.ino
      BY <3>2 DEF Calm
    <3> QED BY <2>2, <3>1, <3>2
  <2> QED BY <2>1, <2>3, <2>4 DEF Calm
<1> QED BY <1>3, <1>4, <1>5

\* A call begins: the inode a create takes is free, so neither memory nor the
\* disk gives it a block.
LEMMA CalmCall ==
  ASSUME Whole, Calm, Blank, Call
  PROVE  Calm' /\ Blank'
<1>0. pc = "idle" /\ UNCHANGED disk
  BY CallBegins
<1>1. ~Writing /\ d_inodes' = d_inodes
  BY <1>0 DEF Writing, Truncating, WritePcs, disk
<1>2. ASSUME UNCHANGED mem, ~Creating'
      PROVE  Calm' /\ Blank'
  <2>1. inodes' = inodes /\ pc' \notin {"ai_bitmap", "ai_inode"} \cup FreePcs
    BY <1>2 DEF mem, Creating, CreatePcs
  <2> QED BY <1>1, <1>2, <2>1, CalmQuiet, BlankQuiet
<1>3. ASSUME NEW op, NEW type \in {"file", "dir"}, NEW parent, NEW name,
             luxfs_alloc_inode(op, type, parent, name)
      PROVE  Calm' /\ Blank'
  <2>1. PICK i \in FreeInodes :
          /\ inodes' = [inodes EXCEPT
               ![i] = [luxfs_inode_clear EXCEPT !.type = type, !.parent = parent]]
          /\ c' = [NoCall EXCEPT !.op = op, !.dir = parent, !.ino = i, !.name = name]
          /\ pc' = "ai_bitmap"
    BY <1>3 DEF luxfs_alloc_inode
  <2>2. i \in Inodes /\ i \notin inode_bitmap /\ c'.ino = i /\ inodes \in [Inodes -> Inode]
    BY <2>1 DEF FreeInodes, NoCall, Whole, Intact
  <2>3. Bare(inodes[i])
    BY <2>2 DEF Whole, Intact, AllInOrder, Taken, Blank
  <2>4. Bare(d_inodes[i])
    BY <1>1, <2>2, <2>3 DEF Calm, Loose, Own, Bare
  <2>5. (\A j \in Inodes : j # i => inodes'[j] = inodes[j]) /\ Bare(inodes'[i])
    BY <2>1, <2>2 DEF luxfs_inode_clear, Bare
  <2>6. Blank'
    <3>1. \A j \in Inodes : inodes'[j].type = "free" => Bare(inodes'[j])
      BY <2>5 DEF Blank
    <3> QED BY <1>1, <2>2, <2>4, <2>5, <3>1 DEF Blank
  <2>7. ASSUME NEW j \in Inodes, NEW k \in Slots
        PROVE  Own(inodes'[j], d_inodes[j].direct[k])
    <3>1. CASE j = i
      BY <2>4, <3>1 DEF Bare, Own
    <3>2. CASE j # i
      BY <1>1, <2>5, <3>2 DEF Calm, Loose
    <3> QED BY <3>1, <3>2
  <2>8. Calm'
    BY <1>1, <2>7 DEF Calm
  <2> QED BY <2>6, <2>8
<1>4. ASSUME NEW op, NEW type \in {"file", "dir"}, NEW path, CreateCall(op, type, path)
      PROVE  Calm' /\ Blank'
  <2>1. CASE pc' = "ret" /\ UNCHANGED mem
    BY <1>2, <2>1 DEF Creating, CreatePcs, FreePcs
  <2>2. CASE luxfs_alloc_inode(op, type, luxfs_resolve_parent(path), Leaf(path))
    BY <1>3, <2>2
  <2> QED BY <1>4, <2>1, <2>2, CreateBegins
<1>5. ASSUME NEW path, NEW off, NEW len, NEW v, NEW t, fs_write(path, off, len, v, t)
      PROVE  Calm' /\ Blank'
  <2>1. UNCHANGED mem
    BY <1>5 DEF fs_write
  <2>2. pc' = "ret" \/ (c'.op = "write" /\ pc' \in {"rl", "wr_inode", "wr"})
    BY <1>5 DEF fs_write, Answer, NoCall
  <2>3. ~Creating'
    BY <2>2 DEF Creating, CreatePcs, FreePcs
  <2> QED BY <1>2, <2>1, <2>3
<1> QED BY <1>4, <1>5 DEF Call, fs_touch, fs_mkdir

\* All the steps of a call.
LEMMA CalmRunning ==
  ASSUME Whole, Calm, Blank, Succeeds, Running, ~luxfs_format
  PROVE  Calm' /\ Blank'
<1>1. CASE AllocInodeBitmap \/ AllocInodeFlush \/ luxfs_dir_append_record
  BY <1>1, CalmCreate, CalmZeroes DEF luxfs_dir_append_record
<1>2. CASE ReleaseBlock \/ ReleasedForWrite \/ luxfs_mark_inode_free
  BY <1>2, CalmRelease, CalmReleased, CalmFree DEF luxfs_mark_inode_free
<1>3. CASE WriteNoSpace \/ WriteAllocates \/ WriteBlockBitmap \/ WritePatches \/ WriteInode
           \/ Returns
  BY <1>3, CalmWriteTakes, CalmWrites, CalmFree
<1> QED BY <1>1, <1>2, <1>3 DEF Running

\* Mounting takes the disk as it is.
LEMMA CalmMount ==
  ASSUME TypeInv, CalmInv, fs_mount, faults = 0, ~torn'
  PROVE  CalmInv'
<1>1. pc = "off" /\ ~torn /\ ~mounted /\ UNCHANGED disk
  BY DEF fs_mount, disk, TypeInv, CallOK, FormatPcs
<1>2. d_super => DiskBlank
  BY <1>1 DEF CalmInv, FormatPcs
<1>3. CASE ~mounted'
  BY <1>1, <1>2, <1>3 DEF CalmInv, DiskBlank, disk
<1>4. CASE mounted'
  <2>1. d_super /\ inodes' = d_inodes /\ d_inodes' = d_inodes /\ pc' = "idle"
    BY <1>1, <1>4 DEF fs_mount, mem, disk
  <2>2. Calm'
    BY <2>1 DEF Calm, Own
  <2>3. Blank'
    BY <1>2, <2>1 DEF Blank, DiskBlank, Creating, CreatePcs, FreePcs
  <2> QED BY <1>4, <2>2, <2>3 DEF CalmInv
<1> QED BY <1>3, <1>4

\* A format that is over has written the image it built, with no blocks.
LEMMA CalmFormat ==
  ASSUME SyncInv, SyncInv', FormatInv, CalmInv, luxfs_format, faults = 0, ~torn', Succeeds
  PROVE  CalmInv'
<1>0. TypeInv /\ ~Fails
  <2>1. faults' = faults /\ faults \in Nat
    BY DEF Succeeds
  <2> QED BY <2>1 DEF Fails, SyncInv, SolidInv
<1>1. pc \in FormatPcs /\ ~mounted
  BY <1>0 DEF luxfs_format, FormatSuperblock, FormatInodeBitmap, FormatBlockBitmap, FormatInodeTable,
     FormatFails, FormatPcs, TypeInv, CallOK
<1>2. \A i \in Inodes : inodes[i].type # "file" /\ Bare(inodes[i])
  BY <1>1, Ranges DEF FormatInv, luxfs_inode_clear, Root, Bare
<1>3. CASE ~mounted'
  <2>1. pc' \in FormatPcs
    BY <1>0, <1>1, <1>3 DEF luxfs_format, FormatSuperblock, FormatInodeBitmap, FormatBlockBitmap,
       FormatInodeTable, FormatFails, FormatPcs, Goto
  <2> QED BY <1>3, <2>1 DEF CalmInv
<1>4. CASE mounted'
  <2>1. FormatInodeTable
    BY <1>0, <1>1, <1>4 DEF luxfs_format, FormatSuperblock, FormatInodeBitmap, FormatBlockBitmap,
       FormatFails, mem
  <2>2. (\A i \in Inodes : inodes'[i] = inodes[i]) /\ pc' = "idle"
    BY <1>0, <1>4, <2>1, FormatDone
  <2>3. \A i \in Inodes : ~Changed(i)'
    BY <2>2 DEF Changed, Reborn, Writing, Truncating, WritePcs
  <2>4. \A i \in Inodes : d_inodes'[i] = inodes'[i]
    <3>1. Table'
      BY DEF SyncInv, AllInOrder, Succeeds
    <3> QED BY <1>2, <1>4, <2>2, <2>3, <3>1 DEF Table
  <2>5. Calm'
    BY <2>4 DEF Calm, Own
  <2>6. Blank'
    BY <1>2, <2>2 DEF Blank, Creating, CreatePcs, FreePcs
  <2> QED BY <1>4, <2>5, <2>6 DEF CalmInv
<1> QED BY <1>3, <1>4

\* The power goes: what the disk has of a block, memory had.
LEMMA CalmPower ==
  ASSUME LinkInv, SyncInv, KeptInv, TreeInv, CalmInv, faults = 0, LosePower, ~torn'
  PROVE  CalmInv'
<1>1. ~torn /\ ~Tears /\ ~mounted' /\ pc' = "off" /\ UNCHANGED disk
  BY DEF LosePower
<1>2. d_super => DiskBlank
  <2>1. CASE mounted
    <3>1. Calm /\ Blank /\ Table /\ Stale = {}
      BY <1>1, <2>1 DEF CalmInv, SyncInv, AllInOrder, Tears
    <3> SUFFICES ASSUME NEW i \in Inodes, d_inodes[i].type = "free"
                 PROVE  Bare(d_inodes[i])
      BY DEF DiskBlank
    <3>2. CASE Reborn(i)
      BY <3>1, <3>2 DEF Reborn, Blank, Creating, CreatePcs, FreePcs
    <3>3. CASE ~Reborn(i)
      <4>1. Bare(inodes[i])
        BY <2>1, <3>1, <3>3 DEF Table, Blank
      <4>2. \A k \in Slots :
              d_inodes[i].direct[k] \in {INVALID} \cup {inodes[i].direct[l] : l \in Slots}
        BY <3>1 DEF Stale
      <4> QED BY <4>1, <4>2 DEF Bare
    <3> QED BY <3>2, <3>3
  <2>2. CASE ~mounted /\ pc \notin FormatPcs
    BY <1>1, <2>2 DEF CalmInv
  <2>3. CASE pc \in FormatPcs
    <3>1. pc = "fmt_super"
      BY <1>1, <2>3 DEF Tears, FormatPcs
    <3> QED BY <3>1 DEF SyncInv, AllInOrder, Booting
  <2> QED BY <2>1, <2>2, <2>3
<1> QED BY <1>1, <1>2 DEF CalmInv, DiskBlank, disk

\* Every step keeps the pointers of memory and disk together.
LEMMA CalmNext ==
  ASSUME LinkInv, SyncInv, SyncInv', FormatInv, KeptInv, TreeInv, CalmInv, Next
  PROVE  CalmInv'
<1>0. TypeInv
  BY DEF SyncInv, SolidInv
<1> SUFFICES ASSUME faults' = 0, ~torn' PROVE CalmInv'
  BY DEF CalmInv
<1>1. faults = 0 /\ Succeeds
  BY <1>0, FaultFree
<1>2. CASE fs_mount
  BY <1>0, <1>1, <1>2, CalmMount
<1>3. CASE luxfs_format
  BY <1>1, <1>3, CalmFormat
<1>4. CASE shutdown \/ Crash
  BY <1>1, <1>4, CalmPower DEF shutdown, Crash
<1>5. CASE Call \/ (Running /\ ~luxfs_format)
  <2>1. ~torn
    BY <1>5, TornStep
  <2>2. CASE ~mounted
    <3>1. UNCHANGED disk /\ ~mounted' /\ pc \in {"idle", "ret"} /\ pc' \in {"idle", "ret"}
      BY <1>0, <1>5, <2>2, UnmountedStep
    <3>2. d_super' => DiskBlank'
      BY <1>1, <2>1, <2>2, <3>1 DEF CalmInv, DiskBlank, disk, FormatPcs
    <3> QED BY <3>1, <3>2 DEF CalmInv
  <2>3. CASE mounted
    <3>1. Whole
      BY <1>1, <2>1, <2>3, WholeStep
    <3>2. Calm' /\ Blank'
      BY <1>1, <1>5, <2>1, <2>3, <3>1, CalmCall, CalmRunning DEF CalmInv
    <3>3. mounted'
      BY <1>5, <2>3, StaysMounted
    <3> QED BY <3>2, <3>3 DEF CalmInv
  <2> QED BY <2>2, <2>3
<1> QED BY <1>2, <1>3, <1>4, <1>5 DEF Next

\* Between calls the disk points to nothing that memory does not.
LEMMA CalmIdle ==
  ASSUME CalmInv, faults = 0, ~torn, mounted, pc = "idle"
  PROVE  ~Tears
<1>1. Calm /\ ~Writing
  BY DEF CalmInv, Writing, Truncating, WritePcs
<1>2. \A i \in Inodes, k \in Slots : Own(inodes[i], d_inodes[i].direct[k])
  BY <1>1 DEF Calm, Loose
<1>3. Stale = {}
  BY <1>2 DEF Stale, Own
<1> QED BY <1>3 DEF Tears, FormatPcs

-----------------------------------------------------------------------------
(* Every inode that is taken has a record.                                 *)

\* The inode a create works on has no record yet.
Newcomer(x) == Creating /\ pc # "ap_inode" /\ x = c.ino
Homes == \A x \in inode_bitmap \ {Root} : ~Unnamed(d_data, inodes, x) \/ Newcomer(x)
DiskHomes == \A x \in d_inode_bitmap \ {Root} : ~Unnamed(d_data, d_inodes, x)

HomeInv == faults = 0 /\ crashes = 0 =>
             /\ ~torn
             /\ mounted => Homes
             /\ ~mounted /\ d_super /\ pc \notin FormatPcs => DiskHomes

\* Every directory keeps the records it has, and may get more.
RowsStay == \A d \in Inodes : inodes[d].type = "dir" =>
              \/ inodes[d].size = 0
              \/ /\ inodes'[d].type = "dir" /\ inodes[d].size <= inodes'[d].size
                 /\ \A o \in Nat : o < inodes[d].size =>
                      CellOf(d_data', inodes'[d], o) = CellOf(d_data, inodes[d], o)

\* Inodes keep their records; an inode that is taken belongs to a create, and
\* a create ends with a record or without the inode.
LEMMA HomesKept ==
  ASSUME Whole, Homes, inodes' \in [Inodes -> Inode], RowsStay,
         \A x \in inode_bitmap' \ {Root} : x \in inode_bitmap \/ Newcomer(x)',
         \A x \in inode_bitmap' \ {Root} :
           Newcomer(x) => Newcomer(x)' \/ ~Unnamed(d_data', inodes', x)
  PROVE  Homes'
<1> SUFFICES ASSUME NEW x \in inode_bitmap' \ {Root}, ~Newcomer(x)', Unnamed(d_data', inodes', x)
             PROVE  FALSE
  BY DEF Homes
<1>1. x \in inode_bitmap \ {Root} /\ ~Newcomer(x)
  OBVIOUS
<1>2. ~Unnamed(d_data, inodes, x)
  BY <1>1 DEF Homes
<1>3. inodes \in [Inodes -> Inode]
  BY DEF Whole, Intact
<1>4. \A d \in Inodes : inodes[d].type = "dir" =>
        \/ inodes[d].size = 0
        \/ /\ inodes'[d].type = "dir" /\ inodes[d].size <= inodes'[d].size
           /\ \A o \in Nat : o < inodes[d].size =>
                CellOf(d_data, inodes[d], o) = CellOf(d_data', inodes'[d], o)
  BY DEF RowsStay
<1>5. Unnamed(d_data, inodes, x)
  BY <1>3, <1>4, UnnamedKept
<1> QED BY <1>2, <1>5

\* Steps that change no inode and no data.
LEMMA HomesQuiet ==
  ASSUME Whole, Homes, UNCHANGED <<inodes, inode_bitmap, d_data>>,
         \A x \in inode_bitmap \ {Root} : Newcomer(x) => Newcomer(x)'
  PROVE  Homes'
<1>1. RowsStay
  <2>1. \A d \in Inodes : inodes[d].size <= inodes'[d].size
    BY DEF Whole, Intact, Inode
  <2> QED BY <2>1 DEF RowsStay
<1> QED BY <1>1, HomesKept DEF Whole, Intact

\* The steps of a create that only flush, or take a block.
LEMMA HomesCreate ==
  ASSUME Whole, Homes, Succeeds,
         AllocInodeBitmap \/ AllocInodeFlush \/ AppendRefused \/ AppendAllocates
         \/ AppendBlockBitmap \/ AppendInode
  PROVE  Homes'
<1>0. ~Fails
  BY NoFail
<1>1. pc \in CreatePcs /\ c \in Frame /\ c.op # "write"
  <2>1. pc \in CreatePcs
    BY DEF AllocInodeBitmap, AllocInodeFlush, AppendRefused, AppendAllocates, AppendBlockBitmap,
       AppendInode, CreatePcs
  <2> QED BY <2>1 DEF Whole, Intact, TypeInv, CallOK
<1>2. UNCHANGED <<inodes, inode_bitmap, d_data>>
  BY DEF AllocInodeBitmap, AllocInodeFlush, AppendRefused, AppendAllocates, luxfs_alloc_block,
     AppendBlockBitmap, AppendInode, mem, disk
<1>3. CASE AppendInode
  BY <1>2, <1>3, HomesQuiet DEF AppendInode, Newcomer
<1>4. CASE ~AppendInode
  <2>1. pc' \in {"ai_inode", "ap", "rl", "ap_bitmap", "ap_zero"}
    BY <1>0, <1>4 DEF AllocInodeBitmap, AllocInodeFlush, AppendRefused, AppendAllocates,
       luxfs_alloc_block, AppendBlockBitmap, Goto
  <2>2. \/ c' = c \/ \E b : c' = [c EXCEPT !.blk = b]
        \/ \E o, l : c' = [c EXCEPT !.off = o, !.left = l]
    BY <1>0, <1>4 DEF AllocInodeBitmap, AllocInodeFlush, AppendRefused, AppendAllocates,
       luxfs_alloc_block, AppendBlockBitmap, Goto
  <2>3. c'.ino = c.ino /\ c'.op = c.op
    BY <1>1, <2>2 DEF Frame
  <2>4. Creating'
    BY <1>1, <2>1, <2>3 DEF Creating, CreatePcs
  <2> QED BY <1>2, <2>1, <2>3, <2>4, HomesQuiet DEF Newcomer
<1> QED BY <1>3, <1>4

\* The end of a create that gives its inode back, and the steps of a write
\* that change no inode.
LEMMA HomesEnd ==
  ASSUME Whole, Homes, FreeInodeFlush \/ FreeInodeBitmap \/ WriteNoSpace \/ WriteAllocates
                       \/ WriteInode \/ Returns
  PROVE  Homes'
<1>1. UNCHANGED <<inodes, inode_bitmap, d_data>>
  BY DEF FreeInodeFlush, FreeInodeBitmap, WriteNoSpace, WriteAllocates, luxfs_alloc_block,
     WriteInode, Returns, mem, disk
<1>2. CASE FreeInodeFlush
  BY <1>1, <1>2, HomesQuiet DEF FreeInodeFlush, Goto, Newcomer, Creating, FreePcs
<1>3. CASE FreeInodeBitmap
  <2>1. pc \in FreePcs
    BY <1>3 DEF FreeInodeBitmap, FreePcs
  <2>2. c.ino \notin inode_bitmap
    BY <2>1 DEF Whole, Intact, AllInOrder, Bitmaps
  <2> QED BY <1>1, <2>2, HomesQuiet DEF Newcomer
<1>4. CASE WriteNoSpace \/ WriteAllocates \/ WriteInode \/ Returns
  <2>1. ~Creating
    BY <1>4 DEF WriteNoSpace, WriteAllocates, WriteInode, Returns, Creating, CreatePcs, FreePcs
  <2> QED BY <1>1, <2>1, HomesQuiet DEF Newcomer
<1> QED BY <1>2, <1>3, <1>4

\* One inode changes that is a file or has no records.
LEMMA HomesTable ==
  ASSUME Whole, Homes, inodes' \in [Inodes -> Inode], UNCHANGED d_data,
         NEW w \in Inodes, \A i \in Inodes : i # w => inodes'[i] = inodes[i],
         inodes[w].type = "dir" => inodes[w].size = 0,
         \A x \in inode_bitmap' \ {Root} : x \in inode_bitmap \/ Newcomer(x)',
         \A x \in inode_bitmap' \ {Root} : Newcomer(x) => Newcomer(x)'
  PROVE  Homes'
<1>1. \A i \in Inodes : i # w => inodes[i].size <= inodes'[i].size
  BY DEF Whole, Intact, Inode
<1>2. RowsStay
  BY <1>1 DEF RowsStay
<1> QED BY <1>2, HomesKept

\* Blocks are released, or a file gets one.
LEMMA HomesRelease ==
  ASSUME Whole, Homes, MemType', Succeeds, ReleaseBlock \/ ReleasedForWrite \/ ReleasedForFree \/ WriteBlockBitmap
  PROVE  Homes'
<1> HIDE DEF Slot
<1>0. ~Fails
  BY NoFail
<1>1. /\ c.ino \in Inodes /\ inodes \in [Inodes -> Inode] /\ UNCHANGED d_data
      /\ inodes' \in [Inodes -> Inode] /\ c \in Frame
  <2>1. pc \in {"rl", "wr_bitmap"}
    BY DEF ReleaseBlock, ReleasedForWrite, ReleasedForFree, WriteBlockBitmap
  <2> QED BY <2>1 DEF ReleaseBlock, ReleasedForWrite, ReleasedForFree, WriteBlockBitmap, disk,
          Whole, Intact, TypeInv, CallOK, WritePcs, MemType
<1>2. inodes[c.ino].type = "dir" => inodes[c.ino].size = 0
  <2>1. CASE Writing
    BY <2>1 DEF Whole, Intact, WriteOK
  <2>2. CASE ~Writing
    <3>1. Creating /\ pc # "ap_inode"
      BY <2>2 DEF ReleaseBlock, ReleasedForWrite, ReleasedForFree, WriteBlockBitmap, Creating,
         Writing, Truncating, WritePcs
    <3> QED BY <3>1 DEF Whole, Shape, Making
  <2> QED BY <2>1, <2>2
<1>3. \A i \in Inodes : i # c.ino => inodes'[i] = inodes[i]
  BY <1>1 DEF ReleaseBlock, ReleasedForWrite, ReleasedForFree, WriteBlockBitmap
<1>4. CASE ReleaseBlock
  <2>1. /\ inode_bitmap' = inode_bitmap /\ pc = "rl" /\ pc' = "rl"
        /\ c' = c \/ c' = [c EXCEPT !.ok = FALSE]
    BY <1>4 DEF ReleaseBlock
  <2>2. c'.ino = c.ino /\ c'.op = c.op
    BY <1>1, <2>1 DEF Frame
  <2>3. \A x : Newcomer(x) => Newcomer(x)'
    BY <2>1, <2>2 DEF Newcomer, Creating
  <2> QED BY <1>1, <1>2, <1>3, <2>1, <2>3, HomesTable
<1>5. CASE ReleasedForWrite \/ WriteBlockBitmap
  <2>1. inode_bitmap' = inode_bitmap /\ ~Creating
    BY <1>5 DEF ReleasedForWrite, WriteBlockBitmap, Creating, CreatePcs, FreePcs
  <2> QED BY <1>1, <1>2, <1>3, <2>1, HomesTable DEF Newcomer
<1>6. CASE ReleasedForFree
  <2>1. inode_bitmap' = inode_bitmap \ {c.ino} /\ pc' = "un_inode" /\ c' = c
    BY <1>6 DEF ReleasedForFree, Goto
  <2>2. \A x : Newcomer(x) => Newcomer(x)'
    BY <2>1 DEF Newcomer, Creating, FreePcs
  <2> QED BY <1>1, <1>2, <1>3, <2>1, <2>2, HomesTable
<1> QED BY <1>4, <1>5, <1>6

\* A directory has blocks for all its records, so zeroing one behind them and
\* filling a block of a file leave the records alone.
LEMMA HomesData ==
  ASSUME Whole, Homes, MemType', Succeeds, AppendZeroes \/ WritePatches
  PROVE  Homes'
<1> HIDE DEF Slot, At, Chunk
<1>0. ~Fails
  BY NoFail
<1>1. inodes \in [Inodes -> Inode] /\ inodes' \in [Inodes -> Inode] /\ c \in Frame
  BY DEF Whole, Intact, MemType
<1>2. CASE AppendZeroes
  <2>1. /\ pc = "ap_zero" /\ pc' = "ap" /\ c.dir \in Inodes /\ inode_bitmap' = inode_bitmap
        /\ inodes' = [inodes EXCEPT ![c.dir].direct[Slot] = c.blk]
        /\ c' = [c EXCEPT !.blk = INVALID]
    BY <1>0, <1>2 DEF AppendZeroes, Whole, Intact, TypeInv, CallOK, CreatePcs
  <2>2. \A i \in Inodes : inodes'[i].type = inodes[i].type /\ inodes'[i].size = inodes[i].size
    BY <1>1, <2>1, RepointFields
  <2>3. \A d \in Inodes, o \in Nat : inodes[d].type = "dir" /\ o < inodes[d].size =>
          CellOf(d_data', inodes'[d], o) = CellOf(d_data, inodes[d], o)
    <3> SUFFICES ASSUME NEW d \in Inodes, inodes[d].type = "dir", NEW o \in Nat, o < inodes[d].size
                 PROVE  CellOf(d_data', inodes'[d], o) = CellOf(d_data, inodes[d], o)
      OBVIOUS
    <3>1. CoveredTo(inodes[d], inodes[d].size)
      BY MemCovered
    <3>2. o \div SectorSize \in Slots /\ inodes[d].direct[o \div SectorSize] \in Blocks
      BY <1>1, <3>1, CoveredCell
    <3> QED BY <1>2, <3>2, ZeroesKeep DEF Whole
  <2>4. RowsStay
    <3>1. \A d \in Inodes : inodes[d].size <= inodes'[d].size
      BY <1>1, <2>2 DEF Inode
    <3> QED BY <2>2, <2>3, <3>1 DEF RowsStay
  <2>5. c'.ino = c.ino /\ c'.op = c.op
    BY <1>1, <2>1 DEF Frame
  <2>6. \A x : Newcomer(x) => Newcomer(x)'
    BY <2>1, <2>5 DEF Newcomer, Creating, CreatePcs
  <2> QED BY <1>1, <2>1, <2>4, <2>6, HomesKept
<1>3. CASE WritePatches
  <2>1. /\ pc = "wr" /\ inode_bitmap' = inode_bitmap /\ c.ino \in Inodes
        /\ inodes[c.ino].type = "file"
    BY <1>3 DEF WritePatches, Whole, Intact, TypeInv, CallOK, WritePcs, WriteOK, Writing
  <2>2. \A i \in Inodes : i # c.ino => inodes'[i] = inodes[i]
    BY <1>1, <1>3 DEF WritePatches
  <2>3. \A d \in Inodes, o \in Nat : inodes[d].type = "dir" /\ o < inodes[d].size =>
          CellOf(d_data', inodes[d], o) = CellOf(d_data, inodes[d], o)
    BY <1>3, FileSpared
  <2>4. \A d \in Inodes : inodes[d].size <= inodes[d].size
    BY <1>1 DEF Inode
  <2>5. RowsStay
    BY <2>1, <2>2, <2>3, <2>4 DEF RowsStay
  <2>6. \A x : ~Newcomer(x)
    BY <2>1 DEF Newcomer, Creating, CreatePcs, FreePcs
  <2> QED BY <1>1, <2>1, <2>5, <2>6, HomesKept
<1> QED BY <1>2, <1>3

\* The record is written; with its last cell the directory grows by a record
\* of the new inode.
LEMMA HomesPatches ==
  ASSUME Whole, Homes, MemType', Succeeds, AppendPatches
  PROVE  Homes'
<1> HIDE DEF Slot, At, Chunk
<1>0. ~Fails
  BY NoFail
<1>1. /\ pc = "ap" /\ c.ino \in Inodes /\ c.dir \in Inodes /\ c.op # "write"
      /\ inodes[c.dir].type = "dir" /\ Slot < DirectBlocks
      /\ inodes[c.dir].direct[Slot] # INVALID /\ UNCHANGED inode_bitmap
      /\ c' = [c EXCEPT !.off = c.off + Chunk, !.left = c.left - Chunk]
      /\ IF Chunk = c.left
         THEN /\ inodes' = [inodes EXCEPT ![c.dir].size = inodes[c.dir].size + RecordSize]
              /\ pc' = "ap_inode"
         ELSE UNCHANGED <<inodes, pc>>
  BY <1>0 DEF AppendPatches, Whole, Intact, TypeInv, CallOK, CreatePcs
<1>2. inodes \in [Inodes -> Inode] /\ inodes' \in [Inodes -> Inode]
  BY DEF Whole, Intact, MemType
<1>3. /\ c.off \in Nat /\ c.left \in Nat /\ c.off + c.left = inodes[c.dir].size + 2
      /\ c'.ino = c.ino /\ c'.op = c.op /\ inodes[c.dir].size \in Nat
  BY <1>1 DEF Whole, Intact, Frame, AllInOrder, Appending, RecordSize, Inode
<1>4. Slot \in Slots /\ inodes[c.dir].direct[Slot] \in Blocks
  <2>1. Slot \in Slots
    BY <1>1, <1>3, ChunkBounds, SizeAssumption DEF Slots
  <2> QED BY <1>1, <1>2, <2>1 DEF Inode
<1>5. d_data' = [d_data EXCEPT ![inodes[c.dir].direct[Slot]] =
                      [u \in Units |-> IF u \in At .. At + Chunk - 1
                                      THEN RecordCell(RecordSize - c.left + u - At)
                                      ELSE d_data[inodes[c.dir].direct[Slot]][u]]]
  BY <1>0 DEF AppendPatches, disk_write_data_block
<1>6. /\ \A d \in Inodes, o \in Nat : inodes[d].type = "dir" /\ o < inodes[d].size =>
           CellOf(d_data', inodes[d], o) = CellOf(d_data, inodes[d], o)
      /\ \A o \in Nat : inodes[c.dir].size <= o /\ o < c.off + Chunk =>
           CellOf(d_data', inodes[c.dir], o) = RecordCell(o - inodes[c.dir].size)
  BY <1>1, <1>4, <1>5, RecordWritten
<1>7. \A i \in Inodes : /\ inodes'[i].type = inodes[i].type /\ inodes'[i].direct = inodes[i].direct
                        /\ inodes[i].size <= inodes'[i].size
  <2>1. \A i \in Inodes : inodes[i].size \in Nat
    BY <1>2 DEF Inode
  <2>2. CASE Chunk # c.left
    BY <1>1, <2>1, <2>2
  <2>3. CASE Chunk = c.left
    <3>1. inodes' = [inodes EXCEPT ![c.dir].size = inodes[c.dir].size + RecordSize]
      BY <1>1, <2>3
    <3>2. \A i \in Inodes : /\ inodes'[i].type = inodes[i].type
                            /\ inodes'[i].direct = inodes[i].direct
                            /\ i # c.dir => inodes'[i].size = inodes[i].size
      BY <1>1, <1>2, <3>1, ResizeFields
    <3>3. inodes'[c.dir].size = inodes[c.dir].size + 2
      BY <1>1, <1>2, <3>1, ResizeFields DEF RecordSize
    <3> QED BY <1>3, <2>1, <3>2, <3>3
  <2> QED BY <2>2, <2>3
<1>8. RowsStay
  <2>1. \A d \in Inodes : \A o : CellOf(d_data', inodes'[d], o) = CellOf(d_data', inodes[d], o)
    BY <1>7 DEF CellOf
  <2> QED BY <1>6, <1>7, <2>1 DEF RowsStay
<1>9. CASE Chunk # c.left
  <2>1. \A x : Newcomer(x) => Newcomer(x)'
    BY <1>1, <1>3, <1>9 DEF Newcomer, Creating, CreatePcs
  <2> QED BY <1>1, <1>2, <1>8, <2>1, HomesKept
<1>10. CASE Chunk = c.left
  <2> DEFINE s == inodes[c.dir].size
  <2>1. inodes'[c.dir].size = s + 2 /\ inodes'[c.dir].type = "dir"
    <3>1. inodes' = [inodes EXCEPT ![c.dir].size = inodes[c.dir].size + RecordSize]
      BY <1>1, <1>10
    <3>2. inodes'[c.dir].size = s + 2
      BY <1>1, <1>2, <3>1, ResizeFields DEF RecordSize
    <3> QED BY <1>1, <1>7, <3>2
  <2>2. CellOf(d_data', inodes'[c.dir], s) = <<"ino", c.ino>>
    <3>1. s < c.off + Chunk /\ s - s = 0
      BY <1>3, <1>10
    <3>2. CellOf(d_data', inodes[c.dir], s) = RecordCell(s - s)
      BY <1>3, <1>6, <3>1
    <3>3. CellOf(d_data', inodes'[c.dir], s) = CellOf(d_data', inodes[c.dir], s)
      BY <1>1, <1>7 DEF CellOf
    <3> QED BY <3>1, <3>2, <3>3 DEF RecordCell
  <2>3. PICK m \in Nat : s = 2 * m
    BY <1>1 DEF Whole, Shape, Sound, Even
  <2>4. m \in Rows(inodes'[c.dir])
    BY <2>1, <2>3 DEF Rows
  <2>5. Entry(d_data', inodes'[c.dir], m, c.ino)
    BY <2>2, <2>3 DEF Entry
  <2>6. ~Unnamed(d_data', inodes', c.ino)
    BY <1>1, <2>1, <2>4, <2>5 DEF Unnamed
  <2>7. \A x : Newcomer(x) => ~Unnamed(d_data', inodes', x)
    BY <2>6 DEF Newcomer
  <2> QED BY <1>1, <1>2, <1>8, <2>7, HomesKept
<1> QED BY <1>9, <1>10

\* A call begins; the inode a create takes is the newcomer.
LEMMA HomesCall ==
  ASSUME Whole, Homes, MemType', Call
  PROVE  Homes'
<1>0. pc = "idle" /\ UNCHANGED disk
  BY CallBegins
<1>1. ~Creating /\ d_data' = d_data
  BY <1>0 DEF Creating, CreatePcs, FreePcs, disk
<1>2. ASSUME UNCHANGED mem PROVE Homes'
  BY <1>1, <1>2, HomesQuiet DEF mem, Newcomer
<1>3. ASSUME NEW op, NEW type, NEW parent, NEW name, luxfs_alloc_inode(op, type, parent, name)
      PROVE  Homes'
  <2>1. PICK i \in FreeInodes :
          /\ inodes' = [inodes EXCEPT
               ![i] = [luxfs_inode_clear EXCEPT !.type = type, !.parent = parent]]
          /\ inode_bitmap' = inode_bitmap \cup {i}
          /\ c' = [NoCall EXCEPT !.op = op, !.dir = parent, !.ino = i, !.name = name]
          /\ pc' = "ai_bitmap"
    BY <1>3 DEF luxfs_alloc_inode
  <2>2. i \in Inodes /\ i \notin inode_bitmap /\ c'.ino = i /\ inodes \in [Inodes -> Inode]
    BY <2>1 DEF FreeInodes, NoCall, Whole, Intact
  <2>3. inodes[i].type = "free"
    BY <2>2 DEF Whole, Intact, AllInOrder, Taken
  <2>4. \A j \in Inodes : j # i => inodes'[j] = inodes[j]
    BY <2>1, <2>2
  <2>5. \A x \in inode_bitmap' \ {Root} : x \in inode_bitmap \/ Newcomer(x)'
    BY <2>1, <2>2 DEF Newcomer, Creating, CreatePcs
  <2>6. \A x : ~Newcomer(x)
    BY <1>1 DEF Newcomer
  <2> QED BY <1>1, <2>2, <2>3, <2>4, <2>5, <2>6, HomesTable DEF MemType
<1>4. ASSUME NEW op, NEW type, NEW path, CreateCall(op, type, path)
      PROVE  Homes'
  BY <1>2, <1>3, <1>4, CreateBegins
<1>5. ASSUME NEW path, NEW off, NEW len, NEW v, NEW t, fs_write(path, off, len, v, t)
      PROVE  Homes'
  BY <1>2, <1>5 DEF fs_write
<1> QED BY <1>4, <1>5 DEF Call, fs_touch, fs_mkdir

\* All the steps of a call.
LEMMA HomesRunning ==
  ASSUME Whole, Homes, MemType', Succeeds, Running, ~luxfs_format
  PROVE  Homes'
<1>1. CASE AllocInodeBitmap \/ AllocInodeFlush \/ luxfs_dir_append_record
  BY <1>1, HomesCreate, HomesData, HomesPatches DEF luxfs_dir_append_record
<1>2. CASE ReleaseBlock \/ ReleasedForWrite \/ luxfs_mark_inode_free
  BY <1>2, HomesRelease, HomesEnd DEF luxfs_mark_inode_free
<1>3. CASE WriteNoSpace \/ WriteAllocates \/ WriteBlockBitmap \/ WritePatches \/ WriteInode
           \/ Returns
  BY <1>3, HomesEnd, HomesRelease, HomesData
<1> QED BY <1>1, <1>2, <1>3 DEF Running

\* The power has not gone in the middle of a call.
LEMMA CrashFree ==
  ASSUME TypeInv, Next, crashes' = 0
  PROVE  crashes = 0 /\ ~Crash
<1>0. crashes \in Nat
  BY SizeAssumption DEF TypeInv, TypeOK, BudgetType
<1>1. CASE Crash
  BY <1>0, <1>1 DEF Crash
<1>2. CASE fs_mount \/ luxfs_format \/ shutdown
  BY <1>2, <1>0 DEF fs_mount, luxfs_format, FormatSuperblock, FormatInodeBitmap, FormatBlockBitmap,
     FormatInodeTable, FormatFails, shutdown, Crash
<1>3. CASE Call
  <2>1. \A op, type, path : CreateCall(op, type, path) => crashes' = crashes
    BY DEF CreateCall
  <2>2. \A path, off, len, v, t : fs_write(path, off, len, v, t) => crashes' = crashes
    BY DEF fs_write
  <2>3. pc = "idle"
    BY <1>3, CallBegins
  <2> QED BY <1>3, <2>1, <2>2, <2>3 DEF Call, fs_touch, fs_mkdir, Crash
<1>4. CASE Running /\ ~luxfs_format
  <2>1. crashes' = crashes
    <3>1. CASE AllocInodeBitmap \/ AllocInodeFlush \/ luxfs_dir_append_record
      BY <3>1 DEF AllocInodeBitmap, AllocInodeFlush, luxfs_dir_append_record, AppendRefused,
         AppendAllocates, AppendBlockBitmap, AppendZeroes, AppendPatches, AppendInode
    <3>2. CASE ReleaseBlock \/ ReleasedForWrite \/ luxfs_mark_inode_free
      BY <3>2 DEF ReleaseBlock, ReleasedForWrite, luxfs_mark_inode_free, ReleasedForFree,
         FreeInodeFlush, FreeInodeBitmap
    <3>3. CASE WriteNoSpace \/ WriteAllocates \/ WriteBlockBitmap \/ WritePatches \/ WriteInode
               \/ Returns
      BY <3>3 DEF WriteNoSpace, WriteAllocates, WriteBlockBitmap, WritePatches, WriteInode, Returns
    <3> QED BY <1>4, <3>1, <3>2, <3>3 DEF Running
  <2> QED BY <1>0, <2>1 DEF Crash
<1> QED BY <1>1, <1>2, <1>3, <1>4 DEF Next

\* Mounting, formatting and shutting down: the directories of the disk are the
\* ones of memory, and nothing tears.
LEMMA HomesBoot ==
  ASSUME SyncInv, FormatInv, CalmInv, HomeInv, faults = 0, crashes = 0, Succeeds,
         fs_mount \/ luxfs_format \/ shutdown
  PROVE  HomeInv'
<1>0. TypeInv /\ AllInOrder /\ ~torn /\ ~Fails
  <2>1. faults' = faults /\ faults \in Nat
    BY DEF Succeeds
  <2> QED BY <2>1 DEF Fails, SyncInv, SolidInv, HomeInv
<1>1. CASE fs_mount
  <2>1. pc = "off" /\ ~mounted /\ UNCHANGED <<disk, torn>>
    BY <1>0, <1>1 DEF fs_mount, TypeInv, CallOK, FormatPcs
  <2>2. d_super => DiskHomes
    BY <2>1 DEF HomeInv, FormatPcs
  <2>3. CASE mounted'
    <3>1. d_super /\ inodes' = d_inodes /\ inode_bitmap' = d_inode_bitmap
      BY <1>1, <2>1, <2>3 DEF fs_mount, mem
    <3> QED BY <1>0, <2>1, <2>2, <2>3, <3>1 DEF HomeInv, Homes, DiskHomes, disk
  <2>4. CASE ~mounted'
    BY <1>0, <2>1, <2>2, <2>4 DEF HomeInv, DiskHomes, disk
  <2> QED BY <2>3, <2>4
<1>2. CASE luxfs_format
  <2>1. pc \in FormatPcs /\ ~mounted /\ ~FormatFails
    BY <1>0, <1>2 DEF luxfs_format, FormatSuperblock, FormatInodeBitmap, FormatBlockBitmap,
       FormatInodeTable, FormatFails, FormatPcs, TypeInv, CallOK
  <2>2. inode_bitmap' = {Root} /\ ~torn' /\ (mounted' \/ pc' \in FormatPcs)
    BY <1>0, <1>2, <2>1 DEF FormatInv, luxfs_format, FormatSuperblock, FormatInodeBitmap,
       FormatBlockBitmap, FormatInodeTable, FormatPcs, Goto, mem
  <2> QED BY <2>2 DEF HomeInv, Homes
<1>3. CASE shutdown
  <2>1. pc = "idle" /\ ~mounted' /\ UNCHANGED disk /\ torn' = (torn \/ Tears)
    BY <1>3 DEF shutdown, LosePower
  <2>2. ~Tears
    <3>1. CASE mounted
      BY <1>0, <2>1, <3>1, CalmIdle
    <3>2. CASE ~mounted
      BY <2>1, <3>2 DEF Tears, FormatPcs
    <3> QED BY <3>1, <3>2
  <2>3. ~torn'
    BY <1>0, <2>1, <2>2
  <2>4. d_super => DiskHomes
    <3>1. CASE mounted
      <4>1. d_inode_bitmap = inode_bitmap /\ ~Creating
        BY <1>0, <2>1, <3>1 DEF AllInOrder, Bitmaps, Creating, CreatePcs, FreePcs
      <4>2. \A i \in Inodes : ~Changed(i)
        BY <2>1 DEF Changed, Reborn, Writing, Truncating, WritePcs
      <4>3. \A i \in Inodes : /\ d_inodes[i].type = inodes[i].type
                              /\ inodes[i].type # "file" => d_inodes[i] = inodes[i]
        BY <1>0, <3>1, <4>2 DEF AllInOrder, Table, Changed
      <4>4. \A x : Unnamed(d_data, d_inodes, x) => Unnamed(d_data, inodes, x)
        BY <4>3 DEF Unnamed
      <4>5. Homes
        BY <3>1 DEF HomeInv
      <4> QED BY <4>1, <4>4, <4>5 DEF Homes, DiskHomes, Newcomer
    <3>2. CASE ~mounted
      BY <2>1, <3>2 DEF HomeInv, FormatPcs
    <3> QED BY <3>1, <3>2
  <2> QED BY <2>1, <2>3, <2>4 DEF HomeInv, DiskHomes, disk
<1> QED BY <1>1, <1>2, <1>3

\* Every step keeps a record for every inode.
LEMMA HomeNext ==
  ASSUME LinkInv, SyncInv, FormatInv, KeptInv, TreeInv, CalmInv, HomeInv, TypeOK', Next
  PROVE  HomeInv'
<1>0. TypeInv /\ MemType'
  BY DEF SyncInv, SolidInv, TypeOK
<1> SUFFICES ASSUME faults' = 0, crashes' = 0 PROVE HomeInv'
  BY DEF HomeInv
<1>1. faults = 0 /\ Succeeds /\ crashes = 0 /\ ~Crash
  BY <1>0, FaultFree, CrashFree
<1>2. CASE fs_mount \/ luxfs_format \/ shutdown
  BY <1>1, <1>2, HomesBoot
<1>3. CASE Call \/ (Running /\ ~luxfs_format)
  <2>1. ~torn /\ ~torn'
    BY <1>1, <1>3, TornStep DEF HomeInv
  <2>2. CASE ~mounted
    <3>1. UNCHANGED disk /\ ~mounted' /\ pc \in {"idle", "ret"} /\ pc' \in {"idle", "ret"}
      BY <1>0, <1>3, <2>2, UnmountedStep
    <3>2. d_super' => DiskHomes'
      BY <1>1, <2>2, <3>1 DEF HomeInv, DiskHomes, disk, FormatPcs
    <3> QED BY <2>1, <3>1, <3>2 DEF HomeInv
  <2>3. CASE mounted
    <3>1. Whole
      BY <1>1, <2>1, <2>3, WholeStep
    <3>2. Homes'
      BY <1>0, <1>1, <1>3, <2>3, <3>1, HomesCall, HomesRunning DEF HomeInv
    <3>3. mounted'
      BY <1>3, <2>3, StaysMounted
    <3> QED BY <2>1, <3>2, <3>3 DEF HomeInv
  <2> QED BY <2>2, <2>3
<1> QED BY <1>1, <1>2, <1>3 DEF Next

-----------------------------------------------------------------------------
(* What the rows of cells say of the records.                              *)

\* A row of a directory is one of the records luxfs_dir_iterate visits.
LEMMA RowRecord ==
  ASSUME TypeOK, Whole, NEW d \in Inodes, inodes[d].type = "dir", NEW n \in Rows(inodes[d])
  PROVE  n + 1 \in DOMAIN Records(inodes, d)
<1> DEFINE a == inodes[d]
<1>1. a \in Inode /\ a.size \in Nat /\ n \in Nat /\ 2 * n < a.size
  BY DEF TypeOK, MemType, Inode, Rows
<1>2. Records(inodes, d) = Iterate(d_data, a)
  BY DEF Records, luxfs_dir_iterate, Iterate, Complete, CellAt, CellOf
<1>3. PICK m \in Nat : a.size = 2 * m
  BY DEF Whole, Shape, Sound, Even
<1>4. CoveredTo(a, a.size)
  BY MemCovered
<1> HIDE DEF a
<1>5. 2 * n + 1 < a.size /\ n + 1 \in 1 .. m /\ a.size \div 2 = m
      /\ (n + 1) * 2 - 1 = 2 * n + 1 /\ 2 * n + 1 \in Nat
  BY <1>1, <1>3
<1>6. Reachable(a, 2 * n + 1)
  BY <1>1, <1>4, <1>5, CoveredReads
<1>7. n + 1 \in Complete(a)
  BY <1>5, <1>6 DEF Complete, RecordSize
<1> QED BY <1>1, <1>2, <1>7, Iterated

\* Steps that change nothing keep what no orphans rests on.
LEMMA HomeStutter ==
  ASSUME CalmInv, HomeInv, UNCHANGED vars
  PROVE  CalmInv' /\ HomeInv'
<1>1. /\ UNCHANGED <<mounted, inodes, inode_bitmap, block_bitmap>>
      /\ UNCHANGED <<d_super, d_inode_bitmap, d_inodes, d_data>>
      /\ UNCHANGED <<pc, c, faults, crashes, torn>>
  BY DEF vars, mem, disk
<1>2. Writing' = Writing /\ Creating' = Creating
  BY <1>1 DEF Writing, Truncating, Creating
<1>3. Calm => Calm'
  BY <1>1, <1>2 DEF Calm, Loose
<1>4. Blank => Blank'
  BY <1>1, <1>2 DEF Blank
<1>5. DiskBlank => DiskBlank'
  BY <1>1 DEF DiskBlank
<1>6. (Homes => Homes') /\ (DiskHomes => DiskHomes')
  BY <1>1, <1>2 DEF Homes, DiskHomes, Newcomer
<1>7. CalmInv'
  BY <1>1, <1>3, <1>4, <1>5 DEF CalmInv
<1>8. HomeInv'
  BY <1>1, <1>6 DEF HomeInv
<1> QED BY <1>7, <1>8

\* Taken inodes and records match.
LEMMA HomesMatch ==
  ASSUME TypeOK, Whole, Homes, pc = "idle", ~torn, faults = 0
  PROVE  inode_bitmap = {Root} \cup {e.inode : e \in Entries(inodes)}
<1>1. mounted /\ Sound(d_data, inodes, inode_bitmap) /\ ~Creating /\ Root \in inode_bitmap
  BY Ranges DEF Whole, Intact, Shape, AllInOrder, Taken, Creating, CreatePcs, FreePcs, Root
<1>2. \A e \in Entries(inodes) : e.inode \in inode_bitmap
  BY <1>1, SoundTree DEF TreeShaped
<1>3. ASSUME NEW x \in inode_bitmap, x # Root
      PROVE  \E e \in Entries(inodes) : e.inode = x
  <2>1. ~Unnamed(d_data, inodes, x)
    BY <1>1, <1>3 DEF Homes, Newcomer
  <2>2. PICK d \in Inodes : /\ inodes[d].type = "dir"
                            /\ \E n \in Rows(inodes[d]) : Entry(d_data, inodes[d], n, x)
    BY <2>1 DEF Unnamed
  <2>3. PICK n \in Rows(inodes[d]) : Entry(d_data, inodes[d], n, x)
    BY <2>2
  <2> DEFINE r == n + 1
  <2>4. r \in DOMAIN Records(inodes, d) /\ r - 1 = n
    BY <2>2, RowRecord DEF Rows
  <2> HIDE DEF r
  <2>5. Records(inodes, d)[r].inode = RecordInode(CellOf(d_data, inodes[d], 2 * n))
    BY <2>4, RecordRow
  <2>6. Records(inodes, d)[r].inode = x
    BY <2>3, <2>5 DEF Entry, RecordInode
  <2> DEFINE e == [dir |-> d, name |-> Records(inodes, d)[r].name[2],
                   inode |-> Records(inodes, d)[r].inode]
  <2>7. e \in Entries(inodes) /\ e.inode = x
    BY <2>4, <2>6 DEF Entries
  <2> QED BY <2>7
<1> QED BY <1>1, <1>2, <1>3

\* Failed creates cannot use up the inodes, on a volume of any size: as long
\* as the device works and the power goes only between calls, the inodes that
\* are taken are the root and those with a record, however many creates found
\* their directory or the volume full and took their inode back.
THEOREM NoInodeLost ==
  ASSUME RecordSize <= SectorSize
  PROVE  Spec => []NoOrphans
<1>1. Init => CalmInv /\ HomeInv
  BY DEF Init, CalmInv, HomeInv
<1>2. FsInv /\ FsInv' /\ CalmInv /\ HomeInv /\ [Next]_vars => CalmInv' /\ HomeInv'
  <2> SUFFICES ASSUME FsInv, FsInv', CalmInv, HomeInv, [Next]_vars
               PROVE  CalmInv' /\ HomeInv'
    OBVIOUS
  <2>1. TypeOK'
    BY DEF FsInv, SyncInv, SolidInv, TypeInv
  <2>2. CASE Next
    BY <2>1, <2>2, CalmNext, HomeNext DEF FsInv
  <2>3. CASE UNCHANGED vars
    BY <2>3, HomeStutter
  <2> QED BY <2>2, <2>3
<1>3. FsInv /\ HomeInv => NoOrphans
  <2> SUFFICES ASSUME FsInv, HomeInv, pc = "idle", mounted, faults = 0, crashes = 0
               PROVE  inode_bitmap = {Root} \cup {e.inode : e \in Entries(inodes)}
    BY DEF NoOrphans
  <2>1. TypeOK /\ ~torn /\ Homes
    BY DEF FsInv, SyncInv, SolidInv, TypeInv, HomeInv
  <2>2. Whole
    BY <2>1, WholeStep DEF FsInv
  <2> QED BY <2>1, <2>2, HomesMatch
<1> QED BY <1>1, <1>2, <1>3, FsHolds, PTL DEF Spec

-----------------------------------------------------------------------------
(* The names of a directory.                                               *)

\* The records of a directory that luxfs_dir_iterate hands out. They name
\* inodes, so luxfs_dir_find cannot take one for a missing name, and no two
\* have the same name.
Done(node) == {n \in Nat : n + 1 \in Complete(node)}
Tidy(data, node) ==
  node.type = "dir" =>
    /\ Even(node.size)
    /\ \A n \in Done(node) : \E x \in Inodes : Entry(data, node, n, x)
    /\ \A n, m \in Done(node) :
         CellOf(data, node, 2 * n + 1) = CellOf(data, node, 2 * m + 1) => n = m
NameFree(data, node, y) ==
  node.type = "dir" => \A n \in Done(node) : CellOf(data, node, 2 * n + 1) # <<"name", y>>

\* On disk and in memory; an inode that is given back loses its blocks first.
TidyDisk == \A i \in Inodes : Tidy(d_data, d_inodes[i]) /\ Covered(d_inodes[i])
TidyMem == \A i \in Inodes : /\ Tidy(d_data, inodes[i])
                             /\ Covered(inodes[i]) \/ (pc = "rl" /\ i = c.ino)

\* What the loop of luxfs_dir_append_record has written of the record, and
\* that the name is new.
Entering ==
  /\ pc \in {"ap_bitmap", "ap_zero"} => inodes[c.dir].type = "dir"
  /\ pc \in {"ap", "ap_bitmap", "ap_zero"} /\ inodes[c.dir].type = "dir" =>
       /\ c.left \in 1 .. RecordSize /\ c.off + c.left = inodes[c.dir].size + RecordSize
       /\ CoveredTo(inodes[c.dir], c.off)
       /\ \A o \in Nat : inodes[c.dir].size <= o /\ o < c.off =>
            CellOf(d_data, inodes[c.dir], o) = RecordCell(o - inodes[c.dir].size)
NewName == pc \in CreatePcs \ {"ap_inode"} => NameFree(d_data, inodes[c.dir], c.name)

Tidied == TidyMem /\ Entering /\ NewName
NameInv == faults < 2 /\ ~torn /\ pc \notin FormatPcs \ {"fmt_super"} =>
             TidyDisk /\ (mounted => Tidied)

\* The two cells of a record.
LEMMA DoneCells ==
  ASSUME NEW node \in Inode, NEW n \in Done(node)
  PROVE  /\ n \in Nat /\ 2 * n + 1 \in Nat /\ 2 * n \in Nat /\ Reachable(node, 2 * n + 1)
         /\ \A o \in {2 * n, 2 * n + 1} :
              /\ o \in Nat /\ o < node.size /\ Reachable(node, o)
              /\ o \div SectorSize \in Slots /\ node.direct[o \div SectorSize] \in Blocks
              /\ o % SectorSize \in Units
<1>1. n \in Nat /\ n + 1 \in Complete(node)
  BY DEF Done
<1>2. (n + 1) * RecordSize - 1 - 1 = 2 * n /\ (n + 1) * RecordSize - 1 = 2 * n + 1
  BY <1>1 DEF RecordSize
<1>3. \A o \in {(n + 1) * RecordSize - 1 - 1, (n + 1) * RecordSize - 1} :
              /\ o \in Nat /\ o < node.size /\ Reachable(node, o)
              /\ o \div SectorSize \in Slots /\ node.direct[o \div SectorSize] \in Blocks
              /\ o % SectorSize \in Units
  BY <1>1, RecordCells
<1> QED BY <1>1, <1>2, <1>3

\* A record whose last cell is there.
LEMMA DoneIf ==
  ASSUME NEW node \in Inode, NEW n \in Nat, 2 * n + 1 < node.size, Reachable(node, 2 * n + 1)
  PROVE  n \in Done(node)
<1>1. node.size \in Nat
  BY DEF Inode
<1>2. n + 1 \in 1 .. node.size \div RecordSize /\ (n + 1) * RecordSize - 1 = 2 * n + 1
  BY <1>1 DEF RecordSize
<1> QED BY <1>2 DEF Done, Complete

\* An empty directory is tidy, and so is one with fewer records of another.
LEMMA TidyEmpty ==
  ASSUME NEW data, NEW node \in Inode, node.size = 0
  PROVE  Tidy(data, node) /\ \A y : NameFree(data, node, y)
<1>1. Done(node) = {}
  <2> SUFFICES ASSUME NEW n \in Done(node) PROVE FALSE
    OBVIOUS
  <2>1. 2 * n < 0 /\ 2 * n \in Nat
    BY DoneCells
  <2> QED BY <2>1
<1>2. Even(0)
  BY DEF Even
<1> QED BY <1>1, <1>2 DEF Tidy, NameFree

\* A directory with the records of a tidy one is tidy, and lacks the names it lacks.
LEMMA TidyKept ==
  ASSUME NEW data, NEW a \in Inode, NEW data2, NEW b \in Inode, Tidy(data, a),
         b.type = "dir" =>
           \/ b.size = 0
           \/ /\ a.type = "dir" /\ b.size = a.size
              /\ \A o \in Nat : o < b.size /\ Reachable(b, o) =>
                   Reachable(a, o) /\ CellOf(data2, b, o) = CellOf(data, a, o)
  PROVE  Tidy(data2, b) /\ \A y : NameFree(data, a, y) => NameFree(data2, b, y)
<1>1. CASE b.type # "dir"
  BY <1>1 DEF Tidy, NameFree
<1>2. CASE b.size = 0
  BY <1>2, TidyEmpty
<1>3. CASE /\ b.type = "dir" /\ a.type = "dir" /\ b.size = a.size
           /\ \A o \in Nat : o < b.size /\ Reachable(b, o) =>
                Reachable(a, o) /\ CellOf(data2, b, o) = CellOf(data, a, o)
  <2>1. ASSUME NEW n \in Done(b)
        PROVE  /\ n \in Done(a) /\ CellOf(data2, b, 2 * n) = CellOf(data, a, 2 * n)
               /\ CellOf(data2, b, 2 * n + 1) = CellOf(data, a, 2 * n + 1)
    <3>1. /\ n \in Nat /\ 2 * n + 1 \in Nat /\ 2 * n \in Nat
          /\ 2 * n + 1 < b.size /\ Reachable(b, 2 * n + 1)
          /\ 2 * n < b.size /\ Reachable(b, 2 * n)
      BY DoneCells
    <3> QED BY <1>3, <3>1, DoneIf
  <2>2. Even(b.size)
    BY <1>3 DEF Tidy
  <2>3. \A n \in Done(b) : \E x \in Inodes : Entry(data2, b, n, x)
    BY <1>3, <2>1 DEF Tidy, Entry
  <2>4. \A n, m \in Done(b) :
          CellOf(data2, b, 2 * n + 1) = CellOf(data2, b, 2 * m + 1) => n = m
    BY <1>3, <2>1 DEF Tidy
  <2>5. \A y : NameFree(data, a, y) => NameFree(data2, b, y)
    BY <1>3, <2>1 DEF NameFree
  <2> QED BY <2>2, <2>3, <2>4, <2>5 DEF Tidy
<1> QED BY <1>1, <1>2, <1>3

-----------------------------------------------------------------------------
(* The disk.                                                               *)

\* A step of a call writes a sector of the table or a sector of data, and the
\* table only while no inode is losing its blocks.
LEMMA TableOrData ==
  ASSUME Call \/ (Running /\ ~luxfs_format)
  PROVE  UNCHANGED d_inodes \/ (UNCHANGED d_data /\ pc # "rl")
<1>1. CASE Call
  BY <1>1, CallBegins DEF disk
<1>2. CASE AllocInodeBitmap \/ AllocInodeFlush \/ luxfs_dir_append_record
  BY <1>2 DEF AllocInodeBitmap, AllocInodeFlush, luxfs_dir_append_record, AppendRefused,
     AppendAllocates, AppendBlockBitmap, AppendZeroes, AppendPatches, AppendInode, disk
<1>3. CASE ReleaseBlock \/ ReleasedForWrite \/ luxfs_mark_inode_free
  BY <1>3 DEF ReleaseBlock, ReleasedForWrite, luxfs_mark_inode_free, ReleasedForFree,
     FreeInodeFlush, FreeInodeBitmap, disk
<1>4. CASE WriteNoSpace \/ WriteAllocates \/ WriteBlockBitmap \/ WritePatches \/ WriteInode
           \/ Returns
  BY <1>4 DEF WriteNoSpace, WriteAllocates, WriteBlockBitmap, WritePatches, WriteInode,
     Returns, disk
<1> QED BY <1>1, <1>2, <1>3, <1>4 DEF Running

\* The directories of the disk stay tidy: what is flushed comes from memory,
\* and no cell of a record on disk is written.
LEMMA TidyFlushed ==
  ASSUME Intact, Left, TypeOK', TidyDisk, TidyMem, Call \/ (Running /\ ~luxfs_format)
  PROVE  TidyDisk'
<1> SUFFICES ASSUME NEW j \in Inodes PROVE Tidy(d_data', d_inodes'[j]) /\ Covered(d_inodes'[j])
  BY DEF TidyDisk
<1>1. d_inodes[j] \in Inode /\ d_inodes'[j] \in Inode
  BY DEF Intact, TypeOK, DiskType
<1>2. CASE d_inodes'[j] = d_inodes[j]
  <2>1. CellsStay
    BY DataSpared
  <2> DEFINE a == d_inodes[j]
  <2>2. Tidy(d_data, a) /\ Covered(a)
    BY DEF TidyDisk
  <2>3. a.type = "dir" => \/ a.size = 0
                          \/ \A o \in Nat : o < a.size /\ Reachable(a, o) =>
                               CellOf(d_data', a, o) = CellOf(d_data, a, o)
    <3> SUFFICES ASSUME a.type = "dir", a.size # 0, NEW o \in Nat, o < a.size, Reachable(a, o)
                 PROVE  CellOf(d_data', a, o) = CellOf(d_data, a, o)
      OBVIOUS
    <3>1. CoveredTo(a, a.size)
      BY <2>2 DEF Covered
    <3>2. o \div SectorSize \in Slots /\ a.direct[o \div SectorSize] \in Blocks
      BY <1>1, <3>1, CoveredCell
    <3>3. o % SectorSize \in Units
      BY SizeAssumption, DivFacts DEF Units
    <3> QED BY <2>1, <3>2, <3>3 DEF CellsStay, Nonempty
  <2> HIDE DEF a
  <2>4. a \in Inode
    BY <1>1 DEF a
  <2>5. Tidy(d_data', a)
    BY <2>2, <2>3, <2>4, TidyKept
  <2> QED BY <1>2, <2>2, <2>5 DEF a
<1>3. CASE d_inodes'[j] = inodes[j] /\ ~UNCHANGED d_inodes
  <2>1. UNCHANGED d_data /\ pc # "rl"
    BY <1>3, TableOrData
  <2> QED BY <1>3, <2>1 DEF TidyMem
<1> QED BY <1>2, <1>3, TableFlushed

-----------------------------------------------------------------------------
(* Memory.                                                                 *)

\* The directories keep the records they had.
LEMMA TidyStep ==
  ASSUME Intact, MemType', TidyMem,
         \A i \in Inodes : inodes'[i].type = "dir" =>
           \/ inodes'[i].size = 0
           \/ /\ inodes[i].type = "dir" /\ inodes'[i].size = inodes[i].size
              /\ \A o \in Nat : o < inodes'[i].size /\ Reachable(inodes'[i], o) =>
                   /\ Reachable(inodes[i], o)
                   /\ CellOf(d_data', inodes'[i], o) = CellOf(d_data, inodes[i], o),
         \A i \in Inodes : Covered(inodes'[i]) \/ (pc' = "rl" /\ i = c'.ino)
  PROVE  /\ TidyMem'
         /\ \A i \in Inodes : \A y : NameFree(d_data, inodes[i], y) => NameFree(d_data', inodes'[i], y)
<1>1. inodes \in [Inodes -> Inode] /\ inodes' \in [Inodes -> Inode]
  BY DEF Intact, MemType
<1>2. ASSUME NEW i \in Inodes
      PROVE  /\ Tidy(d_data', inodes'[i])
             /\ \A y : NameFree(d_data, inodes[i], y) => NameFree(d_data', inodes'[i], y)
  <2> DEFINE a == inodes[i]
             b == inodes'[i]
  <2>1. a \in Inode /\ b \in Inode /\ Tidy(d_data, a)
    BY <1>1 DEF TidyMem
  <2>2. b.type = "dir" =>
           \/ b.size = 0
           \/ /\ a.type = "dir" /\ b.size = a.size
              /\ \A o \in Nat : o < b.size /\ Reachable(b, o) =>
                   Reachable(a, o) /\ CellOf(d_data', b, o) = CellOf(d_data, a, o)
    OBVIOUS
  <2> HIDE DEF a, b
  <2>3. Tidy(d_data', b) /\ \A y : NameFree(d_data, a, y) => NameFree(d_data', b, y)
    BY <2>1, <2>2, TidyKept
  <2> QED BY <2>3 DEF a, b
<1>3. TidyMem'
  BY <1>2 DEF TidyMem
<1> QED BY <1>2, <1>3

\* A step that changes no inode and no data, and ends the entering.
LEMMA TidiedEnds ==
  ASSUME Tidied, UNCHANGED <<inodes, d_data>>, pc # "rl", pc' \notin CreatePcs \ {"ap_inode"}
  PROVE  Tidied'
BY DEF Tidied, TidyMem, Entering, NewName, CreatePcs

\* One that goes on with it.
LEMMA TidiedGoesOn ==
  ASSUME Tidied, UNCHANGED <<inodes, d_data>>, pc \in CreatePcs \ {"ap_inode"},
         c'.dir = c.dir, c'.name = c.name, Entering'
  PROVE  Tidied'
BY DEF Tidied, TidyMem, NewName, CreatePcs

\* The same call, as far as the record goes.
LEMMA EnteringSame ==
  ASSUME Entering, UNCHANGED <<inodes, d_data>>, c'.dir = c.dir, c'.name = c.name, c'.ino = c.ino,
         c'.off = c.off, c'.left = c.left, pc \in {"ap", "ap_bitmap", "ap_zero"},
         pc' \in {"ap", "ap_bitmap", "ap_zero"} => inodes[c.dir].type = "dir"
  PROVE  Entering'
<1>1. \A n : RecordCell(n)' = RecordCell(n)
  BY DEF RecordCell
<1> QED BY <1>1 DEF Entering

\* The two sectors of a new inode.
LEMMA TidiedAlloc ==
  ASSUME Intact, Tidied, AllocInodeBitmap \/ AllocInodeFlush
  PROVE  Tidied'
<1>0. c \in Frame /\ UNCHANGED <<inodes, d_data>> /\ pc \in {"ai_bitmap", "ai_inode"}
  BY DEF Intact, AllocInodeBitmap, AllocInodeFlush, mem
<1>1. CASE pc' \in {"ai_inode", "ret"}
  <2>1. CASE pc' = "ret"
    BY <1>0, <2>1, TidiedEnds DEF CreatePcs
  <2>2. CASE pc' = "ai_inode"
    <3>1. c' = c
      BY <2>2 DEF AllocInodeBitmap, AllocInodeFlush, Goto, Return
    <3>2. Entering'
      BY <2>2 DEF Entering
    <3> QED BY <1>0, <3>1, <3>2, TidiedGoesOn DEF CreatePcs
  <2> QED BY <1>1, <2>1, <2>2
<1>2. CASE /\ pc' = "ap" /\ c' = [c EXCEPT !.off = inodes[c.dir].size, !.left = RecordSize]
  <2>1. /\ c'.dir = c.dir /\ c'.name = c.name /\ c'.off = inodes[c.dir].size /\ c'.left = RecordSize
        /\ c.dir \in Inodes
    BY <1>0, <1>2 DEF Frame, Intact, TypeInv, CallOK, CreatePcs
  <2>2. inodes[c.dir].size \in Nat /\ (inodes[c.dir].type = "dir" => CoveredTo(inodes[c.dir], inodes[c.dir].size))
    BY <1>0, <2>1 DEF Intact, Inode, Tidied, TidyMem, Covered
  <2>3. Entering'
    <3>1. RecordSize \in 1 .. RecordSize
      BY DEF RecordSize
    <3>2. \A o \in Nat : ~(inodes[c.dir].size <= o /\ o < inodes[c.dir].size)
      BY <2>2
    <3> QED BY <1>0, <1>2, <2>1, <2>2, <3>1, <3>2 DEF Entering
  <2> QED BY <1>0, <2>1, <2>3, TidiedGoesOn DEF CreatePcs
<1> QED BY <1>1, <1>2 DEF AllocInodeBitmap, AllocInodeFlush, Goto, Return

\* Asking for a block of the directory, and the last sector of a create.
LEMMA TidiedAppend ==
  ASSUME Intact, Tidied, AppendRefused \/ AppendAllocates \/ AppendBlockBitmap \/ AppendInode
  PROVE  Tidied'
<1>0. c \in Frame /\ UNCHANGED <<inodes, d_data>> /\ pc \in {"ap", "ap_bitmap", "ap_inode"}
  BY DEF Intact, AppendRefused, AppendAllocates, luxfs_alloc_block, AppendBlockBitmap, AppendInode,
     mem, disk
<1>1. CASE pc' \in {"rl", "ret"}
  BY <1>0, <1>1, TidiedEnds DEF CreatePcs
<1>2. CASE pc' \notin {"rl", "ret"}
  <2>1. /\ pc \in {"ap", "ap_bitmap"} /\ inodes[c.dir].type = "dir"
        /\ c' = c \/ \E b : c' = [c EXCEPT !.blk = b]
    BY <1>2 DEF AppendRefused, AppendAllocates, luxfs_alloc_block, AppendBlockBitmap, AppendInode,
       Goto, Return, Tidied, Entering
  <2>2. /\ c'.dir = c.dir /\ c'.name = c.name /\ c'.off = c.off /\ c'.left = c.left
        /\ c'.ino = c.ino
    BY <1>0, <2>1 DEF Frame
  <2>3. Entering'
    BY <1>0, <2>1, <2>2, EnteringSame DEF Tidied
  <2> QED BY <1>0, <2>1, <2>2, <2>3, TidiedGoesOn DEF CreatePcs
<1> QED BY <1>1, <1>2

\* The sectors of an inode that is given back, and the quiet steps of fs_write.
LEMMA TidiedQuiet ==
  ASSUME Tidied, FreeInodeFlush \/ FreeInodeBitmap \/ WriteNoSpace \/ WriteAllocates
                 \/ WriteInode \/ Returns
  PROVE  Tidied'
<1>1. UNCHANGED <<inodes, d_data>> /\ pc # "rl"
  BY DEF FreeInodeFlush, FreeInodeBitmap, WriteNoSpace, WriteAllocates, luxfs_alloc_block,
     WriteInode, Returns, mem, disk
<1>2. pc' \notin CreatePcs
  BY DEF FreeInodeFlush, FreeInodeBitmap, WriteNoSpace, WriteAllocates, luxfs_alloc_block,
     WriteInode, Returns, Goto, Return, CreatePcs
<1> QED BY <1>1, <1>2, TidiedEnds

\* One inode changes, and it is a file, or empty, or loses a block.
LEMMA TidiedTable ==
  ASSUME Intact, MemType', Tidied, UNCHANGED d_data, pc' \notin CreatePcs,
         NEW w \in Inodes, \A i \in Inodes : i # w => inodes'[i] = inodes[i],
         pc = "rl" => w = c.ino,
         inodes'[w].type = "dir" => \/ inodes'[w].size = 0
                                    \/ /\ inodes[w].type = "dir" /\ inodes'[w].size = inodes[w].size
                                       /\ pc' = "rl" /\ c'.ino = w
                                       /\ \A k \in Slots : inodes'[w].direct[k] \in {INVALID, inodes[w].direct[k]}
  PROVE  Tidied'
<1>1. ASSUME NEW i \in Inodes, inodes'[i].type = "dir", inodes'[i].size # 0
      PROVE  /\ inodes[i].type = "dir" /\ inodes'[i].size = inodes[i].size
             /\ \A o \in Nat : o < inodes'[i].size /\ Reachable(inodes'[i], o) =>
                  /\ Reachable(inodes[i], o)
                  /\ CellOf(d_data', inodes'[i], o) = CellOf(d_data, inodes[i], o)
  <2>1. CASE i # w
    BY <1>1, <2>1
  <2>2. CASE i = w
    <3>1. /\ inodes[w].type = "dir" /\ inodes'[w].size = inodes[w].size
          /\ \A k \in Slots : inodes'[w].direct[k] \in {INVALID, inodes[w].direct[k]}
      BY <1>1, <2>2
    <3>2. ASSUME NEW o \in Nat, Reachable(inodes'[w], o)
          PROVE  /\ Reachable(inodes[w], o)
                 /\ CellOf(d_data', inodes'[w], o) = CellOf(d_data, inodes[w], o)
      <4>1. \A k \in 0 .. o \div SectorSize :
              k \in Slots /\ inodes[w].direct[k] = inodes'[w].direct[k] /\ inodes[w].direct[k] # INVALID
        BY <3>1, <3>2 DEF Reachable
      <4>2. o \div SectorSize \in 0 .. o \div SectorSize
        BY SizeAssumption, DivFacts
      <4> QED BY <4>1, <4>2 DEF Reachable, CellOf
    <3> QED BY <2>2, <3>1, <3>2
  <2> QED BY <2>1, <2>2
<1>2. ASSUME NEW i \in Inodes
      PROVE  Covered(inodes'[i]) \/ (pc' = "rl" /\ i = c'.ino)
  <2>1. CASE i # w
    BY <2>1 DEF Tidied, TidyMem
  <2>2. CASE i = w
    BY <2>2, CoveredNone DEF Covered
  <2> QED BY <2>1, <2>2
<1>3. TidyMem'
  BY <1>1, <1>2, TidyStep DEF Tidied
<1> QED BY <1>3 DEF Tidied, Entering, NewName, CreatePcs

\* A block of a file that is truncated, or of an inode that is given back.
LEMMA TidiedRelease ==
  ASSUME Intact, MemType', Tidied, ReleaseBlock \/ ReleasedForWrite \/ ReleasedForFree
  PROVE  Tidied'
<1>0. pc = "rl" /\ c.ino \in Inodes /\ UNCHANGED d_data /\ inodes \in [Inodes -> Inode] /\ c \in Frame
  BY DEF ReleaseBlock, ReleasedForWrite, ReleasedForFree, disk, Intact, TypeInv, CallOK
<1>1. CASE ReleaseBlock
  <2>1. pc' = "rl" /\ \E k : inodes' = [inodes EXCEPT ![c.ino].direct[k] = INVALID]
    BY <1>0, <1>1 DEF ReleaseBlock
  <2>2. c'.ino = c.ino
    BY <1>0, <1>1 DEF ReleaseBlock, Frame
  <2>3. /\ \A i \in Inodes : i # c.ino => inodes'[i] = inodes[i]
        /\ inodes'[c.ino].type = inodes[c.ino].type /\ inodes'[c.ino].size = inodes[c.ino].size
        /\ \A l \in Slots : inodes'[c.ino].direct[l] \in {INVALID, inodes[c.ino].direct[l]}
    BY <1>0, <2>1, RepointFields
  <2> QED BY <1>0, <2>1, <2>2, <2>3, TidiedTable DEF CreatePcs
<1>2. CASE ReleasedForWrite
  <2>1. pc' \in {"ret", "wr_inode", "wr"} /\ inodes' = [inodes EXCEPT ![c.ino].size = 0]
    BY <1>2 DEF ReleasedForWrite, Goto, Return
  <2>2. /\ \A i \in Inodes : i # c.ino => inodes'[i] = inodes[i]
        /\ inodes'[c.ino].size = 0
    BY <1>0, <2>1, ResizeFields
  <2> QED BY <1>0, <2>1, <2>2, TidiedTable DEF CreatePcs
<1>3. CASE ReleasedForFree
  <2>1. pc' = "un_inode" /\ inodes' = [inodes EXCEPT ![c.ino] = luxfs_inode_clear]
    BY <1>3 DEF ReleasedForFree, Goto
  <2>2. /\ \A i \in Inodes : i # c.ino => inodes'[i] = inodes[i]
        /\ inodes'[c.ino].size = 0
    BY <1>0, <2>1 DEF luxfs_inode_clear
  <2> QED BY <1>0, <2>1, <2>2, TidiedTable DEF CreatePcs
<1> QED BY <1>1, <1>2, <1>3

\* A file gets a block.
LEMMA TidiedWriteBitmap ==
  ASSUME Intact, MemType', Tidied, WriteBlockBitmap
  PROVE  Tidied'
<1>0. /\ pc = "wr_bitmap" /\ pc' \in {"wr", "ret"} /\ c.ino \in Inodes /\ UNCHANGED d_data
      /\ inodes \in [Inodes -> Inode] /\ inodes[c.ino].type = "file"
  BY DEF WriteBlockBitmap, Return, Intact, TypeInv, CallOK, WritePcs, WriteOK, Writing
<1>1. UNCHANGED inodes \/ \E k, b : inodes' = [inodes EXCEPT ![c.ino].direct[k] = b]
  BY DEF WriteBlockBitmap
<1>2. /\ \A i \in Inodes : i # c.ino => inodes'[i] = inodes[i]
      /\ inodes'[c.ino].type = "file"
  <2>1. ASSUME NEW k, NEW b, inodes' = [inodes EXCEPT ![c.ino].direct[k] = b]
        PROVE  /\ \A i \in Inodes : i # c.ino => inodes'[i] = inodes[i]
               /\ inodes'[c.ino].type = "file"
    BY <1>0, <2>1, RepointFields
  <2> QED BY <1>0, <1>1, <2>1
<1> QED BY <1>0, <1>2, TidiedTable DEF CreatePcs

\* fs_write fills the blocks of its file.
LEMMA TidiedWritePatches ==
  ASSUME Intact, Left, MemType', Tidied, WritePatches
  PROVE  Tidied'
<1> HIDE DEF Slot, At, Chunk
<1>0. /\ pc = "wr" /\ pc' \in {"wr", "wr_inode", "ret"} /\ c.ino \in Inodes
      /\ inodes \in [Inodes -> Inode] /\ inodes[c.ino].type = "file"
  BY DEF WritePatches, Return, Intact, TypeInv, CallOK, WritePcs, WriteOK, Writing
<1>1. UNCHANGED inodes \/ \E n : inodes' = [inodes EXCEPT ![c.ino].size = n]
  BY DEF WritePatches
<1>2. /\ \A i \in Inodes : i # c.ino => inodes'[i] = inodes[i]
      /\ inodes'[c.ino].type = "file"
  <2>1. ASSUME NEW n, inodes' = [inodes EXCEPT ![c.ino].size = n]
        PROVE  /\ \A i \in Inodes : i # c.ino => inodes'[i] = inodes[i]
               /\ inodes'[c.ino].type = "file"
    BY <1>0, <2>1, ResizeFields
  <2> QED BY <1>0, <1>1, <2>1
<1>3. ASSUME NEW i \in Inodes, inodes'[i].type = "dir"
      PROVE  /\ inodes'[i] = inodes[i] /\ Covered(inodes'[i])
             /\ \A o \in Nat : o < inodes'[i].size =>
                  CellOf(d_data', inodes'[i], o) = CellOf(d_data, inodes[i], o)
  <2>1. inodes'[i] = inodes[i] /\ Covered(inodes[i])
    BY <1>0, <1>2, <1>3 DEF Tidied, TidyMem
  <2>2. ASSUME NEW o \in Nat, o < inodes[i].size
        PROVE  CellOf(d_data', inodes[i], o) = CellOf(d_data, inodes[i], o)
    <3>1. o \div SectorSize \in Slots /\ inodes[i].direct[o \div SectorSize] \in Blocks
      BY <1>0, <1>3, <2>1, <2>2, CoveredCell DEF Covered
    <3> QED BY <1>3, <2>1, <3>1, FileCells
  <2> QED BY <2>1, <2>2
<1>4. \A i \in Inodes : Covered(inodes'[i]) \/ (pc' = "rl" /\ i = c'.ino)
  BY <1>3 DEF Covered
<1>5. TidyMem'
  BY <1>3, <1>4, TidyStep DEF Tidied
<1> QED BY <1>0, <1>5 DEF Tidied, Entering, NewName, CreatePcs

\* The directory gets a zeroed block behind all it has.
LEMMA TidiedZeroes ==
  ASSUME Intact, MemType', Tidied, AppendZeroes
  PROVE  Tidied'
<1> HIDE DEF Slot
<1>0. c \in Frame /\ pc = "ap_zero" /\ inodes \in [Inodes -> Inode] /\ c.dir \in Inodes
      /\ faults \in Nat /\ c.off \in Nat
  BY DEF Intact, AppendZeroes, TypeInv, TypeOK, BudgetType, CallOK, CreatePcs, Frame
<1>1. CASE Fails
  <2>1. ~Succeeds
    BY <1>0, <1>1 DEF Fails, Succeeds
  <2>2. UNCHANGED <<inodes, d_data>> /\ pc' = "rl"
    BY <2>1 DEF AppendZeroes, Goto
  <2> QED BY <1>0, <2>2, TidiedEnds DEF CreatePcs
<1>2. CASE Succeeds
  <2>0. ~Fails
    BY <1>0, <1>2 DEF Fails, Succeeds
  <2>1. /\ pc' = "ap" /\ inodes' = [inodes EXCEPT ![c.dir].direct[Slot] = c.blk]
        /\ c' = [c EXCEPT !.blk = INVALID]
    BY <2>0 DEF AppendZeroes
  <2>2. /\ c'.ino = c.ino /\ c'.dir = c.dir /\ c'.off = c.off /\ c'.name = c.name /\ c'.left = c.left
    BY <1>0, <2>1 DEF Frame
  <2>3. /\ \A j \in Inodes : j # c.dir => inodes'[j] = inodes[j]
        /\ inodes'[c.dir].type = inodes[c.dir].type
        /\ inodes'[c.dir].size = inodes[c.dir].size
        /\ \A l \in Slots : inodes'[c.dir].direct[l] \in {c.blk, inodes[c.dir].direct[l]}
    <3>1. /\ \A j \in Inodes : j # c.dir => inodes'[j] = inodes[j]
          /\ inodes'[c.dir].type = inodes[c.dir].type
          /\ inodes'[c.dir].size = inodes[c.dir].size
      BY <1>0, <2>1, RepointFields
    <3>2. \A l \in Slots : [inodes EXCEPT ![c.dir].direct[Slot] = c.blk][c.dir].direct[l]
                             \in {c.blk, inodes[c.dir].direct[l]}
      BY <1>0, RepointFields
    <3> QED BY <2>1, <3>1, <3>2
  <2>4. c.blk \in Blocks /\ c.blk # INVALID
    <3>1. c.blk \in block_bitmap /\ block_bitmap \subseteq Blocks
      BY <1>0 DEF Intact, Reserved, TypeInv, TypeOK, MemType
    <3> QED BY <3>1, Ranges
  <2>5. ASSUME NEW d \in Inodes, NEW n, CoveredTo(inodes[d], n), NEW o \in Nat, o < n
        PROVE  CellOf(d_data', inodes'[d], o) = CellOf(d_data, inodes[d], o)
    <3>1. o \div SectorSize \in Slots /\ inodes[d].direct[o \div SectorSize] \in Blocks
      BY <1>0, <2>5, CoveredCell
    <3> QED BY <1>2, <3>1, ZeroesKeep
  <2>6. ASSUME NEW d \in Inodes, NEW n, CoveredTo(inodes[d], n)
        PROVE  CoveredTo(inodes'[d], n)
    <3>1. \A k \in Slots : inodes[d].direct[k] # INVALID => inodes'[d].direct[k] # INVALID
      BY <2>3, <2>4
    <3> QED BY <2>6, <3>1, CoveredMore
  <2>7. \A d \in Inodes : inodes'[d].type = inodes[d].type /\ inodes'[d].size = inodes[d].size
    BY <2>3
  <2>8. \A d \in Inodes : inodes[d].type = "dir" => CoveredTo(inodes[d], inodes[d].size)
    BY <1>0 DEF Tidied, TidyMem, Covered
  <2>9. \A i \in Inodes : Covered(inodes'[i])
    BY <2>6, <2>7, <2>8 DEF Covered
  <2>10. ASSUME NEW i \in Inodes, inodes'[i].type = "dir", NEW o \in Nat, o < inodes'[i].size
         PROVE  /\ Reachable(inodes[i], o)
                /\ CellOf(d_data', inodes'[i], o) = CellOf(d_data, inodes[i], o)
    <3>1. CoveredTo(inodes[i], inodes[i].size) /\ o < inodes[i].size /\ inodes[i].size \in Nat
      BY <1>0, <2>7, <2>8, <2>10 DEF Inode
    <3> QED BY <2>5, <3>1, CoveredReads
  <2>11. /\ TidyMem'
         /\ \A i \in Inodes : \A y : NameFree(d_data, inodes[i], y) => NameFree(d_data', inodes'[i], y)
    <3>1. \A i \in Inodes : inodes'[i].type = "dir" =>
            /\ inodes[i].type = "dir" /\ inodes'[i].size = inodes[i].size
            /\ \A o \in Nat : o < inodes'[i].size /\ Reachable(inodes'[i], o) =>
                   /\ Reachable(inodes[i], o)
                   /\ CellOf(d_data', inodes'[i], o) = CellOf(d_data, inodes[i], o)
      BY <2>7, <2>10
    <3> QED BY <2>9, <3>1, TidyStep DEF Tidied
  <2>12. NewName'
    BY <1>0, <2>1, <2>2, <2>11 DEF Tidied, NewName, CreatePcs
  <2>13. Entering'
    <3>1. /\ inodes[c.dir].type = "dir"
          /\ c.left \in 1 .. RecordSize /\ c.off + c.left = inodes[c.dir].size + RecordSize
          /\ CoveredTo(inodes[c.dir], c.off)
          /\ \A o \in Nat : inodes[c.dir].size <= o /\ o < c.off =>
               CellOf(d_data, inodes[c.dir], o) = RecordCell(o - inodes[c.dir].size)
      BY <1>0 DEF Tidied, Entering
    <3>2. \A n : RecordCell(n)' = RecordCell(n)
      BY <2>2 DEF RecordCell
    <3>3. CoveredTo(inodes'[c.dir], c.off)
      BY <1>0, <2>6, <3>1
    <3>4. \A o \in Nat : inodes[c.dir].size <= o /\ o < c.off =>
            CellOf(d_data', inodes'[c.dir], o) = RecordCell(o - inodes[c.dir].size)
      BY <1>0, <2>5, <3>1
    <3> QED BY <2>1, <2>2, <2>3, <3>1, <3>2, <3>3, <3>4 DEF Entering
  <2> QED BY <2>11, <2>12, <2>13 DEF Tidied
<1> QED BY <1>1, <1>2 DEF AppendZeroes

\* A record more, of a name that was free.
LEMMA TidyAdded ==
  ASSUME NEW data, NEW a \in Inode, NEW b \in Inode, a.type = "dir", b.type = "dir",
         b.size = a.size + 2, b.direct = a.direct, Tidy(data, a),
         CoveredTo(a, a.size), NEW x \in Inodes, NEW y, NameFree(data, a, y),
         CellOf(data, a, a.size) = <<"ino", x>>, CellOf(data, a, a.size + 1) = <<"name", y>>
  PROVE  Tidy(data, b)
<1>0. a.size \in Nat
  BY DEF Inode
<1>1. PICK k \in Nat : a.size = 2 * k
  BY DEF Tidy, Even
<1>2. Even(b.size)
  <2>1. b.size = 2 * (k + 1) /\ k + 1 \in Nat
    BY <1>1
  <2> QED BY <2>1 DEF Even
<1>3. \A o : CellOf(data, b, o) = CellOf(data, a, o)
  BY DEF CellOf
<1>4. ASSUME NEW n \in Done(b) PROVE n \in Done(a) \/ n = k
  <2>1. n \in Nat /\ 2 * n + 1 \in Nat /\ 2 * n + 1 < b.size
    BY DoneCells
  <2>2. CASE 2 * n + 1 < a.size
    <3>1. Reachable(a, 2 * n + 1)
      BY <1>0, <2>1, <2>2, CoveredReads
    <3> QED BY <2>1, <2>2, <3>1, DoneIf
  <2>3. CASE ~(2 * n + 1 < a.size)
    BY <1>1, <2>1, <2>3
  <2> QED BY <2>2, <2>3
<1>5. \A n \in Done(a) : /\ \E z \in Inodes : Entry(data, b, n, z)
                         /\ CellOf(data, b, 2 * n + 1) # <<"name", y>>
  BY <1>3 DEF Tidy, NameFree, Entry
<1>6. Entry(data, b, k, x) /\ CellOf(data, b, 2 * k + 1) = <<"name", y>>
  BY <1>1, <1>3 DEF Entry
<1>7. \A n, m \in Done(a) : CellOf(data, b, 2 * n + 1) = CellOf(data, b, 2 * m + 1) => n = m
  BY <1>3 DEF Tidy
<1>8. \A n \in Done(b) : \E z \in Inodes : Entry(data, b, n, z)
  BY <1>4, <1>5, <1>6
<1>9. \A n, m \in Done(b) : CellOf(data, b, 2 * n + 1) = CellOf(data, b, 2 * m + 1) => n = m
  BY <1>4, <1>5, <1>6, <1>7
<1> QED BY <1>2, <1>8, <1>9 DEF Tidy

\* A part of the record; after the last one the directory has it.
LEMMA TidiedPatches ==
  ASSUME Intact, MemType', Tidied, AppendPatches
  PROVE  Tidied'
<1> HIDE DEF Slot, At, Chunk
<1>0. /\ c \in Frame /\ pc = "ap" /\ inodes \in [Inodes -> Inode] /\ inodes' \in [Inodes -> Inode]
      /\ c.dir \in Inodes /\ c.ino \in Inodes /\ faults \in Nat /\ c.off \in Nat /\ c.left \in Nat
      /\ inodes[c.dir].type = "dir" /\ inodes[c.dir].size \in Nat
      /\ Slot < DirectBlocks /\ inodes[c.dir].direct[Slot] # INVALID
  BY DEF Intact, MemType, AppendPatches, TypeInv, TypeOK, BudgetType, CallOK, CreatePcs, Frame, Inode
<1>1. CASE Fails
  <2>1. ~Succeeds
    BY <1>0, <1>1 DEF Fails, Succeeds
  <2>2. UNCHANGED <<inodes, d_data>> /\ pc' = "rl"
    BY <2>1 DEF AppendPatches, Goto
  <2> QED BY <1>0, <2>2, TidiedEnds DEF CreatePcs
<1>2. CASE Succeeds
  <2>0. ~Fails
    BY <1>0, <1>2 DEF Fails, Succeeds
  <2>1. /\ c' = [c EXCEPT !.off = c.off + Chunk, !.left = c.left - Chunk]
        /\ IF Chunk = c.left
           THEN /\ inodes' = [inodes EXCEPT ![c.dir].size = inodes[c.dir].size + RecordSize]
                /\ pc' = "ap_inode"
           ELSE UNCHANGED <<inodes, pc>>
    BY <2>0 DEF AppendPatches
  <2>2. d_data' = [d_data EXCEPT ![inodes[c.dir].direct[Slot]] =
                      [u \in Units |-> IF u \in At .. At + Chunk - 1
                                      THEN RecordCell(RecordSize - c.left + u - At)
                                      ELSE d_data[inodes[c.dir].direct[Slot]][u]]]
    BY <2>0 DEF AppendPatches, disk_write_data_block
  <2>3. /\ c'.ino = c.ino /\ c'.dir = c.dir /\ c'.name = c.name
        /\ c'.off = c.off + Chunk /\ c'.left = c.left - Chunk
    BY <1>0, <2>1 DEF Frame
  <2>4. /\ Slot \in Slots /\ Chunk \in Nat /\ Chunk <= c.left /\ Chunk <= SectorSize - At
        /\ inodes[c.dir].direct[Slot] \in Blocks
    <3>1. Slot \in Slots /\ Chunk \in Nat /\ Chunk <= c.left /\ Chunk <= SectorSize - At
      BY <1>0, ChunkBounds, ChunkFits, SizeAssumption DEF Slots
    <3> QED BY <1>0, <3>1 DEF Inode
  <2>5. /\ c.left \in 1 .. RecordSize /\ c.off + c.left = inodes[c.dir].size + RecordSize
        /\ CoveredTo(inodes[c.dir], c.off)
        /\ \A o \in Nat : inodes[c.dir].size <= o /\ o < c.off =>
             CellOf(d_data, inodes[c.dir], o) = RecordCell(o - inodes[c.dir].size)
    BY <1>0 DEF Tidied, Entering
  <2>6. /\ \A d \in Inodes, o \in Nat :
              /\ o \div SectorSize \in Slots /\ inodes[d].direct[o \div SectorSize] \in Blocks
              /\ d = c.dir => o < c.off
              => CellOf(d_data', inodes[d], o) = CellOf(d_data, inodes[d], o)
        /\ \A o \in Nat : inodes[c.dir].size <= o /\ o < c.off + Chunk =>
              CellOf(d_data', inodes[c.dir], o) = RecordCell(o - inodes[c.dir].size)
    BY <1>0, <2>2, <2>4, <2>5, PartWritten
  <2>7. \A d \in Inodes : inodes[d].type = "dir" => CoveredTo(inodes[d], inodes[d].size)
    BY <1>0 DEF Tidied, TidyMem, Covered
  <2>8. ASSUME NEW d \in Inodes, inodes[d].type = "dir"
        PROVE  /\ Tidy(d_data', inodes[d])
               /\ \A y : NameFree(d_data, inodes[d], y) => NameFree(d_data', inodes[d], y)
    <3> DEFINE a == inodes[d]
    <3>1. a \in Inode /\ Tidy(d_data, a) /\ CoveredTo(a, a.size) /\ a.size \in Nat
      BY <1>0, <2>7, <2>8 DEF Tidied, TidyMem, Inode
    <3>2. ASSUME NEW o \in Nat, o < a.size PROVE CellOf(d_data', a, o) = CellOf(d_data, a, o)
      <4>1. o \div SectorSize \in Slots /\ a.direct[o \div SectorSize] \in Blocks
        BY <3>1, <3>2, CoveredCell
      <4>2. d = c.dir => o < c.off
        BY <1>0, <2>5, <3>1, <3>2 DEF RecordSize
      <4> QED BY <2>6, <4>1, <4>2
    <3> HIDE DEF a
    <3>3. Tidy(d_data', a) /\ \A y : NameFree(d_data, a, y) => NameFree(d_data', a, y)
      BY <3>1, <3>2, TidyKept
    <3> QED BY <3>3 DEF a
  <2>9. \A d \in Inodes : Tidy(d_data', inodes[d])
    BY <2>8 DEF Tidy
  <2>10. NameFree(d_data', inodes[c.dir], c.name)
    <3>1. NameFree(d_data, inodes[c.dir], c.name)
      BY <1>0 DEF Tidied, NewName, CreatePcs
    <3> QED BY <1>0, <2>8, <3>1
  <2>11. CoveredTo(inodes[c.dir], c.off + Chunk)
    <3>1. c.off \div SectorSize \in Slots /\ inodes[c.dir].direct[c.off \div SectorSize] # INVALID
          /\ Chunk <= SectorSize - (c.off % SectorSize)
      BY <1>0, <2>4 DEF Slot, At
    <3> QED BY <1>0, <2>4, <2>5, <3>1, CoveredFurther
  <2>12. CASE Chunk # c.left
    <3>1. inodes' = inodes /\ pc' = "ap"
      BY <1>0, <2>1, <2>12
    <3>2. TidyMem'
      BY <2>7, <2>9, <3>1 DEF TidyMem, Covered
    <3>3. NewName'
      BY <2>3, <2>10, <3>1 DEF NewName
    <3>4. \A n : RecordCell(n)' = RecordCell(n)
      BY <2>3 DEF RecordCell
    <3>5. c'.left \in 1 .. RecordSize /\ c'.off + c'.left = inodes[c.dir].size + RecordSize
      BY <1>0, <2>3, <2>4, <2>5, <2>12 DEF RecordSize
    <3>6. Entering'
      BY <2>3, <2>6, <2>11, <3>1, <3>4, <3>5 DEF Entering
    <3> QED BY <3>2, <3>3, <3>6 DEF Tidied
  <2>13. CASE Chunk = c.left
    <3> DEFINE a == inodes[c.dir]
               b == inodes'[c.dir]
    <3>1. /\ pc' = "ap_inode" /\ \A j \in Inodes : j # c.dir => inodes'[j] = inodes[j]
          /\ b.type = a.type /\ b.size = a.size + 2 /\ b.direct = a.direct
      <4>1. inodes' = [inodes EXCEPT ![c.dir].size = a.size + RecordSize] /\ pc' = "ap_inode"
        BY <2>1, <2>13
      <4>2. a.size + RecordSize = a.size + 2
        BY DEF RecordSize
      <4> HIDE DEF RecordSize
      <4> QED BY <1>0, <4>1, <4>2, ResizeFields
    <3>2. c.off + Chunk = a.size + 2
      BY <1>0, <2>5, <2>13 DEF RecordSize
    <3>3. CellOf(d_data', a, a.size) = <<"ino", c.ino>> /\ CellOf(d_data', a, a.size + 1) = <<"name", c.name>>
      <4> DEFINE s == a.size
      <4>1. s \in Nat /\ s + 1 \in Nat /\ s < c.off + Chunk /\ s + 1 < c.off + Chunk
            /\ s <= s + 1 /\ s - s = 0 /\ (s + 1) - s = 1
        BY <1>0, <3>2
      <4>2. CellOf(d_data', a, s) = RecordCell(s - s)
        BY <2>6, <4>1
      <4>3. CellOf(d_data', a, s + 1) = RecordCell((s + 1) - s)
        BY <2>6, <4>1
      <4> QED BY <4>1, <4>2, <4>3 DEF RecordCell
    <3>4. /\ a \in Inode /\ b \in Inode /\ a.type = "dir" /\ Tidy(d_data', a)
          /\ CoveredTo(a, a.size) /\ NameFree(d_data', a, c.name) /\ CoveredTo(a, a.size + 2)
      BY <1>0, <2>7, <2>9, <2>10, <2>11, <3>2
    <3> HIDE DEF a, b
    <3>5. Tidy(d_data', b)
      BY <1>0, <3>1, <3>3, <3>4, TidyAdded
    <3>6. Covered(b)
      BY <3>1, <3>4 DEF Covered, CoveredTo
    <3>7. TidyMem'
      <4> SUFFICES ASSUME NEW i \in Inodes PROVE Tidy(d_data', inodes'[i]) /\ Covered(inodes'[i])
        BY DEF TidyMem
      <4>1. CASE i = c.dir
        BY <3>5, <3>6, <4>1 DEF b
      <4>2. CASE i # c.dir
        BY <2>7, <2>9, <3>1, <4>2 DEF Covered
      <4> QED BY <4>1, <4>2
    <3> QED BY <3>1, <3>7 DEF Tidied, Entering, NewName
  <2> QED BY <2>12, <2>13
<1> QED BY <1>1, <1>2 DEF AppendPatches
-----------------------------------------------------------------------------
(* The name of a create is new.                                            *)

\* A path whose last component is a name leads where the name leads from the
\* directory that luxfs_resolve_parent finds.
LEMMA ResolveSplits ==
  ASSUME NEW path \in Paths, luxfs_resolve_parent(path) # NONE, Leaf(path) \in Names
  PROVE  luxfs_resolve(path) = luxfs_dir_find(luxfs_resolve_parent(path), Leaf(path))
<1> DEFINE n == Len(path)
           last == LastToken(path)
<1>0. path \in Seq(Components) /\ n \in Nat
  BY NamesAssumption
<1>1. PICK w : /\ IsWalk(w, path, n)
               /\ luxfs_resolve(path) = IF luxfs_tokenize_path(path).ok THEN w[n] ELSE NONE
  BY <1>0, ResolveIs
<1>2. PICK v : /\ IsParentWalk(v, path, n)
               /\ luxfs_resolve_parent(path) =
                    IF luxfs_tokenize_path(path).ok /\ luxfs_tokenize_path(path).tokens # {}
                    THEN v[LastToken(path) - 1] ELSE NONE
  BY <1>0, ResolveParentIs
<1>3. /\ luxfs_tokenize_path(path).ok /\ luxfs_tokenize_path(path).tokens # {}
      /\ luxfs_resolve_parent(path) = v[last - 1]
  BY <1>2
<1>4. luxfs_resolve(path) = w[n]
  BY <1>1, <1>3
<1>5. last \in 1 .. n /\ \A i \in 1 .. n : i > last => path[i] = "."
  BY <1>0, <1>3, LastTokenIs
<1>6. path[last] # "." /\ path[last] # ".." /\ Leaf(path) = path[last]
  BY NamesAssumption DEF Leaf
<1> HIDE DEF n, last
<1>7. last \in Nat /\ last - 1 \in 0 .. n /\ last \in 0 .. n /\ last # 0 /\ n - last \in Nat
  BY <1>0, <1>5
<1>8. v[last - 1] = w[last - 1]
  <2>1. v[last - 1] \in {NONE, w[last - 1]}
    BY <1>0, <1>1, <1>2, <1>7, ParentFollows DEF n
  <2> QED BY <1>3, <2>1
<1>9. w[last] = luxfs_dir_find(w[last - 1], path[last])
  <2>1. w[last] = Hop(w[last - 1], path[last])
    BY <1>1, <1>7 DEF IsWalk
  <2> QED BY <1>3, <1>6, <1>8, <2>1 DEF Hop
<1>10. w[n] = w[last]
  <2> DEFINE S == {k \in 0 .. n - last : w[last + k] = w[last]}
  <2>1. 0 \in S
    BY <1>7
  <2>2. ASSUME NEW k \in 1 .. n - last, k - 1 \in S PROVE k \in S
    <3>1. /\ last + k \in 1 .. n /\ last + k \in 0 .. n /\ last + k # 0 /\ last + k > last
          /\ (last + k) - 1 = last + (k - 1)
      BY <1>0, <1>7
    <3>2. path[last + k] = "."
      BY <1>5, <3>1
    <3>3. w[last + k] = Hop(w[(last + k) - 1], path[last + k])
      BY <1>1, <3>1 DEF IsWalk
    <3>4. w[last + k] = w[last + (k - 1)]
      BY <3>1, <3>2, <3>3 DEF Hop
    <3>5. w[last + (k - 1)] = w[last]
      BY <2>2
    <3> QED BY <1>7, <3>4, <3>5
  <2> HIDE DEF S
  <2>3. n - last \in S
    BY <1>7, <2>1, <2>2, StaysIn
  <2>4. last + (n - last) = n
    BY <1>0, <1>7
  <2> QED BY <2>3, <2>4 DEF S
<1> QED BY <1>3, <1>4, <1>6, <1>8, <1>9, <1>10

\* In a tidy directory a name that is not found is in no record.
LEMMA NotFoundFree ==
  ASSUME NEW d \in Inodes, inodes[d] \in Inode, Tidy(d_data, inodes[d]), NEW y,
         luxfs_dir_find(d, y) = NONE
  PROVE  NameFree(d_data, inodes[d], y)
<1> DEFINE a == inodes[d]
           records == Iterate(d_data, a)
           hits == {r \in Complete(a) : records[r].name = <<"name", y>>}
<1> SUFFICES ASSUME a.type = "dir", NEW n \in Done(a), CellOf(d_data, a, 2 * n + 1) = <<"name", y>>
             PROVE  FALSE
  BY DEF NameFree
<1>0. a.size \in Nat
  BY DEF Inode
<1>1. \A r \in Complete(a) :
        /\ records[r].inode = RecordInode(CellOf(d_data, a, 2 * (r - 1)))
        /\ records[r].name = CellOf(d_data, a, 2 * (r - 1) + 1)
        /\ r - 1 \in Done(a)
  <2> SUFFICES ASSUME NEW r \in Complete(a)
               PROVE  /\ records[r].inode = RecordInode(CellOf(d_data, a, 2 * (r - 1)))
                      /\ records[r].name = CellOf(d_data, a, 2 * (r - 1) + 1)
                      /\ r - 1 \in Done(a)
    OBVIOUS
  <2>1. r \in Nat /\ r > 0
    BY RecordCells
  <2>2. r * RecordSize - 1 - 1 = 2 * (r - 1) /\ r * RecordSize - 1 = 2 * (r - 1) + 1
        /\ r - 1 \in Nat /\ (r - 1) + 1 = r
    BY <2>1 DEF RecordSize
  <2>3. records[r] = [inode |-> RecordInode(CellOf(d_data, a, 2 * (r - 1))),
                      name |-> CellOf(d_data, a, 2 * (r - 1) + 1)]
    BY <1>0, <2>2, Iterated
  <2>4. r - 1 \in Done(a)
    BY <2>2 DEF Done
  <2> HIDE DEF records, a
  <2> QED BY <2>3, <2>4
<1>2. \/ hits = {}
      \/ \E r \in hits : luxfs_dir_find(d, y) = records[r].inode
  BY <1>0, FindRecord
<1>3. n \in Nat /\ n + 1 \in Complete(a) /\ (n + 1) - 1 = n
  BY DEF Done
<1>4. n + 1 \in hits
  BY <1>1, <1>3
<1>5. PICK r \in hits : records[r].inode = NONE
  BY <1>2, <1>4
<1>6. PICK x \in Inodes : CellOf(d_data, a, 2 * (r - 1)) = <<"ino", x>>
  BY <1>1, <1>5 DEF Tidy, Entry
<1>7. records[r].inode = x
  BY <1>1, <1>5, <1>6 DEF RecordInode
<1> QED BY <1>5, <1>6, <1>7, Ranges

\* A create that takes an inode has looked its name up twice, once on the way
\* of luxfs_resolve and once in the directory: with no more than one failed
\* access, one of the lookups has read the records.
LEMMA CreateLooked ==
  ASSUME NEW op, NEW type, NEW path \in Paths, CreateCall(op, type, path), pc' # "ret",
         faults \in Nat, faults' < 2
  PROVE  luxfs_dir_find(luxfs_resolve_parent(path), Leaf(path)) = NONE
<1>1. PICK missed \in SUBSET Misses(path), existing \in Found, parent \in Found, found \in Found :
       /\ ReadFaults(missed)
       /\ existing = IF "resolve" \in missed THEN NONE ELSE luxfs_resolve(path)
       /\ parent = IF "parent" \in missed THEN NONE ELSE luxfs_resolve_parent(path)
       /\ found = IF "find" \in missed \/ parent = NONE THEN NONE
                  ELSE luxfs_dir_find(parent, Leaf(path))
       /\ IF ~mounted THEN Answer(op, NONE, FALSE)
          ELSE IF existing # NONE THEN Answer(op, existing, op = "touch" /\ inodes[existing].type = "file")
          ELSE IF parent = NONE \/ Leaf(path) \notin Names THEN Answer(op, NONE, FALSE)
          ELSE IF found # NONE THEN Answer(op, found, op = "touch")
          ELSE IF FreeInodes = {} THEN Answer(op, NONE, FALSE)
          ELSE luxfs_alloc_inode(op, type, parent, Leaf(path))
  BY DEF CreateCall
<1>2. \A i, u : ~Answer(op, i, u)
  BY DEF Answer
<1>3. existing = NONE /\ parent # NONE /\ Leaf(path) \in Names /\ found = NONE
  BY <1>1, <1>2
<1>4. parent = luxfs_resolve_parent(path)
  BY <1>1, <1>3
<1>5. CASE "resolve" \notin missed
  BY <1>1, <1>3, <1>4, <1>5, ResolveSplits
<1>6. CASE "find" \notin missed
  BY <1>1, <1>3, <1>4, <1>6
<1>7. CASE "resolve" \in missed /\ "find" \in missed
  <2>1. missed \subseteq {"resolve", "parent", "find"}
    BY DEF Misses
  <2>2. IsFiniteSet({"resolve", "parent", "find"})
    <3>1. IsFiniteSet({"resolve"})
      BY FS_Singleton
    <3>2. IsFiniteSet({"resolve"} \cup {"parent"})
      BY <3>1, FS_AddElement
    <3>3. IsFiniteSet(({"resolve"} \cup {"parent"}) \cup {"find"})
      BY <3>2, FS_AddElement
    <3>4. ({"resolve"} \cup {"parent"}) \cup {"find"} = {"resolve", "parent", "find"}
      OBVIOUS
    <3> QED BY <3>3, <3>4
  <2>3. IsFiniteSet(missed) /\ Cardinality(missed) \in Nat
    BY <2>1, <2>2, FS_Subset, FS_CardinalityType
  <2>4. Cardinality({"resolve", "find"}) = 2
    <3>1. IsFiniteSet({"resolve"}) /\ Cardinality({"resolve"}) = 1
      BY FS_Singleton
    <3>2. Cardinality({"resolve"} \cup {"find"}) = Cardinality({"resolve"}) + 1
      BY <3>1, FS_AddElement
    <3>3. {"resolve"} \cup {"find"} = {"resolve", "find"}
      OBVIOUS
    <3> QED BY <3>1, <3>2, <3>3
  <2>5. Cardinality({"resolve", "find"}) <= Cardinality(missed)
    BY <1>7, <2>3, FS_Subset
  <2>6. faults' = faults + Cardinality(missed)
    BY <1>1 DEF ReadFaults
  <2> QED BY <2>3, <2>4, <2>5, <2>6
<1> QED BY <1>5, <1>6, <1>7

-----------------------------------------------------------------------------
(* How calls begin, and the steps together.                                *)

\* The inode luxfs_alloc_inode takes is empty, and the name of the create is
\* not in its directory.
LEMMA TidiedCreate ==
  ASSUME Intact, MemType', Tidied, faults' < 2,
         NEW op, NEW type \in {"file", "dir"}, NEW path \in Paths, CreateCall(op, type, path)
  PROVE  Tidied'
<1>0. /\ pc = "idle" /\ UNCHANGED d_data /\ faults \in Nat
      /\ inodes \in [Inodes -> Inode] /\ inodes' \in [Inodes -> Inode]
  BY CreateBegins DEF disk, Intact, TypeInv, TypeOK, BudgetType, MemType
<1>1. CASE pc' = "ret" /\ UNCHANGED mem
  BY <1>0, <1>1, TidiedEnds DEF mem, CreatePcs
<1> DEFINE parent == luxfs_resolve_parent(path)
           name == Leaf(path)
<1>2. CASE parent \in Inodes /\ luxfs_alloc_inode(op, type, parent, name)
  <2>1. PICK i \in FreeInodes :
          /\ inodes' = [inodes EXCEPT ![i] = [luxfs_inode_clear EXCEPT !.type = type, !.parent = parent]]
          /\ c' = [NoCall EXCEPT !.op = op, !.dir = parent, !.ino = i, !.name = name]
          /\ pc' = "ai_bitmap"
    BY <1>2 DEF luxfs_alloc_inode
  <2>2. i \in Inodes /\ c'.dir = parent /\ c'.name = name
    BY <2>1 DEF FreeInodes, NoCall
  <2>3. /\ \A j \in Inodes : j # i => inodes'[j] = inodes[j]
        /\ inodes'[i].size = 0
    BY <1>0, <2>1, <2>2 DEF luxfs_inode_clear
  <2>4. \A j \in Inodes : Covered(inodes[j])
    BY <1>0 DEF Tidied, TidyMem
  <2>5. \A j \in Inodes : Covered(inodes'[j])
    BY <2>3, <2>4, CoveredNone DEF Covered
  <2>6. /\ TidyMem'
        /\ \A j \in Inodes : \A y : NameFree(d_data, inodes[j], y) => NameFree(d_data', inodes'[j], y)
    <3>1. \A j \in Inodes : inodes'[j].type = "dir" =>
           \/ inodes'[j].size = 0
           \/ /\ inodes[j].type = "dir" /\ inodes'[j].size = inodes[j].size
              /\ \A o \in Nat : o < inodes'[j].size /\ Reachable(inodes'[j], o) =>
                   /\ Reachable(inodes[j], o)
                   /\ CellOf(d_data', inodes'[j], o) = CellOf(d_data, inodes[j], o)
      BY <1>0, <2>3
    <3> QED BY <2>5, <3>1, TidyStep DEF Tidied
  <2>7. luxfs_dir_find(parent, name) = NONE
    BY <1>0, <2>1, CreateLooked
  <2>8. NameFree(d_data, inodes[parent], name)
    <3>1. inodes[parent] \in Inode /\ Tidy(d_data, inodes[parent])
      BY <1>0, <1>2 DEF Tidied, TidyMem
    <3> HIDE DEF parent, name
    <3> QED BY <1>2, <2>7, <3>1, NotFoundFree
  <2> HIDE DEF parent, name
  <2>9. NewName'
    BY <1>2, <2>2, <2>6, <2>8 DEF NewName
  <2>10. Entering'
    BY <2>1 DEF Entering
  <2> QED BY <2>6, <2>9, <2>10 DEF Tidied
<1> QED BY <1>1, <1>2, CreateBegins

\* A call begins.
LEMMA TidiedCall ==
  ASSUME Intact, MemType', Tidied, faults' < 2, Call
  PROVE  Tidied'
<1>1. ASSUME NEW path, NEW off, NEW len, NEW v, NEW t, fs_write(path, off, len, v, t)
      PROVE  Tidied'
  <2>1. pc = "idle" /\ pc' \in {"ret", "rl", "wr_inode", "wr"} /\ UNCHANGED <<mem, disk>>
    BY <1>1 DEF fs_write, Answer
  <2> QED BY <2>1, TidiedEnds DEF CreatePcs, mem, disk
<1> QED BY <1>1, TidiedCreate DEF Call, fs_touch, fs_mkdir

\* A call goes on.
LEMMA TidiedRunning ==
  ASSUME Intact, Left, MemType', Tidied, Running, ~luxfs_format
  PROVE  Tidied'
<1>1. CASE AllocInodeBitmap \/ AllocInodeFlush
  BY <1>1, TidiedAlloc
<1>2. CASE luxfs_dir_append_record
  BY <1>2, TidiedAppend, TidiedZeroes, TidiedPatches DEF luxfs_dir_append_record
<1>3. CASE ReleaseBlock \/ ReleasedForWrite \/ luxfs_mark_inode_free
  BY <1>3, TidiedRelease, TidiedQuiet DEF luxfs_mark_inode_free
<1>4. CASE WriteNoSpace \/ WriteAllocates \/ WriteInode \/ Returns
  BY <1>4, TidiedQuiet
<1>5. CASE WriteBlockBitmap \/ WritePatches
  BY <1>5, TidiedWriteBitmap, TidiedWritePatches
<1> QED BY <1>1, <1>2, <1>3, <1>4, <1>5 DEF Running

\* Failed accesses are counted and never forgotten.
LEMMA FaultsGrow ==
  ASSUME TypeInv, Next
  PROVE  faults \in Nat /\ faults <= faults'
<1>0. faults \in Nat
  BY SizeAssumption DEF TypeInv, TypeOK, BudgetType
<1>1. CASE Succeeds \/ Fails
  BY <1>0, <1>1 DEF Succeeds, Fails
<1>2. CASE Call
  <2>1. ASSUME NEW missed, ReadFaults(missed) PROVE faults <= faults'
    BY <1>0, <2>1, SizeAssumption DEF ReadFaults
  <2>2. \A op, type, path : CreateCall(op, type, path) => \E missed : ReadFaults(missed)
    BY DEF CreateCall
  <2>3. \A path, off, len, v, t : fs_write(path, off, len, v, t) => \E missed : ReadFaults(missed)
    BY DEF fs_write
  <2>4. \E missed : ReadFaults(missed)
    BY <1>2, <2>2, <2>3 DEF Call, fs_touch, fs_mkdir
  <2> QED BY <1>0, <2>1, <2>4
<1>3. CASE fs_mount \/ shutdown \/ Crash \/ luxfs_format
  <2>1. Succeeds \/ Fails
    BY <1>3 DEF fs_mount, shutdown, Crash, LosePower, luxfs_format, FormatSuperblock,
       FormatInodeBitmap, FormatBlockBitmap, FormatInodeTable, FormatFails, Succeeds
  <2> QED BY <1>1, <2>1
<1>4. CASE AllocInodeBitmap \/ AllocInodeFlush \/ luxfs_dir_append_record
  <2>1. Succeeds \/ Fails
    BY <1>4 DEF AllocInodeBitmap, AllocInodeFlush, luxfs_dir_append_record, AppendRefused,
       AppendAllocates, AppendBlockBitmap, AppendZeroes, AppendPatches, AppendInode
  <2> QED BY <1>1, <2>1
<1>5. CASE ReleaseBlock \/ ReleasedForWrite \/ luxfs_mark_inode_free
  <2>1. Succeeds \/ Fails
    BY <1>5 DEF ReleaseBlock, ReleasedForWrite, luxfs_mark_inode_free, ReleasedForFree,
       FreeInodeFlush, FreeInodeBitmap
  <2> QED BY <1>1, <2>1
<1>6. CASE WriteNoSpace \/ WriteAllocates \/ WriteBlockBitmap \/ WritePatches \/ WriteInode
           \/ Returns
  <2>1. Succeeds \/ Fails
    BY <1>6 DEF WriteNoSpace, WriteAllocates, WriteBlockBitmap, WritePatches, WriteInode, Returns,
       Succeeds
  <2> QED BY <1>1, <2>1
<1> QED BY <1>0, <1>2, <1>3, <1>4, <1>5, <1>6 DEF Next, Running

-----------------------------------------------------------------------------
(* The machine, and the names callers see.                                 *)

\* Mounting takes the directories of the disk.
LEMMA NameMount ==
  ASSUME TypeInv, TidyDisk, fs_mount
  PROVE  TidyDisk' /\ (mounted' => Tidied')
<1>1. UNCHANGED <<d_inodes, d_data>> /\ ~mounted
  BY DEF fs_mount, disk, TypeInv, CallOK, FormatPcs
<1>2. TidyDisk'
  BY <1>1 DEF TidyDisk
<1>3. ASSUME mounted' PROVE inodes' = d_inodes /\ pc' = "idle"
  BY <1>1, <1>3 DEF fs_mount, mem
<1>4. ASSUME mounted' PROVE Tidied'
  BY <1>1, <1>3, <1>4 DEF TidyDisk, Tidied, TidyMem, Entering, NewName, CreatePcs
<1> QED BY <1>2, <1>4

\* A format leaves directories without records.
LEMMA NameFormat ==
  ASSUME TypeInv, FormatInv, ~torn', pc' \notin FormatPcs \ {"fmt_super"}, luxfs_format,
         pc = "fmt_super" => TidyDisk
  PROVE  TidyDisk' /\ (mounted' => Tidied')
<1>1. ~(FormatSuperblock \/ FormatInodeBitmap \/ FormatBlockBitmap)
  BY DEF FormatSuperblock, FormatInodeBitmap, FormatBlockBitmap, Goto, FormatPcs
<1>2. pc \in FormatPcs /\ ~mounted
  BY DEF luxfs_format, FormatSuperblock, FormatInodeBitmap, FormatBlockBitmap, FormatInodeTable,
     FormatFails, FormatPcs, TypeInv, CallOK
<1>3. CASE FormatFails
  <2>1. pc = "fmt_super" /\ UNCHANGED mem /\ UNCHANGED <<d_inodes, d_data>>
    BY <1>3 DEF FormatFails, Tears, disk
  <2> QED BY <1>2, <2>1 DEF TidyDisk, mem
<1>4. CASE FormatInodeTable
  <2>1. mounted'
    BY <1>2, <1>4 DEF FormatInodeTable, FormatPcs
  <2>2. /\ \A i \in Inodes : d_inodes'[i] = inodes[i] /\ inodes'[i] = inodes[i]
        /\ pc' = "idle"
    BY <1>4, <2>1, FormatDone
  <2>3. inodes = [[i \in Inodes |-> luxfs_inode_clear] EXCEPT ![Root].type = "dir"]
    BY <1>2 DEF FormatInv
  <2>4. \A i \in Inodes : inodes[i].size = 0 /\ inodes[i] \in Inode
    BY <2>3, Ranges DEF luxfs_inode_clear, Root, TypeInv, TypeOK, MemType
  <2>5. \A i \in Inodes : Tidy(d_data', inodes[i]) /\ Covered(inodes[i])
    BY <2>4, TidyEmpty, CoveredNone DEF Covered
  <2> QED BY <2>2, <2>5 DEF TidyDisk, Tidied, TidyMem, Entering, NewName, CreatePcs
<1> QED BY <1>1, <1>3, <1>4 DEF luxfs_format

\* Names stay unique: the directories of the disk and of memory are tidy.
LEMMA NameNext ==
  ASSUME LinkInv, SolidInv, FormatInv, KeptInv, Left, NameInv, TypeOK', Next
  PROVE  NameInv'
<1>0. TypeInv /\ MemType' /\ faults \in Nat /\ faults <= faults'
  BY FaultsGrow DEF SolidInv, TypeOK
<1> SUFFICES ASSUME faults' < 2, ~torn', pc' \notin FormatPcs \ {"fmt_super"}
             PROVE  TidyDisk' /\ (mounted' => Tidied')
  BY DEF NameInv
<1>1. faults < 2
  <2>1. faults' \in Nat
    BY SizeAssumption DEF TypeOK, BudgetType
  <2> QED BY <1>0, <2>1
<1>2. CASE fs_mount
  <2>1. pc = "off" /\ ~torn
    BY <1>2 DEF fs_mount
  <2> QED BY <1>0, <1>1, <1>2, <2>1, NameMount DEF NameInv, FormatPcs
<1>3. CASE luxfs_format
  <2>1. ~torn
    BY <1>3 DEF luxfs_format, FormatSuperblock, FormatInodeBitmap, FormatBlockBitmap,
       FormatInodeTable, FormatFails
  <2> QED BY <1>0, <1>1, <1>3, <2>1, NameFormat DEF NameInv
<1>4. CASE shutdown \/ Crash
  <2>1. ~torn /\ pc \notin FormatPcs \ {"fmt_super"} /\ ~mounted' /\ UNCHANGED <<d_inodes, d_data>>
    BY <1>4 DEF shutdown, Crash, LosePower, Tears, disk
  <2> QED BY <1>1, <2>1 DEF NameInv, TidyDisk
<1>5. CASE Call \/ (Running /\ ~luxfs_format)
  <2>1. ~torn
    BY <1>5, TornStep
  <2>2. CASE ~mounted
    <3>1. UNCHANGED disk /\ ~mounted' /\ pc \in {"idle", "ret"}
      BY <1>0, <1>5, <2>2, UnmountedStep
    <3> QED BY <1>1, <2>1, <3>1 DEF NameInv, TidyDisk, disk, FormatPcs
  <2>3. CASE mounted
    <3>1. Intact
      BY <2>1, <2>3, IntactStep
    <3>2. pc \notin FormatPcs
      BY <1>0, <2>3 DEF TypeInv, CallOK
    <3>3. TidyDisk /\ Tidied
      BY <1>1, <2>1, <2>3, <3>2 DEF NameInv
    <3>4. TidyDisk'
      BY <1>5, <3>1, <3>3, TidyFlushed DEF Tidied
    <3>5. Tidied'
      BY <1>0, <1>5, <3>1, <3>3, TidiedCall, TidiedRunning
    <3> QED BY <3>4, <3>5
  <2> QED BY <2>2, <2>3
<1> QED BY <1>2, <1>3, <1>4, <1>5 DEF Next, Running

\* Nothing happens.
LEMMA NameStutter ==
  ASSUME NameInv, UNCHANGED vars
  PROVE  NameInv'
<1>1. UNCHANGED <<mounted, inodes, d_inodes, d_data, pc, c, torn, faults>>
  BY DEF vars, mem, disk
<1>2. \A n : RecordCell(n)' = RecordCell(n)
  BY <1>1 DEF RecordCell
<1>3. (TidyDisk => TidyDisk') /\ (Tidied => Tidied')
  BY <1>1, <1>2 DEF TidyDisk, Tidied, TidyMem, Entering, NewName
<1> QED BY <1>1, <1>3 DEF NameInv

\* The records that luxfs_dir_iterate hands out have the names of the cells.
LEMMA NamesMatch ==
  ASSUME TypeOK, TidyMem
  PROVE  \A d \in Inodes : \A r, q \in DOMAIN Records(inodes, d) :
           Records(inodes, d)[r].name = Records(inodes, d)[q].name => r = q
<1> SUFFICES ASSUME NEW d \in Inodes, NEW r \in DOMAIN Records(inodes, d),
                    NEW q \in DOMAIN Records(inodes, d),
                    Records(inodes, d)[r].name = Records(inodes, d)[q].name
             PROVE  r = q
  OBVIOUS
<1> DEFINE a == inodes[d]
<1>1. a \in Inode /\ a.size \in Nat
  BY DEF TypeOK, MemType, Inode
<1>2. a.type = "dir"
  BY RecordRow
<1>3. ASSUME NEW s \in DOMAIN Records(inodes, d)
      PROVE  /\ s \in Nat /\ s - 1 \in Done(a)
             /\ Records(inodes, d)[s].name = CellOf(d_data, a, 2 * (s - 1) + 1)
  <2>1. /\ s \in Nat /\ s - 1 \in Nat
        /\ Records(inodes, d)[s].name = CellOf(d_data, a, 2 * (s - 1) + 1)
    BY RecordRow DEF Rows
  <2>2. Records(inodes, d) = Iterate(d_data, a)
    BY <1>2 DEF Records, luxfs_dir_iterate, Iterate, Complete, CellAt, CellOf
  <2> HIDE DEF a
  <2>3. s \in Complete(a)
    BY <1>1, <2>2, Iterated
  <2> QED BY <2>1, <2>3 DEF Done
<1>4. Tidy(d_data, a)
  BY DEF TidyMem
<1> HIDE DEF a
<1>5. r - 1 = q - 1
  BY <1>2, <1>3, <1>4 DEF Tidy
<1> QED BY <1>3, <1>5

\* No directory ever holds two records of one name, on a volume of any size
\* and through every failed sector write and power loss, as long as no more
\* than one sector access has failed since the volume was built: fs_touch and
\* fs_mkdir look a name up twice before they enter it, so one read error,
\* which a lookup reports as a missing name, cannot hide a name from both. Two
\* can. A failed write of a record may leave part of it behind the size of the
\* directory, and the next create writes over it.
THEOREM NamesStayUnique == Spec => [](faults < 2 => NamesUnique)
<1> DEFINE Inv == /\ LinkInv /\ DiskNeat /\ FormatInv /\ SolidInv /\ KeptInv /\ Left /\ NameInv
<1>1. Init => Inv
  <2> SUFFICES ASSUME Init PROVE Inv
    OBVIOUS
  <2>1. DiskNeat /\ Left
    BY DEF Init, DiskNeat, Left
  <2>2. TypeOK
    BY SolidInit DEF SolidInv, TypeInv
  <2>3. ~mounted /\ \A i \in Inodes : d_inodes[i] \in Inode /\ d_inodes[i].size = 0
    BY <2>2 DEF Init, ZeroInode, TypeOK, DiskType
  <2>4. NameInv
    BY <2>3, TidyEmpty, CoveredNone DEF NameInv, TidyDisk, Covered
  <2> QED BY <2>1, <2>4, LinkInit, FormatInit, SolidInit, KeptInit
<1>2. Inv /\ [Next]_vars => Inv'
  <2> SUFFICES ASSUME Inv, [Next]_vars PROVE Inv'
    OBVIOUS
  <2>1. CASE Next
    <3>1. TypeInv
      BY DEF SolidInv
    <3>2. LinkInv' /\ DiskNeat' /\ FormatInv' /\ SolidInv' /\ KeptInv' /\ Left'
      BY <2>1, <3>1, LinkNext, NeatNext, FormatNext, SolidNext, KeptNext, LeftNext
    <3>3. TypeOK'
      BY <3>2 DEF SolidInv, TypeInv
    <3> QED BY <2>1, <3>2, <3>3, NameNext
  <2>2. CASE UNCHANGED vars
    <3>1. LinkInv' /\ DiskNeat'
      BY <2>2, LinkStutter
    <3>2. FormatInv' /\ Left'
      BY <2>2 DEF FormatInv, Left, vars, mem, disk
    <3>3. SolidInv'
      BY <2>2, SolidStutter
    <3>4. KeptInv'
      BY <2>2, KeptStutter
    <3> QED BY <2>2, <3>1, <3>2, <3>3, <3>4, NameStutter
  <2> QED BY <2>1, <2>2
<1>3. Inv => (faults < 2 => NamesUnique)
  <2> SUFFICES ASSUME Inv, faults < 2, mounted, ~torn
               PROVE  \A d \in Inodes : \A r, q \in DOMAIN Records(inodes, d) :
                        Records(inodes, d)[r].name = Records(inodes, d)[q].name => r = q
    BY DEF NamesUnique
  <2>1. TypeOK /\ pc \notin FormatPcs
    BY DEF SolidInv, TypeInv, CallOK
  <2>2. TidyMem
    BY <2>1 DEF NameInv, Tidied
  <2> QED BY <2>1, <2>2, NamesMatch
<1> QED BY <1>1, <1>2, <1>3, PTL DEF Spec
=============================================================================
