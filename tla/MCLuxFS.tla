------------------------------ MODULE MCLuxFS ------------------------------
(***************************************************************************)
(* LuxFS on small volumes. The constants' values are in the configurations;*)
(* the sets of paths and the symmetries are here.                          *)
(***************************************************************************)
EXTENDS LuxFS, TLC

CONSTANTS na, nb

\* The root, two names side by side in it, and one below the other.
MCPaths == {<<>>, <<na>>, <<nb>>, <<na, nb>>}

MCFlatPaths == {<<na>>, <<nb>>}

\* Paths that exercise ".", "..", a component that is too long and the depth
\* limit as well.
MCDotPaths == MCPaths \cup {<<na, "..", nb>>, <<"..", na>>, <<".", nb>>, <<"long">>,
                            <<na, nb, ".">>, <<"..">>}

-----------------------------------------------------------------------------
(* The disk of LuxFS as a Volume.                                          *)

DiskContent(i) ==
  LET node == d_inodes[i]
      there == {o \in 0 .. node.size - 1 : Reachable(node, o)}
  IN  IF node.type # "file" THEN <<>>
      ELSE [n \in 1 .. Cardinality(there) |-> CellAt(node, n - 1)]

DiskEntries == {[dir |-> e.dir, name |-> e.name, node |-> e.inode,
                 kind |-> IF e.inode = NONE THEN "free" ELSE d_inodes[e.inode].type] :
                  e \in Entries(d_inodes)}

WriteInProgress ==
  IF c.op = "write" /\ pc \in {"rl", "wr", "wr_bitmap", "wr_inode"}
  THEN [node |-> c.ino, from |-> c.start, to |-> c.off + c.left,
        byte |-> <<"byte", c.val>>, trunc |-> c.trunc]
  ELSE [node |-> -1, from |-> 0, to |-> 0, byte |-> "none", trunc |-> FALSE]

\* What fs_write tells its caller.
WriteAnswer == CASE pc = "ret" /\ c.op = "write" /\ c.ret -> "done"
                 [] pc = "ret" /\ c.op = "write" /\ ~c.ret -> "failed"
                 [] OTHER -> "none"

V == INSTANCE Volume WITH
       Nodes <- Inodes, Top <- Root, Bytes <- {Zero} \cup ({"byte"} \X Values),
       MaxLen <- MaxSize, entries <- DiskEntries,
       content <- [i \in Inodes |-> DiskContent(i)],
       writing <- WriteInProgress, answer <- WriteAnswer, lost <- torn

\* fs.c implements Volume: a name appears in one step however many sectors its
\* creation takes, a write that answers true has stored exactly its bytes, and
\* a call that loses power has changed nothing but the file it was writing.
\* That is for volumes with blocks for every file, and for files of one block.
\* On others it is not so: a truncating write that runs out of blocks leaves
\* an empty file in memory and the old one on disk, and the next write stores
\* what follows from memory.
ImplementsVolume == V!Spec
-----------------------------------------------------------------------------

\* Values are interchangeable: no action and no property compares them.
MCSymmetry == Permutations(Values)

\* What a torn volume does depends on the bytes its blocks happen to share.
NotTorn == ~torn
=============================================================================
