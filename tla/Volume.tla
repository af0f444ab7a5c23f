------------------------------ MODULE Volume ------------------------------
(***************************************************************************)
(* What LuxFS promises about the volume a user has on disk, when sector    *)
(* accesses do not fail but the power may: files and directories appear    *)
(* whole or not at all, are never renamed, moved or removed, and a write   *)
(* changes one file only. While a write is in progress the file holds an   *)
(* intermediate content; a write answers true only in the step that leaves *)
(* exactly what was asked for. A truncating write that loses power is the  *)
(* one way to a volume about which nothing more is promised. The promise   *)
(* is for volumes on which a truncating write does not run out of blocks   *)
(* halfway: after that, memory and disk differ about the file until it is  *)
(* written again.                                                          *)
(***************************************************************************)
EXTENDS Integers, Sequences

CONSTANTS Nodes,  \* identities of files and directories
          Top,    \* the root directory
          Names,  \* names
          Bytes,  \* what a file can hold at one position
          MaxLen  \* the longest file

VARIABLES entries,  \* the set of [dir, name, node, kind] there are
          content,  \* what each node holds
          writing,  \* the write in progress, or NoWrite
          answer,   \* what the write that has just ended told its caller, or "none"
          lost      \* the volume is no longer promised anything

vars == <<entries, content, writing, answer, lost>>

NoWrite == [node |-> -1, from |-> 0, to |-> 0, byte |-> "none", trunc |-> FALSE]
Writes == [node : Nodes, from : 0 .. MaxLen, to : 0 .. MaxLen, byte : Bytes,
           trunc : BOOLEAN]

Init == /\ entries = {}
        /\ content = [i \in Nodes |-> <<>>]
        /\ writing = NoWrite
        /\ answer = "none"
        /\ lost = FALSE

IsDir(d) == d = Top \/ \E e \in entries : e.node = d /\ e.kind = "dir"
IsFile(i) == \E e \in entries : e.node = i /\ e.kind = "file"

Entry == [dir : Nodes, name : Names, node : Nodes \ {Top}, kind : {"dir", "file"}]

\* A name appears, at a place where it was free, for a node that is new and
\* empty.
Create(e) ==
  /\ writing = NoWrite /\ answer = "none"
  /\ e \in Entry /\ IsDir(e.dir)
  /\ \A x \in entries : x.node # e.node /\ ~(x.dir = e.dir /\ x.name = e.name)
  /\ content[e.node] = <<>>
  /\ entries' = entries \cup {e}
  /\ UNCHANGED <<content, writing, answer, lost>>

\* A write begins at or before the end of its file, so it leaves no gap.
Begin ==
  /\ writing = NoWrite /\ answer = "none"
  /\ writing' \in Writes
  /\ IsFile(writing'.node)
  /\ writing'.from <= writing'.to
  /\ writing'.from <= (IF writing'.trunc THEN 0 ELSE Len(content[writing'.node]))
  /\ UNCHANGED <<entries, content, answer, lost>>

\* Only the file that is written changes, and unless the write truncates, only
\* inside its range.
Progress ==
  /\ writing # NoWrite
  /\ content' = [content EXCEPT ![writing.node] = content'[writing.node]]
  /\ LET old == content[writing.node]
         new == content'[writing.node]
     IN  /\ new \in Seq(Bytes) /\ Len(new) <= MaxLen
         /\ writing.trunc \/ /\ Len(new) = Len(old)
                             /\ \A p \in DOMAIN old :
                                  p - 1 \in writing.from .. writing.to - 1 \/ new[p] = old[p]
  /\ UNCHANGED <<entries, writing, answer, lost>>

\* The file a write asked for.
Target ==
  LET old == IF writing.trunc THEN <<>> ELSE content[writing.node]
  IN  [p \in 1 .. (IF writing.to > Len(old) THEN writing.to ELSE Len(old)) |->
         IF p - 1 \in writing.from .. writing.to - 1 THEN writing.byte ELSE old[p]]

\* A write answers true here only.
Finish == /\ writing # NoWrite
          /\ content' = [content EXCEPT ![writing.node] = Target]
          /\ writing' = NoWrite /\ answer' = "done"
          /\ UNCHANGED <<entries, lost>>

\* There is no block left, and the caller is told so.
GiveUp == /\ writing # NoWrite
          /\ writing' = NoWrite /\ answer' = "failed"
          /\ UNCHANGED <<entries, content, lost>>

\* A path that names no file, or a range it does not have.
Refuse == /\ writing = NoWrite /\ answer = "none"
          /\ answer' = "failed"
          /\ UNCHANGED <<entries, content, writing, lost>>

\* The caller has its answer.
Answered == /\ answer # "none" /\ answer' = "none"
            /\ UNCHANGED <<entries, content, writing, lost>>

\* The power goes during a write, and nobody is told anything.
CutOff == /\ writing # NoWrite
          /\ writing' = NoWrite
          /\ UNCHANGED <<entries, content, answer, lost>>

\* The power goes during a truncating write, or during the first format.
Tear == /\ writing.trunc \/ entries = {}
        /\ lost' = TRUE
        /\ writing' = NoWrite
        /\ UNCHANGED <<entries, content, answer>>

Next == \/ \E e \in entries' \ entries : Create(e)
        \/ Begin
        \/ Progress
        \/ Finish \/ GiveUp \/ Refuse \/ Answered
        \/ CutOff
        \/ Tear
        \/ lost /\ lost'

Spec == Init /\ [][Next]_vars
=============================================================================
