------------------------ MODULE ShellPipelineProofs ------------------------
(***************************************************************************)
(* Pipelines and redirections, for every set of lines that parses as       *)
(* LinesAssumption says, every size of the buffers, of the largest file    *)
(* and of what commands write, and any calls of the filesystem that fail:  *)
(* what a command reads is what the one before it wrote (PipeFaithful),    *)
(* and files hold what redirections and touch were given (FilesExact).     *)
(***************************************************************************)
EXTENDS ShellPipeline, TLAPS

-----------------------------------------------------------------------------
(* The inductive invariant.                                                *)

Data == {"p", "q", "e"}
Room == PIPE_BUFFER_CAPACITY - 1

Argv(k) == tokenize(segments[k])
WordsOf(argv) == {argv[i] : i \in 1 .. Len(argv)}
Words == UNION {UNION {WordsOf(tokenize(Parsed(l).segments[k])) :
                       k \in 1 .. Len(Parsed(l).segments)} : l \in Lines}

Handling == pc \in {"x", "c", "cat", "cat_error", "t", "touch_error"}
Opened == redir.active /\ (pc \in {"stage", "poll", "done"} \/ Handling)

FileType == /\ files = [p \in DOMAIN files |-> files[p]]
            /\ \A p \in DOMAIN files : files[p] \in Seq(Data) /\ Len(files[p]) <= MaxFile
WriterType == writer \in [path : {writer.path}, offset : Nat, truncate_pending : BOOLEAN,
                          failed : BOOLEAN]
DataType ==
  /\ input \in Seq(Data) /\ Len(input) <= Room
  /\ buffer \in [data : Seq(Data), overflowed : BOOLEAN] /\ Len(buffer.data) <= Room
  /\ out \in Seq(Data) /\ before \in Seq(Data)
HandlerType ==
  /\ args \in Seq(Words) /\ Len(args) < MAX_ARGS
  /\ off \in Nat /\ size \in 0 .. MaxFile /\ faults \in 0 .. MaxFaults
LineType ==
  /\ pc \in {"prompt", "refused", "open", "stage", "poll", "done"} \/ Handling
  /\ Len(segments) \in 0 .. MAX_PIPE_SEGMENTS /\ stage \in 1 .. MAX_PIPE_SEGMENTS
  /\ \A k \in 1 .. Len(segments) : Argv(k) \in Seq(Words) /\ Len(Argv(k)) \in 1 .. MAX_ARGS
  /\ pc \notin {"prompt", "refused"} => stage <= Len(segments)
  /\ pc = "open" => stage = 1
  /\ pc = "done" => stage = Len(segments)
  /\ redir.active \in BOOLEAN /\ redir.append \in BOOLEAN
  /\ pc \in {"prompt", "refused", "open"} /\ redir.active => writer.path = <<>>

PipeTypes == FileType /\ WriterType /\ DataType /\ HandlerType /\ LineType

\* The buffer is what fits of what the command wrote.
Piped ==
  /\ (Handling \/ pc = "poll") /\ has_next =>
       buffer.data = LimitedTo(Room, out) /\ (buffer.overflowed <=> Len(out) > Room)
  /\ pc = "stage" /\ stage > 1 => input = LimitedTo(Room, out)

\* The file that cat reads stays there.
Reading == pc = "cat" => args # <<>> /\ Resolved(args[1]) \in DOMAIN files

\* What touch still has to do is among its arguments.
Touching ==
  pc \in {"t", "touch_error"} =>
    /\ Argv(stage)[1] = <<"t">>
    /\ \A j \in 1 .. Len(args) : \E i \in 2 .. Len(Argv(stage)) : args[j] = Argv(stage)[i]

\* The file of the redirection is there, and ">>" only writes behind its end,
\* unless its size could not be asked for.
Appends ==
  Opened => /\ writer.path = Resolved(redir.path) /\ writer.path \in DOMAIN files
            /\ redir.append /\ ~Itself /\ "stat" \notin Faulty =>
                 /\ ~writer.truncate_pending /\ Len(before) <= writer.offset
                 /\ Len(before) <= Len(files[writer.path])
                 /\ \A i \in 1 .. Len(before) : files[writer.path][i] = before[i]

\* What the file of the redirection holds while nothing has failed: what it
\* held until the last command runs, and then also what that one wrote.
Kept == IF redir.append THEN before ELSE <<>>
Target ==
  Opened /\ faults = 0 /\ ~writer.failed /\ ~Itself =>
    /\ pc = "stage" \/ has_next =>
         /\ files[writer.path] = before /\ writer.offset = Len(Kept)
         /\ writer.truncate_pending = ~redir.append
    /\ pc # "stage" /\ ~has_next =>
         IF writer.truncate_pending
         THEN out = <<>> /\ writer.offset = 0 /\ ~redir.append /\ pc # "done"
         ELSE files[writer.path] = Kept \o out /\ writer.offset = Len(Kept) + Len(out)

\* touch with input and one path, the last command, while nothing has failed.
Body ==
  /\ faults = 0 /\ ~redir.active /\ input # <<>> /\ Len(input) <= MaxFile
  /\ stage = Len(segments) /\ Argv(stage)[1] = <<"t">> /\ Len(Argv(stage)) = 2
  /\ ~TooLong(Argv(stage)[2])
Touched ==
  Body => /\ pc \notin {"x", "c", "cat", "cat_error", "touch_error"}
          /\ pc = "t" => args = <<Argv(stage)[2]>>
          /\ pc \in {"poll", "done"} => files[Resolved(Argv(stage)[2])] = input

PipeInv == PipeTypes /\ Piped /\ Reading /\ Touching /\ Appends /\ Target /\ Touched

-----------------------------------------------------------------------------
(* The operators.                                                          *)

\* Two sequences with the same elements are the same.
LEMMA SameSeq ==
  ASSUME NEW s \in Seq(Data), NEW t \in Seq(Data), Len(s) = Len(t),
         \A i \in 1 .. Len(s) : s[i] = t[i]
  PROVE  s = t
<1>1. s = [i \in 1 .. Len(s) |-> s[i]] /\ t = [i \in 1 .. Len(t) |-> t[i]]
  OBVIOUS
<1> QED BY <1>1

\* Appending twice.
LEMMA Associative ==
  ASSUME NEW s \in Seq(Data), NEW t \in Seq(Data), NEW u \in Seq(Data)
  PROVE  (s \o t) \o u = s \o (t \o u)
<1>1. /\ s \o t \in Seq(Data) /\ Len(s \o t) = Len(s) + Len(t)
      /\ t \o u \in Seq(Data) /\ Len(t \o u) = Len(t) + Len(u)
  OBVIOUS
<1>2. /\ (s \o t) \o u \in Seq(Data) /\ Len((s \o t) \o u) = Len(s) + Len(t) + Len(u)
      /\ s \o (t \o u) \in Seq(Data) /\ Len(s \o (t \o u)) = Len(s) + Len(t) + Len(u)
  BY <1>1
<1>3. ASSUME NEW i \in 1 .. Len(s) + Len(t) + Len(u)
      PROVE  ((s \o t) \o u)[i] = (s \o (t \o u))[i]
  <2>1. CASE i <= Len(s)
    BY <1>1, <2>1
  <2>2. CASE i > Len(s) /\ i <= Len(s) + Len(t)
    <3>1. i - Len(s) \in 1 .. Len(t)
      BY <2>2
    <3> QED BY <1>1, <2>2, <3>1
  <2>3. CASE i > Len(s) + Len(t)
    <3>1. i - (Len(s) + Len(t)) \in 1 .. Len(u) /\ i - Len(s) \in Len(t) + 1 .. Len(t) + Len(u)
          /\ (i - Len(s)) - Len(t) = i - (Len(s) + Len(t))
      BY <2>3
    <3> QED BY <1>1, <2>3, <3>1
  <2> QED BY <2>1, <2>2, <2>3
<1> QED BY <1>2, <1>3, SameSeq

\* One argument is the last one.
LEMMA LastPath ==
  ASSUME NEW x
  PROVE  Tail(<<x>>) = <<>>
<1>1. <<x>> \in Seq({x}) /\ Len(<<x>>) = 1 /\ <<x>> # <<>>
  OBVIOUS
<1>2. ASSUME NEW s \in Seq({x}), s # <<>>, Len(s) = 1 PROVE Tail(s) = <<>>
  <2> DEFINE t == Tail(s)
  <2>1. t \in Seq({x}) /\ Len(t) = 0
    BY <1>2
  <2> HIDE DEF t
  <2>2. t = <<>>
    BY <2>1
  <2> QED BY <2>2 DEF t
<1> QED BY <1>1, <1>2

\* A sequence of one element.
LEMMA Single ==
  ASSUME NEW S, NEW t \in Seq(S), Len(t) = 1
  PROVE  t = <<t[1]>>
<1>1. t = [i \in 1 .. Len(t) |-> t[i]]
  OBVIOUS
<1>2. t = [i \in 1 .. 1 |-> t[i]]
  BY <1>1
<1>3. t = [i \in {1} |-> t[1]]
  BY <1>2
<1>4. <<t[1]>> = [i \in 1 .. 1 |-> t[1]]
  OBVIOUS
<1> QED BY <1>2, <1>3, <1>4

\* l is the first n elements of s, or all of them.
Limits(l, n, s) ==
  /\ l \in Seq(Data)
  /\ Len(l) = IF Len(s) > n THEN n ELSE Len(s)
  /\ \A i \in 1 .. Len(l) : l[i] = s[i]

\* What a buffer of limited room takes of a text.
LEMMA LimitedIs ==
  ASSUME NEW s \in Seq(Data), NEW n \in Nat
  PROVE  Limits(LimitedTo(n, s), n, s)
<1> DEFINE m == IF Len(s) > n THEN n ELSE Len(s)
<1>1. m \in Nat /\ m <= Len(s)
  OBVIOUS
<1> HIDE DEF m
<1>2. /\ SubSeq(s, 1, m) \in Seq(Data) /\ Len(SubSeq(s, 1, m)) = m
      /\ \A i \in 1 .. m : SubSeq(s, 1, m)[i] = s[i]
  BY <1>1
<1> QED BY <1>2 DEF LimitedTo, Limits, m

\* Filling up a buffer piece by piece is the same as cutting the whole.
LEMMA LimitedAppends ==
  ASSUME NEW s \in Seq(Data), NEW t \in Seq(Data), NEW n \in Nat
  PROVE  LimitedTo(n, s \o t) = LimitedTo(n, s) \o LimitedTo(n - Len(LimitedTo(n, s)), t)
<1> DEFINE a == LimitedTo(n, s)
           r == n - Len(a)
           b == LimitedTo(r, t)
           c == LimitedTo(n, s \o t)
<1>1. Limits(a, n, s)
  BY LimitedIs
<1> HIDE DEF a
<1>2. /\ a \in Seq(Data) /\ Len(a) = (IF Len(s) > n THEN n ELSE Len(s))
      /\ \A i \in 1 .. Len(a) : a[i] = s[i]
  BY <1>1 DEF Limits
<1>3. /\ r \in Nat /\ Len(s) \in Nat /\ Len(t) \in Nat /\ Len(a) \in Nat
      /\ r = n - Len(a)
  BY <1>2
<1> HIDE DEF r
<1>4. Limits(b, r, t)
  BY <1>3, LimitedIs
<1> HIDE DEF b
<1>5. /\ b \in Seq(Data) /\ Len(b) = (IF Len(t) > r THEN r ELSE Len(t))
      /\ \A i \in 1 .. Len(b) : b[i] = t[i]
  BY <1>4 DEF Limits
<1>6. s \o t \in Seq(Data) /\ Len(s \o t) = Len(s) + Len(t)
  OBVIOUS
<1>7. Limits(c, n, s \o t)
  BY <1>6, LimitedIs
<1> HIDE DEF c
<1>8. /\ c \in Seq(Data) /\ Len(c) = (IF Len(s) + Len(t) > n THEN n ELSE Len(s) + Len(t))
      /\ \A i \in 1 .. Len(c) : c[i] = (s \o t)[i]
  BY <1>6, <1>7 DEF Limits
<1>9. a \o b \in Seq(Data) /\ Len(a \o b) = Len(a) + Len(b)
  <2>1. a \in Seq(Data) /\ b \in Seq(Data)
    BY <1>2, <1>5
  <2> QED BY <2>1
<1>m. /\ Len(a) = (IF Len(s) > n THEN n ELSE Len(s))
      /\ Len(b) = (IF Len(t) > n - Len(a) THEN n - Len(a) ELSE Len(t))
      /\ Len(c) = (IF Len(s) + Len(t) > n THEN n ELSE Len(s) + Len(t))
  BY <1>2, <1>3, <1>5, <1>8
<1>10. /\ Len(a) + Len(b) = Len(c) /\ Len(b) \in Nat
       /\ Len(b) > 0 => Len(a) = Len(s)
       /\ Len(b) <= Len(t)
  <2>1. CASE Len(s) > n
    <3>1. Len(a) = n /\ Len(b) = 0 /\ Len(c) = n
      BY <1>3, <1>m, <2>1
    <3> QED BY <1>3, <3>1
  <2>2. CASE ~(Len(s) > n) /\ Len(s) + Len(t) > n
    <3>1. Len(a) = Len(s) /\ Len(b) = n - Len(s) /\ Len(c) = n
      BY <1>3, <1>m, <2>2
    <3> QED BY <1>3, <2>2, <3>1
  <2>3. CASE ~(Len(s) > n) /\ ~(Len(s) + Len(t) > n)
    <3>1. Len(a) = Len(s) /\ Len(b) = Len(t) /\ Len(c) = Len(s) + Len(t)
      BY <1>3, <1>m, <2>3
    <3> QED BY <1>3, <3>1
  <2> QED BY <2>1, <2>2, <2>3
<1>11. ASSUME NEW i \in 1 .. Len(c) PROVE c[i] = (a \o b)[i]
  <2>1. CASE i \in 1 .. Len(a)
    <3>1. (a \o b)[i] = s[i]
      BY <1>2, <1>5, <2>1
    <3>2. (s \o t)[i] = s[i]
      BY <1>2, <1>3, <2>1
    <3> QED BY <1>8, <3>1, <3>2
  <2>2. CASE i \notin 1 .. Len(a)
    <3>1. /\ Len(a) = Len(s) /\ i - Len(a) \in 1 .. Len(b) /\ i \in Len(s) + 1 .. Len(s) + Len(t)
          /\ i \in 1 .. Len(a) + Len(b)
      BY <1>3, <1>10, <2>2
    <3>2. (a \o b)[i] = b[i - Len(a)]
      BY <1>2, <1>5, <2>2, <3>1
    <3>3. (s \o t)[i] = t[i - Len(s)]
      BY <1>3, <3>1
    <3> QED BY <1>5, <1>8, <3>1, <3>2, <3>3
  <2> QED BY <2>1, <2>2
<1>12. c = a \o b
  BY <1>8, <1>9, <1>10, <1>11, SameSeq
<1> QED BY <1>12 DEF a, b, c, r

\* w is old with d from offset on.
Overwritten(w, old, offset, d) ==
  /\ w \in Seq(Data)
  /\ Len(w) = IF Len(old) > offset + Len(d) THEN Len(old) ELSE offset + Len(d)
  /\ \A n \in 1 .. Len(w) :
       w[n] = IF n \in offset + 1 .. offset + Len(d) THEN d[n - offset] ELSE old[n]

\* A file after a write that succeeds.
LEMMA WrittenIs ==
  ASSUME NEW old \in Seq(Data), NEW d \in Seq(Data), NEW offset \in Nat, offset <= Len(old)
  PROVE  Overwritten(Written(old, offset, d), old, offset, d)
<1> DEFINE m == IF Len(old) > offset + Len(d) THEN Len(old) ELSE offset + Len(d)
           at(n) == IF n \in offset + 1 .. offset + Len(d) THEN d[n - offset] ELSE old[n]
<1>1. m \in Nat /\ Len(old) \in Nat /\ Len(d) \in Nat
  OBVIOUS
<1>2. ASSUME NEW n \in 1 .. m PROVE at(n) \in Data
  <2>1. CASE n \in offset + 1 .. offset + Len(d)
    <3>1. n - offset \in 1 .. Len(d)
      BY <1>1, <2>1
    <3> QED BY <2>1, <3>1
  <2>2. CASE n \notin offset + 1 .. offset + Len(d)
    <3>1. n \in 1 .. Len(old)
      BY <1>1, <2>2
    <3> QED BY <2>2, <3>1
  <2> QED BY <2>1, <2>2
<1>3. Written(old, offset, d) = [n \in 1 .. m |-> at(n)]
  BY DEF Written
<1> HIDE DEF m, at
<1>4. [n \in 1 .. m |-> at(n)] \in Seq(Data) /\ Len([n \in 1 .. m |-> at(n)]) = m
  BY <1>1, <1>2
<1> QED BY <1>1, <1>3, <1>4 DEF m, at, Overwritten

\* Writing at the end of a file appends to it.
LEMMA WrittenAtEnd ==
  ASSUME NEW old \in Seq(Data), NEW d \in Seq(Data)
  PROVE  Written(old, Len(old), d) = old \o d
<1> DEFINE w == Written(old, Len(old), d)
<1>1. Len(old) \in Nat /\ Len(d) \in Nat /\ old \o d \in Seq(Data)
      /\ Len(old \o d) = Len(old) + Len(d)
  OBVIOUS
<1>2. Overwritten(w, old, Len(old), d)
  BY <1>1, WrittenIs
<1> HIDE DEF w
<1>3. /\ w \in Seq(Data) /\ Len(w) = Len(old) + Len(d)
      /\ \A n \in 1 .. Len(w) :
           w[n] = IF n \in Len(old) + 1 .. Len(old) + Len(d) THEN d[n - Len(old)] ELSE old[n]
  BY <1>1, <1>2 DEF Overwritten
<1>4. ASSUME NEW n \in 1 .. Len(w) PROVE w[n] = (old \o d)[n]
  BY <1>1, <1>3
<1> QED BY <1>1, <1>3, <1>4, SameSeq DEF w

\* What a write starts from.
Old(path, truncate) == IF truncate THEN <<>> ELSE Contents(path)
FitsIn(old, offset, d) == offset + Len(d) <= MaxFile /\ offset <= Len(old)

\* What is left of the file when the first k bytes were overwritten.
Torn(old, offset, d, k) == SubSeq(Written(old, offset, LimitedTo(k, d)), 1, Len(old))

\* A file after a write that stopped: nothing before the offset has changed.
LEMMA TornIs ==
  ASSUME NEW old \in Seq(Data), NEW d \in Seq(Data), NEW offset \in Nat, offset <= Len(old),
         NEW k \in Nat
  PROVE  /\ Torn(old, offset, d, k) \in Seq(Data) /\ Len(Torn(old, offset, d, k)) = Len(old)
         /\ \A i \in 1 .. offset : Torn(old, offset, d, k)[i] = old[i]
<1> DEFINE e == LimitedTo(k, d)
           w == Written(old, offset, e)
<1>1. e \in Seq(Data) /\ Len(e) \in Nat
  BY LimitedIs DEF Limits
<1> HIDE DEF e
<1>2. Overwritten(w, old, offset, e)
  BY <1>1, WrittenIs
<1> HIDE DEF w
<1>3. /\ w \in Seq(Data) /\ Len(w) \in Nat /\ Len(old) \in Nat /\ Len(old) <= Len(w)
      /\ \A i \in 1 .. offset : w[i] = old[i]
  <2>1. /\ w \in Seq(Data) /\ Len(w) = IF Len(old) > offset + Len(e) THEN Len(old) ELSE offset + Len(e)
        /\ \A n \in 1 .. Len(w) :
             w[n] = IF n \in offset + 1 .. offset + Len(e) THEN e[n - offset] ELSE old[n]
    BY <1>2 DEF Overwritten
  <2>2. Len(w) \in Nat /\ Len(old) \in Nat /\ Len(old) <= Len(w)
    BY <1>1, <2>1
  <2>3. \A i \in 1 .. offset : i \in 1 .. Len(w) /\ i \notin offset + 1 .. offset + Len(e)
    BY <1>1, <2>2
  <2> QED BY <2>1, <2>2, <2>3
<1>4. /\ SubSeq(w, 1, Len(old)) \in Seq(Data) /\ Len(SubSeq(w, 1, Len(old))) = Len(old)
      /\ \A i \in 1 .. Len(old) : SubSeq(w, 1, Len(old))[i] = w[i]
  BY <1>3
<1> QED BY <1>3, <1>4 DEF Torn, w, e

\* What the shell may rely on after a write, whether it failed or not.
Outcome(w, path, offset, d, truncate) ==
  /\ w.data \in Seq(Data) /\ Len(w.data) <= MaxFile
  /\ w.fault \in {0, 1} /\ faults + w.fault \in 0 .. MaxFaults
  /\ w.ok => /\ w.fault = 0 /\ offset <= Len(Old(path, truncate))
             /\ w.data = Written(Old(path, truncate), offset, d)
  /\ w.fault = 0 /\ FitsIn(Old(path, truncate), offset, d) => w.ok
  /\ ~truncate => \A i \in 1 .. offset : i <= Len(Contents(path)) =>
                    i <= Len(w.data) /\ w.data[i] = Contents(path)[i]

\* The contents of a file fit the largest file.
LEMMA ContentsType ==
  ASSUME PipeTypes, NEW path
  PROVE  Contents(path) \in Seq(Data) /\ Len(Contents(path)) <= MaxFile
BY PipelineAssumption DEF PipeTypes, FileType, Contents, Exists

\* What a write may do to the contents, whether it succeeds or fails.
LEMMA WriteOutcome ==
  ASSUME PipeTypes, NEW path, NEW offset \in Nat, NEW d \in Seq(Data), NEW truncate \in BOOLEAN,
         NEW w \in WriteResults(path, offset, d, truncate)
  PROVE  Outcome(w, path, offset, d, truncate)
<1> DEFINE old == Old(path, truncate)
           was == Contents(path)
           new == Written(old, offset, d)
<1>1. was \in Seq(Data) /\ Len(was) <= MaxFile /\ Len(was) \in Nat
  BY ContentsType
<1>2. /\ old \in Seq(Data) /\ Len(old) <= MaxFile /\ Len(old) \in Nat /\ Len(d) \in Nat
      /\ MaxFile \in Nat /\ faults \in 0 .. MaxFaults /\ MaxFaults \in Nat
      /\ ~truncate => old = was
  BY <1>1, PipelineAssumption DEF Old, PipeTypes, HandlerType
<1>3. \/ FitsIn(old, offset, d) /\ w = [ok |-> TRUE, data |-> new, fault |-> 0]
      \/ ~FitsIn(old, offset, d) /\ w = [ok |-> FALSE, data |-> was, fault |-> 0]
      \/ /\ FitsIn(old, offset, d) /\ faults < MaxFaults
         /\ \E x \in {Torn(old, offset, d, k) : k \in 0 .. Len(d)} \cup {was, new} :
              w = [ok |-> FALSE, data |-> x, fault |-> 1]
  BY DEF WriteResults, FitsIn, Old, Torn
<1>4. ASSUME FitsIn(old, offset, d)
      PROVE  /\ new \in Seq(Data) /\ Len(new) <= MaxFile
             /\ \A i \in 1 .. offset : i <= Len(old) => i <= Len(new) /\ new[i] = old[i]
  <2>1. Overwritten(new, old, offset, d) /\ offset <= Len(old) /\ offset + Len(d) <= MaxFile
    BY <1>2, <1>4, WrittenIs DEF FitsIn
  <2> HIDE DEF new, old
  <2> QED BY <1>2, <2>1 DEF Overwritten
<1> HIDE DEF old, was, new
<1>5. CASE FitsIn(old, offset, d) /\ w = [ok |-> TRUE, data |-> new, fault |-> 0]
  <2>1. w.ok /\ w.data = new /\ w.fault = 0 /\ offset <= Len(old)
    BY <1>5 DEF FitsIn
  <2> QED BY <1>2, <1>4, <1>5, <2>1 DEF Outcome, old, was, new
<1>6. CASE ~FitsIn(old, offset, d) /\ w = [ok |-> FALSE, data |-> was, fault |-> 0]
  <2>1. ~w.ok /\ w.data = was /\ w.fault = 0
    BY <1>6
  <2> QED BY <1>1, <1>2, <1>6, <2>1 DEF Outcome, old, was
<1>7. CASE /\ FitsIn(old, offset, d) /\ faults < MaxFaults
           /\ \E x \in {Torn(old, offset, d, k) : k \in 0 .. Len(d)} \cup {was, new} :
                w = [ok |-> FALSE, data |-> x, fault |-> 1]
  <2>1. PICK x \in {Torn(old, offset, d, k) : k \in 0 .. Len(d)} \cup {was, new} :
          w = [ok |-> FALSE, data |-> x, fault |-> 1]
    BY <1>7
  <2>2. ~w.ok /\ w.data = x /\ w.fault = 1 /\ faults + 1 \in 0 .. MaxFaults
    BY <1>2, <1>7, <2>1
  <2>3. CASE x = was
    BY <1>1, <2>2, <2>3 DEF Outcome, was
  <2>4. CASE x = new
    BY <1>2, <1>4, <1>7, <2>2, <2>4 DEF Outcome, old, was
  <2>5. CASE x \in {Torn(old, offset, d, k) : k \in 0 .. Len(d)}
    <3>1. PICK k \in 0 .. Len(d) : x = Torn(old, offset, d, k)
      BY <2>5
    <3>2. /\ x \in Seq(Data) /\ Len(x) = Len(old)
          /\ \A i \in 1 .. offset : x[i] = old[i]
      <4>1. offset <= Len(old) /\ k \in Nat /\ old \in Seq(Data)
        BY <1>2, <1>7 DEF FitsIn
      <4> QED BY <3>1, <4>1, TornIs
    <3> QED BY <1>2, <2>2, <3>2 DEF Outcome, was
  <2> QED BY <2>1, <2>3, <2>4, <2>5
<1> QED BY <1>3, <1>5, <1>6, <1>7

-----------------------------------------------------------------------------
(* Lines.                                                                  *)

\* One file gets new contents and the others keep theirs.
LEMMA WithKeeps ==
  ASSUME FileType, NEW path, NEW d \in Seq(Data), Len(d) <= MaxFile, files' = With(path, d)
  PROVE  /\ FileType' /\ DOMAIN files' = DOMAIN files \cup {path} /\ files'[path] = d
         /\ \A p \in DOMAIN files \ {path} : files'[p] = files[p]
BY DEF FileType, With

\* The shell is back at its prompt.
LEMMA PromptKeeps ==
  ASSUME FileType', faults' \in 0 .. MaxFaults, Prompt
  PROVE  PipeInv'
<1>1. /\ pc' = "prompt" /\ segments' = <<>> /\ redir' = NoRedirection /\ stage' = 1
      /\ input' = <<>> /\ buffer' = EmptyBuffer /\ writer' = NoWriter /\ args' = <<>>
      /\ off' = 0 /\ size' = 0 /\ out' = <<>> /\ before' = <<>>
  BY DEF Prompt
<1>2. NoRedirection.active = FALSE /\ NoRedirection.append = FALSE
  BY DEF NoRedirection
<1>3. WriterType'
  BY <1>1 DEF WriterType, NoWriter
<1>4. DataType'
  BY <1>1, PipelineAssumption DEF DataType, EmptyBuffer, Room
<1>5. HandlerType'
  BY <1>1, PipelineAssumption, ParseAssumption DEF HandlerType
<1>6. LineType'
  <2>1. redir'.active \in BOOLEAN /\ redir'.append \in BOOLEAN
    BY <1>1, <1>2, Zenon
  <2>2. Len(segments') = 0 /\ 0 \in 0 .. MAX_PIPE_SEGMENTS /\ 1 \in 1 .. MAX_PIPE_SEGMENTS
    BY <1>1, ParseAssumption
  <2> QED BY <1>1, <1>2, <2>1, <2>2 DEF LineType
<1>7. Piped' /\ Reading' /\ Touching' /\ Appends' /\ Target'
  BY <1>1, <1>2 DEF Piped, Reading, Touching, Appends, Target, Opened, Handling
<1>8. Touched'
  BY <1>1 DEF Touched
<1> QED BY <1>3, <1>4, <1>5, <1>6, <1>7, <1>8 DEF PipeInv, PipeTypes

\* The shell waits for a line.
LEMMA PipeInvInit == Init => PipeInv
<1> SUFFICES ASSUME Init PROVE PipeInv
  OBVIOUS
<1>1. NoRedirection.active = FALSE /\ NoRedirection.append = FALSE
  BY DEF NoRedirection
<1>2. FileType
  BY DEF Init, FileType
<1>3. WriterType
  BY DEF Init, WriterType, NoWriter
<1>4. DataType
  BY PipelineAssumption DEF Init, DataType, EmptyBuffer, Room
<1>5. HandlerType
  BY PipelineAssumption, ParseAssumption DEF Init, HandlerType
<1>6. LineType
  <2>1. redir.active \in BOOLEAN /\ redir.append \in BOOLEAN
    BY <1>1, Zenon DEF Init
  <2>2. Len(segments) = 0 /\ 0 \in 0 .. MAX_PIPE_SEGMENTS /\ 1 \in 1 .. MAX_PIPE_SEGMENTS
    BY ParseAssumption DEF Init
  <2> QED BY <1>1, <2>1, <2>2 DEF Init, LineType
<1>7. Piped /\ Reading /\ Touching /\ Appends /\ Target
  BY <1>1 DEF Init, Piped, Reading, Touching, Appends, Target, Opened, Handling
<1>8. Touched
  BY DEF Init, Touched
<1> QED BY <1>2, <1>3, <1>4, <1>5, <1>6, <1>7, <1>8 DEF PipeInv, PipeTypes

\* What a line is parsed into.
LEMMA ParsedType ==
  ASSUME NEW l \in Lines
  PROVE  /\ Len(Parsed(l).segments) \in 0 .. MAX_PIPE_SEGMENTS
         /\ Parsed(l).runs => Len(Parsed(l).segments) > 0
         /\ \A k \in 1 .. Len(Parsed(l).segments) :
              /\ tokenize(Parsed(l).segments[k]) \in Seq(Words)
              /\ Len(tokenize(Parsed(l).segments[k])) \in 1 .. MAX_ARGS
         /\ Parsed(l).redir.active \in BOOLEAN /\ Parsed(l).redir.append \in BOOLEAN
<1>1. /\ Len(Parsed(l).segments) \in 0 .. MAX_PIPE_SEGMENTS
      /\ Parsed(l).runs => Len(Parsed(l).segments) > 0
  BY LinesAssumption
<1>2. ASSUME NEW k \in 1 .. Len(Parsed(l).segments)
      PROVE  /\ tokenize(Parsed(l).segments[k]) \in Seq(Words)
             /\ Len(tokenize(Parsed(l).segments[k])) \in 1 .. MAX_ARGS
  <2> DEFINE a == tokenize(Parsed(l).segments[k])
  <2>1. Len(a) \in 1 .. MAX_ARGS /\ a = [i \in 1 .. Len(a) |-> a[i]]
    BY LinesAssumption
  <2>2. \A i \in 1 .. Len(a) : a[i] \in Words
    BY DEF Words, WordsOf
  <2> HIDE DEF a
  <2>3. Len(a) \in Nat
    BY <2>1, ParseAssumption
  <2>4. [i \in 1 .. Len(a) |-> a[i]] \in Seq(Words)
    BY <2>2, <2>3
  <2> QED BY <2>1, <2>4 DEF a
<1>3. Parsed(l).redir.active \in BOOLEAN /\ Parsed(l).redir.append \in BOOLEAN
  BY DEF Parsed, parse_redirection_from_segment, NoRedirection
<1> QED BY <1>1, <1>2, <1>3

\* A line is parsed and its pipeline begins.
LEMMA SubmitKeeps ==
  ASSUME PipeInv, NEW l \in Lines, Submit(l)
  PROVE  PipeInv'
<1> DEFINE p == Parsed(l)
<1>1. /\ segments' = p.segments /\ redir' = p.redir /\ stage' = 1 /\ input' = <<>>
      /\ pc' = (IF ~p.runs THEN "refused" ELSE IF p.redir.active THEN "open" ELSE "stage")
      /\ writer' = NoWriter /\ buffer' = EmptyBuffer /\ out' = <<>> /\ before' = <<>>
      /\ UNCHANGED <<files, handler, faults>>
  BY DEF Submit
<1>2. FileType'
  BY <1>1 DEF PipeInv, PipeTypes, FileType
<1>3. WriterType'
  BY <1>1 DEF WriterType, NoWriter
<1>4. DataType'
  BY <1>1, PipelineAssumption DEF DataType, EmptyBuffer, Room
<1>5. HandlerType'
  BY <1>1 DEF PipeInv, PipeTypes, HandlerType, handler
<1>6. LineType'
  <2>1. writer'.path = <<>>
    BY <1>1 DEF NoWriter
  <2> QED BY <1>1, <2>1, ParsedType, ParseAssumption DEF LineType, Argv
<1>7. Piped' /\ Reading' /\ Touching' /\ Touched'
  BY <1>1 DEF Piped, Reading, Touching, Touched, Body, Handling
<1>8. ~Opened'
  BY <1>1 DEF Opened, Handling
<1>9. Appends' /\ Target'
  BY <1>8 DEF Appends, Target
<1> QED BY <1>2, <1>3, <1>4, <1>5, <1>6, <1>7, <1>9 DEF PipeInv, PipeTypes

\* What does not change while a line is run.
LEMMA SameLine ==
  ASSUME UNCHANGED <<segments, redir>>
  PROVE  /\ Itself' <=> Itself
         /\ \A k \in 1 .. Len(segments) : tokenize(segments'[k]) = Argv(k)
BY DEF Itself, Argv

\* The redirection's file is made and its writer is set up.
LEMMA OpenKeeps ==
  ASSUME PipeInv, shell_file_writer_init
  PROVE  PipeInv'
<1> USE DEF PipeInv, PipeTypes
<1> DEFINE path == Resolved(redir.path)
<1>1. /\ pc = "open" /\ stage = 1 /\ faults \in 0 .. MaxFaults /\ MaxFaults \in Nat
      /\ faults \in Nat
  BY PipelineAssumption DEF shell_file_writer_init, LineType, HandlerType
<1>2. CASE /\ IF TooLong(redir.path) THEN Succeeds ELSE Fails("touch")
           /\ Prompt /\ UNCHANGED files
  <2>1. faults' \in 0 .. MaxFaults
    BY <1>1, <1>2 DEF Succeeds, Fails
  <2>2. FileType'
    BY <1>2 DEF FileType
  <2> QED BY <1>2, <2>1, <2>2, PromptKeeps
<1>3. CASE /\ files' = With(path, Contents(path)) /\ before' = Contents(path) /\ pc' = "stage"
           /\ UNCHANGED <<line, segments, redir, stage, input, buffer, handler, out>>
           /\ \E o \in Nat :
                /\ writer' = [path |-> path, offset |-> o, truncate_pending |-> ~redir.append,
                              failed |-> FALSE]
                /\ \/ faults' = faults /\ o = (IF redir.append THEN Len(Contents(path)) ELSE 0)
                   \/ "stat" \in Faulty /\ faults' = faults + 1 /\ faults < MaxFaults
  <2>1. PICK o \in Nat :
          /\ writer' = [path |-> path, offset |-> o, truncate_pending |-> ~redir.append,
                        failed |-> FALSE]
          /\ \/ faults' = faults /\ o = (IF redir.append THEN Len(Contents(path)) ELSE 0)
             \/ "stat" \in Faulty /\ faults' = faults + 1 /\ faults < MaxFaults
    BY <1>3
  <2>2. Contents(path) \in Seq(Data) /\ Len(Contents(path)) <= MaxFile
    BY ContentsType
  <2> HIDE DEF path
  <2>3. FileType' /\ path \in DOMAIN files' /\ files'[path] = before' /\ before' \in Seq(Data)
    BY <1>3, <2>2, WithKeeps
  <2>4. /\ WriterType' /\ writer'.path = path /\ writer'.offset = o /\ writer'.failed = FALSE
        /\ writer'.truncate_pending = ~redir.append
    BY <2>1 DEF WriterType, LineType
  <2>5. DataType'
    BY <1>3, <2>3 DEF DataType
  <2>6. HandlerType'
    BY <1>1, <1>3, <2>1 DEF HandlerType, handler
  <2>7. LineType'
    BY <1>1, <1>3 DEF LineType, Argv
  <2>8. Piped' /\ Reading' /\ Touching' /\ Touched'
    BY <1>1, <1>3 DEF Piped, Reading, Touching, Touched, Handling
  <2>9. Appends'
    <3>1. redir.append /\ "stat" \notin Faulty => o = Len(before')
      BY <1>3, <2>1
    <3>2. Len(before') \in Nat
      BY <2>3
    <3>3. writer'.path = Resolved(redir'.path) /\ writer'.path \in DOMAIN files'
      BY <1>3, <2>3, <2>4 DEF path
    <3>4. redir'.append => ~writer'.truncate_pending
      BY <1>3, <2>4
    <3>5. /\ Len(before') <= Len(files'[writer'.path])
          /\ \A i \in 1 .. Len(before') : files'[writer'.path][i] = before'[i]
      BY <2>3, <2>4, <3>2
    <3>6. redir'.append /\ "stat" \notin Faulty => Len(before') <= writer'.offset
      BY <1>3, <2>4, <3>1, <3>2
    <3> QED BY <3>3, <3>4, <3>5, <3>6 DEF Appends
  <2>10. Target'
    <3>1. faults' = 0 => o = Len(Kept')
      BY <1>1, <1>3, <2>1 DEF Kept
    <3> QED BY <1>3, <2>3, <2>4, <3>1 DEF Target
  <2> QED BY <2>3, <2>4, <2>5, <2>6, <2>7, <2>8, <2>9, <2>10
<1>4. Len(Contents(path)) \in Nat
  BY ContentsType
<1> QED
  <2>1. ASSUME ~TooLong(redir.path), files' = With(path, Contents(path)),
               before' = Contents(path), pc' = "stage",
               UNCHANGED <<line, segments, redir, stage, input, buffer, handler, out>>,
               NEW o \in Nat,
               writer' = [path |-> path, offset |-> o, truncate_pending |-> ~redir.append,
                          failed |-> FALSE],
               \/ Succeeds /\ o = (IF redir.append THEN Len(Contents(path)) ELSE 0)
               \/ Fails("stat")
        PROVE  PipeInv'
    BY <1>3, <2>1 DEF Succeeds, Fails
  <2> QED BY <1>2, <1>4, <2>1 DEF shell_file_writer_init

\* A handler starts with nothing written.
LEMMA FindKeeps ==
  ASSUME PipeInv, find_command
  PROVE  PipeInv'
<1> USE DEF PipeInv, PipeTypes
<1> DEFINE argv == Argv(stage)
<1>1. pc = "stage" /\ UNCHANGED <<files, faults>>
  BY DEF find_command
<1>2. CASE Prompt
  <2>1. FileType' /\ faults' \in 0 .. MaxFaults
    BY <1>1 DEF FileType, HandlerType
  <2> QED BY <1>2, <2>1, PromptKeeps
<1>3. CASE /\ argv[1] \in Commands
           /\ pc' = argv[1][1] /\ args' = Tail(argv) /\ off' = 0 /\ size' = 0
           /\ buffer' = EmptyBuffer /\ out' = <<>>
           /\ UNCHANGED <<line, segments, redir, stage, input, writer, before>>
  <2>1. argv \in Seq(Words) /\ Len(argv) \in 1 .. MAX_ARGS /\ MAX_ARGS \in Nat
    BY <1>1, ParseAssumption DEF LineType
  <2>2. (argv[1] = <<"c">> /\ pc' = "c") \/ (argv[1] = <<"t">> /\ pc' = "t")
        \/ (argv[1] = <<"x">> /\ pc' = "x")
    BY <1>3 DEF Commands
  <2>s. UNCHANGED <<segments, redir, stage>>
    BY <1>3
  <2>3. argv' = argv /\ (Itself' <=> Itself) /\ (has_next' <=> has_next) /\ Handling' /\ Kept' = Kept
    <3>1. (Itself' <=> Itself) /\ argv' = argv
      BY <2>s, SameLine DEF Argv
    <3> QED BY <1>3, <2>2, <3>1 DEF has_next, Handling, Kept
  <2> HIDE DEF argv
  <2>4. /\ Tail(argv) \in Seq(Words) /\ Len(Tail(argv)) = Len(argv) - 1
        /\ \A j \in 1 .. Len(argv) - 1 : Tail(argv)[j] = argv[j + 1]
    BY <2>1
  <2>5. FileType' /\ WriterType'
    BY <1>1, <1>3 DEF FileType, WriterType
  <2>6. DataType'
    BY <1>3, PipelineAssumption DEF DataType, EmptyBuffer, Room
  <2>7. HandlerType'
    BY <1>1, <1>3, <2>1, <2>4, PipelineAssumption DEF HandlerType
  <2>8. LineType'
    BY <1>1, <1>3, <2>2, <2>3 DEF LineType, Argv
  <2>9. Piped'
    <3>1. Room \in Nat
      BY PipelineAssumption DEF Room
    <3>2. LimitedTo(Room, <<>>) = <<>>
      <4>1. <<>> \in Seq(Data) /\ Len(<<>>) = 0
        OBVIOUS
      <4>2. Limits(LimitedTo(Room, <<>>), Room, <<>>)
        BY <3>1, <4>1, LimitedIs
      <4>3. LimitedTo(Room, <<>>) \in Seq(Data) /\ Len(LimitedTo(Room, <<>>)) = 0
        BY <3>1, <4>1, <4>2 DEF Limits
      <4> QED BY <4>3
    <3> QED BY <1>3, <2>2, <3>1, <3>2 DEF Piped, EmptyBuffer
  <2>10. Touching'
    <3>1. pc' \in {"t", "touch_error"} => argv[1] = <<"t">>
      BY <2>2
    <3>2. \A j \in 1 .. Len(args') : j + 1 \in 2 .. Len(argv) /\ args'[j] = argv[j + 1]
      BY <1>3, <2>1, <2>4
    <3>3. argv' = Argv(stage)'
      BY DEF argv
    <3> QED BY <2>3, <3>1, <3>2, <3>3 DEF Touching
  <2>r. Reading'
    BY <2>2 DEF Reading
  <2>11. Appends'
    BY <1>1, <1>3, <2>3 DEF Appends, Opened
  <2>12. Target'
    <3> SUFFICES ASSUME Opened', faults' = 0, ~writer'.failed, ~Itself' PROVE Target'
      BY DEF Target
    <3>1. Opened /\ faults = 0 /\ ~writer.failed /\ ~Itself
      BY <1>1, <1>3, <2>3 DEF Opened
    <3>2. /\ files[writer.path] = before /\ writer.offset = Len(Kept)
          /\ writer.truncate_pending = ~redir.append
      BY <1>1, <3>1 DEF Target
    <3>3. Kept \in Seq(Data) /\ Kept \o <<>> = Kept /\ Len(Kept) \in Nat
      BY DEF Kept, DataType
    <3>4. writer.truncate_pending => writer.offset = 0 /\ ~redir.append
      BY <3>2 DEF Kept
    <3>5. ~writer.truncate_pending => files[writer.path] = Kept
      BY <3>2 DEF Kept, LineType
    <3>6. pc' # "stage" /\ pc' # "done"
      BY <2>2
    <3>7. files' = files /\ writer' = writer /\ before' = before /\ redir' = redir /\ out' = <<>>
      BY <1>1, <1>3
    <3> QED BY <2>3, <3>2, <3>3, <3>4, <3>5, <3>6, <3>7 DEF Target
  <2>13. Touched'
    <3> SUFFICES ASSUME Body' PROVE Touched'
      BY DEF Touched
    <3>1. argv[1] = <<"t">> /\ Len(argv) = 2
      BY <2>3 DEF Body, argv
    <3>2. pc' = "t"
      BY <2>2, <3>1
    <3>3. Tail(argv) = <<argv[2]>>
      <4>1. Tail(argv) \in Seq(Words) /\ Len(Tail(argv)) = 1 /\ Tail(argv)[1] = argv[2]
        BY <2>4, <3>1
      <4> QED BY <4>1, Single
    <3>4. args' = <<Argv(stage)'[2]>>
      BY <1>3, <2>3, <3>3 DEF argv
    <3> QED BY <3>2, <3>4 DEF Touched
  <2> QED BY <2>5, <2>6, <2>7, <2>8, <2>9, <2>10, <2>r, <2>11, <2>12, <2>13
<1> QED BY <1>2, <1>3 DEF find_command, Argv

-----------------------------------------------------------------------------
(* What handlers do.                                                       *)

\* A step of a handler that writes nothing, and fails if it is the one that
\* makes the input the body of a file.
LEMMA SilentKeeps ==
  ASSUME PipeInv, Handling, Running, Silent, UNCHANGED files, Body => faults' # 0,
         HandlerType', faults <= faults', Reading', Touching', Handling' \/ pc' = "poll"
  PROVE  PipeInv'
<1> USE DEF PipeInv, PipeTypes
<1>1. UNCHANGED <<files, line, segments, redir, stage, input, before, out, buffer, writer>>
  BY DEF Running, Silent
<1>2. /\ Argv(stage)' = Argv(stage) /\ (Itself' <=> Itself) /\ (has_next' <=> has_next)
      /\ Kept' = Kept /\ (Opened' <=> Opened)
  <2>1. (Itself' <=> Itself) /\ Argv(stage)' = Argv(stage)
    BY <1>1, SameLine DEF Argv
  <2> QED BY <1>1, <2>1 DEF has_next, Kept, Opened
<1>3. faults' = 0 => faults = 0
  BY PipelineAssumption DEF HandlerType
<1>4. pc # "stage" /\ pc' \notin {"stage", "done", "open", "prompt", "refused"}
  BY DEF Handling
<1>5. FileType' /\ WriterType' /\ DataType'
  BY <1>1 DEF FileType, WriterType, DataType
<1>6. LineType'
  BY <1>1, <1>4 DEF LineType, Argv, Handling
<1>7. Piped'
  BY <1>1, <1>2, <1>4 DEF Piped
<1>8. Appends'
  BY <1>1, <1>2 DEF Appends
<1>9. Target'
  BY <1>1, <1>2, <1>3, <1>4 DEF Target, Handling
<1>10. Touched'
  BY <1>1, <1>2, <1>3 DEF Touched, Body
<1> QED BY <1>5, <1>6, <1>7, <1>8, <1>9, <1>10

\* While touch makes its file the body, nothing else runs.
LEMMA NotBody ==
  ASSUME PipeInv, pc \in {"x", "c", "cat", "cat_error", "touch_error"}
  PROVE  ~Body
BY DEF PipeInv, Touched

\* What is written to the file of the redirection.
LEMMA EmitKeeps ==
  ASSUME PipeInv, Handling, ~has_next, redir.active, Running,
         NEW d \in Seq(Data), out' = out \o d, shell_file_writer_emit(d), Handling' \/ pc' = "poll"
  PROVE  /\ FileType' /\ WriterType' /\ faults' \in 0 .. MaxFaults /\ Appends' /\ Target'
         /\ DOMAIN files \subseteq DOMAIN files'
<1> USE DEF PipeInv, PipeTypes
<1>1. UNCHANGED <<line, segments, redir, stage, input, before>>
  BY DEF Running
<1>2. (Itself' <=> Itself) /\ (has_next' <=> has_next) /\ Kept' = Kept /\ Opened /\ Opened'
  BY <1>1, SameLine DEF has_next, Kept, Opened
<1>3. /\ writer.path = Resolved(redir.path) /\ writer.path \in DOMAIN files
      /\ Contents(writer.path) = files[writer.path] /\ files[writer.path] \in Seq(Data)
  BY <1>2 DEF Appends, Contents, Exists, FileType
<1>4. /\ writer.offset \in Nat /\ writer.truncate_pending \in BOOLEAN /\ writer.failed \in BOOLEAN
      /\ out \in Seq(Data) /\ before \in Seq(Data) /\ Kept \in Seq(Data)
      /\ faults \in 0 .. MaxFaults /\ MaxFaults \in Nat
  BY PipelineAssumption DEF WriterType, DataType, HandlerType, Kept
<1>5. pc # "stage" /\ pc' # "stage" /\ pc' # "done"
  BY DEF Handling
<1>6. CASE writer.failed
  <2>1. UNCHANGED <<files, writer, faults>>
    BY <1>6 DEF shell_file_writer_emit
  <2>2. FileType' /\ WriterType' /\ faults' \in 0 .. MaxFaults
    BY <1>4, <2>1 DEF FileType, WriterType
  <2>3. Appends'
    BY <1>1, <1>2, <2>1 DEF Appends
  <2>4. Target'
    BY <1>6, <2>1 DEF Target
  <2> QED BY <2>1, <2>2, <2>3, <2>4
<1>7. CASE ~writer.failed
  <2>1. PICK w \in WriteResults(writer.path, writer.offset, d, writer.truncate_pending) :
          /\ files' = With(writer.path, w.data)
          /\ faults' = faults + w.fault
          /\ writer' = IF w.ok THEN [writer EXCEPT !.truncate_pending = FALSE,
                                                   !.offset = @ + Len(d)]
                       ELSE [writer EXCEPT !.failed = TRUE]
    BY <1>7 DEF shell_file_writer_emit
  <2>2. Outcome(w, writer.path, writer.offset, d, writer.truncate_pending)
    BY <1>4, WriteOutcome
  <2>3. w.data \in Seq(Data) /\ Len(w.data) <= MaxFile /\ w.fault \in {0, 1}
        /\ faults + w.fault \in 0 .. MaxFaults
    BY <2>2 DEF Outcome
  <2>4. /\ FileType' /\ DOMAIN files' = DOMAIN files \cup {writer.path}
        /\ files'[writer.path] = w.data
    BY <2>1, <2>3, WithKeeps
  <2>5. Len(d) \in Nat /\ writer.offset + Len(d) \in Nat
    BY <1>4
  <2>6. /\ writer'.path = writer.path
        /\ w.ok => /\ writer'.offset = writer.offset + Len(d)
                   /\ writer'.truncate_pending = FALSE /\ writer'.failed = writer.failed
        /\ ~w.ok => /\ writer'.offset = writer.offset /\ writer'.failed = TRUE
                    /\ writer'.truncate_pending = writer.truncate_pending
        /\ WriterType'
    <3>1. writer = [path |-> writer.path, offset |-> writer.offset,
                    truncate_pending |-> writer.truncate_pending, failed |-> writer.failed]
      BY DEF WriterType
    <3>2. CASE w.ok
      <4>1. writer' = [path |-> writer.path, offset |-> writer.offset + Len(d),
                       truncate_pending |-> FALSE, failed |-> writer.failed]
        BY <2>1, <3>1, <3>2
      <4> QED BY <1>4, <2>5, <3>2, <4>1 DEF WriterType
    <3>3. CASE ~w.ok
      <4>1. writer' = [path |-> writer.path, offset |-> writer.offset,
                       truncate_pending |-> writer.truncate_pending, failed |-> TRUE]
        BY <2>1, <3>1, <3>3
      <4> QED BY <1>4, <3>3, <4>1 DEF WriterType
    <3> QED BY <3>2, <3>3
  <2>7. Appends'
    <3>1. writer'.path = Resolved(redir'.path) /\ writer'.path \in DOMAIN files'
      BY <1>1, <1>3, <2>4, <2>6
    <3>2. ASSUME redir.append, ~Itself, "stat" \notin Faulty
          PROVE  /\ ~writer'.truncate_pending /\ Len(before) <= writer'.offset
                 /\ Len(before) <= Len(files'[writer'.path])
                 /\ \A i \in 1 .. Len(before) : files'[writer'.path][i] = before[i]
      <4>1. /\ ~writer.truncate_pending /\ Len(before) <= writer.offset
            /\ Len(before) <= Len(files[writer.path])
            /\ \A i \in 1 .. Len(before) : files[writer.path][i] = before[i]
        BY <1>2, <3>2 DEF Appends
      <4>2. ~writer'.truncate_pending /\ Len(before) <= writer'.offset
        BY <1>4, <2>5, <2>6, <4>1
      <4>3. \A i \in 1 .. writer.offset : i <= Len(files[writer.path]) =>
              i <= Len(w.data) /\ w.data[i] = files[writer.path][i]
        BY <1>3, <2>2, <4>1 DEF Outcome
      <4>4. Len(before) \in Nat /\ Len(files[writer.path]) \in Nat /\ Len(w.data) \in Nat
        BY <1>3, <1>4, <2>3
      <4>5. \A i \in 1 .. Len(before) : i \in 1 .. writer.offset /\ i <= Len(files[writer.path])
        BY <1>4, <4>1, <4>4
      <4>6. \A i \in 1 .. Len(before) : i <= Len(w.data) /\ w.data[i] = before[i]
        BY <4>1, <4>3, <4>5
      <4>7. Len(before) <= Len(w.data)
        BY <4>4, <4>6
      <4> QED BY <2>4, <2>6, <4>2, <4>6, <4>7
    <3> QED BY <1>1, <1>2, <3>1, <3>2 DEF Appends
  <2>8. Target'
    <3> SUFFICES ASSUME faults' = 0, ~writer'.failed, ~Itself
                 PROVE  /\ ~writer'.truncate_pending /\ files'[writer'.path] = Kept \o (out \o d)
                        /\ writer'.offset = Len(Kept) + Len(out \o d)
      BY <1>2, <1>5 DEF Target
    <3>1. w.ok /\ faults = 0 /\ w.fault = 0
      BY <1>4, <2>1, <2>3, <2>6
    <3>2. /\ w.data = Written(Old(writer.path, writer.truncate_pending), writer.offset, d)
          /\ writer.offset <= Len(Old(writer.path, writer.truncate_pending))
      BY <2>2, <3>1 DEF Outcome
    <3>3. /\ ~writer'.truncate_pending /\ writer'.offset = writer.offset + Len(d)
          /\ files'[writer'.path] = w.data
      BY <2>4, <2>6, <3>1
    <3>4. Len(out \o d) = Len(out) + Len(d) /\ Len(out) \in Nat /\ Len(Kept) \in Nat
      BY <1>4
    <3>5. CASE writer.truncate_pending
      <4>1. out = <<>> /\ writer.offset = 0 /\ ~redir.append
        BY <1>2, <1>5, <1>7, <3>1, <3>5 DEF Target
      <4>2. Kept = <<>> /\ Old(writer.path, writer.truncate_pending) = <<>>
        BY <3>5, <4>1 DEF Kept, Old
      <4>3. <<>> \in Seq(Data) /\ Len(<<>>) = 0
        OBVIOUS
      <4>4. w.data = <<>> \o d
        BY <3>2, <4>1, <4>2, <4>3, WrittenAtEnd
      <4>5. <<>> \o d = d /\ <<>> \o (<<>> \o d) = d
        OBVIOUS
      <4>6. w.data = Kept \o (out \o d)
        BY <4>1, <4>2, <4>4, <4>5
      <4>7. writer'.offset = Len(Kept) + Len(out \o d)
        BY <2>5, <3>3, <3>4, <4>1, <4>2, <4>3
      <4> QED BY <3>3, <4>6, <4>7
    <3>6. CASE ~writer.truncate_pending
      <4>1. files[writer.path] = Kept \o out /\ writer.offset = Len(Kept) + Len(out)
        BY <1>2, <1>5, <1>7, <3>1, <3>6 DEF Target
      <4>2. Len(Kept \o out) = Len(Kept) + Len(out) /\ Kept \o out \in Seq(Data)
        BY <1>4
      <4>3. Old(writer.path, writer.truncate_pending) = Kept \o out
        BY <1>3, <3>6, <4>1 DEF Old
      <4>4. w.data = (Kept \o out) \o d
        BY <3>2, <4>1, <4>2, <4>3, WrittenAtEnd
      <4>5. (Kept \o out) \o d = Kept \o (out \o d)
        BY <1>4, Associative
      <4>6. writer'.offset = Len(Kept) + Len(out \o d)
        BY <2>5, <3>3, <3>4, <4>1
      <4> QED BY <3>3, <4>4, <4>5, <4>6
    <3> QED BY <1>4, <3>5, <3>6
  <2> QED BY <2>3, <2>4, <2>6, <2>7, <2>8, <2>1
<1> QED BY <1>4, <1>6, <1>7

\* A write of a handler: to the buffer, to the file, or to the screen.
LEMMA WritingKeeps ==
  ASSUME PipeInv, pc \in {"x", "c", "cat", "cat_error", "touch_error"}, Running,
         NEW d \in Seq(Data), shell_io_write(d),
         args' \in Seq(Words), Len(args') < MAX_ARGS, off' \in Nat, size' \in 0 .. MaxFile,
         pc' = "cat" => pc = "cat" /\ args' = args, Touching', Handling' \/ pc' = "poll"
  PROVE  PipeInv'
<1> USE DEF PipeInv, PipeTypes
<1>1. UNCHANGED <<line, segments, redir, stage, input, before>> /\ out' = out \o d
  BY DEF Running, shell_io_write
<1>2. /\ Argv(stage)' = Argv(stage) /\ (Itself' <=> Itself) /\ (has_next' <=> has_next)
      /\ Kept' = Kept
  <2>1. (Itself' <=> Itself) /\ Argv(stage)' = Argv(stage)
    BY <1>1, SameLine DEF Argv
  <2> QED BY <1>1, <2>1 DEF has_next, Kept
<1>3. Handling /\ pc # "stage" /\ pc' \notin {"stage", "done", "open", "prompt", "refused"}
  BY DEF Handling
<1>4. out \in Seq(Data) /\ out' \in Seq(Data) /\ Room \in Nat /\ Len(d) \in Nat
      /\ faults \in 0 .. MaxFaults /\ Len(out) \in Nat /\ Len(out') = Len(out) + Len(d)
  BY <1>1, PipelineAssumption DEF DataType, HandlerType, Room
<1>5. LineType'
  BY <1>1, <1>3 DEF LineType, Argv, Handling
<1>6. /\ FileType' /\ WriterType' /\ faults' \in 0 .. MaxFaults /\ Appends' /\ Target'
      /\ faults' = 0 => faults = 0
      /\ DOMAIN files \subseteq DOMAIN files'
  <2>1. CASE has_next \/ ~redir.active
    <3>1. UNCHANGED <<files, writer, faults>>
      BY <2>1 DEF shell_io_write
    <3>2. FileType' /\ WriterType' /\ faults' \in 0 .. MaxFaults
      BY <1>4, <3>1 DEF FileType, WriterType
    <3>3. Appends'
      BY <1>1, <1>2, <1>3, <3>1 DEF Appends, Opened
    <3>4. Target'
      BY <1>1, <1>2, <1>3, <2>1, <3>1 DEF Target, Opened
    <3> QED BY <3>1, <3>2, <3>3, <3>4
  <2>2. CASE ~has_next /\ redir.active
    <3>1. shell_file_writer_emit(d)
      BY <2>2 DEF shell_io_write
    <3>2. /\ FileType' /\ WriterType' /\ faults' \in 0 .. MaxFaults /\ Appends' /\ Target'
          /\ DOMAIN files \subseteq DOMAIN files'
      BY <1>1, <1>3, <2>2, <3>1, EmitKeeps
    <3>3. faults' = 0 => faults = 0
      <4>1. CASE writer.failed
        BY <3>1, <4>1 DEF shell_file_writer_emit
      <4>2. CASE ~writer.failed
        <5>1. PICK w \in WriteResults(writer.path, writer.offset, d, writer.truncate_pending) :
                faults' = faults + w.fault
          BY <3>1, <4>2 DEF shell_file_writer_emit
        <5>2. Outcome(w, writer.path, writer.offset, d, writer.truncate_pending)
          BY WriteOutcome DEF WriterType
        <5>3. w.fault \in {0, 1}
          BY <5>2 DEF Outcome
        <5> QED BY <1>4, <5>1, <5>3, PipelineAssumption
      <4> QED BY <4>1, <4>2
    <3> QED BY <3>2, <3>3
  <2> QED BY <2>1, <2>2
<1>7. HandlerType'
  BY <1>6 DEF HandlerType
<1>8. DataType' /\ Piped'
  <2>1. CASE has_next
    <3> DEFINE room == Room - Len(buffer.data)
               more == LimitedTo(room, d)
    <3>1. /\ buffer.data = LimitedTo(Room, out) /\ (buffer.overflowed <=> Len(out) > Room)
          /\ buffer.data \in Seq(Data) /\ Len(buffer.data) <= Room /\ buffer.overflowed \in BOOLEAN
      BY <1>3, <2>1 DEF Piped, DataType
    <3>2. Len(buffer.data) = (IF Len(out) > Room THEN Room ELSE Len(out))
      BY <1>4, <3>1, LimitedIs DEF Limits
    <3>3. buffer' = [data |-> buffer.data \o more, overflowed |-> buffer.overflowed \/ Len(d) > room]
      BY <2>1 DEF shell_io_write, pipe_buffer_writer, Room
    <3>4. buffer'.data = LimitedTo(Room, out')
      <4>1. LimitedTo(Room, out \o d) =
              LimitedTo(Room, out) \o LimitedTo(Room - Len(LimitedTo(Room, out)), d)
        BY <1>4, LimitedAppends
      <4>2. LimitedTo(Room, out') = buffer.data \o LimitedTo(Room - Len(buffer.data), d)
        BY <1>1, <3>1, <4>1
      <4> QED BY <3>3, <4>2
    <3>5. buffer'.data \in Seq(Data) /\ Len(buffer'.data) <= Room
      <4>1. Limits(buffer'.data, Room, out')
        BY <1>4, <3>4, LimitedIs
      <4> QED BY <1>4, <4>1 DEF Limits
    <3>6. buffer'.overflowed <=> Len(out') > Room
      <4>1. buffer'.overflowed <=> (Len(out) > Room \/ Len(d) > Room - Len(buffer.data))
        BY <3>1, <3>3
      <4>2. CASE Len(out) > Room
        BY <1>4, <4>1, <4>2
      <4>3. CASE ~(Len(out) > Room)
        <5>1. Len(buffer.data) = Len(out)
          BY <3>2, <4>3
        <5> QED BY <1>4, <4>1, <4>3, <5>1
      <4> QED BY <4>2, <4>3
    <3>7. buffer' \in [data : Seq(Data), overflowed : BOOLEAN]
      <4>1. (buffer.overflowed \/ Len(d) > room) \in BOOLEAN
        OBVIOUS
      <4>2. buffer.data \o more \in Seq(Data)
        BY <3>3, <3>5
      <4> QED BY <3>3, <4>1, <4>2
    <3>8. DataType'
      BY <1>1, <1>4, <3>5, <3>7 DEF DataType
    <3> QED BY <1>3, <3>4, <3>6, <3>8 DEF Piped
  <2>2. CASE ~has_next
    <3>1. buffer' = buffer
      BY <2>2 DEF shell_io_write
    <3> QED BY <1>1, <1>2, <1>3, <1>4, <2>2, <3>1 DEF DataType, Piped
  <2> QED BY <2>1, <2>2
<1>9. Touched'
  <2>1. ~Body
    BY NotBody
  <2> QED BY <1>1, <1>2, <1>6, <2>1 DEF Touched, Body
<1>10. Reading'
  BY <1>6 DEF Reading
<1> QED BY <1>5, <1>6, <1>7, <1>8, <1>9, <1>10

\* What a handler does next with its paths.
LEMMA PathsType ==
  ASSUME PipeInv
  PROVE  /\ Rest \in Seq(Words) /\ Len(Rest) < MAX_ARGS
         /\ \A j \in 1 .. Len(Rest) : \E i \in 1 .. Len(args) : Rest[j] = args[i]
<1>1. args \in Seq(Words) /\ Len(args) < MAX_ARGS /\ MAX_ARGS \in Nat
  BY ParseAssumption DEF PipeInv, PipeTypes, HandlerType
<1>2. CASE args = <<>>
  BY <1>1, <1>2 DEF Rest
<1>3. CASE args # <<>>
  <2>1. /\ Tail(args) \in Seq(Words) /\ Len(Tail(args)) = Len(args) - 1
        /\ \A j \in 1 .. Len(args) - 1 : Tail(args)[j] = args[j + 1]
    BY <1>1, <1>3
  <2>2. Rest = Tail(args) /\ Len(args) \in Nat
    BY <1>1, <1>3 DEF Rest
  <2>3. \A j \in 1 .. Len(args) - 1 : j + 1 \in 1 .. Len(args)
    BY <2>2
  <2> QED BY <1>1, <2>1, <2>2, <2>3
<1> QED BY <1>2, <1>3

\* An error message is text.
LEMMA ErrorType == Error \in Seq(Data)
<1>1. "e" \in Data
  BY DEF Data
<1> QED BY <1>1 DEF Error

\* echo and printf write their text.
LEMMA PrintKeeps ==
  ASSUME PipeInv, PrintHandler
  PROVE  PipeInv'
<1>1. /\ pc = "x" /\ Running /\ UNCHANGED <<args, size>> /\ Handling /\ pc' \in {"x", "poll"}
      /\ Touching' /\ Reading' /\ (Handling' \/ pc' = "poll")
  BY DEF PrintHandler, Handling, Touching, Reading
<1>2. HandlerType /\ ~Body /\ off \in Nat
  BY <1>1, NotBody DEF PipeInv, PipeTypes, HandlerType
<1>3. CASE pc' = "poll" /\ UNCHANGED <<files, off, faults>> /\ Silent
  <2>1. HandlerType' /\ faults <= faults'
    BY <1>1, <1>2, <1>3, PipelineAssumption DEF HandlerType
  <2> QED BY <1>1, <1>2, <1>3, <2>1, SilentKeeps
<1>4. ASSUME off' = off + 1, NEW d \in Chunks, shell_io_write(d) PROVE PipeInv'
  <2>1. d \in Seq(Data)
    BY PipelineAssumption DEF Data
  <2>2. args' \in Seq(Words) /\ Len(args') < MAX_ARGS /\ off' \in Nat /\ size' \in 0 .. MaxFile
    BY <1>1, <1>2, <1>4 DEF HandlerType
  <2> QED BY <1>1, <1>4, <2>1, <2>2, WritingKeeps
<1> QED BY <1>3, <1>4 DEF PrintHandler

\* cat without arguments copies its input.
LEMMA CatInputKeeps ==
  ASSUME PipeInv, CatInput
  PROVE  PipeInv'
<1>1. /\ pc = "c" /\ Running /\ pc' = "poll" /\ UNCHANGED <<args, off, size>> /\ Touching'
      /\ shell_io_write(IF input # <<>> THEN input ELSE Error)
  BY DEF CatInput, Touching, handler
<1>2. (IF input # <<>> THEN input ELSE Error) \in Seq(Data)
  <2>1. Error \in Seq(Data) /\ input \in Seq(Data)
    BY ErrorType DEF PipeInv, PipeTypes, DataType
  <2> QED BY <2>1
<1>3. args' \in Seq(Words) /\ Len(args') < MAX_ARGS /\ off' \in Nat /\ size' \in 0 .. MaxFile
  BY <1>1 DEF PipeInv, PipeTypes, HandlerType
<1> QED BY <1>1, <1>2, <1>3, WritingKeeps

\* cat opens the next file, or reports it.
LEMMA CatOpensKeeps ==
  ASSUME PipeInv, CatOpens
  PROVE  PipeInv'
<1> DEFINE path == Resolved(args[1])
<1>1. /\ pc = "c" /\ Running /\ Silent /\ UNCHANGED <<files, args>> /\ Handling
      /\ pc' \in {"cat", "cat_error"} /\ Touching' /\ Handling'
  BY DEF CatOpens, Touching, Handling, handler
<1>2. HandlerType /\ ~Body /\ FileType
  BY <1>1, NotBody DEF PipeInv, PipeTypes
<1>3. faults <= faults' /\ faults' \in 0 .. MaxFaults
  BY <1>2, PipelineAssumption DEF CatOpens, Succeeds, Fails, HandlerType
<1>4. off' \in Nat /\ size' \in 0 .. MaxFile
  <2>1. CASE Exists(path) /\ off' = 0 /\ size' = Len(files[path])
    BY <1>2, <2>1, PipelineAssumption DEF FileType, Exists
  <2>2. CASE UNCHANGED handler
    BY <1>2, <2>2 DEF HandlerType, handler
  <2> QED BY <2>1, <2>2 DEF CatOpens
<1>5. HandlerType'
  BY <1>1, <1>2, <1>3, <1>4 DEF HandlerType
<1>6. Reading'
  <2>1. CASE args # <<>> /\ Exists(path)
    BY <1>1, <2>1 DEF Reading, Exists
  <2>2. CASE pc' = "cat_error"
    BY <2>2 DEF Reading
  <2> QED BY <2>1, <2>2 DEF CatOpens
<1> QED BY <1>1, <1>2, <1>3, <1>5, <1>6, SilentKeeps

\* A message is written and the next argument is next.
LEMMA ErrorKeeps ==
  ASSUME PipeInv, HandlerError
  PROVE  PipeInv'
<1>1. /\ pc \in {"cat_error", "touch_error"} /\ Running /\ shell_io_write(Error)
      /\ args' = Rest /\ off' = 0 /\ size' = 0
      /\ pc' = (IF Rest = <<>> THEN "poll" ELSE IF pc = "cat_error" THEN "c" ELSE "t")
  BY DEF HandlerError, NextPath
<1>2. Handling' \/ pc' = "poll"
  BY <1>1 DEF Handling
<1>3. Touching'
  <2> SUFFICES ASSUME pc' \in {"t", "touch_error"} PROVE Touching'
    BY DEF Touching
  <2>1. pc = "touch_error" /\ Argv(stage)' = Argv(stage)
    BY <1>1 DEF Running, Argv
  <2>2. /\ Argv(stage)[1] = <<"t">>
        /\ \A j \in 1 .. Len(args) : \E i \in 2 .. Len(Argv(stage)) : args[j] = Argv(stage)[i]
    BY <2>1 DEF PipeInv, Touching
  <2>3. \A j \in 1 .. Len(Rest) : \E i \in 2 .. Len(Argv(stage)) : Rest[j] = Argv(stage)[i]
    BY <2>2, PathsType
  <2> QED BY <1>1, <2>1, <2>2, <2>3 DEF Touching
<1>4. Error \in Seq(Data)
  BY ErrorType
<1>5. args' \in Seq(Words) /\ Len(args') < MAX_ARGS /\ off' \in Nat /\ size' \in 0 .. MaxFile
  BY <1>1, PathsType, PipelineAssumption
<1> QED BY <1>1, <1>2, <1>3, <1>4, <1>5, WritingKeeps

\* cat reads a buffer and writes it.
LEMMA CatReadsKeeps ==
  ASSUME PipeInv, CatReads
  PROVE  PipeInv'
<1> DEFINE text == files[Resolved(args[1])]
           len == IF size - off > CAT_BUFFER_SIZE THEN CAT_BUFFER_SIZE ELSE size - off
           bytes == IF off >= Len(text) THEN <<>>
                    ELSE LimitedTo(len, SubSeq(text, off + 1, Len(text)))
<1>1. pc = "cat" /\ Running /\ Handling /\ HandlerType /\ ~Body /\ args # <<>>
  BY NotBody DEF CatReads, Handling, PipeInv, PipeTypes, Reading
<1>2. CASE pc' \in {"c", "poll"} /\ args' = Rest /\ off' = 0 /\ size' = 0
           /\ UNCHANGED <<files, faults>> /\ Silent
  <2>1. HandlerType' /\ faults <= faults'
    BY <1>1, <1>2, PathsType, PipelineAssumption DEF HandlerType
  <2>2. Reading' /\ Touching' /\ (Handling' \/ pc' = "poll")
    BY <1>2 DEF Reading, Touching, Handling
  <2> QED BY <1>1, <1>2, <2>1, <2>2, SilentKeeps
<1>3. CASE Fails("read") /\ pc' = "cat_error" /\ UNCHANGED <<files, args, off, size>> /\ Silent
  <2>1. HandlerType' /\ faults <= faults'
    BY <1>1, <1>3, PipelineAssumption DEF HandlerType, Fails
  <2>2. Reading' /\ Touching' /\ Handling'
    BY <1>3 DEF Reading, Touching, Handling
  <2> QED BY <1>1, <1>3, <2>1, <2>2, SilentKeeps
<1>4. CASE /\ off # size /\ bytes # <<>> /\ shell_io_write(bytes) /\ off' = off + Len(bytes)
           /\ UNCHANGED <<pc, args, size>>
  <2>1. text \in Seq(Data) /\ off \in Nat /\ size \in Nat
    BY <1>1, PipelineAssumption DEF PipeInv, PipeTypes, Reading, FileType, HandlerType
  <2> HIDE DEF text
  <2>2. bytes \in Seq(Data) /\ Len(bytes) \in Nat
    <3>1. CASE off >= Len(text)
      BY <3>1
    <3>2. CASE ~(off >= Len(text))
      <4>1. SubSeq(text, off + 1, Len(text)) \in Seq(Data)
        BY <2>1, <3>2
      <4>2. CASE len \in Nat
        <5>1. Limits(bytes, len, SubSeq(text, off + 1, Len(text)))
          BY <3>2, <4>1, <4>2, LimitedIs
        <5> QED BY <5>1 DEF Limits
      <4>3. CASE len \notin Nat
        <5>1. len \in Int /\ len < 0
          BY <2>1, <4>3, PipelineAssumption
        <5> HIDE DEF len
        <5>2. Len(SubSeq(text, off + 1, Len(text))) \in Nat
          BY <4>1
        <5>3. bytes = SubSeq(SubSeq(text, off + 1, Len(text)), 1, len)
          <6> DEFINE rest == SubSeq(text, off + 1, Len(text))
          <6>1. bytes = LimitedTo(len, rest)
            BY <3>2
          <6>n. Len(rest) \in Nat
            BY <5>2
          <6> HIDE DEF rest
          <6>2. Len(rest) > len
            BY <5>1, <6>n
          <6>3. LimitedTo(len, rest) = SubSeq(rest, 1, len)
            BY <6>2 DEF LimitedTo
          <6> QED BY <6>1, <6>3 DEF rest
        <5>4. bytes \in Seq(Data)
          BY <4>1, <5>1, <5>3
        <5> QED BY <5>4
      <4> QED BY <4>2, <4>3
    <3> QED BY <3>1, <3>2
  <2> HIDE DEF bytes
  <2>3. args' \in Seq(Words) /\ Len(args') < MAX_ARGS /\ off' \in Nat /\ size' \in 0 .. MaxFile
    BY <1>1, <1>4, <2>1, <2>2 DEF HandlerType
  <2>4. pc' = "cat" /\ args' = args /\ Touching' /\ Handling'
    BY <1>1, <1>4 DEF Touching, Handling
  <2> QED BY <1>1, <1>4, <2>2, <2>3, <2>4, WritingKeeps
<1> QED BY <1>2, <1>3, <1>4 DEF CatReads, NextPath, handler

\* touch writes to another file than the redirection's.
LEMMA TouchWrites ==
  ASSUME PipeInv, pc = "t", args # <<>>, Running, Silent,
         NEW d \in Seq(Data), Len(d) <= MaxFile, files' = With(Resolved(args[1]), d),
         HandlerType', faults <= faults', Touching', Touched', pc' \in {"t", "poll", "touch_error"}
  PROVE  PipeInv'
<1> USE DEF PipeInv, PipeTypes
<1> DEFINE path == Resolved(args[1])
<1>1. UNCHANGED <<line, segments, redir, stage, input, before, out, buffer, writer>>
  BY DEF Running, Silent
<1>2. /\ Argv(stage)' = Argv(stage) /\ (Itself' <=> Itself) /\ (has_next' <=> has_next)
      /\ Kept' = Kept /\ (Opened' <=> Opened)
  <2>1. (Itself' <=> Itself) /\ Argv(stage)' = Argv(stage)
    BY <1>1, SameLine DEF Argv
  <2> QED BY <1>1, <2>1 DEF has_next, Kept, Opened, Handling
<1>3. faults' = 0 => faults = 0
  BY PipelineAssumption DEF HandlerType
<1>4. /\ FileType' /\ DOMAIN files' = DOMAIN files \cup {path}
      /\ \A p \in DOMAIN files \ {path} : files'[p] = files[p]
  BY WithKeeps
<1>5. Opened /\ ~Itself => writer.path # path
  <2>1. stage \in 1 .. Len(segments)
    BY ParseAssumption DEF LineType
  <2>2. 1 \in 1 .. Len(args)
    BY DEF HandlerType
  <2>3. PICK i \in 2 .. Len(Argv(stage)) : args[1] = Argv(stage)[i]
    BY <2>2 DEF Touching
  <2>4. Argv(stage)[1] = <<"t">>
    BY DEF Touching
  <2>5. ~Itself => Resolved(args[1]) # Resolved(redir.path)
    BY <2>1, <2>3, <2>4 DEF Itself, Argv
  <2> QED BY <2>5 DEF Appends
<1> HIDE DEF path
<1>6. /\ Opened => writer.path \in DOMAIN files'
      /\ Opened /\ ~Itself => files'[writer.path] = files[writer.path]
  BY <1>4, <1>5 DEF Appends
<1>7. WriterType' /\ DataType'
  BY <1>1 DEF WriterType, DataType
<1>8. LineType'
  BY <1>1 DEF LineType, Argv, Handling
<1>9. Piped' /\ Reading'
  BY <1>1, <1>2 DEF Piped, Reading, Handling
<1>10. Appends'
  BY <1>1, <1>2, <1>6 DEF Appends
<1>11. Target'
  BY <1>1, <1>2, <1>3, <1>6 DEF Target, Handling
<1> QED BY <1>4, <1>7, <1>8, <1>9, <1>10, <1>11

\* touch creates a file, or reports it.
LEMMA TouchKeeps ==
  ASSUME PipeInv, TouchPath
  PROVE  PipeInv'
<1> USE DEF PipeInv, PipeTypes
<1> DEFINE path == Resolved(args[1])
<1>1. /\ pc = "t" /\ args # <<>> /\ Running /\ Silent /\ Handling /\ HandlerType
      /\ faults \in 0 .. MaxFaults /\ MaxFaults \in Nat
  BY PipelineAssumption DEF TouchPath, Handling, HandlerType
<1>2. /\ Argv(stage)' = Argv(stage) /\ stage' = stage /\ input' = input /\ segments' = segments
      /\ redir' = redir
  BY <1>1 DEF Running, Argv
<1>3. Body => args = <<Argv(stage)[2]>>
  BY <1>1 DEF Touched
<1>4. /\ Argv(stage)[1] = <<"t">>
      /\ \A j \in 1 .. Len(args) : \E i \in 2 .. Len(Argv(stage)) : args[j] = Argv(stage)[i]
      /\ \A j \in 1 .. Len(Rest) : \E i \in 2 .. Len(Argv(stage)) : Rest[j] = Argv(stage)[i]
  <2>1. /\ Argv(stage)[1] = <<"t">>
        /\ \A j \in 1 .. Len(args) : \E i \in 2 .. Len(Argv(stage)) : args[j] = Argv(stage)[i]
    BY <1>1 DEF Touching
  <2> QED BY <2>1, PathsType
<1>5. ASSUME pc' = "touch_error", UNCHANGED <<args, off, size>>, faults' \in 0 .. MaxFaults
      PROVE  HandlerType' /\ Touching'
  BY <1>1, <1>2, <1>4, <1>5 DEF HandlerType, Touching
<1>6. ASSUME NextPath("t"), faults' \in 0 .. MaxFaults
      PROVE  HandlerType' /\ Touching' /\ pc' \in {"t", "poll"}
  BY <1>1, <1>2, <1>4, <1>6, PathsType, PipelineAssumption DEF HandlerType, Touching, NextPath
<1>7. CASE /\ IF TooLong(args[1]) THEN Succeeds ELSE Fails("touch")
           /\ pc' = "touch_error" /\ UNCHANGED <<files, handler>>
  <2>1. faults <= faults' /\ faults' \in 0 .. MaxFaults
    BY <1>1, <1>7 DEF Succeeds, Fails
  <2>2. HandlerType' /\ Touching' /\ Reading' /\ Handling'
    BY <1>5, <1>7, <2>1 DEF handler, Reading, Handling
  <2>3. Body => faults' # 0
    <3>1. Body => ~TooLong(args[1])
      BY <1>3 DEF Body
    <3> QED BY <1>1, <1>7, <3>1 DEF Fails
  <2> QED BY <1>1, <1>7, <2>1, <2>2, <2>3, SilentKeeps
<1>8. CASE input = <<>> /\ files' = With(path, Contents(path)) /\ Succeeds /\ NextPath("t")
  <2>1. faults <= faults' /\ faults' \in 0 .. MaxFaults
    BY <1>1, <1>8 DEF Succeeds
  <2>2. HandlerType' /\ Touching' /\ pc' \in {"t", "poll"}
    BY <1>6, <1>8, <2>1
  <2>3. Touched'
    BY <1>2, <1>8 DEF Touched, Body
  <2>4. Contents(path) \in Seq(Data) /\ Len(Contents(path)) <= MaxFile
    BY ContentsType
  <2> QED BY <1>1, <1>8, <2>1, <2>2, <2>3, <2>4, TouchWrites
<1>9. ASSUME NEW w \in WriteResults(path, 0, input, TRUE),
             files' = With(path, w.data), faults' = faults + w.fault,
             IF w.ok THEN NextPath("t") ELSE pc' = "touch_error" /\ UNCHANGED handler
      PROVE  PipeInv'
  <2>1. Outcome(w, path, 0, input, TRUE)
    BY WriteOutcome DEF DataType
  <2>2. /\ w.data \in Seq(Data) /\ Len(w.data) <= MaxFile /\ w.fault \in {0, 1}
        /\ faults' \in 0 .. MaxFaults
    BY <1>9, <2>1 DEF Outcome
  <2>3. faults <= faults' /\ (faults' = 0 => faults = 0 /\ w.fault = 0)
    BY <1>1, <1>9, <2>2
  <2>4. HandlerType' /\ Touching' /\ pc' \in {"t", "poll", "touch_error"}
    BY <1>5, <1>6, <1>9, <2>2 DEF handler
  <2>5. Touched'
    <3> SUFFICES ASSUME Body' PROVE Touched'
      BY DEF Touched
    <3>1. Body /\ w.fault = 0
      BY <1>2, <2>3 DEF Body
    <3>2. input \in Seq(Data) /\ Len(input) \in Nat /\ Len(input) <= MaxFile
      BY <3>1 DEF Body, DataType
    <3>3. Old(path, TRUE) = <<>> /\ FitsIn(<<>>, 0, input)
      BY <3>2 DEF Old, FitsIn
    <3>4. w.ok /\ w.data = Written(<<>>, 0, input)
      BY <2>1, <3>1, <3>3 DEF Outcome
    <3>5. <<>> \in Seq(Data) /\ Len(<<>>) = 0 /\ <<>> \o input = input
      BY <3>2
    <3>6. w.data = input
      BY <3>2, <3>4, <3>5, WrittenAtEnd
    <3>7. args[1] = Argv(stage)[2] /\ Tail(args) = <<>>
      <4>1. args = <<Argv(stage)[2]>>
        BY <1>3, <3>1
      <4>2. args[1] = Argv(stage)[2] /\ Len(args) = 1
        BY <4>1
      <4>3. Tail(args) = <<>>
        BY <4>1, LastPath
      <4> QED BY <4>2, <4>3
    <3>8. pc' = "poll"
      BY <1>1, <1>9, <3>4, <3>7 DEF NextPath, Rest
    <3>9. files'[path] = input
      BY <1>9, <2>2, <3>6, WithKeeps
    <3>10. files'[Resolved(Argv(stage)'[2])] = input'
      BY <1>2, <3>7, <3>9
    <3> QED BY <3>8, <3>10 DEF Touched
  <2> QED BY <1>1, <1>9, <2>2, <2>3, <2>4, <2>5, TouchWrites
<1> QED BY <1>7, <1>8, <1>9 DEF TouchPath

\* touch refuses a path.
LEMMA RefusesKeeps ==
  ASSUME PipeInv, TouchRefuses
  PROVE  PipeInv'
<1>1. /\ pc = "t" /\ Running /\ Silent /\ pc' = "touch_error" /\ args' = <<>>
      /\ UNCHANGED <<files, off, size, faults>> /\ Handling /\ Handling'
  BY DEF TouchRefuses, Handling
<1>2. HandlerType' /\ faults <= faults'
  BY <1>1, PipelineAssumption, ParseAssumption DEF PipeInv, PipeTypes, HandlerType
<1>3. Reading' /\ Touching'
  <2>1. Argv(stage)[1] = <<"t">> /\ Argv(stage)' = Argv(stage)
    BY <1>1 DEF PipeInv, Touching, Running, Argv
  <2> QED BY <1>1, <2>1 DEF Reading, Touching
<1>4. ~Body
  <2>1. ASSUME Body PROVE FALSE
    <3>1. args = <<Argv(stage)[2]>> /\ input # <<>>
      BY <1>1, <2>1 DEF PipeInv, Touched, Body
    <3>2. args # <<>> /\ Len(args) = 1
      BY <3>1
    <3> QED BY <3>1, <3>2 DEF TouchRefuses
  <2> QED BY <2>1
<1> QED BY <1>1, <1>2, <1>3, <1>4, SilentKeeps

-----------------------------------------------------------------------------
(* Between two commands, and after the last one.                           *)

\* The output of a command is the input of the next.
LEMMA StageKeeps ==
  ASSUME PipeInv, NextStage
  PROVE  PipeInv'
<1> USE DEF PipeInv, PipeTypes
<1>1. /\ pc = "poll" /\ has_next /\ input' = buffer.data /\ stage' = stage + 1 /\ pc' = "stage"
      /\ UNCHANGED <<files, line, segments, redir, before, args, off, size, faults,
                     out, buffer, writer>>
  BY DEF NextStage, Silent, handler
<1>2. (Itself' <=> Itself) /\ Kept' = Kept /\ (Opened' <=> Opened)
  BY <1>1, SameLine DEF Kept, Opened
<1>3. FileType' /\ WriterType' /\ HandlerType'
  BY <1>1 DEF FileType, WriterType, HandlerType
<1>4. DataType'
  BY <1>1 DEF DataType
<1>5. LineType'
  <2>1. stage \in Nat /\ Len(segments) \in Nat /\ Len(segments) <= MAX_PIPE_SEGMENTS
        /\ stage < Len(segments) /\ MAX_PIPE_SEGMENTS \in Nat /\ stage >= 1
    BY <1>1, ParseAssumption DEF LineType, has_next
  <2>2. stage + 1 \in 1 .. MAX_PIPE_SEGMENTS /\ stage + 1 <= Len(segments)
    BY <2>1
  <2> QED BY <1>1, <2>2 DEF LineType, Argv
<1>6. Piped'
  BY <1>1 DEF Piped, Handling
<1>7. Reading' /\ Touching' /\ Touched'
  BY <1>1 DEF Reading, Touching, Touched
<1>8. Appends'
  BY <1>1, <1>2 DEF Appends
<1>9. Target'
  BY <1>1, <1>2 DEF Target
<1> QED BY <1>3, <1>4, <1>5, <1>6, <1>7, <1>8, <1>9

\* A ">" that nothing was written to.
LEMMA FinalizeKeeps ==
  ASSUME PipeInv, shell_file_writer_finalize
  PROVE  PipeInv'
<1> USE DEF PipeInv, PipeTypes
<1>1. /\ pc = "poll" /\ ~has_next /\ pc' = "done"
      /\ UNCHANGED <<line, segments, redir, stage, input, before, args, off, size, out, buffer>>
  BY DEF shell_file_writer_finalize, Running, handler
<1>2. /\ Argv(stage)' = Argv(stage) /\ (Itself' <=> Itself) /\ (has_next' <=> has_next)
      /\ Kept' = Kept /\ (Opened' <=> Opened)
  <2>1. (Itself' <=> Itself) /\ Argv(stage)' = Argv(stage)
    BY <1>1, SameLine DEF Argv
  <2> QED BY <1>1, <2>1 DEF has_next, Kept, Opened
<1>3. /\ faults \in 0 .. MaxFaults /\ MaxFaults \in Nat /\ MaxFile \in Nat
      /\ writer.truncate_pending \in BOOLEAN /\ writer.failed \in BOOLEAN
      /\ writer.offset \in Nat
  BY PipelineAssumption DEF HandlerType, WriterType
<1>4. DataType'
  BY <1>1 DEF DataType
<1>5. LineType'
  <2>1. stage = Len(segments)
    BY <1>1, ParseAssumption DEF LineType, has_next
  <2> QED BY <1>1, <2>1 DEF LineType, Argv
<1>6. Piped' /\ Reading' /\ Touching'
  BY <1>1 DEF Piped, Reading, Touching, Handling
<1>7. CASE ~(redir.active /\ ~writer.failed /\ writer.truncate_pending)
  <2>1. UNCHANGED <<files, writer, faults>>
    BY <1>7 DEF shell_file_writer_finalize
  <2>2. FileType' /\ WriterType' /\ HandlerType'
    BY <1>1, <2>1 DEF FileType, WriterType, HandlerType
  <2>3. Appends'
    BY <1>1, <1>2, <2>1 DEF Appends
  <2>4. Target'
    <3> SUFFICES ASSUME Opened, faults = 0, ~writer.failed, ~Itself
                 PROVE  /\ ~writer.truncate_pending /\ files[writer.path] = Kept \o out
                        /\ writer.offset = Len(Kept) + Len(out)
      BY <1>1, <1>2, <2>1 DEF Target
    <3>1. ~writer.truncate_pending
      BY <1>7 DEF Opened
    <3> QED BY <1>1, <3>1 DEF Target
  <2>5. Touched'
    BY <1>1, <1>2, <2>1 DEF Touched, Body
  <2> QED BY <1>4, <1>5, <1>6, <2>2, <2>3, <2>4, <2>5
<1>8. CASE redir.active /\ ~writer.failed /\ writer.truncate_pending
  <2>1. PICK w \in WriteResults(writer.path, 0, <<>>, TRUE) :
          files' = With(writer.path, w.data) /\ faults' = faults + w.fault
    BY <1>8 DEF shell_file_writer_finalize
  <2>2. /\ writer' = [writer EXCEPT !.truncate_pending = FALSE]
        /\ writer = [path |-> writer.path, offset |-> writer.offset,
                     truncate_pending |-> writer.truncate_pending, failed |-> writer.failed]
    BY <1>8 DEF shell_file_writer_finalize, WriterType
  <2>3. writer' = [path |-> writer.path, offset |-> writer.offset,
                   truncate_pending |-> FALSE, failed |-> writer.failed]
    BY <2>2
  <2>4. /\ writer'.path = writer.path /\ writer'.offset = writer.offset /\ ~writer'.truncate_pending
        /\ writer'.failed = writer.failed /\ WriterType'
    BY <1>3, <2>3 DEF WriterType
  <2>5. <<>> \in Seq(Data) /\ Len(<<>>) = 0
    OBVIOUS
  <2>6. Outcome(w, writer.path, 0, <<>>, TRUE)
    BY <2>5, WriteOutcome
  <2>7. /\ w.data \in Seq(Data) /\ Len(w.data) <= MaxFile /\ w.fault \in {0, 1}
        /\ faults' \in 0 .. MaxFaults
    BY <2>1, <2>6 DEF Outcome
  <2>8. FileType' /\ DOMAIN files' = DOMAIN files \cup {writer.path} /\ files'[writer.path] = w.data
    BY <2>1, <2>7, WithKeeps
  <2>9. HandlerType'
    BY <1>1, <2>7 DEF HandlerType
  <2>10. Appends'
    <3>1. Opened
      BY <1>1, <1>8 DEF Opened
    <3>2. writer'.path = Resolved(redir'.path) /\ writer'.path \in DOMAIN files'
      BY <1>1, <2>4, <2>8, <3>1 DEF Appends
    <3>3. ~(redir.append /\ ~Itself /\ "stat" \notin Faulty)
      BY <1>8, <3>1 DEF Appends
    <3> QED BY <1>1, <1>2, <3>2, <3>3 DEF Appends
  <2>11. Target'
    <3> SUFFICES ASSUME Opened, faults' = 0, ~writer.failed, ~Itself
                 PROVE  /\ files'[writer.path] = Kept \o out
                        /\ writer.offset = Len(Kept) + Len(out)
      BY <1>1, <1>2, <2>4 DEF Target
    <3>1. faults = 0 /\ w.fault = 0
      BY <1>3, <2>1, <2>7
    <3>2. out = <<>> /\ writer.offset = 0 /\ ~redir.append
      BY <1>1, <1>8, <3>1 DEF Target
    <3>3. Kept = <<>> /\ Old(writer.path, TRUE) = <<>>
      BY <3>2 DEF Kept, Old
    <3>4. FitsIn(<<>>, 0, <<>>)
      BY <1>3, <2>5 DEF FitsIn
    <3>5. w.data = Written(<<>>, 0, <<>>)
      BY <2>6, <3>1, <3>3, <3>4 DEF Outcome
    <3>6. w.data = <<>> \o <<>>
      BY <2>5, <3>5, WrittenAtEnd
    <3> QED BY <2>5, <2>8, <3>2, <3>3, <3>6
  <2>12. Touched'
    BY <1>1, <1>8 DEF Touched, Body
  <2> QED BY <1>4, <1>5, <1>6, <2>4, <2>8, <2>9, <2>10, <2>11, <2>12
<1> QED BY <1>7, <1>8

\* The pipeline ends, by Ctrl-C or after the last command.
LEMMA LeavesKeeps ==
  ASSUME PipeInv, Interrupted \/ Returns
  PROVE  PipeInv'
<1>1. Prompt /\ UNCHANGED <<files, faults>>
  BY DEF Interrupted, Returns
<1>2. FileType' /\ faults' \in 0 .. MaxFaults
  BY <1>1 DEF PipeInv, PipeTypes, FileType, HandlerType
<1> QED BY <1>1, <1>2, PromptKeeps

\* Nothing happens.
LEMMA StutterKeeps ==
  ASSUME PipeInv, UNCHANGED vars
  PROVE  PipeInv'
<1>1. UNCHANGED <<files, line, pc, segments, redir, stage, input, buffer, writer,
                  args, off, size, out, before, faults>>
  BY DEF vars
<1>2. /\ (Itself' <=> Itself) /\ (has_next' <=> has_next) /\ Kept' = Kept
      /\ (Opened' <=> Opened) /\ (Handling' <=> Handling) /\ Argv(stage)' = Argv(stage)
  BY <1>1 DEF Itself, has_next, Kept, Opened, Handling, Argv
<1>3. FileType' /\ WriterType' /\ DataType' /\ HandlerType'
  BY <1>1 DEF PipeInv, PipeTypes, FileType, WriterType, DataType, HandlerType
<1>4. LineType'
  BY <1>1, <1>2 DEF PipeInv, PipeTypes, LineType, Argv
<1>5. Piped' /\ Reading' /\ Touching'
  BY <1>1, <1>2 DEF PipeInv, Piped, Reading, Touching
<1>6. Appends' /\ Target' /\ Touched'
  BY <1>1, <1>2 DEF PipeInv, Appends, Target, Touched, Body
<1> QED BY <1>3, <1>4, <1>5, <1>6 DEF PipeInv, PipeTypes

\* Every step keeps the invariant.
LEMMA PipeInvNext == PipeInv /\ [Next]_vars => PipeInv'
<1> SUFFICES ASSUME PipeInv, [Next]_vars PROVE PipeInv'
  OBVIOUS
<1>1. CASE UNCHANGED vars
  BY <1>1, StutterKeeps
<1>2. CASE read_line
  BY <1>2, SubmitKeeps DEF read_line
<1>3. CASE shell_file_writer_init
  BY <1>3, OpenKeeps
<1>4. CASE find_command
  BY <1>4, FindKeeps
<1>5. CASE PrintHandler
  BY <1>5, PrintKeeps
<1>6. CASE CatInput
  BY <1>6, CatInputKeeps
<1>7. CASE CatOpens
  BY <1>7, CatOpensKeeps
<1>8. CASE CatReads
  BY <1>8, CatReadsKeeps
<1>9. CASE TouchPath
  BY <1>9, TouchKeeps
<1>10. CASE TouchRefuses
  BY <1>10, RefusesKeeps
<1>11. CASE HandlerError
  BY <1>11, ErrorKeeps
<1>12. CASE NextStage
  BY <1>12, StageKeeps
<1>13. CASE shell_file_writer_finalize
  BY <1>13, FinalizeKeeps
<1>14. CASE Interrupted \/ Returns
  BY <1>14, LeavesKeeps
<1> QED BY <1>1, <1>2, <1>3, <1>4, <1>5, <1>6, <1>7, <1>8, <1>9, <1>10, <1>11, <1>12, <1>13,
           <1>14 DEF Next, execute_pipeline

\* The inductive invariant always holds.
LEMMA PipeInvAlways == Spec => []PipeInv
BY PipeInvInit, PipeInvNext, PTL DEF Spec

-----------------------------------------------------------------------------
(* The theorems.                                                           *)

\* What the invariant says of the data between commands.
LEMMA FaithfulFromInv == PipeInv => PipeFaithful
<1> SUFFICES ASSUME PipeInv PROVE PipeFaithful
  OBVIOUS
<1> USE DEF PipeInv, PipeTypes
<1>1. /\ Room \in Nat /\ PIPE_BUFFER_CAPACITY = Room + 1 /\ out \in Seq(Data)
      /\ input \in Seq(Data) /\ buffer.data \in Seq(Data) /\ Len(out) \in Nat
  BY PipelineAssumption DEF DataType, Room
<1>2. TypeOK
  <2>1. Len(segments) <= MAX_PIPE_SEGMENTS /\ stage \in 1 .. MAX_PIPE_SEGMENTS
    BY ParseAssumption DEF LineType
  <2>2. Len(buffer.data) < PIPE_BUFFER_CAPACITY /\ Len(input) < PIPE_BUFFER_CAPACITY
    BY <1>1 DEF DataType
  <2>3. Len(args) < MAX_ARGS /\ off \in Nat /\ size \in 0 .. MaxFile /\ faults \in 0 .. MaxFaults
    BY DEF HandlerType
  <2>4. \A p \in DOMAIN files : Len(files[p]) <= MaxFile
    BY DEF FileType
  <2> QED BY <2>1, <2>2, <2>3, <2>4 DEF TypeOK
<1>3. ASSUME pc = "poll", has_next
      PROVE  /\ PrefixOf(buffer.data, out)
             /\ buffer.overflowed <=> buffer.data # out
             /\ buffer.overflowed => Len(buffer.data) = PIPE_BUFFER_CAPACITY - 1
  <2> DEFINE b == buffer.data
  <2>1. b = LimitedTo(Room, out) /\ (buffer.overflowed <=> Len(out) > Room)
    BY <1>3 DEF Piped
  <2>2. Limits(b, Room, out)
    BY <1>1, <2>1, LimitedIs
  <2>b. b \in Seq(Data)
    BY <1>1
  <2> HIDE DEF b
  <2>3. /\ Len(b) = (IF Len(out) > Room THEN Room ELSE Len(out)) /\ Len(b) \in Nat
        /\ \A i \in 1 .. Len(b) : b[i] = out[i]
    BY <2>2, <2>b DEF Limits
  <2>4. Len(b) <= Len(out)
    BY <1>1, <2>3
  <2>5. b = SubSeq(out, 1, Len(b))
    <3>1. /\ SubSeq(out, 1, Len(b)) \in Seq(Data) /\ Len(SubSeq(out, 1, Len(b))) = Len(b)
          /\ \A i \in 1 .. Len(b) : SubSeq(out, 1, Len(b))[i] = out[i]
      BY <1>1, <2>3, <2>4
    <3> QED BY <2>b, <2>3, <3>1, SameSeq
  <2>6. CASE Len(out) > Room
    <3>1. Len(b) = Room /\ Len(b) # Len(out)
      BY <1>1, <2>3, <2>6
    <3>2. b # out
      BY <3>1
    <3> QED BY <1>1, <2>1, <2>4, <2>5, <2>6, <3>1, <3>2 DEF PrefixOf, b
  <2>7. CASE ~(Len(out) > Room)
    <3>1. Len(b) = Len(out)
      BY <2>3, <2>7
    <3>2. b = out
      BY <1>1, <2>b, <2>3, <3>1, SameSeq
    <3> QED BY <2>1, <2>4, <2>5, <2>7, <3>2 DEF PrefixOf, b
  <2> QED BY <2>6, <2>7
<1>4. pc = "stage" /\ stage > 1 => input = LimitedTo(PIPE_BUFFER_CAPACITY - 1, out)
  BY DEF Piped, Room
<1> QED BY <1>2, <1>3, <1>4 DEF PipeFaithful

\* Between two commands of any pipeline, what the next one will read is what
\* the one before it wrote, up to the room of the buffer, the buffer knows
\* whether that is all, and no array of the shell is exceeded: for every size
\* of the buffers and any number of commands (pipe_buffer_writer,
\* execute_pipeline).
THEOREM PipesAreFaithful == Spec => []PipeFaithful
BY PipeInvAlways, FaithfulFromInv, PTL

\* What the invariant says of the files.
LEMMA FilesFromInv ==
  ASSUME "stat" \notin Faulty, PipeInv
  PROVE  FilesExact
<1> USE DEF PipeInv, PipeTypes
<1>1. RedirectionExact
  <2> SUFFICES ASSUME pc = "done", redir.active, ~writer.failed, ~Itself, faults = 0
               PROVE  files[writer.path] = Kept \o out
    BY DEF RedirectionExact, Kept
  <2>1. Opened /\ ~has_next
    <3>1. Opened
      BY DEF Opened
    <3>2. ~has_next
      BY ParseAssumption DEF LineType, has_next
    <3> QED BY <3>1, <3>2
  <2> QED BY <2>1 DEF Target
<1>2. AppendKeeps
  <2> SUFFICES ASSUME redir.active, redir.append, writer.path # <<>>, ~Itself
               PROVE  PrefixOf(before, files[writer.path])
    BY DEF AppendKeeps
  <2>1. Opened
    BY DEF Opened, LineType
  <2> DEFINE f == files[writer.path]
  <2>2. /\ f \in Seq(Data) /\ before \in Seq(Data) /\ Len(before) <= Len(f)
        /\ \A i \in 1 .. Len(before) : f[i] = before[i]
    BY <2>1 DEF Appends, FileType, DataType
  <2> HIDE DEF f
  <2>3. /\ SubSeq(f, 1, Len(before)) \in Seq(Data)
        /\ Len(SubSeq(f, 1, Len(before))) = Len(before)
        /\ \A i \in 1 .. Len(before) : SubSeq(f, 1, Len(before))[i] = before[i]
    BY <2>2
  <2>4. before = SubSeq(f, 1, Len(before))
    BY <2>2, <2>3, SameSeq
  <2> QED BY <2>2, <2>4 DEF PrefixOf, f
<1>3. TouchBody
  <2> SUFFICES ASSUME pc = "done", faults = 0, ~redir.active, input # <<>>, Len(input) <= MaxFile,
                      Argv(Len(segments))[1] = <<"t">>, Len(Argv(Len(segments))) = 2,
                      ~TooLong(Argv(Len(segments))[2])
               PROVE  files[Resolved(Argv(Len(segments))[2])] = input
    BY DEF TouchBody, Argv
  <2>1. stage = Len(segments)
    BY DEF LineType
  <2> QED BY <2>1 DEF Touched, Body
<1> QED BY <1>1, <1>2, <1>3 DEF FilesExact

\* Files hold exactly what redirections and touch were given, for every line,
\* every content and any touch, read or write that fails: a finished
\* redirection without a failure holds what the last command wrote, ">>" never
\* loses what the file held, and what is piped into touch becomes the body of
\* its file. Only fs_stat_path must not fail: ">>" then starts at 0
\* (shell_file_writer_init).
THEOREM FilesAreExact ==
  ASSUME "stat" \notin Faulty
  PROVE  Spec => []FilesExact
<1>1. PipeInv => FilesExact
  BY FilesFromInv
<1> QED BY <1>1, PipeInvAlways, PTL
=============================================================================
