--------------------------- MODULE ShellPipeline ---------------------------
(***************************************************************************)
(* Running a line of the shell (kernel/shell/shell.c: execute_pipeline):   *)
(* each command writes to a pipe buffer, to the file of a redirection, or  *)
(* to the terminal, and the next command is given the buffer as its input. *)
(* The commands that move data are here: cat and touch (kernel/shell/      *)
(* commands), and one that stands for those that only print.               *)
(*                                                                         *)
(* The filesystem is used through fs_touch, fs_stat_path, fs_read and      *)
(* fs_write, each of which may fail; Faulty names the ones that do.        *)
(***************************************************************************)
EXTENDS ShellParse, ShellPath

CONSTANTS
  Lines,           \* the lines typed
  PIPE_BUFFER_CAPACITY,
  CAT_BUFFER_SIZE,
  Chunks,          \* what a printing command writes at a time
  MaxWrites,       \* bound: how often a printing command writes
  MaxFile,         \* the size of the largest file
  Faulty,          \* the filesystem calls that may fail
  MaxFaults        \* bound: how many do

ASSUME PipelineAssumption ==
  /\ PIPE_BUFFER_CAPACITY \in Nat \ {0} /\ CAT_BUFFER_SIZE \in Nat \ {0}
  /\ MaxWrites \in Nat /\ MaxFile \in Nat /\ MaxFaults \in Nat
  /\ Faulty \subseteq {"touch", "stat", "read", "write"}
  /\ \A d \in Chunks : d \in Seq({"p", "q"}) /\ d # <<>>

\* What the parser makes of the lines: a line that runs has a command, and
\* every command has a name and arguments.
ASSUME LinesAssumption ==
  \A l \in Lines :
    LET p == Parsed(l)
        argv(k) == tokenize(p.segments[k])
    IN  /\ Len(p.segments) \in 0 .. MAX_PIPE_SEGMENTS
        /\ p.runs => Len(p.segments) > 0
        /\ \A k \in 1 .. Len(p.segments) :
             Len(argv(k)) \in 1 .. MAX_ARGS /\ argv(k) = [i \in 1 .. Len(argv(k)) |-> argv(k)[i]]

VARIABLES
  files,           \* the regular files of the volume, by path
  line, pc,        \* the line, and what execute_pipeline does next
  segments, redir, \* what the line was parsed into
  stage,           \* i
  input,           \* pipe_storage: the input of the command
  buffer,          \* pipe_buffer
  writer,          \* file_writer
  args, off, size, \* what the handler has left to do: paths, offset, bound
  out,             \* history: what the command has written
  before,          \* history: the file when the redirection was opened
  faults           \* how much of MaxFaults is used

vars == <<files, line, pc, segments, redir, stage, input, buffer, writer,
          args, off, size, out, before, faults>>
handler == <<args, off, size>>

EmptyBuffer == [data |-> <<>>, overflowed |-> FALSE]
NoWriter == [path |-> <<>>, offset |-> 0, truncate_pending |-> FALSE, failed |-> FALSE]
Error == <<"e">>                 \* any message a command writes
Commands == {<<"c">>, <<"t">>, <<"x">>}   \* cat, touch, and one that prints

\* The commands of the model leave the working directory alone.
Resolved(path) == shell_resolve_path(RootPath, path).path
TooLong(path) == ~shell_resolve_path(RootPath, path).ok

LimitedTo(n, s) == SubSeq(s, 1, IF Len(s) > n THEN n ELSE Len(s))

Succeeds == UNCHANGED faults
Fails(site) == site \in Faulty /\ faults < MaxFaults /\ faults' = faults + 1

Exists(path) == path \in DOMAIN files
Contents(path) == IF Exists(path) THEN files[path] ELSE <<>>
With(path, data) == [p \in DOMAIN files \cup {path} |-> IF p = path THEN data ELSE files[p]]

\* What fs_write makes of the file: the bytes from offset on are replaced.
Written(old, offset, data) ==
  [n \in 1 .. (IF Len(old) > offset + Len(data) THEN Len(old) ELSE offset + Len(data)) |->
     IF n \in offset + 1 .. offset + Len(data) THEN data[n - offset] ELSE old[n]]

\* A write that fails may have truncated, overwritten a part of what is within
\* the old size, or only failed to flush the inode, and then the file has grown.
WriteResults(path, offset, data, truncate) ==
  LET old == IF truncate THEN <<>> ELSE Contents(path)
      fits == offset + Len(data) <= MaxFile /\ offset <= Len(old)
      torn(k) == SubSeq(Written(old, offset, LimitedTo(k, data)), 1, Len(old))
      left == {torn(k) : k \in 0 .. Len(data)}
                \cup {Contents(path), Written(old, offset, data)}
  IN  (IF fits THEN {[ok |-> TRUE, data |-> Written(old, offset, data), fault |-> 0]}
       ELSE {[ok |-> FALSE, data |-> Contents(path), fault |-> 0]})
      \cup (IF fits /\ "write" \in Faulty /\ faults < MaxFaults
            THEN {[ok |-> FALSE, data |-> d, fault |-> 1] : d \in left}
            ELSE {})

\* The line is done with, and the locals of execute_pipeline with it.
Prompt ==
  /\ pc' = "prompt" /\ line' = <<>> /\ segments' = <<>> /\ redir' = NoRedirection
  /\ stage' = 1 /\ input' = <<>> /\ buffer' = EmptyBuffer /\ writer' = NoWriter
  /\ args' = <<>> /\ off' = 0 /\ size' = 0 /\ out' = <<>> /\ before' = <<>>

-----------------------------------------------------------------------------
\* read_line has a line: parse it, and give it up if it cannot be parsed.
Submit(l) ==
  LET p == Parsed(l)
  IN  /\ line' = l
      /\ segments' = p.segments
      /\ redir' = p.redir
      /\ pc' = IF ~p.runs THEN "refused" ELSE IF p.redir.active THEN "open" ELSE "stage"
      /\ stage' = 1 /\ input' = <<>> /\ writer' = NoWriter
      /\ buffer' = EmptyBuffer /\ out' = <<>> /\ before' = <<>>
      /\ UNCHANGED <<files, handler, faults>>

\* The file is made if it is not there. ">>" starts at the end of the file, or
\* at 0 if fs_stat_path fails.
shell_file_writer_init ==
  LET path == Resolved(redir.path)
      open(offset) == writer' = [path |-> path, offset |-> offset,
                                 truncate_pending |-> ~redir.append, failed |-> FALSE]
  IN  /\ pc = "open"
      /\ \/ /\ IF TooLong(redir.path) THEN Succeeds ELSE Fails("touch")
            /\ Prompt /\ UNCHANGED files
         \/ /\ ~TooLong(redir.path)
            /\ files' = With(path, Contents(path)) /\ before' = Contents(path)
            /\ pc' = "stage"
            /\ \/ Succeeds /\ open(IF redir.append THEN Len(Contents(path)) ELSE 0)
               \/ redir.append /\ Fails("stat") /\ open(0)
            /\ UNCHANGED <<line, segments, redir, stage, input, buffer, handler, out>>

\* Find the command and run its handler; an unknown one ends the pipeline.
find_command ==
  LET argv == tokenize(segments[stage])
  IN  /\ pc = "stage"
      /\ IF argv[1] \in Commands
         THEN /\ pc' = argv[1][1] /\ args' = Tail(argv) /\ off' = 0 /\ size' = 0
              /\ buffer' = EmptyBuffer /\ out' = <<>>
              /\ UNCHANGED <<line, segments, redir, stage, input, writer, before>>
         ELSE Prompt
      /\ UNCHANGED <<files, faults>>

-----------------------------------------------------------------------------
(* Writing: shell_io_write calls the writer that was chosen for the stage. *)

has_next == stage < Len(segments)

pipe_buffer_writer(data) ==
  LET room == PIPE_BUFFER_CAPACITY - 1 - Len(buffer.data)
  IN  buffer' = [data |-> buffer.data \o LimitedTo(room, data),
                 overflowed |-> buffer.overflowed \/ Len(data) > room]

\* Mutation: every write truncates.
EmitTruncates(data) ==
  \E w \in WriteResults(writer.path, writer.offset, data, TRUE) :
    /\ files' = With(writer.path, w.data)
    /\ faults' = faults + w.fault
    /\ writer' = IF w.ok THEN [writer EXCEPT !.offset = @ + Len(data)]
                 ELSE [writer EXCEPT !.failed = TRUE]

\* The first write of ">" truncates; after a failed one nothing is written.
shell_file_writer_emit(data) ==
  IF writer.failed THEN UNCHANGED <<files, writer, faults>>
  ELSE \E w \in WriteResults(writer.path, writer.offset, data, writer.truncate_pending) :
         /\ files' = With(writer.path, w.data)
         /\ faults' = faults + w.fault
         /\ writer' = IF w.ok THEN [writer EXCEPT !.truncate_pending = FALSE,
                                                  !.offset = @ + Len(data)]
                      ELSE [writer EXCEPT !.failed = TRUE]

shell_io_write(data) ==
  /\ out' = out \o data
  /\ IF has_next THEN pipe_buffer_writer(data) /\ UNCHANGED <<files, writer, faults>>
     ELSE /\ UNCHANGED buffer
          /\ IF redir.active THEN shell_file_writer_emit(data)
             ELSE UNCHANGED <<files, writer, faults>>

\* What no handler touches.
Running == UNCHANGED <<line, segments, redir, stage, input, before>>
Silent == UNCHANGED <<out, buffer, writer>>

-----------------------------------------------------------------------------
(* Handlers. Each ends in "poll".                                          *)

\* echo, printf, ls and the like: some writes. Ctrl-C may cut them short.
PrintHandler ==
  /\ pc = "x" /\ Running /\ UNCHANGED <<args, size>>
  /\ \/ /\ off < MaxWrites /\ off' = off + 1 /\ UNCHANGED pc
        /\ \E d \in Chunks : shell_io_write(d)
     \/ pc' = "poll" /\ UNCHANGED <<files, off, faults>> /\ Silent

\* cat with no path writes its input, or its usage if there is none.
CatInput ==
  /\ pc = "c" /\ args = <<>> /\ Running
  /\ pc' = "poll"
  /\ shell_io_write(IF input # <<>> THEN input ELSE Error)
  /\ UNCHANGED handler

\* cat_stream_file: the size is asked for once.
CatOpens ==
  /\ pc = "c" /\ args # <<>> /\ Running
  /\ LET path == Resolved(args[1])
         found == ~TooLong(args[1]) /\ Exists(path)
     IN  \/ /\ found /\ Succeeds
            /\ pc' = "cat" /\ off' = 0 /\ size' = Len(files[path])
            /\ UNCHANGED <<files, args>> /\ Silent
         \/ /\ IF found THEN Fails("stat") ELSE Succeeds
            /\ pc' = "cat_error" /\ UNCHANGED <<files, handler>> /\ Silent

\* The next path, if there is one: label is where the loop begins.
Rest == IF args = <<>> THEN <<>> ELSE Tail(args)
NextPath(label) == /\ args' = Rest /\ off' = 0 /\ size' = 0
                   /\ pc' = IF Rest = <<>> THEN "poll" ELSE label

\* A message about a path; the handler goes on with the next one.
HandlerError ==
  /\ pc \in {"cat_error", "touch_error"} /\ Running
  /\ shell_io_write(Error)
  /\ NextPath(IF pc = "cat_error" THEN "c" ELSE "t")

\* Mutation: a read of no bytes does not end the loop.
CatReadsOn ==
  LET text == files[Resolved(args[1])]
      len == IF size - off > CAT_BUFFER_SIZE THEN CAT_BUFFER_SIZE ELSE size - off
      bytes == IF off >= Len(text) THEN <<>> ELSE LimitedTo(len, SubSeq(text, off + 1, Len(text)))
  IN  /\ pc = "cat" /\ Running
      /\ IF off = size THEN NextPath("c") /\ UNCHANGED <<files, faults>> /\ Silent
         ELSE IF bytes = <<>> THEN UNCHANGED <<pc, handler, files, faults>> /\ Silent
         ELSE shell_io_write(bytes) /\ off' = off + Len(bytes) /\ UNCHANGED <<pc, args, size>>

\* One turn of the loop. The file may have shrunk since its size was asked for.
CatReads ==
  LET text == files[Resolved(args[1])]
      len == IF size - off > CAT_BUFFER_SIZE THEN CAT_BUFFER_SIZE ELSE size - off
      bytes == IF off >= Len(text) THEN <<>> ELSE LimitedTo(len, SubSeq(text, off + 1, Len(text)))
  IN  /\ pc = "cat" /\ Running
      /\ \/ (off = size \/ bytes = <<>>) /\ NextPath("c") /\ UNCHANGED <<files, faults>> /\ Silent
         \/ /\ off # size /\ bytes # <<>>
            /\ shell_io_write(bytes) /\ off' = off + Len(bytes) /\ UNCHANGED <<pc, args, size>>
         \/ /\ off # size /\ Fails("read")
            /\ pc' = "cat_error" /\ UNCHANGED <<files, handler>> /\ Silent

\* touch makes the file and, if it has input, replaces its contents by it. The
\* two calls are one step: the files belong to the one thread, and Ctrl-C is
\* not looked at between them.
TouchPath ==
  LET path == Resolved(args[1])
      created == With(path, Contents(path))
  IN  /\ pc = "t" /\ args # <<>> /\ (input = <<>> \/ Len(args) = 1)
      /\ Running /\ Silent
      /\ \/ /\ IF TooLong(args[1]) THEN Succeeds ELSE Fails("touch")
            /\ pc' = "touch_error" /\ UNCHANGED <<files, handler>>
         \/ /\ ~TooLong(args[1]) /\ input = <<>>
            /\ files' = created /\ Succeeds /\ NextPath("t")
         \/ /\ ~TooLong(args[1]) /\ input # <<>>
            /\ \E w \in WriteResults(path, 0, input, TRUE) :
                 /\ files' = With(path, w.data) /\ faults' = faults + w.fault
                 /\ IF w.ok THEN NextPath("t")
                    ELSE pc' = "touch_error" /\ UNCHANGED handler

\* Without a path, or with input and more than one, touch does nothing.
TouchRefuses ==
  /\ pc = "t" /\ (args = <<>> \/ (input # <<>> /\ Len(args) > 1))
  /\ Running /\ Silent
  /\ pc' = "touch_error" /\ args' = <<>>
  /\ UNCHANGED <<files, off, size, faults>>

-----------------------------------------------------------------------------
\* shell_interrupt_poll after the handler: Ctrl-C gives the pipeline up.
Interrupted ==
  /\ pc = "poll" /\ Prompt
  /\ UNCHANGED <<files, faults>>

\* Mutation: the input of the command stays what it was.
NextStageKeepsInput ==
  /\ pc = "poll" /\ has_next
  /\ stage' = stage + 1 /\ pc' = "stage"
  /\ UNCHANGED <<files, line, segments, redir, input, before, handler, faults>> /\ Silent

\* The buffer becomes the input of the next command.
NextStage ==
  /\ pc = "poll" /\ has_next
  /\ input' = buffer.data /\ stage' = stage + 1 /\ pc' = "stage"
  /\ UNCHANGED <<files, line, segments, redir, before, handler, faults>> /\ Silent

\* The last command is done: a ">" that nothing was written to truncates now.
\* The result of that write is not looked at.
shell_file_writer_finalize ==
  /\ pc = "poll" /\ ~has_next
  /\ pc' = "done"
  /\ IF redir.active /\ ~writer.failed /\ writer.truncate_pending
     THEN /\ \E w \in WriteResults(writer.path, 0, <<>>, TRUE) :
               /\ files' = With(writer.path, w.data)
               /\ faults' = faults + w.fault
          /\ writer' = [writer EXCEPT !.truncate_pending = FALSE]
     ELSE UNCHANGED <<files, writer, faults>>
  /\ Running /\ UNCHANGED <<handler, out, buffer>>

\* The line was refused, or execute_pipeline has returned true.
Returns ==
  /\ pc \in {"refused", "done"} /\ Prompt
  /\ UNCHANGED <<files, faults>>

execute_pipeline ==
  \/ shell_file_writer_init \/ find_command
  \/ PrintHandler \/ CatInput \/ CatOpens \/ CatReads \/ TouchPath \/ TouchRefuses \/ HandlerError
  \/ Interrupted \/ NextStage \/ shell_file_writer_finalize \/ Returns

Init ==
  /\ files = [p \in {} |-> <<>>]
  /\ line = <<>> /\ pc = "prompt" /\ segments = <<>> /\ redir = NoRedirection
  /\ stage = 1 /\ input = <<>> /\ buffer = EmptyBuffer /\ writer = NoWriter
  /\ args = <<>> /\ off = 0 /\ size = 0
  /\ out = <<>> /\ before = <<>> /\ faults = 0

read_line == pc = "prompt" /\ \E l \in Lines : Submit(l)

Next == execute_pipeline \/ read_line

Spec == Init /\ [][Next]_vars

\* Nothing blocks the thread that runs the pipeline.
FairSpec == Spec /\ WF_vars(execute_pipeline)

-----------------------------------------------------------------------------
(* Properties.                                                             *)

\* Sizes stay within the arrays: segments[], argv[], the pipe buffer with its
\* terminator, and the largest file.
TypeOK ==
  /\ Len(segments) <= MAX_PIPE_SEGMENTS
  /\ stage \in 1 .. MAX_PIPE_SEGMENTS
  /\ Len(buffer.data) < PIPE_BUFFER_CAPACITY /\ Len(input) < PIPE_BUFFER_CAPACITY
  /\ Len(args) < MAX_ARGS
  /\ \A p \in DOMAIN files : Len(files[p]) <= MaxFile
  /\ off \in Nat /\ size \in 0 .. MaxFile /\ faults \in 0 .. MaxFaults

PrefixOf(s, t) == Len(s) <= Len(t) /\ s = SubSeq(t, 1, Len(s))

\* Between two commands of a pipeline, what was written is what will be read,
\* up to the room in the buffer, and the buffer knows whether it is all; no
\* array of the shell is exceeded.
PipeFaithful ==
  /\ TypeOK
  /\ pc = "poll" /\ has_next => /\ PrefixOf(buffer.data, out)
                                /\ buffer.overflowed <=> buffer.data # out
                                /\ buffer.overflowed => Len(buffer.data) = PIPE_BUFFER_CAPACITY - 1
  /\ pc = "stage" /\ stage > 1 => input = LimitedTo(PIPE_BUFFER_CAPACITY - 1, out)

\* A touch of the line names the redirection's file.
Itself ==
  \E k \in 1 .. Len(segments) :
    LET argv == tokenize(segments[k])
    IN  argv[1] = <<"t">> /\ \E i \in 2 .. Len(argv) : Resolved(argv[i]) = Resolved(redir.path)

\* When the pipeline is done and no write failed, the file of a redirection
\* holds what the last command wrote: after what it held before for ">>", and
\* nothing else for ">", even if the command wrote nothing or was reading
\* that same file.
RedirectionExact ==
  pc = "done" /\ redir.active /\ ~writer.failed /\ ~Itself /\ faults = 0 =>
    files[writer.path] = (IF redir.append THEN before ELSE <<>>) \o out

\* ">>" never loses what the file held, whatever fails or is interrupted.
AppendKeeps ==
  redir.active /\ redir.append /\ writer.path # <<>> /\ ~Itself =>
    PrefixOf(before, files[writer.path])

\* Data piped into touch becomes the file's contents ("If data is piped in, it
\* becomes the file body"), if all the calls succeed.
TouchBody ==
  pc = "done" /\ faults = 0 /\ ~redir.active /\ input # <<>> /\ Len(input) <= MaxFile =>
    LET argv == tokenize(segments[Len(segments)])
    IN  argv[1] = <<"t">> /\ Len(argv) = 2 /\ ~TooLong(argv[2]) =>
          files[Resolved(argv[2])] = input

\* Files hold exactly what redirections and touch were given, with one file
\* read and written in the same pipeline, calls that fail and interruption
\* (shell_file_writer_emit, shell_file_writer_init, touch_handler).
FilesExact == RedirectionExact /\ AppendKeeps /\ TouchBody

\* Every line is done with, also when a command reads the file it writes to.
LinesEnd == pc # "prompt" ~> pc = "prompt"
=============================================================================
