----------------------------- MODULE ShellPath -----------------------------
(***************************************************************************)
(* Paths and the working directory of the shell (kernel/shell/shell.c). A  *)
(* path is a sequence of characters; "/" separates names, and "." and ".." *)
(* are left to the filesystem.                                             *)
(***************************************************************************)
EXTENDS Integers, Sequences

CONSTANT SHELL_PATH_MAX

ASSUME PathAssumption == SHELL_PATH_MAX \in Nat /\ SHELL_PATH_MAX >= 2

RootPath == <<"/">>
NoPath == [ok |-> FALSE, path |-> <<>>]

shell_normalize_path(path) ==
  LET kept == {n \in 1 .. Len(path) : n = 1 \/ path[n] # "/"}
  IN  IF path = <<>> THEN path
      ELSE SubSeq(path, 1, CHOOSE n \in kept : \A m \in kept : m <= n)

\* Mutation: the separator is put after the root as well.
ResolveDoubleSlash(cwd, path) ==
  IF path = <<>> THEN [ok |-> TRUE, path |-> cwd]
  ELSE IF path[1] = "/"
  THEN IF Len(path) > SHELL_PATH_MAX - 1 THEN NoPath
       ELSE [ok |-> TRUE, path |-> shell_normalize_path(path)]
  ELSE IF Len(cwd) + Len(path) + 2 > SHELL_PATH_MAX THEN NoPath
  ELSE [ok |-> TRUE, path |-> shell_normalize_path(cwd \o <<"/">> \o path)]

\* The buffer of every caller has SHELL_PATH_MAX bytes.
shell_resolve_path(cwd, path) ==
  LET separator == IF cwd # <<>> /\ cwd[Len(cwd)] = "/" THEN <<>> ELSE <<"/">>
  IN  IF path = <<>> THEN [ok |-> TRUE, path |-> cwd]
      ELSE IF path[1] = "/"
      THEN IF Len(path) > SHELL_PATH_MAX - 1 THEN NoPath
           ELSE [ok |-> TRUE, path |-> shell_normalize_path(path)]
      ELSE IF Len(cwd) + Len(path) + 2 > SHELL_PATH_MAX THEN NoPath
      ELSE [ok |-> TRUE, path |-> shell_normalize_path(cwd \o separator \o path)]

shell_set_cwd_string(path) ==
  IF path = <<>> THEN RootPath
  ELSE shell_normalize_path(
         IF Len(path) > SHELL_PATH_MAX - 1 THEN SubSeq(path, 1, SHELL_PATH_MAX - 1) ELSE path)

\* The names on a path.
NamesOf(path) ==
  LET starts == {n \in 1 .. Len(path) : path[n] # "/" /\ (n = 1 \/ path[n - 1] = "/")}
      end(n) == CHOOSE m \in n .. Len(path) :
                  /\ \A k \in n .. m : path[k] # "/"
                  /\ m = Len(path) \/ path[m + 1] = "/"
      sorted == SelectSeq([n \in 1 .. Len(path) |-> n], LAMBDA n : n \in starts)
  IN  [k \in 1 .. Len(sorted) |-> SubSeq(path, sorted[k], end(sorted[k]))]

\* The working directory becomes the one named if that is_dir; dirs holds the
\* directories of the volume by the names on their paths.
shell_set_cwd(fs_ready, dirs, cwd, path) ==
  LET resolved == shell_resolve_path(cwd, path)
  IN  IF fs_ready /\ resolved.ok /\ NamesOf(resolved.path) \in dirs
      THEN shell_set_cwd_string(resolved.path) ELSE cwd

HomePath == <<"/", "h">>  \* "/home"

cd_handler(fs_ready, dirs, cwd, args) ==
  IF ~fs_ready THEN cwd
  ELSE shell_set_cwd(fs_ready, dirs, cwd, IF args = <<>> THEN HomePath ELSE args[1])

shell_initialize_working_directory(fs_ready, dirs) ==
  IF fs_ready /\ NamesOf(HomePath) \notin dirs THEN RootPath ELSE HomePath
=============================================================================
