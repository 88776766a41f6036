------------------------------- MODULE PackFiles -------------------------------
(***************************************************************************)
(* The files of a pack: what FromDir reads of its directory                *)
(* (pkg/draft/pack/load.go), and what SaveDir makes of them in the         *)
(* directory of the application (pkg/draft/pack/pack.go), where no step of *)
(* it fails.  Pure.                                                        *)
(*                                                                         *)
(* A directory is a function from the paths of its files, sequences of     *)
(* names, to their contents.  A link to a directory is read as a file,     *)
(* whose contents then cannot be copied.                                   *)
(***************************************************************************)
EXTENDS Sequences, Functions, TLC

TasksFile       == <<"tasks.toml">>
TargetTasksFile == <<".draft-tasks.toml">>

Failed == <<>> :> "failed"

\* All but the README.md at the top and the chart, which is loaded by itself;
\* but every file is opened, the README too.
FromDir(dir, unreadable) ==
  LET read == {path \in DOMAIN dir : path[1] # "charts" \/ Len(path) = 1}
  IN  IF read \intersect unreadable # {} THEN Failed
      ELSE Restrict(dir, read \ {<<"README.md">>})

\* io.Copy, the error of which is dropped.
Copied(contents) == IF contents = "link" THEN "empty" ELSE contents

\* The tasks change their name, and are empty if the pack has none.
PackTasks(files) ==
  TargetTasksFile :> IF TasksFile \in DOMAIN files THEN Copied(files[TasksFile]) ELSE "empty"

\* SaveDir: what is there is kept, first of all the tasks.
Saved(files, dest) ==
  LET others == DOMAIN files \ {TasksFile}
  IN  dest @@ PackTasks(files) @@ [path \in others |-> Copied(files[path])]
=============================================================================
