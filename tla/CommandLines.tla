----------------------------- MODULE CommandLines -----------------------------
(***************************************************************************)
(* The commands of others that draft runs: the tasks of .draft-tasks.toml  *)
(* (pkg/tasks/tasks.go) and the plugins (pkg/plugin/plugin.go,             *)
(* cmd/draft/plugin.go).  Pure.                                            *)
(*                                                                         *)
(* A command line is the sequence of its arguments, split at the spaces,   *)
(* and an argument a sequence of pieces: a text, or $NAME, plain or with   *)
(* a dollar or a backslash before it.  What an argument becomes is a       *)
(* sequence of texts, to be read as one.                                   *)
(***************************************************************************)
EXTENDS Naturals, Sequences, FiniteSets, SequencesExt

Text(t)            == [kind |-> "text", name |-> t]
Variable(n)        == [kind |-> "variable", name |-> n]
DollarEscaped(n)   == [kind |-> "dollar", name |-> n]
BackslashEscaped(n) == [kind |-> "backslash", name |-> n]

Getenv(env, n) == IF n \in DOMAIN env THEN env[n] ELSE ""

\* A task's argument: an escaped variable is kept, without what escapes it.
TaskPiece(piece, env) ==
  CASE piece.kind = "text" -> <<piece.name>>
    [] piece.kind = "variable" -> <<Getenv(env, piece.name)>>
    [] OTHER -> <<"$", piece.name>>

\* os.ExpandEnv: "$$" is a variable of its own, which is not set, and a
\* backslash is but a text.
PluginPiece(piece, env) ==
  CASE piece.kind = "text" -> <<piece.name>>
    [] piece.kind = "variable" -> <<Getenv(env, piece.name)>>
    [] piece.kind = "dollar" -> <<piece.name>>
    [] OTHER -> <<"\\", Getenv(env, piece.name)>>

Expanded(line, Piece(_, _), env) ==
  [i \in DOMAIN line |-> FlattenSeq([j \in DOMAIN line[i] |-> Piece(line[i][j], env)])]

-----------------------------------------------------------------------------
(* Tasks.                                                                  *)

Kinds == {"PreUp", "PostUp", "PostDeploy", "PostDelete"}

EvaluateArgs(task, env) == Expanded(task, TaskPiece, env)

PrepareTask(kind, task, env, pod) ==
  IF kind = "PostDeploy"
    THEN << <<"kubectl">>, <<"exec">>, <<pod>>, <<"--">> >> \o EvaluateArgs(task, env)
    ELSE EvaluateArgs(task, env)

\* Run: the tasks of the kind, a map, in any order.  Each is run, whatever the
\* others did; an unknown kind is an error, and failing tasks are none.
Run(tasks, kind, env, pod, failing) ==
  IF kind \notin Kinds THEN {<<"not_supported">>}
  ELSE { [i \in DOMAIN order |->
            LET command == PrepareTask(kind, tasks[kind][order[i]], env, pod)
            IN  [command |-> command, pass |-> command \notin failing]] :
         order \in SetToSeqs(DOMAIN tasks[kind]) }

-----------------------------------------------------------------------------
(* Plugins.  The arguments that follow the plugin's name are words: flags  *)
(* of draft itself, with their value in the same word (of the form         *)
(* <<flag, value>>) or in the next, and whatever the plugin takes.         *)

ValueFlags == {"--host", "--kube-context", "--home"}

IsKnown(a) == a[1] \in ValueFlags \union {"--debug"} /\ (Len(a) = 2 => a[1] \in ValueFlags)

TakesNext(a) == Len(a) = 1 /\ a[1] \in ValueFlags

\* An argument is the value of the flag before it unless that is one itself.
Values(args) ==
  LET value[i \in 0 .. Len(args)] == i > 1 /\ TakesNext(args[i - 1]) /\ ~value[i - 1]
  IN  {i \in DOMAIN args : value[i]}

\* manuallyProcessArgs: args[i+1] of a last flag is out of range.
ManuallyProcessArgs(args) ==
  LET known == Values(args) \union {i \in DOMAIN args : IsKnown(args[i])}
      those(indices) == [n \in 1 .. Cardinality(indices) |-> args[SetToSortSeq(indices, <)[n]]]
  IN  IF args # <<>> /\ TakesNext(Last(args)) /\ Len(args) \notin Values(args)
        THEN [known |-> <<"panic">>, unknown |-> <<>>]
        ELSE [known |-> those(known), unknown |-> those(DOMAIN args \ known)]

\* PrepareCommand: the arguments of the user are expanded too.
PrepareCommand(plugin, extra, env) ==
  Expanded(IF plugin.ignoreFlags THEN plugin.command ELSE plugin.command \o extra, PluginPiece, env)

\* loadPlugins compares the Use of the commands there are, their names, with
\* the Usage of the plugin, its description: only a plugin that is described
\* by the name of a command is left out, one of the same name is added again.
CommandsWith(commands, plugins) ==
  FoldLeft(LAMBDA cs, p : IF p.usage \in Range(cs) THEN cs ELSE Append(cs, p.name), commands, plugins)
=============================================================================
