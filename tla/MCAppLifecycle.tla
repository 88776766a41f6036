--------------------------- MODULE MCAppLifecycle ----------------------------
EXTENDS AppLifecycle, Sequences, FiniteSets

Listing == INSTANCE HistoryListing
Lines   == INSTANCE CommandLines

-----------------------------------------------------------------------------
(* What draft history lists.                                               *)

SomeBuild(i, created) == [id |-> i, created |-> created, release |-> ""]

\* The newest come first; and what --max leaves out is not older than what is
\* shown, although one would look for the newest builds.
ASSUME HistoryListed ==
  \A n \in 0 .. 3, max \in 0 .. 4 : \A created \in [1 .. n -> 1 .. 3] :
    LET objs  == [i \in 1 .. n |-> SomeBuild(i, created[i])]
        shown == Listing!ToBuildHistory(Listing!GetHistory(objs, max))
        left  == {i \in 1 .. n : \A j \in DOMAIN shown : shown[j].id # i}
    IN  /\ Len(shown) = (IF n < max THEN n ELSE max)
        /\ \A i, j \in DOMAIN shown : i < j => created[shown[i].id] >= created[shown[j].id]
        /\ \A i \in DOMAIN shown, k \in left : created[shown[i].id] <= created[k]

-----------------------------------------------------------------------------
(* The command lines of tasks and plugins.                                 *)

Var == Lines!Variable("FOO")
Pieces == {Lines!Text("a"), Var, Lines!DollarEscaped("FOO"), Lines!BackslashEscaped("FOO")}
Args == {<<p>> : p \in Pieces} \union {<<p, q>> : p, q \in Pieces}
Environments == {[FOO |-> "x y"], [BAR |-> "z"]}

\* A task has as many arguments as it was written with, whatever is in the
\* environment, and an escaped variable is never replaced; nor does a task that
\* fails keep another from being run.
ASSUME TasksEvaluated ==
  \A a, b \in Args, env \in Environments :
    LET args == Lines!EvaluateArgs(<<a, b>>, env) IN
      /\ Len(args) = 2
      /\ Var \notin {a[i] : i \in DOMAIN a} => args[1] = Lines!EvaluateArgs(<<a>>, [none |-> ""])[1]

ASSUME TasksAllRun ==
  LET tasks == [PreUp |-> [one |-> << <<Lines!Text("a")>> >>, two |-> << <<Lines!Text("b")>> >>]]
      runs == Lines!Run(tasks, "PreUp", [none |-> ""], "pod", {<< <<"a">> >>})
  IN  /\ Cardinality(runs) = 2
      /\ \A results \in runs : {results[i].pass : i \in DOMAIN results} = BOOLEAN

\* Escapes are of tasks only: a plugin's command line and its user's arguments
\* are expanded, and an escape is lost or is left before the value.
ASSUME PluginsExpanded ==
  \A ignore \in BOOLEAN :
    LET plugin == [ignoreFlags |-> ignore, command |-> << <<Lines!Text("a")>> >>]
        line == Lines!PrepareCommand(plugin, << <<Lines!DollarEscaped("FOO")>>,
                                                <<Lines!BackslashEscaped("FOO")>> >>, [FOO |-> "x"])
    IN  line = << <<"a">> >> \o IF ignore THEN <<>> ELSE << <<"FOO">>, <<"\\", "x">> >>

SomeArgs == {<<"--debug">>, <<"--home">>, <<"--home", "d">>, <<"--other">>, <<"d">>}

\* Every argument goes to draft or to the plugin, in the order given; a flag of
\* draft gets to the plugin in no case, but one without its value is a panic.
ASSUME ArgsDivided ==
  \A n \in 0 .. 3 : \A args \in [1 .. n -> SomeArgs] :
    LET divided == Lines!ManuallyProcessArgs(args) IN
      IF divided.known = <<"panic">>
        THEN args[n] = <<"--home">>
        ELSE /\ Len(divided.known) + Len(divided.unknown) = n
             /\ \A i \in DOMAIN divided.unknown : divided.unknown[i] \in {<<"--other">>, <<"d">>}
             /\ \A i \in 1 .. n - 1 :
                  args[i] = <<"--home">> /\ (i = 1 \/ args[i - 1] # <<"--home">>) =>
                    \E j \in DOMAIN divided.known :
                      divided.known[j] = args[i] /\ divided.known[j + 1] = args[i + 1]

\* A plugin called like a command of draft does not replace it but stands beside
\* it, unless its description is that name.
ASSUME PluginsBesideCommands ==
  LET plugin(usage) == [name |-> "up", usage |-> usage] IN
    /\ Lines!CommandsWith(<<"up">>, <<plugin("deploys")>>) = <<"up", "up">>
    /\ Lines!CommandsWith(<<"up">>, <<plugin("up")>>) = <<"up">>
=============================================================================
