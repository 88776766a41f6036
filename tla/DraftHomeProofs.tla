--------------------------- MODULE DraftHomeProofs ---------------------------
(***************************************************************************)
(* Proofs about the runs of draft that work on the developer's files, for  *)
(* any terminals, commands, keys, plugins and packs: what a save of the    *)
(* configuration may lose, what init and create leave when they say that   *)
(* they are done, why init fails, and which pack is chosen; and which of   *)
(* the application's files are counted for that choice.                    *)
(***************************************************************************)
EXTENDS DraftHome, LanguageRules, FiniteSetTheorems, WellFoundedInduction, TLAPS

-----------------------------------------------------------------------------
(* The inductive invariant.                                                *)

Commands == UNION Agendas
Contents == (SUBSET Keys) \union {NoFile, Garbled}

\* The steps of a command.
ConfigSteps == {"truncate", "encode"}
CreateSteps == {"check_charts", "choose", "mkdir"} \union Scaffolding
InstallSteps == {"check", "sync", "clone", "version", "link"}
InitSteps == InstallSteps \union
  {"directories", "config", "plugins", "packs", "load", "unlink", "delete_hook"}
PluginSteps == InstallSteps \union {"load", "unlink", "delete_hook", "find", "pull"}

StepsOf(op) ==
  CASE op \in {"set", "unset"} -> ConfigSteps
    [] op = "create" -> CreateSteps
    [] op = "init" -> InitSteps
    [] OTHER -> PluginSteps

Steps == ConfigSteps \union CreateSteps \union InitSteps \union PluginSteps

ItemNames == {c.item : c \in Commands} \union {"", Builtin, Packs}
VersionNames == {c.version : c \in Commands} \union {"", BuiltinVersion} \union PacksVersions

Runs ==
  [cmd : Commands \union {NoRun.cmd}, pc : Steps \union Over, read : Contents,
   item : ItemNames, version : VersionNames,
   loaded : BOOLEAN, stale : BOOLEAN, alone : BOOLEAN]

TypeInv ==
  /\ agenda \in Agendas /\ homeDir \in BOOLEAN /\ config \in Contents
  /\ acked \in [Keys -> {"unknown", "set", "unset"}]
  /\ proc \in [Procs -> Runs]

\* A run is at a step of its command, and has read what can be read.
RunInv ==
  \A p \in Procs : Running(p) =>
    /\ proc[p].pc \in StepsOf(Op(p)) /\ proc[p].cmd \in Commands
    /\ proc[p].read # Garbled
    /\ Op(p) \in {"set", "unset"} => proc[p].item \in Keys

\* No key that was last unset is in c, and every key that was last set is.
KeepsOut(c) == \A k \in Keys : acked[k] = "unset" => c # Garbled /\ k \notin c
KeepsIn(c) == \A k \in Keys : acked[k] = "set" => k \in c

Saving(p) == At(p, "encode")

\* What a run has read and no other has written since is what was last set, or
\* it was read in the middle of another's save that is not over.
SaveInv ==
  /\ KeepsOut(config)
  /\ (\A p \in Procs : ~Saving(p)) => KeepsIn(config)
  /\ \A p \in Procs : Running(p) /\ ~proc[p].stale =>
       /\ KeepsOut(proc[p].read)
       /\ KeepsIn(proc[p].read) \/ \E q \in Procs \ {p} : Saving(q)

\* A run that has been alone is the only one.
LoneInv ==
  \A p, q \in Procs : Running(p) /\ Running(q) /\ proc[p].alone => p = q

\* Everything that up needs is there.
Complete ==
  /\ charts = "full" /\ toml \in {"written", "garbled"}
  /\ \A f \in {"tasks", "others", "ignore"} : files[f] # "none"

\* What a run of create has made by each of its steps.
Made(p) ==
  /\ proc[p].pc \in Scaffolding => charts # "none"
  /\ proc[p].pc \in Scaffolding \ {"charts"} => charts = "full"
  /\ proc[p].pc \in Scaffolding \ {"charts", "tasks"} => files["tasks"] # "none"
  /\ proc[p].pc \in {"toml", "encode_toml", "ignore"} => files["others"] # "none"
  /\ proc[p].pc = "ignore" => toml \in {"written", "garbled"}

\* One run at most is past os.Mkdir; if none is and none has broken off, all is
\* there or nothing.
ScaffoldInv ==
  /\ DOMAIN files = {"tasks", "others", "ignore"}
  /\ \A p, q \in Procs : proc[p].pc \in Scaffolding /\ proc[q].pc \in Scaffolding => p = q
  /\ \A p \in Procs : Made(p)
  /\ charts # "none" /\ ~broken /\ (\A p \in Procs : proc[p].pc \notin Scaffolding) => Complete

\* The built-in plugin is installed in its version.
BuiltinReady == link[Builtin] /\ Content(Builtin) = BuiltinVersion

\* What a run of init that is alone has done by each of its steps.
InitDone(p) ==
  /\ proc[p].pc # "directories" => homeDir
  /\ proc[p].pc \notin {"directories", "config"} => config # NoFile
  /\ proc[p].pc \in {"directories", "config", "plugins"} => proc[p].loaded = PackRepoLoaded
  /\ proc[p].pc \in InstallSteps =>
       \/ proc[p].item = Builtin /\ proc[p].version = BuiltinVersion
       \/ proc[p].item = Packs /\ proc[p].version \in PacksVersions /\ BuiltinReady
  /\ proc[p].pc \in {"unlink", "delete_hook"} =>
       proc[p].item = Builtin /\ proc[p].version = BuiltinVersion
  /\ At(p, "delete_hook") => ~link[Builtin]
  /\ At(p, "check") => ~Found(proc[p].item)
  /\ proc[p].pc \in InstallSteps \ {"check"} => ~link[proc[p].item]
  /\ At(p, "link") /\ proc[p].item = Builtin => Content(Builtin) = BuiltinVersion
  /\ At(p, "load") => proc[p].item = Builtin /\ BuiltinReady
  /\ At(p, "packs") => BuiltinReady /\ (proc[p].loaded \/ FindError)

InitInv ==
  \A p \in Procs : Running(p) /\ Op(p) = "init" /\ proc[p].alone => InitDone(p)

HomeTypes ==
  /\ link \in [Items -> BOOLEAN]
  /\ cache \in [Items -> TagSet \union {"none", "partial", "old", "branch"}]

IInv == TypeInv /\ RunInv /\ SaveInv /\ LoneInv /\ ScaffoldInv /\ HomeTypes /\ InitInv

-----------------------------------------------------------------------------
(* How a step moves the runs.                                              *)

\* The run p goes on at a step or ends; the others are left alone.
Moved(p, step) ==
  /\ proc' \in [Procs -> Runs]
  /\ \A q \in Procs \ {p} : proc'[q] = proc[q]
  /\ proc'[p].pc = step
  /\ step \notin Over =>
       /\ proc'[p].cmd = proc[p].cmd /\ proc'[p].read = proc[p].read
       /\ proc'[p].stale = proc[p].stale /\ proc'[p].alone = proc[p].alone

\* It is still at work on the same item.
SameWork(p) ==
  /\ proc'[p].item = proc[p].item /\ proc'[p].version = proc[p].version
  /\ proc'[p].loaded = proc[p].loaded

\* No run, and what a run is made from.
LEMMA NoRunIsRun == NoRun \in Runs /\ NoRun.cmd.op = "none" /\ ~NoRun.stale
<1>1. "" \in ItemNames /\ "" \in VersionNames /\ {} \in Contents /\ "ok" \in Over
  BY DEF ItemNames, VersionNames, Contents, Over
<1> QED
  BY <1>1 DEF Runs, NoRun

\* Where a run goes, or what is left of it.
LEMMA RunAtTypes ==
  ASSUME TypeInv, NEW p \in Procs, NEW step \in Steps \union Over
  PROVE  /\ RunAt(p, step) \in Runs /\ RunAt(p, step).pc = step
         /\ step \notin Over => RunAt(p, step) = [proc[p] EXCEPT !.pc = step]
<1>1. ASSUME NEW n \in Runs PROVE [n EXCEPT !.pc = step] \in Runs /\ [n EXCEPT !.pc = step].pc = step
  BY DEF Runs
<1> QED
  BY <1>1, NoRunIsRun DEF RunAt, TypeInv

\* Goto, and with it every way to end a run, moves that run.
LEMMA GotoMoves ==
  ASSUME TypeInv, NEW p \in Procs, NEW step \in Steps \union Over, Goto(p, step)
  PROVE  Moved(p, step) /\ (step \notin Over => SameWork(p))
<1>1. RunAt(p, step) \in Runs /\ RunAt(p, step).pc = step
  BY RunAtTypes
<1>2. proc' = [proc EXCEPT ![p] = RunAt(p, step)] /\ proc \in [Procs -> Runs]
  BY DEF Goto, TypeInv
<1>3. /\ proc' \in [Procs -> Runs] /\ proc'[p] = RunAt(p, step)
      /\ \A q \in Procs \ {p} : proc'[q] = proc[q]
  BY <1>1, <1>2
<1>4. step \notin Over => RunAt(p, step) = [proc[p] EXCEPT !.pc = step]
  BY DEF RunAt
<1> QED
  BY <1>1, <1>2, <1>3, <1>4 DEF Moved, SameWork, Runs

\* The steps of one command are no ends, and only those of set and unset are
\* steps of a save.
LEMMA StepNames ==
  /\ Steps \intersect Over = {}
  /\ \A op : StepsOf(op) \subseteq Steps
  /\ \A op : op \notin {"set", "unset"} => StepsOf(op) \intersect ConfigSteps = {}
  /\ StepsOf("create") = CreateSteps /\ StepsOf("init") = InitSteps
  /\ StepsOf("set") = ConfigSteps /\ StepsOf("unset") = ConfigSteps
BY DEF Steps, Over, StepsOf, ConfigSteps, CreateSteps, Scaffolding, InitSteps, PluginSteps, InstallSteps

\* A run that turns to another item, or that has loaded the plugins anew.
LEMMA TurnMoves ==
  ASSUME TypeInv, NEW p \in Procs, NEW step \in Steps,
         NEW item \in ItemNames, NEW version \in VersionNames, NEW loaded \in BOOLEAN,
         \/ proc' = [proc EXCEPT ![p].item = item, ![p].version = version, ![p].pc = step]
         \/ proc' = [proc EXCEPT ![p].pc = step, ![p].loaded = loaded]
  PROVE  Moved(p, step)
<1>1. proc \in [Procs -> Runs] /\ step \notin Over
  BY StepNames DEF TypeInv
<1>2. CASE proc' = [proc EXCEPT ![p].item = item, ![p].version = version, ![p].pc = step]
  <2>1. /\ DOMAIN proc' = Procs /\ \A q \in Procs \ {p} : proc'[q] = proc[q]
        /\ proc'[p] = [proc[p] EXCEPT !.item = item, !.version = version, !.pc = step]
    BY <1>1, <1>2
  <2>2. proc'[p] \in Runs
    BY <1>1, <2>1 DEF Runs
  <2>3. proc' \in [Procs -> Runs]
    BY <1>1, <1>2, <2>1, <2>2
  <2> QED
    BY <1>1, <2>1, <2>3 DEF Moved, Runs
<1>3. CASE proc' = [proc EXCEPT ![p].pc = step, ![p].loaded = loaded]
  <2>1. /\ DOMAIN proc' = Procs /\ \A q \in Procs \ {p} : proc'[q] = proc[q]
        /\ proc'[p] = [proc[p] EXCEPT !.pc = step, !.loaded = loaded]
    BY <1>1, <1>3
  <2>2. proc'[p] \in Runs
    BY <1>1, <2>1 DEF Runs
  <2>3. proc' \in [Procs -> Runs]
    BY <1>1, <1>3, <2>1, <2>2
  <2> QED
    BY <1>1, <2>1, <2>3 DEF Moved, Runs
<1> QED
  BY <1>2, <1>3

\* The steps that a run of init or of a plugin command goes on with.
LEMMA HomeMoves ==
  ASSUME TypeInv, RunInv, NEW p \in Procs, HomeStep(p)
  PROVE  /\ Running(p) /\ proc[p].pc \in InitSteps \union PluginSteps
         /\ Op(p) \notin {"set", "unset", "create"}
         /\ \E step \in StepsOf(Op(p)) \union Over : Moved(p, step)
<1> DEFINE Goes == \E step \in StepsOf(Op(p)) \union Over : Goto(p, step)
<1> USE DEF At
<1>1. Goes => \E step \in StepsOf(Op(p)) \union Over : Moved(p, step)
  BY GotoMoves, StepNames
<1>2. Running(p) => proc[p].pc \in StepsOf(Op(p))
  BY DEF RunInv
<1>3. ASSUME proc[p].pc \in InitSteps \union PluginSteps
      PROVE  Running(p) /\ Op(p) \notin {"set", "unset", "create"}
  BY <1>2, <1>3 DEF StepsOf, Running, Over, InitSteps, PluginSteps, InstallSteps, ConfigSteps, CreateSteps, Scaffolding
<1> USE DEF StepsOf, InitSteps, PluginSteps, InstallSteps, Over, Fail, Succeed, Fault
<1>4. CASE CheckInstall(p) \/ Sync(p) \/ Clone(p) \/ SetVersion(p)
  <2>1. /\ proc[p].pc \in {"check", "sync", "clone", "version"}
        /\ \E step \in {"sync", "clone", "version", "link"} \union Over : Goto(p, step)
    BY <1>4 DEF CheckInstall, Sync, Clone, SetVersion
  <2> QED
    BY <1>1, <1>3, <2>1
<1>5. CASE Link(p) \/ FindToChange(p) \/ Unlink(p) \/ DeleteHook(p) \/ Pull(p)
  <2>1. /\ proc[p].pc \in {"link", "find", "unlink", "delete_hook", "pull"}
        /\ \E step \in {"load", "unlink", "pull", "delete_hook", "check"} \union Over : Goto(p, step)
        /\ Op(p) = "init" => \E step \in {"load", "delete_hook", "check"} \union Over : Goto(p, step)
    BY <1>2, <1>3, <1>5 DEF Link, FindToChange, Unlink, DeleteHook, Pull
  <2> QED
    BY <1>1, <1>3, <2>1
<1>6. CASE EnsureDirectories(p) \/ EnsureConfig(p)
  <2>1. /\ proc[p].pc \in {"directories", "config"}
        /\ \E step \in {"config", "plugins"} \union Over : Goto(p, step)
    BY <1>6 DEF EnsureDirectories, EnsureConfig
  <2>2. Op(p) = "init"
    BY <1>2, <1>3, <2>1
  <2> QED
    BY <1>1, <1>3, <2>1, <2>2
<1>7. CASE LoadAndHook(p) \/ EnsurePlugins(p) \/ EnsurePacks(p)
  <2>1. proc[p].pc \in {"load", "plugins", "packs"}
    BY <1>7 DEF LoadAndHook, EnsurePlugins, EnsurePacks
  <2>2. /\ Running(p) /\ proc[p].pc \in StepsOf(Op(p)) /\ Op(p) \notin {"set", "unset", "create"}
        /\ proc[p].pc # "load" => Op(p) = "init"
    BY <1>2, <1>3, <2>1
  <2>3. CASE \E step \in Over : Goto(p, step)
    BY <1>1, <2>1, <2>2, <2>3
  <2>4. CASE /\ Op(p) = "init"
             /\ proc' = [proc EXCEPT ![p].pc = "packs", ![p].loaded = @ \/ PackRepoLoaded]
    <3>1. (proc[p].loaded \/ PackRepoLoaded) \in BOOLEAN
      OBVIOUS
    <3>2. Moved(p, "packs")
      BY <2>4, <3>1, TurnMoves DEF Steps, ItemNames, VersionNames
    <3> QED
      BY <2>1, <2>2, <2>4, <3>2
  <2>5. CASE /\ Op(p) = "init"
             /\ \E i \in {Builtin, Packs}, v \in PacksVersions \union {BuiltinVersion},
                   step \in {"check", "packs", "unlink"} :
                  proc' = [proc EXCEPT ![p].item = i, ![p].version = v, ![p].pc = step]
    <3>1. \E step \in {"check", "packs", "unlink"} : Moved(p, step)
      BY <2>5, TurnMoves DEF Steps, ItemNames, VersionNames
    <3> QED
      BY <2>1, <2>2, <2>5, <3>1
  <2> QED
    BY <1>7, <2>2, <2>3, <2>4, <2>5 DEF LoadAndHook, EnsurePlugins, EnsurePacks
<1> QED
  BY <1>4, <1>5, <1>6, <1>7 DEF HomeStep

\* What the steps of init and of the plugin commands leave of the configuration:
\* an empty one at most where there was none.
LEMMA HomeLeavesConfig ==
  ASSUME TypeInv, NEW p \in Procs, HomeStep(p)
  PROVE  /\ UNCHANGED <<agenda, acked>> /\ homeDir' \in BOOLEAN
         /\ config' = config \/ (config = NoFile /\ config' = {})
<1> USE DEF configVars, TypeInv
<1>1. CASE CheckInstall(p) \/ Sync(p) \/ Clone(p) \/ SetVersion(p) \/ Link(p) \/ LoadAndHook(p)
  BY <1>1 DEF CheckInstall, Sync, Clone, SetVersion, Link, LoadAndHook
<1>2. CASE FindToChange(p) \/ Unlink(p) \/ DeleteHook(p) \/ Pull(p) \/ EnsurePlugins(p) \/ EnsurePacks(p)
  BY <1>2 DEF FindToChange, Unlink, DeleteHook, Pull, EnsurePlugins, EnsurePacks
<1>3. CASE EnsureDirectories(p) \/ EnsureConfig(p)
  BY <1>3 DEF EnsureDirectories, EnsureConfig
<1> QED
  BY <1>1, <1>2, <1>3 DEF HomeStep

\* The steps that a run of create goes on with.
LEMMA CreateMoves ==
  ASSUME TypeInv, RunInv, NEW p \in Procs, CreateStep(p, Repositories)
  PROVE  /\ Running(p) /\ proc[p].pc \in CreateSteps /\ Op(p) = "create"
         /\ \E step \in StepsOf(Op(p)) \union Over : Moved(p, step)
<1> USE DEF At
<1>1. Running(p) => proc[p].pc \in StepsOf(Op(p))
  BY DEF RunInv
<1>2. ASSUME proc[p].pc \in CreateSteps
      PROVE  Running(p) /\ Op(p) = "create"
  BY <1>1, <1>2 DEF StepsOf, Running, Over, InitSteps, PluginSteps, InstallSteps, ConfigSteps, CreateSteps, Scaffolding
<1> USE DEF Over, Fail, Succeed, Fault, CreateFault, CreateSteps, Scaffolding
<1>3. CASE CheckCharts(p) \/ ChoosePack(p, Repositories) \/ MakeCharts(p) \/ SaveCharts(p)
  <2>1. proc[p].pc \in CreateSteps
    BY <1>3 DEF CheckCharts, ChoosePack, MakeCharts, SaveCharts
  <2>2. \E step \in CreateSteps \union Over : Goto(p, step)
    <3>1. CASE CheckCharts(p) \/ MakeCharts(p) \/ SaveCharts(p)
      BY <3>1 DEF CheckCharts, MakeCharts, SaveCharts
    <3>2. CASE ChoosePack(p, Repositories)
      <4>1. Goto(p, "failed") \/ Goto(p, "fault") \/ Goto(p, "mkdir")
        BY <3>2 DEF ChoosePack
      <4> QED
        BY <4>1
    <3> QED
      BY <1>3, <3>1, <3>2
  <2> QED
    BY <1>2, <2>1, <2>2, GotoMoves, StepNames
<1>4. CASE SaveTasks(p) \/ SaveOthers(p) \/ OpenToml(p) \/ EncodeToml(p) \/ SaveIgnore(p)
  <2>1. proc[p].pc \in CreateSteps /\ \E step \in CreateSteps \union Over : Goto(p, step)
    BY <1>4 DEF SaveTasks, SaveOthers, OpenToml, EncodeToml, SaveIgnore, SaveFile
  <2> QED
    BY <1>2, <2>1, GotoMoves, StepNames
<1> QED
  BY <1>3, <1>4 DEF CreateStep

\* A save moves its run, and makes what the others have read old if it has
\* written anything.
LEMMA ConfigMoves ==
  ASSUME TypeInv, RunInv, NEW p \in Procs, ConfigStep(p)
  PROVE  /\ Running(p) /\ proc[p].pc \in ConfigSteps /\ Op(p) \in {"set", "unset"}
         /\ proc' \in [Procs -> Runs]
         /\ proc'[p].pc = "encode" =>
              /\ At(p, "truncate")
              /\ proc'[p].cmd = proc[p].cmd /\ proc'[p].read = proc[p].read
              /\ proc'[p].item = proc[p].item
              /\ proc'[p].stale = proc[p].stale /\ proc'[p].alone = proc[p].alone
         /\ proc'[p].pc \in {"encode"} \union Over
         /\ \A q \in Procs \ {p} :
              /\ proc'[q].pc = proc[q].pc /\ proc'[q].cmd = proc[q].cmd /\ proc'[q].read = proc[q].read
              /\ proc'[q].item = proc[q].item /\ proc'[q].alone = proc[q].alone
              /\ \/ proc'[q].stale = proc[q].stale /\ config' = config
                 \/ proc'[q].stale = Running(q)
<1> USE DEF At
<1>1. /\ Running(p) /\ proc[p].pc \in ConfigSteps
      /\ proc[p].pc \in StepsOf(Op(p))
  BY DEF ConfigStep, Truncate, Encode, Running, Over, RunInv, ConfigSteps
<1>2. Op(p) \in {"set", "unset"}
  BY <1>1 DEF StepsOf, ConfigSteps, CreateSteps, Scaffolding, InitSteps, PluginSteps, InstallSteps
<1>3. ASSUME NEW step \in Over, Goto(p, step)
      PROVE  /\ proc' \in [Procs -> Runs] /\ proc'[p].pc \in Over /\ proc'[p].pc # "encode"
             /\ \A q \in Procs \ {p} : proc'[q] = proc[q]
  BY <1>3, GotoMoves DEF Moved, Over
<1>4. ASSUME NEW step \in {"encode"} \union Over, GotoOthersStale(p, step)
      PROVE  /\ proc' \in [Procs -> Runs] /\ proc'[p] = RunAt(p, step)
             /\ \A q \in Procs \ {p} : proc'[q] = [proc[q] EXCEPT !.stale = Running(q)]
  <2>1. RunAt(p, step) \in Runs
    <3>1. step \in Steps \union Over
      BY <1>4 DEF Steps, ConfigSteps
    <3> QED
      BY <3>1, RunAtTypes
  <2>2. \A q \in Procs : [proc[q] EXCEPT !.stale = Running(q)] \in Runs
    BY DEF TypeInv, Runs, Running
  <2> QED
    BY <1>4, <2>1, <2>2 DEF GotoOthersStale
<1>5. CASE \E step \in Over : Goto(p, step) /\ UNCHANGED config
  BY <1>1, <1>2, <1>3, <1>5
<1>6. CASE /\ proc[p].pc = "truncate" /\ GotoOthersStale(p, "encode")
  <2>1. RunAt(p, "encode") = [proc[p] EXCEPT !.pc = "encode"] /\ "encode" \notin Over
    BY RunAtTypes DEF Over, Steps, ConfigSteps
  <2>2. /\ proc' \in [Procs -> Runs] /\ proc'[p] = [proc[p] EXCEPT !.pc = "encode"]
        /\ \A q \in Procs \ {p} : proc'[q] = [proc[q] EXCEPT !.stale = Running(q)]
    BY <1>4, <1>6, <2>1
  <2> QED
    BY <1>1, <1>2, <1>6, <2>2 DEF TypeInv, Runs
<1>7. CASE GotoOthersStale(p, "ok")
  <2>1. RunAt(p, "ok").pc = "ok"
    BY RunAtTypes DEF Over
  <2>2. /\ proc' \in [Procs -> Runs] /\ proc'[p].pc = "ok"
        /\ \A q \in Procs \ {p} : proc'[q] = [proc[q] EXCEPT !.stale = Running(q)]
    BY <1>4, <1>7, <2>1 DEF Over
  <2> QED
    BY <1>1, <1>2, <2>2 DEF TypeInv, Runs, Over
<1> QED
  BY <1>5, <1>6, <1>7 DEF ConfigStep, Truncate, Encode, Fail, Fault, Over

\* A command begins: what it has read is the configuration as it is, and those
\* that run are not alone any more.
LEMMA BeginMoves ==
  ASSUME TypeInv, NEW p \in Procs, Begin(p)
  PROVE  /\ ~Running(p) /\ UNCHANGED <<configVars, homeVars, appVars>>
         /\ proc' \in [Procs -> Runs]
         /\ \E cmd \in Commands :
              /\ proc'[p].cmd = cmd /\ proc'[p].item = cmd.item
              /\ proc'[p].pc = IF config = Garbled THEN "failed" ELSE FirstStep[cmd.op]
         /\ proc'[p].read = config /\ proc'[p].loaded = PackRepoLoaded
         /\ proc'[p].alone <=> \A q \in Procs \ {p} : ~Running(q)
         /\ \A q \in Procs \ {p} :
              /\ proc'[q].pc = proc[q].pc /\ proc'[q].cmd = proc[q].cmd /\ proc'[q].read = proc[q].read
              /\ proc'[q].item = proc[q].item /\ proc'[q].version = proc[q].version
              /\ proc'[q].stale = proc[q].stale /\ proc'[q].loaded = proc[q].loaded
              /\ proc'[q].alone <=> proc[q].alone /\ ~Running(q)
<1>1. PICK cmd \in agenda : BeginRun(p, cmd, FirstStep[cmd.op], PackRepoLoaded)
  BY DEF Begin
<1>2. cmd \in Commands /\ cmd.op \in Ops /\ PackRepoLoaded \in BOOLEAN
  BY CommandsAssumption DEF TypeInv, Commands, PackRepoLoaded
<1> DEFINE others == {q \in Procs \ {p} : Running(q)}
           alone == (others = {})
           pc == IF config = Garbled THEN "failed" ELSE FirstStep[cmd.op]
           run == [NoRun EXCEPT !.cmd = cmd, !.read = config, !.item = cmd.item,
                                !.version = cmd.version, !.loaded = PackRepoLoaded,
                                !.alone = alone, !.pc = pc]
<1>3. proc' = [q \in Procs |-> IF q = p THEN run
                               ELSE IF q \in others THEN [proc[q] EXCEPT !.alone = FALSE]
                               ELSE proc[q]]
  BY <1>1, Zenon DEF BeginRun
<1>4. pc \in Steps \union Over
  BY <1>2 DEF FirstStep, Ops, Steps, Over, ConfigSteps, CreateSteps, InitSteps, PluginSteps, InstallSteps
<1>5. /\ config \in Contents /\ cmd.item \in ItemNames /\ cmd.version \in VersionNames
      /\ alone \in BOOLEAN
  BY <1>2 DEF TypeInv, ItemNames, VersionNames
<1> HIDE DEF pc, alone
<1>6. /\ run \in Runs
      /\ run.cmd = cmd /\ run.read = config /\ run.item = cmd.item /\ run.pc = pc
      /\ run.loaded = PackRepoLoaded /\ run.alone = alone
  <2> HIDE DEF run
  <2>1. ASSUME NEW l \in BOOLEAN, NEW a \in BOOLEAN, NEW r,
               r = [NoRun EXCEPT !.cmd = cmd, !.read = config, !.item = cmd.item,
                                 !.version = cmd.version, !.loaded = l, !.alone = a, !.pc = pc]
        PROVE  /\ r \in Runs
               /\ r.cmd = cmd /\ r.read = config /\ r.item = cmd.item /\ r.pc = pc
               /\ r.loaded = l /\ r.alone = a
    BY <1>2, <1>4, <1>5, <2>1, NoRunIsRun DEF Runs
  <2> QED
    BY <1>2, <1>5, <2>1, Zenon DEF run
<1> HIDE DEF run
<1>7. ASSUME NEW q \in Procs \ {p}
      PROVE  /\ proc'[q] \in Runs
             /\ proc'[q].pc = proc[q].pc /\ proc'[q].cmd = proc[q].cmd /\ proc'[q].read = proc[q].read
             /\ proc'[q].item = proc[q].item /\ proc'[q].version = proc[q].version
             /\ proc'[q].stale = proc[q].stale /\ proc'[q].loaded = proc[q].loaded
             /\ proc'[q].alone <=> proc[q].alone /\ ~Running(q)
  <2>1. proc[q] \in Runs
    BY DEF TypeInv
  <2>2. CASE Running(q)
    <3>1. proc'[q] = [proc[q] EXCEPT !.alone = FALSE]
      BY <1>3, <2>2
    <3> QED
      BY <2>1, <2>2, <3>1 DEF Runs
  <2>3. CASE ~Running(q)
    BY <1>3, <2>1, <2>3
  <2> QED
    BY <2>2, <2>3
<1>8. proc'[p] = run /\ DOMAIN proc' = Procs
  BY <1>3
<1>9. proc' \in [Procs -> Runs]
  BY <1>3, <1>6, <1>7, <1>8
<1>10. proc'[p].alone <=> \A q \in Procs \ {p} : ~Running(q)
  <2>1. proc'[p].alone = alone
    BY <1>6, <1>8
  <2>2. alone <=> \A q \in Procs \ {p} : ~Running(q)
    BY DEF alone
  <2> QED
    BY <2>1, <2>2
<1>11. ~Running(p) /\ UNCHANGED <<configVars, homeVars, appVars>>
  BY <1>1 DEF Begin, BeginRun
<1>12. /\ proc'[p].cmd = cmd /\ proc'[p].item = cmd.item /\ proc'[p].pc = pc
       /\ proc'[p].read = config /\ proc'[p].loaded = PackRepoLoaded
  BY <1>6, <1>8
<1> QED
  BY <1>2, <1>7, <1>9, <1>10, <1>11, <1>12 DEF pc

\* A run is killed.
LEMMA KillMoves ==
  ASSUME TypeInv, NEW p \in Procs, Killed(p)
  PROVE  Running(p) /\ Moved(p, "killed") /\ UNCHANGED <<agenda, homeDir, config, homeVars>>
BY GotoMoves DEF Killed, Kill, Over


\* What a run does on its own steps to itself and to the others.
Worked(p) ==
  /\ Running(p) /\ proc' \in [Procs -> Runs]
  /\ proc'[p].pc \in StepsOf(Op(p)) \union Over
  /\ proc'[p].pc \notin Over =>
       /\ proc'[p].cmd = proc[p].cmd /\ proc'[p].read = proc[p].read
       /\ Op(p) \in {"set", "unset"} => proc'[p].item = proc[p].item
       /\ proc'[p].alone <=> proc[p].alone
  /\ \A q \in Procs \ {p} :
       /\ proc'[q].pc = proc[q].pc /\ proc'[q].cmd = proc[q].cmd /\ proc'[q].read = proc[q].read
       /\ proc'[q].item = proc[q].item
       /\ proc'[q].alone <=> proc[q].alone

\* A step of a command, or its kill, is one of a run that goes on with that
\* command or ends.
LEMMA WorkMoves ==
  ASSUME TypeInv, RunInv, NEW p \in Procs,
         ConfigStep(p) \/ HomeStep(p) \/ CreateStep(p, Repositories) \/ Killed(p)
  PROVE  Worked(p)
<1>1. CASE ConfigStep(p)
  BY <1>1, ConfigMoves, StepNames DEF Worked, ConfigSteps
<1>2. ASSUME Running(p), NEW step \in StepsOf(Op(p)) \union Over, Moved(p, step),
             step \notin Over => Op(p) \notin {"set", "unset"}
      PROVE  Worked(p)
  BY <1>2 DEF Moved, Worked
<1>3. CASE HomeStep(p)
  BY <1>2, <1>3, HomeMoves
<1>4. CASE CreateStep(p, Repositories)
  BY <1>2, <1>4, CreateMoves
<1>5. CASE Killed(p)
  <2>1. "killed" \in Over
    BY DEF Over
  <2> QED
    BY <1>2, <1>5, <2>1, KillMoves
<1> QED
  BY <1>1, <1>3, <1>4, <1>5

-----------------------------------------------------------------------------
(* The configuration.                                                      *)

\* Every value keeps its type, whatever the step: a save writes keys of the
\* configuration, and remembers them by the names of the commands.
LEMMA TypesKept ==
  ASSUME TypeInv, RunInv, Next
  PROVE  TypeInv'
<1>1. PICK p \in Procs :
        \/ Begin(p)
        \/ ConfigStep(p) /\ UNCHANGED <<homeVars, appVars>>
        \/ HomeStep(p) /\ UNCHANGED appVars
        \/ CreateStep(p, Repositories) /\ UNCHANGED <<configVars, homeVars>>
        \/ Killed(p)
  BY DEF Next
<1>2. proc' \in [Procs -> Runs]
  BY <1>1, WorkMoves, BeginMoves DEF Worked
<1>3. /\ Forget \in [Keys -> {"unknown", "set", "unset"}]
      /\ CutOff \in [Keys -> {"unknown", "set", "unset"}]
  BY DEF Forget, CutOff, TypeInv
<1>4. ASSUME ConfigStep(p)
      PROVE  /\ agenda' = agenda /\ homeDir' = homeDir /\ config' \in Contents
             /\ acked' \in [Keys -> {"unknown", "set", "unset"}]
  <2>1. proc[p].item \in Keys /\ Op(p) \in {"set", "unset"} /\ proc[p].read \in Contents \ {Garbled}
    BY <1>4, ConfigMoves DEF RunInv, TypeInv, Runs
  <2>2. WrittenBack(p) \in [Keys -> {"unknown", "set", "unset"}]
    BY <2>1 DEF WrittenBack, TypeInv
  <2>3. Changed(p) \in SUBSET Keys
    <3>1. (IF proc[p].read = NoFile THEN {} ELSE proc[p].read) \in SUBSET Keys
      BY <2>1 DEF Contents
    <3> QED
      BY <2>1, <3>1 DEF Changed
  <2>4. CASE Truncate(p)
    BY <1>3, <2>4 DEF Truncate, TypeInv, Contents
  <2>5. CASE Encode(p)
    BY <1>3, <2>2, <2>3, <2>5 DEF Encode, TypeInv, Contents
  <2> QED
    BY <1>4, <2>4, <2>5 DEF ConfigStep
<1>5. ASSUME HomeStep(p)
      PROVE  agenda' = agenda /\ acked' = acked /\ homeDir' \in BOOLEAN /\ config' \in Contents
  BY <1>5, HomeLeavesConfig DEF TypeInv, Contents
<1>6. ASSUME Killed(p)
      PROVE  /\ agenda' = agenda /\ homeDir' = homeDir /\ config' = config
             /\ acked' \in [Keys -> {"unknown", "set", "unset"}]
  BY <1>3, <1>6 DEF Killed, Kill, TypeInv
<1> QED
  BY <1>1, <1>2, <1>4, <1>5, <1>6, BeginMoves DEF TypeInv, configVars

\* A run stays at the steps of its command.
LEMMA RunsKept ==
  ASSUME TypeInv, RunInv, Next
  PROVE  RunInv'
<1>1. PICK p \in Procs :
        \/ Begin(p)
        \/ ConfigStep(p) \/ HomeStep(p) \/ CreateStep(p, Repositories) \/ Killed(p)
  BY DEF Next
<1>2. SUFFICES ASSUME NEW q \in Procs, proc'[q].pc \notin Over
               PROVE  /\ proc'[q].pc \in StepsOf(proc'[q].cmd.op) /\ proc'[q].cmd \in Commands
                      /\ proc'[q].read # Garbled
                      /\ proc'[q].cmd.op \in {"set", "unset"} => proc'[q].item \in Keys
  BY DEF RunInv, Running, Op
<1>3. CASE Begin(p)
  <2>1. CASE q = p
    <3>1. PICK cmd \in Commands :
            /\ proc'[p].cmd = cmd /\ proc'[p].item = cmd.item
            /\ proc'[p].pc = IF config = Garbled THEN "failed" ELSE FirstStep[cmd.op]
      BY <1>3, BeginMoves
    <3>2. config # Garbled /\ proc'[p].read = config
      BY <1>2, <1>3, <2>1, <3>1, BeginMoves DEF Over
    <3>3. cmd.op \in Ops /\ (cmd.op \in {"set", "unset"} => cmd.item \in Keys)
      BY CommandsAssumption DEF Commands
    <3>4. FirstStep[cmd.op] \in StepsOf(cmd.op)
      BY <3>3 DEF FirstStep, Ops, StepsOf, ConfigSteps, CreateSteps, InitSteps, PluginSteps, InstallSteps
    <3> QED
      BY <2>1, <3>1, <3>2, <3>3, <3>4
  <2>2. CASE q # p
    BY <1>2, <1>3, <2>2, BeginMoves DEF RunInv, Running, Op
  <2> QED
    BY <2>1, <2>2
<1>4. CASE ConfigStep(p) \/ HomeStep(p) \/ CreateStep(p, Repositories) \/ Killed(p)
  BY <1>2, <1>4, WorkMoves DEF Worked, RunInv, Running, Op
<1> QED
  BY <1>1, <1>3, <1>4

\* A run that is alone when it begins stays so until another begins.
LEMMA LoneKept ==
  ASSUME TypeInv, RunInv, LoneInv, Next
  PROVE  LoneInv'
<1>1. PICK p \in Procs :
        \/ Begin(p)
        \/ ConfigStep(p) \/ HomeStep(p) \/ CreateStep(p, Repositories) \/ Killed(p)
  BY DEF Next
<1>2. SUFFICES ASSUME NEW q \in Procs, NEW r \in Procs, proc'[q].pc \notin Over,
                      proc'[r].pc \notin Over, proc'[q].alone
               PROVE  q = r
  BY DEF LoneInv, Running
<1>3. CASE Begin(p)
  BY <1>2, <1>3, BeginMoves DEF LoneInv, Running
<1>4. CASE ConfigStep(p) \/ HomeStep(p) \/ CreateStep(p, Repositories) \/ Killed(p)
  <2>1. Worked(p)
    BY <1>4, WorkMoves
  <2>2. \A x \in Procs : proc'[x].pc \notin Over =>
          Running(x) /\ (proc'[x].alone <=> proc[x].alone)
    BY <2>1 DEF Worked, Running
  <2> QED
    BY <1>2, <2>2 DEF LoneInv
<1> QED
  BY <1>1, <1>3, <1>4

\* The history is as good for what was read and for the file if none of them
\* changes and the same runs are in the middle of a save.
LEMMA SaveFrame ==
  ASSUME SaveInv, acked' = acked,
         config' = config \/ (config = NoFile /\ config' = {}),
         \A q \in Procs : Saving(q)' <=> Saving(q),
         \A q \in Procs : Running(q)' =>
           /\ Running(q) /\ proc'[q].read = proc[q].read
           /\ proc'[q].stale <=> proc[q].stale
  PROVE  SaveInv'
<1>1. {} # Garbled /\ \A k \in Keys : k \notin NoFile
  BY CommandsAssumption DEF NoFile, Garbled
<1>2. KeepsOut(config)' /\ ((\A q \in Procs : ~Saving(q)') => KeepsIn(config)')
  BY <1>1 DEF SaveInv, KeepsOut, KeepsIn
<1>3. ASSUME NEW q \in Procs, Running(q)', ~proc'[q].stale
      PROVE  /\ KeepsOut(proc[q].read)'
             /\ KeepsIn(proc[q].read)' \/ \E r \in Procs \ {q} : Saving(r)'
  <2>1. /\ KeepsOut(proc[q].read)
        /\ KeepsIn(proc[q].read) \/ \E r \in Procs \ {q} : Saving(r)
    BY <1>3 DEF SaveInv
  <2>2. /\ KeepsOut(proc[q].read) => KeepsOut(proc[q].read)'
        /\ KeepsIn(proc[q].read) => KeepsIn(proc[q].read)'
    BY <1>3 DEF KeepsOut, KeepsIn
  <2> QED
    BY <2>1, <2>2
<1> QED
  BY <1>2, <1>3 DEF SaveInv

\* And if what was set is forgotten, whichever save is over.
LEMMA CutOffFrame ==
  ASSUME SaveInv, acked' = CutOff, config' = config,
         \A q \in Procs : Running(q)' =>
           /\ Running(q) /\ proc'[q].read = proc[q].read
           /\ proc'[q].stale <=> proc[q].stale
  PROVE  SaveInv'
<1>1. \A k \in Keys : acked'[k] # "set" /\ (acked'[k] = "unset" => acked[k] = "unset")
  BY DEF CutOff
<1>2. KeepsOut(config)' /\ KeepsIn(config)'
  BY <1>1 DEF SaveInv, KeepsOut, KeepsIn
<1>3. ASSUME NEW q \in Procs, Running(q)', ~proc'[q].stale
      PROVE  KeepsOut(proc[q].read)' /\ KeepsIn(proc[q].read)'
  <2>1. KeepsOut(proc[q].read) /\ proc'[q].read = proc[q].read
    BY <1>3 DEF SaveInv
  <2> QED
    BY <1>1, <2>1 DEF KeepsOut, KeepsIn
<1> QED
  BY <1>2, <1>3 DEF SaveInv

\* What a run writes agrees with the history in which it has written it: the
\* keys that it had read otherwise are forgotten, or nobody has written since.
LEMMA ChangedAgrees ==
  ASSUME TypeInv, RunInv, SaveInv, NEW p \in Procs, Running(p), Op(p) \in {"set", "unset"},
         config' = Changed(p), acked' = WrittenBack(p)
  PROVE  /\ KeepsOut(config)'
         /\ KeepsIn(config)' \/ \E q \in Procs \ {p} : Saving(q)
<1> DEFINE read == proc[p].read
           item == proc[p].item
<1>1. item \in Keys /\ read \in Contents \ {Garbled}
  BY DEF RunInv, TypeInv, Runs
<1>2. \A k \in Keys : k \notin NoFile /\ k \notin Garbled
  BY CommandsAssumption DEF NoFile, Garbled
<1>3. /\ \A k \in Keys \ {item} : k \in config' <=> k \in read
      /\ item \in config' <=> Op(p) = "set"
  <2>1. CASE read = NoFile
    BY <1>1, <1>2, <2>1 DEF Changed
  <2>2. CASE read # NoFile
    BY <1>1, <2>2 DEF Changed
  <2> QED
    BY <2>1, <2>2
<1>4. config' # Garbled
  <2>1. (IF read = NoFile THEN {} ELSE read) \in SUBSET Keys
    BY <1>1 DEF Contents
  <2>2. config' \in SUBSET Keys
    BY <1>1, <2>1 DEF Changed
  <2> QED
    BY <1>2, <2>2 DEF Garbled
<1>5. /\ acked'[item] = Op(p)
      /\ \A k \in Keys \ {item} :
           acked'[k] = IF proc[p].stale /\ ~(acked[k] = "set" <=> k \in read)
                         THEN "unknown" ELSE acked[k]
  BY <1>1 DEF WrittenBack
<1>6. ~proc[p].stale => /\ KeepsOut(read)
                        /\ KeepsIn(read) \/ \E q \in Procs \ {p} : Saving(q)
  BY DEF SaveInv
<1> HIDE DEF read, item
<1>7. ASSUME NEW k \in Keys, acked'[k] = "unset" PROVE k \notin config'
  <2>1. CASE k = item
    BY <1>3, <1>5, <1>7, <2>1
  <2>2. CASE k # item
    <3>1. acked[k] = "unset" /\ (proc[p].stale => k \notin read)
      BY <1>5, <1>7, <2>2
    <3>2. k \notin read
      BY <1>6, <3>1 DEF KeepsOut
    <3> QED
      BY <1>3, <2>2, <3>2
  <2> QED
    BY <2>1, <2>2
<1>8. ASSUME NEW k \in Keys, acked'[k] = "set", proc[p].stale \/ KeepsIn(read) PROVE k \in config'
  <2>1. CASE k = item
    BY <1>3, <1>5, <1>8, <2>1
  <2>2. CASE k # item
    <3>1. acked[k] = "set" /\ (proc[p].stale => k \in read)
      BY <1>5, <1>8, <2>2
    <3>2. k \in read
      BY <1>8, <3>1 DEF KeepsIn
    <3> QED
      BY <1>3, <2>2, <3>2
  <2> QED
    BY <2>1, <2>2
<1> QED
  BY <1>4, <1>6, <1>7, <1>8 DEF KeepsOut, KeepsIn

\* A save that is over, or not: with what it has written every other run has
\* read an old configuration.
LEMMA EncodeKeepsHistory ==
  ASSUME TypeInv, RunInv, SaveInv, NEW p \in Procs, Encode(p)
  PROVE  SaveInv'
<1>1. Running(p) /\ Op(p) \in {"set", "unset"} /\ Saving(p)
  BY ConfigMoves DEF ConfigStep, Encode, Saving
<1>2. CASE GotoOthersStale(p, "ok") /\ (acked' = Forget \/ (config' = Changed(p) /\ acked' = WrittenBack(p)))
  <2>1. RunAt(p, "ok").pc = "ok"
    BY RunAtTypes DEF Over
  <2>2. /\ proc'[p].pc = "ok"
        /\ \A q \in Procs \ {p} : proc'[q] = [proc[q] EXCEPT !.stale = Running(q)]
    BY <1>2, <2>1 DEF GotoOthersStale
  <2>3. ASSUME NEW q \in Procs, Running(q)' PROVE proc'[q].stale
    <3>1. q # p
      BY <2>2, <2>3 DEF Running, Over
    <3>2. proc'[q].pc = proc[q].pc /\ proc'[q].stale = Running(q)
      <4>1. proc'[q] = [proc[q] EXCEPT !.stale = Running(q)]
        BY <2>2, <3>1
      <4>2. proc[q] \in Runs
        BY DEF TypeInv
      <4> QED
        BY <4>1, <4>2 DEF Runs
    <3> QED
      BY <2>3, <3>2 DEF Running
  <2>4. \A q \in Procs \ {p} : Saving(q)' <=> Saving(q)
    BY <2>2 DEF Saving, At, TypeInv, Runs
  <2>5. KeepsOut(config)' /\ ((\A q \in Procs : ~Saving(q)') => KeepsIn(config)')
    <3>1. CASE acked' = Forget
      BY <3>1 DEF Forget, KeepsOut, KeepsIn
    <3>2. CASE config' = Changed(p) /\ acked' = WrittenBack(p)
      BY <1>1, <2>4, <3>2, ChangedAgrees
    <3> QED
      BY <1>2, <3>1, <3>2
  <2> QED
    BY <2>3, <2>5 DEF SaveInv
<1>3. CASE Fault(p) /\ acked' = CutOff /\ UNCHANGED config
  <2>1. proc'[p].pc = "fault" /\ \A q \in Procs \ {p} : proc'[q] = proc[q]
    BY <1>3, GotoMoves DEF Fault, Moved, Over
  <2>2. \A q \in Procs : Running(q)' =>
          Running(q) /\ proc'[q].read = proc[q].read /\ (proc'[q].stale <=> proc[q].stale)
    BY <2>1 DEF Running, Over
  <2> QED
    BY <1>3, <2>2, CutOffFrame
<1> QED
  BY <1>2, <1>3 DEF Encode

\* The first half of a save: it is in the middle now, and what the others have
\* read is old.
LEMMA TruncateKeepsHistory ==
  ASSUME TypeInv, RunInv, SaveInv, NEW p \in Procs, Truncate(p)
  PROVE  SaveInv'
<1>1. Running(p) /\ At(p, "truncate") /\ acked' = acked
  BY ConfigMoves DEF ConfigStep, Truncate
<1>2. CASE (Fail(p) \/ Fault(p)) /\ UNCHANGED config
  <2>1. /\ proc'[p].pc \in Over /\ \A q \in Procs \ {p} : proc'[q] = proc[q]
    BY <1>2, GotoMoves DEF Fail, Fault, Moved, Over
  <2>2. /\ \A q \in Procs : Saving(q)' <=> Saving(q)
        /\ \A q \in Procs : Running(q)' =>
             Running(q) /\ proc'[q].read = proc[q].read /\ (proc'[q].stale <=> proc[q].stale)
    BY <1>1, <2>1 DEF Saving, At, Running, Over
  <2> QED
    BY <1>1, <1>2, <2>2, SaveFrame
<1>3. CASE config' = {} /\ GotoOthersStale(p, "encode")
  <2>1. RunAt(p, "encode") = [proc[p] EXCEPT !.pc = "encode"] /\ proc[p] \in Runs
    BY RunAtTypes DEF Over, Steps, ConfigSteps, TypeInv
  <2>2. /\ Saving(p)' /\ proc'[p].read = proc[p].read
        /\ proc'[p].stale <=> proc[p].stale
    BY <1>3, <2>1 DEF GotoOthersStale, Runs, Saving, At
  <2>3. ASSUME NEW q \in Procs \ {p}
        PROVE  (Running(q)' => proc'[q].stale) /\ (Saving(q)' <=> Saving(q))
    <3>1. proc'[q].pc = proc[q].pc /\ proc'[q].stale = Running(q)
      <4>1. proc'[q] = [proc[q] EXCEPT !.stale = Running(q)]
        BY <1>3 DEF GotoOthersStale
      <4>2. proc[q] \in Runs
        BY DEF TypeInv
      <4> QED
        BY <4>1, <4>2 DEF Runs
    <3>2. Running(q)' <=> Running(q)
      BY <3>1 DEF Running
    <3>3. Running(q)' => proc'[q].stale
      BY <3>1, <3>2
    <3> QED
      BY <3>1, <3>3 DEF Saving, At
  <2>4. KeepsOut(config)'
    BY <1>3 DEF KeepsOut, Garbled
  <2>5. ~proc[p].stale => /\ KeepsOut(proc[p].read)'
                          /\ KeepsIn(proc[p].read)' \/ \E q \in Procs \ {p} : Saving(q)'
    <3>1. ~proc[p].stale => /\ KeepsOut(proc[p].read)
                            /\ KeepsIn(proc[p].read) \/ \E q \in Procs \ {p} : Saving(q)
      BY <1>1 DEF SaveInv
    <3>2. /\ KeepsOut(proc[p].read) => KeepsOut(proc[p].read)'
          /\ KeepsIn(proc[p].read) => KeepsIn(proc[p].read)'
      BY <1>1, <2>2 DEF KeepsOut, KeepsIn
    <3> QED
      BY <2>3, <3>1, <3>2
  <2> QED
    BY <2>2, <2>3, <2>4, <2>5 DEF SaveInv
<1> QED
  BY <1>2, <1>3 DEF Truncate

\* The history is right after every step.
LEMMA SavesKept ==
  ASSUME TypeInv, RunInv, SaveInv, Next
  PROVE  SaveInv'
<1>1. PICK p \in Procs :
        \/ Begin(p)
        \/ ConfigStep(p) /\ UNCHANGED <<homeVars, appVars>>
        \/ HomeStep(p) /\ UNCHANGED appVars
        \/ CreateStep(p, Repositories) /\ UNCHANGED <<configVars, homeVars>>
        \/ Killed(p)
  BY DEF Next
<1>2. CASE Begin(p)
  <2>1. /\ acked' = acked /\ config' = config /\ proc'[p].read = config
        /\ ~Running(p) /\ ~Saving(p)
    BY <1>2, BeginMoves DEF configVars, Saving, At, Running, Over
  <2>2. proc'[p].pc # "encode"
    <3>1. "encode" \notin {FirstStep[op] : op \in Ops} /\ \A cmd \in Commands : cmd.op \in Ops
      BY CommandsAssumption DEF FirstStep, Ops, Commands
    <3> QED
      BY <1>2, <3>1, BeginMoves
  <2>3. /\ \A q \in Procs : Saving(q)' <=> Saving(q)
        /\ \A q \in Procs \ {p} : Running(q)' =>
             Running(q) /\ proc'[q].read = proc[q].read /\ proc'[q].stale = proc[q].stale
    BY <1>2, <2>1, <2>2, BeginMoves DEF Saving, At, Running
  <2>4. KeepsOut(config)' /\ (KeepsIn(config)' \/ \E q \in Procs \ {p} : Saving(q)')
    BY <2>1, <2>3 DEF SaveInv, KeepsOut, KeepsIn
  <2>5. /\ KeepsOut(proc[p].read)'
        /\ KeepsIn(proc[p].read)' \/ \E q \in Procs \ {p} : Saving(q)'
    BY <2>1, <2>4 DEF KeepsOut, KeepsIn
  <2>6. ASSUME NEW q \in Procs \ {p}, Running(q)', ~proc'[q].stale
        PROVE  /\ KeepsOut(proc[q].read)'
               /\ KeepsIn(proc[q].read)' \/ \E r \in Procs \ {q} : Saving(r)'
    <3>1. /\ KeepsOut(proc[q].read)
          /\ KeepsIn(proc[q].read) \/ \E r \in Procs \ {q} : Saving(r)
      BY <2>3, <2>6 DEF SaveInv
    <3>2. /\ KeepsOut(proc[q].read) => KeepsOut(proc[q].read)'
          /\ KeepsIn(proc[q].read) => KeepsIn(proc[q].read)'
      BY <2>1, <2>3, <2>6 DEF KeepsOut, KeepsIn
    <3> QED
      BY <2>3, <3>1, <3>2
  <2> QED
    BY <2>4, <2>5, <2>6 DEF SaveInv
<1>3. CASE ConfigStep(p)
  BY <1>3, EncodeKeepsHistory, TruncateKeepsHistory DEF ConfigStep
<1>4. ASSUME \/ acked' = CutOff /\ config' = config
             \/ /\ acked' = acked /\ ~Saving(p)
                /\ config' = config \/ (config = NoFile /\ config' = {}),
             NEW step \in Steps \union Over, step # "encode", Moved(p, step), Running(p)
      PROVE  SaveInv'
  <2>1. /\ \A q \in Procs \ {p} : Saving(q)' <=> Saving(q)
        /\ ~Saving(p)'
        /\ \A q \in Procs : Running(q)' =>
             Running(q) /\ proc'[q].read = proc[q].read /\ (proc'[q].stale <=> proc[q].stale)
    BY <1>4 DEF Moved, Saving, At, Running
  <2> QED
    BY <1>4, <2>1, SaveFrame, CutOffFrame
<1>5. CASE HomeStep(p)
  <2>1. PICK step \in StepsOf(Op(p)) \union Over : Moved(p, step)
    BY <1>5, HomeMoves
  <2>2. ~Saving(p) /\ Running(p)
    BY <1>5, HomeMoves DEF Saving, At, InitSteps, InstallSteps, PluginSteps
  <2>3. step \in Steps \union Over /\ step # "encode"
    BY <1>5, <2>1, HomeMoves, StepNames DEF ConfigSteps, Over
  <2> QED
    BY <1>4, <1>5, <2>1, <2>2, <2>3, HomeLeavesConfig
<1>6. CASE CreateStep(p, Repositories) /\ UNCHANGED configVars
  <2>1. PICK step \in StepsOf(Op(p)) \union Over : Moved(p, step)
    BY <1>6, CreateMoves
  <2>2. ~Saving(p) /\ Running(p)
    BY <1>6, CreateMoves DEF Saving, At, CreateSteps, Scaffolding
  <2>3. step \in Steps \union Over /\ step # "encode"
    BY <1>6, <2>1, CreateMoves, StepNames DEF ConfigSteps, Over
  <2> QED
    BY <1>4, <1>6, <2>1, <2>2, <2>3 DEF configVars
<1>7. CASE Killed(p)
  <2>1. Running(p) /\ Moved(p, "killed") /\ config' = config
    BY <1>7, KillMoves
  <2>2. acked' = CutOff \/ (acked' = acked /\ ~Saving(p))
    BY <1>7 DEF Killed, Kill, Saving
  <2> QED
    BY <1>4, <2>1, <2>2 DEF Over
<1> QED
  BY <1>1, <1>2, <1>3, <1>5, <1>6, <1>7

-----------------------------------------------------------------------------
(* The application's files.                                                *)

\* A step that makes nothing for the application and takes no run past
\* os.Mkdir; if it ends one that was, the scaffold is broken off.
LEMMA ScaffoldFrame ==
  ASSUME ScaffoldInv, charts' = charts, files' = files, toml' \in {toml, "garbled"},
         broken => broken',
         \A q \in Procs :
           \/ proc'[q].pc = proc[q].pc
           \/ proc'[q].pc \notin Scaffolding /\ (proc[q].pc \in Scaffolding => broken')
  PROVE  ScaffoldInv'
<1>1. \A q \in Procs : proc'[q].pc \in Scaffolding => proc'[q].pc = proc[q].pc
  OBVIOUS
<1>2. \A q \in Procs : Made(q)'
  BY <1>1 DEF ScaffoldInv, Made, Scaffolding
<1>3. \A q, r \in Procs : proc'[q].pc \in Scaffolding /\ proc'[r].pc \in Scaffolding => q = r
  BY <1>1 DEF ScaffoldInv
<1>4. charts' # "none" /\ ~broken' /\ (\A q \in Procs : proc'[q].pc \notin Scaffolding) => Complete'
  BY DEF ScaffoldInv, Complete
<1> QED
  BY <1>2, <1>3, <1>4 DEF ScaffoldInv

\* A step of the one run that is past os.Mkdir, or takes it.
LEMMA ScaffoldGoes ==
  ASSUME ScaffoldInv, NEW p \in Procs,
         DOMAIN files' = {"tasks", "others", "ignore"},
         \A q \in Procs \ {p} : proc[q].pc \notin Scaffolding /\ proc'[q].pc = proc[q].pc,
         Made(p)', proc'[p].pc \in Scaffolding \/ Complete'
  PROVE  ScaffoldInv'
BY DEF ScaffoldInv, Made, Scaffolding

\* A run of create makes one file after the other.
LEMMA CreateScaffolds ==
  ASSUME TypeInv, RunInv, ScaffoldInv, NEW p \in Procs, CreateStep(p, Repositories)
  PROVE  ScaffoldInv'
<1> USE DEF At
<1>1. ASSUME NEW step \in Steps \union Over, Goto(p, step)
      PROVE  proc'[p].pc = step /\ \A q \in Procs \ {p} : proc'[q].pc = proc[q].pc
  BY <1>1, GotoMoves DEF Moved
<1>2. Scaffolding \subseteq Steps /\ {"choose", "mkdir"} \subseteq Steps \ Scaffolding
  BY DEF Steps, CreateSteps, Scaffolding
<1>3. Over \intersect Scaffolding = {} /\ {"ok", "failed", "fault"} \subseteq Over
  BY DEF Over, Scaffolding
<1>4. proc[p].pc \in Scaffolding => \A q \in Procs \ {p} : proc[q].pc \notin Scaffolding
  BY DEF ScaffoldInv
<1>5. ASSUME NEW step \in (Steps \union Over) \ Scaffolding, Goto(p, step),
             proc[p].pc \notin Scaffolding \/ broken', broken => broken',
             charts' = charts, files' = files, toml' \in {toml, "garbled"}
      PROVE  ScaffoldInv'
  BY <1>1, <1>5, ScaffoldFrame
<1>6. CASE CheckCharts(p) \/ ChoosePack(p, Repositories)
  <2>1. /\ proc[p].pc \notin Scaffolding /\ UNCHANGED <<charts, files, toml, broken>>
        /\ \E step \in {"ok", "choose", "failed", "fault", "mkdir"} : Goto(p, step)
    <3>1. CASE CheckCharts(p)
      BY <3>1 DEF CheckCharts, Succeed, appVars, Scaffolding
    <3>2. CASE ChoosePack(p, Repositories)
      BY <3>2 DEF ChoosePack, Fail, Fault, Scaffolding
    <3> QED
      BY <1>6, <3>1, <3>2
  <2> QED
    BY <1>2, <1>3, <1>5, <2>1
<1>7. CASE MakeCharts(p)
  <2>1. proc[p].pc = "mkdir" /\ UNCHANGED <<files, toml, broken>> /\ "mkdir" \notin Scaffolding
    BY <1>7 DEF MakeCharts, Scaffolding
  <2>2. CASE (Fail(p) \/ Fault(p)) /\ UNCHANGED charts
    BY <1>3, <1>5, <2>1, <2>2 DEF Fail, Fault
  <2>3. CASE charts = "none" /\ charts' = "partial" /\ Goto(p, "charts")
    <3>1. proc'[p].pc = "charts" /\ \A q \in Procs \ {p} : proc'[q].pc = proc[q].pc
      BY <1>1, <1>2, <2>3 DEF Scaffolding
    <3>2. \A q \in Procs : proc[q].pc \notin Scaffolding
      BY <2>3 DEF ScaffoldInv, Made
    <3>3. Made(p)' /\ proc'[p].pc \in Scaffolding
      BY <2>3, <3>1 DEF Made, Scaffolding
    <3>4. DOMAIN files' = {"tasks", "others", "ignore"}
      BY <2>1 DEF ScaffoldInv
    <3> QED
      BY <3>1, <3>2, <3>3, <3>4, ScaffoldGoes
  <2> QED
    BY <1>7, <2>2, <2>3 DEF MakeCharts
<1>8. CASE CreateFault(p) /\ charts' = charts /\ files' = files /\ toml' \in {toml, "garbled"}
  BY <1>3, <1>5, <1>8 DEF CreateFault, Fault
<1>9. ASSUME NEW from \in Scaffolding, NEW step \in Scaffolding \union {"ok"},
             proc[p].pc = from, Goto(p, step),
             DOMAIN files' = {"tasks", "others", "ignore"},
             proc'[p].pc = step => Made(p)', step = "ok" => Complete'
      PROVE  ScaffoldInv'
  <2>1. proc'[p].pc = step /\ \A q \in Procs \ {p} : proc'[q].pc = proc[q].pc
    BY <1>1, <1>2, <1>3, <1>9
  <2> QED
    BY <1>4, <1>9, <2>1, ScaffoldGoes
<1> DEFINE has(f) == files[f] # "none"
<1>10. /\ DOMAIN files = {"tasks", "others", "ignore"}
       /\ proc[p].pc \in Scaffolding \ {"charts"} => charts = "full"
       /\ proc[p].pc \in {"others", "toml", "encode_toml", "ignore"} => has("tasks")
       /\ proc[p].pc \in {"toml", "encode_toml", "ignore"} => has("others")
       /\ proc[p].pc = "ignore" => toml \in {"written", "garbled"}
  BY DEF ScaffoldInv, Made, Scaffolding
<1>11. CASE SaveCharts(p)
  <2>1. CASE charts' = "full" /\ Goto(p, "tasks")
    <3>1. proc[p].pc = "charts" /\ files' = files
      BY <1>11 DEF SaveCharts
    <3>2. proc'[p].pc = "tasks" => Made(p)'
      BY <2>1 DEF Made, Scaffolding
    <3>3. "charts" \in Scaffolding /\ "tasks" \in Scaffolding
      BY DEF Scaffolding
    <3> QED
      BY <1>9, <1>10, <2>1, <3>1, <3>2, <3>3
  <2> QED
    BY <1>8, <1>11, <2>1 DEF SaveCharts
<1>12. ASSUME NEW step \in {"tasks", "others", "ignore"}, NEW how, how # "none",
              proc[p].pc = step, charts' = charts, toml' = toml,
              files' = [files EXCEPT ![step] = IF @ = "none" THEN how ELSE @]
       PROVE  /\ DOMAIN files' = {"tasks", "others", "ignore"}
              /\ charts' = "full" /\ files'[step] # "none"
              /\ \A f \in {"tasks", "others", "ignore"} : has(f) => files'[f] # "none"
  BY <1>10, <1>12 DEF Scaffolding
<1>13. CASE SaveTasks(p)
  <2>1. PICK how \in {"pack", "short", "empty"} : SaveFile(p, "tasks", how, "others")
    BY <1>13 DEF SaveTasks
  <2>2. proc[p].pc = "tasks" /\ UNCHANGED <<charts, toml>>
    BY <2>1 DEF SaveFile
  <2>3. CASE /\ files' = [files EXCEPT !["tasks"] = IF @ = "none" THEN how ELSE @]
             /\ Goto(p, "others")
    <3>1. DOMAIN files' = {"tasks", "others", "ignore"} /\ charts' = "full" /\ files'["tasks"] # "none"
      BY <1>12, <2>2, <2>3
    <3>2. proc'[p].pc = "others" => Made(p)'
      BY <3>1 DEF Made, Scaffolding
    <3>3. "others" \in Scaffolding /\ "tasks" \in Scaffolding
      BY DEF Scaffolding
    <3> QED
      BY <1>9, <2>2, <2>3, <3>1, <3>2, <3>3
  <2> QED
    BY <1>8, <2>1, <2>2, <2>3 DEF SaveFile
<1>14. CASE SaveOthers(p)
  <2>1. PICK how \in {"pack", "short"} : SaveFile(p, "others", how, "toml")
    BY <1>14 DEF SaveOthers
  <2>2. proc[p].pc = "others" /\ UNCHANGED <<charts, toml>>
    BY <2>1 DEF SaveFile
  <2>3. CASE /\ files' = [files EXCEPT !["others"] = IF @ = "none" THEN how ELSE @]
             /\ Goto(p, "toml")
    <3>1. /\ DOMAIN files' = {"tasks", "others", "ignore"} /\ charts' = "full"
          /\ files'["others"] # "none" /\ files'["tasks"] # "none"
      BY <1>10, <1>12, <2>2, <2>3
    <3>2. proc'[p].pc = "toml" => Made(p)'
      BY <3>1 DEF Made, Scaffolding
    <3>3. "others" \in Scaffolding /\ "toml" \in Scaffolding
      BY DEF Scaffolding
    <3> QED
      BY <1>9, <2>2, <2>3, <3>1, <3>2, <3>3
  <2> QED
    BY <1>8, <2>1, <2>2, <2>3 DEF SaveFile
<1>15. CASE OpenToml(p)
  <2>1. proc[p].pc = "toml" /\ UNCHANGED <<charts, files>> /\ "toml" \in Scaffolding /\ "encode_toml" \in Scaffolding
    BY <1>15 DEF OpenToml, Scaffolding
  <2>2. CASE Goto(p, "encode_toml")
    <3>1. proc'[p].pc = "encode_toml" => Made(p)'
      BY <1>10, <2>1 DEF Made, Scaffolding
    <3> QED
      BY <1>9, <1>10, <2>1, <2>2, <3>1
  <2> QED
    BY <1>8, <1>15, <2>1, <2>2 DEF OpenToml
<1>16. CASE EncodeToml(p)
  <2>1. proc[p].pc = "encode_toml" /\ UNCHANGED <<charts, files>> /\ "ignore" \in Scaffolding /\ "encode_toml" \in Scaffolding
    BY <1>16 DEF EncodeToml, Scaffolding
  <2>2. CASE Goto(p, "ignore") /\ toml' \in {"written", "garbled"}
    <3>1. proc'[p].pc = "ignore" => Made(p)'
      BY <1>10, <2>1, <2>2 DEF Made, Scaffolding
    <3> QED
      BY <1>9, <1>10, <2>1, <2>2, <3>1
  <2>3. CASE CreateFault(p) /\ toml' \in {toml, "garbled"}
    BY <1>8, <2>1, <2>3
  <2> QED
    BY <1>16, <2>2, <2>3 DEF EncodeToml
<1>17. CASE SaveIgnore(p)
  <2>1. proc[p].pc = "ignore" /\ UNCHANGED <<charts, toml>> /\ "ignore" \in Scaffolding
    BY <1>17 DEF SaveIgnore, SaveFile, Scaffolding
  <2>2. CASE /\ files' = [files EXCEPT !["ignore"] = IF @ = "none" THEN "pack" ELSE @]
             /\ Goto(p, "ok")
    <3>1. DOMAIN files' = {"tasks", "others", "ignore"} /\ Complete'
      BY <1>10, <1>12, <2>1, <2>2 DEF Complete
    <3>2. proc'[p].pc = "ok" => Made(p)'
      BY DEF Made, Scaffolding
    <3> QED
      BY <1>9, <2>1, <2>2, <3>1, <3>2
  <2> QED
    BY <1>8, <1>17, <2>1, <2>2 DEF SaveIgnore, SaveFile
<1> QED
  BY <1>6, <1>7, <1>11, <1>13, <1>14, <1>15, <1>16, <1>17 DEF CreateStep

\* The scaffold is whole, in the making or broken off after every step.
LEMMA ScaffoldKept ==
  ASSUME TypeInv, RunInv, ScaffoldInv, Next
  PROVE  ScaffoldInv'
<1>1. PICK p \in Procs :
        \/ Begin(p)
        \/ ConfigStep(p) /\ UNCHANGED <<homeVars, appVars>>
        \/ HomeStep(p) /\ UNCHANGED appVars
        \/ CreateStep(p, Repositories) /\ UNCHANGED <<configVars, homeVars>>
        \/ Killed(p)
  BY DEF Next
<1>2. CASE Begin(p)
  <2>1. UNCHANGED <<charts, files, toml, broken>> /\ proc[p].pc \notin Scaffolding
    BY <1>2, BeginMoves DEF appVars, Running, Over, Scaffolding
  <2>2. proc'[p].pc \notin Scaffolding
    <3>1. \A cmd \in Commands : cmd.op \in Ops
      BY CommandsAssumption DEF Commands
    <3>2. \A op \in Ops : FirstStep[op] \notin Scaffolding
      BY DEF FirstStep, Ops, Scaffolding
    <3> QED
      BY <1>2, <3>1, <3>2, BeginMoves DEF Scaffolding
  <2>3. \A q \in Procs \ {p} : proc'[q].pc = proc[q].pc
    BY <1>2, BeginMoves
  <2> QED
    BY <2>1, <2>2, <2>3, ScaffoldFrame
<1>3. CASE (ConfigStep(p) \/ HomeStep(p)) /\ UNCHANGED appVars
  <2>1. /\ proc[p].pc \in StepsOf(Op(p)) /\ Op(p) # "create"
        /\ proc'[p].pc \in StepsOf(Op(p)) \union Over
        /\ \A q \in Procs \ {p} : proc'[q].pc = proc[q].pc
    BY <1>3, WorkMoves, ConfigMoves, HomeMoves DEF RunInv, Worked
  <2>2. proc[p].pc \notin Scaffolding /\ proc'[p].pc \notin Scaffolding
    BY <2>1 DEF StepsOf, ConfigSteps, InitSteps, PluginSteps, InstallSteps, Over, Scaffolding
  <2> QED
    BY <1>3, <2>1, <2>2, ScaffoldFrame DEF appVars
<1>4. CASE Killed(p)
  <2>1. /\ proc'[p].pc = "killed" /\ "killed" \notin Scaffolding
        /\ \A q \in Procs \ {p} : proc'[q].pc = proc[q].pc
    BY <1>4, KillMoves DEF Moved, Scaffolding
  <2>2. UNCHANGED <<charts, files, toml>> /\ broken' = (broken \/ proc[p].pc \in Scaffolding)
    BY <1>4 DEF Killed, KillCreate
  <2> QED
    BY <2>1, <2>2, ScaffoldFrame
<1> QED
  BY <1>1, <1>2, <1>3, <1>4, CreateScaffolds

-----------------------------------------------------------------------------
(* Plugins and pack repositories.                                          *)

\* Links and clones keep their types: what is checked out is a tag.
LEMMA HomeTypesKept ==
  ASSUME HomeTypes, [Next]_vars
  PROVE  HomeTypes'
<1>1. CASE UNCHANGED homeVars
  BY <1>1 DEF homeVars, HomeTypes
<1>2. ASSUME NEW p \in Procs, HomeStep(p)
      PROVE  HomeTypes'
  <2>1. CASE CheckInstall(p) \/ LoadAndHook(p) \/ FindToChange(p) \/ DeleteHook(p)
    BY <1>1, <2>1 DEF CheckInstall, LoadAndHook, FindToChange, DeleteHook
  <2>2. CASE EnsureDirectories(p) \/ EnsureConfig(p) \/ EnsurePlugins(p) \/ EnsurePacks(p)
    BY <1>1, <2>2 DEF EnsureDirectories, EnsureConfig, EnsurePlugins, EnsurePacks
  <2>3. CASE Sync(p) \/ Pull(p)
    <3>1. link' = link
      BY <2>3 DEF Sync, Pull
    <3>2. \/ cache' = cache
          \/ cache' = [cache EXCEPT ![proc[p].item] = "partial"]
          \/ cache' = [cache EXCEPT ![proc[p].item] = IF @ = "old" THEN "branch" ELSE @]
      BY <2>3 DEF Sync, Pull
    <3> QED
      BY <3>1, <3>2 DEF HomeTypes
  <2>4. CASE Clone(p) \/ SetVersion(p)
    <3>1. link' = link
      BY <2>4 DEF Clone, SetVersion
    <3>2. \/ cache' = cache
          \/ \E c \in TagSet \union {"branch", "none"} : cache' = [cache EXCEPT ![proc[p].item] = c]
      BY <2>4 DEF Clone, SetVersion
    <3> QED
      BY <3>1, <3>2 DEF HomeTypes
  <2>5. CASE Link(p) \/ Unlink(p)
    <3>1. cache' = cache /\ (link' = link \/ \E b \in BOOLEAN : link' = [link EXCEPT ![proc[p].item] = b])
      BY <2>5 DEF Link, Unlink
    <3> QED
      BY <3>1 DEF HomeTypes
  <2> QED
    BY <1>2, <2>1, <2>2, <2>3, <2>4, <2>5 DEF HomeStep
<1> QED
  BY <1>1, <1>2, BeginMoves DEF Next, vars, homeVars, Killed, Begin

\* What an item holds depends on its clone alone.
LEMMA ContentFrame ==
  ASSUME NEW i \in Items, cache'[i] = cache[i]
  PROVE  Content(i)' = Content(i)
BY DEF Content

\* What is found is a matter of the links and the clones.
LEMMA FoundFrame ==
  ASSUME link' = link, cache' = cache
  PROVE  /\ \A i \in Items : Content(i)' = Content(i) /\ (Found(i)' <=> Found(i))
         /\ PackRepoLoaded' <=> PackRepoLoaded
         /\ FindError' <=> FindError
         /\ BuiltinReady' <=> BuiltinReady
<1>1. \A i : Content(i)' = Content(i)
  BY DEF Content
<1>2. \A i : Found(i)' <=> Found(i)
  BY <1>1 DEF Found
<1>3. FindError' <=> FindError
  BY <1>1 DEF FindError
<1>4. PackRepoLoaded' <=> PackRepoLoaded
  BY <1>2, <1>3 DEF PackRepoLoaded
<1> QED
  BY <1>1, <1>2, <1>3, <1>4 DEF BuiltinReady

\* The version of the built-in plugin is checked out as it is asked for, if
\* there is such a tag, and so is that of the pack repository, which is taken
\* as it is if none is asked for.
LEMMA VersionSolved ==
  /\ SolveVersion("") = "" /\ SolveVersion("") \notin TagSet
  /\ \A tag \in TagSet : SolveVersion(tag) = tag
  /\ BuiltinVersion \in TagSet => SolveVersion(BuiltinVersion) = BuiltinVersion
  /\ BuiltinVersion \notin TagSet => SolveVersion(BuiltinVersion) = "error"
  /\ "error" \notin TagSet /\ "missing" \notin TagSet /\ "malformed" \notin TagSet
BY HomeAssumption DEF SolveVersion

\* A run of init by itself has done, after each of its steps, what comes before
\* the next.
LEMMA InitGoesOn ==
  ASSUME TypeInv, RunInv, HomeTypes, NEW p \in Procs, HomeStep(p), Op(p) = "init",
         InitDone(p), Running(p)'
  PROVE  InitDone(p)'
<1> USE DEF At
<1> DEFINE item == proc[p].item
<1>1. proc[p].pc \in InitSteps
  BY HomeMoves, StepNames DEF RunInv
<1>2. Builtin \in Items /\ Packs \in Items /\ Builtin # Packs
  BY HomeAssumption DEF Items
<1>3. ASSUME NEW step \in Steps \union Over, Goto(p, step)
      PROVE  /\ proc'[p].pc = step /\ step \notin Over
             /\ proc'[p].item = item /\ proc'[p].version = proc[p].version
             /\ proc'[p].loaded = proc[p].loaded
  BY <1>3, GotoMoves DEF Moved, SameWork, Running
<1>4. /\ {"failed", "fault", "ok"} \subseteq Over
      /\ InitSteps \subseteq Steps /\ InstallSteps \subseteq InitSteps
      /\ Steps \intersect Over = {}
  BY StepNames DEF Over, Steps, InitSteps
<1>5. ~Fail(p) /\ ~Fault(p) /\ ~Succeed(p)
  BY <1>3, <1>4 DEF Fail, Fault, Succeed
<1>6. CASE EnsureDirectories(p)
  <2>1. Goto(p, "config") /\ homeDir' /\ link' = link /\ cache' = cache /\ proc[p].pc = "directories"
    BY <1>5, <1>6 DEF EnsureDirectories, homeVars
  <2>2. proc'[p].pc = "config" /\ proc'[p].loaded = proc[p].loaded
    BY <1>3, <2>1 DEF Steps, InitSteps
  <2>3. proc'[p].loaded = PackRepoLoaded'
    BY <2>1, <2>2, FoundFrame DEF InitDone, PackRepoLoaded
  <2> QED
    BY <2>1, <2>2, <2>3 DEF InitDone, InstallSteps
<1>7. CASE EnsureConfig(p)
  <2>1. /\ Goto(p, "plugins") /\ config' # NoFile /\ homeDir' = homeDir
        /\ link' = link /\ cache' = cache /\ proc[p].pc = "config"
    BY <1>5, <1>7 DEF EnsureConfig, homeVars, NoFile
  <2>2. proc'[p].pc = "plugins" /\ proc'[p].loaded = proc[p].loaded
    BY <1>3, <2>1 DEF Steps, InitSteps
  <2>3. proc'[p].loaded = PackRepoLoaded'
    BY <2>1, <2>2, FoundFrame DEF InitDone, PackRepoLoaded
  <2> QED
    BY <2>1, <2>2, <2>3 DEF InitDone, InstallSteps
<1>8. ASSUME UNCHANGED configVars, proc[p].pc \notin {"directories", "config"}
      PROVE  homeDir' /\ config' # NoFile
  BY <1>8 DEF InitDone, configVars
<1>9. CASE EnsurePlugins(p)
  <2>1. /\ UNCHANGED configVars /\ link' = link /\ cache' = cache /\ proc[p].pc = "plugins"
        /\ ~FindError
        /\ proc'[p].item = Builtin /\ proc'[p].version = BuiltinVersion
        /\ proc'[p].loaded = proc[p].loaded
        /\ proc'[p].pc = IF ~Found(Builtin) THEN "check"
                         ELSE IF Content(Builtin) = BuiltinVersion THEN "packs" ELSE "unlink"
    BY <1>5, <1>9 DEF EnsurePlugins, homeVars, TypeInv, Runs
  <2>2. homeDir' /\ config' # NoFile
    BY <1>8, <2>1
  <2>3. proc'[p].pc = "check" => ~Found(Builtin)'
    BY <1>2, <2>1, FoundFrame
  <2>4. ~FindError /\ Found(Builtin) => proc[p].loaded
    BY <2>1 DEF InitDone, PackRepoLoaded
  <2>5. proc'[p].pc = "packs" => BuiltinReady' /\ proc'[p].loaded
    BY <1>2, <2>1, <2>4, FoundFrame DEF BuiltinReady, Found
  <2> QED
    BY <2>1, <2>2, <2>3, <2>5 DEF InitDone, InstallSteps
<1>10. CASE CheckInstall(p)
  <2>1. Goto(p, "sync") /\ UNCHANGED configVars /\ link' = link /\ cache' = cache /\ proc[p].pc = "check" /\ ~link[item]
    BY <1>5, <1>10 DEF CheckInstall, homeVars
  <2>2. /\ proc'[p].pc = "sync" /\ proc'[p].item = item /\ proc'[p].version = proc[p].version
    BY <1>3, <2>1 DEF Steps, InitSteps, InstallSteps
  <2>3. homeDir' /\ config' # NoFile /\ (BuiltinReady' <=> BuiltinReady)
    BY <1>8, <2>1, FoundFrame
  <2>4. \/ item = Builtin /\ proc[p].version = BuiltinVersion
        \/ item = Packs /\ proc[p].version \in PacksVersions /\ BuiltinReady
    BY <2>1 DEF InitDone, InstallSteps
  <2> QED
    BY <2>1, <2>2, <2>3, <2>4 DEF InitDone, InstallSteps
<1>11. ASSUME proc[p].pc \in {"sync", "clone", "version"}, NEW step \in {"clone", "version", "link"},
              Goto(p, step), UNCHANGED configVars, link' = link,
              \A i \in Items \ {item} : cache'[i] = cache[i],
              step = "link" /\ item = Builtin => Content(Builtin)' = BuiltinVersion
       PROVE  InitDone(p)'
  <2>1. proc'[p].pc = step /\ proc'[p].item = item /\ proc'[p].version = proc[p].version
    BY <1>3, <1>11 DEF Steps, InitSteps, InstallSteps
  <2>2. homeDir' /\ config' # NoFile
    BY <1>8, <1>11
  <2>3. /\ \/ item = Builtin /\ proc[p].version = BuiltinVersion
           \/ item = Packs /\ proc[p].version \in PacksVersions /\ BuiltinReady
        /\ ~link[item]
    BY <1>11 DEF InitDone, InstallSteps
  <2>4. item = Packs => Content(Builtin)' = Content(Builtin)
    BY <1>2, <1>11, ContentFrame
  <2>5. item = Packs /\ BuiltinReady => BuiltinReady'
    BY <1>11, <2>4 DEF BuiltinReady
  <2> QED
    BY <1>11, <2>1, <2>2, <2>3, <2>5 DEF InitDone, InstallSteps
<1>12. CASE Sync(p)
  <2>1. /\ proc[p].pc = "sync" /\ UNCHANGED configVars /\ link' = link
        /\ Goto(p, "clone") \/ Goto(p, "version")
        /\ \A i \in Items \ {item} : cache'[i] = cache[i]
    BY <1>5, <1>12 DEF Sync, HomeTypes
  <2> QED
    BY <1>11, <2>1
<1>13. CASE Clone(p)
  <2>1. /\ proc[p].pc = "clone" /\ UNCHANGED configVars /\ link' = link
        /\ Goto(p, "version")
        /\ \A i \in Items \ {item} : cache'[i] = cache[i]
    BY <1>5, <1>13 DEF Clone, HomeTypes
  <2> QED
    BY <1>11, <2>1
<1>14. CASE SetVersion(p)
  <2>1. /\ proc[p].pc = "version" /\ UNCHANGED configVars /\ link' = link
        /\ Goto(p, "link")
        /\ \A i \in Items \ {item} : cache'[i] = cache[i]
    BY <1>5, <1>14 DEF SetVersion, HomeTypes
  <2>2. item = Builtin => proc[p].version = BuiltinVersion
    BY <1>2, <2>1 DEF InitDone, InstallSteps
  <2>3. ASSUME item = Builtin
        PROVE  Content(Builtin)' = BuiltinVersion
    <3>1. SolveVersion(BuiltinVersion) # ""
      BY VersionSolved, HomeAssumption
    <3>2. SolveVersion(BuiltinVersion) \in TagSet => SolveVersion(BuiltinVersion) = BuiltinVersion
      BY VersionSolved
    <3>3. BuiltinVersion \in TagSet /\ cache' = [cache EXCEPT ![Builtin] = BuiltinVersion]
      BY <1>5, <1>14, <2>2, <2>3, <3>1, <3>2 DEF SetVersion
    <3>4. cache'[Builtin] = BuiltinVersion
      BY <1>2, <3>3 DEF HomeTypes
    <3>5. TagSet' = TagSet /\ "old" \notin TagSet /\ "branch" \notin TagSet
      BY HomeAssumption DEF TagSet
    <3>6. cache'[Builtin] \in TagSet' /\ cache'[Builtin] \notin {"old", "branch"}
      BY <3>3, <3>4, <3>5
    <3> QED
      BY <3>4, <3>6 DEF Content
  <2> QED
    BY <1>11, <2>1, <2>3
<1>15. CASE Link(p)
  <2>1. /\ proc[p].pc = "link" /\ UNCHANGED configVars /\ cache' = cache
        /\ Goto(p, "load") /\ item # Packs /\ link' = [link EXCEPT ![item] = TRUE]
    BY <1>5, <1>15 DEF Link
  <2>2. item = Builtin /\ Content(Builtin) = BuiltinVersion
    BY <2>1 DEF InitDone, InstallSteps
  <2>3. proc'[p].pc = "load" /\ proc'[p].item = Builtin
    BY <1>3, <2>1, <2>2 DEF Steps, InitSteps
  <2>4. link'[Builtin] /\ Content(Builtin)' = BuiltinVersion
    BY <1>2, <2>1, <2>2, ContentFrame DEF HomeTypes
  <2>5. homeDir' /\ config' # NoFile
    BY <1>8, <2>1
  <2> QED
    BY <2>3, <2>4, <2>5 DEF InitDone, InstallSteps, BuiltinReady
<1>16. CASE LoadAndHook(p)
  <2>1. /\ proc[p].pc = "load" /\ UNCHANGED configVars /\ link' = link /\ cache' = cache
        /\ Found(item)
        /\ proc' = [proc EXCEPT ![p].pc = "packs", ![p].loaded = @ \/ PackRepoLoaded]
    BY <1>5, <1>16 DEF LoadAndHook, homeVars
  <2>2. item = Builtin /\ BuiltinReady
    BY <2>1 DEF InitDone
  <2>3. proc'[p].pc = "packs" /\ (proc'[p].loaded <=> (proc[p].loaded \/ PackRepoLoaded))
    BY <2>1 DEF TypeInv, Runs
  <2>4. PackRepoLoaded \/ FindError
    BY <2>1, <2>2 DEF PackRepoLoaded
  <2>5. homeDir' /\ config' # NoFile /\ BuiltinReady' /\ (FindError' <=> FindError)
    BY <1>8, <2>1, <2>2, FoundFrame
  <2>6. proc'[p].loaded \/ FindError'
    BY <2>3, <2>4, <2>5
  <2> QED
    BY <2>3, <2>5, <2>6 DEF InitDone, InstallSteps
<1>17. CASE Unlink(p)
  <2>1. /\ proc[p].pc = "unlink" /\ UNCHANGED configVars
        /\ Goto(p, "delete_hook") /\ link' = [link EXCEPT ![item] = FALSE]
    BY <1>5, <1>17 DEF Unlink
  <2>2. item = Builtin /\ proc[p].version = BuiltinVersion
    BY <2>1 DEF InitDone
  <2>3. /\ proc'[p].pc = "delete_hook" /\ proc'[p].item = Builtin /\ proc'[p].version = BuiltinVersion
    BY <1>3, <2>1, <2>2 DEF Steps, InitSteps
  <2>4. ~link'[Builtin] /\ homeDir' /\ config' # NoFile
    BY <1>2, <1>8, <2>1, <2>2 DEF HomeTypes
  <2> QED
    BY <2>3, <2>4 DEF InitDone, InstallSteps
<1>18. CASE DeleteHook(p)
  <2>1. /\ proc[p].pc = "delete_hook" /\ UNCHANGED configVars /\ link' = link
        /\ Goto(p, "check")
    BY <1>5, <1>18 DEF DeleteHook, homeVars
  <2>2. item = Builtin /\ proc[p].version = BuiltinVersion /\ ~link[Builtin]
    BY <2>1 DEF InitDone
  <2>3. /\ proc'[p].pc = "check" /\ proc'[p].item = Builtin /\ proc'[p].version = BuiltinVersion
    BY <1>3, <2>1, <2>2 DEF Steps, InitSteps, InstallSteps
  <2>4. ~Found(Builtin)' /\ homeDir' /\ config' # NoFile
    BY <1>8, <2>1, <2>2 DEF Found
  <2> QED
    BY <2>3, <2>4 DEF InitDone, InstallSteps
<1>19. CASE EnsurePacks(p)
  <2>1. /\ proc[p].pc = "packs" /\ UNCHANGED configVars /\ link' = link /\ cache' = cache
        /\ ~Found(Packs)
        /\ proc'[p].item = Packs /\ proc'[p].version \in PacksVersions /\ proc'[p].pc = "check"
    <3>1. /\ proc[p].pc = "packs" /\ UNCHANGED configVars /\ link' = link /\ cache' = cache
          /\ ~Found(Packs)
          /\ \E version \in PacksVersions :
               proc' = [proc EXCEPT ![p].item = Packs, ![p].version = version, ![p].pc = "check"]
      BY <1>5, <1>19 DEF EnsurePacks, homeVars
    <3> QED
      BY <3>1 DEF TypeInv, Runs
  <2>2. /\ homeDir' /\ config' # NoFile /\ BuiltinReady' /\ ~Found(Packs)'
    BY <1>2, <1>8, <2>1, FoundFrame DEF InitDone
  <2> QED
    BY <2>1, <2>2 DEF InitDone, InstallSteps
<1>20. ~FindToChange(p) /\ ~Pull(p)
  BY <1>1 DEF FindToChange, Pull, InitSteps, InstallSteps
<1> QED
  BY <1>6, <1>7, <1>9, <1>10, <1>12, <1>13, <1>14, <1>15, <1>16, <1>17, <1>18, <1>19, <1>20
  DEF HomeStep

\* What init has done it has done after every step of anyone: none but itself
\* is at work.
LEMMA InitKept ==
  ASSUME TypeInv, RunInv, LoneInv, HomeTypes, InitInv, Next
  PROVE  InitInv'
<1>1. PICK p \in Procs :
        \/ Begin(p)
        \/ ConfigStep(p) /\ UNCHANGED <<homeVars, appVars>>
        \/ HomeStep(p) /\ UNCHANGED appVars
        \/ CreateStep(p, Repositories) /\ UNCHANGED <<configVars, homeVars>>
        \/ Killed(p)
  BY DEF Next
<1>2. SUFFICES ASSUME NEW q \in Procs, Running(q)', Op(q)' = "init", proc'[q].alone
               PROVE  InitDone(q)'
  BY DEF InitInv
<1>3. CASE Begin(p)
  <2>1. p = q
    BY <1>2, <1>3, BeginMoves DEF Running
  <2>2. proc'[p].pc = "directories"
    <3>1. FirstStep["init"] = "directories"
      BY DEF FirstStep
    <3> QED
      BY <1>2, <1>3, <2>1, <3>1, BeginMoves DEF Running, Op, Over
  <2>3. /\ proc'[p].loaded = PackRepoLoaded /\ link' = link /\ cache' = cache
    BY <1>3, BeginMoves DEF homeVars
  <2>4. proc'[p].loaded = PackRepoLoaded'
    BY <2>3 DEF PackRepoLoaded, FindError, Found, Content
  <2> QED
    BY <2>1, <2>2, <2>4 DEF InitDone, InstallSteps, At
<1>4. CASE ConfigStep(p) \/ HomeStep(p) \/ CreateStep(p, Repositories) \/ Killed(p)
  <2>1. Worked(p)
    BY <1>4, WorkMoves
  <2>2. Running(q) /\ proc[q].alone /\ Op(q) = "init"
    BY <1>2, <2>1 DEF Worked, Running, Op
  <2>3. p = q
    BY <2>1, <2>2 DEF Worked, LoneInv
  <2>4. HomeStep(p)
    BY <1>2, <1>4, <2>2, <2>3, ConfigMoves, CreateMoves, KillMoves DEF Moved, Running, Over
  <2> QED
    BY <1>2, <2>2, <2>3, <2>4, InitGoesOn DEF InitInv
<1> QED
  BY <1>1, <1>3, <1>4

-----------------------------------------------------------------------------
(* The invariant, and what follows from it.                                *)

\* A terminal's first state satisfies the invariant: no command has been run.
LEMMA InitOfIInv == Init => IInv
<1> SUFFICES ASSUME Init PROVE IInv
  OBVIOUS
<1>1. /\ agenda \in Agendas /\ homeDir \in BOOLEAN /\ config \in {{}, NoFile}
      /\ acked = [k \in Keys |-> "unknown"]
      /\ proc = [p \in Procs |-> NoRun]
  BY DEF Init, InitConfig
<1>2. NoRun \in Runs /\ NoRun.pc = "ok" /\ "ok" \in Over
  BY NoRunIsRun DEF NoRun, Over
<1>3. \A p \in Procs : proc[p] = NoRun /\ ~Running(p) /\ ~Saving(p)
  BY <1>1, <1>2 DEF Running, Saving, At
<1>4. TypeInv
  BY <1>1, <1>2 DEF TypeInv, Contents
<1>5. RunInv /\ LoneInv /\ InitInv
  BY <1>3 DEF RunInv, LoneInv, InitInv
<1>6. SaveInv
  BY <1>1, <1>3 DEF SaveInv, KeepsOut, KeepsIn
<1>7. ScaffoldInv
  <2>1. charts = "none" /\ DOMAIN files = {"tasks", "others", "ignore"}
    BY DEF Init, InitApp
  <2>2. \A p \in Procs : proc[p].pc \notin Scaffolding
    BY <1>2, <1>3 DEF Scaffolding
  <2> QED
    BY <2>1, <2>2 DEF ScaffoldInv, Made, Scaffolding
<1>8. HomeTypes
  BY DEF Init, InitHome, HomeTypes
<1> QED
  BY <1>4, <1>5, <1>6, <1>7, <1>8 DEF IInv

\* And every step keeps it.
LEMMA StepOfIInv == IInv /\ [Next]_vars => IInv'
<1> SUFFICES ASSUME IInv, [Next]_vars PROVE IInv'
  OBVIOUS
<1>1. CASE Next
  BY <1>1, TypesKept, RunsKept, SavesKept, LoneKept, ScaffoldKept, HomeTypesKept, InitKept DEF IInv
<1>2. CASE UNCHANGED vars
  <2>1. UNCHANGED <<agenda, homeDir, config, acked, proc, link, cache, charts, files, toml, broken>>
    BY <1>2 DEF vars, configVars, procVars, homeVars, appVars
  <2>2. TypeInv' /\ RunInv' /\ SaveInv' /\ LoneInv'
    BY <2>1 DEF IInv, TypeInv, RunInv, SaveInv, LoneInv, Running, Op, Saving, At, KeepsOut, KeepsIn
  <2>3. ScaffoldInv'
    BY <2>1 DEF IInv, ScaffoldInv, Made, Complete
  <2>4. HomeTypes' /\ InitInv'
    <3>1. HomeTypes'
      BY <2>1 DEF IInv, HomeTypes
    <3>2. ASSUME NEW p \in Procs, InitDone(p)
          PROVE  InitDone(p)'
      <4>1. /\ Content(Builtin)' = Content(Builtin) /\ PackRepoLoaded' = PackRepoLoaded
            /\ Found(proc[p].item)' <=> Found(proc[p].item)
            /\ FindError' <=> FindError
            /\ BuiltinReady' <=> BuiltinReady
        BY <2>1 DEF BuiltinReady, PackRepoLoaded, FindError, Found, Content
      <4>2. homeDir' = homeDir /\ config' = config /\ proc' = proc /\ link' = link
        BY <2>1
      <4> QED
        BY <3>2, <4>1, <4>2 DEF InitDone, At
    <3> QED
      BY <2>1, <3>1, <3>2 DEF IInv, InitInv, Running, Op
  <2> QED
    BY <2>2, <2>3, <2>4 DEF IInv
<1> QED
  BY <1>1, <1>2

\* What a successful config set has set is in config.toml when no save is under
\* way, what an unset has taken out is in it at no time, up to the saves that
\* broke off and the keys that a save over another's had read otherwise.
THEOREM SettingsAreKept == Spec => []SettingsKept
<1>1. IInv => SettingsKept
  BY DEF IInv, SaveInv, SettingsKept, KeepsOut, KeepsIn, Saving
<1> QED
  BY <1>1, InitOfIInv, StepOfIInv, PTL DEF Spec

\* A run ends by a step of its own.
LEMMA EndsItself ==
  ASSUME IInv, NEW p \in Procs, Running(p), proc'[p].pc \in Over \ {"killed"}, [Next]_vars
  PROVE  \/ ConfigStep(p) /\ Op(p) \in {"set", "unset"}
         \/ HomeStep(p) /\ Op(p) \notin {"set", "unset", "create"} /\ UNCHANGED appVars
         \/ CreateStep(p, Repositories) /\ Op(p) = "create" /\ UNCHANGED <<configVars, homeVars>>
<1>1. Next
  BY DEF vars, procVars, Running
<1>2. PICK q \in Procs :
        \/ Begin(q)
        \/ ConfigStep(q) /\ UNCHANGED <<homeVars, appVars>>
        \/ HomeStep(q) /\ UNCHANGED appVars
        \/ CreateStep(q, Repositories) /\ UNCHANGED <<configVars, homeVars>>
        \/ Killed(q)
  BY <1>1 DEF Next
<1>3. TypeInv /\ RunInv
  BY DEF IInv
<1>4. ~Begin(q)
  BY <1>3, BeginMoves DEF Running
<1>5. p = q
  BY <1>2, <1>3, <1>4, WorkMoves DEF Worked, Running
<1>6. ~Killed(p)
  BY <1>3, KillMoves DEF Moved
<1> QED
  BY <1>2, <1>3, <1>4, <1>5, <1>6, ConfigMoves, HomeMoves, CreateMoves

\* A run of create that says that it is ready to sail leaves all that up needs,
\* if it made the scaffold or found one that nobody is at work on or left.
LEMMA CreateLeaves ==
  ASSUME IInv, NEW p \in Procs, CreateStep(p, Repositories), proc'[p].pc = "ok",
         At(p, "check_charts") => ~broken /\ \A q \in Procs : proc[q].pc \notin Scaffolding
  PROVE  Complete'
<1>1. TypeInv /\ RunInv /\ ScaffoldInv
  BY DEF IInv
<1>2. \A step \in Steps \union Over : Goto(p, step) => step = "ok"
  BY <1>1, GotoMoves DEF Moved
<1>3. /\ {"failed", "fault"} \subseteq Over
      /\ {"choose", "mkdir"} \union Scaffolding \subseteq Steps /\ "ok" \notin Scaffolding
  BY DEF Over, Steps, CreateSteps, Scaffolding
<1>4. ~Fail(p) /\ ~Fault(p) /\ ~CreateFault(p)
  BY <1>2, <1>3 DEF Fail, Fault, CreateFault
<1>5. /\ ~Goto(p, "choose") /\ ~Goto(p, "mkdir")
      /\ \A step \in Scaffolding : ~Goto(p, step)
  BY <1>2, <1>3
<1>6. CASE CheckCharts(p)
  <2>1. At(p, "check_charts") /\ charts # "none" /\ UNCHANGED <<charts, files, toml>>
    BY <1>5, <1>6 DEF CheckCharts, appVars
  <2> QED
    BY <1>1, <2>1 DEF ScaffoldInv, Complete
<1>7. CASE SaveIgnore(p)
  <2>1. /\ proc[p].pc = "ignore" /\ charts' = charts /\ toml' = toml
        /\ files' = [files EXCEPT !["ignore"] = IF @ = "none" THEN "pack" ELSE @]
    BY <1>4, <1>7 DEF SaveIgnore, SaveFile, At
  <2>2. /\ DOMAIN files = {"tasks", "others", "ignore"}
        /\ charts = "full" /\ toml \in {"written", "garbled"}
        /\ files["tasks"] # "none" /\ files["others"] # "none"
    BY <1>1, <2>1 DEF ScaffoldInv, Made, Scaffolding
  <2> QED
    BY <2>1, <2>2 DEF Complete
<1>8. ~ChoosePack(p, Repositories) /\ ~MakeCharts(p)
  BY <1>4, <1>5 DEF ChoosePack, MakeCharts, Scaffolding
<1>9. /\ ~SaveCharts(p) /\ ~SaveTasks(p) /\ ~SaveOthers(p)
      /\ ~OpenToml(p) /\ ~EncodeToml(p)
  BY <1>4, <1>5 DEF SaveCharts, SaveTasks, SaveOthers, SaveFile, OpenToml, EncodeToml, Scaffolding
<1> QED
  BY <1>6, <1>7, <1>8, <1>9 DEF CreateStep

\* When create says that it is ready to sail, the chart is whole and every file
\* made, if this run made the scaffold, or if none is at work on one or broke off.
THEOREM ReadyMeansScaffolded == Spec => ReadyIsScaffolded
<1>1. IInv /\ [Next]_vars =>
        [\A p \in Procs :
           /\ Op(p) = "create" /\ Running(p) /\ proc'[p].pc = "ok"
           /\ At(p, "check_charts") => ~broken /\ \A q \in Procs : proc[q].pc \notin Scaffolding
           => /\ charts' = "full" /\ toml' \in {"written", "garbled"}
              /\ \A f \in DOMAIN files : files'[f] # "none"]_<<procVars, appVars>>
  <2> SUFFICES ASSUME IInv, [Next]_vars, NEW p \in Procs,
                      Op(p) = "create", Running(p), proc'[p].pc = "ok",
                      At(p, "check_charts") =>
                        ~broken /\ \A q \in Procs : proc[q].pc \notin Scaffolding
               PROVE  /\ charts' = "full" /\ toml' \in {"written", "garbled"}
                      /\ \A f \in DOMAIN files : files'[f] # "none"
    OBVIOUS
  <2>1. "ok" \in Over \ {"killed"}
    BY DEF Over
  <2>2. CreateStep(p, Repositories)
    BY <2>1, EndsItself
  <2>3. Complete' /\ DOMAIN files = {"tasks", "others", "ignore"}
    BY <2>2, CreateLeaves DEF IInv, ScaffoldInv
  <2> QED
    BY <2>3 DEF Complete
<1> QED
  BY <1>1, InitOfIInv, StepOfIInv, PTL DEF Spec, ReadyIsScaffolded

\* A run of init by itself that succeeds ends with the pack repository there,
\* when all else is.
LEMMA InitLeaves ==
  ASSUME IInv, NEW p \in Procs, HomeStep(p), Op(p) = "init", proc'[p].pc = "ok", proc[p].alone
  PROVE  /\ homeDir' /\ config' # NoFile
         /\ link'[Builtin] /\ Content(Builtin)' = BuiltinVersion
         /\ link'[Packs] /\ Content(Packs)' # "missing"
<1> USE DEF At
<1> DEFINE item == proc[p].item
<1>1. TypeInv /\ RunInv /\ HomeTypes
  BY DEF IInv
<1>2. Running(p) /\ proc[p].pc \in InitSteps /\ InitDone(p)
  BY <1>1, HomeMoves, StepNames DEF IInv, RunInv, InitInv
<1>3. Builtin \in Items /\ Packs \in Items /\ Builtin # Packs
  BY HomeAssumption DEF Items
<1>4. \A step \in Steps \union Over : Goto(p, step) => step = "ok"
  BY <1>1, GotoMoves DEF Moved
<1>5. /\ ~Fail(p) /\ ~Fault(p)
      /\ \A step \in InitSteps : ~Goto(p, step)
  BY <1>4 DEF Fail, Fault, Over, Steps, InitSteps, InstallSteps
<1>6. ASSUME UNCHANGED configVars, proc[p].pc \notin {"directories", "config"}
      PROVE  homeDir' /\ config' # NoFile
  BY <1>2, <1>6 DEF InitDone, configVars
<1>7. CASE EnsurePacks(p)
  <2>1. proc[p].pc = "packs" /\ UNCHANGED configVars /\ link' = link /\ cache' = cache
    BY <1>7 DEF EnsurePacks, homeVars
  <2>2. Found(Packs)
    <3>1. ASSUME NEW version,
                 proc' = [proc EXCEPT ![p].item = Packs, ![p].version = version, ![p].pc = "check"]
          PROVE  FALSE
      BY <1>1, <3>1 DEF TypeInv, Runs
    <3> QED
      BY <1>5, <1>7, <3>1 DEF EnsurePacks
  <2>3. BuiltinReady
    BY <1>2, <2>1 DEF InitDone
  <2>4. Content(Builtin)' = Content(Builtin) /\ Content(Packs)' = Content(Packs)
    BY <1>3, <2>1, ContentFrame
  <2> QED
    BY <1>6, <2>1, <2>2, <2>3, <2>4 DEF Found, BuiltinReady
<1>8. CASE Link(p)
  <2>1. /\ proc[p].pc = "link" /\ UNCHANGED configVars /\ cache' = cache
        /\ item = Packs /\ Content(item) # "missing" /\ link' = [link EXCEPT ![item] = TRUE]
    BY <1>5, <1>8 DEF Link, InitSteps
  <2>2. BuiltinReady
    BY <1>2, <1>3, <2>1 DEF InitDone, InstallSteps
  <2>3. Content(Builtin)' = Content(Builtin) /\ Content(Packs)' = Content(Packs)
    BY <1>3, <2>1, ContentFrame
  <2>4. link'[Packs] /\ (link'[Builtin] <=> link[Builtin])
    BY <1>1, <1>3, <2>1 DEF HomeTypes
  <2> QED
    BY <1>6, <2>1, <2>2, <2>3, <2>4 DEF BuiltinReady
<1>9. ~LoadAndHook(p)
  <2>1. ASSUME proc' = [proc EXCEPT ![p].pc = "packs", ![p].loaded = @ \/ PackRepoLoaded]
        PROVE  FALSE
    BY <1>1, <2>1 DEF TypeInv, Runs
  <2> QED
    BY <1>5, <2>1 DEF LoadAndHook
<1>10. ~EnsurePlugins(p)
  <2>1. ASSUME NEW step, step # "ok",
               proc' = [proc EXCEPT ![p].item = Builtin, ![p].version = BuiltinVersion, ![p].pc = step]
        PROVE  FALSE
    BY <1>1, <2>1 DEF TypeInv, Runs
  <2>2. (IF ~Found(Builtin) THEN "check"
         ELSE IF Content(Builtin) = BuiltinVersion THEN "packs" ELSE "unlink") # "ok"
    OBVIOUS
  <2> QED
    BY <1>5, <2>1, <2>2 DEF EnsurePlugins
<1>11. /\ ~EnsureDirectories(p) /\ ~EnsureConfig(p) /\ ~CheckInstall(p) /\ ~Sync(p)
       /\ ~Clone(p) /\ ~SetVersion(p) /\ ~Unlink(p) /\ ~DeleteHook(p)
  BY <1>5 DEF EnsureDirectories, EnsureConfig, CheckInstall, Sync, Clone, SetVersion, Unlink,
              DeleteHook, InitSteps, InstallSteps
<1>12. ~FindToChange(p) /\ ~Pull(p)
  BY <1>2 DEF FindToChange, Pull, InitSteps, InstallSteps
<1> QED
  BY <1>7, <1>8, <1>9, <1>10, <1>11, <1>12 DEF HomeStep

\* A run of init that says $DRAFT_HOME has been configured, by itself, leaves
\* what it has configured, whatever earlier runs had left.
THEOREM InitMeansDelivered == Spec => InitDelivers
<1>1. IInv /\ [Next]_vars =>
        [\A p \in Procs :
           (Op(p) = "init" /\ Running(p) /\ proc'[p].pc = "ok" /\ proc[p].alone) =>
             /\ homeDir' /\ config' # NoFile
             /\ link'[Builtin] /\ Content(Builtin)' = BuiltinVersion
             /\ link'[Packs] /\ Content(Packs)' # "missing"]_<<procVars, configVars, homeVars>>
  <2> SUFFICES ASSUME IInv, [Next]_vars, NEW p \in Procs,
                      Op(p) = "init", Running(p), proc'[p].pc = "ok", proc[p].alone
               PROVE  /\ homeDir' /\ config' # NoFile
                      /\ link'[Builtin] /\ Content(Builtin)' = BuiltinVersion
                      /\ link'[Packs] /\ Content(Packs)' # "missing"
    OBVIOUS
  <2>1. "ok" \in Over \ {"killed"}
    BY DEF Over
  <2>2. HomeStep(p)
    BY <2>1, EndsItself
  <2> QED
    BY <2>2, InitLeaves
<1> QED
  BY <1>1, InitOfIInv, StepOfIInv, PTL DEF Spec, InitDelivers

\* Why a run of init by itself fails.
LEMMA InitFails ==
  ASSUME IInv, BuiltinVersion \in TagSet, PacksVersions \subseteq {""} \union TagSet,
         NEW p \in Procs, HomeStep(p), Op(p) = "init", proc'[p].pc = "failed", proc[p].alone
  PROVE  BeyondRepair \/ (proc[p].item = Packs /\ Content(Packs) = "missing")
<1> USE DEF At
<1> DEFINE item == proc[p].item
<1>1. TypeInv /\ RunInv /\ HomeTypes
  BY DEF IInv
<1>2. Running(p) /\ proc[p].pc \in InitSteps /\ InitDone(p)
  BY <1>1, HomeMoves, StepNames DEF IInv, RunInv, InitInv
<1>3. /\ Builtin \in Items /\ Packs \in Items /\ Builtin # Packs
      /\ Plugins \subseteq Items
  BY HomeAssumption DEF Items
<1>4. \A step \in Steps \union Over : Goto(p, step) => step = "failed"
  BY <1>1, GotoMoves DEF Moved
<1>5. /\ ~Succeed(p) /\ ~Fault(p)
      /\ \A step \in InitSteps : ~Goto(p, step)
  BY <1>4 DEF Succeed, Fault, Over, Steps, InitSteps, InstallSteps
<1>6. FindError => BeyondRepair
  BY <1>3 DEF FindError, BeyondRepair
<1>7. BuiltinVersion \notin {"missing", "malformed"}
  BY VersionSolved
<1>8. proc[p].pc \in InstallSteps => item \in {Builtin, Packs}
  BY <1>2 DEF InitDone
<1>9. CASE CheckInstall(p)
  <2>1. proc[p].pc = "check" /\ link[item] /\ ~Found(item)
    BY <1>2, <1>5, <1>9 DEF CheckInstall, InitDone, InitSteps, InstallSteps
  <2>2. item \in Items
    BY <1>3, <1>8, <2>1 DEF InstallSteps
  <2> QED
    BY <2>1, <2>2 DEF Found, BeyondRepair
<1>10. CASE Sync(p)
  <2>1. proc[p].pc = "sync" /\ cache[item] = "partial"
    BY <1>5, <1>10 DEF Sync, InitSteps, InstallSteps
  <2>2. item \in Items
    BY <1>3, <1>8, <2>1 DEF InstallSteps
  <2> QED
    BY <2>1, <2>2 DEF BeyondRepair
<1>11. CASE Link(p)
  <2>1. proc[p].pc = "link" /\ (Content(item) = "missing" \/ link[item])
    BY <1>5, <1>11 DEF Link, InitSteps
  <2>2. Content(item) = "missing"
    BY <1>2, <2>1 DEF InitDone, InstallSteps
  <2>3. item # Builtin
    BY <1>2, <1>7, <2>1, <2>2 DEF InitDone
  <2> QED
    BY <1>8, <2>1, <2>2, <2>3 DEF InstallSteps
<1>12. ~SetVersion(p)
  <2>1. ASSUME SetVersion(p)
        PROVE  FALSE
    <3>1. proc[p].pc = "version" /\ SolveVersion(proc[p].version) = "error"
      BY <1>5, <2>1 DEF SetVersion, InitSteps, InstallSteps
    <3>2. proc[p].version \in {""} \union TagSet
      BY <1>2, <3>1 DEF InitDone, InstallSteps
    <3>3. "error" # "" /\ "error" \notin TagSet
      BY VersionSolved
    <3> QED
      BY <3>1, <3>2, <3>3, VersionSolved
  <2> QED
    BY <2>1
<1>13. ~LoadAndHook(p)
  <2>1. ASSUME LoadAndHook(p)
        PROVE  FALSE
    <3>1. ~(proc' = [proc EXCEPT ![p].pc = "packs", ![p].loaded = @ \/ PackRepoLoaded])
      <4>1. proc \in [Procs -> Runs] /\ proc[p] \in Runs
        BY <1>1 DEF TypeInv
      <4>2. ASSUME NEW l, proc' = [proc EXCEPT ![p].pc = "packs", ![p].loaded = l] PROVE FALSE
        <5>1. proc'[p] = [proc[p] EXCEPT !.pc = "packs", !.loaded = l]
          BY <4>1, <4>2
        <5>2. proc'[p].pc = "packs"
          BY <4>1, <5>1 DEF Runs
        <5> QED
          BY <5>2
      <4> QED
        BY <4>2
    <3>2. proc[p].pc = "load" /\ (~Found(item) \/ Content(item) = "malformed")
      BY <1>5, <2>1, <3>1 DEF LoadAndHook
    <3>3. item = Builtin /\ BuiltinReady
      BY <1>2, <3>2 DEF InitDone
    <3> QED
      BY <1>7, <3>2, <3>3 DEF BuiltinReady, Found
  <2> QED
    BY <2>1
<1>14. CASE EnsurePlugins(p)
  <2>1. ASSUME NEW step, step # "failed",
               proc' = [proc EXCEPT ![p].item = Builtin, ![p].version = BuiltinVersion, ![p].pc = step]
        PROVE  FALSE
    BY <1>1, <2>1 DEF TypeInv, Runs
  <2>2. (IF ~Found(Builtin) THEN "check"
         ELSE IF Content(Builtin) = BuiltinVersion THEN "packs" ELSE "unlink") # "failed"
    OBVIOUS
  <2>3. FindError
    BY <1>14, <2>1, <2>2 DEF EnsurePlugins
  <2> QED
    BY <1>6, <2>3
<1>15. CASE EnsurePacks(p)
  <2>1. ASSUME NEW version,
               proc' = [proc EXCEPT ![p].item = Packs, ![p].version = version, ![p].pc = "check"]
        PROVE  FALSE
    BY <1>1, <2>1 DEF TypeInv, Runs
  <2>2. proc[p].pc = "packs" /\ ~proc[p].loaded
    BY <1>5, <1>15, <2>1 DEF EnsurePacks
  <2> QED
    BY <1>2, <1>6, <2>2 DEF InitDone
<1>16. /\ ~EnsureDirectories(p) /\ ~EnsureConfig(p)
       /\ ~Clone(p) /\ ~Unlink(p) /\ ~DeleteHook(p)
  BY <1>5 DEF EnsureDirectories, EnsureConfig, Clone, Unlink, DeleteHook, InitSteps, InstallSteps
<1>17. ~FindToChange(p) /\ ~Pull(p)
  BY <1>2 DEF FindToChange, Pull, InitSteps, InstallSteps
<1> QED
  BY <1>9, <1>10, <1>11, <1>12, <1>13, <1>14, <1>15, <1>16, <1>17 DEF HomeStep

\* Init can be run again after anything, if its plugin and the pack repository
\* have the versions that it asks for: by itself it fails for a clone cut short, a link without metadata
\* or what is on a branch only.
THEOREM InitCanBeRunAgain ==
  ASSUME BuiltinVersion \in TagSet, PacksVersions \subseteq {""} \union TagSet
  PROVE  Spec => InitRunsAgain
<1>1. IInv /\ [Next]_vars =>
        [\A p \in Procs :
           (Op(p) = "init" /\ Running(p) /\ proc'[p].pc = "failed" /\ proc[p].alone) =>
             \/ BeyondRepair
             \/ proc[p].item = Packs /\ Content(Packs) = "missing"]_<<procVars, configVars, homeVars>>
  <2> SUFFICES ASSUME IInv, [Next]_vars, NEW p \in Procs,
                      Op(p) = "init", Running(p), proc'[p].pc = "failed", proc[p].alone
               PROVE  BeyondRepair \/ (proc[p].item = Packs /\ Content(Packs) = "missing")
    OBVIOUS
  <2>1. "failed" \in Over \ {"killed"}
    BY DEF Over
  <2>2. HomeStep(p)
    BY <2>1, EndsItself
  <2> QED
    BY <2>2, InitFails
<1> QED
  BY <1>1, InitOfIInv, StepOfIInv, PTL DEF Spec, InitRunsAgain


-----------------------------------------------------------------------------
(* The choice of a pack.                                                   *)

\* The first of some indices is one of them, and before all others.
LEMMA MinOfNaturals ==
  ASSUME NEW S \in SUBSET Nat, S # {}
  PROVE  Min(S) \in S /\ \A n \in S : Min(S) <= n
<1> DEFINE T == {1 .. n : n \in S}
<1>1. T \subseteq FiniteSubsetsOf(Nat) /\ T # {}
  <2>1. \A n \in Nat : IsFiniteSet(1 .. n) /\ 1 .. n \subseteq Nat
    BY FS_Interval
  <2> QED
    BY <2>1 DEF FiniteSubsetsOf
<1>2. \E x \in T : \A y \in T : ~(<<y, x>> \in StrictSubsetOrdering(Nat))
  BY <1>1, FS_StrictSubsetOrderingWellFounded, WFMin
<1>3. PICK m \in S : \A n \in S : ~(<<1 .. n, 1 .. m>> \in StrictSubsetOrdering(Nat))
  BY <1>2
<1>4. ASSUME NEW n \in S
      PROVE  m <= n
  <2>1. SUFFICES ASSUME n < m PROVE FALSE
    OBVIOUS
  <2>2. 1 .. n \subseteq 1 .. m /\ m \in 1 .. m /\ m \notin 1 .. n
    BY <2>1
  <2>3. 1 .. n \in SUBSET Nat /\ 1 .. m \in SUBSET Nat /\ 1 .. n # 1 .. m
    BY <2>2
  <2> QED
    BY <1>3, <2>2, <2>3 DEF StrictSubsetOrdering
<1> QED
  BY <1>4 DEF Min

\* An order of the languages has every one of them in it.
LEMMA OrdersCover ==
  ASSUME NEW S, IsFiniteSet(S), NEW order \in SetToSeqs(S)
  PROVE  /\ DOMAIN order \subseteq Nat
         /\ \A i \in DOMAIN order : order[i] \in S
         /\ \A x \in S : \E i \in DOMAIN order : order[i] = x
<1> DEFINE D == 1 .. Cardinality(S)
<1>1. Cardinality(S) \in Nat
  BY FS_CardinalityType
<1>2. order \in [D -> S] /\ \A i, j \in D : i # j => order[i] # order[j]
  BY DEF SetToSeqs
<1>3. IsFiniteSet(D) /\ Cardinality(D) = Cardinality(S)
  BY <1>1, FS_Interval
<1>4. order \in Injection(D, S)
  BY <1>2 DEF Injection, IsInjective
<1>5. order \in Surjection(D, S)
  BY <1>3, <1>4, FS_Injection
<1> QED
  BY <1>1, <1>2, <1>5 DEF Surjection

\* A directory with finitely many files has finitely many languages.
LEMMA LanguagesFinite ==
  ASSUME NEW listing, IsFiniteSet(DOMAIN listing)
  PROVE  IsFiniteSet(Languages(listing))
<1> DEFINE language == [i \in CountedFiles(listing) |-> Classify(listing[i])]
<1>1. IsFiniteSet(CountedFiles(listing))
  <2>1. CountedFiles(listing) \in SUBSET DOMAIN listing
    BY DEF CountedFiles, Walked
  <2> QED
    BY <2>1, FS_Subset
<1>2. language \in Surjection(CountedFiles(listing), Languages(listing))
  BY DEF Surjection, Languages
<1> QED
  BY <1>1, <1>2, FS_Surjection

\* The first language of ProcessDir that some repository has a pack for is one
\* that no other with a pack has more bytes than.
LEMMA FirstIsBest ==
  ASSUME NEW listing, IsFiniteSet(DOMAIN listing), NEW order \in ProcessDir(listing),
         NEW repositories, DoPackDetection(order, repositories) # NoPack
  PROVE  IsBestPack(DoPackDetection(order, repositories), listing, repositories)
<1> DEFINE tally == Tally(listing)
           packs == UNION Range(repositories)
           known == {i \in DOMAIN order : Alias(order[i]) \in packs}
<1>1. DOMAIN tally = Languages(listing)
  BY Zenon DEF Tally
<1> HIDE DEF tally, packs
<1>2. /\ order \in SetToSeqs(DOMAIN tally)
      /\ \A i, j \in DOMAIN order : i < j => tally[order[i]] >= tally[order[j]]
  BY DEF ProcessDir, tally
<1>3. /\ DOMAIN order \subseteq Nat
      /\ \A i \in DOMAIN order : order[i] \in DOMAIN tally
      /\ \A x \in DOMAIN tally : \E i \in DOMAIN order : order[i] = x
  BY <1>1, <1>2, LanguagesFinite, OrdersCover
<1>4. known # {} /\ DoPackDetection(order, repositories) = Alias(order[Min(known)])
  BY Zenon DEF DoPackDetection, packs
<1>5. Min(known) \in known /\ \A i \in known : Min(known) <= i
  BY <1>3, <1>4, MinOfNaturals
<1> DEFINE best == order[Min(known)]
<1>6. ASSUME NEW m \in DOMAIN tally \ {best}, Alias(m) \in packs
      PROVE  tally[m] <= tally[best]
  <2>1. PICK i \in DOMAIN order : order[i] = m
    BY <1>3, <1>6
  <2>2. i \in known /\ i # Min(known)
    BY <1>6, <2>1
  <2>3. Min(known) < i
    <3>1. Min(known) \in Nat /\ i \in Nat /\ Min(known) <= i
      BY <1>3, <1>5, <2>2
    <3> QED
      BY <2>2, <3>1
  <2>4. tally[best] >= tally[order[i]]
    BY <1>2, <1>5, <2>2, <2>3
  <2> QED
    BY <2>1, <2>4
<1>7. best \in DOMAIN tally
  BY <1>3, <1>5
<1> HIDE DEF best, known
<1>8. \E l \in DOMAIN tally :
        /\ Alias(l) = DoPackDetection(order, repositories)
        /\ \A m \in DOMAIN tally \ {l} : Alias(m) \in packs => tally[m] <= tally[l]
  BY <1>4, <1>6, <1>7 DEF best
<1> QED
  BY <1>8, Zenon DEF IsBestPack, tally, packs

\* What has been detected is the best choice from the repositories as they
\* were, until the chart is made or the run is over.
THEOREM DetectedIsBest == Spec => []BestPackChosen
<1>1. Init => BestPackChosen
  BY DEF Init, InitApp, NoChoice, BestPackChosen
<1>2. BestPackChosen /\ [Next]_vars => BestPackChosen'
  <2> SUFFICES ASSUME BestPackChosen, [Next]_vars, chosen'.how = "detected"
               PROVE  IsBestPack(chosen'.pack, chosen'.listing, chosen'.repositories)
    BY DEF BestPackChosen
  <2>1. CASE chosen' = chosen
    BY <2>1 DEF BestPackChosen
  <2>2. CASE chosen' = NoChoice
    BY <2>2 DEF NoChoice
  <2>3. CASE \E p \in Procs : ChoosePack(p, Repositories) /\ chosen' # chosen
    <3>1. PICK p \in Procs : ChoosePack(p, Repositories) /\ chosen' # chosen
      BY <2>3
    <3>2. PICK listing \in Listings :
            \E order \in ProcessDir(listing) :
              /\ DoPackDetection(order, Repositories) # NoPack
              /\ chosen' = [pack |-> DoPackDetection(order, Repositories), how |-> "detected",
                            listing |-> listing, repositories |-> Repositories]
      <4>1. CASE proc[p].item = ""
        BY <3>1, <4>1 DEF ChoosePack
      <4>2. CASE proc[p].item # ""
        <5>1. \E listing \in Listings, pack \in {FindPack(proc[p].item, Repositories)} :
                chosen' = [pack |-> pack, how |-> "named", listing |-> listing,
                           repositories |-> Repositories]
          BY <3>1, <4>2 DEF ChoosePack
        <5> QED
          BY <5>1
      <4> QED
        BY <4>1, <4>2
    <3>3. PICK order \in ProcessDir(listing) :
            /\ DoPackDetection(order, Repositories) # NoPack
            /\ chosen'.pack = DoPackDetection(order, Repositories)
            /\ chosen'.listing = listing /\ chosen'.repositories = Repositories
      BY <3>2
    <3>4. IsFiniteSet(DOMAIN listing)
      BY ListingsAssumption, FS_Interval
    <3> QED
      BY <3>3, <3>4, FirstIsBest
  <2>4. chosen' = chosen \/ chosen' = NoChoice \/ \E p \in Procs : ChoosePack(p, Repositories)
    <3>1. ASSUME NEW p \in Procs, CreateStep(p, Repositories)
          PROVE  chosen' = chosen \/ chosen' = NoChoice \/ ChoosePack(p, Repositories)
      BY <3>1 DEF CreateStep, CheckCharts, MakeCharts, SaveCharts, SaveTasks, SaveOthers,
                  SaveFile, OpenToml, EncodeToml, SaveIgnore, appVars
    <3> QED
      BY <3>1 DEF Next, vars, appVars, Begin, Killed, KillCreate
  <2> QED
    BY <2>1, <2>2, <2>3, <2>4
<1> QED
  BY <1>1, <1>2, PTL DEF Spec

-----------------------------------------------------------------------------
(* The rules of .gitignore.                                                *)

\* What a path and a line of .gitignore are, and where the lines are that match a path.
PathNames == [stem : STRING, ext : STRING]
RuleLine == [kind : {"ignore", "except"}, pattern : Seq(PathNames)]
Hits(lines, path) == {i \in DOMAIN lines : Match(lines[i].pattern, path)}

\* Not of git's own files.
OutsideGit(path) == \A n \in DOMAIN path : path[n] # Name("", "git")

\* Hidden by the rules of linguist: a line that ignores the path and none that
\* excepts it.
Hidden(lines, path) ==
  /\ \E i \in Hits(lines, path) : lines[i].kind = "ignore"
  /\ ~\E i \in Hits(lines, path) : lines[i].kind = "except"

\* Without .gitattributes these are the rules.
LEMMA IgnoredIsHidden ==
  ASSUME NEW lines \in Seq(RuleLine), NEW path
  PROVE  IsIgnored(InitLinguistAttributes(lines, <<>>), path) <=> Hidden(lines, path)
<1> DEFINE rules == InitLinguistAttributes(lines, <<>>)
           Patterns(kind) == PatternsOf(Range(lines), {kind})
<1>1. \A kind, p : p \in Patterns(kind) <=> \E i \in DOMAIN lines : lines[i].kind = kind /\ lines[i].pattern = p
  BY DEF PatternsOf, Range
<1>2. Range(<<>>) = {}
  BY DEF Range
<1>3. rules.ignore = Patterns("ignore") /\ rules.except = Patterns("except")
  BY <1>2 DEF InitLinguistAttributes, PatternsOf
<1> HIDE DEF rules, Patterns
<1>4. \A kind : (\E p \in Patterns(kind) : Match(p, path)) <=> \E i \in Hits(lines, path) : lines[i].kind = kind
  BY <1>1 DEF Hits
<1>5. IsIgnored(rules, path) <=>
        (\E p \in Patterns("ignore") : Match(p, path)) /\ ~\E p \in Patterns("except") : Match(p, path)
  BY <1>3 DEF IsIgnored
<1> QED
  BY <1>4, <1>5 DEF Hidden, rules

\* Of the lines that match a path there is a last one.
LEMMA LastHit ==
  ASSUME NEW lines \in Seq(RuleLine), NEW path, Hits(lines, path) # {}
  PROVE  /\ Max(Hits(lines, path)) \in Hits(lines, path)
         /\ \A i \in Hits(lines, path) : i <= Max(Hits(lines, path))
<1> DEFINE S == Hits(lines, path)
           T == {Len(lines) - i : i \in S}
<1>1. S \subseteq 1 .. Len(lines) /\ S # {} /\ Len(lines) \in Nat
  BY DEF Hits
<1> HIDE DEF S
<1>2. T \in SUBSET Nat /\ T # {}
  <2>1. \A i \in S : Len(lines) - i \in Nat
    BY <1>1
  <2> QED
    BY <1>1, <2>1
<1>3. PICK t \in T : \A u \in T : t <= u
  BY <1>2, MinOfNaturals
<1>4. PICK m \in S : t = Len(lines) - m
  BY <1>3
<1>5. \A i \in S : m >= i
  <2> SUFFICES ASSUME NEW i \in S PROVE m >= i
    OBVIOUS
  <2>1. Len(lines) - m <= Len(lines) - i
    BY <1>3, <1>4
  <2>2. m \in 1 .. Len(lines) /\ i \in 1 .. Len(lines)
    BY <1>1
  <2> HIDE DEF T
  <2> QED
    BY <1>1, <2>1, <2>2
<1>6. Max(S) \in S /\ \A i \in S : Max(S) >= i
  BY <1>4, <1>5 DEF Max
<1>7. \A i \in S : i \in Nat
  BY <1>1
<1> QED
  BY <1>6, <1>7 DEF S

\* What git keeps by its last match is not hidden; and what is not hidden git
\* keeps if the exceptions come last.
LEMMA LastMatchKeeps ==
  ASSUME NEW lines \in Seq(RuleLine), NEW path
  PROVE  LET hits == Hits(lines, path)
             kept == hits # {} => lines[Max(hits)].kind = "except"
         IN  /\ kept => ~Hidden(lines, path)
             /\ ExceptionsLast(lines) /\ ~Hidden(lines, path) => kept
<1> DEFINE hits == Hits(lines, path)
           kept == hits # {} => lines[Max(hits)].kind = "except"
<1>1. ASSUME kept PROVE ~Hidden(lines, path)
  BY <1>1, LastHit DEF Hidden
<1>2. ASSUME ExceptionsLast(lines), ~Hidden(lines, path), hits # {}
      PROVE  lines[Max(hits)].kind = "except"
  <2>1. Max(hits) \in hits /\ \A i \in hits : i <= Max(hits)
    BY <1>2, LastHit
  <2>2. \A i \in hits : i \in 1 .. Len(lines)
    BY DEF Hits
  <2>3. SUFFICES ASSUME lines[Max(hits)].kind # "except" PROVE FALSE
    OBVIOUS
  <2>4. lines[Max(hits)].kind = "ignore"
    <3>1. lines[Max(hits)] \in RuleLine
      BY <2>1, <2>2
    <3> QED
      BY <2>3, <3>1 DEF RuleLine
  <2>5. PICK i \in hits : lines[i].kind = "except"
    BY <1>2, <2>1, <2>4 DEF Hidden
  <2>6. Max(hits) < i
    BY <1>2, <2>1, <2>4, <2>5 DEF ExceptionsLast, Hits
  <2> QED
    BY <2>1, <2>2, <2>5, <2>6
<1> QED
  BY <1>1, <1>2

\* Without .gitattributes the detection counts every file that git keeps, and
\* no other if the exceptions come last; but for a rule that ignores ".", the
\* directory that is walked, as a lone star does.
THEOREM GitKeepsCounted ==
  ASSUME NEW lines \in Seq(RuleLine), ~Hidden(lines, Top),
         NEW path \in Seq(PathNames), path # <<>>, OutsideGit(path)
  PROVE  /\ GitKeeps(lines, path) => Counted(lines, path)
         /\ ExceptionsLast(lines) => (Counted(lines, path) <=> GitKeeps(lines, path))
<1> DEFINE above(n) == SubSeq(path, 1, n)
           rules == InitLinguistAttributes(lines, <<>>)
<1>1. Len(path) \in Nat \ {0} /\ DOMAIN path = 1 .. Len(path) /\ above(Len(path)) = path
  <2>1. Len(path) \in Nat \ {0} /\ DOMAIN path = 1 .. Len(path)
    OBVIOUS
  <2>2. above(Len(path)) = path
    <3> DEFINE whole == above(Len(path))
    <3>1. Len(whole) = Len(path) /\ DOMAIN whole = 1 .. Len(path)
      BY <2>1
    <3>2. \A i \in 1 .. Len(path) : whole[i] = path[i]
      BY <2>1
    <3>3. whole = [i \in 1 .. Len(path) |-> whole[i]] /\ path = [i \in 1 .. Len(path) |-> path[i]]
      BY <2>1, <3>1
    <3> HIDE DEF whole
    <3> QED
      BY <3>2, <3>3 DEF whole
  <2> QED
    BY <2>1, <2>2
<1>2. Counted(lines, path) <=> \A n \in DOMAIN path : ~Hidden(lines, above(n))
  <2>1. ~IsIgnored(rules, Top)
    BY IgnoredIsHidden DEF Hidden
  <2>2. Counted(lines, path) <=>
          (\A n \in 1 .. Len(path) - 1 : ~IsIgnored(rules, above(n))) /\ ~IsIgnored(rules, path)
    <3>1. \A n \in 1 .. Len(path) - 1 : n \in DOMAIN path
      BY <1>1
    <3> HIDE DEF above
    <3>2. Reached(rules, path) <=> \A n \in 1 .. Len(path) - 1 : ~IsIgnored(rules, above(n))
      BY <2>1, <3>1 DEF Reached, OutsideGit, above
    <3> QED
      BY <3>2 DEF Counted
  <2>3. \A p : IsIgnored(rules, p) <=> Hidden(lines, p)
    BY IgnoredIsHidden
  <2>4. 1 .. Len(path) = (1 .. Len(path) - 1) \union {Len(path)}
    <3>1. Len(path) \in Nat \ {0}
      BY <1>1
    <3> QED
      BY <3>1
  <2> HIDE DEF above, rules
  <2> QED
    BY <1>1, <2>2, <2>3, <2>4
<1>3. GitKeeps(lines, path) <=>
        \A n \in DOMAIN path :
          Hits(lines, above(n)) # {} => lines[Max(Hits(lines, above(n)))].kind = "except"
  BY DEF GitKeeps, Hits
<1> HIDE DEF above
<1> QED
  BY <1>2, <1>3, LastMatchKeeps
=============================================================================
