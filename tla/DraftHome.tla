------------------------------ MODULE DraftHome ------------------------------
(***************************************************************************)
(* The developer's machine between the commands of draft: $DRAFT_HOME and  *)
(* the application's directory, worked on by `draft init`, `draft plugin`, *)
(* `draft config` and `draft create`, from several terminals, with faults  *)
(* and kills at every step.                                                *)
(***************************************************************************)
EXTENDS PluginHome, AppScaffold

CONSTANT RepositoryPacks    \* the packs of the default repository and of one more that
                            \* the developer has linked by hand

vars == <<configVars, procVars, homeVars, appVars>>

Init == InitConfig /\ InitHome /\ InitApp

\* FindRepositories: the repositories there are in packs/.
Repositories ==
  IF ~homeDir THEN <<>>
  ELSE IF Found(Packs) THEN RepositoryPacks ELSE SubSeq(RepositoryPacks, 2, Len(RepositoryPacks))

FirstStep == [init |-> "directories", install |-> "check", remove |-> "find", update |-> "find",
              set |-> "truncate", unset |-> "truncate", create |-> "check_charts"]

Begin(p) ==
  /\ \E cmd \in agenda : BeginRun(p, cmd, FirstStep[cmd.op], PackRepoLoaded)
  /\ UNCHANGED <<configVars, homeVars, appVars>>

Killed(p) ==
  /\ Kill(p) /\ KillCreate(p)
  /\ UNCHANGED <<homeVars, charts, files, toml>>

Next ==
  \E p \in Procs :
    \/ Begin(p)
    \/ ConfigStep(p) /\ UNCHANGED <<homeVars, appVars>>
    \/ HomeStep(p) /\ UNCHANGED appVars
    \/ CreateStep(p, Repositories) /\ UNCHANGED <<configVars, homeVars>>
    \/ Killed(p)

Spec == Init /\ [][Next]_vars

=============================================================================
