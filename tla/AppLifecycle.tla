---------------------------- MODULE AppLifecycle -----------------------------
(***************************************************************************)
(* The life of one application: `draft up`, `draft delete`, `draft         *)
(* connect` and `draft logs` (cmd/draft) run one after the other or at the *)
(* same time, fail half way or are killed, over what they share: the log   *)
(* files of the builds, the build history and the helm release.            *)
(*                                                                         *)
(* Commands are numbered in the order they start.  The build ID of an up   *)
(* is its number: builder.New takes a ULID, which grows with time.  The    *)
(* history is the one that the storage engine is shown to implement.       *)
(***************************************************************************)
EXTENDS Naturals

CONSTANT MaxRuns            \* bound on the commands run

ASSUME LifecycleAssumption == MaxRuns \in Nat

VARIABLES
  logs,             \* the builds that have a log file
  exists, builds,   \* the build history
  release,          \* the build that the helm release deploys, 0 if none
  cmd,              \* run |-> the command
  pc,               \* run |-> its next step, or how it ended
  undone,           \* run |-> the writing steps of it that failed or were cut short, and
                    \*        may have left a trace on the release there is
  target            \* run |-> the build that connect or logs has found

sharedVars == <<logs, exists, builds, release>>
runVars    == <<cmd, pc, undone, target>>
vars       == <<sharedVars, runVars>>

Runs     == 1 .. MaxRuns
Commands == {"up", "delete", "connect", "logs"}
Steps    == {"prepare", "open_log", "build", "helm", "save", "displayed", "latest", "get_pod",
             "connected", "follow", "delete_builds", "delete_release", "cleanup"}

\* The steps that nothing bounds: Build polls for what may never come, Display
\* for a code that may never come, a connection lasts until the user ends it,
\* and `draft logs --tail` follows the file.
Waiting  == {"build", "displayed", "connected", "follow"}
Ended    == {"ok", "failed", "no_history", "crashed"}

History == INSTANCE BuildHistory WITH Builds <- Runs

Init ==
  /\ logs = {} /\ History!Init /\ release = 0
  /\ cmd = [r \in Runs |-> "none"] /\ pc = [r \in Runs |-> "none"]
  /\ undone = [r \in Runs |-> {}] /\ target = [r \in Runs |-> 0]

-----------------------------------------------------------------------------
At(r, step) == pc[r] = step

\* Of the steps that write to the cluster it is remembered that they failed.
Writes == {"helm", "save", "delete_builds", "delete_release"}

\* The command goes on to its next step, or is through.
Goto(r, step) == pc' = [pc EXCEPT ![r] = step] /\ UNCHANGED undone

\* The same after a failure of the step it was at.
End(r, how) ==
  /\ pc' = [pc EXCEPT ![r] = how]
  /\ undone' = [undone EXCEPT ![r] = @ \union ({pc[r]} \intersect Writes)]

FirstStep(c) == CASE c = "up" -> "prepare" [] c = "delete" -> "delete_builds"
                  [] OTHER -> "latest"

Start(r, c) ==
  /\ At(r, "none") /\ \A q \in 1 .. r - 1 : ~At(q, "none")
  /\ cmd' = [cmd EXCEPT ![r] = c]
  /\ Goto(r, FirstStep(c))
  /\ UNCHANGED <<sharedVars, target>>

-----------------------------------------------------------------------------
(* draft up (upCmd.run).                                                   *)

\* tasks.Load, the pre-up tasks, LoadWithEnv and the clients of docker,
\* Kubernetes and helm: any may fail, and nothing shared is changed.
Prepare(r) ==
  /\ At(r, "prepare")
  /\ End(r, "failed") \/ Goto(r, "open_log")
  /\ UNCHANGED <<sharedVars, cmd, target>>

\* A mutant of OpenLog: the log file is named after a build ID not yet set.
OpenLogUnset(r) ==
  /\ At(r, "open_log")
  /\ \/ End(r, "crashed") /\ UNCHANGED logs
     \/ Goto(r, "build") /\ logs' = logs \union {target[r]}
  /\ UNCHANGED <<exists, builds, release, cmd, target>>

\* newAppContext: the log file is made last; if anything fails, Up panics.
OpenLog(r) ==
  /\ At(r, "open_log")
  /\ \/ End(r, "crashed") /\ UNCHANGED logs
     \/ Goto(r, "build") /\ logs' = logs \union {r}
  /\ UNCHANGED <<exists, builds, release, cmd, target>>

\* Build and Push, when they return: an error of either skips the release.
BuildAndPush(r) ==
  /\ At(r, "build")
  /\ Goto(r, "helm") \/ Goto(r, "save")
  /\ UNCHANGED <<sharedVars, cmd, target>>

\* The release: one that fails may have been applied (a timeout of --wait).
\* What commands that have ended left undone concerns the release before it.
Helm(r) ==
  /\ At(r, "helm")
  /\ \/ Goto(r, "save") /\ UNCHANGED release
     \/ /\ release' = r /\ pc' = [pc EXCEPT ![r] = "save"]
        /\ undone' = [q \in Runs |-> IF pc[q] \in Ended THEN {} ELSE undone[q]]
  /\ UNCHANGED <<logs, exists, builds, cmd, target>>

\* The deferred saveState; its error is only logged.
SaveState(r) ==
  /\ At(r, "save")
  /\ \/ (History!Create(r) \/ History!Add(r)) /\ Goto(r, "displayed")
     \/ /\ UNCHANGED <<exists, builds>>
        /\ End(r, "displayed")
  /\ UNCHANGED <<logs, release, cmd, target>>

\* Display returns, whatever the outcome.  With auto-connect the command
\* turns into connect; else it runs the post-deploy tasks in the pods there
\* are, waiting for none, and the post-up tasks, all of whose errors are only
\* logged: but without a tasks file, taskList.Run is called on a nil pointer
\* (whether there is one is chosen here).
Displayed(r) ==
  /\ At(r, "displayed")
  /\ \E end \in {"latest", "ok", "crashed"} : Goto(r, end)
  /\ UNCHANGED <<sharedVars, cmd, target>>

\* An up, which ends in connect if it connects.
UpStep(r) ==
  \/ Prepare(r) \/ OpenLog(r) \/ BuildAndPush(r) \/ Helm(r)
  \/ SaveState(r) \/ Displayed(r)

-----------------------------------------------------------------------------
(* draft connect (connectCmd.run, also at the end of up) and draft logs.   *)

\* The log file is printed, or followed; connect looks for a pod of the build.
AfterLatest(c) == IF c = "logs" THEN {"ok", "follow"} ELSE {"get_pod"}

\* A mutant of Latest: the first file of the directory.
Oldest(r) ==
  /\ At(r, "latest")
  /\ \/ End(r, "failed") /\ UNCHANGED target
     \/ \E b \in logs :
          /\ \A l \in logs : b <= l
          /\ target' = [target EXCEPT ![r] = b]
          /\ \E step \in AfterLatest(cmd[r]) : Goto(r, step)
  /\ UNCHANGED <<sharedVars, cmd>>

\* getLatestBuildID: the last of the log files, in the order of their names.
\* It fails if there is none, as may what connect and logs do before it.
Latest(r) ==
  /\ At(r, "latest")
  /\ \/ End(r, "failed") /\ UNCHANGED target
     \/ \E b \in logs :
          /\ \A l \in logs : l <= b
          /\ target' = [target EXCEPT ![r] = b]
          /\ \E step \in AfterLatest(cmd[r]) : Goto(r, step)
  /\ UNCHANGED <<sharedVars, cmd>>

\* A mutant of GetPod: no timeout.
GetPodWaits(r) ==
  /\ At(r, "get_pod")
  /\ target[r] = release /\ Goto(r, "connected")
  /\ UNCHANGED <<sharedVars, cmd, target>>

\* podutil.GetPod: a pod of that very build, once it is ready, or five minutes
\* are over.
GetPod(r) ==
  /\ At(r, "get_pod")
  /\ \/ target[r] = release /\ Goto(r, "connected")
     \/ End(r, "failed")
  /\ UNCHANGED <<sharedVars, cmd, target>>

\* A port cannot be forwarded or a log not be read, the run was a dry one, or
\* the user ends the session (ConnectSession has it in full).
Connected(r) ==
  /\ At(r, "connected")
  /\ Goto(r, "ok") \/ End(r, "failed")
  /\ UNCHANGED <<sharedVars, cmd, target>>

\* tailLogs, which opens the file again when it is gone, ends with an error.
Follow(r) ==
  /\ At(r, "follow")
  /\ End(r, "failed")
  /\ UNCHANGED <<sharedVars, cmd, target>>

-----------------------------------------------------------------------------
(* draft delete (Delete).                                                  *)

\* store.DeleteBuilds: no history is an error, and nothing else is done; the
\* answer to the deletion may be lost.
DeleteBuilds(r) ==
  /\ At(r, "delete_builds")
  /\ \/ ~exists /\ End(r, "no_history") /\ UNCHANGED <<exists, builds>>
     \/ End(r, "failed") /\ UNCHANGED <<exists, builds>>
     \/ End(r, "failed") /\ History!Clear
     \/ Goto(r, "delete_release") /\ History!Clear
  /\ UNCHANGED <<logs, release, cmd, target>>

\* A mutant of DeleteRelease: its error is not looked at.
DeleteReleaseIgnored(r) ==
  /\ At(r, "delete_release")
  /\ Goto(r, "cleanup")
  /\ release' = 0 \/ UNCHANGED release
  /\ UNCHANGED <<logs, exists, builds, cmd, target>>

\* setupHelm and helmClient.DeleteRelease with purge.
DeleteRelease(r) ==
  /\ At(r, "delete_release")
  /\ \/ End(r, "failed") /\ (release' = 0 \/ UNCHANGED release)
     \/ release # 0 /\ Goto(r, "cleanup") /\ release' = 0
  /\ UNCHANGED <<logs, exists, builds, cmd, target>>

\* The cleanup tasks, if there is a tasks file and it can be read.
Cleanup(r) ==
  /\ At(r, "cleanup")
  /\ End(r, "failed") \/ Goto(r, "ok")
  /\ UNCHANGED <<sharedVars, cmd, target>>

Step(r) ==
  \/ UpStep(r) \/ Latest(r) \/ GetPod(r) \/ Connected(r) \/ Follow(r)
  \/ DeleteBuilds(r) \/ DeleteRelease(r) \/ Cleanup(r)

-----------------------------------------------------------------------------
(* What is outside the commands.                                           *)

\* The process is killed; a request it has made may still be applied.
Kill(r) ==
  /\ pc[r] \in Steps
  /\ End(r, "failed")
  /\ \/ UNCHANGED <<exists, builds, release>>
     \/ At(r, "helm") /\ release' = r /\ UNCHANGED <<exists, builds>>
     \/ At(r, "save") /\ (History!Create(r) \/ History!Add(r)) /\ UNCHANGED release
     \/ At(r, "delete_builds") /\ History!Clear /\ UNCHANGED release
     \/ At(r, "delete_release") /\ release' = 0 /\ UNCHANGED <<exists, builds>>
  /\ UNCHANGED <<logs, cmd, target>>

Next == \E r \in Runs : (\E c \in Commands : Start(r, c)) \/ Step(r) \/ Kill(r)

\* A command that has started goes on: a request that it makes is answered or
\* fails, and a task of the user returns.  Nothing is assumed of what it waits
\* for, which may not come at all, nor of what the requests do.
Spec     == Init /\ [][Next]_vars
FairSpec == Spec /\ \A r \in Runs : WF_vars(pc[r] \notin Waiting /\ Step(r))

-----------------------------------------------------------------------------
(* Properties.                                                             *)

\* The type invariant: every variable stays in its range.
TypeOK ==
  /\ logs \subseteq Runs /\ exists \in BOOLEAN /\ builds \subseteq Runs
  /\ release \in {0} \union Runs
  /\ cmd \in [Runs -> {"none"} \union Commands]
  /\ pc \in [Runs -> {"none"} \union Steps \union Ended]
  /\ undone \in [Runs -> SUBSET Writes]
  /\ target \in [Runs -> {0} \union Runs]

\* What runs in the cluster is in the build history, unless a command is, or
\* was stopped, between the two: its own up between the release and saveState,
\* or a delete that had not ended by then between DeleteBuilds and
\* DeleteRelease.  No interleaving of commands that all got through loses
\* track of the release, and the next up that does puts the two together.
ReleaseIsRecorded ==
  release # 0 /\ release \notin builds =>
    \/ At(release, "save") \/ undone[release] \intersect {"helm", "save"} # {}
    \/ \E d \in Runs : \/ At(d, "delete_release")
                       \/ undone[d] \intersect {"delete_builds", "delete_release"} # {}

\* `draft up` with auto-connect, which asks for "the latest build" and not for
\* its own, never connects to a pod of a build older than its own: its log file
\* is there before it asks.
ConnectsForward ==
  \A r \in Runs :
    cmd[r] = "up" /\ pc[r] \in {"connected", "ok"} /\ target[r] # 0 => target[r] >= r

\* Every command comes to an end or to one of the four steps that nothing
\* bounds, and stays there: also an up that connects to a build that has
\* failed, or that another up or a delete has replaced, and of which no pod
\* will ever be ready.  When Build and Display do not return is what BuilderUp,
\* AzureUp and Display say (StageEnds, StreamEnds, DisplayReturns).
CommandsEnd ==
  \A r \in Runs : cmd[r] # "none" ~> (pc[r] \in Ended \/ [](pc[r] \in Waiting))

\* "This command deletes an application from your Kubernetes environment":
\* with no other command at work, delete does not give up while there is a
\* release to delete.
DeleteGetsThrough ==
  [][\A r \in Runs : At(r, "delete_builds") /\ (\A q \in Runs \ {r} : pc[q] \notin Steps) =>
       (pc'[r] = "no_history" => release = 0)]_vars
=============================================================================
