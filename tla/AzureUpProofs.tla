---------------------------- MODULE AzureUpProofs ----------------------------
(***************************************************************************)
(* Proofs about `draft up` with the azure container builder, for any       *)
(* settings, challenges, faults and lengths of the log: unless the worker  *)
(* of the build has panicked, a release follows a remote build that is     *)
(* over and deploys an image that the registry has; `draft up` always      *)
(* keeps the promise of the stages, and feeds Display what it is made for; *)
(* and a challenge that quotes its values is understood as it was written. *)
(***************************************************************************)
EXTENDS AzureUp, Integers, FiniteSetTheorems, SequenceTheorems, WellFoundedInduction, TLAPS

-----------------------------------------------------------------------------
(* The inductive invariant of the build.                                   *)

RemoteOver == remote \in {"succeeded", "failed"}

\* What the worker has done when it is left without an error.
LogCopied == logBlob.state = "complete" /\ appLog = logBlob.len

\* A worker that has panicked, and the closes it has run.
Panics == {"panicking", "panic_errc", "panicked"}

BuildTypes ==
  /\ bpc \in {"idle", "start", "select", "ongoing", "complete", "returned"}
  /\ bworker \in {"none", "upload_url", "put_blob", "queue", "wait", "result", "log_link", "poll",
                  "copy", "send", "close_msgc", "close_errc", "gone"} \union Panics
  /\ bclosed \subseteq BuildChans /\ bnil \subseteq bclosed /\ berr \in Errors
  /\ remote \in {"none", "running", "succeeded", "failed"}
  /\ logBlob \in [state : {"absent", "open", "complete"}, len : Nat] /\ appLog \in Nat

\* The worker against the build service: nothing runs before the request, the
\* registry has been found valid by then, and the log is complete only when
\* the build is over.
WorkerInv ==
  /\ bpc \in {"idle", "start"} <=> bworker = "none"
  /\ bworker \in {"none", "upload_url", "put_blob", "queue"} => remote = "none"
  /\ \/ bworker \in {"put_blob", "queue", "wait", "result", "log_link", "poll", "copy"} \union Panics
     \/ remote # "none"
     => ValidRegistryName(settings.registry)
  /\ logBlob.state = "complete" => RemoteOver
  /\ bworker = "copy" => logBlob.state = "complete"
  /\ bworker \in {"close_msgc", "close_errc", "gone"} /\ berr = "nil" => LogCopied

\* The caller against the worker: without an error it returns only when the
\* worker has closed both channels, which is the last thing it does, and does
\* after a panic too.
CallerInv ==
  /\ "errc" \in bclosed => bworker \in {"gone", "panicked"}
  /\ bpc \in {"idle", "start", "select", "ongoing"} => berr = "nil"
  /\ bpc \in {"complete", "returned"} /\ berr = "nil" => bnil = BuildChans
  /\ remote = "succeeded" => RemoteImages \subseteq hub

BuildInv == BuildTypes /\ WorkerInv /\ CallerInv

\* Up's goroutine against the build, its release and the store.
UpInv ==
  /\ DOMAIN settings.values \subseteq {"registry", "name", "tag"}
  /\ rerr \in Errors
  /\ upc \in {"new_context", "build", "push", "release", "namespace", "challenge", "exchange",
              "pull_secret", "announce", "helm", "status", "notes", "release_complete", "save", "done"}
  /\ upc = "new_context" <=> bpc = "idle"
  /\ upc \notin {"new_context", "build"} => bpc = "returned"
  /\ berr = "err" => upc \in {"build", "save", "done"}
  /\ upc \in {"exchange", "pull_secret", "announce", "helm"} => settings.registry = "login_server"
  /\ deployed # {} =>
       /\ deployed = {ChartImage(settings, context.archive)} /\ settings.registry = "login_server"
       /\ upc \in {"status", "notes", "release_complete", "save", "done"}
       /\ rerr = "nil" /\ berr = "nil"
  /\ upc \in {"status", "notes"} => deployed # {}
  /\ rerr = "err" => upc \in {"release_complete", "save", "done"} /\ berr = "nil"
  /\ stored = "none" <=> upc # "done"
  /\ closed => upc = "done"
  /\ stored \in {"none", "lost", "released", "unreleased"}

IInv == BuildInv /\ UpInv

-----------------------------------------------------------------------------
(* Every step keeps it.                                                    *)

\* The steps of the program.
LEMMA Steps ==
  ASSUME [Next]_vars
  PROVE  /\ UNCHANGED <<settings, context>>
         /\ \/ UpStep
            \/ CallerStep /\ UNCHANGED upVars
            \/ WorkerStep /\ UNCHANGED <<out, upVars>>
            \/ CloseStream \/ Receive \/ Exit \/ Crash
            \/ RemoteStep /\ UNCHANGED <<out, upVars>>
            \/ UNCHANGED vars
<1>1. CASE Service
  BY <1>1 DEF Service, inputVars
<1>2. CASE Stopped \/ UNCHANGED vars
  BY <1>2 DEF Stopped, vars, inputVars
<1>3. CASE \/ Running(UpStep) \/ Running(BuildCallerStep) \/ Running(BuildWorkerStep)
           \/ Running(CloseStream) \/ Running(Receive) \/ Running(Exit) \/ Running(Crash)
  BY <1>3 DEF Running, BuildCallerStep, BuildWorkerStep, inputVars
<1> QED
  BY <1>1, <1>2, <1>3 DEF Next

\* Up's goroutine leaves the build alone, except that it starts it.
LEMMA UpLeavesBuild ==
  ASSUME IInv, UpStep
  PROVE  \/ UNCHANGED buildVars
         \/ bpc = "idle" /\ bpc' = "start" /\ UNCHANGED <<bclosed, bnil, berr, bworker, remoteVars, appLog>>
<1>1. CASE NewAppContext
  BY <1>1 DEF NewAppContext, UpGoes, IInv, UpInv, buildVars, callerVars
<1>2. CASE BuildReturned \/ Push \/ ReleaseComplete \/ SaveState
  BY <1>2 DEF BuildReturned, Push, ReleaseComplete, SaveState
<1>3. CASE ReleaseStart \/ ReleaseAnnounce \/ ReleaseStatus \/ ReleaseNotes
  BY <1>3 DEF ReleaseStart, ReleaseAnnounce, ReleaseStatus, ReleaseNotes, ReleaseSays
<1>4. CASE Namespace \/ PullSecret \/ Challenge \/ Exchange \/ Helm
  BY <1>4 DEF Namespace, PullSecret, Challenge, Exchange, Helm, KubeRequest
<1> QED
  BY <1>1, <1>2, <1>3, <1>4 DEF UpStep

\* The goroutine that called Build keeps the invariant of the build.
LEMMA CallerKeepsBuildInv ==
  ASSUME BuildInv, CallerStep, UNCHANGED <<settings, context>>
  PROVE  BuildInv'
<1> USE DEF BuildInv, BuildTypes, WorkerInv, CallerInv, RemoteOver, LogCopied, ValidRegistryName,
            Panics, BuildChans, Errors, CallerOnly, remoteVars, WorkerTo
<1>0. RemoteImages' = RemoteImages
  BY DEF RemoteImages, BuildImages
<1>1. CASE BuildStart
  BY <1>0, <1>1 DEF BuildStart
<1>2. CASE BuildRecvErr
  BY <1>0, <1>2 DEF BuildRecvErr, BuildPolling
<1>3. CASE BuildRecvClosed
  BY <1>0, <1>3 DEF BuildRecvClosed, BuildPolling
<1>4. CASE BuildDefault
  BY <1>0, <1>4 DEF BuildDefault, BuildPolling
<1>5. CASE BuildOngoing
  BY <1>0, <1>5 DEF BuildOngoing
<1>6. CASE BuildLoopEnd
  BY <1>0, <1>6 DEF BuildLoopEnd
<1>7. CASE BuildComplete
  BY <1>0, <1>7 DEF BuildComplete
<1> QED
  BY <1>1, <1>2, <1>3, <1>4, <1>5, <1>6, <1>7 DEF CallerStep

\* So does the worker goroutine.
LEMMA WorkerKeepsBuildInv ==
  ASSUME BuildInv, WorkerStep, UNCHANGED <<settings, context>>
  PROVE  BuildInv'
<1> USE DEF BuildInv, BuildTypes, WorkerInv, CallerInv, RemoteOver, LogCopied, ValidRegistryName,
            Panics, BuildChans, Errors, callerVars, remoteVars, WorkerTo, WorkerAt
<1>0. RemoteImages' = RemoteImages
  BY DEF RemoteImages, BuildImages
<1>1. CASE WorkerGetUploadURL
  BY <1>0, <1>1 DEF WorkerGetUploadURL, WorkerCalls
<1>2. CASE WorkerPutBlob
  BY <1>0, <1>2 DEF WorkerPutBlob, WorkerCalls
<1>3. CASE WorkerQueueBuild
  BY <1>0, <1>3 DEF WorkerQueueBuild
<1>4. CASE WorkerWait
  BY <1>0, <1>4 DEF WorkerWait, WorkerCalls
<1>5. CASE WorkerResult
  BY <1>0, <1>5 DEF WorkerResult, WorkerCalls
<1>9. CASE WorkerLogLink
  BY <1>0, <1>9 DEF WorkerLogLink, WorkerCalls
<1>6. CASE WorkerPoll
  BY <1>0, <1>6 DEF WorkerPoll, WorkerCalls
<1>7. CASE WorkerCopy
  BY <1>0, <1>7 DEF WorkerCopy
<1>8. CASE WorkerClose
  <2>1. CASE bworker = "close_msgc"
    BY <1>0, <1>8, <2>1 DEF WorkerClose
  <2>2. CASE bworker = "close_errc"
    BY <1>0, <1>8, <2>2 DEF WorkerClose
  <2>3. CASE bworker = "panicking"
    BY <1>0, <1>8, <2>3 DEF WorkerClose
  <2>4. CASE bworker = "panic_errc"
    BY <1>0, <1>8, <2>4 DEF WorkerClose
  <2> QED
    BY <1>8, <2>1, <2>2, <2>3, <2>4 DEF WorkerClose
<1> QED
  BY <1>1, <1>2, <1>3, <1>4, <1>5, <1>6, <1>7, <1>8, <1>9 DEF WorkerStep

\* So does the registry's build service.
LEMMA RemoteKeepsBuildInv ==
  ASSUME BuildInv, RemoteStep, UNCHANGED <<settings, context>>
  PROVE  BuildInv'
<1> USE DEF BuildInv, BuildTypes, WorkerInv, CallerInv, RemoteOver, LogCopied, ValidRegistryName,
            Panics, RemoteStep, callerVars
<1>1. RemoteImages' = RemoteImages
  BY DEF RemoteImages, BuildImages
<1>2. CASE RemoteAppends
  BY <1>1, <1>2 DEF RemoteAppends
<1>3. CASE RemoteEnds
  BY <1>1, <1>3 DEF RemoteEnds
<1>4. CASE RemoteMarks
  BY <1>1, <1>4 DEF RemoteMarks
<1> QED
  BY <1>2, <1>3, <1>4

\* So does every step of the program and of the service.
LEMMA BuildInvNext ==
  ASSUME IInv, [Next]_vars
  PROVE  BuildInv'
<1>1. UNCHANGED <<settings, context>> /\ BuildInv
  BY Steps DEF IInv
<1>2. ASSUME UNCHANGED buildVars PROVE BuildInv'
  BY <1>1, <1>2 DEF BuildInv, BuildTypes, WorkerInv, CallerInv, RemoteOver, LogCopied, RemoteImages,
                    BuildImages, ValidRegistryName, buildVars, callerVars, remoteVars
<1>3. CASE UpStep
  <2>1. CASE bpc = "idle" /\ bpc' = "start" /\ UNCHANGED <<bclosed, bnil, berr, bworker, remoteVars, appLog>>
    BY <1>1, <2>1 DEF BuildInv, BuildTypes, WorkerInv, CallerInv, RemoteOver, LogCopied, RemoteImages,
                      BuildImages, ValidRegistryName, remoteVars
  <2> QED
    BY <1>2, <1>3, <2>1, UpLeavesBuild
<1>4. CASE CallerStep \/ WorkerStep \/ RemoteStep
  BY <1>1, <1>4, CallerKeepsBuildInv, WorkerKeepsBuildInv, RemoteKeepsBuildInv
<1>5. CASE CloseStream \/ Receive \/ Exit \/ Crash \/ UNCHANGED vars
  BY <1>2, <1>5 DEF CloseStream, Receive, Exit, Crash, vars
<1> QED
  BY <1>3, <1>4, <1>5, Steps

\* Every step keeps the invariant of Up's goroutine, its release and the store.
LEMMA UpInvNext ==
  ASSUME IInv, [Next]_vars
  PROVE  UpInv'
<1>1. UNCHANGED <<settings, context>> /\ UpInv /\ berr \in Errors
  BY Steps DEF IInv, BuildInv, BuildTypes
<1> USE DEF ChartImage, ImageName, Digest
<1>2. ASSUME UNCHANGED <<upc, rerr, deployed, stored, closed, berr>>, bpc = "idle" <=> bpc' = "idle",
             bpc = "returned" => bpc' = "returned"
      PROVE  UpInv'
  BY <1>1, <1>2 DEF UpInv
<1>3. CASE UpStep
  <2>1. CASE NewAppContext
    BY <1>1, <2>1 DEF NewAppContext, UpGoes, UpInv
  <2>2. CASE BuildReturned
    BY <1>1, <2>2 DEF BuildReturned, UpInv, buildVars, callerVars, Errors
  <2>3. CASE Push \/ ReleaseComplete
    BY <1>1, <2>3 DEF Push, ReleaseComplete, UpGoes, UpInv, buildVars, callerVars
  <2>4. CASE ReleaseStart
    <3>1. upc = "release" /\ settings.registry # "none"
      BY <1>1, <2>4 DEF ReleaseStart, ReleaseSays, UpGoes, UpInv, IInv, BuildInv, WorkerInv, CallerInv,
                        BuildTypes, BuildChans, LogCopied, RemoteOver, ValidRegistryName, Errors, Panics
    <3> QED
      BY <1>1, <2>4, <3>1 DEF ReleaseStart, ReleaseSays, UpGoes, UpInv, buildVars, callerVars
  <2>5. CASE ReleaseAnnounce \/ ReleaseStatus \/ ReleaseNotes
    BY <1>1, <2>5 DEF ReleaseAnnounce, ReleaseStatus, ReleaseNotes, ReleaseSays, UpGoes, UpInv,
                      buildVars, callerVars
  <2>6. CASE Namespace \/ PullSecret
    BY <1>1, <2>6 DEF Namespace, PullSecret, KubeRequest, ReleaseFails, UpGoes, UpInv, buildVars,
                      callerVars, Errors
  <2>7. CASE Challenge
    <3>1. \/ settings.registry = "login_server" /\ upc' = "exchange" /\ UNCHANGED rerr
          \/ ReleaseFails
          \/ upc' = "release_complete" /\ UNCHANGED rerr
      <4>1. \/ ReleaseFails
            \/ settings.registry = "login_server" /\ \E got : Challenged(got)
        BY <2>7 DEF Challenge
      <4> QED
        BY <4>1 DEF Challenged
    <3>2. upc = "challenge" /\ UNCHANGED <<buildVars, deployed, stored, closed>>
      BY <2>7 DEF Challenge
    <3> QED
      BY <1>1, <3>1, <3>2 DEF ReleaseFails, UpInv, buildVars, callerVars, Errors
  <2>8. CASE Exchange
    BY <1>1, <2>8 DEF Exchange, ReleaseFails, UpInv, buildVars, callerVars, Errors
  <2>9. CASE Helm
    BY <1>1, <2>9 DEF Helm, ReleaseFails, UpGoes, UpInv, buildVars, callerVars, Errors
  <2>10. CASE SaveState
    BY <1>1, <2>10 DEF SaveState, UpGoes, UpInv, buildVars, callerVars
  <2> QED
    BY <1>3, <2>1, <2>2, <2>3, <2>4, <2>5, <2>6, <2>7, <2>8, <2>9, <2>10 DEF UpStep
<1>4. CASE CallerStep /\ UNCHANGED upVars
  <2>1. CASE BuildRecvErr
    BY <1>1, <1>4, <2>1 DEF BuildRecvErr, BuildPolling, UpInv, upVars, IInv, BuildInv, CallerInv
  <2>2. CASE BuildStart \/ BuildRecvClosed \/ BuildDefault \/ BuildOngoing \/ BuildLoopEnd \/ BuildComplete
    BY <1>2, <1>4, <2>2 DEF BuildStart, BuildRecvClosed, BuildDefault, BuildOngoing, BuildLoopEnd,
                            BuildComplete, BuildPolling, upVars
  <2> QED
    BY <1>4, <2>1, <2>2 DEF CallerStep
<1>5. CASE (WorkerStep \/ RemoteStep) /\ UNCHANGED <<out, upVars>>
  BY <1>2, <1>5 DEF WorkerStep, WorkerGetUploadURL, WorkerPutBlob, WorkerQueueBuild, WorkerWait,
                    WorkerResult, WorkerLogLink, WorkerPoll, WorkerCopy, WorkerClose, WorkerCalls,
                    WorkerAt, RemoteStep, callerVars, upVars
<1>6. CASE CloseStream
  BY <1>1, <1>6 DEF CloseStream, UpInv, buildVars, callerVars
<1>7. CASE Receive \/ Exit \/ Crash \/ UNCHANGED vars
  BY <1>2, <1>7 DEF Receive, Exit, Crash, vars, buildVars, callerVars, upVars
<1> QED
  BY <1>3, <1>4, <1>5, <1>6, <1>7, Steps

\* The inductive invariant holds in every reachable state.
LEMMA Invariance == Spec => []IInv
<1>1. Init => IInv
  <2> SUFFICES ASSUME Init PROVE IInv
    OBVIOUS
  <2>1. BuildInv
    BY DEF Init, InitBuild, BuildInv, BuildTypes, WorkerInv, CallerInv, RemoteOver, LogCopied,
           ValidRegistryName, Panics, BuildChans, Errors
  <2>2. UpInv
    BY AzureUpAssumption DEF Init, InitBuild, UpInv, Errors
  <2> QED
    BY <2>1, <2>2 DEF IInv
<1>2. IInv /\ [Next]_vars => IInv'
  BY BuildInvNext, UpInvNext DEF IInv
<1> QED
  BY <1>1, <1>2, PTL DEF Spec

-----------------------------------------------------------------------------
(* What follows.                                                           *)

\* A release starts only when the remote build is over and its whole log has
\* been copied, unless the worker has panicked: without an error Build returns
\* only once the worker has closed both channels, a worker that closed them
\* without an error or a panic has copied a log that is marked complete, and
\* the service marks it when the build is over.
THEOREM AzureReleaseAfterRemoteBuild == Spec => []ReleaseAfterRemoteBuild
<1>1. IInv => ReleaseAfterRemoteBuild
  <2> SUFFICES ASSUME IInv, bpc = "returned", berr = "nil", bworker # "panicked"
               PROVE  remote \in {"succeeded", "failed"} /\ appLog = logBlob.len
    BY DEF ReleaseAfterRemoteBuild
  <2>1. "errc" \in bclosed
    BY DEF IInv, BuildInv, BuildTypes, CallerInv, BuildChans
  <2>2. LogCopied /\ RemoteOver
    BY <2>1 DEF IInv, BuildInv, CallerInv, WorkerInv, LogCopied
  <2> QED
    BY <2>2 DEF LogCopied, RemoteOver
<1> QED
  BY <1>1, Invariance, PTL

\* Values that speak of nothing but the image do not change the chart's image:
\* what is injected into them is the whole of it.
LEMMA ChartImageIs ==
  ASSUME NEW env, NEW archive, DOMAIN env.values \subseteq {"registry", "name", "tag"}
  PROVE  ChartImage(env, archive) = ImageName(env.registry, env.name, Digest(archive))
BY DEF ChartImage, ImageName

\* The image that a release deploys is in the registry under the name that
\* the chart has for it, unless the remote build failed or the worker that
\* asked for it has panicked.
THEOREM AzureDeployedImageExists == Spec => []DeployedImageExists
<1>1. IInv => DeployedImageExists
  <2> SUFFICES ASSUME IInv, deployed # {}, remote # "failed", bworker # "panicked"
               PROVE  deployed \subseteq hub
    BY DEF DeployedImageExists
  <2>1. /\ deployed = {ChartImage(settings, context.archive)} /\ settings.registry = "login_server"
        /\ bpc = "returned" /\ berr = "nil" /\ DOMAIN settings.values \subseteq {"registry", "name", "tag"}
    BY DEF IInv, UpInv
  <2>2. "errc" \in bclosed
    BY <2>1 DEF IInv, BuildInv, BuildTypes, CallerInv, BuildChans
  <2>3. RemoteImages \subseteq hub
    BY <2>1, <2>2 DEF IInv, BuildInv, CallerInv, WorkerInv, LogCopied, RemoteOver
  <2>4. ChartImage(settings, context.archive) = ImageName("login_server", settings.name, Digest(context.archive))
    BY <2>1, ChartImageIs
  <2>5. /\ ImageName(settings.registry, settings.name, Digest(context.archive))
             \in BuildImages(settings, context.archive)
        /\ ImageName(settings.registry, settings.name, Digest(context.archive)).tag = Digest(context.archive)
    BY DEF BuildImages, ImageName
  <2>6. ImageName("login_server", settings.name, Digest(context.archive)) \in RemoteImages
    BY <2>5 DEF RemoteImages
  <2> QED
    BY <2>1, <2>3, <2>4, <2>6
<1> QED
  BY <1>1, Invariance, PTL

-----------------------------------------------------------------------------
(* Up with the azure builder keeps the promise of UpStages.                *)

\* A build that returned without an error, if only because the worker has
\* panicked, was asked of a registry.
LEMMA RegistryIsValid ==
  ASSUME IInv, bpc = "returned", berr = "nil"
  PROVE  settings.registry # "none"
<1>1. "errc" \in bclosed
  BY DEF IInv, BuildInv, BuildTypes, CallerInv, BuildChans
<1>2. RemoteOver \/ bworker = "panicked"
  BY <1>1 DEF IInv, BuildInv, CallerInv, WorkerInv, LogCopied
<1> QED
  BY <1>2 DEF IInv, BuildInv, WorkerInv, RemoteOver, ValidRegistryName, Panics

\* The promise sees an action only through the results, stored and closed.
LEMMA StageStutter ==
  ASSUME UNCHANGED <<settings, stored, closed>>, \A s \in Stages : StageResult(s)' = StageResult(s)
  PROVE  UNCHANGED UpPromise!stageVars
  BY DEF UpPromise!stageVars

\* A step after which only stage s has another result.
LEMMA StageChanges ==
  ASSUME NEW s \in Stages, NEW r,
         StageResult(s)' = r,
         \A t \in Stages \ {s} : StageResult(t)' = StageResult(t)
  PROVE  [t \in Stages |-> StageResult(t)]' = [[t \in Stages |-> StageResult(t)] EXCEPT ![s] = r]
  OBVIOUS

\* A stage that begins, all those before it having succeeded.
LEMMA StageBegins ==
  ASSUME NEW s \in Stages, UNCHANGED <<settings, stored, closed>>, stored = "none",
         StageResult(s) = "none", StageResult(s)' = "running",
         \A t \in Stages \ {s} : StageResult(t)' = StageResult(t),
         s = "push" => settings.registry # "none",
         s # "build" => StageResult("build") = "ok",
         s = "release" /\ settings.registry # "none" => StageResult("push") = "ok"
  PROVE  UpPromise!Next
<1>1. UpPromise!Begin(s)
  BY StageChanges DEF UpPromise!Begin, UpPromise!Before, Stages
<1> QED
  BY <1>1 DEF UpPromise!Next, Stages

\* A stage that ends.
LEMMA StageEnds ==
  ASSUME NEW s \in Stages, UNCHANGED <<settings, stored, closed>>,
         StageResult(s) = "running", StageResult(s)' \in {"ok", "failed"},
         \A t \in Stages \ {s} : StageResult(t)' = StageResult(t)
  PROVE  UpPromise!Next
<1>1. UpPromise!End(s)
  BY StageChanges DEF UpPromise!End
<1> QED
  BY <1>1 DEF UpPromise!Next, Stages

\* What a step of Up's goroutine does to the results, by the place it leaves.
LEMMA UpStepResults ==
  ASSUME IInv, UpStep, UNCHANGED <<settings, context>>
  PROVE  /\ UNCHANGED closed /\ (upc # "save" => UNCHANGED stored)
         /\ CASE upc = "build" /\ berr = "nil" ->
                   /\ StageResult("build") = "ok"
                   /\ StageResult("push") = "none" /\ StageResult("push")' = "running"
                   /\ \A t \in Stages \ {"push"} : StageResult(t)' = StageResult(t)
              [] upc = "push" ->
                   /\ StageResult("push") = "running" /\ StageResult("push")' = "ok"
                   /\ \A t \in Stages \ {"push"} : StageResult(t)' = StageResult(t)
              [] upc = "release" ->
                   /\ StageResult("build") = "ok" /\ StageResult("push") = "ok"
                   /\ StageResult("release") = "none" /\ StageResult("release")' = "running"
                   /\ \A t \in Stages \ {"release"} : StageResult(t)' = StageResult(t)
              [] upc = "release_complete" ->
                   /\ StageResult("release") = "running"
                   /\ StageResult("release")' \in {"ok", "failed"}
                   /\ \A t \in Stages \ {"release"} : StageResult(t)' = StageResult(t)
              [] OTHER -> \A t \in Stages : StageResult(t)' = StageResult(t)
<1> USE DEF UpGoes, StageResult, Stages
<1>1. UpInv /\ berr \in Errors
  BY DEF IInv, BuildInv, BuildTypes
<1>2. CASE NewAppContext
  BY <1>1, <1>2 DEF NewAppContext, UpInv
<1>3. CASE BuildReturned
  <2>1. berr = "nil" => settings.registry # "none"
    BY <1>3, RegistryIsValid DEF BuildReturned
  <2> QED
    BY <1>1, <1>3, <2>1 DEF BuildReturned, buildVars, callerVars, UpInv, Errors
<1>4. CASE Push
  <2>1. settings.registry # "none"
    BY <1>1, <1>4, RegistryIsValid DEF Push, UpInv, Errors
  <2> QED
    BY <1>1, <1>4, <2>1 DEF Push, buildVars, callerVars, UpInv, Errors
<1>5. CASE ReleaseStart
  <2>1. settings.registry # "none"
    BY <1>1, <1>5, RegistryIsValid DEF ReleaseStart, ReleaseSays, UpInv, Errors
  <2> QED
    BY <1>1, <1>5, <2>1 DEF ReleaseStart, ReleaseSays, buildVars, callerVars, UpInv, Errors
<1>6. CASE ReleaseAnnounce \/ ReleaseStatus \/ ReleaseNotes
  BY <1>1, <1>6 DEF ReleaseAnnounce, ReleaseStatus, ReleaseNotes, ReleaseSays, buildVars, callerVars, UpInv
<1>7. CASE Namespace \/ PullSecret
  BY <1>1, <1>7 DEF Namespace, PullSecret, KubeRequest, ReleaseFails, buildVars, callerVars, UpInv
<1>8. CASE Challenge
  <2>1. upc = "challenge" /\ UNCHANGED <<buildVars, deployed, stored, closed>>
    BY <1>8 DEF Challenge
  <2>2. upc' \in {"exchange", "release_complete"}
    <3>1. ReleaseFails \/ \E got : Challenged(got)
      BY <1>8 DEF Challenge
    <3> QED
      BY <3>1 DEF Challenged, ReleaseFails
  <2> QED
    BY <1>1, <2>1, <2>2 DEF buildVars, callerVars, UpInv
<1>9. CASE Exchange
  BY <1>1, <1>9 DEF Exchange, ReleaseFails, buildVars, callerVars, UpInv
<1>10. CASE Helm
  BY <1>1, <1>10 DEF Helm, ReleaseFails, buildVars, callerVars, UpInv
<1>11. CASE ReleaseComplete
  BY <1>1, <1>11 DEF ReleaseComplete, buildVars, callerVars, UpInv, Errors
<1>12. CASE SaveState
  BY <1>1, <1>12 DEF SaveState, buildVars, callerVars, UpInv
<1> QED
  BY <1>2, <1>3, <1>4, <1>5, <1>6, <1>7, <1>8, <1>9, <1>10, <1>11, <1>12 DEF UpStep

\* The deferred saveState records what the stages have come to.
LEMMA StageRecorded ==
  ASSUME IInv, UpStep, upc = "save", UNCHANGED <<settings, context>>
  PROVE  UpPromise!Next
<1>1. SaveState
  BY DEF UpStep, NewAppContext, BuildReturned, Push, ReleaseStart, ReleaseAnnounce, ReleaseStatus, ReleaseNotes,
         ReleaseSays, Namespace, PullSecret, KubeRequest, Challenge, Exchange, Helm, ReleaseComplete, UpGoes
<1>2. UpInv /\ berr \in Errors /\ bpc = "returned"
  BY DEF IInv, BuildInv, BuildTypes, UpInv
<1>3. /\ stored = "none" /\ UNCHANGED closed
      /\ stored' = "lost" \/ stored' = (IF deployed # {} THEN "released" ELSE "unreleased")
  BY <1>1, <1>2 DEF SaveState, UpInv
<1>4. \A s \in Stages : StageResult(s)' = StageResult(s) /\ StageResult(s) # "running"
  BY <1>1, <1>2 DEF SaveState, UpGoes, StageResult, Stages, buildVars, callerVars
<1>5. deployed # {} <=> StageResult("release") = "ok"
  BY <1>2 DEF StageResult, UpInv, Errors
<1>6. (\E s \in Stages : StageResult(s) = "failed") \/ StageResult("release") = "ok"
  <2>1. berr = "err" => StageResult("build") = "failed"
    BY <1>2 DEF StageResult
  <2>2. berr = "nil" => StageResult("release") \in {"ok", "failed"}
    BY <1>2 DEF StageResult
  <2> QED
    BY <1>2, <2>1, <2>2 DEF UpInv, Errors, Stages
<1>7. UpPromise!Record
  BY <1>3, <1>4, <1>5, <1>6 DEF UpPromise!Record, Stages
<1> QED
  BY <1>7 DEF UpPromise!Next

\* Every step of the program is a step of the promise, or a stutter.
LEMMA StageStep ==
  ASSUME IInv, [Next]_vars
  PROVE  [UpPromise!Next]_(UpPromise!stageVars)
<1>1. UNCHANGED <<settings, context>> /\ UpInv /\ berr \in Errors
  BY Steps DEF IInv, BuildInv, BuildTypes
<1>2. ASSUME UNCHANGED <<bpc, berr, upc, deployed, stored, closed>> PROVE UNCHANGED UpPromise!stageVars
  BY <1>1, <1>2, StageStutter DEF StageResult
<1>3. CASE UpStep
  <2>1. CASE upc = "save"
    BY <1>1, <1>3, <2>1, StageRecorded
  <2>2. CASE upc = "build" /\ berr = "nil"
    <3>1. bpc = "returned"
      BY <1>3, <2>2 DEF UpStep, NewAppContext, BuildReturned, Push, ReleaseStart, ReleaseAnnounce, ReleaseStatus,
                        ReleaseNotes, ReleaseSays, Namespace, PullSecret, KubeRequest, Challenge, Exchange, Helm,
                        ReleaseComplete, SaveState, UpGoes
    <3>2. settings.registry # "none"
      BY <2>2, <3>1, RegistryIsValid
    <3> QED
      BY <1>1, <1>3, <2>2, <3>2, UpStepResults, StageBegins DEF UpInv, Stages
  <2>3. CASE upc = "push"
    BY <1>1, <1>3, <2>3, UpStepResults, StageEnds DEF Stages
  <2>4. CASE upc = "release"
    BY <1>1, <1>3, <2>4, UpStepResults, StageBegins DEF UpInv, Stages
  <2>5. CASE upc = "release_complete"
    BY <1>1, <1>3, <2>5, UpStepResults, StageEnds DEF Stages
  <2>6. CASE upc \notin {"push", "release", "release_complete", "save"} /\ ~(upc = "build" /\ berr = "nil")
    BY <1>1, <1>3, <2>6, UpStepResults, StageStutter DEF Stages
  <2> QED
    BY <2>1, <2>2, <2>3, <2>4, <2>5, <2>6
<1>4. CASE CallerStep /\ UNCHANGED upVars
  <2>1. CASE BuildStart
    <3>1. /\ StageResult("build") = "none" /\ StageResult("build")' = "running"
          /\ \A t \in Stages \ {"build"} : StageResult(t)' = StageResult(t)
          /\ stored = "none"
      BY <1>1, <1>4, <2>1 DEF BuildStart, CallerOnly, upVars, UpInv, StageResult, Stages
    <3> QED
      BY <1>1, <1>4, <3>1, StageBegins DEF upVars, Stages
  <2>2. CASE BuildRecvErr \/ BuildRecvClosed \/ BuildDefault \/ BuildOngoing \/ BuildLoopEnd
    <3>1. \A s \in Stages : StageResult(s)' = StageResult(s)
      BY <1>1, <1>4, <2>2 DEF BuildRecvErr, BuildRecvClosed, BuildPolling, BuildDefault, BuildOngoing,
                              BuildLoopEnd, CallerOnly, upVars, UpInv, StageResult, Stages
    <3> QED
      BY <1>1, <1>4, <3>1, StageStutter DEF upVars
  <2>3. CASE BuildComplete
    <3>1. /\ StageResult("build") = "running" /\ StageResult("build")' \in {"ok", "failed"}
          /\ \A t \in Stages \ {"build"} : StageResult(t)' = StageResult(t)
      BY <1>1, <1>4, <2>3 DEF BuildComplete, CallerOnly, upVars, UpInv, StageResult, Stages
    <3> QED
      BY <1>1, <1>4, <3>1, StageEnds DEF upVars, Stages
  <2> QED
    BY <1>4, <2>1, <2>2, <2>3 DEF CallerStep
<1>5. CASE (WorkerStep \/ RemoteStep) /\ UNCHANGED <<out, upVars>>
  BY <1>2, <1>5 DEF WorkerStep, WorkerGetUploadURL, WorkerPutBlob, WorkerQueueBuild, WorkerWait,
                    WorkerResult, WorkerLogLink, WorkerPoll, WorkerCopy, WorkerClose, WorkerCalls,
                    WorkerAt, RemoteStep, callerVars, upVars
<1>6. CASE CloseStream
  <2>1. /\ stored # "none" /\ ~closed /\ closed' = TRUE /\ UNCHANGED stored
        /\ \A s \in Stages : StageResult(s)' = StageResult(s)
    BY <1>1, <1>6 DEF CloseStream, UpInv, buildVars, callerVars, StageResult
  <2>2. UpPromise!EndStream
    BY <2>1 DEF UpPromise!EndStream
  <2> QED
    BY <1>1, <2>2 DEF UpPromise!Next
<1>7. CASE Receive \/ Exit \/ Crash \/ UNCHANGED vars
  BY <1>2, <1>7 DEF Receive, Exit, Crash, vars, buildVars, callerVars, upVars
<1> QED
  BY <1>3, <1>4, <1>5, <1>6, <1>7, Steps

\* With the azure builder too the stages run in order, each begun only when
\* those before it succeeded, one record of the outcome after the last of
\* them, and the end of the stream after that.
THEOREM AzureImplementsStages == Spec => ImplementsStages
<1>1. Init => UpPromise!Init
  BY DEF Init, InitBuild, UpPromise!Init, StageResult, Stages
<1>2. IInv /\ [Next]_vars => [UpPromise!Next]_(UpPromise!stageVars)
  BY StageStep
<1> QED
  BY <1>1, <1>2, Invariance, PTL DEF Spec, ImplementsStages, UpPromise!Spec

-----------------------------------------------------------------------------
(* The stream is one that Display is made for, its build stage echoed.     *)

\* What a summary leaves a stage at, and what the receiver was told of it.
After(s, code) ==
  IF code = "success" /\ shown[s] = "success" THEN "echoed"
  ELSE IF code \in {"success", "failure"} THEN code ELSE "open"
ShownAs(s) == IF shown[s] = "started" THEN "open" ELSE shown[s]

\* The same of a stage with what is in the channel, if its capacity is one.
Tells(s) == IF out # <<>> /\ Head(out).stage = s THEN After(s, Head(out).code) ELSE ShownAs(s)

\* What the program has come to with a stage: the push is told as a second
\* success of the build.
Came(s) ==
  CASE s = "build" ->
         IF bpc \in {"idle", "start"} THEN "none"
         ELSE IF bpc # "returned" THEN "open"
         ELSE IF berr = "err" THEN "failure"
         ELSE IF upc \in {"build", "push"} THEN "success" ELSE "echoed"
    [] s = "push" -> "none"
    [] s = "release" ->
         IF upc \in {"new_context", "build", "push", "release"} \/ berr = "err" THEN "none"
         ELSE IF upc \notin {"save", "done"} THEN "open"
         ELSE IF rerr = "err" THEN "failure" ELSE "success"

\* A code may be told of a stage of which this was shown.
Follows(code, was) ==
  IF code = "started" THEN was = "none"
  ELSE was = "started" \/ (code = "success" /\ was = "success")

\* Each stage has told what it has come to, and what is in the channel follows
\* on what the receiver was told.
FeedInv ==
  /\ shown \in [Stages -> {"none", "started", "success", "failure", "echoed"}]
  /\ out = <<>> \/ \E e \in Summary : out = <<e>>
  /\ \A s \in Stages : Tells(s) = Came(s)
  /\ out # <<>> => Follows(Head(out).code, shown[Head(out).stage])

\* The channel as StageSender has it.
AsSent(code) == IF code = "logging" THEN "ongoing" ELSE code
FeedIn == [n \in DOMAIN out |->
             IF out[n].code = "logging" THEN [out[n] EXCEPT !.code = "ongoing"] ELSE out[n]]
FeedSent == [s \in Stages |-> Told(s)]

\* A channel with one summary.
LEMMA OneSummary ==
  ASSUME NEW e \in Summary, out = <<e>>
  PROVE  /\ out # <<>> /\ DOMAIN out = {1} /\ out[1] = e /\ Head(out) = e /\ Tail(out) = <<>>
         /\ e.stage \in Stages /\ e.code \in Codes /\ e = [stage |-> e.stage, code |-> e.code]
         /\ FeedIn = <<[stage |-> e.stage, code |-> AsSent(e.code)]>>
<1>1. out # <<>> /\ DOMAIN out = 1 .. 1 /\ out[1] = e /\ Head(out) = e /\ Tail(out) = <<>>
  OBVIOUS
<1>2. e.stage \in Stages /\ e.code \in Codes /\ e = [stage |-> e.stage, code |-> e.code]
  BY DEF Summary
<1> DEFINE d == [stage |-> e.stage, code |-> AsSent(e.code)]
<1>3. (IF e.code = "logging" THEN [e EXCEPT !.code = "ongoing"] ELSE e) = d
  BY <1>2 DEF AsSent
<1>4. FeedIn = [n \in 1 .. 1 |-> d]
  BY <1>1, <1>3 DEF FeedIn
<1> HIDE DEF d
<1>5. [n \in 1 .. 1 |-> d] = <<d>>
  OBVIOUS
<1> QED
  BY <1>1, <1>2, <1>4, <1>5 DEF d

\* With a channel of capacity one, Told is Tells.
LEMMA ToldIsTells ==
  ASSUME FeedInv, NEW s \in Stages
  PROVE  Told(s) = Tells(s)
<1> DEFINE codes == {IF out[n].code = "logging" THEN "ongoing" ELSE out[n].code :
                       n \in {k \in DOMAIN out : out[k].stage = s}}
<1>1. shown[s] \in {"none", "started", "success", "failure", "echoed"}
  BY DEF FeedInv
<1>2. ASSUME codes = {}, ~(out # <<>> /\ Head(out).stage = s) PROVE Told(s) = Tells(s)
  <2> HIDE DEF codes
  <2>1. Told(s) = ShownAs(s)
    BY <1>1, <1>2 DEF Told, ShownAs, codes
  <2> QED
    BY <1>2, <2>1 DEF Tells
<1>3. CASE out = <<>>
  <2>1. codes = {}
    BY <1>3
  <2> QED
    BY <1>2, <1>3, <2>1
<1>4. ASSUME NEW e \in Summary, out = <<e>> PROVE Told(s) = Tells(s)
  <2>1. DOMAIN out = {1} /\ out[1] = e /\ Head(out) = e /\ out # <<>> /\ e.code \in Codes
    BY <1>4, OneSummary
  <2>2. CASE e.stage # s
    <3>1. codes = {}
      BY <2>1, <2>2
    <3> QED
      BY <1>2, <2>1, <2>2, <3>1
  <2>3. CASE e.stage = s
    <3> DEFINE c == e.code
    <3>1. codes = {IF c = "logging" THEN "ongoing" ELSE c}
      BY <2>1, <2>3
    <3>2. Follows(c, shown[s])
      BY <2>1, <2>3 DEF FeedInv
    <3>3. c \in Codes /\ Tells(s) = After(s, c)
      BY <2>1, <2>3 DEF Tells
    <3> HIDE DEF codes, c
    <3>4. CASE c \in {"started", "ongoing", "logging"}
      BY <3>1, <3>2, <3>3, <3>4 DEF Told, After, codes, Follows
    <3>5. CASE c \in {"success", "failure"}
      <4>1. codes = {c} /\ \A x : x \in codes /\ x \in {"success", "failure"} <=> x = c
        BY <3>1, <3>5
      <4>2. (CHOOSE x \in codes : x \in {"success", "failure"}) = c
        BY <4>1
      <4>3. Told(s) = IF c = "success" /\ shown[s] = "success" THEN "echoed" ELSE c
        BY <3>5, <4>1, <4>2 DEF Told, codes
      <4> QED
        BY <3>3, <3>5, <4>3 DEF After
    <3> QED
      BY <3>3, <3>4, <3>5 DEF Codes
  <2> QED
    BY <2>2, <2>3
<1> QED
  BY <1>3, <1>4 DEF FeedInv

\* What StageSender sees, in this state and in the next.
LEMMA FeedView ==
  FeedInv => /\ FeedSent = [s \in Stages |-> Came(s)]
             /\ out = <<>> => FeedIn = <<>>
             /\ out # <<>> => FeedIn = <<[stage |-> Head(out).stage, code |-> AsSent(Head(out).code)]>>
<1> SUFFICES ASSUME FeedInv
             PROVE  /\ FeedSent = [s \in Stages |-> Came(s)]
                    /\ out = <<>> => FeedIn = <<>>
                    /\ out # <<>> =>
                         FeedIn = <<[stage |-> Head(out).stage, code |-> AsSent(Head(out).code)]>>
  OBVIOUS
<1>1. \A s \in Stages : Told(s) = Came(s)
  BY ToldIsTells DEF FeedInv
<1>2. out = <<>> => FeedIn = <<>>
  BY DEF FeedIn
<1>3. ASSUME out # <<>>
      PROVE  FeedIn = <<[stage |-> Head(out).stage, code |-> AsSent(Head(out).code)]>>
  <2>1. PICK e \in Summary : out = <<e>>
    BY <1>3 DEF FeedInv
  <2> QED
    BY <2>1, OneSummary
<1> QED
  BY <1>1, <1>2, <1>3 DEF FeedSent

\* The same of the next state.
LEMMA FeedViewNext ==
  FeedInv' => (/\ FeedSent = [s \in Stages |-> Came(s)]
               /\ out = <<>> => FeedIn = <<>>
               /\ out # <<>> =>
                    FeedIn = <<[stage |-> Head(out).stage, code |-> AsSent(Head(out).code)]>>)'
  BY FeedView, PTL

\* No stage has come to be open.
NoneCameOpen == \A t \in Stages : Came(t) # "open"

\* What a stage must have come to for a summary of it, and what it comes to.
Says(s, c) ==
  /\ Came(s)' = IF c = "success" /\ Came(s) = "success" THEN "echoed"
                ELSE IF c \in {"success", "failure"} THEN c ELSE "open"
  /\ \/ c = "started" /\ Came(s) = "none" /\ NoneCameOpen
     \/ c # "started" /\ Came(s) = "open"
     \/ c = "success" /\ s = "build" /\ Came(s) = "success" /\ NoneCameOpen

\* A summary that a stage sends when it begins, while it runs, when it ends,
\* or as the echo of its end, is one that StageSender sends.
LEMMA SendStep ==
  ASSUME ChanCap = 1, FeedInv, ~closed, UNCHANGED <<closed, shown>>,
         NEW s \in Stages, NEW c \in Codes, Summarize(s, c), Says(s, c),
         \A t \in Stages \ {s} : Came(t)' = Came(t)
  PROVE  FeedInv' /\ Feed!SendOne
<1> DEFINE e == [stage |-> s, code |-> c]
<1>1. out = <<>> /\ e \in Summary
  <2>1. ASSUME NEW d \in Summary, out = <<d>> PROVE Len(out) = 1
    BY <2>1
  <2> QED
    BY <2>1 DEF FeedInv, Summarize, Summary
<1>2. out' = <<e>>
  BY <1>1 DEF Summarize
<1>3. out' # <<>> /\ Head(out') = e
  BY <1>2
<1>4. e.stage = s /\ e.code = c
  OBVIOUS
<1> HIDE DEF e
<1>5. \A t \in Stages : ShownAs(t) = Came(t)
  BY <1>1 DEF FeedInv, Tells
<1>6. shown[s] \in {"none", "started", "success", "failure", "echoed"}
  BY DEF FeedInv
<1>7. After(s, c)' = Came(s)'
  BY <1>5, <1>6 DEF Says, After, ShownAs
<1>8. \A t \in Stages : Tells(t)' = Came(t)'
  BY <1>3, <1>4, <1>5, <1>7 DEF Tells, ShownAs
<1>9. Follows(c, shown[s])
  BY <1>5, <1>6 DEF Says, Follows, ShownAs
<1>10. FeedInv'
  BY <1>1, <1>2, <1>3, <1>4, <1>8, <1>9 DEF FeedInv
<1>11. FeedIn = <<>> /\ FeedSent = [t \in Stages |-> Came(t)]
  BY <1>1, FeedView
<1>12. FeedIn' = <<[stage |-> s, code |-> AsSent(c)]>> /\ FeedSent' = [t \in Stages |-> Came(t)']
  BY <1>3, <1>4, <1>10, FeedViewNext
<1>13. FeedSent' = [FeedSent EXCEPT ![s] = Came(s)']
  BY <1>11, <1>12
<1>14. \A t \in Stages : FeedSent[t] = Came(t)
  BY <1>11
<1>15. Feed!Put(s, AsSent(c))
  BY <1>11, <1>12 DEF Feed!Put, FeedIn
<1>16. NoneCameOpen => Feed!NoneOpen
  BY <1>14 DEF NoneCameOpen, Feed!NoneOpen, FeedSent
<1>17. CASE c = "started" /\ Came(s) = "none" /\ NoneCameOpen
  <2>1. /\ FeedSent[s] = "none" /\ Feed!NoneOpen /\ Feed!Put(s, "started")
        /\ FeedSent' = [FeedSent EXCEPT ![s] = "open"]
    BY <1>13, <1>14, <1>15, <1>16, <1>17 DEF Says, AsSent
  <2> QED
    BY <1>10, <2>1 DEF Feed!SendOne, FeedSent
<1>18. CASE c \in {"ongoing", "logging"} /\ Came(s) = "open"
  <2>1. FeedSent[s] = "open" /\ Feed!Put(s, "ongoing") /\ FeedSent' = FeedSent
    BY <1>11, <1>13, <1>14, <1>15, <1>18 DEF Says, AsSent
  <2> QED
    BY <1>10, <2>1 DEF Feed!SendOne, FeedSent
<1>19. CASE c \in {"success", "failure"} /\ Came(s) = "open"
  <2>1. /\ FeedSent[s] = "open" /\ Feed!Put(s, c) /\ c \in Feed!Final
        /\ FeedSent' = [FeedSent EXCEPT ![s] = c]
    BY <1>13, <1>14, <1>15, <1>19 DEF Says, AsSent, Feed!Final
  <2> QED
    BY <1>10, <2>1 DEF Feed!SendOne, FeedSent
<1>20. CASE c = "success" /\ s = "build" /\ Came(s) = "success" /\ NoneCameOpen
  <2>1. /\ FeedSent[s] = "success" /\ s \in {"build"} /\ Feed!NoneOpen /\ Feed!Put(s, "success")
        /\ FeedSent' = [FeedSent EXCEPT ![s] = "echoed"]
    BY <1>13, <1>14, <1>15, <1>16, <1>20 DEF Says, AsSent
  <2> QED
    BY <1>10, <2>1 DEF Feed!SendOne, FeedSent
<1> QED
  BY <1>17, <1>18, <1>19, <1>20 DEF Says, Codes

\* A step that neither sends nor receives, and leaves every stage at what it
\* has come to, is a stutter of StageSender.
LEMMA QuietStep ==
  ASSUME FeedInv, UNCHANGED <<out, shown, closed>>, \A s \in Stages : Came(s)' = Came(s)
  PROVE  FeedInv' /\ UNCHANGED Feed!senderVars
<1>1. FeedInv'
  BY DEF FeedInv, Tells, ShownAs, After, Follows
<1>2. UNCHANGED Feed!senderVars
  BY DEF Feed!senderVars, Told
<1> QED
  BY <1>1, <1>2

\* The receiver is StageSender's.
LEMMA ReceiveStep ==
  ASSUME FeedInv, Receive
  PROVE  FeedInv' /\ Feed!Take
<1>1. UNCHANGED closed /\ \A s \in Stages : Came(s)' = Came(s)
  BY DEF Receive, Came, buildVars, callerVars
<1>2. PICK e \in Summary : out = <<e>>
  BY DEF FeedInv, Receive
<1>3. /\ out # <<>> /\ Head(out) = e /\ out' = <<>>
      /\ e.stage \in Stages /\ e.code \in Codes
  BY <1>2, OneSummary DEF Receive
<1>4. /\ Follows(e.code, shown[e.stage])
      /\ shown \in [Stages -> {"none", "started", "success", "failure", "echoed"}]
  BY <1>3 DEF FeedInv
<1>5. shown' = IF e.code \in {"ongoing", "logging"} THEN shown
               ELSE IF e.code = "success" /\ shown[e.stage] = "success"
               THEN [shown EXCEPT ![e.stage] = "echoed"]
               ELSE [shown EXCEPT ![e.stage] = e.code]
  BY <1>3 DEF Receive
<1> HIDE DEF Receive
<1>6. \A s \in Stages : ShownAs(s)' = Tells(s)
  <2> SUFFICES ASSUME NEW s \in Stages PROVE ShownAs(s)' = Tells(s)
    OBVIOUS
  <2>1. CASE e.stage # s
    BY <1>3, <1>4, <1>5, <2>1 DEF ShownAs, Tells
  <2>2. CASE e.stage = s
    <3>1. Tells(s) = After(s, e.code)
      BY <1>3, <2>2 DEF Tells
    <3> QED
      BY <1>3, <1>4, <1>5, <2>2, <3>1 DEF ShownAs, After, Follows, Codes
  <2> QED
    BY <2>1, <2>2
<1>7. \A s \in Stages : Tells(s)' = Came(s)'
  BY <1>1, <1>3, <1>6 DEF Tells, ShownAs, FeedInv
<1>8. shown' \in [Stages -> {"none", "started", "success", "failure", "echoed"}]
  BY <1>3, <1>4, <1>5 DEF Codes
<1>9. FeedInv'
  BY <1>3, <1>7, <1>8 DEF FeedInv
<1>10. FeedSent' = FeedSent
  BY <1>1, <1>9, FeedView, FeedViewNext
<1>11. FeedIn # <<>> /\ FeedIn' = <<>>
  <2>1. FeedIn = <<[stage |-> Head(out).stage, code |-> AsSent(Head(out).code)]>>
    BY <1>3, FeedView
  <2>2. FeedIn' = <<>>
    BY <1>3, <1>9, FeedViewNext
  <2>3. \A d : <<d>> # <<>>
    OBVIOUS
  <2> QED
    BY <2>1, <2>2, <2>3
<1> QED
  BY <1>1, <1>9, <1>10, <1>11 DEF Feed!Take, FeedIn, FeedSent

\* Up's goroutine feeds the stream.
LEMMA UpFeeds ==
  ASSUME ChanCap = 1, UpInv, BuildTypes, FeedInv, UpStep
  PROVE  FeedInv' /\ (Feed!SendOne \/ UNCHANGED Feed!senderVars)
<1> USE DEF Came, Stages
<1>1. UNCHANGED <<closed, shown>>
  <2>1. CASE NewAppContext \/ BuildReturned \/ Push \/ ReleaseComplete \/ SaveState
    BY <2>1 DEF NewAppContext, BuildReturned, Push, ReleaseComplete, SaveState
  <2>2. CASE ReleaseStart \/ ReleaseAnnounce \/ ReleaseStatus \/ ReleaseNotes
    BY <2>2 DEF ReleaseStart, ReleaseAnnounce, ReleaseStatus, ReleaseNotes, ReleaseSays
  <2>3. CASE Namespace \/ PullSecret \/ Challenge \/ Exchange \/ Helm
    BY <2>3 DEF Namespace, PullSecret, Challenge, Exchange, Helm, KubeRequest
  <2> QED
    BY <2>1, <2>2, <2>3 DEF UpStep
<1>2. CASE NewAppContext \/ BuildReturned
  <2>1. UNCHANGED out /\ \A s \in Stages : Came(s)' = Came(s)
    BY <1>2 DEF NewAppContext, BuildReturned, UpGoes, UpInv, BuildTypes, Errors, buildVars, callerVars
  <2> QED
    BY <1>1, <2>1, QuietStep
<1>3. CASE Push
  <2>1. /\ Summarize("build", "success") /\ ~closed /\ Says("build", "success")
        /\ \A s \in Stages \ {"build"} : Came(s)' = Came(s)
    BY <1>3 DEF Push, UpGoes, Complete, UpInv, Says, NoneCameOpen, Errors, buildVars, callerVars
  <2> QED
    BY <1>1, <2>1, SendStep DEF Codes
<1>4. CASE ReleaseStart
  <2>1. /\ Summarize("release", "started") /\ ~closed /\ Says("release", "started")
        /\ \A s \in Stages \ {"release"} : Came(s)' = Came(s)
    BY <1>4 DEF ReleaseStart, ReleaseSays, UpGoes, UpInv, Says, NoneCameOpen, Errors, buildVars, callerVars
  <2> QED
    BY <1>1, <2>1, SendStep DEF Codes
<1>5. CASE ReleaseAnnounce \/ ReleaseStatus \/ ReleaseNotes
  <2>1. /\ Summarize("release", "logging") /\ ~closed /\ Says("release", "logging")
        /\ \A s \in Stages \ {"release"} : Came(s)' = Came(s)
    BY <1>5 DEF ReleaseAnnounce, ReleaseStatus, ReleaseNotes, ReleaseSays, UpGoes, UpInv, Says, Errors,
                buildVars, callerVars
  <2> QED
    BY <1>1, <2>1, SendStep DEF Codes
<1>6. CASE ReleaseComplete
  <2> DEFINE c == IF rerr = "nil" THEN "success" ELSE "failure"
  <2>1. /\ Summarize("release", c) /\ ~closed /\ Says("release", c)
        /\ \A s \in Stages \ {"release"} : Came(s)' = Came(s)
    BY <1>6 DEF ReleaseComplete, Complete, UpGoes, UpInv, Says, Errors, buildVars, callerVars
  <2> QED
    BY <1>1, <2>1, SendStep DEF Codes
<1>7. CASE Namespace \/ PullSecret \/ Challenge \/ Exchange \/ Helm
  <2>1. UNCHANGED out /\ UNCHANGED callerVars
    BY <1>7 DEF Namespace, PullSecret, Challenge, Exchange, Helm, KubeRequest, buildVars
  <2>2. /\ upc \in {"namespace", "pull_secret", "challenge", "exchange", "helm"}
        /\ upc' \in {"challenge", "announce", "exchange", "pull_secret", "status", "release_complete"}
    <3>1. CASE Namespace \/ PullSecret \/ Helm
      BY <3>1 DEF Namespace, PullSecret, Helm, KubeRequest, UpGoes, ReleaseFails
    <3>2. CASE Challenge
      <4>1. upc = "challenge" /\ (ReleaseFails \/ \E got : Challenged(got))
        BY <3>2 DEF Challenge
      <4> QED
        BY <4>1 DEF Challenged, ReleaseFails
    <3>3. CASE Exchange
      BY <3>3 DEF Exchange, ReleaseFails
    <3> QED
      BY <1>7, <3>1, <3>2, <3>3
  <2>3. \A s \in Stages : Came(s)' = Came(s)
    BY <2>1, <2>2 DEF UpInv, callerVars
  <2> QED
    BY <1>1, <2>1, <2>3, QuietStep
<1>8. CASE SaveState
  <2>1. UNCHANGED out /\ \A s \in Stages : Came(s)' = Came(s)
    BY <1>8 DEF SaveState, UpGoes, UpInv, BuildTypes, Errors, buildVars, callerVars
  <2> QED
    BY <1>1, <2>1, QuietStep
<1> QED
  BY <1>2, <1>3, <1>4, <1>5, <1>6, <1>7, <1>8 DEF UpStep

\* The caller of the build feeds the stream.
LEMMA CallerFeeds ==
  ASSUME ChanCap = 1, UpInv, FeedInv, berr \in Errors, CallerStep, UNCHANGED upVars
  PROVE  FeedInv' /\ (Feed!SendOne \/ UNCHANGED Feed!senderVars)
<1> USE DEF Came, Stages
<1>1. UNCHANGED <<upc, rerr, closed, shown>>
  BY DEF upVars
<1>2. CASE BuildStart
  <2>1. /\ Summarize("build", "started") /\ ~closed /\ Says("build", "started")
        /\ \A s \in Stages \ {"build"} : Came(s)' = Came(s)
    BY <1>1, <1>2 DEF BuildStart, UpInv, Says, NoneCameOpen, CallerOnly
  <2> QED
    BY <1>1, <2>1, SendStep DEF Codes
<1>3. CASE BuildRecvErr \/ BuildRecvClosed \/ BuildDefault \/ BuildLoopEnd
  <2>1. UNCHANGED out /\ \A s \in Stages : Came(s)' = Came(s)
    BY <1>1, <1>3 DEF BuildRecvErr, BuildRecvClosed, BuildDefault, BuildLoopEnd, BuildPolling, UpInv
  <2> QED
    BY <1>1, <2>1, QuietStep
<1>4. CASE BuildOngoing
  <2>1. /\ Summarize("build", "ongoing") /\ ~closed /\ Says("build", "ongoing")
        /\ \A s \in Stages \ {"build"} : Came(s)' = Came(s)
    BY <1>1, <1>4 DEF BuildOngoing, UpInv, Says
  <2> QED
    BY <1>1, <2>1, SendStep DEF Codes
<1>5. CASE BuildComplete
  <2> DEFINE c == IF berr = "nil" THEN "success" ELSE "failure"
  <2>1. /\ Summarize("build", c) /\ ~closed /\ Says("build", c)
        /\ \A s \in Stages \ {"build"} : Came(s)' = Came(s)
    BY <1>1, <1>5 DEF BuildComplete, Complete, UpInv, Says, Errors
  <2> QED
    BY <1>1, <2>1, SendStep DEF Codes
<1> QED
  BY <1>2, <1>3, <1>4, <1>5 DEF CallerStep

\* Every step of the program and of the build service is one of StageSender or
\* a stutter, while the channel has capacity one.
LEMMA FeedStep ==
  ASSUME ChanCap = 1, IInv, FeedInv, [Next]_vars
  PROVE  FeedInv' /\ [Feed!SendOne \/ Feed!CloseIn \/ Feed!Take]_(Feed!senderVars)
<1>1. UpInv /\ BuildTypes /\ berr \in Errors
  BY DEF IInv, BuildInv, BuildTypes
<1>2. CASE UpStep
  BY <1>1, <1>2, UpFeeds
<1>3. CASE CallerStep /\ UNCHANGED upVars
  BY <1>1, <1>3, CallerFeeds
<1>4. CASE CloseStream
  <2>1. /\ ~closed /\ closed' = TRUE /\ UNCHANGED <<out, shown>>
        /\ \A s \in Stages : Came(s)' = Came(s) /\ Came(s) # "open"
    BY <1>1, <1>4 DEF CloseStream, UpInv, Came, Stages, buildVars, callerVars
  <2>2. FeedInv'
    BY <2>1 DEF FeedInv, Tells, ShownAs, After, Follows
  <2>3. \A s \in Stages : Told(s) # "open"
    BY <2>1, ToldIsTells DEF FeedInv
  <2>4. UNCHANGED FeedIn /\ UNCHANGED FeedSent
    BY <2>1 DEF FeedIn, FeedSent, Told
  <2> QED
    BY <2>1, <2>2, <2>3, <2>4 DEF Feed!CloseIn, Feed!NoneOpen, FeedIn, FeedSent
<1>5. CASE Receive
  BY <1>5, ReceiveStep
<1>6. ASSUME UNCHANGED <<callerVars, upc, rerr, out, shown, closed>>
      PROVE  FeedInv' /\ UNCHANGED Feed!senderVars
  BY <1>6, QuietStep DEF Came, callerVars
<1>7. CASE \/ WorkerStep /\ UNCHANGED <<out, upVars>>
           \/ RemoteStep /\ UNCHANGED <<out, upVars>>
           \/ Exit \/ Crash \/ UNCHANGED vars
  <2>1. CASE /\ WorkerStep /\ UNCHANGED <<out, upVars>>
             /\ bworker \notin {"close_msgc", "close_errc", "panicking", "panic_errc"}
    <3>1. UNCHANGED callerVars
      BY <2>1 DEF WorkerStep, WorkerGetUploadURL, WorkerPutBlob, WorkerQueueBuild, WorkerWait, WorkerResult,
                  WorkerLogLink, WorkerPoll, WorkerCopy, WorkerClose, WorkerCalls, WorkerAt
    <3> QED
      BY <1>6, <2>1, <3>1 DEF upVars
  <2>2. CASE RemoteStep /\ UNCHANGED <<out, upVars>>
    BY <1>6, <2>2 DEF RemoteStep, upVars
  <2>3. CASE Exit \/ Crash
    BY <1>6, <2>3 DEF Exit, Crash, buildVars
  <2>4. CASE UNCHANGED vars
    BY <1>6, <2>4 DEF vars, buildVars, upVars
  <2>5. CASE WorkerClose /\ UNCHANGED <<out, upVars>>
    <3>1. UNCHANGED <<bpc, berr, upc, rerr, out, shown, closed>>
      BY <2>5 DEF WorkerClose, upVars
    <3> QED
      BY <3>1, QuietStep DEF Came
  <2>6. WorkerStep /\ bworker \in {"close_msgc", "close_errc", "panicking", "panic_errc"} => WorkerClose
    BY DEF WorkerStep, WorkerGetUploadURL, WorkerPutBlob, WorkerQueueBuild, WorkerWait, WorkerResult,
           WorkerLogLink, WorkerPoll, WorkerCopy, WorkerCalls, WorkerAt
  <2> QED
    BY <1>7, <2>1, <2>2, <2>3, <2>4, <2>5, <2>6
<1> QED
  BY <1>2, <1>3, <1>4, <1>5, <1>7, Steps

\* With the capacity that Up gives its channel, the stream of a build by the
\* registry's service is one that Display is made for too: one stage at a
\* time, the build told as a success a second time by Push, and the end last.
THEOREM AzureFeedsDisplay ==
  ASSUME ChanCap = 1
  PROVE  Spec => FeedsDisplay
<1>1. Init => FeedInv /\ Feed!InitSender
  <2> SUFFICES ASSUME Init PROVE FeedInv /\ Feed!InitSender
    OBVIOUS
  <2>1. FeedInv
    BY DEF Init, InitBuild, FeedInv, Tells, ShownAs, Came, Stages
  <2>2. FeedIn = <<>> /\ FeedSent = [s \in Stages |-> "none"]
    <3>1. \A s \in Stages : Came(s) = "none"
      BY DEF Init, InitBuild, Came, Stages
    <3> QED
      BY <2>1, <3>1, FeedView DEF Init
  <2> QED
    BY <2>1, <2>2 DEF Init, Feed!InitSender, FeedIn, FeedSent
<1>2. IInv /\ FeedInv /\ [Next]_vars
      => FeedInv' /\ [Feed!SendOne \/ Feed!CloseIn \/ Feed!Take]_(Feed!senderVars)
  BY FeedStep
<1> QED
  BY <1>1, <1>2, Invariance, PTL DEF Spec, FeedsDisplay, Feed!SenderSpec

-----------------------------------------------------------------------------
(* The parser of the challenge.  What its loop makes of a header goes by   *)
(* the number of the parameter it is at, and so does what the header is;   *)
(* the place of induction is taken by the least number of a set.           *)

\* Every set of numbers that has a member has a least one.
LEMMA LeastNumber ==
  ASSUME NEW S \in SUBSET Nat, S # {}
  PROVE  \E m \in S : \A n \in S : m <= n
<1> DEFINE T == {1 .. n : n \in S}
<1>1. T \subseteq FiniteSubsetsOf(Nat) /\ T # {}
  <2>1. \A n \in Nat : IsFiniteSet(1 .. n) /\ 1 .. n \subseteq Nat
    BY FS_Interval
  <2> QED
    BY <2>1 DEF FiniteSubsetsOf
<1>2. \E x \in T : \A y \in T : ~(<<y, x>> \in StrictSubsetOrdering(Nat))
  BY <1>1, FS_StrictSubsetOrderingWellFounded, WFMin
<1>3. PICK m \in S : \A n \in S : ~(<<1 .. n, 1 .. m>> \in StrictSubsetOrdering(Nat))
  BY <1>2
<1>4. ASSUME NEW n \in S
      PROVE  m <= n
  <2>1. SUFFICES ASSUME n < m PROVE FALSE
    OBVIOUS
  <2>2. 1 .. n \subseteq 1 .. m /\ m \in 1 .. m /\ m \notin 1 .. n
    BY <2>1
  <2>3. 1 .. n \in SUBSET Nat /\ 1 .. m \in SUBSET Nat /\ 1 .. n # 1 .. m
    BY <2>2
  <2> QED
    BY <1>3, <2>2, <2>3 DEF StrictSubsetOrdering
<1> QED
  BY <1>4

\* The first of some positions is the one that none is before.
LEMMA FirstIs ==
  ASSUME NEW S \in SUBSET Nat, NEW n \in S, \A m \in S : n <= m
  PROVE  FirstOf(S) = n
<1>1. \A k \in S : (\A m \in S : k <= m) => k = n
  <2> SUFFICES ASSUME NEW k \in S, \A m \in S : k <= m PROVE k = n
    OBVIOUS
  <2>1. k <= n /\ n <= k /\ k \in Nat /\ n \in Nat
    OBVIOUS
  <2> QED
    BY <2>1
<1>2. (CHOOSE k \in S : \A m \in S : k <= m) = n
  BY <1>1
<1> QED
  BY <1>2 DEF FirstOf

\* What is not a space is the next such thing from where it is.
LEMMA NextHere ==
  ASSUME NEW V, NEW st \in Seq(V), NEW n \in 1 .. Len(st), st[n] # "sp"
  PROVE  NextNoneSpace(st, n) = n
<1> DEFINE S == {k \in n .. Len(st) : st[k] # "sp"}
<1>1. S \in SUBSET Nat /\ n \in S /\ \A k \in S : n <= k
  OBVIOUS
<1> HIDE DEF S
<1>2. FirstOf(S) = n
  BY <1>1, FirstIs
<1> QED
  BY <1>2 DEF NextNoneSpace, S

\* A word alone, or after a space, is what is left of it without the space.
LEMMA TrimmedIs ==
  ASSUME NEW V, NEW key \in V, key # "sp", "sp" \in V
  PROVE  TrimSpace(<<key>>) = <<key>> /\ TrimSpace(<<"sp", key>>) = <<key>>
<1>1. ASSUME NEW s \in Seq(V), Len(s) > 0, s[Len(s)] # "sp",
             \A n \in 1 .. Len(s) - 1 : s[n] = "sp"
      PROVE  TrimSpace(s) = <<s[Len(s)]>>
  <2> DEFINE solid == {n \in DOMAIN s : s[n] # "sp"}
  <2>1. solid = {Len(s)}
    BY <1>1
  <2>2. SubSeq(s, Len(s), Len(s)) = <<s[Len(s)]>>
    <3> DEFINE part == SubSeq(s, Len(s), Len(s))
    <3>1. part \in Seq(V) /\ Len(part) = 1 /\ part[1] = s[Len(s)]
      BY <1>1
    <3> HIDE DEF part
    <3>2. part = <<s[Len(s)]>>
      BY <3>1
    <3> QED
      BY <3>2 DEF part
  <2>3. (CHOOSE n \in {Len(s)} : \A m \in {Len(s)} : n <= m) = Len(s)
        /\ (CHOOSE n \in {Len(s)} : \A m \in {Len(s)} : n >= m) = Len(s)
    OBVIOUS
  <2> HIDE DEF solid
  <2> QED
    BY <2>1, <2>2, <2>3 DEF TrimSpace, solid
<1>2. TrimSpace(<<key>>) = <<key>>
  <2> DEFINE s == <<key>>
  <2>1. s \in Seq(V) /\ Len(s) = 1 /\ s[1] = key
    OBVIOUS
  <2> HIDE DEF s
  <2>2. TrimSpace(s) = <<key>>
    BY <1>1, <2>1
  <2> QED
    BY <2>2 DEF s
<1>3. TrimSpace(<<"sp", key>>) = <<key>>
  <2> DEFINE s == <<"sp", key>>
  <2>1. s \in Seq(V) /\ Len(s) = 2 /\ s[1] = "sp" /\ s[2] = key
    OBVIOUS
  <2> HIDE DEF s
  <2>3. \A n \in 1 .. Len(s) - 1 : s[n] = "sp"
    <3>1. \A n \in 1 .. 2 - 1 : n = 1
      OBVIOUS
    <3> QED
      BY <2>1, <3>1
  <2>4. Len(s) > 0 /\ s[Len(s)] # "sp" /\ s[Len(s)] = key
    BY <2>1
  <2>2. TrimSpace(s) = <<s[Len(s)]>>
    BY <1>1, <2>1, <2>3, <2>4
  <2> QED
    BY <2>2, <2>4 DEF s
<1> QED
  BY <1>2, <1>3

\* The round over a quoted parameter: it is the last, or a comma follows.
RoundsAt(st, c, key, v, last) ==
  /\ Len(st) = last => Assignment(st, c) = Round("last", <<key>>, v, 0)
  /\ Len(st) > last /\ st[last + 1] = "comma" =>
       Assignment(st, c) = Round("more", <<key>>, v, last + 2)

\* One round of the loop over a quoted parameter whose key is at position
\* a + 1, with the cursor at the key or at the space before it.
LEMMA RoundIs ==
  ASSUME NEW V, NEW st \in Seq(V), NEW a \in Nat, NEW c \in Nat \ {0}, c = a \/ c = a + 1,
         NEW key \in V, key # "=", key # "sp", NEW v \in Seq(V), "sp" \in V,
         \A i \in 1 .. Len(v) : v[i] # "quote",
         c = a => st[a] = "sp",
         a + 4 + Len(v) <= Len(st),
         st[a + 1] = key, st[a + 2] = "=", st[a + 3] = "quote",
         \A i \in 1 .. Len(v) : st[a + 3 + i] = v[i],
         st[a + 4 + Len(v)] = "quote"
  PROVE  RoundsAt(st, c, key, v, a + 4 + Len(v))
<1>1. Len(st) \in Nat /\ Len(v) \in Nat /\ DOMAIN v = 1 .. Len(v) /\ a \in Nat /\ c \in Nat \ {0}
  OBVIOUS
<1>2. NextOccurrence(st, c, "=") = a + 2
  <2> DEFINE S == {n \in c .. Len(st) : st[n] = "="}
  <2>1. S \in SUBSET Nat /\ a + 2 \in S
    BY <1>1
  <2>2. \A m \in S : a + 2 <= m
    BY <1>1
  <2> HIDE DEF S
  <2>3. FirstOf(S) = a + 2
    BY <2>1, <2>2, FirstIs
  <2> QED
    BY <2>3 DEF NextOccurrence, S
<1>3. TrimSpace(SubSeq(st, c, a + 2 - 1)) = <<key>>
  <2>1. CASE c = a + 1
    <3>1. a + 2 - 1 = c /\ c \in 1 .. Len(st)
      BY <1>1, <2>1
    <3>2. SubSeq(st, c, c) = <<st[c]>>
      <4> DEFINE part == SubSeq(st, c, c)
      <4>1. part \in Seq(V) /\ Len(part) = 1 /\ part[1] = st[c]
        BY <3>1
      <4> HIDE DEF part
      <4>2. part = <<st[c]>>
        BY <4>1
      <4> QED
        BY <4>2 DEF part
    <3>3. SubSeq(st, c, a + 2 - 1) = <<key>>
      BY <2>1, <3>1, <3>2
    <3> QED
      BY <3>3, TrimmedIs
  <2>2. CASE c = a
    <3>1. a + 2 - 1 = c + 1 /\ c \in 1 .. Len(st) /\ c + 1 \in 1 .. Len(st)
      BY <1>1, <2>2
    <3> DEFINE part == SubSeq(st, c, c + 1)
    <3>2. part \in Seq(V) /\ Len(part) = 2 /\ part[1] = st[c] /\ part[2] = st[c + 1]
      BY <3>1
    <3>3. part = <<"sp", key>>
      <4> HIDE DEF part
      <4> QED
        BY <2>2, <3>2
    <3> QED
      BY <3>1, <3>3, TrimmedIs
  <2> QED
    BY <2>1, <2>2
<1>4. NextNoneSpace(st, a + 2 + 1) = a + 3
  <2>1. a + 2 + 1 = a + 3 /\ a + 3 \in 1 .. Len(st)
    BY <1>1
  <2> QED
    BY <2>1, NextHere
<1>5. QuotedEnd(st, a + 3) = a + 4 + Len(v)
  <2> DEFINE S == {n \in a + 3 + 1 .. Len(st) : st[n] = "quote"}
  <2>1. S \in SUBSET Nat /\ a + 4 + Len(v) \in S
    BY <1>1
  <2>2. ASSUME NEW m \in S PROVE a + 4 + Len(v) <= m
    <3> SUFFICES ASSUME m < a + 4 + Len(v) PROVE FALSE
      BY <1>1
    <3>1. m - a - 3 \in 1 .. Len(v) /\ a + 3 + (m - a - 3) = m
      BY <1>1
    <3>2. st[m] = v[m - a - 3]
      BY <3>1
    <3> QED
      BY <1>1, <3>1, <3>2
  <2> HIDE DEF S
  <2>3. FirstOf(S) = a + 4 + Len(v)
    BY <2>1, <2>2, FirstIs
  <2> QED
    BY <2>3 DEF QuotedEnd, NextOccurrence, S
<1>6. SubSeq(st, a + 3 + 1, a + 4 + Len(v) - 1) = v
  <2> DEFINE part == SubSeq(st, a + 3 + 1, a + 4 + Len(v) - 1)
  <2>1. part \in Seq(V) /\ Len(part) = Len(v)
    BY <1>1
  <2>2. \A i \in 1 .. Len(v) : part[i] = v[i]
    BY <1>1
  <2> HIDE DEF part
  <2>3. /\ part = [i \in 1 .. Len(part) |-> part[i]]
        /\ v = [i \in 1 .. Len(v) |-> v[i]]
    BY <2>1
  <2>4. part = v
    BY <2>1, <2>2, <2>3
  <2> QED
    BY <2>4 DEF part
<1> DEFINE close == a + 4 + Len(v)
           after == NextNoneSpace(st, close + 1)
<1>7. Assignment(st, c) =
        IF after = 0 THEN Round("last", <<key>>, v, 0)
        ELSE IF st[after] # "comma" THEN Malformed
        ELSE Round("more", <<key>>, v, after + 1)
  <2>1. a + 2 # 0 /\ a + 3 # 0 /\ a + 4 + Len(v) # 0
    BY <1>1
  <2> DEFINE equal == a + 2  open == a + 3  end == a + 4 + Len(v)  word == <<key>>
  <2>2. /\ NextOccurrence(st, c, "=") = equal /\ equal # 0
        /\ TrimSpace(SubSeq(st, c, equal - 1)) = word
        /\ NextNoneSpace(st, equal + 1) = open /\ open # 0 /\ st[open] = "quote"
        /\ QuotedEnd(st, open) = end /\ end # 0
        /\ SubSeq(st, open + 1, end - 1) = v
    BY <1>2, <1>3, <1>4, <1>5, <1>6, <2>1
  <2>3. NextNoneSpace(st, end + 1) = after
    OBVIOUS
  <2> HIDE DEF equal, open, end, word, after
  <2> QED
    <3>1. Assignment(st, c) =
            IF after = 0 THEN Round("last", word, v, 0)
            ELSE IF st[after] # "comma" THEN Malformed
            ELSE Round("more", word, v, after + 1)
      BY <2>2, <2>3 DEF Assignment
    <3> QED
      BY <3>1 DEF word
<1>8. Len(st) = close => after = 0
  BY <1>1 DEF NextNoneSpace, FirstOf
<1>9. Len(st) > close /\ st[close + 1] = "comma" => after = close + 1
  <2>1. Len(st) > close => close + 1 \in 1 .. Len(st)
    BY <1>1
  <2> HIDE DEF close
  <2> QED
    BY <2>1, NextHere
<1>10. close + 1 + 1 = close + 2 /\ close + 1 # 0
  BY <1>1
<1> HIDE DEF after
<1> QED
  BY <1>7, <1>8, <1>9, <1>10 DEF RoundsAt

\* The first of some positions is one of them, or 0.
LEMMA FirstWithin ==
  ASSUME NEW S \in SUBSET Nat
  PROVE  FirstOf(S) \in S \union {0}
  BY LeastNumber DEF FirstOf

\* A round with more to come moves the cursor on.
LEMMA RoundsAdvance ==
  ASSUME NEW V, NEW st \in Seq(V), NEW c \in 1 .. Len(st) + 1,
         Assignment(st, c).kind = "more"
  PROVE  Assignment(st, c).next \in c + 1 .. Len(st) + 1
<1>1. ASSUME NEW start \in Nat
      PROVE  /\ \A sep : NextOccurrence(st, start, sep) \in (start .. Len(st)) \union {0}
             /\ NextNoneSpace(st, start) \in (start .. Len(st)) \union {0}
  <2>1. start .. Len(st) \subseteq Nat
    OBVIOUS
  <2> QED
    BY <2>1, FirstWithin DEF NextOccurrence, NextNoneSpace
<1> DEFINE equal == NextOccurrence(st, c, "=")
           value == NextNoneSpace(st, equal + 1)
           close == QuotedEnd(st, value)
           after == NextNoneSpace(st, close + 1)
           comma == NextOccurrence(st, value, "comma")
<1>2. /\ equal # 0 /\ value # 0
      /\ \/ close # 0 /\ after # 0 /\ Assignment(st, c).next = after + 1
         \/ comma # 0 /\ Assignment(st, c).next = comma + 1
  BY DEF Assignment, Malformed, OutOfRange, Round
<1>3. Len(st) \in Nat /\ c \in Nat
  OBVIOUS
<1>4. equal \in c .. Len(st)
  BY <1>1, <1>2, <1>3
<1>5. value \in equal + 1 .. Len(st)
  <2>1. value # 0
    BY <1>2
  <2> HIDE DEF equal
  <2>2. equal + 1 \in Nat
    BY <1>3, <1>4
  <2>3. value \in (equal + 1 .. Len(st)) \union {0}
    BY <1>1, <2>2
  <2> HIDE DEF value
  <2> QED
    BY <2>1, <2>3
<1>6. close # 0 => close \in value + 1 .. Len(st)
  <2> HIDE DEF equal, value
  <2> QED
    BY <1>1, <1>3, <1>4, <1>5 DEF QuotedEnd
<1>7. close # 0 /\ after # 0 => after \in close + 1 .. Len(st)
  <2> HIDE DEF equal, value, close
  <2> QED
    BY <1>1, <1>3, <1>4, <1>5, <1>6
<1>8. comma # 0 => comma \in value .. Len(st)
  <2> HIDE DEF equal, value, close
  <2>1. value \in Nat
    BY <1>3, <1>4, <1>5
  <2>2. comma \in (value .. Len(st)) \union {0}
    BY <1>1, <2>1
  <2> HIDE DEF comma
  <2> QED
    BY <2>2
<1> HIDE DEF equal, value, close, after, comma
<1> QED
  BY <1>2, <1>3, <1>4, <1>5, <1>6, <1>7, <1>8

\* What the loop returns at a cursor, when f is what it returns further on.
Returned(st, cursor, f) ==
  IF Assignment(st, cursor).kind = "more"
  THEN Onward(Assignment(st, cursor), f[Assignment(st, cursor).next])
  ELSE Ending(Assignment(st, cursor))

\* There is a function of what it returns: of the last positions, by their
\* number.
LEMMA ParsingExists ==
  ASSUME NEW V, NEW st \in Seq(V)
  PROVE  \E f : f = [cursor \in 1 .. Len(st) + 1 |-> Returned(st, cursor, f)]
<1> DEFINE Last(n) == Len(st) + 2 - n .. Len(st) + 1
           Upto(n, f) == f = [cursor \in Last(n) |-> Returned(st, cursor, f)]
           Bad == {n \in Nat : n <= Len(st) + 1 /\ ~\E f : Upto(n, f)}
<1>0. Len(st) \in Nat
  OBVIOUS
<1>1. SUFFICES Bad = {}
  <2>1. Len(st) + 1 \in Nat /\ Len(st) + 1 <= Len(st) + 1 /\ Len(st) + 2 - (Len(st) + 1) = 1
    BY <1>0
  <2>2. \E f : Upto(Len(st) + 1, f)
    BY <1>1, <2>1
  <2> QED
    BY <2>1, <2>2
<1>2. SUFFICES ASSUME Bad # {} PROVE FALSE
  OBVIOUS
<1>3. PICK m \in Bad : \A n \in Bad : m <= n
  BY <1>2, LeastNumber
<1>4. m \in Nat /\ m <= Len(st) + 1
  BY <1>3
<1>5. m # 0
  <2>1. Last(0) = {}
    BY <1>0
  <2>2. Upto(0, [cursor \in Last(0) |-> cursor])
    BY <2>1
  <2> QED
    BY <1>3, <2>2
<1>6. m - 1 \in Nat /\ m - 1 <= Len(st) + 1 /\ m - 1 \notin Bad
  <2> HIDE DEF Bad
  <2> QED
    BY <1>0, <1>3, <1>4, <1>5
<1>7. PICK f : Upto(m - 1, f)
  BY <1>6
<1> DEFINE g == [cursor \in Last(m) |-> IF cursor \in Last(m - 1) THEN f[cursor]
                                        ELSE Returned(st, cursor, f)]
<1>8. ASSUME NEW cursor \in Last(m) PROVE g[cursor] = Returned(st, cursor, g)
  <2>1. cursor \in 1 .. Len(st) + 1 /\ cursor \in Nat
    BY <1>0, <1>4
  <2>2. g[cursor] = Returned(st, cursor, f)
    <3>1. cursor \in Last(m - 1) => f[cursor] = Returned(st, cursor, f)
      <4> HIDE DEF Last
      <4> QED
        BY <1>7
    <3> HIDE DEF Last
    <3> QED
      BY <3>1
  <2>3. Assignment(st, cursor).kind = "more" =>
          g[Assignment(st, cursor).next] = f[Assignment(st, cursor).next]
    <3> DEFINE next == Assignment(st, cursor).next
    <3>1. SUFFICES ASSUME Assignment(st, cursor).kind = "more" PROVE g[next] = f[next]
      OBVIOUS
    <3>2. next \in cursor + 1 .. Len(st) + 1
      BY <2>1, <3>1, RoundsAdvance
    <3>3. next \in Last(m) /\ next \in Last(m - 1)
      <4> HIDE DEF next
      <4> QED
        BY <1>0, <1>4, <1>5, <2>1, <3>2
    <3> HIDE DEF next, Last
    <3> QED
      BY <3>3
  <2> HIDE DEF g
  <2> QED
    BY <2>2, <2>3 DEF Returned
<1>9. Upto(m, g)
  <2> HIDE DEF Last
  <2>1. g = [cursor \in Last(m) |-> g[cursor]]
    OBVIOUS
  <2> HIDE DEF g
  <2> QED
    BY <1>8, <2>1
<1> QED
  BY <1>3, <1>9

\* And ParseAssignments begins at its first.
LEMMA ParsingIs ==
  ASSUME NEW V, NEW st \in Seq(V)
  PROVE  \E f : /\ ParseAssignments(st) = f[1]
                /\ \A cursor \in 1 .. Len(st) + 1 : f[cursor] = Returned(st, cursor, f)
<1> DEFINE parse == CHOOSE f : f = [cursor \in 1 .. Len(st) + 1 |-> Returned(st, cursor, f)]
<1>1. parse = [cursor \in 1 .. Len(st) + 1 |-> Returned(st, cursor, parse)]
  BY ParsingExists
<1>2. ParseAssignments(st) = parse[1]
  BY DEF ParseAssignments, Returned
<1> HIDE DEF parse
<1>3. ASSUME NEW cursor \in 1 .. Len(st) + 1
      PROVE  parse[cursor] = Returned(st, cursor, parse)
  <2> DEFINE h == [c \in 1 .. Len(st) + 1 |-> Returned(st, c, parse)]
  <2>1. parse = h /\ h[cursor] = Returned(st, cursor, parse)
    BY <1>1
  <2> HIDE DEF h
  <2> QED
    BY <2>1
<1> QED
  BY <1>2, <1>3

Parameters == [key : STRING, quoted : BOOLEAN, value : Seq(STRING)]

\* What stands between the parameters before the n-th and it.
Begun(f, n) == IF n = 1 THEN <<>> ELSE f[n - 1] \o <<"comma", "sp">>

\* A header is written parameter by parameter.
LEMMA HeaderExists ==
  ASSUME NEW params
  PROVE  \A n \in Nat :
           \E f : f = [k \in 0 .. n |-> IF k = 0 THEN <<>> ELSE Begun(f, k) \o Written(params[k])]
<1> DEFINE Upto(n, f) ==
             f = [k \in 0 .. n |-> IF k = 0 THEN <<>> ELSE Begun(f, k) \o Written(params[k])]
           Bad == {n \in Nat : ~\E f : Upto(n, f)}
<1>1. SUFFICES ASSUME Bad # {} PROVE FALSE
  BY Zenon
<1>2. PICK m \in Bad : \A n \in Bad : m <= n
  BY <1>1, LeastNumber
<1>3. m # 0
  <2>1. Upto(0, [k \in 0 .. 0 |-> <<>>])
    OBVIOUS
  <2> QED
    BY <1>2, <2>1
<1>4. m \in Nat /\ m - 1 \in Nat /\ m - 1 \notin Bad
  <2>1. m \in Nat
    BY <1>2
  <2> HIDE DEF Bad
  <2> QED
    BY <1>2, <1>3, <2>1
<1>5. PICK f : Upto(m - 1, f)
  BY <1>4
<1> DEFINE g == [k \in 0 .. m |-> IF k < m THEN f[k] ELSE Begun(f, k) \o Written(params[k])]
<1>6. ASSUME NEW k \in 0 .. m
      PROVE  g[k] = IF k = 0 THEN <<>> ELSE Begun(g, k) \o Written(params[k])
  <2>1. k # 0 /\ k # 1 => k - 1 \in 0 .. m /\ k - 1 < m /\ g[k - 1] = f[k - 1]
    BY <1>4
  <2>2. k < m => f[k] = IF k = 0 THEN <<>> ELSE Begun(f, k) \o Written(params[k])
    <3>1. k < m => k \in 0 .. m - 1
      BY <1>4
    <3> QED
      BY <1>5, <3>1
  <2>3. g[k] = IF k < m THEN f[k] ELSE Begun(f, k) \o Written(params[k])
    OBVIOUS
  <2>4. k # 0 => Begun(g, k) = Begun(f, k)
    BY <2>1 DEF Begun
  <2> HIDE DEF g
  <2> QED
    BY <1>3, <1>4, <2>2, <2>3, <2>4
<1>7. Upto(m, g)
  <2>1. g = [k \in 0 .. m |-> g[k]]
    OBVIOUS
  <2> HIDE DEF g
  <2> QED
    BY <1>6, <2>1
<1> QED
  BY <1>2, <1>7

\* The header of some parameters is what its recursive definition says it is.
LEMMA HeaderIs ==
  ASSUME NEW params \in Seq(Parameters)
  PROVE  \E f : /\ Header(params) = f[Len(params)]
                /\ f[0] = <<>>
                /\ \A n \in 1 .. Len(params) : f[n] = Begun(f, n) \o Written(params[n])
<1> DEFINE upto == CHOOSE f : f = [k \in 0 .. Len(params) |->
                                     IF k = 0 THEN <<>> ELSE Begun(f, k) \o Written(params[k])]
<1>1. upto = [k \in 0 .. Len(params) |->
                IF k = 0 THEN <<>> ELSE Begun(upto, k) \o Written(params[k])]
  <2>1. Len(params) \in Nat
    OBVIOUS
  <2> QED
    BY <2>1, HeaderExists
<1>2. Header(params) = upto[Len(params)]
  BY DEF Header, Begun
<1> HIDE DEF upto
<1>3. ASSUME NEW n \in 0 .. Len(params)
      PROVE  upto[n] = IF n = 0 THEN <<>> ELSE Begun(upto, n) \o Written(params[n])
  <2> DEFINE h == [k \in 0 .. Len(params) |->
                     IF k = 0 THEN <<>> ELSE Begun(upto, k) \o Written(params[k])]
  <2>1. upto = h /\ h[n] = IF n = 0 THEN <<>> ELSE Begun(upto, n) \o Written(params[n])
    BY <1>1
  <2> HIDE DEF h
  <2> QED
    BY <2>1
<1>4. Len(params) \in Nat /\ 0 \in 0 .. Len(params)
      /\ \A n \in 1 .. Len(params) : n \in 0 .. Len(params) /\ n # 0
  OBVIOUS
<1> QED
  BY <1>2, <1>3, <1>4

\* Five sequences, one after the other, place by place.
Joins(V, s, b, x, q, v) ==
  /\ s \in Seq(V) /\ Len(s) = Len(b) + (Len(x) + ((Len(q) + Len(v)) + Len(q)))
  /\ \A i \in 1 .. Len(b) : s[i] = b[i]
  /\ \A i \in 1 .. Len(x) : s[Len(b) + i] = x[i]
  /\ \A i \in 1 .. Len(q) : s[Len(b) + (Len(x) + i)] = q[i]
  /\ \A i \in 1 .. Len(v) : s[Len(b) + (Len(x) + (Len(q) + i))] = v[i]
  /\ \A i \in 1 .. Len(q) : s[Len(b) + (Len(x) + ((Len(q) + Len(v)) + i))] = q[i]

\* Where the pieces of a text are in the whole.
LEMMA Joined ==
  ASSUME NEW V, NEW b \in Seq(V), NEW x \in Seq(V), NEW q \in Seq(V), NEW v \in Seq(V)
  PROVE  Joins(V, b \o (x \o (q \o v \o q)), b, x, q, v)
<1> DEFINE qv == q \o v  r == qv \o q  w == x \o r  s == b \o w
<1>1. Len(v) \in Nat /\ Len(b) \in Nat /\ Len(q) \in Nat /\ Len(x) \in Nat
  OBVIOUS
<1>2. /\ qv \in Seq(V) /\ Len(qv) = Len(q) + Len(v)
      /\ \A i \in 1 .. Len(q) : qv[i] = q[i]
      /\ \A i \in 1 .. Len(v) : qv[Len(q) + i] = v[i]
  OBVIOUS
<1> HIDE DEF qv
<1>3. /\ r \in Seq(V) /\ Len(r) = Len(qv) + Len(q)
      /\ \A i \in 1 .. Len(qv) : r[i] = qv[i]
      /\ \A i \in 1 .. Len(q) : r[Len(qv) + i] = q[i]
  <2>1. qv \in Seq(V)
    BY <1>2
  <2> QED
    BY <2>1
<1> HIDE DEF r
<1>4. /\ w \in Seq(V) /\ Len(w) = Len(x) + Len(r)
      /\ \A i \in 1 .. Len(x) : w[i] = x[i]
      /\ \A i \in 1 .. Len(r) : w[Len(x) + i] = r[i]
  <2>1. r \in Seq(V)
    BY <1>3
  <2> QED
    BY <2>1
<1> HIDE DEF w
<1>5. /\ s \in Seq(V) /\ Len(s) = Len(b) + Len(w)
      /\ \A i \in 1 .. Len(b) : s[i] = b[i]
      /\ \A i \in 1 .. Len(w) : s[Len(b) + i] = w[i]
  <2>1. w \in Seq(V)
    BY <1>4
  <2> QED
    BY <2>1
<1> HIDE DEF s
<1>6. ASSUME NEW i \in 1 .. Len(x) PROVE s[Len(b) + i] = x[i]
  <2>1. i \in 1 .. Len(w)
    BY <1>1, <1>2, <1>3, <1>4
  <2> QED
    BY <1>4, <1>5, <2>1
<1>7. ASSUME NEW i \in 1 .. Len(r) PROVE s[Len(b) + (Len(x) + i)] = r[i]
  <2>1. Len(x) + i \in 1 .. Len(w)
    BY <1>1, <1>2, <1>3, <1>4
  <2> QED
    BY <1>4, <1>5, <2>1
<1>8. ASSUME NEW i \in 1 .. Len(qv) PROVE s[Len(b) + (Len(x) + i)] = qv[i]
  <2>1. i \in 1 .. Len(r)
    BY <1>1, <1>2, <1>3
  <2> QED
    BY <1>3, <1>7, <2>1
<1>9. ASSUME NEW i \in 1 .. Len(q)
      PROVE  /\ s[Len(b) + (Len(x) + i)] = q[i]
             /\ s[Len(b) + (Len(x) + ((Len(q) + Len(v)) + i))] = q[i]
  <2>1. i \in 1 .. Len(qv) /\ Len(qv) + i \in 1 .. Len(r)
    BY <1>1, <1>2, <1>3
  <2>2. s[Len(b) + (Len(x) + (Len(qv) + i))] = r[Len(qv) + i]
    BY <1>7, <2>1
  <2> QED
    BY <1>2, <1>3, <1>8, <2>1, <2>2
<1>10. ASSUME NEW i \in 1 .. Len(v) PROVE s[Len(b) + (Len(x) + (Len(q) + i))] = v[i]
  <2>1. Len(q) + i \in 1 .. Len(qv)
    BY <1>1, <1>2
  <2> QED
    BY <1>2, <1>8, <2>1
<1>11. Len(s) = Len(b) + (Len(x) + ((Len(q) + Len(v)) + Len(q)))
  BY <1>2, <1>3, <1>4, <1>5
<1>12. s = b \o (x \o (q \o v \o q))
  BY DEF s, w, r, qv
<1> QED
  <2>1. Joins(V, s, b, x, q, v)
    BY <1>5, <1>6, <1>9, <1>10, <1>11 DEF Joins
  <2> QED
    BY <1>12, <2>1

\* A quoted parameter as it is written, place by place, after what is before it.
WrittenIn(V, s, b, p) ==
  /\ s \in Seq(V) /\ Len(s) = Len(b) + 4 + Len(p.value)
  /\ \A i \in 1 .. Len(b) : s[i] = b[i]
  /\ s[Len(b) + 1] = p.key /\ s[Len(b) + 2] = "=" /\ s[Len(b) + 3] = "quote"
  /\ \A i \in 1 .. Len(p.value) : s[Len(b) + 3 + i] = p.value[i]
  /\ s[Len(b) + 4 + Len(p.value)] = "quote"

\* Where key, value and quotes are when a parameter has been added to a text.
LEMMA WrittenAt ==
  ASSUME NEW V, "=" \in V, "quote" \in V, NEW b \in Seq(V),
         NEW p, p.quoted, p.key \in V, p.value \in Seq(V)
  PROVE  WrittenIn(V, b \o Written(p), b, p)
<1> DEFINE v == p.value  x == <<p.key, "=">>  q == <<"quote">>
           t == b \o (x \o (q \o v \o q))
<1>1. b \o Written(p) = t
  BY DEF Written
<1>2. x \in Seq(V) /\ Len(x) = 2 /\ x[1] = p.key /\ x[2] = "="
  OBVIOUS
<1>3. q \in Seq(V) /\ Len(q) = 1 /\ q[1] = "quote"
  OBVIOUS
<1>4. v \in Seq(V) /\ Len(v) \in Nat /\ Len(b) \in Nat
  OBVIOUS
<1> HIDE DEF x, q, v
<1>5. Joins(V, t, b, x, q, v)
  <2>1. x \in Seq(V) /\ q \in Seq(V) /\ v \in Seq(V) /\ b \in Seq(V)
    BY <1>2, <1>3, <1>4
  <2> QED
    BY <2>1, Joined
<1> HIDE DEF t
<1>6. /\ Len(t) = Len(b) + 4 + Len(v) /\ 1 \in 1 .. Len(x) /\ 2 \in 1 .. Len(x) /\ 1 \in 1 .. Len(q)
      /\ Len(b) + (Len(x) + 1) = Len(b) + 3
      /\ Len(b) + (Len(x) + ((Len(q) + Len(v)) + 1)) = Len(b) + 4 + Len(v)
      /\ \A i \in 1 .. Len(v) : Len(b) + (Len(x) + (Len(q) + i)) = Len(b) + 3 + i
  BY <1>2, <1>3, <1>4, <1>5 DEF Joins
<1>7. ASSUME NEW i \in 1 .. Len(v) PROVE t[Len(b) + 3 + i] = v[i]
  BY <1>5, <1>6 DEF Joins
<1>8. /\ t[Len(b) + 1] = p.key /\ t[Len(b) + 2] = "=" /\ t[Len(b) + 3] = "quote"
      /\ t[Len(b) + 4 + Len(v)] = "quote"
  BY <1>2, <1>3, <1>5, <1>6 DEF Joins
<1>9. t \in Seq(V) /\ \A i \in 1 .. Len(b) : t[i] = b[i]
  BY <1>5 DEF Joins
<1> QED
  BY <1>1, <1>6, <1>7, <1>8, <1>9 DEF v, WrittenIn

\* Where the n-th parameter is written: after this many places.
Place(f, n) == IF n = 1 THEN 0 ELSE Len(f[n - 1]) + 2

\* The parameters of a challenge, all of them quoted, and the header as far as
\* the n-th of them.
Writes(V, params, f, N) ==
  /\ \A n \in 1 .. N :
       /\ params[n].quoted /\ params[n].key \in V /\ params[n].value \in Seq(V)
       /\ params[n].key # "=" /\ params[n].key # "sp"
       /\ \A i \in 1 .. Len(params[n].value) : params[n].value[i] # "quote"
  /\ f[0] = <<>>
  /\ \A n \in 1 .. N : f[n] = Begun(f, n) \o Written(params[n])

\* The text of one parameter.
Adds(V, params, f, n) ==
  LET s == f[n]  v == params[n].value  a == Place(f, n)
  IN  /\ a \in Nat /\ s \in Seq(V) /\ Len(s) = a + 4 + Len(v)
      /\ Len(f[n - 1]) <= Len(s) /\ \A i \in 1 .. Len(f[n - 1]) : s[i] = f[n - 1][i]
      /\ n # 1 => s[a - 1] = "comma" /\ s[a] = "sp"
      /\ s[a + 1] = params[n].key /\ s[a + 2] = "=" /\ s[a + 3] = "quote"
      /\ \A i \in 1 .. Len(v) : s[a + 3 + i] = v[i]
      /\ s[a + 4 + Len(v)] = "quote"

\* Where they are when the n-th parameter of a header is.
LEMMA WrittenNext ==
  ASSUME NEW V, "comma" \in V, "sp" \in V, "=" \in V, "quote" \in V,
         NEW params, NEW f, NEW N \in Nat, Writes(V, params, f, N),
         NEW n \in 1 .. N, f[n - 1] \in Seq(V)
  PROVE  Adds(V, params, f, n)
<1> DEFINE b == Begun(f, n)  s == f[n]  v == params[n].value  a == Place(f, n)  e == f[n - 1]
<1>1. e \in Seq(V) /\ Len(e) \in Nat
  OBVIOUS
<1>2. /\ b \in Seq(V) /\ Len(b) = a /\ a \in Nat /\ Len(e) <= a
      /\ \A i \in 1 .. Len(e) : b[i] = e[i]
      /\ n # 1 => b[a - 1] = "comma" /\ b[a] = "sp"
  <2>1. CASE n = 1
    <3>1. b = <<>> /\ a = 0 /\ e = <<>>
      BY <2>1 DEF Begun, Place, Writes
    <3> HIDE DEF b, a, e
    <3>2. b \in Seq(V) /\ Len(b) = 0 /\ Len(e) = 0
      BY <3>1
    <3> QED
      BY <2>1, <3>1, <3>2
  <2>2. CASE n # 1
    <3>1. b = e \o <<"comma", "sp">> /\ a = Len(e) + 2
      BY <2>2 DEF Begun, Place
    <3> HIDE DEF b, a, e
    <3> QED
      BY <1>1, <3>1
  <2> QED
    BY <2>1, <2>2
<1>3. s = b \o Written(params[n]) /\ params[n].quoted /\ params[n].key \in V /\ v \in Seq(V)
  BY DEF Writes
<1>4. /\ s \in Seq(V) /\ Len(s) = Len(b) + 4 + Len(v)
      /\ \A i \in 1 .. Len(b) : s[i] = b[i]
      /\ s[Len(b) + 1] = params[n].key /\ s[Len(b) + 2] = "=" /\ s[Len(b) + 3] = "quote"
      /\ \A i \in 1 .. Len(v) : s[Len(b) + 3 + i] = v[i]
      /\ s[Len(b) + 4 + Len(v)] = "quote"
  <2> DEFINE p == params[n]
  <2>1. s = b \o Written(p) /\ p.quoted /\ p.key \in V /\ p.value \in Seq(V) /\ b \in Seq(V)
    BY <1>2, <1>3
  <2> HIDE DEF b, s, p
  <2>2. WrittenIn(V, s, b, p)
    BY <2>1, WrittenAt
  <2> QED
    BY <2>2 DEF p, WrittenIn
<1>5. Len(v) \in Nat /\ n \in Nat
  BY <1>3
<1> HIDE DEF b, s, v, a, e
<1>6. n # 1 => s[a - 1] = "comma" /\ s[a] = "sp"
  <2>1. n # 1 => a >= 2
    BY <1>1, <1>2 DEF a, e, Place
  <2>2. n # 1 => a - 1 \in 1 .. Len(b) /\ a \in 1 .. Len(b)
    BY <1>2, <2>1
  <2> QED
    BY <1>2, <1>4, <2>2
<1>7. Len(e) <= Len(s) /\ \A i \in 1 .. Len(e) : s[i] = e[i]
  <2>1. \A i \in 1 .. Len(e) : i \in 1 .. Len(b)
    BY <1>1, <1>2
  <2> QED
    BY <1>1, <1>2, <1>4, <1>5, <2>1
<1> QED
  BY <1>2, <1>4, <1>6, <1>7 DEF s, v, a, e, Adds

\* Every part of the header is a sequence, and begins the parts after it.
LEMMA WrittenGrows ==
  ASSUME NEW V, "comma" \in V, "sp" \in V, "=" \in V, "quote" \in V,
         NEW params, NEW f, NEW N \in Nat, Writes(V, params, f, N)
  PROVE  /\ \A n \in 0 .. N : f[n] \in Seq(V)
         /\ \A n \in 0 .. N : \A m \in 0 .. n :
              Len(f[m]) <= Len(f[n]) /\ \A i \in 1 .. Len(f[m]) : f[n][i] = f[m][i]
<1> DEFINE Extends(n, m) == Len(f[m]) <= Len(f[n]) /\ \A i \in 1 .. Len(f[m]) : f[n][i] = f[m][i]
           Good(n) == f[n] \in Seq(V) /\ \A m \in 0 .. n : Extends(n, m)
           Bad == {n \in 0 .. N : ~Good(n)}
<1>1. SUFFICES Bad = {}
  OBVIOUS
<1>2. SUFFICES ASSUME Bad # {} PROVE FALSE
  OBVIOUS
<1>3. Bad \in SUBSET Nat
  OBVIOUS
<1>4. PICK k \in Bad : \A n \in Bad : k <= n
  BY <1>2, <1>3, LeastNumber
<1>5. k \in 0 .. N /\ k \in Nat /\ ~Good(k)
  BY <1>4
<1>6. k # 0
  <2>1. Good(0)
    <3>1. f[0] = <<>>
      BY DEF Writes
    <3>2. \A m \in 0 .. 0 : m = 0
      OBVIOUS
    <3> QED
      BY <3>1, <3>2
  <2> QED
    BY <1>5, <2>1
<1>7. k - 1 \in 0 .. N /\ k \in 1 .. N /\ Good(k - 1)
  <2>1. k - 1 \in 0 .. N /\ k \in 1 .. N /\ ~(k <= k - 1)
    BY <1>5, <1>6
  <2>2. k - 1 \notin Bad
    <3> HIDE DEF Bad
    <3> QED
      BY <1>4, <2>1
  <2> HIDE DEF Good
  <2> QED
    BY <2>1, <2>2
<1>8. f[k] \in Seq(V) /\ Extends(k, k - 1)
  <2>1. Adds(V, params, f, k)
    BY <1>7, WrittenNext
  <2> QED
    BY <2>1 DEF Adds
<1>9. ASSUME NEW m \in 0 .. k PROVE Extends(k, m)
  <2>1. CASE m = k
    <3>1. Len(f[k]) \in Nat
      BY <1>8
    <3> QED
      BY <2>1, <3>1
  <2>2. CASE m # k
    <3>1. m \in 0 .. k - 1
      BY <1>5, <2>2
    <3>2. Extends(k - 1, m)
      BY <1>7, <3>1
    <3>3. f[m] \in Seq(V) /\ f[k - 1] \in Seq(V)
      <4>1. m \in 0 .. N /\ ~(k <= m)
        BY <1>5, <3>1
      <4>2. m \notin Bad
        <5> HIDE DEF Bad
        <5> QED
          BY <1>4, <4>1
      <4> QED
        BY <1>7, <4>1, <4>2
    <3>4. Len(f[m]) \in Nat /\ Len(f[k - 1]) \in Nat /\ Len(f[k]) \in Nat
      BY <1>8, <3>3
    <3> QED
      BY <1>8, <3>2, <3>4
  <2> QED
    BY <2>1, <2>2
<1> QED
  BY <1>5, <1>8, <1>9

\* The cursor is at the first parameter, or at the space before a later one.
Cursor(f, n) == IF n = 1 THEN 1 ELSE Place(f, n)

\* The round that takes the n-th parameter is the last, or comes to the next.
LEMMA RoundOf ==
  ASSUME NEW V, "comma" \in V, "sp" \in V, "=" \in V, "quote" \in V,
         NEW params, NEW f, NEW N \in Nat, Writes(V, params, f, N), NEW n \in 1 .. N
  PROVE  LET st == f[N]  key == params[n].key  v == params[n].value
         IN  /\ Cursor(f, n) \in 1 .. Len(st) + 1
             /\ n = N => Assignment(st, Cursor(f, n)) = Round("last", <<key>>, v, 0)
             /\ n < N => Assignment(st, Cursor(f, n)) = Round("more", <<key>>, v, Cursor(f, n + 1))
<1> DEFINE st == f[N]  s == f[n]  key == params[n].key  v == params[n].value
           a == Place(f, n)  c == Cursor(f, n)
<1>1. /\ key \in V /\ key # "=" /\ key # "sp" /\ v \in Seq(V) /\ Len(v) \in Nat
      /\ \A i \in 1 .. Len(v) : v[i] # "quote"
  BY DEF Writes
<1>2. /\ st \in Seq(V) /\ s \in Seq(V) /\ f[n - 1] \in Seq(V)
      /\ Len(s) <= Len(st) /\ \A i \in 1 .. Len(s) : st[i] = s[i]
  <2>1. N \in 0 .. N /\ n \in 0 .. N /\ n - 1 \in 0 .. N
    OBVIOUS
  <2> QED
    BY <2>1, WrittenGrows
<1>3. /\ a \in Nat /\ Len(s) = a + 4 + Len(v)
      /\ n # 1 => s[a] = "sp"
      /\ s[a + 1] = key /\ s[a + 2] = "=" /\ s[a + 3] = "quote"
      /\ \A i \in 1 .. Len(v) : s[a + 3 + i] = v[i]
      /\ s[a + 4 + Len(v)] = "quote"
  BY <1>2, WrittenNext, SMTT(30) DEF Adds
<1>4. n = 1 => a = 0 /\ c = a + 1
  BY DEF Place, Cursor
<1>5. n # 1 => a # 0 /\ c = a
  <2>1. Len(f[n - 1]) \in Nat
    BY <1>2
  <2> QED
    BY <2>1 DEF Place, Cursor
<1>6. n < N => /\ Cursor(f, n + 1) = a + 6 + Len(v)
               /\ a + 5 + Len(v) \in 1 .. Len(st) /\ st[a + 5 + Len(v)] = "comma"
  <2> SUFFICES ASSUME n < N
               PROVE  /\ Cursor(f, n + 1) = a + 6 + Len(v)
                      /\ a + 5 + Len(v) \in 1 .. Len(st) /\ st[a + 5 + Len(v)] = "comma"
    OBVIOUS
  <2> DEFINE m == n + 1  t == f[m]
  <2>1. m \in 1 .. N /\ m \in 0 .. N /\ m \in Nat /\ N \in 0 .. N /\ m - 1 = n /\ m # 1
    OBVIOUS
  <2> HIDE DEF m
  <2>2. t \in Seq(V) /\ Len(t) <= Len(st) /\ \A i \in 1 .. Len(t) : st[i] = t[i]
    BY <2>1, WrittenGrows
  <2>3. Place(f, m) = Len(s) + 2 /\ Cursor(f, m) = Len(s) + 2
    BY <2>1 DEF Place, Cursor
  <2>4. f[m - 1] \in Seq(V)
    BY <1>2, <2>1
  <2>5. /\ Len(t) = Place(f, m) + 4 + Len(params[m].value) /\ Len(params[m].value) \in Nat
        /\ t[Place(f, m) - 1] = "comma"
    <3>1. Adds(V, params, f, m)
      BY <2>1, <2>4, WrittenNext
    <3>2. Len(params[m].value) \in Nat
      BY <2>1 DEF Writes
    <3> QED
      BY <2>1, <3>1, <3>2 DEF Adds
  <2> HIDE DEF st, s, a, v, t
  <2>6. Place(f, m) - 1 = a + 5 + Len(v) /\ a + 5 + Len(v) \in 1 .. Len(t)
    <3>1. a \in Nat /\ Len(v) \in Nat /\ Len(s) = a + 4 + Len(v)
      BY <1>1, <1>3
    <3>2. Place(f, m) = a + 6 + Len(v)
      BY <2>3, <3>1
    <3> DEFINE p == Place(f, m)  l == Len(params[m].value)
    <3>3. Len(t) = p + 4 + l /\ l \in Nat /\ p = a + 6 + Len(v)
      BY <2>5, <3>2
    <3> HIDE DEF p, l
    <3>4. p - 1 = a + 5 + Len(v) /\ a + 5 + Len(v) \in 1 .. Len(t)
      BY <3>1, <3>3
    <3> QED
      BY <3>4 DEF p
  <2>7. Len(t) \in Nat /\ Len(st) \in Nat /\ Len(s) + 2 = a + 6 + Len(v)
    BY <1>1, <1>2, <1>3, <2>2
  <2>8. a + 5 + Len(v) \in 1 .. Len(st)
    BY <2>2, <2>6, <2>7
  <2> QED
    BY <2>2, <2>3, <2>5, <2>6, <2>7, <2>8 DEF m
<1>7. n = N => Len(st) = a + 4 + Len(v)
  BY <1>3
<1> HIDE DEF st, s, key, v, a, c
<1>8. /\ st[a + 1] = key /\ st[a + 2] = "=" /\ st[a + 3] = "quote"
      /\ st[a + 4 + Len(v)] = "quote" /\ a + 4 + Len(v) <= Len(st)
      /\ \A i \in 1 .. Len(v) : st[a + 3 + i] = v[i]
      /\ c = a => st[a] = "sp"
  <2>1. /\ a + 1 \in 1 .. Len(s) /\ a + 2 \in 1 .. Len(s) /\ a + 3 \in 1 .. Len(s)
        /\ a + 4 + Len(v) \in 1 .. Len(s)
        /\ \A i \in 1 .. Len(v) : a + 3 + i \in 1 .. Len(s)
        /\ a # 0 => a \in 1 .. Len(s)
    BY <1>1, <1>3
  <2>2. \A i \in 1 .. Len(v) : st[a + 3 + i] = v[i]
    BY <1>2, <1>3, <2>1
  <2>3. a + 4 + Len(v) <= Len(st) /\ (c = a => st[a] = "sp")
    BY <1>2, <1>3, <1>4, <1>5, <2>1
  <2>4. /\ st[a + 1] = key /\ st[a + 2] = "=" /\ st[a + 3] = "quote"
        /\ st[a + 4 + Len(v)] = "quote"
    BY <1>2, <1>3, <2>1
  <2> QED
    BY <2>2, <2>3, <2>4
<1>9. c \in Nat \ {0} /\ (c = a \/ c = a + 1) /\ c \in 1 .. Len(st) + 1 /\ Len(st) \in Nat
  BY <1>1, <1>2, <1>3, <1>4, <1>5
<1>10. RoundsAt(st, c, key, v, a + 4 + Len(v))
  BY <1>1, <1>2, <1>3, <1>8, <1>9, RoundIs
<1>11. n < N => Len(st) > a + 4 + Len(v)
  BY <1>1, <1>3, <1>6, <1>9
<1> QED
  <2>1. a + 4 + Len(v) + 1 = a + 5 + Len(v) /\ a + 4 + Len(v) + 2 = a + 6 + Len(v)
    BY <1>1, <1>3
  <2>2. /\ n = N => Assignment(st, c) = Round("last", <<key>>, v, 0)
        /\ n < N => Assignment(st, c) = Round("more", <<key>>, v, Cursor(f, n + 1))
    BY <1>6, <1>7, <1>10, <1>11, <2>1 DEF RoundsAt
  <2> QED
    BY <1>9, <2>2 DEF st, key, v, c

\* What the parameters from the n-th on say, the last one of a key counting.
Means(params, N, n, r) ==
  /\ r.kind = "ok"
  /\ DOMAIN r.map = {<<params[k].key>> : k \in n .. N}
  /\ \A k \in n .. N :
       (\A l \in k + 1 .. N : params[l].key # params[k].key) =>
         r.map[<<params[k].key>>] = params[k].value

\* A parameter before those that have been read.
LEMMA OnwardMeans ==
  ASSUME NEW params, NEW N \in Nat, NEW n \in 1 .. N, n < N,
         NEW rest, Means(params, N, n + 1, rest), NEW next
  PROVE  Means(params, N, n, Onward(Round("more", <<params[n].key>>, params[n].value, next), rest))
<1> DEFINE key == <<params[n].key>>
           dom == DOMAIN rest.map \union {key}
           map == [k \in dom |-> IF k \in DOMAIN rest.map THEN rest.map[k] ELSE params[n].value]
           r == Onward(Round("more", key, params[n].value, next), rest)
<1>1. r = [kind |-> "ok", map |-> map]
  BY DEF Onward, Round, Means
<1>2. r.kind = "ok" /\ r.map = map
  BY <1>1
<1>3. \A k \in n .. N : k = n \/ k \in n + 1 .. N
  OBVIOUS
<1>4. DOMAIN map = {<<params[k].key>> : k \in n .. N}
  <2>1. DOMAIN map = dom
    OBVIOUS
  <2>2. n \in n .. N /\ \A k \in n + 1 .. N : k \in n .. N
    OBVIOUS
  <2> HIDE DEF map
  <2> QED
    BY <1>3, <2>1, <2>2 DEF Means
<1>5. ASSUME NEW k \in n .. N, \A l \in k + 1 .. N : params[l].key # params[k].key
      PROVE  map[<<params[k].key>>] = params[k].value
  <2> DEFINE word == <<params[k].key>>
  <2>1. word \in dom
    BY <1>4
  <2>2. map[word] = IF word \in DOMAIN rest.map THEN rest.map[word] ELSE params[n].value
    BY <2>1
  <2>3. CASE k = n
    <3>1. word \notin DOMAIN rest.map
      BY <1>5, <2>3 DEF Means
    <3> QED
      BY <2>2, <2>3, <3>1
  <2>4. CASE k # n
    <3>1. k \in n + 1 .. N
      BY <1>3, <2>4
    <3>2. word \in DOMAIN rest.map /\ rest.map[word] = params[k].value
      BY <1>5, <3>1 DEF Means
    <3> QED
      BY <2>2, <3>2
  <2> QED
    BY <2>3, <2>4
<1> HIDE DEF map
<1> QED
  BY <1>2, <1>4, <1>5 DEF Means

\* A header of quoted parameters is parsed to what they say.
LEMMA HeaderParsed ==
  ASSUME NEW V, "comma" \in V, "sp" \in V, "=" \in V, "quote" \in V,
         NEW params, NEW f, NEW N \in Nat \ {0}, Writes(V, params, f, N)
  PROVE  Means(params, N, 1, ParseAssignments(f[N]))
<1> DEFINE st == f[N]
<1>1. st \in Seq(V)
  BY WrittenGrows
<1>2. PICK g : /\ ParseAssignments(st) = g[1]
               /\ \A cursor \in 1 .. Len(st) + 1 : g[cursor] = Returned(st, cursor, g)
  <2> HIDE DEF st
  <2> QED
    BY <1>1, ParsingIs
<1> DEFINE Good(n) == Means(params, N, n, g[Cursor(f, n)])
           Bad == {k \in 0 .. N - 1 : ~Good(N - k)}
<1>3. SUFFICES Bad = {}
  <2>1. N - 1 \in 0 .. N - 1 /\ N - (N - 1) = 1
    OBVIOUS
  <2>2. Good(1)
    BY <1>3, <2>1
  <2> QED
    BY <1>2, <2>2 DEF Cursor
<1>4. SUFFICES ASSUME Bad # {} PROVE FALSE
  OBVIOUS
<1>5. Bad \in SUBSET Nat
  OBVIOUS
<1>6. PICK k \in Bad : \A m \in Bad : k <= m
  BY <1>4, <1>5, LeastNumber
<1> DEFINE n == N - k
<1>7. k \in 0 .. N - 1 /\ ~Good(n)
  BY <1>6
<1>8. n \in 1 .. N
  BY <1>7
<1>9. /\ Cursor(f, n) \in 1 .. Len(st) + 1
      /\ n = N => Assignment(st, Cursor(f, n)) = Round("last", <<params[n].key>>, params[n].value, 0)
      /\ n < N => Assignment(st, Cursor(f, n))
                    = Round("more", <<params[n].key>>, params[n].value, Cursor(f, n + 1))
  <2> HIDE DEF n
  <2> QED
    BY <1>8, RoundOf
<1>10. g[Cursor(f, n)] = Returned(st, Cursor(f, n), g)
  BY <1>2, <1>9
<1>11. n = N => Good(n)
  <2> SUFFICES ASSUME n = N PROVE Good(n)
    OBVIOUS
  <2>1. g[Cursor(f, n)] = [kind |-> "ok", map |-> [w \in {<<params[n].key>>} |-> params[n].value]]
    BY <1>9, <1>10 DEF Returned, Ending, Round
  <2>2. \A l \in n .. N : l = n
    BY <1>8
  <2>3. n \in n .. N
    BY <1>8
  <2> HIDE DEF n
  <2> QED
    BY <2>1, <2>2, <2>3 DEF Means
<1>12. n < N => Good(n)
  <2> SUFFICES ASSUME n < N PROVE Good(n)
    OBVIOUS
  <2>1. Good(n + 1)
    <3>1. k - 1 \in 0 .. N - 1 /\ N - (k - 1) = n + 1 /\ ~(k <= k - 1)
      BY <1>7
    <3>2. k - 1 \notin Bad
      <4> HIDE DEF Bad
      <4> QED
        BY <1>6, <3>1
    <3> QED
      BY <3>1, <3>2
  <2>2. g[Cursor(f, n)]
          = Onward(Round("more", <<params[n].key>>, params[n].value, Cursor(f, n + 1)),
                   g[Cursor(f, n + 1)])
    BY <1>9, <1>10 DEF Returned, Round
  <2> HIDE DEF n
  <2> QED
    BY <1>8, <2>1, <2>2, OnwardMeans
<1> QED
  BY <1>7, <1>8, <1>11, <1>12

\* Of a set of numbers up to N the last.
LEMMA LastOf ==
  ASSUME NEW N \in Nat, NEW S \in SUBSET (1 .. N), S # {}
  PROVE  \E m \in S : \A n \in S : n <= m
<1> DEFINE T == {N - n : n \in S}
<1>1. T \in SUBSET Nat /\ T # {}
  <2>1. \A n \in S : n \in Nat /\ N - n \in Nat
    OBVIOUS
  <2> QED
    BY <2>1
<1>2. PICK t \in T : \A u \in T : t <= u
  BY <1>1, LeastNumber
<1>3. PICK m \in S : t = N - m
  BY <1>2
<1>4. ASSUME NEW n \in S PROVE n <= m
  <2>1. N - n \in T
    OBVIOUS
  <2>2. N - m <= N - n
    BY <1>2, <1>3, <2>1
  <2>3. m \in 1 .. N /\ n \in 1 .. N
    OBVIOUS
  <2> HIDE DEF T
  <2> QED
    BY <2>2, <2>3
<1> QED
  BY <1>3, <1>4

\* And the value of a key is what was offered for it.
LEMMA ValueOffered ==
  ASSUME NEW params, NEW N \in Nat, DOMAIN params = 1 .. N, NEW key,
         NEW r, Means(params, N, 1, r)
  PROVE  ValueOf(r.map, key) = Offered(params, key)
<1> DEFINE S == {n \in DOMAIN params : params[n].key = key}
<1>1. S \in SUBSET (1 .. N)
  OBVIOUS
<1>2. CASE S = {}
  <2>1. <<key>> \notin DOMAIN r.map
    BY <1>2 DEF Means
  <2> QED
    BY <1>2, <2>1 DEF ValueOf, Offered
<1>3. CASE S # {}
  <2>1. PICK m \in S : \A n \in S : n <= m
    BY <1>1, <1>3, LastOf
  <2>2. m \in 1 .. N /\ params[m].key = key
    BY <1>1
  <2>3. (CHOOSE m0 \in S : \A n \in S : n <= m0) = m
    <3>1. ASSUME NEW m0 \in S, \A n \in S : n <= m0 PROVE m0 = m
      <4>1. m0 <= m /\ m <= m0 /\ m0 \in 1 .. N /\ m \in 1 .. N
        BY <1>1, <2>1, <3>1
      <4> QED
        BY <4>1
    <3> HIDE DEF S
    <3> QED
      BY <2>1, <3>1
  <2>4. Offered(params, key) = params[m].value
    <3>1. Offered(params, key) = params[CHOOSE m0 \in S : \A n \in S : m0 >= n].value
      BY <1>3 DEF Offered
    <3>2. \A m0 \in S : (\A n \in S : m0 >= n) <=> (\A n \in S : n <= m0)
      BY <1>1
    <3>3. (CHOOSE m0 \in S : \A n \in S : m0 >= n) = (CHOOSE m0 \in S : \A n \in S : n <= m0)
      <4> HIDE DEF S
      <4> QED
        BY <3>2
    <3> HIDE DEF S
    <3> QED
      BY <2>3, <3>1, <3>3
  <2>5. \A l \in m + 1 .. N : params[l].key # params[m].key
    <3> SUFFICES ASSUME NEW l \in m + 1 .. N, params[l].key = key PROVE FALSE
      BY <2>2
    <3>1. l \in S /\ ~(l <= m)
      BY <2>2
    <3> HIDE DEF S
    <3> QED
      BY <2>1, <3>1
  <2>6. <<key>> \in DOMAIN r.map /\ r.map[<<key>>] = params[m].value
    BY <2>2, <2>5 DEF Means
  <2> QED
    BY <2>4, <2>6 DEF ValueOf
<1> QED
  BY <1>2, <1>3

\* What is made of a challenge that quotes its values.
Understood(params, got) ==
  LET service == Offered(params, "service")
      realm   == Offered(params, "realm")
  IN  IF service = <<>> \/ realm = <<>> THEN got.kind # "ok"
      ELSE got = [kind |-> "ok", service |-> service, realm |-> realm]

\* A sequence of some things is one of more things.
LEMMA SeqOfMore ==
  ASSUME NEW S, NEW T, S \subseteq T, NEW st \in Seq(S)
  PROVE  st \in Seq(T)
  OBVIOUS

\* A challenge that quotes its values is understood as it was written.
LEMMA QuotedIsUnderstood ==
  ASSUME NEW params \in Offers, params # <<>>, \A n \in DOMAIN params : params[n].quoted,
         NEW answer, answer.status = 401,
         answer.headers = <<[scheme |-> "bearer", space |-> TRUE, rest |-> Header(params)]>>
  PROVE  Understood(params, ReceiveChallenge(answer))
<1> DEFINE N == Len(params)
           V == STRING \union {"=", "comma", "sp", "quote"}
           P == [key : STRING \ {"=", "comma", "sp", "quote"}, quoted : BOOLEAN, value : Seq(STRING)]
           parsed == ParseAssignments(Header(params))
<1>1. /\ params \in Seq(P)
      /\ \A n \in DOMAIN params : \A i \in DOMAIN params[n].value : params[n].value[i] # "quote"
  BY AzureUpAssumption
<1>2. N \in Nat \ {0} /\ DOMAIN params = 1 .. N
  <2> HIDE DEF P
  <2> QED
    BY <1>1
<1>3. PICK f : /\ Header(params) = f[N]
               /\ f[0] = <<>>
               /\ \A n \in 1 .. N : f[n] = Begun(f, n) \o Written(params[n])
  <2>1. P \subseteq Parameters
    BY DEF Parameters
  <2>2. params \in Seq(Parameters)
    <3> HIDE DEF P
    <3> QED
      BY <1>1, <2>1, SeqOfMore
  <2> QED
    BY <2>2, HeaderIs
<1>4. ASSUME NEW n \in 1 .. N
      PROVE  /\ params[n].quoted /\ params[n].key \in V /\ params[n].value \in Seq(V)
             /\ params[n].key # "=" /\ params[n].key # "sp"
             /\ \A i \in 1 .. Len(params[n].value) : params[n].value[i] # "quote"
  <2>1. params[n] \in P
    <3> HIDE DEF P
    <3> QED
      BY <1>1, <1>2
  <2>2. /\ params[n].key \in STRING /\ params[n].key # "=" /\ params[n].key # "sp"
        /\ params[n].value \in Seq(STRING)
    BY <2>1
  <2>3. DOMAIN params[n].value = 1 .. Len(params[n].value)
    BY <2>2
  <2>4. params[n].key \in V /\ params[n].value \in Seq(V)
    <3>1. STRING \subseteq V
      OBVIOUS
    <3> HIDE DEF V
    <3>2. params[n].key \in V
      BY <2>2, <3>1
    <3>3. \A st \in Seq(STRING) : st \in Seq(V)
      BY <3>1, SeqOfMore
    <3> QED
      BY <2>2, <3>2, <3>3
  <2>5. params[n].quoted /\ \A i \in DOMAIN params[n].value : params[n].value[i] # "quote"
    <3> HIDE DEF N, P
    <3> QED
      BY <1>1, <1>2
  <2> QED
    BY <2>2, <2>3, <2>4, <2>5
<1>5. Writes(V, params, f, N)
  <2> HIDE DEF V
  <2> QED
    BY <1>3, <1>4 DEF Writes
<1>6. Means(params, N, 1, parsed)
  <2>1. "comma" \in V /\ "sp" \in V /\ "=" \in V /\ "quote" \in V
    OBVIOUS
  <2>2. parsed = ParseAssignments(f[N])
    BY <1>3
  <2> HIDE DEF N, V, parsed
  <2>3. Means(params, N, 1, ParseAssignments(f[N]))
    BY <1>2, <1>5, <2>1, HeaderParsed
  <2> QED
    BY <2>2, <2>3
<1>7. \A key : ValueOf(parsed.map, key) = Offered(params, key)
  <2>1. N \in Nat
    BY <1>2
  <2> HIDE DEF N, parsed
  <2> QED
    BY <1>2, <1>6, <2>1, ValueOffered
<1>8. parsed.kind = "ok"
  BY <1>6 DEF Means
<1> DEFINE header == answer.headers[1]
<1>9. /\ Len(answer.headers) = 1
      /\ header.scheme = "bearer" /\ header.space /\ ParseAssignments(header.rest) = parsed
  OBVIOUS
<1> HIDE DEF header, parsed, N
<1> QED
  BY <1>7, <1>8, <1>9 DEF ReceiveChallenge, Understood, header, Refused

\* Only the two halves of AuthToken touch the challenge and the directive.
LEMMA StepsOfOffer ==
  ASSUME [Next]_vars
  PROVE  UNCHANGED <<offer, directive>> \/ offer' = NoOffer \/ Challenge
<1>1. CASE UpStep
  <2>1. CASE NewAppContext \/ BuildReturned \/ Push \/ ReleaseComplete \/ SaveState
    BY <2>1 DEF NewAppContext, BuildReturned, Push, ReleaseComplete, SaveState, authVars
  <2>2. CASE ReleaseStart \/ ReleaseAnnounce \/ ReleaseStatus \/ ReleaseNotes
    BY <2>2 DEF ReleaseStart, ReleaseAnnounce, ReleaseStatus, ReleaseNotes, ReleaseSays, authVars
  <2>3. CASE Namespace \/ PullSecret \/ Helm
    BY <2>3 DEF Namespace, PullSecret, Helm, KubeRequest, authVars
  <2>4. CASE Exchange
    BY <2>4 DEF Exchange
  <2> QED
    BY <1>1, <2>1, <2>2, <2>3, <2>4 DEF UpStep
<1>2. CASE (CallerStep /\ UNCHANGED upVars) \/ (WorkerStep /\ UNCHANGED <<out, upVars>>)
           \/ (RemoteStep /\ UNCHANGED <<out, upVars>>)
  BY <1>2 DEF upVars, authVars
<1>3. CASE CloseStream \/ Receive \/ Exit \/ Crash \/ UNCHANGED vars
  BY <1>3 DEF CloseStream, Receive, Exit, Crash, vars, upVars, authVars
<1> QED
  BY <1>1, <1>2, <1>3, Steps

\* The answer of a registry that offers some parameters.
Heard(params, status, scheme) ==
  [status |-> status,
   headers |-> <<[scheme |-> scheme, space |-> params # <<>>, rest |-> Header(params)]>>]

\* Whatever commas, repeated keys and empty values a challenge has that quotes
\* its values, it is understood as it was written, and refused only for want of
\* a service or a realm.
THEOREM AzureChallengeUnderstood == Spec => []QuotedChallengeUnderstood
<1> DEFINE Kept == offer # NoOffer /\ (\A n \in DOMAIN offer : offer[n].quoted) =>
                     directive = IF Offered(offer, "service") = <<>> \/ Offered(offer, "realm") = <<>>
                                 THEN Refused
                                 ELSE [kind |-> "ok", service |-> Offered(offer, "service"),
                                       realm |-> Offered(offer, "realm")]
<1>1. Init => Kept
  BY DEF Init, NoOffer
<1>2. Kept /\ [Next]_vars => Kept'
  <2> SUFFICES ASSUME Kept, [Next]_vars PROVE Kept'
    OBVIOUS
  <2>1. CASE UNCHANGED <<offer, directive>>
    BY <2>1
  <2>2. CASE offer' = NoOffer
    BY <2>2
  <2>3. ASSUME Challenge, ~UNCHANGED <<offer, directive>> PROVE Kept'
    <3>1. PICK params \in Offers, status \in {200, 401}, scheme \in {"bearer", "basic"} :
            /\ offer' = IF status = 401 /\ scheme = "bearer" THEN params ELSE NoOffer
            /\ Challenged(ReceiveChallenge(Heard(params, status, scheme)))
      BY <2>3 DEF Challenge, Heard
    <3> DEFINE answer == Heard(params, status, scheme)
               got == ReceiveChallenge(answer)
    <3>2. SUFFICES ASSUME offer' # NoOffer, \A n \in DOMAIN params : params[n].quoted
                   PROVE  Kept'
      BY <3>1
    <3>3. /\ offer' = params /\ params # <<>> /\ status = 401 /\ scheme = "bearer"
          /\ directive' = IF got.kind = "ok" THEN got ELSE Refused
      BY <3>1, <3>2 DEF Challenged, NoOffer
    <3>4. /\ answer.status = 401
          /\ answer.headers = <<[scheme |-> "bearer", space |-> TRUE, rest |-> Header(params)]>>
      BY <3>3 DEF Heard
    <3> HIDE DEF answer
    <3>5. Understood(params, got)
      BY <3>2, <3>3, <3>4, QuotedIsUnderstood
    <3> HIDE DEF got
    <3> QED
      BY <3>3, <3>5 DEF Understood
  <2> QED
    BY <2>1, <2>2, <2>3, StepsOfOffer
<1>3. Kept => QuotedChallengeUnderstood
  BY DEF QuotedChallengeUnderstood
<1> QED
  BY <1>1, <1>2, <1>3, PTL DEF Spec
=============================================================================
