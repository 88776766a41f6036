------------------------------ MODULE BuilderUp ------------------------------
(***************************************************************************)
(* Builder.Up (pkg/builder/builder.go) with the docker container builder:  *)
(* one goroutine runs newAppContext, Build, Push and release and, on its   *)
(* way out, saveState; a second one waits for it and closes the channel.   *)
(* Summaries are received by cmdline.Display, which here only takes them   *)
(* off the channel and remembers what it was told of each stage.           *)
(***************************************************************************)
EXTENDS DockerBuild, DockerPush

VARIABLES
  upc,          \* where Up's goroutine is
  rerr,         \* the named result err of release
  objRelease,   \* app.Obj.Release has been set
  stored,       \* the outcome of Storage.UpdateBuild in saveState
  logOpen,      \* app.Log is open
  closed,       \* Up's channel has been closed
  shown,        \* stage |-> the last state of it the receiver was told
  proc          \* "running", "exited", or "crashed" by a panic

upVars == <<upc, rerr, objRelease, stored, logOpen, closed, shown, proc>>
vars == <<registry, out, buildVars, pushVars, upVars>>

Init ==
  /\ registry \in BOOLEAN
  /\ out = <<>> /\ InitBuild /\ InitPush
  /\ upc = "new_context" /\ rerr = "nil" /\ objRelease = FALSE
  /\ stored = "none" /\ logOpen = FALSE /\ closed = FALSE
  /\ shown = [s \in Stages |-> "none"]
  /\ proc = "running"

-----------------------------------------------------------------------------
(* Up's goroutine.                                                         *)

\* newAppContext opens the log last.  If it fails, app is still nil when the
\* deferred saveState dereferences it: the process panics.
NewAppContext ==
  /\ upc = "new_context"
  /\ \/ /\ upc' = "build" /\ bpc' = "start" /\ logOpen' = TRUE
        /\ UNCHANGED proc
     \/ /\ "context" \in Faults
        /\ proc' = "crashed"
        /\ UNCHANGED <<upc, bpc, logOpen>>
  /\ UNCHANGED <<out, bworker, bclosed, bnil, berr, pushVars,
                 rerr, objRelease, stored, closed, shown>>

\* `if err = b.ContainerBuilder.Build(...); err != nil { return }`

BuildReturned ==
  /\ upc = "build" /\ bpc = "returned"
  /\ IF berr = "nil" THEN upc' = "push" /\ ppc' = "start"
                     ELSE upc' = "save" /\ UNCHANGED ppc
  /\ UNCHANGED <<out, buildVars, starter, pusher, errc, pclosed, pnil, perr,
                 rerr, objRelease, stored, logOpen, closed, shown, proc>>

\* A mutant of PushReturned: Up goes on whatever Push returned.
PushErrorIgnored ==
  /\ upc = "push" /\ ppc = "returned"
  /\ upc' = "release"
  /\ UNCHANGED <<out, buildVars, pushVars,
                 rerr, objRelease, stored, logOpen, closed, shown, proc>>

\* `if err = b.ContainerBuilder.Push(...); err != nil { return }`

PushReturned ==
  /\ upc = "push" /\ ppc = "returned"
  /\ upc' = IF perr = "nil" THEN "release" ELSE "save"
  /\ UNCHANGED <<out, buildVars, pushVars,
                 rerr, objRelease, stored, logOpen, closed, shown, proc>>

\* A step of release that writes one summary and goes on to a state of tos.
ReleaseSays(from, code, tos) ==
  /\ upc = from /\ Summarize("release", code)
  /\ upc' \in tos
  /\ UNCHANGED <<buildVars, pushVars,
                 rerr, objRelease, stored, logOpen, closed, shown, proc>>

ReleaseStart == ReleaseSays("release", "started", {"prepare"})

\* prepareReleaseEnvironment, called only if a registry is configured.
ReleasePrepare ==
  /\ upc = "prepare"
  /\ \/ upc' = "announce" /\ UNCHANGED rerr
     \/ /\ registry /\ "prepare" \in Faults
        /\ rerr' = "err" /\ upc' = "release_complete"
  /\ UNCHANGED <<out, buildVars, pushVars,
                 objRelease, stored, logOpen, closed, shown, proc>>

\* After Helm.ReleaseContent: "... Installing it now." or "Upgrading ...".
ReleaseAnnounce == ReleaseSays("announce", "logging", {"helm"})

\* A mutant of ReleaseHelm: app.Obj.Release is set before err is looked at.
ReleaseRecordedAnyway ==
  /\ upc = "helm"
  /\ \/ upc' = "status" /\ UNCHANGED rerr
     \/ /\ "helm" \in Faults
        /\ rerr' = "err" /\ upc' = "release_complete"
  /\ objRelease' = TRUE
  /\ UNCHANGED <<out, buildVars, pushVars, stored, logOpen, closed, shown, proc>>

\* InstallReleaseFromChart or UpdateReleaseFromChart.
ReleaseHelm ==
  /\ upc = "helm"
  /\ \/ upc' = "status" /\ objRelease' = TRUE /\ UNCHANGED rerr
     \/ /\ "helm" \in Faults
        /\ rerr' = "err" /\ upc' = "release_complete" /\ UNCHANGED objRelease
  /\ UNCHANGED <<out, buildVars, pushVars, stored, logOpen, closed, shown, proc>>

\* formatReleaseStatus: the status, then the notes if there are any.
ReleaseStatus == ReleaseSays("status", "logging", {"notes", "release_complete"})
ReleaseNotes  == ReleaseSays("notes", "logging", {"release_complete"})

ReleaseComplete ==
  /\ upc = "release_complete"
  /\ Complete("release", rerr)
  /\ upc' = "save"
  /\ UNCHANGED <<buildVars, pushVars,
                 rerr, objRelease, stored, logOpen, closed, shown, proc>>

\* The deferred saveState and wg.Done.  If UpdateBuild fails, saveState
\* returns before it closes the log.
SaveState ==
  /\ upc = "save"
  /\ \/ /\ stored' = IF objRelease THEN "released" ELSE "unreleased"
        /\ logOpen' = FALSE
     \/ /\ "storage" \in Faults
        /\ stored' = "lost" /\ UNCHANGED logOpen
  /\ upc' = "done"
  /\ UNCHANGED <<out, buildVars, pushVars, rerr, objRelease, closed, shown, proc>>

UpStep ==
  \/ NewAppContext \/ BuildReturned \/ PushReturned
  \/ ReleaseStart \/ ReleasePrepare \/ ReleaseAnnounce \/ ReleaseHelm
  \/ ReleaseStatus \/ ReleaseNotes \/ ReleaseComplete \/ SaveState

-----------------------------------------------------------------------------
(* The other goroutines and the process.                                   *)

\* wg.Wait(); close(ch)
CloseStream ==
  /\ upc = "done" /\ ~closed
  /\ closed' = TRUE
  /\ UNCHANGED <<out, buildVars, pushVars,
                 upc, rerr, objRelease, stored, logOpen, shown, proc>>

\* The receiver takes the next summary.
Receive ==
  /\ out # <<>>
  /\ out' = Tail(out)
  /\ LET s == Head(out) IN
       shown' = IF s.code \in {"ongoing", "logging"} THEN shown
                ELSE [shown EXCEPT ![s.stage] = s.code]
  /\ UNCHANGED <<buildVars, pushVars,
                 upc, rerr, objRelease, stored, logOpen, closed, proc>>

\* The range over the channel has ended: the command returns, and pushers
\* that are still running die with the process.
Exit ==
  /\ closed /\ out = <<>>
  /\ proc' = "exited"
  /\ UNCHANGED <<out, buildVars, pushVars,
                 upc, rerr, objRelease, stored, logOpen, closed, shown>>

\* The panic of a pusher ends the process.
Crash ==
  /\ \E i \in Images : pusher[i] = "panicking"
  /\ proc' = "crashed"
  /\ UNCHANGED <<out, buildVars, pushVars,
                 upc, rerr, objRelease, stored, logOpen, closed, shown>>

BuildCallerStep  == CallerStep /\ UNCHANGED <<pushVars, upVars>>
BuildWorkerStep  == WorkerStep /\ UNCHANGED <<pushVars, upVars>>
PushCaller       == PushCallerStep /\ UNCHANGED <<buildVars, upVars>>
PushStarter      == StarterStep /\ UNCHANGED <<buildVars, upVars>>
PushPusher(i)    == PusherStep(i) /\ UNCHANGED <<buildVars, upVars>>

Running(A) == proc = "running" /\ A /\ UNCHANGED registry

Stopped == proc # "running" /\ UNCHANGED vars

Next ==
  \/ Running(UpStep) \/ Running(BuildCallerStep) \/ Running(PushCaller)
  \/ Running(BuildWorkerStep) \/ Running(PushStarter)
  \/ Running(\E i \in Images : PushPusher(i))
  \/ Running(CloseStream) \/ Running(Receive) \/ Running(Exit) \/ Running(Crash)
  \/ Stopped

\* Every goroutine that can run is scheduled, the calls it makes to docker,
\* to helm and to the store return, and the receiver keeps receiving.
Fairness ==
  /\ WF_vars(Running(UpStep \/ BuildCallerStep \/ PushCaller))
  /\ WF_vars(Running(BuildWorkerStep))
  /\ WF_vars(Running(PushStarter))
  /\ \A i \in Images : WF_vars(Running(PushPusher(i)))
  /\ WF_vars(Running(CloseStream)) /\ WF_vars(Running(Receive))
  /\ WF_vars(Running(Crash))

Spec == Init /\ [][Next]_vars
FairSpec == Spec /\ Fairness

-----------------------------------------------------------------------------
(* Properties.                                                             *)

\* The type invariant: every variable stays in its range.
TypeOK ==
  /\ registry \in BOOLEAN
  /\ TypeOKStream /\ TypeOKBuild /\ TypeOKPush
  /\ upc \in {"new_context", "build", "push", "release", "prepare", "announce", "helm",
              "status", "notes", "release_complete", "save", "done"}
  /\ rerr \in Errors
  /\ objRelease \in BOOLEAN /\ logOpen \in BOOLEAN /\ closed \in BOOLEAN
  /\ stored \in {"none", "released", "unreleased", "lost"}
  /\ shown \in [Stages -> {"none", "started", "success", "failure"}]
  /\ proc \in {"running", "exited", "crashed"}

\* The release is installed or upgraded only with every image in the
\* registry, unless a pusher's panic is about to end the process: Push
\* returns nil only after wg.Wait.
ReleaseAfterPush ==
  objRelease /\ registry =>
    \A i \in Images : pusher[i] = "pushed" \/ \E j \in Images : pusher[j] = "panicking"

\* An error that a pusher managed to send is never swallowed: Push cannot
\* return nil, since a closed errc reports !ok only once it is drained.
PushErrorSurfaces ==
  ppc = "returned" /\ perr = "nil" => \A i \in Images : pusher[i] # "failed"

\* The build history agrees with what the user was told of the release:
\* Obj.Release is stored iff the release stage reports success.
HistoryAgreesWithStream ==
  closed /\ out = <<>> /\ stored # "lost" =>
    (stored = "released" <=> shown["release"] = "success")

\* Up is an implementation of the stages it promises.
StageResult(s) ==
  CASE s = "build" ->
         IF bpc \in {"idle", "start"} THEN "none"
         ELSE IF bpc # "returned" THEN "running"
         ELSE IF berr = "nil" THEN "ok" ELSE "failed"
    [] s = "push" ->
         IF ppc \in {"idle", "start"} \/ ~registry THEN "none"
         ELSE IF ppc # "returned" THEN "running"
         ELSE IF perr = "nil" THEN "ok" ELSE "failed"
    [] s = "release" ->
         IF upc \in {"prepare", "announce", "helm", "status", "notes", "release_complete"}
         THEN "running"
         ELSE IF upc \notin {"save", "done"} THEN "none"
         ELSE IF rerr = "err" THEN "failed"
         ELSE IF objRelease THEN "ok" ELSE "none"

UpPromise == INSTANCE UpStages
  WITH result <- [s \in Stages |-> StageResult(s)], recorded <- stored, ended <- closed

ImplementsStages == UpPromise!Spec

\* The stream is one that Display is made for: the receiver sees each stage
\* as a bracket, "started" first and once, one "success" or "failure" last,
\* nothing of another stage in between; nothing is written to the channel
\* after it is closed, and it is closed with no stage open (Summarize,
\* Complete deferred before the first summary, wg.Wait before close).  A
\* stage has told what the receiver was told of it and what is in the channel.
Told(s) ==
  LET codes == {IF out[n].code = "logging" THEN "ongoing" ELSE out[n].code :
                  n \in {k \in DOMAIN out : out[k].stage = s}} \union {shown[s]}
  IN  IF "failure" \in codes THEN "failure"
      ELSE IF "success" \in codes THEN "success"
      ELSE IF "started" \in codes THEN "open" ELSE "none"

Feed == INSTANCE StageSender
  WITH Echoed <- {}, inClosed <- closed, sent <- [s \in Stages |-> Told(s)],
       in <- [n \in DOMAIN out |->
                IF out[n].code = "logging" THEN [out[n] EXCEPT !.code = "ongoing"] ELSE out[n]]

FeedsDisplay == Feed!SenderSpec

\* The build's worker left without an auth token: nothing sent, nothing closed.
AuthLost == bworker = "gone" /\ bclosed = {} /\ berr = "nil"

\* Every `draft up` comes to an end: the stream is closed, or a panic ended
\* the process.  The one way to hang is AuthLost, against which StageEnds is
\* checked: no other failure makes the polling loops, the sends that block
\* and the wait group wait for each other.
StreamEnds == <>(closed \/ proc = "crashed" \/ AuthLost)

\* "Complete marks the end of a draft build stage": of a stage that has
\* started the receiver is eventually told how it ended.
StageEnds == \A s \in Stages : shown[s] = "started" ~> shown[s] # "started"
=============================================================================
