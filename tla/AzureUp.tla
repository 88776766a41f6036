------------------------------- MODULE AzureUp -------------------------------
(***************************************************************************)
(* Builder.Up with the azure container builder: the build made by the      *)
(* registry's own service, a Push that only completes the build stage a    *)
(* second time, and a release that is preceded by the token exchange with  *)
(* the registry.  The requests to Kubernetes around that exchange are      *)
(* those of module ReleaseStage; here they succeed or fail.                *)
(***************************************************************************)
EXTENDS AzureBuild, RegistryChallenge

CONSTANTS
  Inputs,       \* the [settings, context] that `draft up` may have loaded
  Offers        \* the challenges a registry may send: sequences of parameters

\* Of the values of draft.toml only those of the image are kept.  A key of a
\* challenge is a word, and a quoted value has no quote in it: the parser knows
\* of no escapes.
ASSUME AzureUpAssumption ==
  /\ \A i \in Inputs : DOMAIN i.settings.values \subseteq {"registry", "name", "tag"}
  /\ Offers \subseteq Seq([key : STRING \ {"=", "comma", "sp", "quote"},
                           quoted : BOOLEAN, value : Seq(STRING)])
  /\ \A params \in Offers : \A n \in DOMAIN params :
       params[n].quoted => \A i \in DOMAIN params[n].value : params[n].value[i] # "quote"

VARIABLES
  upc,          \* where Up's goroutine is
  offer,        \* history: the parameters of the registry's challenge, until the exchange
  directive,    \* what ReceiveChallenge made of them
  token,        \* the token that was exchanged, or "none"
  rerr,         \* the named result err of release
  deployed,     \* the image that the release deploys, if Obj.Release is set
  stored,       \* the outcome of Storage.UpdateBuild in saveState
  closed,       \* Up's channel has been closed
  shown,        \* stage |-> the last state of it the receiver was told
  proc          \* "running", "panicking" while Up's goroutine runs its deferred calls,
                \* "exited", or "crashed" by a panic

authVars == <<offer, directive, token>>
upVars == <<upc, authVars, rerr, deployed, stored, closed, shown, proc>>
vars == <<inputVars, out, buildVars, upVars>>

NoOffer == <<>>

\* upCmd.run has chosen the azure builder.
Init ==
  /\ \E i \in Inputs : settings = i.settings /\ context = i.context
  /\ settings.builder = "acrbuild"
  /\ out = <<>> /\ InitBuild
  /\ upc = "new_context" /\ rerr = "nil" /\ deployed = {}
  /\ offer = NoOffer /\ directive = Refused /\ token = "none"
  /\ stored = "none" /\ closed = FALSE
  /\ shown = [s \in Stages |-> "none"]
  /\ proc = "running"

-----------------------------------------------------------------------------
(* Up's goroutine.                                                         *)

UpGoes(from, to) == upc = from /\ upc' = to

\* newAppContext; without it the deferred saveState dereferences nil, before
\* wg.Done.
NewAppContext ==
  /\ \/ UpGoes("new_context", "build") /\ bpc' = "start" /\ UNCHANGED proc
     \/ /\ upc = "new_context" /\ "context" \in Faults
        /\ proc' = "crashed" /\ UNCHANGED <<upc, bpc>>
  /\ UNCHANGED <<out, bclosed, bnil, berr, bworker, remoteVars, appLog,
                 authVars, rerr, deployed, stored, closed, shown>>

\* A mutant of BuildReturned: Up goes on whatever Build returned.
BuildErrorIgnored ==
  /\ upc = "build" /\ bpc = "returned"
  /\ upc' = "push"
  /\ UNCHANGED <<out, buildVars, authVars, rerr, deployed, stored, closed, shown, proc>>

BuildReturned ==
  /\ upc = "build" /\ bpc = "returned"
  /\ upc' = IF berr = "nil" THEN "push" ELSE "save"
  /\ UNCHANGED <<out, buildVars, authVars, rerr, deployed, stored, closed, shown, proc>>

\* A mutant of Push: it completes a stage of its own.
PushSaysPush ==
  /\ UpGoes("push", "release")
  /\ Complete("push", "nil")
  /\ UNCHANGED <<buildVars, authVars, rerr, deployed, stored, closed, shown, proc>>

\* azure.Builder.Push: builder.Complete, called with a nil error under the
\* description of the build stage; the images are in the registry already.
Push ==
  /\ UpGoes("push", "release")
  /\ Complete("build", "nil")
  /\ UNCHANGED <<buildVars, authVars, rerr, deployed, stored, closed, shown, proc>>

\* A step of release that writes one summary.
ReleaseSays(from, code, to) ==
  /\ UpGoes(from, to) /\ Summarize("release", code)
  /\ UNCHANGED <<buildVars, authVars, rerr, deployed, stored, closed, shown, proc>>

ReleaseFails == rerr' = "err" /\ upc' = "release_complete"

\* "started"; prepareReleaseEnvironment only if a registry is configured.
ReleaseStart ==
  ReleaseSays("release", "started", IF settings.registry = "none" THEN "announce" ELSE "namespace")

\* A request to Kubernetes before or after the token exchange.
KubeRequest(from, to) ==
  /\ \/ UpGoes(from, to) /\ UNCHANGED rerr
     \/ upc = from /\ "kube" \in Faults /\ ReleaseFails
  /\ UNCHANGED <<out, buildVars, authVars, deployed, stored, closed, shown, proc>>

Namespace  == KubeRequest("namespace", "challenge")
PullSecret == KubeRequest("pull_secret", "announce")

\* What AuthToken makes of the answer to its challenge.  A panic of the parser
\* leaves release's err nil: the deferred Complete tells a success, saveState
\* and wg.Done follow, and then the process dies.
Challenged(got) ==
  /\ directive' = IF got.kind = "ok" THEN got ELSE Refused
  /\ \/ got.kind = "ok" /\ upc' = "exchange" /\ UNCHANGED <<rerr, proc>>
     \/ got.kind = "error" /\ ReleaseFails /\ UNCHANGED proc
     \/ got.kind = "panic" /\ upc' = "release_complete" /\ proc' = "panicking" /\ UNCHANGED rerr

\* AuthToken, first half.  A registry known by its bare name is no host.
Challenge ==
  /\ upc = "challenge"
  /\ \/ /\ settings.registry = "login_server"
        /\ \E params \in Offers, status \in {200, 401}, scheme \in {"bearer", "basic"} :
             LET header == [scheme |-> scheme, space |-> params # <<>>, rest |-> Header(params)]
             IN  /\ offer' = IF status = 401 /\ scheme = "bearer" THEN params ELSE NoOffer
                 /\ Challenged(ReceiveChallenge([status |-> status, headers |-> <<header>>]))
     \/ /\ settings.registry # "login_server" \/ "challenge" \in Faults
        /\ ReleaseFails /\ UNCHANGED <<offer, directive, proc>>
  /\ UNCHANGED <<out, buildVars, token, deployed, stored, closed, shown>>

\* AuthToken, second half.
Exchange ==
  /\ upc = "exchange"
  /\ \E status \in {200, 401}, answer \in {"token", "empty", "unreadable"} :
       LET got == PerformTokenExchange([status |-> status, token |-> answer]) IN
         /\ token' = got
         /\ IF got = "none" THEN ReleaseFails ELSE upc' = "pull_secret" /\ UNCHANGED rerr
  /\ offer' = NoOffer /\ directive' = Refused
  /\ UNCHANGED <<out, buildVars, deployed, stored, closed, shown, proc>>

ReleaseAnnounce == ReleaseSays("announce", "logging", "helm")

\* Install or upgrade of the release.
Helm ==
  /\ \/ UpGoes("helm", "status") /\ UNCHANGED rerr
        /\ deployed' = {ChartImage(settings, context.archive)}
     \/ upc = "helm" /\ "helm" \in Faults /\ ReleaseFails /\ UNCHANGED deployed
  /\ UNCHANGED <<out, buildVars, authVars, stored, closed, shown, proc>>

\* formatReleaseStatus: the status, then the notes if there are any.
ReleaseStatus == \E to \in {"notes", "release_complete"} : ReleaseSays("status", "logging", to)
ReleaseNotes  == ReleaseSays("notes", "logging", "release_complete")

ReleaseComplete ==
  /\ UpGoes("release_complete", "save")
  /\ Complete("release", rerr)
  /\ UNCHANGED <<buildVars, authVars, rerr, deployed, stored, closed, shown, proc>>

\* The deferred saveState and wg.Done.
SaveState ==
  /\ UpGoes("save", "done")
  /\ \/ stored' = IF deployed # {} THEN "released" ELSE "unreleased"
     \/ "storage" \in Faults /\ stored' = "lost"
  /\ UNCHANGED <<out, buildVars, authVars, rerr, deployed, closed, shown, proc>>

UpStep ==
  \/ NewAppContext \/ BuildReturned \/ Push
  \/ ReleaseStart \/ Namespace \/ Challenge \/ Exchange \/ PullSecret
  \/ ReleaseAnnounce \/ Helm \/ ReleaseStatus \/ ReleaseNotes \/ ReleaseComplete \/ SaveState

-----------------------------------------------------------------------------
(* The other goroutines and the process.                                   *)

\* wg.Wait(); close(ch)
CloseStream ==
  /\ upc = "done" /\ ~closed
  /\ closed' = TRUE
  /\ UNCHANGED <<out, buildVars, upc, authVars, rerr, deployed, stored, shown, proc>>

Receive ==
  /\ out # <<>>
  /\ out' = Tail(out)
  /\ LET s == Head(out) IN
       shown' = IF s.code \in {"ongoing", "logging"} THEN shown
                ELSE IF s.code = "success" /\ shown[s.stage] = "success"
                THEN [shown EXCEPT ![s.stage] = "echoed"]
                ELSE [shown EXCEPT ![s.stage] = s.code]
  /\ UNCHANGED <<buildVars, upc, authVars, rerr, deployed, stored, closed, proc>>

Exit ==
  /\ closed /\ out = <<>>
  /\ proc' = "exited"
  /\ UNCHANGED <<out, buildVars, upc, authVars, rerr, deployed, stored, closed, shown>>

\* A panic ends the process when the deferred calls of its goroutine are done.
Crash ==
  /\ \/ bworker = "panicked"
     \/ proc = "panicking" /\ upc = "done"
  /\ proc' = "crashed"
  /\ UNCHANGED <<out, buildVars, upc, authVars, rerr, deployed, stored, closed, shown>>

BuildCallerStep == CallerStep /\ UNCHANGED upVars
BuildWorkerStep == WorkerStep /\ UNCHANGED <<out, upVars>>

Alive == proc \in {"running", "panicking"}
Running(A) == Alive /\ A /\ UNCHANGED inputVars

\* The build service goes on when the process has ended.
Service == RemoteStep /\ UNCHANGED <<inputVars, out, upVars>>

Stopped == ~Alive /\ UNCHANGED vars

Next ==
  \/ Running(UpStep) \/ Running(BuildCallerStep) \/ Running(BuildWorkerStep)
  \/ Running(CloseStream) \/ Running(Receive) \/ Running(Exit) \/ Running(Crash)
  \/ Service \/ Stopped

\* Goroutines that can run are scheduled, requests are answered, and the
\* receiver keeps receiving; nothing is assumed of the build service.
Fairness ==
  /\ WF_vars(Running(UpStep \/ BuildCallerStep))
  /\ WF_vars(Running(BuildWorkerStep))
  /\ WF_vars(Running(CloseStream)) /\ WF_vars(Running(Receive))
  /\ WF_vars(Running(Crash))

Spec == Init /\ [][Next]_vars
FairSpec == Spec /\ Fairness

-----------------------------------------------------------------------------
(* Properties.                                                             *)

\* A release starts only when the remote build is over, succeeded or failed,
\* with its whole log in the build's log: waiting for the queue request is
\* not enough, it takes the poll of the blob's metadata.  Only a worker that
\* has panicked may have closed the two channels without that, and Build then
\* takes the two closed channels for the end of a build that succeeded.
ReleaseAfterRemoteBuild ==
  bpc = "returned" /\ berr = "nil" /\ bworker # "panicked" =>
    remote \in {"succeeded", "failed"} /\ appLog = logBlob.len

\* The image that a release deploys is in the registry under the very name
\* the chart has for it, whatever the spelling of the registry in draft.toml
\* and whatever image its values name, unless the remote build failed, whose
\* result Build does not look at, or the worker has panicked and the process
\* is about to die.
DeployedImageExists ==
  deployed \subseteq hub \/ remote = "failed" \/ bworker = "panicked"

\* A challenge that quotes its values is understood as it was written, and
\* refused only for want of a service or a realm, whatever commas, repeated
\* keys and empty values it has.  (Of one that does not quote, the parser makes
\* something else.)
QuotedChallengeUnderstood ==
  offer # NoOffer /\ (\A n \in DOMAIN offer : offer[n].quoted) =>
    LET service == Offered(offer, "service")
        realm   == Offered(offer, "realm")
    IN  directive = IF service = <<>> \/ realm = <<>> THEN Refused
                    ELSE [kind |-> "ok", service |-> service, realm |-> realm]

\* The stream is one that Display is made for when the build stage is echoed.
Told(s) ==
  LET codes == {IF out[n].code = "logging" THEN "ongoing" ELSE out[n].code :
                  n \in {k \in DOMAIN out : out[k].stage = s}}
  IN  IF "success" \in codes /\ shown[s] = "success" THEN "echoed"
      ELSE IF codes \intersect {"success", "failure"} # {}
      THEN CHOOSE c \in codes : c \in {"success", "failure"}
      ELSE IF codes # {} \/ shown[s] = "started" THEN "open" ELSE shown[s]

Feed == INSTANCE StageSender
  WITH Echoed <- {"build"}, inClosed <- closed, sent <- [s \in Stages |-> Told(s)],
       in <- [n \in DOMAIN out |->
                IF out[n].code = "logging" THEN [out[n] EXCEPT !.code = "ongoing"] ELSE out[n]]

FeedsDisplay == Feed!SenderSpec

\* Up with the azure builder keeps the promise of its stages too.  A release
\* that deployed nothing has failed, also where its err is nil.
StageResult(s) ==
  CASE s = "build" ->
         IF bpc \in {"idle", "start"} THEN "none"
         ELSE IF bpc # "returned" THEN "running"
         ELSE IF berr = "nil" THEN "ok" ELSE "failed"
    [] s = "push" ->
         IF settings.registry = "none" \/ bpc # "returned" \/ berr # "nil" \/ upc = "build"
         THEN "none"
         ELSE IF upc = "push" THEN "running" ELSE "ok"
    [] s = "release" ->
         IF upc \in {"new_context", "build", "push", "release"} \/ berr = "err" THEN "none"
         ELSE IF upc \notin {"save", "done"} THEN "running"
         ELSE IF deployed = {} THEN "failed" ELSE "ok"

UpPromise == INSTANCE UpStages
  WITH registry <- settings.registry # "none", result <- [s \in Stages |-> StageResult(s)],
       recorded <- stored, ended <- closed

ImplementsStages == UpPromise!Spec

\* Every `draft up` comes to an end, or polls for ever for a log that the
\* build service never marks complete: there is no other way to hang.
StreamEnds ==
  <>(closed \/ proc = "crashed") \/ <>[](bworker = "poll" /\ logBlob.state # "complete")
=============================================================================
