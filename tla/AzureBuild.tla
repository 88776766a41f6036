----------------------------- MODULE AzureBuild ------------------------------
(***************************************************************************)
(* azure.Builder.Build (pkg/builder/azure/builder.go): the caller polls    *)
(* msgc and errc, as in the docker builder, while a worker goroutine       *)
(* uploads the archive, queues a build with the registry, waits until the  *)
(* build's log is marked complete and copies it to app.Log.                *)
(*                                                                         *)
(* The registry's build service is external: it runs the build, appends to *)
(* the log blob, and marks the blob when the build is over.                *)
(***************************************************************************)
EXTENDS SummaryStream, UpSettings

CONSTANT LogLen   \* bound on the pieces of the remote log

ASSUME AzureBuildAssumption == LogLen \in Nat \ {0}

VARIABLES
  settings,     \* the environment of the build
  context,      \* its archive and chart
  bpc,          \* where the caller is in Build
  bworker,      \* where the worker goroutine is
  bclosed,      \* channels the worker has closed
  bnil,         \* channels the caller's loop has set to nil
  berr,         \* the named result err of Build
  remote,       \* the remote build: "none", "running", "succeeded", "failed"
  logBlob,      \* its log: whether it exists and is marked complete, and its length
  hub,          \* images in the registry
  appLog        \* pieces of the remote log in app.Log

inputVars  == <<settings, context>>
callerVars == <<bpc, bclosed, bnil, berr>>
remoteVars == <<remote, logBlob, hub>>
buildVars  == <<callerVars, bworker, remoteVars, appLog>>

BuildChans == {"msgc", "errc"}

InitBuild ==
  /\ bpc = "idle" /\ bworker = "none"
  /\ bclosed = {} /\ bnil = {} /\ berr = "nil"
  /\ remote = "none" /\ logBlob = [state |-> "absent", len |-> 0]
  /\ hub = {} /\ appLog = 0

-----------------------------------------------------------------------------
(* The names that the two sides use.                                       *)

\* getRegistryName strips .azurecr.io, and the client's validation of
\* registryName refuses what is no alphanumeric name.
ValidRegistryName(registry) == registry \in {"login_server", "bare_name"}

\* Of every image of the build the request has the name of the application
\* and the tag; the service puts it under the login server of the registry.
RemoteImages ==
  {ImageName("login_server", settings.name, i.tag) : i \in BuildImages(settings, context.archive)}

-----------------------------------------------------------------------------
(* The worker goroutine.  An error is sent on errc, which is received      *)
(* before the deferred closes of the two channels.                         *)

WorkerAt(l) == bworker = l /\ UNCHANGED callerVars
WorkerTo(l) == bworker' = l

\* A call of the worker that changes nothing else: it succeeds, or it ends in
\* one of bad.  "panicking" is an answer without a field that is dereferenced:
\* the deferred closes run before the process dies of it.
WorkerCalls(from, to, bad) ==
  /\ WorkerAt(from)
  /\ \/ WorkerTo(to)
     \/ from \in Faults /\ \E l \in bad : WorkerTo(l)
  /\ UNCHANGED <<remoteVars, appLog>>

\* GetBuildSourceUploadURL and url.Parse
WorkerGetUploadURL ==
  IF ValidRegistryName(settings.registry)
  THEN WorkerCalls("upload_url", "put_blob", {"send", "panicking"})
  ELSE WorkerAt("upload_url") /\ WorkerTo("send") /\ UNCHANGED <<remoteVars, appLog>>

WorkerPutBlob == WorkerCalls("put_blob", "queue", {"send"})

\* QueueBuild: the request may have been carried out although it fails.
WorkerQueueBuild ==
  /\ WorkerAt("queue")
  /\ \/ WorkerTo("wait") /\ remote' = "running"
     \/ "queue" \in Faults /\ WorkerTo("send") /\ remote' \in {"none", "running"}
  /\ UNCHANGED <<logBlob, hub, appLog>>

\* WaitForCompletion of the request (not of the build), its Result with the
\* build's ID, and GetLogLink, whose link may be empty.
WorkerWait    == WorkerCalls("wait", "result", {"send"})
WorkerResult  == WorkerCalls("result", "log_link", {"send", "panicking"})
WorkerLogLink == WorkerCalls("log_link", "poll", {"send", "panicking"})

\* A mutant of WorkerPoll: the test of the blob's metadata is left out.
WorkerPollsOnce == logBlob.state # "absent" /\ WorkerCalls("poll", "copy", {"send"})

\* The loop over GetPropertiesAndMetadata: it goes round at once while the
\* blob is absent or not complete (which changes nothing here), and ends
\* with GetBlob or with any other error.
WorkerPoll ==
  IF logBlob.state = "complete"
  THEN WorkerCalls("poll", "copy", {"send"})
  ELSE WorkerAt("poll") /\ "poll" \in Faults /\ WorkerTo("send") /\ UNCHANGED <<remoteVars, appLog>>

\* io.Copy(app.Log, rs): piece by piece, to the end of the blob.
WorkerCopy ==
  /\ WorkerAt("copy")
  /\ \/ appLog < logBlob.len /\ appLog' = appLog + 1 /\ UNCHANGED bworker
     \/ appLog = logBlob.len /\ WorkerTo("close_msgc") /\ UNCHANGED appLog
     \/ "copy" \in Faults /\ WorkerTo("send") /\ UNCHANGED appLog
  /\ UNCHANGED remoteVars

\* A mutant of WorkerClose: the defer forgets close(errc).
WorkerClosesMsgcOnly ==
  /\ bworker = "close_msgc" /\ WorkerTo("gone") /\ bclosed' = bclosed \union {"msgc"}
  /\ UNCHANGED <<bpc, bnil, berr, remoteVars, appLog>>

\* The deferred close(msgc) and then close(errc), on a return and on a panic.
\* "panicked" is a worker whose panic is about to end the process.
WorkerClose ==
  /\ \/ bworker = "close_msgc" /\ WorkerTo("close_errc") /\ bclosed' = bclosed \union {"msgc"}
     \/ bworker = "close_errc" /\ WorkerTo("gone") /\ bclosed' = bclosed \union {"errc"}
     \/ bworker = "panicking" /\ WorkerTo("panic_errc") /\ bclosed' = bclosed \union {"msgc"}
     \/ bworker = "panic_errc" /\ WorkerTo("panicked") /\ bclosed' = bclosed \union {"errc"}
  /\ UNCHANGED <<bpc, bnil, berr, remoteVars, appLog>>

WorkerStep ==
  \/ WorkerGetUploadURL \/ WorkerPutBlob \/ WorkerQueueBuild
  \/ WorkerWait \/ WorkerResult \/ WorkerLogLink
  \/ WorkerPoll \/ WorkerCopy \/ WorkerClose

-----------------------------------------------------------------------------
(* The calling goroutine.                                                  *)

CallerOnly == UNCHANGED <<bclosed, remoteVars, appLog>>

\* "started", then `go func() ...`.
BuildStart ==
  /\ bpc = "start" /\ bpc' = "select"
  /\ Summarize("build", "started")
  /\ WorkerTo("upload_url")
  /\ CallerOnly /\ UNCHANGED <<bnil, berr>>

\* `for msgc != nil || errc != nil`
BuildPolling == bpc = "select" /\ bnil # BuildChans

\* case err, ok := <-errc: an error, received from the worker that sends it.
BuildRecvErr ==
  /\ BuildPolling /\ "errc" \notin bnil /\ bworker = "send"
  /\ WorkerTo("close_msgc")
  /\ berr' = "err" /\ bpc' = "complete"
  /\ CallerOnly /\ UNCHANGED <<out, bnil>>

\* Either receive on a closed channel: the loop sets that channel to nil.
BuildRecvClosed ==
  /\ BuildPolling
  /\ \E c \in bclosed \ bnil : bnil' = bnil \union {c}
  /\ CallerOnly /\ UNCHANGED <<out, bpc, bworker, berr>>

\* default, which writes "ongoing" and sleeps.
BuildDefault ==
  /\ BuildPolling /\ bclosed \subseteq bnil /\ bworker # "send"
  /\ bpc' = "ongoing"
  /\ CallerOnly /\ UNCHANGED <<out, bworker, bnil, berr>>

BuildOngoing ==
  /\ bpc = "ongoing" /\ bpc' = "select"
  /\ Summarize("build", "ongoing")
  /\ CallerOnly /\ UNCHANGED <<bworker, bnil, berr>>

\* Both channels are nil: `return nil`.
BuildLoopEnd ==
  /\ bpc = "select" /\ bnil = BuildChans
  /\ bpc' = "complete"
  /\ CallerOnly /\ UNCHANGED <<out, bworker, bnil, berr>>

\* defer builder.Complete(app.ID, stageDesc, out, &err)
BuildComplete ==
  /\ bpc = "complete" /\ bpc' = "returned"
  /\ Complete("build", berr)
  /\ CallerOnly /\ UNCHANGED <<bworker, bnil, berr>>

CallerStep ==
  \/ BuildStart \/ BuildRecvErr \/ BuildRecvClosed
  \/ BuildDefault \/ BuildOngoing \/ BuildLoopEnd \/ BuildComplete

-----------------------------------------------------------------------------
(* The registry's build service.                                           *)

RemoteAppends ==
  /\ remote = "running" /\ logBlob.len < LogLen
  /\ logBlob' = [state |-> "open", len |-> logBlob.len + 1]
  /\ UNCHANGED <<remote, hub>>

\* The build is over (600 seconds after it was queued at the latest): it has
\* pushed its images, or it has failed.
RemoteEnds ==
  /\ remote = "running"
  /\ \/ remote' = "succeeded" /\ hub' = hub \union RemoteImages
     \/ remote' = "failed" /\ UNCHANGED hub
  /\ UNCHANGED logBlob

\* The log of a build that is over is marked complete.
RemoteMarks ==
  /\ remote \in {"succeeded", "failed"} /\ logBlob.state # "complete"
  /\ logBlob' = [logBlob EXCEPT !.state = "complete"]
  /\ UNCHANGED <<remote, hub>>

RemoteStep ==
  /\ RemoteAppends \/ RemoteEnds \/ RemoteMarks
  /\ UNCHANGED <<callerVars, bworker, appLog>>

=============================================================================
