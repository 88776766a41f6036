----------------------------- MODULE DockerBuild -----------------------------
(***************************************************************************)
(* docker.Builder.Build (pkg/builder/docker/builder.go): the caller polls  *)
(* two unbuffered channels, msgc and errc, while a worker goroutine asks   *)
(* the docker daemon for the build.  The calling goroutine is bpc, the     *)
(* worker is bworker.                                                      *)
(*                                                                         *)
(* msgc never carries a message: the worker only closes it.                *)
(***************************************************************************)
EXTENDS SummaryStream

VARIABLES
  bpc,          \* where the caller is in Build
  bworker,      \* where the worker goroutine is
  bclosed,      \* channels the worker has closed
  bnil,         \* channels the caller's loop has set to nil
  berr          \* the named result err of Build

buildVars == <<bpc, bworker, bclosed, bnil, berr>>

BuildChans == {"msgc", "errc"}

InitBuild ==
  /\ bpc = "idle" /\ bworker = "none"
  /\ bclosed = {} /\ bnil = {}
  /\ berr = "nil"

-----------------------------------------------------------------------------
(* The worker goroutine.                                                   *)

WorkerGoes(from, to) == bworker = from /\ bworker' = to

\* AuthToken and FromAuthConfigToken: an error of either makes the worker
\* return with nothing sent and nothing closed.
WorkerAuth ==
  /\ \/ WorkerGoes("auth", "image_build")
     \/ "auth" \in Faults /\ WorkerGoes("auth", "gone")
  /\ UNCHANGED <<out, bpc, bclosed, bnil, berr>>

\* Client().ImageBuild: only after it succeeds is the closing defer in place.
WorkerImageBuild ==
  /\ \/ WorkerGoes("image_build", "stream")
     \/ "image_build" \in Faults /\ WorkerGoes("image_build", "send_and_return")
  /\ UNCHANGED <<out, bpc, bclosed, bnil, berr>>

\* DisplayJSONMessagesStream copies the daemon's output to app.Log.
WorkerStream ==
  /\ \/ WorkerGoes("stream", "inspect")
     \/ "stream" \in Faults /\ WorkerGoes("stream", "send_and_close")
  /\ UNCHANGED <<out, bpc, bclosed, bnil, berr>>

\* ImageInspectWithRaw: the image is there, or one of the two errors is sent.
WorkerInspect ==
  /\ \/ WorkerGoes("inspect", "close_msgc")
     \/ "inspect" \in Faults /\ WorkerGoes("inspect", "send_and_close")
  /\ UNCHANGED <<out, bpc, bclosed, bnil, berr>>

\* A mutant of WorkerClose: the defer forgets close(errc).
WorkerClosesMsgcOnly ==
  /\ WorkerGoes("close_msgc", "gone") /\ bclosed' = bclosed \union {"msgc"}
  /\ UNCHANGED <<out, bpc, bnil, berr>>

\* The deferred close(msgc) and then close(errc).
WorkerClose ==
  /\ \/ WorkerGoes("close_msgc", "close_errc") /\ bclosed' = bclosed \union {"msgc"}
     \/ WorkerGoes("close_errc", "gone")       /\ bclosed' = bclosed \union {"errc"}
  /\ UNCHANGED <<out, bpc, bnil, berr>>

WorkerStep == WorkerAuth \/ WorkerImageBuild \/ WorkerStream \/ WorkerInspect \/ WorkerClose

-----------------------------------------------------------------------------
(* The calling goroutine.                                                  *)

\* "started", then `go func() ...`.
BuildStart ==
  /\ bpc = "start"
  /\ Summarize("build", "started")
  /\ bpc' = "select" /\ bworker' = "auth"
  /\ UNCHANGED <<bclosed, bnil, berr>>

\* The worker is blocked in `errc <- err`.
ErrOffered == bworker \in {"send_and_return", "send_and_close"}

\* `for msgc != nil || errc != nil`
BuildPolling == bpc = "select" /\ bnil # BuildChans

\* case err, ok := <-errc with a value: rendezvous with the worker, return err.
BuildRecvErr ==
  /\ BuildPolling /\ "errc" \notin bnil
  /\ ErrOffered
  /\ bworker' = IF bworker = "send_and_return" THEN "gone" ELSE "close_msgc"
  /\ berr' = "err" /\ bpc' = "complete"
  /\ UNCHANGED <<out, bclosed, bnil>>

\* Either receive on a closed channel: the loop sets that channel to nil.
BuildRecvClosed ==
  /\ BuildPolling
  /\ \E c \in bclosed \ bnil : bnil' = bnil \union {c}
  /\ UNCHANGED <<out, bpc, bworker, bclosed, berr>>

\* No case is ready: default, which first has to write "ongoing".
BuildDefault ==
  /\ BuildPolling
  /\ bclosed \subseteq bnil
  /\ ~ErrOffered
  /\ bpc' = "ongoing"
  /\ UNCHANGED <<out, bworker, bclosed, bnil, berr>>

BuildOngoing ==
  /\ bpc = "ongoing"
  /\ Summarize("build", "ongoing")
  /\ bpc' = "select"
  /\ UNCHANGED <<bworker, bclosed, bnil, berr>>

\* Both channels are nil: the loop ends, `return nil`.
BuildLoopEnd ==
  /\ bpc = "select" /\ bnil = BuildChans
  /\ bpc' = "complete"
  /\ UNCHANGED <<out, bworker, bclosed, bnil, berr>>

\* A mutant of BuildComplete: Build returns without its deferred Complete.
BuildReturnsSilently ==
  /\ bpc = "complete"
  /\ bpc' = "returned"
  /\ UNCHANGED <<out, bworker, bclosed, bnil, berr>>

\* defer builder.Complete(app.ID, stageDesc, out, &err)
BuildComplete ==
  /\ bpc = "complete"
  /\ Complete("build", berr)
  /\ bpc' = "returned"
  /\ UNCHANGED <<bworker, bclosed, bnil, berr>>

CallerStep ==
  \/ BuildStart \/ BuildRecvErr \/ BuildRecvClosed
  \/ BuildDefault \/ BuildOngoing \/ BuildLoopEnd \/ BuildComplete

-----------------------------------------------------------------------------
TypeOKBuild ==
  /\ bpc \in {"idle", "start", "select", "ongoing", "complete", "returned"}
  /\ bworker \in {"none", "auth", "image_build", "stream", "inspect", "send_and_return",
                  "send_and_close", "close_msgc", "close_errc", "gone"}
  /\ bclosed \subseteq BuildChans /\ bnil \subseteq bclosed
  /\ berr \in Errors
=============================================================================
