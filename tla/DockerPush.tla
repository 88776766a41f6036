----------------------------- MODULE DockerPush ------------------------------
(***************************************************************************)
(* docker.Builder.Push (pkg/builder/docker/builder.go).  Four kinds of     *)
(* goroutine: the caller (ppc) polling msgc and errc, the starter that     *)
(* spawns one pusher per image and then closes both channels, and the      *)
(* pushers.  errc and msgc are buffered with capacity 1; nothing is ever   *)
(* sent on msgc.  The WaitGroup starts at len(app.Images) and each pusher  *)
(* decrements it when it returns, by a panic too.                          *)
(***************************************************************************)
EXTENDS SummaryStream

CONSTANT Images             \* app.Images: the tags to push

ASSUME PushAssumption == Images # {}

VARIABLE registry           \* app.Ctx.Env.Registry # "", settled before Up is called

VARIABLES
  ppc,          \* where the caller is in Push
  starter,      \* where the goroutine that spawns the pushers is
  pusher,       \* image |-> where its pusher is
  errc,         \* buffered errors
  pclosed,      \* channels the starter has closed
  pnil,         \* channels the caller's loop has set to nil
  perr          \* the named result err of Push

pushVars == <<ppc, starter, pusher, errc, pclosed, pnil, perr>>

PushChans == {"msgc", "errc"}
ErrcCap   == 1

\* A pusher in one of these states has run its deferred wg.Done.
Finished == {"pushed", "failed", "panicking"}

InitPush ==
  /\ ppc = "idle" /\ starter = "none"
  /\ pusher = [i \in Images |-> "none"]
  /\ errc = <<>>
  /\ pclosed = {} /\ pnil = {}
  /\ perr = "nil"

-----------------------------------------------------------------------------
(* The starter goroutine.                                                  *)

\* RetrieveAuthTokenFromImage; an error is sent, and nobody closes errc.
StarterAuth ==
  /\ starter = "auth"
  /\ \/ starter' = "spawn" /\ UNCHANGED errc
     \/ /\ "push_auth" \in Faults /\ Len(errc) < ErrcCap
        /\ errc' = Append(errc, "err") /\ starter' = "gone"
  /\ UNCHANGED <<out, ppc, pusher, pclosed, pnil, perr>>

\* One iteration of `for _, tag := range app.Images { go func ... }`.
StarterSpawn(i) ==
  /\ starter = "spawn" /\ pusher[i] = "none"
  /\ pusher' = [pusher EXCEPT ![i] = "push"]
  /\ UNCHANGED <<out, ppc, starter, errc, pclosed, pnil, perr>>

\* The defer that runs as soon as the loop has spawned the pushers:
\* close(errc), then close(msgc).
StarterClose ==
  /\ \/ /\ starter = "spawn" /\ \A i \in Images : pusher[i] # "none"
        /\ starter' = "close_msgc" /\ pclosed' = pclosed \union {"errc"}
     \/ /\ starter = "close_msgc"
        /\ starter' = "gone" /\ pclosed' = pclosed \union {"msgc"}
  /\ UNCHANGED <<out, ppc, pusher, errc, pnil, perr>>

StarterStep == StarterAuth \/ (\E i \in Images : StarterSpawn(i)) \/ StarterClose

-----------------------------------------------------------------------------
(* The pusher of image i.                                                  *)

PusherGoes(i, from, to) == pusher[i] = from /\ pusher' = [pusher EXCEPT ![i] = to]

\* ImagePush, the call that opens the stream.
PusherPush(i) ==
  /\ \/ PusherGoes(i, "push", "stream")
     \/ "image_push" \in Faults /\ PusherGoes(i, "push", "send_err")
  /\ UNCHANGED <<out, ppc, starter, errc, pclosed, pnil, perr>>

\* DisplayJSONMessagesStream of the push.
PusherStream(i) ==
  /\ \/ PusherGoes(i, "stream", "pushed")
     \/ "push_stream" \in Faults /\ PusherGoes(i, "stream", "send_err")
  /\ UNCHANGED <<out, ppc, starter, errc, pclosed, pnil, perr>>

\* A mutant of PusherSendErr: errc is not bounded.
PusherNeverBlocks(i) ==
  /\ \/ /\ "errc" \in pclosed
        /\ PusherGoes(i, "send_err", "panicking") /\ UNCHANGED errc
     \/ /\ "errc" \notin pclosed
        /\ PusherGoes(i, "send_err", "failed") /\ errc' = Append(errc, "err")
  /\ UNCHANGED <<out, ppc, starter, pclosed, pnil, perr>>

\* `errc <- err`: panics if errc is closed (also when the pusher was already
\* blocked on it), otherwise blocks while the buffer is full.
PusherSendErr(i) ==
  /\ \/ /\ "errc" \in pclosed
        /\ PusherGoes(i, "send_err", "panicking") /\ UNCHANGED errc
     \/ /\ "errc" \notin pclosed /\ Len(errc) < ErrcCap
        /\ PusherGoes(i, "send_err", "failed") /\ errc' = Append(errc, "err")
  /\ UNCHANGED <<out, ppc, starter, pclosed, pnil, perr>>

PusherStep(i) == PusherPush(i) \/ PusherStream(i) \/ PusherSendErr(i)

-----------------------------------------------------------------------------
(* The calling goroutine.                                                  *)

\* No registry: return nil before anything is announced.
PushSkip ==
  /\ ppc = "start" /\ ~registry
  /\ ppc' = "returned"
  /\ UNCHANGED <<out, starter, pusher, errc, pclosed, pnil, perr>>

PushStart ==
  /\ ppc = "start" /\ registry
  /\ Summarize("push", "started")
  /\ ppc' = "select" /\ starter' = "auth"
  /\ UNCHANGED <<pusher, errc, pclosed, pnil, perr>>

PushPolling == ppc = "select" /\ pnil # PushChans

\* A mutant of Drained: the loop leaves a closed channel with what is in it.
DrainedOrNot(c) == c \in PushChans

\* A closed channel reports !ok only once its buffer is drained.
Drained(c) == c = "errc" => errc = <<>>

PushRecvErr ==
  /\ PushPolling /\ "errc" \notin pnil
  /\ errc # <<>>
  /\ errc' = Tail(errc)
  /\ perr' = "err" /\ ppc' = "complete"
  /\ UNCHANGED <<out, starter, pusher, pclosed, pnil>>

PushRecvClosed ==
  /\ PushPolling
  /\ \E c \in pclosed \ pnil : Drained(c) /\ pnil' = pnil \union {c}
  /\ UNCHANGED <<out, ppc, starter, pusher, errc, pclosed, perr>>

PushDefault ==
  /\ PushPolling
  /\ pclosed \subseteq pnil /\ errc = <<>>
  /\ ppc' = "ongoing"
  /\ UNCHANGED <<out, starter, pusher, errc, pclosed, pnil, perr>>

PushOngoing ==
  /\ ppc = "ongoing"
  /\ Summarize("push", "ongoing")
  /\ ppc' = "select"
  /\ UNCHANGED <<starter, pusher, errc, pclosed, pnil, perr>>

\* A mutant of PushWait: no wg.Wait().
PushWaitsForNobody ==
  /\ ppc = "select" /\ pnil = PushChans
  /\ ppc' = "complete"
  /\ UNCHANGED <<out, starter, pusher, errc, pclosed, pnil, perr>>

\* The loop ends with both channels nil; wg.Wait() blocks until every pusher
\* has run wg.Done.
PushWait ==
  /\ ppc = "select" /\ pnil = PushChans
  /\ \A i \in Images : pusher[i] \in Finished
  /\ ppc' = "complete"
  /\ UNCHANGED <<out, starter, pusher, errc, pclosed, pnil, perr>>

PushComplete ==
  /\ ppc = "complete"
  /\ Complete("push", perr)
  /\ ppc' = "returned"
  /\ UNCHANGED <<starter, pusher, errc, pclosed, pnil, perr>>

PushCallerStep ==
  \/ PushSkip \/ PushStart \/ PushRecvErr \/ PushRecvClosed
  \/ PushDefault \/ PushOngoing \/ PushWait \/ PushComplete

-----------------------------------------------------------------------------
TypeOKPush ==
  /\ ppc \in {"idle", "start", "select", "ongoing", "complete", "returned"}
  /\ starter \in {"none", "auth", "spawn", "close_msgc", "gone"}
  /\ pusher \in [Images -> {"none", "push", "stream", "send_err"} \union Finished]
  /\ errc \in Seq({"err"}) /\ Len(errc) <= ErrcCap
  /\ pclosed \subseteq PushChans /\ pnil \subseteq pclosed
  /\ perr \in Errors
=============================================================================
