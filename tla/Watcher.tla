------------------------------- MODULE Watcher -------------------------------
(***************************************************************************)
(* Context.Watch and watch (pkg/builder/watch.go): a change in the         *)
(* application's directory is told by the notifier on a channel of         *)
(* capacity one, relayed unless it is ignored, and answered with a reload  *)
(* of the context, which is sent on the caller's stream.                   *)
(*                                                                         *)
(* The notifier (it drops an event rather than block), the directory and   *)
(* the receiver of the stream are external.                                *)
(***************************************************************************)
EXTENDS Naturals, Sequences

CONSTANT MaxChanges     \* bound: the changes of the directory

VARIABLES
  changes,      \* the changes so far
  infoc,        \* the notifier's events: "plain", or "ignored" (.draftignore, .git/)
  relay,        \* the relay goroutine: "recv", "send" on evtc, or "panicked"
  watching,     \* the caller of watch: "select", "load", "send" or "returned"
  cancelled,    \* ctx.Done
  receiver,     \* the stream's receiver: "there" or "gone"
  stale,        \* history: a plain change since the last load began
  crowdedOut    \* history: a plain change was dropped for an ignored one

watchVars == <<changes, infoc, relay, watching, cancelled, receiver, stale, crowdedOut>>

InitWatch ==
  /\ changes = 0 /\ infoc = <<>>
  /\ relay = "recv" /\ watching = "select"
  /\ cancelled = FALSE /\ receiver = "there"
  /\ stale = FALSE /\ crowdedOut = FALSE

\* A file changes; the notifier sends without blocking, so an event is
\* dropped when the one before it has not been taken.
Changed(kind) ==
  /\ changes < MaxChanges
  /\ changes' = changes + 1
  /\ infoc' = IF infoc = <<>> /\ watching # "returned" THEN <<kind>> ELSE infoc
  /\ stale' = (stale \/ kind = "plain")
  /\ crowdedOut' = (crowdedOut \/ (kind = "plain" /\ infoc = <<"ignored">>))
  /\ UNCHANGED <<relay, watching, cancelled, receiver>>

\* A mutant of RelayTakes: the send on evtc does not wait for the select.
RelayDropsWhenBusy ==
  /\ relay = "recv" /\ infoc # <<>>
  /\ infoc' = <<>>
  /\ relay' = IF Head(infoc) = "plain" /\ watching = "select" THEN "send" ELSE "recv"
  /\ UNCHANGED <<changes, watching, cancelled, receiver, stale, crowdedOut>>

\* for info := range infoc: an ignored event is not relayed.
RelayTakes ==
  /\ relay = "recv" /\ infoc # <<>>
  /\ infoc' = <<>>
  /\ relay' = IF Head(infoc) = "plain" THEN "send" ELSE "recv"
  /\ UNCHANGED <<changes, watching, cancelled, receiver, stale, crowdedOut>>

\* evtc is unbuffered: the send and case <-evtc are one step.  LoadWithEnv
\* reads the directory from here on.
EventReceived ==
  /\ relay = "send" /\ watching = "select"
  /\ relay' = "recv"
  /\ watching' = "load"
  /\ stale' = FALSE
  /\ UNCHANGED <<changes, infoc, cancelled, receiver, crowdedOut>>

\* LoadWithEnv returns; its error ends watch.
Loaded ==
  /\ watching = "load"
  /\ watching' \in {"send", "returned"}
  /\ UNCHANGED <<changes, infoc, relay, cancelled, receiver, stale, crowdedOut>>

\* stream <- b: it waits for the receiver, cancelled or not.
StreamSent ==
  /\ watching = "send" /\ receiver = "there"
  /\ watching' = "select"
  /\ UNCHANGED <<changes, infoc, relay, cancelled, receiver, stale, crowdedOut>>

\* case <-ctx.Done()
WatchCancelled ==
  /\ watching = "select" /\ cancelled
  /\ watching' = "returned"
  /\ UNCHANGED <<changes, infoc, relay, cancelled, receiver, stale, crowdedOut>>

\* The deferred close(evtc): a relay in its send panics, and the process ends.
RelayPanics ==
  /\ watching = "returned" /\ relay = "send"
  /\ relay' = "panicked"
  /\ UNCHANGED <<changes, infoc, watching, cancelled, receiver, stale, crowdedOut>>

\* The caller cancels the context; the receiver of the stream stops receiving.
Cancel ==
  /\ ~cancelled /\ cancelled' = TRUE
  /\ UNCHANGED <<changes, infoc, relay, watching, receiver, stale, crowdedOut>>

ReceiverLeaves ==
  /\ receiver = "there" /\ receiver' = "gone"
  /\ UNCHANGED <<changes, infoc, relay, watching, cancelled, stale, crowdedOut>>

WatchStep ==
  RelayTakes \/ EventReceived \/ Loaded \/ StreamSent \/ WatchCancelled \/ RelayPanics

NextWatch ==
  \/ \E kind \in {"plain", "ignored"} : Changed(kind)
  \/ WatchStep
  \/ Cancel \/ ReceiverLeaves

-----------------------------------------------------------------------------
\* A change that is not ignored is followed by a reload that begins after it,
\* however many events are dropped, unless watch returns, the receiver of the
\* stream is gone, or the event was dropped for an ignored one.
ChangesReloaded ==
  stale ~> (~stale \/ watching = "returned" \/ receiver = "gone" \/ crowdedOut)
=============================================================================
