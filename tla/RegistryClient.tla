--------------------------- MODULE RegistryClient ----------------------------
(***************************************************************************)
(* One call of an operation of the registry's client, to its end: the      *)
(* validation of the arguments, the Sender with its retries, and for the   *)
(* long-running operations the future and its Result                       *)
(* (pkg/azure/containerregistry/models.go).                                *)
(*                                                                         *)
(* The service is external: it carries an operation out at once or as a    *)
(* job, which is polled at a Location of its own or otherwise; requests    *)
(* and answers are lost, and other users change the item meanwhile.        *)
(***************************************************************************)
EXTENDS RegistryOperations

CONSTANTS
  Calls,      \* the operations that are called, rows of Operations
  MaxSends    \* bound on the sending of one request, with its retries

ASSUME RegistryClientAssumption == Calls \subseteq Operations /\ MaxSends \in Nat \ {0}

VARIABLES
  op,         \* the operation called
  cpc,        \* where the caller is
  sends,      \* how often its request was sent
  reported,   \* what the caller was told last
  returned,   \* the item that it was given
  item,       \* the item in the service that the operation is about
  job,        \* the operation in the service
  polling,    \* how the future polls: at a "location" of the job or "other"
  dropped,    \* whether a request or an answer was lost
  meddled     \* whether another user changed the item

callVars    == <<op, cpc, sends, reported, returned>>
serviceVars == <<item, job, polling>>
clientVars  == <<callVars, serviceVars, dropped, meddled>>

InitClient ==
  /\ op \in Calls /\ cpc = "validate" /\ sends = 0 /\ reported = "nothing" /\ returned = "none"
  /\ item \in {"none", "old"} /\ job = "none" /\ polling = "other"
  /\ dropped = FALSE /\ meddled = FALSE

\* What the item is after the operation, or what a POST answers.
Outcome(o) ==
  CASE o.method \in {"PUT", "PATCH"} -> "mine"
    [] o.method = "DELETE" -> "none"
    [] o.method = "POST" -> IF Valueless(o) THEN "none" ELSE "result"
    [] o.method = "GET" -> item

Tell(what) == cpc' = "done" /\ reported' = what

-----------------------------------------------------------------------------
(* The service.                                                            *)

Finished == IF op.method = "POST" THEN item ELSE Outcome(op)   \* the item then

\* The request arrives.  It is refused, changes nothing, is carried out, or
\* becomes a job; code is the answer's.
Serve(code) ==
  \/ /\ item = "none" /\ op.method \in {"GET", "PATCH", "POST"}
     /\ code = 404 /\ UNCHANGED serviceVars
  \/ /\ item = "none" /\ op.method = "DELETE"
     /\ code = 204 /\ job' = "succeeded" /\ polling' = "other" /\ UNCHANGED item
  \/ /\ item # "none" \/ op.method = "PUT"
     /\ code = 200 /\ item' = Finished /\ job' = "succeeded" /\ polling' = "other"
  \/ /\ item # "none" \/ op.method = "PUT"
     /\ op.answer = "future"
     /\ code = (IF op.method \in {"PUT", "PATCH"} THEN 201 ELSE 202)
     /\ job' = "running" /\ polling' \in {"location", "other"} /\ UNCHANGED item

JobEnds ==
  /\ job = "running"
  /\ \/ job' = "succeeded" /\ item' = Finished
     \/ job' = "failed" /\ UNCHANGED item
  /\ UNCHANGED <<callVars, polling, dropped, meddled>>

Meddle ==
  /\ ~meddled /\ meddled' = TRUE
  /\ item' \in {"none", "theirs"}
  /\ UNCHANGED <<callVars, job, polling, dropped>>

-----------------------------------------------------------------------------
(* The client.                                                             *)

\* validation.Validate: nothing is sent with an argument that it refuses.
Validate ==
  /\ cpc = "validate"
  /\ \/ cpc' = "send" /\ UNCHANGED reported
     \/ op.validated # {} /\ Tell("refused")
  /\ UNCHANGED <<op, sends, returned, serviceVars, dropped, meddled>>

\* DoRetryWithRegistration sends again when it has no answer; the request
\* that was sent may have been carried out nevertheless.
SendLost ==
  /\ cpc = "send" /\ sends < MaxSends
  /\ sends' = sends + 1 /\ dropped' = TRUE
  /\ UNCHANGED serviceVars \/ \E code \in {200, 201, 202, 204, 404} : Serve(code)
  /\ IF sends' = MaxSends THEN Tell("error") ELSE UNCHANGED <<cpc, reported>>
  /\ UNCHANGED <<op, returned, meddled>>

\* The Sender's test of the status code, and without a future the Responder's.
Send ==
  /\ cpc = "send" /\ sends < MaxSends
  /\ sends' = sends + 1
  /\ \E code \in {200, 201, 202, 204, 404} :
       /\ Serve(code)
       /\ IF code \notin op.codes
          THEN Tell("error") /\ UNCHANGED returned
          ELSE IF op.answer = "future"
               THEN cpc' = "future" /\ UNCHANGED <<reported, returned>>
               ELSE Tell("ok") /\ returned' = Outcome(op)
  /\ UNCHANGED <<op, dropped, meddled>>

\* Polled, the future knows that the job is over, that it failed, or nothing.
PollFails == dropped' = TRUE /\ UNCHANGED returned /\ Tell("error")

\* A mutant of Result: the test of done is left out.
ResultAtOnce ==
  /\ cpc = "future"
  /\ \/ PollFails
     \/ job = "failed" /\ Tell("error") /\ UNCHANGED <<returned, dropped>>
     \/ /\ job \in {"running", "succeeded"} /\ polling = "location"
        /\ Tell("ok") /\ returned' = Outcome(op) /\ UNCHANGED dropped
     \/ /\ job \in {"running", "succeeded"} /\ polling = "other"
        /\ cpc' = "get" /\ UNCHANGED <<reported, returned, dropped>>
  /\ UNCHANGED <<op, sends, serviceVars, meddled>>

\* Result may be called again while the job is not over.  The answer of a
\* Location goes to the Responder; otherwise the item is fetched.
Result ==
  /\ cpc = "future"
  /\ \/ PollFails
     \/ job = "failed" /\ Tell("error") /\ UNCHANGED <<returned, dropped>>
     \/ /\ job = "running"
        /\ reported' = "incomplete" /\ UNCHANGED <<cpc, returned, dropped>>
     \/ /\ job = "succeeded" /\ polling = "location" /\ UNCHANGED dropped
        /\ \E code \in (IF op.method = "DELETE" THEN {200, 204} ELSE {200}) :
             IF code \in op.codes
             THEN Tell("ok") /\ returned' = Outcome(op)
             ELSE Tell("error") /\ UNCHANGED returned
     \/ /\ job = "succeeded" /\ polling = "other"
        /\ cpc' = "get" /\ UNCHANGED <<reported, returned, dropped>>
  /\ UNCHANGED <<op, sends, serviceVars, meddled>>

\* ChangeToGet(future.req): the URL of the operation is read, which for a
\* deletion is gone, and for a POST has no GET.
ResultGet ==
  /\ cpc = "get"
  /\ \/ PollFails
     \/ /\ Readable(op) /\ item # "none"
        /\ Tell("ok") /\ UNCHANGED dropped
        /\ returned' = IF Valueless(op) THEN "none" ELSE item
     \/ /\ ~(Readable(op) /\ item # "none")
        /\ Tell("error") /\ UNCHANGED <<returned, dropped>>
  /\ UNCHANGED <<op, sends, serviceVars, meddled>>

NextClient == Validate \/ SendLost \/ Send \/ Result \/ ResultGet \/ JobEnds \/ Meddle

ClientSpec == InitClient /\ [][NextClient]_clientVars

-----------------------------------------------------------------------------

\* A caller that is told of success has had its operation carried out to the
\* end, and holds its outcome if nobody else was at the item; and an operation
\* that makes or changes an item, carried out with nothing lost and nobody else
\* about, is not reported as a failure.
OutcomeTold ==
  /\ reported = "ok" /\ op.method # "GET" =>
       job = "succeeded" /\ (~meddled => returned = Outcome(op))
  /\ /\ cpc = "done" /\ job = "succeeded"
     /\ ~dropped /\ ~meddled
     /\ op.method \in {"PUT", "PATCH"}
     => reported = "ok"

=============================================================================
