------------------------------- MODULE Display -------------------------------
(***************************************************************************)
(* cmdline.Display and progress (pkg/cmdline/cmdline.go), fed by any       *)
(* stream of summaries that brackets its stages as Builder.Up does         *)
(* (module StageSender).  The goroutines: Display itself;                  *)
(* for each entry it makes in `ongoing` one that runs progress, and in it  *)
(* one that relays the final code from the entry's channel to `done`.      *)
(*                                                                         *)
(* An entry can be made twice for a stage: an instance is <<stage, n>>.    *)
(* `draft up` passes context.Background() (cmd/draft/up.go), so that       *)
(* cli.Done() is closed by Display's own defer only.                       *)
(***************************************************************************)
EXTENDS StageSender

VARIABLES
  dpc,          \* where Display is
  held,         \* the instance and code Display is about to forward
  ongoing,      \* stage |-> n if the map holds instance n, 0 if it has no entry
  made,         \* stage |-> number of instances made
  codes,        \* instance |-> buffered codes of its channel, capacity 1
  shut,         \* instances whose channel has been closed
  relay,        \* instance |-> where its relay goroutine is
  done,         \* instance |-> buffered codes of its done channel, capacity 1
  prog,         \* instance |-> where its progress goroutine is
  printed,      \* instance |-> the outcome printed, or "none"
  failed        \* Display has seen a failure

envVars   == senderVars
mainVars  == <<dpc, held, failed, made>>
progVars  == <<codes, shut, relay, done, prog, printed>>
vars      == <<envVars, mainVars, ongoing, progVars>>

Instances == Stages \X {1, 2}

Init ==
  /\ InitSender
  /\ dpc = "loop" /\ held = <<>> /\ failed = FALSE
  /\ ongoing = [s \in Stages |-> 0] /\ made = [s \in Stages |-> 0]
  /\ codes = [i \in Instances |-> <<>>] /\ shut = {}
  /\ relay = [i \in Instances |-> "none"] /\ done = [i \in Instances |-> <<>>]
  /\ prog = [i \in Instances |-> "none"]
  /\ printed = [i \in Instances |-> "none"]

-----------------------------------------------------------------------------
(* The sender, which is Builder.Up.                                        *)

Send        == SendOne /\ UNCHANGED <<mainVars, ongoing, progVars>>
CloseStream == CloseIn /\ UNCHANGED <<mainVars, ongoing, progVars>>

-----------------------------------------------------------------------------
(* Display.                                                                *)

\* A summary of a stage without an entry makes the entry and starts its
\* progress; its code is dropped.
Announce(s) ==
  LET i == <<s.stage, made[s.stage] + 1>> IN
    /\ ongoing[s.stage] = 0
    /\ made' = [made EXCEPT ![s.stage] = @ + 1]
    /\ ongoing' = [ongoing EXCEPT ![s.stage] = made[s.stage] + 1]
    /\ prog' = [prog EXCEPT ![i] = "poll"]
    /\ relay' = [relay EXCEPT ![i] = "range"]
    /\ UNCHANGED <<dpc, held, codes, shut, done, printed>>

\* A summary of a stage with an entry: its code is to be sent on the channel.
Hold(s) ==
  /\ ongoing[s.stage] # 0
  /\ dpc' = "forward"
  /\ held' = <<[inst |-> <<s.stage, ongoing[s.stage]>>, code |-> s.code]>>
  /\ UNCHANGED <<ongoing, made, progVars>>

\* case summary, ok := <-summaries
Receive ==
  /\ dpc = "loop" /\ in # <<>>
  /\ in' = <<>>
  /\ failed' = (failed \/ Head(in).code = "failure")
  /\ Announce(Head(in)) \/ Hold(Head(in))
  /\ UNCHANGED <<inClosed, sent>>

\* A mutant of Forward: the entry's channel is not bounded.
ForwardNeverBlocks ==
  /\ dpc = "forward"
  /\ LET h == Head(held) IN codes' = [codes EXCEPT ![h.inst] = Append(@, h.code)]
  /\ dpc' = "loop" /\ held' = <<>>
  /\ UNCHANGED <<envVars, failed, made, ongoing, shut, relay, done, prog, printed>>

\* ch <- summary.StatusCode
Forward ==
  /\ dpc = "forward"
  /\ LET h == Head(held) IN
       /\ codes[h.inst] = <<>>
       /\ codes' = [codes EXCEPT ![h.inst] = <<h.code>>]
  /\ dpc' = "loop" /\ held' = <<>>
  /\ UNCHANGED <<envVars, failed, made, ongoing, shut, relay, done, prog, printed>>

\* The stream is closed and drained: run the defer.
Leave ==
  /\ dpc = "loop" /\ inClosed /\ in = <<>>
  /\ dpc' = "closing"
  /\ UNCHANGED <<envVars, held, failed, made, ongoing, progVars>>

\* for _, c := range ongoing { close(c) }; cli.Stop()
CloseChannels ==
  /\ dpc = "closing"
  /\ shut' = shut \union {<<s, ongoing[s]>> : s \in {t \in Stages : ongoing[t] # 0}}
  /\ dpc' = "wait"
  /\ UNCHANGED <<envVars, held, failed, made, ongoing, codes, relay, done, prog, printed>>

\* A mutant of Return: no wg.Wait().
ReturnsAtOnce ==
  /\ dpc = "wait"
  /\ dpc' = "returned"
  /\ UNCHANGED <<envVars, held, failed, made, ongoing, progVars>>

\* wg.Wait()
Return ==
  /\ dpc = "wait"
  /\ \A i \in Instances : prog[i] \in {"none", "finished"}
  /\ dpc' = "returned"
  /\ UNCHANGED <<envVars, held, failed, made, ongoing, progVars>>

\* `ongoing` is a plain map: an access by Display, or by the progress of
\* another stage, while a progress deletes its entry may throw.
MapRace ==
  /\ \E i \in Instances :
       /\ prog[i] = "delete"
       /\ \/ dpc = "loop" /\ in # <<>>
          \/ dpc = "closing"
          \/ \E j \in Instances \ {i} : prog[j] = "delete"
  /\ dpc' = "thrown"
  /\ UNCHANGED <<envVars, held, failed, made, ongoing, progVars>>

DisplayStep == Receive \/ Forward \/ Leave \/ CloseChannels \/ Return

-----------------------------------------------------------------------------
(* The goroutines of an instance.                                          *)

\* A mutant of RelayTake: it returns on a code that is not final.
RelayStopsEarly(i) ==
  /\ relay[i] = "range" /\ codes[i] # <<>>
  /\ codes' = [codes EXCEPT ![i] = <<>>]
  /\ relay' = [relay EXCEPT ![i] = IF Head(codes[i]) \in Final THEN Head(codes[i]) ELSE "ended"]
  /\ UNCHANGED <<shut, done, prog, printed>>

\* Another: only success is taken for a final code.
RelayDropsFailure(i) ==
  /\ relay[i] = "range" /\ codes[i] # <<>>
  /\ codes' = [codes EXCEPT ![i] = <<>>]
  /\ IF Head(codes[i]) = "success"
     THEN relay' = [relay EXCEPT ![i] = Head(codes[i])]
     ELSE UNCHANGED relay
  /\ UNCHANGED <<shut, done, prog, printed>>

\* for code := range codes: a final code goes to done, others are dropped.
RelayTake(i) ==
  /\ relay[i] = "range" /\ codes[i] # <<>>
  /\ codes' = [codes EXCEPT ![i] = <<>>]
  /\ IF Head(codes[i]) \in Final
     THEN relay' = [relay EXCEPT ![i] = Head(codes[i])]
     ELSE UNCHANGED relay
  /\ UNCHANGED <<shut, done, prog, printed>>

\* done <- code
RelayPut(i) ==
  /\ relay[i] \in Final /\ done[i] = <<>>
  /\ done' = [done EXCEPT ![i] = <<relay[i]>>]
  /\ relay' = [relay EXCEPT ![i] = "range"]
  /\ UNCHANGED <<codes, shut, prog, printed>>

\* The channel is closed and drained: the deferred close(done).  Progress
\* then reads zero codes from done, which it ignores.
RelayEnd(i) ==
  /\ relay[i] = "range" /\ codes[i] = <<>> /\ i \in shut
  /\ relay' = [relay EXCEPT ![i] = "ended"]
  /\ UNCHANGED <<codes, shut, done, prog, printed>>

\* progress receives a final code, prints the outcome and returns.
ProgressEnd(i) ==
  /\ prog[i] = "poll" /\ done[i] # <<>>
  /\ done' = [done EXCEPT ![i] = <<>>]
  /\ printed' = [printed EXCEPT ![i] = Head(done[i])]
  /\ prog' = [prog EXCEPT ![i] = "delete"]
  /\ UNCHANGED <<codes, shut, relay>>

\* delete(ongoing, desc); wg.Done()
ProgressDelete(i) ==
  /\ prog[i] = "delete"
  /\ ongoing' = [ongoing EXCEPT ![i[1]] = 0]
  /\ prog' = [prog EXCEPT ![i] = "finished"]
  /\ UNCHANGED <<codes, shut, relay, done, printed>>

RelayStep(i) ==
  /\ RelayTake(i) \/ RelayPut(i) \/ RelayEnd(i)
  /\ UNCHANGED <<envVars, mainVars, ongoing>>

ProgressStep(i) ==
  /\ \/ ProgressEnd(i) /\ UNCHANGED ongoing
     \/ ProgressDelete(i)
  /\ UNCHANGED <<envVars, mainVars>>

Alive(A) == dpc \notin {"returned", "thrown"} /\ A

Next ==
  \/ Alive(Send) \/ Alive(CloseStream)
  \/ Alive(DisplayStep) \/ Alive(MapRace)
  \/ Alive(\E i \in Instances : RelayStep(i) \/ ProgressStep(i))

\* Goroutines that can run are scheduled; nothing is assumed of the sender.
Fairness ==
  /\ WF_vars(Alive(DisplayStep))
  /\ \A i \in Instances :
       WF_vars(Alive(RelayStep(i))) /\ WF_vars(Alive(ProgressStep(i)))

Spec == Init /\ [][Next]_vars
FairSpec == Spec /\ Fairness

-----------------------------------------------------------------------------
(* Properties.                                                             *)

\* The type invariant: every variable stays in its range.
TypeOK ==
  /\ in \in {<<>>} \union {<<s>> : s \in [stage : Stages, code : Codes]}
  /\ inClosed \in BOOLEAN /\ failed \in BOOLEAN
  /\ sent \in [Stages -> {"none", "open", "echoed"} \union Final]
  /\ dpc \in {"loop", "forward", "closing", "wait", "returned", "thrown"}
  /\ held \in {<<>>} \union {<<h>> : h \in [inst : Instances, code : Codes]}
  /\ ongoing \in [Stages -> 0 .. 2] /\ made \in [Stages -> 0 .. 2]
  /\ codes \in [Instances -> {<<>>} \union {<<c>> : c \in Codes}]
  /\ shut \subseteq Instances
  /\ relay \in [Instances -> {"none", "range", "ended"} \union Final]
  /\ done \in [Instances -> {<<>>} \union {<<c>> : c \in Final}]
  /\ prog \in [Instances -> {"none", "poll", "delete", "finished"}]
  /\ printed \in [Instances -> {"none"} \union Final]

\* When Display returns at the end of the stream, the user has been shown the
\* outcome of every stage, the one its sender reported, and the hint about
\* the logs goes to stderr iff one of them failed.
OutcomesShown ==
  dpc = "returned" =>
    /\ \A s \in Stages : sent[s] # "none" =>
         printed[<<s, 1>>] = (IF sent[s] = "echoed" THEN "success" ELSE sent[s])
    /\ failed <=> \E i \in Instances : printed[i] = "failure"

\* The entry that Display forwards a code to is never a channel it closed,
\* and never one whose relay has ended: no send on a closed channel, no code
\* sent to nobody.
ForwardedToLive ==
  dpc = "forward" => LET i == Head(held).inst IN i \notin shut /\ relay[i] \notin {"none", "ended"}

\* Display returns once the stream has ended, unless the runtime throws on
\* the unsynchronised map, or a stage was completed twice and given a second
\* entry (against which StopFinishes is checked).
DisplayReturns ==
  inClosed ~> \/ dpc \in {"returned", "thrown"}
              \/ \E s \in Stages : made[s] = 2

\* "Stop notify the cmdline interface internals to finish and performs the
\* necessary cleanup": once Display has called cli.Stop() the goroutines it
\* waits for finish.
StopFinishes == dpc = "wait" ~> dpc \in {"returned", "thrown"}
=============================================================================
