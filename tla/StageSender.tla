----------------------------- MODULE StageSender -----------------------------
(***************************************************************************)
(* What cmdline.Display may assume of the stream it is given, and what     *)
(* Builder.Up promises of it: one stage at a time, "started" first, a      *)
(* final code last, and the channel closed with no stage open.  A stage in *)
(* Echoed may be told "success" a second time: the azure builder's Push    *)
(* completes the build stage again.  "logging" counts as "ongoing".        *)
(***************************************************************************)
EXTENDS Naturals, Sequences

CONSTANTS
  Stages,       \* the stage descriptions
  Echoed        \* stages whose Complete is called a second time (azure Push)

ASSUME StageSenderAssumption == Echoed \subseteq Stages

VARIABLES
  in,           \* the summaries channel, capacity 1
  inClosed,     \* it has been closed
  sent          \* stage |-> what its sender has told so far

senderVars == <<in, inClosed, sent>>

Final == {"success", "failure"}
Codes == Final \union {"started", "ongoing"}

InitSender ==
  /\ in = <<>> /\ inClosed = FALSE
  /\ sent = [s \in Stages |-> "none"]

Put(s, code) ==
  /\ ~inClosed /\ in = <<>>
  /\ in' = <<[stage |-> s, code |-> code]>>

NoneOpen == \A t \in Stages : sent[t] # "open"

\* The next summary of a stage.
SendOne ==
  /\ \E s \in Stages :
       \/ /\ sent[s] = "none" /\ NoneOpen
          /\ Put(s, "started") /\ sent' = [sent EXCEPT ![s] = "open"]
       \/ /\ sent[s] = "open"
          /\ Put(s, "ongoing") /\ UNCHANGED sent
       \/ /\ sent[s] = "open"
          /\ \E c \in Final : Put(s, c) /\ sent' = [sent EXCEPT ![s] = c]
       \/ /\ sent[s] = "success" /\ s \in Echoed /\ NoneOpen
          /\ Put(s, "success") /\ sent' = [sent EXCEPT ![s] = "echoed"]
  /\ UNCHANGED inClosed

CloseIn ==
  /\ ~inClosed /\ NoneOpen
  /\ inClosed' = TRUE
  /\ UNCHANGED <<in, sent>>

\* The receiver takes a summary.
Take ==
  /\ in # <<>> /\ in' = <<>>
  /\ UNCHANGED <<inClosed, sent>>

SenderSpec == InitSender /\ [][SendOne \/ CloseIn \/ Take]_senderVars
=============================================================================
