---------------------------- MODULE SummaryStream ----------------------------
(***************************************************************************)
(* The channel of build summaries that Builder.Up creates and hands to     *)
(* every stage (pkg/builder/builder.go): `ch := make(chan *Summary, 1)`.   *)
(* A stage writes to it with the closure that Summarize returns and ends   *)
(* with Complete; both block while the buffer is full.  The text of a      *)
(* summary is left out: only its stage and its status code matter here.    *)
(***************************************************************************)
EXTENDS Naturals, Sequences

CONSTANTS
  ChanCap,                  \* capacity of Up's channel (1 in the code)
  Faults                    \* the calls made by the stages that may fail

ASSUME ChanCapAssumption == ChanCap \in Nat \ {0}

VARIABLE out                \* summaries sent and not yet received

Stages == {"build", "push", "release"}
Codes  == {"started", "ongoing", "logging", "success", "failure"}
Errors == {"nil", "err"}    \* a Go error value: nil or not

Summary == [stage : Stages, code : Codes]

\* One call of the closure made by Summarize: blocks while the buffer is full.
Summarize(stage, code) ==
  /\ Len(out) < ChanCap
  /\ out' = Append(out, [stage |-> stage, code |-> code])

\* The deferred Complete of a stage: its last summary, success or failure.
Complete(stage, err) ==
  Summarize(stage, IF err = "nil" THEN "success" ELSE "failure")

TypeOKStream ==
  /\ out \in Seq(Summary)
  /\ Len(out) <= ChanCap
=============================================================================
