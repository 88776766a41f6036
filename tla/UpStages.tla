------------------------------ MODULE UpStages -------------------------------
(***************************************************************************)
(* What Builder.Up promises to its caller, without goroutines or channels: *)
(* the stages run one after the other, a stage begins only when every      *)
(* stage before it succeeded, the outcome is recorded once, after the last *)
(* stage that ran, and only then does the stream of summaries end.  A      *)
(* process that dies stops taking steps.                                   *)
(***************************************************************************)
VARIABLES
  registry,                 \* TRUE iff a registry is configured
  result,                   \* stage |-> "none", "running", "ok" or "failed"
  recorded,                 \* what the build history was told, or "none"
  ended                     \* the stream of summaries has been closed

stageVars == <<registry, result, recorded, ended>>

Before(s) == CASE s = "build"   -> {}
               [] s = "push"    -> {"build"}
               [] s = "release" -> IF registry THEN {"build", "push"} ELSE {"build"}

Init ==
  /\ registry \in BOOLEAN
  /\ result = [s \in {"build", "push", "release"} |-> "none"]
  /\ recorded = "none"
  /\ ended = FALSE

Begin(s) ==
  /\ recorded = "none" /\ result[s] = "none"
  /\ s = "push" => registry
  /\ \A b \in Before(s) : result[b] = "ok"
  /\ result' = [result EXCEPT ![s] = "running"]
  /\ UNCHANGED <<recorded, ended>>

End(s) ==
  /\ result[s] = "running"
  /\ \E r \in {"ok", "failed"} : result' = [result EXCEPT ![s] = r]
  /\ UNCHANGED <<recorded, ended>>

\* "lost": the store refused the record.
Record ==
  /\ recorded = "none"
  /\ \A s \in DOMAIN result : result[s] # "running"
  /\ \/ \E s \in DOMAIN result : result[s] = "failed"
     \/ result["release"] = "ok"
  /\ \/ recorded' = "lost"
     \/ recorded' = IF result["release"] = "ok" THEN "released" ELSE "unreleased"
  /\ UNCHANGED <<result, ended>>

EndStream ==
  /\ recorded # "none" /\ ~ended
  /\ ended' = TRUE
  /\ UNCHANGED <<result, recorded>>

Next ==
  /\ \/ \E s \in {"build", "push", "release"} : Begin(s) \/ End(s)
     \/ Record \/ EndStream
  /\ UNCHANGED registry

Spec == Init /\ [][Next]_stageVars
=============================================================================
