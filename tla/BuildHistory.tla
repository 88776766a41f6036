---------------------------- MODULE BuildHistory -----------------------------
(***************************************************************************)
(* What a storage.Store promises of one application's builds (the          *)
(* interfaces Creator, Updater and Deleter of pkg/storage/storage.go):     *)
(* storage that exists or not and, in it, a set of builds that changes by  *)
(* one build at a time, or is deleted as a whole.                          *)
(***************************************************************************)
CONSTANT Builds             \* build IDs

VARIABLES exists, builds

historyVars == <<exists, builds>>

Init == exists = FALSE /\ builds = {}

Create(b) == ~exists /\ exists' = TRUE /\ builds' = {b}

Add(b) ==
  /\ exists /\ b \notin builds
  /\ builds' = builds \union {b} /\ UNCHANGED exists

Remove(b) ==
  /\ exists /\ b \in builds
  /\ builds' = builds \ {b} /\ UNCHANGED exists

Clear == exists /\ exists' = FALSE /\ builds' = {}

Next == Clear \/ \E b \in Builds : Create(b) \/ Add(b) \/ Remove(b)

Spec == Init /\ [][Next]_historyVars
=============================================================================
