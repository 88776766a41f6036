------------------------- MODULE AppLifecycleProofs --------------------------
(***************************************************************************)
(* Proofs about the commands of one application's life, for any number of  *)
(* commands at work at the same time.                                      *)
(***************************************************************************)
EXTENDS AppLifecycle, TLAPS

\* The steps of an up that has made its log file.
Logged == {"build", "helm", "save", "displayed", "latest", "get_pod", "connected"}

\* Storage that does not exist holds no build, so that Create loses none.
NoStorage == ~exists => builds = {}

\* The log file of an up is there when it looks for the latest build.
OwnLog == \A r \in Runs : cmd[r] = "up" /\ pc[r] \in Logged => r \in logs

\* What an up has found by then is its own build or a newer one.
FoundForward == \A r \in Runs : cmd[r] = "up" /\ target[r] # 0 => target[r] >= r

\* A command that has not started has found nothing.
NothingFound == \A r \in Runs : At(r, "none") => target[r] = 0

IInv ==
  /\ TypeOK
  /\ NoStorage /\ ReleaseIsRecorded
  /\ OwnLog /\ FoundForward /\ NothingFound

-----------------------------------------------------------------------------
\* The invariant holds when the commands are started.
LEMMA InitIInv == Init => IInv
  BY LifecycleAssumption DEF Init, IInv, TypeOK, NoStorage, ReleaseIsRecorded, OwnLog,
     FoundForward, NothingFound, Logged, At, History!Init, Runs

-----------------------------------------------------------------------------
\* Where the actions send a command.
Names ==
  /\ {"prepare", "open_log", "build", "helm", "save", "displayed", "latest", "get_pod",
      "connected", "follow", "delete_builds", "delete_release", "cleanup"} \subseteq Steps
  /\ {"ok", "failed", "no_history", "crashed"} \subseteq Ended

\* They are names of steps and of endings.
LEMMA StepNames == Names
  BY DEF Names, Steps, Ended

\* Where Latest sends a command.
LEMMA LatestGoesOn == \A c \in Commands \union {"none"} : AfterLatest(c) \subseteq Steps \union Ended
  BY DEF AfterLatest, Steps, Ended

\* A command goes on: the program counters and what is undone stay in range.
LEMMA GotoTypes ==
  ASSUME TypeOK, NEW r \in Runs, NEW s \in Steps \union Ended, Goto(r, s) \/ End(r, s)
  PROVE  /\ pc' \in [Runs -> {"none"} \union Steps \union Ended]
         /\ undone' \in [Runs -> SUBSET Writes]
  BY DEF TypeOK, Goto, End

\* The types.
LEMMA TypeStep == TypeOK /\ [Next]_vars => TypeOK'
<1> SUFFICES ASSUME TypeOK, [Next]_vars PROVE TypeOK'
  OBVIOUS
<1> DEFINE Types == /\ pc' \in [Runs -> {"none"} \union Steps \union Ended]
                    /\ undone' \in [Runs -> SUBSET Writes]
<1>s. Names
  BY StepNames
<1> USE DEF Names
<1>1. ASSUME NEW r \in Runs, NEW c \in Commands, Start(r, c) PROVE TypeOK'
  <2>1. FirstStep(c) \in Steps
    BY <1>s DEF FirstStep
  <2>2. Types
    BY <1>1, <2>1, GotoTypes DEF Start
  <2> QED
    BY <1>1, <2>2 DEF Start, TypeOK, sharedVars
<1>2. ASSUME NEW r \in Runs, Prepare(r) \/ OpenLog(r) \/ BuildAndPush(r) \/ Displayed(r)
      PROVE  TypeOK'
  <2>1. Types
    BY <1>2, <1>s, GotoTypes DEF Prepare, OpenLog, BuildAndPush, Displayed
  <2> QED
    BY <1>2, <2>1 DEF Prepare, OpenLog, BuildAndPush, Displayed, TypeOK, sharedVars
<1>3. ASSUME NEW r \in Runs, Helm(r) PROVE TypeOK'
  <2>1. Types
    BY <1>3, <1>s, GotoTypes DEF Helm, TypeOK
  <2> QED
    BY <1>3, <2>1 DEF Helm, TypeOK
<1>4. ASSUME NEW r \in Runs, SaveState(r) PROVE TypeOK'
  <2>1. Types
    BY <1>4, <1>s, GotoTypes DEF SaveState
  <2> QED
    BY <1>4, <2>1 DEF SaveState, TypeOK, History!Create, History!Add
<1>5. ASSUME NEW r \in Runs,
             Latest(r) \/ GetPod(r) \/ Connected(r) \/ Follow(r) \/ Cleanup(r)
      PROVE  TypeOK'
  <2>1. AfterLatest(cmd[r]) \subseteq Steps \union Ended
    BY LatestGoesOn DEF TypeOK
  <2>2. Types
    <3>1. CASE Latest(r)
      BY <3>1, <1>s, <2>1, GotoTypes DEF Latest
    <3> QED
      BY <1>5, <3>1, <1>s, GotoTypes DEF GetPod, Connected, Follow, Cleanup
  <2> QED
    BY <1>5, <2>2 DEF Latest, GetPod, Connected, Follow, Cleanup, TypeOK, sharedVars
<1>6. ASSUME NEW r \in Runs, DeleteBuilds(r) \/ DeleteRelease(r) PROVE TypeOK'
  <2>1. Types
    BY <1>6, <1>s, GotoTypes DEF DeleteBuilds, DeleteRelease
  <2> QED
    BY <1>6, <2>1 DEF DeleteBuilds, DeleteRelease, TypeOK, History!Clear
<1>7. ASSUME NEW r \in Runs, Kill(r) PROVE TypeOK'
  <2>1. Types
    BY <1>7, <1>s, GotoTypes DEF Kill
  <2> QED
    BY <1>7, <2>1 DEF Kill, TypeOK, History!Create, History!Add, History!Clear
<1>8. CASE UNCHANGED vars
  BY <1>8 DEF vars, runVars, sharedVars, TypeOK
<1> QED
  BY <1>1, <1>2, <1>3, <1>4, <1>5, <1>6, <1>7, <1>8 DEF Next, Step, UpStep

-----------------------------------------------------------------------------
\* The release is recorded, or excused: an up that has released has "save"
\* before it or among what it left undone, and so for a delete.
LEMMA RecordedStep ==
  IInv /\ [Next]_vars => NoStorage' /\ ReleaseIsRecorded'
<1> SUFFICES ASSUME IInv, [Next]_vars PROVE NoStorage' /\ ReleaseIsRecorded'
  OBVIOUS
<1> USE DEF IInv, NoStorage, At
<1>s. Names
  BY StepNames
<1>t. TypeOK /\ TypeOK'
  BY TypeStep
<1>r. \A r \in Runs : r # 0
  BY LifecycleAssumption DEF Runs
\* A step that keeps what is shared, of a run that is at no writing step.
<1>1. ASSUME NEW r \in Runs, UNCHANGED sharedVars, pc[r] \notin Writes,
             \A q \in Runs \ {r} : pc'[q] = pc[q],
             \A q \in Runs : undone[q] \subseteq undone'[q]
      PROVE  NoStorage' /\ ReleaseIsRecorded'
  BY <1>1, <1>t DEF sharedVars, ReleaseIsRecorded, TypeOK, Writes
<1>2. ASSUME NEW r \in Runs, NEW c \in Commands, Start(r, c)
      PROVE  NoStorage' /\ ReleaseIsRecorded'
  <2>1. pc[r] \notin Writes
    BY <1>2 DEF Start, Writes
  <2> QED
    BY <1>1, <1>2, <1>t, <2>1 DEF Start, Goto, TypeOK
<1>3. ASSUME NEW r \in Runs,
             \/ Prepare(r) \/ BuildAndPush(r) \/ Displayed(r)
             \/ Latest(r) \/ GetPod(r) \/ Connected(r) \/ Follow(r) \/ Cleanup(r)
      PROVE  NoStorage' /\ ReleaseIsRecorded'
  <2>1. pc[r] \notin Writes /\ UNCHANGED sharedVars
    BY <1>3 DEF Prepare, BuildAndPush, Displayed, Latest, GetPod, Connected, Follow, Cleanup,
       Writes
  <2>2. \E s \in Steps \union Ended : Goto(r, s) \/ End(r, s)
    <3>1. CASE Prepare(r)
      BY <3>1, <1>s DEF Prepare, Names
    <3>2. CASE BuildAndPush(r)
      BY <3>2, <1>s DEF BuildAndPush, Names
    <3>3. CASE Displayed(r)
      BY <3>3, <1>s DEF Displayed, Names
    <3>4. CASE Latest(r)
      BY <3>4, <1>s, <1>t, LatestGoesOn DEF Latest, Names, TypeOK
    <3>5. CASE GetPod(r) \/ Connected(r) \/ Follow(r) \/ Cleanup(r)
      BY <3>5, <1>s DEF GetPod, Connected, Follow, Cleanup, Names
    <3> QED
      BY <1>3, <3>1, <3>2, <3>3, <3>4, <3>5
  <2>3. /\ \A q \in Runs \ {r} : pc'[q] = pc[q]
        /\ \A q \in Runs : undone[q] \subseteq undone'[q]
    BY <2>2, <1>t DEF Goto, End, TypeOK
  <2> QED
    BY <1>1, <2>1, <2>3
<1>4. ASSUME NEW r \in Runs, OpenLog(r) PROVE NoStorage' /\ ReleaseIsRecorded'
  BY <1>4, <1>t DEF OpenLog, Goto, End, Writes, ReleaseIsRecorded, TypeOK
<1>5. ASSUME NEW r \in Runs, Helm(r) PROVE NoStorage' /\ ReleaseIsRecorded'
  <2>1. NoStorage'
    BY <1>5 DEF Helm
  <2>2. CASE Goto(r, "save") /\ UNCHANGED release
    BY <1>5, <2>2, <1>t DEF Helm, Goto, ReleaseIsRecorded, TypeOK
  <2>3. CASE release' = r /\ pc' = [pc EXCEPT ![r] = "save"]
    <3>1. pc'[release'] = "save"
      BY <2>3, <1>t DEF TypeOK
    <3> QED
      BY <2>1, <3>1 DEF ReleaseIsRecorded
  <2> QED
    BY <1>5, <2>1, <2>2, <2>3 DEF Helm
<1>6. ASSUME NEW r \in Runs, SaveState(r) PROVE NoStorage' /\ ReleaseIsRecorded'
  <2>1. CASE (History!Create(r) \/ History!Add(r)) /\ Goto(r, "displayed")
    BY <1>6, <2>1, <1>t DEF SaveState, Goto, ReleaseIsRecorded, TypeOK, History!Create, History!Add
  <2>2. CASE UNCHANGED <<exists, builds>> /\ End(r, "displayed")
    BY <1>6, <2>2, <1>t DEF SaveState, End, Writes, ReleaseIsRecorded, TypeOK
  <2> QED
    BY <1>6, <2>1, <2>2 DEF SaveState
<1>7. ASSUME NEW r \in Runs, DeleteBuilds(r) PROVE NoStorage' /\ ReleaseIsRecorded'
  <2>1. NoStorage'
    BY <1>7 DEF DeleteBuilds, History!Clear
  <2>2. \/ pc'[r] = "delete_release" 
        \/ "delete_builds" \in undone'[r]
    BY <1>7, <1>t DEF DeleteBuilds, Goto, End, Writes, TypeOK
  <2> QED
    BY <2>1, <2>2 DEF ReleaseIsRecorded
<1>8. ASSUME NEW r \in Runs, DeleteRelease(r) PROVE NoStorage' /\ ReleaseIsRecorded'
  <2>1. NoStorage'
    BY <1>8 DEF DeleteRelease
  <2>2. release' = 0 \/ "delete_release" \in undone'[r]
    BY <1>8, <1>t DEF DeleteRelease, End, Writes, TypeOK
  <2> QED
    BY <2>1, <2>2 DEF ReleaseIsRecorded
<1>9. ASSUME NEW r \in Runs, Kill(r) PROVE NoStorage' /\ ReleaseIsRecorded'
  <2>1. NoStorage'
    BY <1>9 DEF Kill, History!Create, History!Add, History!Clear
  <2>2. /\ \A q \in Runs \ {r} : pc'[q] = pc[q]
        /\ \A q \in Runs : undone[q] \subseteq undone'[q]
        /\ pc[r] \in Writes => pc[r] \in undone'[r]
    BY <1>9, <1>t DEF Kill, End, TypeOK
  <2>3. CASE UNCHANGED <<exists, builds, release>>
    BY <2>1, <2>2, <2>3, <1>t DEF ReleaseIsRecorded, TypeOK, Writes
  <2>4. CASE At(r, "helm") /\ release' = r
    BY <2>1, <2>2, <2>4 DEF ReleaseIsRecorded, Writes
  <2>5. CASE At(r, "save") /\ (History!Create(r) \/ History!Add(r)) /\ UNCHANGED release
    <3>1. builds \subseteq builds' /\ r \in builds'
      BY <2>5 DEF History!Create, History!Add
    <3> QED
      BY <2>1, <2>2, <2>5, <3>1, <1>t DEF ReleaseIsRecorded, TypeOK, Writes
  <2>6. CASE At(r, "delete_builds") /\ History!Clear
    BY <2>1, <2>2, <2>6 DEF ReleaseIsRecorded, Writes
  <2>7. CASE At(r, "delete_release") /\ release' = 0
    BY <2>1, <2>7 DEF ReleaseIsRecorded
  <2> QED
    BY <1>9, <2>3, <2>4, <2>5, <2>6, <2>7 DEF Kill
<1>10. CASE UNCHANGED vars
  BY <1>10 DEF vars, runVars, sharedVars, ReleaseIsRecorded
<1> QED
  BY <1>2, <1>3, <1>4, <1>5, <1>6, <1>7, <1>8, <1>9, <1>10 DEF Next, Step, UpStep

-----------------------------------------------------------------------------
\* An up comes to look for the latest build by way of OpenLog, no log file is
\* ever removed, and Latest takes the last.
LEMMA ForwardStep == IInv /\ [Next]_vars => OwnLog' /\ FoundForward' /\ NothingFound'
<1> DEFINE Forward == OwnLog' /\ FoundForward' /\ NothingFound'
<1> SUFFICES ASSUME IInv, [Next]_vars PROVE Forward
  OBVIOUS
<1> USE DEF IInv, At
<1>t. TypeOK /\ TypeOK'
  BY TypeStep
<1>n. \A r \in Runs : r \in Nat
  BY LifecycleAssumption DEF Runs
\* A step that removes no log file, finds no build, and takes no run among
\* those that have a log file but from among them.
<1>1. ASSUME NEW r \in Runs, logs \subseteq logs', UNCHANGED <<cmd, target>>,
             \A q \in Runs \ {r} : pc'[q] = pc[q], pc'[r] # "none",
             pc'[r] \in Logged => pc[r] \in Logged \/ r \in logs'
      PROVE  Forward
  BY <1>1 DEF OwnLog, FoundForward, NothingFound
<1>2. ASSUME NEW r \in Runs, NEW c \in Commands, Start(r, c) PROVE Forward
  <2>1. pc[r] = "none" /\ pc' = [pc EXCEPT ![r] = FirstStep(c)]
        /\ cmd' = [cmd EXCEPT ![r] = c] /\ UNCHANGED <<logs, target>>
    BY <1>2 DEF Start, Goto, sharedVars
  <2>2. FirstStep(c) # "none" /\ (c = "up" => FirstStep(c) \notin Logged)
    BY DEF FirstStep, Logged
  <2>3. OwnLog'
    BY <2>1, <2>2, <1>t DEF OwnLog, TypeOK
  <2>4. FoundForward'
    BY <2>1, <1>t DEF FoundForward, NothingFound, TypeOK
  <2>5. NothingFound'
    BY <2>1, <2>2, <1>t DEF NothingFound, TypeOK
  <2> QED
    BY <2>3, <2>4, <2>5
<1>3. ASSUME NEW r \in Runs, Prepare(r) \/ OpenLog(r) \/ DeleteBuilds(r) \/ DeleteRelease(r)
                              \/ Follow(r) \/ Cleanup(r) \/ Kill(r)
      PROVE  Forward
  <2>1. /\ UNCHANGED <<cmd, target>> /\ logs \subseteq logs'
        /\ \E s \in {"open_log", "build", "delete_release", "cleanup", "ok", "no_history",
                    "failed", "crashed"} :
             (s = "build" => r \in logs') /\ (Goto(r, s) \/ End(r, s))
    BY <1>3 DEF Prepare, OpenLog, DeleteBuilds, DeleteRelease, Follow, Cleanup, Kill,
       sharedVars
  <2> QED
    BY <1>1, <2>1, <1>t DEF Goto, End, Logged, TypeOK
<1>4. ASSUME NEW r \in Runs,
             \/ BuildAndPush(r) \/ Helm(r) \/ SaveState(r) \/ Displayed(r)
             \/ GetPod(r) \/ Connected(r)
      PROVE  Forward
  <2>1. /\ UNCHANGED <<logs, cmd, target>> /\ pc[r] \in Logged
        /\ \E s \in Logged \union Ended : pc' = [pc EXCEPT ![r] = s]
    BY <1>4 DEF BuildAndPush, Helm, SaveState, Displayed, GetPod, Connected, Goto, End,
       Logged, Ended, sharedVars
  <2>2. "none" \notin Logged \union Ended
    BY DEF Logged, Ended
  <2> QED
    BY <1>1, <2>1, <2>2, <1>t DEF TypeOK
<1>5. ASSUME NEW r \in Runs, Latest(r) PROVE Forward
  <2>1. CASE End(r, "failed") /\ UNCHANGED target
    BY <1>1, <1>5, <2>1, <1>t DEF Latest, End, Logged, TypeOK, sharedVars
  <2>2. CASE \E b \in logs : /\ \A l \in logs : l <= b
                           /\ target' = [target EXCEPT ![r] = b]
                           /\ \E step \in AfterLatest(cmd[r]) : Goto(r, step)
    <3>1. PICK b \in logs : /\ \A l \in logs : l <= b
                            /\ target' = [target EXCEPT ![r] = b]
                            /\ \E step \in AfterLatest(cmd[r]) : Goto(r, step)
      BY <2>2
    <3>2. cmd[r] = "up" => r \in logs /\ r <= b
      BY <1>5, <3>1 DEF Latest, OwnLog, Logged
    <3>3. UNCHANGED <<logs, cmd>> /\ pc[r] = "latest"
      BY <1>5 DEF Latest, sharedVars
    <3>4. PICK step \in AfterLatest(cmd[r]) : pc' = [pc EXCEPT ![r] = step]
      BY <3>1 DEF Goto
    <3>5. step # "none"
      BY DEF AfterLatest
    <3>6. OwnLog'
      BY <3>2, <3>3, <3>4, <1>t DEF OwnLog, Logged, TypeOK
    <3>7. b \in Nat
      BY <1>n, <1>t DEF TypeOK
    <3>8. FoundForward'
      BY <3>1, <3>2, <3>3, <3>7, <1>n, <1>t DEF FoundForward, TypeOK
    <3>9. NothingFound'
      BY <3>1, <3>3, <3>4, <3>5, <1>t DEF NothingFound, TypeOK
    <3> QED
      BY <3>6, <3>8, <3>9
  <2> QED
    BY <1>5, <2>1, <2>2 DEF Latest
<1>6. CASE UNCHANGED vars
  BY <1>6 DEF vars, runVars, sharedVars, OwnLog, FoundForward, NothingFound
<1> QED
  BY <1>2, <1>3, <1>4, <1>5, <1>6 DEF Next, Step, UpStep

-----------------------------------------------------------------------------
\* The inductive invariant holds of every behaviour, for any number of commands.
THEOREM LifecycleInvariant == Spec => []IInv
<1>1. IInv /\ [Next]_vars => IInv'
  BY TypeStep, RecordedStep, ForwardStep DEF IInv
<1> QED
  BY InitIInv, <1>1, PTL DEF Spec

\* Every variable of the commands stays in its range.
THEOREM LifecycleTypeOK == Spec => []TypeOK
<1>1. IInv => TypeOK
  BY DEF IInv
<1> QED
  BY LifecycleInvariant, <1>1, PTL

\* The release that runs is in the history, or a command between or stopped
\* between its two steps accounts for it.
THEOREM LifecycleReleaseIsRecorded == Spec => []ReleaseIsRecorded
<1>1. IInv => ReleaseIsRecorded
  BY DEF IInv
<1> QED
  BY LifecycleInvariant, <1>1, PTL

\* An up never connects to a pod of an older build than its own.
THEOREM LifecycleConnectsForward == Spec => []ConnectsForward
<1>1. IInv => ConnectsForward
  BY DEF IInv, FoundForward, ConnectsForward
<1> QED
  BY LifecycleInvariant, <1>1, PTL
=============================================================================
