--------------------------- MODULE BuilderUpProofs ---------------------------
(***************************************************************************)
(* Proofs about `draft up`: for any images, any capacity of the channel    *)
(* and any set of calls that may fail.                                     *)
(*                                                                         *)
(* The inductive invariant IInv has, besides the types, what Push knows of *)
(* its own goroutines (PushInv) and what Up knows of a Push it has called  *)
(* (UpInv).  The second half is about what the receiver is told: it agrees *)
(* with what is stored, and the stream is one Display is made for.         *)
(***************************************************************************)
EXTENDS BuilderUp, SequenceTheorems, TLAPS

\* What holds of Push, whoever runs it: no pusher runs before the starter, an
\* error is in errc until the caller has taken it, errc is open until every
\* pusher has been spawned, and a caller about to return nil has seen errc
\* closed and drained and every pusher finished.
PushInv ==
  /\ ppc \in {"idle", "start"} \/ ~registry => starter = "none"
  /\ starter = "none" => \A i \in Images : pusher[i] = "none"
  /\ \A i \in Images : pusher[i] = "failed" => errc # <<>> \/ perr = "err"
  /\ "errc" \in pnil => errc = <<>>
  /\ ppc \in {"complete", "returned"} /\ perr = "nil" /\ registry =>
       pnil = PushChans /\ \A i \in Images : pusher[i] \in Finished
  /\ ppc \notin {"complete", "returned"} => perr = "nil"
  /\ starter \in {"none", "auth", "spawn"} => "errc" \notin pclosed

\* Up calls Push once, after Build, and releases only if it returned nil.
UpInv ==
  /\ upc \in {"new_context", "build"} => ppc = "idle"
  /\ upc \in {"release", "prepare", "announce", "helm", "status", "notes", "release_complete"}
       => ppc = "returned" /\ perr = "nil"
  /\ objRelease => ppc = "returned" /\ perr = "nil"

\* The inductive invariant.
IInv == TypeOK /\ PushInv /\ UpInv

-----------------------------------------------------------------------------
\* A summary that fits leaves the buffer a sequence of summaries within its
\* capacity.
LEMMA SummarizeType ==
  ASSUME TypeOKStream, NEW s \in Stages, NEW c \in Codes, Summarize(s, c)
  PROVE  TypeOKStream'
<1>1. [stage |-> s, code |-> c] \in Summary
  BY DEF Summary
<1> QED BY <1>1, ChanCapAssumption DEF TypeOKStream, Summarize

\* The same for the last summary of a stage.
LEMMA CompleteType ==
  ASSUME TypeOKStream, NEW s \in Stages, NEW e \in Errors, Complete(s, e)
  PROVE  TypeOKStream'
  BY SummarizeType DEF Complete, Codes

\* Build's caller keeps the types of its state and of the channel.
LEMMA BuildCallerType ==
  ASSUME TypeOKStream, TypeOKBuild, CallerStep
  PROVE  TypeOKStream' /\ TypeOKBuild'
<1>1. CASE BuildStart
  BY <1>1, SummarizeType DEF BuildStart, TypeOKBuild, Stages, Codes
<1>2. CASE BuildRecvErr
  BY <1>2 DEF BuildRecvErr, BuildPolling, TypeOKBuild, TypeOKStream, Errors
<1>3. CASE BuildRecvClosed
  BY <1>3 DEF BuildRecvClosed, BuildPolling, TypeOKBuild, TypeOKStream
<1>4. CASE BuildDefault
  BY <1>4 DEF BuildDefault, BuildPolling, TypeOKBuild, TypeOKStream
<1>5. CASE BuildOngoing
  BY <1>5, SummarizeType DEF BuildOngoing, TypeOKBuild, Stages, Codes
<1>6. CASE BuildLoopEnd
  BY <1>6 DEF BuildLoopEnd, TypeOKBuild, TypeOKStream
<1>7. CASE BuildComplete
  BY <1>7, CompleteType DEF BuildComplete, TypeOKBuild, Stages
<1> QED BY <1>1, <1>2, <1>3, <1>4, <1>5, <1>6, <1>7 DEF CallerStep

\* So does Build's worker.
LEMMA BuildWorkerType ==
  ASSUME TypeOKStream, TypeOKBuild, WorkerStep
  PROVE  TypeOKStream' /\ TypeOKBuild'
<1> USE DEF WorkerGoes, TypeOKBuild, TypeOKStream, BuildChans
<1>1. CASE WorkerAuth
  BY <1>1 DEF WorkerAuth
<1>2. CASE WorkerImageBuild
  BY <1>2 DEF WorkerImageBuild
<1>3. CASE WorkerStream
  BY <1>3 DEF WorkerStream
<1>4. CASE WorkerInspect
  BY <1>4 DEF WorkerInspect
<1>5. CASE WorkerClose
  BY <1>5 DEF WorkerClose
<1> QED BY <1>1, <1>2, <1>3, <1>4, <1>5 DEF WorkerStep

\* Every step of Push, whichever goroutine takes it, keeps the types of
\* Push's state and of the channel.
LEMMA PushType ==
  ASSUME TypeOKStream, TypeOKPush,
         PushCallerStep \/ StarterStep \/ \E i \in Images : PusherStep(i)
  PROVE  TypeOKStream' /\ TypeOKPush'
<1>1. CASE PushSkip
  BY <1>1 DEF PushSkip, TypeOKPush, TypeOKStream
<1>2. CASE PushStart
  BY <1>2, SummarizeType DEF PushStart, TypeOKPush, Stages, Codes
<1>3. CASE PushRecvErr
  BY <1>3 DEF PushRecvErr, PushPolling, TypeOKPush, TypeOKStream, Errors, ErrcCap
<1>4. CASE PushRecvClosed
  BY <1>4 DEF PushRecvClosed, PushPolling, TypeOKPush, TypeOKStream
<1>5. CASE PushDefault
  BY <1>5 DEF PushDefault, PushPolling, TypeOKPush, TypeOKStream
<1>6. CASE PushOngoing
  BY <1>6, SummarizeType DEF PushOngoing, TypeOKPush, Stages, Codes
<1>7. CASE PushWait
  BY <1>7 DEF PushWait, TypeOKPush, TypeOKStream
<1>8. CASE PushComplete
  BY <1>8, CompleteType DEF PushComplete, TypeOKPush, Stages
<1>9. CASE StarterAuth
  BY <1>9 DEF StarterAuth, TypeOKPush, TypeOKStream, ErrcCap
<1>10. CASE \E i \in Images : StarterSpawn(i)
  BY <1>10 DEF StarterSpawn, TypeOKPush, TypeOKStream
<1>11. CASE StarterClose
  BY <1>11 DEF StarterClose, TypeOKPush, TypeOKStream, PushChans
<1>12. CASE \E i \in Images : PusherStep(i)
  <2> PICK i \in Images : PusherStep(i)
    BY <1>12
  <2>1. CASE PusherPush(i)
    BY <2>1 DEF PusherPush, PusherGoes, TypeOKPush, TypeOKStream
  <2>2. CASE PusherStream(i)
    BY <2>2 DEF PusherStream, PusherGoes, TypeOKPush, TypeOKStream, Finished
  <2>3. CASE PusherSendErr(i)
    BY <2>3 DEF PusherSendErr, PusherGoes, TypeOKPush, TypeOKStream, Finished, ErrcCap
  <2> QED BY <2>1, <2>2, <2>3 DEF PusherStep
<1> QED BY <1>1, <1>2, <1>3, <1>4, <1>5, <1>6, <1>7, <1>8, <1>9, <1>10, <1>11, <1>12
        DEF PushCallerStep, StarterStep

\* What a step does not touch keeps its type.
LEMMA PartsKept ==
  ASSUME TypeOKStream, TypeOKBuild, TypeOKPush
  PROVE  /\ UNCHANGED out       => TypeOKStream'
         /\ UNCHANGED buildVars => TypeOKBuild'
         /\ UNCHANGED pushVars  => TypeOKPush'
<1>1. UNCHANGED out => TypeOKStream'
  BY DEF TypeOKStream
<1>2. UNCHANGED buildVars => TypeOKBuild'
  BY DEF TypeOKBuild, buildVars
<1>3. UNCHANGED pushVars => TypeOKPush'
  BY DEF TypeOKPush, pushVars
<1> QED BY <1>1, <1>2, <1>3

\* The summary received is one, and the rest of the buffer has its type.
LEMMA ReceiveType ==
  ASSUME TypeOKStream, out # <<>>, out' = Tail(out)
  PROVE  TypeOKStream' /\ Head(out) \in Summary
<1>1. Len(out) \in Nat /\ Len(Tail(out)) = Len(out) - 1 /\ Tail(out) \in Seq(Summary)
  BY DEF TypeOKStream
<1> QED BY <1>1, ChanCapAssumption DEF TypeOKStream

\* What the steps of Up's own goroutine leave in range.
LEMMA UpStepType ==
  ASSUME TypeOK, UpStep, UNCHANGED registry
  PROVE  TypeOK'
<1> USE PartsKept DEF TypeOK, Errors
<1>1. CASE NewAppContext
  <2>1. TypeOKStream' /\ TypeOKPush'
    BY <1>1 DEF NewAppContext
  <2>2. TypeOKBuild'
    BY <1>1 DEF NewAppContext, TypeOKBuild
  <2> QED BY <1>1, <2>1, <2>2 DEF NewAppContext
<1>2. CASE BuildReturned
  <2>1. TypeOKStream' /\ TypeOKBuild'
    BY <1>2 DEF BuildReturned
  <2>2. TypeOKPush'
    BY <1>2 DEF BuildReturned, TypeOKPush
  <2> QED BY <1>2, <2>1, <2>2 DEF BuildReturned
<1>3. CASE PushReturned
  BY <1>3 DEF PushReturned
<1>4. ASSUME NEW from, NEW code \in Codes,
             NEW tos \in SUBSET {"prepare", "helm", "notes", "release_complete"},
             ReleaseSays(from, code, tos)
      PROVE  TypeOK'
  <2>1. TypeOKStream'
    BY <1>4, SummarizeType DEF ReleaseSays, Stages
  <2> QED BY <1>4, <2>1 DEF ReleaseSays
<1>5. CASE ReleaseStart
  BY <1>4, <1>5 DEF ReleaseStart, Codes
<1>6. CASE ReleasePrepare
  BY <1>6 DEF ReleasePrepare
<1>7. CASE ReleaseAnnounce
  BY <1>4, <1>7 DEF ReleaseAnnounce, Codes
<1>8. CASE ReleaseHelm
  BY <1>8 DEF ReleaseHelm
<1>9. CASE ReleaseStatus
  BY <1>4, <1>9 DEF ReleaseStatus, Codes
<1>10. CASE ReleaseNotes
  BY <1>4, <1>10 DEF ReleaseNotes, Codes
<1>11. CASE ReleaseComplete
  <2>1. TypeOKStream'
    BY <1>11, CompleteType DEF ReleaseComplete, Stages
  <2> QED BY <1>11, <2>1 DEF ReleaseComplete
<1>12. CASE SaveState
  BY <1>12 DEF SaveState
<1> QED BY <1>1, <1>2, <1>3, <1>5, <1>6, <1>7, <1>8, <1>9, <1>10, <1>11, <1>12 DEF UpStep

\* The type invariant is inductive by itself.
LEMMA TypeNext == TypeOK /\ [Next]_vars => TypeOK'
<1> SUFFICES ASSUME TypeOK, [Next]_vars PROVE TypeOK'
  OBVIOUS
<1> USE PartsKept DEF TypeOK, Running
<1>1. CASE UNCHANGED vars
  BY <1>1 DEF vars, upVars
<1>2. CASE Running(UpStep)
  BY <1>2, UpStepType
<1>3. CASE Running(BuildCallerStep \/ BuildWorkerStep)
  <2>1. TypeOKStream' /\ TypeOKBuild'
    BY <1>3, BuildCallerType, BuildWorkerType DEF BuildCallerStep, BuildWorkerStep
  <2> QED BY <1>3, <2>1 DEF BuildCallerStep, BuildWorkerStep, upVars
<1>4. CASE Running(PushCaller) \/ Running(PushStarter) \/ Running(\E i \in Images : PushPusher(i))
  <2>1. TypeOKStream' /\ TypeOKPush' /\ UNCHANGED <<buildVars, upVars>>
    BY <1>4, PushType DEF PushCaller, PushStarter, PushPusher
  <2> QED BY <1>4, <2>1 DEF upVars
<1>5. CASE Running(CloseStream)
  BY <1>5 DEF CloseStream
<1>6. CASE Running(Receive)
  <2>1. TypeOKStream' /\ Head(out) \in Summary
    BY <1>6, ReceiveType DEF Receive
  <2>2. shown' \in [Stages -> {"none", "started", "success", "failure"}]
    <3>1. Head(out).stage \in Stages /\ Head(out).code \in Codes
      BY <2>1 DEF Summary
    <3> QED BY <1>6, <3>1 DEF Receive, Codes
  <2> QED BY <1>6, <2>1, <2>2 DEF Receive
<1>7. CASE Running(Exit)
  BY <1>7 DEF Exit
<1>8. CASE Running(Crash)
  BY <1>8 DEF Crash
<1>9. CASE Stopped
  BY <1>1, <1>9 DEF Stopped
<1> QED BY <1>1, <1>2, <1>3, <1>4, <1>5, <1>6, <1>7, <1>8, <1>9 DEF Next

\* PushInv is about Push's own state.
LEMMA PushInvKept == PushInv /\ UNCHANGED <<pushVars, registry>> => PushInv'
  BY DEF PushInv, pushVars

\* Push's caller keeps PushInv.
LEMMA PushCallerInv ==
  ASSUME TypeOKPush, PushInv, PushCallerStep, UNCHANGED registry
  PROVE  PushInv'
<1> USE DEF PushInv
<1>1. CASE PushSkip
  BY <1>1 DEF PushSkip
<1>2. CASE PushStart
  BY <1>2 DEF PushStart
<1>3. CASE PushRecvErr
  BY <1>3 DEF PushRecvErr, PushPolling
<1>4. CASE PushRecvClosed
  BY <1>4 DEF PushRecvClosed, PushPolling, Drained
<1>5. CASE PushDefault
  BY <1>5 DEF PushDefault, PushPolling
<1>6. CASE PushOngoing
  BY <1>6 DEF PushOngoing
<1>7. CASE PushWait
  BY <1>7 DEF PushWait
<1>8. CASE PushComplete
  BY <1>8 DEF PushComplete
<1> QED BY <1>1, <1>2, <1>3, <1>4, <1>5, <1>6, <1>7, <1>8 DEF PushCallerStep

\* So does the starter: once it has closed errc it sends nothing.
LEMMA PushStarterInv ==
  ASSUME TypeOKPush, PushInv, StarterStep, UNCHANGED registry
  PROVE  PushInv'
<1> USE DEF PushInv
<1>1. CASE StarterAuth
  BY <1>1 DEF StarterAuth, TypeOKPush
<1>2. CASE \E i \in Images : StarterSpawn(i)
  BY <1>2 DEF StarterSpawn, TypeOKPush, Finished
<1>3. CASE StarterClose
  BY <1>3 DEF StarterClose
<1> QED BY <1>1, <1>2, <1>3 DEF StarterStep

\* And the pushers: a send puts an error in errc, or finds errc closed.
LEMMA PushPusherInv ==
  ASSUME TypeOKPush, PushInv, NEW i \in Images, PusherStep(i), UNCHANGED registry
  PROVE  PushInv'
<1> USE DEF PushInv, PusherGoes, TypeOKPush
<1>1. CASE PusherPush(i)
  BY <1>1 DEF PusherPush, Finished
<1>2. CASE PusherStream(i)
  BY <1>2 DEF PusherStream, Finished
<1>3. CASE PusherSendErr(i)
  BY <1>3 DEF PusherSendErr, Finished
<1> QED BY <1>1, <1>2, <1>3 DEF PusherStep

\* Every step of the program keeps PushInv.
LEMMA PushInvNext == IInv /\ [Next]_vars => PushInv'
<1> SUFFICES ASSUME IInv, [Next]_vars PROVE PushInv'
  OBVIOUS
<1> USE DEF IInv, Running, TypeOK
<1>1. CASE Running(PushCaller)
  BY <1>1, PushCallerInv DEF PushCaller
<1>2. CASE Running(PushStarter)
  BY <1>2, PushStarterInv DEF PushStarter
<1>3. CASE Running(\E i \in Images : PushPusher(i))
  BY <1>3, PushPusherInv DEF PushPusher
<1>4. CASE Running(UpStep) /\ BuildReturned
  BY <1>4 DEF BuildReturned, PushInv, UpInv
<1>5. CASE Running(UpStep) /\ ~BuildReturned
  <2>1. UNCHANGED <<pushVars, registry>>
    BY <1>5 DEF UpStep, NewAppContext, PushReturned, ReleaseStart, ReleasePrepare, ReleaseAnnounce,
                ReleaseHelm, ReleaseStatus, ReleaseNotes, ReleaseComplete, ReleaseSays, SaveState
  <2> QED BY <2>1, PushInvKept
<1>6. CASE \/ Running(BuildCallerStep) \/ Running(BuildWorkerStep) \/ Running(CloseStream)
           \/ Running(Receive) \/ Running(Exit) \/ Running(Crash) \/ Stopped \/ UNCHANGED vars
  <2>1. UNCHANGED <<pushVars, registry>>
    BY <1>6 DEF BuildCallerStep, BuildWorkerStep, CloseStream, Receive, Exit, Crash, Stopped, vars
  <2> QED BY <2>1, PushInvKept
<1> QED BY <1>1, <1>2, <1>3, <1>4, <1>5, <1>6 DEF Next

\* And UpInv.
LEMMA UpInvNext == IInv /\ [Next]_vars => UpInv'
<1> SUFFICES ASSUME IInv, [Next]_vars PROVE UpInv'
  OBVIOUS
<1> USE DEF IInv, UpInv, Running
<1>1. CASE Running(UpStep)
  <2>1. CASE NewAppContext
    BY <1>1, <2>1 DEF NewAppContext, pushVars
  <2>2. CASE BuildReturned
    BY <1>1, <2>2 DEF BuildReturned
  <2>3. CASE PushReturned
    BY <1>1, <2>3 DEF PushReturned, pushVars
  <2>4. CASE ReleaseStart \/ ReleaseAnnounce \/ ReleaseStatus \/ ReleaseNotes
    BY <1>1, <2>4 DEF ReleaseStart, ReleaseAnnounce, ReleaseStatus, ReleaseNotes, ReleaseSays, pushVars
  <2>5. CASE ReleasePrepare \/ ReleaseHelm \/ ReleaseComplete \/ SaveState
    BY <1>1, <2>5 DEF ReleasePrepare, ReleaseHelm, ReleaseComplete, SaveState, pushVars
  <2> QED BY <1>1, <2>1, <2>2, <2>3, <2>4, <2>5 DEF UpStep
<1>2. CASE Running(PushCaller)
  BY <1>2 DEF PushCaller, PushCallerStep, PushSkip, PushStart, PushRecvErr, PushRecvClosed, PushPolling,
              PushDefault, PushOngoing, PushWait, PushComplete, upVars
<1>3. CASE Running(PushStarter) \/ Running(\E i \in Images : PushPusher(i))
  BY <1>3 DEF PushStarter, StarterStep, StarterAuth, StarterSpawn, StarterClose,
              PushPusher, PusherStep, PusherPush, PusherStream, PusherSendErr, upVars
<1>4. CASE \/ Running(BuildCallerStep) \/ Running(BuildWorkerStep) \/ Running(CloseStream)
           \/ Running(Receive) \/ Running(Exit) \/ Running(Crash) \/ Stopped \/ UNCHANGED vars
  BY <1>4 DEF BuildCallerStep, BuildWorkerStep, CloseStream, Receive, Exit, Crash, Stopped,
              vars, pushVars, upVars
<1> QED BY <1>1, <1>2, <1>3, <1>4 DEF Next

\* The inductive invariant holds of every behaviour.
THEOREM UpInvariant == Spec => []IInv
<1>1. Init => IInv
  <2> SUFFICES ASSUME Init PROVE IInv
    OBVIOUS
  <2>1. TypeOK
    <3>1. TypeOKStream
      BY ChanCapAssumption DEF Init, TypeOKStream
    <3>2. TypeOKBuild
      BY DEF Init, InitBuild, TypeOKBuild, Errors
    <3>3. TypeOKPush
      BY DEF Init, InitPush, TypeOKPush, Errors, ErrcCap
    <3> QED BY <3>1, <3>2, <3>3 DEF Init, TypeOK, Errors
  <2>2. PushInv /\ UpInv
    BY DEF Init, InitPush, PushInv, UpInv
  <2> QED BY <2>1, <2>2 DEF IInv
<1>2. IInv /\ [Next]_vars => IInv'
  BY TypeNext, PushInvNext, UpInvNext DEF IInv
<1> QED BY <1>1, <1>2, PTL DEF Spec

\* Every variable stays in its range: in particular the channel never holds
\* more than its capacity and errc never more than one error.
THEOREM UpTypeOK == Spec => []TypeOK
  BY UpInvariant, PTL DEF IInv

\* Push never returns nil over an error that a pusher managed to send.
THEOREM UpPushErrorSurfaces == Spec => []PushErrorSurfaces
<1>1. IInv => PushErrorSurfaces
  BY DEF IInv, TypeOK, TypeOKPush, PushInv, PushErrorSurfaces, PushChans
<1> QED BY <1>1, UpInvariant, PTL

\* helm is reached only with every image pushed, or the process about to die
\* of a pusher's panic.
THEOREM UpReleaseAfterPush == Spec => []ReleaseAfterPush
<1>1. IInv => ReleaseAfterPush
  <2> SUFFICES ASSUME IInv, objRelease, registry, NEW i \in Images,
                      \A j \in Images : pusher[j] # "panicking"
               PROVE  pusher[i] = "pushed"
    BY DEF ReleaseAfterPush
  <2>1. ppc = "returned" /\ perr = "nil"
    BY DEF IInv, UpInv
  <2>2. pusher[i] \in Finished /\ pusher[i] # "failed"
    BY <2>1 DEF IInv, PushInv, PushChans
  <2> QED BY <2>2 DEF Finished
<1> QED BY <1>1, UpInvariant, PTL

-----------------------------------------------------------------------------
(* Up implements the stages it promises.                                   *)

\* Where each stage is when Up's goroutine is at upc, and what that goroutine
\* knows of the outcomes so far.
StageInv ==
  /\ (upc = "new_context") <=> (bpc = "idle")
  /\ upc \notin {"new_context", "build"} => bpc = "returned"
  /\ bpc \notin {"complete", "returned"} => berr = "nil"
  /\ ppc # "idle" => bpc = "returned" /\ berr = "nil"
  /\ upc = "build" => ppc = "idle"
  /\ upc \in {"save", "done"} => ppc \in {"idle", "returned"}
  /\ upc \in {"save", "done"} => berr = "err" \/ perr = "err" \/ rerr = "err" \/ objRelease
  /\ ~registry => ppc \in {"idle", "start", "returned"} /\ perr = "nil"
  /\ rerr = "err" => upc \in {"release_complete", "save", "done"} /\ ~objRelease
  /\ objRelease => upc \in {"status", "notes", "release_complete", "save", "done"}
  /\ upc \in {"status", "notes"} => objRelease
  /\ upc = "release_complete" => objRelease \/ rerr = "err"
  /\ (stored = "none") <=> (upc # "done")

\* StageInv is kept by every step, given the types and UpInv.
LEMMA StageInvNext == IInv /\ StageInv /\ [Next]_vars => StageInv'
<1> SUFFICES ASSUME IInv, StageInv, [Next]_vars PROVE StageInv'
  OBVIOUS
<1> USE DEF IInv, UpInv, StageInv, Running
<1>1. CASE Running(UpStep)
  <2>1. CASE NewAppContext
    BY <1>1, <2>1 DEF NewAppContext, pushVars
  <2>2. CASE BuildReturned
    BY <1>1, <2>2 DEF BuildReturned, buildVars, TypeOK, TypeOKBuild, Errors
  <2>3. CASE PushReturned
    BY <1>1, <2>3 DEF PushReturned, buildVars, pushVars, TypeOK, TypeOKPush, Errors
  <2>4. CASE ReleaseStart \/ ReleaseAnnounce \/ ReleaseStatus \/ ReleaseNotes
    BY <1>1, <2>4 DEF ReleaseStart, ReleaseAnnounce, ReleaseStatus, ReleaseNotes, ReleaseSays, buildVars, pushVars
  <2>5. CASE ReleasePrepare \/ ReleaseHelm
    BY <1>1, <2>5 DEF ReleasePrepare, ReleaseHelm, buildVars, pushVars
  <2>6. CASE ReleaseComplete \/ SaveState
    BY <1>1, <2>6 DEF ReleaseComplete, SaveState, buildVars, pushVars
  <2> QED BY <1>1, <2>1, <2>2, <2>3, <2>4, <2>5, <2>6 DEF UpStep
<1>2. CASE Running(BuildCallerStep)
  BY <1>2 DEF BuildCallerStep, CallerStep, BuildStart, BuildRecvErr, BuildRecvClosed, BuildPolling,
              BuildDefault, BuildOngoing, BuildLoopEnd, BuildComplete, pushVars, upVars
<1>3. CASE Running(BuildWorkerStep)
  BY <1>3 DEF BuildWorkerStep, WorkerStep, WorkerAuth, WorkerImageBuild, WorkerStream,
              WorkerInspect, WorkerClose, pushVars, upVars
<1>4. CASE Running(PushCaller)
  BY <1>4 DEF PushCaller, PushCallerStep, PushSkip, PushStart, PushRecvErr, PushRecvClosed, PushPolling,
              PushDefault, PushOngoing, PushWait, PushComplete, buildVars, upVars
<1>5. CASE Running(PushStarter) \/ Running(\E i \in Images : PushPusher(i))
  BY <1>5 DEF PushStarter, StarterStep, StarterAuth, StarterSpawn, StarterClose,
              PushPusher, PusherStep, PusherPush, PusherStream, PusherSendErr, buildVars, upVars
<1>6. CASE \/ Running(CloseStream) \/ Running(Receive) \/ Running(Exit) \/ Running(Crash)
           \/ Stopped \/ UNCHANGED vars
  BY <1>6 DEF CloseStream, Receive, Exit, Crash, Stopped, vars, buildVars, pushVars, upVars
<1> QED BY <1>1, <1>2, <1>3, <1>4, <1>5, <1>6 DEF Next

\* The promise sees an action only through the results, stored and closed.
LEMMA StageStutter ==
  ASSUME UNCHANGED <<registry, stored, closed>>, \A s \in Stages : StageResult(s)' = StageResult(s)
  PROVE  UNCHANGED UpPromise!stageVars
  BY DEF UpPromise!stageVars

\* A step after which only stage s has another result.
LEMMA StageChanges ==
  ASSUME NEW s \in Stages, NEW r,
         StageResult(s)' = r,
         \A t \in Stages \ {s} : StageResult(t)' = StageResult(t)
  PROVE  [t \in Stages |-> StageResult(t)]' = [[t \in Stages |-> StageResult(t)] EXCEPT ![s] = r]
  OBVIOUS

\* Every step of the program is a step of the promise, or a stutter.
LEMMA StageStep ==
  ASSUME IInv, StageInv, [Next]_vars
  PROVE  [UpPromise!Next]_(UpPromise!stageVars)
<1> USE DEF IInv, StageInv, UpInv, Running, Stages
<1>1. CASE Running(UpStep)
  <2>1. CASE NewAppContext
    <3> UNCHANGED <<registry, stored, closed>> /\ \A s \in Stages : StageResult(s)' = StageResult(s)
      BY <1>1, <2>1 DEF NewAppContext, pushVars, StageResult
    <3> QED BY StageStutter
  <2>2. CASE BuildReturned
    <3> UNCHANGED <<registry, stored, closed>> /\ \A s \in Stages : StageResult(s)' = StageResult(s)
      BY <1>1, <2>2 DEF BuildReturned, buildVars, StageResult
    <3> QED BY StageStutter
  <2>3. CASE PushReturned
    <3> UNCHANGED <<registry, stored, closed>> /\ \A s \in Stages : StageResult(s)' = StageResult(s)
      BY <1>1, <2>3 DEF PushReturned, buildVars, pushVars, StageResult
    <3> QED BY StageStutter
  <2>4. CASE ReleaseStart
    <3>1. /\ StageResult("release")' = "running" /\ StageResult("release") = "none"
          /\ \A t \in Stages \ {"release"} : StageResult(t)' = StageResult(t)
          /\ UNCHANGED <<registry, stored, closed>> /\ stored = "none"
      BY <1>1, <2>4 DEF ReleaseStart, ReleaseSays, buildVars, pushVars, StageResult
    <3>2. StageResult("build") = "ok" /\ (registry => StageResult("push") = "ok")
      BY <1>1, <2>4 DEF ReleaseStart, ReleaseSays, StageResult
    <3>3. UpPromise!Begin("release")
      BY <3>1, <3>2, StageChanges, PushAssumption DEF UpPromise!Begin, UpPromise!Before
    <3> QED BY <3>1, <3>3 DEF UpPromise!Next
  <2>5. CASE ReleaseAnnounce \/ ReleaseStatus \/ ReleaseNotes
    <3> UNCHANGED <<registry, stored, closed>> /\ \A s \in Stages : StageResult(s)' = StageResult(s)
      BY <1>1, <2>5 DEF ReleaseAnnounce, ReleaseStatus, ReleaseNotes, ReleaseSays, buildVars, pushVars, StageResult
    <3> QED BY StageStutter
  <2>6. CASE ReleasePrepare \/ ReleaseHelm
    <3> UNCHANGED <<registry, stored, closed>> /\ \A s \in Stages : StageResult(s)' = StageResult(s)
      BY <1>1, <2>6 DEF ReleasePrepare, ReleaseHelm, buildVars, pushVars, StageResult
    <3> QED BY StageStutter
  <2>7. CASE ReleaseComplete
    <3>1. /\ StageResult("release") = "running" /\ StageResult("release")' \in {"ok", "failed"}
          /\ \A t \in Stages \ {"release"} : StageResult(t)' = StageResult(t)
          /\ UNCHANGED <<registry, stored, closed>>
      BY <1>1, <2>7 DEF ReleaseComplete, buildVars, pushVars, StageResult
    <3>2. UpPromise!End("release")
      BY <3>1, StageChanges DEF UpPromise!End
    <3> QED BY <3>1, <3>2 DEF UpPromise!Next
  <2>8. CASE SaveState
    <3>1. /\ UNCHANGED <<registry, closed>> /\ \A s \in Stages : StageResult(s)' = StageResult(s)
          /\ stored = "none"
          /\ \A s \in Stages : StageResult(s) # "running"
      BY <1>1, <2>8 DEF SaveState, buildVars, pushVars, StageResult
    <3>2. /\ objRelease <=> StageResult("release") = "ok"
          /\ (\E s \in Stages : StageResult(s) = "failed") \/ StageResult("release") = "ok"
      <4>1. upc = "save" /\ bpc = "returned" /\ ppc \in {"idle", "returned"}
        BY <1>1, <2>8 DEF SaveState
      <4>2. objRelease <=> StageResult("release") = "ok"
        BY <4>1 DEF StageResult
      <4>3. berr = "err" => StageResult("build") = "failed"
        BY <4>1 DEF StageResult
      <4>4. perr = "err" => StageResult("push") = "failed"
        BY <4>1 DEF StageResult, PushInv
      <4>5. rerr = "err" => StageResult("release") = "failed"
        BY <4>1 DEF StageResult
      <4> QED BY <4>1, <4>2, <4>3, <4>4, <4>5
    <3>3. stored' = "lost" \/ stored' = (IF objRelease THEN "released" ELSE "unreleased")
      BY <1>1, <2>8 DEF SaveState
    <3>4. UpPromise!Record
      BY <3>1, <3>2, <3>3 DEF UpPromise!Record
    <3> QED BY <3>1, <3>4 DEF UpPromise!Next
  <2> QED BY <1>1, <2>1, <2>2, <2>3, <2>4, <2>5, <2>6, <2>7, <2>8 DEF UpStep
<1>2. CASE Running(BuildCallerStep)
  <2>1. CASE BuildStart
    <3>1. /\ StageResult("build")' = "running" /\ StageResult("build") = "none"
          /\ \A t \in Stages \ {"build"} : StageResult(t)' = StageResult(t)
          /\ UNCHANGED <<registry, stored, closed>> /\ stored = "none"
      BY <1>2, <2>1 DEF BuildCallerStep, BuildStart, pushVars, upVars, StageResult
    <3>2. UpPromise!Begin("build")
      BY <3>1, StageChanges DEF UpPromise!Begin, UpPromise!Before
    <3> QED BY <3>1, <3>2 DEF UpPromise!Next
  <2>2. CASE BuildRecvErr \/ BuildRecvClosed \/ BuildDefault \/ BuildOngoing \/ BuildLoopEnd
    <3> UNCHANGED <<registry, stored, closed>> /\ \A s \in Stages : StageResult(s)' = StageResult(s)
      BY <1>2, <2>2 DEF BuildCallerStep, BuildRecvErr, BuildRecvClosed, BuildPolling, BuildDefault,
                        BuildOngoing, BuildLoopEnd, pushVars, upVars, StageResult
    <3> QED BY StageStutter
  <2>3. CASE BuildComplete
    <3>1. /\ StageResult("build") = "running" /\ StageResult("build")' \in {"ok", "failed"}
          /\ \A t \in Stages \ {"build"} : StageResult(t)' = StageResult(t)
          /\ UNCHANGED <<registry, stored, closed>>
      BY <1>2, <2>3 DEF BuildCallerStep, BuildComplete, pushVars, upVars, StageResult
    <3>2. UpPromise!End("build")
      BY <3>1, StageChanges DEF UpPromise!End
    <3> QED BY <3>1, <3>2 DEF UpPromise!Next
  <2> QED BY <1>2, <2>1, <2>2, <2>3 DEF BuildCallerStep, CallerStep
<1>3. CASE Running(PushCaller)
  <2>1. CASE PushStart
    <3>1. /\ StageResult("push")' = "running" /\ StageResult("push") = "none" /\ registry
          /\ \A t \in Stages \ {"push"} : StageResult(t)' = StageResult(t)
          /\ UNCHANGED <<registry, stored, closed>>
      BY <1>3, <2>1 DEF PushCaller, PushStart, buildVars, upVars, StageResult
    <3>2. StageResult("build") = "ok" /\ stored = "none"
      BY <2>1 DEF PushStart, StageResult
    <3>3. UpPromise!Begin("push")
      BY <3>1, <3>2, StageChanges DEF UpPromise!Begin, UpPromise!Before
    <3> QED BY <3>1, <3>3 DEF UpPromise!Next
  <2>2. CASE PushSkip \/ PushRecvErr \/ PushRecvClosed \/ PushDefault \/ PushOngoing \/ PushWait
    <3> UNCHANGED <<registry, stored, closed>> /\ \A s \in Stages : StageResult(s)' = StageResult(s)
      BY <1>3, <2>2 DEF PushCaller, PushSkip, PushRecvErr, PushRecvClosed, PushPolling, PushDefault,
                        PushOngoing, PushWait, buildVars, upVars, StageResult
    <3> QED BY StageStutter
  <2>3. CASE PushComplete
    <3>1. /\ StageResult("push") = "running" /\ StageResult("push")' \in {"ok", "failed"}
          /\ \A t \in Stages \ {"push"} : StageResult(t)' = StageResult(t)
          /\ UNCHANGED <<registry, stored, closed>>
      BY <1>3, <2>3 DEF PushCaller, PushComplete, buildVars, upVars, StageResult
    <3>2. UpPromise!End("push")
      BY <3>1, StageChanges DEF UpPromise!End
    <3> QED BY <3>1, <3>2 DEF UpPromise!Next
  <2> QED BY <1>3, <2>1, <2>2, <2>3 DEF PushCaller, PushCallerStep
<1>4. CASE Running(CloseStream)
  <2>1. /\ stored # "none" /\ ~closed /\ closed' = TRUE /\ UNCHANGED <<registry, stored>>
        /\ \A s \in Stages : StageResult(s)' = StageResult(s)
    BY <1>4 DEF CloseStream, buildVars, pushVars, StageResult
  <2>2. UpPromise!EndStream
    BY <2>1 DEF UpPromise!EndStream
  <2> QED BY <2>1, <2>2 DEF UpPromise!Next
<1>5. CASE \/ Running(BuildWorkerStep) \/ Running(PushStarter) \/ Running(\E i \in Images : PushPusher(i))
           \/ Running(Receive) \/ Running(Exit) \/ Running(Crash) \/ Stopped \/ UNCHANGED vars
  <2>1. UNCHANGED <<registry, bpc, berr, ppc, perr, upc, rerr, objRelease, stored, closed>>
    BY <1>5 DEF BuildWorkerStep, WorkerStep, WorkerAuth, WorkerImageBuild, WorkerStream, WorkerInspect,
                WorkerClose, PushStarter, StarterStep, StarterAuth, StarterSpawn, StarterClose,
                PushPusher, PusherStep, PusherPush, PusherStream, PusherSendErr,
                Receive, Exit, Crash, Stopped, vars, buildVars, pushVars, upVars
  <2> UNCHANGED <<registry, stored, closed>> /\ \A s \in Stages : StageResult(s)' = StageResult(s)
    BY <2>1 DEF StageResult
  <2> QED BY StageStutter
<1> QED BY <1>1, <1>2, <1>3, <1>4, <1>5 DEF Next

\* `draft up` implements the promise of UpStages: stages in order, each begun
\* only when those before it succeeded, one record of the outcome after the
\* last of them, and the end of the stream after that.
THEOREM UpImplementsStages == Spec => ImplementsStages
<1>1. Init => StageInv /\ UpPromise!Init
  BY DEF Init, InitBuild, InitPush, StageInv, UpPromise!Init, StageResult, Stages
<1>2. IInv /\ StageInv /\ [Next]_vars => [UpPromise!Next]_(UpPromise!stageVars)
  BY StageStep
<1>3. Spec => []StageInv
  <2>1. Spec => []IInv
    BY UpInvariant
  <2> QED BY <1>1, <2>1, StageInvNext, PTL DEF Spec
<1> QED BY <1>1, <1>2, <1>3, UpInvariant, PTL DEF Spec, ImplementsStages, UpPromise!Spec

-----------------------------------------------------------------------------
(* What is stored of the release is what the receiver was told of it.      *)

\* The last summary of a release that succeeded.
Succeeded == [stage |-> "release", code |-> "success"]

\* The receiver is told of success only of a release that is recorded and over,
\* and of such a release it is the last thing in the channel until it is taken.
ToldInv ==
  /\ \A n \in 1 .. Len(out) : out[n] = Succeeded => objRelease /\ upc \in {"save", "done"}
  /\ shown["release"] = "success" => objRelease /\ upc \in {"save", "done"}
  /\ objRelease /\ upc \in {"save", "done"} =>
       IF out = <<>> THEN shown["release"] = "success" ELSE out[Len(out)] = Succeeded
  /\ stored = "released" => objRelease
  /\ stored = "unreleased" => ~objRelease
  /\ closed => upc = "done"

\* A summary of another kind, sent while Up still has some to send, leaves the
\* invariant as it is.
LEMMA ToldOther ==
  ASSUME TypeOKStream, ToldInv,
         NEW s \in Stages, NEW c \in Codes, Summarize(s, c),
         [stage |-> s, code |-> c] # Succeeded,
         upc' \notin {"save", "done"} \/ ~objRelease', ~closed',
         ~(objRelease /\ upc \in {"save", "done"}), UNCHANGED <<shown, objRelease, stored>>
  PROVE  ToldInv'
<1> DEFINE e == [stage |-> s, code |-> c]
<1>1. e \in Summary
  BY DEF Summary
<1>2. Len(out') = Len(out) + 1 /\ out'[Len(out')] = e /\ \A n \in 1 .. Len(out) : out'[n] = out[n]
  BY <1>1 DEF TypeOKStream, Summarize
<1>3. Len(out) \in Nat
  BY DEF TypeOKStream
<1>4. ASSUME NEW n \in 1 .. Len(out'), out'[n] = Succeeded PROVE FALSE
  <2>1. n = Len(out') \/ n \in 1 .. Len(out)
    BY <1>2, <1>3
  <2> QED
    BY <1>2, <1>4, <2>1 DEF ToldInv
<1> HIDE DEF e
<1> QED
  BY <1>4 DEF ToldInv

\* What is left when the first element has been taken.
LEMMA TailElements ==
  ASSUME NEW S, NEW q \in Seq(S), q # <<>>
  PROVE  /\ Len(q) \in Nat \ {0} /\ Len(Tail(q)) = Len(q) - 1
         /\ \A n \in 1 .. Len(Tail(q)) : n + 1 \in 1 .. Len(q) /\ Tail(q)[n] = q[n + 1]
         /\ Head(q) = q[1] /\ (Tail(q) = <<>> <=> Len(q) = 1)
<1>1. Len(q) \in Nat \ {0}
  OBVIOUS
<1>2. Tail(q) \in Seq(S) /\ Len(Tail(q)) = Len(q) - 1
  OBVIOUS
<1>3. Tail(q) = <<>> <=> Len(Tail(q)) = 0
  BY <1>2, EmptySeq
<1>4. \A n \in 1 .. Len(Tail(q)) : n + 1 \in 1 .. Len(q) /\ Tail(q)[n] = q[n + 1]
  BY <1>1, <1>2
<1> QED
  BY <1>1, <1>2, <1>3, <1>4

\* Every step of the program keeps ToldInv, given what is known of the stages.
LEMMA ToldNext == IInv /\ StageInv /\ ToldInv /\ [Next]_vars => ToldInv'
<1> SUFFICES ASSUME IInv, StageInv, ToldInv, [Next]_vars PROVE ToldInv'
  OBVIOUS
<1> USE DEF Running
<1>1. TypeOKStream /\ TypeOK
  BY DEF IInv, TypeOK
<1>2. ASSUME UNCHANGED <<out, upc, objRelease, shown, stored, closed>> PROVE ToldInv'
  BY <1>2 DEF ToldInv
<1>3. CASE Running(UpStep)
  <2>1. CASE NewAppContext \/ BuildReturned \/ PushReturned \/ ReleasePrepare \/ ReleaseHelm
    <3>1. ~objRelease /\ ~closed /\ stored = "none"
      BY <1>3, <2>1 DEF NewAppContext, BuildReturned, PushReturned, ReleasePrepare, ReleaseHelm,
                        StageInv, ToldInv
    <3>2. UNCHANGED <<out, shown, stored, closed>> /\ (objRelease' => upc' = "status")
      BY <2>1, <3>1 DEF NewAppContext, BuildReturned, PushReturned, ReleasePrepare, ReleaseHelm
    <3> QED
      BY <3>1, <3>2 DEF ToldInv
  <2>2. ASSUME NEW from, NEW c \in Codes \ {"success"}, NEW tos, ReleaseSays(from, c, tos),
               from \notin {"save", "done"}, tos \cap {"save", "done"} = {}
        PROVE  ToldInv'
    <3>1. ~closed /\ "release" \in Stages /\ [stage |-> "release", code |-> c] # Succeeded
      BY <2>2 DEF ReleaseSays, ToldInv, Stages, Succeeded
    <3> QED
      BY <1>1, <2>2, <3>1, ToldOther DEF ReleaseSays
  <2>3. CASE ReleaseStart \/ ReleaseAnnounce \/ ReleaseStatus \/ ReleaseNotes
    BY <2>2, <2>3 DEF ReleaseStart, ReleaseAnnounce, ReleaseStatus, ReleaseNotes, Codes
  <2>4. CASE ReleaseComplete
    <3>1. upc = "release_complete" /\ ~closed /\ stored = "none" /\ upc' = "save"
          /\ UNCHANGED <<objRelease, stored, closed, shown>>
      BY <2>4 DEF ReleaseComplete, StageInv, ToldInv
    <3>2. CASE rerr = "err"
      <4>1. Summarize("release", "failure") /\ ~objRelease
        BY <2>4, <3>2 DEF ReleaseComplete, Complete, StageInv
      <4>2. [stage |-> "release", code |-> "failure"] # Succeeded
        BY DEF Succeeded
      <4> QED
        BY <1>1, <3>1, <4>1, <4>2, ToldOther DEF Stages, Codes
    <3>3. CASE rerr = "nil"
      <4>1. objRelease /\ out' = Append(out, Succeeded)
        BY <2>4, <3>1, <3>3 DEF ReleaseComplete, Complete, Summarize, Succeeded, StageInv
      <4>2. Succeeded \in Summary
        BY DEF Succeeded, Summary, Stages, Codes
      <4>3. out' # <<>> /\ out'[Len(out')] = Succeeded
        BY <1>1, <4>1, <4>2 DEF TypeOKStream
      <4> QED
        BY <3>1, <4>1, <4>3 DEF ToldInv
    <3> QED
      BY <1>1, <3>2, <3>3 DEF TypeOK, Errors
  <2>5. CASE SaveState
    BY <2>5 DEF SaveState, ToldInv
  <2> QED BY <1>3, <2>1, <2>3, <2>4, <2>5 DEF UpStep
<1>4. CASE Running(BuildCallerStep)
  <2>1. upc \notin {"save", "done"} /\ ~closed /\ UNCHANGED upVars
    BY <1>4 DEF BuildCallerStep, CallerStep, BuildStart, BuildRecvErr, BuildRecvClosed, BuildPolling,
                BuildDefault, BuildOngoing, BuildLoopEnd, BuildComplete, StageInv, ToldInv
  <2>2. CASE UNCHANGED out
    BY <1>2, <2>1, <2>2 DEF upVars
  <2>3. ASSUME NEW c \in Codes, Summarize("build", c) PROVE ToldInv'
    <3>1. [stage |-> "build", code |-> c] # Succeeded
      BY DEF Succeeded
    <3> QED
      BY <1>1, <2>1, <2>3, <3>1, ToldOther DEF upVars, Stages
  <2>4. UNCHANGED out \/ \E c \in Codes : Summarize("build", c)
    BY <1>4 DEF BuildCallerStep, CallerStep, BuildStart, BuildRecvErr, BuildRecvClosed,
                BuildDefault, BuildOngoing, BuildLoopEnd, BuildComplete, Complete, Codes
  <2> QED
    BY <2>2, <2>3, <2>4
<1>5. CASE Running(PushCaller)
  <2>1. upc \notin {"save", "done"} /\ ~closed /\ UNCHANGED upVars
    BY <1>5 DEF PushCaller, PushCallerStep, PushSkip, PushStart, PushRecvErr, PushRecvClosed, PushPolling,
                PushDefault, PushOngoing, PushWait, PushComplete, StageInv, ToldInv
  <2>2. CASE UNCHANGED out
    BY <1>2, <2>1, <2>2 DEF upVars
  <2>3. ASSUME NEW c \in Codes, Summarize("push", c) PROVE ToldInv'
    <3>1. [stage |-> "push", code |-> c] # Succeeded
      BY DEF Succeeded
    <3> QED
      BY <1>1, <2>1, <2>3, <3>1, ToldOther DEF upVars, Stages
  <2>4. UNCHANGED out \/ \E c \in Codes : Summarize("push", c)
    BY <1>5 DEF PushCaller, PushCallerStep, PushSkip, PushStart, PushRecvErr, PushRecvClosed,
                PushDefault, PushOngoing, PushWait, PushComplete, Complete, Codes
  <2> QED
    BY <2>2, <2>3, <2>4
<1>6. CASE Running(BuildWorkerStep) \/ Running(PushStarter) \/ Running(\E i \in Images : PushPusher(i))
  BY <1>2, <1>6 DEF BuildWorkerStep, WorkerStep, WorkerAuth, WorkerImageBuild, WorkerStream, WorkerInspect,
              WorkerClose, PushStarter, StarterStep, StarterAuth, StarterSpawn, StarterClose,
              PushPusher, PusherStep, PusherPush, PusherStream, PusherSendErr, upVars
<1>7. CASE Running(CloseStream)
  BY <1>7 DEF CloseStream, ToldInv
<1>8. CASE Running(Receive)
  <2>1. UNCHANGED <<upc, objRelease, stored, closed>> /\ out # <<>> /\ out' = Tail(out)
    BY <1>8 DEF Receive
  <2>2. /\ Len(out) \in Nat \ {0} /\ Len(out') = Len(out) - 1
        /\ \A n \in 1 .. Len(out') : n + 1 \in 1 .. Len(out) /\ out'[n] = out[n + 1]
        /\ Head(out) = out[1] /\ (out' = <<>> <=> Len(out) = 1)
    BY <1>1, <2>1, TailElements DEF TypeOKStream
  <2>3. shown'["release"] = "success" => Head(out) = Succeeded \/ shown["release"] = "success"
    <3>1. Head(out) \in Summary
      BY <1>1, <2>1, <2>2 DEF TypeOKStream
    <3> QED
      BY <1>1, <1>8, <3>1 DEF Receive, Summary, Succeeded, TypeOK, Stages
  <2>4. Head(out) = Succeeded => shown'["release"] = "success"
    BY <1>1, <1>8 DEF Receive, Succeeded, TypeOK, Stages
  <2>5. \A n \in 1 .. Len(out') : out'[n] = Succeeded => objRelease' /\ upc' \in {"save", "done"}
    BY <2>1, <2>2 DEF ToldInv
  <2>6. shown'["release"] = "success" => objRelease' /\ upc' \in {"save", "done"}
    BY <2>1, <2>2, <2>3 DEF ToldInv
  <2>7. objRelease' /\ upc' \in {"save", "done"} =>
          IF out' = <<>> THEN shown'["release"] = "success" ELSE out'[Len(out')] = Succeeded
    BY <2>1, <2>2, <2>4 DEF ToldInv
  <2> QED
    BY <2>1, <2>5, <2>6, <2>7 DEF ToldInv
<1>9. CASE Running(Exit) \/ Running(Crash) \/ Stopped \/ UNCHANGED vars
  BY <1>2, <1>9 DEF Exit, Crash, Stopped, vars, upVars
<1> QED BY <1>3, <1>4, <1>5, <1>6, <1>7, <1>8, <1>9 DEF Next

\* When the stream has ended, the build history says of the release what the
\* receiver was told of it, unless the store refused the record.
THEOREM UpHistoryAgreesWithStream == Spec => []HistoryAgreesWithStream
<1>1. Init => StageInv /\ ToldInv
  BY DEF Init, InitBuild, InitPush, StageInv, ToldInv, Stages
<1>2. IInv /\ StageInv /\ ToldInv => HistoryAgreesWithStream
  BY DEF IInv, TypeOK, StageInv, ToldInv, HistoryAgreesWithStream
<1> QED
  BY <1>1, <1>2, UpInvariant, StageInvNext, ToldNext, PTL DEF Spec

-----------------------------------------------------------------------------
(* The stream is one that Display is made for.                             *)

\* What a summary leaves a stage at, and what the receiver was told of it.
After(code) == IF code \in {"success", "failure"} THEN code ELSE "open"
ShownAs(s)  == IF shown[s] = "started" THEN "open" ELSE shown[s]

\* The same of a stage with what is in the channel, if its capacity is one.
Tells(s) == IF out # <<>> /\ out[1].stage = s THEN After(out[1].code) ELSE ShownAs(s)

\* What a stage that is there has told.
Named(result) ==
  CASE result = "none"    -> "none"
    [] result = "running" -> "open"
    [] result = "ok"      -> "success"
    [] OTHER              -> "failure"

\* Each stage has told what it has come to, and what is in the channel follows
\* on what the receiver was told.
FeedInv ==
  /\ \A s \in Stages : Tells(s) = Named(StageResult(s))
  /\ out # <<>> =>
       shown[out[1].stage] = IF out[1].code = "started" THEN "none" ELSE "started"

\* The channel as StageSender has it.
FeedIn == [n \in DOMAIN out |->
             IF out[n].code = "logging" THEN [out[n] EXCEPT !.code = "ongoing"] ELSE out[n]]
FeedSent == [s \in Stages |-> Told(s)]

\* A channel of capacity one that is not empty has one summary.
LEMMA OneSummary ==
  ASSUME ChanCap = 1, TypeOKStream, out # <<>>
  PROVE  Len(out) = 1 /\ DOMAIN out = 1 .. 1 /\ out[1] \in Summary
<1>1. Len(out) \in Nat \ {0} /\ DOMAIN out = 1 .. Len(out)
  BY EmptySeq DEF TypeOKStream
<1>2. Len(out) = 1
  BY <1>1 DEF TypeOKStream
<1> QED
  BY <1>1, <1>2 DEF TypeOKStream

\* With a channel of capacity one, Told is Tells.
LEMMA ToldIsTells ==
  ASSUME ChanCap = 1, TypeOK, FeedInv, NEW s \in Stages
  PROVE  Told(s) = Tells(s)
<1> DEFINE codes == {IF out[n].code = "logging" THEN "ongoing" ELSE out[n].code :
                       n \in {k \in DOMAIN out : out[k].stage = s}} \union {shown[s]}
<1>1. shown[s] \in {"none", "started", "success", "failure"}
  BY DEF TypeOK
<1>2. CASE out = <<>>
  <2>1. codes = {shown[s]}
    BY <1>2
  <2> HIDE DEF codes
  <2>2. Told(s) = ShownAs(s)
    BY <1>1, <2>1 DEF Told, ShownAs, codes
  <2> QED
    BY <1>2, <2>2 DEF Tells
<1>3. CASE out # <<>>
  <2>1. DOMAIN out = {1} /\ out[1] \in Summary
    <3>1. DOMAIN out = 1 .. 1 /\ out[1] \in Summary
      BY <1>3, OneSummary DEF TypeOK
    <3> QED
      BY <3>1
  <2>2. CASE out[1].stage # s
    <3>1. codes = {shown[s]}
      BY <2>1, <2>2
    <3> HIDE DEF codes
    <3>2. Told(s) = ShownAs(s)
      BY <1>1, <3>1 DEF Told, ShownAs, codes
    <3> QED
      BY <2>2, <3>2 DEF Tells
  <2>3. CASE out[1].stage = s
    <3> DEFINE c == out[1].code
    <3>1. codes = {IF c = "logging" THEN "ongoing" ELSE c, shown[s]}
      BY <2>1, <2>3
    <3>2. c \in Codes /\ shown[s] = IF c = "started" THEN "none" ELSE "started"
      BY <1>3, <2>1, <2>3 DEF FeedInv, Summary
    <3> HIDE DEF codes
    <3>3. Told(s) = After(c)
      BY <3>1, <3>2 DEF Told, After, Codes, codes
    <3> QED
      BY <1>3, <2>3, <3>3 DEF Tells
  <2> QED
    BY <2>2, <2>3
<1> QED
  BY <1>2, <1>3

\* The two of all the stages, in this state and in the next.
LEMMA ToldIsTellsOfAll ==
  ChanCap = 1 /\ TypeOK /\ FeedInv => \A s \in Stages : Told(s) = Tells(s)
  BY ToldIsTells

\* The same of the next state.
LEMMA ToldIsTellsNext ==
  (ChanCap = 1 /\ TypeOK /\ FeedInv)' => (\A s \in Stages : Told(s) = Tells(s))'
  BY ToldIsTellsOfAll, PTL

\* What StageSender sees of a channel of capacity one.
LEMMA FeedInIs ==
  ASSUME ChanCap = 1, TypeOKStream
  PROVE  /\ out = <<>> <=> FeedIn = <<>>
         /\ out # <<>> =>
              FeedIn = <<[stage |-> out[1].stage,
                          code |-> IF out[1].code = "logging" THEN "ongoing" ELSE out[1].code]>>
<1>1. CASE out = <<>>
  BY <1>1 DEF FeedIn
<1>2. CASE out # <<>>
  <2>1. DOMAIN out = 1 .. 1 /\ out[1] \in Summary
    BY <1>2, OneSummary
  <2> DEFINE e == [stage |-> out[1].stage,
                   code |-> IF out[1].code = "logging" THEN "ongoing" ELSE out[1].code]
  <2>2. (IF out[1].code = "logging" THEN [out[1] EXCEPT !.code = "ongoing"] ELSE out[1]) = e
    BY <2>1 DEF Summary
  <2>3. FeedIn = [n \in 1 .. 1 |-> e]
    BY <2>1, <2>2 DEF FeedIn
  <2> HIDE DEF e
  <2>4. [n \in 1 .. 1 |-> e] = <<e>>
    OBVIOUS
  <2>5. <<e>> # <<>>
    OBVIOUS
  <2> QED
    BY <1>2, <2>3, <2>4, <2>5 DEF e
<1> QED
  BY <1>1, <1>2

\* A summary that a stage sends when it begins, while it runs or when it ends
\* is one that StageSender sends.
LEMMA SendStep ==
  ASSUME ChanCap = 1, TypeOK, TypeOK', FeedInv, ~closed, UNCHANGED <<closed, shown>>,
         NEW s \in Stages, NEW c \in Codes, Summarize(s, c),
         StageResult(s) = IF c = "started" THEN "none" ELSE "running",
         c = "started" => \A t \in Stages : StageResult(t) # "running",
         Named(StageResult(s)') = After(c),
         \A t \in Stages \ {s} : StageResult(t)' = StageResult(t)
  PROVE  FeedInv' /\ Feed!SendOne
<1> DEFINE e == [stage |-> s, code |-> c]
<1>1. out = <<>> /\ e \in Summary
  <2>1. out # <<>> => Len(out) \in Nat \ {0}
    BY EmptySeq DEF TypeOK, TypeOKStream
  <2> QED
    BY <2>1 DEF Summarize, Summary
<1>2. out' = <<e>>
  BY <1>1 DEF Summarize
<1>3. out' # <<>> /\ out'[1] = e
  BY <1>2
<1>4. e.stage = s /\ e.code = c
  OBVIOUS
<1> HIDE DEF e
<1>5. \A t \in Stages : ShownAs(t) = Named(StageResult(t))
  BY <1>1 DEF FeedInv, Tells
<1>6. \A t \in Stages : Tells(t)' = IF t = s THEN After(c) ELSE ShownAs(t)
  BY <1>3, <1>4 DEF Tells, ShownAs, After
<1>7. shown[s] = IF c = "started" THEN "none" ELSE "started"
  <2>1. shown[s] \in {"none", "started", "success", "failure"}
    BY DEF TypeOK
  <2> QED
    BY <1>5, <2>1 DEF ShownAs, Named
<1>8. FeedInv'
  <2>1. \A t \in Stages : Tells(t)' = Named(StageResult(t)')
    BY <1>5, <1>6
  <2>2. shown'[out'[1].stage] = IF out'[1].code = "started" THEN "none" ELSE "started"
    BY <1>3, <1>4, <1>7
  <2> QED
    BY <2>1, <2>2 DEF FeedInv, Tells, Named
<1>9. FeedIn = <<>> /\ FeedIn' = <<[stage |-> s, code |-> IF c = "logging" THEN "ongoing" ELSE c]>>
  <2>1. FeedIn = <<>>
    BY <1>1, FeedInIs DEF TypeOK
  <2>2. (out # <<>> =>
          FeedIn = <<[stage |-> out[1].stage,
                      code |-> IF out[1].code = "logging" THEN "ongoing" ELSE out[1].code]>>)'
    BY FeedInIs, PTL DEF TypeOK
  <2> QED
    BY <1>3, <1>4, <2>1, <2>2
<1>10. \A t \in Stages : Told(t) = Named(StageResult(t))
  BY ToldIsTells DEF FeedInv
<1>11. \A t \in Stages : Told(t)' = Named(StageResult(t)')
  <2>1. (ChanCap = 1 /\ TypeOK /\ FeedInv)'
    BY <1>8
  <2>2. (\A t \in Stages : Told(t) = Tells(t))'
    BY <2>1, ToldIsTellsNext
  <2> QED
    BY <1>8, <2>2 DEF FeedInv
<1>12. FeedSent' = [FeedSent EXCEPT ![s] = After(c)]
  BY <1>10, <1>11 DEF FeedSent
<1>13. FeedSent[s] = IF c = "started" THEN "none" ELSE "open"
  BY <1>10 DEF FeedSent, Named
<1>14. c = "started" => \A t \in Stages : FeedSent[t] # "open"
  BY <1>10 DEF FeedSent, Named
<1>15. Feed!Put(s, IF c = "logging" THEN "ongoing" ELSE c)
  BY <1>9 DEF Feed!Put, FeedIn
<1>16. CASE c = "started"
  BY <1>8, <1>12, <1>13, <1>14, <1>15, <1>16 DEF Feed!SendOne, Feed!NoneOpen, FeedSent, After
<1>17. CASE c \in {"ongoing", "logging"}
  <2>1. FeedSent' = FeedSent
    BY <1>12, <1>13, <1>17 DEF FeedSent, After
  <2> QED
    BY <1>8, <1>13, <1>15, <1>17, <2>1 DEF Feed!SendOne, FeedSent
<1>18. CASE c \in {"success", "failure"}
  BY <1>8, <1>12, <1>13, <1>15, <1>18 DEF Feed!SendOne, Feed!Final, FeedSent, After
<1> QED
  BY <1>16, <1>17, <1>18 DEF Codes

\* A step that neither sends nor receives, and leaves every stage at what it
\* has come to, is a stutter of StageSender.
LEMMA QuietStep ==
  ASSUME FeedInv, UNCHANGED <<out, shown, closed>>,
         \A s \in Stages : StageResult(s)' = StageResult(s)
  PROVE  FeedInv' /\ UNCHANGED Feed!senderVars
<1>1. FeedInv'
  BY DEF FeedInv, Tells, ShownAs, After, Named
<1>2. UNCHANGED Feed!senderVars
  BY DEF Feed!senderVars, Told
<1> QED
  BY <1>1, <1>2

\* The receiver is StageSender's.
LEMMA ReceiveStep ==
  ASSUME ChanCap = 1, TypeOK, TypeOK', FeedInv, Receive, UNCHANGED registry
  PROVE  FeedInv' /\ Feed!Take
<1>1. out # <<>> /\ UNCHANGED closed /\ \A s \in Stages : StageResult(s)' = StageResult(s)
  BY DEF Receive, StageResult, buildVars, pushVars
<1>2. Len(out) = 1 /\ out[1] \in Summary /\ Head(out) = out[1]
  BY <1>1, OneSummary DEF TypeOK, TypeOKStream
<1>3. out' = <<>>
  BY <1>1, <1>2, TailElements DEF Receive, TypeOK, TypeOKStream
<1>4. \A s \in Stages : ShownAs(s)' = Tells(s)
  <2> SUFFICES ASSUME NEW s \in Stages PROVE ShownAs(s)' = Tells(s)
    OBVIOUS
  <2>1. shown[out[1].stage] = IF out[1].code = "started" THEN "none" ELSE "started"
    BY <1>1 DEF FeedInv
  <2>2. shown' = IF out[1].code \in {"ongoing", "logging"} THEN shown
                 ELSE [shown EXCEPT ![out[1].stage] = out[1].code]
    BY <1>2 DEF Receive
  <2>3. out[1].stage \in Stages /\ out[1].code \in Codes
    BY <1>2 DEF Summary
  <2>4. CASE out[1].stage # s
    <3>1. shown'[s] = shown[s]
      BY <2>2, <2>3, <2>4 DEF TypeOK
    <3> QED
      BY <2>4, <3>1 DEF ShownAs, Tells
  <2>5. CASE out[1].stage = s
    <3>1. shown'[s] = IF out[1].code \in {"ongoing", "logging"} THEN "started" ELSE out[1].code
      BY <2>1, <2>2, <2>3, <2>5 DEF TypeOK
    <3>2. Tells(s) = After(out[1].code)
      BY <1>1, <2>5 DEF Tells
    <3> QED
      BY <2>3, <3>1, <3>2 DEF ShownAs, After, Codes
  <2> QED
    BY <2>4, <2>5
<1>5. \A s \in Stages : Tells(s)' = Tells(s)
  BY <1>3, <1>4 DEF Tells, ShownAs
<1>6. FeedInv'
  BY <1>1, <1>3, <1>5 DEF FeedInv, Named
<1>7. (ChanCap = 1 /\ TypeOK /\ FeedInv)'
  BY <1>6
<1>8. FeedSent' = FeedSent
  <2>1. \A s \in Stages : Told(s)' = Tells(s)' /\ Told(s) = Tells(s)
    BY <1>7, ToldIsTellsNext, ToldIsTells
  <2> QED
    BY <1>5, <2>1 DEF FeedSent
<1>9. FeedIn # <<>> /\ FeedIn' = <<>>
  <2>1. FeedIn # <<>>
    BY <1>1, FeedInIs DEF TypeOK
  <2>2. FeedIn' = <<>>
    BY <1>3 DEF FeedIn
  <2> QED
    BY <2>1, <2>2
<1> QED
  BY <1>1, <1>6, <1>8, <1>9 DEF Feed!Take, FeedIn, FeedSent

\* Every step of the program is one of StageSender or a stutter, while the
\* channel has capacity one.
LEMMA FeedStep ==
  ASSUME ChanCap = 1, IInv, StageInv, ToldInv, FeedInv, TypeOK', [Next]_vars
  PROVE  FeedInv' /\ [Feed!SendOne \/ Feed!CloseIn \/ Feed!Take]_(Feed!senderVars)
<1> USE DEF StageInv, UpInv, Running
<1>1. TypeOK /\ UpInv /\ (closed => upc = "done")
  BY DEF IInv, ToldInv
<1>2. CASE Running(UpStep)
  <2>1. CASE NewAppContext \/ BuildReturned \/ PushReturned \/ ReleasePrepare \/ ReleaseHelm \/ SaveState
    <3>1. UNCHANGED <<out, shown, closed>>
      BY <2>1 DEF NewAppContext, BuildReturned, PushReturned, ReleasePrepare, ReleaseHelm, SaveState
    <3>2. CASE NewAppContext \/ BuildReturned \/ PushReturned
      BY <1>1, <1>2, <3>1, <3>2, QuietStep DEF NewAppContext, BuildReturned, PushReturned, buildVars, pushVars,
                                           StageResult, Stages
    <3>3. CASE ReleasePrepare \/ ReleaseHelm \/ SaveState
      BY <1>1, <1>2, <3>1, <3>3, QuietStep DEF ReleasePrepare, ReleaseHelm, SaveState, buildVars, pushVars,
                                           StageResult, Stages
    <3> QED
      BY <2>1, <3>2, <3>3
  <2>2. CASE ReleaseStart
    <3>1. /\ StageResult("release") = "none" /\ StageResult("release")' = "running"
          /\ \A t \in Stages \ {"release"} : StageResult(t)' = StageResult(t)
          /\ \A t \in Stages : StageResult(t) # "running"
      BY <1>1, <1>2, <2>2 DEF ReleaseStart, ReleaseSays, buildVars, pushVars, StageResult, Stages
    <3>2. Summarize("release", "started") /\ ~closed /\ UNCHANGED <<closed, shown>>
      BY <1>1, <2>2 DEF ReleaseStart, ReleaseSays
    <3> QED
      BY <1>1, <3>1, <3>2, SendStep DEF Stages, Codes, Named, After
  <2>3. CASE ReleaseAnnounce \/ ReleaseStatus \/ ReleaseNotes
    <3>1. /\ StageResult("release") = "running" /\ StageResult("release")' = "running"
          /\ \A t \in Stages \ {"release"} : StageResult(t)' = StageResult(t)
      BY <1>1, <1>2, <2>3 DEF ReleaseAnnounce, ReleaseStatus, ReleaseNotes, ReleaseSays, buildVars, pushVars,
                          StageResult, Stages
    <3>2. Summarize("release", "logging") /\ ~closed /\ UNCHANGED <<closed, shown>>
      BY <1>1, <2>3 DEF ReleaseAnnounce, ReleaseStatus, ReleaseNotes, ReleaseSays
    <3> QED
      BY <1>1, <3>1, <3>2, SendStep DEF Stages, Codes, Named, After
  <2>4. CASE ReleaseComplete
    <3> DEFINE c == IF rerr = "nil" THEN "success" ELSE "failure"
    <3>1. /\ StageResult("release") = "running" /\ Named(StageResult("release")') = c
          /\ \A t \in Stages \ {"release"} : StageResult(t)' = StageResult(t)
      BY <1>1, <1>2, <2>4 DEF ReleaseComplete, buildVars, pushVars, StageResult, Stages, Named, TypeOK, Errors
    <3>2. Summarize("release", c) /\ ~closed /\ UNCHANGED <<closed, shown>>
      BY <1>1, <2>4 DEF ReleaseComplete, Complete
    <3> QED
      BY <1>1, <3>1, <3>2, SendStep DEF Stages, Codes, After
  <2> QED
    BY <1>2, <2>1, <2>2, <2>3, <2>4 DEF UpStep
<1>3. CASE Running(BuildCallerStep)
  <2>1. UNCHANGED <<closed, shown>> /\ ~closed
    BY <1>1, <1>3 DEF BuildCallerStep, CallerStep, BuildStart, BuildRecvErr, BuildRecvClosed, BuildPolling,
                      BuildDefault, BuildOngoing, BuildLoopEnd, BuildComplete, upVars
  <2>2. CASE BuildStart
    <3>1. /\ StageResult("build") = "none" /\ StageResult("build")' = "running"
          /\ \A t \in Stages \ {"build"} : StageResult(t)' = StageResult(t)
          /\ \A t \in Stages : StageResult(t) # "running"
      BY <1>1, <1>3, <2>2 DEF BuildCallerStep, BuildStart, pushVars, upVars, StageResult, Stages
    <3> QED
      BY <1>1, <2>1, <2>2, <3>1, SendStep DEF BuildStart, Stages, Codes, Named, After
  <2>3. CASE BuildRecvErr \/ BuildRecvClosed \/ BuildDefault \/ BuildLoopEnd
    BY <1>1, <1>3, <2>1, <2>3, QuietStep DEF BuildCallerStep, BuildRecvErr, BuildRecvClosed, BuildPolling,
                    BuildDefault, BuildLoopEnd, pushVars, upVars, StageResult, Stages
  <2>4. CASE BuildOngoing
    <3>1. /\ StageResult("build") = "running" /\ StageResult("build")' = "running"
          /\ \A t \in Stages \ {"build"} : StageResult(t)' = StageResult(t)
      BY <1>1, <1>3, <2>4 DEF BuildCallerStep, BuildOngoing, pushVars, upVars, StageResult, Stages
    <3> QED
      BY <1>1, <2>1, <2>4, <3>1, SendStep DEF BuildOngoing, Stages, Codes, Named, After
  <2>5. CASE BuildComplete
    <3> DEFINE c == IF berr = "nil" THEN "success" ELSE "failure"
    <3>1. /\ StageResult("build") = "running" /\ Named(StageResult("build")') = c
          /\ \A t \in Stages \ {"build"} : StageResult(t)' = StageResult(t)
      BY <1>1, <1>3, <2>5 DEF BuildCallerStep, BuildComplete, pushVars, upVars, StageResult, Stages, Named
    <3>2. Summarize("build", c)
      BY <2>5 DEF BuildComplete, Complete
    <3> QED
      BY <1>1, <2>1, <3>1, <3>2, SendStep DEF Stages, Codes, After
  <2> QED
    BY <1>3, <2>2, <2>3, <2>4, <2>5 DEF BuildCallerStep, CallerStep
<1>4. CASE Running(PushCaller)
  <2>1. UNCHANGED <<closed, shown>> /\ ~closed
    BY <1>1, <1>4 DEF PushCaller, PushCallerStep, PushSkip, PushStart, PushRecvErr, PushRecvClosed,
                      PushPolling, PushDefault, PushOngoing, PushWait, PushComplete, upVars
  <2>2. CASE PushStart
    <3>1. /\ StageResult("push") = "none" /\ StageResult("push")' = "running"
          /\ \A t \in Stages \ {"push"} : StageResult(t)' = StageResult(t)
          /\ \A t \in Stages : StageResult(t) # "running"
      BY <1>1, <1>4, <2>2 DEF PushCaller, PushStart, buildVars, upVars, StageResult, Stages
    <3> QED
      BY <1>1, <2>1, <2>2, <3>1, SendStep DEF PushStart, Stages, Codes, Named, After
  <2>3. CASE PushSkip \/ PushRecvErr \/ PushRecvClosed \/ PushDefault \/ PushWait
    BY <1>1, <1>4, <2>1, <2>3, QuietStep DEF PushCaller, PushSkip, PushRecvErr, PushRecvClosed, PushPolling,
                    PushDefault, PushWait, buildVars, upVars, StageResult, Stages
  <2>4. CASE PushOngoing
    <3>1. /\ StageResult("push") = "running" /\ StageResult("push")' = "running"
          /\ \A t \in Stages \ {"push"} : StageResult(t)' = StageResult(t)
      BY <1>1, <1>4, <2>4 DEF PushCaller, PushOngoing, buildVars, upVars, StageResult, Stages
    <3> QED
      BY <1>1, <2>1, <2>4, <3>1, SendStep DEF PushOngoing, Stages, Codes, Named, After
  <2>5. CASE PushComplete
    <3> DEFINE c == IF perr = "nil" THEN "success" ELSE "failure"
    <3>1. /\ StageResult("push") = "running" /\ Named(StageResult("push")') = c
          /\ \A t \in Stages \ {"push"} : StageResult(t)' = StageResult(t)
      BY <1>1, <1>4, <2>5 DEF PushCaller, PushComplete, buildVars, upVars, StageResult, Stages, Named
    <3>2. Summarize("push", c)
      BY <2>5 DEF PushComplete, Complete
    <3> QED
      BY <1>1, <2>1, <3>1, <3>2, SendStep DEF Stages, Codes, After
  <2> QED
    BY <1>4, <2>2, <2>3, <2>4, <2>5 DEF PushCaller, PushCallerStep
<1>5. CASE Running(CloseStream)
  <2>1. /\ ~closed /\ closed' = TRUE /\ UNCHANGED <<out, shown>>
        /\ \A s \in Stages : StageResult(s)' = StageResult(s) /\ StageResult(s) # "running"
    BY <1>5 DEF CloseStream, buildVars, pushVars, StageResult, Stages
  <2>2. FeedInv'
    BY <2>1 DEF FeedInv, Tells, ShownAs, After, Named
  <2>3. \A s \in Stages : Told(s) # "open"
    BY <1>1, <2>1, ToldIsTells DEF FeedInv, Named
  <2>4. UNCHANGED FeedIn /\ UNCHANGED FeedSent
    BY <2>1 DEF FeedIn, FeedSent, Told
  <2> QED
    BY <2>1, <2>2, <2>3, <2>4 DEF Feed!CloseIn, Feed!NoneOpen, FeedIn, FeedSent
<1>6. CASE Running(Receive)
  BY <1>1, <1>6, ReceiveStep
<1>7. CASE \/ Running(BuildWorkerStep) \/ Running(PushStarter) \/ Running(\E i \in Images : PushPusher(i))
           \/ Running(Exit) \/ Running(Crash) \/ Stopped \/ UNCHANGED vars
  <2>1. UNCHANGED <<registry, bpc, berr, ppc, perr, upc, rerr, objRelease, out, shown, closed>>
    BY <1>7 DEF BuildWorkerStep, WorkerStep, WorkerAuth, WorkerImageBuild, WorkerStream, WorkerInspect,
                WorkerClose, PushStarter, StarterStep, StarterAuth, StarterSpawn, StarterClose,
                PushPusher, PusherStep, PusherPush, PusherStream, PusherSendErr,
                Exit, Crash, Stopped, vars, buildVars, pushVars, upVars
  <2> QED
    BY <2>1, QuietStep DEF StageResult
<1> QED
  BY <1>2, <1>3, <1>4, <1>5, <1>6, <1>7 DEF Next

\* With the capacity that Up gives its channel, the stream is one that Display
\* is made for: the stages as brackets, one at a time, and the end after them.
THEOREM UpFeedsDisplay ==
  ASSUME ChanCap = 1
  PROVE  Spec => FeedsDisplay
<1>1. Init => StageInv /\ ToldInv /\ FeedInv
  <2> SUFFICES ASSUME Init PROVE StageInv /\ ToldInv /\ FeedInv
    OBVIOUS
  <2>1. StageInv /\ ToldInv
    BY DEF Init, InitBuild, InitPush, StageInv, ToldInv, Stages
  <2>2. FeedInv
    BY DEF Init, InitBuild, InitPush, FeedInv, Tells, ShownAs, Named, StageResult, Stages
  <2> QED
    BY <2>1, <2>2
<1>2. Init /\ IInv /\ FeedInv => Feed!InitSender
  <2> SUFFICES ASSUME Init, IInv, FeedInv PROVE Feed!InitSender
    OBVIOUS
  <2>1. FeedIn = <<>>
    BY FeedInIs DEF Init, IInv, TypeOK
  <2>2. \A s \in Stages : Told(s) = "none"
    BY ToldIsTells DEF Init, IInv, Tells, ShownAs
  <2> QED
    BY <2>1, <2>2 DEF Init, Feed!InitSender, FeedIn
<1>3. /\ IInv /\ StageInv /\ ToldInv /\ FeedInv /\ IInv' /\ [Next]_vars
      => FeedInv' /\ [Feed!SendOne \/ Feed!CloseIn \/ Feed!Take]_(Feed!senderVars)
  BY FeedStep DEF IInv
<1> QED
  BY <1>1, <1>2, <1>3, UpInvariant, StageInvNext, ToldNext, PTL
     DEF Spec, FeedsDisplay, Feed!SenderSpec
=============================================================================
