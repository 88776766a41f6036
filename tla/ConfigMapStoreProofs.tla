------------------------ MODULE ConfigMapStoreProofs -------------------------
(***************************************************************************)
(* Proofs about the ConfigMap storage engine, for any clients, builds and  *)
(* number of writes, and any loss of requests and answers.                 *)
(*                                                                         *)
(* The inductive invariant adds CopyCoherent to the type invariant: the    *)
(* resource version a client holds identifies what it has read.  A write   *)
(* takes a version larger than any handed out before (versions of TypeOK), *)
(* so it leaves no other client with a copy that is both current and wrong.*)
(***************************************************************************)
EXTENDS ConfigMapStore, TLAPS

\* Why no build is lost: a client about to send Update holds, if nobody has
\* written since it read, exactly the stored entries with its one change.
CopyCoherent ==
  /\ \A c \in Clients : pc[c] = "create" => op[c] \in Writes
  /\ \A c \in Clients : pc[c] = "update" =>
       /\ readVersion[c] # 0
       /\ op[c] \in {"UpdateBuild", "DeleteBuild"}
       /\ readVersion[c] = version =>
            readData[c] = IF op[c] = "DeleteBuild" THEN data \ {build[c]}
                                                   ELSE data \union {build[c]}

\* The entry a client is about to add is not there, the one it is about to
\* delete is, as long as nobody has written since it read.
CopyChanges ==
  \A c \in Clients : pc[c] = "update" /\ readVersion[c] = version =>
    (build[c] \in data <=> op[c] = "DeleteBuild")

\* The inductive invariant.
IInv ==
  /\ TypeOK
  /\ version = 0 => data = {}
  /\ CopyCoherent /\ CopyChanges
  /\ AckedBuildKept

\* The initial states satisfy the inductive invariant.
LEMMA InitInv == Init => IInv
  BY StoreAssumption
  DEF Init, IInv, TypeOK, CopyCoherent, CopyChanges, AckedBuildKept, Ops, Results, Writes

\* Client c returns and its copy is gone; the operation is still known.
CopyDropped(c) ==
  /\ pc' = [pc EXCEPT ![c] = "idle"] /\ UNCHANGED <<op, build>>
  /\ readVersion' = [readVersion EXCEPT ![c] = 0]
  /\ readData' = [readData EXCEPT ![c] = {}]

\* The ConfigMap is left alone, or written under a version never handed out.
Fresh == UNCHANGED <<version, data>> \/ version' > last

\* A write under a fresh version makes every copy stale except the writer's,
\* which is gone: the copies of the others stay coherent.
LEMMA CopiesSurvive ==
  ASSUME IInv, NEW c \in Clients, CopyDropped(c), Fresh
  PROVE  CopyCoherent'
<1>1. CopyCoherent
  BY DEF IInv
<1>2. ASSUME NEW d \in Clients, pc'[d] = "create" PROVE op'[d] \in Writes
  BY <1>1, <1>2 DEF CopyDropped, CopyCoherent, IInv, TypeOK
<1>3. ASSUME NEW d \in Clients, pc'[d] = "update"
      PROVE  /\ readVersion'[d] # 0
             /\ op'[d] \in {"UpdateBuild", "DeleteBuild"}
             /\ readVersion'[d] = version' =>
                  readData'[d] = IF op'[d] = "DeleteBuild" THEN data' \ {build'[d]}
                                                           ELSE data' \union {build'[d]}
  <2>1. /\ pc[d] = "update" /\ UNCHANGED <<op, build>>
        /\ readVersion'[d] = readVersion[d] /\ readData'[d] = readData[d]
    BY <1>3 DEF CopyDropped, IInv, TypeOK
  <2>2. readVersion'[d] = version' => UNCHANGED <<version, data>>
    <3>1. readVersion[d] \in 0 .. last /\ last \in Nat
      BY StoreAssumption DEF IInv, TypeOK
    <3> QED BY <2>1, <3>1 DEF Fresh
  <2>3. CASE readVersion'[d] = version'
    BY <1>1, <2>1, <2>2, <2>3 DEF CopyCoherent
  <2>4. CASE readVersion'[d] # version'
    BY <1>1, <2>1, <2>4 DEF CopyCoherent
  <2> QED BY <2>3, <2>4
<1> HIDE DEF Writes
<1> QED BY <1>2, <1>3 DEF CopyCoherent

\* Calling an operation only moves client c.
LEMMA CallInv ==
  ASSUME IInv, NEW c \in Clients, NEW o \in Ops, NEW b \in Builds, Call(c, o, b)
  PROVE  IInv'
<1> USE StoreAssumption
    DEF IInv, TypeOK, Call, serverVars, Results, Ops, Writes
<1>1. TypeOK'
  OBVIOUS
<1>2. CopyCoherent'
  BY DEF CopyCoherent
<1>3. CopyChanges'
  BY DEF CopyChanges
<1>4. AckedBuildKept'
  BY DEF AckedBuildKept
<1> QED BY <1>1, <1>2, <1>3, <1>4

\* A failed request changes nothing but the client that made it.
LEMMA RequestFailsInv ==
  ASSUME IInv, NEW c \in Clients, RequestFails(c)
  PROVE  IInv'
<1> USE StoreAssumption
    DEF IInv, TypeOK, RequestFails, Return, serverVars, Results, Ops, Writes
<1>1. TypeOK' /\ (version = 0 => data = {})'
  OBVIOUS
<1>2. CopyCoherent'
  BY DEF CopyCoherent
<1>3. CopyChanges'
  BY DEF CopyChanges, CopyCoherent
<1>4. AckedBuildKept'
  BY DEF AckedBuildKept, CopyChanges, CopyCoherent
<1> QED BY <1>1, <1>2, <1>3, <1>4

\* The same for a Get that finds no ConfigMap.
LEMMA GetNotFoundInv ==
  ASSUME IInv, NEW c \in Clients, GetNotFound(c)
  PROVE  IInv'
<1> USE StoreAssumption
    DEF IInv, TypeOK, GetNotFound, Goto, Return, serverVars, Results, Ops, Writes
<1>1. TypeOK' /\ (version = 0 => data = {})'
  OBVIOUS
<1>2. CopyCoherent'
  BY DEF CopyCoherent
<1>3. CopyChanges'
  BY DEF CopyChanges, CopyCoherent
<1>4. AckedBuildKept'
  BY DEF AckedBuildKept, CopyChanges, CopyCoherent
<1> QED BY <1>1, <1>2, <1>3, <1>4

\* UpdateBuild leaves Get with a coherent copy.
LEMMA GetForUpdateInv ==
  ASSUME IInv, NEW c \in Clients, GetForUpdate(c)
  PROVE  IInv'
<1> USE StoreAssumption
    DEF IInv, TypeOK, GetForUpdate, GotoWith, Return, serverVars, Results, Ops, Writes
<1>1. TypeOK' /\ (version = 0 => data = {})'
  OBVIOUS
<1>2. CopyCoherent'
  <2>1. CASE build[c] \in data
    <3>1. /\ pc' = [pc EXCEPT ![c] = "idle"] /\ UNCHANGED <<op, build, data, version>>
          /\ readVersion' = [readVersion EXCEPT ![c] = 0]
          /\ readData' = [readData EXCEPT ![c] = {}]
      BY <2>1
    <3> QED BY <3>1, CopiesSurvive DEF CopyDropped, Fresh
  <2>3. CASE data = {}
    <3>1. /\ pc' = [pc EXCEPT ![c] = "panicked"] /\ UNCHANGED <<op, build, data, version>>
          /\ readVersion' = [readVersion EXCEPT ![c] = version]
          /\ readData' = [readData EXCEPT ![c] = data \union {build[c]}]
      BY <2>3
    <3> QED BY <3>1 DEF CopyCoherent
  <2>2. CASE build[c] \notin data /\ data # {}
    <3>1. /\ pc' = [pc EXCEPT ![c] = "update"] /\ UNCHANGED <<op, build, data, version>>
          /\ readVersion' = [readVersion EXCEPT ![c] = version]
          /\ readData' = [readData EXCEPT ![c] = data \union {build[c]}]
          /\ op[c] = "UpdateBuild" /\ version # 0
      BY <2>2
    <3> QED BY <3>1 DEF CopyCoherent
  <2> QED BY <2>1, <2>2, <2>3
<1>3. CopyChanges'
  BY DEF CopyChanges, CopyCoherent
<1>4. AckedBuildKept'
  BY DEF AckedBuildKept, CopyChanges, CopyCoherent
<1> QED BY <1>1, <1>2, <1>3, <1>4

\* DeleteBuild leaves Get with a coherent copy.
LEMMA GetForDeleteBuildInv ==
  ASSUME IInv, NEW c \in Clients, GetForDeleteBuild(c)
  PROVE  IInv'
<1> USE StoreAssumption
    DEF IInv, TypeOK, GetForDeleteBuild, GotoWith, Return, serverVars, Results, Ops, Writes
<1>1. TypeOK' /\ (version = 0 => data = {})'
  OBVIOUS
<1>2. CopyCoherent'
  BY DEF CopyCoherent
<1>3. CopyChanges'
  BY DEF CopyChanges, CopyCoherent
<1>4. AckedBuildKept'
  BY DEF AckedBuildKept, CopyChanges, CopyCoherent
<1> QED BY <1>1, <1>2, <1>3, <1>4

\* The reading operations keep no copy.
LEMMA GetForReadInv ==
  ASSUME IInv, NEW c \in Clients, GetForRead(c)
  PROVE  IInv'
<1> USE StoreAssumption
    DEF IInv, TypeOK, GetForRead, Goto, Return, serverVars, Results, Ops, Writes
<1>1. TypeOK' /\ (version = 0 => data = {})'
  OBVIOUS
<1>2. CopyCoherent'
  BY CopiesSurvive DEF CopyDropped, Fresh, CopyCoherent
<1>3. CopyChanges'
  BY DEF CopyChanges, CopyCoherent
<1>4. AckedBuildKept'
  BY DEF AckedBuildKept, CopyChanges, CopyCoherent
<1> QED BY <1>1, <1>2, <1>3, <1>4

\* Create makes the ConfigMap under a fresh version, or is refused.
LEMMA CreateConfigMapInv ==
  ASSUME IInv, NEW c \in Clients, CreateConfigMap(c)
  PROVE  IInv'
<1> USE StoreAssumption
    DEF IInv, TypeOK, CreateConfigMap, NewVersion, Written, Return, serverVars, Results, Ops, Writes
<1>1. TypeOK' /\ (version = 0 => data = {})'
  OBVIOUS
<1>2. CopyCoherent'
  <2>1. CopyDropped(c) /\ Fresh
    BY DEF CopyDropped, Fresh
  <2> QED BY <2>1, CopiesSurvive
<1>3. CopyChanges'
  BY DEF CopyChanges, CopyCoherent
<1>4. AckedBuildKept'
  BY DEF AckedBuildKept, CopyChanges, CopyCoherent
<1> QED BY <1>1, <1>2, <1>3, <1>4

\* Update applies the change of a current copy under a fresh version.
LEMMA UpdateConfigMapInv ==
  ASSUME IInv, NEW c \in Clients, UpdateConfigMap(c)
  PROVE  IInv'
<1> USE StoreAssumption
    DEF IInv, TypeOK, UpdateConfigMap, NewVersion, Written, Deleted, Return, serverVars, Results, Ops, Writes
<1>1. TypeOK' /\ (version = 0 => data = {})'
  OBVIOUS
<1>2. CopyCoherent'
  <2>1. CopyDropped(c) /\ Fresh
    BY DEF CopyDropped, Fresh
  <2> QED BY <2>1, CopiesSurvive
<1>3. CopyChanges'
  BY DEF CopyChanges, CopyCoherent
<1>4. AckedBuildKept'
  BY DEF AckedBuildKept, CopyChanges, CopyCoherent
<1> QED BY <1>1, <1>2, <1>3, <1>4

\* Delete drops the stored builds and their acknowledgements.
LEMMA DeleteConfigMapInv ==
  ASSUME IInv, NEW c \in Clients, DeleteConfigMap(c)
  PROVE  IInv'
<1> USE StoreAssumption
    DEF IInv, TypeOK, DeleteConfigMap, Deleted, Return, serverVars, Results, Ops, Writes
<1>1. TypeOK' /\ (version = 0 => data = {})'
  OBVIOUS
<1>2. CopyCoherent'
  BY DEF CopyCoherent
<1>3. CopyChanges'
  BY DEF CopyChanges, CopyCoherent
<1>4. AckedBuildKept'
  BY DEF AckedBuildKept, CopyChanges, CopyCoherent
<1> QED BY <1>1, <1>2, <1>3, <1>4

\* Every step preserves the inductive invariant.
LEMMA NextInv == IInv /\ [Next]_vars => IInv'
<1> SUFFICES ASSUME IInv, [Next]_vars PROVE IInv'
  OBVIOUS
<1>1. ASSUME NEW c \in Clients, ClientStep(c) PROVE IInv'
  BY <1>1, CallInv, RequestFailsInv, GetNotFoundInv, GetForUpdateInv, GetForDeleteBuildInv,
     GetForReadInv, CreateConfigMapInv, UpdateConfigMapInv, DeleteConfigMapInv
  DEF ClientStep
<1>2. CASE UNCHANGED vars
  BY <1>2 DEF IInv, TypeOK, CopyCoherent, CopyChanges, AckedBuildKept,
              vars, serverVars, clientVars
<1> QED BY <1>1, <1>2 DEF Next

\* The inductive invariant holds in every reachable state.
LEMMA SpecInv == Spec => []IInv
  BY InitInv, NextInv, PTL DEF Spec

\* Type correctness of the store and of its clients.
THEOREM StoreTypeOK == Spec => []TypeOK
<1>1. IInv => TypeOK
  BY DEF IInv
<1> QED BY <1>1, SpecInv, PTL

\* No acknowledged build is lost to an interleaved write of another client.
THEOREM StoreKeepsAcked == Spec => []AckedBuildKept
<1>1. IInv => AckedBuildKept
  BY DEF IInv
<1> QED BY <1>1, SpecInv, PTL

\* Each request that is applied is one step of the abstract build history.
THEOREM StoreImplementsHistory == Spec => ImplementsHistory
<1>1. Init => History!Init
  BY DEF Init, History!Init
<1>2. ASSUME IInv, [Next]_vars PROVE [History!Next]_(History!historyVars)
  <2> USE <1>2, StoreAssumption DEF IInv, TypeOK, History!historyVars, serverVars
  <2>1. ASSUME NEW c \in Clients, CreateConfigMap(c)
        PROVE  [History!Next]_(History!historyVars)
    BY <2>1 DEF CreateConfigMap, NewVersion, History!Next, History!Create
  <2>2. ASSUME NEW c \in Clients, UpdateConfigMap(c)
        PROVE  [History!Next]_(History!historyVars)
    <3>1. CASE readVersion[c] # version
      BY <2>2, <3>1 DEF UpdateConfigMap
    <3>2. CASE readVersion[c] = version /\ op[c] = "DeleteBuild"
      BY <2>2, <3>2
      DEF UpdateConfigMap, NewVersion, CopyCoherent, CopyChanges, History!Next, History!Remove
    <3>3. CASE readVersion[c] = version /\ op[c] # "DeleteBuild"
      BY <2>2, <3>3
      DEF UpdateConfigMap, NewVersion, CopyCoherent, CopyChanges, History!Next, History!Add
    <3> QED BY <3>1, <3>2, <3>3
  <2>3. ASSUME NEW c \in Clients, DeleteConfigMap(c)
        PROVE  [History!Next]_(History!historyVars)
    BY <2>3 DEF DeleteConfigMap, History!Next, History!Clear
  <2>4. ASSUME NEW c \in Clients, ClientStep(c),
               ~CreateConfigMap(c), ~UpdateConfigMap(c), ~DeleteConfigMap(c)
        PROVE  UNCHANGED serverVars
    BY <2>4 DEF ClientStep, Call, RequestFails, GetNotFound, GetForUpdate,
                GetForDeleteBuild, GetForRead
  <2>5. CASE UNCHANGED vars
    BY <2>5 DEF vars
  <2> QED BY <2>1, <2>2, <2>3, <2>4, <2>5 DEF Next
<1> QED BY <1>1, <1>2, SpecInv, PTL DEF Spec, ImplementsHistory, History!Spec
=============================================================================
