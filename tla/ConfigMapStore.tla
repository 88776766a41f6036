--------------------------- MODULE ConfigMapStore ----------------------------
(***************************************************************************)
(* The ConfigMap storage engine (pkg/storage/kube/configmap/store.go): the *)
(* builds of one application are the entries of one ConfigMap, and every   *)
(* operation is one or two requests to the Kubernetes API server.  Several *)
(* clients (`draft up`, `draft delete`, `draft history` run by different   *)
(* users) interleave between the two requests.                             *)
(*                                                                         *)
(* The API server is external: Create fails if the object exists, Update   *)
(* if its resource version is not the stored one, Delete if it is absent;  *)
(* an empty Data map is not transmitted, so that it reads back as a nil    *)
(* map.  A request may fail before it is applied, or its answer be lost    *)
(* after.                                                                  *)
(***************************************************************************)
EXTENDS Naturals

CONSTANTS
  Clients, Builds,
  MaxVersion,               \* bound on the resource versions handed out
  Unreliable                \* TRUE iff requests and answers may be lost

ASSUME StoreAssumption == MaxVersion \in Nat /\ Unreliable \in BOOLEAN

VARIABLES
  version,      \* the ConfigMap's resource version, 0 when there is none
  data,         \* its entries: the stored build IDs
  last,         \* the last resource version handed out
  pc, op, build,            \* client |-> where it is, its operation and argument
  readVersion, readData,    \* client |-> its in-memory copy of the ConfigMap
  res,                      \* client |-> how its last operation ended
  acked         \* builds whose write was acknowledged and not deleted since

serverVars == <<version, data, last>>
clientVars == <<pc, op, build, readVersion, readData, res>>
vars == <<serverVars, clientVars, acked>>

Writes  == {"UpdateBuild", "CreateBuild"}
Ops     == Writes \union {"DeleteBuild", "DeleteBuilds", "GetBuild", "GetBuilds"}
Results == {"none", "ok", "error", "conflict", "app_not_found", "app_exists",
            "build_exists", "build_not_found"}

Init ==
  /\ version = 0 /\ data = {} /\ last = 0
  /\ pc = [c \in Clients |-> "idle"]
  /\ op = [c \in Clients |-> "GetBuilds"]
  /\ \E b \in Builds : build = [c \in Clients |-> b]
  /\ readVersion = [c \in Clients |-> 0]
  /\ readData = [c \in Clients |-> {}]
  /\ res = [c \in Clients |-> "none"]
  /\ acked = {}

-----------------------------------------------------------------------------
\* A client calls operation o for build b.  CreateBuild does not read first.
Call(c, o, b) ==
  /\ pc[c] = "idle"
  /\ pc' = [pc EXCEPT ![c] = IF o = "CreateBuild" THEN "create" ELSE "get"]
  /\ op' = [op EXCEPT ![c] = o]
  /\ build' = [build EXCEPT ![c] = b]
  /\ res' = [res EXCEPT ![c] = "none"]
  /\ UNCHANGED <<serverVars, readVersion, readData, acked>>

\* The client has its next request to make, with no copy of the ConfigMap.
Goto(c, l) ==
  /\ pc' = [pc EXCEPT ![c] = l]
  /\ UNCHANGED <<readVersion, readData, res>>

\* A mutant of GotoWith: the copy is given the next version.
GotoWithNext(c, l, d) ==
  /\ pc' = [pc EXCEPT ![c] = l]
  /\ readVersion' = [readVersion EXCEPT ![c] = version + 1]
  /\ readData' = [readData EXCEPT ![c] = d]
  /\ UNCHANGED res

\* The client goes on with the copy that Get returned, changed in memory to d.
GotoWith(c, l, d) ==
  /\ pc' = [pc EXCEPT ![c] = l]
  /\ readVersion' = [readVersion EXCEPT ![c] = version]
  /\ readData' = [readData EXCEPT ![c] = d]
  /\ UNCHANGED res

\* The operation returns and its copy is gone.
Return(c, r) ==
  /\ pc' = [pc EXCEPT ![c] = "idle"]
  /\ readVersion' = [readVersion EXCEPT ![c] = 0]
  /\ readData' = [readData EXCEPT ![c] = {}]
  /\ res' = [res EXCEPT ![c] = r]

\* The request of a client in state l fails and is not applied.
RequestFails(c) ==
  /\ Unreliable
  /\ pc[c] \in {"get", "create", "update", "delete"}
  /\ Return(c, "error")
  /\ UNCHANGED <<serverVars, op, build, acked>>

\* impl.Get finds no ConfigMap: UpdateBuild goes on to CreateBuild, the
\* others return ErrAppStorageNotFound.
GetNotFound(c) ==
  /\ pc[c] = "get" /\ version = 0
  /\ IF op[c] = "UpdateBuild" THEN Goto(c, "create") ELSE Return(c, "app_not_found")
  /\ UNCHANGED <<serverVars, op, build, acked>>

\* UpdateBuild after Get: an entry of that ID is refused; writing into the
\* nil map of a ConfigMap without entries panics.
GetForUpdate(c) ==
  /\ pc[c] = "get" /\ version # 0 /\ op[c] = "UpdateBuild"
  /\ IF build[c] \in data
     THEN Return(c, "build_exists")
     ELSE GotoWith(c, IF data = {} THEN "panicked" ELSE "update", data \union {build[c]})
  /\ UNCHANGED <<serverVars, op, build, acked>>

\* DeleteBuild after Get: the entry is deleted from the copy.
GetForDeleteBuild(c) ==
  /\ pc[c] = "get" /\ version # 0 /\ op[c] = "DeleteBuild"
  /\ IF build[c] \notin data
     THEN Return(c, "build_not_found")
     ELSE GotoWith(c, "update", data \ {build[c]})
  /\ UNCHANGED <<serverVars, op, build, acked>>

\* GetBuilds, alone or as the first half of DeleteBuilds; and GetBuild.
GetForRead(c) ==
  /\ pc[c] = "get" /\ version # 0
  /\ \/ op[c] = "DeleteBuilds" /\ Goto(c, "delete")
     \/ op[c] = "GetBuilds" /\ Return(c, "ok")
     \/ /\ op[c] = "GetBuild"
        /\ Return(c, IF build[c] \in data THEN "ok" ELSE "build_not_found")
  /\ UNCHANGED <<serverVars, op, build, acked>>

\* The answer to an applied write: it arrives, or the client sees an error.
Written(c) ==
  \/ Return(c, "ok") /\ acked' = acked \union {build[c]}
  \/ Unreliable /\ Return(c, "error") /\ UNCHANGED acked

\* The answer to an applied deletion of the builds in B.
Deleted(c, B) ==
  /\ acked' = acked \ B
  /\ \/ Return(c, "ok")
     \/ Unreliable /\ Return(c, "error")

NewVersion ==
  /\ last < MaxVersion
  /\ last' = last + 1 /\ version' = last + 1

\* impl.Create(newConfigMap(appName, build))
CreateConfigMap(c) ==
  /\ pc[c] = "create"
  /\ \/ /\ version = 0
        /\ NewVersion /\ data' = {build[c]}
        /\ Written(c)
     \/ /\ version # 0
        /\ Return(c, "app_exists")
        /\ UNCHANGED <<serverVars, acked>>
  /\ UNCHANGED <<op, build>>

\* A mutant of UpdateConfigMap: the object is sent without the version read.
UpdateUnconditionally(c) ==
  /\ pc[c] = "update"
  /\ \/ /\ version # 0
        /\ NewVersion /\ data' = readData[c]
        /\ IF op[c] = "DeleteBuild" THEN Deleted(c, {build[c]}) ELSE Written(c)
     \/ /\ version = 0
        /\ Return(c, "error")
        /\ UNCHANGED <<serverVars, acked>>
  /\ UNCHANGED <<op, build>>

\* impl.Update(cfgmap), with the version that Get returned.
UpdateConfigMap(c) ==
  /\ pc[c] = "update"
  /\ \/ /\ version # 0 /\ readVersion[c] = version
        /\ NewVersion /\ data' = readData[c]
        /\ IF op[c] = "DeleteBuild" THEN Deleted(c, {build[c]}) ELSE Written(c)
     \/ /\ readVersion[c] # version
        /\ Return(c, IF version = 0 THEN "error" ELSE "conflict")
        /\ UNCHANGED <<serverVars, acked>>
  /\ UNCHANGED <<op, build>>

\* impl.Delete(appName), whatever has been written since GetBuilds.
DeleteConfigMap(c) ==
  /\ pc[c] = "delete"
  /\ \/ /\ version # 0
        /\ version' = 0 /\ data' = {} /\ UNCHANGED last
        /\ Deleted(c, data)
     \/ /\ version = 0
        /\ Return(c, "error")
        /\ UNCHANGED <<serverVars, acked>>
  /\ UNCHANGED <<op, build>>

ClientStep(c) ==
  \/ \E o \in Ops, b \in Builds : Call(c, o, b)
  \/ RequestFails(c) \/ GetNotFound(c) \/ GetForUpdate(c)
  \/ GetForDeleteBuild(c) \/ GetForRead(c)
  \/ CreateConfigMap(c) \/ UpdateConfigMap(c) \/ DeleteConfigMap(c)

Next == \E c \in Clients : ClientStep(c)

Spec == Init /\ [][Next]_vars

-----------------------------------------------------------------------------
(* Properties.                                                             *)

\* The type invariant: every variable stays in its range.
TypeOK ==
  /\ version \in 0 .. last /\ last \in 0 .. MaxVersion
  /\ data \subseteq Builds /\ acked \subseteq Builds
  /\ pc \in [Clients -> {"idle", "get", "create", "update", "delete", "panicked"}]
  /\ op \in [Clients -> Ops] /\ build \in [Clients -> Builds]
  /\ readVersion \in [Clients -> 0 .. last]
  /\ readData \in [Clients -> SUBSET Builds]
  /\ res \in [Clients -> Results]

\* No acknowledged build is lost: a build whose UpdateBuild or CreateBuild
\* returned nil stays in the ConfigMap until a deletion that covers it is
\* applied, whatever the other clients read before it and write after it.
AckedBuildKept == acked \subseteq data

\* The ConfigMap changes as the abstract history does: each applied request
\* adds or removes exactly the build it is about, or deletes the storage.
History == INSTANCE BuildHistory WITH exists <- version # 0, builds <- data

ImplementsHistory == History!Spec
=============================================================================
