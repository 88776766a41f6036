------------------------- MODULE RegistryOperations --------------------------
(***************************************************************************)
(* The operations of the client of the Azure container registry            *)
(* (pkg/azure/containerregistry), one row each: the request that it sends, *)
(* the arguments that it validates before it sends anything, whether it    *)
(* answers at once, page by page or with a future, and the status codes    *)
(* that both its Sender and its Responder accept.                          *)
(***************************************************************************)
EXTENDS Integers, Sequences

Operation(method, path, validated, answer, codes) ==
  [method |-> method, path |-> path, validated |-> validated, answer |-> answer, codes |-> codes]

\* The names in the paths, and those among them that are validated: the ID of
\* a build is not.
OfRegistry == {"registryName"}
OfTask     == {"registryName", "buildTaskName"}
OfStep     == {"registryName", "buildTaskName", "stepName"}

\* A validated name has 5 to 50 characters, letters and digits only.
ValidName(length, alphanumeric) == length \in 5 .. 50 /\ alphanumeric

-----------------------------------------------------------------------------
(* RegistriesClient                                                        *)

GetBuildSourceUploadURL ==
  Operation("POST", <<"getBuildSourceUploadUrl">>, OfRegistry, "at_once", {200})

QueueBuild == Operation("POST", <<"queueBuild">>, OfRegistry, "future", {200, 202})

-----------------------------------------------------------------------------
(* BuildsClient                                                            *)

BuildsCancel     == Operation("POST", <<"builds", "ID", "cancel">>, OfRegistry, "future", {200, 202})
BuildsGet        == Operation("GET", <<"builds", "ID">>, OfRegistry, "at_once", {200})
BuildsGetLogLink == Operation("POST", <<"builds", "ID", "getLogLink">>, OfRegistry, "at_once", {200})
BuildsList       == Operation("GET", <<"builds">>, OfRegistry, "paged", {200})
BuildsUpdate     == Operation("PATCH", <<"builds", "ID">>, OfRegistry, "future", {200, 201})

-----------------------------------------------------------------------------
(* BuildTasksClient                                                        *)

BuildTasksCreate ==
  Operation("PUT", <<"buildTasks", "ID">>, OfTask \union {"parameters"}, "future", {200, 201})

BuildTasksDelete == Operation("DELETE", <<"buildTasks", "ID">>, OfTask, "future", {200, 202, 204})
BuildTasksGet    == Operation("GET", <<"buildTasks", "ID">>, OfTask, "at_once", {200})
BuildTasksList   == Operation("GET", <<"buildTasks">>, OfRegistry, "paged", {200})
BuildTasksUpdate == Operation("PATCH", <<"buildTasks", "ID">>, OfTask, "future", {200, 201})

ListSourceRepositoryProperties ==
  Operation("POST", <<"buildTasks", "ID", "listSourceRepositoryProperties">>, OfTask, "at_once", {200})

\* The properties of a task that Create accepts, given being those that are not
\* nil; Update looks at none of them.
ValidTask(given, timeout) ==
  "properties" \in given =>
    /\ {"alias", "platform", "sourceRepository", "repositoryUrl"} \subseteq given
    /\ "sourceControlAuth" \in given => "token" \in given
    /\ "timeout" \in given => timeout \in 300 .. 28800

-----------------------------------------------------------------------------
(* BuildStepsClient.  Unlike the deletion of a task, that of a step does   *)
(* not accept 204, which is what a service answers when there is nothing   *)
(* to delete.                                                              *)

StepPath == <<"buildTasks", "ID", "steps", "ID">>

BuildStepsCreate == Operation("PUT", StepPath, OfStep, "future", {200, 201})
BuildStepsDelete == Operation("DELETE", StepPath, OfStep, "future", {200, 202})
BuildStepsGet    == Operation("GET", StepPath, OfStep, "at_once", {200})
BuildStepsList   == Operation("GET", <<"buildTasks", "ID", "steps">>, OfTask, "paged", {200})
BuildStepsUpdate == Operation("PATCH", StepPath, OfStep, "future", {200, 201})

ListBuildArguments ==
  Operation("POST", StepPath \o <<"listBuildArguments">>, OfStep, "paged", {200})

-----------------------------------------------------------------------------

Operations ==
  { GetBuildSourceUploadURL, QueueBuild,
    BuildsCancel, BuildsGet, BuildsGetLogLink, BuildsList, BuildsUpdate,
    BuildTasksCreate, BuildTasksDelete, BuildTasksGet, BuildTasksList, BuildTasksUpdate,
    ListSourceRepositoryProperties,
    BuildStepsCreate, BuildStepsDelete, BuildStepsGet, BuildStepsList, BuildStepsUpdate,
    ListBuildArguments }

-----------------------------------------------------------------------------
(* The futures and pages: each is of one operation, whose Responder its    *)
(* Result calls, and gives values of one type.                             *)

Giving(operation, value) == [operation |-> operation, value |-> value]

BuildsCancelFuture         == Giving(BuildsCancel, "none")
BuildsUpdateFuture         == Giving(BuildsUpdate, "Build")
RegistriesQueueBuildFuture == Giving(QueueBuild, "Build")
BuildTasksCreateFuture     == Giving(BuildTasksCreate, "BuildTask")
BuildTasksDeleteFuture     == Giving(BuildTasksDelete, "none")
BuildTasksUpdateFuture     == Giving(BuildTasksUpdate, "BuildTask")
BuildStepsCreateFuture     == Giving(BuildStepsCreate, "BuildStep")
BuildStepsDeleteFuture     == Giving(BuildStepsDelete, "none")
BuildStepsUpdateFuture     == Giving(BuildStepsUpdate, "BuildStep")

BuildListResult          == Giving(BuildsList, "Build")
BuildTaskListResult      == Giving(BuildTasksList, "BuildTask")
BuildStepList            == Giving(BuildStepsList, "BuildStep")
BuildArgumentList        == Giving(ListBuildArguments, "BuildArgument")

Futures ==
  { BuildsCancelFuture, BuildsUpdateFuture, RegistriesQueueBuildFuture,
    BuildTasksCreateFuture, BuildTasksDeleteFuture, BuildTasksUpdateFuture,
    BuildStepsCreateFuture, BuildStepsDeleteFuture, BuildStepsUpdateFuture }

Pages == {BuildListResult, BuildTaskListResult, BuildStepList, BuildArgumentList}

\* A long-running operation whose Result is but an autorest.Response.
Valueless(o) == \E f \in Futures : f.operation = o /\ f.value = "none"

\* The operations whose URL can be read with GET.
Readable(o) == \E r \in Operations : r.method = "GET" /\ r.path = o.path

=============================================================================
