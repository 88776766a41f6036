----------------------------- MODULE RegistryWire ----------------------------
(***************************************************************************)
(* The values of the registry's client on the wire                         *)
(* (pkg/azure/containerregistry/models.go).  A value is known by the       *)
(* fields that are not nil and by its type; the contents of the fields are *)
(* carried over as they are.                                               *)
(***************************************************************************)
EXTENDS FiniteSets

ResourceFields == {"id", "name", "type", "location", "tags"}

BuildFields                     == {"properties", "id", "name", "type"}
BuildTaskFields                 == {"properties"} \union ResourceFields
BuildTaskUpdateParametersFields == {"properties", "tags"}

\* The two kinds whose properties are one of a union.
BuildStepFields                 == {"properties", "id", "name", "type"}
BuildStepUpdateParametersFields == {"properties", "tags"}

DockerBuildStepFields ==
  {"branch", "imageNames", "isPushEnabled", "dockerFilePath", "contextPath", "buildArguments",
   "baseImageDependencies", "baseImageTrigger", "provisioningState"}

BuildStepPropertiesFields == {"provisioningState"}

DockerBuildStepUpdateParametersFields ==
  {"branch", "imageName", "isPushEnabled", "dockerFilePath", "contextPath", "buildArguments",
   "baseImageTrigger"}

BuildStepPropertiesUpdateParametersFields == {}

BuildTaskBuildRequestFields == {"buildTaskName"}

QuickBuildRequestFields ==
  {"imageNames", "sourceLocation", "buildArguments", "isPushEnabled", "timeout", "platform",
   "dockerFilePath"}

QueueBuildRequestFields == {}

\* The names that MarshalJSON writes for the fields given, and the fields that
\* UnmarshalJSON makes of the names it knows.  Properties that are a union are
\* written when they are nil, as null, which is read back as nil.
Written(given) == [given |-> given, null |-> {}]
WrittenWithUnion(given) ==
  [given |-> given, null |-> {"properties"} \ given]
Read(object, fields) == object.given \cap fields

-----------------------------------------------------------------------------
(* The unions: of each member the tag that MarshalJSON writes over the     *)
(* value's own Type, and its other fields.                                 *)

Member(tag, fields) == [tag |-> tag, fields |-> fields]

StepMembers ==
  {Member("Docker", DockerBuildStepFields), Member("BuildStepProperties", BuildStepPropertiesFields)}

StepUpdateMembers ==
  { Member("Docker", DockerBuildStepUpdateParametersFields),
    Member("BuildStepPropertiesUpdateParameters", BuildStepPropertiesUpdateParametersFields) }

RequestMembers ==
  { Member("BuildTask", BuildTaskBuildRequestFields), Member("QuickBuild", QuickBuildRequestFields),
    Member("QueueBuildRequest", QueueBuildRequestFields) }

\* A value of a union: the member it is of, the fields given, and its Type.
ValuesOf(members, types) ==
  UNION { [member : {m}, given : SUBSET m.fields, type : types] : m \in members }

\* MarshalJSON of a member of a union.
Marshal(v) == [names |-> v.given, type |-> v.member.tag]

\* unmarshalBasicBuildStepProperties and its like: what has no tag of the
\* union, or no type, is taken for the base, and loses the fields that the
\* base does not have.
Unmarshal(json, members, base) ==
  LET known == {m \in members : m.tag = json.type}
      member == IF known = {} THEN base ELSE CHOOSE m \in known : TRUE
  IN  [member |-> member, given |-> json.names \cap member.fields, type |-> json.type]

\* AsDockerBuildStep, AsQuickBuildRequest and their like.
As(v, tag) == v.member.tag = tag

=============================================================================
