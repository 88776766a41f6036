----------------------------- MODULE AppScaffold -----------------------------
(***************************************************************************)
(* `draft create` (cmd/draft/create.go, pkg/draft/pack): the choice of a   *)
(* pack, and the files of the application, which CreateFrom, SaveDir and   *)
(* run make one after the other; charts/ is the first of them, and its     *)
(* presence is what a later run takes for a finished scaffold.             *)
(***************************************************************************)
EXTENDS GlobalConfig, PackDetection

CONSTANT Listings       \* the files that the application may have

ASSUME ListingsAssumption ==
  \A listing \in Listings : Len(listing) \in Nat /\ DOMAIN listing = 1 .. Len(listing)

VARIABLES
  charts,       \* charts/: "none", "partial" or "full"
  files,        \* "tasks", "others", "ignore": "none", "user" (the developer's), "pack",
                \*        "short" (an io.Copy whose error is dropped) or "empty"
  toml,         \* draft.toml: "none", "user", "open", "written" or "garbled"
  chosen,       \* history: the pack "detected" or "named", and the listing and
                \*          repositories it was chosen for, until charts/ is made
  broken        \* history: a run of create was killed or failed after it made charts/

appVars == <<charts, files, toml, chosen, broken>>

NoChoice == [pack |-> NoPack, how |-> "none", listing |-> <<>>, repositories |-> <<>>]

InitApp ==
  /\ charts = "none"
  /\ \E there \in {"none", "user"} :
       files = [f \in {"tasks", "others", "ignore"} |-> there] /\ toml = there
  /\ chosen = NoChoice
  /\ broken = FALSE

\* The steps after charts/ is there.
Scaffolding == {"charts", "tasks", "others", "toml", "encode_toml", "ignore"}

\* A fault of create; one in SaveDir or later leaves its scaffold unfinished.
CreateFault(p) ==
  /\ Fault(p)
  /\ broken' = (broken \/ proc[p].pc \in Scaffolding)

\* An existing charts/ is enough.
CheckCharts(p) ==
  /\ At(p, "check_charts")
  /\ IF charts # "none" THEN Succeed(p) ELSE Goto(p, "choose")
  /\ UNCHANGED appVars

\* The pack that --pack names, or the one that is detected; and FromDir, which
\* loads it.  `repositories` is what FindRepositories gives.
ChoosePack(p, repositories) ==
  /\ At(p, "choose")
  /\ \/ \E listing \in Listings :
          LET how == IF proc[p].item = "" THEN "detected" ELSE "named"
          IN  \E order \in IF how = "named" THEN {<<>>} ELSE ProcessDir(listing) :
                LET pack == IF how = "named" THEN FindPack(proc[p].item, repositories)
                            ELSE DoPackDetection(order, repositories)
                IN  IF pack = NoPack THEN Fail(p) /\ UNCHANGED chosen
                    ELSE /\ Goto(p, "mkdir")
                         /\ chosen' = [pack |-> pack, how |-> how, listing |-> listing,
                                       repositories |-> repositories]
     \/ Fault(p) /\ UNCHANGED chosen
  /\ UNCHANGED <<charts, files, toml, broken>>

\* os.Mkdir fails when another run has made the directory.
MakeCharts(p) ==
  /\ At(p, "mkdir")
  /\ \/ charts # "none" /\ Fail(p) /\ UNCHANGED charts
     \/ Fault(p) /\ UNCHANGED charts
     \/ charts = "none" /\ charts' = "partial" /\ Goto(p, "charts")
  /\ chosen' = NoChoice
  /\ UNCHANGED <<files, toml, broken>>

\* A mutant of SaveCharts: its error is not returned.
ChartErrorDropped(p) ==
  /\ At(p, "charts")
  /\ charts' \in {"partial", "full"} /\ Goto(p, "tasks")
  /\ UNCHANGED <<files, toml, chosen, broken>>

SaveCharts(p) ==
  /\ At(p, "charts")
  /\ \/ charts' = "full" /\ Goto(p, "tasks") /\ UNCHANGED broken
     \/ CreateFault(p) /\ UNCHANGED charts
  /\ UNCHANGED <<files, toml, chosen>>

\* A file that is there is kept.
SaveFile(p, step, how, next) ==
  /\ At(p, step)
  /\ \/ /\ files' = [files EXCEPT ![step] = IF @ = "none" THEN how ELSE @]
        /\ Goto(p, next) /\ UNCHANGED broken
     \/ CreateFault(p) /\ UNCHANGED files
  /\ UNCHANGED <<charts, toml, chosen>>

\* .draft-tasks.toml, empty if the pack has no tasks.
SaveTasks(p) == \E how \in {"pack", "short", "empty"} : SaveFile(p, "tasks", how, "others")

\* The rest of the pack's files.
SaveOthers(p) == \E how \in {"pack", "short"} : SaveFile(p, "others", how, "toml")

\* draft.toml is opened without truncating it, and written from its start.
OpenToml(p) ==
  /\ At(p, "toml")
  /\ \/ toml' = (IF toml = "none" THEN "open" ELSE toml) /\ Goto(p, "encode_toml") /\ UNCHANGED broken
     \/ CreateFault(p) /\ UNCHANGED toml
  /\ UNCHANGED <<charts, files, chosen>>

EncodeToml(p) ==
  /\ At(p, "encode_toml")
  /\ \/ /\ toml' \in IF toml = "user" THEN {"written", "garbled"} ELSE {"written"}
        /\ Goto(p, "ignore") /\ UNCHANGED broken
     \/ CreateFault(p) /\ toml' \in {toml, "garbled"}
  /\ UNCHANGED <<charts, files, chosen>>

SaveIgnore(p) == SaveFile(p, "ignore", "pack", "ok")

KillCreate(p) ==
  /\ broken' = (broken \/ proc[p].pc \in Scaffolding)
  /\ chosen' = IF At(p, "mkdir") THEN NoChoice ELSE chosen

CreateStep(p, repositories) ==
  \/ CheckCharts(p) \/ ChoosePack(p, repositories) \/ MakeCharts(p)
  \/ SaveCharts(p) \/ SaveTasks(p) \/ SaveOthers(p) \/ OpenToml(p) \/ EncodeToml(p) \/ SaveIgnore(p)

-----------------------------------------------------------------------------
\* When create says it is ready to sail, everything that up needs is there, the
\* chart whole and every file made, whatever other runs do and whoever broke off
\* before, if this run made the scaffold; and if it only found charts/, unless
\* the run that made charts/ is still at work or has broken off.
ReadyIsScaffolded ==
  [][\A p \in Procs :
       /\ Op(p) = "create" /\ Running(p) /\ proc'[p].pc = "ok"
       /\ At(p, "check_charts") => ~broken /\ \A q \in Procs : proc[q].pc \notin Scaffolding
       => /\ charts' = "full" /\ toml' \in {"written", "garbled"}
          /\ \A f \in DOMAIN files : files'[f] # "none"]_<<procVars, appVars>>

\* The pack detected is one for a language that no other language with a pack
\* has more bytes than, in whatever repository the packs are.
BestPackChosen ==
  chosen.how = "detected" => IsBestPack(chosen.pack, chosen.listing, chosen.repositories)
=============================================================================
