----------------------------- MODULE PluginHome ------------------------------
(***************************************************************************)
(* Plugins and pack repositories in $DRAFT_HOME: `draft plugin install`,   *)
(* `remove` and `update`, the installers of pkg/plugin and of              *)
(* pkg/draft/pack/repo, and `draft init` (cmd/draft/ensure.go), which      *)
(* replaces a built-in plugin of another version and adds the default pack *)
(* repository with the pack-repo plugin.                                   *)
(*                                                                         *)
(* A plugin is a link in plugins/ to a clone in cache/; removing it takes  *)
(* the link away only.  git, the hooks and the repositories are external:  *)
(* `git clone` removes what it made when it fails, not when it is killed,  *)
(* and a checkout of a tag is left alone by an update.                     *)
(***************************************************************************)
EXTENDS GlobalConfig, Sequences

CONSTANTS
  Plugins,          \* the plugins that are there to install
  Builtin,          \* the plugin that init installs
  BuiltinVersion,   \* and its version
  PacksVersions,    \* the versions of the default pack repository that the drafts in
                    \*        use ask for: "" by a canary build, else that of the release
  Tags,             \* the tags of every repository, in the order of versions
  Constraints,      \* version constraint |-> the tags that satisfy it
  Homes,            \* what an older draft may have left linked: sets of items
  Branch            \* item |-> what is on its branch now: a version, "missing" or
                    \*        "malformed" (its plugin.yaml)

Packs == "packs"    \* the default pack repository
Items == Plugins \union {Packs}

TagSet == {Tags[i] : i \in DOMAIN Tags}

\* The built-in plugin is asked for by a version, not by a constraint; and no
\* tag has a name that is given to something else here.
ASSUME HomeAssumption ==
  /\ Builtin \in Plugins /\ Packs \notin Plugins
  /\ BuiltinVersion # "" /\ BuiltinVersion \notin DOMAIN Constraints
  /\ TagSet \intersect {"", "error", "none", "partial", "old", "branch", "missing", "malformed"} = {}

VARIABLES
  link,             \* item |-> it is linked into plugins/ or packs/
  cache             \* item |-> its clone: "none", "partial", a tag checked out, or the
                    \*        branch as it was ("old") or as it is ("branch")

homeVars == <<link, cache>>

\* What the clone holds: the version in plugin.yaml, for the pack repository
\* the packs directory.
Content(i) ==
  CASE cache[i] \in TagSet    -> cache[i]
    [] cache[i] = "old"       -> Tags[1]
    [] cache[i] = "branch"    -> Branch[i]
    [] OTHER                  -> "missing"

\* The home may have been set up by an older draft.
InitHome ==
  /\ \E linked \in Homes : link = [i \in Items |-> i \in linked]
  /\ homeDir \/ \A i \in Items : ~link[i]
  /\ cache = [i \in Items |-> IF link[i] THEN "old" ELSE "none"]

\* findPlugins: one plugin.yaml that cannot be decoded is an error for all.
FindError == \E i \in Plugins : link[i] /\ Content(i) = "malformed"
Found(i) == link[i] /\ Content(i) # "missing"

\* loadPlugins when draft starts: the pack-repo command is there.
PackRepoLoaded == ~FindError /\ Found(Builtin)

-----------------------------------------------------------------------------
(* The installers.                                                         *)

\* solveVersion: "" for the branch, a reference as it is, for a constraint the
\* greatest tag that satisfies it.
SolveVersion(v) ==
  IF v = "" \/ v \in TagSet THEN v
  ELSE IF v \notin DOMAIN Constraints THEN "error"
  ELSE LET fit == {n \in DOMAIN Tags : Tags[n] \in Constraints[v]}
       IN  IF fit = {} THEN "error"
           ELSE Tags[CHOOSE n \in fit : \A m \in fit : m <= n]

\* Install: only the installer of plugins asks for the home.
CheckInstall(p) ==
  LET i == proc[p].item
  IN  /\ At(p, "check")
      /\ IF (i # Packs /\ ~homeDir) \/ link[i] THEN Fail(p) ELSE Goto(p, "sync")
      /\ UNCHANGED <<configVars, homeVars>>

\* sync: clone, or update what is there.
Sync(p) ==
  LET i == proc[p].item
  IN  /\ At(p, "sync")
      /\ \/ /\ cache[i] = "none"
            /\ cache' = [cache EXCEPT ![i] = "partial"]
            /\ Goto(p, "clone")
         \/ cache[i] = "partial" /\ Fail(p) /\ UNCHANGED cache
         \/ /\ cache[i] \notin {"none", "partial"}
            /\ cache' = [cache EXCEPT ![i] = IF @ = "old" THEN "branch" ELSE @]
            /\ Goto(p, "version")
         \/ Fault(p) /\ UNCHANGED cache
      /\ UNCHANGED <<configVars, link>>

Clone(p) ==
  LET i == proc[p].item
  IN  /\ At(p, "clone")
      /\ \/ cache' = [cache EXCEPT ![i] = "branch"] /\ Goto(p, "version")
         \/ cache' = [cache EXCEPT ![i] = "none"] /\ Fault(p)
      /\ UNCHANGED <<configVars, link>>

\* solveVersion and setVersion.
SetVersion(p) ==
  LET i   == proc[p].item
      ref == SolveVersion(proc[p].version)
  IN  /\ At(p, "version")
      /\ \/ ref = "error" /\ Fail(p) /\ UNCHANGED cache
         \/ ref = "" /\ Goto(p, "link") /\ UNCHANGED cache
         \/ /\ ref \in TagSet
            /\ cache' = [cache EXCEPT ![i] = ref]
            /\ Goto(p, "link")
         \/ Fault(p) /\ UNCHANGED cache
      /\ UNCHANGED <<configVars, link>>

\* isPlugin or isPackRepo, and the symlink.  The installation of the pack
\* repository, and with it init, is done.
Link(p) ==
  LET i == proc[p].item
  IN  /\ At(p, "link")
      /\ \/ (Content(i) = "missing" \/ link[i]) /\ Fail(p) /\ UNCHANGED link
         \/ Fault(p) /\ UNCHANGED link
         \/ /\ Content(i) # "missing" /\ ~link[i]
            /\ link' = [link EXCEPT ![i] = TRUE]
            /\ IF i = Packs THEN Succeed(p) ELSE Goto(p, "load")
      /\ UNCHANGED <<configVars, cache>>

\* LoadDir and the hook of install or update; init then loads the plugins
\* anew and goes on to the packs.
LoadAndHook(p) ==
  LET i == proc[p].item
  IN  /\ At(p, "load")
      /\ \/ (~Found(i) \/ Content(i) = "malformed") /\ Fail(p)
         \/ Fault(p)
         \/ /\ Found(i) /\ Content(i) # "malformed"
            /\ IF Op(p) # "init" THEN Succeed(p)
               ELSE /\ proc' = [proc EXCEPT ![p].pc = "packs",
                                            ![p].loaded = @ \/ PackRepoLoaded]
                    /\ UNCHANGED begun
      /\ UNCHANGED <<configVars, homeVars>>

-----------------------------------------------------------------------------
(* plugin remove and plugin update.                                        *)

\* findPlugins and findPlugin: what there is to remove or to update.
FindToChange(p) ==
  /\ At(p, "find")
  /\ IF FindError \/ ~Found(proc[p].item) THEN Fail(p)
     ELSE Goto(p, IF Op(p) = "remove" THEN "unlink" ELSE "pull")
  /\ UNCHANGED <<configVars, homeVars>>

\* os.RemoveAll of the link.
Unlink(p) ==
  /\ At(p, "unlink")
  /\ \/ Fault(p) /\ UNCHANGED link
     \/ link' = [link EXCEPT ![proc[p].item] = FALSE] /\ Goto(p, "delete_hook")
  /\ UNCHANGED <<configVars, cache>>

\* The hook is run when the plugin has been removed; init installs the other
\* version next.
DeleteHook(p) ==
  /\ At(p, "delete_hook")
  /\ Fault(p) \/ (IF Op(p) = "init" THEN Goto(p, "check") ELSE Succeed(p))
  /\ UNCHANGED <<configVars, homeVars>>

\* Update: the branch is pulled unless the clone is dirty.
Pull(p) ==
  LET i == proc[p].item
  IN  /\ At(p, "pull")
      /\ \/ (~link[i] \/ cache[i] \in {"none", "partial"}) /\ Fail(p) /\ UNCHANGED cache
         \/ Fault(p) /\ UNCHANGED cache
         \/ /\ link[i] /\ cache[i] \notin {"none", "partial"}
            /\ cache' = [cache EXCEPT ![i] = IF @ = "old" THEN "branch" ELSE @]
            /\ Goto(p, "load")
      /\ UNCHANGED <<configVars, link>>

-----------------------------------------------------------------------------
(* draft init.                                                             *)

EnsureDirectories(p) ==
  /\ At(p, "directories")
  /\ \/ Fault(p) /\ UNCHANGED homeDir
     \/ Goto(p, "config") /\ homeDir' = TRUE
  /\ UNCHANGED <<agenda, config, acked, homeVars>>

EnsureConfig(p) ==
  /\ At(p, "config")
  /\ \/ Fault(p) /\ UNCHANGED config
     \/ config' = (IF config = NoFile THEN {} ELSE config) /\ Goto(p, "plugins")
  /\ UNCHANGED <<agenda, homeDir, acked, homeVars>>

\* A mutant of EnsurePlugins: any version of the plugin will do.
EnsureSomeVersion(p) ==
  /\ At(p, "plugins")
  /\ IF FindError THEN Fail(p)
     ELSE /\ proc' = [proc EXCEPT
               ![p].item = Builtin, ![p].version = BuiltinVersion,
               ![p].pc = IF Found(Builtin) THEN "packs" ELSE "check"]
          /\ UNCHANGED begun
  /\ UNCHANGED <<configVars, homeVars>>

\* A mutant of EnsurePlugins: another version is not removed first.
EnsureWithoutRemoving(p) ==
  /\ At(p, "plugins")
  /\ IF FindError THEN Fail(p)
     ELSE /\ proc' = [proc EXCEPT
               ![p].item = Builtin, ![p].version = BuiltinVersion,
               ![p].pc = IF Found(Builtin) /\ Content(Builtin) = BuiltinVersion
                         THEN "packs" ELSE "check"]
          /\ UNCHANGED begun
  /\ UNCHANGED <<configVars, homeVars>>

\* ensurePlugins: another version is removed, and the built-in one installed.
EnsurePlugins(p) ==
  /\ At(p, "plugins")
  /\ IF FindError THEN Fail(p)
     ELSE /\ proc' = [proc EXCEPT
               ![p].item = Builtin, ![p].version = BuiltinVersion,
               ![p].pc = IF ~Found(Builtin) THEN "check"
                         ELSE IF Content(Builtin) = BuiltinVersion THEN "packs"
                         ELSE "unlink"]
          /\ UNCHANGED begun
  /\ UNCHANGED <<configVars, homeVars>>

\* ensurePacks: the repository is found by its name, in whatever version; if it
\* is not there, the one of this draft is installed.
EnsurePacks(p) ==
  /\ At(p, "packs")
  /\ IF Found(Packs) THEN Succeed(p)
     ELSE IF ~proc[p].loaded THEN Fail(p)
     ELSE \E version \in PacksVersions :
            /\ proc' = [proc EXCEPT ![p].item = Packs, ![p].version = version, ![p].pc = "check"]
            /\ UNCHANGED begun
  /\ UNCHANGED <<configVars, homeVars>>

HomeStep(p) ==
  \/ CheckInstall(p) \/ Sync(p) \/ Clone(p) \/ SetVersion(p) \/ Link(p) \/ LoadAndHook(p)
  \/ FindToChange(p) \/ Unlink(p) \/ DeleteHook(p) \/ Pull(p)
  \/ EnsureDirectories(p) \/ EnsureConfig(p) \/ EnsurePlugins(p) \/ EnsurePacks(p)

-----------------------------------------------------------------------------
\* A run of init that says $DRAFT_HOME has been configured, and that ran alone,
\* leaves the directories, a configuration, the built-in plugin in its version
\* and a pack repository, whatever earlier runs that failed or were killed had
\* left.
InitDelivers ==
  [][\A p \in Procs :
       (Op(p) = "init" /\ Running(p) /\ proc'[p].pc = "ok" /\ proc[p].alone) =>
         /\ homeDir' /\ config' # NoFile
         /\ link'[Builtin] /\ Content(Builtin)' = BuiltinVersion
         /\ link'[Packs] /\ Content(Packs)' # "missing"]_<<procVars, configVars, homeVars>>

\* A clone that was cut short, or a link to a clone without its metadata.
BeyondRepair ==
  \E i \in Items :
    \/ cache[i] = "partial"
    \/ link[i] /\ Content(i) \in {"missing", "malformed"}

\* Init can be run again after anything: one that runs alone fails only for a
\* fault of its own, for a clone that was killed half way, for what is on a
\* repository's branch, or for a configuration that cannot be read.
InitRunsAgain ==
  [][\A p \in Procs :
       (Op(p) = "init" /\ Running(p) /\ proc'[p].pc = "failed" /\ proc[p].alone) =>
         \/ BeyondRepair
         \/ proc[p].item = Packs /\ Content(Packs) = "missing"]_<<procVars, configVars, homeVars>>
=============================================================================
