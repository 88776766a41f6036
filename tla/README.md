# Draft: specification and proofs

TLA+ modules, TLC models and TLAPS proofs about [Draft](../src/README.md), the
tool that builds an application's container image, pushes it, releases it to a
Kubernetes cluster through Helm's Tiller and keeps a history of its builds.
Everything is translated from the Go source under `src/`; Kubernetes, Tiller
and the docker daemon are not part of it and are modelled from the way the code
calls them (their operators are marked external in `PROJECT.json`).

## 1. The system

`draft up` (`cmd/draft/up.go`) reads the project directory into a build
context, calls `Builder.Up`, which starts a goroutine and returns a channel of
*summaries*, and hands that channel to `cmdline.Display`, which shows them until
the channel is closed. `Up` runs three stages, each reporting on the channel:
*build* and *push*, by a container builder (docker or azure), and *release*,
against Kubernetes and Tiller. Whatever happens, a deferred `saveState` stores
the outcome in the application's build history, a ConfigMap in the cluster,
which `draft history`, `draft connect`, `draft logs` and `draft delete` read.

| component | state | operations | what is hard | what makes it correct |
|---|---|---|---|---|
| Builder.Up (`pkg/builder/builder.go`) | the summaries channel (capacity 1), the named errors, `app.Obj`, the build log | Up, release, saveState, Summarize, Complete | two goroutines and a wait group, deferred calls on error paths | stages in order, each one bracketed by its summaries, the history agrees with what the user was told, the stream ends |
| docker builder (`pkg/builder/docker`) | msgc, errc, the `nil`-ed channel variables, a wait group | Build, Push, AuthToken | polling loops over two channels closed in some order by other goroutines, sends on a full or closed channel | no error is swallowed, no release before the images are pushed, no wait without end |
| azure builder (`pkg/builder/azure`) | the same, plus a blob polled for the log | Build, Push, AuthToken | a poll without pause or end, a remote build whose result nobody reads, a build stage completed twice | no release before the remote build is over, the deployed image is the one that was built |
| registry authentication (`pkg/azure/containerregistry/util.go`) | a challenge and two HTTP exchanges | parseAssignments, token exchange | slices whose ends are looked up in a header from outside | a quoted challenge is understood as written |
| registry client (`pkg/azure/containerregistry`) | a future, a page and an index into it | 19 operations, 9 futures, 4 iterators | retries of requests already carried out, two ways to poll, results fetched from one URL or another | who is told of success has its outcome; a listing neither skips nor repeats |
| release environment (`builder.go`) | namespace, pull secret, service account, release revisions | prepareReleaseEnvironment, release | check-then-act requests of several users, optimistic versions | pods can pull, nobody's pull secret is lost, a run does not trip over its own requests |
| storage (`pkg/storage/kube/configmap`) | one ConfigMap per application | CreateBuild, UpdateBuild, DeleteBuild(s), GetBuild(s) | read-modify-write by several clients, lost answers | no acknowledged build is lost |
| in-process storage (`pkg/storage/inprocess`) | a map of slices | the same | slices handed out and shifted in place; tests only | the same promise |
| display (`pkg/cmdline`) | a map of entries, two goroutines and two channels per entry | Init, Display, progress, Stop | a map without a lock, channels closed at the end, waiting for every goroutine | every outcome is shown, Display returns |
| draft up (`cmd/draft/up.go`), tasks (`pkg/tasks`) | settings, task list, a log file per build | run | a long sequence of fallible steps that other commands overlap, precedence of registry settings, tasks after a failure | the release that runs is in the history, auto-connect finds its own build or a newer one, the command ends |
| delete, history, logs, connect (`cmd/draft`) | none of their own | Delete, getHistory, getLatestBuildID, detach | several objects deleted one after the other, with failures in between; a child process that outlives its parent | nothing is left that no command can reach; a signal ends a session |
| pod lookup, ports, tunnels (`pkg/kube`, `pkg/local`, `pkg/draft/tunnel`) | an informer, a timer, local ports | GetPod, getPortMapping, ForwardPort | an informer racing a timeout; a port found free and taken by somebody else | the pod is of the build and was ready; a tunnel has the port it was asked for |
| file watcher (`pkg/builder/watch.go`) | a stop channel, events | Watch | events dropped, two goroutines closing channels; called by no command of this version | the last change is followed by a reload |
| packs and create (`pkg/draft/pack`, `cmd/draft/create.go`) | files | SaveDir, create, pack detection | a failure between two files | "ready to sail" means that the scaffold is whole; the pack is that of the largest language that has one |
| pack repositories, plugins, init (`pkg/plugin`, `pkg/draft/pack/repo`, `cmd/draft/ensure.go`) | directories under `~/.draft` | install, update, remove, hooks, init | a failure between removal and installation | init delivers what it announces, and can be run again |
| global configuration (`cmd/draft/config*.go`) | `config.toml` | set, unset | read-modify-write by processes, truncation | what was saved stays saved |
| linguist (`pkg/linguist`) | rules, tables, heap of workers | ProcessDir, Tokenize, Analyse, training | rules in the order of their kind and not of their lines; a heap whose indices are not kept | the languages are counted as git counts files; the training ends |
| azure identity, generated tables | | | | not modelled: copied code, data |

`PROJECT.json` lists them all, with what each still lacks, and under "hazards"
each place in the code where something hard to test can go wrong, with the
properties that cover it or the reason none does yet.

## 2. The modules

Modules with a state, in the order of what they compose:

| module | models |
|---|---|
| `SummaryStream` | the channel of summaries: `Summarize` and `Complete`, which block when it is full |
| `DockerBuild` | `docker.Builder.Build`: the caller's polling loop (`bpc`) and its worker goroutine (`bworker`) |
| `DockerPush` | `docker.Builder.Push`: the caller (`ppc`), the goroutine that spawns the pushers (`starter`), one `pusher` per image, the buffered `errc`, the wait group |
| `BuilderUp` | `Builder.Up` composed with the two: its goroutine (`upc`), the goroutine that closes the channel, the receiver, the process |
| `AzureBuild` | `azure.Builder.Build`: the caller, the worker that uploads, queues and polls, and the registry's build service |
| `AzureUp` | `Builder.Up` composed with `AzureBuild`, azure's `Push`, and the token exchange before the release |
| `Display` | `cmdline.Display`, `progress` and its relay goroutine, fed by any sender that keeps to `StageSender` |
| `ReleaseStage` | `prepareReleaseEnvironment` and the helm requests of `release`, by several runs at once |
| `ConfigMapStore` | the storage engine: an action per request to the API server, several clients |
| `AppLifecycle` | the commands up, delete, connect and logs, one after the other or at once, over log files, build history (`BuildHistory`) and helm release |
| `ConnectSession` | `draft connect`: GetPod, the port mapping, the tunnels, the signal, and `detach` with its child |
| `Watcher` | `Watch` and `watch`: the notifier's channel, the relay, the reloads, the two closes |
| `GlobalConfig` | `config.toml` and the processes that read it and write it back |
| `PluginHome` | `$DRAFT_HOME`: plugins, caches, links and pack repositories; install, remove, update, init |
| `AppScaffold` | `draft create`: the choice of the pack and the files, in the order in which they are made |
| `DraftHome` | the three of them together, with kills at every step |
| `RegistryClient` | one call of any operation of the registry's client, to its end |
| `PagedListing` | a listing through its iterator, with a caller that goes on after a failure |
| `ClassifierTraining` | the balancer, the workers, the receiver and main of the training of the classifier |

What they promise, as specifications of their own:

| module | promise | implemented by |
|---|---|---|
| `UpStages` | stages in order, one record of the outcome, then the end of the stream | `BuilderUp`, `AzureUp` (`ImplementsStages`) |
| `StageSender` | one stage at a time, "started" first and a final code last, closed with none open; a stage in `Echoed` may be completed twice | `BuilderUp`, `AzureUp` (`FeedsDisplay`); it is the sender of `Display` |
| `BuildHistory` | storage that exists or not, builds added and removed one by one | `ConfigMapStore` (`ImplementsHistory`); it is the history of `AppLifecycle` |

Algorithms, as operators and recursive functions without a state:

| module | computes | used by |
|---|---|---|
| `UpSettings` | which of flags, global configuration and draft.toml wins; the chart, archive, images and values | `AzureBuild` |
| `RegistryChallenge` | the WWW-Authenticate header, token by token, and the token exchange | `AzureUp` |
| `PackDetection` | the tally of languages, their aliases, the pack | `AppScaffold` |
| `PackFiles` | the files of a pack as read and as saved | `MCDraftHome` |
| `LanguageRules` | .gitignore, .gitattributes, names, interpreters, the classifier's choice | `MCDraftHome` (its tally is one of `DraftHome`'s listings) |
| `Tokenizer` | the words of a file that the classifier sees | `MCDraftHome` |
| `RegistryOperations` | the table of the client's 19 operations: request, validation, accepted codes, kind of answer | `RegistryClient` |
| `RegistryWire` | which fields of a value survive marshalling, and the type tags of the unions | `MCLocalMachine` |
| `HistoryListing`, `CommandLines` | what history lists; the command lines of tasks and plugins | `MCAppLifecycle` |
| `InProcessStore` | the other storage engine, operation by operation | `MCCluster` |

`BuilderUpProofs`, `ConfigMapStoreProofs`, `AppLifecycleProofs`, `ReleaseStageProofs`,
`DisplayProofs`, `AzureUpProofs`, `DraftHomeProofs` and `LocalMachineProofs` hold the theorems, and
the `MC*` modules the values of the constants for TLC.

### How state and actions correspond to the code

*A goroutine* is a program-counter variable; one action is what it does between
two points at which another goroutine can see or influence it: a channel
operation, a call that leaves the process, a deferred function. *A buffered
channel* is a sequence whose sends wait for `Len < cap`; *an unbuffered one*
(`msgc`, `errc` of Build) is a rendezvous: `BuildRecvErr` moves sender and receiver
at once. *A closed channel* is a member of `bclosed` or `pclosed`, and the loop's
assignment `errc = nil` a member of `bnil` or `pnil`. A receive on a closed
buffered channel reports `!ok` only when the buffer is empty (`Drained`); a send
on one panics, a sender already waiting included (`PusherSendErr`). A `select` with a `default`
takes the default only if no case is ready (`BuildDefault`, `PushDefault`).
*A call that can fail* succeeds, or fails if its name is in `Faults`. A panic in a
pusher runs its deferred `wg.Done` first (`Finished` holds "panicking"), so that
other goroutines may take some steps before `Crash` ends the process. The worker of the azure
builder that dereferences a field missing in an answer closes msgc and errc on its way out
(`"panicking"` to `"panicked"` in `WorkerClose`, `src/pkg/builder/azure/builder.go:46-49`), and the caller may see both
closed, return nil from Build and go on as far as it gets until `Crash`. A panic of `parseAssignments` is
one of Up's goroutine: the deferred `Complete` of release reads an `err` that is nil and tells the user of a success,
`saveState` and `wg.Done` follow, and the process dies then (`proc = "panicking"`).

The *order of deferred calls* is kept: `Complete` runs after the body of a stage
has fixed the named result it reads, `saveState` before `wg.Done`, and
`close(errc)` when the loop that spawns the pushers ends. `NewAppContext` can fail
in a state in which the deferred `saveState` has a nil application context; that
outcome is the crash of the process.

In `ConfigMapStore` an operation is `Call`, then `Get*` and, for writers, one of
`CreateConfigMap`, `UpdateConfigMap` and `DeleteConfigMap`; `readVersion` and
`readData` are the object in the client's memory. An Update carries the resource
version that Get returned and is refused if the object has moved on; a request may
be lost, or applied and its answer lost. An entry's contents are opaque: an
operation is told apart by the build's ID only, as in the code. A `Data` map that became
empty reads back as nil, and `GetForUpdate` panics on it.

In `Display` a stage's entry may be made twice, hence instances `<<stage, n>>`.
`Announce` drops the code of the summary that makes the entry, as the code
does. `MapRace` is the fault the Go runtime may raise when the unsynchronised map
is touched by two goroutines. The sender is `StageSender`, which `FeedsDisplay` shows
that both `Up`s implement: with the docker builder, and with a stage in
`Echoed` for the azure builder, whose Push completes the build stage once more
(`src/pkg/builder/azure/builder.go:215`).

In `AzureBuild` the build service is a set of steps of its own, external to the repository: it takes the queued
build (`remote`), appends to the log blob up to `LogLen` chunks, marks the blob complete after the
build has succeeded or failed, and puts the images in `hub`. The worker reads the
blob's metadata and then its contents (two requests, between which the service goes on), and only the mark
ends the poll. What is asked for and what is deployed are computed by `UpSettings` from one
element of `Inputs`, so that the name of an image is spelt by the same
rules in the build request and in the chart's values. `offer` is the registry's challenge
and `directive` what `parseAssignments` made of it.

In `ConnectSession` a session has the main goroutine (`spc`), the informer, a
signal and its tunnels. The informer is given every pod again each second (its
resync) and may set the pod at any time until `GetPod` returns; `GetPod`'s
`select` takes either of its two channels when both are ready. A port is probed,
released and listened on in separate steps, and another session or program (`PortTaken`) may take
it in between. `detach` is a parent that reads its child's output and returns: the
session it started goes on, and `told` is what the parent printed.

In `Watcher` the notifier's channel holds one event and drops the rest, and `stale`
remembers that a change came after the last reload began. `crowdedOut` is the case in
which the one event kept is of an ignored file and the change's own was dropped.

`DraftHome` has a process per terminal, which begins commands of an agenda, one at a time.
Each file operation is a step that may fail, and `Kill` ends a command between
two of them or in the middle of a clone or of an encode (`"partial"`, `Garbled`). A clone in `cache/` and the link to it in
`plugins/` or `packs/` are told apart, since remove takes the link away and leaves the
clone. `acked`, `alone` and `broken` are not in the code: they remember what a
command that succeeded has set, whether a command had the home to itself, and that an earlier create broke
off, for the properties that exclude those cases. `acked` forgets what the code is known to lose, key by
key: a save cut off after the truncation, the settings there were (`CutOff`); a save over what another has
written since the run read the file, the keys that it had read otherwise (`WrittenBack`). A canary draft asks
for its packs in no version, a released one for the tag of its own (`src/pkg/draft/pack/repo/builtins.go:15-17`):
`PacksVersions` has both.

In `RegistryClient` an operation is a row of `RegistryOperations`. `job` is what the
service does, and `reported` and `returned` are what the caller gets; a request or an answer may be lost up to
the client's retries (`MaxSends`), and `Meddle` is another user of the same item.
In `ClassifierTraining` the heap is a sequence of workers in which one may be
twice and another not at all, because nothing keeps the workers' indices.

`AppLifecycle` is one level up: a command is its number, in the order the commands start,
which is also the order of the build IDs (a ULID grows with time; two taken in the same
millisecond are not ordered, and not modelled). Its steps are the parts of `upCmd.run`, of `Up`
(the stages that the modules above detail become one step each), of `Delete` and of
connect and logs, each of which may fail. Four steps may never be taken, since what they wait for may never come
(`Waiting`): Build and Push (`up_auth`, `up_push`, and a log that is never complete), Display (`display_azure`), a connection, which
lasts until the user ends it, and `draft logs --tail`, which follows the file for ever; `Kill` ends a command between two steps or
while its request is under way. `undone` is not in the code: it remembers, for
`ReleaseIsRecorded`, which writes of a command failed or were cut short, and forgets it
for commands that had ended when a new release is made. `Displayed` has the panic of
`taskList.Run` on the nil list that `tasks.Load` returns without a file (`src/cmd/draft/up.go:268`).

`ReleaseStage` has one action per request. `copyPulls` and `copyVer` are a run's
copy of the service account. `AccountController` and `OtherPullSecret` are steps of the
cluster. A pull secret that exists is never renewed, because `StringData` is
write-only and reads back empty; `GetRelease` asks for revision 1 alone, which
a bounded history may have dropped (`HistoryMax`). A write may be refused (`Refused`); or its answer is lost, the wait of
`--wait` times out, or Tiller records the revision as FAILED (`src/pkg/builder/builder.go:416-450`): the run then gives up
(`Unanswered`) while the request is still under way, and the cluster carries it out, or refuses it, at any time
after that. `why` is "kube" or "helm" from then on, and other runs meet what it has made.

## 3. What is checked

| run | instance | shows |
|---|---|---|
| `up` | three images, with and without a registry, every call may fail | `ReleaseAfterPush`: helm is reached only with every image pushed. `PushErrorSurfaces`: an error put on errc is returned. `HistoryAgreesWithStream`: what is stored is what the user was told. `FeedsDisplay`: refinement of `StageSender`, so that `Display`'s assumption about its sender holds. `ImplementsStages`: refinement of `UpStages`. `StreamEnds` |
| `up_auth` | only the auth token may fail | **violated** `StageEnds`: the worker returns with nothing sent and nothing closed, Build polls for ever |
| `up_push` | only ImagePush may fail | **violated** `StageEnds`: errc is closed under the pushers, a later failure panics |
| `azure` | the azure builder, registries spelt in four ways, two draft.toml, global settings, the flag `--skip-image-push`, 73 challenges, every call may fail | `ReleaseAfterRemoteBuild`: a release begins only when the remote build is over and its whole log copied. `DeployedImageExists`: the image in the chart's values is one that the build service has pushed, under that very name, unless the remote build failed. Both except a worker that has panicked and closed its channels, after which the process is about to die. `QuotedChallengeUnderstood`. `FeedsDisplay` and `ImplementsStages` for this `Up`. `StreamEnds`: it ends, or polls for ever for a log that is never completed |
| `cluster` | the store: two clients, two builds, up to four writes, requests and answers lost; the release stage: two runs and another user of the account, requests refused, or carried out after the run has given up | `AckedBuildKept`: no acknowledged build is lost. `ImplementsHistory`: every write is one step of `BuildHistory`. `PodsCanPull`: whoever reaches Tiller leaves a namespace with a pull secret that its default account names. `PullSecretsKept`. `FailsForCause`: a run fails on "exists", on a conflict or on a release that is there only because of somebody else, whether or not that one was told that it succeeded |
| `display` | three stages, one completed twice | `OutcomesShown`: when Display returns, each stage's outcome was printed as its sender reported it. `ForwardedToLive`: no code is sent on a channel that was closed or to a goroutine that is gone. `DisplayReturns` |
| `display_azure` | two stages, one completed twice | **violated** `StopFinishes`: the entry made by the second completion never gets a final code, Display waits for its goroutine for ever, and `Stop` does not end it |
| `lifecycle` | three commands of any kind | `ReleaseIsRecorded`: the release that runs is in the build history, unless its own up was stopped between the release and `saveState`, or a delete that had not ended by then was stopped between its two deletions. `ConnectsForward`: up with auto-connect asks for the latest build, not for its own, and still never connects to an older one. `CommandsEnd`: a command ends, or stays at one of the four steps that nothing bounds; also where no pod will ever be ready |
| `lifecycle_delete` | two commands | **violated** `DeleteGetsThrough`: an up that is stopped before `saveState` leaves a release and no history; delete looks for the history first and gives up |
| `connect` | two sessions, three ports, another program; the watcher with three changes; every operation of the registry client; three listings; four samples and two workers | `PodWasReady`: a session's pod is of the build and has been ready. `TunnelsKeepTheirPorts`: the port of a live tunnel is its session's alone and the one asked for, and what detach has printed is complete. `SignalEnds`. `ChangesReloaded`: a change is followed by a reload however many events are dropped. `OutcomeTold`: success means carried out, with its outcome. `ListedOnce`: nothing skipped or repeated over failures, and the end only at the end or at an empty page. `TrainingEnds`, although the heap loses workers |
| `listing` | the listings of `connect`, one of them with an empty page in the middle | **violated** `EverythingListed`: the iterator takes the empty page for the end, although its page has a next link |
| `files` | three commands of three agendas, two terminals, three homes, a fault or a kill at any step | `SettingsKept`: what was set is in the file and what was unset does not come back, but for what a save that broke off or one over another's save must lose. `InitDelivers`: an init that announces success leaves all that it announces. `InitRunsAgain`: after any failure init can be run again. `ReadyIsScaffolded`: "ready to sail" means a whole scaffold, whatever other runs do or left, of every run that made it. `BestPackChosen` |

The five runs whose property is violated are disagreements between the code and a
comment or a help text in it; "findings" in `PROJECT.json` quotes both. What the passing properties except
is named in them, and nothing else is excepted: `StreamEnds` excepts `AuthLost`,
the state `up_auth` reaches, and with the azure builder a log that is never completed; `CommandsEnd` the four steps
that nothing bounds; `DisplayReturns` a stage with two entries;
`ReleaseAfterRemoteBuild` and `DeployedImageExists` a worker that has panicked, until the process dies of it;
`ListedOnce` the values behind an empty page, which `EverythingListed` is about;
`ChangesReloaded` the event crowded out by an ignored one; `InitRunsAgain` a clone
that was killed half way (`BeyondRepair`) and what is on a repository's branch; with `InitDelivers`, a command that did not run
alone. `ReadyIsScaffolded` excepts a run that finds charts/ and made nothing itself, when the run that made it is still at
work or broke off (`broken`): the code takes the directory for the scaffold. `SettingsKept` excepts what `acked` forgets (section 2), and
a file that two saves at once have left unreadable.

### The algorithms

Algorithms without a state are compared with a reference definition over all the
inputs of a small set by an `ASSUME`, which TLC evaluates before the run named here.

| run | assumption | what it compares |
|---|---|---|
| `files` | `PackSaved`, `EveryFileOpened` | what the application's directory holds after SaveDir: its own files unchanged, the pack's others under their names, a tasks file in any case; a README that cannot be opened fails the pack |
| `files` | `GitignoreRead`, `StarHidesAll`, `AttributesRead` | linguist's three lists of rules against git's last match, over all three-line files: the same where the exceptions come last, never fewer files otherwise; a lone star hides everything |
| `files` | `HintsKept` | the language of a name is among its hints, the classifier answers with a hint, an interpreter is stronger than both |
| `files` | `TokensArePlain`, `TokensLost` | the tokens are a subsequence of the plain words, all of them where there is no quote or comment; and the words that its shortcuts lose |
| `lifecycle` | `HistoryListed` | what history lists, against the builds in the order of their age |
| `lifecycle` | `TasksEvaluated`, `TasksAllRun` | the escapes in a task's arguments; a failing task does not keep another from being run |
| `lifecycle` | `PluginsExpanded`, `ArgsDivided`, `PluginsBesideCommands` | a plugin's line is expanded without escapes; every argument is either draft's or the plugin's, in its order; what `loadPlugins` compares |
| `cluster` | `InProcessKeepsHistory`, `SliceMoves` | the in-process engine against the steps of `BuildHistory`, over every state that four operations reach; what happens to a slice that was handed out |
| `connect` | `UnionsKept`, `FieldsKept`, `UnionsAreExact` | what a value of the registry client is after it was written and read |
| `connect` | `TasksValidated`, `NamesValidated`, `FuturesMatch` | what its validation refuses; that every operation has its future or its pages |

### Bounds and why they are enough

`ChanCap = 1` and `ErrcCap = 1` are the code's capacities. Three images are one more
than it takes to have a failed pusher, one blocked behind it on the full errc,
and one that panics or succeeds later. `LogLen = 2` lets the log grow between two requests of the worker, and
between its end and its mark; the inputs of `azure` have each spelling of a registry with each
value of the flag, and the challenges all sequences of up to two parameters, with the empty value
and the value with a comma. Two clients of the store are enough for a
write between the two requests of an operation; four writes (`MaxVersion`) allow create,
delete, create again and an update by a client whose copy is from before. A stage gets
at most two entries, since a sender completes it at most twice. Two runs of
`draft up`, a third writer of the account (`OtherPullSecret`), `HistoryMax = 2` and
`MaxRevision = 5` reach a release whose revision 1 was dropped before and while the
runs are under way. Three commands are two that interfere and one that meets what they left
(an up, a delete and a second up or connect; in `files` a removal, an installation and an init).

Two sessions with three ports want the same port, different ports and any port; a tunnel
of each may be lost (`MaxLost = 1`), and the other program takes one port once (`MaxTaken = 1`). `SomeStarts` has the plain,
dry and exported modes with overrides that are good, double, of an unknown container or
malformed. Three changes (`MaxChanges`) are one being loaded, one in the channel and one dropped.
`MaxSends = 2` is one request lost and its retry. Four samples and two workers make the heap hold a worker twice
with another one busy. `SomeHomes` has an empty home, one of an older draft, and one
with everything; `SomeAgendas` keeps the commands that meet each other's files together, since those
of different agendas share none. In `files` the two terminals are symmetric (`SYMMETRY`): they are told
apart by nothing, and the run has safety and action properties only. No other symmetry and no
state constraint is used.

`connect` runs five systems that share nothing, one per behaviour (`subject`), and `cluster` two: the
states add up and do not multiply.

`CHECK_DEADLOCK FALSE` is given where the system may stop: the store's writes are bounded,
a run of release has ended, a display has returned, the commands or the sessions are over.

### Fairness

`BuilderUp!Fairness` is weak fairness of each goroutine: the Go scheduler runs
every goroutine that can run, and the calls a goroutine makes return, with or
without an error. It includes the receiver, which is `Display`'s loop, and the
crash after a panic. `Exit` is not fair: the properties do not depend on when the
command returns. No fairness is assumed of the choice between two ready cases of a
`select`, nor of any call's success. `AzureUp!Fairness` is the same and
assumes nothing of the registry's build service: a build that never ends, or whose log is never
marked, is the second half of `StreamEnds`. `Display!Fairness` is the same for Display and the
goroutines of each entry; nothing is assumed of the sender. `AppLifecycle!FairSpec` is weak
fairness of each command at a step that is not in `Waiting`: a request is answered or fails, a task of
the user returns, GetPod's five minutes pass. Of the four steps of `Waiting` nothing is assumed, and
of the cluster neither, least of all that a pod becomes ready.
`MCLocalMachine!FairSpec` is weak fairness of each goroutine of a session, with GetPod's timer, of the
watcher's goroutines and the receiver of its stream while it is there, and of those of the training;
nothing is assumed of pods, users, signals, changes or the registry.
That the stages of an up come to an end is what `StreamEnds` and `DisplayReturns` say,
under the exceptions named there. The store, the
release stage, the home and the registry client have safety properties only.

## 4. What is proved

For every value of the constants: any images, channel capacities and faults; any clients, builds and
writes; any numbers of commands, runs, stages, sessions and ports; any listings and pages. The
assumptions are those declared as `...Assumption` in the modules, which TLC evaluates in every run
of a module that extends them. Every safety property of a run that
passes is the statement of a theorem.

`BuilderUpProofs`. `UpTypeOK`; `UpPushErrorSurfaces`; `UpReleaseAfterPush`;
`UpImplementsStages`. None of them is inductive. The inductive invariant
(`IInv`, theorem `UpInvariant`) adds what Push knows of its goroutines: no pusher
runs before the starter, errc is open until every pusher has been spawned, an
error a pusher has sent is in errc until the caller has taken it, msgc and errc
are set to nil only when closed and errc only when empty, and a Push about to return nil has
seen both closed and, through the wait group, every pusher finished. To this it adds
that Up releases only after a Push that returned nil. `ReleaseAfterPush` follows: every
pusher has finished, and one that finished as "failed" has left its error in errc
or in the result, which contradicts the nil.
The refinement theorem maps each step to a stage that begins or ends, to the record
of the outcome, to the end of the stream, or to a stutter.

Of the stream: `UpHistoryAgreesWithStream`: the receiver is told of success only
of a release that is recorded and over, and from then on that is the last thing in the channel (`ToldInv`).
`UpFeedsDisplay`, under the one assumption that the channel has the capacity Up gives it:
each stage has told what `StageResult` says it has come to, and what is in the channel
follows on what the receiver was told before (`FeedInv`); with it `SendStep` shows once that a summary sent at a stage's
beginning, on its way or at its end is one `StageSender` sends, and the rest names the stage of each action. The results
of the refinement to `UpStages` carry over, since both speak of `StageResult`.

`ConfigMapStoreProofs`. `StoreTypeOK`; `StoreKeepsAcked`;
`StoreImplementsHistory`. The inductive invariant adds `CopyCoherent` and
`CopyChanges`: the version a client read identifies what it read, so a client whose copy is
current holds exactly the stored entries with its one change. A write takes a version
larger than any handed out, which makes every other copy stale; the lemma
`CopiesSurvive` says so once for the three actions that write.

`AppLifecycleProofs`. `LifecycleTypeOK`; `LifecycleReleaseIsRecorded`;
`LifecycleConnectsForward`, for any number of commands. The inductive invariant adds to the
two properties that storage which does not exist holds no build (so that Create loses
none), that an up past `OpenLog` has its log file, that no file is older than
what it finds, and that a command which has not started has found nothing.

`ReleaseStageProofs`, for any number of runs. `ReleaseTyped`; `ReleasePodsCanPull`;
`ReleaseFailsForCause`; `ReleasePullSecretsKept`. Neither of the two invariants is inductive: that a run
fails for somebody else's sake needs `Overtaken` (what a run has not found, and is there now, another
run has made since, also one that has given up on the request that made it, or another user or a bounded history is behind it), and that pods can pull needs
`Found` (what a run has found or made is there; its copy of the account, if it is current, has all the
pull secrets). A revision that is the newest exists because a finite set of numbers has a largest one.

`DisplayProofs`, for any stages of which any are echoed. `TypeCorrect`; `NoSendOnClosed`;
`EveryOutcomeShown`. The invariant follows a code from the sender to the terminal: `SentInv` relates what
the sender has told to the entries that were made, `FinalInv` says of a final code anywhere between the
two that it is the outcome of its stage and that nothing but an echo comes after it, `FailedInv` that a
failure counted was told, and `EntryInv` and `PlaceInv` which goroutines and channels there are. The codes of a
second entry, which never gets a final one, are what makes `FinalInv` speak of the places one by one.

`AzureUpProofs`, for any settings, challenges, faults and length of the log.

- `AzureReleaseAfterRemoteBuild` and `AzureDeployedImageExists`: `BuildInv` relates the worker to the build
  service (nothing runs before the request is queued, the log is complete only when the build is over)
  and the caller to the worker (it returns nil only with both channels closed, which is the worker's last
  act: of a return or of a panic, which is why a worker that has panicked is excepted); `UpInv` adds that a release deploys only after a Build that returned nil, from a registry known by its
  login server, which is what makes the two spellings of the image's name the same.
- `AzureImplementsStages` and `AzureFeedsDisplay`, as for the docker builder, the second with `ChanCap = 1`; the
  stage that is completed twice is in `FeedInv` as a second "success" on top of the first.
- `AzureChallengeUnderstood`: of a header of any number of quoted parameters, with any words in the values but a
  quote, `parseAssignments` reads each parameter as it was written. It is a proof about a loop: `WrittenNext` says where key,
  quotes and value are in the header, `RoundIs` what a round of the loop makes of that place, `HeaderParsed`
  that the rounds from any parameter on give what the parameters from there on mean, the last of a repeated key
  counting. `AzureUpAssumption` has what is asked of the values.

`DraftHomeProofs`, for any terminals, agendas, keys, plugins and homes, with failures and kills.

- `SettingsAreKept`: what a process has read has no key that was last unset, and every key that was last set
  unless it was read in the middle of a save that is not over, as long as it is not `stale` (`SaveInv`); that case is
  what makes the property inductive, since the file is truncated in between. What a run writes back agrees with what
  `acked` then holds (`ChangedAgrees`).
- `ReadyMeansScaffolded`: at most one run is past os.Mkdir, which is the lock of create, and what such a run has
  made by each of its steps is there (`ScaffoldInv`, `Made`), whoever else runs or has broken off.
- `InitMeansDelivered`: what an init that is alone has done by each of its steps (`InitDone`), with the run
  that is alone being the only one (`LoneInv`).
- `InitCanBeRunAgain`, from the same invariant and two hypotheses: that the repositories of the built-in plugin and of the
  packs have the tags of the versions asked for (a canary asks for none of the packs). Without them no init succeeds and
  none can be run again.
- `DetectedIsBest`: the pack that is chosen is that of a language with the most bytes among those with a pack.
- `GitKeepsCounted`: what the assumption `GitignoreRead` compares over three lines, for any lines and any path: a file that
  git keeps, by the last line that matches it and each directory above it, is counted, and no other is if the
  exceptions come last. Its hypotheses are what the two do not agree on: a rule that ignores the directory
  walked itself (`StarHidesAll`), and git's own files.

`LocalMachineProofs`, about `ConnectSpec`, `ClientSpec` and `ListingSpec`, the specifications of three of the five systems
that the run `connect` checks side by side.

- `SessionsPodWasReady`: `targetPod` is set before anything that lets GetPod return (`TargetSet`), and every pod
  the informer could choose has been ready (`ReadyNoted`).
- `SessionsKeepTheirPorts`: a tunnel that is open has its port to itself (`Held`) and is at the local port asked for
  (`Asked`); both need how far a session has got with its overrides accepted (`Progress`).
- `ClientOutcomeTold`, for any operation of the table and any number of requests lost: what the job has come to
  (`Carried`), how far the call has got (`Called`), and what was told of it (`ToldRight`).
- `ListingOnce`: what was given is the pages before the one held and the values before the index, and the
  end is where the page held is empty (`ListingInv`). The facts on `FlattenSeq` are proved, not assumed.

The library's induction theorems take a formula as a parameter, which the prover cannot instantiate. Where a proof goes by a
number (`FlattenSeq`, the parser's loop, a header's length), `LeastNumber` takes their place: the set of numbers at
which the claim fails has no least member. It rests on the well-foundedness of strict inclusion between finite sets.

Only model-checked: the liveness properties (`StreamEnds`, `StageEnds`, `DisplayReturns`, `StopFinishes`,
`CommandsEnd`, `SignalEnds`, `ChangesReloaded`, `TrainingEnds`), since liveness under fairness is out of the
prover's reach; `DeleteGetsThrough` and `EverythingListed`, which are violated; and the comparisons of the algorithms in section 3,
whose reference definitions are made to be enumerated; what the proofs above need of `parseAssignments`, of pack
detection and of `FlattenSeq` is proved, and of the rules of `.gitignore` the comparison itself.

## 5. What is left out

The contents of summaries, logs, images and charts; the docker, Kubernetes and HTTP
protocols; cancellation of the commands, all of which pass `context.Background()`; the
progress spinner and the formats of `draft history`; the copying of log lines. `LoadWithEnv` reads files before
`Up` starts: which files and settings win is in `UpSettings`, their archiving is one read that may fail.
Of `draft init` the `--config` file with plugins and repositories of one's own, and the installation
from a local directory; of `detach` the flags that it does not hand on. The tables of
`pkg/linguist/static.go` and `data.go` are generated data (5 700 of the repository's lines), and
`pkg/azure/iam` is flag parsing and token files copied from an SDK. The scores of the classifier and the regular expressions for vendored
code and documentation are inputs.

What the modelling has shown of the code beside the findings, each in the model as the code has it, without a run of its own:

- *Builds.* The global configuration overrides draft.toml, where the comment at `src/cmd/draft/up.go:176` has the
  opposite order. `loadArchive` prefers the two archives to a chart directory, as its own comment says, where the
  comment at its call (`src/pkg/builder/builder.go:180-184`) has the directory first. `parseAssignments` reads a value
  without quotes, which its comment shows first (`src/pkg/azure/containerregistry/util.go:149`), with the two ends the wrong
  way round: it panics on a last one and swallows the rest of the header on any other.
- *Connect.* After a tunnel is lost the session goes on and says that it is still active (`src/cmd/draft/connect.go:106`).
- *Create.* After an interrupted create the next one finds charts/ and says that it is ready to sail (`src/cmd/draft/create.go:89`).
  draft.toml is opened without truncation (`create.go:124`), so that a shorter one leaves the end of
  the longer. The errors of `io.Copy` are dropped (`src/pkg/draft/pack/pack.go:84`, `:115`), which makes a linked
  directory of a pack an empty file; `FromDir` opens the pack's README.md, which nothing uses.
- *Init and plugins.* A clone that was killed half way blocks the installation for ever. A plugin whose
  install hook failed is taken for installed by the next init. `manuallyProcessArgs` indexes past the end for a
  last flag without its value; `loadPlugins` compares the name of a command with a plugin's description;
  a plugin's line and its user's arguments are expanded without escapes.
- *Linguist.* The walk's error is dropped, so that a file that cannot be read ends the count. A lone `*` in .gitignore hides
  everything, whatever is excepted. The tokenizer takes a closed one-word string for an open one, does not know the
  multi-line comments of XML and Perl 6, reads a docstring at a line's beginning as a comment of one line, and
  misses the end of a comment on a line that looks like one. An interpreter on a first line
  that is not ended is not seen. The training's heap keeps no indices, and without samples it never ends.
- *History.* `--max` keeps the oldest builds and panics if negative. The in-process engine adds an updated build a
  second time, and hands out the slice that it shifts.
- *Registry client.* Results that are
  not polled at a Location are fetched from the operation's URL, which for deletions is gone and for `QueueBuild`
  has no GET. The deletion of a step refuses 204. The update of a task lacks the checks of its creation, an update of a step's tags alone says that its properties are
  null, and a step of a kind unknown to the client loses its kind when written back.

## 6. Plan

The parts of the system that carry its logic are modelled, and every safety and action property that holds of a
run is proved for all values of its constants. What remains, in this order:

1. Lemmas on the algorithms that are functions and not `RECURSIVE` operators, by way of the least number: that the tally of
   languages loses no bytes, and that the type tags of the unions are exact for any members.
2. The training of the classifier: that the receiver has every result, without the bounds on samples and workers.
3. The safety part of the watcher: a change that was taken from the channel is in the reload after it.
