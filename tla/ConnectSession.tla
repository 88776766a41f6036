--------------------------- MODULE ConnectSession ----------------------------
(***************************************************************************)
(* `draft connect` from the build ID it looks for to the signal that ends  *)
(* it: GetPod (pkg/kube/podutil), App.Connect and getPortMapping           *)
(* (pkg/local), Tunnel.ForwardPort (pkg/draft/tunnel) and connectCmd.run   *)
(* and detach (cmd/draft/connect.go), for several sessions on one machine. *)
(*                                                                         *)
(* The goroutines of a session: its main one, the informer of GetPod, the  *)
(* one that waits for a signal, and the forwarder of every tunnel.  The    *)
(* cluster's pods, the informer's resync (every object is given to         *)
(* UpdateFunc once a second) and the machine's ports are external.         *)
(***************************************************************************)
EXTENDS Integers, FiniteSets, SequencesExt

CONSTANTS
  Sessions,     \* the runs of draft connect
  Pods,         \* the application's pods, of this build and of others
  BuildPods,    \* those with the label and the build ID looked for
  Containers,   \* the pod's containers, in order: [name, ports]
  Ports,        \* the local ports
  Starts,       \* what the sessions may be started with: each [mode, target, overrides],
                \* target being a container's name or ""
  MaxLost,      \* bound on the tunnels that each session loses
  MaxTaken      \* bound on the ports that another program takes

Modes == {"plain", "dry_run", "export"}

\* An override as it was typed: two numbers, or one that strconv.Atoi refuses,
\* or a number alone.
OverrideKinds == {"pair", "no_number", "no_colon"}

ASSUME ConnectAssumption ==
  /\ BuildPods \subseteq Pods
  /\ Ports \subseteq Nat \ {0}
  /\ Containers \in Seq([name : STRING, ports : Seq(Int)])
  /\ Sessions \cap {"free", "other"} = {}
  /\ \A start \in Starts, s \in Sessions :
       /\ start[s].mode \in Modes
       /\ start[s].overrides \in Seq([kind : OverrideKinds, local : Int, remote : Int])

VARIABLES
  pods,         \* pod |-> whether it is ready and whether it is being deleted
  wasReady,     \* history: the pods that have been ready and not deleted
  owner,        \* local port |-> the session that listens on it, "other" or "free"
  config,       \* session |-> what it was started with
  spc,          \* session |-> where its main goroutine is
  informer,     \* session |-> "running", "found": between the two lines of UpdateFunc,
                \* or "stopped"
  targetPod,    \* session |-> the variable that the informer sets and GetPod returns
  stopChan,     \* session |-> the channel s.c has been closed
  probed,       \* session |-> the port getAvailablePort found, 0 if none
  tunnels,      \* session |-> the local ports of the tunnels opened so far
  lost,         \* session |-> the tunnels, by index, whose forwarder has ended
  signals,      \* session |-> "none", "sent" or "taken" (done is closed)
  told          \* session |-> what detach, which reads its output, has printed

seekVars    == <<informer, targetPod, stopChan>>
podVars     == <<pods, wasReady, seekVars>>
tunnelVars  == <<probed, tunnels, lost>>
connectVars == <<podVars, tunnelVars, owner, config, spc, signals, told>>

NoPod == "no_pod"

InitConnect ==
  /\ pods \in [Pods -> [ready : BOOLEAN, deleting : {FALSE}]]
  /\ \A p \in Pods \ BuildPods : pods[p].ready
  /\ wasReady = {p \in Pods : pods[p].ready}
  /\ owner = [p \in Ports |-> "free"]
  /\ config \in Starts
  /\ spc = [s \in Sessions |-> "get_pod"]
  /\ informer = [s \in Sessions |-> "running"]
  /\ targetPod = [s \in Sessions |-> NoPod]
  /\ stopChan = [s \in Sessions |-> FALSE]
  /\ probed = [s \in Sessions |-> 0]
  /\ tunnels = [s \in Sessions |-> <<>>]
  /\ lost = [s \in Sessions |-> {}]
  /\ signals = [s \in Sessions |-> "none"]
  /\ told = [s \in Sessions |-> "nothing"]

At(s, l) == spc[s] = l
Goto(s, l) == spc' = [spc EXCEPT ![s] = l]

Ended == {"ended", "failed", "panicked"}
Alive(s) == spc[s] \notin Ended

\* The end of a process frees its ports and all that it keeps; detach, reading
\* its output, is told that there is no more, and returns nil whatever the
\* process ended with.
Leave(s, l) ==
  /\ Goto(s, l)
  /\ owner' = [p \in Ports |-> IF owner[p] = s THEN "free" ELSE owner[p]]
  /\ told' = [told EXCEPT ![s] =
       IF config[s].mode = "export" /\ @ = "nothing" THEN "eof" ELSE @]
  /\ informer' = [informer EXCEPT ![s] = "stopped"]
  /\ targetPod' = [targetPod EXCEPT ![s] = NoPod]
  /\ stopChan' = [stopChan EXCEPT ![s] = FALSE]
  /\ probed' = [probed EXCEPT ![s] = 0]
  /\ tunnels' = [tunnels EXCEPT ![s] = <<>>]
  /\ lost' = [lost EXCEPT ![s] = {}]
  /\ signals' = [signals EXCEPT ![s] = "none"]
  /\ UNCHANGED <<pods, wasReady, config>>

-----------------------------------------------------------------------------
(* GetPod.                                                                 *)

\* A pod of the build becomes ready, stops being ready, or starts to
\* terminate.  It is followed only while a session looks for it.
PodChanges ==
  /\ \E s \in Sessions : At(s, "get_pod")
  /\ \E p \in BuildPods :
       /\ ~pods[p].deleting
       /\ \/ pods' = [pods EXCEPT ![p].ready = ~@]
          \/ pods' = [pods EXCEPT ![p].deleting = TRUE]
  /\ wasReady' = wasReady \cup {p \in Pods : pods'[p].ready /\ ~pods'[p].deleting}
  /\ UNCHANGED <<seekVars, tunnelVars, owner, config, spc, signals, told>>

\* The label, the annotation, the deletion timestamp and IsPodReady.
IsTarget(p) == p \in BuildPods /\ ~pods[p].deleting /\ pods[p].ready

\* A mutant of UpdateFunc: the channel is closed before the pod is set.
UpdateClosesFirst(s, p) ==
  /\ At(s, "get_pod") /\ informer[s] = "running"
  /\ IsTarget(p)
  /\ stopChan' = [stopChan EXCEPT ![s] = TRUE]
  /\ informer' = [informer EXCEPT ![s] = "found"]
  /\ UNCHANGED <<pods, wasReady, targetPod, tunnelVars, owner, config, spc, signals, told>>

\* UpdateFunc: until controller.Run sees the closed channel it may set
\* targetPod again, while GetPod is about to return it.
UpdateFunc(s, p) ==
  /\ At(s, "get_pod") /\ informer[s] = "running"
  /\ IsTarget(p)
  /\ targetPod' = [targetPod EXCEPT ![s] = p]
  /\ informer' = [informer EXCEPT ![s] = "found"]
  /\ UNCHANGED <<pods, wasReady, stopChan, tunnelVars, owner, config, spc, signals, told>>

\* s.closeOnce()
CloseOnce(s) ==
  /\ At(s, "get_pod") /\ informer[s] = "found"
  /\ stopChan' = [stopChan EXCEPT ![s] = TRUE]
  /\ informer' = [informer EXCEPT ![s] = "running"]
  /\ UNCHANGED <<pods, wasReady, targetPod, tunnelVars, owner, config, spc, signals, told>>

\* case <-s.c: return targetPod, nil.  What the informer does afterwards is
\* seen by nobody.
GetPodFound(s) ==
  /\ At(s, "get_pod") /\ stopChan[s]
  /\ Goto(s, "port_mapping")
  /\ informer' = [informer EXCEPT ![s] = "stopped"]
  /\ UNCHANGED <<pods, wasReady, targetPod, stopChan, tunnelVars, owner, config, signals, told>>

\* case <-time.After(5 * time.Minute)
GetPodTimesOut(s) ==
  /\ At(s, "get_pod")
  /\ Leave(s, "failed")

-----------------------------------------------------------------------------
(* getPortMapping and the rest of Connect.                                 *)

Overrides(s) == config[s].overrides

\* The i-th override ends the loop: Split gives one without a colon a single
\* element, and the second is asked for; or a port is already mapped.
BadOverride(s, i) ==
  LET o == Overrides(s)
  IN  \/ o[i].kind # "pair"
      \/ \E j \in 1 .. i - 1 :
           /\ o[j].kind = "pair"
           /\ o[j].remote = o[i].remote \/ o[j].local = o[i].local

\* The local port that is mapped to a remote one; without an override Go's map
\* gives 0, which asks for any.
PortMapping(s, remote) ==
  LET given == {o \in Range(Overrides(s)) : o.remote = remote}
  IN  IF given = {} THEN 0 ELSE (CHOOSE o \in given : TRUE).local

\* The first container with the name asked for, or all of them.
TargetContainers(target) ==
  LET named == {i \in DOMAIN Containers : Containers[i].name = target}
  IN  IF target = "" THEN Containers
      ELSE IF named = {} THEN <<>>
      ELSE <<Containers[Min(named)]>>

\* The remote ports, one for each tunnel.
RemotePorts(target) ==
  LET found == TargetContainers(target)
  IN  FlattenSeq([i \in DOMAIN found |-> found[i].ports])

Remotes(s) == RemotePorts(config[s].target)

\* Connect after GetPod: the tunnels are made, none is open yet.  A dry run
\* ends here.
Connect(s) ==
  LET bad   == {i \in DOMAIN Overrides(s) : BadOverride(s, i)}
      found == TargetContainers(config[s].target) # <<>>
  IN  /\ At(s, "port_mapping")
      /\ \/ \E first \in bad :
              /\ \A i \in bad : first <= i
              /\ Leave(s, IF Overrides(s)[first].kind = "no_colon" THEN "panicked" ELSE "failed")
         \/ bad = {} /\ ~found /\ Leave(s, "failed")
         \/ bad = {} /\ found /\ config[s].mode = "dry_run" /\ Leave(s, "ended")
         \/ /\ bad = {} /\ found /\ config[s].mode # "dry_run"
            /\ Goto(s, "probe")
            /\ UNCHANGED <<podVars, tunnelVars, owner, config, signals, told>>

-----------------------------------------------------------------------------
(* ForwardPort.                                                            *)

\* The tunnel to be opened next, and the local port asked for.
Next1(s) == Len(tunnels[s]) + 1
LocalPort(s) == PortMapping(s, Remotes(s)[Next1(s)])

\* getAvailablePort listens, reads the port, and closes the listener again.
GetAvailablePort(s) ==
  /\ At(s, "probe") /\ Next1(s) <= Len(Remotes(s))
  /\ \E p \in Ports :
       /\ owner[p] = "free"
       /\ LocalPort(s) \in {0, p}
       /\ probed' = [probed EXCEPT ![s] = p]
  /\ Goto(s, "forward")
  /\ UNCHANGED <<podVars, tunnels, lost, owner, config, signals, told>>

\* A mutant of ForwardPort: that the port is still free is not looked at.
ForwardsAnyway(s) ==
  /\ At(s, "forward")
  /\ owner' = [owner EXCEPT ![probed[s]] = s]
  /\ tunnels' = [tunnels EXCEPT ![s] = Append(@, probed[s])]
  /\ probed' = [probed EXCEPT ![s] = 0]
  /\ Goto(s, "probe")
  /\ UNCHANGED <<podVars, lost, config, signals, told>>

\* <-pf.Ready: the forwarder listens on the port that was found free.
ForwardPort(s) ==
  /\ At(s, "forward")
  /\ owner[probed[s]] = "free"
  /\ owner' = [owner EXCEPT ![probed[s]] = s]
  /\ tunnels' = [tunnels EXCEPT ![s] = Append(@, probed[s])]
  /\ probed' = [probed EXCEPT ![s] = 0]
  /\ Goto(s, "probe")
  /\ UNCHANGED <<podVars, lost, config, signals, told>>

\* No port to be had; the port has been taken meanwhile, or the pod does not
\* answer (errChan).  The tunnels open already go with the process.
ForwardPortFails(s) ==
  /\ \/ At(s, "probe") /\ Next1(s) <= Len(Remotes(s))
     \/ At(s, "forward")
  /\ Leave(s, "failed")

\* The forwarder of an open tunnel ends: its listener is closed, and its
\* send on errChan, which nobody receives from any more, blocks for ever.
TunnelLost(s, i) ==
  /\ Alive(s)
  /\ i \notin lost[s] /\ Cardinality(lost[s]) < MaxLost
  /\ lost' = [lost EXCEPT ![s] = @ \union {i}]
  /\ owner' = [owner EXCEPT ![tunnels[s][i]] = "free"]
  /\ UNCHANGED <<podVars, probed, tunnels, config, spc, signals, told>>

\* Another program of the machine takes a port.
PortTaken ==
  /\ Cardinality({p \in Ports : owner[p] = "other"}) < MaxTaken
  /\ \E p \in Ports : owner[p] = "free" /\ owner' = [owner EXCEPT ![p] = "other"]
  /\ UNCHANGED <<podVars, tunnelVars, config, spc, signals, told>>

-----------------------------------------------------------------------------
(* After the tunnels: signal.Notify, the output, the logs and the wait.    *)

\* signal.Notify and the goroutine that waits for the signal.
Notify(s) ==
  /\ At(s, "probe") /\ Next1(s) > Len(Remotes(s))
  /\ Goto(s, "notified")
  /\ UNCHANGED <<podVars, tunnelVars, owner, config, signals, told>>

\* exportConnectEnv, and os.Stdout.Close that lets detach return.
ExportEnv(s) ==
  /\ At(s, "notified") /\ config[s].mode = "export"
  /\ told' = [told EXCEPT ![s] = "ports"]
  /\ Goto(s, "wait")
  /\ UNCHANGED <<podVars, tunnelVars, owner, config, signals>>

\* RequestLogStream for every container; one that fails ends the session.
RequestLogStreams(s) ==
  /\ At(s, "notified") /\ config[s].mode = "plain"
  /\ \/ /\ Goto(s, "wait")
        /\ UNCHANGED <<podVars, tunnelVars, owner, config, signals, told>>
     \/ Leave(s, "failed")

\* SIGINT or SIGTERM: before signal.Notify it ends the process at once.
Interrupt(s) ==
  \/ Alive(s) /\ spc[s] \notin {"notified", "wait"} /\ Leave(s, "ended")
  \/ /\ spc[s] \in {"notified", "wait"} /\ signals[s] = "none"
     /\ signals' = [signals EXCEPT ![s] = "sent"]
     /\ UNCHANGED <<podVars, tunnelVars, owner, config, spc, told>>

\* <-stop; close(done)
SignalTaken(s) ==
  /\ Alive(s) /\ signals[s] = "sent"
  /\ signals' = [signals EXCEPT ![s] = "taken"]
  /\ UNCHANGED <<podVars, tunnelVars, owner, config, spc, told>>

\* A mutant of Done: the exported session does not wait for done.
DoneIfPlain(s) ==
  /\ At(s, "wait") /\ signals[s] = "taken" /\ config[s].mode = "plain"
  /\ Leave(s, "ended")

\* case <-done: return nil
Done(s) ==
  /\ At(s, "wait") /\ signals[s] = "taken"
  /\ Leave(s, "ended")

\* The goroutines of a session.
InformerStep(s) == (\E p \in Pods : UpdateFunc(s, p)) \/ CloseOnce(s)
MainStep(s) ==
  \/ GetPodFound(s) \/ GetPodTimesOut(s)
  \/ Connect(s)
  \/ GetAvailablePort(s) \/ ForwardPort(s) \/ ForwardPortFails(s)
  \/ Notify(s) \/ ExportEnv(s) \/ RequestLogStreams(s)
  \/ Done(s)

NextConnect ==
  \/ \E s \in Sessions :
       \/ InformerStep(s) \/ MainStep(s) \/ SignalTaken(s)
       \/ \E i \in DOMAIN tunnels[s] : TunnelLost(s, i)
       \/ Interrupt(s)
  \/ PodChanges
  \/ PortTaken

ConnectSpec == InitConnect /\ [][NextConnect]_connectVars

-----------------------------------------------------------------------------
\* A session that has got past GetPod has a pod, of the build it looked for,
\* that has been ready and not terminating; the informer, which goes on
\* setting the pod, never lets GetPod return without one.
PodWasReady ==
  \A s \in Sessions :
    spc[s] \in {"port_mapping", "probe", "forward", "notified", "wait"} =>
      targetPod[s] \in BuildPods \cap wasReady

\* The local port of a tunnel that has not been lost is held by its session
\* and by no other tunnel, although another session or program may have taken
\* it between the probe and the listener; and it is the one asked for.  When
\* detach prints the ports of the session it started, no tunnel is missing.
TunnelsKeepTheirPorts ==
  \A s \in Sessions : Alive(s) =>
    /\ \A i \in DOMAIN tunnels[s] \ lost[s] :
         /\ owner[tunnels[s][i]] = s
         /\ \A j \in DOMAIN tunnels[s] \ lost[s] : tunnels[s][i] = tunnels[s][j] => i = j
         /\ \A o \in Range(Overrides(s)) :
              o.remote = Remotes(s)[i] => o.local \in {0, tunnels[s][i]}
    /\ told[s] = "ports" => Len(tunnels[s]) = Len(Remotes(s))

\* A signal ends a session, wherever it is, with its ports freed.
SignalEnds ==
  \A s \in Sessions :
    signals[s] = "sent" ~> ~Alive(s) /\ \A p \in Ports : owner[p] # s
=============================================================================
