------------------------- MODULE LocalMachineProofs --------------------------
(***************************************************************************)
(* Of what runs on the developer's machine by itself: the sessions of      *)
(* draft connect, for any sessions, pods, ports and containers, and a call *)
(* of any operation of the registry's client.                              *)
(***************************************************************************)
EXTENDS ConnectSession, RegistryClient, PagedListing,
        FiniteSetTheorems, WellFoundedInduction, TLAPS

-----------------------------------------------------------------------------
(* FlattenSeq, by the number of sequences.  The prover has no induction    *)
(* over a formula; that every set of numbers has a least one is its place. *)

\* Every set of numbers that has a member has a least one.
LEMMA LeastNumber ==
  ASSUME NEW S \in SUBSET Nat, S # {}
  PROVE  \E m \in S : \A n \in S : m <= n
<1> DEFINE T == {1 .. n : n \in S}
<1>1. T \subseteq FiniteSubsetsOf(Nat) /\ T # {}
  <2>1. \A n \in Nat : IsFiniteSet(1 .. n) /\ 1 .. n \subseteq Nat
    BY FS_Interval
  <2> QED
    BY <2>1 DEF FiniteSubsetsOf
<1>2. \E x \in T : \A y \in T : ~(<<y, x>> \in StrictSubsetOrdering(Nat))
  BY <1>1, FS_StrictSubsetOrderingWellFounded, WFMin
<1>3. PICK m \in S : \A n \in S : ~(<<1 .. n, 1 .. m>> \in StrictSubsetOrdering(Nat))
  BY <1>2
<1>4. ASSUME NEW n \in S
      PROVE  m <= n
  <2>1. SUFFICES ASSUME n < m PROVE FALSE
    OBVIOUS
  <2>2. 1 .. n \subseteq 1 .. m /\ m \in 1 .. m /\ m \notin 1 .. n
    BY <2>1
  <2>3. 1 .. n \in SUBSET Nat /\ 1 .. m \in SUBSET Nat /\ 1 .. n # 1 .. m
    BY <2>2
  <2> QED
    BY <1>3, <2>2, <2>3 DEF StrictSubsetOrdering
<1> QED
  BY <1>4

\* The function that FlattenSeq is the last value of.
Flattening(ss, f) ==
  f = [i \in 1 .. Len(ss) |-> IF i = 1 THEN ss[i] ELSE f[i - 1] \o ss[i]]

\* A flattening, place by place.
LEMMA FlatteningAt ==
  ASSUME NEW ss, NEW f, Flattening(ss, f), NEW i \in 1 .. Len(ss)
  PROVE  f[i] = IF i = 1 THEN ss[i] ELSE f[i - 1] \o ss[i]
<1> DEFINE h == [j \in 1 .. Len(ss) |-> IF j = 1 THEN ss[j] ELSE f[j - 1] \o ss[j]]
<1>1. f = h
  BY DEF Flattening
<1>2. h[i] = IF i = 1 THEN ss[i] ELSE f[i - 1] \o ss[i]
  OBVIOUS
<1> HIDE DEF h
<1> QED
  BY <1>1, <1>2

\* Every sequence of sequences has a flattening: the least number of sequences
\* for which there were none would come after one for which there is.
LEMMA FlatteningExists ==
  ASSUME NEW V, NEW ss \in Seq(Seq(V))
  PROVE  \E f : Flattening(ss, f)
<1> DEFINE Upto(n, f) == f = [i \in 1 .. n |-> IF i = 1 THEN ss[i] ELSE f[i - 1] \o ss[i]]
           Bad == {n \in Nat : ~\E f : Upto(n, f)}
<1>1. SUFFICES Bad = {}
  <2>1. Len(ss) \in Nat
    OBVIOUS
  <2>2. \E f : Upto(Len(ss), f)
    BY <1>1, <2>1
  <2> QED
    BY <2>2 DEF Flattening
<1>2. SUFFICES ASSUME Bad # {} PROVE FALSE
  OBVIOUS
<1>3. PICK m \in Bad : \A n \in Bad : m <= n
  BY <1>2, LeastNumber
<1>4. m # 0
  <2> SUFFICES Upto(0, [i \in 1 .. 0 |-> i])
    OBVIOUS
  <2> QED
    OBVIOUS
<1>5. m - 1 \in Nat /\ m - 1 \notin Bad
  <2>1. m \in Nat
    BY <1>3
  <2> HIDE DEF Bad
  <2> QED
    BY <1>3, <1>4, <2>1
<1>6. PICK f : Upto(m - 1, f)
  BY <1>5
<1> DEFINE g == [i \in 1 .. m |-> IF i < m THEN f[i]
                                  ELSE IF i = 1 THEN ss[i] ELSE f[i - 1] \o ss[i]]
<1>7. Upto(m, g)
  <2>1. ASSUME NEW i \in 1 .. m
        PROVE  g[i] = IF i = 1 THEN ss[i] ELSE g[i - 1] \o ss[i]
    <3>1. i # 1 => i - 1 \in 1 .. m /\ i - 1 < m /\ g[i - 1] = f[i - 1]
      BY <1>5
    <3>2. i < m => f[i] = IF i = 1 THEN ss[i] ELSE f[i - 1] \o ss[i]
      <4>1. i < m => i \in 1 .. m - 1
        BY <1>5
      <4> QED
        BY <1>6, <4>1
    <3> QED
      BY <3>1, <3>2
  <2> QED
    BY <2>1
<1> QED
  BY <1>3, <1>7

\* FlattenSeq is what its flattening has in the last place.
LEMMA FlattenSeqIs ==
  ASSUME NEW V, NEW ss \in Seq(Seq(V))
  PROVE  \E f : Flattening(ss, f) /\ FlattenSeq(ss) = IF ss = <<>> THEN <<>> ELSE f[Len(ss)]
<1> DEFINE flatten == CHOOSE f : f = [i \in 1 .. Len(ss) |->
                                        IF i = 1 THEN ss[i] ELSE f[i - 1] \o ss[i]]
<1>1. Flattening(ss, flatten)
  BY FlatteningExists DEF Flattening
<1>2. Len(ss) # 0 => FlattenSeq(ss) = flatten[Len(ss)]
  BY DEF FlattenSeq
<1>3. ss = <<>> => FlattenSeq(ss) = <<>>
  BY DEF FlattenSeq
<1>4. ss # <<>> => Len(ss) # 0
  OBVIOUS
<1> QED
  BY <1>1, <1>2, <1>3, <1>4

\* Two flattenings agree as far as what they flatten does.
LEMMA FlatteningsAgree ==
  ASSUME NEW V, NEW ss \in Seq(Seq(V)), NEW n \in 0 .. Len(ss),
         NEW f, Flattening(ss, f), NEW g, Flattening(SubSeq(ss, 1, n), g)
  PROVE  \A i \in 1 .. n : f[i] = g[i] /\ f[i] \in Seq(V)
<1> DEFINE Bad == {i \in Nat : i \in 1 .. n /\ ~(f[i] = g[i] /\ f[i] \in Seq(V))}
<1>1. SUFFICES ASSUME Bad # {} PROVE FALSE
  <2>1. Len(ss) \in Nat /\ \A i \in 1 .. n : i \in Nat
    OBVIOUS
  <2> QED
    BY <1>1, <2>1
<1>2. PICK m \in Bad : \A i \in Bad : m <= i
  BY <1>1, LeastNumber
<1>3. m \in 1 .. n /\ m \in Nat /\ ~(f[m] = g[m] /\ f[m] \in Seq(V))
  BY <1>2
<1>4. /\ Len(ss) \in Nat
      /\ Len(SubSeq(ss, 1, n)) = n
      /\ \A i \in 1 .. n : SubSeq(ss, 1, n)[i] = ss[i] /\ ss[i] \in Seq(V)
  OBVIOUS
<1>5. f[m] = IF m = 1 THEN ss[m] ELSE f[m - 1] \o ss[m]
  <2>1. m \in 1 .. Len(ss)
    BY <1>3, <1>4
  <2> QED
    BY <2>1, FlatteningAt
<1>6. g[m] = IF m = 1 THEN ss[m] ELSE g[m - 1] \o ss[m]
  <2> DEFINE t == SubSeq(ss, 1, n)
  <2>1. m \in 1 .. Len(t) /\ t[m] = ss[m]
    BY <1>3, <1>4
  <2> HIDE DEF t
  <2>2. g[m] = IF m = 1 THEN t[m] ELSE g[m - 1] \o t[m]
    <3>1. Flattening(t, g)
      BY DEF t
    <3> QED
      BY <2>1, <3>1, FlatteningAt
  <2> QED
    BY <2>1, <2>2
<1>7. m # 1 => f[m - 1] = g[m - 1] /\ f[m - 1] \in Seq(V)
  <2>1. m # 1 => m - 1 \in 1 .. n /\ m - 1 \notin Bad
    <3>1. m # 1 => m - 1 \in Nat /\ m - 1 \in 1 .. n
      BY <1>3
    <3> HIDE DEF Bad
    <3> QED
      BY <1>2, <1>3, <3>1
  <2> QED
    BY <2>1
<1> QED
  BY <1>3, <1>4, <1>5, <1>6, <1>7

\* What FlattenSeq gives, by the number of sequences.
LEMMA FlattenSteps ==
  ASSUME NEW V, NEW ss \in Seq(Seq(V))
  PROVE  /\ FlattenSeq(SubSeq(ss, 1, 0)) = <<>>
         /\ \A n \in 0 .. Len(ss) : FlattenSeq(SubSeq(ss, 1, n)) \in Seq(V)
         /\ \A n \in 0 .. Len(ss) - 1 :
              FlattenSeq(SubSeq(ss, 1, n + 1)) = FlattenSeq(SubSeq(ss, 1, n)) \o ss[n + 1]
<1>1. PICK f : Flattening(ss, f)
  BY FlatteningExists
<1>2. Len(ss) \in Nat
  OBVIOUS
<1>3. \A n \in 0 .. Len(ss) : SubSeq(ss, 1, n) \in Seq(Seq(V)) /\ Len(SubSeq(ss, 1, n)) = n
  OBVIOUS
<1>4. FlattenSeq(SubSeq(ss, 1, 0)) = <<>>
  <2>1. SubSeq(ss, 1, 0) = <<>>
    OBVIOUS
  <2> QED
    BY <2>1 DEF FlattenSeq
<1>5. ASSUME NEW n \in 1 .. Len(ss)
      PROVE  FlattenSeq(SubSeq(ss, 1, n)) = f[n] /\ f[n] \in Seq(V)
  <2>1. n \in 0 .. Len(ss) /\ n \in 1 .. n
    BY <1>2
  <2>4. SubSeq(ss, 1, n) # <<>>
    <3>1. Len(SubSeq(ss, 1, n)) = n /\ n # 0 /\ Len(<<>>) = 0
      BY <1>2, <1>3, <2>1
    <3> QED
      BY <3>1, Zenon
  <2>2. PICK g : /\ Flattening(SubSeq(ss, 1, n), g)
                 /\ FlattenSeq(SubSeq(ss, 1, n)) = g[Len(SubSeq(ss, 1, n))]
    BY <1>3, <2>1, <2>4, FlattenSeqIs
  <2>3. f[n] = g[n] /\ f[n] \in Seq(V)
    BY <1>1, <2>1, <2>2, FlatteningsAgree
  <2> QED
    BY <1>3, <2>1, <2>2, <2>3
<1>6. \A n \in 0 .. Len(ss) : FlattenSeq(SubSeq(ss, 1, n)) \in Seq(V)
  <2>1. <<>> \in Seq(V)
    OBVIOUS
  <2>2. \A n \in 0 .. Len(ss) : n = 0 \/ n \in 1 .. Len(ss)
    BY <1>2
  <2> QED
    BY <1>4, <1>5, <2>1, <2>2
<1>7. ASSUME NEW n \in 0 .. Len(ss) - 1
      PROVE  FlattenSeq(SubSeq(ss, 1, n + 1)) = FlattenSeq(SubSeq(ss, 1, n)) \o ss[n + 1]
  <2>1. n + 1 \in 1 .. Len(ss) /\ ss[n + 1] \in Seq(V)
    BY <1>2
  <2>2. FlattenSeq(SubSeq(ss, 1, n + 1)) = f[n + 1]
    BY <1>5, <2>1
  <2>3. f[n + 1] = IF n + 1 = 1 THEN ss[n + 1] ELSE f[n + 1 - 1] \o ss[n + 1]
    BY <1>1, <2>1, FlatteningAt
  <2>4. CASE n = 0
    <3>1. <<>> \o ss[n + 1] = ss[n + 1]
      BY <2>1
    <3>2. FlattenSeq(SubSeq(ss, 1, n)) = <<>>
      BY <1>4, <2>4
    <3>3. f[n + 1] = ss[n + 1]
      BY <2>3, <2>4
    <3> QED
      BY <2>2, <3>1, <3>2, <3>3, Zenon
  <2>5. CASE n # 0
    <3>1. n \in 1 .. Len(ss) /\ n + 1 - 1 = n /\ n + 1 # 1
      BY <1>2, <2>5
    <3> QED
      BY <1>5, <2>2, <2>3, <3>1
  <2> QED
    BY <2>4, <2>5
<1> QED
  BY <1>4, <1>6, <1>7

-----------------------------------------------------------------------------
(* The pod of a session.                                                   *)

Connected == {"port_mapping", "probe", "forward", "notified", "wait"}

PodTypes ==
  /\ DOMAIN spc = Sessions
  /\ DOMAIN informer = Sessions
  /\ DOMAIN targetPod = Sessions
  /\ DOMAIN stopChan = Sessions

\* Every pod that the informer could choose now is among those that have been
\* ready.
ReadyNoted == \A p \in Pods : pods[p].ready /\ ~pods[p].deleting => p \in wasReady

\* targetPod is set before anything that lets GetPod return it.
TargetSet ==
  \A s \in Sessions :
    informer[s] = "found" \/ stopChan[s] \/ spc[s] \in Connected =>
      targetPod[s] \in BuildPods \cap wasReady

PodInv == PodTypes /\ ReadyNoted /\ TargetSet

\* A session that ends leaves the others' pods as they are, and has none.
LEMMA LeaveKeepsPods ==
  ASSUME PodInv, NEW s \in Sessions, NEW l \in Ended, Leave(s, l)
  PROVE  PodInv'
<1>1. PodTypes'
  BY DEF PodInv, PodTypes, Leave, Goto
<1>2. ReadyNoted'
  BY DEF PodInv, ReadyNoted, Leave
<1>3. TargetSet'
  <2> SUFFICES ASSUME NEW t \in Sessions,
                      informer'[t] = "found" \/ stopChan'[t] \/ spc'[t] \in Connected
               PROVE  targetPod'[t] \in BuildPods \cap wasReady'
    BY DEF TargetSet
  <2>1. t # s
    BY DEF PodInv, PodTypes, Leave, Goto, Ended, Connected
  <2> QED
    BY <2>1 DEF PodInv, PodTypes, TargetSet, Leave, Goto
<1> QED
  BY <1>1, <1>2, <1>3 DEF PodInv

\* The informer takes a pod only while it is ready.
LEMMA InformerKeepsPods ==
  ASSUME PodInv, NEW s \in Sessions, InformerStep(s)
  PROVE  PodInv'
<1>1. ASSUME NEW p \in Pods, UpdateFunc(s, p) PROVE PodInv'
  <2>1. p \in BuildPods \cap wasReady
    BY <1>1 DEF UpdateFunc, IsTarget, PodInv, ReadyNoted
  <2>2. TargetSet'
    BY <1>1, <2>1 DEF UpdateFunc, PodInv, PodTypes, TargetSet
  <2> QED
    BY <1>1, <2>2 DEF UpdateFunc, PodInv, PodTypes, ReadyNoted
<1>2. CASE CloseOnce(s)
  <2>1. TargetSet'
    BY <1>2 DEF CloseOnce, PodInv, PodTypes, TargetSet
  <2> QED
    BY <1>2, <2>1 DEF CloseOnce, PodInv, PodTypes, ReadyNoted
<1> QED
  BY <1>1, <1>2 DEF InformerStep

\* A step of a session that leaves pods and informer alone and goes from one
\* place after GetPod to another.
LEMMA ConnectedKeepsPods ==
  ASSUME PodInv, NEW s \in Sessions, NEW l \in Connected,
         spc[s] \in Connected, Goto(s, l), UNCHANGED podVars
  PROVE  PodInv'
BY DEF PodInv, PodTypes, ReadyNoted, TargetSet, Goto, podVars, seekVars

\* Of a session's own steps only the end of GetPod uses the pod.
LEMMA MainKeepsPods ==
  ASSUME PodInv, NEW s \in Sessions, MainStep(s)
  PROVE  PodInv'
<1>1. ASSUME NEW l \in Ended, Leave(s, l) PROVE PodInv'
  BY <1>1, LeaveKeepsPods
<1>2. CASE GetPodFound(s)
  <2>1. TargetSet'
    BY <1>2 DEF GetPodFound, Goto, PodInv, PodTypes, TargetSet
  <2> QED
    BY <1>2, <2>1 DEF GetPodFound, Goto, PodInv, PodTypes, ReadyNoted
<1>3. CASE GetPodTimesOut(s)
  BY <1>1, <1>3 DEF GetPodTimesOut, Ended
<1>4. CASE Connect(s)
  <2>1. CASE \E l \in Ended : Leave(s, l)
    BY <1>1, <2>1
  <2>2. CASE spc[s] \in Connected /\ Goto(s, "probe") /\ UNCHANGED podVars
    BY <2>2, ConnectedKeepsPods DEF Connected
  <2> QED
    BY <1>4, <2>1, <2>2 DEF Connect, At, Ended, Connected
<1>5. CASE GetAvailablePort(s)
  BY <1>5, ConnectedKeepsPods DEF GetAvailablePort, At, Connected
<1>6. CASE ForwardPort(s)
  BY <1>6, ConnectedKeepsPods DEF ForwardPort, At, Connected
<1>7. CASE ForwardPortFails(s)
  BY <1>1, <1>7 DEF ForwardPortFails, Ended
<1>8. CASE Notify(s)
  BY <1>8, ConnectedKeepsPods DEF Notify, At, Connected
<1>9. CASE ExportEnv(s)
  BY <1>9, ConnectedKeepsPods DEF ExportEnv, At, Connected
<1>10. CASE RequestLogStreams(s)
  <2>1. CASE Leave(s, "failed")
    BY <1>1, <2>1 DEF Ended
  <2> QED
    BY <1>10, <2>1, ConnectedKeepsPods DEF RequestLogStreams, At, Connected
<1>11. CASE Done(s)
  BY <1>1, <1>11 DEF Done, Ended
<1> QED
  BY <1>2, <1>3, <1>4, <1>5, <1>6, <1>7, <1>8, <1>9, <1>10, <1>11 DEF MainStep

\* Every step of the sessions, the informers and the cluster.
LEMMA NextKeepsPods == PodInv /\ [NextConnect]_connectVars => PodInv'
<1> SUFFICES ASSUME PodInv, [NextConnect]_connectVars PROVE PodInv'
  OBVIOUS
<1>1. ASSUME UNCHANGED <<podVars, spc>> PROVE PodInv'
  BY <1>1 DEF PodInv, PodTypes, ReadyNoted, TargetSet, podVars, seekVars
<1>2. ASSUME NEW s \in Sessions, InformerStep(s) PROVE PodInv'
  BY <1>2, InformerKeepsPods
<1>3. ASSUME NEW s \in Sessions, MainStep(s) PROVE PodInv'
  BY <1>3, MainKeepsPods
<1>4. ASSUME NEW s \in Sessions, SignalTaken(s) PROVE PodInv'
  BY <1>1, <1>4 DEF SignalTaken
<1>5. ASSUME NEW s \in Sessions, NEW i \in DOMAIN tunnels[s], TunnelLost(s, i) PROVE PodInv'
  BY <1>1, <1>5 DEF TunnelLost
<1>6. ASSUME NEW s \in Sessions, Interrupt(s) PROVE PodInv'
  <2>1. CASE Leave(s, "ended")
    BY <2>1, LeaveKeepsPods DEF Ended
  <2>2. CASE UNCHANGED <<podVars, spc>>
    BY <1>1, <2>2
  <2> QED
    BY <1>6, <2>1, <2>2 DEF Interrupt
<1>7. CASE PodChanges
  <2>1. wasReady \subseteq wasReady' /\ ReadyNoted'
    BY <1>7 DEF PodChanges, ReadyNoted
  <2> QED
    BY <1>7, <2>1 DEF PodChanges, seekVars, PodInv, PodTypes, TargetSet
<1>8. CASE PortTaken
  BY <1>1, <1>8 DEF PortTaken
<1>9. CASE UNCHANGED connectVars
  BY <1>1, <1>9 DEF connectVars
<1> QED
  BY <1>2, <1>3, <1>4, <1>5, <1>6, <1>7, <1>8, <1>9 DEF NextConnect

\* GetPod never returns without a pod, nor with one of another build or one
\* that was not ready, although the informer sets targetPod from a goroutine
\* of its own and goes on after the channel is closed.
THEOREM SessionsPodWasReady == ConnectSpec => []PodWasReady
<1>1. InitConnect => PodInv
  <2> SUFFICES ASSUME InitConnect PROVE PodInv
    OBVIOUS
  <2>1. ReadyNoted
    BY DEF InitConnect, ReadyNoted
  <2> QED
    BY <2>1 DEF InitConnect, PodInv, PodTypes, TargetSet, Connected
<1>2. PodInv => PodWasReady
  BY DEF PodInv, TargetSet, PodWasReady, Connected
<1> QED
  BY <1>1, <1>2, NextKeepsPods, PTL DEF ConnectSpec

-----------------------------------------------------------------------------
(* The ports of a session.                                                 *)

Tunnelling == {"probe", "forward", "notified", "wait"}

TunnelTypes ==
  /\ owner \in [Ports -> Sessions \union {"free", "other"}]
  /\ config \in Starts
  /\ DOMAIN spc = Sessions
  /\ DOMAIN told = Sessions
  /\ DOMAIN signals = Sessions
  /\ DOMAIN lost = Sessions
  /\ DOMAIN probed = Sessions
  /\ tunnels \in [Sessions -> Seq(Ports)]

\* How far a session has got: with its overrides accepted it opens one tunnel
\* for every remote port, from the port that it has found free, and goes on and
\* tells its ports when there is none left.
Progress(s) ==
  /\ spc[s] \notin Tunnelling => tunnels[s] = <<>>
  /\ spc[s] \in Tunnelling => \A i \in DOMAIN Overrides(s) : ~BadOverride(s, i)
  /\ Len(tunnels[s]) <= Len(Remotes(s))
  /\ spc[s] = "forward" =>
       /\ Len(tunnels[s]) < Len(Remotes(s))
       /\ probed[s] \in Ports
       /\ LocalPort(s) \in {0, probed[s]}
  /\ spc[s] \in {"notified", "wait"} => Len(tunnels[s]) = Len(Remotes(s))
  /\ told[s] = "ports" => spc[s] \in {"wait", "ended", "failed", "panicked"}

\* The tunnels that are open have their ports to themselves.
Held(s) ==
  \A i \in DOMAIN tunnels[s] \ lost[s] :
    /\ owner[tunnels[s][i]] = s
    /\ \A j \in DOMAIN tunnels[s] \ lost[s] : tunnels[s][i] = tunnels[s][j] => i = j

\* And every tunnel is at the local port that was asked for, if one was.
Asked(s) ==
  \A i \in DOMAIN tunnels[s] : \A o \in Range(Overrides(s)) :
    o.remote = Remotes(s)[i] => o.local \in {0, tunnels[s][i]}

TunnelInv ==
  /\ TunnelTypes
  /\ \A s \in Sessions : Progress(s) /\ Held(s) /\ Asked(s)

\* With every override accepted no two have the same remote port, and the
\* mapping of a remote port is what the one that names it says.
LEMMA MappingAsGiven ==
  ASSUME config \in Starts, NEW s \in Sessions,
         \A i \in DOMAIN Overrides(s) : ~BadOverride(s, i),
         NEW o \in Range(Overrides(s))
  PROVE  PortMapping(s, o.remote) = o.local
<1> DEFINE given == {g \in Range(Overrides(s)) : g.remote = o.remote}
<1>1. Overrides(s) \in Seq([kind : OverrideKinds, local : Int, remote : Int])
  BY ConnectAssumption DEF Overrides
<1>2. ASSUME NEW i \in DOMAIN Overrides(s), NEW j \in DOMAIN Overrides(s), j < i
      PROVE  Overrides(s)[j].remote # Overrides(s)[i].remote
  <2>1. j \in 1 .. i - 1
    BY <1>1, <1>2
  <2>2. Overrides(s)[j].kind = "pair" /\ ~BadOverride(s, i)
    BY DEF BadOverride
  <2> QED
    BY <2>1, <2>2 DEF BadOverride
<1>3. \A g \in given : g = o
  <2> SUFFICES ASSUME NEW g \in given PROVE g = o
    OBVIOUS
  <2>1. PICK i \in DOMAIN Overrides(s) : Overrides(s)[i] = g
    BY DEF Range
  <2>2. PICK j \in DOMAIN Overrides(s) : Overrides(s)[j] = o
    BY DEF Range
  <2>3. i \in Int /\ j \in Int
    BY <1>1
  <2>4. ~(i < j) /\ ~(j < i)
    BY <1>2, <2>1, <2>2
  <2> QED
    BY <2>1, <2>2, <2>3, <2>4
<1>4. given # {} /\ (CHOOSE g \in given : TRUE) = o
  BY <1>3
<1> QED
  BY <1>4 DEF PortMapping

\* What a session asks for depends on what it was started with alone.
LEMMA SettingsStay ==
  ASSUME config' = config, NEW s \in Sessions
  PROVE  /\ Remotes(s)' = Remotes(s)
         /\ Overrides(s)' = Overrides(s)
         /\ \A i \in DOMAIN Overrides(s) : BadOverride(s, i)' <=> BadOverride(s, i)
<1>1. Remotes(s)' = Remotes(s)
  BY DEF Remotes
<1>2. Overrides(s)' = Overrides(s)
  BY DEF Overrides
<1> QED
  BY <1>1, <1>2 DEF BadOverride

\* The remote ports are a sequence, as long as it may be.
LEMMA RemotesCounted ==
  ASSUME NEW s \in Sessions
  PROVE  Len(Remotes(s)) \in Nat
<1> DEFINE target == config[s].target
           named == {i \in DOMAIN Containers : Containers[i].name = target}
           found == TargetContainers(target)
           ss == [i \in DOMAIN found |-> found[i].ports]
           Container == [name : STRING, ports : Seq(Int)]
<1>1. Containers \in Seq(Container) /\ \A c \in Container : c.ports \in Seq(Int)
  BY ConnectAssumption
<1> HIDE DEF Container
<1>2. DOMAIN Containers \subseteq Nat /\ \A i \in DOMAIN Containers : Containers[i] \in Container
  BY <1>1
<1>3. found = Containers \/ found = <<>> \/ \E c \in Container : found = <<c>>
  <2>1. named # {} => Min(named) \in named
    <3>1. named \in SUBSET Nat
      BY <1>2
    <3> HIDE DEF named
    <3> QED
      BY <3>1, LeastNumber DEF Min
  <2>2. named # {} => Containers[Min(named)] \in Container
    BY <1>2, <2>1
  <2>3. found = IF target = "" THEN Containers
                ELSE IF named = {} THEN <<>> ELSE <<Containers[Min(named)]>>
    BY DEF TargetContainers
  <2> HIDE DEF found, named, target
  <2> QED
    BY <2>2, <2>3
<1> HIDE DEF found
<1>4. found \in Seq(Container)
  <2>1. <<>> \in Seq(Container)
    OBVIOUS
  <2>2. ASSUME NEW c \in Container PROVE <<c>> \in Seq(Container)
    OBVIOUS
  <2> QED
    BY <1>1, <1>3, <2>1, <2>2
<1>5. /\ Len(found) \in Nat /\ DOMAIN found = 1 .. Len(found)
      /\ \A i \in DOMAIN found : found[i].ports \in Seq(Int)
  BY <1>1, <1>4
<1>6. ss \in Seq(Seq(Int))
  BY <1>5
<1>7. Remotes(s) = FlattenSeq(ss)
  BY DEF Remotes, RemotePorts, found
<1> HIDE DEF ss
<1>8. SubSeq(ss, 1, Len(ss)) = ss /\ Len(ss) \in 0 .. Len(ss)
  BY <1>6
<1>9. FlattenSeq(SubSeq(ss, 1, Len(ss))) \in Seq(Int)
  BY <1>6, <1>8, FlattenSteps
<1> QED
  BY <1>7, <1>8, <1>9

\* A session that a step leaves alone, its ports included, is as it was.
LEMMA Undisturbed ==
  ASSUME TunnelInv, NEW t \in Sessions,
         config' = config,
         spc'[t] = spc[t], told'[t] = told[t], probed'[t] = probed[t],
         tunnels'[t] = tunnels[t], lost'[t] = lost[t],
         \A p \in Ports : owner[p] = t => owner'[p] = t
  PROVE  Progress(t)' /\ Held(t)' /\ Asked(t)'
<1>1. Remotes(t)' = Remotes(t) /\ Overrides(t)' = Overrides(t)
  BY SettingsStay
<1>2. Progress(t) /\ Held(t) /\ Asked(t) /\ tunnels[t] \in Seq(Ports)
  BY DEF TunnelInv, TunnelTypes
<1>3. LocalPort(t)' = LocalPort(t)
  BY <1>1 DEF LocalPort, Next1, PortMapping
<1>4. \A i \in DOMAIN Overrides(t) : BadOverride(t, i)' <=> BadOverride(t, i)
  BY SettingsStay
<1>5. Progress(t)'
  BY <1>1, <1>2, <1>3, <1>4 DEF Progress
<1>6. Held(t)'
  BY <1>2 DEF Held
<1>7. Asked(t)'
  BY <1>1, <1>2 DEF Asked
<1> QED
  BY <1>5, <1>6, <1>7

\* A session that ends gives its own ports back, and no other's.
LEMMA LeaveKeepsTunnels ==
  ASSUME TunnelInv, NEW s \in Sessions, NEW l \in Ended, Leave(s, l)
  PROVE  TunnelInv'
<1>1. TunnelTypes'
  <2>1. owner' \in [Ports -> Sessions \union {"free", "other"}]
    BY DEF Leave, TunnelInv, TunnelTypes
  <2>2. tunnels' \in [Sessions -> Seq(Ports)]
    BY DEF Leave, TunnelInv, TunnelTypes
  <2> QED
    BY <2>1, <2>2 DEF Leave, Goto, TunnelInv, TunnelTypes
<1>2. ASSUME NEW t \in Sessions, t # s PROVE Progress(t)' /\ Held(t)' /\ Asked(t)'
  <2>1. \A p \in Ports : owner[p] = t => owner'[p] = t
    BY <1>2 DEF Leave
  <2> QED
    BY <1>2, <2>1, Undisturbed DEF Leave, Goto, TunnelInv, TunnelTypes
<1>3. Progress(s)' /\ Held(s)' /\ Asked(s)'
  <2>1. /\ spc'[s] = l
        /\ tunnels'[s] = <<>>
        /\ config' = config
    BY DEF Leave, Goto, TunnelInv, TunnelTypes
  <2>2. Len(Remotes(s)') \in Nat
    BY <2>1, RemotesCounted, SettingsStay
  <2>3. Progress(s)'
    BY <2>1, <2>2 DEF Progress, Ended, Tunnelling
  <2> QED
    BY <2>1, <2>3 DEF Held, Asked
<1> QED
  BY <1>1, <1>2, <1>3 DEF TunnelInv

\* A session that goes on without touching a tunnel.
LEMMA GoesOnKeepsTunnels ==
  ASSUME TunnelInv, NEW s \in Sessions, NEW l,
         Goto(s, l), UNCHANGED <<tunnelVars, owner, config, signals>>,
         DOMAIN told' = Sessions,
         \A t \in Sessions : t # s => told'[t] = told[t],
         Progress(s)'
  PROVE  TunnelInv'
<1>1. TunnelTypes'
  BY DEF Goto, tunnelVars, TunnelInv, TunnelTypes
<1>2. ASSUME NEW t \in Sessions, t # s PROVE Progress(t)' /\ Held(t)' /\ Asked(t)'
  BY <1>2, Undisturbed DEF Goto, tunnelVars, TunnelInv, TunnelTypes
<1>3. Held(s)' /\ Asked(s)'
  <2>1. Remotes(s)' = Remotes(s) /\ Overrides(s)' = Overrides(s)
    BY SettingsStay
  <2> QED
    BY <2>1 DEF tunnelVars, TunnelInv, Held, Asked
<1> QED
  BY <1>1, <1>2, <1>3 DEF TunnelInv

\* The overrides are accepted before the first tunnel.
LEMMA ConnectKeepsTunnels ==
  ASSUME TunnelInv, NEW s \in Sessions, Connect(s)
  PROVE  TunnelInv'
<1>1. CASE \E l \in Ended : Leave(s, l)
  BY <1>1, LeaveKeepsTunnels
<1>2. CASE /\ spc[s] = "port_mapping"
           /\ \A i \in DOMAIN Overrides(s) : ~BadOverride(s, i)
           /\ Goto(s, "probe")
           /\ UNCHANGED <<podVars, tunnelVars, owner, config, signals, told>>
  <2>1. Progress(s) /\ spc'[s] = "probe" /\ tunnels'[s] = tunnels[s] /\ told' = told
    BY <1>2 DEF TunnelInv, TunnelTypes, Goto, tunnelVars
  <2>2. Remotes(s)' = Remotes(s) /\ Overrides(s)' = Overrides(s)
    BY <1>2, SettingsStay
  <2>3. \A i \in DOMAIN Overrides(s) : BadOverride(s, i)' <=> BadOverride(s, i)
    BY <1>2, SettingsStay
  <2>4. Progress(s)'
    BY <1>2, <2>1, <2>2, <2>3 DEF Progress, Tunnelling
  <2> QED
    BY <1>2, <2>4, GoesOnKeepsTunnels DEF TunnelInv, TunnelTypes
<1> QED
  BY <1>1, <1>2 DEF Connect, At, Ended

\* The port that was found free is the one asked for.
LEMMA ProbeKeepsTunnels ==
  ASSUME TunnelInv, NEW s \in Sessions, GetAvailablePort(s)
  PROVE  TunnelInv'
<1>1. PICK p \in Ports : LocalPort(s) \in {0, p} /\ probed' = [probed EXCEPT ![s] = p]
  BY DEF GetAvailablePort
<1>2. TunnelTypes'
  BY <1>1 DEF GetAvailablePort, Goto, TunnelInv, TunnelTypes
<1>3. ASSUME NEW t \in Sessions, t # s PROVE Progress(t)' /\ Held(t)' /\ Asked(t)'
  BY <1>1, <1>3, Undisturbed DEF GetAvailablePort, Goto, TunnelInv, TunnelTypes
<1>4. /\ spc[s] = "probe" /\ spc'[s] = "forward"
      /\ probed'[s] = p
      /\ Len(tunnels[s]) + 1 <= Len(Remotes(s))
      /\ UNCHANGED <<tunnels, lost, owner, config, told>>
  BY <1>1 DEF GetAvailablePort, At, Goto, Next1, TunnelInv, TunnelTypes
<1>5. Remotes(s)' = Remotes(s) /\ Overrides(s)' = Overrides(s)
  BY <1>4, SettingsStay
<1>6. Progress(s)'
  <2>1. \A i \in DOMAIN Overrides(s) : BadOverride(s, i)' <=> BadOverride(s, i)
    BY <1>4, SettingsStay
  <2>2. LocalPort(s)' \in {0, p}
    BY <1>1, <1>4, <1>5 DEF LocalPort, PortMapping, Next1
  <2>3. Progress(s) /\ Len(tunnels[s]) \in Nat /\ Len(Remotes(s)) \in Nat
    BY RemotesCounted DEF TunnelInv, TunnelTypes
  <2> QED
    BY <1>4, <1>5, <2>1, <2>2, <2>3 DEF Progress, Tunnelling
<1>7. Held(s)' /\ Asked(s)'
  BY <1>4, <1>5 DEF TunnelInv, Held, Asked
<1> QED
  BY <1>2, <1>3, <1>6, <1>7 DEF TunnelInv

\* The listener is made only on a port that is free still, so that it is nobody
\* else's, nor another tunnel's of the session.
LEMMA ForwardKeepsTunnels ==
  ASSUME TunnelInv, NEW s \in Sessions, ForwardPort(s)
  PROVE  TunnelInv'
<1> DEFINE n == Len(tunnels[s]) + 1
           port == probed[s]
<1>1. /\ spc[s] = "forward" /\ owner[port] = "free"
      /\ owner' = [owner EXCEPT ![port] = s]
      /\ UNCHANGED <<lost, config, told>>
  BY DEF ForwardPort, At
<1>2. Progress(s) /\ Held(s) /\ Asked(s) /\ tunnels[s] \in Seq(Ports) /\ s # "free"
  BY ConnectAssumption DEF TunnelInv, TunnelTypes
<1>3. port \in Ports /\ LocalPort(s) \in {0, port} /\ Len(tunnels[s]) < Len(Remotes(s))
  BY <1>1, <1>2 DEF Progress
<1>4. spc'[s] = "probe" /\ tunnels' = [tunnels EXCEPT ![s] = Append(@, port)]
  BY DEF ForwardPort, Goto, TunnelInv, TunnelTypes
<1>5. /\ tunnels'[s] = Append(tunnels[s], port)
      /\ Len(tunnels'[s]) = n /\ n \in Nat
      /\ DOMAIN tunnels'[s] = DOMAIN tunnels[s] \union {n}
      /\ tunnels'[s][n] = port
      /\ \A i \in DOMAIN tunnels[s] : i # n /\ tunnels'[s][i] = tunnels[s][i] /\ tunnels[s][i] \in Ports
  BY <1>2, <1>3, <1>4 DEF TunnelInv, TunnelTypes
<1>6. TunnelTypes'
  <2>1. owner' \in [Ports -> Sessions \union {"free", "other"}]
    BY <1>1, <1>3 DEF TunnelInv, TunnelTypes
  <2>2. tunnels' \in [Sessions -> Seq(Ports)]
    BY <1>3, <1>4 DEF TunnelInv, TunnelTypes
  <2> QED
    BY <2>1, <2>2 DEF ForwardPort, Goto, TunnelInv, TunnelTypes
<1>7. ASSUME NEW t \in Sessions, t # s PROVE Progress(t)' /\ Held(t)' /\ Asked(t)'
  <2>1. \A p \in Ports : owner[p] = t => owner'[p] = t
    BY <1>1, <1>3, ConnectAssumption DEF TunnelInv, TunnelTypes
  <2> QED
    BY <1>7, <2>1, Undisturbed DEF ForwardPort, Goto, TunnelInv, TunnelTypes
<1>8. Remotes(s)' = Remotes(s) /\ Overrides(s)' = Overrides(s)
  BY <1>1, SettingsStay
<1>9. Progress(s)'
  <2>1. \A i \in DOMAIN Overrides(s) : BadOverride(s, i)' <=> BadOverride(s, i)
    BY <1>1, SettingsStay
  <2>2. Len(Remotes(s)) \in Nat
    BY RemotesCounted DEF TunnelInv, TunnelTypes
  <2>3. told'[s] # "ports"
    BY <1>1, <1>2 DEF Progress
  <2> QED
    BY <1>1, <1>2, <1>3, <1>4, <1>5, <1>8, <2>1, <2>2, <2>3 DEF Progress, Tunnelling
<1>10. Held(s)'
  <2>1. \A i \in DOMAIN tunnels[s] \ lost[s] : tunnels[s][i] # port
    BY <1>1, <1>2 DEF Held
  <2>2. owner'[port] = s /\ \A p \in Ports : owner[p] = s => owner'[p] = s
    BY <1>1, <1>3 DEF TunnelInv, TunnelTypes
  <2> QED
    BY <1>1, <1>2, <1>5, <2>1, <2>2 DEF Held
<1>11. Asked(s)'
  <2>1. ASSUME NEW o \in Range(Overrides(s)), o.remote = Remotes(s)[n]
        PROVE  o.local \in {0, port}
    <3>1. \A i \in DOMAIN Overrides(s) : ~BadOverride(s, i)
      BY <1>1, <1>2 DEF Progress, Tunnelling
    <3>2. PortMapping(s, o.remote) = o.local
      BY <3>1, MappingAsGiven DEF TunnelInv, TunnelTypes
    <3> QED
      BY <1>3, <2>1, <3>2 DEF LocalPort, Next1
  <2> QED
    BY <1>2, <1>5, <1>8, <2>1 DEF Asked
<1> QED
  BY <1>6, <1>7, <1>9, <1>10, <1>11 DEF TunnelInv

\* A session whose ports are told has opened every tunnel.
LEMMA MainKeepsTunnels ==
  ASSUME TunnelInv, NEW s \in Sessions, MainStep(s)
  PROVE  TunnelInv'
<1>1. ASSUME NEW l \in Ended, Leave(s, l) PROVE TunnelInv'
  BY <1>1, LeaveKeepsTunnels
<1>2. /\ Progress(s)
      /\ Len(tunnels[s]) \in Nat
      /\ Len(Remotes(s)) \in Nat
  BY RemotesCounted DEF TunnelInv, TunnelTypes
<1>3. ASSUME config' = config
      PROVE  /\ Remotes(s)' = Remotes(s)
             /\ Overrides(s)' = Overrides(s)
             /\ \A i \in DOMAIN Overrides(s) : BadOverride(s, i)' <=> BadOverride(s, i)
  BY <1>3, SettingsStay
<1>4. CASE GetPodFound(s)
  <2>1. /\ spc[s] = "get_pod" /\ spc'[s] = "port_mapping"
        /\ UNCHANGED <<tunnelVars, owner, config, signals, told>>
    BY <1>2, <1>4 DEF GetPodFound, Goto, At, Progress, Tunnelling, TunnelInv, TunnelTypes
  <2>2. Progress(s)'
    BY <1>2, <1>3, <2>1 DEF Progress, Tunnelling, tunnelVars
  <2> QED
    BY <1>4, <2>1, <2>2, GoesOnKeepsTunnels DEF GetPodFound, TunnelInv, TunnelTypes
<1>5. CASE GetPodTimesOut(s)
  BY <1>1, <1>5 DEF GetPodTimesOut, Ended
<1>6. CASE Connect(s)
  BY <1>6, ConnectKeepsTunnels
<1>7. CASE GetAvailablePort(s)
  BY <1>7, ProbeKeepsTunnels
<1>8. CASE ForwardPort(s)
  BY <1>8, ForwardKeepsTunnels
<1>9. CASE ForwardPortFails(s)
  BY <1>1, <1>9 DEF ForwardPortFails, Ended
<1>10. CASE Notify(s)
  <2>1. /\ spc[s] = "probe" /\ spc'[s] = "notified"
        /\ Len(tunnels[s]) + 1 > Len(Remotes(s))
        /\ UNCHANGED <<tunnelVars, owner, config, signals, told>>
    BY <1>10 DEF Notify, Goto, At, Next1, TunnelInv, TunnelTypes
  <2>2. Progress(s)'
    BY <1>2, <1>3, <2>1 DEF Progress, Tunnelling, tunnelVars
  <2> QED
    BY <1>10, <2>1, <2>2, GoesOnKeepsTunnels DEF Notify, TunnelInv, TunnelTypes
<1>11. CASE ExportEnv(s)
  <2>1. /\ spc[s] = "notified" /\ spc'[s] = "wait"
        /\ UNCHANGED <<tunnelVars, owner, config, signals>>
    BY <1>11 DEF ExportEnv, Goto, At, TunnelInv, TunnelTypes
  <2>2. DOMAIN told' = Sessions /\ \A t \in Sessions : t # s => told'[t] = told[t]
    BY <1>11 DEF ExportEnv, TunnelInv, TunnelTypes
  <2>3. Progress(s)'
    BY <1>2, <1>3, <2>1 DEF Progress, Tunnelling, tunnelVars
  <2> QED
    BY <1>11, <2>1, <2>2, <2>3, GoesOnKeepsTunnels DEF ExportEnv
<1>12. CASE RequestLogStreams(s)
  <2>1. CASE Leave(s, "failed")
    BY <1>1, <2>1 DEF Ended
  <2>2. CASE Goto(s, "wait") /\ UNCHANGED <<podVars, tunnelVars, owner, config, signals, told>>
    <3>1. spc[s] = "notified" /\ spc'[s] = "wait"
      BY <1>12, <2>2 DEF RequestLogStreams, Goto, At, TunnelInv, TunnelTypes
    <3>2. Progress(s)'
      BY <1>2, <1>3, <2>2, <3>1 DEF Progress, Tunnelling, tunnelVars
    <3> QED
      BY <2>2, <3>2, GoesOnKeepsTunnels DEF TunnelInv, TunnelTypes
  <2> QED
    BY <1>12, <2>1, <2>2 DEF RequestLogStreams
<1>13. CASE Done(s)
  BY <1>1, <1>13 DEF Done, Ended
<1> QED
  BY <1>4, <1>5, <1>6, <1>7, <1>8, <1>9, <1>10, <1>11, <1>12, <1>13 DEF MainStep

\* The listener of a tunnel that is lost was the session's, and the port of no
\* other tunnel.
LEMMA LossKeepsTunnels ==
  ASSUME TunnelInv, NEW s \in Sessions, NEW i \in DOMAIN tunnels[s], TunnelLost(s, i)
  PROVE  TunnelInv'
<1> DEFINE port == tunnels[s][i]
<1>1. /\ owner' = [owner EXCEPT ![port] = "free"]
      /\ lost' = [lost EXCEPT ![s] = @ \union {i}]
      /\ i \notin lost[s]
      /\ UNCHANGED <<probed, tunnels, config, spc, signals, told>>
  BY DEF TunnelLost
<1>2. Progress(s) /\ Held(s) /\ Asked(s) /\ tunnels[s] \in Seq(Ports) /\ port \in Ports
  BY DEF TunnelInv, TunnelTypes
<1>3. owner[port] = s
  BY <1>1, <1>2 DEF Held
<1>4. TunnelTypes'
  <2>1. owner' \in [Ports -> Sessions \union {"free", "other"}]
    BY <1>1, <1>2 DEF TunnelInv, TunnelTypes
  <2> QED
    BY <1>1, <2>1 DEF TunnelInv, TunnelTypes
<1>5. ASSUME NEW t \in Sessions, t # s PROVE Progress(t)' /\ Held(t)' /\ Asked(t)'
  <2>1. \A p \in Ports : owner[p] = t => owner'[p] = t
    BY <1>1, <1>2, <1>3, <1>5 DEF TunnelInv, TunnelTypes
  <2>2. lost'[t] = lost[t]
    BY <1>1, <1>5 DEF TunnelInv, TunnelTypes
  <2> QED
    BY <1>1, <2>1, <2>2, Undisturbed
<1>6. Held(s)'
  <2>1. lost'[s] = lost[s] \union {i}
    BY <1>1 DEF TunnelInv, TunnelTypes
  <2>2. \A j \in DOMAIN tunnels[s] \ lost'[s] : j \in DOMAIN tunnels[s] \ lost[s] /\ tunnels[s][j] # port
    BY <1>1, <1>2, <2>1 DEF Held
  <2>3. \A j \in DOMAIN tunnels[s] : tunnels[s][j] \in Ports
    BY <1>2
  <2> QED
    BY <1>1, <1>2, <2>2, <2>3 DEF Held, TunnelInv, TunnelTypes
<1>7. Progress(s)' /\ Asked(s)'
  <2>1. Remotes(s)' = Remotes(s) /\ Overrides(s)' = Overrides(s)
    BY <1>1, SettingsStay
  <2>2. \A j \in DOMAIN Overrides(s) : BadOverride(s, j)' <=> BadOverride(s, j)
    BY <1>1, SettingsStay
  <2>3. LocalPort(s)' = LocalPort(s)
    BY <1>1, <2>1 DEF LocalPort, PortMapping, Next1
  <2> QED
    BY <1>1, <1>2, <2>1, <2>2, <2>3 DEF Progress, Asked
<1> QED
  BY <1>4, <1>5, <1>6, <1>7 DEF TunnelInv

\* Every step of the sessions, of signals, lost tunnels and other programs.
LEMMA NextKeepsTunnels == TunnelInv /\ [NextConnect]_connectVars => TunnelInv'
<1> SUFFICES ASSUME TunnelInv, [NextConnect]_connectVars PROVE TunnelInv'
  OBVIOUS
<1>1. ASSUME UNCHANGED <<tunnelVars, config, spc, told>>,
             DOMAIN signals' = Sessions,
             owner' \in [Ports -> Sessions \union {"free", "other"}],
             \A p \in Ports : owner[p] \in Sessions => owner'[p] = owner[p]
      PROVE  TunnelInv'
  <2>1. TunnelTypes'
    BY <1>1 DEF tunnelVars, TunnelInv, TunnelTypes
  <2>2. ASSUME NEW t \in Sessions PROVE Progress(t)' /\ Held(t)' /\ Asked(t)'
    BY <1>1, Undisturbed DEF tunnelVars
  <2> QED
    BY <2>1, <2>2 DEF TunnelInv
<1>2. ASSUME UNCHANGED <<tunnelVars, owner, config, spc, told>>, DOMAIN signals' = Sessions
      PROVE  TunnelInv'
  BY <1>1, <1>2 DEF TunnelInv, TunnelTypes
<1>3. ASSUME NEW s \in Sessions, InformerStep(s) PROVE TunnelInv'
  BY <1>2, <1>3 DEF InformerStep, UpdateFunc, CloseOnce, TunnelInv, TunnelTypes
<1>4. ASSUME NEW s \in Sessions, MainStep(s) PROVE TunnelInv'
  BY <1>4, MainKeepsTunnels
<1>5. ASSUME NEW s \in Sessions, SignalTaken(s) PROVE TunnelInv'
  BY <1>2, <1>5 DEF SignalTaken, TunnelInv, TunnelTypes
<1>6. ASSUME NEW s \in Sessions, NEW i \in DOMAIN tunnels[s], TunnelLost(s, i) PROVE TunnelInv'
  BY <1>6, LossKeepsTunnels
<1>7. ASSUME NEW s \in Sessions, Interrupt(s) PROVE TunnelInv'
  <2>1. CASE Leave(s, "ended")
    BY <2>1, LeaveKeepsTunnels DEF Ended
  <2>2. CASE UNCHANGED <<tunnelVars, owner, config, spc, told>> /\ DOMAIN signals' = Sessions
    BY <1>2, <2>2
  <2> QED
    BY <1>7, <2>1, <2>2 DEF Interrupt, TunnelInv, TunnelTypes
<1>8. CASE PodChanges
  BY <1>2, <1>8 DEF PodChanges, TunnelInv, TunnelTypes
<1>9. CASE PortTaken
  BY <1>1, <1>9, ConnectAssumption DEF PortTaken, TunnelInv, TunnelTypes
<1>10. CASE UNCHANGED connectVars
  BY <1>2, <1>10 DEF connectVars, TunnelInv, TunnelTypes
<1> QED
  BY <1>3, <1>4, <1>5, <1>6, <1>7, <1>8, <1>9, <1>10 DEF NextConnect

\* A port is looked for and listened on in two steps, between which every other
\* session and program may take it; yet the port of an open tunnel is its
\* session's, no other tunnel has it, it is the one asked for, and what detach
\* prints is complete.
THEOREM SessionsKeepTheirPorts == ConnectSpec => []TunnelsKeepTheirPorts
<1>1. InitConnect => TunnelInv
  <2> SUFFICES ASSUME InitConnect PROVE TunnelInv
    OBVIOUS
  <2>1. TunnelTypes
    BY DEF InitConnect, TunnelTypes
  <2>2. ASSUME NEW s \in Sessions PROVE Progress(s) /\ Held(s) /\ Asked(s)
    <3>1. tunnels[s] = <<>> /\ spc[s] = "get_pod" /\ told[s] = "nothing"
      BY DEF InitConnect
    <3>2. Len(Remotes(s)) \in Nat
      BY RemotesCounted
    <3> QED
      BY <3>1, <3>2 DEF Progress, Held, Asked, Tunnelling
  <2> QED
    BY <2>1, <2>2 DEF TunnelInv
<1>2. TunnelInv => TunnelsKeepTheirPorts
  <2> SUFFICES ASSUME TunnelInv, NEW s \in Sessions, Alive(s)
               PROVE  /\ \A i \in DOMAIN tunnels[s] \ lost[s] :
                           /\ owner[tunnels[s][i]] = s
                           /\ \A j \in DOMAIN tunnels[s] \ lost[s] :
                                tunnels[s][i] = tunnels[s][j] => i = j
                           /\ \A o \in Range(Overrides(s)) :
                                o.remote = Remotes(s)[i] => o.local \in {0, tunnels[s][i]}
                      /\ told[s] = "ports" => Len(tunnels[s]) = Len(Remotes(s))
    BY DEF TunnelsKeepTheirPorts
  <2>1. Progress(s) /\ Held(s) /\ Asked(s)
    BY DEF TunnelInv
  <2> QED
    BY <2>1 DEF Progress, Held, Asked, Alive, Ended
<1> QED
  BY <1>1, <1>2, NextKeepsTunnels, PTL DEF ConnectSpec

-----------------------------------------------------------------------------
(* One call of the registry's client.                                      *)

Changing == {"PUT", "PATCH"}

\* What the proofs need to know of the nineteen operations: each that makes or
\* changes an item is long-running, accepts what the service answers to it, and
\* can be read back; a long-running POST cannot.
LEMMA OperationsKnown ==
  \A o \in Operations :
    /\ o.method \in {"GET", "PUT", "PATCH", "POST", "DELETE"}
    /\ 404 \notin o.codes
    /\ o.answer # "future" => o.codes = {200}
    /\ o.method \in Changing =>
         /\ o.answer = "future"
         /\ o.codes = {200, 201}
         /\ Readable(o)
         /\ ~Valueless(o)
    /\ o.method = "POST" /\ o.answer = "future" => ~Readable(o)
<1> USE DEF Operation
<1>1. \A o \in Operations :
        /\ o.method \in {"GET", "PUT", "PATCH", "POST", "DELETE"}
        /\ 404 \notin o.codes
        /\ o.answer # "future" => o.codes = {200}
        /\ o.method \in Changing => o.answer = "future" /\ o.codes = {200, 201}
  BY DEF Operations, Changing, GetBuildSourceUploadURL, QueueBuild, BuildsCancel, BuildsGet,
         BuildsGetLogLink, BuildsList, BuildsUpdate, BuildTasksCreate, BuildTasksDelete,
         BuildTasksGet, BuildTasksList, BuildTasksUpdate, ListSourceRepositoryProperties,
         BuildStepsCreate, BuildStepsDelete, BuildStepsGet, BuildStepsList, BuildStepsUpdate,
         ListBuildArguments
<1>2. \A o \in Operations :
        o.method \in Changing =>
          o \in {BuildsUpdate, BuildTasksCreate, BuildTasksUpdate, BuildStepsCreate, BuildStepsUpdate}
  BY DEF Operations, Changing, GetBuildSourceUploadURL, QueueBuild, BuildsCancel, BuildsGet,
         BuildsGetLogLink, BuildsList, BuildTasksDelete, BuildTasksGet, BuildTasksList,
         ListSourceRepositoryProperties, BuildStepsDelete, BuildStepsGet, BuildStepsList,
         ListBuildArguments
<1>3. Readable(BuildsUpdate) /\ Readable(BuildTasksCreate) /\ Readable(BuildTasksUpdate)
  BY DEF Readable, Operations, BuildsUpdate, BuildTasksCreate, BuildTasksUpdate, BuildsGet,
         BuildTasksGet
<1>4. Readable(BuildStepsCreate) /\ Readable(BuildStepsUpdate)
  BY DEF Readable, Operations, BuildStepsCreate, BuildStepsUpdate, BuildStepsGet
<1>5. \A o \in Operations : o.method \in Changing => ~Valueless(o)
  BY DEF Changing, Valueless, Futures, Giving, BuildsCancelFuture, BuildsUpdateFuture,
         RegistriesQueueBuildFuture, BuildTasksCreateFuture, BuildTasksDeleteFuture,
         BuildTasksUpdateFuture, BuildStepsCreateFuture, BuildStepsDeleteFuture,
         BuildStepsUpdateFuture, BuildsCancel, BuildTasksDelete, BuildStepsDelete
<1>6. \A o \in Operations :
        o.method = "POST" /\ o.answer = "future" => o \in {QueueBuild, BuildsCancel}
  BY DEF Operations, GetBuildSourceUploadURL, BuildsGet, BuildsGetLogLink, BuildsList,
         BuildsUpdate, BuildTasksCreate, BuildTasksDelete, BuildTasksGet, BuildTasksList,
         BuildTasksUpdate, ListSourceRepositoryProperties, BuildStepsCreate, BuildStepsDelete,
         BuildStepsGet, BuildStepsList, BuildStepsUpdate, ListBuildArguments
<1>7. \A r \in Operations :
        r.method = "GET" =>
          r \in {BuildsGet, BuildsList, BuildTasksGet, BuildTasksList, BuildStepsGet, BuildStepsList}
  BY DEF Operations, GetBuildSourceUploadURL, QueueBuild, BuildsCancel, BuildsGetLogLink,
         BuildsUpdate, BuildTasksCreate, BuildTasksDelete, BuildTasksUpdate,
         ListSourceRepositoryProperties, BuildStepsCreate, BuildStepsDelete, BuildStepsUpdate,
         ListBuildArguments
<1>8. ~Readable(QueueBuild) /\ ~Readable(BuildsCancel)
  BY <1>7 DEF Readable, QueueBuild, BuildsCancel, BuildsGet, BuildsList, BuildTasksGet,
              BuildTasksList, BuildStepsGet, BuildStepsList, StepPath
<1> QED
  BY <1>1, <1>2, <1>3, <1>4, <1>5, <1>6, <1>8

\* Once the operation is carried out the item is what it makes of it, unless
\* another user was there.
Carried ==
  job = "succeeded" /\ ~meddled =>
    /\ op.method \in Changing => item = "mine"
    /\ op.method = "DELETE" => item = "none"

\* How far the call has got: before the first answer nothing was carried out,
\* but for a request that was lost; and the item is fetched when the job is over.
Called ==
  /\ op \in Operations
  /\ cpc \in {"validate", "send", "future", "get", "done"}
  /\ job \in {"none", "running", "succeeded", "failed"}
  /\ cpc = "validate" => job = "none"
  /\ cpc = "send" /\ ~dropped => job = "none"
  /\ cpc \in {"future", "get"} => op.answer = "future"
  /\ cpc = "get" => job = "succeeded"

\* What the caller has been told agrees with the job.
ToldRight ==
  /\ reported = "ok" =>
       /\ cpc = "done"
       /\ op.method # "GET" => job = "succeeded" /\ (~meddled => returned = Outcome(op))
  /\ cpc = "done" /\ ~dropped /\ op.method \in Changing =>
       /\ job # "running"
       /\ job = "succeeded" /\ ~meddled => reported = "ok"

ClientInv == Carried /\ Called /\ ToldRight

\* What an answer of the service says of the job.
LEMMA ServeAnswers ==
  ASSUME ClientInv, NEW code, Serve(code), op' = op, meddled' = meddled
  PROVE  /\ Carried'
         /\ job' \in {"none", "running", "succeeded", "failed"}
         /\ code = 404 => job' = job
         /\ code \in {200, 204} => job' = "succeeded"
         /\ code \in {201, 202} => job' = "running"
         /\ op.method \in Changing => code \in {200, 201, 404}
<1>1. op.method \in {"GET", "PUT", "PATCH", "POST", "DELETE"}
  BY OperationsKnown DEF ClientInv, Called
<1>2. CASE item = "none" /\ code = 404 /\ UNCHANGED serviceVars
  BY <1>2 DEF ClientInv, Carried, Called, serviceVars
<1>3. CASE /\ item = "none" /\ op.method = "DELETE"
           /\ code = 204 /\ job' = "succeeded" /\ UNCHANGED item
  BY <1>3 DEF Carried, Changing
<1>4. CASE code = 200 /\ item' = Finished /\ job' = "succeeded"
  BY <1>1, <1>4 DEF Carried, Changing, Finished, Outcome
<1>5. CASE /\ code = (IF op.method \in {"PUT", "PATCH"} THEN 201 ELSE 202)
           /\ job' = "running"
  BY <1>5 DEF Carried, Changing
<1> QED
  BY <1>2, <1>3, <1>4, <1>5 DEF Serve

\* A request whose answer arrives; a code that the client does not accept is
\* none that follows on a change.
LEMMA SendKeepsClient ==
  ASSUME ClientInv, Send
  PROVE  ClientInv'
<1>1. PICK code \in {200, 201, 202, 204, 404} :
        /\ Serve(code)
        /\ IF code \notin op.codes
           THEN Tell("error") /\ UNCHANGED returned
           ELSE IF op.answer = "future"
                THEN cpc' = "future" /\ UNCHANGED <<reported, returned>>
                ELSE Tell("ok") /\ returned' = Outcome(op)
  BY DEF Send
<1>2. cpc = "send" /\ UNCHANGED <<op, dropped, meddled>>
  BY DEF Send
<1>3. /\ op \in Operations
      /\ op.method \in Changing => op.answer = "future" /\ op.codes = {200, 201}
      /\ op.answer # "future" => op.codes = {200}
      /\ 404 \notin op.codes
  BY OperationsKnown DEF ClientInv, Called
<1>4. /\ Carried'
      /\ job' \in {"none", "running", "succeeded", "failed"}
      /\ code = 404 => job' = job
      /\ code = 200 => job' = "succeeded"
      /\ op.method \in Changing => code \in {200, 201, 404}
  BY <1>1, <1>2, ServeAnswers
<1>5. CASE code \notin op.codes /\ Tell("error") /\ UNCHANGED returned
  <2>1. Called'
    BY <1>2, <1>3, <1>4, <1>5 DEF Called, Tell
  <2>2. op.method \in Changing => code = 404
    BY <1>3, <1>4, <1>5
  <2>3. ToldRight'
    BY <1>2, <1>4, <1>5, <2>2 DEF ClientInv, Called, ToldRight, Tell
  <2> QED
    BY <1>4, <2>1, <2>3 DEF ClientInv
<1>6. CASE op.answer = "future" /\ cpc' = "future" /\ UNCHANGED <<reported, returned>>
  <2>1. Called'
    BY <1>2, <1>3, <1>4, <1>6 DEF Called
  <2>2. ToldRight'
    BY <1>2, <1>6 DEF ClientInv, ToldRight
  <2> QED
    BY <1>4, <2>1, <2>2 DEF ClientInv
<1>7. CASE op.answer # "future" /\ code \in op.codes /\ Tell("ok") /\ returned' = Outcome(op)
  <2>1. job' = "succeeded" /\ op.method \notin Changing
    BY <1>3, <1>4, <1>7
  <2>2. Called'
    BY <1>2, <1>3, <2>1, <1>7 DEF Called, Tell
  <2>3. op.method # "GET" => Outcome(op)' = Outcome(op)
    BY <1>2, <1>3, OperationsKnown DEF Outcome
  <2>4. ToldRight'
    BY <1>2, <1>7, <2>1, <2>3 DEF ToldRight, Tell
  <2> QED
    BY <1>4, <2>2, <2>4 DEF ClientInv
<1> QED
  BY <1>1, <1>5, <1>6, <1>7

\* A request that is lost, before or after the service has served it.
LEMMA SendLostKeepsClient ==
  ASSUME ClientInv, SendLost
  PROVE  ClientInv'
<1>1. /\ cpc = "send" /\ dropped' = TRUE
      /\ UNCHANGED <<op, returned, meddled>>
      /\ Tell("error") \/ UNCHANGED <<cpc, reported>>
  BY DEF SendLost
<1>2. Carried' /\ job' \in {"none", "running", "succeeded", "failed"}
  <2>1. CASE UNCHANGED serviceVars
    BY <1>1, <2>1 DEF ClientInv, Carried, Called, serviceVars
  <2>2. CASE \E code \in {200, 201, 202, 204, 404} : Serve(code)
    BY <1>1, <2>2, ServeAnswers
  <2> QED
    BY <2>1, <2>2 DEF SendLost
<1>3. Called'
  BY <1>1, <1>2 DEF ClientInv, Called, Tell
<1>4. ToldRight'
  BY <1>1 DEF ClientInv, ToldRight, Tell
<1> QED
  BY <1>2, <1>3, <1>4 DEF ClientInv

\* The future's Result: it asks whether the job is over before it answers.
LEMMA ResultKeepsClient ==
  ASSUME ClientInv, Result
  PROVE  ClientInv'
<1>1. cpc = "future" /\ UNCHANGED <<op, sends, item, job, polling, meddled>>
  BY DEF Result, serviceVars
<1>2. Carried'
  BY <1>1 DEF ClientInv, Carried
<1>3. op \in Operations /\ (op.method \in Changing => op.codes = {200, 201})
  BY OperationsKnown DEF ClientInv, Called
<1>4. Called'
  BY <1>1 DEF Result, PollFails, Tell, ClientInv, Called
<1>5. CASE PollFails
  BY <1>1, <1>2, <1>4, <1>5 DEF PollFails, Tell, ClientInv, ToldRight
<1>6. CASE job = "failed" /\ Tell("error") /\ UNCHANGED <<returned, dropped>>
  BY <1>1, <1>2, <1>4, <1>6 DEF Tell, ClientInv, ToldRight
<1>7. CASE job = "running" /\ reported' = "incomplete" /\ UNCHANGED <<cpc, returned, dropped>>
  BY <1>1, <1>2, <1>4, <1>7 DEF ClientInv, ToldRight
<1>8. CASE /\ job = "succeeded" /\ polling = "location" /\ UNCHANGED dropped
           /\ \E code \in (IF op.method = "DELETE" THEN {200, 204} ELSE {200}) :
                IF code \in op.codes
                THEN Tell("ok") /\ returned' = Outcome(op)
                ELSE Tell("error") /\ UNCHANGED returned
  <2>1. PICK code \in (IF op.method = "DELETE" THEN {200, 204} ELSE {200}) :
          IF code \in op.codes
          THEN Tell("ok") /\ returned' = Outcome(op)
          ELSE Tell("error") /\ UNCHANGED returned
    BY <1>8
  <2>2. Outcome(op)' = Outcome(op)
    BY <1>1 DEF Outcome
  <2>3. op.method \in Changing => code \in op.codes
    BY <1>3, <2>1 DEF Changing
  <2>4. ToldRight'
    BY <1>1, <1>8, <2>1, <2>2, <2>3 DEF Tell, ClientInv, ToldRight
  <2> QED
    BY <1>2, <1>4, <2>4 DEF ClientInv
<1>9. CASE cpc' = "get" /\ UNCHANGED <<reported, returned, dropped>>
  BY <1>1, <1>2, <1>4, <1>9 DEF ClientInv, ToldRight
<1> QED
  BY <1>5, <1>6, <1>7, <1>8, <1>9 DEF Result

\* What is fetched from the URL of the operation is its outcome: a deletion has
\* nothing there, and a POST has no such URL.
LEMMA ResultGetKeepsClient ==
  ASSUME ClientInv, ResultGet
  PROVE  ClientInv'
<1>1. /\ cpc = "get" /\ job = "succeeded"
      /\ UNCHANGED <<op, sends, item, job, polling, meddled>>
  BY DEF ResultGet, serviceVars, ClientInv, Called
<1>2. Carried'
  BY <1>1 DEF ClientInv, Carried
<1>3. Called'
  BY <1>1 DEF ResultGet, PollFails, Tell, ClientInv, Called
<1>4. /\ op \in Operations /\ op.answer = "future"
      /\ op.method \in {"GET", "PUT", "PATCH", "POST", "DELETE"}
      /\ op.method \in Changing => Readable(op) /\ ~Valueless(op)
      /\ op.method = "POST" => ~Readable(op)
  BY <1>1, OperationsKnown DEF ClientInv, Called
<1>5. ToldRight'
  <2>1. CASE PollFails
    BY <1>1, <2>1 DEF PollFails, Tell, ClientInv, ToldRight
  <2>2. CASE /\ Readable(op) /\ item # "none"
             /\ Tell("ok") /\ UNCHANGED dropped
             /\ returned' = IF Valueless(op) THEN "none" ELSE item
    <3>1. ~meddled /\ op.method # "GET" => returned' = Outcome(op)
      BY <1>1, <1>4, <2>2 DEF ClientInv, Carried, Outcome, Changing
    <3>2. op.method # "GET" => Outcome(op)' = Outcome(op)
      BY <1>1, <1>4 DEF Outcome
    <3> QED
      BY <1>1, <2>2, <3>1, <3>2 DEF Tell, ToldRight
  <2>3. CASE /\ ~(Readable(op) /\ item # "none")
             /\ Tell("error") /\ UNCHANGED <<returned, dropped>>
    <3>1. op.method \in Changing => meddled
      BY <1>1, <1>4, <2>3 DEF ClientInv, Carried
    <3> QED
      BY <1>1, <2>3, <3>1 DEF Tell, ToldRight
  <2> QED
    BY <2>1, <2>2, <2>3 DEF ResultGet
<1> QED
  BY <1>2, <1>3, <1>5 DEF ClientInv

\* Every step of a call and its answer.
LEMMA NextKeepsClient == ClientInv /\ [NextClient]_clientVars => ClientInv'
<1> SUFFICES ASSUME ClientInv, [NextClient]_clientVars PROVE ClientInv'
  OBVIOUS
<1>1. CASE Validate
  BY <1>1 DEF Validate, Tell, serviceVars, ClientInv, Carried, Called, ToldRight
<1>2. CASE SendLost
  BY <1>2, SendLostKeepsClient
<1>3. CASE Send
  BY <1>3, SendKeepsClient
<1>4. CASE Result
  BY <1>4, ResultKeepsClient
<1>5. CASE ResultGet
  BY <1>5, ResultGetKeepsClient
<1>6. CASE JobEnds
  <2>1. op.method # "GET" => Outcome(op)' = Outcome(op)
    BY <1>6, OperationsKnown DEF JobEnds, callVars, ClientInv, Called, Outcome
  <2>2. Carried'
    BY <1>6 DEF JobEnds, callVars, Carried, Finished, Outcome, Changing
  <2>3. Called'
    BY <1>6 DEF JobEnds, callVars, ClientInv, Called
  <2>4. ToldRight'
    BY <1>6, <2>1 DEF JobEnds, callVars, ClientInv, ToldRight
  <2> QED
    BY <2>2, <2>3, <2>4 DEF ClientInv
<1>7. CASE Meddle
  <2>1. Carried' /\ Called'
    BY <1>7 DEF Meddle, callVars, ClientInv, Carried, Called
  <2>2. ToldRight'
    BY <1>7 DEF Meddle, callVars, ClientInv, ToldRight
  <2> QED
    BY <2>1, <2>2 DEF ClientInv
<1>8. CASE UNCHANGED clientVars
  BY <1>8 DEF clientVars, callVars, serviceVars, ClientInv, Carried, Called, ToldRight, Outcome
<1> QED
  BY <1>1, <1>2, <1>3, <1>4, <1>5, <1>6, <1>7, <1>8 DEF NextClient

\* Whatever is lost or sent again, a caller that is told of success has had the
\* operation carried out to its end, and has its outcome if nobody else was at
\* the item; and a change that was carried out with nothing lost is not
\* reported as a failure.
THEOREM ClientOutcomeTold == ClientSpec => []OutcomeTold
<1>1. InitClient => ClientInv
  BY RegistryClientAssumption DEF InitClient, ClientInv, Carried, Called, ToldRight
<1>2. ClientInv => OutcomeTold
  BY DEF ClientInv, ToldRight, OutcomeTold, Changing
<1> QED
  BY <1>1, <1>2, NextKeepsClient, PTL DEF ClientSpec

-----------------------------------------------------------------------------
(* A listing.                                                              *)

Entries == UNION {Range(pages[n]) : n \in DOMAIN pages}

\* The pages before the first empty one, which are the ones that are read; the
\* values of the first n pages, and what the caller has been given who has
\* had n values of the page that is held.
PagesRead == Min({n \in 1 .. Len(pages) + 1 : n \in DOMAIN pages => pages[n] = <<>>}) - 1
Before(n) == FlattenSeq(SubSeq(pages, 1, n))
Given(n) == Before(page - 1) \o SubSeq(Values, 1, n)

\* Where the iterator is when the caller has had what it has had.
ListingInv ==
  /\ pages \in Listings
  /\ lpc \in {"list", "loop", "next", "retry", "done", "failed"}
  /\ lpc = "list" => page = 0 /\ index = 0 /\ listed = <<>>
  /\ lpc = "loop" =>
       /\ page \in 1 .. PagesRead + 1 /\ index \in Nat
       /\ page <= PagesRead => index < Len(Values)
       /\ page > PagesRead => index = 0
       /\ listed = Given(index)
  /\ lpc \in {"next", "retry"} =>
       /\ page \in 1 .. PagesRead /\ index \in Nat
       /\ index < Len(Values)
       /\ listed = Given(index + 1)
  /\ lpc = "done" => listed = Before(PagesRead)
  /\ lpc = "failed" => listed \in Seq(Entries) /\ IsPrefix(listed, Before(PagesRead))

\* The pages read are those before the first empty one.
LEMMA PagesReadFirst ==
  ASSUME pages \in Listings
  PROVE  /\ pages \in Seq(Seq(Entries))
         /\ PagesRead \in 0 .. Len(pages)
         /\ \A n \in 1 .. PagesRead : pages[n] \in Seq(Entries) /\ Len(pages[n]) > 0
         /\ PagesRead + 1 \in DOMAIN pages => pages[PagesRead + 1] = <<>>
<1> DEFINE S == {n \in 1 .. Len(pages) + 1 : n \in DOMAIN pages => pages[n] = <<>>}
           least == Min(S)
<1>1. pages \in Seq(Seq(Entries))
  BY PagesAssumption DEF Entries
<1>2. Len(pages) \in Nat /\ DOMAIN pages = 1 .. Len(pages)
  BY <1>1
<1>3. S \in SUBSET Nat /\ Len(pages) + 1 \in S
  BY <1>2
<1>4. least \in S /\ \A n \in S : least <= n
  BY <1>3, LeastNumber DEF Min
<1>5. least \in 1 .. Len(pages) + 1 /\ (least \in DOMAIN pages => pages[least] = <<>>)
  BY <1>4
<1>6. PagesRead = least - 1
  BY DEF PagesRead
<1> HIDE DEF least
<1>7. ASSUME NEW n \in 1 .. PagesRead PROVE pages[n] \in Seq(Entries) /\ Len(pages[n]) > 0
  <2>1. n \in 1 .. Len(pages) /\ n < least
    BY <1>2, <1>5, <1>6
  <2>2. n \notin S
    <3>1. n \in Nat /\ least \in Nat /\ ~(least <= n)
      BY <1>2, <1>5, <2>1
    <3> QED
      BY <1>4, <3>1
  <2>3. pages[n] # <<>> /\ pages[n] \in Seq(Entries)
    BY <1>1, <1>2, <2>1, <2>2
  <2> QED
    BY <2>3
<1> QED
  BY <1>1, <1>2, <1>5, <1>6, <1>7

\* A prefix, place by place.
LEMMA PrefixIs ==
  ASSUME NEW V, NEW s \in Seq(V), NEW t \in Seq(V)
  PROVE  IsPrefix(s, t) <=> Len(s) <= Len(t) /\ \A i \in 1 .. Len(s) : s[i] = t[i]
<1>1. Len(s) \in Nat /\ Len(t) \in Nat
  OBVIOUS
<1>2. CASE Len(s) <= Len(t)
  <2>1. SubSeq(s, 1, Len(s)) = s
    OBVIOUS
  <2>2. /\ SubSeq(t, 1, Len(s)) \in Seq(V)
        /\ Len(SubSeq(t, 1, Len(s))) = Len(s)
        /\ \A i \in 1 .. Len(s) : SubSeq(t, 1, Len(s))[i] = t[i]
    BY <1>1, <1>2
  <2>3. s = SubSeq(t, 1, Len(s)) <=> \A i \in 1 .. Len(s) : s[i] = t[i]
    BY <1>1, <2>2
  <2> QED
    BY <1>2, <2>1, <2>3 DEF IsPrefix
<1>3. CASE ~(Len(s) <= Len(t))
  BY <1>3 DEF IsPrefix
<1> QED
  BY <1>2, <1>3

\* What the pages before a page hold, by the number of pages.
LEMMA BeforeSteps ==
  ASSUME pages \in Listings
  PROVE  /\ Before(0) = <<>>
         /\ \A n \in 0 .. Len(pages) : Before(n) \in Seq(Entries)
         /\ \A n \in 1 .. Len(pages) : Before(n) = Before(n - 1) \o pages[n]
<1>1. pages \in Seq(Seq(Entries)) /\ Len(pages) \in Nat
  BY PagesReadFirst
<1>2. /\ FlattenSeq(SubSeq(pages, 1, 0)) = <<>>
      /\ \A n \in 0 .. Len(pages) : FlattenSeq(SubSeq(pages, 1, n)) \in Seq(Entries)
      /\ \A n \in 0 .. Len(pages) - 1 :
           FlattenSeq(SubSeq(pages, 1, n + 1)) = FlattenSeq(SubSeq(pages, 1, n)) \o pages[n + 1]
  BY <1>1, FlattenSteps
<1>3. ASSUME NEW n \in 0 .. Len(pages) PROVE Before(n) \in Seq(Entries)
  BY <1>2 DEF Before
<1>4. ASSUME NEW n \in 1 .. Len(pages) PROVE Before(n) = Before(n - 1) \o pages[n]
  <2>1. n - 1 \in 0 .. Len(pages) - 1 /\ n - 1 + 1 = n
    BY <1>1
  <2>2. Before(n - 1 + 1) = Before(n - 1) \o pages[n - 1 + 1]
    BY <1>2, <2>1 DEF Before
  <2> QED
    BY <2>1, <2>2
<1> QED
  BY <1>2, <1>3, <1>4 DEF Before

\* The values of the first pages begin those of more.
LEMMA BeforeGrows ==
  ASSUME pages \in Listings, NEW last \in 0 .. Len(pages), NEW n \in 0 .. last
  PROVE  IsPrefix(Before(n), Before(last))
<1> DEFINE Bad == {m \in Nat : m \in n .. last /\ ~IsPrefix(Before(n), Before(m))}
<1>1. /\ pages \in Seq(Seq(Entries)) /\ last \in Nat /\ Len(pages) \in Nat
      /\ last <= Len(pages) /\ n \in Nat
      /\ \A m \in 1 .. last : pages[m] \in Seq(Entries)
  <2>1. pages \in Seq(Seq(Entries))
    BY PagesReadFirst
  <2> QED
    BY <2>1
<1>2. SUFFICES ASSUME Bad # {} PROVE FALSE
  <2>1. last \in n .. last
    BY <1>1
  <2> QED
    BY <1>1, <2>1, SMTT(30)
<1>3. PICK m \in Bad : \A i \in Bad : m <= i
  BY <1>2, LeastNumber
<1>4. m \in Nat /\ m \in n .. last /\ ~IsPrefix(Before(n), Before(m))
  BY <1>3
<1>5. \A i \in 0 .. last : Before(i) \in Seq(Entries)
  <2>1. \A i \in 0 .. Len(pages) : Before(i) \in Seq(Entries)
    BY BeforeSteps
  <2> QED
    BY <1>1, <2>1
<1>6. m # n
  <2>1. IsPrefix(Before(n), Before(n))
    BY <1>5, PrefixIs
  <2> QED
    BY <1>4, <2>1
<1>7. m - 1 \in Nat /\ m - 1 \in n .. last /\ m - 1 \in 0 .. Len(pages) - 1
  BY <1>1, <1>4, <1>6
<1>8. IsPrefix(Before(n), Before(m - 1))
  <2>1. m - 1 \notin Bad
    <3> HIDE DEF Bad
    <3> QED
      BY <1>3, <1>4, <1>7
  <2> QED
    BY <1>7, <2>1
<1>9. Before(m) = Before(m - 1) \o pages[m]
  <2>1. m \in 1 .. Len(pages)
    BY <1>1, <1>4, <1>6
  <2> QED
    BY <2>1, BeforeSteps
<1>10. /\ Before(n) \in Seq(Entries) /\ Before(m - 1) \in Seq(Entries)
       /\ Before(m) \in Seq(Entries) /\ pages[m] \in Seq(Entries)
  <2>1. m - 1 \in 0 .. last /\ m \in 0 .. last /\ m \in 1 .. last
    BY <1>1, <1>4, <1>7
  <2> QED
    BY <1>1, <1>5, <2>1
<1>11. IsPrefix(Before(n), Before(m))
  <2> DEFINE a == Before(n)  b == Before(m - 1)  c == pages[m]
  <2>1. Len(a) <= Len(b) /\ \A i \in 1 .. Len(a) : a[i] = b[i]
    BY <1>8, <1>10, PrefixIs
  <2>2. a \in Seq(Entries) /\ b \in Seq(Entries) /\ c \in Seq(Entries)
    BY <1>10
  <2> HIDE DEF a, b, c
  <2>3. Len(a) <= Len(b \o c) /\ \A i \in 1 .. Len(a) : a[i] = (b \o c)[i]
    BY <2>1, <2>2
  <2>4. IsPrefix(a, b \o c)
    <3>1. b \o c \in Seq(Entries)
      BY <2>2
    <3> QED
      BY <2>2, <2>3, <3>1, PrefixIs
  <2> QED
    BY <1>9, <2>4 DEF a, b, c
<1> QED
  BY <1>4, <1>11

\* What the caller has had is where the listing begins.
LEMMA GivenBegins ==
  ASSUME pages \in Listings, page \in 1 .. PagesRead, NEW j \in 0 .. Len(Values)
  PROVE  /\ Given(j) \in Seq(Entries) /\ IsPrefix(Given(j), Before(PagesRead))
         /\ Given(Len(Values)) = Before(page)
<1>1. /\ pages \in Seq(Seq(Entries)) /\ PagesRead \in Nat /\ Len(pages) \in Nat
      /\ PagesRead <= Len(pages) /\ pages[page] \in Seq(Entries)
      /\ Values = pages[page]
  BY PagesReadFirst DEF Values
<1>2. \A i \in 0 .. PagesRead : Before(i) \in Seq(Entries)
  BY <1>1, BeforeSteps
<1>3. page - 1 \in 0 .. PagesRead /\ page \in 0 .. PagesRead /\ page - 1 \in 0 .. Len(pages) - 1
  BY <1>1
<1>4. Before(page) = Before(page - 1) \o Values
  <2>1. page \in 1 .. Len(pages)
    BY <1>1
  <2> QED
    BY <1>1, <2>1, BeforeSteps
<1> DEFINE a == Before(page - 1)  v == Values  whole == Before(PagesRead)
<1>5. a \in Seq(Entries) /\ v \in Seq(Entries) /\ whole \in Seq(Entries)
  BY <1>1, <1>2, <1>3
<1>6. IsPrefix(a \o v, whole)
  <2>1. PagesRead \in 0 .. Len(pages)
    BY <1>1
  <2> QED
    BY <1>3, <1>4, <2>1, BeforeGrows
<1> HIDE DEF a, v, whole
<1>7. SubSeq(v, 1, Len(v)) = v
  BY <1>5
<1>8. a \o SubSeq(v, 1, j) \in Seq(Entries) /\ IsPrefix(a \o SubSeq(v, 1, j), whole)
  <2> DEFINE more == a \o v  part == a \o SubSeq(v, 1, j)
  <2>1. j \in 0 .. Len(v)
    BY DEF v
  <2>2. SubSeq(v, 1, j) \in Seq(Entries) /\ Len(SubSeq(v, 1, j)) = j
    BY <1>5, <2>1
  <2>3. more \in Seq(Entries) /\ part \in Seq(Entries)
    BY <1>5, <2>2
  <2>4. /\ Len(part) <= Len(more)
        /\ \A i \in 1 .. Len(part) : part[i] = more[i]
    BY <1>5, <2>1, <2>2
  <2>5. IsPrefix(more, whole)
    BY <1>6
  <2> HIDE DEF more, part
  <2>6. Len(more) <= Len(whole) /\ \A i \in 1 .. Len(more) : more[i] = whole[i]
    BY <1>5, <2>3, <2>5, PrefixIs
  <2>7. Len(part) \in Nat /\ Len(more) \in Nat /\ Len(whole) \in Nat
    BY <1>5, <2>3
  <2>8. Len(part) <= Len(whole) /\ \A i \in 1 .. Len(part) : part[i] = whole[i]
    BY <2>4, <2>6, <2>7
  <2>9. IsPrefix(part, whole)
    BY <1>5, <2>3, <2>8, PrefixIs
  <2> QED
    BY <2>3, <2>9 DEF part
<1> QED
  BY <1>4, <1>7, <1>8 DEF Given, a, v, whole

\* Every step of the iterator and of its caller.
LEMMA NextKeepsListing == ListingInv /\ [NextListing]_listingVars => ListingInv'
<1> SUFFICES ASSUME ListingInv, [NextListing]_listingVars PROVE ListingInv'
  OBVIOUS
<1>1. /\ pages \in Listings
      /\ pages \in Seq(Seq(Entries)) /\ PagesRead \in Nat
      /\ PagesRead <= Len(pages) /\ Len(pages) \in Nat
      /\ \A n \in 1 .. PagesRead : pages[n] \in Seq(Entries) /\ Len(pages[n]) > 0
      /\ PagesRead + 1 \in DOMAIN pages => pages[PagesRead + 1] = <<>>
      /\ Before(0) = <<>>
      /\ \A n \in 0 .. PagesRead : Before(n) \in Seq(Entries)
  BY PagesReadFirst, BeforeSteps DEF ListingInv
<1>2. PagesRead' = PagesRead /\ \A n \in Nat : FlattenSeq(SubSeq(pages', 1, n)) = Before(n)
  BY DEF NextListing, ListFirst, TakeValue, NextValue, Retry, listingVars, PagesRead, Before
<1>3. pages' = pages /\ Before(PagesRead)' = Before(PagesRead)
  BY DEF NextListing, ListFirst, TakeValue, NextValue, Retry, listingVars, PagesRead, Before
<1>4. page \in 1 .. PagesRead => Values = pages[page] /\ Values \in Seq(Entries)
  BY <1>1 DEF Values
<1>5. page = PagesRead + 1 => Values = <<>>
  BY <1>1 DEF Values
<1>6. ASSUME NEW n \in 0 .. PagesRead,
             page' = n + 1, index' = 0, lpc' = "loop", listed' = Before(n)
      PROVE  ListingInv'
  <2>1. n + 1 \in 1 .. PagesRead => Values' = pages[n + 1] /\ Len(Values') > 0
    <3>1. Values' = IF n + 1 \in DOMAIN pages THEN pages[n + 1] ELSE <<>>
      BY <1>3, <1>6 DEF Values
    <3>2. n + 1 \in 1 .. PagesRead => n + 1 \in DOMAIN pages /\ Len(pages[n + 1]) > 0
      BY <1>1
    <3> QED
      BY <3>1, <3>2
  <2>2. SubSeq(Values', 1, 0) = <<>>
    <3>1. Values' = <<>> \/ Values' \in Seq(Entries)
      BY <1>1, <1>3, <1>6 DEF Values
    <3> QED
      BY <3>1
  <2>3. Before(n) \o <<>> = Before(n)
    <3>1. Before(n) \in Seq(Entries)
      BY <1>1
    <3> QED
      BY <3>1
  <2>4. Given(index)' = Before(n)
    <3>1. Given(index)' = FlattenSeq(SubSeq(pages', 1, page' - 1)) \o SubSeq(Values', 1, index')
      BY DEF Given, Before
    <3>2. page' - 1 = n
      BY <1>1, <1>6
    <3> QED
      BY <1>3, <1>6, <2>2, <2>3, <3>1, <3>2 DEF Before
  <2>5. page' \in 1 .. PagesRead + 1
    BY <1>1, <1>6
  <2> QED
    BY <1>1, <1>2, <1>3, <1>6, <2>1, <2>4, <2>5 DEF ListingInv
<1>7. CASE ListFirst
  <2>1. CASE page' = 1 /\ lpc' = "loop"
    <3>1. index' = 0 /\ listed' = <<>>
      BY <1>7 DEF ListFirst, ListingInv
    <3>2. 0 \in 0 .. PagesRead /\ page' = 0 + 1
      BY <1>1, <2>1
    <3> QED
      BY <1>1, <1>6, <2>1, <3>1, <3>2
  <2>2. CASE lpc' = "failed"
    <3>1. listed' = Before(0)
      BY <1>1, <1>7 DEF ListFirst, ListingInv
    <3>2. IsPrefix(Before(0), Before(PagesRead))
      <4>1. PagesRead \in 0 .. Len(pages) /\ 0 \in 0 .. PagesRead
        BY <1>1
      <4> QED
        BY <1>1, <4>1, BeforeGrows
    <3>3. listed' \in Seq(Entries') /\ IsPrefix(listed', Before(PagesRead)')
      <4>1. Before(0) \in Seq(Entries) /\ Entries' = Entries
        BY <1>1, <1>3 DEF Entries
      <4> QED
        BY <1>3, <3>1, <3>2, <4>1
    <3> QED
      BY <1>1, <1>3, <1>2, <2>2, <3>3 DEF ListingInv
  <2> QED
    BY <1>7, <2>1, <2>2 DEF ListFirst
<1>8. CASE TakeValue
  <2>1. /\ lpc = "loop" /\ page \in 1 .. PagesRead + 1 /\ index \in Nat /\ listed = Given(index)
        /\ page' = page /\ index' = index /\ Values' = Values
    BY <1>8 DEF TakeValue, ListingInv, Values
  <2>2. CASE page \in 1 .. PagesRead
    <3>1. Values \in Seq(Entries) /\ index < Len(Values)
      BY <1>1, <1>4, <2>1, <2>2 DEF ListingInv
    <3>2. NotDone
      BY <2>1, <3>1 DEF NotDone
    <3>3. listed' = Append(listed, Values[index + 1]) /\ lpc' = "next"
      BY <1>8, <3>2 DEF TakeValue
    <3>4. Given(index + 1) = Append(Given(index), Values[index + 1])
      <4> DEFINE a == Before(page - 1)  v == Values
      <4>1. a \in Seq(Entries) /\ v \in Seq(Entries) /\ index < Len(v)
        BY <1>1, <2>2, <3>1
      <4> HIDE DEF a, v
      <4>2. SubSeq(v, 1, index + 1) = Append(SubSeq(v, 1, index), v[index + 1])
        BY <2>1, <4>1
      <4>3. SubSeq(v, 1, index) \in Seq(Entries) /\ v[index + 1] \in Entries
        BY <2>1, <4>1
      <4>4. a \o Append(SubSeq(v, 1, index), v[index + 1])
              = Append(a \o SubSeq(v, 1, index), v[index + 1])
        <5> DEFINE c == SubSeq(v, 1, index)  x == v[index + 1]
        <5>1. c \in Seq(Entries) /\ x \in Entries
          BY <4>3
        <5> HIDE DEF c, x
        <5>2. a \o Append(c, x) = Append(a \o c, x)
          BY <4>1, <5>1
        <5> QED
          BY <5>2 DEF c, x
      <4> QED
        BY <4>2, <4>4 DEF Given, a, v
    <3>5. Given(index + 1)' = Given(index + 1)
      BY <1>3, <2>1 DEF Given, Before
    <3>6. listed' = Given(index + 1)'
      BY <2>1, <3>3, <3>4, <3>5
    <3> QED
      BY <1>1, <1>2, <1>3, <2>1, <2>2, <3>1, <3>3, <3>6 DEF ListingInv
  <2>3. CASE page = PagesRead + 1
    <3>1. Values = <<>> /\ index = 0 /\ ~NotDone
      BY <1>1, <1>5, <2>1, <2>3 DEF ListingInv, NotDone
    <3>2. lpc' = "done" /\ listed' = listed
      BY <1>8, <3>1 DEF TakeValue
    <3>3. Given(0) = Before(PagesRead)
      <4>1. SubSeq(Values, 1, 0) = <<>> /\ page - 1 = PagesRead
        BY <1>1, <2>3, <3>1
      <4>2. Before(PagesRead) \in Seq(Entries)
        BY <1>1
      <4>3. Before(PagesRead) \o <<>> = Before(PagesRead)
        BY <4>2
      <4> QED
        BY <4>1, <4>3 DEF Given
    <3> QED
      BY <1>1, <1>2, <1>3, <2>1, <3>1, <3>2, <3>3 DEF ListingInv
  <2> QED
    BY <1>1, <2>1, <2>2, <2>3
<1>9. CASE NextValue
  <2>1. /\ page \in 1 .. PagesRead /\ index \in Nat /\ index < Len(Values)
        /\ listed = Given(index + 1) /\ listed' = listed
        /\ Values \in Seq(Entries)
    BY <1>4, <1>9 DEF NextValue, ListingInv
  <2>2. CASE index + 1 < Len(Values) /\ index' = index + 1 /\ lpc' = "loop" /\ UNCHANGED page
    <3>1. Values' = Values
      BY <1>3, <2>2 DEF Values
    <3>2. Given(index)' = Given(index + 1)
      <4>1. Given(index)' = Before(page - 1)' \o SubSeq(Values', 1, index')
        BY <2>2 DEF Given, Before
      <4>2. Before(page - 1)' = Before(page - 1)
        BY <1>3, <2>2 DEF Before
      <4> QED
        BY <2>2, <3>1, <4>1, <4>2 DEF Given
    <3>3. index' \in Nat /\ index' < Len(Values') /\ page' \in 1 .. PagesRead' + 1 /\ page' <= PagesRead'
      BY <1>1, <1>2, <2>1, <2>2, <3>1
    <3> QED
      BY <1>1, <1>2, <1>3, <2>1, <2>2, <3>2, <3>3 DEF ListingInv
  <2>3. CASE index + 1 >= Len(Values) /\ page' = page + 1 /\ index' = 0 /\ lpc' = "loop"
    <3>1. index + 1 = Len(Values)
      BY <2>1, <2>3
    <3>2. listed' = Before(page)
      BY <1>1, <2>1, <3>1, GivenBegins
    <3>3. page \in 0 .. PagesRead
      BY <1>1, <2>1
    <3> QED
      BY <1>6, <2>3, <3>2, <3>3
  <2>4. CASE lpc' = "retry" /\ UNCHANGED <<page, index>>
    <3>1. Values' = Values /\ Given(index + 1)' = Given(index + 1)
      BY <1>3, <2>4 DEF Values, Given, Before
    <3> QED
      BY <1>1, <1>2, <1>3, <2>1, <2>4, <3>1 DEF ListingInv
  <2> QED
    BY <1>9, <2>2, <2>3, <2>4 DEF NextValue
<1>10. CASE Retry
  <2>1. /\ page \in 1 .. PagesRead /\ index \in Nat /\ index < Len(Values)
        /\ listed = Given(index + 1) /\ UNCHANGED <<pages, page, index, listed>>
        /\ Values \in Seq(Entries) /\ Len(Values) \in Nat
    BY <1>4, <1>10 DEF Retry, ListingInv
  <2>2. NotDone
    BY <2>1 DEF NotDone
  <2>3. Values' = Values /\ Given(index + 1)' = Given(index + 1)
    BY <2>1 DEF Values, Given, Before
  <2>4. CASE lpc' = "failed"
    <3>1. index + 1 \in 0 .. Len(Values)
      BY <2>1
    <3>2. Given(index + 1) \in Seq(Entries) /\ IsPrefix(Given(index + 1), Before(PagesRead))
      BY <1>1, <2>1, <3>1, GivenBegins
    <3>3. listed' \in Seq(Entries') /\ IsPrefix(listed', Before(PagesRead)')
      <4>1. Entries' = Entries
        BY <1>3 DEF Entries
      <4> QED
        BY <1>3, <2>1, <3>2, <4>1
    <3> QED
      BY <1>1, <1>2, <1>3, <2>1, <2>4, <3>3 DEF ListingInv
  <2>5. CASE lpc' = "next"
    BY <1>1, <1>2, <1>3, <2>1, <2>3, <2>5 DEF ListingInv
  <2> QED
    BY <1>10, <2>2, <2>4, <2>5 DEF Retry
<1>11. CASE UNCHANGED listingVars
  <2>1. Values' = Values /\ Given(index)' = Given(index) /\ Given(index + 1)' = Given(index + 1)
    BY <1>11 DEF listingVars, Values, Given, Before
  <2>2. Entries' = Entries
    BY <1>3 DEF Entries
  <2> QED
    BY <1>2, <1>3, <1>11, <2>1, <2>2 DEF listingVars, ListingInv
<1> QED
  BY <1>7, <1>8, <1>9, <1>10, <1>11 DEF NextListing

\* The caller has had what the pages read begin with, and all of it at the end.
HadBefore ==
  /\ listed \in Seq(Entries)
  /\ IsPrefix(listed, Before(PagesRead))
  /\ lpc = "done" => listed = Before(PagesRead)

\* The invariant says so.
LEMMA ListingHadBefore == ListingInv => HadBefore
<1> SUFFICES ASSUME ListingInv PROVE HadBefore
  OBVIOUS
<1>2. /\ pages \in Listings /\ PagesRead \in Nat
      /\ Before(0) = <<>>
      /\ \A n \in 0 .. PagesRead : Before(n) \in Seq(Entries) /\ IsPrefix(Before(n), Before(PagesRead))
  <2>1. pages \in Listings /\ PagesRead \in 0 .. Len(pages) /\ Len(pages) \in Nat
    BY PagesReadFirst DEF ListingInv
  <2> QED
    BY <2>1, BeforeSteps, BeforeGrows
<1>3. CASE lpc = "list"
  BY <1>2, <1>3 DEF ListingInv, HadBefore
<1>4. CASE lpc = "loop"
  <2>1. CASE page \in 1 .. PagesRead
    <3>1. listed = Given(index) /\ index \in 0 .. Len(Values)
      <4>1. Values \in Seq(Entries)
        BY <1>2, <2>1, PagesReadFirst DEF Values
      <4> QED
        BY <1>2, <1>4, <2>1, <4>1 DEF ListingInv
    <3> QED
      BY <1>2, <1>4, <2>1, <3>1, GivenBegins DEF HadBefore
  <2>2. CASE page = PagesRead + 1
    <3>1. listed = Given(0) /\ page - 1 = PagesRead
      BY <1>2, <1>4, <2>2 DEF ListingInv
    <3>2. SubSeq(Values, 1, 0) = <<>>
      <4>1. Values = <<>>
        BY <1>2, <2>2, PagesReadFirst DEF Values
      <4> QED
        BY <4>1
    <3>3. Before(PagesRead) \o <<>> = Before(PagesRead)
      <4>1. Before(PagesRead) \in Seq(Entries)
        BY <1>2
      <4> QED
        BY <4>1
    <3>4. listed = Before(PagesRead)
      BY <3>1, <3>2, <3>3 DEF Given
    <3>5. IsPrefix(Before(PagesRead), Before(PagesRead))
      BY <1>2
    <3> QED
      BY <1>2, <1>4, <3>4, <3>5 DEF HadBefore
  <2> QED
    BY <1>2, <1>4, <2>1, <2>2 DEF ListingInv
<1>5. CASE lpc \in {"next", "retry"}
  <2>1. page \in 1 .. PagesRead /\ listed = Given(index + 1) /\ index + 1 \in 0 .. Len(Values)
    <3>1. page \in 1 .. PagesRead /\ index \in Nat /\ index < Len(Values) /\ listed = Given(index + 1)
      BY <1>5 DEF ListingInv
    <3>2. Values \in Seq(Entries)
      BY <1>2, <3>1, PagesReadFirst DEF Values
    <3> QED
      BY <3>1, <3>2
  <2> QED
    BY <1>2, <1>5, <2>1, GivenBegins DEF HadBefore
<1>6. CASE lpc \in {"done", "failed"}
  BY <1>2, <1>6 DEF ListingInv, HadBefore
<1> QED
  BY <1>3, <1>4, <1>5, <1>6 DEF ListingInv

\* What begins the pages read begins all of the pages.
LEMMA WholeBegins ==
  ASSUME pages \in Listings, IsPrefix(listed, Before(PagesRead)), listed \in Seq(Entries)
  PROVE  IsPrefix(listed, FlattenSeq(pages))
<1> DEFINE some == Before(PagesRead)  all == Before(Len(pages))
<1>1. pages \in Seq(Seq(Entries)) /\ PagesRead \in 0 .. Len(pages) /\ Len(pages) \in Nat
  BY PagesReadFirst
<1>2. FlattenSeq(pages) = all
  <2>1. SubSeq(pages, 1, Len(pages)) = pages
    BY <1>1
  <2> QED
    BY <2>1 DEF Before
<1>3. some \in Seq(Entries) /\ all \in Seq(Entries)
  BY <1>1, BeforeSteps
<1>4. IsPrefix(some, all)
  BY <1>1, BeforeGrows
<1>5. IsPrefix(listed, some)
  OBVIOUS
<1> HIDE DEF some, all
<1>6. /\ Len(listed) <= Len(some) /\ \A i \in 1 .. Len(listed) : listed[i] = some[i]
      /\ Len(some) <= Len(all) /\ \A i \in 1 .. Len(some) : some[i] = all[i]
  BY <1>3, <1>4, <1>5, PrefixIs
<1>7. Len(listed) <= Len(all) /\ \A i \in 1 .. Len(listed) : listed[i] = all[i]
  <2>1. Len(listed) \in Nat /\ Len(some) \in Nat /\ Len(all) \in Nat
    BY <1>3
  <2> QED
    BY <1>6, <2>1
<1> QED
  BY <1>2, <1>3, <1>7, PrefixIs

\* Whatever page cannot be fetched and however often the caller goes on, no
\* value is listed twice, skipped or out of order; and a caller that gets to
\* the end has had every value but those behind an empty page.
THEOREM ListingOnce == ListingSpec => []ListedOnce
<1>1. InitListing => ListingInv
  BY DEF InitListing, ListingInv
<1>2. ListingInv => ListedOnce
  <2> SUFFICES ASSUME ListingInv PROVE ListedOnce
    OBVIOUS
  <2>1. /\ pages \in Listings /\ PagesRead \in 0 .. Len(pages) /\ Len(pages) \in Nat
        /\ PagesRead + 1 \in DOMAIN pages => pages[PagesRead + 1] = <<>>
        /\ pages \in Seq(Seq(Entries))
    BY PagesReadFirst DEF ListingInv
  <2>2. HadBefore
    BY ListingHadBefore
  <2>3. IsPrefix(listed, FlattenSeq(pages))
    BY <2>1, <2>2, WholeBegins DEF HadBefore
  <2>4. lpc = "done" => /\ listed = FlattenSeq(SubSeq(pages, 1, PagesRead))
                        /\ PagesRead < Len(pages) => pages[PagesRead + 1] = <<>>
    BY <2>1, <2>2 DEF HadBefore, Before
  <2> QED
    BY <2>1, <2>3, <2>4 DEF ListedOnce
<1> QED
  BY <1>1, <1>2, NextKeepsListing, PTL DEF ListingSpec
=============================================================================
