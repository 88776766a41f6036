--------------------------- MODULE MCLocalMachine ----------------------------
(* What runs on the developer's machine by itself: the sessions of draft   *)
(* connect, the watcher, a call and a listing of the registry's client,    *)
(* and the training of the classifier.  They share nothing, so that a      *)
(* behaviour is one of one of them, and the others stay as they began.     *)
EXTENDS ConnectSession, Watcher, RegistryClient, PagedListing, ClassifierTraining,
        RegistryWire

Twins == {"s1", "s2"}
TwoContainers == <<[name |-> "web", ports |-> <<80>>], [name |-> "side", ports |-> <<90>>]>>

Start(m, t, o) == [mode |-> m, target |-> t, overrides |-> o]
Pair(a, b) == [s \in Twins |-> IF s = "s1" THEN a ELSE b]
Override(l, r) == [kind |-> "pair", local |-> l, remote |-> r]
Malformed(k) == [kind |-> k, local |-> 0, remote |-> 0]

SomeStarts ==
  { Pair(Start("plain", "web", <<Override(1, 80)>>),
         Start("export", "", <<Override(2, 80), Override(0, 90)>>)),
    Pair(Start("plain", "", <<>>), Start("plain", "side", <<Override(1, 90)>>)),
    Pair(Start("dry_run", "", <<Override(1, 80), Override(1, 90)>>), Start("export", "unknown", <<>>)),
    Pair(Start("dry_run", "", <<>>), Start("plain", "", <<Override(1, 80), Override(2, 80)>>)),
    Pair(Start("plain", "unknown", <<Override(1, 80), Malformed("no_number")>>),
         Start("plain", "side", <<Malformed("no_colon"), Malformed("no_number")>>)) }

SomeListings ==
  { << <<1, 2>>, <<3>>, <<4, 5>> >>, << <<1>>, <<>>, <<2>> >>, << <<>> >> }

-----------------------------------------------------------------------------
(* What the values of the client keep on the wire.                         *)

BaseOf(members, tag) == CHOOSE m \in members : m.tag = tag

Kept(members, base) ==
  \A v \in ValuesOf(members, {"", "Docker", "anything"}) :
    Unmarshal(Marshal(v), members, BaseOf(members, base)) = [v EXCEPT !.type = v.member.tag]

\* The properties of a step are read as they were written, whatever Type the
\* caller had put there.
ASSUME UnionsKept ==
  /\ Kept(StepMembers, "BuildStepProperties")
  /\ Kept(StepUpdateMembers, "BuildStepPropertiesUpdateParameters")

\* Of the others every field comes back, and one that was nil is nil again;
\* but an update of a step's tags says that its properties are null, one of a
\* task's tags does not mention them.
ASSUME FieldsKept ==
  /\ \A fields \in {BuildFields, BuildTaskFields, BuildTaskUpdateParametersFields} :
       \A given \in SUBSET fields : Read(Written(given), fields) = given
  /\ \A fields \in {BuildStepFields, BuildStepUpdateParametersFields} :
       \A given \in SUBSET fields : Read(WrittenWithUnion(given), fields) = given
  /\ Written({"tags"}).null = {} /\ WrittenWithUnion({"tags"}).null = {"properties"}

\* A value of a union is exactly one of its members, and a step of a kind that
\* the client does not know loses its kind when it is written back.
ASSUME UnionsAreExact ==
  /\ \A v \in ValuesOf(RequestMembers, {""}) :
       Cardinality({m \in RequestMembers : As(v, m.tag)}) = 1
  /\ LET unknown == [names |-> {"image", "provisioningState"}, type |-> "Buildpack"]
         step == Unmarshal(unknown, StepMembers, BaseOf(StepMembers, "BuildStepProperties"))
     IN  Marshal(step) = [names |-> {"provisioningState"}, type |-> "BuildStepProperties"]

\* Create refuses a task without the fields that it needs, or with a time-out
\* out of range; it does not miss the
\* properties when there are none.
ASSUME TasksValidated ==
  /\ ValidTask({}, 0) /\ ~ValidTask({"properties"}, 0)
  /\ LET full == {"properties", "alias", "platform", "sourceRepository", "repositoryUrl"} IN
       /\ ValidTask(full, 0)
       /\ \A t \in {299, 300, 28800, 28801} :
            ValidTask(full \union {"timeout"}, t) <=> t \in 300 .. 28800
       /\ ~ValidTask(full \union {"sourceControlAuth"}, 0)

\* Every long-running operation has one future, and every listing one kind of
\* page.  QueueBuild alone has a result that its own URL cannot be asked for.
ASSUME FuturesMatch ==
  /\ \A o \in Operations :
       /\ (o.answer = "future") <=> Cardinality({f \in Futures : f.operation = o}) = 1
       /\ (o.answer = "paged") <=> Cardinality({p \in Pages : p.operation = o}) = 1
  /\ {f.operation : f \in {g \in Futures : g.value # "none" /\ ~Readable(g.operation)}} = {QueueBuild}

\* A name of the characters allowed is refused by its length alone.
ASSUME NamesValidated ==
  {n \in 0 .. 60 : ValidName(n, TRUE)} = 5 .. 50 /\ ~\E n \in 0 .. 60 : ValidName(n, FALSE)

-----------------------------------------------------------------------------

VARIABLE subject

allVars == <<connectVars, watchVars, clientVars, listingVars, trainingVars, subject>>

\* One initial state is enough of what is not the subject.
Init ==
  /\ subject \in {"connect", "watch", "client", "listing", "training"}
  /\ InitConnect /\ InitWatch /\ InitClient /\ InitListing /\ InitTraining
  /\ subject # "connect" => config = CHOOSE c \in Starts : TRUE
  /\ subject # "connect" => \A p \in Pods : pods[p].ready
  /\ subject # "client" => op = QueueBuild /\ item = "old"
  /\ subject # "listing" => pages = CHOOSE p \in Listings : TRUE

Next ==
  \/ /\ subject = "connect" /\ NextConnect
     /\ UNCHANGED <<watchVars, clientVars, listingVars, trainingVars, subject>>
  \/ /\ subject = "watch" /\ NextWatch
     /\ UNCHANGED <<connectVars, clientVars, listingVars, trainingVars, subject>>
  \/ /\ subject = "client" /\ NextClient
     /\ UNCHANGED <<connectVars, watchVars, listingVars, trainingVars, subject>>
  \/ /\ subject = "listing" /\ NextListing
     /\ UNCHANGED <<connectVars, watchVars, clientVars, trainingVars, subject>>
  \/ /\ subject = "training" /\ NextTraining
     /\ UNCHANGED <<connectVars, watchVars, clientVars, listingVars, subject>>

Connecting == subject = "connect"
Watching == subject = "watch"
Training == subject = "training"

\* Each goroutine of a session goes on, and GetPod's timer runs; nothing obliges
\* a pod to be ready.  The watcher's goroutines go on, as does the receiver of
\* its stream while it is there; and the goroutines of the training.
FairSpec ==
  /\ Init /\ [][Next]_allVars
  /\ \A s \in Sessions :
       /\ WF_connectVars(Connecting /\ InformerStep(s))
       /\ WF_connectVars(Connecting /\ MainStep(s))
       /\ WF_connectVars(Connecting /\ SignalTaken(s))
  /\ WF_watchVars(Watching /\ RelayTakes)
  /\ WF_watchVars(Watching /\ EventReceived)
  /\ WF_watchVars(Watching /\ Loaded)
  /\ WF_watchVars(Watching /\ StreamSent)
  /\ WF_watchVars(Watching /\ WatchCancelled)
  /\ WF_trainingVars(Training /\ (Dispatch \/ Dispatched \/ Trained))
  /\ \A w \in Workers :
       WF_trainingVars(Training /\ (WorkerTakes(w) \/ Tokenized(w) \/ Completed(w)))
=============================================================================
