---------------------------- MODULE GlobalConfig -----------------------------
(***************************************************************************)
(* The runs of draft that work on the developer's files, and what every    *)
(* one of them begins with: ReadConfig of $DRAFT_HOME/config.toml          *)
(* (PersistentPreRunE of cmd/draft/draft.go).  `draft config set` and      *)
(* `unset` (cmd/draft/config*.go) change the map that was read and write   *)
(* it back: SaveConfig truncates the file, then encodes.                   *)
(*                                                                         *)
(* A setting is here or not; what it is set to is left out.  There is no   *)
(* lock, and a run may be killed at any step.                              *)
(***************************************************************************)
EXTENDS Naturals, FiniteSets

CONSTANTS
  Procs,        \* the terminals that draft is run in
  MaxCommands,  \* bound: the commands run in all
  Agendas,      \* bound: the sets of commands to try together: [op, item, version]
  Keys          \* the keys of the configuration

Ops == {"init", "install", "remove", "update", "set", "unset", "create"}

ASSUME CommandsAssumption ==
  /\ MaxCommands \in Nat
  /\ \A cmds \in Agendas : \A cmd \in cmds :
       /\ cmd = [op |-> cmd.op, item |-> cmd.item, version |-> cmd.version]
       /\ cmd.op \in Ops
       /\ cmd.op \in {"set", "unset"} => cmd.item \in Keys
  /\ Keys \intersect {"no_file", "garbled"} = {}

VARIABLES
  agenda,       \* the commands tried in this behaviour
  homeDir,      \* $DRAFT_HOME and its directories are there
  config,       \* config.toml: NoFile, Garbled or the set of its keys
  acked,        \* history: key |-> what its last successful command did, or "unknown"
  begun,        \* the commands begun so far
  proc          \* terminal |-> the run of draft in it

configVars == <<agenda, homeDir, config, acked>>
procVars   == <<begun, proc>>

\* Sets that are no set of keys.
NoFile  == {"no_file"}
Garbled == {"garbled"}

Over == {"ok", "failed", "fault", "killed"}

\* A run: the command, the next step or how it ended, what ReadConfig gave, the
\* item and version at work on, whether the pack-repo command is loaded; and
\* for the properties, whether another has written the configuration since it
\* was read, and whether it ran alone.
NoRun ==
  [cmd |-> [op |-> "none", item |-> "", version |-> ""], pc |-> "ok", read |-> {},
   item |-> "", version |-> "", loaded |-> FALSE,
   stale |-> FALSE, alone |-> TRUE]

InitConfig ==
  /\ agenda \in Agendas
  /\ homeDir \in BOOLEAN
  /\ config = IF homeDir THEN {} ELSE NoFile
  /\ acked = [k \in Keys |-> "unknown"]
  /\ begun = 0
  /\ proc = [p \in Procs |-> NoRun]

At(p, step) == proc[p].pc = step
Op(p) == proc[p].cmd.op

\* A run goes on, or ends: with success, on an error of its own, or because a
\* call fails: of the disk, the network or a hook.
RunAt(p, step) == IF step \in Over THEN [NoRun EXCEPT !.pc = step] ELSE [proc[p] EXCEPT !.pc = step]
Goto(p, step) == proc' = [proc EXCEPT ![p] = RunAt(p, step)] /\ UNCHANGED begun
Fail(p) == Goto(p, "failed")
Succeed(p) == Goto(p, "ok")
Fault(p) == Goto(p, "fault")

Running(p) == proc[p].pc \notin Over

\* The command begins, with whether the pack-repo plugin was there to load.
\* ReadConfig of a missing file is no error.
BeginRun(p, cmd, first, loaded) ==
  /\ ~Running(p) /\ begun < MaxCommands
  /\ begun' = begun + 1
  /\ LET others == {q \in Procs \ {p} : Running(q)}
         run == [NoRun EXCEPT !.cmd = cmd, !.read = config, !.item = cmd.item,
                              !.version = cmd.version, !.loaded = loaded,
                              !.alone = (others = {}),
                              !.pc = IF config = Garbled THEN "failed" ELSE first]
     IN  proc' = [q \in Procs |-> IF q = p THEN run
                                  ELSE IF q \in others THEN [proc[q] EXCEPT !.alone = FALSE]
                                  ELSE proc[q]]

-----------------------------------------------------------------------------
(* config set and config unset.                                            *)

\* The others that have read the configuration have read an old one now.
GotoOthersStale(p, step) ==
  /\ proc' = [q \in Procs |-> IF q = p THEN RunAt(p, step)
                              ELSE [proc[q] EXCEPT !.stale = Running(q)]]
  /\ UNCHANGED begun

Forget == [k \in Keys |-> "unknown"]

\* The file is left as a save that broke off left it: no key has come back.
CutOff == [k \in Keys |-> IF acked[k] = "set" THEN "unknown" ELSE acked[k]]

\* The run has written back what it had read.  If another has written since, the
\* keys that it had read otherwise are as they were; no other key is lost.
WrittenBack(p) ==
  [k \in Keys |->
     IF k = proc[p].item THEN Op(p)
     ELSE IF proc[p].stale /\ ~(acked[k] = "set" <=> k \in proc[p].read) THEN "unknown"
     ELSE acked[k]]

\* globalConfig after the command: nil is an error for set, and empty for unset.
Changed(p) ==
  LET read == IF proc[p].read = NoFile THEN {} ELSE proc[p].read
  IN  IF Op(p) = "set" THEN read \union {proc[p].item} ELSE read \ {proc[p].item}

\* SaveConfig, first half: the file is opened and truncated.
Truncate(p) ==
  /\ At(p, "truncate")
  /\ \/ /\ (Op(p) = "set" /\ proc[p].read = NoFile) \/ ~homeDir
        /\ Fail(p) /\ UNCHANGED config
     \/ Fault(p) /\ UNCHANGED config
     \/ /\ ~(Op(p) = "set" /\ proc[p].read = NoFile) /\ homeDir
        /\ config' = {}
        /\ GotoOthersStale(p, "encode")
  /\ UNCHANGED <<agenda, homeDir, acked>>

\* A mutant of Encode: the one key is written, and not the map.
EncodeTheKeyOnly(p) ==
  /\ At(p, "encode")
  /\ config' = Changed(p) \intersect {proc[p].item}
  /\ acked' = WrittenBack(p)
  /\ GotoOthersStale(p, "ok")
  /\ UNCHANGED <<agenda, homeDir>>

\* Second half: the map is written.  Over what another has written since it is
\* the new one, with or without a rest of the other.
Encode(p) ==
  /\ At(p, "encode")
  /\ \/ /\ config' = Changed(p)
        /\ acked' = WrittenBack(p)
        /\ GotoOthersStale(p, "ok")
     \/ /\ config \notin {{}, NoFile}
        /\ config' = Garbled /\ acked' = Forget
        /\ GotoOthersStale(p, "ok")
     \/ Fault(p) /\ acked' = CutOff /\ UNCHANGED config
  /\ UNCHANGED <<agenda, homeDir>>

\* The process is killed; in the middle of its save, the file stays empty.
Kill(p) ==
  /\ Running(p)
  /\ acked' = IF At(p, "encode") THEN CutOff ELSE acked
  /\ Goto(p, "killed")
  /\ UNCHANGED <<agenda, homeDir, config>>

ConfigStep(p) == Truncate(p) \/ Encode(p)

-----------------------------------------------------------------------------
\* What a successful command set is in the file when no save is under way, and
\* what one unset is in it at no time, whatever ran in between and however runs
\* ended; but a save that broke off may lose what was set, and a run that saves
\* over what another has written since it read takes back those keys, and those
\* alone, that it had read otherwise.  (Of two saves at once, the rest of the
\* one under the other may leave a file that cannot be read.)
SettingsKept ==
  /\ \A k \in Keys : acked[k] = "unset" => config # Garbled /\ k \notin config
  /\ (\A p \in Procs : ~At(p, "encode")) => \A k \in Keys : acked[k] = "set" => k \in config
=============================================================================
