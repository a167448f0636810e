------------------------------ MODULE Environments ------------------------------
(***************************************************************************)
(* The configuration file of the CLI: config.py, and the commands init, env set,  *)
(* env edit, env delete and config set, which load it, check and change what they   *)
(* loaded, and save all of it. Nothing locks the file, a save truncates it before    *)
(* it writes, and each command is a process of its own that may die.               *)
(***************************************************************************)
EXTENDS Naturals, FiniteSets

CONSTANTS
  Processes,   \* commands in progress at the same time
  Envs,        \* VALID_ENVS
  Local,       \* the environment that is active when the file names none
  Fields,      \* mode, database_url, api_base_url
  Values,      \* what a field may hold
  MaxCommands  \* bound: commands that come

ASSUME LocalAssumption == Local \in Envs

VARIABLES
  file,        \* the file
  cmd,         \* cmd[p]: what the command in process p is about to save
  acked,       \* history: what the commands that succeeded have said, each of its own part
  commands,    \* commands that have come
  overlapped,  \* history: two commands have been in progress at the same time
  died,        \* history: a command has died in the middle of a save
  forced       \* history: environments that `config set env` has made active

history == <<commands, overlapped, died, forced>>
vars == <<file, cmd, acked, history>>

-----------------------------------------------------------------------------

Absent == "absent"

ASSUME FieldsAssumption == Fields # {} /\ Absent \notin Values

Unset == "unset"

Configs == [Fields -> Values \cup {Absent}]

\* The content of the file: the active environment and the configured ones.
Contents == [env : Envs \cup {Unset}, environments : [Envs -> Configs]]

NotConfigured == [f \in Fields |-> Absent]

\* An absent file is loaded as {}.
Empty == [env |-> Unset, environments |-> [n \in Envs |-> NotConfigured]]

Configured(c, n) == c.environments[n] # NotConfigured

\* get_active_env.
Active(c) == IF c.env = Unset THEN Local ELSE c.env

Updated(config, updates) ==
  [f \in Fields |-> IF updates[f] = Absent THEN config[f] ELSE updates[f]]

\* at: "idle", "open" before the file is opened to be written, "write" before it is written;
\* named: the environments the command is about; active: whether it sets the active one.
Idle == [at |-> "idle", new |-> Empty, named |-> {}, active |-> FALSE]

Save(new, named, active) == [at |-> "open", new |-> new, named |-> named, active |-> active]

Init ==
  /\ file = [is |-> "missing", content |-> Empty]
  /\ cmd = [p \in Processes |-> Idle]
  /\ acked = Empty
  /\ commands = 0
  /\ overlapped = FALSE
  /\ died = FALSE
  /\ forced = {}

-----------------------------------------------------------------------------
(* The commands load the file, check, and ask the user what they need to ask. A     *)
(* command that finds the file unreadable, or is refused, changes nothing.          *)

Loads(p) ==
  /\ cmd[p].at = "idle"
  /\ commands < MaxCommands
  /\ file.is \in {"missing", "readable"}
  /\ commands' = commands + 1
  /\ overlapped' = (overlapped \/ \E q \in Processes : cmd[q].at # "idle")
  /\ UNCHANGED <<file, acked, died>>

Loaded == file.content

Saves(p, s) == cmd' = [cmd EXCEPT ![p] = s]

Changes(config, n) == [Loaded EXCEPT !.environments[n] = config]

\* Mutated form: an environment that is not configured can be made active.
EnvSet_Unchecked(p, n) ==
  /\ Loads(p)
  /\ Saves(p, Save([Loaded EXCEPT !.env = n], {}, TRUE))
  /\ UNCHANGED forced

\* env set.
EnvSet(p, n) ==
  /\ Loads(p)
  /\ Configured(Loaded, n)
  /\ Saves(p, Save([Loaded EXCEPT !.env = n], {}, TRUE))
  /\ UNCHANGED forced

\* env edit.
EnvEdit(p, n, updates) ==
  /\ Loads(p)
  /\ Configured(Loaded, n)
  /\ updates # NotConfigured
  /\ Saves(p, Save(Changes(Updated(Loaded.environments[n], updates), n), {n}, FALSE))
  /\ UNCHANGED forced

\* env delete, which was confirmed.
EnvDelete(p, n) ==
  /\ Loads(p)
  /\ n # Active(Loaded)
  /\ Configured(Loaded, n)
  /\ Saves(p, Save(Changes(NotConfigured, n), {n}, FALSE))
  /\ UNCHANGED forced

\* The first of the environments to initialize, when local is not among them all.
Chosen(c, S) == IF Configured(c, Local) THEN Local ELSE CHOOSE n \in S : S = {n}

\* Mutated form: only the environments that are initialized are kept.
Initialized_Fresh(S, answers) == [n \in Envs |-> IF n \in S THEN answers[n] ELSE NotConfigured]

\* init prompts for the environments in S; one that is configured may be left as it is.
Initialized(S, answers) ==
  [n \in Envs |-> IF n \in S THEN answers[n] ELSE Loaded.environments[n]]

\* init, of one environment or of all; what it is to overwrite has been confirmed. Which
\* fields it asks for depends on the environment.
InitCommand(p, S, answers) ==
  LET c == [Loaded EXCEPT !.environments = Initialized(S, answers)]
      kept == {n \in S : Configured(Loaded, n) /\ answers[n] = Loaded.environments[n]}
  IN
  /\ Loads(p)
  /\ \A n \in S : answers[n] # NotConfigured
  /\ Saves(p, IF Loaded.env = Unset THEN Save([c EXCEPT !.env = Chosen(c, S)], S \ kept, TRUE)
                                    ELSE Save(c, S \ kept, FALSE))
  /\ UNCHANGED forced

\* config set env: whether the environment is configured is not looked at.
ConfigSetEnv(p, n) ==
  /\ Loads(p)
  /\ Saves(p, Save([Loaded EXCEPT !.env = n], {}, TRUE))
  /\ forced' = forced \cup {n}

\* config set environments.<n>.<f>: what is not there is made.
ConfigSetField(p, n, f, v) ==
  /\ Loads(p)
  /\ Saves(p, Save(Changes([Loaded.environments[n] EXCEPT ![f] = v], n), {n}, FALSE))
  /\ UNCHANGED forced

-----------------------------------------------------------------------------
(* save_config: write_text opens the file, which truncates it, and writes.          *)

\* Mutated form: the file is opened as it is.
Open_Keep(p) ==
  /\ cmd[p].at = "open"
  /\ cmd' = [cmd EXCEPT ![p].at = "write"]
  /\ UNCHANGED <<file, acked, history>>

Open(p) ==
  /\ cmd[p].at = "open"
  /\ file' = [is |-> "empty", content |-> Empty]
  /\ cmd' = [cmd EXCEPT ![p].at = "write"]
  /\ UNCHANGED <<acked, history>>

\* What p says it has done.
Acknowledged(p) ==
  [env |-> IF cmd[p].active THEN cmd[p].new.env ELSE acked.env,
   environments |-> [n \in Envs |-> IF n \in cmd[p].named THEN cmd[p].new.environments[n]
                                                          ELSE acked.environments[n]]]

\* If another command has written since p opened the file, and more, its end stays.
Write(p) ==
  /\ cmd[p].at = "write"
  /\ \/ file' = [is |-> "readable", content |-> cmd[p].new]
     \/ file.is # "empty" /\ file' = [is |-> "mixed", content |-> Empty]
  /\ acked' = Acknowledged(p)
  /\ cmd' = [cmd EXCEPT ![p] = Idle]
  /\ UNCHANGED history

\* A command that dies, or whose user gives up, before it has saved.
Die(p) ==
  /\ cmd[p].at # "idle"
  /\ cmd' = [cmd EXCEPT ![p] = Idle]
  /\ died' = (died \/ cmd[p].at = "write")
  /\ UNCHANGED <<file, acked, commands, overlapped, forced>>

-----------------------------------------------------------------------------

Command(p) ==
  \/ \E n \in Envs :
       \/ EnvSet(p, n) \/ EnvDelete(p, n) \/ ConfigSetEnv(p, n)
       \/ \E u \in Configs : EnvEdit(p, n, u)
       \/ \E f \in Fields, v \in Values : ConfigSetField(p, n, f, v)
  \/ \E S \in {{n} : n \in Envs} \cup {Envs}, answers \in [Envs -> Configs] :
       (\A n \in Envs \ S : answers[n] = NotConfigured) /\ InitCommand(p, S, answers)

Next == \E p \in Processes : Command(p) \/ Open(p) \/ Write(p) \/ Die(p)

Spec == Init /\ [][Next]_vars

-----------------------------------------------------------------------------
(* Properties.                                                              *)

Files ==
  [is : {"missing", "empty", "mixed", "readable"}, content : Contents]

Commands ==
  [at : {"idle", "open", "write"}, new : Contents, named : SUBSET Envs, active : BOOLEAN]

TypeOK ==
  /\ file \in Files
  /\ cmd \in [Processes -> Commands]
  /\ acked \in Contents
  /\ commands \in Nat
  /\ overlapped \in BOOLEAN /\ died \in BOOLEAN
  /\ forced \subseteq Envs

\* The active environment is configured, also when commands overlap and overwrite each
\* other's changes: "Switching to unconfigured env is refused", "Deleting the active env
\* is refused". Only `config set env` asks for nothing.
ActiveConfigured ==
  LET active == file.content.env IN
  active # Unset => active \in forced \/ Configured(file.content, active)

\* Commands that do not overlap lose nothing: the file is what the commands that
\* succeeded have said, each of the environments it is about.
AcknowledgedKept ==
  ~overlapped /\ file.is \in {"missing", "readable"} => file.content = acked

\* The file is unreadable only while it is saved, or because a save was cut off or two
\* commands overlapped. Then every command fails, init too: nothing repairs it.
UnreadableExplained ==
  file.is \in {"empty", "mixed"} =>
    overlapped \/ died \/ \E p \in Processes : cmd[p].at = "write"

=================================================================================
