--------------------------- MODULE EnvironmentsProofs ---------------------------
(***************************************************************************)
(* The properties of Environments, for any environments, fields and values and    *)
(* any number of commands. All commands save what they loaded with a change: a      *)
(* lemma says what every change has in common, and the invariants use nothing else.  *)
(***************************************************************************)
EXTENDS Environments, TLAPS

\* The active environment of c is configured, or in F.
Sound(c, F) == c.env # Unset => c.env \in F \/ Configured(c, c.env)

\* What s saves differs from what was loaded in the part it names.
Changed(s) ==
  /\ s.active \/ s.new.env = Loaded.env
  /\ \A n \in Envs \ s.named : s.new.environments[n] = Loaded.environments[n]

\* Each save is sound by itself, so it makes no difference in which order they land.
SavesSound == Sound(file.content, forced) /\ \A p \in Processes : Sound(cmd[p].new, forced)

\* Commands that do not overlap: one at a time, its file is as it left it, and what it
\* saves is what it will acknowledge.
OneAtATime ==
  ~overlapped =>
    /\ \A p, q \in Processes : cmd[p].at # "idle" /\ cmd[q].at # "idle" => p = q
    /\ \A p \in Processes : cmd[p].at = "write" => file.is = "empty"
    /\ \A p \in Processes : cmd[p].at # "idle" => cmd[p].new = Acknowledged(p)

EnvInv ==
  TypeOK /\ SavesSound /\ OneAtATime /\ AcknowledgedKept /\ UnreadableExplained

-----------------------------------------------------------------------------
(* Lemmas about contents.                                                     *)

LEMMA EmptyTyped == Empty \in Contents /\ NotConfigured \in Configs
BY DEF Empty, Contents, NotConfigured, Configs

\* A configuration with a field is one.
LEMMA FieldConfigures ==
  ASSUME NEW c \in Configs, NEW f \in Fields, c[f] # Absent
  PROVE  c # NotConfigured
BY DEF NotConfigured

LEMMA HasField ==
  ASSUME NEW c \in Configs, c # NotConfigured
  PROVE  \E f \in Fields : c[f] # Absent
BY DEF NotConfigured, Configs

LEMMA UpdatedConfigures ==
  ASSUME NEW c \in Configs, c # NotConfigured, NEW u \in Configs
  PROVE  Updated(c, u) \in Configs /\ Updated(c, u) # NotConfigured
<1>1. Updated(c, u) \in Configs
  BY DEF Updated, Configs
<1>2. PICK f \in Fields : c[f] # Absent
  BY HasField
<1>3. Updated(c, u)[f] # Absent
  BY <1>2 DEF Updated
<1> QED BY <1>1, <1>3, FieldConfigures

LEMMA FieldSet ==
  ASSUME NEW c \in Configs, NEW f \in Fields, NEW v \in Values
  PROVE  [c EXCEPT ![f] = v] \in Configs /\ [c EXCEPT ![f] = v] # NotConfigured
<1>1. [c EXCEPT ![f] = v] \in Configs /\ [c EXCEPT ![f] = v][f] = v
  BY DEF Configs
<1> QED BY <1>1, FieldConfigures, FieldsAssumption

\* What changes one environment, and what that means for the active one.
LEMMA ChangesOne ==
  ASSUME TypeOK, Sound(Loaded, forced), NEW n \in Envs, NEW c \in Configs,
         c # NotConfigured \/ n # Active(Loaded)
  PROVE  /\ Changes(c, n) \in Contents
         /\ Sound(Changes(c, n), forced)
         /\ Changes(c, n).env = Loaded.env
         /\ \A m \in Envs \ {n} : Changes(c, n).environments[m] = Loaded.environments[m]
<1> USE DEF Changes
<1>1. Loaded \in Contents
  BY DEF TypeOK, Files, Loaded
<1>2. /\ Changes(c, n) \in Contents
      /\ Changes(c, n).env = Loaded.env
      /\ Changes(c, n).environments[n] = c
      /\ \A m \in Envs \ {n} : Changes(c, n).environments[m] = Loaded.environments[m]
  BY <1>1 DEF Contents
<1>3. Sound(Changes(c, n), forced)
  BY <1>1, <1>2 DEF Sound, Configured, Active, Contents
<1> QED BY <1>2, <1>3

LEMMA MakesActive ==
  ASSUME TypeOK, NEW n \in Envs
  PROVE  LET c == [Loaded EXCEPT !.env = n] IN
         /\ c \in Contents /\ c.env = n
         /\ c.environments = Loaded.environments
<1>1. Loaded \in Contents
  BY DEF TypeOK, Files, Loaded
<1> QED BY <1>1 DEF Contents

-----------------------------------------------------------------------------
(* What the commands have in common.                                          *)

Common(p) ==
  /\ Loads(p)
  /\ forced \subseteq forced' /\ forced' \subseteq Envs
  /\ \E s \in Commands : Saves(p, s) /\ s.at = "open" /\ Sound(s.new, forced') /\ Changed(s)

LEMMA SaveCommon ==
  ASSUME NEW p \in Processes, NEW c \in Contents, NEW N \in SUBSET Envs, NEW b \in BOOLEAN,
         Loads(p), Saves(p, Save(c, N, b)), forced \subseteq forced', forced' \subseteq Envs,
         Sound(c, forced'), b \/ c.env = Loaded.env,
         \A n \in Envs \ N : c.environments[n] = Loaded.environments[n]
  PROVE  Common(p)
<1> DEFINE s == Save(c, N, b)
<1>1. /\ s \in Commands /\ s.at = "open"
      /\ s.new = c /\ s.named = N /\ s.active = b
  BY DEF Save, Commands
<1>2. Saves(p, s)
  OBVIOUS
<1> HIDE DEF s
<1>3. Sound(s.new, forced') /\ Changed(s)
  BY <1>1 DEF Changed
<1> QED BY <1>1, <1>2, <1>3 DEF Common

LEMMA InitSaves ==
  ASSUME TypeOK, SavesSound, NEW p \in Processes,
         NEW S \in {{n} : n \in Envs} \cup {Envs}, NEW answers \in [Envs -> Configs],
         InitCommand(p, S, answers)
  PROVE  Common(p)
<1> DEFINE c == [Loaded EXCEPT !.environments = Initialized(S, answers)]
           kept == {n \in S : Configured(Loaded, n) /\ answers[n] = Loaded.environments[n]}
           s == IF Loaded.env = Unset THEN Save([c EXCEPT !.env = Chosen(c, S)], S \ kept, TRUE)
                                      ELSE Save(c, S \ kept, FALSE)
<1>1. Loaded \in Contents /\ S \subseteq Envs /\ kept \subseteq S
  BY DEF TypeOK, Files, Loaded
<1>2. c \in Contents /\ c.env = Loaded.env /\ c.environments = Initialized(S, answers)
  BY <1>1 DEF Contents, Initialized
<1>3. /\ \A n \in Envs \ S : c.environments[n] = Loaded.environments[n]
      /\ \A n \in S : c.environments[n] = answers[n]
  BY <1>1, <1>2 DEF Initialized
<1>4. \A n \in Envs \ (S \ kept) : c.environments[n] = Loaded.environments[n]
  BY <1>1, <1>3
<1>5. ASSUME NEW n \in S PROVE Configured(c, n)
  <2>1. answers[n] # NotConfigured
    BY DEF InitCommand
  <2> QED BY <1>3, <2>1 DEF Configured
<1>6. ASSUME Loaded.env = Unset
      PROVE  Chosen(c, S) \in Envs /\ Configured(c, Chosen(c, S))
  <2>1. CASE Configured(c, Local)
    BY <2>1, LocalAssumption DEF Chosen
  <2>2. CASE ~Configured(c, Local)
    <3>1. PICK n \in Envs : S = {n}
      BY <1>5, <2>2, LocalAssumption
    <3>2. Chosen(c, S) = n
      BY <2>2, <3>1 DEF Chosen
    <3> QED BY <1>5, <3>1, <3>2
  <2> QED BY <2>1, <2>2
<1>7. Saves(p, s) /\ Loads(p) /\ forced' = forced /\ forced \subseteq Envs
  BY DEF InitCommand, TypeOK
<1>8. CASE Loaded.env = Unset
  <2> DEFINE d == [c EXCEPT !.env = Chosen(c, S)]
  <2>1. d \in Contents /\ d.env = Chosen(c, S) /\ d.environments = c.environments
    BY <1>2, <1>6, <1>8 DEF Contents
  <2>2. Saves(p, Save(d, S \ kept, TRUE))
    BY <1>7, <1>8
  <2> HIDE DEF d, c, kept
  <2>3. Sound(d, forced)
    BY <1>6, <1>8, <2>1 DEF Sound, Configured
  <2> QED BY <1>1, <1>4, <1>7, <2>1, <2>2, <2>3, SaveCommon
<1>9. CASE Loaded.env # Unset
  <2>1. Saves(p, Save(c, S \ kept, FALSE))
    BY <1>7, <1>9
  <2>2. Sound(Loaded, forced)
    BY DEF SavesSound, Loaded
  <2> HIDE DEF c, kept
  <2>3. Sound(c, forced)
    <3>1. CASE c.env \in S
      BY <1>5, <3>1 DEF Sound
    <3>2. CASE c.env \notin S
      BY <1>1, <1>2, <1>3, <2>2, <3>2 DEF Sound, Configured, Contents
    <3> QED BY <3>1, <3>2
  <2> QED BY <1>1, <1>2, <1>4, <1>7, <2>1, <2>3, SaveCommon
<1> QED BY <1>8, <1>9

LEMMA CommandSaves ==
  ASSUME TypeOK, SavesSound, NEW p \in Processes, Command(p)
  PROVE  Common(p)
<1>0. Loaded \in Contents /\ Sound(Loaded, forced) /\ forced \subseteq Envs
  BY DEF TypeOK, Files, Loaded, SavesSound
<1>1. ASSUME NEW n \in Envs, EnvSet(p, n) PROVE Common(p)
  <2> DEFINE c == [Loaded EXCEPT !.env = n]
  <2>1. c \in Contents /\ c.env = n /\ c.environments = Loaded.environments
    BY MakesActive
  <2>2. Configured(Loaded, n) /\ Loads(p) /\ Saves(p, Save(c, {}, TRUE)) /\ forced' = forced
    BY <1>1 DEF EnvSet
  <2> HIDE DEF c
  <2>3. Sound(c, forced)
    BY <2>1, <2>2 DEF Sound, Configured
  <2> QED BY <1>0, <2>1, <2>2, <2>3, SaveCommon
<1>2. ASSUME NEW n \in Envs, ConfigSetEnv(p, n) PROVE Common(p)
  <2> DEFINE c == [Loaded EXCEPT !.env = n]
  <2>1. c \in Contents /\ c.env = n /\ c.environments = Loaded.environments
    BY MakesActive
  <2>2. Loads(p) /\ Saves(p, Save(c, {}, TRUE)) /\ forced' = forced \cup {n}
    BY <1>2 DEF ConfigSetEnv
  <2> HIDE DEF c
  <2>3. Sound(c, forced')
    BY <2>1, <2>2 DEF Sound
  <2> QED BY <1>0, <2>1, <2>2, <2>3, SaveCommon
<1>3. ASSUME NEW n \in Envs, NEW c \in Configs, c # NotConfigured \/ n # Active(Loaded),
             Loads(p), Saves(p, Save(Changes(c, n), {n}, FALSE)), forced' = forced
      PROVE  Common(p)
  BY <1>0, <1>3, ChangesOne, SaveCommon
<1>4. ASSUME NEW n \in Envs, EnvDelete(p, n) PROVE Common(p)
  BY <1>3, <1>4, EmptyTyped DEF EnvDelete
<1>5. ASSUME NEW n \in Envs, NEW u \in Configs, EnvEdit(p, n, u) PROVE Common(p)
  <2>1. Loaded.environments[n] \in Configs /\ Loaded.environments[n] # NotConfigured
    BY <1>0, <1>5 DEF EnvEdit, Configured, Contents
  <2> QED BY <1>3, <1>5, <2>1, UpdatedConfigures DEF EnvEdit
<1>6. ASSUME NEW n \in Envs, NEW f \in Fields, NEW v \in Values, ConfigSetField(p, n, f, v)
      PROVE  Common(p)
  <2>1. Loaded.environments[n] \in Configs
    BY <1>0 DEF Contents
  <2> QED BY <1>3, <1>6, <2>1, FieldSet DEF ConfigSetField
<1> QED BY <1>1, <1>2, <1>4, <1>5, <1>6, InitSaves DEF Command

-----------------------------------------------------------------------------
(* The invariant.                                                            *)

LEMMA Initially == Init => EnvInv
<1> SUFFICES ASSUME Init PROVE EnvInv
  OBVIOUS
<1>1. Idle \in Commands /\ Idle.at = "idle" /\ Idle.new = Empty /\ Empty.env = Unset
  BY EmptyTyped DEF Idle, Commands, Empty
<1>2. file \in Files /\ file.is = "missing" /\ file.content = Empty /\ acked = Empty
  BY EmptyTyped DEF Init, Files
<1>3. cmd \in [Processes -> Commands] /\ \A p \in Processes : cmd[p] = Idle
  BY <1>1 DEF Init
<1> HIDE DEF Idle, Empty
<1>4. TypeOK
  BY <1>2, <1>3, EmptyTyped DEF Init, TypeOK
<1>5. SavesSound /\ OneAtATime
  BY <1>1, <1>2, <1>3 DEF SavesSound, Sound, OneAtATime
<1> QED BY <1>2, <1>4, <1>5 DEF EnvInv, AcknowledgedKept, UnreadableExplained

LEMMA CommandKeeps ==
  ASSUME EnvInv, NEW p \in Processes, Command(p)
  PROVE  EnvInv'
<1>0. TypeOK /\ SavesSound /\ OneAtATime /\ AcknowledgedKept /\ UnreadableExplained
  BY DEF EnvInv
<1>1. Common(p)
  BY <1>0, CommandSaves
<1>2. /\ cmd[p].at = "idle" /\ file.is \in {"missing", "readable"} /\ commands' = commands + 1
      /\ overlapped' = (overlapped \/ \E q \in Processes : cmd[q].at # "idle")
      /\ UNCHANGED <<file, acked, died>>
      /\ forced \subseteq forced' /\ forced' \subseteq Envs
  BY <1>1 DEF Common, Loads
<1>3. PICK s \in Commands : Saves(p, s) /\ s.at = "open" /\ Sound(s.new, forced') /\ Changed(s)
  BY <1>1 DEF Common
<1>4. /\ cmd' \in [Processes -> Commands] /\ cmd'[p] = s
      /\ \A q \in Processes \ {p} : cmd'[q] = cmd[q]
  BY <1>0, <1>3 DEF Saves, TypeOK
<1>5. TypeOK'
  BY <1>0, <1>2, <1>4 DEF TypeOK
<1>6. SavesSound'
  BY <1>0, <1>2, <1>3, <1>4 DEF SavesSound, Sound
<1>7. OneAtATime'
  <2> SUFFICES ASSUME ~overlapped' PROVE OneAtATime'
    BY DEF OneAtATime
  <2>1. ~overlapped /\ \A q \in Processes : cmd[q].at = "idle"
    BY <1>2
  <2>2. acked = Loaded /\ acked \in Contents
    BY <1>0, <1>2, <2>1 DEF AcknowledgedKept, Loaded, TypeOK
  <2>3. s.new = Acknowledged(p)'
    <3>1. s.new \in Contents /\ s.active \in BOOLEAN /\ s.named \subseteq Envs
      BY <1>3 DEF Commands
    <3>2. Acknowledged(p)' = [env |-> IF s.active THEN s.new.env ELSE acked.env,
                              environments |-> [n \in Envs |->
                                IF n \in s.named THEN s.new.environments[n]
                                                 ELSE acked.environments[n]]]
      BY <1>2, <1>4 DEF Acknowledged
    <3>3. s.new.env = IF s.active THEN s.new.env ELSE acked.env
      BY <1>3, <2>2 DEF Changed
    <3>4. s.new.environments = [n \in Envs |-> IF n \in s.named THEN s.new.environments[n]
                                                               ELSE acked.environments[n]]
      BY <1>3, <2>2, <3>1 DEF Changed, Contents
    <3> QED BY <3>1, <3>2, <3>3, <3>4 DEF Contents
  <2> QED BY <1>3, <1>4, <2>1, <2>3 DEF OneAtATime
<1>8. AcknowledgedKept' /\ UnreadableExplained'
  BY <1>0, <1>2 DEF AcknowledgedKept, UnreadableExplained
<1> QED BY <1>5, <1>6, <1>7, <1>8 DEF EnvInv

LEMMA AcknowledgedTyped ==
  ASSUME TypeOK, NEW p \in Processes
  PROVE  Acknowledged(p) \in Contents
BY DEF TypeOK, Commands, Contents, Acknowledged

\* What another process does leaves what p will acknowledge as it is.
LEMMA AcknowledgedStays ==
  ASSUME NEW p \in Processes, acked' = acked,
         cmd'[p].active = cmd[p].active, cmd'[p].new = cmd[p].new, cmd'[p].named = cmd[p].named
  PROVE  Acknowledged(p)' = Acknowledged(p)
BY DEF Acknowledged

LEMMA OpenKeeps ==
  ASSUME EnvInv, NEW p \in Processes, Open(p)
  PROVE  EnvInv'
<1>0. TypeOK /\ SavesSound /\ OneAtATime /\ AcknowledgedKept /\ UnreadableExplained
  BY DEF EnvInv
<1>1. /\ cmd[p].at = "open" /\ file' = [is |-> "empty", content |-> Empty]
      /\ cmd' = [cmd EXCEPT ![p].at = "write"] /\ UNCHANGED <<acked, history>>
  BY DEF Open
<1>2. /\ cmd' \in [Processes -> Commands] /\ cmd'[p].at = "write"
      /\ \A q \in Processes : /\ cmd'[q].new = cmd[q].new /\ cmd'[q].named = cmd[q].named
                              /\ cmd'[q].active = cmd[q].active
                              /\ q # p => cmd'[q].at = cmd[q].at
  BY <1>0, <1>1 DEF TypeOK, Commands
<1>3. TypeOK'
  BY <1>0, <1>1, <1>2, EmptyTyped DEF TypeOK, Files, history
<1>4. SavesSound'
  BY <1>0, <1>1, <1>2 DEF SavesSound, Sound, Empty, history
<1>5. OneAtATime'
  BY <1>0, <1>1, <1>2, AcknowledgedStays DEF OneAtATime, history
<1>6. AcknowledgedKept' /\ UnreadableExplained'
  BY <1>1, <1>2 DEF AcknowledgedKept, UnreadableExplained
<1> QED BY <1>3, <1>4, <1>5, <1>6 DEF EnvInv

\* A process that is idle again: what holds of the others goes on to hold.
LEMMA IdleKeeps ==
  ASSUME EnvInv, NEW p \in Processes, cmd' = [cmd EXCEPT ![p] = Idle], forced' = forced
  PROVE  /\ cmd' \in [Processes -> Commands] /\ cmd'[p].at = "idle"
         /\ \A q \in Processes \ {p} : cmd'[q] = cmd[q]
         /\ \A q \in Processes : Sound(cmd'[q].new, forced')
<1>1. Idle \in Commands /\ Idle.at = "idle" /\ Sound(Idle.new, forced)
  BY EmptyTyped DEF Idle, Commands, Sound, Empty
<1> HIDE DEF Idle
<1> QED BY <1>1 DEF EnvInv, TypeOK, SavesSound

LEMMA WriteKeeps ==
  ASSUME EnvInv, NEW p \in Processes, Write(p)
  PROVE  EnvInv'
<1>0. TypeOK /\ SavesSound /\ OneAtATime /\ AcknowledgedKept /\ UnreadableExplained
  BY DEF EnvInv
<1>1. /\ cmd[p].at = "write" /\ acked' = Acknowledged(p) /\ UNCHANGED history
      /\ cmd' = [cmd EXCEPT ![p] = Idle]
      /\ \/ file' = [is |-> "readable", content |-> cmd[p].new]
         \/ file.is # "empty" /\ file' = [is |-> "mixed", content |-> Empty]
  BY DEF Write
<1>2. /\ cmd' \in [Processes -> Commands] /\ cmd'[p].at = "idle"
      /\ \A q \in Processes \ {p} : cmd'[q] = cmd[q]
      /\ \A q \in Processes : Sound(cmd'[q].new, forced')
  BY <1>1, IdleKeeps DEF history
<1>3. cmd[p].new \in Contents
  BY <1>0 DEF TypeOK, Commands
<1>4. TypeOK'
  BY <1>0, <1>1, <1>2, <1>3, EmptyTyped, AcknowledgedTyped DEF TypeOK, Files, history
<1>5. SavesSound'
  BY <1>0, <1>1, <1>2 DEF SavesSound, Sound, Empty, history
<1>6. OneAtATime'
  BY <1>0, <1>1, <1>2 DEF OneAtATime, history
<1>7. AcknowledgedKept' /\ UnreadableExplained'
  BY <1>0, <1>1 DEF AcknowledgedKept, UnreadableExplained, OneAtATime, history
<1> QED BY <1>4, <1>5, <1>6, <1>7 DEF EnvInv

LEMMA DieKeeps ==
  ASSUME EnvInv, NEW p \in Processes, Die(p)
  PROVE  EnvInv'
<1>0. TypeOK /\ SavesSound /\ OneAtATime /\ AcknowledgedKept /\ UnreadableExplained
  BY DEF EnvInv
<1>1. /\ cmd' = [cmd EXCEPT ![p] = Idle] /\ died' = (died \/ cmd[p].at = "write")
      /\ UNCHANGED <<file, acked, commands, overlapped, forced>>
  BY DEF Die
<1>2. /\ cmd' \in [Processes -> Commands] /\ cmd'[p].at = "idle"
      /\ \A q \in Processes \ {p} : cmd'[q] = cmd[q]
      /\ \A q \in Processes : Sound(cmd'[q].new, forced')
  BY <1>1, IdleKeeps
<1>3. TypeOK'
  BY <1>0, <1>1, <1>2 DEF TypeOK
<1>4. SavesSound'
  BY <1>0, <1>1, <1>2 DEF SavesSound
<1>5. OneAtATime'
  BY <1>0, <1>1, <1>2, AcknowledgedStays DEF OneAtATime
<1>6. AcknowledgedKept' /\ UnreadableExplained'
  BY <1>0, <1>1, <1>2 DEF AcknowledgedKept, UnreadableExplained
<1> QED BY <1>3, <1>4, <1>5, <1>6 DEF EnvInv

LEMMA StutterKeeps == EnvInv /\ UNCHANGED vars => EnvInv'
BY DEF EnvInv, TypeOK, SavesSound, Sound, Configured, OneAtATime, Acknowledged, AcknowledgedKept,
       UnreadableExplained, vars, history

LEMMA Invariance == Spec => []EnvInv
<1>1. EnvInv /\ [Next]_vars => EnvInv'
  BY CommandKeeps, OpenKeeps, WriteKeeps, DieKeeps, StutterKeeps DEF Next
<1> QED BY Initially, <1>1, PTL DEF Spec

-----------------------------------------------------------------------------
(* The theorems.                                                             *)

\* The file, the commands and what they have acknowledged keep their types.
THEOREM EnvTypeCorrect == Spec => []TypeOK
BY Invariance, PTL DEF EnvInv

\* Any number of commands, in any order and cut off anywhere, leave an active environment
\* that is configured, unless `config set env` has named it.
THEOREM ActiveIsConfigured == Spec => []ActiveConfigured
<1>1. EnvInv => ActiveConfigured
  BY DEF EnvInv, SavesSound, Sound, ActiveConfigured
<1> QED BY <1>1, Invariance, PTL

\* Commands that do not overlap lose no change of each other.
THEOREM NothingLost == Spec => []AcknowledgedKept
BY Invariance, PTL DEF EnvInv

\* An unreadable file is being saved, or a save was cut off, or commands overlapped.
THEOREM UnreadableIsExplained == Spec => []UnreadableExplained
BY Invariance, PTL DEF EnvInv

=================================================================================
