-------------------------- MODULE AgentServerProofs --------------------------
(***************************************************************************)
(* The safety properties of AgentServer, for any set of messages and any       *)
(* number of refused patches.  The inductive invariant AgentInv does not       *)
(* mention the lock: that the state is checked and set in one step is enough.  *)
(***************************************************************************)
EXTENDS AgentServer, FiniteSetTheorems, TLAPS

\* A message is being worked on, from the busy of its request to its idle.
Active(m) == pc[m] \in {"marking", "thinking"}

\* At most one message is being worked on, and then the state says busy.
ActiveIsBusy ==
  /\ \A m \in Messages : Active(m) => state = "busy"
  /\ \A m, n \in Messages : Active(m) /\ Active(n) => m = n

\* Where a request may have a patch on its way.
Patches(m) == pc[m] \in {"marking", "answering", "failing"}

\* A request waits for its own patches, and the server for its own.
PatchesAwaited ==
  /\ \A m \in Messages : patch[m] # "none" => Patches(m) /\ patch[m] # "finished"
  /\ life \in {"serving", "draining"} => patch["server"] = "none"

\* Once "finished" is on its way, no other patch is.
FinishedIsLast ==
  patch["server"] = "finished" \/ annotation = "finished" =>
    /\ life \in {"stopping", "exited", "killed"}
    /\ \A m \in Messages : patch[m] = "none"
    /\ annotation = "finished" => patch["server"] = "none"

\* A server that shuts down has said so, or is saying so.
ExitAnnounced ==
  life \in {"stopping", "exited"} /\ refused = 0 =>
    \/ annotation = "finished"
    \/ life = "stopping" /\ patch["server"] = "finished"

\* The LLM works on the history there is, which holds the answered messages.
HistoryKept ==
  program = "entrypoint" =>
    /\ \A m \in Messages : pc[m] = "thinking" => base[m] = history
    /\ IsInjective(history)
    /\ ToSet(history) = {m \in Messages : pc[m] \in {"answering", "answered"}}

\* An adapter has one patch on its way at a time, and it is about the state.
AdapterTells ==
  program = "adapter" /\ refused = 0 =>
    /\ \A v, w \in Writers : patch[v] # "none" /\ patch[w] # "none" => v = w
    /\ \A w \in Writers : patch[w] # "none" => patch[w] = state
    /\ ~Patching => annotation = state

AgentInv ==
  TypeOK /\ ActiveIsBusy /\ PatchesAwaited /\ FinishedIsLast /\ ExitAnnounced /\ HistoryKept /\ AdapterTells

-----------------------------------------------------------------------------
(* Types.                                                                   *)

LEMMA Initially == Init => AgentInv
<1> SUFFICES ASSUME Init PROVE AgentInv
  OBVIOUS
<1>1. TypeOK
  <2>1. refused \in 0 .. MaxRefused
    BY MaxRefusedAssumption DEF Init
  <2>2. history \in Seq(Messages) /\ line \in Seq(Messages) /\ base \in [Messages -> Seq(Messages)]
    BY DEF Init
  <2>3. patch \in [Writers -> AgentStates \cup {"none"}] /\ pc \in [Messages -> Steps]
    BY DEF Init, AgentStates, Steps
  <2> QED BY <2>1, <2>2, <2>3 DEF Init, TypeOK, AgentStates
<1>2. HistoryKept
  BY DEF Init, HistoryKept, IsInjective, ToSet
<1> QED BY <1>1, <1>2, MessagesAssumption
  DEF Init, AgentInv, ActiveIsBusy, Active, PatchesAwaited, FinishedIsLast, ExitAnnounced,
      AdapterTells, Patching, Writers

\* What SetState leaves of the types.
LEMMA SetStateTyped ==
  ASSUME TypeOK, NEW w \in Writers, NEW new \in AgentStates, SetState(w, new)
  PROVE  state' \in AgentStates /\ patch' \in [Writers -> AgentStates \cup {"none"}]
BY DEF TypeOK, SetState

LEMMA TypesKept == TypeOK /\ [Next]_vars => TypeOK'
<1> SUFFICES ASSUME TypeOK, [Next]_vars PROVE TypeOK'
  OBVIOUS
<1> USE DEF TypeOK
<1>1. CASE Serve \/ Terminate \/ Exit \/ Die
  BY <1>1 DEF Serve, Terminate, Exit, Die
<1>2. CASE Shutdown
  <2>1. "server" \in Writers /\ "finished" \in AgentStates
    BY DEF Writers, AgentStates
  <2> QED BY <1>2, <2>1, SetStateTyped DEF Shutdown
<1>3. ASSUME NEW m \in Messages, Arrive(m)
      PROVE  TypeOK'
  BY <1>3 DEF Arrive, Steps
<1>4. ASSUME NEW m \in Messages, Enter(m)
      PROVE  TypeOK'
  <2>1. m \in Writers /\ "busy" \in AgentStates
    BY DEF Writers, AgentStates
  <2>2. line' \in Seq(Messages)
    BY <1>4 DEF Enter, Turn
  <2>3. CASE state # "idle"
    BY <1>4, <2>2, <2>3 DEF Enter, Steps
  <2>4. CASE state = "idle"
    BY <1>4, <2>1, <2>2, <2>4, SetStateTyped DEF Enter, Steps
  <2> QED BY <2>3, <2>4
<1>5. ASSUME NEW m \in Messages, CallModel(m) \/ Reply(m)
      PROVE  TypeOK'
  BY <1>5 DEF CallModel, Reply, Steps
<1>6. ASSUME NEW m \in Messages, Complete(m) \/ GiveUp(m)
      PROVE  TypeOK'
  <2>1. m \in Writers /\ "idle" \in AgentStates
    BY DEF Writers, AgentStates
  <2>2. base[m] \in Seq(Messages)
    OBVIOUS
  <2>3. Append(base[m], m) \in Seq(Messages)
    BY <2>2
  <2>4. history' \in Seq(Messages)
    BY <1>6, <2>3 DEF Complete, GiveUp
  <2> QED BY <1>6, <2>1, <2>4, SetStateTyped DEF Complete, GiveUp, Steps
<1>7. ASSUME NEW w \in Writers, Land(w) \/ Refuse(w)
      PROVE  TypeOK'
  <2>1. patch' \in [Writers -> AgentStates \cup {"none"}]
    BY <1>7 DEF Land, Refuse
  <2>2. annotation' \in AgentStates \cup {"none"}
    BY <1>7 DEF Land, Refuse
  <2>3. refused' \in 0 .. MaxRefused
    BY <1>7, MaxRefusedAssumption DEF Land, Refuse
  <2> QED BY <1>7, <2>1, <2>2, <2>3 DEF Land, Refuse
<1>8. CASE UNCHANGED vars
  BY <1>8 DEF vars
<1> QED BY <1>1, <1>2, <1>3, <1>4, <1>5, <1>6, <1>7, <1>8 DEF Next, Handler

\* Every variable keeps its type.
THEOREM AgentTypeCorrect == Spec => []TypeOK
<1>1. Init => TypeOK
  BY Initially DEF AgentInv
<1> QED BY <1>1, TypesKept, PTL DEF Spec

-----------------------------------------------------------------------------
(* One message at a time.                                                    *)

LEMMA ActiveKept == TypeOK /\ ActiveIsBusy /\ [Next]_vars => ActiveIsBusy'
<1> SUFFICES ASSUME TypeOK, ActiveIsBusy, [Next]_vars PROVE ActiveIsBusy'
  OBVIOUS
<1> USE DEF TypeOK, ActiveIsBusy, Active
<1>1. CASE Serve \/ Terminate \/ Exit \/ Die \/ UNCHANGED vars
  BY <1>1 DEF Serve, Terminate, Exit, Die, vars
<1>2. CASE Shutdown
  BY <1>2 DEF Shutdown, InHand
<1>3. ASSUME NEW m \in Messages, Arrive(m) \/ CallModel(m) \/ Reply(m)
      PROVE  ActiveIsBusy'
  BY <1>3 DEF Arrive, CallModel, Reply
<1>4. ASSUME NEW m \in Messages, Enter(m)
      PROVE  ActiveIsBusy'
  <2>1. CASE state # "idle"
    BY <1>4, <2>1 DEF Enter
  <2>2. CASE state = "idle"
    BY <1>4, <2>2 DEF Enter, SetState
  <2> QED BY <2>1, <2>2
<1>5. ASSUME NEW m \in Messages, Complete(m) \/ GiveUp(m)
      PROVE  ActiveIsBusy'
  BY <1>5 DEF Complete, GiveUp, SetState
<1>6. ASSUME NEW w \in Writers, Land(w) \/ Refuse(w)
      PROVE  ActiveIsBusy'
  BY <1>6 DEF Land, Refuse
<1> QED BY <1>1, <1>2, <1>3, <1>4, <1>5, <1>6 DEF Next, Handler

LEMMA AtMostOne ==
  ASSUME NEW S, \A x, y \in S : x = y
  PROVE  Cardinality(S) <= 1
<1>1. CASE S = {}
  BY <1>1, FS_EmptySet
<1>2. CASE S # {}
  <2>1. PICK x : x \in S
    BY <1>2
  <2>2. S = {x}
    BY <2>1
  <2> QED BY <2>2, FS_Singleton
<1> QED BY <1>1, <1>2

\* The LLM works on one message at a time, for any number of requests, although
\* message() releases the lock before it calls the LLM.
THEOREM WorksOnOne == Spec => []OneAtATime
<1>1. Init => TypeOK /\ ActiveIsBusy
  BY Initially DEF AgentInv
<1>2. ActiveIsBusy => OneAtATime
  <2>1. ASSUME ActiveIsBusy
        PROVE  \A x, y \in {m \in Messages : pc[m] \in {"marking", "thinking"}} : x = y
    BY <2>1 DEF ActiveIsBusy, Active
  <2> QED BY <2>1, AtMostOne DEF OneAtATime
<1> QED BY <1>1, <1>2, TypesKept, ActiveKept, PTL DEF Spec

-----------------------------------------------------------------------------
(* The last word of the annotation.                                          *)

Announcing == PatchesAwaited /\ FinishedIsLast /\ ExitAnnounced

LEMMA AnnouncingKept == TypeOK /\ Announcing /\ [Next]_vars => Announcing'
<1> SUFFICES ASSUME TypeOK, Announcing, [Next]_vars PROVE Announcing'
  OBVIOUS
<1>0. "server" \notin Messages /\ Writers = Messages \cup {"server"}
  BY MessagesAssumption DEF Writers
<1> USE DEF TypeOK, Announcing, PatchesAwaited, FinishedIsLast, ExitAnnounced, Patches
<1>1. CASE Serve \/ Terminate \/ Exit \/ Die \/ UNCHANGED vars
  BY <1>1 DEF Serve, Terminate, Exit, Die, vars
<1>2. CASE Shutdown
  BY <1>0, <1>2 DEF Shutdown, SetState, InHand
<1>3. ASSUME NEW m \in Messages, Arrive(m) \/ CallModel(m) \/ Reply(m)
      PROVE  Announcing'
  BY <1>3 DEF Arrive, CallModel, Reply, Up
<1>4. ASSUME NEW m \in Messages, Enter(m)
      PROVE  Announcing'
  <2>1. life \in {"serving", "draining"}
    BY <1>4 DEF Enter, Turn, Up
  <2>2. CASE state # "idle"
    BY <1>4, <2>1, <2>2 DEF Enter, Turn
  <2>3. CASE state = "idle"
    <3>1. /\ pc' = [pc EXCEPT ![m] = "marking"] /\ patch' = [patch EXCEPT ![m] = "busy"]
          /\ UNCHANGED <<life, annotation, refused>>
      BY <1>4, <2>3 DEF Enter, SetState
    <3>2. \A n \in Messages : patch'[n] # "none" => Patches(n)' /\ patch'[n] # "finished"
      BY <3>1
    <3>3. patch'["server"] = patch["server"]
      BY <1>0, <3>1
    <3> QED BY <2>1, <3>1, <3>2, <3>3
  <2> QED BY <2>2, <2>3
<1>5. ASSUME NEW m \in Messages, Complete(m) \/ GiveUp(m)
      PROVE  Announcing'
  BY <1>0, <1>5 DEF Complete, GiveUp, SetState, Up
<1>6. ASSUME NEW w \in Writers, Land(w)
      PROVE  Announcing'
  BY <1>0, <1>6 DEF Land
<1>7. ASSUME NEW w \in Writers, Refuse(w)
      PROVE  Announcing'
  BY <1>0, <1>7, MaxRefusedAssumption DEF Refuse
<1> QED BY <1>1, <1>2, <1>3, <1>4, <1>5, <1>6, <1>7 DEF Next, Handler

LEMMA Announces == Spec => [](TypeOK /\ Announcing)
<1>1. Init => TypeOK /\ Announcing
  BY Initially DEF AgentInv, Announcing
<1> QED BY <1>1, TypesKept, AnnouncingKept, PTL DEF Spec

\* "finished" stays on the pod: no patch of a request, however late, overwrites it.
THEOREM FinishedStays == Spec => FinishedIsLastWord
<1>1. TypeOK /\ Announcing /\ [Next]_vars => [annotation = "finished" => annotation' = "finished"]_vars
  <2> SUFFICES ASSUME TypeOK, Announcing, [Next]_vars, annotation = "finished"
               PROVE  annotation' = "finished"
    OBVIOUS
  <2>1. \A w \in Writers : patch[w] = "none"
    BY DEF Announcing, FinishedIsLast, Writers
  <2>2. ASSUME NEW w \in Writers, Land(w) PROVE FALSE
    BY <2>1, <2>2 DEF Land
  <2> QED BY <2>2 DEF Next, Handler, vars, Serve, Terminate, Shutdown, Exit, Die, Arrive, Enter,
                     CallModel, Complete, GiveUp, Reply, Refuse
<1> QED BY <1>1, Announces, PTL DEF Spec, FinishedIsLastWord

\* A server that exits by itself leaves "finished" on its pod, if no patch was refused.
THEOREM ExitIsAnnounced == Spec => []ExitSaysFinished
<1>1. Announcing => ExitSaysFinished
  BY DEF Announcing, ExitAnnounced, ExitSaysFinished
<1> QED BY <1>1, Announces, PTL

-----------------------------------------------------------------------------
(* The conversation.                                                         *)

\* Appending what is not there adds one element and keeps the others.
LEMMA AppendNew ==
  ASSUME NEW S, NEW s \in Seq(S), NEW e \in S, e \notin ToSet(s), IsInjective(s)
  PROVE  IsInjective(Append(s, e)) /\ ToSet(Append(s, e)) = ToSet(s) \cup {e}
<1> DEFINE t == Append(s, e)
<1>1. /\ t \in Seq(S) /\ Len(t) = Len(s) + 1 /\ Len(s) \in Nat
      /\ DOMAIN t = 1 .. Len(s) + 1 /\ DOMAIN s = 1 .. Len(s)
      /\ t[Len(s) + 1] = e /\ \A i \in 1 .. Len(s) : t[i] = s[i]
  OBVIOUS
<1>2. \A i \in 1 .. Len(s) : t[i] # e
  BY <1>1 DEF ToSet
<1>3. IsInjective(t)
  BY <1>1, <1>2 DEF IsInjective
<1>4. ToSet(t) = ToSet(s) \cup {e}
  BY <1>1 DEF ToSet
<1> QED BY <1>3, <1>4

LEMMA HistoryKeeps == TypeOK /\ ActiveIsBusy /\ HistoryKept /\ [Next]_vars => HistoryKept'
<1> SUFFICES ASSUME TypeOK, ActiveIsBusy, HistoryKept, [Next]_vars, program' = "entrypoint"
             PROVE  HistoryKept'
  BY DEF HistoryKept
<1>0. program = "entrypoint" /\ program' = program
  BY DEF Next, Handler, vars, Serve, Terminate, Shutdown, Exit, Die, Arrive, Enter,
         CallModel, Complete, GiveUp, Reply, Land, Refuse
<1>a. ASSUME UNCHANGED <<pc, base, history>>
      PROVE  HistoryKept'
  BY <1>0, <1>a DEF HistoryKept
<1>b. ASSUME NEW m \in Messages, NEW step \in Steps,
             pc' = [pc EXCEPT ![m] = step], step \notin {"thinking"},
             pc[m] \in {"answering", "answered"} <=> step \in {"answering", "answered"},
             UNCHANGED <<base, history>>
      PROVE  HistoryKept'
  <2>1. \A n \in Messages : pc'[n] = "thinking" => pc[n] = "thinking"
    BY <1>b DEF TypeOK
  <2>2. \A n \in Messages :
          pc'[n] \in {"answering", "answered"} <=> pc[n] \in {"answering", "answered"}
    BY <1>b DEF TypeOK
  <2> QED BY <1>0, <1>b, <2>1, <2>2 DEF HistoryKept
<1>1. CASE Serve \/ Terminate \/ Shutdown \/ Exit \/ Die \/ UNCHANGED vars
  BY <1>a, <1>1 DEF Serve, Terminate, Shutdown, Exit, Die, vars
<1>2. ASSUME NEW m \in Messages, Arrive(m) \/ Enter(m)
      PROVE  HistoryKept'
  BY <1>b, <1>2 DEF Arrive, Enter, Turn, Steps
<1>3. ASSUME NEW m \in Messages, CallModel(m)
      PROVE  HistoryKept'
  <2>1. \A n \in Messages :
          pc'[n] \in {"answering", "answered"} <=> pc[n] \in {"answering", "answered"}
    BY <1>3 DEF CallModel, TypeOK
  <2>2. \A n \in Messages : pc'[n] = "thinking" => base'[n] = history'
    BY <1>0, <1>3 DEF CallModel, TypeOK, HistoryKept
  <2> QED BY <1>0, <1>3, <2>1, <2>2 DEF CallModel, HistoryKept
<1>4. ASSUME NEW m \in Messages, Complete(m)
      PROVE  HistoryKept'
  <2>1. /\ pc[m] = "thinking" /\ pc' = [pc EXCEPT ![m] = "answering"] /\ base' = base
        /\ history' = Append(base[m], m)
    BY <1>0, <1>4 DEF Complete
  <2>2. base[m] = history /\ history \in Seq(Messages) /\ IsInjective(history) /\ m \notin ToSet(history)
    BY <1>0, <2>1 DEF HistoryKept, TypeOK
  <2>3. IsInjective(history') /\ ToSet(history') = ToSet(history) \cup {m}
    BY <2>1, <2>2, AppendNew
  <2>4. \A n \in Messages : pc'[n] # "thinking"
    BY <2>1 DEF ActiveIsBusy, Active, TypeOK
  <2>5. {n \in Messages : pc'[n] \in {"answering", "answered"}}
          = {n \in Messages : pc[n] \in {"answering", "answered"}} \cup {m}
    BY <2>1 DEF TypeOK
  <2> QED BY <1>0, <2>3, <2>4, <2>5 DEF HistoryKept
<1>5. ASSUME NEW m \in Messages, GiveUp(m) \/ Reply(m)
      PROVE  HistoryKept'
  BY <1>b, <1>5 DEF GiveUp, Reply, Steps
<1>6. ASSUME NEW w \in Writers, Land(w) \/ Refuse(w)
      PROVE  HistoryKept'
  BY <1>a, <1>6 DEF Land, Refuse
<1> QED BY <1>1, <1>2, <1>3, <1>4, <1>5, <1>6 DEF Next, Handler

\* The conversation of entrypoint.py is exactly the answered messages, each once: no
\* answer overwrites the history that another has added to.
THEOREM HistoryIsComplete == Spec => []HistoryIsAnswers
<1>1. Init => TypeOK /\ ActiveIsBusy /\ HistoryKept
  BY Initially DEF AgentInv
<1>2. HistoryKept => HistoryIsAnswers
  BY DEF HistoryKept, HistoryIsAnswers
<1> QED BY <1>1, <1>2, TypesKept, ActiveKept, HistoryKeeps, PTL DEF Spec

-----------------------------------------------------------------------------
(* The adapters.                                                             *)

LEMMA AdapterKeeps == TypeOK /\ Announcing /\ AdapterTells /\ [Next]_vars => AdapterTells'
<1> SUFFICES ASSUME TypeOK, Announcing, AdapterTells, [Next]_vars,
                    program' = "adapter", refused' = 0
             PROVE  AdapterTells'
  BY DEF AdapterTells
<1>0. program = "adapter" /\ program' = program
  BY DEF Next, Handler, vars, Serve, Terminate, Shutdown, Exit, Die, Arrive, Enter,
         CallModel, Complete, GiveUp, Reply, Land, Refuse
<1>a. ASSUME UNCHANGED <<state, patch, annotation, refused>>
      PROVE  AdapterTells'
  BY <1>0, <1>a DEF AdapterTells, Patching
<1>b. ASSUME NEW w \in Writers, NEW new \in AgentStates, SetState(w, new), ~Patching,
             UNCHANGED <<annotation, refused>>
      PROVE  AdapterTells'
  <2>1. /\ patch' = [patch EXCEPT ![w] = new] /\ state' = new /\ new # "none"
        /\ \A v \in Writers : patch[v] = "none"
    BY <1>b DEF SetState, Patching, AgentStates
  <2>2. \A v \in Writers : patch'[v] # "none" => v = w
    BY <2>1 DEF TypeOK
  <2>3. patch'[w] = state' /\ patch'[w] # "none"
    BY <2>1 DEF TypeOK
  <2> QED BY <2>2, <2>3 DEF AdapterTells, Patching
<1>1. CASE Serve \/ Terminate \/ Exit \/ Die \/ UNCHANGED vars
  BY <1>a, <1>1 DEF Serve, Terminate, Exit, Die, vars
<1>2. CASE Shutdown
  <2>1. ~Patching
    BY <1>2 DEF Shutdown, InHand, Announcing, PatchesAwaited, Patches, Patching, Writers
  <2>2. "server" \in Writers /\ "finished" \in AgentStates
    BY DEF Writers, AgentStates
  <2> QED BY <1>2, <1>b, <2>1, <2>2 DEF Shutdown
<1>3. ASSUME NEW m \in Messages, Arrive(m) \/ CallModel(m) \/ Reply(m)
      PROVE  AdapterTells'
  BY <1>a, <1>3 DEF Arrive, CallModel, Reply
<1>4. ASSUME NEW m \in Messages, Enter(m) \/ Complete(m) \/ GiveUp(m)
      PROVE  AdapterTells'
  <2>1. ~Patching
    BY <1>0, <1>4 DEF Enter, Turn, Complete, GiveUp, Up, Blocked
  <2>2. m \in Writers /\ "busy" \in AgentStates /\ "idle" \in AgentStates
    BY DEF Writers, AgentStates
  <2> QED BY <1>4, <1>a, <1>b, <2>1, <2>2 DEF Enter, Complete, GiveUp
<1>5. ASSUME NEW w \in Writers, Land(w)
      PROVE  AdapterTells'
  <2>1. /\ patch' = [patch EXCEPT ![w] = "none"] /\ patch[w] # "none" /\ annotation' = patch[w]
        /\ state' = state /\ refused = 0
    BY <1>5 DEF Land
  <2>2. \A v \in Writers : patch'[v] = "none"
    BY <1>0, <2>1 DEF AdapterTells, TypeOK
  <2>3. annotation' = state'
    BY <1>0, <2>1 DEF AdapterTells
  <2> QED BY <2>2, <2>3 DEF AdapterTells
<1>6. ASSUME NEW w \in Writers, Refuse(w)
      PROVE  AdapterTells'
  BY <1>6, MaxRefusedAssumption DEF Refuse, TypeOK
<1> QED BY <1>1, <1>2, <1>3, <1>4, <1>5, <1>6 DEF Next, Handler

\* The pod of an adapter tells its state whenever no patch is on its way and none was
\* refused: the adapters patch from the event loop, so patches never overtake.
THEOREM AdapterIsTold == Spec => []AdapterTellsState
<1>1. Init => TypeOK /\ Announcing /\ AdapterTells
  BY Initially DEF AgentInv, Announcing
<1>2. AdapterTells => AdapterTellsState
  BY DEF AdapterTells, AdapterTellsState, TellsState
<1> QED BY <1>1, <1>2, TypesKept, AnnouncingKept, AdapterKeeps, PTL DEF Spec

=============================================================================
