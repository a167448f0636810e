------------------------------ MODULE AgentServer ------------------------------
(***************************************************************************)
(* One agent pod's HTTP server: the request handlers of POST /message on one   *)
(* event loop, the lock they share, the conversation history, and the          *)
(* mob.io/agent-state annotation they patch.  The program is the pydantic-ai    *)
(* agent of agent/entrypoint.py, or one of the two agent/adapters, which keep   *)
(* no history and patch from the event loop itself.                           *)
(*                                                                         *)
(* A step runs a coroutine from one await to the next.  A patch lands, or is   *)
(* refused, in a step of the API server, and only then does the coroutine     *)
(* that waits for it go on; with an adapter, nothing does until then.         *)
(***************************************************************************)
EXTENDS Naturals, FiniteSets, SequencesExt

CONSTANTS
  Messages,   \* the messages sent to this agent, one request each
  Programs,   \* what the agent's template may run
  MaxRefused  \* bound: annotation patches the API server refuses

ASSUME MaxRefusedAssumption == MaxRefused \in Nat
ASSUME MessagesAssumption == Messages \cap {"server", "free"} = {}
ASSUME ProgramsAssumption == Programs \subseteq {"entrypoint", "adapter"}

\* Who patches: a request, or the server itself when it starts and stops.
Writers == Messages \cup {"server"}

VARIABLES
  program,     \* what this pod runs
  life,        \* of the process; "exited" by itself, "killed" by SIGKILL or a crash
  state,       \* _state
  lock,        \* the request that holds _lock, or "free"
  line,        \* the requests that wait for _lock, first come first served
  pc,          \* pc[m]: where request m is
  base,        \* base[m]: the history the LLM call of m was given
  history,     \* _message_history: the messages answered, in order
  patch,       \* patch[w]: the annotation w is writing, or "none"
  annotation,  \* mob.io/agent-state of the pod
  refused      \* patches refused so far

vars == <<program, life, state, lock, line, pc, base, history, patch, annotation, refused>>

AgentStates == {"idle", "busy", "finished"}

Steps == {"unsent", "waiting", "marking", "thinking", "answering", "failing",
          "answered", "failed", "refused"}

TypeOK ==
  /\ program \in Programs
  /\ life \in {"starting", "serving", "draining", "stopping", "exited", "killed"}
  /\ state \in AgentStates
  /\ lock \in Messages \cup {"free"}
  /\ line \in Seq(Messages)
  /\ pc \in [Messages -> Steps]
  /\ base \in [Messages -> Seq(Messages)]
  /\ history \in Seq(Messages)
  /\ patch \in [Writers -> AgentStates \cup {"none"}]
  /\ annotation \in AgentStates \cup {"none"}
  /\ refused \in 0 .. MaxRefused

\* The lifespan handler has called _set_state("idle") and awaits the patch.
Init ==
  /\ program \in Programs
  /\ life = "starting"
  /\ state = "idle"
  /\ lock = "free"
  /\ line = <<>>
  /\ pc = [m \in Messages |-> "unsent"]
  /\ base = [m \in Messages |-> <<>>]
  /\ history = <<>>
  /\ patch = [w \in Writers |-> IF w = "server" THEN "idle" ELSE "none"]
  /\ annotation = "none"
  /\ refused = 0

\* _set_state(new): the variable at once, the annotation when the patch lands.
SetState(w, new) ==
  /\ state' = new
  /\ patch' = [patch EXCEPT ![w] = new]

Patching == \E w \in Writers : patch[w] # "none"

\* Mutated form: the adapters patch from threads, too.
Blocked_Never == FALSE

\* The adapters call the API server from the event loop, which stands still.
Blocked == program = "adapter" /\ Patching

Up == life \in {"serving", "draining"} /\ ~Blocked

-----------------------------------------------------------------------------
(* The server.                                                              *)

\* The lifespan handler yields: requests are accepted.
Serve ==
  /\ life = "starting" /\ patch["server"] = "none"
  /\ life' = "serving"
  /\ UNCHANGED <<program, state, lock, line, pc, base, history, patch, annotation, refused>>

\* SIGTERM: uvicorn accepts no more requests.
Terminate ==
  /\ life = "serving"
  /\ life' = "draining"
  /\ UNCHANGED <<program, state, lock, line, pc, base, history, patch, annotation, refused>>

InHand(m) == pc[m] \in {"waiting", "marking", "thinking", "answering", "failing"}

\* Mutated form: the lifespan handler does not wait for the requests in hand.
Shutdown_NoDrain ==
  /\ life = "draining"
  /\ life' = "stopping"
  /\ SetState("server", "finished")
  /\ UNCHANGED <<program, lock, line, pc, base, history, annotation, refused>>

\* Mutated form: a state of another name, which the operator does not know.
Shutdown_Stopped ==
  /\ life = "draining"
  /\ \A m \in Messages : ~InHand(m)
  /\ life' = "stopping"
  /\ SetState("server", "stopped")
  /\ UNCHANGED <<program, lock, line, pc, base, history, annotation, refused>>

\* Once they are answered, the lifespan handler calls _set_state("finished").
Shutdown ==
  /\ life = "draining"
  /\ \A m \in Messages : ~InHand(m)
  /\ life' = "stopping"
  /\ SetState("server", "finished")
  /\ UNCHANGED <<program, lock, line, pc, base, history, annotation, refused>>

\* Mutated form: the process exits while the patch is on its way.
Exit_NoWait ==
  /\ life = "stopping"
  /\ life' = "exited"
  /\ UNCHANGED <<program, state, lock, line, pc, base, history, patch, annotation, refused>>

Exit ==
  /\ life = "stopping" /\ patch["server"] = "none"
  /\ life' = "exited"
  /\ UNCHANGED <<program, state, lock, line, pc, base, history, patch, annotation, refused>>

\* Patches that are on their way may still land.
Die ==
  /\ life \notin {"exited", "killed"}
  /\ life' = "killed"
  /\ UNCHANGED <<program, state, lock, line, pc, base, history, patch, annotation, refused>>

-----------------------------------------------------------------------------
(* POST /message.                                                           *)

\* The request is accepted and awaits the lock.
Arrive(m) ==
  /\ life = "serving" /\ ~Blocked /\ pc[m] = "unsent"
  /\ pc' = [pc EXCEPT ![m] = "waiting"]
  /\ line' = Append(line, m)
  /\ UNCHANGED <<program, life, state, lock, base, history, patch, annotation, refused>>

\* It is m's turn to take the lock.
Turn(m) == Up /\ pc[m] = "waiting" /\ lock = "free" /\ line # <<>> /\ Head(line) = m

\* Mutated form: only a server that is shutting down turns requests away.
Enter_AcceptBusy(m) ==
  /\ Turn(m)
  /\ line' = Tail(line)
  /\ lock' = m
  /\ pc' = [pc EXCEPT ![m] = "marking"]
  /\ SetState(m, "busy")
  /\ UNCHANGED <<program, life, base, history, annotation, refused>>

\* The lock is taken: 409 unless the agent is idle, and then it is busy.
Enter(m) ==
  /\ Turn(m)
  /\ line' = Tail(line)
  /\ \/ /\ state # "idle"
        /\ pc' = [pc EXCEPT ![m] = "refused"]
        /\ UNCHANGED <<state, lock, patch>>
     \/ /\ state = "idle"
        /\ lock' = m
        /\ pc' = [pc EXCEPT ![m] = "marking"]
        /\ SetState(m, "busy")
  /\ UNCHANGED <<program, life, base, history, annotation, refused>>

\* Mutated form: the lock is kept while the LLM works.
CallModel_KeepLock(m) ==
  /\ Up /\ pc[m] = "marking" /\ patch[m] = "none"
  /\ pc' = [pc EXCEPT ![m] = "thinking"]
  /\ base' = [base EXCEPT ![m] = history]
  /\ UNCHANGED <<program, life, state, lock, line, history, patch, annotation, refused>>

\* The patch is done, the lock is released, the LLM is called.
CallModel(m) ==
  /\ Up /\ pc[m] = "marking" /\ patch[m] = "none"
  /\ lock' = "free"
  /\ pc' = [pc EXCEPT ![m] = "thinking"]
  /\ base' = [base EXCEPT ![m] = history]
  /\ UNCHANGED <<program, life, state, line, history, patch, annotation, refused>>

\* Mutated form: new_messages() in place of all_messages().
Complete_NewOnly(m) ==
  /\ Up /\ pc[m] = "thinking"
  /\ history' = <<m>>
  /\ pc' = [pc EXCEPT ![m] = "answering"]
  /\ SetState(m, "idle")
  /\ UNCHANGED <<program, life, lock, line, base, annotation, refused>>

\* The LLM answers: the history it returns replaces the one there is.  An adapter
\* also answers 200 when the program it calls has failed.
Complete(m) ==
  /\ Up /\ pc[m] = "thinking"
  /\ history' = IF program = "entrypoint" THEN Append(base[m], m) ELSE history
  /\ pc' = [pc EXCEPT ![m] = "answering"]
  /\ SetState(m, "idle")
  /\ UNCHANGED <<program, life, lock, line, base, annotation, refused>>

\* Mutated form: the except branches forget to set the state back.
GiveUp_StayBusy(m) ==
  /\ Up /\ pc[m] = "thinking"
  /\ pc' = [pc EXCEPT ![m] = "failing"]
  /\ UNCHANGED <<program, life, state, lock, line, base, history, patch, annotation, refused>>

\* Timeout (504) or any other exception (502): the history is left as it was.
GiveUp(m) ==
  /\ Up /\ pc[m] = "thinking"
  /\ pc' = [pc EXCEPT ![m] = "failing"]
  /\ SetState(m, "idle")
  /\ UNCHANGED <<program, life, lock, line, base, history, annotation, refused>>

\* The idle patch is done: the response is sent.
Reply(m) ==
  /\ Up /\ pc[m] \in {"answering", "failing"} /\ patch[m] = "none"
  /\ pc' = [pc EXCEPT ![m] = IF @ = "answering" THEN "answered" ELSE "failed"]
  /\ UNCHANGED <<program, life, state, lock, line, base, history, patch, annotation, refused>>

-----------------------------------------------------------------------------
(* The API server.                                                          *)

\* Patches of two writers reach the API server in any order.
Land(w) ==
  /\ patch[w] # "none"
  /\ annotation' = patch[w]
  /\ patch' = [patch EXCEPT ![w] = "none"]
  /\ UNCHANGED <<program, life, state, lock, line, pc, base, history, refused>>

\* _set_state logs the exception and goes on.
Refuse(w) ==
  /\ patch[w] # "none"
  /\ refused < MaxRefused
  /\ refused' = refused + 1
  /\ patch' = [patch EXCEPT ![w] = "none"]
  /\ UNCHANGED <<program, life, state, lock, line, pc, base, history, annotation>>

-----------------------------------------------------------------------------
(* The specification.                                                       *)

Handler(m) == Enter(m) \/ CallModel(m) \/ Complete(m) \/ GiveUp(m) \/ Reply(m)

Next ==
  \/ Serve \/ Terminate \/ Shutdown \/ Exit \/ Die
  \/ \E m \in Messages : Arrive(m) \/ Handler(m)
  \/ \E w \in Writers : Land(w) \/ Refuse(w)

Spec == Init /\ [][Next]_vars

\* The event loop runs what is ready, LLM_TIMEOUT ends every LLM call, and the
\* API server answers every patch.  Nobody has to send a message or a signal.
Fairness ==
  /\ \A m \in Messages : WF_vars(Handler(m))
  /\ \A w \in Writers : WF_vars(Land(w) \/ Refuse(w))

FairSpec == Spec /\ Fairness

-----------------------------------------------------------------------------
(* Properties.                                                              *)

\* The LLM works on one message at a time, although the lock is released
\* before the LLM is called.
OneAtATime == Cardinality({m \in Messages : pc[m] \in {"marking", "thinking"}}) <= 1

\* The conversation is exactly the messages that were answered, each once: no
\* answer is computed from a history that another answer then overwrites.
HistoryIsAnswers ==
  program = "entrypoint" =>
    /\ IsInjective(history)
    /\ ToSet(history) = {m \in Messages : pc[m] \in {"answering", "answered"}}

\* With no patch on its way and none refused, the annotation of a serving adapter
\* is its state.  (That of entrypoint.py need not be: its patches may overlap.)
TellsState ==
  life = "serving" /\ refused = 0 /\ ~Patching => annotation = state

AdapterTellsState == program = "adapter" => TellsState

\* A server that shuts down by itself leaves "finished" on its pod, unless a
\* patch was refused: no idle or busy of a request comes after it.
ExitSaysFinished == life = "exited" /\ refused = 0 => annotation = "finished"

\* "finished" is the last word, also when the process is killed: what
\* SessionOperator assumes of the annotations of its environment.
FinishedIsLastWord == [][annotation = "finished" => annotation' = "finished"]_vars

\* Every request is answered, unless the process is killed first.
RequestsAnswered ==
  \A m \in Messages :
    InHand(m) ~> pc[m] \in {"answered", "failed", "refused"} \/ life = "killed"

\* The agent does not stay busy: timeouts and exceptions make it idle again.
BusyEnds == state = "busy" ~> state # "busy" \/ life = "killed"

=============================================================================
