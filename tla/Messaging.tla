------------------------------- MODULE Messaging -------------------------------
(***************************************************************************)
(* The way of a message to the agent of one session, on top of AgentServer:   *)
(* send_message of services/sessions.py for the users of the API and the CLI,  *)
(* and the Telegram and WhatsApp webhooks of webhook/gateway.py.               *)
(*                                                                         *)
(* A sender has texts to send, one after another.  A user of the API who is    *)
(* told 409 sends the text again, and goes on to the next text after any other *)
(* answer; the gateway takes the texts of one notification in turn and never   *)
(* sends one again.  Every attempt is a request of its own to the agent.       *)
(***************************************************************************)
EXTENDS AgentServer

CONSTANTS
  Users,        \* senders that use the API
  Webhooks,     \* notifications the gateway handles
  UserTexts,    \* bound: texts a user has to say
  WebhookTexts  \* bound: texts of one notification

ASSUME SendersAssumption == Users \cap Webhooks = {}
ASSUME TextsAssumption == UserTexts \in Nat /\ WebhookTexts \in Nat

Senders == Users \cup Webhooks

TextsOf(c) == IF c \in Users THEN UserTexts ELSE WebhookTexts

VARIABLES
  turn,    \* turn[c]: the text sender c is at
  call     \* call[m]: the attempt that uses request m

msgVars == <<vars, turn, call>>

\* Where an attempt is: the next call, or the answer it ended with.
Running == {"locate", "post", "posted"}

Answers == {"200", "409", "500", "502", "504"}

Attempts == [by : Senders \cup {"nobody"}, text : Nat, at : Running \cup Answers \cup {"unused"}]

Unused == [by |-> "nobody", text |-> 0, at |-> "unused"]

MsgTypeOK ==
  /\ TypeOK
  /\ turn \in [Senders -> Nat \ {0}]
  /\ call \in [Messages -> Attempts]
  /\ \A m \in Messages :
       call[m] = Unused \/ (call[m].by \in Senders /\ call[m].text \in 1 .. TextsOf(call[m].by))

MsgInit ==
  /\ Init
  /\ turn = [c \in Senders |-> 1]
  /\ call = [m \in Messages |-> Unused]

-----------------------------------------------------------------------------
(* Building blocks.                                                         *)

Pending(c) == {m \in Messages : call[m].by = c /\ call[m].at \in Running}

MoveTo(m, step) == call' = [call EXCEPT ![m].at = step]

\* The attempt ends, and a sender that will not repeat it goes on.
End(m, answer) ==
  LET c == call[m].by
  IN  /\ MoveTo(m, answer)
      /\ turn' = [turn EXCEPT ![c] = IF c \in Users /\ answer = "409" THEN @ ELSE @ + 1]

-----------------------------------------------------------------------------
(* send_message and _forward_to_agent.                                       *)

\* A new attempt takes any request that is not used.
Send(c) ==
  /\ turn[c] <= TextsOf(c)
  /\ Pending(c) = {}
  /\ \E m \in Messages : call[m] = Unused
  /\ LET m == CHOOSE m \in Messages : call[m] = Unused
     IN  call' = [call EXCEPT ![m] = [by |-> c, text |-> turn[c], at |-> "locate"]]
  /\ UNCHANGED <<vars, turn>>

\* For a user, the status of the session's CR, which says anything by now: 409 unless
\* it is Idle or Busy.  Then the address of the pod: 502 if there is none, or if a
\* call fails.  The gateway knows the name of the pod without the CR.
Locate(m) ==
  /\ call[m].at = "locate"
  /\ \/ MoveTo(m, "post") /\ UNCHANGED turn
     \/ call[m].by \in Users /\ End(m, "409")
     \/ End(m, "502")
  /\ UNCHANGED vars

Post(m) ==
  /\ call[m].at = "post"
  /\ Arrive(m)
  /\ MoveTo(m, "posted")
  /\ UNCHANGED turn

\* Nobody listens at the address, or the tunnel is not up: 502, or 504 if nothing at
\* all answers.
PostFails(m) ==
  /\ call[m].at = "post"
  /\ life # "serving"
  /\ End(m, "502") \/ End(m, "504")
  /\ UNCHANGED vars

\* Mutated form: any answer of the agent counts as its response.
Heard_AnyIsOk(step) == IF step = "refused" THEN "409" ELSE "200"

\* The agent's 504 and 502 are one and the same to a user; the gateway drops both.
Heard(step) ==
  CASE step = "answered" -> "200"
    [] step = "refused"  -> "409"
    [] OTHER             -> "502"

Hear(m) ==
  /\ call[m].at = "posted"
  /\ pc[m] \in {"answered", "refused", "failed"}
  /\ End(m, Heard(pc[m]))
  /\ UNCHANGED vars

\* Mutated form: a timeout is told as "the agent is busy".
TimeOut_IsBusy(m) ==
  /\ call[m].at = "posted"
  /\ End(m, "409")
  /\ UNCHANGED vars

\* Mutated form: the client waits for ever.
TimeOut_Never(m) == FALSE /\ UNCHANGED msgVars

\* The client's own timeout; the agent does not notice.
TimeOut(m) ==
  /\ call[m].at = "posted"
  /\ End(m, "504")
  /\ UNCHANGED vars

\* The connection breaks: send_message does not catch it, the gateway does.
Broken(m) ==
  /\ call[m].at = "posted" /\ life = "killed"
  /\ End(m, IF call[m].by \in Users THEN "500" ELSE "502")
  /\ UNCHANGED vars

-----------------------------------------------------------------------------
(* The specification.                                                       *)

\* Steps of the agent; its requests arrive only from Post.
AgentStep ==
  \/ Serve \/ Terminate \/ Shutdown \/ Exit \/ Die
  \/ \E m \in Messages : Handler(m)
  \/ \E w \in Writers : Land(w) \/ Refuse(w)

Attempt(m) ==
  Locate(m) \/ Post(m) \/ PostFails(m) \/ Hear(m) \/ TimeOut(m) \/ Broken(m)

MsgNext ==
  \/ \E c \in Senders : Send(c)
  \/ \E m \in Messages : Attempt(m)
  \/ AgentStep /\ UNCHANGED <<turn, call>>

MsgSpec == MsgInit /\ [][MsgNext]_msgVars

\* The API and the gateway run, and their clients time out.  Nothing is assumed of
\* the agent: not that the LLM answers, nor that a patch does.
MsgFairSpec == MsgSpec /\ \A m \in Messages : WF_msgVars(Attempt(m))

-----------------------------------------------------------------------------
(* Properties.                                                              *)

\* What one sender says stands in the conversation in the order it was sent, and
\* no text twice, although answers come late, senders give up and texts are sent
\* again after a 409: a 409 means that the agent has not taken the text.
InOrderOnce ==
  \A i, j \in DOMAIN history :
    LET a == call[history[i]]
        b == call[history[j]]
    IN  i < j /\ a.by = b.by => a.text < b.text

\* A sender that was answered 200 is remembered: its text is in the conversation,
\* and stays there, whatever other messages the agent answers.
AnsweredIsRemembered ==
  program = "entrypoint" =>
    \A m \in Messages : call[m].at = "200" => m \in ToSet(history)

\* Every attempt is answered, also when the agent hangs or dies.
SendersAnswered == \A m \in Messages : call[m].at \in Running ~> call[m].at \in Answers

=============================================================================
