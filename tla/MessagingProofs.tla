--------------------------- MODULE MessagingProofs ---------------------------
(***************************************************************************)
(* What senders do is what AgentServer allows, so that its theorems hold       *)
(* beneath Messaging; an answer of 200 is never forgotten; and the texts of a  *)
(* sender are in order on their whole way, at the lock, in work and in the     *)
(* conversation.                                                           *)
(***************************************************************************)
EXTENDS Messaging, AgentServerProofs

\* Every step is a step of the agent, or one the agent does not see.
LEMMA AgentsStep == [MsgNext]_msgVars => [Next]_vars
<1> SUFFICES ASSUME [MsgNext]_msgVars PROVE [Next]_vars
  OBVIOUS
<1>1. CASE UNCHANGED msgVars
  BY <1>1 DEF msgVars
<1>2. ASSUME NEW c \in Senders, Send(c)
      PROVE  UNCHANGED vars
  BY <1>2 DEF Send, vars
<1>3. ASSUME NEW m \in Messages, Attempt(m)
      PROVE  Arrive(m) \/ UNCHANGED vars
  BY <1>3 DEF Attempt, Locate, Post, PostFails, Hear, TimeOut, Broken
<1>4. CASE AgentStep
  BY <1>4 DEF AgentStep, Next
<1> QED BY <1>1, <1>2, <1>3, <1>4 DEF MsgNext, Next

\* The conversation of the agent beneath the senders is the answered messages, as it is
\* for the agent alone: nothing that API or gateway do can break it.
THEOREM AgentBeneath == MsgSpec => Spec
<1>1. MsgInit => Init
  BY DEF MsgInit
<1> QED BY <1>1, AgentsStep, PTL DEF MsgSpec, Spec

-----------------------------------------------------------------------------
(* Types.                                                                   *)

\* The attempt that ends belongs to a sender, who may go on.
LEMMA EndTyped ==
  ASSUME MsgTypeOK, NEW m \in Messages, call[m].at \in Running, NEW answer \in Answers, End(m, answer)
  PROVE  /\ turn' \in [Senders -> Nat \ {0}]
         /\ call' = [call EXCEPT ![m].at = answer]
<1>1. call[m].by \in Senders
  BY DEF MsgTypeOK, Unused, Running
<1> QED BY <1>1 DEF End, MoveTo, MsgTypeOK

\* Going on, or ending, leaves the sender and the text of an attempt alone.
LEMMA CallTyped ==
  ASSUME MsgTypeOK, NEW m \in Messages, call[m].at \in Running,
         NEW step \in Running \cup Answers, call' = [call EXCEPT ![m].at = step]
  PROVE  /\ call' \in [Messages -> Attempts]
         /\ \A n \in Messages :
              \/ call'[n] = Unused
              \/ call'[n].by \in Senders /\ call'[n].text \in 1 .. TextsOf(call'[n].by)
<1>1. call[m] # Unused /\ call[m] \in Attempts
  BY DEF MsgTypeOK, Unused, Running
<1>2. call' = [call EXCEPT ![m] = [call[m] EXCEPT !.at = step]]
  OBVIOUS
<1>3. /\ [call[m] EXCEPT !.at = step] \in Attempts
      /\ [call[m] EXCEPT !.at = step].by = call[m].by /\ [call[m] EXCEPT !.at = step].text = call[m].text
  BY <1>1 DEF Attempts
<1> QED BY <1>1, <1>2, <1>3 DEF MsgTypeOK

LEMMA MsgTypesKept == MsgTypeOK /\ [MsgNext]_msgVars => MsgTypeOK'
<1> SUFFICES ASSUME MsgTypeOK, [MsgNext]_msgVars PROVE MsgTypeOK'
  OBVIOUS
<1>0. TypeOK'
  BY AgentsStep, TypesKept DEF MsgTypeOK
<1>a. ASSUME NEW m \in Messages, call[m].at \in Running,
             \/ \E step \in Running : MoveTo(m, step) /\ UNCHANGED turn
             \/ \E answer \in Answers : End(m, answer)
      PROVE  MsgTypeOK'
  <2>1. CASE \E step \in Running : MoveTo(m, step) /\ UNCHANGED turn
    BY <1>0, <1>a, <2>1, CallTyped DEF MoveTo, MsgTypeOK
  <2>2. CASE \E answer \in Answers : End(m, answer)
    BY <1>0, <1>a, <2>2, EndTyped, CallTyped DEF MsgTypeOK
  <2> QED BY <1>a, <2>1, <2>2
<1>1. CASE UNCHANGED <<turn, call>>
  BY <1>0, <1>1 DEF MsgTypeOK
<1>2. ASSUME NEW c \in Senders, Send(c)
      PROVE  MsgTypeOK'
  <2> DEFINE new == [by |-> c, text |-> turn[c], at |-> "locate"]
  <2>1. PICK m \in Messages : call' = [call EXCEPT ![m] = new]
    BY <1>2 DEF Send
  <2>2. turn[c] \in 1 .. TextsOf(c) /\ TextsOf(c) \in Nat /\ turn' = turn
    BY <1>2, TextsAssumption DEF Send, MsgTypeOK, TextsOf
  <2>3. new \in Attempts
    BY <2>2 DEF Attempts, Running
  <2>4. \A n \in Messages : call'[n] = IF n = m THEN new ELSE call[n]
    BY <2>1 DEF MsgTypeOK
  <2>5. call' \in [Messages -> Attempts]
    BY <2>1, <2>3 DEF MsgTypeOK
  <2> QED BY <1>0, <2>2, <2>4, <2>5 DEF MsgTypeOK
<1>3. ASSUME NEW m \in Messages, Attempt(m)
      PROVE  MsgTypeOK'
  BY <1>a, <1>3 DEF Attempt, Locate, Post, PostFails, Hear, Heard, TimeOut, Broken, Running, Answers
<1> QED BY <1>1, <1>2, <1>3 DEF MsgNext, msgVars

\* Senders, their texts and their attempts keep their types.
THEOREM MsgTypeCorrect == MsgSpec => []MsgTypeOK
<1>1. MsgInit => MsgTypeOK
  <2> SUFFICES ASSUME MsgInit PROVE MsgTypeOK
    OBVIOUS
  <2>1. TypeOK
    BY Initially DEF MsgInit, AgentInv
  <2>2. Unused \in Attempts
    BY DEF Unused, Attempts
  <2>3. turn \in [Senders -> Nat \ {0}] /\ call \in [Messages -> Attempts]
    BY <2>2 DEF MsgInit
  <2>4. \A m \in Messages : call[m] = Unused
    BY DEF MsgInit
  <2> QED BY <2>1, <2>3, <2>4 DEF MsgTypeOK
<1> QED BY <1>1, MsgTypesKept, PTL DEF MsgSpec

-----------------------------------------------------------------------------
(* Answers.                                                                  *)

\* Who was told 200 was answered by the agent.
ToldTruth == \A m \in Messages : call[m].at = "200" => pc[m] = "answered"

LEMMA ToldKept == MsgTypeOK /\ ToldTruth /\ [MsgNext]_msgVars => ToldTruth'
<1> SUFFICES ASSUME MsgTypeOK, ToldTruth, [MsgNext]_msgVars PROVE ToldTruth'
  OBVIOUS
<1>1. \A m \in Messages : pc[m] = "answered" => pc'[m] = "answered"
  BY AgentsStep DEF MsgTypeOK, TypeOK, Next, Handler, vars, Serve, Terminate, Shutdown, Exit, Die,
     Arrive, Enter, Turn, CallModel, Complete, GiveUp, Reply, Land, Refuse
<1>2. CASE UNCHANGED call
  BY <1>1, <1>2 DEF ToldTruth
<1>3. ASSUME NEW c \in Senders, Send(c)
      PROVE  ToldTruth'
  BY <1>1, <1>3 DEF Send, ToldTruth, MsgTypeOK
<1>4. ASSUME NEW m \in Messages, Attempt(m)
      PROVE  ToldTruth'
  <2>1. PICK step \in Running \cup Answers :
          call' = [call EXCEPT ![m].at = step] /\ (step = "200" => pc[m] = "answered")
    BY <1>4 DEF Attempt, Locate, Post, PostFails, Hear, Heard, TimeOut, Broken, End, MoveTo, Running, Answers
  <2>2. \A n \in Messages : n # m => call'[n] = call[n]
    BY <2>1 DEF MsgTypeOK
  <2>3. call'[m].at = step
    BY <2>1 DEF MsgTypeOK, Attempts
  <2> QED BY <1>1, <2>1, <2>2, <2>3 DEF ToldTruth
<1> QED BY <1>2, <1>3, <1>4 DEF MsgNext, msgVars

\* A sender that send_message or the gateway answered 200 stands in the conversation of
\* the agent for ever, for any number of senders and messages.
THEOREM NothingForgotten == MsgSpec => []AnsweredIsRemembered
<1>1. MsgInit => ToldTruth
  BY DEF MsgInit, ToldTruth, Unused
<1>2. HistoryIsAnswers /\ ToldTruth => AnsweredIsRemembered
  BY DEF HistoryIsAnswers, ToldTruth, AnsweredIsRemembered
<1> QED BY <1>1, <1>2, ToldKept, MsgTypeCorrect, AgentBeneath, HistoryIsComplete, PTL DEF MsgSpec

-----------------------------------------------------------------------------
(* The order of the conversation.                                            *)

\* What m says comes before what n says, if one sender says both.
Ahead(m, n) == call[m].by = call[n].by => call[m].text < call[n].text

\* The same of the attempts as a step leaves them.
AheadThen(m, n) == call'[m].by = call'[n].by => call'[m].text < call'[n].text

\* The order of the texts on their way through the agent: those that are answered, then
\* the one that is worked on, then those that wait for the lock.
InOrder ==
  /\ \A i, j \in DOMAIN history : i < j => Ahead(history[i], history[j])
  /\ \A i \in DOMAIN history, n \in Messages : Active(n) => Ahead(history[i], n)
  /\ \A i \in DOMAIN history, j \in DOMAIN line : Ahead(history[i], line[j])
  /\ \A m \in Messages, j \in DOMAIN line : Active(m) => Ahead(m, line[j])
  /\ \A i, j \in DOMAIN line : i < j => Ahead(line[i], line[j])

\* Who waits for the lock is there once, and an adapter has no history.
Places ==
  /\ \A j \in DOMAIN line : pc[line[j]] = "waiting"
  /\ \A i, j \in DOMAIN line : i < j => line[i] # line[j]
  /\ program = "adapter" => history = <<>>

\* A sender has one attempt at a time, at the text it is at.  An attempt that is over was
\* at an earlier text, unless it was told 409: then the agent has not taken it.
Accounts ==
  /\ \A m \in Messages :
       /\ pc[m] # "unsent" => call[m].at \in {"posted"} \cup Answers
       /\ call[m].at = "409" => pc[m] \in {"unsent", "refused"}
       /\ call[m].at \in Running => call[m].text = turn[call[m].by]
       /\ call[m].at \in Answers \ {"409"} => call[m].text < turn[call[m].by]
  /\ \A m, n \in Messages :
       call[m].at \in Running /\ call[n].at \in Running /\ call[m].by = call[n].by => m = n

\* What is left of a line when its head is gone.
LEMMA TailIs ==
  ASSUME NEW S, NEW s \in Seq(S), s # <<>>
  PROVE  /\ 1 \in DOMAIN s /\ Head(s) = s[1]
         /\ \A j \in DOMAIN Tail(s) : j \in Nat /\ j + 1 \in DOMAIN s /\ j + 1 > 1 /\ Tail(s)[j] = s[j + 1]
OBVIOUS

\* A line that grows.
LEMMA AppendIs ==
  ASSUME NEW S, NEW s \in Seq(S), NEW e \in S
  PROVE  \A j \in DOMAIN Append(s, e) :
           \/ j \in DOMAIN s /\ Append(s, e)[j] = s[j]
           \/ j \notin DOMAIN s /\ Append(s, e)[j] = e /\ \A i \in DOMAIN s : i < j
OBVIOUS

LEMMA PlacesKept == TypeOK /\ Places /\ [Next]_vars => Places'
<1> SUFFICES ASSUME TypeOK, Places, [Next]_vars PROVE Places'
  OBVIOUS
<1>0. line \in Seq(Messages) /\ pc \in [Messages -> Steps] /\ \A j \in DOMAIN line : line[j] \in Messages
  BY DEF TypeOK
<1>a. ASSUME UNCHANGED <<program, line, pc, history>>
      PROVE  Places'
  BY <1>a DEF Places
<1>b. ASSUME NEW m \in Messages, NEW step, pc[m] # "waiting", pc' = [pc EXCEPT ![m] = step],
             UNCHANGED <<program, line>>, program = "adapter" => history' = history
      PROVE  Places'
  BY <1>0, <1>b DEF Places
<1>1. CASE Serve \/ Terminate \/ Shutdown \/ Exit \/ Die \/ UNCHANGED vars
  BY <1>a, <1>1 DEF Serve, Terminate, Shutdown, Exit, Die, vars
<1>2. ASSUME NEW m \in Messages, Arrive(m)
      PROVE  Places'
  <2>1. /\ line' = Append(line, m) /\ pc' = [pc EXCEPT ![m] = "waiting"] /\ pc[m] = "unsent"
        /\ UNCHANGED <<program, history>>
    BY <1>2 DEF Arrive
  <2>2. \A j \in DOMAIN line : line[j] # m
    BY <2>1 DEF Places
  <2>3. \A j \in DOMAIN line' :
          \/ j \in DOMAIN line /\ line'[j] = line[j]
          \/ j \notin DOMAIN line /\ line'[j] = m /\ \A i \in DOMAIN line : i < j
    BY <1>0, <2>1, AppendIs
  <2>4. \A i, j \in DOMAIN line' : i \in Nat /\ j \in Nat
    BY <1>0, <2>1
  <2>5. \A j \in DOMAIN line' : pc'[line'[j]] = "waiting"
    BY <1>0, <2>1, <2>3 DEF Places
  <2>6. \A i, j \in DOMAIN line' : i < j => line'[i] # line'[j]
    <3> SUFFICES ASSUME NEW i \in DOMAIN line', NEW j \in DOMAIN line', i < j PROVE line'[i] # line'[j]
      OBVIOUS
    <3>1. CASE j \in DOMAIN line
      <4>1. i \in DOMAIN line
        BY <2>3, <2>4, <3>1
      <4> QED BY <2>3, <3>1, <4>1 DEF Places
    <3>2. CASE j \notin DOMAIN line
      <4>1. i \in DOMAIN line
        BY <1>0, <2>1, <3>2
      <4> QED BY <2>2, <2>3, <3>2, <4>1
    <3> QED BY <3>1, <3>2
  <2> QED BY <2>1, <2>5, <2>6 DEF Places
<1>3. ASSUME NEW m \in Messages, Enter(m)
      PROVE  Places'
  <2>1. PICK step : /\ pc' = [pc EXCEPT ![m] = step] /\ line' = Tail(line) /\ line # <<>> /\ Head(line) = m
                    /\ UNCHANGED <<program, history>>
    BY <1>3 DEF Enter, Turn
  <2>2. /\ 1 \in DOMAIN line /\ line[1] = m
        /\ \A j \in DOMAIN line' : j \in Nat /\ j + 1 \in DOMAIN line /\ j + 1 > 1 /\ line'[j] = line[j + 1]
    BY <1>0, <2>1, TailIs
  <2>3. \A j \in DOMAIN line' : line'[j] # m
    BY <2>2 DEF Places
  <2>4. \A j \in DOMAIN line' : pc'[line'[j]] = "waiting"
    BY <1>0, <2>1, <2>2, <2>3 DEF Places
  <2>5. \A i, j \in DOMAIN line' : i < j => line'[i] # line'[j]
    BY <2>2 DEF Places
  <2> QED BY <2>1, <2>4, <2>5 DEF Places
<1>4. ASSUME NEW m \in Messages, CallModel(m) \/ Complete(m) \/ GiveUp(m) \/ Reply(m)
      PROVE  Places'
  BY <1>b, <1>4 DEF CallModel, Complete, GiveUp, Reply
<1>5. ASSUME NEW w \in Writers, Land(w) \/ Refuse(w)
      PROVE  Places'
  BY <1>a, <1>5 DEF Land, Refuse
<1> QED BY <1>1, <1>2, <1>3, <1>4, <1>5 DEF Next, Handler

\* What the agent does to a request: it is not unsent again, and a 409 is final.
LEMMA AgentGoesOn ==
  ASSUME TypeOK, AgentStep \/ UNCHANGED vars
  PROVE  \A m \in Messages : /\ pc'[m] # "unsent" => pc[m] # "unsent"
                             /\ pc[m] \in {"unsent", "refused"} => pc'[m] = pc[m] \/ pc'[m] = "refused"
BY DEF TypeOK, AgentStep, Handler, vars, Serve, Terminate, Shutdown, Exit, Die, Enter, Turn,
       CallModel, Complete, GiveUp, Reply, Land, Refuse

LEMMA AccountsKept == MsgTypeOK /\ Accounts /\ [MsgNext]_msgVars => Accounts'
<1> SUFFICES ASSUME MsgTypeOK, Accounts, [MsgNext]_msgVars PROVE Accounts'
  OBVIOUS
<1>0. /\ TypeOK /\ call \in [Messages -> Attempts] /\ turn \in [Senders -> Nat \ {0}]
      /\ \A m \in Messages : call[m] = Unused \/ call[m].by \in Senders
  BY DEF MsgTypeOK
<1>1. CASE (AgentStep \/ UNCHANGED vars) /\ UNCHANGED <<turn, call>>
  BY <1>0, <1>1, AgentGoesOn DEF Accounts
<1>2. ASSUME NEW c \in Senders, Send(c)
      PROVE  Accounts'
  <2> DEFINE new == [by |-> c, text |-> turn[c], at |-> "locate"]
  <2>1. PICK m \in Messages : call[m] = Unused /\ call' = [call EXCEPT ![m] = new]
    BY <1>2 DEF Send
  <2>2. /\ call'[m] = new /\ \A n \in Messages : n # m => call'[n] = call[n]
        /\ UNCHANGED <<pc, turn>>
    BY <1>0, <1>2, <2>1 DEF Send, vars
  <2>3. \A n \in Messages : call[n].at \in Running => call[n].by # c
    BY <1>2 DEF Send, Pending
  <2>4. pc[m] = "unsent"
    BY <2>1 DEF Accounts, Unused, Answers
  <2>5. new.at = "locate" /\ new.by = c /\ new.text = turn[c] /\ "locate" \in Running /\ "locate" \notin Answers
    BY DEF Running, Answers
  <2>6. ASSUME NEW n \in Messages
        PROVE  /\ pc'[n] # "unsent" => call'[n].at \in {"posted"} \cup Answers
               /\ call'[n].at = "409" => pc'[n] \in {"unsent", "refused"}
               /\ call'[n].at \in Running => call'[n].text = turn'[call'[n].by]
               /\ call'[n].at \in Answers \ {"409"} => call'[n].text < turn'[call'[n].by]
    BY <2>2, <2>4, <2>5 DEF Accounts
  <2>7. ASSUME NEW n \in Messages, NEW l \in Messages,
               call'[n].at \in Running, call'[l].at \in Running, call'[n].by = call'[l].by
        PROVE  n = l
    BY <2>2, <2>3, <2>5, <2>7 DEF Accounts
  <2> QED BY <2>6, <2>7 DEF Accounts
<1>3. ASSUME NEW m \in Messages, Attempt(m)
      PROVE  Accounts'
  <2>0. call[m].at \in Running /\ call[m].by \in Senders
    BY <1>0, <1>3 DEF Attempt, Locate, Post, PostFails, Hear, TimeOut, Broken, Running, Unused
  <2>1. CASE \E step \in Running : /\ MoveTo(m, step) /\ UNCHANGED turn
                                  /\ \/ UNCHANGED pc /\ call[m].at = "locate"
                                     \/ step = "posted" /\ pc' = [pc EXCEPT ![m] = "waiting"]
    <3>1. PICK step \in Running : /\ MoveTo(m, step) /\ UNCHANGED turn
                                  /\ \/ UNCHANGED pc /\ call[m].at = "locate"
                                     \/ step = "posted" /\ pc' = [pc EXCEPT ![m] = "waiting"]
      BY <2>1
    <3>2. /\ call'[m] = [call[m] EXCEPT !.at = step] /\ \A n \in Messages : n # m => call'[n] = call[n]
      BY <1>0, <3>1 DEF MoveTo
    <3>3. call'[m].by = call[m].by /\ call'[m].text = call[m].text /\ call'[m].at = step
      BY <1>0, <3>2 DEF Attempts
    <3>4. /\ pc'[m] # "unsent" => step = "posted"
          /\ \A n \in Messages : n # m => pc'[n] = pc[n]
      BY <1>0, <3>1 DEF Accounts, TypeOK, Answers
    <3>5. step \notin Answers
      BY DEF Running, Answers
    <3>6. ASSUME NEW n \in Messages
          PROVE  /\ pc'[n] # "unsent" => call'[n].at \in {"posted"} \cup Answers
                 /\ call'[n].at = "409" => pc'[n] \in {"unsent", "refused"}
                 /\ call'[n].at \in Running => call'[n].text = turn'[call'[n].by]
                 /\ call'[n].at \in Answers \ {"409"} => call'[n].text < turn'[call'[n].by]
      <4>1. CASE n = m
        BY <2>0, <3>1, <3>3, <3>4, <3>5, <4>1 DEF Accounts, Answers
      <4>2. CASE n # m
        BY <3>1, <3>2, <3>4, <4>2 DEF Accounts
      <4> QED BY <4>1, <4>2
    <3>7. \A n \in Messages : call'[n].at \in Running => call[n].at \in Running /\ call'[n].by = call[n].by
      BY <2>0, <3>2, <3>3
    <3> QED BY <3>6, <3>7 DEF Accounts
  <2>2. CASE \E answer \in Answers : /\ End(m, answer) /\ UNCHANGED pc
                                     /\ answer = "409" => pc[m] \in {"unsent", "refused"}
    <3>1. PICK answer \in Answers : /\ End(m, answer) /\ UNCHANGED pc
                                    /\ answer = "409" => pc[m] \in {"unsent", "refused"}
      BY <2>2
    <3>2. /\ call'[m] = [call[m] EXCEPT !.at = answer] /\ \A n \in Messages : n # m => call'[n] = call[n]
      BY <1>0, <3>1 DEF End, MoveTo
    <3>3. call'[m].by = call[m].by /\ call'[m].text = call[m].text /\ call'[m].at = answer
      BY <1>0, <3>2 DEF Attempts
    <3>4. answer \notin Running
      BY DEF Running, Answers
    <3>5. /\ \A c \in Senders : turn'[c] >= turn[c] /\ (c # call[m].by => turn'[c] = turn[c])
          /\ answer # "409" => turn'[call[m].by] = turn[call[m].by] + 1
      BY <1>0, <2>0, <3>1 DEF End
    <3>6. ASSUME NEW n \in Messages
          PROVE  /\ pc'[n] # "unsent" => call'[n].at \in {"posted"} \cup Answers
                 /\ call'[n].at = "409" => pc'[n] \in {"unsent", "refused"}
                 /\ call'[n].at \in Running => call'[n].text = turn'[call'[n].by]
                 /\ call'[n].at \in Answers \ {"409"} => call'[n].text < turn'[call'[n].by]
      <4>0. /\ \A c \in Senders : turn[c] \in Nat /\ turn'[c] \in Nat
            /\ \A l \in Messages : call[l].text \in Nat
        BY <1>0, <2>0, <3>1 DEF Attempts, End
      <4>1. CASE n = m
        BY <2>0, <3>1, <3>3, <3>4, <3>5, <4>0, <4>1 DEF Accounts
      <4>2. CASE n # m
        <5>1. call'[n] = call[n] /\ pc'[n] = pc[n]
          BY <3>1, <3>2, <4>2
        <5>2. call[n].at \in Running \cup Answers => call[n].by \in Senders
          BY <1>0 DEF Unused, Running, Answers
        <5>3. call[n].at \in Running => call[n].by # call[m].by
          BY <2>0, <4>2 DEF Accounts
        <5> QED BY <3>5, <4>0, <5>1, <5>2, <5>3 DEF Accounts
      <4> QED BY <4>1, <4>2
    <3>7. \A n \in Messages : call'[n].at \in Running => call[n].at \in Running /\ call'[n].by = call[n].by
      BY <3>2, <3>3, <3>4
    <3> QED BY <3>6, <3>7 DEF Accounts
  <2> QED BY <1>0, <1>3, <2>1, <2>2 DEF Accounts, Attempt, Locate, Post, Arrive, PostFails, Hear, Heard, TimeOut,
             Broken, Running, Answers, vars
<1> QED BY <1>1, <1>2, <1>3 DEF MsgNext, msgVars

\* Sender and text of an attempt the agent has heard of do not change.
LEMMA TextsStay ==
  ASSUME MsgTypeOK, Accounts, [MsgNext]_msgVars
  PROVE  \A m \in Messages : pc[m] # "unsent" => call'[m].by = call[m].by /\ call'[m].text = call[m].text
<1>1. CASE UNCHANGED call
  BY <1>1
<1>2. ASSUME NEW c \in Senders, Send(c), NEW m \in Messages, pc[m] # "unsent"
      PROVE  call'[m] = call[m]
  <2>1. call[m] # Unused
    BY <1>2 DEF Accounts, Unused, Answers
  <2> QED BY <1>2, <2>1 DEF Send, MsgTypeOK
<1>3. ASSUME NEW m \in Messages, Attempt(m)
      PROVE  \A n \in Messages : call'[n].by = call[n].by /\ call'[n].text = call[n].text
  <2>1. PICK step : call' = [call EXCEPT ![m].at = step]
    BY <1>3 DEF Attempt, Locate, Post, PostFails, Hear, TimeOut, Broken, End, MoveTo
  <2>2. call[m] \in Attempts /\ call' = [call EXCEPT ![m] = [call[m] EXCEPT !.at = step]]
    BY <2>1 DEF MsgTypeOK
  <2> QED BY <2>2 DEF MsgTypeOK, Attempts
<1> QED BY <1>1, <1>2, <1>3 DEF MsgNext, msgVars

\* What a request that is just posted says comes after all the agent has taken.
LEMMA PostedIsLast ==
  ASSUME MsgTypeOK, Accounts, NEW m \in Messages, call[m].at = "post",
         NEW n \in Messages, pc[n] \notin {"unsent", "refused"}
  PROVE  Ahead(n, m)
<1>1. "post" \in Running /\ "posted" \in Running /\ "post" \notin Answers /\ "post" # "posted"
  BY DEF Running, Answers
<1>2. pc[n] # "unsent" /\ call[n].at \in {"posted"} \cup Answers /\ call[n].at # "409" /\ n # m
  BY <1>1 DEF Accounts
<1>3. call[m].text = turn[call[m].by]
  BY <1>1 DEF Accounts
<1> QED BY <1>1, <1>2, <1>3 DEF Accounts, Ahead

\* Who stands in the conversation is answered.
LEMMA HistoryIs ==
  ASSUME TypeOK, HistoryKept, Places
  PROVE  /\ \A i \in DOMAIN history : history[i] \in Messages /\ pc[history[i]] \in {"answering", "answered"}
         /\ \A j \in DOMAIN line : line[j] \in Messages /\ pc[line[j]] = "waiting"
<1>1. line \in Seq(Messages) /\ history \in Seq(Messages)
  BY DEF TypeOK
<1>2. CASE program = "adapter"
  BY <1>1, <1>2 DEF Places
<1>3. CASE program = "entrypoint"
  <2>1. \A i \in DOMAIN history : history[i] \in ToSet(history)
    BY DEF ToSet
  <2> QED BY <1>1, <1>3, <2>1 DEF HistoryKept, Places
<1> QED BY <1>2, <1>3, ProgramsAssumption DEF TypeOK

\* The history an answer leaves: the one there was, and for entrypoint.py the message.
LEMMA AnswerAdds ==
  ASSUME TypeOK, HistoryKept, NEW m \in Messages, Complete(m)
  PROVE  history' = history \/ history' = Append(history, m)
BY ProgramsAssumption DEF TypeOK, HistoryKept, Complete

LEMMA OrderKept ==
  ASSUME MsgTypeOK, ActiveIsBusy, HistoryKept, Places, Accounts, InOrder, [MsgNext]_msgVars
  PROVE  InOrder'
<1>0. /\ TypeOK /\ line \in Seq(Messages) /\ history \in Seq(Messages) /\ pc \in [Messages -> Steps]
      /\ \A i \in DOMAIN history : history[i] \in Messages /\ pc[history[i]] \in {"answering", "answered"}
      /\ \A j \in DOMAIN line : line[j] \in Messages /\ pc[line[j]] = "waiting"
  BY HistoryIs DEF MsgTypeOK, TypeOK
<1>1. \A m, n \in Messages :
        pc[m] # "unsent" /\ pc[n] # "unsent" /\ Ahead(m, n) => AheadThen(m, n)
  BY TextsStay DEF Ahead, AheadThen
<1>2. \A i \in DOMAIN history : pc[history[i]] # "unsent"
  BY <1>0
<1>3. \A j \in DOMAIN line : pc[line[j]] # "unsent"
  BY <1>0
<1>4. \A m \in Messages : Active(m) => pc[m] # "unsent"
  BY DEF Active
<1>a. ASSUME UNCHANGED <<line, history>>, \A m \in Messages : Active(m)' => Active(m)
      PROVE  InOrder'
  BY <1>0, <1>1, <1>2, <1>3, <1>4, <1>a DEF InOrder, Ahead, AheadThen
<1>b. CASE UNCHANGED <<line, history, pc>>
  BY <1>a, <1>b DEF Active
<1>5. ASSUME NEW m \in Messages, Post(m)
      PROVE  InOrder'
  <2>1. /\ line' = Append(line, m) /\ pc' = [pc EXCEPT ![m] = "waiting"] /\ history' = history
        /\ call[m].at = "post" /\ pc[m] = "unsent"
    BY <1>5 DEF Post, Arrive
  <2>2. call'[m].by = call[m].by /\ call'[m].text = call[m].text
    <3>1. call[m] \in Attempts /\ call' = [call EXCEPT ![m] = [call[m] EXCEPT !.at = "posted"]]
      BY <1>5 DEF MsgTypeOK, Post, MoveTo
    <3> QED BY <3>1 DEF MsgTypeOK, Attempts
  <2>3. ASSUME NEW n \in Messages, pc[n] \notin {"unsent", "refused"}
        PROVE  AheadThen(n, m)
    <3>1. Ahead(n, m)
      BY <2>1, <2>3, PostedIsLast
    <3>2. call'[n].by = call[n].by /\ call'[n].text = call[n].text
      BY <2>3, TextsStay
    <3> QED BY <2>2, <3>1, <3>2 DEF Ahead, AheadThen
  <2>4. \A n \in Messages : Active(n)' => Active(n)
    BY <1>0, <2>1 DEF Active
  <2>5. \A j \in DOMAIN line' :
          \/ j \in DOMAIN line /\ line'[j] = line[j]
          \/ j \notin DOMAIN line /\ line'[j] = m /\ \A i \in DOMAIN line : i < j
    BY <1>0, <2>1, AppendIs
  <2>6. \A i, j \in DOMAIN history : i < j => AheadThen(history[i], history[j])
    BY <1>0, <1>1, <1>2, <2>1 DEF InOrder
  <2>7. \A i \in DOMAIN history, n \in Messages : Active(n) => AheadThen(history[i], n)
    BY <1>0, <1>1, <1>2, <1>4, <2>1 DEF InOrder
  <2>8. \A i \in DOMAIN history, j \in DOMAIN line' : AheadThen(history[i], line'[j])
    BY <1>0, <1>1, <1>2, <1>3, <2>3, <2>5 DEF InOrder
  <2>9. \A n \in Messages, j \in DOMAIN line' : Active(n) => AheadThen(n, line'[j])
    BY <1>0, <1>1, <1>3, <1>4, <2>3, <2>5 DEF InOrder, Active
  <2>10. ASSUME NEW i \in DOMAIN line', NEW j \in DOMAIN line', i < j
         PROVE  AheadThen(line'[i], line'[j])
    <3>1. i \in DOMAIN line
      BY <1>0, <2>1, <2>10
    <3>2. line'[i] = line[i] /\ line[i] \in Messages /\ pc[line[i]] \notin {"unsent", "refused"}
      BY <1>0, <2>5, <3>1
    <3>3. CASE j \in DOMAIN line
      BY <1>0, <1>1, <1>3, <2>5, <2>10, <3>1, <3>2, <3>3 DEF InOrder
    <3>4. CASE j \notin DOMAIN line
      BY <2>3, <2>5, <3>2, <3>4
    <3> QED BY <3>3, <3>4
  <2> QED BY <2>1, <2>4, <2>6, <2>7, <2>8, <2>9, <2>10 DEF InOrder, Ahead, AheadThen
<1>6. ASSUME NEW m \in Messages, Enter(m)
      PROVE  InOrder'
  <2>1. /\ line' = Tail(line) /\ line # <<>> /\ Head(line) = m /\ history' = history
        /\ \E step : pc' = [pc EXCEPT ![m] = step]
        /\ (\A n \in Messages : Active(n)' => Active(n)) \/ state = "idle"
    BY <1>0, <1>6 DEF Enter, Turn, Active
  <2>2. /\ 1 \in DOMAIN line /\ line[1] = m
        /\ \A j \in DOMAIN line' : j \in Nat /\ j + 1 \in DOMAIN line /\ j + 1 > 1 /\ line'[j] = line[j + 1]
    BY <1>0, <2>1, TailIs
  <2>3. \A n \in Messages : Active(n)' => Active(n) \/ n = m
    BY <1>0, <2>1 DEF Active
  <2>4. \A j \in DOMAIN line' : line'[j] \in Messages /\ pc[line'[j]] # "unsent"
    BY <1>0, <2>2
  <2>5. pc[m] # "unsent"
    BY <1>0, <2>2
  <2>6. \A i, j \in DOMAIN history : i < j => AheadThen(history[i], history[j])
    BY <1>0, <1>1, <1>2 DEF InOrder
  <2>7. \A i \in DOMAIN history, n \in Messages : Active(n)' => AheadThen(history[i], n)
    BY <1>0, <1>1, <1>2, <1>4, <2>2, <2>3, <2>5 DEF InOrder
  <2>8. \A i \in DOMAIN history, j \in DOMAIN line' : AheadThen(history[i], line'[j])
    BY <1>0, <1>1, <1>2, <2>2, <2>4 DEF InOrder
  <2>9. ASSUME NEW n \in Messages, NEW j \in DOMAIN line', Active(n)'
        PROVE  AheadThen(n, line'[j])
    <3>1. line'[j] = line[j + 1] /\ j + 1 \in DOMAIN line /\ j + 1 > 1
      BY <2>2
    <3>2. CASE n = m
      BY <1>1, <2>2, <2>4, <2>5, <3>1, <3>2 DEF InOrder
    <3>3. CASE Active(n)
      BY <1>1, <1>4, <2>4, <3>1, <3>3 DEF InOrder
    <3> QED BY <2>3, <2>9, <3>2, <3>3
  <2>10. ASSUME NEW i \in DOMAIN line', NEW j \in DOMAIN line', i < j
         PROVE  AheadThen(line'[i], line'[j])
    <3>1. /\ line'[i] = line[i + 1] /\ i + 1 \in DOMAIN line
          /\ line'[j] = line[j + 1] /\ j + 1 \in DOMAIN line /\ i + 1 < j + 1
      BY <2>2, <2>10
    <3> QED BY <1>1, <2>4, <3>1 DEF InOrder
  <2> QED BY <2>1, <2>6, <2>7, <2>8, <2>9, <2>10 DEF InOrder, Ahead, AheadThen
<1>7. ASSUME NEW m \in Messages, Complete(m)
      PROVE  InOrder'
  <2>1. line' = line /\ pc' = [pc EXCEPT ![m] = "answering"] /\ Active(m)
    BY <1>7 DEF Complete, Active
  <2>2. \A n \in Messages : ~Active(n)'
    BY <1>0, <2>1 DEF Active, ActiveIsBusy
  <2>3. CASE history' = history
    BY <1>a, <2>1, <2>2, <2>3
  <2>4. CASE history' = Append(history, m)
    <3>1. \A j \in DOMAIN history' :
            \/ j \in DOMAIN history /\ history'[j] = history[j]
            \/ j \notin DOMAIN history /\ history'[j] = m /\ \A i \in DOMAIN history : i < j
      BY <1>0, <2>4, AppendIs
    <3>2. pc[m] # "unsent"
      BY <1>4, <2>1
    <3>3. ASSUME NEW i \in DOMAIN history', NEW j \in DOMAIN history', i < j
          PROVE  AheadThen(history'[i], history'[j])
      <4>1. i \in DOMAIN history
        BY <1>0, <2>4, <3>3
      <4>2. CASE j \in DOMAIN history
        BY <1>0, <1>1, <1>2, <3>1, <3>3, <4>1, <4>2 DEF InOrder
      <4>3. CASE j \notin DOMAIN history
        BY <1>0, <1>1, <1>2, <2>1, <3>1, <3>2, <4>1, <4>3 DEF InOrder
      <4> QED BY <4>2, <4>3
    <3>4. \A i \in DOMAIN history', j \in DOMAIN line : AheadThen(history'[i], line[j])
      BY <1>0, <1>1, <1>2, <1>3, <2>1, <3>1, <3>2 DEF InOrder
    <3>5. \A i, j \in DOMAIN line : i < j => AheadThen(line[i], line[j])
      BY <1>0, <1>1, <1>3 DEF InOrder
    <3> QED BY <2>1, <2>2, <3>3, <3>4, <3>5 DEF InOrder, Ahead, AheadThen
  <2> QED BY <1>0, <1>7, <2>3, <2>4, AnswerAdds
<1>8. ASSUME NEW m \in Messages, CallModel(m) \/ GiveUp(m) \/ Reply(m)
      PROVE  InOrder'
  BY <1>0, <1>a, <1>8 DEF CallModel, GiveUp, Reply, Active
<1>9. CASE AgentStep
  BY <1>b, <1>6, <1>7, <1>8, <1>9
  DEF AgentStep, Handler, Serve, Terminate, Shutdown, Exit, Die, Land, Refuse
<1>10. ASSUME NEW m \in Messages, Attempt(m)
       PROVE  InOrder'
  BY <1>b, <1>5, <1>10 DEF Attempt, Locate, PostFails, Hear, TimeOut, Broken, vars
<1> QED BY <1>b, <1>9, <1>10 DEF MsgNext, msgVars, vars, Send

\* Whatever one sender says stands in the conversation in the order it was sent and no
\* text twice, for any number of senders, texts and requests: a 409 and a request that is
\* given up never let a text that is sent again pass by one the agent has taken.
THEOREM ConversationInOrder == MsgSpec => []InOrderOnce
<1>1. MsgInit => Places /\ Accounts /\ InOrder
  BY DEF MsgInit, Init, Places, Accounts, InOrder, Unused, Answers, Running, Active
<1>2. TypeOK /\ InOrder => InOrderOnce
  BY DEF TypeOK, InOrder, InOrderOnce, Ahead
<1>3. Init => TypeOK /\ ActiveIsBusy /\ HistoryKept
  BY Initially DEF AgentInv
<1>4. Spec => [](TypeOK /\ ActiveIsBusy /\ HistoryKept)
  BY <1>3, TypesKept, ActiveKept, HistoryKeeps, PTL DEF Spec
<1>5. MsgTypeOK => TypeOK
  BY DEF MsgTypeOK
<1>6. MsgTypeOK /\ ActiveIsBusy /\ HistoryKept /\ Places /\ Accounts /\ InOrder /\ [MsgNext]_msgVars => InOrder'
  BY OrderKept
<1> QED BY <1>1, <1>2, <1>4, <1>5, <1>6, AgentBeneath, AgentsStep, PlacesKept, AccountsKept, MsgTypeCorrect, PTL
    DEF MsgSpec

=============================================================================
