---------------------------- MODULE SessionContract ----------------------------
(***************************************************************************)
(* What the operator promises to whoever creates and deletes Session CRs,     *)
(* with no mention of caches, finalizers, reconciles or API calls:            *)
(*   - the agent of a session is started only while the session is open, and  *)
(*     never again once the session is over;                                  *)
(*   - a session that is over stays over;                                     *)
(*   - a deletion is final, and ends with the session released and its agent   *)
(*     gone.                                                                  *)
(***************************************************************************)
CONSTANT Sessions

VARIABLES
  life,   \* life[s]: none, live, deleting or gone
  stage,  \* stage[s]: waiting (no status yet), open or over
  agent   \* agent[s]: there is a pod

vars == <<life, stage, agent>>

Init ==
  /\ life = [s \in Sessions |-> "none"]
  /\ stage = [s \in Sessions |-> "waiting"]
  /\ agent = [s \in Sessions |-> FALSE]

Held(s) == life[s] \in {"live", "deleting"}

Create(s) ==
  /\ life[s] = "none"
  /\ life' = [life EXCEPT ![s] = "live"]
  /\ UNCHANGED <<stage, agent>>

\* A session that was never picked up is released at once.
Delete(s) ==
  /\ life[s] = "live"
  /\ \/ life' = [life EXCEPT ![s] = "deleting"] /\ UNCHANGED stage
     \/ /\ stage[s] = "waiting" /\ ~agent[s]
        /\ life' = [life EXCEPT ![s] = "gone"]
        /\ UNCHANGED stage
  /\ UNCHANGED agent

Launch(s) ==
  /\ Held(s) /\ ~agent[s] /\ stage[s] # "over"
  /\ agent' = [agent EXCEPT ![s] = TRUE]
  /\ UNCHANGED <<life, stage>>

Open(s) ==
  /\ Held(s) /\ stage[s] = "waiting"
  /\ stage' = [stage EXCEPT ![s] = "open"]
  /\ UNCHANGED <<life, agent>>

Finish(s) ==
  /\ Held(s) /\ stage[s] = "open"
  /\ stage' = [stage EXCEPT ![s] = "over"]
  /\ UNCHANGED <<life, agent>>

\* The agent leaves, whatever the reason.
Leave(s) ==
  /\ agent[s]
  /\ agent' = [agent EXCEPT ![s] = FALSE]
  /\ UNCHANGED <<life, stage>>

Release(s) ==
  /\ life[s] = "deleting"
  /\ life' = [life EXCEPT ![s] = "gone"]
  /\ stage' = [stage EXCEPT ![s] = "waiting"]
  /\ UNCHANGED agent

Next ==
  \E s \in Sessions :
    \/ Create(s) \/ Delete(s) \/ Launch(s) \/ Open(s)
    \/ Finish(s) \/ Leave(s) \/ Release(s)

Spec == Init /\ [][Next]_vars

Fairness ==
  \A s \in Sessions :
    /\ WF_vars(Release(s))
    /\ WF_vars(life[s] = "gone" /\ Leave(s))

FairSpec == Spec /\ Fairness

=============================================================================
