----------------------------- MODULE SessionStates -----------------------------
(***************************************************************************)
(* The vocabulary every other module shares: the states of a Session       *)
(* custom resource (CR), of its database row and of its agent pod, the      *)
(* tables that relate them, and derive_state_from_pod, the operator's       *)
(* reading of a pod.                                                        *)
(*                                                                         *)
(* The Rust code spells CR states in title case, the Python code spells     *)
(* row states in lower case; both spellings are kept.                       *)
(***************************************************************************)

-----------------------------------------------------------------------------
(* States of the Session CR.  A CR the operator has not looked at yet has no *)
(* status at all; reconcile_apply then reads "Pending" (unwrap_or), a value   *)
(* that is never written back.                                               *)

NoStatus == "none"

WrittenStates == {"Starting", "Idle", "Busy", "Finished", "Failed"}

CRStates == WrittenStates \cup {NoStatus}

TerminalCRStates == {"Finished", "Failed"}

-----------------------------------------------------------------------------
(* States of the database row, and the tables of services/sessions.py.      *)

SessionState == {"pending", "starting", "idle", "busy", "finished", "failed"}

TERMINAL_STATES == {"finished", "failed"}

VALID_TRANSITIONS ==
  [ pending  |-> {"starting", "failed"},
    starting |-> {"idle", "failed"},
    idle     |-> {"busy", "finished", "failed"},
    busy     |-> {"idle", "finished", "failed"},
    finished |-> {},
    failed   |-> {} ]

CR_STATE_TO_DB_STATE ==
  [ Pending |-> "pending", Starting |-> "starting", Idle |-> "idle",
    Busy |-> "busy", Finished |-> "finished", Failed |-> "failed" ]

-----------------------------------------------------------------------------
(* The agent pod, as far as the system looks at it: the phase and readiness  *)
(* Kubernetes reports, the mob.io/agent-state annotation the agent writes,   *)
(* and whether a deletion timestamp is set.                                  *)

Phases == {"absent", "Pending", "Running", "Succeeded", "Failed"}

Annotations == {"none", "idle", "busy", "finished", "failed"}

Pods == [phase : Phases, ready : BOOLEAN, annotation : Annotations, terminating : BOOLEAN]

NoPod == [phase |-> "absent", ready |-> FALSE, annotation |-> "none", terminating |-> FALSE]

\* What build_agent_pod asks for, before any kubelet or agent has acted on it.
FreshPod == [NoPod EXCEPT !.phase = "Pending"]

Exists(p) == p.phase # "absent"

\* Mutated form: a pod that was just created counts as ready.
StateFromPhase_PendingIsIdle(p) ==
  CASE p.phase = "Running"   -> IF p.ready THEN "Idle" ELSE "Starting"
    [] p.phase = "Succeeded" -> "Finished"
    [] p.phase = "Failed"    -> "Failed"
    [] OTHER                 -> "Idle"

\* The fallback of derive_state_from_pod when the agent has not annotated.
StateFromPhase(p) ==
  CASE p.phase = "Running"   -> IF p.ready THEN "Idle" ELSE "Starting"
    [] p.phase = "Succeeded" -> "Finished"
    [] p.phase = "Failed"    -> "Failed"
    [] OTHER                 -> "Starting"

\* Mutated form: the annotation is copied as it is.
DeriveState_Raw(p) ==
  IF p.annotation = "none" THEN StateFromPhase(p) ELSE p.annotation

\* The annotation wins over the phase, whatever the phase is.
DeriveState(p) ==
  CASE p.annotation = "busy"     -> "Busy"
    [] p.annotation = "idle"     -> "Idle"
    [] p.annotation = "finished" -> "Finished"
    [] p.annotation = "failed"   -> "Failed"
    [] OTHER                     -> StateFromPhase(p)

=============================================================================
