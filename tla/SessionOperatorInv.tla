-------------------------- MODULE SessionOperatorInv --------------------------
(***************************************************************************)
(* The inductive invariants behind the safety properties of SessionOperator. *)
(* None of these properties is inductive: what a step may do depends on how   *)
(* far the operator's cached copy lags behind the CR, and on what the running *)
(* reconcile read earlier.  The conjuncts below say exactly that.             *)
(***************************************************************************)
EXTENDS SessionOperator

-----------------------------------------------------------------------------
(* For any number of operators.                                              *)

\* A CR that does not exist yet has left no trace anywhere.
Unborn(s) ==
  cr[s].life = "none" =>
    /\ cr[s] = NoCR
    /\ ~Exists(pod[s])
    /\ \A o \in Operators : cache[o][s] = NoCR /\ pc[o][s] = "none"

\* No operator knows of, or relies on, a finalizer that a live CR does not have.
FinalizerKnown(o, s) ==
  cr[s].life = "live" /\ (cache[o][s].finalizer \/ pc[o][s] = "applyPod") => cr[s].finalizer

GuardedSession(s) ==
  /\ Guarded(s)
  /\ Unborn(s)
  /\ \A o \in Operators : FinalizerKnown(o, s)

GuardInv == TypeOK /\ \A s \in Sessions : GuardedSession(s)

-----------------------------------------------------------------------------
(* For one operator: nobody else writes a status, adds a pod or releases a CR.*)

ApplySteps == {"applyPod", "getPod", "setStatus", "terminalGet", "terminalDelete"}

CleanupSteps == {"cleanupGet", "cleanupDelete", "removeFinalizer"}

\* derive_state_from_pod would call the session over.
Over(p) == DeriveState(p) \in TerminalCRStates

\* How far the cached copy can be behind the CR.
CacheLags(o, s) ==
  LET k == cache[o][s]
      c == cr[s]
  IN  /\ k.life = "live" /\ k.finalizer => InAPI(c) /\ c.finalizer
      /\ k.life = "deleting" => k.finalizer
      /\ k.life \in {"deleting", "gone"} => c.life \in {"deleting", "gone"}
      /\ k.life = "gone" => c.life = "gone"
      /\ k.state # NoStatus /\ InAPI(c) => c.state # NoStatus
      /\ k.state = NoStatus /\ InAPI(c) => c.state \in {NoStatus, "Starting"}

\* A CR that was not picked up, or is gone, has no status; a pod belongs to a
\* CR that was picked up; a pod that has not started was never annotated.
Shape(s) ==
  /\ cr[s].life \in {"none", "gone"} \/ ~cr[s].finalizer => cr[s].state = NoStatus
  /\ cr[s].life = "live" /\ ~cr[s].finalizer => ~Exists(pod[s])
  /\ pod[s].phase = "Pending" => pod[s].annotation = "none"

\* What a running reconcile may still rely on.
Reconciling(o, s) ==
  /\ pc[o][s] \in ApplySteps => InAPI(cr[s]) /\ cr[s].finalizer
  /\ pc[o][s] \in CleanupSteps => cache[o][s].life \in {"deleting", "gone"}
  /\ pc[o][s] = "applyPod" => seen[o][s] = NoStatus
  /\ pc[o][s] \in {"getPod", "terminalGet", "terminalDelete"} => seen[o][s] # NoStatus
  /\ pc[o][s] \in ApplySteps /\ seen[o][s] # NoStatus => cache[o][s].state # NoStatus
  /\ pc[o][s] \in ApplySteps /\ seen[o][s] = NoStatus => cr[s].state \in {NoStatus, "Starting"}
  /\ pc[o][s] = "removeFinalizer" /\ faults = 0 => ~Exists(pod[s]) \/ pod[s].terminating

\* The status about to be written still describes the pod well enough.
Writing(o, s) ==
  pc[o][s] = "setStatus" =>
    /\ target[o][s].state # NoStatus
    /\ seen[o][s] = NoStatus => target[o][s].state = "Starting"
    /\ target[o][s].state \in TerminalCRStates => ~Exists(pod[s]) \/ Over(pod[s])
    /\ target[o][s].state \notin TerminalCRStates => ~Terminal(s)
    /\ target[o][s].state \in {"Idle", "Busy"} => pod[s].phase # "Pending"

\* A session that is over has no pod, or one that will not come back to life.
OverMeansOver(s) == Terminal(s) => ~Exists(pod[s]) \/ Over(pod[s])

SessionInv(s) ==
  /\ HasStarted(s)
  /\ LeavesNoPod(s)
  /\ Shape(s)
  /\ OverMeansOver(s)
  /\ \A o \in Operators : CacheLags(o, s) /\ Reconciling(o, s) /\ Writing(o, s)

OperatorInv ==
  /\ GuardInv
  /\ \A s \in Sessions : SessionInv(s)

=============================================================================
