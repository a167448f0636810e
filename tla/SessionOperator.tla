---------------------------- MODULE SessionOperator ----------------------------
(***************************************************************************)
(* The session operator of operator/src: a kube-rs controller that turns     *)
(* Session custom resources (CRs) into agent pods, copies what it derives    *)
(* from a pod back into the CR's status, and deletes the pod when the        *)
(* session is over or its CR is deleted.                                     *)
(*                                                                         *)
(* A reconcile is a sequence of API calls, and each call is a step of this    *)
(* model: everything else may happen between two of them.  Its input is the   *)
(* operator's own cached copy of the CR, which a watch updates later.  The    *)
(* API server, the kubelet, the garbage collector, the agent process and the  *)
(* API that creates and deletes CRs are the environment.                      *)
(***************************************************************************)
EXTENDS SessionStates, Naturals, FiniteSets

CONSTANTS
  Sessions,     \* the sessions ever created; names are never reused
  Operators,    \* operator processes; two while a rolling update overlaps
  Concurrency,  \* reconciles one operator runs at a time (2 in main.rs)
  AgentStates,  \* the annotations the agent's template writes
  MaxFaults     \* bound: API errors, operator crashes, pod evictions

ASSUME ConcurrencyAssumption == Concurrency \in Nat \ {0}
ASSUME AgentStatesAssumption == AgentStates \subseteq Annotations \ {"none"}
ASSUME MaxFaultsAssumption == MaxFaults \in Nat

VARIABLES
  cr,      \* cr[s]: the Session object in the API server
  pod,     \* pod[s]: the pod mob-agent-<s> in the API server
  cache,   \* cache[o][s]: the copy of cr[s] in operator o's reflector store
  queued,  \* queued[o][s]: a reconcile of s is scheduled at o
  pc,      \* pc[o][s]: the API call o's running reconcile of s makes next
  seen,    \* seen[o][s]: the CR state the running reconcile branched on
  target,  \* target[o][s]: the status the running reconcile is about to write
  faults   \* faults that have happened

vars == <<cr, pod, cache, queued, pc, seen, target, faults>>

Steps == {"none", "addFinalizer", "applyPod", "getPod", "setStatus", "terminalGet",
          "terminalDelete", "cleanupGet", "cleanupDelete", "removeFinalizer"}

Targets == [state : CRStates, podName : BOOLEAN]

NoTarget == [state |-> NoStatus, podName |-> FALSE]

CRs == [life : {"none", "live", "deleting", "gone"}, finalizer : BOOLEAN,
        state : CRStates, podName : BOOLEAN]

NoCR == [life |-> "none", finalizer |-> FALSE, state |-> NoStatus, podName |-> FALSE]

GoneCR == [NoCR EXCEPT !.life = "gone"]

\* What API calls do to a CR.
Created(c) == [c EXCEPT !.life = "live"]
Deleted(c) == [c EXCEPT !.life = "deleting"]
Finalized(c) == [c EXCEPT !.finalizer = TRUE]
WithStatus(c, t) == [c EXCEPT !.state = t.state, !.podName = t.podName]

\* What API calls, the kubelet and the agent do to a pod.
Started(p) == [p EXCEPT !.phase = "Running"]
Flipped(p) == [p EXCEPT !.ready = ~@]
Annotated(p, a) == [p EXCEPT !.annotation = a]
ExitedAs(p, phase) == [p EXCEPT !.phase = phase, !.ready = FALSE]
Doomed(p) == [p EXCEPT !.terminating = TRUE]

InAPI(c) == c.life \in {"live", "deleting"}

TypeOK ==
  /\ cr \in [Sessions -> CRs]
  /\ pod \in [Sessions -> Pods]
  /\ cache \in [Operators -> [Sessions -> CRs]]
  /\ queued \in [Operators -> [Sessions -> BOOLEAN]]
  /\ pc \in [Operators -> [Sessions -> Steps]]
  /\ seen \in [Operators -> [Sessions -> CRStates]]
  /\ target \in [Operators -> [Sessions -> Targets]]
  /\ faults \in 0 .. MaxFaults

Init ==
  /\ cr = [s \in Sessions |-> NoCR]
  /\ pod = [s \in Sessions |-> NoPod]
  /\ cache = [o \in Operators |-> [s \in Sessions |-> NoCR]]
  /\ queued = [o \in Operators |-> [s \in Sessions |-> FALSE]]
  /\ pc = [o \in Operators |-> [s \in Sessions |-> "none"]]
  /\ seen = [o \in Operators |-> [s \in Sessions |-> NoStatus]]
  /\ target = [o \in Operators |-> [s \in Sessions |-> NoTarget]]
  /\ faults = 0

-----------------------------------------------------------------------------
(* Building blocks.                                                         *)

\* Every operator watches pods and maps a pod event to its owner (.owns(pods)).
PodEvent(s) == queued' = [o \in Operators |-> [queued[o] EXCEPT ![s] = TRUE]]

SetPod(s, p) ==
  /\ pod' = [pod EXCEPT ![s] = p]
  /\ PodEvent(s)

SetPc(o, s, step) == pc' = [pc EXCEPT ![o][s] = step]

\* The running reconcile of s ends: requeue after an error or 15 s, or wait.
EndReconcile(o, s) ==
  /\ pc' = [pc EXCEPT ![o][s] = "none"]
  /\ seen' = [seen EXCEPT ![o][s] = NoStatus]
  /\ target' = [target EXCEPT ![o][s] = NoTarget]

Requeue(o, s) ==
  /\ EndReconcile(o, s)
  /\ queued' = [queued EXCEPT ![o][s] = TRUE]

AwaitChange(o, s) ==
  /\ EndReconcile(o, s)
  /\ UNCHANGED queued

\* The reconcile goes on to write the status record t.
WriteNext(o, s, t) ==
  /\ target' = [target EXCEPT ![o][s] = t]
  /\ SetPc(o, s, "setStatus")

UseFault ==
  /\ faults < MaxFaults
  /\ faults' = faults + 1

-----------------------------------------------------------------------------
(* The users of the CR: the API creates it and deletes it.                   *)

APICreate(s) ==
  /\ cr[s].life = "none"
  /\ cr' = [cr EXCEPT ![s] = Created(@)]
  /\ UNCHANGED <<pod, cache, queued, pc, seen, target, faults>>

\* Without a finalizer the object is removed at once, else it is marked.
APIDelete(s) ==
  /\ cr[s].life = "live"
  /\ cr' = [cr EXCEPT ![s] = IF @.finalizer THEN Deleted(@) ELSE GoneCR]
  /\ UNCHANGED <<pod, cache, queued, pc, seen, target, faults>>

-----------------------------------------------------------------------------
(* The controller runtime.                                                  *)

\* The reflector catches up; an applied object is queued, a deleted one is not.
Watch(o, s) ==
  /\ cache[o][s] # cr[s]
  /\ cache' = [cache EXCEPT ![o][s] = cr[s]]
  /\ queued' = [queued EXCEPT ![o][s] = @ \/ InAPI(cr[s])]
  /\ UNCHANGED <<cr, pod, pc, seen, target, faults>>

\* A resync of the watch, or a timer of an earlier reconcile.
Resync(o, s) ==
  /\ InAPI(cache[o][s])
  /\ ~queued[o][s]
  /\ queued' = [queued EXCEPT ![o][s] = TRUE]
  /\ UNCHANGED <<cr, pod, cache, pc, seen, target, faults>>

Running(o) == {s \in Sessions : pc[o][s] # "none"}

\* reconcile_apply branches on the cached status.
ApplyStep(c) ==
  CASE c.state = NoStatus            -> "applyPod"
    [] c.state \in TerminalCRStates  -> "terminalGet"
    [] OTHER                         -> "getPod"

\* Mutated form: the pod is created without the finalizer wrapper.
FirstStep_NoFinalizer(c) ==
  IF c.life = "deleting" THEN "cleanupGet" ELSE ApplyStep(c)

\* Mutated form: a session that failed is started again.
FirstStep_RetryFailed(c) ==
  CASE c.life = "deleting"                      -> "cleanupGet"
    [] c.life # "deleting" /\ ~c.finalizer      -> "addFinalizer"
    [] OTHER -> IF c.state = "Failed" THEN "applyPod" ELSE ApplyStep(c)

\* What the first API call is, from the cached object: the finalizer wrapper
\* decides between Cleanup, adding the finalizer, and Apply.
FirstStep(c) ==
  CASE c.life = "deleting"                  -> "cleanupGet"
    [] c.life # "deleting" /\ ~c.finalizer  -> "addFinalizer"
    [] OTHER                                -> ApplyStep(c)

StartReconcile(o, s) ==
  /\ queued[o][s]
  /\ pc[o][s] = "none"
  /\ Cardinality(Running(o)) < Concurrency
  /\ InAPI(cache[o][s])
  /\ queued' = [queued EXCEPT ![o][s] = FALSE]
  /\ SetPc(o, s, FirstStep(cache[o][s]))
  /\ seen' = [seen EXCEPT ![o][s] = cache[o][s].state]
  /\ UNCHANGED <<cr, pod, cache, target, faults>>

\* The object is no longer in the store: the request is dropped.
DropRequest(o, s) ==
  /\ queued[o][s]
  /\ pc[o][s] = "none"
  /\ ~InAPI(cache[o][s])
  /\ queued' = [queued EXCEPT ![o][s] = FALSE]
  /\ UNCHANGED <<cr, pod, cache, pc, seen, target, faults>>

\* The process dies and is started again: it relists, and queues what it lists.
Restart(o) ==
  /\ UseFault
  /\ cache' = [cache EXCEPT ![o] = cr]
  /\ queued' = [queued EXCEPT ![o] = [s \in Sessions |-> InAPI(cr[s])]]
  /\ pc' = [pc EXCEPT ![o] = [s \in Sessions |-> "none"]]
  /\ seen' = [seen EXCEPT ![o] = [s \in Sessions |-> NoStatus]]
  /\ target' = [target EXCEPT ![o] = [s \in Sessions |-> NoTarget]]
  /\ UNCHANGED <<cr, pod>>

-----------------------------------------------------------------------------
(* The finalizer wrapper.                                                   *)

\* A JSON patch that tests that the list of finalizers is still empty: a CR
\* that changed or went away answers with an error.
AddFinalizer(o, s) ==
  /\ pc[o][s] = "addFinalizer"
  /\ IF cr[s].life = "live" /\ ~cr[s].finalizer
       THEN /\ cr' = [cr EXCEPT ![s] = Finalized(@)]
            /\ AwaitChange(o, s)
       ELSE /\ Requeue(o, s)
            /\ UNCHANGED cr
  /\ UNCHANGED <<pod, cache, faults>>

\* The last finalizer of an object that is being deleted: it disappears.
RemoveFinalizer(o, s) ==
  /\ pc[o][s] = "removeFinalizer"
  /\ IF cr[s].life = "deleting"
       THEN /\ cr' = [cr EXCEPT ![s] = GoneCR]
            /\ AwaitChange(o, s)
       ELSE /\ Requeue(o, s)
            /\ UNCHANGED cr
  /\ UNCHANGED <<pod, cache, faults>>

-----------------------------------------------------------------------------
(* reconcile_apply.                                                         *)

\* Server-side apply: creates the pod, or leaves an existing one as it is.
ApplyPod(o, s) ==
  /\ pc[o][s] = "applyPod"
  /\ IF Exists(pod[s]) THEN UNCHANGED <<pod, queued>> ELSE SetPod(s, FreshPod)
  /\ WriteNext(o, s, [state |-> "Starting", podName |-> TRUE])
  /\ UNCHANGED <<cr, cache, seen, faults>>

\* Mutated form: a pod that is missing is created again.
GetPod_Recreate(o, s) ==
  /\ pc[o][s] = "getPod"
  /\ IF Exists(pod[s])
       THEN /\ WriteNext(o, s, [state |-> DeriveState(pod[s]), podName |-> TRUE])
            /\ UNCHANGED seen
       ELSE SetPc(o, s, "applyPod") /\ UNCHANGED <<seen, target>>
  /\ UNCHANGED <<cr, pod, cache, queued, faults>>

\* Mutated form: a pod that is missing is waited for.
GetPod_IgnoreLost(o, s) ==
  /\ pc[o][s] = "getPod"
  /\ IF Exists(pod[s]) /\ DeriveState(pod[s]) # seen[o][s]
       THEN /\ WriteNext(o, s, [state |-> DeriveState(pod[s]), podName |-> TRUE])
            /\ UNCHANGED <<seen, queued>>
       ELSE Requeue(o, s)
  /\ UNCHANGED <<cr, pod, cache, faults>>

\* Mutated form: Idle and Busy are not looked at again.
GetPod_OnlyStarting(o, s) ==
  /\ pc[o][s] = "getPod"
  /\ IF seen[o][s] = "Starting" /\ Exists(pod[s]) /\ DeriveState(pod[s]) # "Starting"
       THEN /\ WriteNext(o, s, [state |-> DeriveState(pod[s]), podName |-> TRUE])
            /\ UNCHANGED <<seen, queued>>
       ELSE Requeue(o, s)
  /\ UNCHANGED <<cr, pod, cache, faults>>

\* A state that has not changed ends the reconcile, any other is written.
GetPod(o, s) ==
  /\ pc[o][s] = "getPod"
  /\ \/ /\ ~Exists(pod[s])
        /\ WriteNext(o, s, [state |-> "Failed", podName |-> FALSE])
        /\ UNCHANGED <<seen, queued>>
     \/ /\ Exists(pod[s])
        /\ DeriveState(pod[s]) # seen[o][s]
        /\ WriteNext(o, s, [state |-> DeriveState(pod[s]), podName |-> TRUE])
        /\ UNCHANGED <<seen, queued>>
     \/ /\ Exists(pod[s])
        /\ DeriveState(pod[s]) = seen[o][s]
        /\ Requeue(o, s)
  /\ UNCHANGED <<cr, pod, cache, faults>>

\* update_status: server-side apply of the whole status, whatever it was; a CR
\* that is gone answers 404, and both answers requeue.
SetStatus(o, s) ==
  /\ pc[o][s] = "setStatus"
  /\ IF InAPI(cr[s])
       THEN cr' = [cr EXCEPT ![s] = WithStatus(@, target[o][s])]
       ELSE UNCHANGED cr
  /\ Requeue(o, s)
  /\ UNCHANGED <<pod, cache, faults>>

\* Mutated form: the pod of a session that is over is left alone.
TerminalGet_Keep(o, s) ==
  /\ pc[o][s] = "terminalGet"
  /\ AwaitChange(o, s)
  /\ UNCHANGED <<cr, pod, cache, faults>>

\* Finished and Failed: look for the pod, delete it, wait for the next event.
TerminalGet(o, s) ==
  /\ pc[o][s] = "terminalGet"
  /\ IF Exists(pod[s])
       THEN SetPc(o, s, "terminalDelete") /\ UNCHANGED <<queued, seen, target>>
       ELSE AwaitChange(o, s)
  /\ UNCHANGED <<cr, pod, cache, faults>>

DeletePod(s) ==
  IF Exists(pod[s]) /\ ~pod[s].terminating
    THEN SetPod(s, Doomed(pod[s]))
    ELSE UNCHANGED <<pod, queued>>

TerminalDelete(o, s) ==
  /\ pc[o][s] = "terminalDelete"
  /\ DeletePod(s)
  /\ EndReconcile(o, s)
  /\ UNCHANGED <<cr, cache, faults>>

-----------------------------------------------------------------------------
(* reconcile_cleanup, before the wrapper removes the finalizer.              *)

\* Mutated form: the finalizer is removed without looking for the pod.
CleanupGet_Skip(o, s) ==
  /\ pc[o][s] = "cleanupGet"
  /\ SetPc(o, s, "removeFinalizer")
  /\ UNCHANGED <<cr, pod, cache, queued, seen, target, faults>>

\* Mutated form: a CR whose pod is already gone waits for a pod event.
CleanupGet_WaitForPod(o, s) ==
  /\ pc[o][s] = "cleanupGet"
  /\ IF Exists(pod[s])
       THEN SetPc(o, s, "cleanupDelete") /\ UNCHANGED <<queued, seen, target>>
       ELSE AwaitChange(o, s)
  /\ UNCHANGED <<cr, pod, cache, faults>>

CleanupGet(o, s) ==
  /\ pc[o][s] = "cleanupGet"
  /\ SetPc(o, s, IF Exists(pod[s]) THEN "cleanupDelete" ELSE "removeFinalizer")
  /\ UNCHANGED <<cr, pod, cache, queued, seen, target, faults>>

CleanupDelete(o, s) ==
  /\ pc[o][s] = "cleanupDelete"
  /\ DeletePod(s)
  /\ SetPc(o, s, "removeFinalizer")
  /\ UNCHANGED <<cr, cache, seen, target, faults>>

-----------------------------------------------------------------------------
(* API calls that fail.                                                     *)

\* Mutated form: error_policy waits for the next change.
FailedCall_Await(o, s) ==
  /\ pc[o][s] \in {"addFinalizer", "applyPod", "getPod", "setStatus", "removeFinalizer"}
  /\ UseFault
  /\ AwaitChange(o, s)
  /\ UNCHANGED <<cr, pod, cache>>

\* Calls followed by `?`: the error ends the reconcile, error_policy requeues.
FailedCall(o, s) ==
  /\ pc[o][s] \in {"addFinalizer", "applyPod", "getPod", "setStatus", "removeFinalizer"}
  /\ UseFault
  /\ Requeue(o, s)
  /\ UNCHANGED <<cr, pod, cache>>

\* `if let Ok(..)` and `let _ =`: the error is dropped and the code goes on.
SwallowedError(o, s) ==
  /\ UseFault
  /\ \/ /\ pc[o][s] \in {"terminalGet", "terminalDelete"}
        /\ AwaitChange(o, s)
     \/ /\ pc[o][s] \in {"cleanupGet", "cleanupDelete"}
        /\ SetPc(o, s, "removeFinalizer")
        /\ UNCHANGED <<queued, seen, target>>
  /\ UNCHANGED <<cr, pod, cache>>

-----------------------------------------------------------------------------
(* The cluster and the agent process (outside operator/src).                 *)

PodEnvUnchanged == UNCHANGED <<cr, cache, pc, seen, target>>

KubeletStart(s) ==
  /\ pod[s].phase = "Pending"
  /\ ~pod[s].terminating
  /\ SetPod(s, Started(pod[s]))
  /\ PodEnvUnchanged /\ UNCHANGED faults

Readiness(s) ==
  /\ pod[s].phase = "Running"
  /\ SetPod(s, Flipped(pod[s]))
  /\ PodEnvUnchanged /\ UNCHANGED faults

\* The agent reports idle and busy in turn; "finished" (on shutdown, also of a
\* terminating pod) and "failed" are its last words.
Annotate(s, a) ==
  /\ pod[s].phase = "Running"
  /\ pod[s].annotation \notin {a, "finished", "failed"}
  /\ SetPod(s, Annotated(pod[s], a))
  /\ PodEnvUnchanged /\ UNCHANGED faults

\* restartPolicy Never: the container exits once, for better or for worse.
PodExit(s, phase) ==
  /\ \/ pod[s].phase = "Running"
     \/ pod[s].phase = "Pending" /\ phase = "Failed"
  /\ SetPod(s, ExitedAs(pod[s], phase))
  /\ PodEnvUnchanged /\ UNCHANGED faults

\* Eviction, preemption, kubectl delete.
Evict(s) ==
  /\ Exists(pod[s]) /\ ~pod[s].terminating
  /\ UseFault
  /\ SetPod(s, Doomed(pod[s]))
  /\ PodEnvUnchanged

\* The owner reference of build_agent_pod points at a CR that is gone.
GarbageCollect(s) ==
  /\ cr[s].life = "gone"
  /\ Exists(pod[s]) /\ ~pod[s].terminating
  /\ SetPod(s, Doomed(pod[s]))
  /\ PodEnvUnchanged /\ UNCHANGED faults

\* The grace period is over: the pod object is removed.
KubeletRemove(s) ==
  /\ Exists(pod[s]) /\ pod[s].terminating
  /\ SetPod(s, NoPod)
  /\ PodEnvUnchanged /\ UNCHANGED faults

-----------------------------------------------------------------------------
(* The specification.                                                       *)

ReconcileStep(o, s) ==
  \/ AddFinalizer(o, s) \/ RemoveFinalizer(o, s)
  \/ ApplyPod(o, s) \/ GetPod(o, s) \/ SetStatus(o, s)
  \/ TerminalGet(o, s) \/ TerminalDelete(o, s)
  \/ CleanupGet(o, s) \/ CleanupDelete(o, s)

Faulty(o, s) == FailedCall(o, s) \/ SwallowedError(o, s)

RuntimeStep(o, s) ==
  Watch(o, s) \/ Resync(o, s) \/ StartReconcile(o, s) \/ DropRequest(o, s)

ClusterStep(s) ==
  \/ KubeletStart(s) \/ Readiness(s) \/ Evict(s) \/ GarbageCollect(s) \/ KubeletRemove(s)
  \/ \E a \in AgentStates : Annotate(s, a)
  \/ \E phase \in {"Succeeded", "Failed"} : PodExit(s, phase)

UserStep(s) == APICreate(s) \/ APIDelete(s)

Next ==
  \/ \E s \in Sessions : UserStep(s)
  \/ \E s \in Sessions : ClusterStep(s)
  \/ \E o \in Operators : Restart(o)
  \/ \E o \in Operators, s \in Sessions :
       RuntimeStep(o, s) \/ ReconcileStep(o, s) \/ Faulty(o, s)

Spec == Init /\ [][Next]_vars

\* What a running operator process and a working cluster guarantee.  The user,
\* the agent, faults, resyncs and the readiness probe promise nothing.
OperatorFairness ==
  \A o \in Operators : \A s \in Sessions :
    /\ WF_vars(Watch(o, s))
    /\ SF_vars(StartReconcile(o, s))
    /\ WF_vars(ReconcileStep(o, s))

ClusterFairness ==
  \A s \in Sessions : WF_vars(KubeletRemove(s)) /\ WF_vars(GarbageCollect(s))

FairSpec == Spec /\ OperatorFairness /\ ClusterFairness

-----------------------------------------------------------------------------
(* Safety.                                                                  *)

Terminal(s) == cr[s].state \in TerminalCRStates

\* A CR that has a pod, or is being deleted, carries the finalizer: no deletion
\* can make it disappear before reconcile_cleanup has run.
Guarded(s) ==
  (cr[s].life = "live" /\ Exists(pod[s])) \/ cr[s].life = "deleting" => cr[s].finalizer

FinalizerGuardsPod == \A s \in Sessions : Guarded(s)

\* With one operator, and as long as no call has failed, reconcile_cleanup
\* leaves no pod behind: a pod that outlives its CR is already terminating.
LeavesNoPod(s) ==
  cr[s].life = "gone" /\ Exists(pod[s]) /\ faults = 0 => pod[s].terminating

NoOrphan == \A s \in Sessions : LeavesNoPod(s)

\* With one operator, a session that is reported Idle or Busy (the two states
\* send_message accepts) has had a pod whose containers started.
HasStarted(s) == cr[s].state \in {"Idle", "Busy"} => pod[s].phase # "Pending"

ActiveMeansStarted == \A s \in Sessions : HasStarted(s)

\* With one operator, a session that is over stays over: no late write of a
\* reconcile that read an older status, or an older pod, reopens it.
TerminalStays(s) == Terminal(s) /\ InAPI(cr'[s]) => cr'[s].state \in TerminalCRStates

TerminalStaysTerminal == [][\A s \in Sessions : TerminalStays(s)]_vars

\* With one operator, a pod is only created for a CR that exists and whose
\* session is not over, whatever copy of the CR the operator is working from.
CreatedInTime(s) ==
  ~Exists(pod[s]) /\ Exists(pod'[s]) => InAPI(cr[s]) /\ ~Terminal(s)

NoLateCreate == [][\A s \in Sessions : CreatedInTime(s)]_vars

-----------------------------------------------------------------------------
(* Liveness.                                                                *)

\* A deleted session is released: its CR and its pod disappear, for good.
Released ==
  \A s \in Sessions :
    cr[s].life \in {"deleting", "gone"} ~> [](cr[s].life = "gone" /\ ~Exists(pod[s]))

\* A session that is left alone gets a status: the operator notices it.
PickedUp ==
  \A s \in Sessions : cr[s].life = "live" ~> cr[s].state # NoStatus \/ cr[s].life # "live"

\* Once a pod has settled, the status says what derive_state_from_pod says of it.
Settled(s, d) == cr[s].life = "live" /\ Exists(pod[s]) /\ DeriveState(pod[s]) = d

StatusConverges ==
  \A s \in Sessions : \A d \in WrittenStates :
    <>[]Settled(s, d) => <>[](cr[s].state = d)

\* A pod that is lost for good makes its session Failed or leaves it Finished.
LostPodEndsSession ==
  \A s \in Sessions :
    <>[](cr[s].life = "live" /\ ~Exists(pod[s])) => <>Terminal(s)

\* As long as no call fails, a session that is over has its pod removed.
TerminalPodRemoved ==
  \A s \in Sessions : Terminal(s) /\ faults = 0 ~> ~Exists(pod[s]) \/ faults > 0

-----------------------------------------------------------------------------
(* One operator implements SessionContract.                                  *)

Stage(s) ==
  IF cr[s].state = NoStatus THEN "waiting" ELSE IF Terminal(s) THEN "over" ELSE "open"

Contract == INSTANCE SessionContract WITH
  life  <- [s \in Sessions |-> cr[s].life],
  stage <- [s \in Sessions |-> Stage(s)],
  agent <- [s \in Sessions |-> Exists(pod[s])]

ContractSpec == Contract!FairSpec

=============================================================================
