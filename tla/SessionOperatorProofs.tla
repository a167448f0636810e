------------------------- MODULE SessionOperatorProofs -------------------------
(***************************************************************************)
(* Proofs about SessionOperator, for every value of its constants.           *)
(***************************************************************************)
EXTENDS SessionOperatorInv, TLAPS

-----------------------------------------------------------------------------
(* Facts about the vocabulary.                                               *)

\* derive_state_from_pod always answers with one of the five states it may write.
LEMMA DeriveType == \A p \in Pods : DeriveState(p) \in WrittenStates
BY DEF DeriveState, StateFromPhase, WrittenStates, Pods

\* The cases of FirstStep, on an object that is in the store.
LEMMA FirstStepCases ==
  ASSUME NEW c \in CRs, InAPI(c)
  PROVE  \/ c.life = "live" /\ ~c.finalizer /\ FirstStep(c) = "addFinalizer"
         \/ c.life = "deleting" /\ FirstStep(c) = "cleanupGet"
         \/ c.life = "live" /\ c.finalizer /\ c.state = NoStatus /\ FirstStep(c) = "applyPod"
         \/ /\ c.life = "live" /\ c.finalizer /\ c.state # NoStatus
            /\ FirstStep(c) \in {"getPod", "terminalGet"}
BY DEF FirstStep, ApplyStep, TerminalCRStates, InAPI, CRs, CRStates, WrittenStates, NoStatus

\* The constant records have the types of the variables they initialise.
LEMMA ConstantTypes ==
  /\ NoCR \in CRs /\ GoneCR \in CRs
  /\ NoPod \in Pods /\ FreshPod \in Pods
  /\ NoTarget \in Targets
BY DEF NoCR, GoneCR, CRs, NoPod, FreshPod, Pods, NoTarget, Targets, CRStates,
       NoStatus, Phases, Annotations

\* What each update of a CR changes, and what it leaves alone.
LEMMA CRUpdates ==
  ASSUME NEW c \in CRs
  PROVE  /\ Created(c) \in CRs /\ Created(c).life = "live" /\ Created(c).state = c.state
         /\ Created(c).finalizer = c.finalizer
         /\ Deleted(c) \in CRs /\ Deleted(c).life = "deleting" /\ Deleted(c).state = c.state
         /\ Deleted(c).finalizer = c.finalizer
         /\ Finalized(c) \in CRs /\ Finalized(c).life = c.life /\ Finalized(c).state = c.state
         /\ Finalized(c).finalizer
BY DEF Created, Deleted, Finalized, CRs

LEMMA StatusUpdate ==
  ASSUME NEW c \in CRs, NEW t \in Targets
  PROVE  /\ WithStatus(c, t) \in CRs /\ WithStatus(c, t).life = c.life
         /\ WithStatus(c, t).state = t.state /\ WithStatus(c, t).finalizer = c.finalizer
BY DEF WithStatus, CRs, Targets

\* What each update of a pod changes, and what it leaves alone.
LEMMA PodUpdates ==
  ASSUME NEW p \in Pods
  PROVE  /\ Started(p) \in Pods /\ Started(p).phase = "Running"
         /\ Started(p).annotation = p.annotation /\ Started(p).terminating = p.terminating
         /\ Flipped(p) \in Pods /\ Flipped(p).phase = p.phase
         /\ Flipped(p).annotation = p.annotation /\ Flipped(p).terminating = p.terminating
         /\ Doomed(p) \in Pods /\ Doomed(p).phase = p.phase /\ Doomed(p).ready = p.ready
         /\ Doomed(p).annotation = p.annotation /\ Doomed(p).terminating
BY DEF Started, Flipped, Doomed, Pods, Phases

LEMMA AnnotationUpdate ==
  ASSUME NEW p \in Pods, NEW a \in Annotations
  PROVE  /\ Annotated(p, a) \in Pods /\ Annotated(p, a).phase = p.phase
         /\ Annotated(p, a).ready = p.ready /\ Annotated(p, a).annotation = a
         /\ Annotated(p, a).terminating = p.terminating
BY DEF Annotated, Pods

LEMMA ExitUpdate ==
  ASSUME NEW p \in Pods, NEW phase \in Phases
  PROVE  /\ ExitedAs(p, phase) \in Pods /\ ExitedAs(p, phase).phase = phase
         /\ ExitedAs(p, phase).annotation = p.annotation
         /\ ExitedAs(p, phase).terminating = p.terminating
BY DEF ExitedAs, Pods

-----------------------------------------------------------------------------
(* Type correctness.                                                         *)

LEMMA TypeInit == Init => TypeOK
BY ConstantTypes, MaxFaultsAssumption DEF Init, TypeOK, Steps, CRStates

\* The variables of the controller runtime are typed.
RuntimeTyped ==
  /\ queued \in [Operators -> [Sessions -> BOOLEAN]]
  /\ pc \in [Operators -> [Sessions -> Steps]]
  /\ seen \in [Operators -> [Sessions -> CRStates]]
  /\ target \in [Operators -> [Sessions -> Targets]]

\* However a reconcile ends or goes on, the runtime variables keep their types.
LEMMA EndTyped ==
  ASSUME TypeOK, NEW o \in Operators, NEW s \in Sessions, EndReconcile(o, s)
  PROVE  /\ pc' \in [Operators -> [Sessions -> Steps]]
         /\ seen' \in [Operators -> [Sessions -> CRStates]]
         /\ target' \in [Operators -> [Sessions -> Targets]]
<1>1. "none" \in Steps /\ NoStatus \in CRStates /\ NoTarget \in Targets
  BY ConstantTypes DEF Steps, CRStates
<1> QED BY <1>1 DEF EndReconcile, TypeOK

LEMMA RequeueTyped ==
  ASSUME TypeOK, NEW o \in Operators, NEW s \in Sessions, Requeue(o, s) \/ AwaitChange(o, s)
  PROVE  RuntimeTyped'
<1>1. EndReconcile(o, s)
  BY DEF Requeue, AwaitChange
<1>2. queued' \in [Operators -> [Sessions -> BOOLEAN]]
  <2>1. CASE Requeue(o, s)
    BY <2>1 DEF Requeue, TypeOK
  <2>2. CASE AwaitChange(o, s)
    BY <2>2 DEF AwaitChange, TypeOK
  <2> QED BY <2>1, <2>2
<1> QED BY <1>1, <1>2, EndTyped DEF RuntimeTyped

LEMMA SetPcTyped ==
  ASSUME TypeOK, NEW o \in Operators, NEW s \in Sessions, NEW step \in Steps, SetPc(o, s, step)
  PROVE  pc' \in [Operators -> [Sessions -> Steps]]
BY DEF SetPc, TypeOK

LEMMA SetPodTyped ==
  ASSUME TypeOK, NEW s \in Sessions, NEW p \in Pods, SetPod(s, p)
  PROVE  pod' \in [Sessions -> Pods] /\ queued' \in [Operators -> [Sessions -> BOOLEAN]]
<1>1. pod' \in [Sessions -> Pods]
  BY DEF SetPod, TypeOK
<1>2. queued' \in [Operators -> [Sessions -> BOOLEAN]]
  BY DEF SetPod, PodEvent, TypeOK
<1> QED BY <1>1, <1>2

LEMMA DeletePodTyped ==
  ASSUME TypeOK, NEW s \in Sessions, DeletePod(s)
  PROVE  pod' \in [Sessions -> Pods] /\ queued' \in [Operators -> [Sessions -> BOOLEAN]]
<1>1. Doomed(pod[s]) \in Pods
  BY PodUpdates DEF TypeOK
<1>2. CASE Exists(pod[s]) /\ ~pod[s].terminating
  BY <1>1, <1>2, SetPodTyped DEF DeletePod
<1>3. CASE ~(Exists(pod[s]) /\ ~pod[s].terminating)
  BY <1>3 DEF DeletePod, TypeOK
<1> QED BY <1>2, <1>3

\* No step of the program or of its environment leaves the types.
LEMMA TypeStep == TypeOK /\ [Next]_vars => TypeOK'
<1> SUFFICES ASSUME TypeOK, [Next]_vars PROVE TypeOK'
  OBVIOUS
<1>1. ASSUME NEW s \in Sessions, UserStep(s) PROVE TypeOK'
  <2>1. CASE APICreate(s)
    BY <2>1, CRUpdates DEF APICreate, TypeOK
  <2>2. CASE APIDelete(s)
    BY <2>2, CRUpdates, ConstantTypes DEF APIDelete, TypeOK
  <2> QED BY <1>1, <2>1, <2>2 DEF UserStep
<1>2. ASSUME NEW o \in Operators, Restart(o) PROVE TypeOK'
  BY <1>2, ConstantTypes, MaxFaultsAssumption
  DEF Restart, UseFault, Steps, CRStates, TypeOK, InAPI
<1>3. ASSUME NEW o \in Operators, NEW s \in Sessions, RuntimeStep(o, s) PROVE TypeOK'
  <2>1. CASE Watch(o, s)
    BY <2>1 DEF Watch, InAPI, TypeOK
  <2>2. CASE Resync(o, s)
    BY <2>2 DEF Resync, TypeOK
  <2>3. CASE DropRequest(o, s)
    BY <2>3 DEF DropRequest, TypeOK
  <2>4. CASE StartReconcile(o, s)
    <3>1. cache[o][s] \in CRs
      BY DEF TypeOK
    <3>2. FirstStep(cache[o][s]) \in Steps /\ cache[o][s].state \in CRStates
      BY <2>4, <3>1, FirstStepCases DEF StartReconcile, Steps, CRs
    <3> QED BY <2>4, <3>2 DEF StartReconcile, SetPc, TypeOK
  <2> QED BY <1>3, <2>1, <2>2, <2>3, <2>4 DEF RuntimeStep
<1>4. ASSUME NEW o \in Operators, NEW s \in Sessions, ReconcileStep(o, s) PROVE TypeOK'
  <2>1. CASE AddFinalizer(o, s)
    <3>1. cr' \in [Sessions -> CRs]
      <4>1. Finalized(cr[s]) \in CRs
        BY CRUpdates DEF TypeOK
      <4> QED BY <2>1, <4>1 DEF AddFinalizer, TypeOK
    <3>2. RuntimeTyped'
      <4>1. Requeue(o, s) \/ AwaitChange(o, s)
        BY <2>1 DEF AddFinalizer
      <4> QED BY <4>1, RequeueTyped
    <3> QED BY <2>1, <3>1, <3>2 DEF AddFinalizer, RuntimeTyped, TypeOK
  <2>2. CASE RemoveFinalizer(o, s)
    <3>1. cr' \in [Sessions -> CRs]
      BY <2>2, ConstantTypes DEF RemoveFinalizer, TypeOK
    <3>2. RuntimeTyped'
      <4>1. Requeue(o, s) \/ AwaitChange(o, s)
        BY <2>2 DEF RemoveFinalizer
      <4> QED BY <4>1, RequeueTyped
    <3> QED BY <2>2, <3>1, <3>2 DEF RemoveFinalizer, RuntimeTyped, TypeOK
  <2>3. CASE ApplyPod(o, s)
    <3>1. pod' \in [Sessions -> Pods] /\ queued' \in [Operators -> [Sessions -> BOOLEAN]]
      <4>1. CASE Exists(pod[s])
        BY <2>3, <4>1 DEF ApplyPod, TypeOK
      <4>2. CASE ~Exists(pod[s])
        BY <2>3, <4>2, SetPodTyped, ConstantTypes DEF ApplyPod
      <4> QED BY <4>1, <4>2
    <3>2. /\ pc' \in [Operators -> [Sessions -> Steps]]
          /\ target' \in [Operators -> [Sessions -> Targets]]
      <4>1. [state |-> "Starting", podName |-> TRUE] \in Targets
        BY DEF Targets, CRStates, WrittenStates
      <4>2. "setStatus" \in Steps
        BY DEF Steps
      <4> QED BY <2>3, <4>1, <4>2, SetPcTyped DEF ApplyPod, WriteNext, TypeOK
    <3> QED BY <2>3, <3>1, <3>2 DEF ApplyPod, TypeOK
  <2>4. CASE GetPod(o, s)
    <3>1. RuntimeTyped'
      <4>1. CASE Requeue(o, s)
        BY <4>1, RequeueTyped
      <4>2. ASSUME NEW t \in Targets, WriteNext(o, s, t), UNCHANGED <<seen, queued>>
            PROVE  RuntimeTyped'
        BY <4>2 DEF WriteNext, SetPc, Steps, RuntimeTyped, TypeOK
      <4>3. [state |-> "Failed", podName |-> FALSE] \in Targets
        BY DEF Targets, CRStates, WrittenStates
      <4>4. [state |-> DeriveState(pod[s]), podName |-> TRUE] \in Targets
        BY DeriveType DEF Targets, CRStates, TypeOK
      <4> QED BY <2>4, <4>1, <4>2, <4>3, <4>4 DEF GetPod
    <3> QED BY <2>4, <3>1 DEF GetPod, RuntimeTyped, TypeOK
  <2>5. CASE SetStatus(o, s)
    <3>1. cr' \in [Sessions -> CRs]
      <4>1. WithStatus(cr[s], target[o][s]) \in CRs
        BY StatusUpdate DEF TypeOK
      <4> QED BY <2>5, <4>1 DEF SetStatus, TypeOK
    <3>2. RuntimeTyped'
      BY <2>5, RequeueTyped DEF SetStatus
    <3> QED BY <2>5, <3>1, <3>2 DEF SetStatus, RuntimeTyped, TypeOK
  <2>6. CASE TerminalGet(o, s)
    <3>1. CASE Exists(pod[s])
      <4>1. "terminalDelete" \in Steps /\ SetPc(o, s, "terminalDelete")
        BY <2>6, <3>1 DEF TerminalGet, Steps
      <4> QED BY <2>6, <3>1, <4>1, SetPcTyped DEF TerminalGet, TypeOK
    <3>2. CASE ~Exists(pod[s])
      BY <2>6, <3>2, RequeueTyped DEF TerminalGet, RuntimeTyped, TypeOK
    <3> QED BY <3>1, <3>2
  <2>7. CASE TerminalDelete(o, s)
    BY <2>7, DeletePodTyped, EndTyped DEF TerminalDelete, TypeOK
  <2>8. CASE CleanupGet(o, s)
    BY <2>8 DEF CleanupGet, SetPc, Steps, TypeOK
  <2>9. CASE CleanupDelete(o, s)
    <3>1. pc' \in [Operators -> [Sessions -> Steps]]
      BY <2>9 DEF CleanupDelete, SetPc, Steps, TypeOK
    <3> QED BY <2>9, <3>1, DeletePodTyped DEF CleanupDelete, TypeOK
  <2> QED BY <1>4, <2>1, <2>2, <2>3, <2>4, <2>5, <2>6, <2>7, <2>8, <2>9 DEF ReconcileStep
<1>5. ASSUME NEW o \in Operators, NEW s \in Sessions, Faulty(o, s) PROVE TypeOK'
  <2>1. faults' \in 0 .. MaxFaults
    BY <1>5, MaxFaultsAssumption DEF Faulty, FailedCall, SwallowedError, UseFault, TypeOK
  <2>2. CASE FailedCall(o, s)
    BY <2>1, <2>2, RequeueTyped DEF FailedCall, RuntimeTyped, TypeOK
  <2>3. CASE SwallowedError(o, s)
    <3>1. RuntimeTyped'
      <4>1. CASE AwaitChange(o, s)
        BY <4>1, RequeueTyped
      <4>2. CASE SetPc(o, s, "removeFinalizer") /\ UNCHANGED <<queued, seen, target>>
        BY <4>2 DEF SetPc, Steps, RuntimeTyped, TypeOK
      <4> QED BY <2>3, <4>1, <4>2 DEF SwallowedError
    <3> QED BY <2>1, <2>3, <3>1 DEF SwallowedError, RuntimeTyped, TypeOK
  <2> QED BY <1>5, <2>2, <2>3 DEF Faulty
<1>6. ASSUME NEW s \in Sessions, ClusterStep(s) PROVE TypeOK'
  <2> USE DEF PodEnvUnchanged
  <2>1. CASE KubeletStart(s)
    BY <2>1, PodUpdates, SetPodTyped DEF KubeletStart, TypeOK
  <2>2. CASE Readiness(s)
    BY <2>2, PodUpdates, SetPodTyped DEF Readiness, TypeOK
  <2>3. CASE Evict(s)
    BY <2>3, PodUpdates, SetPodTyped, MaxFaultsAssumption DEF Evict, UseFault, TypeOK
  <2>4. CASE GarbageCollect(s)
    BY <2>4, PodUpdates, SetPodTyped DEF GarbageCollect, TypeOK
  <2>5. CASE KubeletRemove(s)
    BY <2>5, ConstantTypes, SetPodTyped DEF KubeletRemove, TypeOK
  <2>6. ASSUME NEW a \in AgentStates, Annotate(s, a) PROVE TypeOK'
    BY <2>6, AgentStatesAssumption, AnnotationUpdate, SetPodTyped DEF Annotate, TypeOK
  <2>7. ASSUME NEW phase \in {"Succeeded", "Failed"}, PodExit(s, phase) PROVE TypeOK'
    BY <2>7, ExitUpdate, SetPodTyped DEF PodExit, Phases, TypeOK
  <2> QED BY <1>6, <2>1, <2>2, <2>3, <2>4, <2>5, <2>6, <2>7 DEF ClusterStep
<1>7. CASE UNCHANGED vars
  BY <1>7 DEF vars, TypeOK
<1> QED BY <1>1, <1>2, <1>3, <1>4, <1>5, <1>6, <1>7 DEF Next

\* Every variable keeps its type, whatever fails and however many operators run.
THEOREM TypeCorrect == Spec => []TypeOK
BY TypeInit, TypeStep, PTL DEF Spec

-----------------------------------------------------------------------------
(* Sessions do not interfere: a step that serves one leaves the others alone.*)

Untouched(r) ==
  /\ cr'[r] = cr[r] /\ pod'[r] = pod[r]
  /\ \A o \in Operators :
       /\ cache'[o][r] = cache[o][r] /\ pc'[o][r] = pc[o][r]
       /\ seen'[o][r] = seen[o][r] /\ target'[o][r] = target[o][r]

\* r's part of what a reconcile keeps is as it was.
RuntimeUntouched(r) ==
  \A o \in Operators :
    pc'[o][r] = pc[o][r] /\ seen'[o][r] = seen[o][r] /\ target'[o][r] = target[o][r]

LEMMA EndFrame ==
  ASSUME TypeOK, NEW o \in Operators, NEW s \in Sessions, NEW r \in Sessions, r # s,
         Requeue(o, s) \/ AwaitChange(o, s) \/ EndReconcile(o, s)
  PROVE  RuntimeUntouched(r)
<1>1. EndReconcile(o, s)
  BY DEF Requeue, AwaitChange
<1> QED BY <1>1 DEF EndReconcile, RuntimeUntouched, TypeOK

LEMMA SetPcFrame ==
  ASSUME TypeOK, NEW o \in Operators, NEW s \in Sessions, NEW r \in Sessions, r # s,
         NEW step, SetPc(o, s, step), UNCHANGED <<seen, target>>
  PROVE  RuntimeUntouched(r)
BY DEF SetPc, RuntimeUntouched, TypeOK

LEMMA WriteNextFrame ==
  ASSUME TypeOK, NEW o \in Operators, NEW s \in Sessions, NEW r \in Sessions, r # s,
         NEW t, WriteNext(o, s, t), UNCHANGED seen
  PROVE  RuntimeUntouched(r)
BY DEF WriteNext, SetPc, RuntimeUntouched, TypeOK

\* A step of the user or of the cluster is about one session.
LEMMA OutsideFrame ==
  ASSUME TypeOK, NEW s \in Sessions, NEW r \in Sessions, r # s, UserStep(s) \/ ClusterStep(s)
  PROVE  Untouched(r)
<1> USE DEF Untouched
<1>1. CASE UserStep(s)
  <2>1. CASE APICreate(s)
    BY <2>1 DEF APICreate, TypeOK
  <2>2. CASE APIDelete(s)
    BY <2>2 DEF APIDelete, TypeOK
  <2> QED BY <1>1, <2>1, <2>2 DEF UserStep
<1>2. CASE ClusterStep(s)
  <2> USE DEF PodEnvUnchanged, SetPod
  <2>1. CASE KubeletStart(s)
    BY <2>1 DEF KubeletStart, TypeOK
  <2>2. CASE Readiness(s)
    BY <2>2 DEF Readiness, TypeOK
  <2>3. CASE Evict(s)
    BY <2>3 DEF Evict, TypeOK
  <2>4. CASE GarbageCollect(s)
    BY <2>4 DEF GarbageCollect, TypeOK
  <2>5. CASE KubeletRemove(s)
    BY <2>5 DEF KubeletRemove, TypeOK
  <2>6. ASSUME NEW a \in AgentStates, Annotate(s, a) PROVE Untouched(r)
    BY <2>6 DEF Annotate, TypeOK
  <2>7. ASSUME NEW phase \in {"Succeeded", "Failed"}, PodExit(s, phase) PROVE Untouched(r)
    BY <2>7 DEF PodExit, TypeOK
  <2> QED BY <1>2, <2>1, <2>2, <2>3, <2>4, <2>5, <2>6, <2>7 DEF ClusterStep
<1> QED BY <1>1, <1>2

\* So is a step of an operator, a restart apart.
LEMMA OperatorFrame ==
  ASSUME TypeOK, NEW o \in Operators, NEW s \in Sessions, NEW r \in Sessions, r # s,
         RuntimeStep(o, s) \/ ReconcileStep(o, s) \/ Faulty(o, s)
  PROVE  Untouched(r)
<1> USE DEF Untouched
<1>1. CASE RuntimeStep(o, s)
  <2>1. CASE Watch(o, s)
    BY <2>1 DEF Watch, TypeOK
  <2>2. CASE Resync(o, s)
    BY <2>2 DEF Resync, TypeOK
  <2>3. CASE DropRequest(o, s)
    BY <2>3 DEF DropRequest, TypeOK
  <2>4. CASE StartReconcile(o, s)
    BY <2>4 DEF StartReconcile, SetPc, TypeOK
  <2> QED BY <1>1, <2>1, <2>2, <2>3, <2>4 DEF RuntimeStep
<1>2. CASE ReconcileStep(o, s)
  <2>1. RuntimeUntouched(r)
    <3>1. \/ Requeue(o, s) \/ AwaitChange(o, s) \/ EndReconcile(o, s)
          \/ UNCHANGED <<seen, target>> /\ \E step \in Steps : SetPc(o, s, step)
          \/ UNCHANGED seen /\ \E t \in Targets : WriteNext(o, s, t)
      <4>1. [state |-> "Starting", podName |-> TRUE] \in Targets
        BY DEF Targets, CRStates, WrittenStates
      <4>2. [state |-> "Failed", podName |-> FALSE] \in Targets
        BY DEF Targets, CRStates, WrittenStates
      <4>3. [state |-> DeriveState(pod[s]), podName |-> TRUE] \in Targets
        BY DeriveType DEF Targets, CRStates, TypeOK
      <4>4. CASE AddFinalizer(o, s) \/ RemoveFinalizer(o, s) \/ SetStatus(o, s)
        BY <4>4 DEF AddFinalizer, RemoveFinalizer, SetStatus
      <4>5. CASE ApplyPod(o, s)
        BY <4>5, <4>1 DEF ApplyPod
      <4>6. CASE GetPod(o, s)
        BY <4>6, <4>2, <4>3 DEF GetPod
      <4>7. CASE TerminalGet(o, s) \/ TerminalDelete(o, s)
        BY <4>7 DEF TerminalGet, TerminalDelete, Steps
      <4>8. CASE CleanupGet(o, s) \/ CleanupDelete(o, s)
        BY <4>8 DEF CleanupGet, CleanupDelete, Steps
      <4> QED BY <1>2, <4>4, <4>5, <4>6, <4>7, <4>8 DEF ReconcileStep
    <3> QED BY <3>1, EndFrame, SetPcFrame, WriteNextFrame
  <2>2. cr'[r] = cr[r]
    BY <1>2
    DEF ReconcileStep, AddFinalizer, RemoveFinalizer, ApplyPod, GetPod, SetStatus, TerminalGet,
        TerminalDelete, CleanupGet, CleanupDelete, TypeOK
  <2>3. pod'[r] = pod[r]
    BY <1>2
    DEF ReconcileStep, AddFinalizer, RemoveFinalizer, ApplyPod, GetPod, SetStatus, TerminalGet,
        TerminalDelete, CleanupGet, CleanupDelete, DeletePod, SetPod, TypeOK
  <2>4. cache' = cache
    BY <1>2
    DEF ReconcileStep, AddFinalizer, RemoveFinalizer, ApplyPod, GetPod, SetStatus, TerminalGet,
        TerminalDelete, CleanupGet, CleanupDelete
  <2> QED BY <2>1, <2>2, <2>3, <2>4 DEF RuntimeUntouched
<1>3. CASE Faulty(o, s)
  <2>1. RuntimeUntouched(r)
    <3>1. CASE Requeue(o, s) \/ AwaitChange(o, s)
      BY <3>1, EndFrame
    <3>2. CASE SetPc(o, s, "removeFinalizer") /\ UNCHANGED <<queued, seen, target>>
      BY <3>2, SetPcFrame
    <3> QED BY <1>3, <3>1, <3>2 DEF Faulty, FailedCall, SwallowedError
  <2> QED BY <1>3, <2>1 DEF Faulty, FailedCall, SwallowedError, RuntimeUntouched
<1> QED BY <1>1, <1>2, <1>3

-----------------------------------------------------------------------------
(* The finalizer guards the pod.                                             *)

LEMMA GuardInit == Init => GuardInv
<1> SUFFICES ASSUME Init PROVE GuardInv
  OBVIOUS
<1>1. NoCR.life = "none" /\ ~NoCR.finalizer /\ ~Exists(NoPod)
  BY DEF NoCR, NoPod, Exists
<1> QED
  BY <1>1, TypeInit DEF Init, GuardInv, GuardedSession, Guarded, Unborn, FinalizerKnown

LEMMA GuardFrame ==
  ASSUME NEW s \in Sessions, Untouched(s), GuardedSession(s)
  PROVE  GuardedSession(s)'
BY DEF Untouched, GuardedSession, Guarded, Unborn, FinalizerKnown, Exists

\* Deletion, creation: the CR changes, nothing else does.
LEMMA GuardUser ==
  ASSUME TypeOK, NEW s \in Sessions, UserStep(s), GuardedSession(s)
  PROVE  GuardedSession(s)'
<1> USE DEF GuardedSession, Guarded, Unborn, FinalizerKnown
<1>0. cr[s] \in CRs /\ ~NoCR.finalizer /\ GoneCR.life = "gone"
  BY DEF TypeOK, NoCR, GoneCR
<1>1. CASE APICreate(s)
  <2>1. cr'[s] = Created(cr[s]) /\ UNCHANGED <<pod, cache, pc>> /\ cr[s].life = "none"
    BY <1>1 DEF APICreate, TypeOK
  <2>2. Created(cr[s]).life = "live" /\ Created(cr[s]).finalizer = cr[s].finalizer
    BY <1>0, CRUpdates
  <2> QED BY <1>0, <2>1, <2>2 DEF Exists
<1>2. CASE APIDelete(s)
  <2>1. /\ cr'[s] = IF cr[s].finalizer THEN Deleted(cr[s]) ELSE GoneCR
        /\ UNCHANGED <<pod, cache, pc>>
    BY <1>2 DEF APIDelete, TypeOK
  <2>2. Deleted(cr[s]).life = "deleting" /\ Deleted(cr[s]).finalizer = cr[s].finalizer
    BY <1>0, CRUpdates
  <2> QED BY <1>0, <2>1, <2>2
<1> QED BY <1>1, <1>2 DEF UserStep

\* The cluster changes pods, and never makes one of nothing.
LEMMA ClusterEffect ==
  ASSUME TypeOK, NEW s \in Sessions, ClusterStep(s)
  PROVE  /\ UNCHANGED <<cr, cache, pc, seen, target>>
         /\ Exists(pod[s])
<1> USE DEF PodEnvUnchanged
<1>1. CASE KubeletStart(s) \/ Readiness(s)
  BY <1>1 DEF KubeletStart, Readiness, Exists
<1>2. CASE Evict(s) \/ GarbageCollect(s) \/ KubeletRemove(s)
  BY <1>2 DEF Evict, GarbageCollect, KubeletRemove
<1>3. ASSUME NEW a \in AgentStates, Annotate(s, a)
      PROVE  UNCHANGED <<cr, cache, pc, seen, target>> /\ Exists(pod[s])
  BY <1>3 DEF Annotate, Exists
<1>4. ASSUME NEW phase \in {"Succeeded", "Failed"}, PodExit(s, phase)
      PROVE  UNCHANGED <<cr, cache, pc, seen, target>> /\ Exists(pod[s])
  BY <1>4 DEF PodExit, Exists
<1> QED BY <1>1, <1>2, <1>3, <1>4 DEF ClusterStep

LEMMA GuardCluster ==
  ASSUME TypeOK, NEW s \in Sessions, ClusterStep(s), GuardedSession(s)
  PROVE  GuardedSession(s)'
BY ClusterEffect DEF GuardedSession, Guarded, Unborn, FinalizerKnown

\* A reconcile only goes to applyPod with a copy of the CR that has the finalizer.
LEMMA GuardRuntime ==
  ASSUME TypeOK, NEW o \in Operators, NEW s \in Sessions, RuntimeStep(o, s), GuardedSession(s)
  PROVE  GuardedSession(s)'
<1> USE DEF GuardedSession, Guarded, Unborn, FinalizerKnown
<1>0. UNCHANGED <<cr, pod>>
  BY DEF RuntimeStep, Watch, Resync, DropRequest, StartReconcile
<1>1. CASE Watch(o, s)
  <2>1. cr[s].life # "none"
    BY <1>1 DEF Watch
  <2>2. /\ UNCHANGED pc /\ cache'[o][s] = cr[s]
        /\ \A q \in Operators : q # o => cache'[q][s] = cache[q][s]
    BY <1>1 DEF Watch, TypeOK
  <2> QED BY <1>0, <2>1, <2>2
<1>2. CASE Resync(o, s) \/ DropRequest(o, s)
  BY <1>0, <1>2 DEF Resync, DropRequest
<1>3. CASE StartReconcile(o, s)
  <2>1. /\ UNCHANGED cache /\ InAPI(cache[o][s]) /\ cache[o][s] \in CRs
        /\ pc'[o][s] = FirstStep(cache[o][s])
        /\ \A q \in Operators : q # o => pc'[q][s] = pc[q][s]
    BY <1>3 DEF StartReconcile, SetPc, TypeOK
  <2>2. cr[s].life # "none"
    BY <2>1 DEF InAPI, NoCR
  <2>3. pc'[o][s] = "applyPod" => cache[o][s].finalizer
    BY <2>1, FirstStepCases
  <2> QED BY <1>0, <2>1, <2>2, <2>3
<1> QED BY <1>1, <1>2, <1>3 DEF RuntimeStep

\* Where a reconcile can go next: never back to applyPod.
LEMMA PcEffect ==
  ASSUME TypeOK, NEW o \in Operators, NEW s \in Sessions, ReconcileStep(o, s) \/ Faulty(o, s)
  PROVE  /\ pc[o][s] # "none"
         /\ pc'[o][s] \in {"none", "setStatus", "terminalDelete", "cleanupDelete", "removeFinalizer"}
         /\ \A q \in Operators : q # o => pc'[q][s] = pc[q][s]
<1> USE DEF SetPc, EndReconcile, Requeue, AwaitChange, WriteNext
<1>1. CASE AddFinalizer(o, s)
  BY <1>1 DEF AddFinalizer, TypeOK
<1>2. CASE RemoveFinalizer(o, s)
  BY <1>2 DEF RemoveFinalizer, TypeOK
<1>3. CASE ApplyPod(o, s)
  BY <1>3 DEF ApplyPod, TypeOK
<1>4. CASE GetPod(o, s)
  <2>1. \/ pc' = [pc EXCEPT ![o][s] = "setStatus"]
        \/ pc' = [pc EXCEPT ![o][s] = "none"]
    BY <1>4 DEF GetPod
  <2> QED BY <1>4, <2>1 DEF GetPod, TypeOK
<1>5. CASE SetStatus(o, s)
  BY <1>5 DEF SetStatus, TypeOK
<1>6. CASE TerminalGet(o, s)
  <2>1. \/ pc' = [pc EXCEPT ![o][s] = "terminalDelete"]
        \/ pc' = [pc EXCEPT ![o][s] = "none"]
    BY <1>6 DEF TerminalGet
  <2> QED BY <1>6, <2>1 DEF TerminalGet, TypeOK
<1>7. CASE TerminalDelete(o, s)
  BY <1>7 DEF TerminalDelete, TypeOK
<1>8. CASE CleanupGet(o, s)
  BY <1>8 DEF CleanupGet, TypeOK
<1>9. CASE CleanupDelete(o, s)
  BY <1>9 DEF CleanupDelete, TypeOK
<1>10. CASE FailedCall(o, s)
  BY <1>10 DEF FailedCall, TypeOK
<1>11. CASE SwallowedError(o, s)
  <2>1. \/ pc' = [pc EXCEPT ![o][s] = "removeFinalizer"]
        \/ pc' = [pc EXCEPT ![o][s] = "none"]
    BY <1>11 DEF SwallowedError
  <2> QED BY <1>11, <2>1 DEF SwallowedError, TypeOK
<1> QED
  BY <1>1, <1>2, <1>3, <1>4, <1>5, <1>6, <1>7, <1>8, <1>9, <1>10, <1>11
  DEF ReconcileStep, Faulty

\* What a reconcile can do to the CR and to the pod.
LEMMA ReconcileEffect ==
  ASSUME TypeOK, NEW o \in Operators, NEW s \in Sessions, ReconcileStep(o, s) \/ Faulty(o, s)
  PROVE  /\ UNCHANGED cache
         /\ \/ cr'[s] = cr[s]
            \/ pc[o][s] = "addFinalizer" /\ cr'[s] = Finalized(cr[s])
            \/ pc[o][s] = "removeFinalizer" /\ cr'[s] = GoneCR
            \/ pc[o][s] = "setStatus" /\ InAPI(cr[s]) /\ cr'[s] = WithStatus(cr[s], target[o][s])
         /\ \/ pod'[s] = pod[s]
            \/ pc[o][s] = "applyPod" /\ ~Exists(pod[s]) /\ pod'[s] = FreshPod
            \/ /\ pc[o][s] \in {"terminalDelete", "cleanupDelete"}
               /\ Exists(pod[s]) /\ pod'[s] = Doomed(pod[s])
<1>1. CASE AddFinalizer(o, s)
  BY <1>1 DEF AddFinalizer, TypeOK
<1>2. CASE RemoveFinalizer(o, s)
  BY <1>2 DEF RemoveFinalizer, TypeOK
<1>3. CASE ApplyPod(o, s)
  BY <1>3 DEF ApplyPod, SetPod, TypeOK
<1>4. CASE GetPod(o, s)
  BY <1>4 DEF GetPod
<1>5. CASE SetStatus(o, s)
  BY <1>5 DEF SetStatus, TypeOK
<1>6. CASE TerminalGet(o, s) \/ CleanupGet(o, s)
  BY <1>6 DEF TerminalGet, CleanupGet
<1>7. CASE TerminalDelete(o, s)
  BY <1>7 DEF TerminalDelete, DeletePod, SetPod, TypeOK
<1>8. CASE CleanupDelete(o, s)
  BY <1>8 DEF CleanupDelete, DeletePod, SetPod, TypeOK
<1>9. CASE FailedCall(o, s) \/ SwallowedError(o, s)
  BY <1>9 DEF FailedCall, SwallowedError
<1> QED
  BY <1>1, <1>2, <1>3, <1>4, <1>5, <1>6, <1>7, <1>8, <1>9 DEF ReconcileStep, Faulty

LEMMA GuardReconcile ==
  ASSUME TypeOK, NEW o \in Operators, NEW s \in Sessions, ReconcileStep(o, s) \/ Faulty(o, s),
         GuardedSession(s)
  PROVE  GuardedSession(s)'
<1> USE DEF GuardedSession, Guarded, Unborn, FinalizerKnown
<1>1. cr[s].life # "none"
  BY PcEffect
<1>2. \A q \in Operators : pc'[q][s] = "applyPod" => pc[q][s] = "applyPod"
  BY PcEffect
<1>3. \/ cr'[s].life = cr[s].life /\ (cr[s].finalizer => cr'[s].finalizer)
      \/ cr'[s].life = "gone"
  <2>1. cr[s] \in CRs /\ target[o][s] \in Targets
    BY DEF TypeOK
  <2>2. Finalized(cr[s]).life = cr[s].life /\ Finalized(cr[s]).finalizer
    BY <2>1, CRUpdates
  <2>3. /\ WithStatus(cr[s], target[o][s]).life = cr[s].life
        /\ WithStatus(cr[s], target[o][s]).finalizer = cr[s].finalizer
    BY <2>1, StatusUpdate
  <2>4. GoneCR.life = "gone"
    BY DEF GoneCR, NoCR
  <2> QED BY <2>2, <2>3, <2>4, ReconcileEffect
<1>4. Exists(pod'[s]) => Exists(pod[s]) \/ pc[o][s] = "applyPod"
  BY ReconcileEffect
<1> QED BY <1>1, <1>2, <1>3, <1>4, ReconcileEffect

LEMMA GuardRestart ==
  ASSUME TypeOK, NEW o \in Operators, Restart(o), NEW s \in Sessions, GuardedSession(s)
  PROVE  GuardedSession(s)'
<1>1. /\ UNCHANGED <<cr, pod>> /\ cache'[o][s] = cr[s] /\ pc'[o][s] = "none"
      /\ \A q \in Operators : q # o => cache'[q] = cache[q] /\ pc'[q] = pc[q]
  BY DEF Restart, TypeOK
<1> QED BY <1>1 DEF GuardedSession, Guarded, Unborn, FinalizerKnown

LEMMA GuardStep == GuardInv /\ TypeOK' /\ [Next]_vars => GuardInv'
<1> SUFFICES ASSUME GuardInv, TypeOK', [Next]_vars, NEW r \in Sessions
             PROVE  GuardedSession(r)'
  BY DEF GuardInv
<1>0. TypeOK /\ GuardedSession(r)
  BY DEF GuardInv
<1>1. ASSUME NEW s \in Sessions, UserStep(s) \/ ClusterStep(s) PROVE GuardedSession(r)'
  <2>1. CASE s = r
    BY <1>0, <1>1, <2>1, GuardUser, GuardCluster
  <2>2. CASE s # r
    BY <1>0, <1>1, <2>2, OutsideFrame, GuardFrame
  <2> QED BY <2>1, <2>2
<1>2. ASSUME NEW o \in Operators, NEW s \in Sessions,
             RuntimeStep(o, s) \/ ReconcileStep(o, s) \/ Faulty(o, s)
      PROVE  GuardedSession(r)'
  <2>1. CASE s = r
    BY <1>0, <1>2, <2>1, GuardRuntime, GuardReconcile
  <2>2. CASE s # r
    BY <1>0, <1>2, <2>2, OperatorFrame, GuardFrame
  <2> QED BY <2>1, <2>2
<1>3. ASSUME NEW o \in Operators, Restart(o) PROVE GuardedSession(r)'
  BY <1>0, <1>3, GuardRestart
<1>4. CASE UNCHANGED vars
  BY <1>0, <1>4, GuardFrame DEF vars, Untouched
<1> QED BY <1>1, <1>2, <1>3, <1>4 DEF Next

LEMMA GuardInvariant == Spec => []GuardInv
BY GuardInit, GuardStep, TypeCorrect, PTL DEF Spec

\* A CR with a pod, or one being deleted, has the finalizer: for any number of
\* sessions and operators, with stale caches, failed calls and restarts.
THEOREM FinalizerGuards == Spec => []FinalizerGuardsPod
<1>1. GuardInv => FinalizerGuardsPod
  BY DEF GuardInv, GuardedSession, FinalizerGuardsPod
<1> QED BY <1>1, GuardInvariant, PTL

=============================================================================
