--------------------------- MODULE SessionOverProofs ---------------------------
(***************************************************************************)
(* With one operator, what is over stays over, and the operator keeps to      *)
(* SessionContract: proofs for every set of sessions, every concurrency and    *)
(* any number of faults.                                                    *)
(***************************************************************************)
EXTENDS SessionOperatorProofs

-----------------------------------------------------------------------------
(* Pods.                                                                    *)

\* derive_state_from_pod looks at the annotation, the phase and the readiness only.
LEMMA DeriveSame ==
  ASSUME NEW p \in Pods, NEW q \in Pods, q.annotation = p.annotation,
         q.phase = p.phase, q.ready = p.ready
  PROVE  DeriveState(q) = DeriveState(p)
BY DEF DeriveState, StateFromPhase, Pods

\* A pod whose phase is Running or Pending is over only by its annotation.
LEMMA OverByAnnotation ==
  ASSUME NEW p \in Pods, Over(p), p.phase \in {"Running", "Pending"}
  PROVE  p.annotation \in {"finished", "failed"}
BY DEF Over, DeriveState, StateFromPhase, TerminalCRStates, Pods, Annotations

\* A last word stays the last word, whatever the phase.
LEMMA LastWord ==
  ASSUME NEW p \in Pods, p.annotation \in {"finished", "failed"}
  PROVE  Over(p)
BY DEF Over, DeriveState, TerminalCRStates, Pods

LEMMA ActiveNotPending ==
  ASSUME NEW p \in Pods, p.phase = "Pending" => p.annotation = "none",
         DeriveState(p) \in {"Idle", "Busy"}
  PROVE  p.phase # "Pending"
BY DEF DeriveState, StateFromPhase, Pods

\* What the cluster and the agent can do to a pod.
LEMMA PodStep ==
  ASSUME TypeOK, NEW s \in Sessions, ClusterStep(s)
  PROVE  \/ pod[s].phase = "Pending" /\ pod'[s] = Started(pod[s])
         \/ pod[s].phase = "Running" /\ pod'[s] = Flipped(pod[s])
         \/ pod'[s] = Doomed(pod[s])
         \/ pod'[s] = NoPod
         \/ /\ pod[s].phase = "Running" /\ pod[s].annotation \notin {"finished", "failed"}
            /\ \E a \in AgentStates : pod'[s] = Annotated(pod[s], a)
         \/ /\ pod[s].phase \in {"Running", "Pending"}
            /\ \E phase \in {"Succeeded", "Failed"} : pod'[s] = ExitedAs(pod[s], phase)
<1> USE DEF SetPod
<1>1. CASE KubeletStart(s)
  BY <1>1 DEF KubeletStart, TypeOK
<1>2. CASE Readiness(s)
  BY <1>2 DEF Readiness, TypeOK
<1>3. CASE Evict(s)
  BY <1>3 DEF Evict, TypeOK
<1>4. CASE GarbageCollect(s)
  BY <1>4 DEF GarbageCollect, TypeOK
<1>5. CASE KubeletRemove(s)
  BY <1>5 DEF KubeletRemove, TypeOK
<1>6. ASSUME NEW a \in AgentStates, Annotate(s, a)
      PROVE  /\ pod[s].phase = "Running" /\ pod[s].annotation \notin {"finished", "failed"}
             /\ pod'[s] = Annotated(pod[s], a)
  BY <1>6 DEF Annotate, TypeOK
<1>7. ASSUME NEW phase \in {"Succeeded", "Failed"}, PodExit(s, phase)
      PROVE  pod[s].phase \in {"Running", "Pending"} /\ pod'[s] = ExitedAs(pod[s], phase)
  BY <1>7 DEF PodExit, TypeOK
<1> QED BY <1>1, <1>2, <1>3, <1>4, <1>5, <1>6, <1>7 DEF ClusterStep

\* A pod that is over never comes back to life, one that has started never
\* waits again, and one that is terminating goes.
LEMMA PodOneWay ==
  ASSUME TypeOK, NEW s \in Sessions, ClusterStep(s), Exists(pod[s])
  PROVE  /\ Over(pod[s]) => ~Exists(pod'[s]) \/ Over(pod'[s])
         /\ pod'[s].phase = "Pending" =>
              pod[s].phase = "Pending" /\ pod'[s].annotation = pod[s].annotation
         /\ pod[s].terminating => ~Exists(pod'[s]) \/ pod'[s].terminating
<1> DEFINE p == pod[s]
<1>0. p \in Pods
  BY DEF TypeOK
<1>1. CASE p.phase = "Pending" /\ pod'[s] = Started(p)
  <2>1. /\ Started(p) \in Pods /\ Started(p).phase = "Running"
        /\ Started(p).annotation = p.annotation /\ Started(p).terminating = p.terminating
    BY <1>0, PodUpdates
  <2> QED BY <1>0, <1>1, <2>1, OverByAnnotation, LastWord
<1>2. CASE p.phase = "Running" /\ pod'[s] = Flipped(p)
  <2>1. /\ Flipped(p) \in Pods /\ Flipped(p).phase = "Running"
        /\ Flipped(p).annotation = p.annotation /\ Flipped(p).terminating = p.terminating
    BY <1>0, <1>2, PodUpdates
  <2> QED BY <1>0, <1>2, <2>1, OverByAnnotation, LastWord
<1>3. CASE pod'[s] = Doomed(p)
  <2>1. /\ Doomed(p) \in Pods /\ Doomed(p).phase = p.phase /\ Doomed(p).ready = p.ready
        /\ Doomed(p).annotation = p.annotation /\ Doomed(p).terminating
    BY <1>0, PodUpdates
  <2> QED BY <1>0, <1>3, <2>1, DeriveSame DEF Over
<1>4. CASE pod'[s] = NoPod
  BY <1>4 DEF NoPod, Exists
<1>5. ASSUME NEW a \in AgentStates, pod'[s] = Annotated(p, a), p.phase = "Running",
             p.annotation \notin {"finished", "failed"}
      PROVE  /\ ~Over(p)
             /\ pod'[s].phase = "Running" /\ pod'[s].terminating = p.terminating
  <2>1. Annotated(p, a).phase = p.phase /\ Annotated(p, a).terminating = p.terminating
    BY <1>0, AgentStatesAssumption, AnnotationUpdate
  <2> QED BY <1>0, <1>5, <2>1, OverByAnnotation
<1>6. ASSUME NEW phase \in {"Succeeded", "Failed"}, pod'[s] = ExitedAs(p, phase),
             p.phase \in {"Running", "Pending"}
      PROVE  /\ Over(p) => Over(pod'[s])
             /\ pod'[s].phase # "Pending" /\ pod'[s].terminating = p.terminating
  <2>1. /\ ExitedAs(p, phase) \in Pods /\ ExitedAs(p, phase).phase = phase
        /\ ExitedAs(p, phase).annotation = p.annotation
        /\ ExitedAs(p, phase).terminating = p.terminating
    BY <1>0, ExitUpdate DEF Phases
  <2> QED BY <1>0, <1>6, <2>1, OverByAnnotation, LastWord
<1> QED BY <1>1, <1>2, <1>3, <1>4, <1>5, <1>6, PodStep

-----------------------------------------------------------------------------
(* The invariant, one kind of step at a time.  `op` is the only operator.     *)

LEMMA OverInit == Init => \A s \in Sessions : SessionInv(s)
<1> SUFFICES ASSUME Init, NEW s \in Sessions PROVE SessionInv(s)
  OBVIOUS
<1>1. cr[s] = NoCR /\ pod[s] = NoPod /\ \A o \in Operators : cache[o][s] = NoCR /\ pc[o][s] = "none"
  BY DEF Init
<1> QED
  BY <1>1
  DEF SessionInv, HasStarted, LeavesNoPod, Shape, OverMeansOver, CacheLags, Reconciling, Writing,
      Terminal, NoCR, NoPod, NoStatus, InAPI, Exists, TerminalCRStates, ApplySteps, CleanupSteps

LEMMA OverFrame ==
  ASSUME NEW s \in Sessions, Untouched(s), SessionInv(s), faults' = 0 => faults = 0
  PROVE  SessionInv(s)'
<1> USE DEF Untouched
<1>1. HasStarted(s)' /\ LeavesNoPod(s)' /\ Shape(s)' /\ OverMeansOver(s)'
  BY DEF SessionInv, HasStarted, LeavesNoPod, Shape, OverMeansOver, Terminal, Exists, Over,
         DeriveState, StateFromPhase
<1>2. ASSUME NEW o \in Operators PROVE CacheLags(o, s)' /\ Reconciling(o, s)' /\ Writing(o, s)'
  BY DEF SessionInv, CacheLags, Reconciling, Writing, Terminal, Exists, Over, InAPI,
         DeriveState, StateFromPhase
<1> QED BY <1>1, <1>2 DEF SessionInv

LEMMA OverUser ==
  ASSUME TypeOK, NEW s \in Sessions, UserStep(s), GuardedSession(s), SessionInv(s)
  PROVE  SessionInv(s)'
<1> USE DEF SessionInv, HasStarted, LeavesNoPod, Shape, OverMeansOver, CacheLags, Reconciling,
            Writing, Terminal, InAPI
<1>0. cr[s] \in CRs /\ UNCHANGED <<pod, cache, pc, seen, target, faults>>
  BY DEF UserStep, APICreate, APIDelete, TypeOK
<1>1. CASE APICreate(s)
  <2>1. cr[s] = NoCR /\ ~Exists(pod[s])
    BY <1>1 DEF APICreate, GuardedSession, Unborn
  <2>2. \A o \in Operators : cache[o][s] = NoCR /\ pc[o][s] = "none"
    BY <1>1 DEF APICreate, GuardedSession, Unborn
  <2>3. cr'[s].life = "live" /\ ~cr'[s].finalizer /\ cr'[s].state = NoStatus
    BY <1>0, <1>1, <2>1, CRUpdates DEF APICreate, TypeOK, NoCR
  <2> QED
    BY <1>0, <2>1, <2>2, <2>3
    DEF NoCR, NoStatus, TerminalCRStates, ApplySteps, CleanupSteps
<1>2. CASE APIDelete(s) /\ cr[s].finalizer
  <2>1. cr[s].life = "live" /\ cr'[s] = Deleted(cr[s])
    BY <1>2 DEF APIDelete, TypeOK
  <2>2. cr'[s].life = "deleting" /\ cr'[s].finalizer /\ cr'[s].state = cr[s].state
    BY <1>0, <1>2, <2>1, CRUpdates
  <2> QED BY <1>0, <1>2, <2>1, <2>2
<1>3. CASE APIDelete(s) /\ ~cr[s].finalizer
  <2>1. cr[s].life = "live" /\ cr'[s] = GoneCR
    BY <1>3 DEF APIDelete, TypeOK
  <2>2. cr'[s].life = "gone" /\ cr'[s].state = NoStatus /\ NoStatus \notin TerminalCRStates
    BY <2>1 DEF GoneCR, NoCR, NoStatus, TerminalCRStates
  <2> QED BY <1>0, <1>3, <2>1, <2>2 DEF NoStatus
<1> QED BY <1>1, <1>2, <1>3 DEF UserStep

LEMMA OverCluster ==
  ASSUME TypeOK, NEW s \in Sessions, ClusterStep(s), SessionInv(s), faults' = 0 => faults = 0
  PROVE  SessionInv(s)'
<1>0. Exists(pod[s]) /\ UNCHANGED <<cr, cache, pc, seen, target>>
  BY ClusterEffect
<1>1. pod'[s].phase = "Pending" =>
        pod[s].phase = "Pending" /\ pod'[s].annotation = pod[s].annotation
  BY <1>0, PodOneWay
<1>2. Over(pod[s]) => ~Exists(pod'[s]) \/ Over(pod'[s])
  BY <1>0, PodOneWay
<1>3. pod[s].terminating => ~Exists(pod'[s]) \/ pod'[s].terminating
  BY <1>0, PodOneWay
<1>4. HasStarted(s)' /\ LeavesNoPod(s)' /\ Shape(s)' /\ OverMeansOver(s)'
  BY <1>0, <1>1, <1>2, <1>3
  DEF SessionInv, HasStarted, LeavesNoPod, Shape, OverMeansOver, Terminal
<1>5. ASSUME NEW o \in Operators PROVE CacheLags(o, s)' /\ Reconciling(o, s)' /\ Writing(o, s)'
  BY <1>0, <1>1, <1>2, <1>3 DEF SessionInv, CacheLags, Reconciling, Writing, Terminal, InAPI
<1> QED BY <1>4, <1>5 DEF SessionInv

LEMMA OverRuntime ==
  ASSUME TypeOK, NEW op, Operators = {op}, NEW s \in Sessions, RuntimeStep(op, s),
         GuardedSession(s), SessionInv(s)
  PROVE  SessionInv(s)'
<1>0. UNCHANGED <<cr, pod, target, faults>> /\ cr[s] \in CRs /\ op \in Operators
  BY DEF RuntimeStep, Watch, Resync, DropRequest, StartReconcile, TypeOK
<1>1. HasStarted(s)' /\ LeavesNoPod(s)' /\ Shape(s)' /\ OverMeansOver(s)'
  BY <1>0 DEF SessionInv, HasStarted, LeavesNoPod, Shape, OverMeansOver, Terminal
<1>2. CASE Watch(op, s)
  <2>1. UNCHANGED <<pc, seen>> /\ cache'[op][s] = cr[s]
    BY <1>2 DEF Watch, TypeOK
  <2>2. CacheLags(op, s)'
    BY <1>0, <2>1 DEF CacheLags, InAPI, GuardedSession, Guarded
  <2>3. Reconciling(op, s)' /\ Writing(op, s)'
    BY <1>0, <2>1
    DEF SessionInv, CacheLags, Reconciling, Writing, Terminal, InAPI
  <2> QED BY <1>1, <2>2, <2>3 DEF SessionInv
<1>3. CASE Resync(op, s) \/ DropRequest(op, s)
  <2>1. UNCHANGED <<pc, seen, cache>>
    BY <1>3 DEF Resync, DropRequest
  <2> QED BY <1>0, <1>1, <2>1 DEF SessionInv, CacheLags, Reconciling, Writing, Terminal, InAPI
<1>4. CASE StartReconcile(op, s)
  <2>1. /\ UNCHANGED cache /\ InAPI(cache[op][s]) /\ cache[op][s] \in CRs
        /\ pc'[op][s] = FirstStep(cache[op][s]) /\ seen'[op][s] = cache[op][s].state
    BY <1>4 DEF StartReconcile, SetPc, TypeOK
  <2>2. CacheLags(op, s) /\ CacheLags(op, s)'
    BY <1>0, <2>1 DEF SessionInv, CacheLags, InAPI
  <2>3. Reconciling(op, s)'
    BY <1>0, <2>1, <2>2, FirstStepCases DEF CacheLags, Reconciling, ApplySteps, CleanupSteps, InAPI
  <2>4. Writing(op, s)'
    BY <2>1, FirstStepCases DEF Writing
  <2> QED BY <1>1, <2>2, <2>3, <2>4 DEF SessionInv
<1> QED BY <1>2, <1>3, <1>4 DEF RuntimeStep

LEMMA OverRestart ==
  ASSUME TypeOK, NEW op, Operators = {op}, Restart(op), NEW s \in Sessions,
         GuardedSession(s), SessionInv(s)
  PROVE  SessionInv(s)'
<1>0. /\ UNCHANGED <<cr, pod>> /\ cr[s] \in CRs /\ op \in Operators
      /\ cache'[op][s] = cr[s] /\ pc'[op][s] = "none" /\ (faults' = 0 => faults = 0)
  BY MaxFaultsAssumption DEF Restart, UseFault, TypeOK
<1>1. HasStarted(s)' /\ LeavesNoPod(s)' /\ Shape(s)' /\ OverMeansOver(s)'
  BY <1>0 DEF SessionInv, HasStarted, LeavesNoPod, Shape, OverMeansOver, Terminal
<1>2. CacheLags(op, s)' /\ Reconciling(op, s)' /\ Writing(op, s)'
  BY <1>0
  DEF CacheLags, Reconciling, Writing, InAPI, GuardedSession, Guarded, ApplySteps, CleanupSteps
<1> QED BY <1>1, <1>2 DEF SessionInv

\* A reconcile that ends relies on nothing any more.
LEMMA AtRest ==
  ASSUME NEW o \in Operators, NEW s \in Sessions, pc'[o][s] = "none"
  PROVE  Reconciling(o, s)' /\ Writing(o, s)'
BY DEF Reconciling, Writing, ApplySteps, CleanupSteps

\* The two patches of the finalizer wrapper.
LEMMA OverFinalizer ==
  ASSUME TypeOK, NEW op, Operators = {op}, NEW s \in Sessions,
         AddFinalizer(op, s) \/ RemoveFinalizer(op, s), SessionInv(s)
  PROVE  SessionInv(s)'
<1>0. /\ UNCHANGED <<pod, cache, faults>> /\ cr[s] \in CRs /\ op \in Operators
      /\ pc'[op][s] = "none"
  BY DEF AddFinalizer, RemoveFinalizer, Requeue, AwaitChange, EndReconcile, TypeOK
<1>1. Reconciling(op, s)' /\ Writing(op, s)'
  BY <1>0, AtRest
<1>2. CASE cr'[s] = cr[s]
  BY <1>0, <1>1, <1>2
  DEF SessionInv, HasStarted, LeavesNoPod, Shape, OverMeansOver, CacheLags, Terminal, InAPI
<1>3. CASE AddFinalizer(op, s) /\ cr'[s] # cr[s]
  <2>1. cr'[s] = Finalized(cr[s])
    BY <1>3 DEF AddFinalizer, TypeOK
  <2>2. cr'[s].life = cr[s].life /\ cr'[s].state = cr[s].state /\ cr'[s].finalizer
    BY <1>0, <2>1, CRUpdates
  <2> QED
    BY <1>0, <1>1, <2>2
    DEF SessionInv, HasStarted, LeavesNoPod, Shape, OverMeansOver, CacheLags, Terminal, InAPI
<1>4. CASE RemoveFinalizer(op, s) /\ cr'[s] # cr[s]
  <2>1. pc[op][s] = "removeFinalizer" /\ cr'[s] = GoneCR
    BY <1>4 DEF RemoveFinalizer, TypeOK
  <2>2. cr'[s].life = "gone" /\ cr'[s].state = NoStatus
    BY <2>1 DEF GoneCR, NoCR
  <2>3. cache[op][s].life \in {"deleting", "gone"}
    BY <1>0, <2>1 DEF SessionInv, Reconciling, CleanupSteps
  <2>4. faults = 0 => ~Exists(pod[s]) \/ pod[s].terminating
    BY <1>0, <2>1 DEF SessionInv, Reconciling
  <2>5. HasStarted(s)' /\ LeavesNoPod(s)' /\ Shape(s)' /\ OverMeansOver(s)'
    BY <1>0, <2>2, <2>4
    DEF SessionInv, HasStarted, LeavesNoPod, Shape, OverMeansOver, Terminal, TerminalCRStates,
        NoStatus
  <2>6. CacheLags(op, s)'
    BY <1>0, <2>2, <2>3 DEF SessionInv, CacheLags, InAPI
  <2> QED BY <1>1, <2>5, <2>6 DEF SessionInv
<1> QED BY <1>2, <1>3, <1>4

\* Creating the pod: the session is waiting or starting, the CR has its finalizer.
LEMMA OverApplyPod ==
  ASSUME TypeOK, NEW op, Operators = {op}, NEW s \in Sessions, ApplyPod(op, s), SessionInv(s)
  PROVE  SessionInv(s)'
<1>0. /\ UNCHANGED <<cr, cache, seen, faults>> /\ op \in Operators
      /\ pc[op][s] = "applyPod" /\ pc'[op][s] = "setStatus"
      /\ target'[op][s] = [state |-> "Starting", podName |-> TRUE]
  BY DEF ApplyPod, WriteNext, SetPc, TypeOK
<1>1. \/ pod'[s] = pod[s]
      \/ ~Exists(pod[s]) /\ pod'[s] = FreshPod
  BY DEF ApplyPod, SetPod, TypeOK
<1>2. /\ InAPI(cr[s]) /\ cr[s].finalizer /\ seen[op][s] = NoStatus
      /\ cr[s].state \in {NoStatus, "Starting"}
  BY <1>0 DEF SessionInv, Reconciling, ApplySteps
<1>3. FreshPod.annotation = "none"
  BY DEF FreshPod, NoPod
<1>4. HasStarted(s)' /\ LeavesNoPod(s)' /\ Shape(s)' /\ OverMeansOver(s)'
  BY <1>0, <1>1, <1>2, <1>3
  DEF SessionInv, HasStarted, LeavesNoPod, Shape, OverMeansOver, Terminal, TerminalCRStates,
      NoStatus, InAPI
<1>5. CacheLags(op, s)'
  BY <1>0 DEF SessionInv, CacheLags, InAPI
<1>6. Reconciling(op, s)'
  BY <1>0, <1>2 DEF Reconciling, ApplySteps, CleanupSteps, InAPI
<1>7. Writing(op, s)'
  BY <1>0, <1>2 DEF Writing, Terminal, TerminalCRStates, NoStatus
<1> QED BY <1>4, <1>5, <1>6, <1>7 DEF SessionInv

\* Reading the pod: what is derived from it is what is written later.
LEMMA OverGetPod ==
  ASSUME TypeOK, NEW op, Operators = {op}, NEW s \in Sessions, GetPod(op, s), SessionInv(s)
  PROVE  SessionInv(s)'
<1>0. UNCHANGED <<cr, pod, cache, faults>> /\ op \in Operators /\ pc[op][s] = "getPod"
  BY DEF GetPod
<1>1. /\ InAPI(cr[s]) /\ cr[s].finalizer /\ seen[op][s] # NoStatus
      /\ cache[op][s].state # NoStatus
  BY <1>0 DEF SessionInv, Reconciling, ApplySteps
<1>2. HasStarted(s)' /\ LeavesNoPod(s)' /\ Shape(s)' /\ OverMeansOver(s)' /\ CacheLags(op, s)'
  BY <1>0
  DEF SessionInv, HasStarted, LeavesNoPod, Shape, OverMeansOver, CacheLags, Terminal, InAPI
<1>3. CASE pc'[op][s] = "none"
  BY <1>0, <1>2, <1>3, AtRest DEF SessionInv
<1>4. CASE pc'[op][s] # "none"
  <2>1. /\ pc'[op][s] = "setStatus" /\ seen' = seen
        /\ \/ ~Exists(pod[s]) /\ target'[op][s].state = "Failed"
           \/ Exists(pod[s]) /\ target'[op][s].state = DeriveState(pod[s])
    <3>1. CASE Requeue(op, s)
      BY <1>0, <1>4, <3>1 DEF Requeue, EndReconcile, TypeOK
    <3>2. CASE ~Exists(pod[s]) /\ WriteNext(op, s, [state |-> "Failed", podName |-> FALSE])
      BY <1>0, <3>2 DEF GetPod, WriteNext, SetPc, TypeOK
    <3>3. CASE Exists(pod[s]) /\ WriteNext(op, s, [state |-> DeriveState(pod[s]), podName |-> TRUE])
      BY <1>0, <1>4, <3>3 DEF GetPod, WriteNext, SetPc, Requeue, EndReconcile, TypeOK
    <3> QED BY <3>1, <3>2, <3>3 DEF GetPod
  <2>2. Reconciling(op, s)'
    BY <1>0, <1>1, <2>1 DEF Reconciling, ApplySteps, CleanupSteps, InAPI
  <2>3. ASSUME ~Exists(pod[s]) PROVE Writing(op, s)'
    BY <1>0, <1>1, <2>1, <2>3 DEF Writing, Terminal, TerminalCRStates, NoStatus
  <2>4. ASSUME Exists(pod[s]) PROVE Writing(op, s)'
    <3>1. pod[s] \in Pods /\ DeriveState(pod[s]) \in WrittenStates
      BY DeriveType DEF TypeOK
    <3>2. DeriveState(pod[s]) \in {"Idle", "Busy"} => pod[s].phase # "Pending"
      <4>1. pod[s].phase = "Pending" => pod[s].annotation = "none"
        BY DEF SessionInv, Shape
      <4> QED BY <3>1, <4>1, ActiveNotPending
    <3>3. Terminal(s) => Over(pod[s])
      BY <2>4 DEF SessionInv, OverMeansOver
    <3>4. target'[op][s].state # NoStatus /\ seen'[op][s] # NoStatus
      BY <1>1, <2>1, <2>4, <3>1 DEF NoStatus, WrittenStates
    <3>5. target'[op][s].state \in TerminalCRStates => Over(pod'[s])
      BY <1>0, <2>1, <2>4 DEF Over
    <3>6. target'[op][s].state \notin TerminalCRStates => ~Terminal(s)'
      BY <1>0, <2>1, <2>4, <3>3 DEF Over, Terminal
    <3> QED BY <1>0, <2>1, <2>4, <3>2, <3>4, <3>5, <3>6 DEF Writing
  <2>5. Writing(op, s)'
    BY <2>3, <2>4
  <2> QED BY <1>0, <1>2, <2>2, <2>5 DEF SessionInv
<1> QED BY <1>3, <1>4

\* Writing the status that was decided earlier.
LEMMA OverSetStatus ==
  ASSUME TypeOK, NEW op, Operators = {op}, NEW s \in Sessions, SetStatus(op, s), SessionInv(s)
  PROVE  SessionInv(s)'
<1>0. /\ UNCHANGED <<pod, cache, faults>> /\ op \in Operators /\ cr[s] \in CRs
      /\ target[op][s] \in Targets /\ pc[op][s] = "setStatus" /\ pc'[op][s] = "none"
  BY DEF SetStatus, Requeue, EndReconcile, TypeOK
<1>1. InAPI(cr[s]) /\ cr[s].finalizer /\ (seen[op][s] # NoStatus => cache[op][s].state # NoStatus)
  BY <1>0 DEF SessionInv, Reconciling, ApplySteps
<1>2. cr'[s] = WithStatus(cr[s], target[op][s])
  BY <1>1 DEF SetStatus, TypeOK
<1>3. /\ cr'[s].life = cr[s].life /\ cr'[s].finalizer = cr[s].finalizer
      /\ cr'[s].state = target[op][s].state
  BY <1>0, <1>2, StatusUpdate
<1>4. Writing(op, s)
  BY <1>0 DEF SessionInv
<1>5. HasStarted(s)' /\ LeavesNoPod(s)' /\ Shape(s)' /\ OverMeansOver(s)'
  BY <1>0, <1>1, <1>3, <1>4
  DEF SessionInv, HasStarted, LeavesNoPod, Shape, OverMeansOver, Writing, Terminal, InAPI
<1>6. CacheLags(op, s)'
  BY <1>0, <1>1, <1>3, <1>4 DEF SessionInv, CacheLags, Writing, InAPI
<1> QED BY <1>0, <1>5, <1>6, AtRest DEF SessionInv

\* What remains of the invariant when a step leaves the CR and the pod's life alone.
LEMMA OverReconcile ==
  ASSUME TypeOK, NEW op, Operators = {op}, NEW s \in Sessions, SessionInv(s),
         UNCHANGED <<cr, cache>>, faults' = 0 => faults = 0,
         \/ pod'[s] = pod[s]
         \/ Exists(pod[s]) /\ pod'[s] = Doomed(pod[s]),
         Reconciling(op, s)', Writing(op, s)'
  PROVE  SessionInv(s)'
<1>0. pod[s] \in Pods /\ pod'[s] \in Pods /\ op \in Operators
  BY PodUpdates DEF TypeOK
<1>1. /\ pod'[s].phase = pod[s].phase /\ pod'[s].ready = pod[s].ready
      /\ pod'[s].annotation = pod[s].annotation
      /\ pod[s].terminating => pod'[s].terminating
  BY <1>0, PodUpdates
<1>2. Over(pod'[s]) = Over(pod[s])
  BY <1>0, <1>1, DeriveSame DEF Over
<1>3. HasStarted(s)' /\ LeavesNoPod(s)' /\ Shape(s)' /\ OverMeansOver(s)'
  BY <1>1, <1>2
  DEF SessionInv, HasStarted, LeavesNoPod, Shape, OverMeansOver, Terminal, Exists
<1>4. CacheLags(op, s)'
  BY <1>0 DEF SessionInv, CacheLags, InAPI
<1> QED BY <1>3, <1>4 DEF SessionInv

\* The session is over: its pod is deleted.
LEMMA OverTerminal ==
  ASSUME TypeOK, NEW op, Operators = {op}, NEW s \in Sessions,
         TerminalGet(op, s) \/ TerminalDelete(op, s), SessionInv(s)
  PROVE  SessionInv(s)'
<1>0. UNCHANGED <<cr, cache, faults>> /\ op \in Operators
  BY DEF TerminalGet, TerminalDelete
<1>1. CASE TerminalGet(op, s)
  <2>1. pc[op][s] = "terminalGet" /\ UNCHANGED pod
    BY <1>1 DEF TerminalGet
  <2>2. \/ pc'[op][s] = "none"
        \/ pc'[op][s] = "terminalDelete" /\ UNCHANGED seen
    BY <1>0, <1>1 DEF TerminalGet, SetPc, AwaitChange, EndReconcile, TypeOK
  <2>3. Writing(op, s)'
    BY <2>2 DEF Writing
  <2>4. Reconciling(op, s)'
    BY <1>0, <2>1, <2>2 DEF SessionInv, Reconciling, ApplySteps, CleanupSteps, InAPI
  <2> QED BY <1>0, <2>1, <2>3, <2>4, OverReconcile
<1>2. CASE TerminalDelete(op, s)
  <2>1. pc'[op][s] = "none"
    BY <1>0, <1>2 DEF TerminalDelete, EndReconcile, TypeOK
  <2>2. \/ pod'[s] = pod[s]
        \/ Exists(pod[s]) /\ pod'[s] = Doomed(pod[s])
    BY <1>2 DEF TerminalDelete, DeletePod, SetPod, TypeOK
  <2> QED BY <1>0, <2>1, <2>2, AtRest, OverReconcile
<1> QED BY <1>1, <1>2

\* The CR is being deleted: its pod is deleted before the finalizer goes.
LEMMA OverCleanup ==
  ASSUME TypeOK, NEW op, Operators = {op}, NEW s \in Sessions,
         CleanupGet(op, s) \/ CleanupDelete(op, s), SessionInv(s)
  PROVE  SessionInv(s)'
<1>0. UNCHANGED <<cr, cache, faults>> /\ op \in Operators
  BY DEF CleanupGet, CleanupDelete
<1>1. cache[op][s].life \in {"deleting", "gone"}
  BY <1>0 DEF CleanupGet, CleanupDelete, SessionInv, Reconciling, CleanupSteps
<1>2. CASE CleanupGet(op, s)
  <2>1. UNCHANGED pod
    BY <1>2 DEF CleanupGet
  <2>2. \/ pc'[op][s] = "cleanupDelete"
        \/ pc'[op][s] = "removeFinalizer" /\ ~Exists(pod[s])
    BY <1>0, <1>2 DEF CleanupGet, SetPc, TypeOK
  <2>3. Reconciling(op, s)' /\ Writing(op, s)'
    BY <1>0, <1>1, <2>1, <2>2 DEF Reconciling, Writing, ApplySteps, CleanupSteps, Exists
  <2> QED BY <1>0, <2>1, <2>3, OverReconcile
<1>3. CASE CleanupDelete(op, s)
  <2>1. pc'[op][s] = "removeFinalizer"
    BY <1>0, <1>3 DEF CleanupDelete, SetPc, TypeOK
  <2>2. \/ pod'[s] = pod[s] /\ (~Exists(pod[s]) \/ pod[s].terminating)
        \/ Exists(pod[s]) /\ pod'[s] = Doomed(pod[s])
    BY <1>3 DEF CleanupDelete, DeletePod, SetPod, TypeOK
  <2>3. ~Exists(pod'[s]) \/ pod'[s].terminating
    BY <2>2, PodUpdates DEF TypeOK, Exists
  <2>4. Reconciling(op, s)' /\ Writing(op, s)'
    BY <1>0, <1>1, <2>1, <2>3 DEF Reconciling, Writing, ApplySteps, CleanupSteps
  <2> QED BY <1>0, <2>2, <2>4, OverReconcile
<1> QED BY <1>2, <1>3

\* A call that fails: from now on `faults` is not 0.
LEMMA OverFaulty ==
  ASSUME TypeOK, NEW op, Operators = {op}, NEW s \in Sessions, Faulty(op, s), SessionInv(s)
  PROVE  SessionInv(s)'
<1>0. UNCHANGED <<cr, pod, cache>> /\ op \in Operators
  BY DEF Faulty, FailedCall, SwallowedError
<1>1. faults' # 0
  BY MaxFaultsAssumption DEF Faulty, FailedCall, SwallowedError, UseFault, TypeOK
<1>2. \/ pc'[op][s] = "none"
      \/ pc[op][s] \in {"cleanupGet", "cleanupDelete"} /\ pc'[op][s] = "removeFinalizer"
  BY <1>0 DEF Faulty, FailedCall, SwallowedError, Requeue, AwaitChange, EndReconcile, SetPc, TypeOK
<1>3. CASE pc'[op][s] = "none"
  BY <1>0, <1>1, <1>3, AtRest, OverReconcile
<1>4. CASE pc[op][s] \in {"cleanupGet", "cleanupDelete"} /\ pc'[op][s] = "removeFinalizer"
  <2>1. cache[op][s].life \in {"deleting", "gone"}
    BY <1>0, <1>4 DEF SessionInv, Reconciling, CleanupSteps
  <2>2. Reconciling(op, s)' /\ Writing(op, s)'
    BY <1>0, <1>1, <1>4, <2>1 DEF Reconciling, Writing, ApplySteps, CleanupSteps
  <2> QED BY <1>0, <1>1, <2>2, OverReconcile
<1> QED BY <1>2, <1>3, <1>4

-----------------------------------------------------------------------------
(* All the steps together.                                                   *)

LEMMA FaultsGrow == TypeOK /\ [Next]_vars => (faults' = 0 => faults = 0)
<1> SUFFICES ASSUME TypeOK, [Next]_vars PROVE faults' = faults \/ faults' = faults + 1
  BY MaxFaultsAssumption DEF TypeOK
<1> USE DEF UseFault
<1>1. ASSUME NEW s \in Sessions, UserStep(s) PROVE faults' = faults
  BY <1>1 DEF UserStep, APICreate, APIDelete
<1>2. ASSUME NEW s \in Sessions, ClusterStep(s)
      PROVE  faults' = faults \/ faults' = faults + 1
  BY <1>2 DEF ClusterStep, KubeletStart, Readiness, Annotate, PodExit, Evict, GarbageCollect,
              KubeletRemove
<1>3. ASSUME NEW o \in Operators, Restart(o) PROVE faults' = faults + 1
  BY <1>3 DEF Restart
<1>4. ASSUME NEW o \in Operators, NEW s \in Sessions, RuntimeStep(o, s) PROVE faults' = faults
  BY <1>4 DEF RuntimeStep, Watch, Resync, DropRequest, StartReconcile
<1>5. ASSUME NEW o \in Operators, NEW s \in Sessions, ReconcileStep(o, s) PROVE faults' = faults
  BY <1>5 DEF ReconcileStep, AddFinalizer, RemoveFinalizer, ApplyPod, GetPod, SetStatus,
              TerminalGet, TerminalDelete, CleanupGet, CleanupDelete
<1>6. ASSUME NEW o \in Operators, NEW s \in Sessions, Faulty(o, s) PROVE faults' = faults + 1
  BY <1>6 DEF Faulty, FailedCall, SwallowedError
<1>7. CASE UNCHANGED vars
  BY <1>7 DEF vars
<1> QED BY <1>1, <1>2, <1>3, <1>4, <1>5, <1>6, <1>7 DEF Next

LEMMA OverStep ==
  ASSUME NEW op, Operators = {op}, OperatorInv, TypeOK', [Next]_vars, NEW r \in Sessions
  PROVE  SessionInv(r)'
<1>0. TypeOK /\ GuardedSession(r) /\ SessionInv(r) /\ (faults' = 0 => faults = 0)
  BY FaultsGrow DEF OperatorInv, GuardInv
<1>1. ASSUME NEW s \in Sessions, UserStep(s) \/ ClusterStep(s) PROVE SessionInv(r)'
  <2>1. CASE s = r
    BY <1>0, <1>1, <2>1, OverUser, OverCluster
  <2>2. CASE s # r
    BY <1>0, <1>1, <2>2, OutsideFrame, OverFrame
  <2> QED BY <2>1, <2>2
<1>2. ASSUME NEW s \in Sessions, RuntimeStep(op, s) \/ ReconcileStep(op, s) \/ Faulty(op, s)
      PROVE  SessionInv(r)'
  <2>1. CASE s # r
    <3>1. Untouched(r)
      BY <1>0, <1>2, <2>1, OperatorFrame
    <3> QED BY <1>0, <3>1, OverFrame
  <2>2. CASE s = r /\ RuntimeStep(op, s)
    BY <1>0, <2>2, OverRuntime
  <2>3. CASE s = r /\ ReconcileStep(op, s)
    BY <1>0, <2>3, OverFinalizer, OverApplyPod, OverGetPod, OverSetStatus, OverTerminal, OverCleanup
    DEF ReconcileStep
  <2>4. CASE s = r /\ Faulty(op, s)
    BY <1>0, <2>4, OverFaulty
  <2> QED BY <1>2, <2>1, <2>2, <2>3, <2>4
<1>3. CASE Restart(op)
  BY <1>0, <1>3, OverRestart
<1>4. CASE UNCHANGED vars
  BY <1>0, <1>4, OverFrame DEF vars, Untouched
<1> QED BY <1>1, <1>2, <1>3, <1>4 DEF Next

LEMMA OperatorInvariant ==
  ASSUME NEW op, Operators = {op}
  PROVE  Spec => []OperatorInv
<1>1. Init => OperatorInv
  BY OverInit, GuardInit DEF OperatorInv
<1>2. OperatorInv /\ TypeOK' /\ [Next]_vars => OperatorInv'
  <2> SUFFICES ASSUME OperatorInv, TypeOK', [Next]_vars PROVE OperatorInv'
    OBVIOUS
  <2>1. GuardInv'
    BY GuardStep DEF OperatorInv
  <2>2. \A r \in Sessions : SessionInv(r)'
    BY OverStep
  <2> QED BY <2>1, <2>2 DEF OperatorInv
<1> QED BY <1>1, <1>2, TypeCorrect, PTL DEF Spec

-----------------------------------------------------------------------------
(* What follows from it.                                                     *)

\* With one operator and no failed call, reconcile_cleanup leaves no pod
\* behind that nobody is terminating.
THEOREM NoPodOrphaned ==
  ASSUME NEW op, Operators = {op}
  PROVE  Spec => []NoOrphan
<1>1. OperatorInv => NoOrphan
  BY DEF OperatorInv, SessionInv, NoOrphan
<1> QED BY <1>1, OperatorInvariant, PTL

\* With one operator, Idle and Busy are only reported of a session whose pod's
\* containers have started, however late the status is written.
THEOREM ActiveHasStarted ==
  ASSUME NEW op, Operators = {op}
  PROVE  Spec => []ActiveMeansStarted
<1>1. OperatorInv => ActiveMeansStarted
  BY DEF OperatorInv, SessionInv, ActiveMeansStarted
<1> QED BY <1>1, OperatorInvariant, PTL

\* No step reopens the session of a CR that says it is over.
LEMMA TerminalKept ==
  ASSUME NEW op, Operators = {op}, OperatorInv, [Next]_vars, NEW r \in Sessions
  PROVE  TerminalStays(r)
<1> SUFFICES ASSUME Next, cr'[r] # cr[r] PROVE TerminalStays(r)
  BY DEF TerminalStays, Terminal, vars
<1>0. TypeOK /\ GuardedSession(r) /\ SessionInv(r) /\ cr[r] \in CRs
  BY DEF OperatorInv, GuardInv, TypeOK
<1>1. ASSUME NEW s \in Sessions, UserStep(s) PROVE TerminalStays(r)
  <2>1. s = r
    BY <1>0, <1>1, OutsideFrame DEF Untouched
  <2>2. \/ cr'[r] = Created(cr[r]) \/ cr'[r] = Deleted(cr[r]) \/ cr'[r] = GoneCR
    BY <1>0, <1>1, <2>1 DEF UserStep, APICreate, APIDelete, TypeOK
  <2>3. Created(cr[r]).state = cr[r].state /\ Deleted(cr[r]).state = cr[r].state
    BY <1>0, CRUpdates
  <2>4. ~InAPI(GoneCR)
    BY DEF InAPI, GoneCR, NoCR
  <2> QED BY <2>2, <2>3, <2>4 DEF TerminalStays, Terminal
<1>2. ASSUME NEW s \in Sessions, ClusterStep(s) PROVE TerminalStays(r)
  BY <1>0, <1>2, ClusterEffect
<1>3. ASSUME NEW o \in Operators, Restart(o) \/ \E s \in Sessions : RuntimeStep(o, s)
      PROVE  TerminalStays(r)
  BY <1>3 DEF Restart, RuntimeStep, Watch, Resync, DropRequest, StartReconcile
<1>4. ASSUME NEW o \in Operators, NEW s \in Sessions, ReconcileStep(o, s) \/ Faulty(o, s)
      PROVE  TerminalStays(r)
  <2>1. s = r /\ o = op
    BY <1>0, <1>4, OperatorFrame DEF Untouched
  <2>2. \/ cr'[r] = Finalized(cr[r])
        \/ cr'[r] = GoneCR
        \/ pc[op][r] = "setStatus" /\ cr'[r] = WithStatus(cr[r], target[op][r])
    BY <1>0, <1>4, <2>1, ReconcileEffect
  <2>3. Finalized(cr[r]).state = cr[r].state
    BY <1>0, CRUpdates
  <2>4. ~InAPI(GoneCR)
    BY DEF InAPI, GoneCR, NoCR
  <2>5. WithStatus(cr[r], target[op][r]).state = target[op][r].state
    BY <1>0, StatusUpdate DEF TypeOK
  <2>6. pc[op][r] = "setStatus" /\ Terminal(r) => target[op][r].state \in TerminalCRStates
    BY <1>0 DEF SessionInv, Writing
  <2> QED BY <2>2, <2>3, <2>4, <2>5, <2>6 DEF TerminalStays, Terminal
<1> QED BY <1>1, <1>2, <1>3, <1>4 DEF Next

\* A CR that is not there does not come to be, unless it is created.
LEMMA GoneStays ==
  ASSUME TypeOK, [Next]_vars, NEW r \in Sessions, ~APICreate(r), ~InAPI(cr[r])
  PROVE  ~InAPI(cr'[r])
<1>0. cr[r] \in CRs
  BY DEF TypeOK
<1>1. ASSUME NEW s \in Sessions, UserStep(s) PROVE cr'[r] = cr[r]
  <2>1. CASE s # r
    BY <1>1, <2>1, OutsideFrame DEF Untouched
  <2>2. CASE s = r
    BY <1>1, <2>2 DEF UserStep, APIDelete, InAPI
  <2> QED BY <2>1, <2>2
<1>2. ASSUME NEW s \in Sessions, ClusterStep(s) PROVE cr' = cr
  BY <1>2, ClusterEffect
<1>3. ASSUME NEW o \in Operators, Restart(o) \/ \E s \in Sessions : RuntimeStep(o, s)
      PROVE  cr' = cr
  BY <1>3 DEF Restart, RuntimeStep, Watch, Resync, DropRequest, StartReconcile
<1>4. ASSUME NEW o \in Operators, NEW s \in Sessions, ReconcileStep(o, s) \/ Faulty(o, s)
      PROVE  ~InAPI(cr'[r])
  <2>1. CASE s # r
    BY <1>4, <2>1, OperatorFrame DEF Untouched
  <2>2. CASE s = r
    <3>1. cr'[r] = cr[r] \/ cr'[r] = Finalized(cr[r]) \/ cr'[r] = GoneCR
      BY <1>4, <2>2, ReconcileEffect
    <3>2. Finalized(cr[r]).life = cr[r].life /\ GoneCR.life = "gone"
      BY <1>0, CRUpdates DEF GoneCR, NoCR
    <3> QED BY <3>1, <3>2 DEF InAPI
  <2> QED BY <2>1, <2>2
<1> QED BY <1>1, <1>2, <1>3, <1>4 DEF Next, vars

\* With one operator, a session that is Finished or Failed is never reopened by
\* a reconcile that read an older status or an older pod.
THEOREM OverStaysOver ==
  ASSUME NEW op, Operators = {op}
  PROVE  Spec => TerminalStaysTerminal
<1>1. OperatorInv /\ [Next]_vars => [\A s \in Sessions : TerminalStays(s)]_vars
  BY TerminalKept
<1> QED BY <1>1, OperatorInvariant, PTL DEF Spec, TerminalStaysTerminal

\* With one operator, no pod is created for a CR that is gone or a session that
\* is over, whatever copy of the CR the reconcile started from.
THEOREM CreatesInTime ==
  ASSUME NEW op, Operators = {op}
  PROVE  Spec => NoLateCreate
<1>1. OperatorInv /\ [Next]_vars => [\A s \in Sessions : CreatedInTime(s)]_vars
  <2> SUFFICES ASSUME OperatorInv, Next, NEW r \in Sessions, ~Exists(pod[r]), Exists(pod'[r])
               PROVE  InAPI(cr[r]) /\ ~Terminal(r)
    BY DEF CreatedInTime
  <2>0. TypeOK /\ SessionInv(r)
    BY DEF OperatorInv, GuardInv
  <2>1. ASSUME NEW s \in Sessions, UserStep(s) PROVE FALSE
    BY <2>1 DEF UserStep, APICreate, APIDelete
  <2>2. ASSUME NEW s \in Sessions, ClusterStep(s) PROVE FALSE
    BY <2>0, <2>2, ClusterEffect, OutsideFrame DEF Untouched
  <2>3. ASSUME NEW o \in Operators, Restart(o) \/ \E s \in Sessions : RuntimeStep(o, s)
        PROVE  FALSE
    BY <2>3 DEF Restart, RuntimeStep, Watch, Resync, DropRequest, StartReconcile
  <2>4. ASSUME NEW o \in Operators, NEW s \in Sessions, ReconcileStep(o, s) \/ Faulty(o, s)
        PROVE  InAPI(cr[r]) /\ ~Terminal(r)
    <3>1. s = r /\ o = op
      BY <2>0, <2>4, OperatorFrame DEF Untouched
    <3>2. pc[op][r] = "applyPod"
      BY <2>0, <2>4, <3>1, ReconcileEffect
    <3> QED
      BY <2>0, <3>2
      DEF SessionInv, Reconciling, ApplySteps, Terminal, TerminalCRStates, NoStatus
  <2> QED BY <2>1, <2>2, <2>3, <2>4 DEF Next
<1> QED BY <1>1, OperatorInvariant, PTL DEF Spec, NoLateCreate

-----------------------------------------------------------------------------
(* One operator implements SessionContract.                                  *)

\* What SessionContract sees of a session does not change.
SameView(s) ==
  cr'[s].life = cr[s].life /\ Stage(s)' = Stage(s) /\ Exists(pod'[s]) = Exists(pod[s])

\* The steps SessionContract allows, as far as they are about session s.
Promised(s) ==
  \/ /\ cr[s].life = "none" /\ cr'[s].life = "live"
     /\ Stage(s)' = Stage(s) /\ Exists(pod'[s]) = Exists(pod[s])
  \/ /\ cr[s].life = "live"
     /\ \/ cr'[s].life = "deleting"
        \/ Stage(s) = "waiting" /\ ~Exists(pod[s]) /\ cr'[s].life = "gone"
     /\ Stage(s)' = Stage(s) /\ Exists(pod'[s]) = Exists(pod[s])
  \/ /\ InAPI(cr[s]) /\ ~Exists(pod[s]) /\ Stage(s) # "over" /\ Exists(pod'[s])
     /\ cr'[s].life = cr[s].life /\ Stage(s)' = Stage(s)
  \/ /\ InAPI(cr[s])
     /\ \/ Stage(s) = "waiting" /\ Stage(s)' = "open"
        \/ Stage(s) = "open" /\ Stage(s)' = "over"
     /\ cr'[s].life = cr[s].life /\ Exists(pod'[s]) = Exists(pod[s])
  \/ /\ Exists(pod[s]) /\ ~Exists(pod'[s])
     /\ cr'[s].life = cr[s].life /\ Stage(s)' = Stage(s)
  \/ /\ cr[s].life = "deleting" /\ cr'[s].life = "gone"
     /\ Stage(s)' = "waiting" /\ Exists(pod'[s]) = Exists(pod[s])

\* A step that changes what is seen of one session only, in a way that is promised.
LEMMA PromiseKept ==
  ASSUME NEW s \in Sessions, Promised(s), \A r \in Sessions : r # s => SameView(r)
  PROVE  Contract!Next
<1> DEFINE L == [r \in Sessions |-> cr[r].life]
           G == [r \in Sessions |-> Stage(r)]
           A == [r \in Sessions |-> Exists(pod[r])]
           LL == [r \in Sessions |-> cr'[r].life]
           GG == [r \in Sessions |-> Stage(r)']
           AA == [r \in Sessions |-> Exists(pod'[r])]
<1>1. /\ LL = [L EXCEPT ![s] = cr'[s].life]
      /\ GG = [G EXCEPT ![s] = Stage(s)']
      /\ AA = [A EXCEPT ![s] = Exists(pod'[s])]
  BY DEF SameView
<1>2. /\ cr'[s].life = cr[s].life => LL = L
      /\ Stage(s)' = Stage(s) => GG = G
      /\ Exists(pod'[s]) = Exists(pod[s]) => AA = A
  BY DEF SameView
<1>3. L[s] = cr[s].life /\ G[s] = Stage(s) /\ A[s] = Exists(pod[s])
  OBVIOUS
<1>4. Exists(pod[s]) \in BOOLEAN /\ Exists(pod'[s]) \in BOOLEAN
  BY DEF Exists
<1>5. Contract!Create(s) \/ Contract!Delete(s) \/ Contract!Launch(s) \/ Contract!Open(s)
        \/ Contract!Finish(s) \/ Contract!Leave(s) \/ Contract!Release(s)
  BY <1>1, <1>2, <1>3, <1>4
  DEF Promised, Contract!Create, Contract!Delete, Contract!Launch, Contract!Open, Contract!Finish,
      Contract!Leave, Contract!Release, Contract!Held, InAPI
<1> QED BY <1>5 DEF Contract!Next

\* A step that changes nothing SessionContract sees.
LEMMA ViewKept ==
  ASSUME \A r \in Sessions : SameView(r)
  PROVE  UNCHANGED Contract!vars
BY DEF SameView, Contract!vars

\* The user creates a CR, or deletes it: at once only if the operator never picked it up.
LEMMA UserPromise ==
  ASSUME TypeOK, NEW s \in Sessions, UserStep(s), SessionInv(s)
  PROVE  Promised(s)
<1>0. cr[s] \in CRs /\ UNCHANGED pod
  BY DEF UserStep, APICreate, APIDelete, TypeOK
<1>1. CASE APICreate(s)
  <2>1. cr[s].life = "none" /\ cr'[s] = Created(cr[s])
    BY <1>1 DEF APICreate, TypeOK
  <2> QED BY <1>0, <2>1, CRUpdates DEF Promised, Stage, Terminal
<1>2. CASE APIDelete(s) /\ cr[s].finalizer
  <2>1. cr[s].life = "live" /\ cr'[s] = Deleted(cr[s])
    BY <1>2 DEF APIDelete, TypeOK
  <2> QED BY <1>0, <2>1, CRUpdates DEF Promised, Stage, Terminal
<1>3. CASE APIDelete(s) /\ ~cr[s].finalizer
  <2>1. cr[s].life = "live" /\ cr'[s] = GoneCR
    BY <1>3 DEF APIDelete, TypeOK
  <2>2. cr[s].state = NoStatus /\ ~Exists(pod[s])
    BY <1>3, <2>1 DEF SessionInv, Shape
  <2>3. GoneCR.life = "gone" /\ GoneCR.state = NoStatus
    BY DEF GoneCR, NoCR
  <2> QED BY <1>0, <2>1, <2>2, <2>3 DEF Promised, Stage
<1> QED BY <1>1, <1>2, <1>3 DEF UserStep

\* What the operator does to a CR or its pod is promised, or is not seen.
LEMMA OperatorPromise ==
  ASSUME TypeOK, NEW op, Operators = {op}, NEW s \in Sessions, SessionInv(s),
         ReconcileStep(op, s) \/ Faulty(op, s)
  PROVE  Promised(s) \/ SameView(s)
<1>0. cr[s] \in CRs /\ target[op][s] \in Targets /\ op \in Operators /\ pod[s] \in Pods
  BY DEF TypeOK
<1> DEFINE P == pc[op][s]
<1>1. CASE cr'[s] = cr[s]
  <2>1. CASE pod'[s] = pod[s] \/ (Exists(pod[s]) /\ pod'[s] = Doomed(pod[s]))
    <3>1. Exists(pod'[s]) = Exists(pod[s])
      BY <1>0, <2>1, PodUpdates DEF Exists
    <3> QED BY <1>1, <3>1 DEF SameView, Stage, Terminal
  <2>2. CASE P = "applyPod" /\ ~Exists(pod[s]) /\ pod'[s] = FreshPod
    <3>1. InAPI(cr[s]) /\ cr[s].state \in {NoStatus, "Starting"}
      BY <1>0, <2>2 DEF SessionInv, Reconciling, ApplySteps
    <3>2. Exists(pod'[s]) /\ Stage(s) # "over"
      BY <2>2, <3>1 DEF Exists, FreshPod, NoPod, Stage, Terminal, TerminalCRStates, NoStatus
    <3> QED BY <1>1, <2>2, <3>1, <3>2 DEF Promised, Stage, Terminal
  <2> QED BY <1>0, <2>1, <2>2, ReconcileEffect
<1>2. CASE P = "addFinalizer" /\ cr'[s] = Finalized(cr[s])
  <2>1. pod'[s] = pod[s]
    BY <1>0, <1>2, ReconcileEffect
  <2> QED BY <1>0, <1>2, <2>1, CRUpdates DEF SameView, Stage, Terminal
<1>3. CASE P = "removeFinalizer" /\ cr'[s] = GoneCR /\ cr'[s] # cr[s]
  <2>1. pod'[s] = pod[s]
    BY <1>0, <1>3, ReconcileEffect
  <2>2. cr[s].life = "deleting"
    BY <1>3 DEF ReconcileStep, Faulty, FailedCall, SwallowedError, AddFinalizer, RemoveFinalizer,
                ApplyPod, GetPod, SetStatus, TerminalGet, TerminalDelete, CleanupGet, CleanupDelete
  <2>3. GoneCR.life = "gone" /\ GoneCR.state = NoStatus
    BY DEF GoneCR, NoCR
  <2> QED BY <1>3, <2>1, <2>2, <2>3 DEF Promised, Stage
<1>4. CASE P = "setStatus" /\ InAPI(cr[s]) /\ cr'[s] = WithStatus(cr[s], target[op][s])
  <2>1. pod'[s] = pod[s]
    BY <1>0, <1>4, ReconcileEffect
  <2>2. cr'[s].life = cr[s].life /\ cr'[s].state = target[op][s].state
    BY <1>0, <1>4, StatusUpdate
  <2>3. /\ target[op][s].state # NoStatus
        /\ target[op][s].state \notin TerminalCRStates => ~Terminal(s)
        /\ seen[op][s] = NoStatus => target[op][s].state = "Starting"
    BY <1>0, <1>4 DEF SessionInv, Writing
  <2>4. seen[op][s] # NoStatus => cr[s].state # NoStatus
    BY <1>0, <1>4 DEF SessionInv, Reconciling, CacheLags, ApplySteps
  <2>5. CASE cr[s].state = NoStatus
    <3>1. Stage(s) = "waiting" /\ Stage(s)' = "open"
      BY <2>2, <2>3, <2>4, <2>5 DEF Stage, Terminal, TerminalCRStates, NoStatus
    <3> QED BY <1>4, <2>1, <2>2, <3>1 DEF Promised
  <2>6. CASE cr[s].state # NoStatus
    <3>1. Stage(s)' = Stage(s) \/ (Stage(s) = "open" /\ Stage(s)' = "over")
      BY <2>2, <2>3, <2>6 DEF Stage, Terminal
    <3> QED BY <1>4, <2>1, <2>2, <3>1 DEF Promised, SameView
  <2> QED BY <2>5, <2>6
<1> QED BY <1>0, <1>1, <1>2, <1>3, <1>4, ReconcileEffect

LEMMA ContractStep ==
  ASSUME NEW op, Operators = {op}, OperatorInv, [Next]_vars
  PROVE  [Contract!Next]_(Contract!vars)
<1>0. TypeOK /\ \A s \in Sessions : SessionInv(s)
  BY DEF OperatorInv, GuardInv
<1>a. ASSUME NEW s \in Sessions, \A r \in Sessions : r # s => Untouched(r), Promised(s) \/ SameView(s)
      PROVE  [Contract!Next]_(Contract!vars)
  <2>1. \A r \in Sessions : r # s => SameView(r)
    BY <1>a DEF Untouched, SameView, Stage, Terminal
  <2> QED BY <1>a, <2>1, PromiseKept, ViewKept
<1>b. ASSUME UNCHANGED <<cr, pod>>
      PROVE  [Contract!Next]_(Contract!vars)
  BY <1>b, ViewKept DEF SameView, Stage, Terminal
<1>1. ASSUME NEW s \in Sessions, UserStep(s)
      PROVE  [Contract!Next]_(Contract!vars)
  BY <1>0, <1>1, <1>a, OutsideFrame, UserPromise
<1>2. ASSUME NEW s \in Sessions, ClusterStep(s)
      PROVE  [Contract!Next]_(Contract!vars)
  <2>1. UNCHANGED cr /\ Exists(pod[s])
    BY <1>0, <1>2, ClusterEffect
  <2>2. Exists(pod'[s]) \in BOOLEAN /\ Exists(pod[s]) \in BOOLEAN
    BY DEF Exists
  <2>3. Promised(s) \/ SameView(s)
    BY <2>1, <2>2 DEF Promised, SameView, Stage, Terminal
  <2> QED BY <1>0, <1>2, <1>a, <2>3, OutsideFrame
<1>3. ASSUME NEW s \in Sessions, ReconcileStep(op, s) \/ Faulty(op, s)
      PROVE  [Contract!Next]_(Contract!vars)
  <2>1. op \in Operators
    OBVIOUS
  <2> QED BY <1>0, <1>3, <1>a, <2>1, OperatorFrame, OperatorPromise
<1>4. ASSUME NEW s \in Sessions, RuntimeStep(op, s)
      PROVE  [Contract!Next]_(Contract!vars)
  BY <1>4, <1>b DEF RuntimeStep, Watch, Resync, StartReconcile, DropRequest
<1>5. CASE Restart(op)
  BY <1>5, <1>b DEF Restart
<1>6. CASE UNCHANGED vars
  BY <1>6, <1>b DEF vars
<1> QED BY <1>1, <1>2, <1>3, <1>4, <1>5, <1>6 DEF Next

\* With one operator, every behaviour of the operator is one that SessionContract allows,
\* step by step: no agent is launched for a session that is over or not there, no session
\* opens twice, and none is released before it was deleted.
THEOREM KeepsContract ==
  ASSUME NEW op, Operators = {op}
  PROVE  Spec => Contract!Spec
<1>1. Init => Contract!Init
  <2> SUFFICES ASSUME Init PROVE Contract!Init
    OBVIOUS
  <2>1. \A s \in Sessions : cr[s].life = "none" /\ cr[s].state = NoStatus /\ pod[s].phase = "absent"
    BY DEF Init, NoCR, NoPod
  <2> QED BY <2>1 DEF Contract!Init, Stage, Exists
<1>2. OperatorInv /\ [Next]_vars => [Contract!Next]_(Contract!vars)
  BY ContractStep
<1> QED BY <1>1, <1>2, OperatorInvariant, PTL DEF Spec, Contract!Spec

=============================================================================
