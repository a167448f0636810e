------------------------- MODULE SessionServiceProofs -------------------------
(***************************************************************************)
(* The service is one of the environments SessionOperator allows, so what is  *)
(* proved of the operator holds beneath it; and, for clients that wait for    *)
(* the answer to a creation, stopping a session leaves no live CR behind.     *)
(* What the answers are worth: whether failed is true, what the row's table of *)
(* transitions allows, whether over is over.                                  *)
(***************************************************************************)
EXTENDS SessionService, SessionOverProofs

-----------------------------------------------------------------------------
(* Requests.                                                                *)

\* A handler that is at work is at work on a session.
Named(h) == req[h].at # "none" => req[h].session \in Sessions

ServiceInv == SvcTypeOK /\ \A h \in Handlers : Named(h)

LEMMA RequestTyped ==
  ASSUME SvcTypeOK, NEW s \in Sessions, NEW write \in MaybeState,
         NEW step \in {"getCR", "listCRs", "deleteCR", "commit"}
  PROVE  /\ Request(s, step, write) \in Requests
         /\ Request(s, step, write).at = step /\ Request(s, step, write).session = s
         /\ Request(s, step, write).write = write
<1>1. row[s] \in MaybeState /\ told[s] \in BOOLEAN /\ "none" \in MaybeState
  BY DEF SvcTypeOK, MaybeState
<1> QED BY <1>1 DEF Request, Requests

LEMMA AnsweredTyped ==
  ASSUME NEW s \in Sessions, NEW state \in MaybeState
  PROVE  Answered(s, state) \in Requests /\ Answered(s, state).at = "none"
BY DEF Answered, Requests, MaybeState

LEMMA DecidingTyped ==
  ASSUME NEW q \in Requests
  PROVE  /\ Deciding(q) \in Requests /\ Deciding(q).at = "commit"
         /\ Deciding(q).session = q.session /\ Deciding(q).write = q.write
BY DEF Deciding, Requests

\* The states the service can answer with.
LEMMA AnswersTyped ==
  ASSUME NEW c \in CRs, NEW saw \in MaybeState
  PROVE  LiveState(saw, c) \in MaybeState /\ ListedState(c) \in MaybeState
<1>1. c.state # NoStatus => CR_STATE_TO_DB_STATE[c.state] \in SessionState
  BY DEF CRs, CRStates, WrittenStates, CR_STATE_TO_DB_STATE, SessionState
<1> QED BY <1>1 DEF LiveState, ListedState, MaybeState, SessionState

\* What a step of the service does to the requests: it answers one, takes one
\* on, or goes on to commit.
LEMMA RequestEffect ==
  ASSUME ServiceInv, Service
  PROVE  \/ UNCHANGED req
         \/ \E h \in Handlers, s \in Sessions, state \in MaybeState :
              req' = [req EXCEPT ![h] = Answered(s, state)]
         \/ \E h \in Handlers, s \in Sessions, write \in MaybeState :
              \E step \in {"getCR", "listCRs", "deleteCR", "commit"} :
                req' = [req EXCEPT ![h] = Request(s, step, write)]
         \/ \E h \in Handlers :
              req[h].at = "deleteCR" /\ req' = [req EXCEPT ![h] = Deciding(req[h])]
<1>1. ASSUME NEW s \in Sessions, InsertRow(s) \/ CreateCR(s) \/ CreateCRFails(s)
      PROVE  UNCHANGED req
  BY <1>1 DEF InsertRow, CreateCR, CreateCRFails
<1>2. ASSUME NEW h \in Handlers, GetCR(h) \/ ListCRs(h) \/ Commit(h)
      PROVE  \E s \in Sessions, state \in MaybeState : req' = [req EXCEPT ![h] = Answered(s, state)]
  <2> DEFINE s == req[h].session
  <2>1. s \in Sessions /\ cr[s] \in CRs /\ req[h].saw \in MaybeState /\ req[h].write \in MaybeState
    BY <1>2 DEF GetCR, ListCRs, Commit, ServiceInv, Named, SvcTypeOK, TypeOK, Requests
  <2>2. LiveState(req[h].saw, cr[s]) \in MaybeState /\ ListedState(cr[s]) \in MaybeState
    BY <2>1, AnswersTyped
  <2>3. "failed" \in MaybeState
    BY DEF MaybeState, SessionState
  <2> QED BY <1>2, <2>1, <2>2, <2>3 DEF GetCR, ListCRs, Commit, Respond
<1>3. ASSUME NEW h \in Handlers, DeleteCR(h)
      PROVE  req[h].at = "deleteCR" /\ req' = [req EXCEPT ![h] = Deciding(req[h])]
  BY <1>3 DEF DeleteCR
<1>4. ASSUME NEW h \in Handlers, NEW s \in Sessions, Get(h, s) \/ List(h, s)
      PROVE  \/ \E state \in MaybeState : req' = [req EXCEPT ![h] = Answered(s, state)]
             \/ \E step \in {"getCR", "listCRs", "deleteCR", "commit"}, write \in MaybeState :
                  req' = [req EXCEPT ![h] = Request(s, step, write)]
  <2>1. row[s] \in MaybeState /\ "none" \in MaybeState
    BY DEF ServiceInv, SvcTypeOK, MaybeState
  <2> QED BY <1>4, <2>1 DEF Get, List, Look, Respond, Begin
<1>5. ASSUME NEW h \in Handlers, NEW s \in Sessions,
             Stop(h, s) \/ \E new \in SessionState : Update(h, s, new)
      PROVE  \E step \in {"getCR", "listCRs", "deleteCR", "commit"}, write \in MaybeState :
               req' = [req EXCEPT ![h] = Request(s, step, write)]
  BY <1>5 DEF Stop, Update, Begin, MaybeState, SessionState
<1> QED BY <1>1, <1>2, <1>3, <1>4, <1>5 DEF Service

LEMMA RequestsTyped ==
  ASSUME ServiceInv, SvcNext \/ UNCHANGED svcVars
  PROVE  req' \in [Handlers -> Requests] /\ \A h \in Handlers : Named(h)'
<1>0. req \in [Handlers -> Requests] /\ SvcTypeOK
  BY DEF ServiceInv, SvcTypeOK
<1>1. CASE UNCHANGED req
  BY <1>0, <1>1 DEF ServiceInv, Named
<1>2. ASSUME NEW h \in Handlers, NEW s \in Sessions, NEW state \in MaybeState,
             req' = [req EXCEPT ![h] = Answered(s, state)]
      PROVE  req' \in [Handlers -> Requests] /\ \A k \in Handlers : Named(k)'
  BY <1>0, <1>2, AnsweredTyped DEF ServiceInv, Named
<1>3. ASSUME NEW h \in Handlers, NEW s \in Sessions, NEW write \in MaybeState,
             NEW step \in {"getCR", "listCRs", "deleteCR", "commit"},
             req' = [req EXCEPT ![h] = Request(s, step, write)]
      PROVE  req' \in [Handlers -> Requests] /\ \A k \in Handlers : Named(k)'
  BY <1>0, <1>3, RequestTyped DEF ServiceInv, Named
<1>4. ASSUME NEW h \in Handlers, req[h].at = "deleteCR", req' = [req EXCEPT ![h] = Deciding(req[h])]
      PROVE  req' \in [Handlers -> Requests] /\ \A k \in Handlers : Named(k)'
  BY <1>0, <1>4, DecidingTyped DEF ServiceInv, Named
<1>5. CASE Service
  BY <1>1, <1>2, <1>3, <1>4, <1>5, RequestEffect
<1>6. CASE (World /\ UNCHANGED serviceVars) \/ UNCHANGED svcVars
  BY <1>1, <1>6 DEF serviceVars, svcVars
<1> QED BY <1>5, <1>6 DEF SvcNext

-----------------------------------------------------------------------------
(* The operator's view.                                                      *)

\* What the service does to a CR, one of its users could do.
LEMMA ServiceVisible ==
  ASSUME ServiceInv, Service
  PROVE  (\E s \in Sessions : CreateCR(s) \/ APIDelete(s)) \/ UNCHANGED vars
<1> USE DEF operatorVars, vars
<1>1. ASSUME NEW s \in Sessions, InsertRow(s) \/ CreateCRFails(s) PROVE UNCHANGED vars
  BY <1>1 DEF InsertRow, CreateCRFails
<1>2. ASSUME NEW h \in Handlers, GetCR(h) \/ ListCRs(h) \/ Commit(h) PROVE UNCHANGED vars
  BY <1>2 DEF GetCR, ListCRs, Commit
<1>3. ASSUME NEW h \in Handlers, DeleteCR(h)
      PROVE  (\E s \in Sessions : APIDelete(s)) \/ UNCHANGED vars
  <2>1. req[h].session \in Sessions
    BY <1>3 DEF DeleteCR, ServiceInv, Named
  <2> QED BY <1>3, <2>1 DEF DeleteCR
<1>4. ASSUME NEW h \in Handlers, NEW s \in Sessions,
             Get(h, s) \/ List(h, s) \/ Stop(h, s) \/ \E new \in SessionState : Update(h, s, new)
      PROVE  UNCHANGED vars
  BY <1>4 DEF Get, List, Look, Stop, Update
<1> QED BY <1>1, <1>2, <1>3, <1>4 DEF Service

LEMMA OperatorStep ==
  ASSUME ServiceInv, SvcNext \/ UNCHANGED svcVars
  PROVE  [Next]_vars
<1>1. CASE Service
  BY <1>1, ServiceVisible DEF Next, UserStep, CreateCR
<1>2. CASE World
  BY <1>2 DEF World, Next
<1>3. CASE UNCHANGED svcVars
  BY <1>3 DEF svcVars, operatorVars, vars
<1> QED BY <1>1, <1>2, <1>3 DEF SvcNext

LEMMA SinceTyped ==
  ASSUME ServiceInv, SvcNext \/ UNCHANGED svcVars
  PROVE  since' \in [Handlers -> SUBSET MaybeState]
<1>0. since \in [Handlers -> SUBSET MaybeState] /\ row \in [Sessions -> MaybeState]
  BY DEF ServiceInv, SvcTypeOK
<1>1. ASSUME NEW s \in Sessions, InsertRow(s) \/ CreateCR(s) \/ CreateCRFails(s) PROVE UNCHANGED since
  BY <1>1 DEF InsertRow, CreateCR, CreateCRFails
<1>2. ASSUME NEW h \in Handlers, GetCR(h) \/ ListCRs(h) PROVE Forget(h)
  BY <1>2 DEF GetCR, ListCRs
<1>3. ASSUME NEW h \in Handlers, DeleteCR(h) PROVE UNCHANGED since
  BY <1>3 DEF DeleteCR
<1>4. ASSUME NEW h \in Handlers, Commit(h) PROVE since' \in [Handlers -> SUBSET MaybeState]
  <2>1. req[h].write \in MaybeState
    BY DEF ServiceInv, SvcTypeOK, Requests
  <2> QED BY <1>0, <1>4, <2>1 DEF Commit, Remember
<1>5. ASSUME NEW h \in Handlers, NEW s \in Sessions,
             Get(h, s) \/ List(h, s) \/ Stop(h, s) \/ \E new \in SessionState : Update(h, s, new)
      PROVE  UNCHANGED since \/ since' = [since EXCEPT ![h] = {row[s]}]
  BY <1>5 DEF Get, List, Look, Stop, Update, Begin
<1>6. CASE Service
  BY <1>0, <1>1, <1>2, <1>3, <1>4, <1>5, <1>6 DEF Service, Forget
<1>7. CASE UNCHANGED serviceVars \/ UNCHANGED svcVars
  BY <1>0, <1>7 DEF serviceVars, svcVars
<1> QED BY <1>6, <1>7 DEF SvcNext

LEMMA ServiceTypeStep ==
  ASSUME ServiceInv, SvcNext \/ UNCHANGED svcVars
  PROVE  ServiceInv'
<1>0. SvcTypeOK
  BY DEF ServiceInv
<1>1. TypeOK'
  BY <1>0, OperatorStep, TypeStep DEF SvcTypeOK
<1>2. req' \in [Handlers -> Requests] /\ \A h \in Handlers : Named(h)'
  BY RequestsTyped
<1>3. row' \in [Sessions -> MaybeState]
  <2>1. ASSUME NEW h \in Handlers, Commit(h) PROVE row' \in [Sessions -> MaybeState]
    <3>1. req[h].write \in MaybeState
      BY <1>0 DEF SvcTypeOK, Requests
    <3> QED BY <1>0, <2>1, <3>1 DEF Commit, SvcTypeOK
  <2>2. ASSUME NEW s \in Sessions, InsertRow(s) PROVE row' \in [Sessions -> MaybeState]
    BY <1>0, <2>2 DEF InsertRow, SvcTypeOK, MaybeState, SessionState
  <2>3. CASE Service /\ (\A h \in Handlers : ~Commit(h)) /\ (\A s \in Sessions : ~InsertRow(s))
    <3>1. UNCHANGED row
      BY <2>3
      DEF Service, CreateCR, CreateCRFails, GetCR, ListCRs, DeleteCR, Get, List, Look, Stop, Update
    <3> QED BY <1>0, <3>1 DEF SvcTypeOK
  <2>4. CASE UNCHANGED serviceVars \/ UNCHANGED svcVars
    BY <1>0, <2>4 DEF serviceVars, svcVars, SvcTypeOK
  <2> QED BY <2>1, <2>2, <2>3, <2>4 DEF SvcNext
<1>4. creation' \in [Sessions -> {"none", "inserted", "done"}]
  <2>1. CASE Service
    BY <1>0, <2>1
    DEF Service, InsertRow, CreateCR, CreateCRFails, GetCR, ListCRs, DeleteCR, Commit, Get, List,
        Look, Stop, Update, SvcTypeOK
  <2>2. CASE UNCHANGED serviceVars \/ UNCHANGED svcVars
    BY <1>0, <2>2 DEF serviceVars, svcVars, SvcTypeOK
  <2> QED BY <2>1, <2>2 DEF SvcNext
<1>5. told' \in [Sessions -> BOOLEAN]
  <2>1. ASSUME NEW s, NEW state, NEW h, Respond(h, s, state) PROVE told' \in [Sessions -> BOOLEAN]
    BY <1>0, <2>1 DEF Respond, SvcTypeOK
  <2>2. CASE UNCHANGED told
    BY <1>0, <2>2 DEF SvcTypeOK
  <2>3. CASE Service
    BY <2>1, <2>2, <2>3
    DEF Service, InsertRow, CreateCR, CreateCRFails, GetCR, ListCRs, DeleteCR, Commit, Get, List,
        Look, Stop, Update
  <2>4. CASE UNCHANGED serviceVars \/ UNCHANGED svcVars
    BY <2>2, <2>4 DEF serviceVars, svcVars
  <2> QED BY <2>3, <2>4 DEF SvcNext
<1>6. errors' \in 0 .. MaxErrors
  <2>1. CASE UseError
    BY <1>0, <2>1, MaxErrorsAssumption DEF UseError, SvcTypeOK
  <2>2. CASE UNCHANGED errors
    BY <1>0, <2>2 DEF SvcTypeOK
  <2>3. CASE Service
    BY <2>1, <2>2, <2>3
    DEF Service, InsertRow, CreateCR, CreateCRFails, GetCR, ListCRs, DeleteCR, Commit, Get, List,
        Look, Stop, Update
  <2>4. CASE UNCHANGED serviceVars \/ UNCHANGED svcVars
    BY <2>2, <2>4 DEF serviceVars, svcVars
  <2> QED BY <2>3, <2>4 DEF SvcNext
<1>7. since' \in [Handlers -> SUBSET MaybeState]
  BY <1>0, SinceTyped
<1> QED BY <1>1, <1>2, <1>3, <1>4, <1>5, <1>6, <1>7 DEF ServiceInv, SvcTypeOK

LEMMA ServiceInit == SvcInit => ServiceInv
<1> SUFFICES ASSUME SvcInit PROVE ServiceInv
  OBVIOUS
<1>1. NoRequest \in Requests /\ NoRequest.at = "none"
  BY DEF NoRequest, Requests, MaybeState
<1> QED
  BY <1>1, TypeInit, MaxErrorsAssumption DEF SvcInit, ServiceInv, SvcTypeOK, Named, MaybeState

LEMMA ServiceInvariant == SvcSpec => []ServiceInv
<1>1. ServiceInv /\ [SvcNext]_svcVars => ServiceInv'
  BY ServiceTypeStep
<1> QED BY <1>1, ServiceInit, PTL DEF SvcSpec

\* The variables of the service have their types, for all values of the constants.
THEOREM ServiceTypeCorrect == SvcSpec => []SvcTypeOK
<1>1. ServiceInv => SvcTypeOK
  BY DEF ServiceInv
<1> QED BY <1>1, ServiceInvariant, PTL

\* The service, with the operator beneath it, implements SessionOperator: the
\* CRs it creates and deletes are those of a user of the operator.
THEOREM ServiceUsesOperator == SvcSpec => OperatorSpec
<1>1. SvcInit => Init
  BY DEF SvcInit
<1>2. ServiceInv /\ [SvcNext]_svcVars => [Next]_vars
  BY OperatorStep
<1> QED BY <1>1, <1>2, ServiceInvariant, PTL DEF SvcSpec, OperatorSpec, Spec

-----------------------------------------------------------------------------
(* Stopping a session.                                                       *)

\* Why a session that is over has no live CR, for clients that know a session
\* only from the answer to its creation, and update no states: a CR only comes
\* to life as the last step of a creation, which no request can be ahead of.
Stopping(s) ==
  /\ row[s] \in TERMINAL_STATES \/ cr[s].life = "live" => creation[s] = "done"
  /\ row[s] \in TERMINAL_STATES /\ errors = 0 => cr[s].life # "live"
  /\ \A h \in Handlers : req[h].at # "none" /\ req[h].session = s =>
       /\ creation[s] = "done"
       /\ req[h].at = "commit" /\ errors = 0 => cr[s].life # "live"

\* Nothing beneath the service brings a CR to life.
LEMMA WorldKillsOnly ==
  ASSUME TypeOK, World, NEW r \in Sessions, cr'[r].life = "live"
  PROVE  cr[r].life = "live"
<1>0. cr[r] \in CRs
  BY DEF TypeOK
<1>1. ASSUME NEW s \in Sessions, ClusterStep(s) PROVE cr' = cr
  BY <1>1, ClusterEffect
<1>2. ASSUME NEW o \in Operators, Restart(o) \/ \E s \in Sessions : RuntimeStep(o, s)
      PROVE  cr' = cr
  BY <1>2 DEF Restart, RuntimeStep, Watch, Resync, DropRequest, StartReconcile
<1>3. ASSUME NEW o \in Operators, NEW s \in Sessions, ReconcileStep(o, s) \/ Faulty(o, s)
      PROVE  cr[r].life = "live"
  <2>1. CASE s # r
    BY <1>3, <2>1, OperatorFrame DEF Untouched
  <2>2. CASE s = r
    <3>1. GoneCR.life = "gone"
      BY DEF GoneCR, NoCR
    <3>2. Finalized(cr[r]).life = cr[r].life
      BY <1>0, CRUpdates
    <3>3. WithStatus(cr[r], target[o][r]).life = cr[r].life
      BY <1>0, StatusUpdate DEF TypeOK
    <3> QED BY <1>3, <2>2, <3>1, <3>2, <3>3, ReconcileEffect
  <2> QED BY <2>1, <2>2
<1> QED BY <1>1, <1>2, <1>3 DEF World

LEMMA StoppingInit == SvcInit => \A s \in Sessions : Stopping(s)
BY DEF SvcInit, Init, Stopping, NoCR, NoRequest, TERMINAL_STATES

\* The row, the CR, the creation and the errors stay, or the errors grow; and
\* the requests of r that are left are none, old ones, or one that just came.
LEMMA StoppingFrame ==
  ASSUME NEW r \in Sessions, Stopping(r), row'[r] = row[r], creation'[r] = creation[r],
         cr'[r].life = "live" => cr[r].life = "live", errors' = 0 => errors = 0,
         \A h \in Handlers : req'[h].at # "none" /\ req'[h].session = r =>
           \/ req'[h] = req[h]
           \/ req'[h].at # "commit" /\ creation[r] = "done"
  PROVE  Stopping(r)'
BY DEF Stopping

LEMMA StoppingCreation ==
  ASSUME ServiceInv, NEW s \in Sessions, InsertRow(s) \/ CreateCR(s) \/ CreateCRFails(s),
         NEW r \in Sessions, Stopping(r)
  PROVE  Stopping(r)'
<1>0. SvcTypeOK /\ TypeOK /\ req' = req /\ (errors' = 0 => errors = 0)
  BY MaxErrorsAssumption
  DEF ServiceInv, SvcTypeOK, InsertRow, CreateCR, CreateCRFails, UseError
<1>1. CASE s # r
  <2>1. row'[r] = row[r] /\ creation'[r] = creation[r] /\ cr'[r] = cr[r]
    BY <1>0, <1>1
    DEF InsertRow, CreateCR, CreateCRFails, APICreate, operatorVars, SvcTypeOK, TypeOK
  <2> QED BY <1>0, <2>1, StoppingFrame
<1>2. CASE s = r
  <2>1. creation[r] # "done"
    BY <1>2 DEF InsertRow, CreateCR, CreateCRFails
  <2>2. /\ row[r] \notin TERMINAL_STATES /\ cr[r].life # "live"
        /\ \A h \in Handlers : ~(req[h].at # "none" /\ req[h].session = r)
    BY <2>1 DEF Stopping
  <2>3. row'[r] \notin TERMINAL_STATES
    BY <1>0, <1>2, <2>2
    DEF InsertRow, CreateCR, CreateCRFails, SvcTypeOK, TERMINAL_STATES
  <2>4. cr'[r].life = "live" => creation'[r] = "done"
    BY <1>0, <1>2, <2>2 DEF InsertRow, CreateCR, CreateCRFails, operatorVars, SvcTypeOK
  <2> QED BY <1>0, <2>2, <2>3, <2>4 DEF Stopping
<1> QED BY <1>1, <1>2

LEMMA StoppingLook ==
  ASSUME Eager = FALSE, ServiceInv, NEW h \in Handlers, NEW s \in Sessions,
         Get(h, s) \/ List(h, s) \/ Stop(h, s) \/ GetCR(h) \/ ListCRs(h),
         NEW r \in Sessions, Stopping(r)
  PROVE  Stopping(r)'
<1>0. SvcTypeOK /\ UNCHANGED <<cr, row, creation>> /\ (errors' = 0 => errors = 0)
  BY MaxErrorsAssumption
  DEF ServiceInv, SvcTypeOK, Get, List, Look, Stop, GetCR, ListCRs, UseError, operatorVars
<1>1. ASSUME NEW q \in Sessions, NEW state, Respond(h, q, state)
      PROVE  req'[h].at = "none" /\ \A k \in Handlers : k # h => req'[k] = req[k]
  BY <1>0, <1>1 DEF Respond, Answered, SvcTypeOK
<1>2. ASSUME NEW step \in {"getCR", "listCRs", "deleteCR"}, NEW write, Begin(h, s, step, write)
      PROVE  /\ req'[h].at # "commit" /\ req'[h].session = s
             /\ \A k \in Handlers : k # h => req'[k] = req[k]
  BY <1>0, <1>2 DEF Begin, Request, SvcTypeOK
<1>3. CASE GetCR(h) \/ ListCRs(h)
  <2>1. req[h].session \in Sessions
    BY <1>3 DEF GetCR, ListCRs, ServiceInv, Named
  <2>2. req'[h].at = "none" /\ \A k \in Handlers : k # h => req'[k] = req[k]
    BY <1>1, <1>3, <2>1 DEF GetCR, ListCRs
  <2> QED BY <1>0, <2>2, StoppingFrame
<1>4. CASE Get(h, s) \/ List(h, s) \/ Stop(h, s)
  <2>1. creation[s] = "done"
    BY <1>4 DEF Get, List, Look, Stop, Comes
  <2>2. /\ \A k \in Handlers : k # h => req'[k] = req[k]
        /\ req'[h].at = "none" \/ (req'[h].at # "commit" /\ req'[h].session = s)
    BY <1>1, <1>2, <1>4 DEF Get, List, Look, Stop
  <2> QED BY <1>0, <2>1, <2>2, StoppingFrame
<1> QED BY <1>3, <1>4

LEMMA StoppingDelete ==
  ASSUME ServiceInv, NEW h \in Handlers, DeleteCR(h), NEW r \in Sessions, Stopping(r)
  PROVE  Stopping(r)'
<1> DEFINE s == req[h].session
<1>0. /\ SvcTypeOK /\ TypeOK /\ UNCHANGED <<row, creation>> /\ (errors' = 0 => errors = 0)
      /\ s \in Sessions /\ req[h] \in Requests /\ req[h].at = "deleteCR"
  BY MaxErrorsAssumption DEF ServiceInv, SvcTypeOK, Named, DeleteCR, UseError
<1>1. /\ req'[h].at = "commit" /\ req'[h].session = s
      /\ \A k \in Handlers : k # h => req'[k] = req[k]
  BY <1>0, DecidingTyped DEF DeleteCR, SvcTypeOK
<1>2. CASE s = r
  <2>1. errors' = 0 => cr'[r].life # "live"
    <3>1. CASE APIDelete(r)
      <4>1. cr'[r] = Deleted(cr[r]) \/ cr'[r] = GoneCR
        BY <1>0, <3>1 DEF APIDelete, TypeOK
      <4>2. cr[r] \in CRs /\ GoneCR.life = "gone"
        BY <1>0 DEF TypeOK, GoneCR, NoCR
      <4> QED BY <4>1, <4>2, CRUpdates
    <3>2. CASE cr[r].life # "live" /\ UNCHANGED operatorVars
      BY <3>2 DEF operatorVars
    <3>3. CASE UseError
      BY <1>0, <3>3, MaxErrorsAssumption DEF UseError, SvcTypeOK
    <3> QED BY <1>2, <3>1, <3>2, <3>3 DEF DeleteCR
  <2>2. creation[r] = "done"
    BY <1>0, <1>2 DEF Stopping
  <2> QED BY <1>0, <1>1, <2>1, <2>2 DEF Stopping
<1>3. CASE s # r
  <2>1. cr'[r] = cr[r]
    BY <1>0, <1>3 DEF DeleteCR, APIDelete, operatorVars, TypeOK
  <2> QED BY <1>0, <1>1, <1>3, <2>1, StoppingFrame
<1> QED BY <1>2, <1>3

LEMMA StoppingCommit ==
  ASSUME ServiceInv, NEW h \in Handlers, Commit(h), NEW r \in Sessions, Stopping(r)
  PROVE  Stopping(r)'
<1> DEFINE s == req[h].session
<1>0. /\ SvcTypeOK /\ UNCHANGED <<cr, creation, errors>> /\ s \in Sessions
      /\ req[h].at = "commit"
  BY DEF ServiceInv, SvcTypeOK, Named, Commit, operatorVars
<1>1. req'[h].at = "none" /\ \A k \in Handlers : k # h => req'[k] = req[k]
  BY <1>0 DEF Commit, Respond, Answered, SvcTypeOK
<1>2. CASE s = r
  <2>1. creation[r] = "done" /\ (errors = 0 => cr[r].life # "live")
    BY <1>0, <1>2 DEF Stopping
  <2> QED BY <1>0, <1>1, <2>1 DEF Stopping
<1>3. CASE s # r
  <2>1. row'[r] = row[r]
    BY <1>0, <1>3 DEF Commit, SvcTypeOK
  <2> QED BY <1>0, <1>1, <2>1, StoppingFrame
<1> QED BY <1>2, <1>3

\* For clients that use a session's id only once its creation was answered, and
\* do not update states: as long as no call of the API has failed, no session
\* is over in the database while its CR is live.
THEOREM StopLeavesNoLiveCR ==
  ASSUME Eager = FALSE, "update" \notin Ops
  PROVE  SvcSpec => []StoppedIsReleased
<1> DEFINE Inv == \A s \in Sessions : Stopping(s)
<1>1. ServiceInv /\ Inv /\ [SvcNext]_svcVars => Inv'
  <2> SUFFICES ASSUME ServiceInv, Inv, [SvcNext]_svcVars, NEW r \in Sessions PROVE Stopping(r)'
    OBVIOUS
  <2>0. Stopping(r) /\ TypeOK
    BY DEF ServiceInv, SvcTypeOK
  <2>1. CASE Service
    <3>1. ASSUME NEW h \in Handlers, NEW s \in Sessions PROVE ~\E new \in SessionState : Update(h, s, new)
      BY DEF Update
    <3> QED
      BY <2>0, <2>1, <3>1, StoppingCreation, StoppingLook, StoppingDelete, StoppingCommit DEF Service
  <2>2. CASE World /\ UNCHANGED serviceVars
    BY <2>0, <2>2, WorldKillsOnly, StoppingFrame DEF serviceVars
  <2>3. CASE UNCHANGED svcVars
    BY <2>0, <2>3, StoppingFrame DEF svcVars, operatorVars, serviceVars
  <2> QED BY <2>1, <2>2, <2>3 DEF SvcNext
<1>2. Inv => StoppedIsReleased
  BY DEF Stopping, StoppedIsReleased
<1> QED BY <1>1, <1>2, StoppingInit, ServiceInvariant, PTL DEF SvcSpec

-----------------------------------------------------------------------------
(* What a request has read.                                                  *)

\* A request that takes a session on holds what the row and the answers say by then.
LEMMA RequestHolds ==
  ASSUME SvcTypeOK, NEW h \in Handlers, NEW s \in Sessions, NEW step, NEW write, Begin(h, s, step, write)
  PROVE  /\ \A k \in Handlers : k # h => req'[k] = req[k]
         /\ req'[h].at = step /\ req'[h].session = s /\ req'[h].saw = row[s] /\ req'[h].write = write
         /\ req'[h].after = told[s]
BY DEF Begin, Request, SvcTypeOK

\* An answer ends the request.
LEMMA AnswerEnds ==
  ASSUME SvcTypeOK, NEW h \in Handlers, NEW s, NEW state, Respond(h, s, state)
  PROVE  /\ \A k \in Handlers : k # h => req'[k] = req[k]
         /\ req'[h].at = "none" /\ req'[h].answer = state
         /\ \A r \in Sessions : told'[r] => told[r] \/ (r = s /\ state \in TERMINAL_STATES)
BY DEF Respond, Answered, SvcTypeOK

\* A stop goes on to commit what it has decided.
LEMMA DeleteDecides ==
  ASSUME SvcTypeOK, NEW h \in Handlers, DeleteCR(h)
  PROVE  /\ \A k \in Handlers : k # h => req'[k] = req[k]
         /\ req'[h].at = "commit" /\ req'[h].session = req[h].session /\ req'[h].saw = req[h].saw
         /\ req'[h].write = req[h].write /\ req'[h].after = req[h].after
BY DEF DeleteCR, Deciding, SvcTypeOK, Requests

\* get_session only looks at the CR of a session that the row does not call over.
LooksAtOpen(h) == req[h].at = "getCR" => req[h].saw \notin TERMINAL_STATES

\* There is no request of an operation that is not offered.
Unlisted(h) == "list" \notin Ops => req[h].at # "listCRs"

LEMMA LooksKept ==
  ASSUME ServiceInv, [SvcNext]_svcVars, NEW k \in Handlers, LooksAtOpen(k), Unlisted(k)
  PROVE  LooksAtOpen(k)' /\ Unlisted(k)'
<1>0. SvcTypeOK
  BY DEF ServiceInv
<1>a. ASSUME req'[k] = req[k] \/ req'[k].at \notin {"getCR", "listCRs"}
      PROVE  LooksAtOpen(k)' /\ Unlisted(k)'
  BY <1>a DEF LooksAtOpen, Unlisted
<1>1. ASSUME NEW h \in Handlers, GetCR(h) \/ ListCRs(h) \/ Commit(h)
      PROVE  LooksAtOpen(k)' /\ Unlisted(k)'
  <2>1. PICK s, state : Respond(h, s, state)
    BY <1>1 DEF GetCR, ListCRs, Commit
  <2> QED BY <1>0, <1>a, <2>1, AnswerEnds
<1>2. ASSUME NEW h \in Handlers, DeleteCR(h)
      PROVE  LooksAtOpen(k)' /\ Unlisted(k)'
  BY <1>0, <1>a, <1>2, DeleteDecides
<1>3. ASSUME NEW h \in Handlers, NEW s \in Sessions, Get(h, s) \/ List(h, s)
      PROVE  LooksAtOpen(k)' /\ Unlisted(k)'
  <2>1. CASE row[s] \in TERMINAL_STATES
    <3>1. Respond(h, s, row[s])
      BY <1>3, <2>1 DEF Get, List, Look
    <3> QED BY <1>0, <1>a, <3>1, AnswerEnds
  <2>2. CASE row[s] \notin TERMINAL_STATES
    <3>1. Begin(h, s, "getCR", "none") \/ ("list" \in Ops /\ Begin(h, s, "listCRs", "none"))
      BY <1>3, <2>2 DEF Get, List, Look
    <3>2. \A j \in Handlers : j # h => req'[j] = req[j]
      BY <1>0, <3>1, RequestHolds
    <3>3. \/ req'[h].at = "getCR" /\ req'[h].saw = row[s]
          \/ req'[h].at = "listCRs" /\ "list" \in Ops
      BY <1>0, <3>1, RequestHolds
    <3> QED BY <1>a, <2>2, <3>2, <3>3 DEF LooksAtOpen, Unlisted
  <2> QED BY <2>1, <2>2
<1>4. ASSUME NEW h \in Handlers, NEW s \in Sessions, Stop(h, s) \/ \E new \in SessionState : Update(h, s, new)
      PROVE  LooksAtOpen(k)' /\ Unlisted(k)'
  <2>1. PICK step, write : step \in {"deleteCR", "commit"} /\ Begin(h, s, step, write)
    BY <1>4 DEF Stop, Update
  <2> QED BY <1>0, <1>a, <2>1, RequestHolds
<1>5. ASSUME NEW s \in Sessions, InsertRow(s) \/ CreateCR(s) \/ CreateCRFails(s)
      PROVE  LooksAtOpen(k)' /\ Unlisted(k)'
  BY <1>a, <1>5 DEF InsertRow, CreateCR, CreateCRFails
<1>6. CASE UNCHANGED req
  BY <1>a, <1>6
<1> QED BY <1>1, <1>2, <1>3, <1>4, <1>5, <1>6 DEF SvcNext, Service, serviceVars, svcVars

\* The answer of h in a step that answers with what was read of the CR is that of get_session
\* or of list_sessions.
LEMMA WhoAnswers ==
  ASSUME ServiceInv, SvcNext, NEW h \in Handlers, AnswersLive(h)
  PROVE  GetCR(h) \/ ListCRs(h)
<1>0. SvcTypeOK
  BY DEF ServiceInv
<1>a. ASSUME req'[h] = req[h] PROVE FALSE
  BY <1>a DEF AnswersLive
<1>1. ASSUME NEW k \in Handlers, GetCR(k) \/ ListCRs(k) \/ Commit(k)
      PROVE  GetCR(h) \/ ListCRs(h)
  <2>1. PICK s, state : Respond(k, s, state)
    BY <1>1 DEF GetCR, ListCRs, Commit
  <2>2. k = h
    BY <1>0, <1>a, <2>1, AnswerEnds
  <2> QED BY <1>1, <2>2 DEF AnswersLive, Commit
<1>2. ASSUME NEW k \in Handlers, DeleteCR(k)
      PROVE  FALSE
  <2>1. k = h
    BY <1>0, <1>a, <1>2, DeleteDecides
  <2> QED BY <1>2, <2>1 DEF AnswersLive, DeleteCR
<1>3. ASSUME NEW k \in Handlers, NEW s \in Sessions,
             Get(k, s) \/ List(k, s) \/ Stop(k, s) \/ \E new \in SessionState : Update(k, s, new)
      PROVE  FALSE
  <2>1. req[k].at = "none"
    BY <1>3 DEF Get, List, Look, Stop, Update, Comes
  <2>2. (\E state : Respond(k, s, state)) \/ (\E step, write : Begin(k, s, step, write))
    BY <1>3 DEF Get, List, Look, Stop, Update
  <2>3. k = h
    BY <1>0, <1>a, <2>2, AnswerEnds, RequestHolds
  <2> QED BY <2>1, <2>3 DEF AnswersLive
<1>4. ASSUME NEW s \in Sessions, InsertRow(s) \/ CreateCR(s) \/ CreateCRFails(s)
      PROVE  FALSE
  BY <1>a, <1>4 DEF InsertRow, CreateCR, CreateCRFails
<1>5. CASE World /\ UNCHANGED serviceVars
  BY <1>a, <1>5 DEF serviceVars
<1> QED BY <1>1, <1>2, <1>3, <1>4, <1>5 DEF SvcNext, Service

\* What get_session says of a CR: failed for one that is missing or says so, and over only
\* for one that is missing or says so.
LEMMA LiveStateSays ==
  ASSUME NEW c \in CRs, NEW saw, saw \notin TERMINAL_STATES
  PROVE  /\ LiveState(saw, c) = "failed" => ~InAPI(c) \/ c.state = "Failed"
         /\ LiveState(saw, c) \in TERMINAL_STATES <=> ~InAPI(c) \/ c.state \in TerminalCRStates
<1>1. c.state \in CRStates
  BY DEF CRs
<1>2. c.state # NoStatus =>
        /\ CR_STATE_TO_DB_STATE[c.state] = "failed" <=> c.state = "Failed"
        /\ CR_STATE_TO_DB_STATE[c.state] \in TERMINAL_STATES <=> c.state \in TerminalCRStates
  BY <1>1 DEF CRStates, WrittenStates, CR_STATE_TO_DB_STATE, TERMINAL_STATES, TerminalCRStates, NoStatus
<1> QED BY <1>1, <1>2 DEF LiveState, TERMINAL_STATES, TerminalCRStates, NoStatus

\* For any number of requests, operators and failed calls, in any order: get_session reports
\* failed only of a session whose CR says so or is not there, unless the very call that reads
\* the CR has failed.
THEOREM FailedIsTrue == SvcSpec => FailedMeansFailed
<1> DEFINE Inv == \A h \in Handlers : LooksAtOpen(h) /\ Unlisted(h)
<1>1. SvcInit => Inv
  BY DEF SvcInit, LooksAtOpen, Unlisted, NoRequest
<1>2. ServiceInv /\ Inv /\ [SvcNext]_svcVars => Inv'
  BY LooksKept
<1>3. ServiceInv /\ Inv /\ [SvcNext]_svcVars =>
        [\A h \in Handlers :
           ReportsFailed(h) /\ errors' = errors => FailedOrMissing(h)]_svcVars
  <2> SUFFICES ASSUME ServiceInv, Inv, SvcNext, NEW h \in Handlers,
                      ReportsFailed(h), errors' = errors
               PROVE  FailedOrMissing(h)
    OBVIOUS
  <2> DEFINE s == req[h].session
  <2>0. SvcTypeOK /\ TypeOK
    BY DEF ServiceInv, SvcTypeOK
  <2>1. GetCR(h)
    BY WhoAnswers DEF ReportsFailed, AnswersLive, ListCRs
  <2>2. s \in Sessions /\ cr[s] \in CRs /\ req[h].saw \notin TERMINAL_STATES
    BY <2>0, <2>1 DEF GetCR, ServiceInv, Named, TypeOK, LooksAtOpen
  <2>3. ~UseError
    BY <2>0, MaxErrorsAssumption DEF UseError, SvcTypeOK
  <2>4. Respond(h, s, LiveState(req[h].saw, cr[s]))
    BY <2>1, <2>3 DEF GetCR
  <2>5. LiveState(req[h].saw, cr[s]) = "failed"
    BY <2>0, <2>4, AnswerEnds DEF ReportsFailed
  <2> QED BY <2>2, <2>5, LiveStateSays DEF FailedOrMissing
<1> QED BY <1>1, <1>2, <1>3, ServiceInvariant, PTL DEF SvcSpec, FailedMeansFailed

-----------------------------------------------------------------------------
(* The row.                                                                  *)

\* A session has a row from the first step of its creation on.
RowCreated(s) == creation[s] = "none" => row[s] = "none"

\* What a handler is about to write, some state allowed that the row has had meanwhile.
WasAllowed(h) ==
  req[h].at \in {"deleteCR", "commit"} => \E was \in since[h] : req[h].write \in VALID_TRANSITIONS[was]

\* Any session that is not over may fail.
LEMMA MayFail == \A state \in SessionState \ TERMINAL_STATES : "failed" \in VALID_TRANSITIONS[state]
BY DEF SessionState, TERMINAL_STATES, VALID_TRANSITIONS

LEMMA RowCreatedKept ==
  ASSUME ServiceInv, [SvcNext]_svcVars, NEW r \in Sessions, RowCreated(r),
         \A h \in Handlers : req[h].at = "commit" => creation[req[h].session] # "none"
  PROVE  RowCreated(r)'
<1>0. SvcTypeOK
  BY DEF ServiceInv
<1>1. ASSUME NEW s \in Sessions, InsertRow(s) \/ CreateCR(s) \/ CreateCRFails(s)
      PROVE  RowCreated(r)'
  BY <1>0, <1>1 DEF InsertRow, CreateCR, CreateCRFails, SvcTypeOK, RowCreated
<1>2. ASSUME NEW h \in Handlers, Commit(h)
      PROVE  RowCreated(r)'
  BY <1>0, <1>2 DEF Commit, SvcTypeOK, RowCreated
<1>3. CASE UNCHANGED <<row, creation>>
  BY <1>3 DEF RowCreated
<1> QED BY <1>1, <1>2, <1>3 DEF SvcNext, Service, serviceVars, svcVars, GetCR, ListCRs, DeleteCR, Get, List, Look,
                                Stop, Update

\* A request is of a session that has a row.
Rooted(h) == req[h].at # "none" => creation[req[h].session] # "none"

\* A step leaves the request of k alone, ends it, goes on with what it has decided, or
\* takes on a new one that may be decided by what the row says now.  Of a request in
\* progress nothing is forgotten, and a new one remembers what the row says.
LEMMA RequestStep ==
  ASSUME ServiceInv, SvcNext, \A s \in Sessions : RowCreated(s), NEW k \in Handlers
  PROVE  \/ req'[k] = req[k] /\ since[k] \subseteq since'[k]
         \/ req'[k].at = "none"
         \/ /\ req[k].at = "deleteCR" /\ req'[k].at = "commit" /\ since[k] \subseteq since'[k]
            /\ req'[k].session = req[k].session /\ req'[k].write = req[k].write
         \/ /\ req'[k].session \in Sessions /\ creation[req'[k].session] # "none"
            /\ row[req'[k].session] \in since'[k]
            /\ req'[k].at \in {"deleteCR", "commit"} =>
                 req'[k].write \in VALID_TRANSITIONS[row[req'[k].session]]
<1>0. SvcTypeOK
  BY DEF ServiceInv
<1>1. ASSUME NEW h \in Handlers, GetCR(h) \/ ListCRs(h) \/ Commit(h)
      PROVE  (req'[k] = req[k] /\ since[k] \subseteq since'[k]) \/ req'[k].at = "none"
  <2>1. PICK s, state : Respond(h, s, state)
    BY <1>1 DEF GetCR, ListCRs, Commit
  <2>2. k # h => since[k] \subseteq since'[k]
    BY <1>0, <1>1 DEF GetCR, ListCRs, Commit, Forget, Remember, SvcTypeOK
  <2> QED BY <1>0, <2>1, <2>2, AnswerEnds
<1>2. ASSUME NEW h \in Handlers, DeleteCR(h)
      PROVE  /\ since' = since
             /\ \/ req'[k] = req[k]
                \/ /\ req[k].at = "deleteCR" /\ req'[k].at = "commit"
                   /\ req'[k].session = req[k].session /\ req'[k].write = req[k].write
  <2>1. req[h].at = "deleteCR" /\ since' = since
    BY <1>2 DEF DeleteCR
  <2> QED BY <1>0, <1>2, <2>1, DeleteDecides
<1>3. ASSUME NEW h \in Handlers, NEW s \in Sessions,
             Get(h, s) \/ List(h, s) \/ Stop(h, s) \/ \E new \in SessionState : Update(h, s, new)
      PROVE  \/ req'[k] = req[k] /\ since[k] \subseteq since'[k]
             \/ req'[k].at = "none"
             \/ /\ req'[k].session \in Sessions /\ creation[req'[k].session] # "none"
                /\ row[req'[k].session] \in since'[k]
                /\ req'[k].at \in {"deleteCR", "commit"} =>
                     req'[k].write \in VALID_TRANSITIONS[row[req'[k].session]]
  <2>1. row[s] \in SessionState /\ creation[s] # "none"
    BY <1>0, <1>3 DEF Get, List, Look, Stop, Update, Comes, RowCreated, SvcTypeOK, MaybeState
  <2>2. CASE since' = since /\ \E state : Respond(h, s, state)
    BY <1>0, <2>2, AnswerEnds
  <2>3. CASE \E step \in {"getCR", "listCRs"} : Begin(h, s, step, "none")
    <3>1. PICK step \in {"getCR", "listCRs"} : Begin(h, s, step, "none")
      BY <2>3
    <3>2. row[s] \in since'[h] /\ (k # h => since'[k] = since[k])
      BY <1>0, <3>1 DEF Begin, SvcTypeOK
    <3> QED BY <1>0, <2>1, <3>1, <3>2, RequestHolds
  <2>4. CASE \E step \in {"deleteCR", "commit"}, write \in VALID_TRANSITIONS[row[s]] : Begin(h, s, step, write)
    <3>1. PICK step \in {"deleteCR", "commit"}, write \in VALID_TRANSITIONS[row[s]] : Begin(h, s, step, write)
      BY <2>4
    <3>2. row[s] \in since'[h] /\ (k # h => since'[k] = since[k])
      BY <1>0, <3>1 DEF Begin, SvcTypeOK
    <3> QED BY <1>0, <2>1, <3>1, <3>2, RequestHolds
  <2>5. Get(h, s) \/ List(h, s) => \/ since' = since /\ \E state : Respond(h, s, state)
                                   \/ \E step \in {"getCR", "listCRs"} : Begin(h, s, step, "none")
    BY DEF Get, List, Look
  <2>6. Stop(h, s) \/ (\E new \in SessionState : Update(h, s, new)) =>
          \E step \in {"deleteCR", "commit"}, write \in VALID_TRANSITIONS[row[s]] : Begin(h, s, step, write)
    BY <2>1, MayFail DEF Stop, Update
  <2> QED BY <1>3, <2>2, <2>3, <2>4, <2>5, <2>6
<1>4. ASSUME NEW s \in Sessions, InsertRow(s) \/ CreateCR(s) \/ CreateCRFails(s)
      PROVE  req' = req /\ since' = since
  BY <1>4 DEF InsertRow, CreateCR, CreateCRFails
<1> QED BY <1>1, <1>2, <1>3, <1>4 DEF SvcNext, Service, serviceVars

HistoryInv ==
  /\ \A s \in Sessions : RowCreated(s)
  /\ \A h \in Handlers : Rooted(h) /\ WasAllowed(h)

LEMMA HistoryKept ==
  ASSUME ServiceInv, HistoryInv, SvcNext
  PROVE  HistoryInv'
<1>0. SvcTypeOK
  BY DEF ServiceInv
<1>1. ASSUME NEW s \in Sessions PROVE RowCreated(s)'
  BY RowCreatedKept DEF HistoryInv, Rooted
<1>2. \A s \in Sessions : creation[s] # "none" => creation'[s] # "none"
  BY <1>0 DEF SvcNext, Service, serviceVars, SvcTypeOK, InsertRow, CreateCR, CreateCRFails, GetCR, ListCRs, DeleteCR,
              Commit, Get, List, Look, Stop, Update
<1>3. ASSUME NEW k \in Handlers PROVE Rooted(k)' /\ WasAllowed(k)'
  <2>0. req[k].at # "none" => req[k].session \in Sessions
    BY DEF ServiceInv, Named
  <2>1. CASE req'[k] = req[k] /\ since[k] \subseteq since'[k]
    BY <1>2, <2>0, <2>1 DEF HistoryInv, Rooted, WasAllowed
  <2>2. CASE req'[k].at = "none"
    BY <2>2 DEF Rooted, WasAllowed
  <2>3. CASE /\ req[k].at = "deleteCR" /\ req'[k].at = "commit" /\ since[k] \subseteq since'[k]
             /\ req'[k].session = req[k].session /\ req'[k].write = req[k].write
    BY <1>2, <2>0, <2>3 DEF HistoryInv, Rooted, WasAllowed
  <2>4. CASE /\ req'[k].session \in Sessions /\ creation[req'[k].session] # "none"
             /\ row[req'[k].session] \in since'[k]
             /\ req'[k].at \in {"deleteCR", "commit"} =>
                  req'[k].write \in VALID_TRANSITIONS[row[req'[k].session]]
    BY <1>2, <2>4 DEF Rooted, WasAllowed
  <2> QED BY <2>1, <2>2, <2>3, <2>4, RequestStep DEF HistoryInv
<1> QED BY <1>1, <1>3 DEF HistoryInv

\* For any number of requests, in any order, also before the creation is answered and when
\* calls fail: who changes a row has found it, during its request, in a state from which
\* VALID_TRANSITIONS allows the change.  Nothing stronger holds of overlapping requests, for
\* the row is not read again before it is overwritten.
THEOREM TableIsChecked == SvcSpec => ChangesWereAllowed
<1>1. SvcInit => HistoryInv
  BY DEF SvcInit, HistoryInv, RowCreated, Rooted, WasAllowed, NoRequest
<1>2. ServiceInv /\ HistoryInv /\ [SvcNext]_svcVars => HistoryInv'
  <2>1. ASSUME HistoryInv, UNCHANGED svcVars PROVE HistoryInv'
    BY <2>1 DEF svcVars, serviceVars, HistoryInv, RowCreated, Rooted, WasAllowed
  <2> QED BY <2>1, HistoryKept
<1>3. ServiceInv /\ HistoryInv /\ [SvcNext]_svcVars =>
        [\A s \in Sessions :
           row[s] \notin {"none", row'[s]} => \E h \in Handlers : MayWrite(h, s)]_svcVars
  <2> SUFFICES ASSUME ServiceInv, HistoryInv, SvcNext, NEW s \in Sessions, row[s] \notin {"none", row'[s]}
               PROVE  \E h \in Handlers : MayWrite(h, s)
    OBVIOUS
  <2>0. SvcTypeOK
    BY DEF ServiceInv
  <2>1. ASSUME NEW r \in Sessions, InsertRow(r)
        PROVE  FALSE
    BY <2>0, <2>1 DEF InsertRow, HistoryInv, RowCreated, SvcTypeOK
  <2>2. ASSUME NEW h \in Handlers, Commit(h)
        PROVE  MayWrite(h, s)
    <3>1. req[h].at = "commit" /\ row' = [row EXCEPT ![req[h].session] = req[h].write]
      BY <2>2 DEF Commit
    <3>2. req[h].session = s /\ row'[s] = req[h].write
      BY <2>0, <3>1 DEF SvcTypeOK
    <3>3. req'[h].at = "none"
      BY <2>0, <2>2, AnswerEnds DEF Commit
    <3> QED BY <3>1, <3>2, <3>3 DEF MayWrite, HistoryInv, WasAllowed
  <2>3. CASE UNCHANGED row
    BY <2>3
  <2> QED BY <2>0, <2>1, <2>2, <2>3 DEF SvcNext, Service, serviceVars, CreateCR, CreateCRFails, GetCR, ListCRs,
             DeleteCR, Get, List, Look, Stop, Update
<1> QED BY <1>1, <1>2, <1>3, ServiceInvariant, PTL DEF SvcSpec, ChangesWereAllowed

-----------------------------------------------------------------------------
(* Answers that say a session is over.                                       *)

\* The session was created, and its CR is not there or says that it is over.
CROver(s) == creation[s] = "done" /\ (~InAPI(cr[s]) \/ Terminal(s))

\* What stands behind the news that s is over: its row, or its CR.  Requests that still look
\* at the CR of a session that was over before they came find it over.
News(s) ==
  /\ row[s] \in TERMINAL_STATES => creation[s] = "done"
  /\ told[s] /\ errors = 0 => row[s] \in TERMINAL_STATES \/ CROver(s)
  /\ \A h \in Handlers : req[h].at # "none" /\ req[h].session = s =>
       /\ creation[s] = "done"
       /\ req[h].at \in {"deleteCR", "commit"} => req[h].write = "failed"
       /\ req[h].at = "getCR" /\ req[h].after /\ errors = 0 => CROver(s)

\* With one operator, a CR that is over or gone stays so once its creation is complete.
LEMMA CROverStays ==
  ASSUME NEW op, Operators = {op}, OperatorInv, ServiceInv, [SvcNext]_svcVars, NEW s \in Sessions, CROver(s)
  PROVE  CROver(s)'
<1>0. SvcTypeOK /\ TypeOK /\ [Next]_vars /\ creation[s] = "done"
  BY OperatorStep DEF ServiceInv, SvcTypeOK, CROver
<1>1. creation'[s] = "done"
  BY <1>0 DEF SvcNext, Service, serviceVars, svcVars, SvcTypeOK, InsertRow, CreateCR, CreateCRFails, GetCR, ListCRs,
              DeleteCR, Commit, Get, List, Look, Stop, Update
<1>2. CASE ~InAPI(cr[s])
  <2>1. CASE APICreate(s)
    <3>1. cr'[s].life = "live" /\ cr[s].life = "none"
      <4>1. cr[s] \in CRs /\ cr'[s] = Created(cr[s]) /\ cr[s].life = "none"
        BY <1>0, <2>1 DEF APICreate, TypeOK
      <4> QED BY <4>1, CRUpdates
    <3>2. CASE World
      BY <1>0, <3>1, <3>2, WorldKillsOnly
    <3>3. CASE Service
      <4>1. PICK r \in Sessions : CreateCR(r) \/ APIDelete(r)
        BY <3>1, <3>3, ServiceVisible DEF vars
      <4>2. CASE r = s
        BY <1>0, <3>1, <4>1, <4>2 DEF CreateCR, APIDelete
      <4>3. CASE r # s
        BY <1>0, <3>1, <4>1, <4>3 DEF CreateCR, APICreate, APIDelete, TypeOK
      <4> QED BY <4>2, <4>3
    <3> QED BY <3>1, <3>2, <3>3 DEF SvcNext, svcVars, operatorVars
  <2>2. CASE ~APICreate(s)
    BY <1>0, <1>1, <1>2, <2>2, GoneStays DEF CROver
  <2> QED BY <2>1, <2>2
<1>3. CASE Terminal(s)
  <2>1. TerminalStays(s)
    BY <1>0, TerminalKept
  <2> QED BY <1>1, <1>3, <2>1 DEF TerminalStays, Terminal, CROver
<1> QED BY <1>2, <1>3 DEF CROver

\* A step that leaves the row of s and its news alone, and of its requests at most adds one
\* that has been told what was told before.
LEMMA NewsFrame ==
  ASSUME NEW s \in Sessions, News(s), CROver(s) => CROver(s)', row'[s] = row[s], creation'[s] = creation[s],
         errors' = 0 => errors = 0,
         told'[s] => told[s],
         \A h \in Handlers : req'[h].at # "none" /\ req'[h].session = s =>
           \/ req'[h] = req[h]
           \/ /\ creation[s] = "done"
              /\ req'[h].at \in {"deleteCR", "commit"} => req'[h].write = "failed"
              /\ req'[h].at = "getCR" => row[s] \notin TERMINAL_STATES /\ req'[h].after = told[s]
  PROVE  News(s)'
<1>1. \A h \in Handlers : req'[h].at # "none" /\ req'[h].session = s =>
        /\ creation'[s] = "done"
        /\ req'[h].at \in {"deleteCR", "commit"} => req'[h].write = "failed"
        /\ req'[h].at = "getCR" /\ req'[h].after /\ errors' = 0 => CROver(s)'
  BY DEF News
<1> QED BY <1>1 DEF News

LEMMA NewsKept ==
  ASSUME Eager = FALSE, "update" \notin Ops, "list" \notin Ops,
         NEW op, Operators = {op}, OperatorInv, ServiceInv, [SvcNext]_svcVars,
         \A h \in Handlers : LooksAtOpen(h) /\ Unlisted(h), NEW r \in Sessions, News(r)
  PROVE  News(r)'
<1>0. /\ SvcTypeOK /\ TypeOK /\ req \in [Handlers -> Requests] /\ (CROver(r) => CROver(r)')
      /\ errors \in Nat /\ MaxErrors \in Nat
  <2>1. CROver(r) => CROver(r)'
    BY CROverStays
  <2> QED BY <2>1, MaxErrorsAssumption DEF ServiceInv, SvcTypeOK
<1>1. ASSUME NEW s \in Sessions, InsertRow(s) \/ CreateCR(s) \/ CreateCRFails(s)
      PROVE  News(r)'
  <2>1. req' = req /\ told' = told /\ (errors' = 0 => errors = 0)
    BY <1>0, <1>1 DEF InsertRow, CreateCR, CreateCRFails, UseError
  <2>2. CASE s # r
    <3>1. row'[r] = row[r] /\ creation'[r] = creation[r]
      BY <1>0, <1>1, <2>2 DEF InsertRow, CreateCR, CreateCRFails, SvcTypeOK
    <3> QED BY <1>0, <2>1, <3>1, NewsFrame
  <2>3. CASE s = r
    <3>1. creation[r] # "done"
      BY <1>1, <2>3 DEF InsertRow, CreateCR, CreateCRFails
    <3>2. /\ row[r] \notin TERMINAL_STATES /\ (told[r] => errors # 0)
          /\ \A h \in Handlers : ~(req[h].at # "none" /\ req[h].session = r)
      BY <3>1 DEF News, CROver
    <3>3. row'[r] \notin TERMINAL_STATES
      BY <1>0, <1>1, <2>3, <3>2 DEF InsertRow, CreateCR, CreateCRFails, SvcTypeOK, TERMINAL_STATES
    <3> QED BY <2>1, <3>2, <3>3 DEF News
  <2> QED BY <2>2, <2>3
<1>2. ASSUME NEW h \in Handlers, GetCR(h)
      PROVE  News(r)'
  <2> DEFINE s == req[h].session
  <2>1. /\ UNCHANGED <<row, creation, cr>> /\ (errors' = 0 => errors = 0 /\ errors' = errors) /\ s \in Sessions
        /\ creation[s] = "done" \/ s # r
    BY <1>0, <1>2 DEF GetCR, UseError, operatorVars, ServiceInv, Named, News
  <2>2. PICK state : Respond(h, s, state)
                     /\ (errors' = errors => state = LiveState(req[h].saw, cr[s]))
    BY <1>0, <1>2 DEF GetCR, UseError
  <2>3. /\ \A k \in Handlers : k # h => req'[k] = req[k]
        /\ req'[h].at = "none"
        /\ told'[r] => told[r] \/ (r = s /\ state \in TERMINAL_STATES)
    BY <1>0, <2>2, AnswerEnds
  <2>4. CASE told'[r] => told[r]
    BY <1>0, <2>1, <2>3, <2>4, NewsFrame
  <2>5. CASE r = s /\ state \in TERMINAL_STATES
    <3>1. errors' = 0 => CROver(r)'
      <4>1. SUFFICES ASSUME errors' = 0 PROVE CROver(r)
        BY <1>0
      <4>2. req[h].saw \notin TERMINAL_STATES /\ cr[s] \in CRs
        BY <1>0, <1>2, <2>1 DEF LooksAtOpen, GetCR, TypeOK
      <4>3. ~InAPI(cr[s]) \/ cr[s].state \in TerminalCRStates
        BY <2>1, <2>2, <2>5, <4>1, <4>2, LiveStateSays
      <4> QED BY <2>1, <2>5, <4>3 DEF CROver, Terminal
    <3> QED BY <1>0, <2>1, <2>3, <3>1 DEF News
  <2> QED BY <2>3, <2>4, <2>5
<1>3. ASSUME NEW h \in Handlers, NEW s \in Sessions, Get(h, s)
      PROVE  News(r)'
  <2>1. UNCHANGED <<row, creation, errors>> /\ creation[s] = "done"
    BY <1>3 DEF Get, Look, Comes
  <2>2. CASE row[s] \in TERMINAL_STATES
    <3>1. Respond(h, s, row[s])
      BY <1>3, <2>2 DEF Get, Look
    <3>2. /\ \A k \in Handlers : k # h => req'[k] = req[k]
          /\ req'[h].at = "none"
          /\ told'[r] => told[r] \/ r = s
      BY <1>0, <3>1, AnswerEnds
    <3> QED BY <1>0, <2>1, <2>2, <3>2 DEF News
  <2>3. CASE row[s] \notin TERMINAL_STATES
    <3>1. Begin(h, s, "getCR", "none") /\ told' = told
      BY <1>3, <2>3 DEF Get, Look
    <3>2. /\ \A k \in Handlers : k # h => req'[k] = req[k]
          /\ req'[h].at = "getCR" /\ req'[h].session = s /\ req'[h].after = told[s]
      BY <1>0, <3>1, RequestHolds
    <3> QED BY <1>0, <2>1, <2>3, <3>1, <3>2, NewsFrame
  <2> QED BY <2>2, <2>3
<1>4. ASSUME NEW h \in Handlers, NEW s \in Sessions, Stop(h, s)
      PROVE  News(r)'
  <2>1. UNCHANGED <<row, creation, told, errors>> /\ creation[s] = "done" /\ Begin(h, s, "deleteCR", "failed")
    BY <1>4 DEF Stop, Comes
  <2>2. /\ \A k \in Handlers : k # h => req'[k] = req[k]
        /\ req'[h].at = "deleteCR" /\ req'[h].session = s /\ req'[h].write = "failed"
    BY <1>0, <2>1, RequestHolds
  <2> QED BY <1>0, <2>1, <2>2, NewsFrame
<1>5. ASSUME NEW h \in Handlers, DeleteCR(h)
      PROVE  News(r)'
  <2>1. UNCHANGED <<row, creation, told>> /\ (errors' = 0 => errors = 0) /\ req[h].at = "deleteCR"
    BY <1>0, <1>5 DEF DeleteCR, UseError
  <2>2. /\ \A k \in Handlers : k # h => req'[k] = req[k]
        /\ req'[h].at = "commit" /\ req'[h].session = req[h].session /\ req'[h].write = req[h].write
    BY <1>0, <1>5, DeleteDecides
  <2>3. req[h].session = r => creation[r] = "done" /\ req[h].write = "failed"
    BY <2>1 DEF News
  <2> QED BY <1>0, <2>1, <2>2, <2>3, NewsFrame
<1>6. ASSUME NEW h \in Handlers, Commit(h)
      PROVE  News(r)'
  <2> DEFINE s == req[h].session
  <2>1. /\ s \in Sessions /\ UNCHANGED <<creation, errors>> /\ req[h].at = "commit"
        /\ row' = [row EXCEPT ![s] = req[h].write] /\ Respond(h, s, req[h].write)
    BY <1>0, <1>6 DEF Commit, ServiceInv, Named
  <2>2. /\ \A k \in Handlers : k # h => req'[k] = req[k]
        /\ req'[h].at = "none"
        /\ told'[r] => told[r] \/ r = s
    BY <1>0, <2>1, AnswerEnds
  <2>3. CASE s # r
    BY <1>0, <2>1, <2>2, <2>3, NewsFrame DEF SvcTypeOK
  <2>4. CASE s = r
    <3>1. creation[r] = "done" /\ req[h].write = "failed"
      BY <2>1, <2>4 DEF News
    <3>2. row'[r] \in TERMINAL_STATES
      BY <1>0, <2>1, <2>4, <3>1 DEF SvcTypeOK, TERMINAL_STATES
    <3> QED BY <1>0, <2>1, <2>2, <3>1, <3>2 DEF News
  <2> QED BY <2>3, <2>4
<1>7. CASE (World /\ UNCHANGED serviceVars) \/ UNCHANGED svcVars
  BY <1>0, <1>7, NewsFrame DEF serviceVars, svcVars
<1>8. CASE Service
  BY <1>1, <1>2, <1>3, <1>4, <1>5, <1>6, <1>8 DEF Service, List, Update, ListCRs, Unlisted
<1> QED BY <1>7, <1>8 DEF SvcNext

\* With one operator, for clients that wait for the answer to a creation, look at one session
\* at a time and set no state by hand: an answer that says a session is over is never taken
\* back by the answer to a later request, however many requests there are at a time.
THEOREM ToldOverIsOver ==
  ASSUME Eager = FALSE, "update" \notin Ops, "list" \notin Ops, NEW op, Operators = {op}
  PROVE  SvcSpec => OverOnceTold
<1> DEFINE Looks == \A h \in Handlers : LooksAtOpen(h) /\ Unlisted(h)
           Inv == \A s \in Sessions : News(s)
<1>1. SvcInit => Looks /\ Inv
  BY DEF SvcInit, LooksAtOpen, Unlisted, NoRequest, News, TERMINAL_STATES
<1>2. ServiceInv /\ Looks /\ [SvcNext]_svcVars => Looks'
  BY LooksKept
<1>3. OperatorInv /\ ServiceInv /\ Looks /\ Inv /\ [SvcNext]_svcVars => Inv'
  BY NewsKept
<1>4. ServiceInv /\ Looks /\ Inv /\ [SvcNext]_svcVars =>
        [\A h \in Handlers :
           AnswersLive(h) /\ req[h].after /\ errors' = 0 => req'[h].answer \in TERMINAL_STATES]_svcVars
  <2> SUFFICES ASSUME ServiceInv, Looks, Inv, SvcNext, NEW h \in Handlers,
                      AnswersLive(h), req[h].after, errors' = 0
               PROVE  req'[h].answer \in TERMINAL_STATES
    OBVIOUS
  <2> DEFINE s == req[h].session
  <2>0. SvcTypeOK /\ TypeOK /\ errors \in Nat
    BY MaxErrorsAssumption DEF ServiceInv, SvcTypeOK
  <2>1. GetCR(h)
    BY WhoAnswers DEF Unlisted, ListCRs
  <2>2. s \in Sessions /\ cr[s] \in CRs /\ req[h].saw \notin TERMINAL_STATES /\ req[h].at = "getCR"
    BY <2>0, <2>1 DEF GetCR, ServiceInv, Named, TypeOK, LooksAtOpen
  <2>3. Respond(h, s, LiveState(req[h].saw, cr[s])) /\ errors = 0
    BY <2>0, <2>1 DEF GetCR, UseError
  <2>4. ~InAPI(cr[s]) \/ cr[s].state \in TerminalCRStates
    BY <2>2, <2>3 DEF News, CROver, Terminal
  <2>5. LiveState(req[h].saw, cr[s]) \in TERMINAL_STATES
    BY <2>2, <2>4, LiveStateSays
  <2> QED BY <2>0, <2>3, <2>5, AnswerEnds
<1>5. Spec => []OperatorInv
  BY OperatorInvariant
<1> QED BY <1>1, <1>2, <1>3, <1>4, <1>5, ServiceInvariant, ServiceUsesOperator, PTL
    DEF SvcSpec, OverOnceTold, OperatorSpec

=============================================================================
