---------------------------- MODULE SessionService ----------------------------
(***************************************************************************)
(* The API's side of a session, services/sessions.py, on top of the operator: *)
(* the database row, the handlers that create, read, list, stop and update a  *)
(* session, and the CR they share with the operator.                          *)
(*                                                                         *)
(* Handlers run in several replicas of the API and in the CLI, each with a     *)
(* database session of its own: what one has read may be old when it writes.  *)
(* A step of a handler is one database transaction or one Kubernetes call.    *)
(* A handler whose process dies takes no further step.                        *)
(***************************************************************************)
EXTENDS SessionOperator

CONSTANTS
  Handlers,   \* requests in progress at the same time
  Ops,        \* what they do: "get", "list", "stop", "update"
  Eager,      \* clients use a session's id before its creation was answered
  MaxErrors   \* bound: Kubernetes calls of the API that fail

ASSUME EagerAssumption == Eager \in BOOLEAN
ASSUME MaxErrorsAssumption == MaxErrors \in Nat

VARIABLES
  row,       \* row[s]: the state column of the session's row, or "none"
  creation,  \* creation[s]: how far create_session is
  req,       \* req[h]: what handler h is doing
  told,      \* told[s]: an answer has said that the session is over
  since,     \* since[h]: what the row has said since h's request came (history)
  errors     \* Kubernetes calls that have failed

operatorVars == <<cr, pod, cache, queued, pc, seen, target, faults>>
serviceVars == <<row, creation, req, told, since, errors>>
svcVars == <<operatorVars, serviceVars>>

\* at: the next step; saw: the row's state as it was read; write: the state to
\* be written; after: the session had been reported over when the request came;
\* answer: the state the last request was answered with.
NoRequest ==
  [at |-> "none", session |-> "none", saw |-> "none", write |-> "none",
   after |-> FALSE, answer |-> "none"]

MaybeState == SessionState \cup {"none"}

Requests ==
  [at : {"none", "getCR", "listCRs", "deleteCR", "commit"}, session : Sessions \cup {"none"},
   saw : MaybeState, write : MaybeState, after : BOOLEAN, answer : MaybeState]

SvcTypeOK ==
  /\ TypeOK
  /\ row \in [Sessions -> MaybeState]
  /\ creation \in [Sessions -> {"none", "inserted", "done"}]
  /\ req \in [Handlers -> Requests]
  /\ told \in [Sessions -> BOOLEAN]
  /\ since \in [Handlers -> SUBSET MaybeState]
  /\ errors \in 0 .. MaxErrors

SvcInit ==
  /\ Init
  /\ row = [s \in Sessions |-> "none"]
  /\ creation = [s \in Sessions |-> "none"]
  /\ req = [h \in Handlers |-> NoRequest]
  /\ told = [s \in Sessions |-> FALSE]
  /\ since = [h \in Handlers |-> {}]
  /\ errors = 0

-----------------------------------------------------------------------------
(* Building blocks.                                                         *)

UseError ==
  /\ errors < MaxErrors
  /\ errors' = errors + 1

\* A request of an id that exists: found in a list, or answered by its creation.
Comes(h, s) ==
  /\ req[h].at = "none"
  /\ row[s] # "none"
  /\ Eager \/ creation[s] = "done"

Request(s, step, write) ==
  [at |-> step, session |-> s, saw |-> row[s], write |-> write, after |-> told[s],
   answer |-> "none"]

Begin(h, s, step, write) ==
  /\ req' = [req EXCEPT ![h] = Request(s, step, write)]
  /\ since' = [since EXCEPT ![h] = {row[s]}]

Answered(s, state) ==
  [at |-> "none", session |-> s, saw |-> "none", write |-> "none", after |-> FALSE,
   answer |-> state]

Deciding(q) == [q EXCEPT !.at = "commit"]

\* The response: a state, which may be the news that the session is over.
Respond(h, s, state) ==
  /\ req' = [req EXCEPT ![h] = Answered(s, state)]
  /\ told' = [told EXCEPT ![s] = @ \/ state \in TERMINAL_STATES]

\* The request of h is over, and its history with it.
Forget(h) == since' = [since EXCEPT ![h] = {}]

\* The row of s changes while the other requests are in progress.
Remember(h, s, state) ==
  since' = [k \in Handlers |->
              IF k = h THEN {}
              ELSE IF req[k].at # "none" /\ req[k].session = s THEN since[k] \cup {state}
              ELSE since[k]]

-----------------------------------------------------------------------------
(* create_session.                                                          *)

\* The row is committed before the CR exists.
InsertRow(s) ==
  /\ creation[s] = "none"
  /\ creation' = [creation EXCEPT ![s] = "inserted"]
  /\ row' = [row EXCEPT ![s] = "pending"]
  /\ UNCHANGED <<operatorVars, req, told, since, errors>>

CreateCR(s) ==
  /\ creation[s] = "inserted"
  /\ APICreate(s)
  /\ creation' = [creation EXCEPT ![s] = "done"]
  /\ UNCHANGED <<row, req, told, since, errors>>

\* The error is kept in the row's error_message, and the answer is still 201.
CreateCRFails(s) ==
  /\ creation[s] = "inserted"
  /\ UseError
  /\ creation' = [creation EXCEPT ![s] = "done"]
  /\ UNCHANGED <<operatorVars, row, req, told, since>>

-----------------------------------------------------------------------------
(* get_session and list_sessions: the row, enriched with the CR's status.    *)

\* Mutated form: a session without a CR keeps the state of its row.
LiveState_KeepRow(saw, c) ==
  IF ~InAPI(c) \/ c.state = NoStatus THEN saw ELSE CR_STATE_TO_DB_STATE[c.state]

\* Mutated form: a CR without a status counts as missing.
LiveState_EmptyIsMissing(saw, c) ==
  IF ~InAPI(c) \/ c.state = NoStatus THEN "failed" ELSE CR_STATE_TO_DB_STATE[c.state]

\* get_session: a missing CR means failed, an empty status means what the row says.
LiveState(saw, c) ==
  CASE ~InAPI(c)                        -> "failed"
    [] InAPI(c) /\ c.state = NoStatus   -> saw
    [] OTHER                            -> CR_STATE_TO_DB_STATE[c.state]

\* _enrich_sessions_with_live_state: `if status` is also false of an empty status.
ListedState(c) ==
  IF InAPI(c) /\ c.state # NoStatus THEN CR_STATE_TO_DB_STATE[c.state] ELSE "failed"

\* The row of a session that is over is the answer, the CR is not looked at.
Look(h, s, step) ==
  /\ Comes(h, s)
  /\ IF row[s] \in TERMINAL_STATES
       THEN Respond(h, s, row[s]) /\ UNCHANGED since
       ELSE Begin(h, s, step, "none") /\ UNCHANGED told
  /\ UNCHANGED <<operatorVars, row, creation, errors>>

Get(h, s) == "get" \in Ops /\ Look(h, s, "getCR")

List(h, s) == "list" \in Ops /\ Look(h, s, "listCRs")

\* Every exception of the call counts as a missing CR.
GetCR(h) ==
  LET s == req[h].session IN
  /\ req[h].at = "getCR"
  /\ \/ Respond(h, s, LiveState(req[h].saw, cr[s])) /\ UNCHANGED errors
     \/ Respond(h, s, "failed") /\ UseError
  /\ Forget(h)
  /\ UNCHANGED <<operatorVars, row, creation>>

\* An exception of the call leaves the rows as they are.
ListCRs(h) ==
  LET s == req[h].session IN
  /\ req[h].at = "listCRs"
  /\ \/ Respond(h, s, ListedState(cr[s])) /\ UNCHANGED errors
     \/ Respond(h, s, req[h].saw) /\ UseError
  /\ Forget(h)
  /\ UNCHANGED <<operatorVars, row, creation>>

-----------------------------------------------------------------------------
(* stop_session and update_session_state.                                    *)

\* A session that is over answers 400, and nothing happens.
Stop(h, s) ==
  /\ "stop" \in Ops
  /\ Comes(h, s)
  /\ row[s] \notin TERMINAL_STATES
  /\ Begin(h, s, "deleteCR", "failed")
  /\ UNCHANGED <<operatorVars, row, creation, told, errors>>

\* Mutated form: the object is removed whatever its finalizers say.
DeleteCR_Force(h) ==
  /\ req[h].at = "deleteCR"
  /\ cr' = [cr EXCEPT ![req[h].session] = GoneCR]
  /\ UNCHANGED <<pod, cache, queued, pc, seen, target, faults>>
  /\ req' = [req EXCEPT ![h] = Deciding(@)]
  /\ UNCHANGED <<row, creation, told, since, errors>>

\* Mutated form: a CR without a status is not deleted.
DeleteCR_OnlyPickedUp(h) ==
  LET s == req[h].session IN
  /\ req[h].at = "deleteCR"
  /\ IF cr[s].state # NoStatus /\ cr[s].life = "live"
       THEN APIDelete(s)
       ELSE UNCHANGED operatorVars
  /\ req' = [req EXCEPT ![h] = Deciding(@)]
  /\ UNCHANGED <<row, creation, told, since, errors>>

\* A missing CR (404), a CR that is being deleted and a call that fails are all
\* the same to stop_session: it goes on.
DeleteCR(h) ==
  LET s == req[h].session IN
  /\ req[h].at = "deleteCR"
  /\ \/ APIDelete(s) /\ UNCHANGED errors
     \/ cr[s].life # "live" /\ UNCHANGED <<operatorVars, errors>>
     \/ UseError /\ UNCHANGED operatorVars
  /\ req' = [req EXCEPT ![h] = Deciding(@)]
  /\ UNCHANGED <<row, creation, told, since>>

\* Mutated form: only a session that is over cannot be updated.
Update_AnyState(h, s, new) ==
  /\ "update" \in Ops
  /\ Comes(h, s)
  /\ row[s] \notin TERMINAL_STATES
  /\ Begin(h, s, "commit", new)
  /\ UNCHANGED <<operatorVars, row, creation, told, errors>>

\* A state the table does not allow answers 409, and nothing happens.
Update(h, s, new) ==
  /\ "update" \in Ops
  /\ Comes(h, s)
  /\ new \in VALID_TRANSITIONS[row[s]]
  /\ Begin(h, s, "commit", new)
  /\ UNCHANGED <<operatorVars, row, creation, told, errors>>

\* The row is overwritten, whatever it says by now.
Commit(h) ==
  LET s == req[h].session IN
  /\ req[h].at = "commit"
  /\ row' = [row EXCEPT ![s] = req[h].write]
  /\ Respond(h, s, req[h].write)
  /\ Remember(h, s, req[h].write)
  /\ UNCHANGED <<operatorVars, creation, errors>>

-----------------------------------------------------------------------------
(* The specification.                                                       *)

Service ==
  \/ \E s \in Sessions : InsertRow(s) \/ CreateCR(s) \/ CreateCRFails(s)
  \/ \E h \in Handlers : GetCR(h) \/ ListCRs(h) \/ DeleteCR(h) \/ Commit(h)
  \/ \E h \in Handlers, s \in Sessions :
       \/ Get(h, s) \/ List(h, s) \/ Stop(h, s)
       \/ \E new \in SessionState : Update(h, s, new)

\* The operator and the cluster, which know nothing of the service.
World ==
  \/ \E s \in Sessions : ClusterStep(s)
  \/ \E o \in Operators : Restart(o)
  \/ \E o \in Operators, s \in Sessions :
       RuntimeStep(o, s) \/ ReconcileStep(o, s) \/ Faulty(o, s)

SvcNext == Service \/ (World /\ UNCHANGED serviceVars)

SvcSpec == SvcInit /\ [][SvcNext]_svcVars

\* Clients and handlers promise nothing: a handler's process may die.
SvcFairSpec == SvcSpec /\ OperatorFairness /\ ClusterFairness

-----------------------------------------------------------------------------
(* Properties.                                                              *)

\* The service is one of the environments of SessionOperator: it creates a CR
\* once and deletes it through the API server, so what holds of the operator
\* holds beneath the service.
OperatorSpec == Spec

\* As long as no call of the API has failed: no session is over in the database
\* while its CR is live and untouched, for stop_session would refuse to delete it.
StoppedIsReleased ==
  \A s \in Sessions :
    row[s] \in TERMINAL_STATES /\ errors = 0 => cr[s].life # "live"

\* And the operator then releases it, also when its own calls fail and when it
\* restarts: no CR and no pod remain.
StopReleases ==
  \A s \in Sessions :
    row[s] \in TERMINAL_STATES /\ errors = 0 ~> cr[s].life = "gone" /\ ~Exists(pod[s])

\* The step in which h answers with what it read of the CR.
AnswersLive(h) == req[h].at \in {"getCR", "listCRs"} /\ req'[h].at = "none"

\* As long as no call of the API has failed: once an answer has said that a
\* session is over, so does every answer to a request that comes later, although
\* the row may still say pending and the CR disappears in between.
OverOnceTold ==
  [][\A h \in Handlers :
       AnswersLive(h) /\ req[h].after /\ errors' = 0 => req'[h].answer \in TERMINAL_STATES]_svcVars

\* The CR of h's session does not exist, or says that the session failed.
FailedOrMissing(h) ==
  LET c == cr[req[h].session] IN ~InAPI(c) \/ c.state = "Failed"

\* The step in which h, a get_session that has read the CR, reports the session failed.
ReportsFailed(h) ==
  req[h].at = "getCR" /\ req'[h].at = "none" /\ req'[h].answer = "failed"

\* get_session only reports failed when the CR says so or does not exist, unless
\* the call that reads the CR failed.
FailedMeansFailed ==
  [][\A h \in Handlers :
       ReportsFailed(h) /\ errors' = errors => FailedOrMissing(h)]_svcVars

\* h ends in this step, and had found the row of s in a state from which the
\* table allows the one it leaves behind.
MayWrite(h, s) ==
  /\ req[h].at = "commit" /\ req'[h].at = "none" /\ req[h].session = s
  /\ \E was \in since[h] : row'[s] \in VALID_TRANSITIONS[was]

\* Every change of a row is made by a request during which the row was in a state
\* that allows the change, also when requests overlap.  So a request that overlaps
\* no other follows VALID_TRANSITIONS, and a session that is over can only be
\* reopened by a request that came before it was over.
ChangesWereAllowed ==
  [][\A s \in Sessions :
       row[s] \notin {"none", row'[s]} => \E h \in Handlers : MayWrite(h, s)]_svcVars

-----------------------------------------------------------------------------
(* What a comment says of the service, and it does not do.                    *)

\* "Valid state transitions enforced by the service layer": whatever the row
\* says when it is overwritten, the table allows the change.
RowMovesForward ==
  [][\A s \in Sessions :
       row[s] \notin {"none", row'[s]} => row'[s] \in VALID_TRANSITIONS[row[s]]]_svcVars

=============================================================================
