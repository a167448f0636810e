# mob: a TLA+ model of its sessions and its registry

`mob` runs AI agents as Kubernetes pods. A user creates a *session* of an agent
through the API or the CLI; the API writes a row and a `Session` custom resource
(CR); a Rust operator turns the CR into a pod and reports what becomes of it; the
agent in the pod answers messages and annotates its own pod with its state. Around it
are a registry of organizations, domains, groups, users, agents, skills and tasks in a
database, the migration of that database, and a configuration file that says which
database or server a command talks to. This directory models these in TLA+,
model-checks them with TLC and proves their main safety properties with TLAPS.

## The system and what is modelled

| component | code | state | operations | module |
|---|---|---|---|---|
| Session operator | `operator/src` | CR and its status, finalizer, pod; cached CR, queue, running reconciles | apply, cleanup, status updates, retries, restart | `SessionOperator` |
| Agent server and adapters | `src/mob/agent/entrypoint.py`, `agent/adapters`, `agent/k8s.py` | `_state`, `_lock`, `_message_history`, annotation | lifespan, `POST /message`, annotation patches | `AgentServer` |
| Session service | `src/mob/services/sessions.py` | the `sessions` row, requests in progress | create, get, list, stop, update state | `SessionService` |
| Message path | `services/sessions.py: send_message`, `webhook/gateway.py` | attempts in progress | forward a message, relay or drop the answer | `Messaging` |
| Registry | `services/{organizations,domains,groups,users,agents,skills,tasks}.py`, `create_session`, `models`, `api/routes`, `cli/local_backend.py`, `agent apply`, `skill import` | rows, their keys and references; skills ConfigMaps; requests in progress | create, update, delete, add and remove a member, apply, import | `Registry` |
| Migration | `database.py`, `cli/commands/migrate_cmd.py` | tables, columns and rows; the open transaction; runs in progress | rename, create, add, backfill, commit | `Migration` |
| Environments | `config.py`, `cli/commands/{env,init,config}_cmd.py` | `~/.mob/config.json`, commands in progress | init, env set, env edit, env delete, config set | `Environments` |
| Resolver, HTTP client, output, schemas, agent tools, legacy pod manager, deployment | `cli`, `schemas.py`, `agent/integrations`, `k8s/manager.py`, `deploy`, `infra`, `scripts` | none | parsing, printing, calls of external services | not modelled, see below |

How they interact:

- The service and the operator share the CR. The service only creates and deletes
  it and reads its status; only the operator writes its status and its finalizer.
- The operator and the agent share the pod. The operator creates and deletes it;
  the agent patches the annotation `mob.io/agent-state`; Kubernetes moves its phase.
- The message path and the agent share nothing but the request: a client that gives up
  does not stop the handler, and the gateway tells nobody what became of a message.
- The row and the CR are never written in one transaction. `get` and `list`
  combine them for an answer and write nothing back.

- The handlers of the registry share the database and nothing else: an API replica and
  a local command may run the same service at the same time, in different processes.
- `create_session` belongs to both: `SessionService` models its row and its CR against
  the operator, `Registry` its row, its ConfigMap and its agent against other requests.
- Every local command and every API replica runs the migration before anything else.
- Every command reads the configuration file, and those that change it rewrite it.

What is hard: the operator acts on a cached copy of the CR that lags behind its
own writes; it reads a pod and writes a status in two calls; calls fail, some
errors are swallowed; the process restarts, and two overlap in a rolling update.
Handlers of the service read a row, call Kubernetes and write the row, with others
in between. The agent's patches run in threads and may land out of order. Answers come after the client
has given up, and a text is sent again after a 409. In the registry a key is looked up
and then inserted; a deletion cascades as far as the ORM has read, and as far as the database knows (Postgres
enforces foreign keys, SQLite none), while another request
refers to what is deleted; and a Postgres that was upgraded knows less, for a column that
is added to an existing table gets no foreign key. Two processes migrate one database, one dies between a column
and its backfill, another inserts a row there. Two commands rewrite one file.
`PROJECT.json` lists these hazards at their lines, with the properties about them.

## Modules

- **`SessionStates`** — the vocabulary: the states of a CR, a row and a pod, the
  tables `VALID_TRANSITIONS` and `CR_STATE_TO_DB_STATE`, and `DeriveState`, which is
  `derive_state_from_pod`.
- **`SessionOperator`** — the controller. A reconcile is a sequence of Kubernetes
  calls and each call is one action: `pc[o][s]` is the call operator `o` makes next
  for session `s`, `seen` the state the reconcile branched on, `target` the status it
  is about to write. `cr` and `pod` are the objects in the API server, `cache` the
  reflector's copy, `queued` the scheduler. `FirstStep` is the finalizer wrapper and
  the `match` of `reconcile_apply`; `ApplyPod`, `GetPod`, `SetStatus`, `TerminalGet`,
  `TerminalDelete` are its arms; `CleanupGet`, `CleanupDelete`, `RemoveFinalizer` are
  `reconcile_cleanup` and what follows it. `FailedCall` is a call followed by `?`,
  `SwallowedError` one under `if let Ok` or `let _ =`. The cluster, the agent and the
  API are actions of the environment.
- **`SessionContract`** — what the operator promises, without caches, calls or
  finalizers: an agent is started only while its session is open, a session that is
  over stays over, a deletion ends with the session released and its agent gone.
- **`SessionOperatorInv`** — the inductive invariants `GuardInv` and `OperatorInv`.
- **`AgentServer`** — the coroutines of the agent between two awaits, the lock, the
  history, and one annotation patch in flight per request and for the server. `program`
  says what the pod runs: `entrypoint.py`, whose patches run in threads and may overlap,
  or one of the two adapters, which are the same machine without a history and patch from
  the event loop itself, so that nothing else runs until the patch is done (`Blocked`).
- **`Messaging`** — EXTENDS `AgentServer`: senders with texts, each attempt a request of
  its own. `Locate` is the check of the CR's status and the lookup of the pod, `Post` the
  request, `Hear`, `TimeOut`, `PostFails` and `Broken` the ways it ends. A user repeats a text
  after a 409 and goes on after any other answer; the gateway takes the texts of a
  notification in turn and never repeats one.
- **`SessionService`** — EXTENDS `SessionOperator`: the row, the three steps of
  `create_session`, and handlers that run concurrently, one step per database
  transaction or Kubernetes call. Its next-state relation is the service's steps
  plus the operator's, in place of the operator's free environment. `told` and `since` are
  history variables: that an answer has said a session is over, and what the row has said
  during each request in progress. `RowMovesForward` is what a comment says of the service, and
  it does not do.
- **`Registry`** — the rows of all tables in one set `db`: a row is an id, a key and the
  ids its foreign keys hold. `Relationships` are the cascades of the ORM, `References`
  the foreign keys, `Cascades` those with `ON DELETE CASCADE`; `Tree` follows them.
  `foreignKeys` are those that the database at hand enforces: all in a Postgres that
  `create_all` has made, none in SQLite, and some in an upgraded Postgres, since
  `_add_missing_columns` adds a column with its type only (`database.py:79`). `Refused` and
  `Cascaded` go by them. A request is two steps at
  least: `CreateX`, `UpdateX`, `DeleteX` are what a handler does up to its
  transaction (`Comes` puts its decision into `req[h]`), `CommitInsert`, `CommitUpdate`,
  `CommitUpdateAgent`, `CommitDelete` the transaction. `MakeConfigMap` and `MakeCR`
  are the rest of `create_session`. `AgentApply` and `SkillImport` list first and send a
  second request (`Send`). `OrganizationRequests` and the others are the routes, `Next`
  the dispatch of the local backend.
- **`Migration`** — one table with a legacy name, its columns and rows. `disk` is what is
  committed, `pending` what the transaction of `writer` has made of it; `Statement` is one
  SQL statement in either dialect. `Begin` to `Commit` are the steps of `init_db` and
  `migrate_db`; `CutOff` is an error or a death, `Insert` the request that follows.
- **`Environments`** — the file, and commands that `Load`, check and decide what to save;
  `Open` and `Write` are the two halves of `write_text`. `acked` remembers what the
  commands that ended have said they did.
- **`MCSessionOperator`**, **`MCAgentServer`**, **`MCMessaging`**, **`MCSessionService`**,
  **`MCRegistry`**, **`MCMigration`**, **`MCEnvironments`** — the modules TLC runs. The first also states what a document of the repository says
  and the code does not do.
- **`SessionOperatorProofs`**, **`SessionOverProofs`**, **`SessionServiceProofs`**,
  **`AgentServerProofs`**, **`MessagingProofs`**, **`RegistryProofs`**, **`MigrationProofs`**,
  **`EnvironmentsProofs`** — the theorems.

Operators named `X_Y`, marked "Mutated form", are plausible bugs in definition `X`.
No specification uses them: put in the place of `X` they break the property they
are listed with in `PROJECT.json`, which shows that the property depends on the code.

## What the models leave out

- **Time.** Requeues (15 s, 60 s), timeouts and grace periods are steps that may
  happen at any time; fairness says which must happen at last.
- **The watch** of the operator jumps to the current CR. Intermediate versions that
  it would also deliver are reached by letting it run earlier; a reconcile always sees
  some version between the last one it saw and the current one.
- **The manifest.** Of the pod, its phase, readiness, annotation and deletion
  timestamp are kept; of the status, the state and whether it names the pod. The
  error message of a status is written exactly when the pod's name is not.
- **The kubelet reports a container's exit after the last patch of its process has
  been handled**: no annotation lands on a pod in phase Succeeded or Failed.
- **The configuration without Kubernetes** (`custom_api` is `None`): `get` and `list`
  then answer with the row and `stop` only writes it.
- **`list_sessions`** is modelled for one session of its list: the rows and the CRs
  are each read at once, and sessions do not depend on each other.
- **A request reaches the handler in the step that sends it.** The agent's event loop is
  never so late that a request is accepted after its client has given up.
- **The status a message is checked against** may be anything: the operator writes it
  whenever it likes, so both outcomes of the check are possible in every state.
- **Bearer tokens, signatures and the replies to Telegram and WhatsApp** change no state of
  the system.
- **Names.** A CR's name is the first 8 hex digits of the session's id; the model
  takes them as distinct (a hazard in `PROJECT.json`).
- **`refresh` after `commit`** is part of the commit's step.
- A handler or an API process that dies takes no further step; nothing in the
  service is fair, so every safety run includes this.
- **Registry: one step reads.** What a handler reads before it writes is one step, which
  is what it sees if the database is not changed between two of its selects. Its
  transaction is another step, and `create_session` goes on in steps of its own.
- **Registry: columns** that are neither keys nor references (names, prompts, limits,
  environment variables) and the requests that only read. Keys are sequences of labels,
  so that a domain's identifier is its organization's followed by its suffix and two
  different pairs may make the same one. The ids of a request are those of rows there have been.
- **Registry: the tables of sessions and tasks** are only inserted into, as their other
  operations are those of `SessionService`; nothing deletes a task or a session but its agent.
- **Migration: one table.** The others go through the same statements, before or after, in
  the same transaction or none. The order of the columns is left open. Types and constraints
  of columns are left out: a column that is added has no UNIQUE and no FOREIGN KEY constraint
  and stays nullable in an upgraded database. `Registry` has databases that lack foreign keys,
  but not the references that a backfill makes up: `'agents-' || substr(id, 1, 8)` in a
  required reference column is the id of no row, and `SeedAssumption` excludes it. It has
  no databases that lack a UNIQUE constraint either.
- **Environments: values.** The fields of an environment hold values that are not looked
  into, and the prompts may give any. `config set` of keys other than `env` and
  `environments.<name>.<field>`, or of JSON that is no string, is left out.

## Runs

Passing runs:

| run | configuration | what it shows |
|---|---|---|
| `operator` | 1 session, 1 operator, all annotations, 2 faults (36 141 states) | `TypeOK`; a pod of a live CR is guarded by the finalizer (`FinalizerGuardsPod`); no pod is left by a cleanup without failed calls (`NoOrphan`); Idle and Busy are only reported of a pod that started (`ActiveMeansStarted`); a terminal status is never reopened (`TerminalStaysTerminal`); no pod is created late (`NoLateCreate`); liveness: `Released`, `PickedUp`, `StatusConverges`, `LostPodEndsSession`, `TerminalPodRemoved`; the operator implements `SessionContract` (`ContractSpec`) |
| `agent` | 3 requests, 1 refused patch, both programs (38 509 states) | one message at a time although the lock is released early (`OneAtATime`); the history is the answered messages, each once (`HistoryIsAnswers`); after a clean exit the pod says finished (`ExitSaysFinished`), for good (`FinishedIsLastWord`); the pod of an adapter tells its state (`AdapterTellsState`; that of `entrypoint.py` need not, see below); every request is answered (`RequestsAnswered`); busy ends (`BusyEnds`) |
| `messaging` | a user with 1 text, a notification of 2, 3 requests (242 967 states) | what one sender says is in the conversation in order and not twice, although answers come late and texts are repeated (`InOrderOnce`); a text answered 200 stays in it (`AnsweredIsRemembered`); every attempt is answered even if the agent hangs or dies (`SendersAnswered`) |
| `service` | 2 handlers that get and stop, 1 operator fault (332 464 states) | a session that is over in the database has no live CR (`StoppedIsReleased`) and is released at last, also when a call of the operator fails or it restarts (`StopReleases`); answers never revive a session (`OverOnceTold`) and say failed only of a missing or failed CR (`FailedMeansFailed`); the service is an environment of the operator (`OperatorSpec`) |
| `service_wide` | all operations, 3 handlers, 1 failed call of the service, also on an id whose creation is not complete; no operator, which never touches a row (1 360 449 states) | whoever changes a row ends a request during which the row was in a state from which `VALID_TRANSITIONS` allows the change (`ChangesWereAllowed`) |
| `registry` | 3 requests of every kind, 2 at a time, on an organization in use, in Postgres, in a Postgres whose sessions have got their reference columns by an upgrade, and in SQLite (689 999 states) | where requests do not overlap, no row refers to one that is gone along the references that are checked and cascaded (`CheckedReferencesLive`), and `agent apply` takes effect once (`ApplyTakesEffect`); whether they do or not, a domain has its group (`DomainHasGroup`) and no session mounts the skills of another (`OwnSkills`) |
| `migration` | 3 processes, 6 runs, 2 required columns and 1 other to add, both databases (86 325 states) | who is done finds every column (`DoneMeansMigrated`); a required column is empty only where its backfill was cut off, in SQLite (`NullsExplained`); nothing given is lost (`RowsSurvive`) |
| `environments` | 4 commands, 2 at a time, on 2 environments (895 105 states) | the active environment is configured, even if commands overwrite each other's changes (`ActiveConfigured`); commands that do not overlap lose nothing (`AcknowledgedKept`); what makes the file unreadable (`UnreadableExplained`) |

Runs in which the code does not do what the repository says (`findings`):

| run | what TLC finds |
|---|---|
| `operator_crash` | a crashed agent leaves `idle` or `busy` behind; the annotation outranks the phase, so the session is never failed |
| `operator_overlap` | two operators during a rolling update: a late write reopens a terminal session |
| `service_stop_race` | a stop before the CR is created: the row is failed, the CR is created and runs, a second stop is refused |
| `service_overlap` | two updates that overlap: the second overwrites a row the first has ended, and moves it from failed to starting, "enforced by the service layer" (`sessions.py:21`) or not |

Other disagreements were met while modelling and have no run. They are the reason
why the properties about them are stated as they are:

- The idle patch of one request of `entrypoint.py` may land after the busy patch of the next
  (`k8s.py:57`), against `docs/agent-template-contract.md:83`: hence `AdapterTellsState`
  is about the adapters.
- `list_sessions` takes the missing status of a CR that the operator has not looked at yet
  for a missing CR and reports the session failed (`sessions.py:115`): hence
  `FailedMeansFailed` is about `get_session`.
- A call of `get_session` that fails is answered with failed as if the CR were missing
  (`sessions.py:364`, against the docstring at line 349): hence `FailedMeansFailed` leaves out
  the answer of that very call.
- A delete that fails is logged and the row becomes failed all the same (`sessions.py:438`), and a
  second stop is refused: hence `StoppedIsReleased` says "as long as no call has failed".
- An `agent apply` that overlaps another request may make a second agent of the name, against
  `docs/plans/2026-03-27-005-feat-yaml-agent-creation-plan.md:87`: hence `ApplyTakesEffect` is
  about requests that do not overlap.

`RowMovesForward`, which `service_overlap` refutes, is what one would like of `VALID_TRANSITIONS`;
`ChangesWereAllowed` is what holds: the table allows every change from *some* state the row had
while the request was in progress. So a request that overlaps no other follows the
table, and a session that is over is only reopened by a request that came before it was over.

`CheckedReferencesLive` fails in SQLite without "as long as requests have not overlapped": of
two requests, one deletes the row the other has just looked up. `DomainHasGroup` needs that
a database which enforces the reference of groups to their organization enforces that of domains
too (`GroupsGoAlone`): else the organization's groups go with it, and a domain made meanwhile
stays. The references that are not
among `Checked` may name a row that is gone, where the database does not enforce them, also one
request at a time: those
of agents to skills and of tasks to agents stay when the row is deleted, and a group or an agent
is created in an organization or a domain that nobody looks up. Deleting an agent
leaves the CRs of its sessions running without a row; no property forbids it. A file that a save has left
unreadable stays so: every command, `init` included, loads it first.

**Bounds.** Sessions only meet in the operator's concurrency limit and in the table
of rows, so one session already has all the interleavings of one CR, its pod, its
row and its handlers. Two faults are enough for a failure during the recovery
from a failure. Three requests let one be processed, one wait for the lock and one
be refused. A user and a notification compete
for the agent; with three requests the user can be refused and try again while the
notification goes on, and either can give up on a request the agent still answers.
Two handlers are enough for every read that is old when it is used; `service_wide` has a
third, so that a row can change twice between a read and a write.
In `registry` everything has been made once (`MCSeed`), so that the first request may already
delete, rename or refer to it; with three requests a row is read, deleted by another request,
and made again or referred to by the third. Identifiers and suffixes are chosen such that two organizations
can make one domain identifier: `a-b-default` is the default domain of `a-b`, and the domain
`b-default` of `a`. In `migration`
one process can be cut off between a column and its backfill, another be about to add what
it has added, and a third insert. In `environments` four commands configure two
environments, switch to one and delete it, the last two at a time.
`Eager` says whether a client uses an id before `create_session` has answered, which
it can learn from a list; `StoppedIsReleased` needs it to be false, and
`service_stop_race` shows why. `CHECK_DEADLOCK FALSE` is set because a session that
was deleted, a server that has exited, and requests that have all been answered are the end of the story.

**Fairness.** Of the operator: `Watch` and the steps of a running reconcile are weakly
fair (the runtime polls them and Kubernetes answers), `StartReconcile` strongly, because a
queued request is disabled whenever the two slots are taken and kube-rs serves its
queue in order. Of the cluster: the garbage collector and the removal of a terminating pod.
Nothing else is fair: not the resync of the watch, the agent, the readiness probe,
the users, nor any fault. `PickedUp` and the others therefore do not rely on a
lucky resync. Of the agent: a coroutine that can run runs, `LLM_TIMEOUT` ends every
call, Kubernetes answers every patch. Of the message path:
an attempt goes on, and its client times out (120 s in `_get_http_client`, 30 s in the gateway);
nothing is assumed of the agent, so `SendersAnswered` holds when it never answers. Handlers of
the service are not fair. `Registry`, `Migration` and `Environments` state no liveness: a handler or a command may
die, and nothing in the code would take up what it left.

## Proofs

All proofs are for every value of the constants: any set of sessions, messages, senders,
rows, names, processes and environments, any `Concurrency`, `AgentStates` and bounds.

- `TypeCorrect` (`SessionOperatorProofs`): `TypeOK`.
- `FinalizerGuards`: `FinalizerGuardsPod`, for **any number of operators**. It is not
  inductive: `ApplyPod` creates the pod on the word of a cached copy. `GuardInv` adds that
  a cached finalizer, or a reconcile at `applyPod`, of a live CR means the CR has the
  finalizer (`FinalizerKnown`; it holds because only a deleted CR loses it), and that a CR
  which was never created has left no trace (`Unborn`).
- `OverStaysOver`, `CreatesInTime`, `ActiveHasStarted`, `NoPodOrphaned`
  (`SessionOverProofs`): `TerminalStaysTerminal`, `NoLateCreate`, `ActiveMeansStarted`,
  `NoOrphan`, for **one operator** (`ASSUME NEW op, Operators = {op}`; `operator_overlap`
  shows that the first fails for two). They share `OperatorInv`, in four parts:
  `CacheLags` says how far the cached copy may be behind (once picked up, a CR's cached
  status may be missing only while the CR says Starting); `Reconciling` what a running
  reconcile may still rely on; `Writing` that the status about to be written is not
  overtaken (a non-terminal one is only written over a non-terminal one; a terminal one
  belongs to a pod that is gone or over); `OverMeansOver` that the pod of a terminal
  session is gone or will be read as terminal again. The last is what makes a stale
  cache harmless: a reconcile that still believes the session to be Idle reads the pod
  again and finds it over.
- `KeepsContract` (`SessionOverProofs`): the operator implements `SessionContract`, for one
  operator: `Spec => Contract!Spec`. Every step leaves what the contract sees of a session
  as it is (`SameView`) or is one of the contract's steps about it (`Promised`), and one
  step concerns one session. The pod of a session that is over may be made by nobody,
  which is `CreatesInTime`; that a session never opens twice is `TerminalKept`; that a CR that
  was released does not come back is `GoneStays`.
- `ServiceTypeCorrect`, `ServiceUsesOperator`, `StopLeavesNoLiveCR`
  (`SessionServiceProofs`): `SvcTypeOK`; every behaviour of the service is a behaviour of
  `SessionOperator`, so its theorems hold beneath the service; and `StoppedIsReleased`,
  assuming `Eager = FALSE` and `"update" \notin Ops`.
- `FailedIsTrue`, `TableIsChecked`, `ToldOverIsOver` (same module), each with the assumption
  it needs and no more:
  - `FailedMeansFailed` (an answer of `get_session`) with no assumption on the requests, the
    operators or the failed calls. Who looks at a CR does so for a row that was open when it began.
  - `ChangesWereAllowed` for any requests, however they overlap. The invariant `HistoryInv` says
    that what a request will write is allowed from the state that it saw, and that this
    state is among those of its history.
  - `OverOnceTold` for one operator and clients that wait for the creation (`Eager = FALSE`), do
    not list and do not set states by hand, with any number of handlers. `News` says what
    has been told that cannot be taken back: the row is over, or the CR is and stays so
    (`TerminalKept`), or it is gone.

- `AgentTypeCorrect`, `WorksOnOne`, `FinishedStays`, `ExitIsAnnounced`, `HistoryIsComplete`,
  `AdapterIsTold` (`AgentServerProofs`): the safety properties of the agent. The invariant
  `AgentInv` has six parts: `ActiveIsBusy` (a message in work means the state is busy, and
  is the only one), `PatchesAwaited` (who has a patch on its way is waiting for it),
  `FinishedIsLast` and `ExitAnnounced` (once finished is on its way no other patch is),
  `HistoryKept` (the LLM works on the history there is; it needs `ActiveIsBusy`) and
  `AdapterTells`. None mentions the lock: what keeps a second message out is that `_state`
  is checked and set without an await between.
- `AgentBeneath`, `MsgTypeCorrect`, `NothingForgotten` (`MessagingProofs`): every behaviour of
  `Messaging` is one of `AgentServer`, so the theorems above hold beneath it; and
  `AnsweredIsRemembered`, from `HistoryIsComplete` and the fact that a 200 is only told of an
  answered request (`ToldTruth`).
- `ConversationInOrder`: `InOrderOnce`, for any senders, texts and number of attempts. The
  invariant follows the texts through the agent: those in the history, the one in work and
  those that wait for the lock are of increasing text for each sender (`InOrder`). A new arrival
  keeps it because a sender has one attempt at a time and has moved on from a text the
  agent may have taken; only a 409 lets it stay, and a refused request never got into the line
  (`Accounts`). `Places` says that nobody stands in the line twice.

- `RegistryTypeCorrect`, `SkillsAreOwn`, `CheckedReferencesStayLive`
  (`RegistryProofs`): `TypeOK`, `OwnSkills` and `CheckedReferencesLive`, from `KeysAssumption`,
  `SeedAssumption` and `DatabasesAssumption`, for a database that enforces **any** of the foreign
  keys. A request is `Proper` when what it will write fits the schema; `AllProper` shows it of
  every handler, so that a transaction only meets rows of the `Shape` of their table. `MountInv`
  says that who is about to make a CR holds the name of a ConfigMap made for its own session.
  `AloneInv` says that, while nothing has overlapped, at most one handler is busy and what it will
  write is `Sound`: the rows it inserts name owners that are there, the rows it deletes
  include all that they own. The last is not obvious, as `Tree` follows the relationships
  for three rounds only: no chain of the schema is longer than four rows (`ChainsEnd`:
  organization, domain, agent, session), so that what is read is closed (`TreeClosed`). What the
  database deletes beyond that are tasks and skills of agents, which own nothing
  (`ExtraRows`). The second request of a command
  needs nothing of the first: the rows it inserts have no checked reference.
- `DomainsHaveGroups`, `ApplyIsIdempotent` (same module): `DomainHasGroup` for any overlap of
  requests and any database but those of `GroupsGoAlone`, and `ApplyTakesEffect`. Both need that ids are given once:
  every id that a row or a request holds has been made (`CountInv`), and those a
  request is about to insert are nobody else's (`FreshInv`). `GroupInv` says that a domain is
  `Served`: its group is there and no request is about to delete it with its
  organization without the domain (`GoTogether`), or somebody has deleted or renamed
  it. A request that reads the organization reads both or neither (`TreeTogether`). That the
  key of a domain could be cut into organization and suffix in two ways does
  no harm: the group is one of those that make up the key, in the same organization.
  `ApplyInv` says that an apply that is alone has still, when it writes, the agent and
  links that it has read (`Ready`).
  `SeedAssumption` says of the rows there are at first what the requests would have made
  of them: references that hold, one row for each id, ids numbered from 1 in each table, an
  organization's key of one identifier and a group for each domain.
- `MigrationTypeCorrect`, `DoneIsMigrated`, `NullsAreExplained`, `RowsAreKept` (`MigrationProofs`):
  the type invariant, `DoneMeansMigrated`, `NullsExplained`, `RowsSurvive`. `MigInv` says what each process may
  rely on of the database it sees (`Positions`), that a transaction loses nothing
  (`Transaction`, by the order `Later` on databases), and to which run an empty
  column belongs (`BareColumns`, `DiskNulls`). One lemma, `StatementKeeps`, serves all statements in both dialects.
- `EnvTypeCorrect`, `ActiveIsConfigured`, `NothingLost`, `UnreadableIsExplained`
  (`EnvironmentsProofs`): the type invariant, `ActiveConfigured`, `AcknowledgedKept`, `UnreadableExplained`. The
  first of these holds for overlapping commands because every save is sound by itself
  (`SavesSound`), whatever it overwrites.

Only model-checked: every liveness property (`Released`, `PickedUp`,
`StatusConverges`, `LostPodEndsSession`, `TerminalPodRemoved`, `StopReleases`,
`RequestsAnswered`, `BusyEnds`, `SendersAnswered`), and the fairness that `ContractSpec` adds to
`Contract!Spec`, since TLAPS does not handle fairness and ENABLED. Every invariant and every
action property that a passing run checks is a theorem, some under the assumptions named
above, which the configurations of those runs satisfy.

## Not modelled

- **Agent tools** (`agent/integrations`): stateless calls of Telegram, WhatsApp, Instagram and LinkedIn.
- **Resolver** (`cli/resolver.py`): finds a row by name, position or id and changes nothing; a
  position is looked up in a list that is read again, so it may name another row than
  the one the user saw.
- **Output, argument and YAML parsing, schemas** (lengths and patterns of fields): pure functions.
- **Logs of a session**: read from the pod, and nothing depends on them.
- **Legacy pod manager** (`k8s/manager.py`): no module uses it.
- **Deployment**: manifests, Terraform and scripts. What the models take from them is one
  operator replica with the default rolling update, and several API replicas.

## Plan

1. `Registry`: the same requests in front of `SessionService`, so that deleting an agent
   under a running session is seen from the operator too.
2. `SessionService`: the answers of `get` and `list` without Kubernetes, CR names that collide.
3. Operators for `resolve_ref` and `_build_env_vars`, checked against a definition.
4. Proofs: the invariants of steps 1 and 2; what the operators of step 3 return.
