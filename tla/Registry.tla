-------------------------------- MODULE Registry --------------------------------
(***************************************************************************)
(* The rows of organizations, domains, groups, users, agents, skills, tasks   *)
(* and sessions, and the handlers of services/*.py that create, change and    *)
(* delete them. A handler reads with one statement or several, decides, and     *)
(* writes in one transaction at its end; other handlers, in other processes,    *)
(* commit in between. What a handler reads before it writes is one step here,   *)
(* its transaction another.                                                  *)
(*                                                                         *)
(* The database is Postgres, behind the API, or SQLite, in local mode.  A       *)
(* Postgres that create_all has made enforces every foreign key of models/*.py; *)
(* one that migrate_db has upgraded lacks those of the columns it has added, for *)
(* they are added with their type only; SQLite enforces none (nothing sets      *)
(* PRAGMA foreign_keys).  Where the database enforces nothing only the ORM       *)
(* deletes rows with their owner, along its relationships and as far as it has  *)
(* read them.                                                                *)
(***************************************************************************)
EXTENDS Integers, Sequences, FiniteSets

CONSTANTS
  Handlers,     \* requests in progress at the same time
  Labels,       \* what keys are made of
  Identifiers,  \* identifiers of organizations, as sequences of labels
  Suffixes,     \* suffixes of domains, the same
  Names,        \* names of groups, users, skills, agents and sessions, the same
  Seed,         \* the rows that earlier requests have left
  Databases,    \* the sets of foreign keys that a database may enforce
  MaxRows,      \* bound: MaxRows[t] rows are ever made in table t
  MaxRequests   \* bound: requests that come

VARIABLES
  foreignKeys, \* those the database enforces: the table each names and the one it is in
  db,          \* the rows that are committed
  made,        \* made[t]: rows of table t that were ever made
  req,         \* req[h]: what handler h is doing
  configmaps,  \* <<name, session>>: the skills ConfigMap of that name was made for it
  crs,         \* the Session CRs, with the name of the ConfigMap they mount
  requests,    \* requests that have come
  overlapped,  \* two requests have been in progress at the same time
  dropped      \* groups that a request has deleted or renamed

rows == <<db, made>>
cluster == <<configmaps, crs>>
history == <<requests, overlapped, dropped>>
vars == <<foreignKeys, rows, req, cluster, history>>

-----------------------------------------------------------------------------
(* The schema: a row has an id, a key (its identifier, email or name) and the   *)
(* ids its foreign keys hold. An id names its table; a row of a link table is    *)
(* named by what it links.                                                   *)

Entities ==
  {"organizations", "domains", "groups", "users", "agents", "skills", "tasks", "sessions"}

Links == {"agent_skills", "group_members"}

EntityIds == Entities \X (Nat \ {0})
Ids == EntityIds \cup (Links \X SUBSET EntityIds)
NoId == <<"none">>
NoKey == <<>>
Rows == [id : Ids, key : Seq(Labels), refs : SUBSET EntityIds]

TableOf(id) == id[1]

Row(t, n, key, refs) == [id |-> <<t, n>>, key |-> key, refs |-> refs]

Link(t, refs) == [id |-> <<t, refs>>, key |-> NoKey, refs |-> refs]

\* Mutated form: agents do not own their sessions.
Relationships_NoSessions ==
  {<<"organizations", "domains">>, <<"organizations", "groups">>, <<"domains", "agents">>,
   <<"agents", "agent_skills">>, <<"groups", "group_members">>, <<"users", "group_members">>}

\* relationship(..., cascade="all, delete-orphan"): owner and owned. Agents have no
\* relationship to their tasks, and skills none to the agents that use them.
Relationships ==
  {<<"organizations", "domains">>, <<"organizations", "groups">>, <<"domains", "agents">>,
   <<"agents", "sessions">>, <<"agents", "agent_skills">>, <<"groups", "group_members">>,
   <<"users", "group_members">>}

\* ForeignKey: the table it names and the table it is in.
References ==
  {<<"organizations", "domains">>, <<"organizations", "groups">>, <<"domains", "agents">>,
   <<"agents", "sessions">>, <<"agents", "agent_skills">>, <<"groups", "group_members">>,
   <<"users", "group_members">>, <<"agents", "tasks">>, <<"skills", "agent_skills">>,
   <<"tasks", "sessions">>}

\* ondelete="CASCADE": all but the one of sessions to tasks, which is SET NULL.
Cascades == References \ {<<"tasks", "sessions">>}

\* unique=True; the name of a group is unique in its organization, and a link
\* is its own key.
UniqueKeyed == {"organizations", "domains", "users", "skills", "sessions"}

SameKey(r, s) ==
  /\ TableOf(r.id) = TableOf(s.id)
  /\ \/ TableOf(r.id) \in UniqueKeyed /\ r.key = s.key
     \/ TableOf(r.id) = "groups" /\ r.key = s.key /\ r.refs = s.refs
     \/ TableOf(r.id) \in Links /\ r.id = s.id

IdsOf(S) == {r.id : r \in S}

Present(id) == id \in IdsOf(db)

Of(t) == {r \in db : TableOf(r.id) = t}

RowOf(id) == CHOOSE r \in db : r.id = id

ASSUME DatabasesAssumption == Databases \subseteq SUBSET References

ASSUME KeysAssumption ==
  "default" \in Labels /\ Identifiers \cup Suffixes \cup Names \subseteq Seq(Labels)

\* What is there at first was made by these requests too: ids are primary keys, numbered
\* in their table, and a domain has the group that was made with it.
ASSUME SeedAssumption ==
  /\ IsFiniteSet(Seed) /\ Seed \subseteq Rows
  /\ \A r, s \in Seed : r.id = s.id => r = s
  /\ \A r \in Seed : r.id \in EntityIds =>
       r.id[2] <= Cardinality({s \in Seed : TableOf(s.id) = TableOf(r.id)})
  /\ \A r \in Seed : r.refs \subseteq IdsOf(Seed)
  /\ \A r \in Seed : \A p \in r.refs : <<TableOf(p), TableOf(r.id)>> \in References
  /\ \A r \in Seed : TableOf(r.id) = "organizations" => r.key \in Identifiers
  /\ \A d \in Seed : TableOf(d.id) = "domains" =>
       \E g \in Seed, o \in Identifiers :
         /\ TableOf(g.id) = "groups" /\ g.refs = d.refs /\ d.key = o \o g.key
         /\ g.key \in Suffixes \cup {<<"default">>}

Taken(t, key) == \E r \in Of(t) : r.key = key

\* The rows of D that belong to a row of S along the given pairs of tables.
Children(D, S, pairs) ==
  {r \in D : \E p \in S : p.id \in r.refs /\ <<TableOf(p.id), TableOf(r.id)>> \in pairs}

WithChildren(D, S, pairs) == S \cup Children(D, S, pairs)

\* The longest chain is organization, domain, agent, session.
Tree(D, S, pairs) ==
  WithChildren(D, WithChildren(D, WithChildren(D, S, pairs), pairs), pairs)

\* What DELETE of the rows S leaves of D: what refers to them along a foreign key goes
\* too, or is a session, which forgets its task.
Cascaded(D, S) ==
  LET gone == Tree(D, S, Cascades \cap foreignKeys)
      forgotten == IF <<"tasks", "sessions">> \in foreignKeys
                     THEN {p \in IdsOf(gone) : TableOf(p) = "tasks"} ELSE {}
  IN  {[r EXCEPT !.refs = @ \ forgotten] : r \in D \ gone}

-----------------------------------------------------------------------------
(* Requests.                                                                *)

\* at: the next step; new: the rows to insert; got: the rows it has read to delete
\* them; target: the row it is about; key, skills: what to write; cli: the command
\* it belongs to; answer: the status of the last answer.
Idle ==
  [at |-> "idle", new |-> {}, got |-> {}, target |-> NoId, key |-> NoKey,
   skills |-> {}, cli |-> "none", answer |-> "none"]

Steps ==
  {"idle", "insert", "delete", "update", "updateAgent", "put", "post", "postSkill",
   "configmap", "cr"}

Answer(status) == [Idle EXCEPT !.answer = status]

Insert(new) == [Idle EXCEPT !.at = "insert", !.new = new]

\* h goes on with r, whose new rows get their ids.
GoesOn(h, r) ==
  /\ req' = [req EXCEPT ![h] = r]
  /\ made' = [t \in Entities |-> made[t] + Cardinality({x \in r.new : TableOf(x.id) = t})]
  /\ \A t \in Entities : made'[t] <= MaxRows[t]
  /\ UNCHANGED <<foreignKeys, db, cluster, dropped>>

\* A request comes; r is what its handler does after its reads.
Comes(h, r) ==
  /\ req[h].at = "idle"
  /\ requests < MaxRequests
  /\ requests' = requests + 1
  /\ overlapped' = (overlapped \/ \E g \in Handlers : req[g].at # "idle")
  /\ GoesOn(h, r)

New(t, key, refs) == Row(t, made[t] + 1, key, refs)

\* create_organization: its default domain and group are made with it.
CreateOrganization(h, k) ==
  Comes(h,
    IF Taken("organizations", k) THEN Answer("400")
    ELSE LET org == New("organizations", k, {}) IN
         Insert({org, New("domains", k \o <<"default">>, {org.id}),
                 New("groups", <<"default">>, {org.id})}))

\* Mutated form: the group is forgotten.
CreateDomain_NoGroup(h, o, suffix) ==
  Comes(h,
    IF ~Present(o) THEN Answer("404")
    ELSE LET k == RowOf(o).key \o suffix IN
         IF Taken("domains", k) THEN Answer("400") ELSE Insert({New("domains", k, {o})}))

\* create_domain: with a group of the name of the suffix.
CreateDomain(h, o, suffix) ==
  Comes(h,
    IF ~Present(o) THEN Answer("404")
    ELSE LET k == RowOf(o).key \o suffix IN
         IF Taken("domains", k) THEN Answer("400")
         ELSE Insert({New("domains", k, {o}), New("groups", suffix, {o})}))

\* create_group looks nothing up.
CreateGroup(h, o, k) == Comes(h, Insert({New("groups", k, {o})}))

\* create_user and create_skill look their key up.
CreateKeyed(t, k) ==
  IF Taken(t, k) THEN Answer("400") ELSE Insert({New(t, k, {})})

CreateUser(h, k) == Comes(h, CreateKeyed("users", k))

CreateSkill(h, k) == Comes(h, CreateKeyed("skills", k))

\* add_member.
AddMember(h, g, u) ==
  Comes(h,
    CASE ~Present(g) \/ ~Present(u)                -> Answer("404")
      [] Present(<<"group_members", {g, u}>>)      -> Answer("400")
      [] OTHER                                     -> Insert({Link("group_members", {g, u})}))

SkillLinks(a, S) == {Link("agent_skills", {a, s}) : s \in S}

\* create_agent looks its skills up in the transaction that inserts it, its domain never.
NewAgent(d, k, S) ==
  LET agent == New("agents", k, {d}) IN Insert({agent} \cup SkillLinks(agent.id, S))

CreateAgent(h, d, k, S) == Comes(h, NewAgent(d, k, S))

\* create_task looks nothing up.
CreateTask(h, a) == Comes(h, Insert({New("tasks", NoKey, {a})}))

\* create_session looks the agent up, the task never.
CreateSession(h, a, tasks, k) ==
  Comes(h, IF Present(a) THEN Insert({New("sessions", k, {a} \cup tasks)}) ELSE Answer("404"))

\* session.delete loads what the row owns, and what that owns.
Delete(h, id) ==
  Comes(h,
    IF Present(id)
      THEN [Idle EXCEPT !.at = "delete", !.target = id,
                        !.got = Tree(db, {RowOf(id)}, Relationships)]
      ELSE Answer("404"))

DeleteOrganization(h, o) == Delete(h, o)
DeleteDomain(h, d) == Delete(h, d)
DeleteGroup(h, g) == Delete(h, g)
DeleteUser(h, u) == Delete(h, u)
DeleteAgent(h, a) == Delete(h, a)
DeleteSkill(h, s) == Delete(h, s)

\* remove_member.
RemoveMember(h, g, u) == Delete(h, <<"group_members", {g, u}>>)

\* An update looks nothing up but the row itself.
PutRow(id, k) ==
  IF Present(id) THEN [Idle EXCEPT !.at = "update", !.target = id, !.key = k]
                 ELSE Answer("404")

Update(h, id, k) == Comes(h, PutRow(id, k))

UpdateOrganization(h, o) == Update(h, o, NoKey)
UpdateDomain(h, d) == Update(h, d, NoKey)
UpdateGroup(h, g, k) == Update(h, g, k)
UpdateUser(h, u, k) == Update(h, u, k)
UpdateSkill(h, s, k) == Update(h, s, k)

\* Mutated form: the links there are stay.
PutAgent_Adds(a, k, S) ==
  IF Present(a)
    THEN [Idle EXCEPT !.at = "updateAgent", !.target = a, !.key = k, !.skills = S]
    ELSE Answer("404")

\* update_agent with skills: the links there are will be deleted, new ones inserted.
PutAgent(a, k, S) ==
  IF Present(a)
    THEN [Idle EXCEPT !.at = "updateAgent", !.target = a, !.key = k, !.skills = S,
                      !.got = Children(db, {RowOf(a)}, {<<"agents", "agent_skills">>})]
    ELSE Answer("404")

UpdateAgent(h, a, k, S) == Comes(h, PutAgent(a, k, S))

\* update_agent without skills.
RenameAgent(h, a, k) == Update(h, a, k)

\* `mob agent apply`: agents are listed and matched by name and domain; a second
\* request then updates the first match, or creates an agent.
AgentApply(h, d, k, S) ==
  LET matches == {a \in Of("agents") : a.key = k /\ d \in a.refs}
      send == [Idle EXCEPT !.key = k, !.skills = S, !.cli = "apply"]
  IN \/ /\ matches = {}
        /\ Comes(h, [send EXCEPT !.at = "post", !.target = d])
     \/ \E a \in matches : Comes(h, [send EXCEPT !.at = "put", !.target = a.id])

\* `mob skill import`: skills are listed; the one of the name is updated, or one created.
SkillImport(h, k) ==
  Comes(h,
    IF Taken("skills", k)
      THEN [Idle EXCEPT !.at = "put", !.key = k, !.cli = "import",
                        !.target = (CHOOSE s \in Of("skills") : s.key = k).id]
      ELSE [Idle EXCEPT !.at = "postSkill", !.key = k, !.cli = "import"])

\* The second request of a command, which reads again.
Send(h) ==
  LET q == req[h] IN
  /\ q.at \in {"put", "post", "postSkill"}
  /\ GoesOn(h,
       [(CASE q.at = "put" /\ q.cli = "apply" -> PutAgent(q.target, q.key, q.skills)
           [] q.at = "put" /\ q.cli # "apply" -> PutRow(q.target, q.key)
           [] q.at = "post"                   -> NewAgent(q.target, q.key, q.skills)
           [] q.at = "postSkill"              -> CreateKeyed("skills", q.key))
        EXCEPT !.cli = q.cli, !.key = q.key, !.skills = q.skills])
  /\ UNCHANGED <<requests, overlapped>>

-----------------------------------------------------------------------------
(* The transactions.                                                        *)

Writes(h, r, D) ==
  /\ req' = [req EXCEPT ![h] = r]
  /\ db' = D
  /\ UNCHANGED <<foreignKeys, made, cluster, requests, overlapped>>

\* The transaction is rolled back; the error may be nobody's to catch (500).
Fails(h, status) == Writes(h, Answer(status), db) /\ UNCHANGED dropped

\* What the database refuses: a key that is taken, and a row that refers to none along
\* a foreign key.
Refused(D, new) ==
  \/ \E r \in new, s \in D : SameKey(r, s)
  \/ \E r \in new : \E p \in r.refs :
       <<TableOf(p), TableOf(r.id)>> \in foreignKeys /\ p \notin IdsOf(D \cup new)

NoSuchSkill(new) ==
  \E r \in new : TableOf(r.id) = "agent_skills" /\ \E p \in r.refs : TableOf(p) = "skills" /\ ~Present(p)

IsSession(new) == \E r \in new : TableOf(r.id) = "sessions"

\* create_agent inserts the agent before it looks for the skills. create_session takes
\* every refusal for a name that is taken; and goes on after the commit, with the
\* ConfigMap and the CR.
CommitInsert(h) ==
  LET new == req[h].new IN
  /\ req[h].at = "insert"
  /\ CASE NoSuchSkill(new)  ->
            Fails(h, IF Refused(db, {r \in new : TableOf(r.id) = "agents"}) THEN "500" ELSE "404")
       [] ~NoSuchSkill(new) /\ Refused(db, new) -> Fails(h, IF IsSession(new) THEN "409" ELSE "500")
       [] OTHER ->
            /\ Writes(h, IF IsSession(new)
                           THEN [Idle EXCEPT !.at = "configmap", !.new = new]
                           ELSE Answer("ok"),
                      db \cup new)
            /\ UNCHANGED dropped

\* A group that goes, or changes its name, by a request of its own.
Drops(id) ==
  dropped' = dropped \cup {<<g.key, g.refs>> : g \in {r \in Of("groups") : r.id = id}}

\* Rows that are gone already are deleted without an error.
CommitDelete(h) ==
  LET gone == {r \in db : r.id \in IdsOf(req[h].got)} IN
  /\ req[h].at = "delete"
  /\ Writes(h, Answer("ok"), Cascaded(db, gone))
  /\ Drops(req[h].target)

\* The name of an organization or a domain is not its identifier, and no key.
Renamed(id, k) ==
  LET r == RowOf(id) IN
  IF TableOf(id) \in {"organizations", "domains"} THEN r ELSE [r EXCEPT !.key = k]

\* An update of a row that is gone is an error (StaleDataError).
CommitUpdate(h) ==
  LET id == req[h].target
      others == db \ {RowOf(id)}
  IN
  /\ req[h].at = "update"
  /\ IF ~Present(id) \/ Refused(others, {Renamed(id, req[h].key)})
       THEN Fails(h, "500")
       ELSE Writes(h, Answer("ok"), others \cup {Renamed(id, req[h].key)}) /\ Drops(id)

\* The links that were read are deleted, gone or not; the new ones are inserted. If
\* the agent itself is gone the request fails, but possibly only after the commit, when
\* nothing ties the links to it: an agent none of whose own columns change is not written.
CommitUpdateAgent(h) ==
  LET a == req[h].target
      links == SkillLinks(a, req[h].skills)
      others == {r \in db : r.id # a /\ r.id \notin IdsOf(req[h].got)}
      new == {Renamed(a, req[h].key)} \cup links
  IN
  /\ req[h].at = "updateAgent"
  /\ CASE Present(a) /\ NoSuchSkill(links) -> Fails(h, "404")
       [] ~Present(a) ->
            \/ Fails(h, "500")
            \/ /\ ~NoSuchSkill(links) /\ ~Refused(others, links)
               /\ Writes(h, Answer("500"), others \cup links)
               /\ UNCHANGED dropped
       [] OTHER ->
            IF Refused(others, new)
              THEN Fails(h, "500")
              ELSE Writes(h, Answer("ok"), others \cup new) /\ UNCHANGED dropped

-----------------------------------------------------------------------------
(* create_session after its commit: the skills ConfigMap and the CR.          *)

SkillsOf(a) ==
  {s \in Of("skills") : \E l \in Of("agent_skills") : {a, s.id} \subseteq l.refs}

Launching(h) == CHOOSE r \in req[h].new : TRUE

AgentOf(r) == CHOOSE a \in r.refs : TableOf(a) = "agents"

ToCR(h, mounts) == req' = [req EXCEPT ![h] = [@ EXCEPT !.at = "cr", !.key = mounts]]

\* Mutated form: a ConfigMap of that name will do.
MakeConfigMap_Reuse(h) ==
  LET s == Launching(h) IN
  /\ req[h].at = "configmap"
  /\ IF Present(AgentOf(s)) THEN ToCR(h, s.key) ELSE req' = [req EXCEPT ![h] = Answer("500")]
  /\ UNCHANGED <<foreignKeys, rows, configmaps, crs, history>>

\* The agent is read again: one that is gone by now is an uncaught error. A ConfigMap
\* that cannot be made, because there is one of that name or for any other reason,
\* is logged, and the session goes without.
MakeConfigMap(h) ==
  LET s == Launching(h) IN
  /\ req[h].at = "configmap"
  /\ CASE ~Present(AgentOf(s)) ->
            req' = [req EXCEPT ![h] = Answer("500")] /\ UNCHANGED configmaps
       [] Present(AgentOf(s)) /\ SkillsOf(AgentOf(s)) = {} ->
            ToCR(h, NoKey) /\ UNCHANGED configmaps
       [] OTHER ->
            \/ ToCR(h, NoKey) /\ UNCHANGED configmaps
            \/ /\ ~\E c \in configmaps : c[1] = s.key
               /\ configmaps' = configmaps \cup {<<s.key, s.id>>}
               /\ ToCR(h, s.key)
  /\ UNCHANGED <<foreignKeys, rows, crs, history>>

\* A CR that cannot be created is noted in the row, if the row is still there (else an
\* uncaught error); without Kubernetes there is none to create.
MakeCR(h) ==
  LET s == Launching(h).id
      Ends(status) == req' = [req EXCEPT ![h] = Answer(status)]
  IN
  /\ req[h].at = "cr"
  /\ \/ Ends("ok") /\ crs' \in {crs, crs \cup {[session |-> s, mounts |-> req[h].key]}}
     \/ ~Present(s) /\ Ends("500") /\ UNCHANGED crs
  /\ UNCHANGED <<foreignKeys, rows, configmaps, history>>

-----------------------------------------------------------------------------
(* The specification: the requests of each resource, on any id there has been.  *)

IdsSeen(t) == {<<t, n>> : n \in 1 .. made[t]}

OrganizationRequests(h) ==
  \/ \E k \in Identifiers : CreateOrganization(h, k)
  \/ \E o \in IdsSeen("organizations") : UpdateOrganization(h, o) \/ DeleteOrganization(h, o)

DomainRequests(h) ==
  \/ \E o \in IdsSeen("organizations"), s \in Suffixes : CreateDomain(h, o, s)
  \/ \E d \in IdsSeen("domains") : UpdateDomain(h, d) \/ DeleteDomain(h, d)

UserRequests(h) ==
  \/ \E k \in Names : CreateUser(h, k)
  \/ \E u \in IdsSeen("users") : DeleteUser(h, u) \/ \E k \in Names : UpdateUser(h, u, k)

GroupRequests(h) ==
  \/ \E o \in IdsSeen("organizations"), k \in Suffixes : CreateGroup(h, o, k)
  \/ \E g \in IdsSeen("groups") : DeleteGroup(h, g) \/ \E k \in Suffixes : UpdateGroup(h, g, k)
  \/ \E g \in IdsSeen("groups"), u \in IdsSeen("users") :
       AddMember(h, g, u) \/ RemoveMember(h, g, u)

AgentRequests(h) ==
  \/ \E d \in IdsSeen("domains"), k \in Names, S \in SUBSET IdsSeen("skills") :
       CreateAgent(h, d, k, S) \/ AgentApply(h, d, k, S)
  \/ \E a \in IdsSeen("agents") :
       \/ DeleteAgent(h, a)
       \/ \E k \in Names :
            RenameAgent(h, a, k) \/ \E S \in SUBSET IdsSeen("skills") : UpdateAgent(h, a, k, S)

SessionRequests(h) ==
  \E a \in IdsSeen("agents"), k \in Names :
    CreateSession(h, a, {}, k) \/ \E t \in IdsSeen("tasks") : CreateSession(h, a, {t}, k)

TaskRequests(h) == \E a \in IdsSeen("agents") : CreateTask(h, a)

SkillRequests(h) ==
  \/ \E k \in Names : CreateSkill(h, k) \/ SkillImport(h, k)
  \/ \E s \in IdsSeen("skills") : DeleteSkill(h, s) \/ \E k \in Names : UpdateSkill(h, s, k)

Init ==
  /\ foreignKeys \in Databases
  /\ db = Seed
  /\ made = [t \in Entities |-> Cardinality({r \in Seed : TableOf(r.id) = t})]
  /\ req = [h \in Handlers |-> Idle]
  /\ configmaps = {<<r.key, r.id>> : r \in {s \in Seed : TableOf(s.id) = "sessions"}}
  /\ crs = {[session |-> c[2], mounts |-> c[1]] : c \in configmaps}
  /\ requests = 0
  /\ overlapped = FALSE
  /\ dropped = {}

Next ==
  \E h \in Handlers :
    \/ OrganizationRequests(h) \/ DomainRequests(h) \/ UserRequests(h) \/ GroupRequests(h)
    \/ AgentRequests(h) \/ SessionRequests(h) \/ TaskRequests(h) \/ SkillRequests(h)
    \/ Send(h) \/ CommitInsert(h) \/ CommitDelete(h) \/ CommitUpdate(h)
    \/ CommitUpdateAgent(h) \/ MakeConfigMap(h) \/ MakeCR(h)

Spec == Init /\ [][Next]_vars

-----------------------------------------------------------------------------
(* Properties.                                                              *)

Requests ==
  [at : Steps, new : SUBSET Rows, got : SUBSET Rows, target : Ids \cup {NoId},
   key : Seq(Labels), skills : SUBSET EntityIds, cli : {"none", "apply", "import"},
   answer : {"none", "ok", "400", "404", "409", "500"}]

\* The variables have the types of the columns and of the handlers' local state.
TypeOK ==
  /\ foreignKeys \subseteq References
  /\ db \subseteq Rows
  /\ made \in [Entities -> Nat]
  /\ req \in [Handlers -> Requests]

\* The references whose rows a handler looks up before it stores them, and along
\* which the ORM deletes.
Checked ==
  {<<"organizations", "domains">>, <<"agents", "sessions">>, <<"groups", "group_members">>,
   <<"users", "group_members">>}

\* Whatever the database enforces, these never name a row that is gone, as long as
\* requests have not overlapped: the handlers' checks and the ORM's cascades make up
\* for a database without foreign keys.
CheckedReferencesLive ==
  ~overlapped =>
    \A r \in db, p \in UNION {x.refs : x \in db} :
      p \in r.refs /\ <<TableOf(p), TableOf(r.id)>> \in Checked => Present(p)

\* The database deletes the groups of an organization with it, but not its domains.
GroupsGoAlone ==
  <<"organizations", "groups">> \in foreignKeys /\ <<"organizations", "domains">> \notin foreignKeys

\* A domain has the group that was made for it, until a request deletes or renames
\* that group: BIGBANG.md:71, "when a domain is created, there is a respective group".
\* (Not in an upgraded database whose foreign keys tell groups and domains apart: there an
\* organization that is deleted may leave a domain that was made meanwhile.)
DomainHasGroup ==
  ~GroupsGoAlone =>
    \A d \in Of("domains") : \E o \in Identifiers, k \in Suffixes \cup {<<"default">>} :
      /\ d.key = o \o k
      /\ <<k, d.refs>> \in dropped \/ \E g \in Of("groups") : g.key = k /\ g.refs = d.refs

\* No session mounts the skills of another one: a ConfigMap outlives its session, and
\* the name of a session whose agent was deleted can be given again.
OwnSkills ==
  \A c \in crs : c.mounts # NoKey => <<c.mounts, c.session>> \in configmaps

\* The agent that an apply writes in this step.
Applied(h) ==
  IF req[h].at = "updateAgent" THEN {req[h].target}
  ELSE IdsOf({r \in req[h].new : TableOf(r.id) = "agents"})

\* The step in which the agent of an apply is written: there is one agent more or none, it
\* has the name and the skills of the file, and it is no second one of the name in the domain.
WellApplied(h) ==
  \E w \in db' :
    /\ w.id \in Applied(h) /\ w.key = req[h].key
    /\ {r \in db' : TableOf(r.id) = "agent_skills" /\ w.id \in r.refs}
         = SkillLinks(w.id, req[h].skills)
    /\ w.id \notin IdsOf(db) =>
         ~\E a \in db : TableOf(a.id) = "agents" /\ a.key = w.key /\ a.refs = w.refs

Acknowledged(h) == req[h].cli = "apply" /\ req'[h].answer = "ok"

\* `mob agent apply` that succeeds is the "idempotent upsert" it is called, as long as
\* requests have not overlapped.
ApplyTakesEffect ==
  [][\A h \in Handlers : Acknowledged(h) /\ ~overlapped' => WellApplied(h)]_vars

=============================================================================
