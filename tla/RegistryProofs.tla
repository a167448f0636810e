----------------------------- MODULE RegistryProofs -----------------------------
(***************************************************************************)
(* What holds of the registry for any rows, names and number of requests. A       *)
(* handler's request is proper when what it will write fits the schema; every     *)
(* request is, so that a transaction meets only rows of the shape of its table.   *)
(* What a delete cascades to is closed along the keys that the database enforces:  *)
(* the three rounds of Tree reach everything, for no chain of the schema is longer. *)
(*                                                                         *)
(* A request goes on with care: from its reads it has only rows that are there,   *)
(* and for what it will insert ids that nobody has. So a group and the domain      *)
(* made with it are read together, or neither; and an apply that is alone meets,   *)
(* when it writes, the agent and the links that it has read.                    *)
(***************************************************************************)
EXTENDS Registry, FiniteSetTheorems, TLAPS

Schema(D) == \A r \in D : \A p \in r.refs : <<TableOf(p), TableOf(r.id)>> \in References

In(t) == {id \in EntityIds : TableOf(id) = t}

Proper(r) ==
  /\ r \in Requests
  /\ IsFiniteSet(r.new) /\ Schema(r.new)
  /\ IsFiniteSet(r.skills) /\ r.skills \subseteq In("skills")
  /\ r.at = "updateAgent" \/ (r.at = "put" /\ r.cli = "apply") => r.target \in In("agents")
  /\ r.at = "configmap" => r.new # {}
  /\ r.at = "put" => r.target \in Ids
  /\ r.at = "post" => r.target \in In("domains")
  /\ r.at = "updateAgent" => \A g \in r.got : TableOf(g.id) = "agent_skills"

Shape == TypeOK /\ Schema(db) /\ \A h \in Handlers : Proper(req[h])

-----------------------------------------------------------------------------
(* Rows.                                                                    *)

LEMMA Keys ==
  /\ Identifiers \cup Suffixes \cup Names \subseteq Seq(Labels)
  /\ NoKey \in Seq(Labels) /\ <<"default">> \in Seq(Labels)
  /\ \A j, k \in Seq(Labels) : j \o k \in Seq(Labels)
<1>1. NoKey \in Seq(Labels)
  BY DEF NoKey
<1>3. <<"default">> \in Seq(Labels)
  BY KeysAssumption
<1>2. \A j, k \in Seq(Labels) : j \o k \in Seq(Labels)
  OBVIOUS
<1> QED
  BY <1>1, <1>2, <1>3, KeysAssumption

\* A row of an entity, made with the next id of its table.
LEMMA RowShape ==
  ASSUME TypeOK, NEW t \in Entities, NEW k \in Seq(Labels), NEW S \in SUBSET EntityIds
  PROVE  /\ New(t, k, S) \in Rows
         /\ New(t, k, S).id \in In(t)
         /\ New(t, k, S).refs = S
<1>1. made[t] + 1 \in Nat \ {0}
  BY DEF TypeOK
<1>2. <<t, made[t] + 1>> \in EntityIds
  BY <1>1 DEF EntityIds
<1> QED
  BY <1>2 DEF New, Row, Rows, Ids, In, TableOf

LEMMA LinkShape ==
  ASSUME NEW t \in Links, NEW S \in SUBSET EntityIds
  PROVE  Link(t, S) \in Rows /\ Link(t, S).id = <<t, S>> /\ Link(t, S).refs = S
<1>1. <<t, S>> \in Ids
  BY DEF Ids
<1> QED
  BY <1>1, Keys DEF Link, Rows

\* No row of an entity has the id of a link.
LEMMA LinksAreNoEntities ==
  ASSUME NEW id \in EntityIds
  PROVE  TableOf(id) \notin Links
BY DEF EntityIds, Entities, Links, TableOf

LEMMA SkillLinksShape ==
  ASSUME NEW a \in In("agents"), NEW S \in SUBSET In("skills"), IsFiniteSet(S)
  PROVE  /\ SkillLinks(a, S) \subseteq Rows
         /\ IsFiniteSet(SkillLinks(a, S))
         /\ Schema(SkillLinks(a, S))
<1>1. \A s \in S : {a, s} \in SUBSET EntityIds /\ TableOf(a) = "agents" /\ TableOf(s) = "skills"
  BY DEF In
<1>2. \A s \in S : /\ Link("agent_skills", {a, s}) \in Rows
                   /\ Link("agent_skills", {a, s}).id = <<"agent_skills", {a, s}>>
                   /\ Link("agent_skills", {a, s}).refs = {a, s}
  BY <1>1, LinkShape DEF Links
<1>3. <<"agents", "agent_skills">> \in References /\ <<"skills", "agent_skills">> \in References
  BY DEF References
<1>4. ASSUME NEW r \in SkillLinks(a, S), NEW p \in r.refs
      PROVE  <<TableOf(p), TableOf(r.id)>> \in References
  <2>1. PICK s \in S : r = Link("agent_skills", {a, s})
    BY <1>4 DEF SkillLinks
  <2>2. TableOf(r.id) = "agent_skills" /\ (p = a \/ p = s)
    BY <1>2, <1>4, <2>1 DEF TableOf
  <2> QED
    BY <1>1, <1>3, <2>2
<1>5. IsFiniteSet(SkillLinks(a, S))
  <2> DEFINE link == [s \in S |-> Link("agent_skills", {a, s})]
  <2>1. link \in Surjection(S, SkillLinks(a, S))
    BY DEF Surjection, SkillLinks
  <2> QED
    BY <2>1, FS_Surjection
<1> QED
  BY <1>2, <1>4, <1>5 DEF SkillLinks, Schema

LEMMA SeenShape ==
  ASSUME TypeOK, NEW t \in Entities
  PROVE  IdsSeen(t) \subseteq In(t) /\ IsFiniteSet(IdsSeen(t))
<1>1. made[t] \in Nat
  BY DEF TypeOK
<1>2. \A n \in 1 .. made[t] : n \in Nat \ {0}
  BY <1>1
<1>3. IdsSeen(t) \subseteq In(t)
  BY <1>2 DEF IdsSeen, In, EntityIds, TableOf
<1>4. IsFiniteSet(1 .. made[t])
  BY <1>1, FS_Interval
<1>5. IsFiniteSet(IdsSeen(t))
  <2> DEFINE id == [n \in 1 .. made[t] |-> <<t, n>>]
  <2>1. id \in Surjection(1 .. made[t], IdsSeen(t))
    BY DEF Surjection, IdsSeen
  <2> QED
    BY <1>4, <2>1, FS_Surjection
<1> QED
  BY <1>3, <1>5

LEMMA SomeSeen ==
  ASSUME TypeOK, NEW S \in SUBSET IdsSeen("skills")
  PROVE  S \subseteq In("skills") /\ IsFiniteSet(S)
<1>1. IdsSeen("skills") \subseteq In("skills") /\ IsFiniteSet(IdsSeen("skills"))
  BY SeenShape DEF Entities
<1> QED
  BY <1>1, FS_Subset

LEMMA RowOfPresent ==
  ASSUME NEW id, Present(id)
  PROVE  RowOf(id) \in db /\ RowOf(id).id = id
<1>1. \E r \in db : r.id = id
  BY DEF Present, IdsOf
<1> QED
  BY <1>1 DEF RowOf

-----------------------------------------------------------------------------
(* Requests.                                                                *)

LEMMA AnswersProper ==
  ASSUME NEW status \in {"none", "ok", "400", "404", "409", "500"}
  PROVE  Proper(Answer(status)) /\ Answer(status).at = "idle"
<1>1. IsFiniteSet({})
  BY FS_EmptySet
<1>2. Answer(status) \in Requests
  BY Keys DEF Answer, Idle, Requests, Steps
<1> QED
  BY <1>1, <1>2 DEF Proper, Answer, Idle, Schema

LEMMA InsertsProper ==
  ASSUME NEW new \in SUBSET Rows, IsFiniteSet(new), Schema(new)
  PROVE  Proper(Insert(new)) /\ Insert(new).at = "insert"
<1>1. IsFiniteSet({})
  BY FS_EmptySet
<1>2. Insert(new) \in Requests
  BY Keys DEF Insert, Idle, Requests, Steps
<1> QED
  BY <1>1, <1>2 DEF Proper, Insert, Idle

\* One new row that refers to rows of the tables its own may refer to.
LEMMA InsertOneProper ==
  ASSUME TypeOK, NEW t \in Entities, NEW k \in Seq(Labels), NEW S \in SUBSET EntityIds,
         \A p \in S : <<TableOf(p), t>> \in References
  PROVE  /\ New(t, k, S) \in Rows /\ Schema({New(t, k, S)})
         /\ Proper(Insert({New(t, k, S)}))
<1>1. New(t, k, S) \in Rows /\ New(t, k, S).id \in In(t) /\ New(t, k, S).refs = S
  BY RowShape
<1>2. Schema({New(t, k, S)})
  BY <1>1 DEF Schema, In
<1>3. IsFiniteSet({New(t, k, S)})
  BY FS_Singleton
<1> QED
  BY <1>1, <1>2, <1>3, InsertsProper

\* What the second request of a command sends on keeps its shape.
LEMMA SentProper ==
  ASSUME NEW r, Proper(r), r.at \notin {"put", "post"}, NEW q \in Requests,
         q.skills \subseteq In("skills"), IsFiniteSet(q.skills)
  PROVE  LET s == [r EXCEPT !.cli = q.cli, !.key = q.key, !.skills = q.skills]
         IN  Proper(s) /\ s.at = r.at
<1> DEFINE s == [r EXCEPT !.cli = q.cli, !.key = q.key, !.skills = q.skills]
<1>1. r \in Requests
  BY DEF Proper
<1>2. s \in Requests
  BY <1>1 DEF Requests
<1>3. /\ s.at = r.at /\ s.new = r.new /\ s.target = r.target /\ s.got = r.got
      /\ s.skills = q.skills
  BY <1>1 DEF Requests
<1> QED
  BY <1>2, <1>3 DEF Proper

LEMMA NewAgentProper ==
  ASSUME TypeOK, NEW d \in In("domains"), NEW k \in Seq(Labels),
         NEW S \in SUBSET In("skills"), IsFiniteSet(S)
  PROVE  Proper(NewAgent(d, k, S)) /\ NewAgent(d, k, S).at = "insert"
<1> DEFINE agent == New("agents", k, {d})
<1>1. {d} \in SUBSET EntityIds /\ TableOf(d) = "domains"
  BY DEF In
<1>2. <<"domains", "agents">> \in References
  BY DEF References
<1>3. agent \in Rows /\ agent.id \in In("agents") /\ agent.refs = {d}
  BY <1>1, RowShape, Keys DEF Entities
<1>4. Schema({agent})
  BY <1>1, <1>2, <1>3 DEF Schema, In
<1>5. /\ SkillLinks(agent.id, S) \subseteq Rows
      /\ IsFiniteSet(SkillLinks(agent.id, S)) /\ Schema(SkillLinks(agent.id, S))
  BY <1>3, SkillLinksShape
<1>6. IsFiniteSet({agent} \cup SkillLinks(agent.id, S))
  BY <1>5, FS_Singleton, FS_Union
<1>7. Schema({agent} \cup SkillLinks(agent.id, S))
  BY <1>4, <1>5 DEF Schema
<1> QED
  BY <1>3, <1>5, <1>6, <1>7, InsertsProper DEF NewAgent

LEMMA CreateKeyedProper ==
  ASSUME TypeOK, NEW t \in Entities, NEW k \in Seq(Labels)
  PROVE  Proper(CreateKeyed(t, k)) /\ CreateKeyed(t, k).at \in {"idle", "insert"}
<1>1. Proper(Insert({New(t, k, {})})) /\ Insert({New(t, k, {})}).at = "insert"
  <2>1. Proper(Insert({New(t, k, {})}))
    BY InsertOneProper
  <2> QED
    BY <2>1 DEF Insert, Idle
<1>2. Proper(Answer("400")) /\ Answer("400").at = "idle"
  BY AnswersProper
<1> QED
  BY <1>1, <1>2 DEF CreateKeyed

LEMMA PutRowProper ==
  ASSUME NEW id \in Ids, NEW k \in Seq(Labels)
  PROVE  Proper(PutRow(id, k)) /\ PutRow(id, k).at \in {"idle", "update"}
<1> DEFINE r == [Idle EXCEPT !.at = "update", !.target = id, !.key = k]
<1>1. r \in Requests
  BY DEF Idle, Requests, Steps
<1>2. Proper(r) /\ r.at = "update"
  BY <1>1, FS_EmptySet DEF Proper, Idle, Schema
<1>3. Proper(Answer("404")) /\ Answer("404").at = "idle"
  BY AnswersProper
<1> QED
  BY <1>2, <1>3 DEF PutRow

LEMMA PutAgentProper ==
  ASSUME TypeOK, NEW a \in In("agents"), NEW k \in Seq(Labels),
         NEW S \in SUBSET In("skills"), IsFiniteSet(S)
  PROVE  Proper(PutAgent(a, k, S)) /\ PutAgent(a, k, S).at \in {"idle", "updateAgent"}
<1> DEFINE links == Children(db, {RowOf(a)}, {<<"agents", "agent_skills">>})
           r == [Idle EXCEPT !.at = "updateAgent", !.target = a, !.key = k, !.skills = S,
                             !.got = links]
<1>1. links \subseteq Rows /\ \A g \in links : TableOf(g.id) = "agent_skills"
  BY DEF Children, TypeOK
<1>2. r \in Requests
  <2>1. a \in Ids \cup {NoId} /\ S \in SUBSET EntityIds
    BY DEF In, Ids
  <2> HIDE DEF links
  <2> QED
    BY <1>1, <2>1 DEF Idle, Requests, Steps
<1>3. Proper(r) /\ r.at = "updateAgent"
  BY <1>1, <1>2, FS_EmptySet DEF Proper, Idle, Schema
<1>4. Proper(Answer("404")) /\ Answer("404").at = "idle"
  BY AnswersProper
<1> QED
  BY <1>3, <1>4 DEF PutAgent

-----------------------------------------------------------------------------
(* Every request is proper.                                                  *)

\* h goes on with a proper request, and is not yet done with the database.
Goes(h) == \E r \in Requests : Proper(r) /\ r.at \notin {"configmap", "cr"} /\ GoesOn(h, r)

LEMMA ComesProper ==
  ASSUME NEW h, NEW r, Proper(r), r.at \notin {"configmap", "cr"}, Comes(h, r)
  PROVE  Goes(h)
BY DEF Goes, Comes, Proper

LEMMA FewAreFinite ==
  ASSUME NEW x, NEW y, NEW z
  PROVE  IsFiniteSet({x, y}) /\ IsFiniteSet({x, y, z})
<1>1. IsFiniteSet({x} \cup {y})
  BY FS_Singleton, FS_AddElement
<1>2. IsFiniteSet(({x} \cup {y}) \cup {z})
  BY <1>1, FS_AddElement
<1>3. {x} \cup {y} = {x, y} /\ ({x} \cup {y}) \cup {z} = {x, y, z}
  OBVIOUS
<1> QED
  BY <1>1, <1>2, <1>3

LEMMA OrganizationProper ==
  ASSUME TypeOK, NEW h \in Handlers, NEW k \in Identifiers, CreateOrganization(h, k)
  PROVE  Goes(h)
<1> DEFINE org == New("organizations", k, {})
           dom == New("domains", k \o <<"default">>, {org.id})
           grp == New("groups", <<"default">>, {org.id})
<1>1. k \in Seq(Labels) /\ k \o <<"default">> \in Seq(Labels) /\ <<"default">> \in Seq(Labels)
  BY Keys
<1>2. org \in Rows /\ org.id \in In("organizations") /\ org.refs = {}
  BY <1>1, RowShape DEF Entities
<1>3. {org.id} \in SUBSET EntityIds /\ TableOf(org.id) = "organizations"
  BY <1>2 DEF In
<1>4. /\ dom \in Rows /\ dom.id \in In("domains") /\ dom.refs = {org.id}
      /\ grp \in Rows /\ grp.id \in In("groups") /\ grp.refs = {org.id}
  <2> HIDE DEF org
  <2>1. dom \in Rows /\ dom.id \in In("domains") /\ dom.refs = {org.id}
    BY <1>1, <1>3, RowShape DEF Entities
  <2>2. grp \in Rows /\ grp.id \in In("groups") /\ grp.refs = {org.id}
    BY <1>1, <1>3, RowShape DEF Entities
  <2> QED
    BY <2>1, <2>2
<1>5. /\ <<"organizations", "domains">> \in References
      /\ <<"organizations", "groups">> \in References
  BY DEF References
<1>6. Schema({org, dom, grp})
  BY <1>2, <1>3, <1>4, <1>5 DEF Schema, In
<1>7. IsFiniteSet({org, dom, grp})
  BY FewAreFinite
<1>8. Proper(Insert({org, dom, grp})) /\ Insert({org, dom, grp}).at = "insert"
  <2> HIDE DEF org, dom, grp
  <2> QED
    BY <1>2, <1>4, <1>6, <1>7, InsertsProper
<1>9. Proper(Answer("400")) /\ Answer("400").at = "idle"
  BY AnswersProper
<1> QED
  BY <1>8, <1>9, ComesProper DEF CreateOrganization

LEMMA DomainProper ==
  ASSUME TypeOK, NEW h \in Handlers, NEW o \in IdsSeen("organizations"), NEW suffix \in Suffixes,
         CreateDomain(h, o, suffix)
  PROVE  Goes(h)
<1> DEFINE k == RowOf(o).key \o suffix
           dom == New("domains", k, {o})
           grp == New("groups", suffix, {o})
<1>1. {o} \in SUBSET EntityIds /\ TableOf(o) = "organizations"
  BY SeenShape DEF Entities, In
<1>2. ASSUME Present(o) PROVE Proper(Insert({dom, grp})) /\ Insert({dom, grp}).at = "insert"
  <2>1. RowOf(o).key \in Seq(Labels)
    BY <1>2, RowOfPresent DEF TypeOK, Rows
  <2>2. k \in Seq(Labels) /\ suffix \in Seq(Labels)
    BY <2>1, Keys
  <2>3. /\ dom \in Rows /\ dom.id \in In("domains") /\ dom.refs = {o}
        /\ grp \in Rows /\ grp.id \in In("groups") /\ grp.refs = {o}
    <3> HIDE DEF k
    <3> QED
      BY <1>1, <2>2, RowShape DEF Entities
  <2>4. /\ <<"organizations", "domains">> \in References
        /\ <<"organizations", "groups">> \in References
    BY DEF References
  <2>5. Schema({dom, grp})
    BY <1>1, <2>3, <2>4 DEF Schema, In
  <2>6. IsFiniteSet({dom, grp})
    BY FewAreFinite
  <2> HIDE DEF dom, grp
  <2> QED
    BY <2>3, <2>5, <2>6, InsertsProper
<1>3. /\ Proper(Answer("400")) /\ Answer("400").at = "idle"
      /\ Proper(Answer("404")) /\ Answer("404").at = "idle"
  BY AnswersProper
<1> QED
  BY <1>2, <1>3, ComesProper DEF CreateDomain

\* The requests that insert one row, or none.
LEMMA OneRowProper ==
  ASSUME NEW t \in Entities, NEW k \in Seq(Labels), NEW S \in SUBSET EntityIds, TypeOK,
         \A p \in S : <<TableOf(p), t>> \in References
  PROVE  Proper(Insert({New(t, k, S)})) /\ Insert({New(t, k, S)}).at = "insert"
BY InsertOneProper DEF Insert, Idle

LEMMA DeleteProper ==
  ASSUME TypeOK, NEW h \in Handlers, NEW id \in Ids, Delete(h, id)
  PROVE  Goes(h)
<1> DEFINE tree == Tree(db, {RowOf(id)}, Relationships)
           r == [Idle EXCEPT !.at = "delete", !.target = id, !.got = tree]
<1>1. ASSUME Present(id) PROVE tree \subseteq Rows
  <2>1. RowOf(id) \in db
    BY <1>1, RowOfPresent
  <2> QED
    BY <2>1 DEF Tree, WithChildren, Children, TypeOK
<1>2. ASSUME Present(id) PROVE Proper(r) /\ r.at = "delete"
  <2> HIDE DEF tree
  <2>1. r \in Requests
    BY <1>1, <1>2, Keys DEF Idle, Requests, Steps
  <2> QED
    BY <2>1, FS_EmptySet DEF Proper, Idle, Schema
<1>3. Proper(Answer("404")) /\ Answer("404").at = "idle"
  BY AnswersProper
<1> QED
  BY <1>2, <1>3, ComesProper DEF Delete

LEMMA MemberProper ==
  ASSUME TypeOK, NEW h \in Handlers, NEW g \in IdsSeen("groups"), NEW u \in IdsSeen("users")
  PROVE  /\ AddMember(h, g, u) => Goes(h)
         /\ RemoveMember(h, g, u) => Goes(h)
<1> DEFINE member == Link("group_members", {g, u})
<1>1. /\ {g, u} \in SUBSET EntityIds
      /\ TableOf(g) = "groups" /\ TableOf(u) = "users"
  BY SeenShape DEF Entities, In
<1>2. /\ member \in Rows /\ member.id = <<"group_members", {g, u}>> /\ member.refs = {g, u}
  BY <1>1, LinkShape DEF Links
<1>3. /\ <<"groups", "group_members">> \in References
      /\ <<"users", "group_members">> \in References
  BY DEF References
<1>4. Schema({member})
  <2>1. TableOf(member.id) = "group_members"
    BY <1>2 DEF TableOf
  <2> HIDE DEF member
  <2>2. \A p \in member.refs : p = g \/ p = u
    BY <1>2
  <2> QED
    BY <1>1, <1>3, <2>1, <2>2 DEF Schema
<1>5. Proper(Insert({member})) /\ Insert({member}).at = "insert"
  BY <1>2, <1>4, FS_Singleton, InsertsProper
<1>6. /\ Proper(Answer("400")) /\ Answer("400").at = "idle"
      /\ Proper(Answer("404")) /\ Answer("404").at = "idle"
  BY AnswersProper
<1>7. AddMember(h, g, u) => Goes(h)
  <2> HIDE DEF member
  <2> QED
    BY <1>5, <1>6, ComesProper DEF AddMember, member
<1>8. <<"group_members", {g, u}>> \in Ids
  BY <1>1 DEF Ids, Links
<1>9. RemoveMember(h, g, u) => Goes(h)
  BY <1>8, DeleteProper DEF RemoveMember
<1> QED
  BY <1>7, <1>9

\* Updates and deletes of a row of an entity.
LEMMA RowRequestsProper ==
  ASSUME TypeOK, NEW h \in Handlers, NEW t \in Entities, NEW id \in IdsSeen(t)
  PROVE  /\ Delete(h, id) => Goes(h)
         /\ \A k \in Seq(Labels) : Update(h, id, k) => Goes(h)
<1>1. id \in Ids
  BY SeenShape DEF In, Ids
<1>2. ASSUME NEW k \in Seq(Labels), Update(h, id, k) PROVE Goes(h)
  BY <1>1, <1>2, PutRowProper, ComesProper DEF Update
<1> QED
  BY <1>1, <1>2, DeleteProper

LEMMA CreateOneProper ==
  ASSUME TypeOK, NEW h \in Handlers
  PROVE  /\ \A k \in Names : CreateUser(h, k) => Goes(h)
         /\ \A k \in Names : CreateSkill(h, k) => Goes(h)
         /\ \A o \in IdsSeen("organizations"), k \in Suffixes : CreateGroup(h, o, k) => Goes(h)
         /\ \A a \in IdsSeen("agents") : CreateTask(h, a) => Goes(h)
<1>1. ASSUME NEW k \in Names PROVE CreateUser(h, k) => Goes(h)
  BY Keys, CreateKeyedProper, ComesProper DEF CreateUser, Entities
<1>2. ASSUME NEW k \in Names PROVE CreateSkill(h, k) => Goes(h)
  BY Keys, CreateKeyedProper, ComesProper DEF CreateSkill, Entities
<1>3. ASSUME NEW o \in IdsSeen("organizations"), NEW k \in Suffixes
      PROVE  CreateGroup(h, o, k) => Goes(h)
  <2>1. {o} \in SUBSET EntityIds /\ \A p \in {o} : <<TableOf(p), "groups">> \in References
    BY SeenShape DEF Entities, In, References
  <2>2. Proper(Insert({New("groups", k, {o})})) /\ Insert({New("groups", k, {o})}).at = "insert"
    BY <2>1, Keys, OneRowProper DEF Entities
  <2> QED
    BY <2>2, ComesProper DEF CreateGroup
<1>4. ASSUME NEW a \in IdsSeen("agents") PROVE CreateTask(h, a) => Goes(h)
  <2>1. {a} \in SUBSET EntityIds /\ \A p \in {a} : <<TableOf(p), "tasks">> \in References
    BY SeenShape DEF Entities, In, References
  <2>2. Proper(Insert({New("tasks", NoKey, {a})})) /\ Insert({New("tasks", NoKey, {a})}).at = "insert"
    BY <2>1, Keys, OneRowProper DEF Entities
  <2> QED
    BY <2>2, ComesProper DEF CreateTask
<1> QED
  BY <1>1, <1>2, <1>3, <1>4

LEMMA SessionProper ==
  ASSUME TypeOK, NEW h \in Handlers, NEW a \in IdsSeen("agents"), NEW k \in Names,
         NEW tasks \in SUBSET IdsSeen("tasks"), CreateSession(h, a, tasks, k)
  PROVE  Goes(h)
<1>1. a \in In("agents") /\ tasks \subseteq In("tasks")
  BY SeenShape DEF Entities
<1>2. {a} \cup tasks \in SUBSET EntityIds
  BY <1>1 DEF In
<1>3. \A p \in {a} \cup tasks : <<TableOf(p), "sessions">> \in References
  BY <1>1 DEF In, References
<1>4. /\ Proper(Insert({New("sessions", k, {a} \cup tasks)}))
      /\ Insert({New("sessions", k, {a} \cup tasks)}).at = "insert"
  BY <1>2, <1>3, Keys, OneRowProper DEF Entities
<1>5. Proper(Answer("404")) /\ Answer("404").at = "idle"
  BY AnswersProper
<1> QED
  BY <1>4, <1>5, ComesProper DEF CreateSession

LEMMA AgentsProper ==
  ASSUME TypeOK, NEW h \in Handlers, NEW k \in Names, NEW S \in SUBSET IdsSeen("skills")
  PROVE  /\ \A d \in IdsSeen("domains") : CreateAgent(h, d, k, S) => Goes(h)
         /\ \A d \in IdsSeen("domains") : AgentApply(h, d, k, S) => Goes(h)
         /\ \A a \in IdsSeen("agents") : UpdateAgent(h, a, k, S) => Goes(h)
<1>1. k \in Seq(Labels) /\ S \subseteq In("skills") /\ IsFiniteSet(S)
  BY Keys, SomeSeen
<1>2. IdsSeen("domains") \subseteq In("domains") /\ IdsSeen("agents") \subseteq In("agents")
  BY SeenShape DEF Entities
<1>3. ASSUME NEW d \in IdsSeen("domains") PROVE CreateAgent(h, d, k, S) => Goes(h)
  BY <1>1, <1>2, NewAgentProper, ComesProper DEF CreateAgent
<1>4. ASSUME NEW a \in IdsSeen("agents") PROVE UpdateAgent(h, a, k, S) => Goes(h)
  BY <1>1, <1>2, PutAgentProper, ComesProper DEF UpdateAgent
<1>5. ASSUME NEW d \in IdsSeen("domains"), AgentApply(h, d, k, S) PROVE Goes(h)
  <2> DEFINE send == [Idle EXCEPT !.key = k, !.skills = S, !.cli = "apply"]
             post == [send EXCEPT !.at = "post", !.target = d]
             put(a) == [send EXCEPT !.at = "put", !.target = a]
  <2>1. S \in SUBSET EntityIds /\ d \in EntityIds
    BY <1>1, <1>2 DEF In
  <2>2. Proper(post) /\ post.at = "post"
    <3>1. post \in Requests
      BY <1>1, <2>1 DEF Idle, Requests, Steps, Ids
    <3> QED
      BY <1>1, <1>2, <3>1, FS_EmptySet DEF Proper, Idle, Schema
  <2>3. ASSUME NEW a \in Of("agents") PROVE Proper(put(a.id)) /\ put(a.id).at = "put"
    <3>1. a.id \in Ids /\ TableOf(a.id) = "agents"
      BY DEF Of, TypeOK, Rows
    <3>2. a.id \in In("agents")
      BY <3>1 DEF In, Ids, Links, TableOf
    <3>3. put(a.id) \in Requests
      BY <1>1, <2>1, <3>1 DEF Idle, Requests, Steps
    <3> QED
      BY <1>1, <3>1, <3>2, <3>3, FS_EmptySet DEF Proper, Idle, Schema
  <2>4. Comes(h, post) \/ \E a \in Of("agents") : Comes(h, put(a.id))
    BY <1>5 DEF AgentApply
  <2> HIDE DEF post, put
  <2> QED
    BY <2>2, <2>3, <2>4, ComesProper
<1> QED
  BY <1>3, <1>4, <1>5

LEMMA ImportProper ==
  ASSUME TypeOK, NEW h \in Handlers, NEW k \in Names, SkillImport(h, k)
  PROVE  Goes(h)
<1> DEFINE skill == CHOOSE s \in Of("skills") : s.key = k
           put == [Idle EXCEPT !.at = "put", !.key = k, !.cli = "import", !.target = skill.id]
           post == [Idle EXCEPT !.at = "postSkill", !.key = k, !.cli = "import"]
<1>1. ASSUME Taken("skills", k) PROVE Proper(put) /\ put.at = "put"
  <2>1. skill \in Of("skills")
    BY <1>1 DEF Taken
  <2>2. skill.id \in Ids
    BY <2>1 DEF Of, TypeOK, Rows
  <2> HIDE DEF skill
  <2>3. put \in Requests
    BY <2>2, Keys DEF Idle, Requests, Steps
  <2> QED
    BY <2>2, <2>3, FS_EmptySet DEF Proper, Idle, Schema
<1>2. Proper(post) /\ post.at = "postSkill"
  <2>1. post \in Requests
    BY Keys DEF Idle, Requests, Steps
  <2> QED
    BY <2>1, FS_EmptySet DEF Proper, Idle, Schema
<1>3. Comes(h, IF Taken("skills", k) THEN put ELSE post)
  BY DEF SkillImport
<1> HIDE DEF put, post
<1> QED
  BY <1>1, <1>2, <1>3, ComesProper

LEMMA SendProper ==
  ASSUME Shape, NEW h \in Handlers, Send(h)
  PROVE  Goes(h)
<1> DEFINE q == req[h]
           r == CASE q.at = "put" /\ q.cli = "apply" -> PutAgent(q.target, q.key, q.skills)
                  [] q.at = "put" /\ q.cli # "apply" -> PutRow(q.target, q.key)
                  [] q.at = "post"                   -> NewAgent(q.target, q.key, q.skills)
                  [] q.at = "postSkill"              -> CreateKeyed("skills", q.key)
           s == [r EXCEPT !.cli = q.cli, !.key = q.key, !.skills = q.skills]
<1>1. /\ q.at \in {"put", "post", "postSkill"}
      /\ GoesOn(h, s)
  BY DEF Send
<1>2. /\ TypeOK /\ Proper(q) /\ q \in Requests
      /\ q.skills \subseteq In("skills") /\ IsFiniteSet(q.skills) /\ q.key \in Seq(Labels)
      /\ q.target \in Ids \cup {NoId}
  BY DEF Shape, Proper, Requests
<1>3. Proper(r) /\ r.at \in {"idle", "insert", "update", "updateAgent"}
  <2>1. CASE q.at = "put" /\ q.cli = "apply"
    <3>1. q.target \in In("agents")
      BY <1>2, <2>1 DEF Proper
    <3>2. r = PutAgent(q.target, q.key, q.skills)
      BY <2>1
    <3> HIDE DEF r
    <3> QED
      BY <1>2, <3>1, <3>2, PutAgentProper
  <2>2. CASE q.at = "put" /\ q.cli # "apply"
    <3>1. q.target \in Ids
      BY <1>2, <2>2 DEF Proper
    <3>2. r = PutRow(q.target, q.key)
      BY <2>2
    <3> HIDE DEF r
    <3> QED
      BY <1>2, <3>1, <3>2, PutRowProper
  <2>3. CASE q.at = "post"
    <3>1. q.target \in In("domains")
      BY <1>2, <2>3 DEF Proper
    <3>2. r = NewAgent(q.target, q.key, q.skills)
      BY <2>3
    <3> HIDE DEF r
    <3> QED
      BY <1>2, <3>1, <3>2, NewAgentProper
  <2>4. CASE q.at = "postSkill"
    <3>1. r = CreateKeyed("skills", q.key)
      BY <2>4
    <3> HIDE DEF r
    <3> QED
      BY <1>2, <3>1, CreateKeyedProper DEF Entities
  <2> QED
    BY <1>1, <2>1, <2>2, <2>3, <2>4
<1>4. Proper(s) /\ s.at = r.at
  <2> HIDE DEF q, r
  <2> QED
    BY <1>2, <1>3, SentProper
<1> HIDE DEF s
<1> QED
  BY <1>1, <1>3, <1>4 DEF Goes, Proper

Asks(h) ==
  \/ OrganizationRequests(h) \/ DomainRequests(h) \/ UserRequests(h) \/ GroupRequests(h)
  \/ AgentRequests(h) \/ SessionRequests(h) \/ TaskRequests(h) \/ SkillRequests(h) \/ Send(h)

LEMMA AllProper ==
  ASSUME Shape, NEW h \in Handlers, Asks(h)
  PROVE  Goes(h)
<1>0. TypeOK
  BY DEF Shape
<1>1. /\ \A k \in Names \cup Suffixes : k \in Seq(Labels)
      /\ NoKey \in Seq(Labels)
  BY Keys
<1>2. CASE OrganizationRequests(h)
  BY <1>0, <1>1, <1>2, OrganizationProper, RowRequestsProper DEF OrganizationRequests, Entities,
         UpdateOrganization, DeleteOrganization
<1>3. CASE DomainRequests(h)
  BY <1>0, <1>1, <1>3, DomainProper, RowRequestsProper DEF DomainRequests, Entities,
         UpdateDomain, DeleteDomain
<1>4. CASE UserRequests(h)
  BY <1>0, <1>1, <1>4, CreateOneProper, RowRequestsProper DEF UserRequests, Entities,
         UpdateUser, DeleteUser
<1>5. CASE GroupRequests(h)
  BY <1>0, <1>1, <1>5, CreateOneProper, MemberProper, RowRequestsProper
     DEF GroupRequests, Entities, UpdateGroup, DeleteGroup
<1>6. CASE AgentRequests(h)
  BY <1>0, <1>1, <1>6, AgentsProper, RowRequestsProper DEF AgentRequests, Entities,
         RenameAgent, DeleteAgent
<1>7. CASE SessionRequests(h)
  <2>1. PICK a \in IdsSeen("agents"), k \in Names :
          \/ CreateSession(h, a, {}, k)
          \/ \E t \in IdsSeen("tasks") : CreateSession(h, a, {t}, k)
    BY <1>7 DEF SessionRequests
  <2> QED
    BY <1>0, <2>1, SessionProper
<1>8. CASE TaskRequests(h)
  BY <1>0, <1>8, CreateOneProper DEF TaskRequests
<1>9. CASE SkillRequests(h)
  BY <1>0, <1>1, <1>9, CreateOneProper, ImportProper, RowRequestsProper
     DEF SkillRequests, Entities,
         UpdateSkill, DeleteSkill
<1>10. CASE Send(h)
  BY <1>10, SendProper
<1> QED
  BY <1>2, <1>3, <1>4, <1>5, <1>6, <1>7, <1>8, <1>9, <1>10 DEF Asks

-----------------------------------------------------------------------------
(* Steps.                                                                   *)

LEMMA MadeShape ==
  ASSUME TypeOK, NEW new, IsFiniteSet(new)
  PROVE  [t \in Entities |-> made[t] + Cardinality({x \in new : TableOf(x.id) = t})]
           \in [Entities -> Nat]
<1>1. ASSUME NEW t \in Entities
      PROVE  made[t] + Cardinality({x \in new : TableOf(x.id) = t}) \in Nat
  <2>1. IsFiniteSet({x \in new : TableOf(x.id) = t})
    BY FS_Subset
  <2>2. Cardinality({x \in new : TableOf(x.id) = t}) \in Nat
    BY <2>1, FS_CardinalityType
  <2> QED
    BY <2>2 DEF TypeOK
<1> QED
  BY <1>1

LEMMA GoesKeepsShape ==
  ASSUME Shape, NEW h \in Handlers, Goes(h)
  PROVE  /\ Shape'
         /\ UNCHANGED <<foreignKeys, db, cluster>>
         /\ \E r : r.at \notin {"configmap", "cr"} /\ req' = [req EXCEPT ![h] = r]
<1>1. PICK r \in Requests : Proper(r) /\ r.at \notin {"configmap", "cr"} /\ GoesOn(h, r)
  BY DEF Goes
<1>2. /\ req' = [req EXCEPT ![h] = r]
      /\ made' = [t \in Entities |-> made[t] + Cardinality({x \in r.new : TableOf(x.id) = t})]
      /\ UNCHANGED <<foreignKeys, db, cluster>>
  BY <1>1 DEF GoesOn
<1>3. made' \in [Entities -> Nat]
  BY <1>1, <1>2, MadeShape DEF Shape, Proper
<1>4. req' \in [Handlers -> Requests] /\ \A g \in Handlers : Proper(req'[g])
  BY <1>1, <1>2 DEF Shape, TypeOK
<1> QED
  BY <1>1, <1>2, <1>3, <1>4 DEF Shape, TypeOK, Proper, Schema, TableOf

LEMMA WritesKeepsShape ==
  ASSUME Shape, NEW h \in Handlers, NEW r, Proper(r), r.at # "cr",
         NEW D \in SUBSET Rows, Schema(D), Writes(h, r, D)
  PROVE  Shape'
<1>1. r \in Requests
  BY DEF Proper
<1>2. /\ req' = [req EXCEPT ![h] = r] /\ db' = D
      /\ UNCHANGED <<foreignKeys, made>>
  BY DEF Writes, cluster
<1>3. req' \in [Handlers -> Requests] /\ \A g \in Handlers : Proper(req'[g])
  BY <1>1, <1>2 DEF Shape, TypeOK
<1> QED
  BY <1>2, <1>3 DEF Shape, TypeOK

\* A transaction that is rolled back.
LEMMA FailsKeepsShape ==
  ASSUME Shape, NEW h \in Handlers, NEW status \in {"404", "409", "500"}, Fails(h, status)
  PROVE  Shape'
<1>1. Proper(Answer(status)) /\ Answer(status).at = "idle"
  BY AnswersProper
<1>2. db \in SUBSET Rows /\ Schema(db)
  BY DEF Shape, TypeOK
<1> QED
  BY <1>1, <1>2, WritesKeepsShape DEF Fails

-----------------------------------------------------------------------------
(* What the transactions leave.                                              *)

LEMMA InsertKeeps ==
  ASSUME Shape, NEW h \in Handlers, CommitInsert(h)
  PROVE  Shape'
<1> DEFINE new == req[h].new
           next == IF IsSession(new) THEN [Idle EXCEPT !.at = "configmap", !.new = new]
                                     ELSE Answer("ok")
<1>1. /\ Proper(req[h]) /\ new \in SUBSET Rows /\ IsFiniteSet(new) /\ Schema(new)
      /\ db \in SUBSET Rows /\ Schema(db)
  BY DEF Shape, TypeOK, Proper, Requests
<1>2. CASE NoSuchSkill(new)
  <2>1. Fails(h, "404") \/ Fails(h, "500")
    BY <1>2 DEF CommitInsert
  <2> QED
    BY <2>1, FailsKeepsShape
<1>3. CASE ~NoSuchSkill(new) /\ Refused(db, new)
  <2>1. Fails(h, IF IsSession(new) THEN "409" ELSE "500")
    BY <1>3 DEF CommitInsert
  <2> QED
    BY <2>1, FailsKeepsShape
<1>4. CASE ~NoSuchSkill(new) /\ ~Refused(db, new)
  <2>1. Writes(h, next, db \cup new)
    BY <1>4 DEF CommitInsert
  <2>2. Proper(next) /\ next.at # "cr"
    <3>1. Proper(Answer("ok")) /\ Answer("ok").at = "idle"
      BY AnswersProper
    <3> DEFINE r == [Idle EXCEPT !.at = "configmap", !.new = new]
    <3>2. r \in Requests
      <4> HIDE DEF new
      <4> QED
        BY <1>1, Keys DEF Idle, Requests, Steps
    <3>3. ASSUME IsSession(new) PROVE Proper(r) /\ r.at = "configmap"
      <4>1. new # {}
        BY <3>3 DEF IsSession
      <4> HIDE DEF new
      <4> QED
        BY <1>1, <3>2, <4>1, FS_EmptySet DEF Proper, Idle
    <3> QED
      BY <3>1, <3>3
  <2>3. Schema(db \cup new) /\ db \cup new \in SUBSET Rows
    BY <1>1 DEF Schema
  <2> HIDE DEF next
  <2> QED
    BY <2>1, <2>2, <2>3, WritesKeepsShape
<1> QED
  BY <1>2, <1>3, <1>4

\* A row keeps its id and what it refers to when it is renamed.
LEMMA RenamedShape ==
  ASSUME Shape, NEW id, Present(id), NEW k \in Seq(Labels)
  PROVE  /\ Renamed(id, k) \in Rows /\ Renamed(id, k).id = id
         /\ Renamed(id, k).refs = RowOf(id).refs
         /\ Schema({Renamed(id, k)})
<1>1. RowOf(id) \in db /\ RowOf(id).id = id
  BY RowOfPresent
<1>2. RowOf(id) \in Rows /\ Schema({RowOf(id)})
  BY <1>1 DEF Shape, TypeOK, Schema
<1>3. /\ Renamed(id, k) \in Rows /\ Renamed(id, k).id = id
      /\ Renamed(id, k).refs = RowOf(id).refs
  BY <1>1, <1>2 DEF Renamed, Rows
<1> QED
  BY <1>1, <1>2, <1>3 DEF Schema

LEMMA UpdateKeeps ==
  ASSUME Shape, NEW h \in Handlers, CommitUpdate(h)
  PROVE  Shape'
<1> DEFINE id == req[h].target
           others == db \ {RowOf(id)}
           row == Renamed(id, req[h].key)
<1>1. Shape /\ req[h].key \in Seq(Labels) /\ db \in SUBSET Rows /\ Schema(db)
  BY DEF Shape, TypeOK, Proper, Requests
<1>2. CASE ~Present(id) \/ Refused(others, {row})
  BY <1>2, FailsKeepsShape DEF CommitUpdate
<1>3. CASE Present(id) /\ ~Refused(others, {row})
  <2>1. Writes(h, Answer("ok"), others \cup {row})
    BY <1>3 DEF CommitUpdate
  <2>2. Proper(Answer("ok")) /\ Answer("ok").at = "idle"
    BY AnswersProper
  <2>3. row \in Rows /\ row.id = id /\ Schema({row})
    BY <1>1, <1>3, RenamedShape
  <2>4. others \cup {row} \in SUBSET Rows /\ Schema(others \cup {row})
    BY <1>1, <2>3 DEF Schema
  <2>5. RowOf(id).id = id
    BY <1>3, RowOfPresent
  <2> HIDE DEF others, row
  <2> QED
    BY <2>1, <2>2, <2>4, WritesKeepsShape
<1> QED
  BY <1>2, <1>3

LEMMA UpdateAgentKeeps ==
  ASSUME Shape, NEW h \in Handlers, CommitUpdateAgent(h)
  PROVE  Shape'
<1> DEFINE a == req[h].target
           links == SkillLinks(a, req[h].skills)
           others == {r \in db : r.id # a /\ r.id \notin IdsOf(req[h].got)}
           row == Renamed(a, req[h].key)
<1>1. Shape /\ req[h].key \in Seq(Labels) /\ db \in SUBSET Rows /\ Schema(db)
  BY DEF Shape, TypeOK, Proper, Requests
<1>2. /\ a \in In("agents") /\ req[h].skills \subseteq In("skills") /\ IsFiniteSet(req[h].skills)
      /\ \A g \in req[h].got : TableOf(g.id) = "agent_skills"
  BY DEF Shape, Proper, CommitUpdateAgent
<1>3. links \subseteq Rows /\ Schema(links)
  BY <1>2, SkillLinksShape
<1>4. others \in SUBSET Rows /\ Schema(others)
  BY <1>1 DEF Schema
<1>5. ASSUME NEW status \in {"404", "500"}, Fails(h, status) PROVE Shape'
  BY <1>5, FailsKeepsShape
<1>6. CASE Writes(h, Answer("500"), others \cup links)
  <2>1. Proper(Answer("500")) /\ Answer("500").at = "idle"
    BY AnswersProper
  <2>2. others \cup links \in SUBSET Rows /\ Schema(others \cup links)
    BY <1>3, <1>4 DEF Schema
  <2> HIDE DEF others, links
  <2> QED
    BY <1>6, <2>1, <2>2, WritesKeepsShape
<1>7. CASE /\ Present(a) /\ ~Refused(others, {row} \cup links)
           /\ Writes(h, Answer("ok"), others \cup ({row} \cup links))
  <2> DEFINE D == others \cup ({row} \cup links)
  <2>1. Proper(Answer("ok")) /\ Answer("ok").at = "idle"
    BY AnswersProper
  <2>2. row \in Rows /\ row.id = a /\ Schema({row})
    BY <1>1, <1>7, RenamedShape
  <2>3. D \in SUBSET Rows /\ Schema(D)
    BY <1>3, <1>4, <2>2 DEF Schema
  <2> HIDE DEF D
  <2> QED
    BY <1>7, <2>1, <2>3, WritesKeepsShape DEF D
<1> QED
  BY <1>5, <1>6, <1>7 DEF CommitUpdateAgent

\* No chain of owners is longer than organization, domain, agent, session.
LEMMA ChainsEnd ==
  ASSUME NEW t0, NEW t1, NEW t2, NEW t3, NEW t4,
         <<t0, t1>> \in Cascades, <<t1, t2>> \in Cascades,
         <<t2, t3>> \in Cascades, <<t3, t4>> \in Cascades
  PROVE  FALSE
<1>1. t2 \in {"agents", "agent_skills", "group_members", "sessions", "tasks"}
  BY DEF Cascades, References
<1>2. t3 \in {"agent_skills", "sessions", "tasks"}
  BY <1>1 DEF Cascades, References
<1> QED
  BY <1>2 DEF Cascades, References

\* A tree holds the children of its rows.
LEMMA TreeClosed ==
  ASSUME NEW D, NEW S, NEW pairs \in SUBSET Cascades,
         NEW q \in Tree(D, S, pairs), NEW r \in D,
         q.id \in r.refs, <<TableOf(q.id), TableOf(r.id)>> \in pairs
  PROVE  r \in Tree(D, S, pairs)
<1> DEFINE Parent(p, c) ==
             p.id \in c.refs /\ <<TableOf(p.id), TableOf(c.id)>> \in pairs /\ c \in D
           S1 == WithChildren(D, S, pairs)
           S2 == WithChildren(D, S1, pairs)
           S3 == WithChildren(D, S2, pairs)
<1>1. Tree(D, S, pairs) = S3 /\ Parent(q, r)
  BY DEF Tree
<1>2. /\ \A c : c \in S1 <=> c \in S \/ \E p \in S : Parent(p, c)
      /\ \A c : c \in S2 <=> c \in S1 \/ \E p \in S1 : Parent(p, c)
      /\ \A c : c \in S3 <=> c \in S2 \/ \E p \in S2 : Parent(p, c)
  <2>1. ASSUME NEW T, NEW c
        PROVE  c \in WithChildren(D, T, pairs) <=> c \in T \/ \E p \in T : Parent(p, c)
    BY DEF WithChildren, Children
  <2> QED
    BY <2>1
<1> HIDE DEF S1, S2, S3, Parent
<1>3. CASE q \in S2
  BY <1>1, <1>2, <1>3
<1>4. CASE q \notin S2
  <2>1. PICK p2 \in S2 : Parent(p2, q)
    BY <1>1, <1>2, <1>4
  <2>2. PICK p1 \in S1 : Parent(p1, p2)
    BY <1>2, <1>4, <2>1
  <2>3. PICK p0 \in S : Parent(p0, p1)
    BY <1>2, <1>4, <2>1, <2>2
  <2> QED
    BY <1>1, <2>1, <2>2, <2>3, ChainsEnd DEF Parent
<1> QED
  BY <1>3, <1>4

LEMMA TreeWithin ==
  ASSUME NEW D, NEW S \in SUBSET D, NEW pairs
  PROVE  S \subseteq Tree(D, S, pairs) /\ Tree(D, S, pairs) \subseteq D
BY DEF Tree, WithChildren, Children

\* DELETE leaves rows as they are, but for the tasks that sessions forget.
LEMMA CascadedIs ==
  ASSUME NEW D \in SUBSET Rows, NEW S \in SUBSET D
  PROVE  \E tasks \in SUBSET {p \in EntityIds : TableOf(p) = "tasks"} :
           LET Left(r) == [r EXCEPT !.refs = @ \ tasks]
               gone == Tree(D, S, Cascades \cap foreignKeys)
           IN  /\ Cascaded(D, S) = {Left(r) : r \in D \ gone}
               /\ \A r \in D : Left(r) \in Rows /\ Left(r).id = r.id /\ Left(r).refs = r.refs \ tasks
<1> DEFINE gone == Tree(D, S, Cascades \cap foreignKeys)
           forgotten == IF <<"tasks", "sessions">> \in foreignKeys
                          THEN {p \in IdsOf(gone) : TableOf(p) = "tasks"} ELSE {}
           tasks == forgotten \cap EntityIds
           Left(r) == [r EXCEPT !.refs = @ \ tasks]
<1>1. \A p \in tasks : TableOf(p) = "tasks"
  OBVIOUS
<1>2. Cascaded(D, S) = {[r EXCEPT !.refs = @ \ forgotten] : r \in D \ gone}
  BY DEF Cascaded
<1> HIDE DEF gone, forgotten
<1>3. ASSUME NEW r \in D
      PROVE  /\ Left(r) \in Rows /\ Left(r).id = r.id /\ Left(r).refs = r.refs \ tasks
             /\ Left(r) = [r EXCEPT !.refs = @ \ forgotten]
  <2>1. r \in Rows
    OBVIOUS
  <2>2. r.refs \ forgotten = r.refs \ tasks
    BY <2>1 DEF Rows
  <2> HIDE DEF tasks
  <2> QED
    BY <2>1, <2>2 DEF Rows
<1>4. Cascaded(D, S) = {Left(r) : r \in D \ gone}
  <2> DEFINE Forgets(r) == [r EXCEPT !.refs = @ \ forgotten]
  <2>1. Cascaded(D, S) = {Forgets(r) : r \in D \ gone} /\ \A r \in D : Left(r) = Forgets(r)
    BY <1>2, <1>3
  <2> HIDE DEF Left, Forgets
  <2> QED
    BY <2>1
<1>5. tasks \in SUBSET {p \in EntityIds : TableOf(p) = "tasks"}
  BY <1>1
<1> QED
  BY <1>3, <1>4, <1>5 DEF gone

LEMMA CascadedShape ==
  ASSUME NEW D \in SUBSET Rows, Schema(D), NEW S \in SUBSET D
  PROVE  Cascaded(D, S) \in SUBSET Rows /\ Schema(Cascaded(D, S))
<1>1. PICK tasks \in SUBSET {p \in EntityIds : TableOf(p) = "tasks"} :
        LET Left(r) == [r EXCEPT !.refs = @ \ tasks]
            gone == Tree(D, S, Cascades \cap foreignKeys)
        IN  /\ Cascaded(D, S) = {Left(r) : r \in D \ gone}
            /\ \A r \in D : Left(r) \in Rows /\ Left(r).id = r.id /\ Left(r).refs = r.refs \ tasks
  BY CascadedIs
<1>2. ASSUME NEW x \in Cascaded(D, S)
      PROVE  x \in Rows /\ \E r \in D : x.id = r.id /\ x.refs \subseteq r.refs
  BY <1>1
<1> QED
  BY <1>2 DEF Schema

LEMMA DeleteKeeps ==
  ASSUME Shape, NEW h \in Handlers, CommitDelete(h)
  PROVE  Shape'
<1> DEFINE gone == {r \in db : r.id \in IdsOf(req[h].got)}
           left == Cascaded(db, gone)
<1>1. Writes(h, Answer("ok"), left)
  BY DEF CommitDelete
<1>2. db \in SUBSET Rows /\ Schema(db)
  BY DEF Shape, TypeOK
<1>3. Proper(Answer("ok")) /\ Answer("ok").at = "idle"
  BY AnswersProper
<1>4. gone \in SUBSET db
  OBVIOUS
<1> HIDE DEF gone
<1>5. left \in SUBSET Rows /\ Schema(left)
  BY <1>2, <1>4, CascadedShape
<1> HIDE DEF left
<1> QED
  BY <1>1, <1>3, <1>5, WritesKeepsShape

-----------------------------------------------------------------------------
(* The ConfigMap and the CR.                                                 *)

\* A CR that is about to be made mounts nothing, or the ConfigMap made for its session.
Mounts ==
  \A h \in Handlers : req[h].at = "cr" =>
    req[h].key = NoKey \/ <<req[h].key, Launching(h).id>> \in configmaps

MountInv == Mounts /\ OwnSkills

\* The last step of the launch: the row it is about stays the same.
LEMMA ToCRKeeps ==
  ASSUME Shape, NEW h \in Handlers, NEW k \in Seq(Labels), req[h].at = "configmap", ToCR(h, k)
  PROVE  /\ req' \in [Handlers -> Requests] /\ \A g \in Handlers : Proper(req'[g])
         /\ req'[h].key = k /\ Launching(h)' = Launching(h)
         /\ \A g \in Handlers \ {h} : req'[g] = req[g]
<1> DEFINE r == [req[h] EXCEPT !.at = "cr", !.key = k]
<1>1. Proper(req[h]) /\ req[h] \in Requests /\ req \in [Handlers -> Requests]
  BY DEF Shape, TypeOK, Proper
<1>2. r \in Requests
  BY <1>1 DEF Requests, Steps
<1>3. /\ r.at = "cr" /\ r.key = k /\ r.new = req[h].new /\ r.skills = req[h].skills
  BY <1>1 DEF Requests
<1>4. Proper(r)
  BY <1>1, <1>2, <1>3 DEF Proper
<1>5. req' = [req EXCEPT ![h] = r]
  BY DEF ToCR
<1> HIDE DEF r
<1>6. req'[h] = r /\ \A g \in Handlers \ {h} : req'[g] = req[g]
  BY <1>1, <1>5
<1>7. Launching(h)' = Launching(h)
  BY <1>3, <1>6 DEF Launching
<1>8. req' \in [Handlers -> Requests]
  BY <1>1, <1>2, <1>5
<1>9. \A g \in Handlers : Proper(req'[g])
  BY <1>4, <1>6 DEF Shape
<1> QED
  BY <1>3, <1>6, <1>7, <1>8, <1>9

\* What the launch of a session does to requests, rows and mounts.
LEMMA ConfigMapKeeps ==
  ASSUME Shape, NEW h \in Handlers, MakeConfigMap(h)
  PROVE  Shape' /\ (MountInv => MountInv')
<1> DEFINE s == Launching(h)
<1>1. /\ Shape /\ req \in [Handlers -> Requests] /\ req[h].at = "configmap"
      /\ UNCHANGED <<foreignKeys, db, made, crs>>
  BY DEF Shape, TypeOK, MakeConfigMap, rows
<1>2. CASE req' = [req EXCEPT ![h] = Answer("500")] /\ UNCHANGED configmaps
  <2>1. Proper(Answer("500")) /\ Answer("500").at = "idle" /\ Answer("500") \in Requests
    BY AnswersProper DEF Proper
  <2>2. Shape'
    BY <1>1, <1>2, <2>1 DEF Shape, TypeOK, Schema, Proper
  <2>3. ASSUME MountInv PROVE MountInv'
    <3>1. \A g \in Handlers : req'[g].at = "cr" => req'[g] = req[g]
      BY <1>1, <1>2, <2>1
    <3> QED
      BY <1>1, <1>2, <2>3, <3>1 DEF MountInv, Mounts, OwnSkills, Launching
  <2> QED
    BY <2>2, <2>3
<1>3. ASSUME NEW k \in Seq(Labels), ToCR(h, k), configmaps \subseteq configmaps',
             k = NoKey \/ <<k, s.id>> \in configmaps'
      PROVE  Shape' /\ (MountInv => MountInv')
  <2>1. /\ req' \in [Handlers -> Requests] /\ \A g \in Handlers : Proper(req'[g])
        /\ req'[h].key = k /\ Launching(h)' = s
        /\ \A g \in Handlers \ {h} : req'[g] = req[g]
    BY <1>1, <1>3, ToCRKeeps
  <2>2. Shape'
    BY <1>1, <2>1 DEF Shape, TypeOK, Schema
  <2>3. ASSUME MountInv PROVE MountInv'
    <3>1. OwnSkills'
      BY <1>1, <1>3, <2>3 DEF MountInv, OwnSkills
    <3>2. ASSUME NEW g \in Handlers, req'[g].at = "cr"
          PROVE  req'[g].key = NoKey \/ <<req'[g].key, Launching(g)'.id>> \in configmaps'
      <4>1. CASE g = h
        BY <1>3, <2>1, <4>1
      <4>2. CASE g # h
        <5>1. req'[g] = req[g] /\ Launching(g)' = Launching(g)
          BY <2>1, <4>2 DEF Launching
        <5> QED
          BY <1>3, <2>3, <3>2, <5>1 DEF MountInv, Mounts
      <4> QED
        BY <4>1, <4>2
    <3> QED
      BY <3>1, <3>2 DEF MountInv, Mounts
  <2> QED
    BY <2>2, <2>3
<1>4. CASE ToCR(h, NoKey) /\ UNCHANGED configmaps
  BY <1>3, <1>4, Keys
<1>5. CASE ToCR(h, s.key) /\ configmaps' = configmaps \cup {<<s.key, s.id>>}
  <2>1. s \in req[h].new /\ req[h].new \subseteq Rows
    BY <1>1 DEF Launching, Shape, Proper, Requests
  <2>2. s.key \in Seq(Labels)
    BY <2>1 DEF Rows
  <2> QED
    BY <1>3, <1>5, <2>2
<1> QED
  BY <1>2, <1>4, <1>5 DEF MakeConfigMap

LEMMA CRKeeps ==
  ASSUME Shape, NEW h \in Handlers, MakeCR(h)
  PROVE  Shape' /\ (MountInv => MountInv')
<1> DEFINE cr == [session |-> Launching(h).id, mounts |-> req[h].key]
<1>0. PICK status \in {"ok", "500"} : req' = [req EXCEPT ![h] = Answer(status)]
  BY DEF MakeCR
<1>1. /\ Shape /\ req \in [Handlers -> Requests] /\ req[h].at = "cr"
      /\ UNCHANGED <<foreignKeys, db, made, configmaps>>
      /\ crs' \subseteq crs \cup {cr}
  BY DEF Shape, TypeOK, MakeCR, rows
<1>2. Proper(Answer(status)) /\ Answer(status).at = "idle" /\ Answer(status) \in Requests
  BY AnswersProper DEF Proper
<1>3. Shape'
  <2>1. Shape'
    BY <1>0, <1>1, <1>2 DEF Shape, TypeOK, Schema, Proper
  <2> QED
    BY <2>1
<1>4. ASSUME MountInv PROVE MountInv'
  <2>1. cr.mounts # NoKey => <<cr.mounts, cr.session>> \in configmaps
    BY <1>1, <1>4 DEF MountInv, Mounts
  <2>2. OwnSkills'
    <3> HIDE DEF cr
    <3> QED
      BY <1>1, <1>4, <2>1 DEF MountInv, OwnSkills
  <2>3. \A g \in Handlers : req'[g].at = "cr" => req'[g] = req[g]
    BY <1>0, <1>1, <1>2
  <2>4. Mounts'
    BY <1>1, <1>4, <2>3 DEF MountInv, Mounts, Launching
  <2> QED
    BY <2>2, <2>4 DEF MountInv
<1> QED
  BY <1>3, <1>4

-----------------------------------------------------------------------------
(* Requests that do not overlap: what a handler has read still holds when it      *)
(* writes, for nobody else was there to write in between.                       *)

\* The checked references of the rows S name ids of T.
CheckedIn(S, T) ==
  \A r \in S : \A p \in r.refs : <<TableOf(p), TableOf(r.id)>> \in Checked => p \in T

\* What r will insert refers to what is there; what it will delete is all that its rows own.
Sound(r) ==
  /\ r.at = "insert" => CheckedIn(r.new, IdsOf(db \cup r.new))
  /\ r.at = "delete" =>
       \A q \in r.got, c \in db :
         q.id \in c.refs /\ <<TableOf(q.id), TableOf(c.id)>> \in Relationships => c \in r.got

AloneInv ==
  ~overlapped =>
    /\ \A g, h \in Handlers : req[g].at # "idle" /\ req[h].at # "idle" => g = h
    /\ \A h \in Handlers : Sound(req[h])
    /\ CheckedIn(db, IdsOf(db))

\* h goes on with a sound request; if there is no overlap it is alone.
Looks(h) ==
  /\ \E r : Sound(r) /\ GoesOn(h, r)
  /\ ~overlapped' =>
       ~overlapped /\ \A g \in Handlers \ {h} : req[g].at = "idle"

LEMMA ComesLooks ==
  ASSUME NEW h \in Handlers, NEW r, Sound(r), Comes(h, r)
  PROVE  Looks(h)
BY DEF Comes, Looks

LEMMA OthersSound ==
  ASSUME NEW r, r.at \notin {"insert", "delete"}
  PROVE  Sound(r)
BY DEF Sound

LEMMA AnswersSound ==
  ASSUME NEW status
  PROVE  Sound(Answer(status))
BY OthersSound DEF Answer, Idle

\* Rows of the other tables have no checked references.
LEMMA UncheckedSound ==
  ASSUME NEW new,
         \A r \in new : TableOf(r.id) \in
           {"organizations", "groups", "users", "agents", "skills", "tasks", "agent_skills"}
  PROVE  Sound(Insert(new))
BY DEF Sound, Insert, Idle, CheckedIn, Checked

LEMMA NewShape ==
  ASSUME NEW t, NEW k, NEW S
  PROVE  /\ TableOf(New(t, k, S).id) = t /\ New(t, k, S).refs = S
         /\ TableOf(Link(t, S).id) = t /\ Link(t, S).refs = S
BY DEF New, Row, Link, TableOf

LEMMA NewAgentSound ==
  ASSUME NEW d, NEW k, NEW S
  PROVE  Sound(NewAgent(d, k, S))
<1>1. TableOf(New("agents", k, {d}).id) = "agents"
  BY NewShape
<1>2. \A a : \A r \in SkillLinks(a, S) : TableOf(r.id) = "agent_skills"
  BY NewShape DEF SkillLinks
<1> QED
  BY <1>1, <1>2, UncheckedSound DEF NewAgent

LEMMA CreateKeyedSound ==
  ASSUME NEW t \in {"users", "skills"}, NEW k
  PROVE  Sound(CreateKeyed(t, k))
<1>1. Sound(Insert({New(t, k, {})}))
  BY NewShape, UncheckedSound
<1> QED
  BY <1>1, AnswersSound DEF CreateKeyed

LEMMA PutsSound ==
  ASSUME NEW id, NEW k, NEW S
  PROVE  Sound(PutRow(id, k)) /\ Sound(PutAgent(id, k, S))
<1>1. Sound([Idle EXCEPT !.at = "update", !.target = id, !.key = k])
  BY OthersSound DEF Idle
<1>2. \A got : Sound([Idle EXCEPT !.at = "updateAgent", !.target = id, !.key = k, !.skills = S,
                                  !.got = got])
  BY OthersSound DEF Idle
<1> QED
  BY <1>1, <1>2, AnswersSound DEF PutRow, PutAgent

\* The handler looked the owners of the new rows up, or makes them itself.
LEMMA OrganizationLooks ==
  ASSUME NEW h \in Handlers, NEW k, CreateOrganization(h, k)
  PROVE  Looks(h)
<1> DEFINE org == New("organizations", k, {})
           dom == New("domains", k \o <<"default">>, {org.id})
           grp == New("groups", <<"default">>, {org.id})
<1>1. /\ TableOf(org.id) = "organizations" /\ org.refs = {}
      /\ dom.refs = {org.id} /\ TableOf(grp.id) = "groups" /\ grp.refs = {org.id}
  BY NewShape
<1>2. Comes(h, IF Taken("organizations", k) THEN Answer("400") ELSE Insert({org, dom, grp}))
  BY DEF CreateOrganization
<1> HIDE DEF org, dom, grp
<1>3. Sound(Insert({org, dom, grp}))
  BY <1>1 DEF Sound, Insert, Idle, CheckedIn, IdsOf
<1> QED
  BY <1>2, <1>3, AnswersSound, ComesLooks

LEMMA DomainLooks ==
  ASSUME NEW h \in Handlers, NEW o, NEW suffix, CreateDomain(h, o, suffix)
  PROVE  Looks(h)
<1> DEFINE k == RowOf(o).key \o suffix
           dom == New("domains", k, {o})
           grp == New("groups", suffix, {o})
<1>1. dom.refs = {o} /\ grp.refs = {o}
  BY NewShape
<1>2. Comes(h, IF ~Present(o) THEN Answer("404")
               ELSE IF Taken("domains", k) THEN Answer("400") ELSE Insert({dom, grp}))
  BY DEF CreateDomain
<1> HIDE DEF dom, grp, k
<1>3. ASSUME Present(o) PROVE Sound(Insert({dom, grp}))
  BY <1>1, <1>3 DEF Sound, Insert, Idle, CheckedIn, IdsOf, Present
<1> QED
  BY <1>2, <1>3, AnswersSound, ComesLooks

LEMMA MemberLooks ==
  ASSUME NEW h \in Handlers, NEW g, NEW u, AddMember(h, g, u)
  PROVE  Looks(h)
<1> DEFINE member == Link("group_members", {g, u})
<1>1. member.refs = {g, u}
  BY NewShape
<1>2. \/ Comes(h, Answer("404")) \/ Comes(h, Answer("400"))
      \/ Present(g) /\ Present(u) /\ Comes(h, Insert({member}))
  BY DEF AddMember
<1> HIDE DEF member
<1>3. ASSUME Present(g), Present(u) PROVE Sound(Insert({member}))
  BY <1>1, <1>3 DEF Sound, Insert, Idle, CheckedIn, IdsOf, Present
<1> QED
  BY <1>2, <1>3, AnswersSound, ComesLooks

LEMMA SessionLooks ==
  ASSUME NEW h \in Handlers, NEW a, NEW tasks, NEW k, CreateSession(h, a, tasks, k),
         \A t \in tasks : TableOf(t) = "tasks"
  PROVE  Looks(h)
<1> DEFINE session == New("sessions", k, {a} \cup tasks)
<1>1. session.refs = {a} \cup tasks /\ TableOf(session.id) = "sessions"
  BY NewShape
<1>2. Comes(h, IF Present(a) THEN Insert({session}) ELSE Answer("404"))
  BY DEF CreateSession
<1> HIDE DEF session
<1>3. ASSUME Present(a) PROVE Sound(Insert({session}))
  BY <1>1, <1>3 DEF Sound, Insert, Idle, CheckedIn, Checked, IdsOf, Present
<1> QED
  BY <1>2, <1>3, AnswersSound, ComesLooks

\* What is read to be deleted holds the children of its rows.
LEMMA DeleteLooks ==
  ASSUME NEW h \in Handlers, NEW id, Delete(h, id)
  PROVE  Looks(h)
<1> DEFINE tree == Tree(db, {RowOf(id)}, Relationships)
           r == [Idle EXCEPT !.at = "delete", !.target = id, !.got = tree]
<1>1. Relationships \in SUBSET Cascades
  BY DEF Relationships, Cascades, References
<1>2. \A q \in tree, c \in db :
        q.id \in c.refs /\ <<TableOf(q.id), TableOf(c.id)>> \in Relationships => c \in tree
  BY <1>1, TreeClosed
<1> HIDE DEF tree
<1>3. Sound(r)
  BY <1>2 DEF Sound, Idle
<1>4. Comes(h, IF Present(id) THEN r ELSE Answer("404"))
  BY DEF Delete, tree
<1> HIDE DEF r
<1> QED
  BY <1>3, <1>4, AnswersSound, ComesLooks

LEMMA UpdateLooks ==
  ASSUME NEW h \in Handlers, NEW id, NEW k, Update(h, id, k)
  PROVE  Looks(h)
BY PutsSound, ComesLooks DEF Update

LEMMA ApplyLooks ==
  ASSUME NEW h \in Handlers, NEW d, NEW k, NEW S, AgentApply(h, d, k, S)
  PROVE  Looks(h)
<1> DEFINE send == [Idle EXCEPT !.key = k, !.skills = S, !.cli = "apply"]
<1>1. \A id : /\ Sound([send EXCEPT !.at = "post", !.target = id])
              /\ Sound([send EXCEPT !.at = "put", !.target = id])
  BY OthersSound DEF Idle
<1>2. \E id : \/ Comes(h, [send EXCEPT !.at = "post", !.target = id])
              \/ Comes(h, [send EXCEPT !.at = "put", !.target = id])
  BY DEF AgentApply
<1> HIDE DEF send
<1> QED
  BY <1>1, <1>2, ComesLooks

LEMMA ImportLooks ==
  ASSUME NEW h \in Handlers, NEW k, SkillImport(h, k)
  PROVE  Looks(h)
<1> DEFINE put(id) == [Idle EXCEPT !.at = "put", !.key = k, !.cli = "import", !.target = id]
           post == [Idle EXCEPT !.at = "postSkill", !.key = k, !.cli = "import"]
<1>1. Sound(post) /\ \A id : Sound(put(id))
  BY OthersSound DEF Idle
<1>2. Comes(h, post) \/ \E id : Comes(h, put(id))
  BY DEF SkillImport
<1> HIDE DEF put, post
<1> QED
  BY <1>1, <1>2, ComesLooks

LEMMA SendLooks ==
  ASSUME Shape, AloneInv, NEW h \in Handlers, Send(h)
  PROVE  Looks(h)
<1> DEFINE q == req[h]
           r == CASE q.at = "put" /\ q.cli = "apply" -> PutAgent(q.target, q.key, q.skills)
                  [] q.at = "put" /\ q.cli # "apply" -> PutRow(q.target, q.key)
                  [] q.at = "post"                   -> NewAgent(q.target, q.key, q.skills)
                  [] q.at = "postSkill"              -> CreateKeyed("skills", q.key)
           s == [r EXCEPT !.cli = q.cli, !.key = q.key, !.skills = q.skills]
<1>1. /\ q.at \in {"put", "post", "postSkill"}
      /\ GoesOn(h, s) /\ UNCHANGED overlapped
  BY DEF Send
<1>2. Sound(r) /\ DOMAIN r = DOMAIN Idle
  <2>1. \/ r = PutAgent(q.target, q.key, q.skills) \/ r = PutRow(q.target, q.key)
        \/ r = NewAgent(q.target, q.key, q.skills) \/ r = CreateKeyed("skills", q.key)
    BY <1>1
  <2>2. /\ DOMAIN PutAgent(q.target, q.key, q.skills) = DOMAIN Idle
        /\ DOMAIN PutRow(q.target, q.key) = DOMAIN Idle
        /\ DOMAIN NewAgent(q.target, q.key, q.skills) = DOMAIN Idle
        /\ DOMAIN CreateKeyed("skills", q.key) = DOMAIN Idle
    BY DEF PutAgent, PutRow, NewAgent, CreateKeyed, Insert, Answer, Idle
  <2> HIDE DEF r
  <2> QED
    BY <2>1, <2>2, PutsSound, NewAgentSound, CreateKeyedSound
<1>3. Sound(s)
  <2> HIDE DEF r
  <2>1. s.at = r.at /\ s.new = r.new /\ s.got = r.got
    BY <1>2 DEF Idle
  <2> HIDE DEF s
  <2> QED
    BY <1>2, <2>1 DEF Sound
<1>4. ~overlapped => \A g \in Handlers \ {h} : req[g].at = "idle"
  BY <1>1 DEF AloneInv
<1> HIDE DEF s
<1> QED
  BY <1>1, <1>3, <1>4 DEF Looks

LEMMA AllLook ==
  ASSUME Shape, AloneInv, NEW h \in Handlers, Asks(h)
  PROVE  Looks(h)
<1>1. CASE OrganizationRequests(h)
  BY <1>1, OrganizationLooks, UpdateLooks, DeleteLooks
     DEF OrganizationRequests, UpdateOrganization, DeleteOrganization
<1>2. CASE DomainRequests(h)
  BY <1>2, DomainLooks, UpdateLooks, DeleteLooks DEF DomainRequests, UpdateDomain, DeleteDomain
<1>3. CASE UserRequests(h)
  BY <1>3, CreateKeyedSound, ComesLooks, UpdateLooks, DeleteLooks
     DEF UserRequests, CreateUser, UpdateUser, DeleteUser
<1>4. CASE GroupRequests(h)
  <2>1. \A o, k : Sound(Insert({New("groups", k, {o})}))
    BY NewShape, UncheckedSound
  <2>2. \A o, k : CreateGroup(h, o, k) => Looks(h)
    BY <2>1, ComesLooks DEF CreateGroup
  <2> QED
    BY <1>4, <2>2, MemberLooks, UpdateLooks, DeleteLooks
       DEF GroupRequests, RemoveMember, UpdateGroup, DeleteGroup
<1>5. CASE AgentRequests(h)
  <2>1. \A d, k, S : CreateAgent(h, d, k, S) => Looks(h)
    BY NewAgentSound, ComesLooks DEF CreateAgent
  <2>2. \A a, k, S : UpdateAgent(h, a, k, S) => Looks(h)
    BY PutsSound, ComesLooks DEF UpdateAgent
  <2> QED
    BY <1>5, <2>1, <2>2, ApplyLooks, UpdateLooks, DeleteLooks
       DEF AgentRequests, RenameAgent, DeleteAgent
<1>6. CASE SessionRequests(h)
  <2>1. \A t \in IdsSeen("tasks") : TableOf(t) = "tasks"
    BY DEF IdsSeen, TableOf
  <2>2. PICK a \in IdsSeen("agents"), k \in Names :
          \/ CreateSession(h, a, {}, k)
          \/ \E t \in IdsSeen("tasks") : CreateSession(h, a, {t}, k)
    BY <1>6 DEF SessionRequests
  <2>3. CASE CreateSession(h, a, {}, k)
    BY <2>3, SessionLooks
  <2>4. ASSUME NEW t \in IdsSeen("tasks"), CreateSession(h, a, {t}, k) PROVE Looks(h)
    BY <2>1, <2>4, SessionLooks
  <2> QED
    BY <2>2, <2>3, <2>4
<1>7. CASE TaskRequests(h)
  <2>1. \A a : Sound(Insert({New("tasks", NoKey, {a})}))
    BY NewShape, UncheckedSound
  <2> QED
    BY <1>7, <2>1, ComesLooks DEF TaskRequests, CreateTask
<1>8. CASE SkillRequests(h)
  BY <1>8, CreateKeyedSound, ComesLooks, ImportLooks, UpdateLooks, DeleteLooks
     DEF SkillRequests, CreateSkill, UpdateSkill, DeleteSkill
<1>9. CASE Send(h)
  BY <1>9, SendLooks
<1> QED
  BY <1>1, <1>2, <1>3, <1>4, <1>5, <1>6, <1>7, <1>8, <1>9 DEF Asks

\* A step of h that leaves it sound, and the rows with checked references that are live.
LEMMA StepsAlone ==
  ASSUME NEW h \in Handlers, req \in [Handlers -> Requests], NEW r,
         req' = [req EXCEPT ![h] = r],
         ~overlapped' =>
           /\ \A g \in Handlers \ {h} : req[g].at = "idle"
           /\ Sound(r)'
           /\ CheckedIn(db, IdsOf(db))'
  PROVE  AloneInv'
<1> SUFFICES ASSUME ~overlapped'
             PROVE  /\ \A f, g \in Handlers : req'[f].at # "idle" /\ req'[g].at # "idle" => f = g
                    /\ \A g \in Handlers : Sound(req[g])'
                    /\ CheckedIn(db, IdsOf(db))'
  BY DEF AloneInv
<1>1. req'[h] = r /\ \A g \in Handlers \ {h} : req'[g] = req[g] /\ req'[g].at = "idle"
  OBVIOUS
<1>2. \A g \in Handlers : Sound(req[g])'
  BY <1>1 DEF Sound
<1> QED
  BY <1>1, <1>2

LEMMA AsksAlone ==
  ASSUME Shape, AloneInv, NEW h \in Handlers, Asks(h)
  PROVE  AloneInv'
<1>1. PICK r : Sound(r) /\ GoesOn(h, r)
  BY AllLook DEF Looks
<1>2. ~overlapped' =>
        ~overlapped /\ \A g \in Handlers \ {h} : req[g].at = "idle"
  BY AllLook DEF Looks
<1>3. req' = [req EXCEPT ![h] = r] /\ UNCHANGED <<foreignKeys, db>>
  BY <1>1 DEF GoesOn
<1>4. Sound(r)'
  BY <1>1, <1>3 DEF Sound, CheckedIn, IdsOf, TableOf
<1>5. ~overlapped' => CheckedIn(db, IdsOf(db))'
  BY <1>2, <1>3 DEF AloneInv, CheckedIn, IdsOf
<1> QED
  BY <1>2, <1>3, <1>4, <1>5, StepsAlone DEF Shape, TypeOK

LEMMA WritesAlone ==
  ASSUME Shape, AloneInv, NEW h \in Handlers, req[h].at # "idle",
         NEW r, r.at \notin {"insert", "delete"}, NEW D, Writes(h, r, D),
         ~overlapped => CheckedIn(D, IdsOf(D))
  PROVE  AloneInv'
<1>1. req' = [req EXCEPT ![h] = r] /\ db' = D /\ UNCHANGED overlapped
  BY DEF Writes
<1>2. ~overlapped' => \A g \in Handlers \ {h} : req[g].at = "idle"
  BY <1>1 DEF AloneInv
<1>3. Sound(r)'
  BY DEF Sound
<1>4. ~overlapped' => CheckedIn(db, IdsOf(db))'
  BY <1>1 DEF CheckedIn, IdsOf
<1> QED
  BY <1>1, <1>2, <1>3, <1>4, StepsAlone DEF Shape, TypeOK

LEMMA FailsAlone ==
  ASSUME Shape, AloneInv, NEW h \in Handlers, req[h].at # "idle", NEW status, Fails(h, status)
  PROVE  AloneInv'
<1>1. Answer(status).at \notin {"insert", "delete"}
  BY DEF Answer, Idle
<1>2. ~overlapped => CheckedIn(db, IdsOf(db))
  BY DEF AloneInv
<1> QED
  BY <1>1, <1>2, WritesAlone DEF Fails

\* The rows of D are links to skills and rows of db that keep their ids and references, and
\* of db nothing but links to skills is missing.
LEMMA CheckedKept ==
  ASSUME CheckedIn(db, IdsOf(db)), Schema(db), NEW D,
         \A id \in IdsOf(db) : TableOf(id) # "agent_skills" => id \in IdsOf(D),
         \A r \in D : \/ \E s \in db : s.id = r.id /\ s.refs = r.refs
                      \/ TableOf(r.id) = "agent_skills"
  PROVE  CheckedIn(D, IdsOf(D))
<1> SUFFICES ASSUME NEW r \in D, NEW p \in r.refs, <<TableOf(p), TableOf(r.id)>> \in Checked
             PROVE  p \in IdsOf(D)
  BY DEF CheckedIn
<1>1. TableOf(r.id) # "agent_skills" /\ TableOf(p) # "agent_skills"
  BY DEF Checked
<1>2. PICK s \in db : s.id = r.id /\ s.refs = r.refs
  BY <1>1
<1>3. p \in IdsOf(db)
  BY <1>2 DEF CheckedIn
<1> QED
  BY <1>1, <1>3

LEMMA InsertAlone ==
  ASSUME Shape, AloneInv, NEW h \in Handlers, CommitInsert(h)
  PROVE  AloneInv'
<1> DEFINE new == req[h].new
           next == IF IsSession(new) THEN [Idle EXCEPT !.at = "configmap", !.new = new]
                                     ELSE Answer("ok")
<1>1. req[h].at = "insert"
  BY DEF CommitInsert
<1>2. ASSUME NEW status, Fails(h, status) PROVE AloneInv'
  BY <1>1, <1>2, FailsAlone
<1>3. ASSUME Writes(h, next, db \cup new) PROVE AloneInv'
  <2>1. next.at \notin {"insert", "delete"}
    BY DEF Answer, Idle
  <2>2. ~overlapped => CheckedIn(db \cup new, IdsOf(db \cup new))
    BY <1>1 DEF AloneInv, Sound, CheckedIn, IdsOf
  <2> HIDE DEF new, next
  <2> QED
    BY <1>1, <1>3, <2>1, <2>2, WritesAlone
<1>4. (\E status : Fails(h, status)) \/ Writes(h, next, db \cup new)
  BY DEF CommitInsert
<1> QED
  BY <1>2, <1>3, <1>4

\* What a database deletes beyond rows and all that the ORM deletes with them: nothing owns it.
LEMMA ExtraRows ==
  ASSUME NEW D, NEW S, NEW pairs \in SUBSET Cascades,
         \A q \in S, c \in D :
           q.id \in c.refs /\ <<TableOf(q.id), TableOf(c.id)>> \in Relationships => c \in S,
         NEW x \in Tree(D, S, pairs), x \notin S
  PROVE  TableOf(x.id) \in {"tasks", "agent_skills"}
<1> DEFINE Extra(T) == \A y \in T : y \in S \/ TableOf(y.id) \in {"tasks", "agent_skills"}
<1>1. ASSUME NEW T, Extra(T) PROVE Extra(WithChildren(D, T, pairs))
  <2> SUFFICES ASSUME NEW y \in Children(D, T, pairs), y \notin S
               PROVE  TableOf(y.id) \in {"tasks", "agent_skills"}
    BY <1>1 DEF WithChildren
  <2>1. PICK p \in T : p.id \in y.refs /\ <<TableOf(p.id), TableOf(y.id)>> \in pairs
    BY DEF Children
  <2>2. <<TableOf(p.id), TableOf(y.id)>> \in Cascades /\ y \in D
    BY <2>1 DEF Children
  <2>3. TableOf(p.id) \notin {"tasks", "agent_skills"}
    BY <2>2 DEF Cascades, References
  <2>4. <<TableOf(p.id), TableOf(y.id)>> \notin Relationships
    BY <1>1, <2>1, <2>2, <2>3
  <2> QED
    BY <2>2, <2>4 DEF Cascades, References, Relationships
<1>2. Extra(S)
  OBVIOUS
<1> HIDE DEF Extra
<1>3. Extra(Tree(D, S, pairs))
  BY <1>1, <1>2 DEF Tree
<1> QED
  BY <1>3 DEF Extra

\* A row that stays refers to no row that goes: it would have been read with it.
LEMMA DeleteAlone ==
  ASSUME Shape, AloneInv, NEW h \in Handlers, CommitDelete(h)
  PROVE  AloneInv'
<1> DEFINE gone == {r \in db : r.id \in IdsOf(req[h].got)}
           left == Cascaded(db, gone)
           out == Tree(db, gone, Cascades \cap foreignKeys)
<1>1. req[h].at = "delete" /\ Writes(h, Answer("ok"), left)
  BY DEF CommitDelete
<1>2. Answer("ok").at \notin {"insert", "delete"}
  BY DEF Answer, Idle
<1>3. ASSUME ~overlapped PROVE CheckedIn(left, IdsOf(left))
  <2>1. Sound(req[h]) /\ CheckedIn(db, IdsOf(db)) /\ db \in SUBSET Rows
    BY <1>3 DEF AloneInv, Shape, TypeOK
  <2>2. Checked \subseteq Relationships
    BY DEF Checked, Relationships
  <2>3. ASSUME NEW q \in gone, NEW c \in db,
               q.id \in c.refs, <<TableOf(q.id), TableOf(c.id)>> \in Relationships
        PROVE  c \in gone
    <3>1. PICK read \in req[h].got : read.id = q.id
      BY DEF IdsOf
    <3>2. c \in req[h].got
      BY <1>1, <2>1, <2>3, <3>1 DEF Sound
    <3> QED
      BY <3>2 DEF IdsOf
  <2>4. gone \in SUBSET db
    OBVIOUS
  <2> HIDE DEF gone
  <2>5. ASSUME NEW r \in db, r \notin out, NEW p \in r.refs,
               <<TableOf(p), TableOf(r.id)>> \in Checked
        PROVE  p \in IdsOf(db \ out)
    <3>1. PICK q \in db : q.id = p
      BY <2>1, <2>5 DEF CheckedIn, IdsOf
    <3>2. gone \subseteq out
      BY <2>4, TreeWithin
    <3>3. q \notin gone
      BY <2>2, <2>3, <2>5, <3>1, <3>2
    <3>4. q \notin out
      <4>1. TableOf(q.id) \notin {"tasks", "agent_skills"}
        BY <2>5, <3>1 DEF Checked
      <4> QED
        BY <2>3, <3>3, <4>1, ExtraRows
    <3> QED
      BY <3>1, <3>4 DEF IdsOf
  <2>6. PICK tasks \in SUBSET {p \in EntityIds : TableOf(p) = "tasks"} :
          LET Left(r) == [r EXCEPT !.refs = @ \ tasks]
          IN  /\ left = {Left(r) : r \in db \ out}
              /\ \A r \in db : Left(r) \in Rows /\ Left(r).id = r.id /\ Left(r).refs = r.refs \ tasks
    BY <2>1, <2>4, CascadedIs
  <2> HIDE DEF left, out
  <2>7. IdsOf(left) = IdsOf(db \ out)
    <3> DEFINE Left(r) == [r EXCEPT !.refs = @ \ tasks]
    <3>1. left = {Left(r) : r \in db \ out} /\ \A r \in db : Left(r).id = r.id
      BY <2>6
    <3> HIDE DEF Left
    <3> QED
      BY <3>1 DEF IdsOf
  <2>8. \A x \in left : \E r \in db : r \notin out /\ x.id = r.id /\ x.refs \subseteq r.refs
    BY <2>6
  <2> QED
    BY <2>5, <2>7, <2>8 DEF CheckedIn
<1> HIDE DEF left
<1> QED
  BY <1>1, <1>2, <1>3, WritesAlone

LEMMA UpdateAlone ==
  ASSUME Shape, AloneInv, NEW h \in Handlers, CommitUpdate(h)
  PROVE  AloneInv'
<1> DEFINE id == req[h].target
           others == db \ {RowOf(id)}
           row == Renamed(id, req[h].key)
<1>1. req[h].at = "update"
  BY DEF CommitUpdate
<1>2. Fails(h, "500") \/ (Present(id) /\ Writes(h, Answer("ok"), others \cup {row}))
  BY DEF CommitUpdate
<1>3. CASE Fails(h, "500")
  BY <1>1, <1>3, FailsAlone
<1>4. CASE Present(id) /\ Writes(h, Answer("ok"), others \cup {row})
  <2>1. Answer("ok").at \notin {"insert", "delete"}
    BY DEF Answer, Idle
  <2>2. RowOf(id) \in db /\ RowOf(id).id = id
    BY <1>4, RowOfPresent
  <2>3. req[h].key \in Seq(Labels)
    BY DEF Shape, TypeOK, Requests
  <2>4. row.id = id /\ row.refs = RowOf(id).refs
    BY <1>4, <2>3, RenamedShape
  <2> HIDE DEF id, row
  <2>5. ASSUME ~overlapped
        PROVE  CheckedIn(others \cup {row}, IdsOf(others \cup {row}))
    <3>1. CheckedIn(db, IdsOf(db)) /\ Schema(db)
      BY <2>5 DEF AloneInv, Shape
    <3>2. \A i \in IdsOf(db) : i \in IdsOf(others \cup {row})
      BY <2>2, <2>4 DEF IdsOf
    <3>3. \A r \in others \cup {row} : \E s \in db : s.id = r.id /\ s.refs = r.refs
      BY <2>2, <2>4
    <3> HIDE DEF others
    <3> QED
      BY <3>1, <3>2, <3>3, CheckedKept
  <2> HIDE DEF others
  <2> QED
    BY <1>1, <1>4, <2>1, <2>5, WritesAlone
<1> QED
  BY <1>2, <1>3, <1>4

LEMMA UpdateAgentAlone ==
  ASSUME Shape, AloneInv, NEW h \in Handlers, CommitUpdateAgent(h)
  PROVE  AloneInv'
<1> DEFINE a == req[h].target
           links == SkillLinks(a, req[h].skills)
           others == {r \in db : r.id # a /\ r.id \notin IdsOf(req[h].got)}
           row == Renamed(a, req[h].key)
           new == IF Present(a) THEN {row} \cup links ELSE links
<1>1. req[h].at = "updateAgent"
  BY DEF CommitUpdateAgent
<1>2. \/ \E status : Fails(h, status)
      \/ \E status : Writes(h, Answer(status), others \cup new)
  BY DEF CommitUpdateAgent
<1>3. ASSUME NEW status, Fails(h, status) PROVE AloneInv'
  BY <1>1, <1>3, FailsAlone
<1>4. \A r \in links : TableOf(r.id) = "agent_skills"
  BY NewShape DEF SkillLinks
<1>5. \A i \in IdsOf(req[h].got) : TableOf(i) = "agent_skills"
  BY <1>1 DEF Shape, Proper, IdsOf
<1>6. ASSUME Present(a)
      PROVE  RowOf(a) \in db /\ row.id = a /\ RowOf(a).id = a /\ row.refs = RowOf(a).refs
  <2>1. req[h].key \in Seq(Labels)
    BY DEF Shape, TypeOK, Requests
  <2> QED
    BY <1>6, <2>1, RowOfPresent, RenamedShape
<1> HIDE DEF a, links, row
<1>7. ASSUME ~overlapped
      PROVE  CheckedIn(others \cup new, IdsOf(others \cup new))
  <2>1. CheckedIn(db, IdsOf(db)) /\ Schema(db)
    BY <1>7 DEF AloneInv, Shape
  <2>2. ASSUME NEW i \in IdsOf(db), TableOf(i) # "agent_skills"
        PROVE  i \in IdsOf(others \cup new)
    <3>1. PICK r \in db : r.id = i
      BY DEF IdsOf
    <3>2. CASE i = a
      <4>1. Present(a)
        BY <3>2 DEF Present
      <4> QED
        BY <1>6, <3>2, <4>1 DEF IdsOf
    <3>3. CASE i # a
      <4>1. r \in others
        BY <1>5, <2>2, <3>1, <3>3
      <4> QED
        BY <3>1, <4>1 DEF IdsOf
    <3> QED
      BY <3>2, <3>3
  <2>3. \A r \in others \cup new : \/ \E s \in db : s.id = r.id /\ s.refs = r.refs
                                   \/ TableOf(r.id) = "agent_skills"
    BY <1>4, <1>6
  <2> HIDE DEF others, new
  <2> QED
    BY <2>1, <2>2, <2>3, CheckedKept
<1>8. ASSUME NEW status, Writes(h, Answer(status), others \cup new) PROVE AloneInv'
  <2>1. Answer(status).at \notin {"insert", "delete"}
    BY DEF Answer, Idle
  <2> HIDE DEF others, new
  <2> QED
    BY <1>1, <1>7, <1>8, <2>1, WritesAlone
<1> QED
  BY <1>2, <1>3, <1>8

LEMMA LaunchAlone ==
  ASSUME Shape, AloneInv, NEW h \in Handlers, MakeConfigMap(h) \/ MakeCR(h)
  PROVE  AloneInv'
<1>1. /\ req[h].at \in {"configmap", "cr"} /\ req \in [Handlers -> Requests]
      /\ UNCHANGED <<foreignKeys, db, overlapped>>
  BY DEF MakeConfigMap, MakeCR, rows, history, Shape, TypeOK
<1>2. PICK r : r.at \notin {"insert", "delete"} /\ req' = [req EXCEPT ![h] = r]
  <2>1. \A status : Answer(status).at = "idle"
    BY DEF Answer, Idle
  <2>2. ASSUME NEW k, ToCR(h, k)
        PROVE  \E r : r.at \notin {"insert", "delete"} /\ req' = [req EXCEPT ![h] = r]
    <3>1. req[h] \in Requests /\ req' = [req EXCEPT ![h] = [req[h] EXCEPT !.at = "cr", !.key = k]]
      BY <1>1, <2>2 DEF ToCR
    <3>2. [req[h] EXCEPT !.at = "cr", !.key = k].at = "cr"
      BY <3>1 DEF Requests
    <3> QED
      BY <3>1, <3>2
  <2>3. (\E k : ToCR(h, k)) \/ \E status : req' = [req EXCEPT ![h] = Answer(status)]
    BY DEF MakeConfigMap, MakeCR
  <2> QED
    BY <2>1, <2>2, <2>3
<1>3. ~overlapped' =>
        (\A g \in Handlers \ {h} : req[g].at = "idle") /\ CheckedIn(db, IdsOf(db))'
  BY <1>1 DEF AloneInv, CheckedIn, IdsOf
<1>4. Sound(r)'
  BY <1>2 DEF Sound
<1> QED
  BY <1>1, <1>2, <1>3, <1>4, StepsAlone

LEMMA AloneNext == Shape /\ AloneInv /\ [Next]_vars => AloneInv'
<1> SUFFICES ASSUME Shape, AloneInv, [Next]_vars PROVE AloneInv'
  OBVIOUS
<1>1. CASE UNCHANGED vars
  <2>1. UNCHANGED <<foreignKeys, db, req, overlapped>>
    BY <1>1 DEF vars, rows, history
  <2> QED
    BY <2>1 DEF AloneInv, Sound, CheckedIn, IdsOf
<1>2. CASE Next
  <2>1. PICK h \in Handlers :
          \/ Asks(h) \/ CommitInsert(h) \/ CommitDelete(h) \/ CommitUpdate(h)
          \/ CommitUpdateAgent(h) \/ MakeConfigMap(h) \/ MakeCR(h)
    BY <1>2 DEF Next, Asks
  <2> QED
    BY <2>1, AsksAlone, InsertAlone, DeleteAlone, UpdateAlone, UpdateAgentAlone, LaunchAlone
<1> QED
  BY <1>1, <1>2

LEMMA AloneInit == Init => AloneInv
<1> SUFFICES ASSUME Init PROVE AloneInv
  OBVIOUS
<1>1. db = Seed /\ req = [h \in Handlers |-> Idle]
  BY DEF Init
<1>2. CheckedIn(db, IdsOf(db))
  BY <1>1, SeedAssumption DEF CheckedIn
<1>3. Sound(Idle) /\ Idle.at = "idle"
  BY DEF Sound, Idle
<1> QED
  BY <1>1, <1>2, <1>3 DEF AloneInv

-----------------------------------------------------------------------------
(* Ids: each row is made with the next one of its table, and no row, request or    *)
(* reference has one that is yet to come. What a handler is about to insert is in    *)
(* nobody else's hands.                                                      *)

GroupNames == Suffixes \cup {<<"default">>}

Known(id) == id[2] <= made[id[1]]

Counted(S) ==
  \A r \in S : /\ \A p \in r.refs : Known(p)
               /\ r.id \in EntityIds => Known(r.id)

Distinct(S) == \A r, s \in S : r.id = s.id /\ r.id \in EntityIds => r = s

\* d has in S the group of its name that is made with it.
WithGroup(d, S) ==
  \E g \in S, o \in Identifiers :
    /\ TableOf(g.id) = "groups" /\ g.refs = d.refs /\ d.key = o \o g.key
    /\ g.key \in GroupNames

\* The rows of a request that inserts, as they are when it gets their ids.
Makes(new) ==
  /\ \A x \in new : x.id \in EntityIds => x.id[2] = made[x.id[1]] + 1
  /\ \A x \in new : \A p \in x.refs : Known(p) \/ p \in IdsOf(new)
  /\ Distinct(new)
  /\ \A x \in new : TableOf(x.id) = "organizations" => x.key \in Identifiers
  /\ \A x \in new : TableOf(x.id) = "domains" => WithGroup(x, new)

\* A request after its reads.
Careful(r) ==
  /\ Makes(r.new)
  /\ r.new # {} => r.at = "insert"
  /\ r.got \subseteq db
  /\ r.at = "delete" =>
       \E root \in db : root.id = r.target /\ r.got = Tree(db, {root}, Relationships)
  /\ \A p \in r.skills : Known(p)
  /\ r.target \in EntityIds => Known(r.target)
  /\ r.answer # "ok"
  /\ r.cli = "apply" => r.at \in {"idle", "put", "post", "insert", "updateAgent"}

\* What an apply that is alone has found out, or has been told.
Ready(r) ==
  /\ r.at = "post" =>
       \A a \in Of("agents") : ~(a.key = r.key /\ r.target \in a.refs)
  /\ r.at = "updateAgent" =>
       \A l \in Of("agent_skills") : r.target \in l.refs => l.id \in IdsOf(r.got)
  /\ r.at = "insert" /\ r.cli = "apply" =>
       \E agent \in r.new :
         /\ TableOf(agent.id) = "agents" /\ agent.key = r.key
         /\ r.new = {agent} \cup SkillLinks(agent.id, r.skills)
         /\ \A l \in db : agent.id \notin l.refs
         /\ \A a \in Of("agents") : ~(a.key = agent.key /\ a.refs = agent.refs)

\* h goes on with a careful request; one that does not overlap is alone.
Turns(h) ==
  \E r : /\ Careful(r) /\ GoesOn(h, r)
         /\ ~overlapped' =>
              /\ ~overlapped /\ \A g \in Handlers \ {h} : req[g].at = "idle"
              /\ Ready(r)

LEMMA KnownSeen ==
  ASSUME NEW t, NEW id \in IdsSeen(t)
  PROVE  Known(id) /\ TableOf(id) = t
BY DEF IdsSeen, Known, TableOf

LEMMA ComesTurns ==
  ASSUME NEW h \in Handlers, NEW r, Careful(r), Ready(r), Comes(h, r)
  PROVE  Turns(h)
BY DEF Comes, Turns

\* Requests that neither insert nor delete.
LEMMA QuietCareful ==
  ASSUME NEW r, r.new = {}, r.got \subseteq db, r.at # "delete",
         \A p \in r.skills : Known(p), r.target \in EntityIds => Known(r.target),
         r.answer # "ok",
         r.cli = "apply" => r.at \in {"idle", "put", "post", "insert", "updateAgent"}
  PROVE  Careful(r)
BY DEF Careful, Makes, Distinct

LEMMA NoEntity == NoId \notin EntityIds
BY DEF NoId, EntityIds

LEMMA AnswersCareful ==
  ASSUME NEW status \in {"none", "400", "404"}
  PROVE  Careful(Answer(status)) /\ Ready(Answer(status))
<1>1. /\ Answer(status).new = {} /\ Answer(status).got = {} /\ Answer(status).at = "idle"
      /\ Answer(status).skills = {} /\ Answer(status).target = NoId
      /\ Answer(status).cli = "none" /\ Answer(status).answer = status
  BY DEF Answer, Idle
<1>2. Careful(Answer(status))
  BY <1>1, NoEntity, QuietCareful
<1> QED
  BY <1>1, <1>2 DEF Ready

LEMMA InsertsCareful ==
  ASSUME NEW new, Makes(new)
  PROVE  Careful(Insert(new)) /\ Ready(Insert(new))
<1>1. /\ Insert(new).new = new /\ Insert(new).got = {} /\ Insert(new).at = "insert"
      /\ Insert(new).skills = {} /\ Insert(new).target = NoId
      /\ Insert(new).cli = "none" /\ Insert(new).answer = "none"
  BY DEF Insert, Idle
<1> QED
  BY <1>1, NoEntity DEF Careful, Ready

\* A row of an entity, as it is made.
LEMMA NewIs ==
  ASSUME NEW t, NEW k, NEW S
  PROVE  LET x == New(t, k, S) IN
         /\ x.id = <<t, made[t] + 1>> /\ x.key = k /\ x.refs = S
         /\ TableOf(x.id) = t /\ x.id[1] = t /\ x.id[2] = made[t] + 1
BY DEF New, Row, TableOf

LEMMA LinkIs ==
  ASSUME NEW t, NEW S
  PROVE  /\ Link(t, S).id = <<t, S>> /\ Link(t, S).refs = S
         /\ TableOf(Link(t, S).id) = t
BY DEF Link, TableOf

LEMMA MakesOne ==
  ASSUME NEW t, NEW k, NEW S, t \notin {"organizations", "domains"}, \A p \in S : Known(p)
  PROVE  Makes({New(t, k, S)})
<1> DEFINE x == New(t, k, S)
<1>1. x.refs = S /\ TableOf(x.id) = t /\ x.id[1] = t /\ x.id[2] = made[t] + 1
  BY NewIs
<1> HIDE DEF x
<1>2. Makes({x})
  BY <1>1 DEF Makes, Distinct
<1> QED
  BY <1>2 DEF x

LEMMA MakesLink ==
  ASSUME NEW S, \A p \in S : Known(p)
  PROVE  Makes({Link("group_members", S)})
<1> DEFINE x == Link("group_members", S)
<1>1. x.refs = S /\ TableOf(x.id) = "group_members"
  BY LinkIs
<1>2. x.id \notin EntityIds
  BY <1>1, LinksAreNoEntities DEF Links
<1> HIDE DEF x
<1>3. Makes({x})
  BY <1>1, <1>2 DEF Makes, Distinct
<1> QED
  BY <1>3 DEF x

LEMMA MakesOrganization ==
  ASSUME NEW k \in Identifiers
  PROVE  LET org == New("organizations", k, {}) IN
         Makes({org, New("domains", k \o <<"default">>, {org.id}),
                New("groups", <<"default">>, {org.id})})
<1> DEFINE org == New("organizations", k, {})
           name == k \o <<"default">>
           dom == New("domains", name, {org.id})
           grp == New("groups", <<"default">>, {org.id})
           new == {org, dom, grp}
<1>1. /\ org.refs = {} /\ org.key = k
      /\ TableOf(org.id) = "organizations" /\ org.id[1] = "organizations"
      /\ org.id[2] = made["organizations"] + 1
  BY NewIs
<1> HIDE DEF org, name
<1>2. /\ dom.refs = {org.id} /\ dom.key = name
      /\ TableOf(dom.id) = "domains" /\ dom.id[1] = "domains"
      /\ dom.id[2] = made["domains"] + 1
  BY NewIs
<1>3. /\ grp.refs = {org.id} /\ grp.key = <<"default">>
      /\ TableOf(grp.id) = "groups" /\ grp.id[1] = "groups"
      /\ grp.id[2] = made["groups"] + 1
  BY NewIs
<1> HIDE DEF dom, grp
<1>4. \A x \in new : x.id \in EntityIds => x.id[2] = made[x.id[1]] + 1
  BY <1>1, <1>2, <1>3
<1>5. \A x \in new : \A p \in x.refs : Known(p) \/ p \in IdsOf(new)
  <2>1. org.id \in IdsOf(new)
    BY DEF IdsOf
  <2> QED
    BY <1>1, <1>2, <1>3, <2>1
<1>6. Distinct(new)
  BY <1>1, <1>2, <1>3 DEF Distinct
<1>7. \A x \in new : TableOf(x.id) = "organizations" => x.key \in Identifiers
  BY <1>1, <1>2, <1>3
<1>8. \A x \in new : TableOf(x.id) = "domains" => WithGroup(x, new)
  <2>1. WithGroup(dom, new)
    BY <1>2, <1>3 DEF WithGroup, GroupNames, name
  <2> QED
    BY <1>1, <1>2, <1>3, <2>1
<1> QED
  BY <1>4, <1>5, <1>6, <1>7, <1>8 DEF Makes, org, name, dom, grp

LEMMA MakesDomain ==
  ASSUME NEW o, Known(o), NEW i \in Identifiers, NEW suffix \in Suffixes
  PROVE  Makes({New("domains", i \o suffix, {o}), New("groups", suffix, {o})})
<1> DEFINE name == i \o suffix
           dom == New("domains", name, {o})
           grp == New("groups", suffix, {o})
           new == {dom, grp}
<1> HIDE DEF name
<1>2. /\ dom.refs = {o} /\ dom.key = name
      /\ TableOf(dom.id) = "domains" /\ dom.id[1] = "domains"
      /\ dom.id[2] = made["domains"] + 1
  BY NewIs
<1>3. /\ grp.refs = {o} /\ grp.key = suffix
      /\ TableOf(grp.id) = "groups" /\ grp.id[1] = "groups"
      /\ grp.id[2] = made["groups"] + 1
  BY NewIs
<1> HIDE DEF dom, grp
<1>4. WithGroup(dom, new)
  BY <1>2, <1>3 DEF WithGroup, GroupNames, name
<1>5. /\ \A x \in new : x.id \in EntityIds => x.id[2] = made[x.id[1]] + 1
      /\ \A x \in new : \A p \in x.refs : Known(p)
  BY <1>2, <1>3
<1>6. Distinct(new)
  BY <1>2, <1>3 DEF Distinct
<1>7. /\ \A x \in new : TableOf(x.id) # "organizations"
      /\ \A x \in new : TableOf(x.id) = "domains" => WithGroup(x, new)
  BY <1>2, <1>3, <1>4
<1> HIDE DEF new
<1>8. Makes(new)
  BY <1>5, <1>6, <1>7 DEF Makes
<1> QED
  BY <1>8 DEF new, name, dom, grp

LEMMA SkillLinksAre ==
  ASSUME NEW a, NEW S, NEW l \in SkillLinks(a, S)
  PROVE  /\ TableOf(l.id) = "agent_skills" /\ l.id \notin EntityIds
         /\ a \in l.refs /\ \A p \in l.refs : p = a \/ p \in S
<1>1. PICK s \in S : l = Link("agent_skills", {a, s})
  BY DEF SkillLinks
<1>2. l.refs = {a, s} /\ TableOf(l.id) = "agent_skills"
  BY <1>1, LinkIs
<1>3. l.id \notin EntityIds
  BY <1>2, LinksAreNoEntities DEF Links
<1> QED
  BY <1>2, <1>3

LEMMA MakesAgent ==
  ASSUME NEW d, Known(d), NEW k, NEW S, \A s \in S : Known(s)
  PROVE  LET agent == New("agents", k, {d}) IN Makes({agent} \cup SkillLinks(agent.id, S))
<1> DEFINE agent == New("agents", k, {d})
           links == SkillLinks(agent.id, S)
           new == {agent} \cup links
<1>1. /\ agent.refs = {d} /\ TableOf(agent.id) = "agents" /\ agent.id[1] = "agents"
      /\ agent.id[2] = made["agents"] + 1
  BY NewIs
<1> HIDE DEF agent
<1>2. \A l \in links : /\ TableOf(l.id) = "agent_skills" /\ l.id \notin EntityIds
                       /\ \A p \in l.refs : p = agent.id \/ p \in S
  BY SkillLinksAre
<1> HIDE DEF links
<1>3. agent.id \in IdsOf(new)
  BY DEF IdsOf
<1>4. /\ \A x \in new : x.id \in EntityIds => x = agent
      /\ \A x \in new : TableOf(x.id) \notin {"organizations", "domains"}
      /\ \A x \in new : \A p \in x.refs : Known(p) \/ p \in IdsOf(new)
  BY <1>1, <1>2, <1>3
<1> HIDE DEF new
<1>5. Makes(new)
  BY <1>1, <1>4 DEF Makes, Distinct
<1> QED
  BY <1>5 DEF new, links, agent

-----------------------------------------------------------------------------
(* Every request goes on with care.                                          *)

\* Everything that anyone holds has been made.
CountInv ==
  /\ Counted(db)
  /\ \A h \in Handlers :
       /\ Counted(req[h].new) /\ Counted(req[h].got)
       /\ \A p \in req[h].skills : Known(p)
       /\ req[h].target \in EntityIds => Known(req[h].target)

OrganizationKeys == \A r \in Of("organizations") : r.key \in Identifiers

ApplyInv ==
  /\ \A h \in Handlers :
       req[h].cli = "apply" =>
         req[h].answer # "ok" /\ req[h].at \in {"idle", "put", "post", "insert", "updateAgent"}
  /\ ~overlapped =>
       /\ \A g, h \in Handlers : req[g].at # "idle" /\ req[h].at # "idle" => g = h
       /\ \A h \in Handlers : Ready(req[h])

LEMMA OrganizationTurns ==
  ASSUME NEW h \in Handlers, NEW k \in Identifiers, CreateOrganization(h, k)
  PROVE  Turns(h)
<1> DEFINE org == New("organizations", k, {})
           new == {org, New("domains", k \o <<"default">>, {org.id}),
                   New("groups", <<"default">>, {org.id})}
<1>1. Makes(new)
  BY MakesOrganization
<1>2. Comes(h, IF Taken("organizations", k) THEN Answer("400") ELSE Insert(new))
  BY DEF CreateOrganization
<1> HIDE DEF new
<1> QED
  BY <1>1, <1>2, InsertsCareful, AnswersCareful, ComesTurns

LEMMA DomainTurns ==
  ASSUME OrganizationKeys, NEW h \in Handlers, NEW o \in IdsSeen("organizations"),
         NEW suffix \in Suffixes, CreateDomain(h, o, suffix)
  PROVE  Turns(h)
<1> DEFINE i == RowOf(o).key
           new == {New("domains", i \o suffix, {o}), New("groups", suffix, {o})}
<1>1. ASSUME Present(o) PROVE Makes(new)
  <2>1. Known(o) /\ TableOf(o) = "organizations"
    BY KnownSeen
  <2>2. i \in Identifiers
    BY <1>1, <2>1, RowOfPresent DEF OrganizationKeys, Of
  <2> HIDE DEF i
  <2> QED
    BY <2>1, <2>2, MakesDomain
<1>2. Comes(h, IF ~Present(o) THEN Answer("404")
               ELSE IF Taken("domains", i \o suffix) THEN Answer("400") ELSE Insert(new))
  BY DEF CreateDomain
<1> HIDE DEF new
<1> QED
  BY <1>1, <1>2, InsertsCareful, AnswersCareful, ComesTurns

LEMMA OneTurns ==
  ASSUME NEW h \in Handlers, NEW t, NEW k, NEW S, t \notin {"organizations", "domains"},
         \A p \in S : Known(p)
  PROVE  Comes(h, Insert({New(t, k, S)})) => Turns(h)
<1>1. Makes({New(t, k, S)})
  BY MakesOne
<1> QED
  BY <1>1, InsertsCareful, ComesTurns

LEMMA KeyedCareful ==
  ASSUME NEW t \in {"users", "skills"}, NEW k
  PROVE  Careful(CreateKeyed(t, k)) /\ Ready(CreateKeyed(t, k))
<1>1. Makes({New(t, k, {})})
  BY MakesOne
<1> QED
  BY <1>1, InsertsCareful, AnswersCareful DEF CreateKeyed

LEMMA MemberTurns ==
  ASSUME NEW h \in Handlers, NEW g \in IdsSeen("groups"), NEW u \in IdsSeen("users"),
         AddMember(h, g, u)
  PROVE  Turns(h)
<1>1. \A p \in {g, u} : Known(p)
  BY KnownSeen
<1>2. Makes({Link("group_members", {g, u})})
  BY <1>1, MakesLink
<1>3. \/ Comes(h, Answer("404")) \/ Comes(h, Answer("400"))
      \/ Comes(h, Insert({Link("group_members", {g, u})}))
  BY DEF AddMember
<1> QED
  BY <1>2, <1>3, InsertsCareful, AnswersCareful, ComesTurns

LEMMA SessionTurns ==
  ASSUME NEW h \in Handlers, NEW a \in IdsSeen("agents"), NEW tasks \in SUBSET IdsSeen("tasks"),
         NEW k, CreateSession(h, a, tasks, k)
  PROVE  Turns(h)
<1> DEFINE S == {a} \cup tasks
<1>1. \A p \in S : Known(p)
  BY KnownSeen
<1>2. Comes(h, IF Present(a) THEN Insert({New("sessions", k, S)}) ELSE Answer("404"))
  BY DEF CreateSession
<1> HIDE DEF S
<1>3. Makes({New("sessions", k, S)})
  BY <1>1, MakesOne
<1> QED
  BY <1>2, <1>3, InsertsCareful, AnswersCareful, ComesTurns

LEMMA PutRowCareful ==
  ASSUME NEW id, NEW k, id \in EntityIds => Known(id)
  PROVE  Careful(PutRow(id, k)) /\ Ready(PutRow(id, k))
<1> DEFINE r == [Idle EXCEPT !.at = "update", !.target = id, !.key = k]
<1>1. /\ r.new = {} /\ r.got = {} /\ r.at = "update" /\ r.skills = {} /\ r.target = id
      /\ r.cli = "none" /\ r.answer = "none"
  BY DEF Idle
<1> HIDE DEF r
<1>2. Careful(r) /\ Ready(r)
  BY <1>1, QuietCareful DEF Ready
<1> QED
  BY <1>2, AnswersCareful DEF PutRow, r

LEMMA PutAgentCareful ==
  ASSUME NEW a, TableOf(a) = "agents", Known(a), NEW k, NEW S, \A s \in S : Known(s)
  PROVE  Careful(PutAgent(a, k, S)) /\ Ready(PutAgent(a, k, S))
<1> DEFINE links == Children(db, {RowOf(a)}, {<<"agents", "agent_skills">>})
           r == [Idle EXCEPT !.at = "updateAgent", !.target = a, !.key = k, !.skills = S,
                             !.got = links]
<1>1. /\ r.new = {} /\ r.got = links /\ r.at = "updateAgent" /\ r.skills = S /\ r.target = a
      /\ r.cli = "none" /\ r.answer = "none"
  BY DEF Idle
<1>2. links \subseteq db
  BY DEF Children
<1>3. ASSUME Present(a), NEW l \in Of("agent_skills"), a \in l.refs PROVE l \in links
  <2>1. RowOf(a).id = a
    BY <1>3, RowOfPresent
  <2> QED
    BY <1>3, <2>1 DEF Children, Of
<1> HIDE DEF r, links
<1>4. Careful(r)
  BY <1>1, <1>2, QuietCareful
<1>5. ASSUME Present(a) PROVE Ready(r)
  BY <1>1, <1>3, <1>5 DEF Ready, IdsOf
<1> QED
  BY <1>4, <1>5, AnswersCareful DEF PutAgent, r, links

LEMMA DeleteTurns ==
  ASSUME NEW h \in Handlers, NEW id, id \in EntityIds => Known(id), Delete(h, id)
  PROVE  Turns(h)
<1> DEFINE tree == Tree(db, {RowOf(id)}, Relationships)
           r == [Idle EXCEPT !.at = "delete", !.target = id, !.got = tree]
<1>1. /\ r.new = {} /\ r.got = tree /\ r.at = "delete" /\ r.skills = {} /\ r.target = id
      /\ r.cli = "none" /\ r.answer = "none"
  BY DEF Idle
<1>2. ASSUME Present(id) PROVE Careful(r) /\ Ready(r)
  <2>1. RowOf(id) \in db /\ RowOf(id).id = id
    BY <1>2, RowOfPresent
  <2>2. tree \subseteq db
    BY <2>1 DEF Tree, WithChildren, Children
  <2>3. \E root \in db : root.id = id /\ tree = Tree(db, {root}, Relationships)
    BY <2>1
  <2> HIDE DEF tree, r
  <2> QED
    BY <1>1, <2>2, <2>3 DEF Careful, Ready, Makes, Distinct
<1>3. Comes(h, IF Present(id) THEN r ELSE Answer("404"))
  BY DEF Delete
<1> HIDE DEF r
<1> QED
  BY <1>2, <1>3, AnswersCareful, ComesTurns

LEMMA RowTurns ==
  ASSUME NEW h \in Handlers, NEW t, NEW id \in IdsSeen(t)
  PROVE  /\ Delete(h, id) => Turns(h)
         /\ \A k : Update(h, id, k) => Turns(h)
<1>1. Known(id)
  BY KnownSeen
<1> QED
  BY <1>1, DeleteTurns, PutRowCareful, ComesTurns DEF Update

LEMMA RemoveTurns ==
  ASSUME NEW h \in Handlers, NEW g, NEW u, RemoveMember(h, g, u)
  PROVE  Turns(h)
<1>1. <<"group_members", {g, u}>> \notin EntityIds
  BY LinksAreNoEntities DEF TableOf, Links
<1> QED
  BY <1>1, DeleteTurns DEF RemoveMember

LEMMA NewAgentCareful ==
  ASSUME NEW d, Known(d), NEW k, NEW S, \A s \in S : Known(s)
  PROVE  Careful(NewAgent(d, k, S)) /\ Ready(NewAgent(d, k, S))
BY MakesAgent, InsertsCareful DEF NewAgent

LEMMA ApplyTurns ==
  ASSUME Shape, CountInv, NEW h \in Handlers, NEW d \in IdsSeen("domains"), NEW k,
         NEW S \in SUBSET IdsSeen("skills"), AgentApply(h, d, k, S)
  PROVE  Turns(h)
<1> DEFINE matches == {a \in Of("agents") : a.key = k /\ d \in a.refs}
           send == [Idle EXCEPT !.key = k, !.skills = S, !.cli = "apply"]
           post == [send EXCEPT !.at = "post", !.target = d]
           put(a) == [send EXCEPT !.at = "put", !.target = a]
<1>1. Known(d) /\ \A s \in S : Known(s)
  BY KnownSeen
<1>2. /\ post.new = {} /\ post.got = {} /\ post.at = "post" /\ post.skills = S
      /\ post.target = d /\ post.key = k /\ post.cli = "apply" /\ post.answer = "none"
  BY DEF Idle
<1>3. \A a : /\ put(a).new = {} /\ put(a).got = {} /\ put(a).at = "put" /\ put(a).skills = S
             /\ put(a).target = a /\ put(a).key = k /\ put(a).cli = "apply"
             /\ put(a).answer = "none"
  BY DEF Idle
<1>4. \/ matches = {} /\ Comes(h, post)
      \/ \E a \in matches : Comes(h, put(a.id))
  BY DEF AgentApply
<1> HIDE DEF post, put
<1>5. Careful(post)
  BY <1>1, <1>2, QuietCareful
<1>6. ASSUME matches = {} PROVE Ready(post)
  BY <1>2, <1>6 DEF Ready
<1>7. ASSUME NEW a \in matches PROVE Careful(put(a.id)) /\ Ready(put(a.id))
  <2>1. a.id \in EntityIds => Known(a.id)
    BY DEF CountInv, Counted, Of
  <2>2. Careful(put(a.id))
    BY <1>1, <1>3, <2>1, QuietCareful
  <2> QED
    BY <1>3, <2>2 DEF Ready
<1> HIDE DEF matches
<1> QED
  BY <1>4, <1>5, <1>6, <1>7, ComesTurns

LEMMA ImportTurns ==
  ASSUME CountInv, NEW h \in Handlers, NEW k, SkillImport(h, k)
  PROVE  Turns(h)
<1> DEFINE skill == CHOOSE s \in Of("skills") : s.key = k
           put == [Idle EXCEPT !.at = "put", !.key = k, !.cli = "import", !.target = skill.id]
           post == [Idle EXCEPT !.at = "postSkill", !.key = k, !.cli = "import"]
<1>1. ASSUME Taken("skills", k) PROVE skill.id \in EntityIds => Known(skill.id)
  <2>1. skill \in Of("skills")
    BY <1>1 DEF Taken
  <2> HIDE DEF skill
  <2> QED
    BY <2>1 DEF Of, CountInv, Counted
<1> HIDE DEF skill
<1>2. /\ put.new = {} /\ put.got = {} /\ put.at = "put" /\ put.skills = {}
      /\ put.target = skill.id /\ put.cli = "import" /\ put.answer = "none"
      /\ post.new = {} /\ post.got = {} /\ post.at = "postSkill" /\ post.skills = {}
      /\ post.target = NoId /\ post.cli = "import" /\ post.answer = "none"
  BY DEF Idle
<1>3. Comes(h, IF Taken("skills", k) THEN put ELSE post)
  BY DEF SkillImport, skill
<1> HIDE DEF put, post
<1>4. Careful(post) /\ Ready(post)
  BY <1>2, NoEntity, QuietCareful DEF Ready
<1>5. ASSUME Taken("skills", k) PROVE Careful(put) /\ Ready(put)
  BY <1>1, <1>2, <1>5, QuietCareful DEF Ready
<1> QED
  BY <1>3, <1>4, <1>5, ComesTurns

\* The second request of a command keeps what the command is about.
LEMMA SendTurns ==
  ASSUME Shape, CountInv, ApplyInv, NEW h \in Handlers, Send(h)
  PROVE  Turns(h)
<1> DEFINE q == req[h]
           r == CASE q.at = "put" /\ q.cli = "apply" -> PutAgent(q.target, q.key, q.skills)
                  [] q.at = "put" /\ q.cli # "apply" -> PutRow(q.target, q.key)
                  [] q.at = "post"                   -> NewAgent(q.target, q.key, q.skills)
                  [] q.at = "postSkill"              -> CreateKeyed("skills", q.key)
           s == [r EXCEPT !.cli = q.cli, !.key = q.key, !.skills = q.skills]
           agent == New("agents", q.key, {q.target})
<1>1. /\ q.at \in {"put", "post", "postSkill"}
      /\ GoesOn(h, s) /\ UNCHANGED overlapped
  BY DEF Send
<1>2. /\ Proper(q) /\ made["agents"] \in Nat
      /\ \A p \in q.skills : Known(p)
      /\ q.target \in EntityIds => Known(q.target)
      /\ q.cli = "apply" => q.at \in {"put", "post"}
  BY <1>1 DEF Shape, TypeOK, CountInv, ApplyInv, Entities
<1>3. ~overlapped' =>
        /\ ~overlapped /\ \A g \in Handlers \ {h} : req[g].at = "idle"
        /\ Ready(q)
  BY <1>1 DEF ApplyInv
<1>4. /\ DOMAIN PutAgent(q.target, q.key, q.skills) = DOMAIN Idle
      /\ DOMAIN PutRow(q.target, q.key) = DOMAIN Idle
      /\ DOMAIN NewAgent(q.target, q.key, q.skills) = DOMAIN Idle
      /\ DOMAIN CreateKeyed("skills", q.key) = DOMAIN Idle
  BY DEF PutAgent, PutRow, NewAgent, CreateKeyed, Insert, Answer, Idle
<1>5. ASSUME DOMAIN r = DOMAIN Idle
      PROVE  /\ s.at = r.at /\ s.new = r.new /\ s.got = r.got /\ s.target = r.target
             /\ s.answer = r.answer
             /\ s.cli = q.cli /\ s.key = q.key /\ s.skills = q.skills
  <2> HIDE DEF r, q
  <2> QED
    BY <1>5 DEF Idle
<1>6. CASE q.at = "put" /\ q.cli = "apply"
  <2>1. r = PutAgent(q.target, q.key, q.skills)
    BY <1>6
  <2>2. q.target \in EntityIds /\ TableOf(q.target) = "agents"
    BY <1>2, <1>6 DEF Proper, In
  <2> HIDE DEF r
  <2>3. r.at \in {"idle", "updateAgent"}
    BY <2>1 DEF PutAgent, Answer, Idle
  <2>4. Careful(r) /\ Ready(r)
    BY <1>2, <2>1, <2>2, PutAgentCareful
  <2> HIDE DEF q
  <2>5. /\ s.at = r.at /\ s.new = r.new /\ s.got = r.got /\ s.target = r.target
        /\ s.answer = r.answer
        /\ s.cli = q.cli /\ s.key = q.key /\ s.skills = q.skills
    BY <1>4, <1>5, <2>1
  <2> HIDE DEF s
  <2>6. Careful(s) /\ Ready(s)
    BY <1>2, <2>5, <2>1, <2>3, <2>4 DEF Careful, Ready
  <2> QED
    BY <1>1, <1>3, <2>6 DEF Turns
<1>7. CASE q.at = "put" /\ q.cli # "apply"
  <2>1. r = PutRow(q.target, q.key)
    BY <1>7
  <2> HIDE DEF r
  <2>2. r.at \in {"idle", "update"}
    BY <2>1 DEF PutRow, Answer, Idle
  <2>3. Careful(r) /\ Ready(r)
    BY <1>2, <2>1, PutRowCareful
  <2> HIDE DEF q
  <2>4. /\ s.at = r.at /\ s.new = r.new /\ s.got = r.got /\ s.target = r.target
        /\ s.answer = r.answer
        /\ s.cli = q.cli /\ s.key = q.key /\ s.skills = q.skills
    BY <1>4, <1>5, <2>1
  <2> HIDE DEF s
  <2>5. Careful(s) /\ Ready(s)
    BY <1>2, <2>4, <1>7, <2>1, <2>2, <2>3 DEF Careful, Ready
  <2> QED
    BY <1>1, <1>3, <2>5 DEF Turns
<1>8. CASE q.at = "post"
  <2>1. r = NewAgent(q.target, q.key, q.skills)
    BY <1>8
  <2>2. q.target \in EntityIds
    BY <1>2, <1>8 DEF Proper, In
  <2> HIDE DEF r
  <2>3. /\ r.at = "insert"
        /\ r.new = {agent} \cup SkillLinks(agent.id, q.skills)
    BY <2>1 DEF NewAgent, Insert, Idle
  <2>4. /\ agent.id = <<"agents", made["agents"] + 1>> /\ agent.key = q.key
        /\ agent.refs = {q.target} /\ TableOf(agent.id) = "agents"
        /\ agent.id[1] = "agents" /\ agent.id[2] = made["agents"] + 1
    BY NewIs
  <2> HIDE DEF agent
  <2>5. Careful(r)
    BY <1>2, <2>1, <2>2, NewAgentCareful
  <2>6. \A l \in db : agent.id \notin l.refs
    BY <1>2, <2>4 DEF CountInv, Counted, Known
  <2>7. ASSUME Ready(q) PROVE \A a \in Of("agents") : ~(a.key = agent.key /\ a.refs = agent.refs)
    BY <1>8, <2>4, <2>7 DEF Ready
  <2> HIDE DEF q
  <2>8. /\ s.at = r.at /\ s.new = r.new /\ s.got = r.got /\ s.target = r.target
         /\ s.answer = r.answer
         /\ s.cli = q.cli /\ s.key = q.key /\ s.skills = q.skills
    BY <1>4, <1>5, <2>1
  <2> HIDE DEF s
  <2>9. Careful(s)
    BY <1>2, <2>8, <2>3, <2>5 DEF Careful
  <2>10. ASSUME Ready(q) PROVE Ready(s)
    <3>1. agent \in s.new
      BY <2>8, <2>3
    <3> QED
      BY <2>8, <2>3, <2>4, <2>6, <2>7, <2>10, <3>1 DEF Ready
  <2> QED
    BY <1>1, <1>3, <2>9, <2>10 DEF Turns
<1>9. CASE q.at = "postSkill"
  <2>1. r = CreateKeyed("skills", q.key) /\ q.cli # "apply"
    BY <1>2, <1>9
  <2> HIDE DEF r
  <2>2. r.at \in {"idle", "insert"}
    BY <2>1 DEF CreateKeyed, Insert, Answer, Idle
  <2>3. Careful(r) /\ Ready(r)
    BY <2>1, KeyedCareful
  <2> HIDE DEF q
  <2>4. /\ s.at = r.at /\ s.new = r.new /\ s.got = r.got /\ s.target = r.target
        /\ s.answer = r.answer
        /\ s.cli = q.cli /\ s.key = q.key /\ s.skills = q.skills
    BY <1>4, <1>5, <2>1
  <2> HIDE DEF s
  <2>5. Careful(s) /\ Ready(s)
    BY <1>2, <2>4, <2>1, <2>2, <2>3 DEF Careful, Ready
  <2> QED
    BY <1>1, <1>3, <2>5 DEF Turns
<1> QED
  BY <1>1, <1>6, <1>7, <1>8, <1>9

LEMMA AllTurn ==
  ASSUME Shape, OrganizationKeys, CountInv, ApplyInv, NEW h \in Handlers, Asks(h)
  PROVE  Turns(h)
<1>1. CASE OrganizationRequests(h)
  BY <1>1, OrganizationTurns, RowTurns
     DEF OrganizationRequests, UpdateOrganization, DeleteOrganization
<1>2. CASE DomainRequests(h)
  BY <1>2, DomainTurns, RowTurns DEF DomainRequests, UpdateDomain, DeleteDomain
<1>3. CASE UserRequests(h)
  BY <1>3, KeyedCareful, ComesTurns, RowTurns
     DEF UserRequests, CreateUser, UpdateUser, DeleteUser
<1>4. CASE GroupRequests(h)
  <2>1. ASSUME NEW o \in IdsSeen("organizations"), NEW k, CreateGroup(h, o, k) PROVE Turns(h)
    <3>1. \A p \in {o} : Known(p)
      BY KnownSeen
    <3> QED
      BY <2>1, <3>1, OneTurns DEF CreateGroup
  <2> QED
    BY <1>4, <2>1, MemberTurns, RowTurns, RemoveTurns
       DEF GroupRequests, UpdateGroup, DeleteGroup
<1>5. CASE AgentRequests(h)
  <2>1. ASSUME NEW d \in IdsSeen("domains"), NEW k, NEW S \in SUBSET IdsSeen("skills"),
               CreateAgent(h, d, k, S)
        PROVE  Turns(h)
    BY <2>1, KnownSeen, NewAgentCareful, ComesTurns DEF CreateAgent
  <2>2. ASSUME NEW a \in IdsSeen("agents"), NEW k, NEW S \in SUBSET IdsSeen("skills"),
               UpdateAgent(h, a, k, S)
        PROVE  Turns(h)
    BY <2>2, KnownSeen, PutAgentCareful, ComesTurns DEF UpdateAgent
  <2> QED
    BY <1>5, <2>1, <2>2, ApplyTurns, RowTurns DEF AgentRequests, RenameAgent, DeleteAgent
<1>6. CASE SessionRequests(h)
  <2>1. PICK a \in IdsSeen("agents"), k \in Names :
          \/ CreateSession(h, a, {}, k)
          \/ \E t \in IdsSeen("tasks") : CreateSession(h, a, {t}, k)
    BY <1>6 DEF SessionRequests
  <2> QED
    BY <2>1, SessionTurns
<1>7. CASE TaskRequests(h)
  <2>1. ASSUME NEW a \in IdsSeen("agents"), CreateTask(h, a) PROVE Turns(h)
    <3>1. \A p \in {a} : Known(p)
      BY KnownSeen
    <3> QED
      BY <2>1, <3>1, OneTurns DEF CreateTask
  <2> QED
    BY <1>7, <2>1 DEF TaskRequests
<1>8. CASE SkillRequests(h)
  BY <1>8, KeyedCareful, ComesTurns, ImportTurns, RowTurns
     DEF SkillRequests, CreateSkill, UpdateSkill, DeleteSkill
<1>9. CASE Send(h)
  BY <1>9, SendTurns
<1> QED
  BY <1>1, <1>2, <1>3, <1>4, <1>5, <1>6, <1>7, <1>8, <1>9 DEF Asks

\* A table counts the row that gets its next id.
LEMMA CountGrows ==
  ASSUME TypeOK, NEW new, IsFiniteSet(new),
         made' = [t \in Entities |-> made[t] + Cardinality({x \in new : TableOf(x.id) = t})],
         \A x \in new : x.id \in EntityIds => x.id[2] = made[x.id[1]] + 1
  PROVE  /\ \A id \in EntityIds : Known(id) => Known(id)'
         /\ \A x \in new : x.id \in EntityIds => ~Known(x.id) /\ Known(x.id)'
<1>1. ASSUME NEW t \in Entities
      PROVE  /\ made[t] \in Nat /\ made'[t] \in Nat /\ made[t] <= made'[t]
             /\ \A x \in new : TableOf(x.id) = t => made[t] + 1 <= made'[t]
  <2> DEFINE T == {x \in new : TableOf(x.id) = t}
  <2>1. IsFiniteSet(T)
    BY FS_Subset
  <2>2. Cardinality(T) \in Nat /\ (Cardinality(T) = 0 <=> T = {})
    BY <2>1, FS_CardinalityType, FS_EmptySet
  <2>3. made[t] \in Nat /\ made'[t] = made[t] + Cardinality(T)
    BY DEF TypeOK
  <2>4. \A x \in new : TableOf(x.id) = t => T # {}
    OBVIOUS
  <2> HIDE DEF T
  <2>5. T # {} => Cardinality(T) >= 1
    BY <2>2
  <2> QED
    BY <2>2, <2>3, <2>4, <2>5
<1>2. \A id \in EntityIds : id[1] \in Entities /\ id[2] \in Nat /\ TableOf(id) = id[1]
  BY DEF EntityIds, TableOf
<1>3. ASSUME NEW id \in EntityIds, Known(id) PROVE Known(id)'
  BY <1>1, <1>2, <1>3 DEF Known
<1>4. ASSUME NEW x \in new, x.id \in EntityIds PROVE ~Known(x.id) /\ Known(x.id)'
  BY <1>1, <1>2, <1>4 DEF Known
<1> QED
  BY <1>3, <1>4

-----------------------------------------------------------------------------
(* The ids and the groups of domains are kept by requests, then by transactions.  *)

\* The ids of the rows that h is about to insert.
Held(h) ==
  IF req[h].at = "insert" THEN {id \in IdsOf(req[h].new) : id \in EntityIds} ELSE {}

FreshInv ==
  /\ Distinct(db)
  /\ \A h \in Handlers :
       /\ req[h].at = "insert" => Distinct(req[h].new)
       /\ \A g \in Handlers :
            /\ Held(h) \cap (IdsOf(db) \cup IdsOf(req[g].got)) = {}
            /\ g # h => Held(h) \cap Held(g) = {}

\* Nobody deletes the group g with its organization, but not the domain d.
GoTogether(g, d) ==
  \A h \in Handlers :
    req[h].at = "delete" /\ g.id \in IdsOf(req[h].got) /\ req[h].target # g.id =>
      d.id \in IdsOf(req[h].got)

Served(d) ==
  \E o \in Identifiers, k \in GroupNames :
    /\ d.key = o \o k
    /\ \/ GroupsGoAlone
       \/ <<k, d.refs>> \in dropped
       \/ \E g \in Of("groups") : g.key = k /\ g.refs = d.refs /\ GoTogether(g, d)

GroupInv ==
  /\ OrganizationKeys
  /\ \A d \in Of("domains") : Served(d)
  /\ \A h \in Handlers : req[h].at = "insert" =>
       \A x \in req[h].new :
         /\ TableOf(x.id) = "organizations" => x.key \in Identifiers
         /\ TableOf(x.id) = "domains" => WithGroup(x, req[h].new)

OwnInv == CountInv /\ FreshInv /\ GroupInv /\ ApplyInv

\* What comes into a tree comes with an owner that is in it.
LEMMA TreeOwners ==
  ASSUME NEW D, NEW S, NEW pairs, NEW x \in Tree(D, S, pairs), x \notin S
  PROVE  \E p \in Tree(D, S, pairs) :
           p.id \in x.refs /\ <<TableOf(p.id), TableOf(x.id)>> \in pairs
<1>1. \A T : T \subseteq WithChildren(D, T, pairs)
  BY DEF WithChildren
<1>2. \A T : \A c \in WithChildren(D, T, pairs) :
        c \in T \/ \E p \in T : p.id \in c.refs /\ <<TableOf(p.id), TableOf(c.id)>> \in pairs
  BY DEF WithChildren, Children
<1>3. Tree(D, S, pairs) =
        WithChildren(D, WithChildren(D, WithChildren(D, S, pairs), pairs), pairs)
  BY DEF Tree
<1> QED
  BY <1>1, <1>2, <1>3

\* A group that goes with its organization takes the organization's domains along.
LEMMA TreeTogether ==
  ASSUME NEW D, NEW S \in SUBSET D, NEW pairs \in SUBSET Cascades,
         <<"organizations", "groups">> \in pairs => <<"organizations", "domains">> \in pairs,
         NEW g \in Tree(D, S, pairs), g \notin S, TableOf(g.id) = "groups",
         NEW d \in D, TableOf(d.id) = "domains", d.refs = g.refs
  PROVE  d \in Tree(D, S, pairs)
<1>1. PICK p \in Tree(D, S, pairs) :
        p.id \in g.refs /\ <<TableOf(p.id), TableOf(g.id)>> \in pairs
  BY TreeOwners
<1>2. TableOf(p.id) = "organizations"
  BY <1>1 DEF Cascades, References
<1> QED
  BY <1>1, <1>2, TreeClosed

LEMMA TurnsKeep ==
  ASSUME Shape, Shape', OwnInv, NEW h \in Handlers, Turns(h)
  PROVE  OwnInv'
<1>1. PICK r : /\ Careful(r) /\ GoesOn(h, r)
               /\ ~overlapped' =>
                    /\ ~overlapped /\ \A g \in Handlers \ {h} : req[g].at = "idle"
                    /\ Ready(r)
  BY DEF Turns
<1>2. /\ req' = [req EXCEPT ![h] = r] /\ req \in [Handlers -> Requests]
      /\ made' = [t \in Entities |-> made[t] + Cardinality({x \in r.new : TableOf(x.id) = t})]
      /\ db' = db /\ dropped' = dropped /\ foreignKeys' = foreignKeys
  BY <1>1 DEF GoesOn, Shape, TypeOK
<1>3. req'[h] = r /\ \A g \in Handlers \ {h} : req'[g] = req[g]
  BY <1>2
<1>4. /\ r \in Requests /\ IsFiniteSet(r.new) /\ r.new \subseteq Rows
      /\ r.skills \subseteq EntityIds
  BY <1>3 DEF Shape, Proper, Requests
<1>5. /\ \A id \in EntityIds : Known(id) => Known(id)'
      /\ \A x \in r.new : x.id \in EntityIds => ~Known(x.id) /\ Known(x.id)'
  BY <1>1, <1>2, <1>4, CountGrows DEF Careful, Makes, Shape
<1>6. \A S \in SUBSET Rows : Counted(S) => Counted(S)'
  BY <1>5 DEF Counted, Rows
<1>7. /\ db \subseteq Rows
      /\ \A g \in Handlers : /\ req[g].new \subseteq Rows /\ req[g].got \subseteq Rows
                             /\ req[g].skills \subseteq EntityIds
  BY <1>2 DEF Shape, TypeOK, Requests
<1>8. CountInv'
  <2>1. Counted(r.new)'
    <3>1. \A x \in r.new : \A p \in x.refs : p \in EntityIds
      BY <1>4 DEF Rows
    <3>2. ASSUME NEW x \in r.new, NEW p \in x.refs PROVE Known(p)'
      <4>1. CASE Known(p)
        BY <1>5, <3>1, <4>1
      <4>2. CASE p \in IdsOf(r.new)
        BY <1>5, <3>1, <4>2 DEF IdsOf
      <4> QED
        BY <1>1, <4>1, <4>2 DEF Careful, Makes
    <3> QED
      BY <1>5, <3>2 DEF Counted
  <2>2. Counted(db)'
    BY <1>2, <1>6, <1>7 DEF OwnInv, CountInv, Counted
  <2>3. Counted(r.got)'
    <3>1. r.got \subseteq db
      BY <1>1 DEF Careful
    <3> QED
      BY <1>2, <2>2, <3>1 DEF Counted
  <2>4. /\ \A p \in r.skills : Known(p)'
        /\ r.target \in EntityIds => Known(r.target)'
    BY <1>1, <1>4, <1>5 DEF Careful
  <2>5. ASSUME NEW g \in Handlers \ {h}
        PROVE  /\ Counted(req[g].new)' /\ Counted(req[g].got)'
               /\ \A p \in req[g].skills : Known(p)'
               /\ req[g].target \in EntityIds => Known(req[g].target)'
    <3>1. /\ Counted(req[g].new) /\ Counted(req[g].got)
          /\ \A p \in req[g].skills : Known(p)
          /\ req[g].target \in EntityIds => Known(req[g].target)
      BY DEF OwnInv, CountInv
    <3>2. Counted(req[g].new)' /\ Counted(req[g].got)'
      BY <1>3, <1>6, <1>7, <3>1 DEF Counted
    <3> QED
      BY <1>3, <1>5, <1>7, <3>1, <3>2
  <2> QED
    BY <1>2, <1>3, <2>1, <2>2, <2>3, <2>4, <2>5 DEF CountInv, Counted, Known
<1>9. FreshInv'
  <2>1. Distinct(db)' /\ IdsOf(db)' = IdsOf(db)
    BY <1>2 DEF OwnInv, FreshInv, Distinct, IdsOf
  <2>2. \A id \in Held(h)' : id \in EntityIds /\ ~Known(id)
    BY <1>3, <1>5 DEF Held, IdsOf
  <2>3. \A id \in IdsOf(db) : id \in EntityIds => Known(id)
    BY DEF OwnInv, CountInv, Counted, IdsOf
  <2>4. ASSUME NEW g \in Handlers \ {h}
        PROVE  /\ Held(g)' = Held(g) /\ IdsOf(req[g].got)' = IdsOf(req[g].got)
               /\ \A id \in Held(g) \cup IdsOf(req[g].got) : id \in EntityIds => Known(id)
    BY <1>3 DEF Held, IdsOf, OwnInv, CountInv, Counted
  <2>5. IdsOf(req[h].got)' \subseteq IdsOf(db)
    BY <1>1, <1>3 DEF Careful, IdsOf
  <2>6. \A g \in Handlers : Held(g) \cap IdsOf(db) = {}
    BY DEF OwnInv, FreshInv
  <2>7. ASSUME NEW f \in Handlers, NEW g \in Handlers
        PROVE  /\ Held(f)' \cap (IdsOf(db)' \cup IdsOf(req[g].got)') = {}
               /\ g # f => Held(f)' \cap Held(g)' = {}
    <3>1. CASE f = h
      BY <2>1, <2>2, <2>3, <2>4, <2>5, <3>1
    <3>2. CASE f # h /\ g = h
      BY <2>1, <2>2, <2>4, <2>5, <2>6, <3>2
    <3>3. CASE f # h /\ g # h
      BY <2>1, <2>4, <3>3 DEF OwnInv, FreshInv
    <3> QED
      BY <3>1, <3>2, <3>3
  <2>8. ASSUME NEW g \in Handlers, req'[g].at = "insert" PROVE Distinct(req[g].new)'
    <3>1. CASE g = h
      BY <1>1, <1>3, <3>1 DEF Careful, Makes, Distinct
    <3>2. CASE g # h
      BY <1>3, <2>8, <3>2 DEF OwnInv, FreshInv, Distinct
    <3> QED
      BY <3>1, <3>2
  <2> QED
    BY <2>1, <2>7, <2>8 DEF FreshInv
<1>10. GroupInv'
  <2>1. OrganizationKeys'
    BY <1>2 DEF OwnInv, GroupInv, OrganizationKeys, Of
  <2>2. ASSUME NEW g \in Of("groups"), NEW d \in Of("domains"), g.refs = d.refs, GoTogether(g, d)
        PROVE  GoTogether(g, d)'
    <3>1. ASSUME r.at = "delete", g.id \in IdsOf(r.got), r.target # g.id
          PROVE  d.id \in IdsOf(r.got)
      <4>1. PICK root \in db : root.id = r.target /\ r.got = Tree(db, {root}, Relationships)
        BY <1>1, <3>1 DEF Careful
      <4>2. PICK x \in r.got : x.id = g.id
        BY <3>1 DEF IdsOf
      <4>3. Relationships \in SUBSET Cascades /\ <<"organizations", "domains">> \in Relationships
        BY DEF Relationships, Cascades, References
      <4>4. g.id \in EntityIds
        <5>1. g.id \in Ids /\ TableOf(g.id) \notin Links
          BY <1>7 DEF Of, Rows, Links
        <5> QED
          BY <5>1 DEF Ids, TableOf
      <4>5. x = g
        <5>1. x \in db
          BY <1>1, <4>2 DEF Careful
        <5> QED
          BY <4>2, <4>4, <5>1 DEF OwnInv, FreshInv, Distinct, Of
      <4>6. d \in r.got
        BY <2>2, <3>1, <4>1, <4>2, <4>3, <4>5, TreeTogether DEF Of
      <4> QED
        BY <4>6 DEF IdsOf
    <3> QED
      BY <1>3, <2>2, <3>1 DEF GoTogether, IdsOf
  <2>3. ASSUME NEW d \in Of("domains"), Served(d) PROVE Served(d)'
    <3>1. PICK o \in Identifiers, k \in GroupNames :
            /\ d.key = o \o k
            /\ \/ GroupsGoAlone \/ <<k, d.refs>> \in dropped
               \/ \E g \in Of("groups") : g.key = k /\ g.refs = d.refs /\ GoTogether(g, d)
      BY <2>3 DEF Served
    <3>2. GroupsGoAlone' \/ <<k, d.refs>> \in dropped' \/
            \E g \in Of("groups")' : g.key = k /\ g.refs = d.refs /\ GoTogether(g, d)'
      BY <1>2, <2>2, <3>1 DEF Of, GroupsGoAlone
    <3> QED
      BY <3>1, <3>2 DEF Served
  <2>4. \A d \in Of("domains")' : Served(d)'
    BY <1>2, <2>3 DEF OwnInv, GroupInv, Of
  <2>5. ASSUME NEW g \in Handlers, req'[g].at = "insert", NEW x \in req'[g].new
        PROVE  /\ TableOf(x.id) = "organizations" => x.key \in Identifiers
               /\ TableOf(x.id) = "domains" => WithGroup(x, req'[g].new)
    <3>1. CASE g = h
      BY <1>1, <1>3, <2>5, <3>1 DEF Careful, Makes
    <3>2. CASE g # h
      BY <1>3, <2>5, <3>2 DEF OwnInv, GroupInv
    <3> QED
      BY <3>1, <3>2
  <2> QED
    BY <2>1, <2>4, <2>5 DEF GroupInv, WithGroup, TableOf
<1>11. ApplyInv'
  <2>1. ASSUME NEW g \in Handlers, req'[g].cli = "apply"
        PROVE  /\ req'[g].answer # "ok"
               /\ req'[g].at \in {"idle", "put", "post", "insert", "updateAgent"}
    BY <1>1, <1>3, <2>1 DEF Careful, OwnInv, ApplyInv
  <2>2. ASSUME ~overlapped'
        PROVE  /\ \A f, g \in Handlers : req'[f].at # "idle" /\ req'[g].at # "idle" => f = g
               /\ \A g \in Handlers : Ready(req[g])'
    <3>1. Ready(r) /\ \A g \in Handlers \ {h} : req[g].at = "idle"
      BY <1>1, <2>2
    <3>2. Ready(req[h])'
      BY <1>2, <1>3, <3>1 DEF Ready, Of, IdsOf, SkillLinks, Link, TableOf
    <3>3. \A g \in Handlers \ {h} : Ready(req[g])'
      BY <1>3, <3>1 DEF Ready
    <3> QED
      BY <1>3, <3>1, <3>2, <3>3
  <2> QED
    BY <2>1, <2>2 DEF ApplyInv
<1> QED
  BY <1>8, <1>9, <1>10, <1>11 DEF OwnInv

\* h goes on with no more than it had, and is done with inserting, deleting and applying.
Settles(h, r) ==
  /\ req[h].at # "idle"
  /\ req' = [req EXCEPT ![h] = r]
  /\ UNCHANGED <<foreignKeys, made, overlapped>>
  /\ r.at \notin {"insert", "delete", "post", "updateAgent"} /\ r.cli # "apply"
  /\ r.new \subseteq req[h].new /\ r.got \subseteq req[h].got
  /\ r.skills \subseteq req[h].skills /\ r.target \in {NoId, req[h].target}

LEMMA AnswersSettle ==
  ASSUME NEW h, req[h].at # "idle", NEW status, NEW D, Writes(h, Answer(status), D)
  PROVE  Settles(h, Answer(status))
BY DEF Settles, Writes, Answer, Idle

LEMMA LaunchSettles ==
  ASSUME NEW h, req[h].at # "idle", NEW D,
         Writes(h, [Idle EXCEPT !.at = "configmap", !.new = req[h].new], D)
  PROVE  Settles(h, [Idle EXCEPT !.at = "configmap", !.new = req[h].new])
BY DEF Settles, Writes, Idle

\* The rows that a step of h leaves have the ids of rows there were, or of those it inserts.
Ours(h, D) == \A id \in IdsOf(D) : id \in EntityIds => id \in IdsOf(db) \cup Held(h)

LEMMA IdsKept ==
  ASSUME Shape, OwnInv, NEW h \in Handlers, NEW r, Settles(h, r),
         NEW D, db' = D, Counted(D), Distinct(D), Ours(h, D)
  PROVE  CountInv' /\ FreshInv' /\ ApplyInv'
<1>1. /\ req'[h] = r /\ \A g \in Handlers \ {h} : req'[g] = req[g]
      /\ made' = made /\ overlapped' = overlapped
  BY DEF Settles, Shape, TypeOK
<1>2. CountInv'
  <2>2. Counted(db)'
    BY <1>1 DEF Counted, Known
  <2>3. ASSUME NEW g \in Handlers
        PROVE  /\ Counted(req[g].new)' /\ Counted(req[g].got)'
               /\ \A p \in req'[g].skills : Known(p)'
               /\ req'[g].target \in EntityIds => Known(req[g].target)'
    <3>1. /\ Counted(req[g].new) /\ Counted(req[g].got)
          /\ \A p \in req[g].skills : Known(p)
          /\ req[g].target \in EntityIds => Known(req[g].target)
      BY DEF OwnInv, CountInv
    <3>2. /\ req'[g].new \subseteq req[g].new /\ req'[g].got \subseteq req[g].got
          /\ req'[g].skills \subseteq req[g].skills /\ req'[g].target \in {NoId, req[g].target}
      <4>1. CASE g = h
        BY <1>1, <4>1 DEF Settles
      <4>2. CASE g # h
        BY <1>1, <4>2
      <4> QED
        BY <4>1, <4>2
    <3>3. Counted(req[g].new)' /\ Counted(req[g].got)'
      BY <1>1, <3>1, <3>2 DEF Counted, Known
    <3>4. \A p \in req'[g].skills : Known(p)'
      BY <1>1, <3>1, <3>2 DEF Known
    <3>5. req'[g].target \in EntityIds => Known(req[g].target)'
      BY <1>1, <3>1, <3>2, NoEntity DEF Known
    <3> QED
      BY <3>3, <3>4, <3>5
  <2> QED
    BY <2>2, <2>3 DEF CountInv, Known
<1>3. FreshInv'
  <2>1. Held(h)' = {} /\ \A g \in Handlers \ {h} : Held(g)' = Held(g)
    BY <1>1 DEF Settles, Held, IdsOf
  <2>2. \A g \in Handlers : IdsOf(req[g].got)' \subseteq IdsOf(req[g].got)
    BY <1>1 DEF Settles, IdsOf
  <2>3. IdsOf(db)' = IdsOf(D)
    BY DEF IdsOf
  <2>4. ASSUME NEW f \in Handlers, NEW g \in Handlers
        PROVE  /\ Held(f)' \cap (IdsOf(db)' \cup IdsOf(req[g].got)') = {}
               /\ g # f => Held(f)' \cap Held(g)' = {}
    <3>1. CASE f = h
      BY <2>1, <3>1
    <3>2. CASE f # h
      <4>1. /\ Held(f) \cap (IdsOf(db) \cup IdsOf(req[g].got)) = {}
            /\ Held(f) \cap Held(h) = {} /\ (g # f => Held(f) \cap Held(g) = {})
            /\ Held(f) \subseteq EntityIds
        BY <3>2 DEF OwnInv, FreshInv, Held
      <4>2. Held(f) \cap IdsOf(D) = {}
        BY <4>1 DEF Ours
      <4>3. g # f => Held(f)' \cap Held(g)' = {}
        BY <2>1, <3>2, <4>1
      <4> QED
        BY <2>1, <2>2, <2>3, <3>2, <4>1, <4>2, <4>3
    <3> QED
      BY <3>1, <3>2
  <2>5. \A g \in Handlers : req'[g].at = "insert" => Distinct(req[g].new)'
    BY <1>1 DEF Settles, OwnInv, FreshInv, Distinct
  <2> QED
    BY <2>4, <2>5 DEF FreshInv, Distinct
<1>4. ApplyInv'
  <2>1. ASSUME NEW g \in Handlers, req'[g].cli = "apply"
        PROVE  /\ req'[g].answer # "ok"
               /\ req'[g].at \in {"idle", "put", "post", "insert", "updateAgent"}
    BY <1>1, <2>1 DEF Settles, OwnInv, ApplyInv
  <2>2. ASSUME ~overlapped'
        PROVE  /\ \A f, g \in Handlers : req'[f].at # "idle" /\ req'[g].at # "idle" => f = g
               /\ \A g \in Handlers : Ready(req[g])'
    <3>1. \A g \in Handlers \ {h} : req'[g].at = "idle"
      BY <1>1, <2>2 DEF Settles, OwnInv, ApplyInv
    <3>2. \A g \in Handlers : req'[g].at \notin {"post", "updateAgent", "insert"}
      BY <1>1, <3>1 DEF Settles
    <3>3. \A g \in Handlers : Ready(req[g])'
      BY <3>2 DEF Ready
    <3> QED
      BY <3>1, <3>3
  <2> QED
    BY <2>1, <2>2 DEF ApplyInv
<1> QED
  BY <1>2, <1>3, <1>4

\* The organizations and domains that are left were there, and the group of a domain stays
\* unless a request is about it.
LEMMA GroupsKept ==
  ASSUME Shape, OwnInv, NEW h \in Handlers, NEW r, Settles(h, r), dropped \subseteq dropped',
         \A x \in db' : TableOf(x.id) \in {"organizations", "domains"} => x \in db,
         \A g \in Of("groups"), d \in Of("domains") :
           d \in db' /\ d.refs = g.refs /\ GoTogether(g, d) =>
             GroupsGoAlone \/ g \in db' \/ <<g.key, g.refs>> \in dropped'
  PROVE  GroupInv'
<1>1. req'[h] = r /\ \A g \in Handlers \ {h} : req'[g] = req[g]
  BY DEF Settles, Shape, TypeOK
<1>2. OrganizationKeys'
  BY DEF OwnInv, GroupInv, OrganizationKeys, Of, TableOf
<1>3. \A g \in Handlers : req'[g].at = "insert" =>
        \A x \in req'[g].new :
          /\ TableOf(x.id) = "organizations" => x.key \in Identifiers
          /\ TableOf(x.id) = "domains" => WithGroup(x, req'[g].new)
  BY <1>1 DEF Settles, OwnInv, GroupInv
<1>4. ASSUME NEW d \in db', TableOf(d.id) = "domains" PROVE Served(d)'
  <2>1. d \in Of("domains")
    BY <1>4 DEF Of
  <2>2. PICK o \in Identifiers, k \in GroupNames :
          /\ d.key = o \o k
          /\ \/ GroupsGoAlone \/ <<k, d.refs>> \in dropped
             \/ \E g \in Of("groups") : g.key = k /\ g.refs = d.refs /\ GoTogether(g, d)
    BY <2>1 DEF OwnInv, GroupInv, Served
  <2>3. ASSUME NEW g \in Of("groups"), g.key = k, g.refs = d.refs, GoTogether(g, d)
        PROVE  GroupsGoAlone \/ <<k, d.refs>> \in dropped' \/
                 \E x \in Of("groups")' : x.key = k /\ x.refs = d.refs /\ GoTogether(x, d)'
    <3>1. GroupsGoAlone \/ g \in db' \/ <<g.key, g.refs>> \in dropped'
      BY <1>4, <2>1, <2>3
    <3>2. GoTogether(g, d)'
      BY <1>1, <2>3 DEF GoTogether, Settles, IdsOf
    <3> QED
      BY <2>3, <3>1, <3>2 DEF Of, TableOf
  <2>4. GroupsGoAlone' \/ <<k, d.refs>> \in dropped' \/
          \E x \in Of("groups")' : x.key = k /\ x.refs = d.refs /\ GoTogether(x, d)'
    BY <2>2, <2>3 DEF GroupsGoAlone, Settles
  <2> QED
    BY <2>2, <2>4 DEF Served
<1> QED
  BY <1>2, <1>3, <1>4 DEF GroupInv, Of, WithGroup, TableOf

LEMMA FailsOwn ==
  ASSUME Shape, OwnInv, NEW h \in Handlers, req[h].at # "idle", NEW status, Fails(h, status)
  PROVE  OwnInv'
<1>1. Settles(h, Answer(status)) /\ db' = db /\ dropped' = dropped
  BY AnswersSettle DEF Fails, Writes
<1>2. Counted(db) /\ Distinct(db) /\ Ours(h, db)
  BY DEF OwnInv, CountInv, FreshInv, Ours
<1>3. CountInv' /\ FreshInv' /\ ApplyInv'
  BY <1>1, <1>2, IdsKept
<1>4. GroupInv'
  BY <1>1, GroupsKept DEF Of
<1> QED
  BY <1>3, <1>4 DEF OwnInv

LEMMA LaunchOwn ==
  ASSUME Shape, OwnInv, NEW h \in Handlers, MakeConfigMap(h) \/ MakeCR(h)
  PROVE  OwnInv'
<1>1. /\ req[h].at \in {"configmap", "cr"} /\ req \in [Handlers -> Requests]
      /\ db' = db /\ made' = made /\ overlapped' = overlapped /\ dropped' = dropped
      /\ foreignKeys' = foreignKeys
  BY DEF MakeConfigMap, MakeCR, rows, history, Shape, TypeOK
<1>2. PICK r : Settles(h, r)
  <2>1. ASSUME NEW status, req' = [req EXCEPT ![h] = Answer(status)]
        PROVE  \E r : Settles(h, r)
    <3>1. Settles(h, Answer(status))
      BY <1>1, <2>1 DEF Settles, Answer, Idle
    <3> QED
      BY <3>1
  <2>2. ASSUME NEW k, ToCR(h, k) PROVE \E r : Settles(h, r)
    <3> DEFINE r == [req[h] EXCEPT !.at = "cr", !.key = k]
    <3>1. req[h] \in Requests /\ req' = [req EXCEPT ![h] = r]
      BY <1>1, <2>2 DEF ToCR
    <3>2. /\ r.at = "cr" /\ r.new = req[h].new /\ r.got = req[h].got /\ r.cli = req[h].cli
          /\ r.skills = req[h].skills /\ r.target = req[h].target
      BY <3>1 DEF Requests
    <3>3. req[h].cli # "apply"
      BY <1>1 DEF OwnInv, ApplyInv
    <3> HIDE DEF r
    <3>4. Settles(h, r)
      BY <1>1, <3>1, <3>2, <3>3 DEF Settles
    <3> QED
      BY <3>4
  <2>3. (\E k : ToCR(h, k)) \/ \E status : req' = [req EXCEPT ![h] = Answer(status)]
    BY DEF MakeConfigMap, MakeCR
  <2> QED
    BY <2>1, <2>2, <2>3
<1>3. Counted(db) /\ Distinct(db) /\ Ours(h, db)
  BY DEF OwnInv, CountInv, FreshInv, Ours
<1>4. CountInv' /\ FreshInv' /\ ApplyInv'
  BY <1>1, <1>2, <1>3, IdsKept
<1>5. GroupInv'
  BY <1>1, <1>2, GroupsKept DEF Of
<1> QED
  BY <1>4, <1>5 DEF OwnInv

LEMMA InsertOwn ==
  ASSUME Shape, OwnInv, NEW h \in Handlers, CommitInsert(h)
  PROVE  OwnInv'
<1> DEFINE new == req[h].new
           next == IF IsSession(new) THEN [Idle EXCEPT !.at = "configmap", !.new = new]
                                     ELSE Answer("ok")
<1>1. req[h].at = "insert" /\ new \subseteq Rows
  BY DEF CommitInsert, Shape, TypeOK, Requests
<1>2. \/ \E status : Fails(h, status)
      \/ Writes(h, next, db \cup new) /\ UNCHANGED dropped
  BY DEF CommitInsert
<1>3. CASE \E status : Fails(h, status)
  BY <1>1, <1>3, FailsOwn
<1>4. CASE Writes(h, next, db \cup new) /\ UNCHANGED dropped
  <2>1. Settles(h, next) /\ db' = db \cup new /\ dropped' = dropped
    BY <1>1, <1>4, AnswersSettle, LaunchSettles DEF Writes
  <2>2. Counted(db \cup new)
    BY DEF OwnInv, CountInv, Counted
  <2>3. \A x \in new : x.id \in EntityIds => x.id \in Held(h)
    BY <1>1 DEF Held, IdsOf
  <2>4. Distinct(db \cup new)
    <3>1. Distinct(db) /\ Distinct(new) /\ Held(h) \cap IdsOf(db) = {}
      BY <1>1 DEF OwnInv, FreshInv
    <3> HIDE DEF new
    <3> QED
      BY <2>3, <3>1 DEF Distinct, IdsOf
  <2>5. Ours(h, db \cup new)
    BY <2>3 DEF Ours, IdsOf
  <2> HIDE DEF new, next
  <2>6. CountInv' /\ FreshInv' /\ ApplyInv'
    BY <2>1, <2>2, <2>4, <2>5, IdsKept
  <2>7. /\ \A x \in new : TableOf(x.id) = "organizations" => x.key \in Identifiers
        /\ \A x \in new : TableOf(x.id) = "domains" => WithGroup(x, new)
    BY <1>1 DEF OwnInv, GroupInv, new
  <2>8. req'[h] = next /\ \A g \in Handlers \ {h} : req'[g] = req[g]
    BY <2>1 DEF Settles, Shape, TypeOK
  <2>9. ASSUME NEW d \in new, TableOf(d.id) = "domains" PROVE Served(d)'
    <3>1. PICK g \in new, o \in Identifiers :
            /\ TableOf(g.id) = "groups" /\ g.refs = d.refs /\ d.key = o \o g.key
            /\ g.key \in GroupNames
      BY <2>7, <2>9 DEF WithGroup
    <3>2. g.id \in EntityIds
      <4>1. g.id \in Ids /\ TableOf(g.id) \notin Links
        BY <1>1, <3>1 DEF Rows, Links, new
      <4> QED
        BY <4>1 DEF Ids, TableOf
    <3>3. \A f \in Handlers : g.id \notin IdsOf(req[f].got)
      BY <2>3, <3>2 DEF OwnInv, FreshInv
    <3>4. GoTogether(g, d)'
      BY <2>1, <2>8, <3>3 DEF GoTogether, IdsOf, Settles
    <3>5. g \in Of("groups")'
      BY <2>1, <3>1 DEF Of, TableOf
    <3> QED
      BY <3>1, <3>4, <3>5 DEF Served
  <2>10. ASSUME NEW d \in Of("domains"), Served(d) PROVE Served(d)'
    <3>1. PICK o \in Identifiers, k \in GroupNames :
            /\ d.key = o \o k
            /\ \/ GroupsGoAlone
               \/ <<k, d.refs>> \in dropped
               \/ \E g \in Of("groups") : g.key = k /\ g.refs = d.refs /\ GoTogether(g, d)
      BY <2>10 DEF Served
    <3>2. \A g : GoTogether(g, d) => GoTogether(g, d)'
      BY <2>1, <2>8 DEF GoTogether, IdsOf, Settles
    <3>3. Of("groups") \subseteq Of("groups")'
      BY <2>1 DEF Of, TableOf
    <3> QED
      BY <2>1, <3>1, <3>2, <3>3 DEF Served, GroupsGoAlone, Settles
  <2>11. \A d \in Of("domains")' : Served(d)'
    BY <2>1, <2>9, <2>10 DEF OwnInv, GroupInv, Of, TableOf
  <2>12. OrganizationKeys'
    BY <2>1, <2>7 DEF OwnInv, GroupInv, OrganizationKeys, Of, TableOf
  <2>13. \A g \in Handlers : req'[g].at = "insert" =>
           \A x \in req'[g].new :
             /\ TableOf(x.id) = "organizations" => x.key \in Identifiers
             /\ TableOf(x.id) = "domains" => WithGroup(x, req'[g].new)
    BY <2>1, <2>8 DEF Settles, OwnInv, GroupInv
  <2>14. GroupInv'
    BY <2>11, <2>12, <2>13 DEF GroupInv, WithGroup, TableOf
  <2> QED
    BY <2>6, <2>14 DEF OwnInv
<1> QED
  BY <1>2, <1>3, <1>4

\* What DELETE leaves: rows that were there, but for the tasks of sessions.
LEMMA CascadedRows ==
  ASSUME NEW D \in SUBSET Rows, Schema(D), NEW S \in SUBSET D
  PROVE  LET gone == Tree(D, S, Cascades \cap foreignKeys)
             kept == {"organizations", "domains", "groups"}
         IN  /\ \A x \in Cascaded(D, S) :
                  \E r \in D \ gone : /\ x.id = r.id /\ x.refs \subseteq r.refs
                                      /\ TableOf(r.id) \in kept => x = r
             /\ \A r \in D \ gone : TableOf(r.id) \in kept => r \in Cascaded(D, S)
             /\ Distinct(D) => Distinct(Cascaded(D, S))
<1> DEFINE gone == Tree(D, S, Cascades \cap foreignKeys)
           kept == {"organizations", "domains", "groups"}
<1>1. PICK tasks \in SUBSET {p \in EntityIds : TableOf(p) = "tasks"} :
        LET Left(r) == [r EXCEPT !.refs = @ \ tasks]
        IN  /\ Cascaded(D, S) = {Left(r) : r \in D \ gone}
            /\ \A r \in D : Left(r) \in Rows /\ Left(r).id = r.id /\ Left(r).refs = r.refs \ tasks
  BY CascadedIs
<1> DEFINE Left(r) == [r EXCEPT !.refs = @ \ tasks]
<1>2. ASSUME NEW r \in D
      PROVE  /\ Left(r).id = r.id /\ Left(r).refs = r.refs \ tasks
             /\ TableOf(r.id) \in kept => Left(r) = r
  <2>1. r \in Rows /\ Left(r) \in Rows /\ Left(r).id = r.id /\ Left(r).refs = r.refs \ tasks
    BY <1>1
  <2>2. ASSUME TableOf(r.id) \in kept PROVE Left(r) = r
    <3>1. \A p \in r.refs : TableOf(p) # "tasks"
      BY <2>2 DEF Schema, References
    <3>2. r.refs \ tasks = r.refs
      BY <3>1
    <3> QED
      BY <2>1, <3>2 DEF Rows
  <2> QED
    BY <2>1, <2>2
<1>3. Cascaded(D, S) = {Left(r) : r \in D \ gone}
  BY <1>1
<1> HIDE DEF gone, Left, kept
<1>4. \A x \in Cascaded(D, S) :
        \E r \in D \ gone : /\ x.id = r.id /\ x.refs \subseteq r.refs
                            /\ TableOf(r.id) \in kept => x = r
  BY <1>2, <1>3
<1>5. \A r \in D \ gone : TableOf(r.id) \in kept => r \in Cascaded(D, S)
  BY <1>2, <1>3
<1>6. Distinct(D) => Distinct(Cascaded(D, S))
  BY <1>2, <1>3 DEF Distinct
<1> QED
  BY <1>4, <1>5, <1>6 DEF gone, kept

LEMMA DeleteOwn ==
  ASSUME Shape, OwnInv, NEW h \in Handlers, CommitDelete(h)
  PROVE  OwnInv'
<1> DEFINE gone == {r \in db : r.id \in IdsOf(req[h].got)}
           left == Cascaded(db, gone)
           pairs == Cascades \cap foreignKeys
           out == Tree(db, gone, pairs)
<1>1. req[h].at = "delete" /\ Writes(h, Answer("ok"), left)
  BY DEF CommitDelete
<1>2. Settles(h, Answer("ok")) /\ db' = left
  BY <1>1, AnswersSettle DEF Writes
<1>3. dropped \subseteq dropped'
  BY DEF CommitDelete, Drops
<1>4. db \in SUBSET Rows /\ Schema(db) /\ Counted(db) /\ Distinct(db)
  BY DEF Shape, TypeOK, OwnInv, CountInv, FreshInv
<1>5. gone \in SUBSET db /\ gone \subseteq out
  BY TreeWithin
<1>6. ASSUME NEW g \in Of("groups"), NEW d \in Of("domains"), d.refs = g.refs,
             GoTogether(g, d), g \in gone
      PROVE  d \in gone \/ <<g.key, g.refs>> \in dropped'
  <2>1. CASE req[h].target = g.id
    BY <2>1 DEF CommitDelete, Drops
  <2>2. CASE req[h].target # g.id
    BY <1>1, <1>6, <2>2 DEF GoTogether, Of
  <2> QED
    BY <2>1, <2>2
<1> HIDE DEF gone
<1>7. /\ \A x \in left : \E r \in db : x.id = r.id /\ x.refs \subseteq r.refs
      /\ Distinct(left)
      /\ \A x \in left : TableOf(x.id) \in {"organizations", "domains"} => x \in db
      /\ \A g \in Of("groups"), d \in Of("domains") :
           d \in left /\ d.refs = g.refs /\ GoTogether(g, d) =>
             GroupsGoAlone \/ g \in left \/ <<g.key, g.refs>> \in dropped'
  <2>1. /\ \A x \in left :
             \E r \in db \ out : /\ x.id = r.id /\ x.refs \subseteq r.refs
                                 /\ TableOf(r.id) \in {"organizations", "domains", "groups"} =>
                                      x = r
        /\ \A r \in db \ out : TableOf(r.id) \in {"organizations", "domains", "groups"} =>
             r \in left
        /\ Distinct(left)
    BY <1>4, <1>5, CascadedRows
  <2>2. ASSUME NEW g \in Of("groups"), NEW d \in Of("domains"), d \in left, d.refs = g.refs,
               GoTogether(g, d), g \notin left, ~GroupsGoAlone
        PROVE  <<g.key, g.refs>> \in dropped'
    <3>1. d \notin out
      BY <2>1, <2>2 DEF Of
    <3>2. g \in out
      BY <2>1, <2>2 DEF Of
    <3>3. /\ pairs \in SUBSET Cascades
          /\ <<"organizations", "groups">> \in pairs => <<"organizations", "domains">> \in pairs
      BY <2>2 DEF GroupsGoAlone, Cascades, References
    <3> HIDE DEF pairs
    <3>4. g \in gone
      BY <1>5, <2>2, <3>1, <3>2, <3>3, TreeTogether DEF Of
    <3> QED
      BY <1>5, <1>6, <2>2, <3>1, <3>4
  <2> HIDE DEF left, out
  <2> QED
    BY <2>1, <2>2
<1> HIDE DEF left
<1>8. Counted(left) /\ Ours(h, left)
  BY <1>4, <1>7 DEF Counted, Ours, IdsOf
<1>9. CountInv' /\ FreshInv' /\ ApplyInv'
  BY <1>2, <1>7, <1>8, IdsKept
<1>10. GroupInv'
  BY <1>2, <1>3, <1>7, GroupsKept
<1> QED
  BY <1>9, <1>10 DEF OwnInv

LEMMA UpdateOwn ==
  ASSUME Shape, OwnInv, NEW h \in Handlers, CommitUpdate(h)
  PROVE  OwnInv'
<1> DEFINE id == req[h].target
           others == db \ {RowOf(id)}
           row == Renamed(id, req[h].key)
           D == others \cup {row}
<1>1. req[h].at = "update"
  BY DEF CommitUpdate
<1>2. \/ Fails(h, "500")
      \/ Present(id) /\ Writes(h, Answer("ok"), D) /\ Drops(id)
  BY DEF CommitUpdate
<1>3. CASE Fails(h, "500")
  BY <1>1, <1>3, FailsOwn
<1>4. CASE Present(id) /\ Writes(h, Answer("ok"), D) /\ Drops(id)
  <2>1. Settles(h, Answer("ok")) /\ db' = D
    BY <1>1, <1>4, AnswersSettle DEF Writes
  <2>2. RowOf(id) \in db /\ RowOf(id).id = id
    BY <1>4, RowOfPresent
  <2>3. req[h].key \in Seq(Labels)
    BY DEF Shape, TypeOK, Requests
  <2>4. row.id = id /\ row.refs = RowOf(id).refs
    BY <1>4, <2>3, RenamedShape
  <2>5. TableOf(id) \in {"organizations", "domains"} => row = RowOf(id)
    BY DEF Renamed
  <2>6. dropped \subseteq dropped' /\
          \A g \in Of("groups") : g.id = id => <<g.key, g.refs>> \in dropped'
    BY <1>4 DEF Drops
  <2> HIDE DEF row
  <2>7. Counted(db) /\ Distinct(db)
    BY DEF OwnInv, CountInv, FreshInv
  <2>8. Counted(D) /\ Distinct(D) /\ Ours(h, D)
    <3>1. Counted(D)
      BY <2>2, <2>4, <2>7 DEF Counted
    <3>2. Distinct(D)
      BY <2>2, <2>4, <2>7 DEF Distinct
    <3>3. Ours(h, D)
      BY <2>2, <2>4 DEF Ours, IdsOf
    <3> QED
      BY <3>1, <3>2, <3>3
  <2>9. CountInv' /\ FreshInv' /\ ApplyInv'
    <3> HIDE DEF D
    <3> QED
      BY <2>1, <2>8, IdsKept
  <2>10. \A x \in D : TableOf(x.id) \in {"organizations", "domains"} => x \in db
    BY <2>2, <2>4, <2>5
  <2>11. \A g \in Of("groups") : g \in D \/ <<g.key, g.refs>> \in dropped'
    BY <2>2, <2>6 DEF Of
  <2> HIDE DEF D
  <2>12. GroupInv'
    BY <2>1, <2>6, <2>10, <2>11, GroupsKept
  <2> QED
    BY <2>9, <2>12 DEF OwnInv
<1> QED
  BY <1>2, <1>3, <1>4

LEMMA UpdateAgentOwn ==
  ASSUME Shape, OwnInv, NEW h \in Handlers, CommitUpdateAgent(h)
  PROVE  OwnInv'
<1> DEFINE a == req[h].target
           links == SkillLinks(a, req[h].skills)
           others == {r \in db : r.id # a /\ r.id \notin IdsOf(req[h].got)}
           row == Renamed(a, req[h].key)
           new == IF Present(a) THEN {row} \cup links ELSE links
           D == others \cup new
<1>1. /\ req[h].at = "updateAgent" /\ a \in EntityIds /\ TableOf(a) = "agents"
      /\ \A x \in req[h].got : TableOf(x.id) = "agent_skills"
      /\ req[h].key \in Seq(Labels)
  BY DEF CommitUpdateAgent, Shape, TypeOK, Requests, Proper, In
<1>2. \/ \E status : Fails(h, status)
      \/ UNCHANGED dropped /\ \E status : Writes(h, Answer(status), D)
  BY DEF CommitUpdateAgent
<1>3. CASE \E status : Fails(h, status)
  BY <1>1, <1>3, FailsOwn
<1>4. ASSUME UNCHANGED dropped, NEW status, Writes(h, Answer(status), D) PROVE OwnInv'
  <2>1. Settles(h, Answer(status)) /\ db' = D
    BY <1>1, <1>4, AnswersSettle DEF Writes
  <2>2. ASSUME Present(a)
        PROVE  RowOf(a) \in db /\ RowOf(a).id = a /\ row.id = a /\ row.refs = RowOf(a).refs
    BY <1>1, <2>2, RowOfPresent, RenamedShape
  <2>3. Counted(db) /\ Distinct(db) /\ Known(a) /\ \A p \in req[h].skills : Known(p)
    BY <1>1 DEF OwnInv, CountInv, FreshInv
  <2>4. \A l \in links : /\ TableOf(l.id) = "agent_skills" /\ l.id \notin EntityIds
                         /\ \A p \in l.refs : Known(p)
    BY <2>3, SkillLinksAre
  <2> HIDE DEF a, row, links
  <2>5. /\ \A x \in new : TableOf(x.id) \in {"agents", "agent_skills"}
        /\ \A x \in new : x.id \in EntityIds => Present(a) /\ x = row
        /\ Counted(new)
    <3>1. /\ \A x \in new : TableOf(x.id) \in {"agents", "agent_skills"}
          /\ \A x \in new : x.id \in EntityIds => Present(a) /\ x = row
      BY <1>1, <2>2, <2>4
    <3>2. Counted(new)
      BY <2>2, <2>3, <2>4 DEF Counted
    <3> QED
      BY <3>1, <3>2
  <2> HIDE DEF new
  <2>6. Counted(D)
    BY <2>3, <2>5 DEF Counted
  <2>7. Distinct(D)
    BY <2>2, <2>3, <2>5 DEF Distinct
  <2>8. Ours(h, D)
    BY <2>2, <2>5 DEF Ours, IdsOf
  <2>9. /\ \A x \in D : TableOf(x.id) \in {"organizations", "domains"} => x \in db
        /\ \A g \in Of("groups") : g \in D
    BY <1>1, <2>5 DEF Of, IdsOf
  <2> HIDE DEF D
  <2>10. CountInv' /\ FreshInv' /\ ApplyInv'
    BY <2>1, <2>6, <2>7, <2>8, IdsKept
  <2>11. GroupInv'
    BY <1>4, <2>1, <2>9, GroupsKept
  <2> QED
    BY <2>10, <2>11 DEF OwnInv
<1> QED
  BY <1>2, <1>3, <1>4

LEMMA OwnNext == Shape /\ Shape' /\ OwnInv /\ [Next]_vars => OwnInv'
<1> SUFFICES ASSUME Shape, Shape', OwnInv, [Next]_vars PROVE OwnInv'
  OBVIOUS
<1>1. CASE UNCHANGED vars
  <2>1. UNCHANGED <<foreignKeys, db, made, req, overlapped, dropped>>
    BY <1>1 DEF vars, rows, history
  <2>2. CountInv'
    BY <2>1 DEF OwnInv, CountInv, Counted, Known
  <2>3. FreshInv'
    BY <2>1 DEF OwnInv, FreshInv, Distinct, Held, IdsOf
  <2>4. GroupInv'
    <3>1. OrganizationKeys' /\ Of("domains")' = Of("domains") /\ Of("groups")' = Of("groups")
      BY <2>1 DEF OwnInv, GroupInv, OrganizationKeys, Of
    <3>2. \A g, d : GoTogether(g, d) => GoTogether(g, d)'
      BY <2>1 DEF GoTogether, IdsOf
    <3>3. \A d : Served(d) => Served(d)'
      BY <2>1, <3>1, <3>2 DEF Served, GroupsGoAlone
    <3> QED
      BY <2>1, <3>1, <3>3 DEF OwnInv, GroupInv, WithGroup, TableOf
  <2>5. ApplyInv'
    BY <2>1 DEF OwnInv, ApplyInv, Ready, Of, IdsOf, SkillLinks, Link, TableOf
  <2> QED
    BY <2>2, <2>3, <2>4, <2>5 DEF OwnInv
<1>2. CASE Next
  <2>1. PICK h \in Handlers :
          \/ Asks(h) \/ CommitInsert(h) \/ CommitDelete(h) \/ CommitUpdate(h)
          \/ CommitUpdateAgent(h) \/ MakeConfigMap(h) \/ MakeCR(h)
    BY <1>2 DEF Next, Asks
  <2>2. CASE Asks(h)
    BY <2>2, AllTurn, TurnsKeep DEF OwnInv, GroupInv
  <2> QED
    BY <2>1, <2>2, InsertOwn, DeleteOwn, UpdateOwn, UpdateAgentOwn, LaunchOwn
<1> QED
  BY <1>1, <1>2

LEMMA OwnInit == Init => OwnInv
<1> SUFFICES ASSUME Init PROVE OwnInv
  OBVIOUS
<1>1. /\ db = Seed /\ req = [h \in Handlers |-> Idle]
      /\ made = [t \in Entities |-> Cardinality({r \in Seed : TableOf(r.id) = t})]
  BY DEF Init
<1>2. \A h \in Handlers :
        /\ req[h].at = "idle" /\ req[h].new = {} /\ req[h].got = {} /\ req[h].skills = {}
        /\ req[h].target = NoId /\ req[h].cli = "none"
  BY <1>1 DEF Idle
<1>3. CountInv
  <2>1. \A r \in Seed : r.id \in EntityIds => Known(r.id)
    <3>1. ASSUME NEW r \in Seed, r.id \in EntityIds PROVE Known(r.id)
      <4>1. TableOf(r.id) = r.id[1] /\ r.id[1] \in Entities
        BY <3>1 DEF TableOf, EntityIds
      <4>2. r.id[2] <= Cardinality({s \in Seed : TableOf(s.id) = TableOf(r.id)})
        BY <3>1, SeedAssumption
      <4>3. made[r.id[1]] = Cardinality({s \in Seed : TableOf(s.id) = r.id[1]})
        BY <1>1, <4>1
      <4> QED
        BY <4>1, <4>2, <4>3 DEF Known
    <3> QED
      BY <3>1
  <2>2. \A r \in Seed : \A p \in r.refs : p \in EntityIds /\ p \in IdsOf(Seed)
    BY SeedAssumption DEF Rows
  <2>3. Counted(db)
    BY <1>1, <2>1, <2>2 DEF Counted, IdsOf
  <2> QED
    BY <1>2, <2>3, NoEntity DEF CountInv, Counted
<1>4. FreshInv
  BY <1>1, <1>2, SeedAssumption DEF FreshInv, Distinct, Held
<1>5. GroupInv
  <2>1. ASSUME NEW d \in Of("domains") PROVE Served(d)
    <3>1. PICK g \in Seed, o \in Identifiers :
            /\ TableOf(g.id) = "groups" /\ g.refs = d.refs /\ d.key = o \o g.key
            /\ g.key \in GroupNames
      BY <1>1, SeedAssumption DEF Of, GroupNames
    <3>2. GoTogether(g, d)
      BY <1>2 DEF GoTogether
    <3> QED
      BY <1>1, <3>1, <3>2 DEF Served, Of
  <2> QED
    BY <1>1, <1>2, <2>1, SeedAssumption DEF GroupInv, OrganizationKeys, Of
<1>6. ApplyInv
  BY <1>2 DEF ApplyInv, Ready
<1> QED
  BY <1>3, <1>4, <1>5, <1>6 DEF OwnInv


-----------------------------------------------------------------------------
(* What an apply leaves.                                                     *)

\* What the requests that do not overlap leave of an apply, in the step that answers it.
TakesEffect(h) == Acknowledged(h) /\ ~overlapped' => WellApplied(h)

\* Steps that do not answer "ok" to an apply.
LEMMA NotAnswered ==
  ASSUME NEW h, req[h].cli # "apply" \/ req'[h].answer # "ok"
  PROVE  TakesEffect(h)
BY DEF TakesEffect, Acknowledged

LEMMA InsertTakesEffect ==
  ASSUME Shape, OwnInv, NEW h \in Handlers, CommitInsert(h)
  PROVE  TakesEffect(h)
<1> SUFFICES ASSUME req[h].cli = "apply", req'[h].answer = "ok", ~overlapped'
             PROVE  WellApplied(h)
  BY DEF TakesEffect, Acknowledged
<1> DEFINE new == req[h].new
<1>1. req[h].at = "insert" /\ req \in [Handlers -> Requests]
  BY DEF CommitInsert, Shape, TypeOK
<1>2. db' = db \cup new /\ ~overlapped
  <2>1. ASSUME NEW status \in {"404", "409", "500"}, Fails(h, status) PROVE FALSE
    BY <1>1, <2>1 DEF Fails, Writes, Answer, Idle
  <2>2. \A r : Writes(h, r, db \cup new) => db' = db \cup new /\ ~overlapped
    BY DEF Writes
  <2> QED
    BY <2>1, <2>2 DEF CommitInsert
<1>3. PICK agent \in new :
        /\ TableOf(agent.id) = "agents" /\ agent.key = req[h].key
        /\ new = {agent} \cup SkillLinks(agent.id, req[h].skills)
        /\ \A l \in db : agent.id \notin l.refs
        /\ \A a \in Of("agents") : ~(a.key = agent.key /\ a.refs = agent.refs)
  BY <1>1, <1>2 DEF OwnInv, ApplyInv, Ready
<1>4. agent \in db' /\ agent.id \in Applied(h)
  BY <1>1, <1>2, <1>3 DEF Applied, IdsOf
<1>5. {r \in db' : TableOf(r.id) = "agent_skills" /\ agent.id \in r.refs}
        = SkillLinks(agent.id, req[h].skills)
  BY <1>2, <1>3, SkillLinksAre
<1>6. ~\E a \in db : TableOf(a.id) = "agents" /\ a.key = agent.key /\ a.refs = agent.refs
  BY <1>3 DEF Of
<1> QED
  BY <1>3, <1>4, <1>5, <1>6 DEF WellApplied

LEMMA UpdateTakesEffect ==
  ASSUME Shape, OwnInv, NEW h \in Handlers, CommitUpdateAgent(h)
  PROVE  TakesEffect(h)
<1> SUFFICES ASSUME req[h].cli = "apply", req'[h].answer = "ok", ~overlapped'
             PROVE  WellApplied(h)
  BY DEF TakesEffect, Acknowledged
<1> DEFINE a == req[h].target
           links == SkillLinks(a, req[h].skills)
           others == {r \in db : r.id # a /\ r.id \notin IdsOf(req[h].got)}
           row == Renamed(a, req[h].key)
<1>1. /\ req[h].at = "updateAgent" /\ TableOf(a) = "agents" /\ req \in [Handlers -> Requests]
      /\ req[h].key \in Seq(Labels)
  BY DEF CommitUpdateAgent, Shape, TypeOK, Requests, Proper, In
<1>2. Present(a) /\ db' = others \cup ({row} \cup links) /\ ~overlapped
  <2>1. ASSUME NEW status \in {"404", "500"}, Fails(h, status) PROVE FALSE
    BY <1>1, <2>1 DEF Fails, Writes, Answer, Idle
  <2>2. ASSUME Writes(h, Answer("500"), others \cup links) PROVE FALSE
    BY <1>1, <2>2 DEF Writes, Answer, Idle
  <2>3. \/ \E status \in {"404", "500"} : Fails(h, status)
        \/ Writes(h, Answer("500"), others \cup links)
        \/ Present(a) /\ Writes(h, Answer("ok"), others \cup ({row} \cup links))
    BY DEF CommitUpdateAgent
  <2>4. Present(a) /\ Writes(h, Answer("ok"), others \cup ({row} \cup links))
    BY <2>1, <2>2, <2>3
  <2> QED
    BY <2>4 DEF Writes
<1>3. row.id = a /\ row.key = req[h].key
  <2>1. RowOf(a) \in Rows /\ RowOf(a).id = a
    BY <1>2, RowOfPresent DEF Shape, TypeOK
  <2> QED
    BY <1>1, <2>1 DEF Renamed, Rows
<1>4. \A l \in Of("agent_skills") : a \in l.refs => l.id \in IdsOf(req[h].got)
  BY <1>1, <1>2 DEF OwnInv, ApplyInv, Ready
<1>5. \A l \in links : TableOf(l.id) = "agent_skills" /\ a \in l.refs
  BY SkillLinksAre
<1>6. row \in db' /\ row.id \in Applied(h)
  BY <1>1, <1>2, <1>3 DEF Applied
<1>7. {r \in db' : TableOf(r.id) = "agent_skills" /\ row.id \in r.refs} = links
  <2> HIDE DEF row, links, a
  <2> QED
    BY <1>1, <1>2, <1>3, <1>4, <1>5 DEF Of
<1>8. row.id \in IdsOf(db)
  BY <1>2, <1>3 DEF Present
<1> HIDE DEF row
<1> QED
  BY <1>3, <1>6, <1>7, <1>8 DEF WellApplied

LEMMA EffectNext ==
  Shape /\ Shape' /\ OwnInv /\ [Next]_vars => \A h \in Handlers : TakesEffect(h)
<1> SUFFICES ASSUME Shape, Shape', OwnInv, [Next]_vars, NEW h \in Handlers
             PROVE  TakesEffect(h)
  OBVIOUS
<1>1. req \in [Handlers -> Requests] /\ (req[h].cli = "apply" => req[h].answer # "ok")
  BY DEF Shape, TypeOK, OwnInv, ApplyInv
<1>2. ASSUME req'[h] = req[h] PROVE TakesEffect(h)
  BY <1>1, <1>2, NotAnswered
<1>3. CASE UNCHANGED vars
  BY <1>2, <1>3 DEF vars
<1>4. CASE Next
  <2>1. PICK g \in Handlers :
          \/ Asks(g) \/ CommitInsert(g) \/ CommitDelete(g) \/ CommitUpdate(g)
          \/ CommitUpdateAgent(g) \/ MakeConfigMap(g) \/ MakeCR(g)
    BY <1>4 DEF Next, Asks
  <2>2. CASE g # h
    <3>1. \E r : req' = [req EXCEPT ![g] = r]
      <4>1. CASE Asks(g)
        BY <4>1, AllProper, GoesKeepsShape
      <4>2. CASE CommitInsert(g)
        BY <4>2 DEF CommitInsert, Fails, Writes
      <4>3. CASE CommitDelete(g)
        BY <4>3 DEF CommitDelete, Writes
      <4>4. CASE CommitUpdate(g)
        BY <4>4 DEF CommitUpdate, Fails, Writes
      <4>5. CASE CommitUpdateAgent(g)
        BY <4>5 DEF CommitUpdateAgent, Fails, Writes
      <4>6. CASE MakeConfigMap(g) \/ MakeCR(g)
        BY <4>6 DEF MakeConfigMap, MakeCR, ToCR
      <4> QED
        BY <2>1, <4>1, <4>2, <4>3, <4>4, <4>5, <4>6
    <3> QED
      BY <1>1, <1>2, <2>2, <3>1
  <2>3. CASE g = h /\ Asks(h)
    <3>1. PICK r : Careful(r) /\ GoesOn(h, r)
      BY <2>3, AllTurn DEF OwnInv, GroupInv, Turns
    <3>2. req'[h].answer # "ok"
      BY <1>1, <3>1 DEF GoesOn, Careful
    <3> QED
      BY <3>2, NotAnswered
  <2>4. CASE g = h /\ (CommitDelete(h) \/ CommitUpdate(h) \/ MakeConfigMap(h) \/ MakeCR(h))
    <3>1. req[h].at \in {"delete", "update", "configmap", "cr"}
      BY <2>4 DEF CommitDelete, CommitUpdate, MakeConfigMap, MakeCR
    <3>2. req[h].cli # "apply"
      BY <3>1 DEF OwnInv, ApplyInv
    <3> QED
      BY <3>2, NotAnswered
  <2> QED
    BY <2>1, <2>2, <2>3, <2>4, InsertTakesEffect, UpdateTakesEffect
<1> QED
  BY <1>3, <1>4

-----------------------------------------------------------------------------
(* The theorems.                                                            *)

LEMMA RegInit == Init => Shape /\ MountInv
<1> SUFFICES ASSUME Init PROVE Shape /\ MountInv
  OBVIOUS
<1>1. /\ foreignKeys \in Databases /\ db = Seed
      /\ made = [t \in Entities |-> Cardinality({r \in Seed : TableOf(r.id) = t})]
      /\ req = [h \in Handlers |-> Idle]
  BY DEF Init
<1>2. made \in [Entities -> Nat]
  <2>1. ASSUME NEW t PROVE Cardinality({r \in Seed : TableOf(r.id) = t}) \in Nat
    BY SeedAssumption, FS_Subset, FS_CardinalityType
  <2> QED
    BY <1>1, <2>1
<1>3. Proper(Idle) /\ Idle.at = "idle" /\ Idle \in Requests
  <2>1. Answer("none") = Idle
    BY DEF Answer, Idle
  <2>2. Proper(Answer("none")) /\ Answer("none").at = "idle"
    BY AnswersProper
  <2> QED
    BY <2>1, <2>2 DEF Proper
<1>4. Shape
  BY <1>1, <1>2, <1>3, SeedAssumption, DatabasesAssumption DEF Shape, TypeOK, Schema
<1>6. Mounts
  BY <1>1, <1>3 DEF Mounts
<1>7. OwnSkills
  <2>1. /\ configmaps \subseteq {<<r.key, r.id>> : r \in Seed}
        /\ crs = {[session |-> c[2], mounts |-> c[1]] : c \in configmaps}
    BY DEF Init
  <2>2. \A c \in configmaps : c = <<c[1], c[2]>>
    BY <2>1
  <2> QED
    BY <2>1, <2>2 DEF OwnSkills
<1> QED
  BY <1>4, <1>6, <1>7 DEF MountInv

\* Requests and transactions make no CR, and start none.
LEMMA OthersMount ==
  ASSUME MountInv, NEW h \in Handlers, NEW r, r.at # "cr", req \in [Handlers -> Requests],
         req' = [req EXCEPT ![h] = r], UNCHANGED cluster
  PROVE  MountInv'
<1>1. \A g \in Handlers : req'[g].at = "cr" => req'[g] = req[g]
  OBVIOUS
<1>2. UNCHANGED <<configmaps, crs>>
  BY DEF cluster
<1> QED
  BY <1>1, <1>2 DEF MountInv, Mounts, OwnSkills, Launching

LEMMA WritesMount ==
  ASSUME MountInv, NEW h \in Handlers, NEW r, r.at # "cr", req \in [Handlers -> Requests],
         NEW D, Writes(h, r, D)
  PROVE  MountInv'
BY OthersMount DEF Writes

LEMMA CommitsMount ==
  ASSUME MountInv, NEW h \in Handlers, req \in [Handlers -> Requests],
         CommitInsert(h) \/ CommitDelete(h) \/ CommitUpdate(h) \/ CommitUpdateAgent(h)
  PROVE  MountInv'
<1>1. PICK r : r.at # "cr" /\ \E D : Writes(h, r, D)
  <2>1. \A status \in {"ok", "404", "409", "500"} : Answer(status).at # "cr"
    BY DEF Answer, Idle
  <2>2. [Idle EXCEPT !.at = "configmap", !.new = req[h].new].at # "cr"
    BY DEF Idle
  <2>3. ASSUME NEW status \in {"404", "409", "500"}, Fails(h, status)
        PROVE  \E r : r.at # "cr" /\ \E D : Writes(h, r, D)
    BY <2>1, <2>3 DEF Fails
  <2>4. CASE CommitInsert(h)
    BY <2>1, <2>2, <2>3, <2>4 DEF CommitInsert
  <2>5. CASE CommitDelete(h)
    BY <2>1, <2>5 DEF CommitDelete
  <2>6. CASE CommitUpdate(h)
    BY <2>1, <2>3, <2>6 DEF CommitUpdate
  <2>7. CASE CommitUpdateAgent(h)
    BY <2>1, <2>3, <2>7 DEF CommitUpdateAgent
  <2> QED
    BY <2>4, <2>5, <2>6, <2>7
<1> QED
  BY <1>1, WritesMount

LEMMA RegNext == Shape /\ MountInv /\ [Next]_vars => Shape' /\ MountInv'
<1> SUFFICES ASSUME Shape, MountInv, [Next]_vars PROVE Shape' /\ MountInv'
  OBVIOUS
<1>1. CASE UNCHANGED vars
  <2>1. UNCHANGED <<foreignKeys, db, made, req, configmaps, crs>>
    BY <1>1 DEF vars, rows, cluster
  <2>2. Shape'
    BY <2>1 DEF Shape, TypeOK, Schema
  <2>3. MountInv'
    BY <2>1 DEF MountInv, Mounts, OwnSkills, Launching
  <2> QED
    BY <2>2, <2>3
<1>2. CASE Next
  <2>1. PICK h \in Handlers :
          \/ Asks(h) \/ CommitInsert(h) \/ CommitDelete(h) \/ CommitUpdate(h)
          \/ CommitUpdateAgent(h) \/ MakeConfigMap(h) \/ MakeCR(h)
    BY <1>2 DEF Next, Asks
  <2>2. Shape /\ req \in [Handlers -> Requests]
    BY DEF Shape, TypeOK
  <2>3. CASE Asks(h)
    <3>1. /\ Shape' /\ UNCHANGED <<foreignKeys, db, cluster>>
          /\ \E r : r.at \notin {"configmap", "cr"} /\ req' = [req EXCEPT ![h] = r]
      BY <2>2, <2>3, AllProper, GoesKeepsShape
    <3> QED
      BY <2>2, <3>1, OthersMount
  <2>4. CASE CommitInsert(h)
    BY <2>2, <2>4, InsertKeeps, CommitsMount
  <2>5. CASE CommitDelete(h)
    BY <2>2, <2>5, DeleteKeeps, CommitsMount
  <2>6. CASE CommitUpdate(h)
    BY <2>2, <2>6, UpdateKeeps, CommitsMount
  <2>7. CASE CommitUpdateAgent(h)
    BY <2>2, <2>7, UpdateAgentKeeps, CommitsMount
  <2>8. CASE MakeConfigMap(h)
    BY <2>8, ConfigMapKeeps
  <2>9. CASE MakeCR(h)
    BY <2>9, CRKeeps
  <2> QED
    BY <2>1, <2>3, <2>4, <2>5, <2>6, <2>7, <2>8, <2>9
<1> QED
  BY <1>1, <1>2

LEMMA RegInvariant == Spec => [](Shape /\ MountInv)
BY RegInit, RegNext, PTL DEF Spec

\* Every row keeps the columns of its table and every request the shape of its step,
\* whatever the handlers of services/*.py are asked.
THEOREM RegistryTypeCorrect == Spec => []TypeOK
<1>1. Shape /\ MountInv => TypeOK
  BY DEF Shape
<1> QED
  BY <1>1, RegInvariant, PTL

\* No Session CR mounts the skills ConfigMap that was made for another session: create_session
\* mounts one only when it has just made it.
THEOREM SkillsAreOwn == Spec => []OwnSkills
<1>1. Shape /\ MountInv => OwnSkills
  BY DEF MountInv
<1> QED
  BY <1>1, RegInvariant, PTL

\* Whatever the database enforces, the references that a handler looks up first and the ORM
\* deletes along name rows that are there, for any rows and requests, as long as no
\* two requests overlap.
THEOREM CheckedReferencesStayLive == Spec => []CheckedReferencesLive
<1>1. Shape /\ AloneInv => CheckedReferencesLive
  BY DEF Shape, TypeOK, AloneInv, CheckedIn, CheckedReferencesLive,
         Present, IdsOf
<1>2. Init => Shape /\ MountInv /\ AloneInv
  BY RegInit, AloneInit
<1>3. (Shape /\ MountInv /\ AloneInv) /\ [Next]_vars => (Shape /\ MountInv /\ AloneInv)'
  BY RegNext, AloneNext
<1> QED
  BY <1>1, <1>2, <1>3, PTL DEF Spec

\* A domain has the group that was made with it by create_organization or create_domain, until
\* a request deletes or renames that group: an organization that is deleted never takes the
\* group without the domain, whatever other handlers commit between its reads and its writes.
THEOREM DomainsHaveGroups == Spec => []DomainHasGroup
<1>1. Shape /\ OwnInv => DomainHasGroup
  BY DEF OwnInv, GroupInv, Served, DomainHasGroup, GroupNames
<1>2. Init => Shape /\ MountInv /\ OwnInv
  BY RegInit, OwnInit
<1>3. (Shape /\ MountInv /\ OwnInv) /\ [Next]_vars => (Shape /\ MountInv /\ OwnInv)'
  BY RegNext, OwnNext
<1> QED
  BY <1>1, <1>2, <1>3, PTL DEF Spec

\* `mob agent apply` of which the CLI says that it is done has left one agent of the name,
\* with the skills of the file and no others, and made none where there was one: for any
\* rows and requests that do not overlap.
THEOREM ApplyIsIdempotent == Spec => ApplyTakesEffect
<1>1. Init => Shape /\ MountInv /\ OwnInv
  BY RegInit, OwnInit
<1>2. (Shape /\ MountInv /\ OwnInv) /\ [Next]_vars => (Shape /\ MountInv /\ OwnInv)'
  BY RegNext, OwnNext
<1>3. (Shape /\ Shape' /\ OwnInv) /\ [Next]_vars => [\A h \in Handlers : TakesEffect(h)]_vars
  BY EffectNext
<1>4. [\A h \in Handlers : TakesEffect(h)]_vars <=>
        [\A h \in Handlers : Acknowledged(h) /\ ~overlapped' => WellApplied(h)]_vars
  BY DEF TakesEffect
<1> QED
  BY <1>1, <1>2, <1>3, <1>4, PTL DEF Spec, ApplyTakesEffect

=============================================================================
