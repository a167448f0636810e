-------------------------------- MODULE MCRegistry --------------------------------
(* Registry for TLC: a small organization in which everything has been made once. *)
EXTENDS Registry, TLC

MCLabels == {"a", "b", "default", "x", "y"}
MCIdentifiers == {<<"a">>, <<"a", "b">>}
MCSuffixes == {<<"b">>, <<"b", "default">>}
MCNames == {<<"x">>, <<"y">>}

MCSeed ==
  {Row("organizations", 1, <<"a">>, {}),
   Row("domains", 1, <<"a", "default">>, {<<"organizations", 1>>}),
   Row("groups", 1, <<"default">>, {<<"organizations", 1>>}),
   Row("users", 1, <<"x">>, {}),
   Row("agents", 1, <<"x">>, {<<"domains", 1>>}),
   Row("skills", 1, <<"x">>, {}),
   Row("tasks", 1, NoKey, {<<"agents", 1>>}),
   Row("sessions", 1, <<"x">>, {<<"agents", 1>>, <<"tasks", 1>>}),
   Link("agent_skills", {<<"agents", 1>>, <<"skills", 1>>})}

\* Postgres; a Postgres whose sessions have got their references by an upgrade; SQLite.
MCDatabases ==
  {References, {pair \in References : pair[2] # "sessions"}, {}}

MCMaxRows == [t \in Entities |-> 2]
Symmetry == Permutations(Handlers)
===================================================================================
