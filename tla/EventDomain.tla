----------------------------- MODULE EventDomain -----------------------------
(* The vocabulary every other module shares: the life cycle of an event      *)
(* (events/domain/event.go) and the roles a user may hold in one             *)
(* (migrations/004_create_event_roles.sql).                                  *)

Statuses == {"draft", "registration_open", "submissions_open", "judging",
             "voting", "results_published", "archived"}

\* allowedTransitions, as the edges of a graph.
Edges == {<<"draft", "registration_open">>,
          <<"registration_open", "submissions_open">>,
          <<"submissions_open", "judging">>,
          <<"judging", "voting">>,
          <<"judging", "results_published">>,
          <<"voting", "results_published">>,
          <<"results_published", "archived">>}

RoleNames == {"organizer", "judge", "participant"}
=============================================================================
