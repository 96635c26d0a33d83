----------------------------- MODULE MCSession ------------------------------
(* Session with an admin, a user restricted to some pages and a tool user. *)
EXTENDS Session

MCRoleOf == [a |-> "admin", u |-> "user", k |-> "user"]
MCEffOf == [a |-> {<<"admin", "domains">>, <<"dashboard">>}, u |-> {<<"jobs">>}, k |-> None]
MCCalls == {"route", "admin", "login", "stale"}

Tenant == [DEFAULT EXCEPT !.allow_landing = FALSE, !.allow_register = FALSE,
                          !.allow_all_pages = FALSE,
                          !.allowed_pages = << <<"admin", "domains">>, <<"jobs">> >>]
Closed == [DEFAULT EXCEPT !.maintenance = TRUE]
MCSites == {Tenant, Closed}
MCEntrances == {<<"admin", "login">>, <<"register">>, <<>>}
=============================================================================
