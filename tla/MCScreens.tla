----------------------------- MODULE MCScreens ------------------------------
(* The query cache with every screen of the dashboard for TLC. *)
EXTENDS QueryCache, Screens

\* Each gap is one: on some screen the write changes the list, which is not
\* polled, and refreshes other keys only.
ASSUME GapsAreOpen ==
  \A g \in OpenGaps : \E s \in AllScreens : \E l \in s.reads :
    /\ l.key = g[1] /\ ~l.poll /\ g[2] \in s.writes
    /\ g[2].on \cap l.of # {} /\ l.key \notin g[2].inval
=============================================================================
