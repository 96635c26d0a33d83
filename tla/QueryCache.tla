----------------------------- MODULE QueryCache -----------------------------
(***************************************************************************)
(* A screen of the dashboard over the client's query cache.  A screen is   *)
(* what its components declare (module Screens): the lists they read with  *)
(* useQuery and the writes they offer with useMutation, each with the keys *)
(* it invalidates when it succeeds.  What the cache does between them is   *)
(* @tanstack/react-query as main.tsx configures it.                        *)
(*                                                                         *)
(* Entries of different keys never touch each other, so a behaviour        *)
(* follows one screen and one of its lists, with the writes that concern   *)
(* it: Init picks both.  The data of a list is the number of changes made  *)
(* so far to the tables it shows.                                          *)
(*                                                                         *)
(* Bound: MaxEvents clicks, foreign edits, faults and changes of filter.   *)
(***************************************************************************)
EXTENDS Naturals, FiniteSets

CONSTANTS Screens,    \* the screens: [reads, writes]
          Gaps,       \* <<key, write>>: writes that are known to leave a list behind
          None,       \* no data, no request
          Asked,      \* a request the server has not read
          MaxEvents

ASSUME QueryCacheAssumption ==
  /\ MaxEvents \in Nat /\ None # Asked /\ {None, Asked} \cap Nat = {}
  /\ \A s \in Screens : s.reads # {} /\ IsFiniteSet(s.reads) /\ IsFiniteSet(s.writes)

VARIABLES screen,   \* the open screen
          list,     \* the list that is followed
          ver,      \* changes to its tables, on the server
          data,     \* what the cache holds of it
          fetch,    \* the request whose answer counts: sent, or read by the server
          dropped,  \* requests that were cancelled, whose answers may still come
          calls,    \* writes under way
          owed,     \* history: the change that the screen has reported as saved,
                    \* other than by one of the Gaps
          events

vars == <<screen, list, ver, data, fetch, dropped, calls, owed, events>>

Vers == 0..MaxEvents
Lists == UNION {s.reads : s \in Screens}
Writes == UNION {s.writes : s \in Screens}

TypeOK ==
  /\ screen \in Screens /\ list \in screen.reads
  /\ ver \in Vers /\ data \in Vers \cup {None} /\ owed \in 0..ver
  /\ fetch \in Vers \cup {Asked, None}
  /\ dropped \subseteq Vers \cup {Asked}
  /\ calls \subseteq [n : 1..MaxEvents, write : screen.writes,
                      st : {"sent", "done", "refused"}, made : Vers]
  /\ events \in Vers

\* A screen is opened for the first time, or on data that is fresh enough
\* (staleTime) not to be asked for again.
Init ==
  /\ screen \in Screens /\ list \in screen.reads
  /\ ver = 0 /\ owed = 0 /\ events = 0
  /\ dropped = {} /\ calls = {}
  /\ \/ data = None /\ fetch = Asked
     \/ data = 0 /\ fetch = None

Event == events < MaxEvents /\ events' = events + 1

-----------------------------------------------------------------------------
\* refetchInterval
polls == list.poll

\* A tick asks unless a request is under way.
tick ==
  /\ polls /\ fetch = None
  /\ fetch' = Asked
  /\ UNCHANGED <<screen, list, ver, data, dropped, calls, owed, events>>

serverReads ==
  /\ \/ fetch = Asked /\ fetch' = ver /\ UNCHANGED dropped
     \/ Asked \in dropped /\ dropped' = (dropped \ {Asked}) \cup {ver} /\ UNCHANGED fetch
  /\ UNCHANGED <<screen, list, ver, data, calls, owed, events>>

\* The answer, or a failure after the retries: old data stays, and what was
\* owed will not be asked for again unless the list is polled.
fetchAnswered ==
  /\ fetch \in Vers
  /\ fetch' = None
  /\ \/ data' = fetch /\ UNCHANGED <<owed, events>>
     \/ Event /\ UNCHANGED data /\ owed' = IF list.poll THEN owed ELSE 0
  /\ UNCHANGED <<screen, list, ver, dropped, calls>>

\* Mutant: the answer of a cancelled request is cached.
keepDropped(a) == a

keep(a) == data

droppedAnswered(a) ==
  /\ a \in Vers \cap dropped
  /\ dropped' = dropped \ {a} /\ data' = keep(a)
  /\ UNCHANGED <<screen, list, ver, fetch, calls, owed, events>>

\* invalidateQueries: an open list is asked for again and a refetch under way
\* is cancelled; the first request of a list is not.
invalidate ==
  IF data # None \/ fetch = None
  THEN fetch' = Asked /\ dropped' = dropped \cup ({fetch} \ {None})
  ELSE UNCHANGED <<fetch, dropped>>

\* Another filter, page or period is another key: an empty entry.
changeFilter ==
  /\ Event /\ list.filter
  /\ data' = None /\ fetch' = Asked /\ owed' = 0
  /\ dropped' = {}
  /\ UNCHANGED <<screen, list, ver, calls>>

-----------------------------------------------------------------------------
Touches(w) == w.on \cap list.of # {}
Concerns(w) == Touches(w) \/ list.key \in w.inval

\* A guarded button is disabled while its mutation is pending; a row's button
\* needs the row.
Enabled(w) == /\ w.busy => \A c \in calls : c.write # w
              /\ w.rows = list.key => data # None

click(w) ==
  /\ Event /\ Concerns(w) /\ Enabled(w)
  /\ calls' = calls \cup {[n |-> events', write |-> w, st |-> "sent",
                              made |-> 0]}
  /\ UNCHANGED <<screen, list, ver, data, fetch, dropped, owed>>

serverTakes(c) ==
  /\ c.st = "sent"
  /\ \/ /\ ver' = IF Touches(c.write) THEN ver + 1 ELSE ver
        /\ calls' = (calls \ {c}) \cup
                    {[c EXCEPT !.st = "done", !.made = IF Touches(c.write) THEN ver' ELSE 0]}
        /\ UNCHANGED events
     \/ /\ Event /\ calls' = (calls \ {c}) \cup {[c EXCEPT !.st = "refused"]}
        /\ UNCHANGED ver
  /\ UNCHANGED <<screen, list, data, fetch, dropped, owed>>

\* onSuccess invalidates and reports the change; a refusal, or an answer that
\* is lost, does neither.
answered(c) ==
  /\ c.st # "sent" /\ calls' = calls \ {c}
  /\ \/ /\ c.st = "done"
        /\ IF list.key \in c.write.inval THEN invalidate ELSE UNCHANGED <<fetch, dropped>>
        /\ owed' = IF data # None /\ c.made > owed /\ <<list.key, c.write>> \notin Gaps
                   THEN c.made ELSE owed
        /\ UNCHANGED events
     \/ c.st = "refused" /\ UNCHANGED <<fetch, dropped, owed, events>>
     \/ c.st = "done" /\ Event /\ UNCHANGED <<fetch, dropped, owed>>
  /\ UNCHANGED <<screen, list, ver, data>>

\* Somebody else, or a worker.
foreignEdit ==
  /\ Event /\ ver' = ver + 1
  /\ UNCHANGED <<screen, list, data, fetch, dropped, calls, owed>>

-----------------------------------------------------------------------------
Answers == serverReads \/ fetchAnswered \/ \E a \in Vers : droppedAnswered(a)
Mutations == (\E w \in screen.writes : click(w)) \/ \E c \in calls : serverTakes(c) \/ answered(c)

Next == tick \/ Answers \/ changeFilter \/ Mutations \/ foreignEdit

Spec == Init /\ [][Next]_vars

\* Intervals fire in a visible tab and the list's requests are answered.
FairSpec == Spec /\ WF_vars(tick) /\ WF_vars(serverReads) /\ WF_vars(fetchAnswered)

-----------------------------------------------------------------------------
(* Properties *)

\* Behind: a polled list against the server, any other against what the screen
\* has reported as saved.
Behind == IF list.poll THEN data = None \/ data < ver
          ELSE data # None /\ data < owed

\* A list never stays behind: after every write that is reported as saved, the
\* named Gaps apart, each list on the screen that shows its tables is fetched
\* again, and every polled list follows the server through failures and changes
\* of filter.
CatchesUp == Behind ~> ~Behind

\* A list never shows an older state than before: the answer of a request that
\* an invalidation overtook does not come back.
NeverGoesBack ==
  [][data # None /\ data' # None => data' >= data]_vars
=============================================================================
