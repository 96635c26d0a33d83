--------------------------- MODULE QueryCacheProofs ---------------------------
(***************************************************************************)
(* Proofs about the query cache, for any screens and any number of clicks, *)
(* edits and faults.                                                       *)
(***************************************************************************)
EXTENDS QueryCache, FiniteSetTheorems, TLAPS

-----------------------------------------------------------------------------
Call == [n : 1..MaxEvents, write : screen.writes, st : {"sent", "done", "refused"},
         made : Vers]

\* A list shows no later state than the server's, and none later than the one
\* the request under way has read.
Fresh ==
  /\ data # None => data <= ver
  /\ fetch \in Vers => fetch <= ver /\ (data # None => data <= fetch)

\* What a write is reported to have made has been made.
MadeBefore == \A c \in calls : c.made <= ver

\* Every change of the server's tables has an event of its own: an edit, or a
\* click, and the clicks that wait for the server still have theirs to come.
Waiting == {c \in calls : c.st = "sent"}
EventsCount ==
  /\ IsFiniteSet(calls) /\ \A c \in calls : c.n <= events
  /\ ver + Cardinality(Waiting) <= events

CacheInv == TypeOK /\ Fresh /\ MadeBefore /\ EventsCount

-----------------------------------------------------------------------------
LEMMA Numbers ==
  ASSUME TypeOK
  PROVE  /\ ver \in Nat /\ owed \in Nat /\ events \in Nat /\ MaxEvents \in Nat
         /\ data \in Nat \cup {None} /\ fetch \in Nat \cup {Asked, None}
         /\ calls \in SUBSET Call /\ None \notin Nat /\ Asked \notin Nat /\ None # Asked
         /\ events <= MaxEvents /\ ver <= MaxEvents
BY QueryCacheAssumption DEF TypeOK, Vers, Call

LEMMA WaitingSize ==
  ASSUME IsFiniteSet(calls)
  PROVE  IsFiniteSet(Waiting) /\ Cardinality(Waiting) \in Nat
<1>1. Waiting \subseteq calls
  BY DEF Waiting
<1> QED
  BY <1>1, FS_Subset, FS_CardinalityType

LEMMA CacheInit == Init => CacheInv
<1> SUFFICES ASSUME Init PROVE CacheInv
  OBVIOUS
<1>1. 0 \in Vers
  BY QueryCacheAssumption DEF Vers
<1>2. TypeOK
  <2>1. owed \in 0..ver
    BY DEF Init
  <2> QED
    BY <1>1, <2>1 DEF Init, TypeOK
<1>3. IsFiniteSet(calls) /\ Waiting = {} /\ Cardinality(Waiting) = 0
  BY FS_EmptySet DEF Init, Waiting
<1>4. Fresh
  BY QueryCacheAssumption DEF Init, Fresh, Vers
<1> QED
  BY <1>2, <1>3, <1>4 DEF Init, CacheInv, MadeBefore, EventsCount

-----------------------------------------------------------------------------
(* The list's requests.                                                    *)

\* No write moves.
LEMMA WritesApart ==
  ASSUME CacheInv, UNCHANGED <<ver, calls>>, events' \in {events, events + 1}
  PROVE  MadeBefore' /\ EventsCount'
<1>1. ver \in Nat /\ events \in Nat /\ calls \in SUBSET Call
  BY Numbers DEF CacheInv
<1>2. IsFiniteSet(calls) /\ \A c \in calls : c.n <= events /\ c.n \in Nat
  BY <1>1 DEF CacheInv, EventsCount, Call
<1>3. Waiting' = Waiting /\ Cardinality(Waiting) \in Nat
  BY <1>2, WaitingSize DEF Waiting
<1>4. ver + Cardinality(Waiting) <= events
  BY DEF CacheInv, EventsCount
<1> QED
  BY <1>1, <1>2, <1>3, <1>4 DEF CacheInv, MadeBefore, EventsCount

LEMMA EventType ==
  ASSUME TypeOK, Event
  PROVE  events' = events + 1 /\ events' \in Vers /\ events' \in 1..MaxEvents
BY QueryCacheAssumption DEF TypeOK, Event, Vers

LEMMA ListStep ==
  ASSUME CacheInv, tick \/ serverReads \/ fetchAnswered \/ (\E a \in Vers : droppedAnswered(a))
                   \/ changeFilter
  PROVE  CacheInv' /\ (data # None /\ data' # None => data' >= data)
<1>0. TypeOK /\ Fresh
  BY DEF CacheInv
<1>1. /\ ver \in Nat /\ data \in Nat \cup {None} /\ fetch \in Nat \cup {Asked, None}
      /\ None \notin Nat /\ Asked \notin Nat /\ None # Asked /\ ver \in Vers /\ events \in Vers
      /\ 0 \in 0..ver
  BY <1>0, Numbers DEF TypeOK
<1>2. /\ UNCHANGED <<screen, list, ver, calls>>
      /\ events' \in {events, events + 1} /\ events' \in Vers
  BY <1>0, <1>1, EventType
     DEF tick, serverReads, fetchAnswered, droppedAnswered, changeFilter
<1>3. /\ data' \in {data, None} \/ (fetch \in Vers /\ data' = fetch /\ fetch' = None)
      /\ fetch' \in {fetch, Asked, ver, None}
      /\ fetch' \in Vers => data' = data
      /\ fetch' = ver \/ fetch' = fetch \/ fetch' \notin Vers
      /\ owed' \in {owed, 0} /\ dropped' \subseteq dropped \cup {ver}
  <2>1. Asked \notin Vers /\ None \notin Vers
    BY <1>1 DEF Vers
  <2>2. CASE tick
    BY <2>1, <2>2 DEF tick
  <2>3. CASE serverReads
    BY <2>1, <2>3 DEF serverReads
  <2>4. CASE fetchAnswered
    BY <2>1, <2>4 DEF fetchAnswered
  <2>5. CASE \E a \in Vers : droppedAnswered(a)
    BY <2>1, <2>5 DEF droppedAnswered, keep
  <2>6. CASE changeFilter
    BY <2>1, <2>6 DEF changeFilter
  <2> QED
    BY <2>2, <2>3, <2>4, <2>5, <2>6
<1>4. TypeOK'
  BY <1>0, <1>1, <1>2, <1>3 DEF TypeOK
<1>5. data # None /\ data' # None => data' >= data
  BY <1>0, <1>1, <1>3 DEF Fresh, Vers
<1>6. Fresh'
  BY <1>0, <1>1, <1>2, <1>3 DEF Fresh, Vers
<1> QED
  BY <1>2, <1>4, <1>5, <1>6, WritesApart DEF CacheInv

-----------------------------------------------------------------------------
(* Writes.                                                                 *)

LEMMA ClickStep ==
  ASSUME CacheInv, NEW w \in screen.writes, click(w)
  PROVE  CacheInv' /\ UNCHANGED data
<1>0. TypeOK /\ Fresh /\ MadeBefore /\ EventsCount
  BY DEF CacheInv
<1> DEFINE c == [n |-> events', write |-> w, st |-> "sent", made |-> 0]
<1>1. /\ events' = events + 1 /\ events' \in Vers /\ events' \in 1..MaxEvents
      /\ calls' = calls \cup {c}
      /\ UNCHANGED <<screen, list, ver, data, fetch, dropped, owed>>
  BY <1>0, EventType DEF click
<1>2. c \in Call /\ c.n = events' /\ c.st = "sent" /\ c.made = 0
  BY <1>1, QueryCacheAssumption DEF Call, Vers
<1> HIDE DEF c
<1>3. ver \in Nat /\ events \in Nat /\ calls \in SUBSET Call /\ Call' = Call
  BY <1>0, <1>1, Numbers DEF Call, Vers
<1>4. TypeOK'
  BY <1>0, <1>1, <1>2, <1>3 DEF TypeOK, Call
<1>5. Fresh'
  BY <1>0, <1>1 DEF Fresh, Vers
<1>6. MadeBefore'
  BY <1>0, <1>1, <1>2, <1>3 DEF MadeBefore
<1>7. EventsCount'
  <2>1. c \notin calls
    BY <1>0, <1>1, <1>2, <1>3 DEF EventsCount
  <2>2. Waiting' = Waiting \cup {c} /\ c \notin Waiting
    BY <1>1, <1>2, <2>1 DEF Waiting
  <2>3. IsFiniteSet(Waiting) /\ Cardinality(Waiting) \in Nat
    BY <1>0, WaitingSize DEF EventsCount
  <2>4. Cardinality(Waiting') = Cardinality(Waiting) + 1
    BY <2>2, <2>3, FS_AddElement
  <2>5. IsFiniteSet(calls')
    BY <1>0, <1>1, FS_AddElement DEF EventsCount
  <2>6. \A d \in calls' : d.n <= events'
    BY <1>0, <1>1, <1>2, <1>3 DEF EventsCount, Call
  <2>7. ver + Cardinality(Waiting) <= events
    BY <1>0 DEF EventsCount
  <2> QED
    BY <1>1, <1>3, <2>3, <2>4, <2>5, <2>6, <2>7 DEF EventsCount
<1> QED
  BY <1>1, <1>4, <1>5, <1>6, <1>7 DEF CacheInv

\* The server's answer to a write, and what it makes of the version.
LEMMA TakenIs ==
  ASSUME NEW c \in Call, NEW m \in Vers
  PROVE  /\ LET d == [c EXCEPT !.st = "done", !.made = m]
            IN d \in Call /\ d.n = c.n /\ d.st = "done" /\ d.made = m
         /\ LET d == [c EXCEPT !.st = "refused"]
            IN d \in Call /\ d.n = c.n /\ d.st = "refused" /\ d.made = c.made
BY DEF Call

LEMMA TakesStep ==
  ASSUME CacheInv, NEW c \in calls, serverTakes(c)
  PROVE  CacheInv' /\ UNCHANGED data
<1>0. TypeOK /\ Fresh /\ MadeBefore /\ EventsCount
  BY DEF CacheInv
<1>1. /\ ver \in Nat /\ events \in Nat /\ calls \in SUBSET Call /\ c \in Call /\ c.made \in Nat
      /\ data \in Nat \cup {None} /\ fetch \in Nat \cup {Asked, None} /\ None \notin Nat
      /\ events <= MaxEvents /\ MaxEvents \in Nat /\ owed \in 0..ver
  BY <1>0, Numbers DEF Call, TypeOK, Vers
<1>2. /\ c.st = "sent" /\ UNCHANGED <<screen, list, data, fetch, dropped, owed>>
      /\ Call' = Call
  BY DEF serverTakes, Call, Vers
<1>3. /\ IsFiniteSet(Waiting) /\ c \in Waiting
      /\ Cardinality(Waiting \ {c}) = Cardinality(Waiting) - 1
      /\ Cardinality(Waiting) \in Nat /\ Cardinality(Waiting \ {c}) \in Nat
  <2>1. IsFiniteSet(Waiting) /\ c \in Waiting /\ Cardinality(Waiting) \in Nat
    BY <1>0, <1>2, WaitingSize DEF EventsCount, Waiting
  <2>2. IsFiniteSet(Waiting \ {c}) /\ Cardinality(Waiting \ {c}) = Cardinality(Waiting) - 1
    BY <2>1, FS_RemoveElement
  <2> QED
    BY <2>1, <2>2, FS_CardinalityType
<1>4. ver + 1 <= events
  BY <1>0, <1>1, <1>3 DEF EventsCount
<1>5. PICK d \in Call :
        /\ calls' = (calls \ {c}) \cup {d} /\ d.n = c.n /\ d.st # "sent" /\ d.made <= ver'
        /\ \/ ver' \in {ver, ver + 1} /\ events' = events
           \/ ver' = ver /\ events' = events + 1 /\ events' \in Vers
  <2>1. CASE /\ ver' = IF Touches(c.write) THEN ver + 1 ELSE ver
             /\ calls' = (calls \ {c}) \cup
                    {[c EXCEPT !.st = "done", !.made = IF Touches(c.write) THEN ver' ELSE 0]}
             /\ UNCHANGED events
    <3> DEFINE m == IF Touches(c.write) THEN ver' ELSE 0
    <3>1. m \in Vers /\ m <= ver' /\ ver' \in {ver, ver + 1}
      BY <1>1, <1>4, <2>1 DEF Vers
    <3>2. calls' = (calls \ {c}) \cup {[c EXCEPT !.st = "done", !.made = m]}
      BY <2>1
    <3> HIDE DEF m
    <3> DEFINE d == [c EXCEPT !.st = "done", !.made = m]
    <3>3. d \in Call /\ d.n = c.n /\ d.st = "done" /\ d.made = m
      <4>1. c \in Call /\ m \in Vers
        BY <1>1, <3>1
      <4> QED
        BY <4>1, TakenIs
    <3>4. calls' = (calls \ {c}) \cup {d}
      BY <3>2
    <3> HIDE DEF d
    <3> QED
      BY <2>1, <3>1, <3>3, <3>4
  <2>2. CASE /\ Event /\ calls' = (calls \ {c}) \cup {[c EXCEPT !.st = "refused"]}
             /\ UNCHANGED ver
    <3>1. c.made <= ver' /\ 0 \in Vers
      BY <1>0, <2>2, QueryCacheAssumption DEF MadeBefore, Vers
    <3> DEFINE d == [c EXCEPT !.st = "refused"]
    <3>2. d \in Call /\ d.n = c.n /\ d.st = "refused" /\ d.made = c.made
      BY <1>1, <3>1, TakenIs
    <3>3. calls' = (calls \ {c}) \cup {d} /\ events' = events + 1 /\ events' \in Vers
      BY <1>0, <2>2, EventType
    <3> HIDE DEF d
    <3> QED
      BY <2>2, <3>1, <3>2, <3>3
  <2> QED
    BY <2>1, <2>2 DEF serverTakes
<1>6. ver' \in Vers /\ ver' >= ver /\ ver' \in Nat /\ ver' <= ver + 1
  BY <1>1, <1>4, <1>5 DEF Vers
<1>7. TypeOK'
  <2>1. owed' \in 0..ver'
    BY <1>1, <1>2, <1>6
  <2>2. calls' \in SUBSET Call
    BY <1>1, <1>5
  <2>3. events' \in Vers
    BY <1>0, <1>5 DEF TypeOK
  <2> QED
    BY <1>0, <1>2, <1>6, <2>1, <2>2, <2>3 DEF TypeOK, Call
<1>8. Fresh'
  BY <1>0, <1>1, <1>2, <1>6 DEF Fresh, Vers
<1>9. MadeBefore'
  <2>1. \A e \in calls : e.made <= ver /\ e.made \in Nat
    BY <1>0, <1>1 DEF MadeBefore, Call, Vers
  <2> QED
    BY <1>1, <1>5, <1>6, <2>1 DEF MadeBefore
<1>10. EventsCount'
  <2>1. Waiting' = Waiting \ {c}
    BY <1>5 DEF Waiting
  <2>2. IsFiniteSet(calls')
    BY <1>0, <1>5, FS_AddElement, FS_RemoveElement DEF EventsCount
  <2>3. \A e \in calls' : e.n <= events'
    BY <1>0, <1>1, <1>5 DEF EventsCount, Call
  <2> QED
    BY <1>0, <1>1, <1>3, <1>5, <1>6, <2>1, <2>2, <2>3 DEF EventsCount
<1> QED
  BY <1>2, <1>7, <1>8, <1>9, <1>10 DEF CacheInv

LEMMA AnsweredStep ==
  ASSUME CacheInv, NEW c \in calls, answered(c)
  PROVE  CacheInv' /\ UNCHANGED data
<1>0. TypeOK /\ Fresh /\ MadeBefore /\ EventsCount
  BY DEF CacheInv
<1>1. /\ ver \in Nat /\ events \in Nat /\ calls \in SUBSET Call /\ c.made \in Nat /\ c.made <= ver
      /\ data \in Nat \cup {None} /\ fetch \in Nat \cup {Asked, None} /\ None \notin Nat
      /\ Asked \notin Nat
  BY <1>0, Numbers DEF Call, Vers, MadeBefore
<1>2. /\ c.st # "sent" /\ calls' = calls \ {c} /\ UNCHANGED <<screen, list, ver, data>>
      /\ events' \in {events, events + 1} /\ events' \in Vers /\ Call' = Call
  BY <1>0, EventType DEF answered, Call, TypeOK, Vers
<1>3. /\ fetch' \in {fetch, Asked} /\ dropped' \subseteq dropped \cup ({fetch} \ {None})
      /\ owed' \in {owed, c.made}
  BY DEF answered, invalidate
<1>4. TypeOK'
  <2>1. owed' \in 0..ver'
    BY <1>0, <1>1, <1>2, <1>3 DEF TypeOK
  <2>2. dropped' \subseteq Vers \cup {Asked} /\ fetch' \in Vers \cup {Asked, None}
    BY <1>0, <1>3 DEF TypeOK
  <2>3. calls' \in SUBSET Call
    BY <1>1, <1>2
  <2> QED
    BY <1>0, <1>2, <2>1, <2>2, <2>3 DEF TypeOK, Call
<1>5. Fresh'
  BY <1>0, <1>1, <1>2, <1>3 DEF Fresh, Vers
<1>6. MadeBefore'
  BY <1>0, <1>2 DEF MadeBefore
<1>7. EventsCount'
  <2>1. Waiting' = Waiting
    BY <1>2 DEF Waiting
  <2>2. IsFiniteSet(calls') /\ Cardinality(Waiting) \in Nat
    BY <1>0, <1>2, FS_RemoveElement, WaitingSize DEF EventsCount
  <2>3. \A e \in calls' : e.n <= events'
    BY <1>0, <1>1, <1>2 DEF EventsCount, Call
  <2> QED
    BY <1>0, <1>1, <1>2, <2>1, <2>2, <2>3 DEF EventsCount
<1> QED
  BY <1>2, <1>4, <1>5, <1>6, <1>7 DEF CacheInv

LEMMA EditStep ==
  ASSUME CacheInv, foreignEdit
  PROVE  CacheInv' /\ UNCHANGED data
<1>0. TypeOK /\ Fresh /\ MadeBefore /\ EventsCount
  BY DEF CacheInv
<1>1. /\ ver \in Nat /\ events \in Nat /\ calls \in SUBSET Call
      /\ data \in Nat \cup {None} /\ fetch \in Nat \cup {Asked, None} /\ None \notin Nat
      /\ MaxEvents \in Nat
  BY <1>0, Numbers
<1>2. /\ ver' = ver + 1 /\ events' = events + 1 /\ events' \in Vers
      /\ UNCHANGED <<screen, list, data, fetch, dropped, calls, owed>>
  BY <1>0, EventType DEF foreignEdit
<1>3. IsFiniteSet(calls) /\ Cardinality(Waiting) \in Nat /\ Waiting' = Waiting
  BY <1>0, <1>2, WaitingSize DEF EventsCount, Waiting
<1>4. ver + Cardinality(Waiting) <= events
  BY <1>0 DEF EventsCount
<1>5. TypeOK'
  <2>1. ver' \in Vers /\ owed' \in 0..ver'
    BY <1>0, <1>1, <1>2, <1>3, <1>4 DEF TypeOK, Vers
  <2> QED
    BY <1>0, <1>2, <2>1 DEF TypeOK
<1>6. Fresh'
  BY <1>0, <1>1, <1>2 DEF Fresh, Vers
<1>7. MadeBefore'
  <2>1. \A e \in calls : e.made <= ver /\ e.made \in Nat
    BY <1>0, <1>1 DEF MadeBefore, Call, Vers
  <2> QED
    BY <1>1, <1>2, <2>1 DEF MadeBefore
<1>8. EventsCount'
  <2>1. \A e \in calls : e.n <= events /\ e.n \in Nat
    BY <1>0, <1>1 DEF EventsCount, Call
  <2> QED
    BY <1>1, <1>2, <1>3, <1>4, <2>1 DEF EventsCount
<1> QED
  BY <1>2, <1>5, <1>6, <1>7, <1>8 DEF CacheInv

-----------------------------------------------------------------------------
LEMMA CacheStep ==
  ASSUME CacheInv, [Next]_vars
  PROVE  CacheInv' /\ (data # None /\ data' # None => data' >= data)
<1>1. data # None => data \in Nat
  BY Numbers DEF CacheInv
<1>2. CASE UNCHANGED vars
  <2>1. TypeOK'
    BY <1>2 DEF vars, CacheInv, TypeOK
  <2>2. Fresh' /\ MadeBefore' /\ EventsCount'
    BY <1>2 DEF vars, CacheInv, Fresh, MadeBefore, EventsCount, Waiting
  <2> QED
    BY <1>1, <1>2, <2>1, <2>2 DEF vars, CacheInv
<1>3. CASE Mutations \/ foreignEdit
  <2>1. CacheInv' /\ UNCHANGED data
    BY <1>3, ClickStep, TakesStep, AnsweredStep, EditStep DEF Mutations
  <2> QED
    BY <1>1, <2>1
<1> QED
  BY <1>2, <1>3, ListStep DEF Next, Answers

LEMMA CacheInvariant == Spec => []CacheInv
<1>1. CacheInv /\ [Next]_vars => CacheInv'
  BY CacheStep
<1> QED
  BY <1>1, CacheInit, PTL DEF Spec

-----------------------------------------------------------------------------
\* The variables have their types: no list is ahead of its tables, and nothing
\* is owed that was not made.
THEOREM CacheTypes == Spec => []TypeOK
BY CacheInvariant, PTL DEF CacheInv

\* No list goes back to an older state: a request that an invalidation
\* overtook has no say (invalidateQueries with cancelRefetch, main.tsx).
THEOREM ListsGoForward == Spec => NeverGoesBack
<1>1. CacheInv /\ [Next]_vars => [data # None /\ data' # None => data' >= data]_vars
  BY CacheStep
<1> QED
  BY <1>1, CacheInvariant, PTL DEF Spec, NeverGoesBack
=============================================================================
