------------------------------ MODULE SlotGate ------------------------------
(***************************************************************************)
(* What a profile's slots promise: at most Cap attempts hold one.          *)
(***************************************************************************)
EXTENDS Integers, FiniteSets

CONSTANTS Tasks, Cap

VARIABLE holders

Admit(t) ==
    /\ t \notin holders
    /\ Cardinality(holders) < Cap
    /\ holders' = holders \cup {t}

\* A slot is given back, or many at once by a worker that dies.
Leave(S) == holders' = holders \ S

GateNext == (\E t \in Tasks : Admit(t)) \/ (\E S \in SUBSET Tasks : Leave(S))

GateSpec == holders = {} /\ [][GateNext]_holders
=============================================================================
