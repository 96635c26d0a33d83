---------------------------- MODULE QuotaLedger -----------------------------
(***************************************************************************)
(* What the daily quota promises: a request is charged once, to the        *)
(* counter of one scope and period, if that counter has room.              *)
(***************************************************************************)
EXTENDS Integers, FiniteSets

CONSTANTS Requests, Scopes, Dates, Cap

VARIABLE spent  \* spent[s][d]: the requests charged to scope s on date d

Spend(r, s, d) ==
    /\ \A t \in Scopes, e \in Dates : r \notin spent[t][e]
    /\ Cardinality(spent[s][d]) < Cap
    /\ spent' = [spent EXCEPT ![s][d] = @ \cup {r}]

LedgerInit == spent = [s \in Scopes |-> [d \in Dates |-> {}]]

LedgerNext == \E r \in Requests, s \in Scopes, d \in Dates : Spend(r, s, d)

LedgerSpec == LedgerInit /\ [][LedgerNext]_spent
=============================================================================
