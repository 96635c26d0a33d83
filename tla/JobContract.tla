----------------------------- MODULE JobContract -----------------------------
(***************************************************************************)
(* What the job queue promises about a job nobody interferes with: it is   *)
(* run by one attempt at a time, goes back to the queue at most Budget     *)
(* times because a run failed, and never leaves its final state.           *)
(***************************************************************************)
EXTENDS Naturals

CONSTANTS Jobs, Budget

VARIABLES phase,  \* phase[j]: "new", "waiting", "active" or "done"
          spent   \* spent[j]: failed runs of j that were given another try

contractVars == <<phase, spent>>

ContractInit ==
    /\ phase = [j \in Jobs |-> "new"]
    /\ spent = [j \in Jobs |-> 0]

\* The moves of one job: submitted, started, given back unharmed (no free
\* slot, worker gone), given another try, finished.
Move(j) ==
    \/ phase[j] = "new" /\ phase'[j] = "waiting" /\ spent'[j] = spent[j]
    \/ phase[j] = "waiting" /\ phase'[j] = "active" /\ spent'[j] = spent[j]
    \/ phase[j] = "active" /\ phase'[j] = "waiting" /\ spent'[j] = spent[j]
    \/ /\ phase[j] = "active" /\ phase'[j] = "waiting"
       /\ spent[j] < Budget /\ spent'[j] = spent[j] + 1
    \/ phase[j] = "active" /\ phase'[j] = "done" /\ spent'[j] = spent[j]

\* A restarting worker moves many jobs in one step.
ContractNext ==
    /\ phase' \in [Jobs -> {"new", "waiting", "active", "done"}]
    /\ spent' \in [Jobs -> 0 .. Budget]
    /\ \A j \in Jobs : Move(j) \/ (phase'[j] = phase[j] /\ spent'[j] = spent[j])

ContractSpec == ContractInit /\ [][ContractNext]_contractVars
=============================================================================
