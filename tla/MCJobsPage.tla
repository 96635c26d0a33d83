---------------------------- MODULE MCJobsPage -----------------------------
(* JobsPage with two jobs, two pages and two filters for TLC. *)
EXTENDS JobsPage

MCJobs == 1..2
MCStarts == {<<"failed", "running">>}
MCSizes == {1}
MCFilters == {All, "failed"}
=============================================================================
