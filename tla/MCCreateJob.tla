---------------------------- MODULE MCCreateJob -----------------------------
(* CreateJob with a profile of each provider, a project and two drops of three files. *)
EXTENDS CreateJob

MCProfiles == {"g1", "f1"}
MCProviderOf == [g1 |-> "grok", f1 |-> "flow"]
MCProjects == {"q1"}
MCProfileOf == [q1 |-> "g1"]
MCModes == {"spicy"}
MCPlans == {Features, {"image"}, {"video", "s10"}}
MCDrops == 1..2
MCFiles == {"a", "b", "c"}
=============================================================================
