--------------------------- MODULE MCJobLifecycle ---------------------------
(***************************************************************************)
(* Values of JobLifecycle's constants for TLC.                             *)
(***************************************************************************)
EXTENDS JobLifecycle

CONSTANTS j1, j2, p1, p2, w1, t1, t2

OneWorker == [t \in Tasks |-> w1]
AllImage == [j \in Jobs |-> "image"]
AllVideo == [j \in Jobs |-> "video"]
SuperAdmin == [j \in Jobs |-> Profiles]
InOrder == [j \in Jobs |-> IF j = j1 THEN 1 ELSE 2]
=============================================================================
