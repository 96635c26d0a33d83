--------------------------- MODULE MCProfileSlots ---------------------------
(***************************************************************************)
(* Values of ProfileSlots' constants for TLC.                              *)
(***************************************************************************)
EXTENDS ProfileSlots

CONSTANTS v1, v2, i1

\* The operations that set the status only.
StatusOps == {"update", "upload", "check", "open", "start_vnc", "finish",
              "stop", "disable", "idle_stop", "relogin"}
=============================================================================
