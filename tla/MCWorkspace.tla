---------------------------- MODULE MCWorkspace ----------------------------
(* Workspace with small values for TLC.  Two panels stand for the five: one
   that starts empty and one with a reference image and preset rows; the image
   panel is the third kind. *)
EXTENDS Workspace

MCDrafts == 1..2
MCPreset == {1}
MCJobIds == 1..2
MCLoops == 1..2
MCPanels == {ImageToVideoPanel, CharacterSyncPanel}
MCQuotas == {2}
MCImages == {"face"}
=============================================================================
