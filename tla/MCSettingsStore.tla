--------------------------- MODULE MCSettingsStore ---------------------------
(* SettingsStore with a few cameras and worker loops. *)
EXTENDS SettingsStore
=============================================================================
