------------------------- MODULE MCSettingsService -------------------------
(* SettingsService with two workers and up to four rows.                      *)
EXTENDS SettingsService
=============================================================================
