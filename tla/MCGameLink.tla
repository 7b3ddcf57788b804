----------------------------- MODULE MCGameLink -----------------------------
(* GameLink for TLC: two of the settings that setServer is called with.     *)
EXTENDS GameLink

Address == <<"host", "password">>
=============================================================================
