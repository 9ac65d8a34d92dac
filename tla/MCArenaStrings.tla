-------------------------- MODULE MCArenaStrings --------------------------
(***************************************************************************)
(* The instance of ArenaStrings that is model-checked, up to the first     *)
(* misuse of a string.  The arenas are alike, so the thread registers them *)
(* in the order of their numbers.                                          *)
(***************************************************************************)
EXTENDS ArenaStrings

UntilMisused == ~misused
RegisteredInOrder == \A i \in DOMAIN Registered : Registered[i] = i
=============================================================================
