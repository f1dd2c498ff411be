--------------------------- MODULE MCProfileRace ---------------------------
(* The instances of MCProfileSelection with the history of ProfileRace.    *)
EXTENDS ProfileRace, MCProfileSelection

=============================================================================
