------------------------- MODULE MCProfileSelection -------------------------
(* Instances of ProfileSelection for TLC.                                  *)
EXTENDS ProfileSelection

Names == {NoName, DefaultName, "nm-home", "nm-work", "prod"}
Users == {NoUser, "alice", "root"}

Home == [id |-> NoID, name |-> "nm-home", user |-> "alice"]
Work == [id |-> NoID, name |-> "nm-work", user |-> NoUser]
TwoConnections == {Home, Work}
AllDesires == {Home, Work, NoRef}

Of(k, n, u) == [key |-> k, name |-> n, user |-> u]
Fresh == {Default}
OwnProfile == {Default, Of(2, "nm-home", "alice")}
Foreign == {Default, Of(2, "prod", "alice")}
Twice == OwnProfile \cup {Of(3, "nm-home", "alice")}

Distinct == {Fresh, OwnProfile, Foreign}
Ambiguous == Distinct \cup {Twice}

ProfileDaemons == [ids : BOOLEAN, noProfiles : {FALSE}, noUpdates : {FALSE}]
AllDaemons == [ids : BOOLEAN, noProfiles : BOOLEAN, noUpdates : BOOLEAN]

AllOthers == {"switch", "up", "down", "remove", "add"}
NoAdd == AllOthers \ {"add"}
AllLate == {"add", "switch", "up"}
None == {}

=============================================================================
