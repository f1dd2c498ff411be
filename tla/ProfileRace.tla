---------------------------- MODULE ProfileRace ----------------------------
(***************************************************************************)
(* ProfileSelection beside clients that bring engines up whenever they     *)
(* like.  What an activation has read of the daemon may be outdated when   *)
(* SwitchProfile, Up and waitForReady act on it; a history variable says   *)
(* how far, and bounds what other clients can lose by it.                  *)
(***************************************************************************)
EXTENDS ProfileSelection

VARIABLE unseen         \* has another client brought an engine up since the
                        \* activation last looked?

raceVars == <<vars, unseen>>

\* The calls of PrepareActivation, Resolve and checkRunningConflict that read
\* the active profile or the status.
Looking == {"prepare", "prepareStatus", "resolve", "resolveStatus"}

Looks == pc \in Looking /\ pc' # pc

OtherBringsUp == owner' = "other" /\ (owner # "other" \/ active' # active)

RaceInit == Init /\ unseen = FALSE

RaceNext ==
    /\ Next
    /\ unseen' = (~Looks /\ (unseen \/ OtherBringsUp))

RaceSpec == RaceInit /\ [][RaceNext]_raceVars

-----------------------------------------------------------------------------
(* Properties *)

(* Of other clients' engines the plugin switches away from those only that *)
(* were brought up after it last looked: from none that ran when the       *)
(* activation began, and from none that was started during the wait for    *)
(* SSO, because Resolve looks again (PrepareActivation, Resolve).          *)
LeavesOnlyUnseen ==
    [][owner = "other" /\ active' # active => Environment \/ unseen]_raceVars

(* waitForReady, which looks at the state alone, takes another profile's   *)
(* engine for the connection's own only if another client brought one up   *)
(* after Resolve looked, whatever else other clients do meanwhile.         *)
ReadyForDesired ==
    [][pc = "ready" /\ pc' = "session" /\ desired # NoRef
        => unseen \/ (active.name = desired.name /\ active.user = desired.user)
      ]_raceVars

=============================================================================
