--------------------------- MODULE ActivationSlot ---------------------------
(***************************************************************************)
(* What the plugin service promises about its single activation slot: it   *)
(* is free, or held by one activation that is in progress, or by one       *)
(* session that is active.  It is taken only when free, by an owner that   *)
(* never held it before; a session is the activation that held the slot,   *)
(* with no gap in between.                                                 *)
(***************************************************************************)
EXTENDS Naturals

CONSTANT Owner          \* the identities of activations, a set of numbers

VARIABLES
    phase,              \* "free", "activating" or "active"
    owner,              \* who holds the slot, 0 when it is free
    last                \* the latest identity given out

slotVars == <<phase, owner, last>>

Init == phase = "free" /\ owner = 0 /\ last = 0

Reserve(a) ==
    /\ phase = "free" /\ phase' = "activating"
    /\ a > last /\ owner' = a /\ last' = a

Activate ==
    /\ phase = "activating" /\ phase' = "active"
    /\ UNCHANGED <<owner, last>>

GiveBack ==
    /\ phase # "free" /\ phase' = "free"
    /\ owner' = 0 /\ last' = last

\* A Disconnect takes an identity; it ends an active session.
End(d) ==
    /\ d > last /\ last' = d
    /\ IF phase = "active" THEN phase' = "free" /\ owner' = 0
       ELSE UNCHANGED <<phase, owner>>

Next ==
    \/ \E a \in Owner : Reserve(a) \/ End(a)
    \/ Activate \/ GiveBack

Spec == Init /\ [][Next]_slotVars

=============================================================================
