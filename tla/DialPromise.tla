----------------------------- MODULE DialPromise -----------------------------
(***************************************************************************)
(* What the daemon client factory promises for each call of NewClient: it  *)
(* ends with one connection, which the caller then holds, or with an error *)
(* and none; and nothing outlives the process that made the call.          *)
(***************************************************************************)
CONSTANTS Call, Connection

VARIABLES
    outcome,            \* "none", "pending", "open", "failed" or "gone"
    held                \* the connections each ended call has left open

promiseVars == <<outcome, held>>

Init ==
    /\ outcome = [c \in Call |-> "none"]
    /\ held = [c \in Call |-> {}]

Become(c, result) == outcome' = [outcome EXCEPT ![c] = result]

Begin(c) ==
    /\ outcome[c] = "none" /\ Become(c, "pending")
    /\ held' = held

Open(c) ==
    /\ outcome[c] = "pending" /\ Become(c, "open")
    /\ \E k \in Connection : held' = [held EXCEPT ![c] = {k}]

Fail(c) ==
    /\ outcome[c] = "pending" /\ Become(c, "failed")
    /\ held' = held

\* The process of some calls exits.
Vanish(cs) ==
    /\ outcome' = [c \in Call |-> IF c \in cs THEN "gone" ELSE outcome[c]]
    /\ held' = [c \in Call |-> IF c \in cs THEN {} ELSE held[c]]

Next ==
    \/ \E c \in Call : Begin(c) \/ Open(c) \/ Fail(c)
    \/ \E cs \in SUBSET Call : Vanish(cs)

Spec == Init /\ [][Next]_promiseVars

=============================================================================
