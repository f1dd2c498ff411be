-------------------------- MODULE MCPluginService --------------------------
(* Instances of PluginService for TLC.                                     *)
EXTENDS PluginService

\* A key given in advance, one that must be asked for, and SSO.
InteractiveKey == [interactive |-> TRUE, auth |-> "setup-key", key |-> FALSE]
GivenKey == [interactive |-> FALSE, auth |-> "setup-key", key |-> TRUE]
SSO == [interactive |-> TRUE, auth |-> "sso", key |-> FALSE]
NonInteractiveSSO == [interactive |-> FALSE, auth |-> "sso", key |-> FALSE]

AllRequests == {InteractiveKey, GivenKey, SSO, NonInteractiveSSO}
OneRequest == {InteractiveKey}
PlainRequest == {GivenKey}

\* What NetworkManager has heard from the monitors influences nothing.  The
\* answer to a poll is dead once it has been applied, and so are, once their
\* goroutine is done, its context, the channel of its prompt and whether it
\* failed.  No property of the run with this view speaks of them then.
Alive(f, at, dead) == [i \in ID |-> IF at[i] THEN f[i] ELSE dead]
Running == [t \in ID |-> pc[t] # "done"]
Polling == [m \in ID |-> mpc[m] # "done"]
View == <<state, lockVars, pc, pend, request, daemonUp, conn, taken,
          mpc, mpend, msession, mfail, daemonVars,
          {t \in failed : Running[t]},
          Alive(cancelled, Running, TRUE), Alive(delivered, Running, "none"),
          Alive(mcancelled, Polling, TRUE), Alive(mtaken, Polling, Nil),
          Alive(mres, [m \in ID |-> mpc[m] = "apply"], "unknown")>>

=============================================================================
