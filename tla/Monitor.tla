------------------------------ MODULE Monitor ------------------------------
(***************************************************************************)
(* The status monitor of an established session: monitorStatus of          *)
(* internal/nmplugin/service.go and what it calls.  A poll is two steps,   *)
(* the daemon's answer and what the monitor does with it, because other    *)
(* goroutines run in between.  The poll interval is not modelled.          *)
(***************************************************************************)
EXTENDS ServiceCore

\* What Status may be mapped to.  The daemon's reports of a stopped engine
\* (Idle, NeedsLogin, LoginFailed, SessionExpired) map to the first two.
PossibleResults ==
    IF engine = Nil THEN {"disconnected", "failed", "error"}
    ELSE {"connected", "connecting", "failed", "unknown", "error"}

\* Mutant: the loop polls without looking at its context.
PollUnchecked(m) ==
    /\ MonitorGoto(m, "poll", "apply")
    /\ \E r \in PossibleResults : mres' = [mres EXCEPT ![m] = r]
    /\ UNCHANGED <<state, lockVars, pc, pend, threadVars, mpend, mcancelled,
                   msession, mfail, mtaken, daemonVars, signalVars>>

\* The head of the loop: stop when cancelled, poll otherwise.
Poll(m) ==
    /\ \/ mcancelled[m] /\ MonitorGoto(m, "poll", "done") /\ mres' = mres
       \/ /\ ~mcancelled[m]
          /\ MonitorGoto(m, "poll", "apply")
          /\ \E r \in PossibleResults : mres' = [mres EXCEPT ![m] = r]
    /\ UNCHANGED <<state, lockVars, pc, pend, threadVars, mpend, mcancelled,
                   msession, mfail, mtaken, daemonVars, signalVars>>

\* Mutant: one failure too many is tolerated.
AfterErrorLate(m) ==
    IF mcancelled[m] THEN "done"
    ELSE IF mfail[m] >= FailureThreshold THEN "threshold" ELSE "poll"

\* The poll failed: give up after FailureThreshold failures in a row.
AfterError(m) ==
    IF mcancelled[m] THEN "done"
    ELSE IF mfail[m] + 1 >= FailureThreshold THEN "threshold" ELSE "poll"

ApplyError(m) ==
    /\ mres[m] = "error"
    /\ MonitorGoto(m, "apply", AfterError(m))
    /\ mfail' = [mfail EXCEPT ![m] = IF mcancelled[m] THEN @ ELSE @ + 1]
    /\ UNCHANGED <<state, lockVars, pc, pend, threadVars, mpend, mcancelled,
                   msession, mres, mtaken, daemonVars, signalVars>>

\* nextConsecutiveStatusFailures after a poll that was answered.
FailuresReset(m) == [mfail EXCEPT ![m] = 0]

\* The engine runs, or nothing is known about it.
ApplyAlive(m) ==
    /\ MonitorGoto(m, "apply", "poll")
    /\ \/ mres[m] = "connected" /\ MonitorSetState(m, "started")
       \/ mres[m] = "connecting" /\ MonitorSetState(m, "starting")
       \/ mres[m] = "unknown" /\ UNCHANGED <<state, mpend>>
    /\ mfail' = FailuresReset(m)
    /\ UNCHANGED <<lockVars, pc, pend, threadVars, mcancelled, msession, mres,
                   mtaken, daemonVars, signalVars>>

\* A failed engine is reported first, and then handled as a stopped one.
ApplyFailed(m) ==
    /\ mres[m] = "failed"
    /\ MonitorGoto(m, "apply", "apply")
    /\ mres' = [mres EXCEPT ![m] = "disconnected"]
    /\ mfailed' = mfailed \cup {m}
    /\ UNCHANGED <<state, lockVars, pc, pend, threadVars, mpend, mcancelled,
                   msession, mfail, mtaken, daemonVars, nmState, failed>>

ApplyStopped(m) ==
    /\ mres[m] = "disconnected"
    /\ MonitorGoto(m, "apply", "clear")
    /\ MonitorSetState(m, "stopped")
    /\ UNCHANGED <<lockVars, pc, pend, threadVars, mcancelled, msession, mfail,
                   mres, mtaken, daemonVars, signalVars>>

-----------------------------------------------------------------------------
\* Mutants: the session is not compared; or compared the wrong way round.
AnySession(m) == TRUE
LaterSession(m) == sessionID > msession[m]

\* clearActiveSession's test.
SessionCurrent(m) == sessionID = msession[m]

\* The monitor takes the client and drops the session.
EndSession(m) ==
    /\ mcancelled' = Cancelled(mcancelled, monitorCancel)
    /\ monitorCancel' = Nil
    /\ mtaken' = [mtaken EXCEPT ![m] = client]
    /\ client' = Nil

\* Mutant: the client that was taken is not closed.
AfterClearUnclosed(m) == "done"

AfterClear(m) ==
    IF SessionCurrent(m) /\ client # Nil THEN "mclose" ELSE "done"

ClearActiveSession(m) ==
    /\ MonitorGoto(m, "clear", AfterClear(m))
    /\ IF SessionCurrent(m)
       THEN EndSession(m)
       ELSE UNCHANGED <<mcancelled, monitorCancel, mtaken, client>>
    /\ UNCHANGED <<state, activating, activationCancel, sessionID,
                   activationID, prompt, pc, pend, threadVars, mpend, msession,
                   mfail, mres, daemonVars, signalVars>>

\* failActiveSessionAfterStatusThreshold's test.
MayFailSession(m) == SessionCurrent(m) /\ client # Nil

FailActiveSession(m) ==
    \/ /\ MayFailSession(m)
       /\ MonitorGoto(m, "threshold", "thrFailure")
       /\ EndSession(m)
       /\ MonitorSetState(m, "stopped")
       /\ UNCHANGED <<activating, activationCancel, sessionID, activationID,
                      prompt, pc, pend, threadVars, msession, mfail, mres,
                      daemonVars, signalVars>>
    \/ /\ ~MayFailSession(m)
       /\ MonitorGoto(m, "threshold", "done")
       /\ UNCHANGED <<state, lockVars, pc, pend, threadVars, mpend, mcancelled,
                      msession, mfail, mres, mtaken, daemonVars, signalVars>>

ReportSessionFailure(m) ==
    /\ mpc[m] = "thrFailure"
    /\ mpc' = [mpc EXCEPT ![m] = "mclose"]
    /\ mfailed' = mfailed \cup {m}
    /\ UNCHANGED <<state, lockVars, pc, pend, threadVars, mpend, mcancelled,
                   msession, mfail, mres, mtaken, daemonVars, nmState, failed>>

CloseAfterSession(m) ==
    /\ MonitorGoto(m, "mclose", "done")
    /\ conn' = [conn EXCEPT ![mtaken[m]] = "closed"]
    /\ UNCHANGED <<state, lockVars, pc, pend, request, cancelled, delivered,
                   daemonUp, taken, mpend, mcancelled, msession, mfail, mres,
                   mtaken, daemonVars, signalVars>>

MonitorStep(m) ==
    \/ Poll(m) \/ ApplyError(m) \/ ApplyAlive(m) \/ ApplyFailed(m)
    \/ ApplyStopped(m) \/ ClearActiveSession(m) \/ FailActiveSession(m)
    \/ ReportSessionFailure(m) \/ CloseAfterSession(m)

=============================================================================
