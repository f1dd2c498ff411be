----------------------------- MODULE Activation -----------------------------
(***************************************************************************)
(* The activation goroutine: runActivation of internal/nmplugin/service.go *)
(* with its deferred finishActivationAttempt, and the prompts of           *)
(* prompts.go it waits on.  One action per daemon call and per section     *)
(* that holds lifecycleMu.  A daemon call may fail at any time (its        *)
(* context has a deadline) and cannot succeed once its context is          *)
(* cancelled.                                                              *)
(***************************************************************************)
EXTENDS ServiceCore

\* Mutant: an error path that returns without failActivation.
FailSilently(a, from) ==
    /\ Goto(a, from, "unwind")
    /\ UNCHANGED <<state, lockVars, pend, threadVars, monitorVars, daemonVars,
                   signalVars>>

\* The attempt reports a failure next (failActivation).
FailFrom(a, from) ==
    /\ Goto(a, from, "fail")
    /\ UNCHANGED <<state, lockVars, pend, threadVars, monitorVars, daemonVars,
                   signalVars>>

\* A daemon call of the attempt that leaves no trace in the service.
Call(a, from, to) ==
    /\ ~cancelled[a]
    /\ Goto(a, from, to)
    /\ UNCHANGED <<state, lockVars, pend, threadVars, monitorVars, daemonVars,
                   signalVars>>

\* startActivation after the reservation; then the goroutine is started.
SetStarting(a) ==
    /\ Goto(a, "reserved", "dial")
    /\ SetState(a, "starting")
    /\ UNCHANGED <<lockVars, threadVars, monitorVars, daemonVars, signalVars>>

\* isAuthModeValid, and SSO only for ConnectInteractive.
RequestAccepted(r) == r.auth # "invalid" /\ (r.auth = "sso" => r.interactive)

\* NewClient: a connection that is ready is returned even to a cancelled
\* attempt, because dialling looks at the context only while it waits.
Dial(a) ==
    \/ /\ RequestAccepted(request[a])
       /\ Goto(a, "dial", "prepare")
       /\ conn' = [conn EXCEPT ![a] = "open"]
       /\ UNCHANGED <<state, lockVars, pend, request, cancelled, delivered,
                      daemonUp, taken, monitorVars, daemonVars, signalVars>>
    \/ FailFrom(a, "dial")

\* prepareDaemonProfile: select, create and switch to the daemon profile.
PrepareProfile(a) ==
    \/ Call(a, "prepare", "authenticate")
    \/ FailFrom(a, "prepare")

-----------------------------------------------------------------------------
(* Authentication, with the interactive prompts.                           *)

\* An accepted request always logs in; a missing setup key is asked for.
NeedsKey(r) == r.auth = "setup-key" /\ ~r.key

Authenticate(a) ==
    LET r == request[a] IN
    /\ Goto(a, "authenticate",
            IF ~NeedsKey(r) THEN "login"
            ELSE IF r.interactive THEN "askKey" ELSE "fail")
    /\ UNCHANGED <<state, lockVars, pend, threadVars, monitorVars, daemonVars,
                   signalVars>>

\* Mutant: the activation id is not compared.
PromptWhileActivating(a) == activating

\* registerActivationPrompt's test: no Disconnect has come in between.
PromptWanted(a) == activating /\ activationID = a

RegisterPrompt(a, kind) ==
    prompt' = IF PromptWanted(a) THEN [id |-> a, kind |-> kind] ELSE prompt

AskKey(a) ==
    /\ Goto(a, "askKey", IF PromptWanted(a) THEN "awaitKey" ELSE "fail")
    /\ RegisterPrompt(a, "setup-key")
    /\ UNCHANGED <<state, activating, activationCancel, monitorCancel, client,
                   sessionID, activationID, pend, threadVars, monitorVars,
                   daemonVars, signalVars>>

\* Mutant: the wait does not look at the context.
AwaitKeyForever(a) ==
    /\ delivered[a] # "none"
    /\ Goto(a, "awaitKey", IF delivered[a] = "key" THEN "login" ELSE "fail")
    /\ UNCHANGED <<state, lockVars, pend, threadVars, monitorVars, daemonVars,
                   signalVars>>

\* The key is taken from the channel even if the context is done as well;
\* a timeout or a cancellation ends the wait.
AwaitKey(a) ==
    \/ /\ delivered[a] = "key"
       /\ Goto(a, "awaitKey", "login")
       /\ UNCHANGED <<state, lockVars, pend, threadVars, monitorVars,
                      daemonVars, signalVars>>
    \/ FailFrom(a, "awaitKey")

\* The daemon answers that it is logged in, or that it needs SSO.
Login(a) ==
    \/ Call(a, "login", "configure")
    \/ request[a].interactive /\ Call(a, "login", "askSSO")
    \/ FailFrom(a, "login")

AskSSO(a) ==
    /\ Goto(a, "askSSO", "awaitSSO")
    /\ RegisterPrompt(a, "sso")
    /\ UNCHANGED <<state, activating, activationCancel, monitorCancel, client,
                   sessionID, activationID, pend, threadVars, monitorVars,
                   daemonVars, signalVars>>

AwaitSSO(a) ==
    \/ Call(a, "awaitSSO", "configure")
    \/ FailFrom(a, "awaitSSO")

-----------------------------------------------------------------------------
(* Bringing the daemon up and handing the session over to the service.     *)

\* updateDaemonProfile and profile.Resolve.
Configure(a) ==
    \/ Call(a, "configure", "up")
    \/ FailFrom(a, "configure")

\* The daemon executes Up; the answer is still on its way.
Up(a) ==
    \/ /\ ~cancelled[a]
       /\ Goto(a, "up", "upWait")
       /\ engine' = a
       /\ UNCHANGED <<state, lockVars, pend, threadVars, monitorVars,
                      downFailed, signalVars>>
    \/ FailFrom(a, "up")

\* The answer arrives, or the call fails although the engine was started.
UpReturns(a) ==
    \/ /\ Goto(a, "upWait", "ready")
       /\ daemonUp' = [daemonUp EXCEPT ![a] = TRUE]
       /\ UNCHANGED <<state, lockVars, pend, request, cancelled, delivered,
                      conn, taken, monitorVars, daemonVars, signalVars>>
    \/ FailFrom(a, "upWait")

\* waitForReady: some poll reports Connected.
WaitForReady(a) ==
    \/ engine # Nil /\ Call(a, "ready", "config")
    \/ FailFrom(a, "ready")

\* emitNetworkManagerConfig; a gateway given as an address needs no lookup,
\* so a cancelled attempt may emit its Config too.
EmitConfig(a) ==
    \/ /\ Goto(a, "config", "complete")
       /\ UNCHANGED <<state, lockVars, pend, threadVars, monitorVars,
                      daemonVars, signalVars>>
    \/ FailFrom(a, "config")

\* startMonitorLocked: the previous monitor is cancelled, if there is one.
StartMonitor(m) ==
    /\ monitorCancel' = m
    /\ mcancelled' = Cancelled(mcancelled, monitorCancel)
    /\ mpc' = [mpc EXCEPT ![m] = "poll"]
    /\ msession' = [msession EXCEPT ![m] = sessionID + 1]
    /\ mfail' = [mfail EXCEPT ![m] = 0]

\* completeActivation's test.
MayComplete(a) == ~cancelled[a] /\ activating

CompleteActivation(a) ==
    \/ /\ MayComplete(a)
       /\ Goto(a, "complete", "announce")
       /\ activating' = FALSE
       /\ activationCancel' = Nil
       /\ prompt' = NoPrompt
       /\ client' = a
       /\ sessionID' = sessionID + 1
       /\ StartMonitor(a)
       /\ UNCHANGED <<state, activationID, pend, threadVars, mpend, mres,
                      mtaken, daemonVars, signalVars>>
    \/ /\ ~MayComplete(a)
       /\ Goto(a, "complete", "unwind")
       /\ UNCHANGED <<state, lockVars, pend, threadVars, monitorVars,
                      daemonVars, signalVars>>

\* setStateForActiveSession's test.
SessionActive(s) == sessionID = s /\ client # Nil

SetStarted(a) ==
    /\ Goto(a, "announce", "wrapUp")
    /\ IF SessionActive(msession[a])
       THEN SetState(a, "started")
       ELSE UNCHANGED <<state, pend>>
    /\ UNCHANGED <<lockVars, threadVars, monitorVars, daemonVars, signalVars>>

-----------------------------------------------------------------------------
(* failActivation, and the deferred finishActivationAttempt.               *)

ReportFailure(a) ==
    /\ Goto(a, "fail", "setStopped")
    /\ failed' = failed \cup {a}
    /\ UNCHANGED <<state, lockVars, pend, threadVars, monitorVars, daemonVars,
                   nmState, mfailed>>

SetStopped(a) ==
    /\ Goto(a, "setStopped", "unwind")
    /\ SetState(a, "stopped")
    /\ UNCHANGED <<lockVars, threadVars, monitorVars, daemonVars, signalVars>>

\* clearPromptForActivation
ClearPrompt(a) == prompt' = IF prompt.id = a THEN NoPrompt ELSE prompt

\* The end of an attempt that succeeded.
WrapUp(a) ==
    /\ Goto(a, "wrapUp", "done")
    /\ ClearPrompt(a)
    /\ cancelled' = [cancelled EXCEPT ![a] = TRUE]
    /\ UNCHANGED <<state, activating, activationCancel, monitorCancel, client,
                   sessionID, activationID, pend, request, delivered, daemonUp,
                   conn, taken, monitorVars, daemonVars, signalVars>>

\* Mutant: a cancelled attempt is left to Disconnect.
NeedsDownUnlessCancelled(a) == daemonUp[a] /\ ~cancelled[a]

\* The end of one that failed: the engine it started is taken down again.
NeedsDown(a) == daemonUp[a]

\* Mutant: the slot is given back before the engine is taken down.
UnwindReleasingFirst(a) ==
    /\ Goto(a, "unwind", IF NeedsDown(a) THEN "down" ELSE "release")
    /\ activating' = FALSE
    /\ activationCancel' = Nil
    /\ prompt' = NoPrompt
    /\ UNCHANGED <<state, monitorCancel, client, sessionID, activationID, pend,
                   threadVars, monitorVars, daemonVars, signalVars>>

Unwind(a) ==
    /\ Goto(a, "unwind", IF NeedsDown(a) THEN "down" ELSE "release")
    /\ ClearPrompt(a)
    /\ UNCHANGED <<state, activating, activationCancel, monitorCancel, client,
                   sessionID, activationID, pend, threadVars, monitorVars,
                   daemonVars, signalVars>>

\* Down stops the daemon's only engine; when the call fails it may have.
Down(t, from, to) ==
    /\ Goto(t, from, to)
    /\ \/ engine' = Nil /\ downFailed' = downFailed
       \/ engine' \in {engine, Nil} /\ downFailed' = downFailed \cup {t}
    /\ UNCHANGED <<state, lockVars, pend, threadVars, monitorVars, signalVars>>

DownAfterFailure(a) == Down(a, "down", "release")

\* activationAttempt.cancel and finishFailedActivation
Release(a) ==
    /\ Goto(a, "release", IF conn[a] = "open" THEN "close" ELSE "done")
    /\ cancelled' = [cancelled EXCEPT ![a] = TRUE]
    /\ activating' = FALSE
    /\ activationCancel' = Nil
    /\ prompt' = NoPrompt
    /\ UNCHANGED <<state, monitorCancel, client, sessionID, activationID, pend,
                   request, delivered, daemonUp, conn, taken, monitorVars,
                   daemonVars, signalVars>>

CloseAfterFailure(a) ==
    /\ Goto(a, "close", "done")
    /\ conn' = [conn EXCEPT ![a] = "closed"]
    /\ UNCHANGED <<state, lockVars, pend, request, cancelled, delivered,
                   daemonUp, taken, monitorVars, daemonVars, signalVars>>

AttemptStep(a) ==
    \/ SetStarting(a) \/ Dial(a) \/ PrepareProfile(a)
    \/ Authenticate(a) \/ AskKey(a) \/ AwaitKey(a) \/ Login(a) \/ AskSSO(a)
    \/ AwaitSSO(a) \/ Configure(a) \/ Up(a) \/ UpReturns(a) \/ WaitForReady(a)
    \/ EmitConfig(a) \/ CompleteActivation(a) \/ SetStarted(a) \/ WrapUp(a)
    \/ ReportFailure(a) \/ SetStopped(a) \/ Unwind(a) \/ DownAfterFailure(a)
    \/ Release(a) \/ CloseAfterFailure(a)

=============================================================================
