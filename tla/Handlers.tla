------------------------------ MODULE Handlers ------------------------------
(***************************************************************************)
(* The D-Bus methods NetworkManager calls, each of which the D-Bus library *)
(* runs in a goroutine of its own: Connect and ConnectInteractive up to    *)
(* the reservation (internal/nmplugin/service.go; the rest of them is in   *)
(* Activation), Disconnect, SetFailure and NewSecrets.  The other methods  *)
(* change no state.                                                        *)
(***************************************************************************)
EXTENDS Activation

\* Whether NetworkManager calls Connect or Disconnect while a Disconnect has
\* not returned is a parameter.
DisconnectRunning == \E d \in ID : pc[d] \in DisconnectPCs
MayCall == Overlapping \/ ~DisconnectRunning

\* The next value of activationID, within the bound.
NextID(t) == t = activationID + 1

-----------------------------------------------------------------------------
\* Mutants: only one half of the test.
SlotFreeWhenIdle == client = Nil
SlotFreeUnlessActivating == ~activating

\* reserveActivation's test; a second activation is refused (AlreadyStarted).
SlotFree == ~activating /\ client = Nil

Connect(a, r) ==
    /\ MayCall
    /\ NextID(a)
    /\ SlotFree
    /\ pc' = [pc EXCEPT ![a] = "reserved"]
    /\ request' = [request EXCEPT ![a] = r]
    /\ activationID' = a
    /\ activating' = TRUE
    /\ activationCancel' = a
    /\ prompt' = NoPrompt
    /\ UNCHANGED <<state, monitorCancel, client, sessionID, pend, cancelled,
                   delivered, daemonUp, conn, taken, monitorVars, daemonVars,
                   signalVars>>

-----------------------------------------------------------------------------
(* Disconnect: everything is taken over under the lock, and acted on after *)
(* it is released.                                                         *)

CancelActivation == cancelled' = Cancelled(cancelled, activationCancel)

\* Mutant: the monitor is forgotten, not cancelled.
ForgetMonitor == mcancelled' = mcancelled /\ monitorCancel' = Nil

CancelMonitor ==
    /\ mcancelled' = Cancelled(mcancelled, monitorCancel)
    /\ monitorCancel' = Nil

\* Mutant: the service keeps the client it hands over.
ShareClient(d) ==
    /\ taken' = [taken EXCEPT ![d] = client]
    /\ client' = client

GrabClient(d) ==
    /\ taken' = [taken EXCEPT ![d] = client]
    /\ client' = Nil

Disconnect(d) ==
    /\ MayCall
    /\ NextID(d)
    /\ pc' = [pc EXCEPT ![d] = "disStopping"]
    /\ CancelActivation
    /\ CancelMonitor
    /\ GrabClient(d)
    /\ prompt' = NoPrompt
    /\ sessionID' = sessionID + 1
    /\ activationID' = d
    /\ UNCHANGED <<state, activating, activationCancel, pend, request,
                   delivered, daemonUp, conn, mpc, mpend, msession, mfail,
                   mres, mtaken, daemonVars, signalVars>>

\* Mutant: the client is closed without calling Down.
CloseOnly(d) == IF taken[d] # Nil THEN "disClose" ELSE "disStopped"

DownNeeded(d) == IF taken[d] # Nil THEN "disDown" ELSE "disStopped"

SetStopping(d) ==
    /\ Goto(d, "disStopping", DownNeeded(d))
    /\ SetState(d, "stopping")
    /\ UNCHANGED <<lockVars, threadVars, monitorVars, daemonVars, signalVars>>

DownAtDisconnect(d) == Down(d, "disDown", "disClose")

\* The client is closed; a Down that failed is reported.
CloseAtDisconnect(d) ==
    /\ Goto(d, "disClose", "disStopped")
    /\ conn' = [conn EXCEPT ![taken[d]] = "closed"]
    /\ failed' = IF d \in downFailed THEN failed \cup {d} ELSE failed
    /\ UNCHANGED <<state, lockVars, pend, request, cancelled, delivered,
                   daemonUp, taken, monitorVars, daemonVars, nmState, mfailed>>

\* Mutant: the error return leaves the state alone.
FinishUnlessFailed(d) ==
    /\ Goto(d, "disStopped", "done")
    /\ IF d \in downFailed THEN UNCHANGED <<state, pend>>
       ELSE SetState(d, "stopped")
    /\ UNCHANGED <<lockVars, threadVars, monitorVars, daemonVars, signalVars>>

FinishDisconnect(d) ==
    /\ Goto(d, "disStopped", "done")
    /\ SetState(d, "stopped")
    /\ UNCHANGED <<lockVars, threadVars, monitorVars, daemonVars, signalVars>>

DisconnectStep(d) ==
    \/ SetStopping(d) \/ DownAtDisconnect(d) \/ CloseAtDisconnect(d)
    \/ FinishDisconnect(d)

-----------------------------------------------------------------------------
SetFailure ==
    /\ CancelActivation
    /\ prompt' = NoPrompt
    /\ UNCHANGED <<state, activating, activationCancel, monitorCancel, client,
                   sessionID, activationID, pc, pend, request, delivered,
                   daemonUp, conn, taken, monitorVars, daemonVars, signalVars>>

\* An answer names the activation that asked, or none at all.
Replies == {"key", "blank", "continue", "cancel"}
PromptMatches(id) == prompt # NoPrompt /\ id \in {Nil, prompt.id}

\* handleNewSecretsLocked: the setup key goes into the prompt's channel;
\* an SSO prompt is dismissed by a continuation or by a cancellation.
DeliverKey(reply) ==
    /\ prompt.kind = "setup-key"
    /\ delivered' = [delivered EXCEPT ![prompt.id] =
                        IF reply = "key" THEN "key" ELSE "blank"]
    /\ UNCHANGED cancelled

AnswerSSO(reply) ==
    /\ prompt.kind = "sso"
    /\ reply \in {"continue", "cancel"}
    /\ IF reply = "cancel" THEN CancelActivation ELSE UNCHANGED cancelled
    /\ UNCHANGED delivered

NewSecrets(id, reply) ==
    /\ PromptMatches(id)
    /\ DeliverKey(reply) \/ AnswerSSO(reply)
    /\ prompt' = NoPrompt
    /\ UNCHANGED <<state, activating, activationCancel, monitorCancel, client,
                   sessionID, activationID, pc, pend, request, daemonUp, conn,
                   taken, monitorVars, daemonVars, signalVars>>

=============================================================================
