--------------------------- MODULE PluginService ---------------------------
(***************************************************************************)
(* The plugin service as a whole: the D-Bus methods, the activation        *)
(* goroutines they start, the status monitors those start, and a daemon    *)
(* whose engine may also stop by itself; and what must be true of them.    *)
(***************************************************************************)
EXTENDS Handlers, Monitor

\* The daemon's engine stops without the plugin's doing.
EngineDrops ==
    /\ engine # Nil
    /\ engine' = Nil
    /\ UNCHANGED <<state, lockVars, pc, pend, threadVars, monitorVars,
                   downFailed, signalVars>>

ThreadStep(t) == AttemptStep(t) \/ DisconnectStep(t) \/ EmitStateChanged(t)
MonitorThreadStep(m) == MonitorStep(m) \/ MonitorEmitStateChanged(m)

NetworkManagerCall ==
    \/ \E a \in ID, r \in Requests : Connect(a, r)
    \/ \E d \in ID : Disconnect(d)
    \/ SetFailure
    \/ \E id \in ID \cup {Nil}, reply \in Replies : NewSecrets(id, reply)

Next ==
    \/ NetworkManagerCall
    \/ \E t \in ID : ThreadStep(t)
    \/ \E m \in ID : MonitorThreadStep(m)
    \/ EngineDrops

Spec == Init /\ [][Next]_vars

\* Every goroutine keeps running: each daemon call and each wait has a
\* deadline.  NetworkManager need not call, the engine need not stop.
Fairness ==
    /\ \A t \in ID : WF_vars(ThreadStep(t))
    /\ \A m \in ID : WF_vars(MonitorThreadStep(m))

FairSpec == Spec /\ Fairness

-----------------------------------------------------------------------------
(* Safety *)

\* From its reservation to finishFailedActivation or completeActivation.
HoldsSlot(a) == pc[a] \in AttemptPCs \ {"announce", "wrapUp", "close"}

(* The activation slot is exclusive: at most one attempt is in flight, the *)
(* service knows exactly that one (its cancel function is the one that     *)
(* Disconnect and SetFailure call), and none is in flight beside an active *)
(* session (reserveActivation, completeActivation, finishFailedActivation).*)
SlotExclusive ==
    /\ \A a \in ID : HoldsSlot(a) <=> (activating /\ activationCancel = a)
    /\ activating <=> activationCancel # Nil
    /\ activating => client = Nil

(* Who is responsible for closing the gRPC connection of attempt a.        *)
Holders(a) ==
    {<<"attempt", t>> : t \in {b \in ID : /\ b = a /\ conn[a] = "open"
                                          /\ HoldsSlot(a) \/ pc[a] = "close"}}
    \cup {<<"service", s>> : s \in {client} \cap {a}}
    \cup {<<"disconnect", d>> : d \in
            {d \in ID : /\ taken[d] = a
                        /\ pc[d] \in {"disStopping", "disDown", "disClose"}}}
    \cup {<<"monitor", m>> : m \in
            {m \in ID : mtaken[m] = a /\ mpc[m] \in {"thrFailure", "mclose"}}}

(* An open daemon connection has exactly one holder, and a closed one has  *)
(* none: whichever of the attempt, Disconnect and the monitor ends the     *)
(* session, the client is closed once and never used afterwards.           *)
ClientHeldOnce ==
    \A a \in ID : /\ conn[a] = "open" <=> Holders(a) # {}
                  /\ \A h, k \in Holders(a) : h = k

Watching(m) == mpc[m] \in {"poll", "apply", "clear", "threshold"}

(* An active session is always watched: its own monitor runs, is not       *)
(* cancelled, carries the session's number and is the one Disconnect would *)
(* cancel; and no other monitor runs uncancelled (completeActivation,      *)
(* startMonitorLocked, clearActiveSession).                                *)
SessionMonitored ==
    /\ client # Nil => /\ monitorCancel = client
                       /\ msession[client] = sessionID
                       /\ Watching(client) /\ ~mcancelled[client]
    /\ \A m \in ID : Watching(m) /\ ~mcancelled[m]
                        => client = m /\ monitorCancel = m

(* A registered prompt is the one of the attempt in flight, so an answer   *)
(* reaches, and an SSO cancellation cancels, the attempt that asked; and a *)
(* setup-key prompt's channel is empty, so the key is not dropped          *)
(* (registerActivationPrompt, NewSecrets, handleNewSecretsLocked).         *)
PromptOfLiveAttempt ==
    prompt # NoPrompt =>
        /\ activating /\ activationCancel = prompt.id
        /\ activationID = prompt.id
        /\ prompt.kind = "setup-key" => delivered[prompt.id] = "none"

(* An attempt that gives up has reported a Failure, unless NetworkManager  *)
(* cancelled it (failActivation, completeActivation).                      *)
SilentOnlyIfCancelled ==
    \A a \in ID : pc[a] \in {"unwind", "down", "release"}
                    => a \in failed \/ cancelled[a]

(* The state is STOPPING only while a Disconnect has yet to set STOPPED.   *)
StoppingIsTransient ==
    state = "stopping" =>
        \E d \in ID : pc[d] \in {"disDown", "disClose", "disStopped"}

(* The Down that follows a failed activation can only stop the engine the  *)
(* activation itself started: the slot is not free before the call returns *)
(* (finishActivationAttempt).                                              *)
OwnEngineDown == \A a \in ID : pc[a] = "down" => engine \in {Nil, a}

(* An attempt that failed after Up succeeded leaves no engine behind,      *)
(* unless its Down failed as well (finishActivationAttempt).               *)
FailedAttemptLeavesNoEngine ==
    \A a \in ID :
        (/\ pc[a] \in {"release", "close", "done"}
         /\ daemonUp[a] /\ msession[a] = 0 /\ a \notin downFailed)
            => engine # a

(* Disconnecting an active session stops the engine: once its Down has     *)
(* succeeded no engine runs until NetworkManager connects again.           *)
ActiveDisconnectStopsEngine ==
    \A d \in ID :
        (/\ pc[d] \in {"disClose", "disStopped", "done"}
         /\ taken[d] # Nil /\ d \notin downFailed /\ activationID = d)
            => engine = Nil

(* A monitor ends no session but its own, however late it runs             *)
(* (clearActiveSession, failActiveSessionAfterStatusThreshold).            *)
MonitorEndsOwnSession ==
    [][\A m \in ID : mtaken'[m] # mtaken[m] => mtaken'[m] = m]_vars

-----------------------------------------------------------------------------
(* Refinement *)

(* The lock-protected fields implement the activation slot: it passes from *)
(* one owner to the next only when free, and no owner returns to it.       *)
Slot == INSTANCE ActivationSlot WITH
    Owner <- ID,
    phase <- IF client # Nil THEN "active"
             ELSE IF activating THEN "activating" ELSE "free",
    owner <- IF client # Nil THEN client ELSE activationCancel,
    last <- activationID
ImplementsSlot == Slot!Spec

-----------------------------------------------------------------------------
(* Liveness, under FairSpec *)

(* An activation ends: whatever the daemon and NetworkManager do, the slot *)
(* is given back or becomes a session.                                     *)
ActivationEnds == \A a \in ID : HoldsSlot(a) ~> ~HoldsSlot(a)

(* A daemon connection that does not serve the active session is closed.   *)
ConnectionReleased ==
    \A a \in ID : conn[a] = "open" ~> (conn[a] = "closed" \/ client = a)

(* A monitor whose session was ended stops.                                *)
CancelledMonitorStops == \A m \in ID : mcancelled[m] ~> mpc[m] = "done"

(* The loss of the engine is noticed: the session is ended, whether the    *)
(* daemon reports the stopped engine or its status calls keep failing.     *)
EngineLossNoticed ==
    \A m \in ID : (client = m /\ engine = Nil) ~> client # m

-----------------------------------------------------------------------------
(* What the documentation and the tests promise and the code does not keep *)

Quiet ==
    /\ \A t \in ID : pc[t] \in {"idle", "done"} /\ pend[t] = "none"
    /\ \A m \in ID : mpc[m] \in {"none", "done"} /\ mpend[m] = "none"
    /\ ~activating /\ client = Nil

(* STARTING means that an activation is in progress, and STARTED that a    *)
(* VPN connection is active: neither outlives what it stands for.          *)
NoOrphanState == Quiet => state \notin {"starting", "started"}

(* A monitor emits Failure only for the current session, or for one that   *)
(* it ended itself.                                                        *)
FailureOfOwnSession ==
    [][\A m \in mfailed' \ mfailed : SessionCurrent(m) \/ mtaken[m] = m]_vars

(* Once nothing moves, the last StateChanged told the current state.       *)
LastSignalIsState == Quiet => nmState = state

(* Once a Disconnect has returned and nothing moves, no engine runs, as    *)
(* long as every Down succeeded.                                           *)
DisconnectedLast == activationID # 0 /\ request[activationID] = NoRequest
DisconnectStopsEngine ==
    Quiet /\ DisconnectedLast /\ downFailed = {} => engine = Nil

=============================================================================
