------------------------ MODULE ServiceSessionProofs ------------------------
(***************************************************************************)
(* Sessions, their monitors and their gRPC connections in PluginService:   *)
(* an active session is watched by its own monitor and by no other, no     *)
(* monitor ends a session that is not its own, and an open connection,     *)
(* dialled by an attempt and handed over to the service, from which        *)
(* Disconnect or the monitor takes it, always has exactly one holder,      *)
(* whatever the bounds.                                                    *)
(***************************************************************************)
EXTENDS ServiceSlotProofs

(* A monitor learns from the number of its session whether it is still the *)
(* current one.  That works because the numbers are never reused ...       *)
NumbersDistinct ==
    /\ \A m \in ID : mpc[m] # "none" => msession[m] <= sessionID
    /\ \A m, n \in ID : (/\ mpc[m] # "none" /\ mpc[n] # "none"
                         /\ msession[m] = msession[n]) => m = n

(* ... and because a session gets its monitor once, when it is established. *)
NotYetEstablished(a) ==
    a > activationID \/ (activating /\ activationCancel = a)
MonitorStartsOnce ==
    /\ \A a \in ID : NotYetEstablished(a) => mpc[a] = "none"
    /\ \A m \in ID : mpc[m] = "none" => ~mcancelled[m]

\* Until it ends a session a monitor has taken nothing.
NothingTakenYet ==
    \A m \in ID : mpc[m] = "none" \/ Watching(m) => mtaken[m] = Nil

NoSessionNoMonitor == client = Nil => monitorCancel = Nil

Session ==
    /\ SessionMonitored /\ NumbersDistinct /\ MonitorStartsOnce
    /\ NothingTakenYet /\ NoSessionNoMonitor

SessionInv == SlotInv /\ Session

monitorFields ==
    <<monitorCancel, sessionID, mpc, mcancelled, msession, mtaken>>

-----------------------------------------------------------------------------
\* Before the first call there is no session and no monitor has started.
LEMMA InitSession == Init => Session
BY DEF Init, Session, SessionMonitored, NumbersDistinct, MonitorStartsOnce,
   NothingTakenYet, NoSessionNoMonitor, Watching, Nil

\* A step that touches neither the slot nor a monitor keeps the sessions.
LEMMA NothingMoves ==
    ASSUME Session, UNCHANGED slotFields, UNCHANGED monitorFields
    PROVE  Session'
BY DEF slotFields, monitorFields, Session, SessionMonitored, NumbersDistinct,
   MonitorStartsOnce, NotYetEstablished, NothingTakenYet, NoSessionNoMonitor,
   Watching

\* A monitor that is not the current session's may stop watching.
LEMMA MonitorMoves ==
    ASSUME SessionInv, NEW m \in ID, NEW to,
           mpc' = [mpc EXCEPT ![m] = to], mpc[m] # "none", to # "none",
           Watching(m)' => Watching(m),
           Watching(m) /\ ~Watching(m)' => mcancelled[m] \/ client # m,
           UNCHANGED slotFields,
           UNCHANGED <<monitorCancel, sessionID, mcancelled, msession, mtaken>>
    PROVE  Session'
<1>1. mpc \in [ID -> MonitorPCs]
  BY DEF SessionInv, SlotInv, TypeInv, ServiceTypeOK, MonitorTypeOK
<1>2. \A n \in ID : n # m => mpc'[n] = mpc[n]
  BY <1>1
<1>3. \A n \in ID : mpc'[n] = "none" <=> mpc[n] = "none"
  BY <1>1
<1>4. SessionMonitored'
  <2>1. \A n \in ID : n # m => (Watching(n)' <=> Watching(n))
    BY <1>2 DEF Watching
  <2>2. client # Nil => Watching(client)'
    <3>1. CASE client = m
      BY <3>1 DEF SessionInv, Session, SessionMonitored, slotFields
    <3>2. CASE client # m
      BY <2>1, <3>2 DEF SessionInv, SlotInv, TypeInv, ServiceTypeOK, LockTypeOK,
         Session, SessionMonitored, slotFields
    <3>3. QED
      BY <3>1, <3>2
  <2>3. \A n \in ID : Watching(n)' => Watching(n)
    BY <2>1
  <2>4. QED
    BY <2>2, <2>3 DEF SessionInv, Session, SessionMonitored, slotFields
<1>5. NumbersDistinct' /\ MonitorStartsOnce' /\ NoSessionNoMonitor'
  BY <1>3 DEF SessionInv, Session, NumbersDistinct, MonitorStartsOnce,
     NotYetEstablished, NoSessionNoMonitor, slotFields
<1>6. NothingTakenYet'
  BY <1>2, <1>3 DEF SessionInv, Session, NothingTakenYet, Watching
<1>7. QED
  BY <1>4, <1>5, <1>6 DEF Session

\* A monitor that finds its session current finds its own client, or none.
LEMMA CurrentIsOwn ==
    ASSUME SessionInv, NEW m \in ID, mpc[m] # "none", SessionCurrent(m)
    PROVE  client \in {Nil, m}
<1>1. CASE client # Nil
  <2>1. client \in ID /\ msession[client] = sessionID /\ mpc[client] # "none"
    BY <1>1 DEF SessionInv, SlotInv, TypeInv, ServiceTypeOK, LockTypeOK, Session,
       SessionMonitored, Watching
  <2>2. QED
    BY <2>1 DEF SessionInv, Session, NumbersDistinct, SessionCurrent
<1>2. QED
  BY <1>1

-----------------------------------------------------------------------------
(* The steps of a monitor.                                                *)

\* The monitor ends the current session, which can only be its own.
LEMMA EndKeepsSession ==
    ASSUME SessionInv, NEW m \in ID, NEW to, Watching(m), SessionCurrent(m),
           EndSession(m), mpc' = [mpc EXCEPT ![m] = to],
           to \in {"thrFailure", "mclose", "done"},
           UNCHANGED <<activating, activationCancel, activationID, sessionID,
                       msession>>
    PROVE  Session'
<1>1. /\ mpc \in [ID -> MonitorPCs] /\ mcancelled \in [ID -> BOOLEAN]
      /\ mtaken \in [ID -> ID \cup {Nil}]
  BY DEF SessionInv, SlotInv, TypeInv, ServiceTypeOK, MonitorTypeOK
<1>2. /\ client' = Nil /\ monitorCancel' = Nil
      /\ mtaken' = [mtaken EXCEPT ![m] = client]
  BY DEF EndSession
<1>3. \A n \in ID : n # m => mpc'[n] = mpc[n] /\ mtaken'[n] = mtaken[n]
  BY <1>1, <1>2
<1>4. \A n \in ID : Watching(n)' => Watching(n) /\ n # m
  BY <1>1, <1>3 DEF Watching
<1>5. mpc[m] # "none" /\ mpc'[m] # "none"
  BY <1>1 DEF Watching
<1>6. \A n \in ID : mcancelled[n] => mcancelled'[n]
  BY <1>1 DEF EndSession, Cancelled
<1>7. \A n \in ID : mcancelled'[n] => mcancelled[n] \/ n = monitorCancel
  BY <1>1 DEF EndSession, Cancelled
<1>8. SessionMonitored'
  <2>1. \A n \in ID : Watching(n)' => mcancelled'[n]
    <3> SUFFICES ASSUME NEW n \in ID, Watching(n)' PROVE mcancelled'[n]
      OBVIOUS
    <3>1. Watching(n) /\ n # m /\ client \in {Nil, m}
      BY <1>4, <1>5, CurrentIsOwn
    <3>2. n # Nil
      BY DEF ID, Nil
    <3>3. mcancelled[n]
      BY <3>1, <3>2 DEF SessionInv, Session, SessionMonitored
    <3>4. QED
      BY <3>3, <1>6
  <2>2. QED
    BY <1>2, <2>1 DEF SessionMonitored
<1>9. NumbersDistinct'
  BY <1>3, <1>5 DEF SessionInv, Session, NumbersDistinct
<1>10. MonitorStartsOnce'
  <2>1. monitorCancel \in {Nil, m}
    BY <1>5, CurrentIsOwn
       DEF SessionInv, Session, SessionMonitored, NoSessionNoMonitor
  <2>2. \A n \in ID : mpc'[n] = "none" => mpc[n] = "none" /\ n # m /\ n # Nil
    BY <1>3, <1>5 DEF ID, Nil
  <2>3. QED
    BY <1>3, <1>5, <1>7, <2>1, <2>2
       DEF SessionInv, Session, MonitorStartsOnce, NotYetEstablished
<1>11. NothingTakenYet' /\ NoSessionNoMonitor'
  BY <1>2, <1>3, <1>4, <1>5
     DEF SessionInv, Session, NothingTakenYet, NoSessionNoMonitor
<1>12. QED
  BY <1>8, <1>9, <1>10, <1>11 DEF Session

\* clearActiveSession: the monitor ends its session, or is late and does not.
LEMMA ClearKeepsSession ==
    ASSUME SessionInv, NEW m \in ID, ClearActiveSession(m) PROVE Session'
<1>1. /\ mpc[m] = "clear" /\ mpc' = [mpc EXCEPT ![m] = AfterClear(m)]
      /\ AfterClear(m) \in {"mclose", "done"}
  BY DEF ClearActiveSession, MonitorGoto, AfterClear
<1>2. mpc \in [ID -> MonitorPCs]
  BY DEF SessionInv, SlotInv, TypeInv, ServiceTypeOK, MonitorTypeOK
<1>3. Watching(m) /\ ~Watching(m)'
  BY <1>1, <1>2 DEF Watching
<1>4. CASE SessionCurrent(m)
  BY <1>1, <1>3, <1>4, EndKeepsSession DEF ClearActiveSession
<1>5. CASE ~SessionCurrent(m)
  <2>1. client # m
    BY <1>5 DEF SessionCurrent, SessionInv, Session, SessionMonitored, ID, Nil
  <2>2. QED
    BY <1>1, <1>3, <1>5, <2>1, MonitorMoves DEF ClearActiveSession, slotFields
<1>6. QED
  BY <1>4, <1>5

\* failActiveSession: it ends the session of this number, or does nothing.
LEMMA FailKeepsSession ==
    ASSUME SessionInv, NEW m \in ID, FailActiveSession(m) PROVE Session'
<1>1. mpc[m] = "threshold" /\ mpc \in [ID -> MonitorPCs]
  BY DEF FailActiveSession, MonitorGoto, SessionInv, SlotInv, TypeInv, ServiceTypeOK,
     MonitorTypeOK
<1>2. CASE MayFailSession(m)
  BY <1>1, <1>2, EndKeepsSession
     DEF FailActiveSession, MonitorGoto, MayFailSession, Watching
<1>3. CASE ~MayFailSession(m)
  <2>1. client # m
    BY <1>3 DEF MayFailSession, SessionCurrent, SessionInv, Session,
       SessionMonitored, ID, Nil
  <2>2. mpc' = [mpc EXCEPT ![m] = "done"]
    BY <1>3 DEF FailActiveSession, MonitorGoto
  <2>3. ~Watching(m)'
    BY <1>1, <2>2 DEF Watching
  <2>4. QED
    BY <1>1, <1>3, <2>1, <2>2, <2>3, MonitorMoves
       DEF FailActiveSession, slotFields, lockVars
<1>4. QED
  BY <1>2, <1>3

\* Every step of a monitor.
LEMMA MonitorKeepsSession ==
    ASSUME SessionInv, NEW m \in ID, MonitorStep(m) PROVE Session'
<1> USE DEF MonitorGoto, Watching, lockVars, slotFields
<1>1. mpc \in [ID -> MonitorPCs] /\ mcancelled \in [ID -> BOOLEAN]
  BY DEF SessionInv, SlotInv, TypeInv, ServiceTypeOK, MonitorTypeOK
<1>2. CASE Poll(m)
  BY <1>1, <1>2, MonitorMoves DEF Poll
<1>3. CASE ApplyError(m)
  BY <1>1, <1>3, MonitorMoves DEF ApplyError, AfterError
<1>4. CASE ApplyAlive(m)
  BY <1>1, <1>4, MonitorMoves DEF ApplyAlive
<1>5. CASE ApplyFailed(m)
  BY <1>1, <1>5, MonitorMoves DEF ApplyFailed
<1>6. CASE ApplyStopped(m)
  BY <1>1, <1>6, MonitorMoves DEF ApplyStopped
<1>7. CASE ReportSessionFailure(m)
  BY <1>1, <1>7, MonitorMoves DEF ReportSessionFailure
<1>8. CASE CloseAfterSession(m)
  BY <1>1, <1>8, MonitorMoves DEF CloseAfterSession
<1>9. QED
  BY <1>2, <1>3, <1>4, <1>5, <1>6, <1>7, <1>8, ClearKeepsSession,
     FailKeepsSession DEF MonitorStep

-----------------------------------------------------------------------------
(* The steps that establish a session, and the ones between sessions.      *)

\* completeActivation establishes a session, with a number not used before,
\* and starts its monitor.
LEMMA CompleteKeepsSession ==
    ASSUME SessionInv, NEW a \in ID, CompleteActivation(a) PROVE Session'
<1>1. CASE MayComplete(a)
  <2>1. /\ mpc \in [ID -> MonitorPCs] /\ msession \in [ID -> Nat]
        /\ mcancelled \in [ID -> BOOLEAN] /\ sessionID \in Nat
    BY DEF SessionInv, SlotInv, TypeInv, ServiceTypeOK, MonitorTypeOK, LockTypeOK
  <2>2. activating /\ activationCancel = a /\ client = Nil /\ a # Nil
    BY <1>1 DEF CompleteActivation, Goto, HoldsSlot, SessionInv, SlotInv,
       SlotExclusive, AttemptPCs, ID, Nil
  <2>3. monitorCancel = Nil /\ mpc[a] = "none" /\ ~mcancelled[a]
    BY <2>2 DEF SessionInv, Session, MonitorStartsOnce, NotYetEstablished,
       NoSessionNoMonitor
  <2>4. /\ client' = a /\ monitorCancel' = a /\ sessionID' = sessionID + 1
        /\ mpc' = [mpc EXCEPT ![a] = "poll"] /\ ~activating'
        /\ msession' = [msession EXCEPT ![a] = sessionID + 1]
        /\ UNCHANGED <<mcancelled, mtaken, activationID>>
    BY <1>1, <2>3 DEF CompleteActivation, StartMonitor, Cancelled
  <2>5. \A n \in ID : n # a => mpc'[n] = mpc[n] /\ msession'[n] = msession[n]
    BY <2>1, <2>4
  <2>6. mpc'[a] = "poll" /\ msession'[a] = sessionID + 1
    BY <2>1, <2>4
  <2>7. \A n \in ID : Watching(n) => mcancelled[n]
    BY <2>2 DEF SessionInv, Session, SessionMonitored, ID, Nil
  <2>8. SessionMonitored'
    <3>1. Watching(a)'
      BY <2>6 DEF Watching
    <3>2. \A n \in ID : Watching(n)' => n = a \/ mcancelled'[n]
      BY <2>4, <2>5, <2>7 DEF Watching
    <3>3. Watching(client)'
      BY <2>4, <2>6 DEF Watching
    <3>4. QED
      BY <2>3, <2>4, <2>6, <3>2, <3>3 DEF SessionMonitored
  <2>9. NumbersDistinct'
    <3>1. \A n \in ID : mpc[n] # "none" => msession[n] <= sessionID
      BY DEF SessionInv, Session, NumbersDistinct
    <3>2. \A n \in ID : mpc'[n] # "none" /\ n # a
                          => msession'[n] < sessionID + 1
      BY <2>1, <2>5, <3>1
    <3>3. \A n \in ID : msession'[n] \in Nat
      BY <2>1, <2>5, <2>6
    <3>4. \A n \in ID : mpc'[n] # "none" => msession'[n] <= sessionID'
      BY <2>1, <2>4, <2>6, <3>2, <3>3
    <3>5. ASSUME NEW m \in ID, NEW n \in ID, mpc'[m] # "none",
                 mpc'[n] # "none", msession'[m] = msession'[n]
          PROVE  m = n
      <4>1. CASE m # a /\ n # a
        BY <2>5, <3>5, <4>1 DEF SessionInv, Session, NumbersDistinct
      <4>2. CASE m = a \/ n = a
        BY <2>1, <2>6, <3>2, <3>3, <3>5, <4>2
      <4>3. QED
        BY <4>1, <4>2
    <3>6. QED
      BY <3>4, <3>5 DEF NumbersDistinct
  <2>10. MonitorStartsOnce'
    <3>1. \A n \in ID : NotYetEstablished(n)' => n > activationID /\ n # a
      <4>1. ~(a > activationID)
        BY <1>1 DEF CompleteActivation, Goto, SessionInv, SlotInv, Unused
      <4>2. QED
        BY <2>4, <4>1 DEF NotYetEstablished
    <3>2. QED
      BY <2>4, <2>5, <2>6, <3>1 DEF SessionInv, Session, MonitorStartsOnce,
         NotYetEstablished
  <2>11. NothingTakenYet' /\ NoSessionNoMonitor'
    BY <2>2, <2>3, <2>4, <2>5 DEF SessionInv, Session, NothingTakenYet,
       NoSessionNoMonitor, Watching
  <2>12. QED
    BY <2>8, <2>9, <2>10, <2>11 DEF Session
<1>2. CASE ~MayComplete(a)
  BY <1>2, NothingMoves DEF CompleteActivation, SessionInv, slotFields,
     monitorFields, lockVars, monitorVars
<1>3. QED
  BY <1>1, <1>2

\* Only completeActivation starts a monitor or counts sessions.
LEMMA AttemptMonitorFields ==
    ASSUME NEW a \in ID, AttemptStep(a), ~CompleteActivation(a)
    PROVE  UNCHANGED monitorFields
BY DEF AttemptStep, SetStarting, Dial, PrepareProfile, Authenticate, AskKey,
   AwaitKey, Login, AskSSO, AwaitSSO, Configure, Up, UpReturns, WaitForReady,
   EmitConfig, SetStarted, WrapUp, ReportFailure, SetStopped, Unwind,
   DownAfterFailure, Release, CloseAfterFailure, Call, FailFrom, Down,
   monitorFields, lockVars, monitorVars

\* Every step of an activation goroutine.
LEMMA AttemptKeepsSession ==
    ASSUME SessionInv, NEW a \in ID, AttemptStep(a) PROVE Session'
<1>1. CASE CompleteActivation(a)
  BY <1>1, CompleteKeepsSession
<1>2. CASE Release(a)
  <2>1. ~CompleteActivation(a)
    BY <1>2 DEF Release, CompleteActivation, Goto
  <2>2. /\ UNCHANGED monitorFields /\ UNCHANGED <<client, activationID>>
        /\ ~activating'
    BY <1>2, <2>1, AttemptMonitorFields DEF Release
  <2>3. \A n \in ID : NotYetEstablished(n)' => NotYetEstablished(n)
    BY <2>2 DEF NotYetEstablished
  <2>4. QED
    BY <2>2, <2>3 DEF monitorFields, SessionInv, Session, SessionMonitored,
       NumbersDistinct, MonitorStartsOnce, NothingTakenYet,
       NoSessionNoMonitor, Watching
<1>3. CASE ~CompleteActivation(a) /\ ~Release(a)
  BY <1>3, QuietAttemptSteps, AttemptMonitorFields, NothingMoves
     DEF SessionInv
<1>4. QED
  BY <1>1, <1>2, <1>3

\* Connect is refused while there is a session, and starts none itself.
LEMMA ConnectKeepsSession ==
    ASSUME SessionInv, NEW a \in ID, NEW r \in Requests, Connect(a, r)
    PROVE  Session'
<1>1. activationID \in Nat /\ a = activationID + 1
  BY MaxIDAssumption DEF Connect, NextID, SessionInv, SlotInv, TypeInv, ServiceTypeOK,
     LockTypeOK
<1>2. /\ activationID' = a /\ activationCancel' = a
      /\ UNCHANGED client /\ UNCHANGED monitorFields
  BY DEF Connect, monitorFields, monitorVars
<1>3. \A n \in ID : NotYetEstablished(n)' => NotYetEstablished(n)
  BY <1>1, <1>2 DEF NotYetEstablished, ID
<1>4. QED
  BY <1>2, <1>3 DEF monitorFields, SessionInv, Session, SessionMonitored,
     NumbersDistinct, MonitorStartsOnce, NothingTakenYet, NoSessionNoMonitor,
     Watching

\* Disconnect ends the session, cancels its monitor and takes a new number.
LEMMA DisconnectCallKeepsSession ==
    ASSUME SessionInv, NEW d \in ID, Disconnect(d) PROVE Session'
<1>1. /\ activationID \in Nat /\ d = activationID + 1 /\ sessionID \in Nat
      /\ mcancelled \in [ID -> BOOLEAN] /\ msession \in [ID -> Nat]
  BY MaxIDAssumption DEF Disconnect, NextID, SessionInv, SlotInv, TypeInv,
     ServiceTypeOK, LockTypeOK, MonitorTypeOK
<1>2. /\ activationID' = d /\ client' = Nil /\ monitorCancel' = Nil
      /\ sessionID' = sessionID + 1
      /\ mcancelled' = Cancelled(mcancelled, monitorCancel)
      /\ UNCHANGED <<activating, activationCancel, mpc, msession, mtaken>>
  BY DEF Disconnect, GrabClient, CancelMonitor
<1>3. \A n \in ID : NotYetEstablished(n)' => NotYetEstablished(n)
  BY <1>1, <1>2 DEF NotYetEstablished, ID
<1>4. \A n \in ID : mcancelled'[n] <=> mcancelled[n] \/ n = monitorCancel
  BY <1>1, <1>2 DEF Cancelled, ID, Nil
<1>5. SessionMonitored'
  BY <1>2, <1>4 DEF SessionInv, Session, SessionMonitored, Watching
<1>6. NumbersDistinct'
  BY <1>1, <1>2 DEF SessionInv, Session, NumbersDistinct
<1>7. MonitorStartsOnce'
  <2>1. \A n \in ID : mpc[n] = "none" => n # monitorCancel
    BY DEF SessionInv, Session, SessionMonitored, NoSessionNoMonitor, Watching,
       ID, Nil
  <2>2. QED
    BY <1>2, <1>3, <1>4, <2>1 DEF SessionInv, Session, MonitorStartsOnce
<1>8. NothingTakenYet' /\ NoSessionNoMonitor'
  BY <1>2 DEF SessionInv, Session, NothingTakenYet, NoSessionNoMonitor,
     Watching
<1>9. QED
  BY <1>5, <1>6, <1>7, <1>8 DEF Session

-----------------------------------------------------------------------------
\* Every step of the service keeps the session invariant.
LEMMA NextKeepsSession == SessionInv /\ [Next]_vars => SessionInv'
<1> SUFFICES ASSUME SessionInv, [Next]_vars PROVE Session'
  BY NextKeepsSlot DEF SessionInv
<1> USE DEF lockVars, monitorVars, slotFields, monitorFields
<1>1. CASE NetworkManagerCall
  <2>1. CASE SetFailure
    BY <2>1, NothingMoves DEF SetFailure, SessionInv
  <2>2. ASSUME NEW id, NEW reply, NewSecrets(id, reply) PROVE Session'
    BY <2>2, NothingMoves DEF NewSecrets, SessionInv
  <2>3. QED
    BY <1>1, <2>1, <2>2, ConnectKeepsSession, DisconnectCallKeepsSession
       DEF NetworkManagerCall
<1>2. ASSUME NEW t \in ID, ThreadStep(t) PROVE Session'
  <2>1. CASE EmitStateChanged(t)
    BY <2>1, NothingMoves DEF EmitStateChanged, SessionInv
  <2>2. CASE DisconnectStep(t)
    BY <2>2, NothingMoves DEF DisconnectStep, SetStopping, DownAtDisconnect,
       Down, CloseAtDisconnect, FinishDisconnect, SessionInv
  <2>3. QED
    BY <1>2, <2>1, <2>2, AttemptKeepsSession DEF ThreadStep
<1>3. ASSUME NEW m \in ID, MonitorThreadStep(m) PROVE Session'
  <2>1. CASE MonitorEmitStateChanged(m)
    BY <2>1, NothingMoves DEF MonitorEmitStateChanged, SessionInv
  <2>2. QED
    BY <1>3, <2>1, MonitorKeepsSession DEF MonitorThreadStep
<1>4. CASE EngineDrops
  BY <1>4, NothingMoves DEF EngineDrops, SessionInv
<1>5. CASE UNCHANGED vars
  BY <1>5, NothingMoves DEF vars, SessionInv
<1>6. QED
  BY <1>1, <1>2, <1>3, <1>4, <1>5 DEF Next

\* The session invariant holds in every reachable state.
LEMMA SessionInvariant == Spec => []SessionInv
<1>1. Init => SessionInv
  BY InitType, InitSlot, InitSession DEF SessionInv, SlotInv
<1>2. QED
  BY <1>1, NextKeepsSession, PTL DEF Spec

(* An active session is always watched by its own, uncancelled monitor,    *)
(* and no other monitor runs uncancelled (completeActivation,              *)
(* startMonitorLocked, clearActiveSession, Disconnect).                    *)
THEOREM SessionCorrect == Spec => []SessionMonitored
<1>1. SessionInv => SessionMonitored
  BY DEF SessionInv, Session
<1>2. QED
  BY <1>1, SessionInvariant, PTL

\* Only the two ways a session is ended take a client.
LEMMA OnlyOwnTaken ==
    ASSUME SessionInv, [Next]_vars, NEW m \in ID, mtaken'[m] # mtaken[m]
    PROVE  mtaken'[m] = m
<1>1. mtaken \in [ID -> ID \cup {Nil}]
  BY DEF SessionInv, SlotInv, TypeInv, ServiceTypeOK, MonitorTypeOK
<1>2. PICK n \in ID : ClearActiveSession(n) \/ FailActiveSession(n)
  <2>1. CASE NetworkManagerCall
    BY <2>1 DEF NetworkManagerCall, Connect, Disconnect, SetFailure,
       NewSecrets, monitorVars
  <2>2. ASSUME NEW t \in ID, AttemptStep(t) PROVE FALSE
    <3>1. CASE CompleteActivation(t)
      BY <3>1 DEF CompleteActivation, monitorVars
    <3>2. QED
      BY <2>2, <3>1, AttemptMonitorFields DEF monitorFields
  <2>3. ASSUME NEW t \in ID, DisconnectStep(t) \/ EmitStateChanged(t)
        PROVE  FALSE
    BY <2>3 DEF DisconnectStep, SetStopping, DownAtDisconnect, Down,
       CloseAtDisconnect, FinishDisconnect, EmitStateChanged, monitorVars
  <2>4. ASSUME NEW t \in ID, MonitorThreadStep(t)
        PROVE  ClearActiveSession(t) \/ FailActiveSession(t)
    BY <2>4 DEF MonitorThreadStep, MonitorStep, Poll, ApplyError, ApplyAlive,
       ApplyFailed, ApplyStopped, ReportSessionFailure, CloseAfterSession,
       MonitorEmitStateChanged
  <2>5. ~EngineDrops /\ ~UNCHANGED vars
    BY DEF EngineDrops, vars, monitorVars
  <2>6. QED
    BY <2>1, <2>2, <2>3, <2>4, <2>5 DEF Next, ThreadStep
<1>3. mpc[n] # "none"
  BY <1>2 DEF ClearActiveSession, FailActiveSession, MonitorGoto
<1>4. SessionCurrent(n) /\ mtaken' = [mtaken EXCEPT ![n] = client]
  BY <1>2 DEF ClearActiveSession, FailActiveSession, MayFailSession,
     EndSession, monitorVars
<1>5. n = m
  BY <1>1, <1>4
<1>6. mtaken'[m] = client
  BY <1>1, <1>4, <1>5
<1>7. mtaken[m] = Nil
  BY <1>2, <1>5 DEF ClearActiveSession, FailActiveSession, MonitorGoto,
     SessionInv, Session, NothingTakenYet, Watching
<1>8. QED
  BY <1>3, <1>4, <1>5, <1>6, <1>7, CurrentIsOwn

(* However late a monitor runs, it ends no session but its own: what it    *)
(* takes over from the service is its own client (clearActiveSession,      *)
(* failActiveSessionAfterStatusThreshold).                                 *)
THEOREM OwnSessionOnly == Spec => MonitorEndsOwnSession
<1>1. SessionInv /\ [Next]_vars
        => [\A m \in ID : mtaken'[m] # mtaken[m] => mtaken'[m] = m]_vars
  BY OnlyOwnTaken
<1>2. QED
  BY <1>1, SessionInvariant, PTL DEF Spec, MonitorEndsOwnSession

-----------------------------------------------------------------------------
(* The connections.                                                        *)

\* Where an attempt needs its connection, and where it has given it away.
Dialled == {"prepare", "authenticate", "askKey", "awaitKey", "login", "askSSO",
            "awaitSSO", "configure", "up", "upWait", "ready", "config",
            "complete"}
HandedOver == {"announce", "wrapUp", "done"}
Holding == {"disStopping", "disDown", "disClose"}

\* The holders of the connection of a: the attempt, a Disconnect, and the
\* monitor; the service is the fourth.
Owned(a) == conn[a] = "open" /\ (HoldsSlot(a) \/ pc[a] = "close")
TakenBy(d, a) == taken[d] = a /\ pc[d] \in Holding
EndedBy(a) == mtaken[a] = a /\ mpc[a] \in {"thrFailure", "mclose"}

(* Only what is open is held by others than the attempt, and not before    *)
(* the attempt has given it away.                                          *)
HeldIsOpen ==
    /\ \A a \in ID : client = a \/ EndedBy(a)
                        => conn[a] = "open" /\ pc[a] \in HandedOver
    /\ \A a, d \in ID : TakenBy(d, a)
                           => conn[a] = "open" /\ pc[a] \in HandedOver
    /\ \A a \in ID : pc[a] \in Dialled => conn[a] = "open"

OpenIsHeld ==
    \A a \in ID : conn[a] = "open" =>
        Owned(a) \/ client = a \/ EndedBy(a) \/ \E d \in ID : TakenBy(d, a)

OneHolder ==
    /\ \A a \in ID : client = a => ~EndedBy(a)
    /\ \A a, d \in ID : TakenBy(d, a) => client # a /\ ~EndedBy(a)
    /\ \A a, d, e \in ID : TakenBy(d, a) /\ TakenBy(e, a) => d = e

\* A monitor takes its own session's connection, or none.
TakesOwn == \A m \in ID : mtaken[m] \in {Nil, m}

Client == HeldIsOpen /\ OpenIsHeld /\ OneHolder /\ TakesOwn

ClientInv == SessionInv /\ Client

-----------------------------------------------------------------------------
\* What the invariant of the sessions gives.
LEMMA SessionFacts ==
    ASSUME SessionInv
    PROVE  /\ ServiceTypeOK /\ SlotExclusive /\ Unused /\ SessionMonitored
           /\ pc \in [ID -> {"idle", "done"} \cup AttemptPCs \cup DisconnectPCs]
           /\ conn \in [ID -> {"none", "open", "closed"}]
           /\ mpc \in [ID -> MonitorPCs] /\ mtaken \in [ID -> ID \cup {Nil}]
           /\ taken \in [ID -> ID \cup {Nil}] /\ client \in ID \cup {Nil}
           /\ \A a \in ID : a # Nil
BY DEF SessionInv, Session, SlotInv, TypeInv, ServiceTypeOK, ThreadTypeOK,
   MonitorTypeOK, LockTypeOK, ID, Nil

\* Before the first call there is no connection and nobody holds one.
LEMMA InitClient == Init => Client
BY DEF Init, Client, HeldIsOpen, OpenIsHeld, OneHolder, TakesOwn, TakenBy,
   EndedBy, Dialled, Holding, ID, Nil

\* A step that touches no connection and moves nothing.
LEMMA ClientStays ==
    ASSUME Client, UNCHANGED <<pc, conn, client, taken, mpc, mtaken>>
    PROVE  Client'
BY DEF Client, HeldIsOpen, OpenIsHeld, OneHolder, TakesOwn, Owned, TakenBy,
   EndedBy, HoldsSlot

\* A goroutine that moves without letting go of a connection it holds.
LEMMA MoveKeepsClient ==
    ASSUME ClientInv, NEW t \in ID, NEW to, pc' = [pc EXCEPT ![t] = to],
           UNCHANGED <<conn, client, taken, mpc, mtaken>>,
           pc[t] \in HandedOver => to \in HandedOver,
           Owned(t) => to \in SlotPCs \cup {"close"},
           taken[t] # Nil => (to \in Holding <=> pc[t] \in Holding),
           to \in Dialled => pc[t] \in Dialled \/ conn[t] = "open"
    PROVE  Client'
<1>1. SessionInv /\ Client
  BY DEF ClientInv
<1>2. \A n \in ID : n # t => pc'[n] = pc[n]
  BY <1>1, SessionFacts
<1>3. pc'[t] = to
  BY <1>1, SessionFacts
<1>4. \A a, d \in ID : TakenBy(d, a)' <=> TakenBy(d, a)
  BY <1>1, <1>2, <1>3, SessionFacts DEF TakenBy
<1>5. \A a \in ID : /\ EndedBy(a)' <=> EndedBy(a)
                    /\ Owned(a) => Owned(a)'
  BY <1>2, <1>3 DEF EndedBy, Owned, HoldsSlot, SlotPCs
<1>6. HeldIsOpen'
  BY <1>1, <1>2, <1>3, <1>4, <1>5 DEF Client, HeldIsOpen
<1>7. OpenIsHeld' /\ OneHolder' /\ TakesOwn'
  BY <1>1, <1>4, <1>5 DEF Client, OpenIsHeld, OneHolder, TakesOwn
<1>8. QED
  BY <1>6, <1>7 DEF Client

-----------------------------------------------------------------------------
(* Dialling, and handing over.                                             *)

\* An attempt that has dialled holds its connection itself.
LEMMA DialKeepsClient ==
    ASSUME ClientInv, NEW a \in ID, Dial(a) PROVE Client'
<1> USE DEF Dial, Goto
<1>1. SessionInv /\ Client
  BY DEF ClientInv
<1>2. CASE /\ pc' = [pc EXCEPT ![a] = "prepare"]
           /\ conn' = [conn EXCEPT ![a] = "open"]
  <2>1. UNCHANGED <<client, taken, mpc, mtaken>> /\ pc[a] = "dial"
    BY <1>2, <1>1, SessionFacts DEF FailFrom, lockVars, monitorVars, threadVars
  <2>2. \A n \in ID : n # a => pc'[n] = pc[n] /\ conn'[n] = conn[n]
    BY <1>1, <1>2, SessionFacts
  <2>3. pc'[a] = "prepare" /\ conn'[a] = "open"
    BY <1>1, <1>2, SessionFacts
  <2>4. \A b, d \in ID : TakenBy(d, b)' <=> TakenBy(d, b)
    BY <2>1, <2>2, <2>3 DEF TakenBy, Holding
  <2>5. /\ \A b \in ID : EndedBy(b)' <=> EndedBy(b)
        /\ \A b \in ID : b # a => (Owned(b)' <=> Owned(b))
        /\ Owned(a)'
    BY <2>1, <2>2, <2>3 DEF EndedBy, Owned, HoldsSlot, AttemptPCs
  <2>6. HeldIsOpen' /\ OpenIsHeld' /\ OneHolder' /\ TakesOwn'
    BY <1>1, <2>1, <2>2, <2>3, <2>4, <2>5 DEF Client, HeldIsOpen, OpenIsHeld,
       OneHolder, TakesOwn, HandedOver, Dialled
  <2>7. QED
    BY <2>6 DEF Client
<1>3. CASE FailFrom(a, "dial")
  BY <1>3, MoveKeepsClient DEF FailFrom, lockVars, threadVars, monitorVars,
     HandedOver, Holding, Dialled, SlotPCs, AttemptPCs
<1>4. QED
  BY <1>2, <1>3

\* completeActivation: from the attempt to the service.
LEMMA CompleteKeepsClient ==
    ASSUME ClientInv, NEW a \in ID, CompleteActivation(a) PROVE Client'
<1> USE DEF CompleteActivation, Goto
<1>1. SessionInv /\ Client
  BY DEF ClientInv
<1>2. CASE MayComplete(a)
  <2>1. /\ pc' = [pc EXCEPT ![a] = "announce"] /\ pc[a] = "complete"
        /\ mpc' = [mpc EXCEPT ![a] = "poll"]
        /\ client = Nil /\ client' = a /\ UNCHANGED <<conn, taken, mtaken>>
    BY <1>1, <1>2, SessionFacts DEF MayComplete, SlotExclusive, StartMonitor,
       threadVars
  <2>2. \A n \in ID : n # a => pc'[n] = pc[n] /\ mpc'[n] = mpc[n]
    BY <1>1, <2>1, SessionFacts
  <2>3. pc'[a] = "announce" /\ mpc'[a] = "poll" /\ conn[a] = "open"
    BY <1>1, <2>1, SessionFacts DEF Client, HeldIsOpen, Dialled
  <2>4. \A b, d \in ID : TakenBy(d, b)' <=> TakenBy(d, b)
    BY <2>1, <2>2, <2>3 DEF TakenBy, Holding
  <2>5. /\ \A b \in ID : EndedBy(b)' => EndedBy(b)
        /\ \A b \in ID : b # a => (EndedBy(b)' <=> EndedBy(b))
        /\ \A b \in ID : b # a => (Owned(b)' <=> Owned(b))
    BY <2>1, <2>2, <2>3 DEF EndedBy, Owned, HoldsSlot
  <2>6. ~EndedBy(a) /\ \A d \in ID : ~TakenBy(d, a)
    BY <1>1, <2>1 DEF Client, HeldIsOpen, HandedOver
  <2>7. HeldIsOpen' /\ OpenIsHeld' /\ OneHolder' /\ TakesOwn'
    BY <1>1, <2>1, <2>2, <2>3, <2>4, <2>5, <2>6, SessionFacts DEF Client,
       HeldIsOpen, OpenIsHeld, OneHolder, TakesOwn, HandedOver, Dialled
  <2>8. QED
    BY <2>7 DEF Client
<1>3. CASE ~MayComplete(a)
  BY <1>3, MoveKeepsClient DEF lockVars, threadVars, monitorVars, HandedOver,
     Holding, Dialled, SlotPCs, AttemptPCs
<1>4. QED
  BY <1>2, <1>3

\* An attempt that failed closes its own connection.
LEMMA CloseKeepsClient ==
    ASSUME ClientInv, NEW a \in ID, CloseAfterFailure(a) PROVE Client'
<1> USE DEF CloseAfterFailure, Goto
<1>1. SessionInv /\ Client
  BY DEF ClientInv
<1>2. /\ pc' = [pc EXCEPT ![a] = "done"] /\ pc[a] = "close"
      /\ conn' = [conn EXCEPT ![a] = "closed"]
      /\ UNCHANGED <<client, taken, mpc, mtaken>>
  BY DEF lockVars, monitorVars
<1>3. \A n \in ID : n # a => pc'[n] = pc[n] /\ conn'[n] = conn[n]
  BY <1>1, <1>2, SessionFacts
<1>4. pc'[a] = "done" /\ conn'[a] = "closed"
  BY <1>1, <1>2, SessionFacts
<1>5. \A b, d \in ID : TakenBy(d, b)' <=> TakenBy(d, b)
  BY <1>2, <1>3, <1>4 DEF TakenBy, Holding
<1>6. /\ \A b \in ID : EndedBy(b)' <=> EndedBy(b)
      /\ \A b \in ID : b # a => (Owned(b)' <=> Owned(b))
  BY <1>2, <1>3 DEF EndedBy, Owned, HoldsSlot
<1>7. client # a /\ ~EndedBy(a) /\ \A d \in ID : ~TakenBy(d, a)
  BY <1>1, <1>2 DEF Client, HeldIsOpen, HandedOver
<1>8. HeldIsOpen' /\ OpenIsHeld' /\ OneHolder' /\ TakesOwn'
  BY <1>1, <1>2, <1>3, <1>4, <1>5, <1>6, <1>7
     DEF Client, HeldIsOpen, OpenIsHeld, OneHolder, TakesOwn, Dialled
<1>9. QED
  BY <1>8 DEF Client

\* Every step of an activation goroutine.
LEMMA AttemptKeepsClient ==
    ASSUME ClientInv, NEW a \in ID, AttemptStep(a) PROVE Client'
<1>1. CASE Dial(a) \/ CompleteActivation(a) \/ CloseAfterFailure(a)
  BY <1>1, DialKeepsClient, CompleteKeepsClient, CloseKeepsClient
<1>2. CASE ~(Dial(a) \/ CompleteActivation(a) \/ CloseAfterFailure(a))
  <2>1. UNCHANGED <<conn, client, taken, mpc, mtaken>>
    BY <1>2 DEF lockVars, threadVars, monitorVars, AttemptStep, SetStarting,
       Dial, PrepareProfile, Authenticate, AskKey, AwaitKey, Login, AskSSO,
       AwaitSSO, Configure, Up, UpReturns, WaitForReady, EmitConfig,
       CompleteActivation, SetStarted, WrapUp, ReportFailure, SetStopped,
       Unwind, DownAfterFailure, Release, CloseAfterFailure, Call, FailFrom,
       Down, Goto
  <2>2. PICK to : /\ pc' = [pc EXCEPT ![a] = to]
                  /\ pc[a] \in HandedOver => to \in HandedOver
                  /\ Owned(a) => to \in SlotPCs \cup {"close"}
                  /\ pc[a] \notin Holding /\ to \notin Holding
                  /\ to \in Dialled => pc[a] \in Dialled
    BY <1>2 DEF HandedOver, Owned, HoldsSlot, SlotPCs, AttemptPCs, Holding,
       Dialled, AttemptStep, SetStarting, Dial, PrepareProfile, Authenticate,
     AskKey, AwaitKey, Login, AskSSO, AwaitSSO, Configure, Up, UpReturns,
     WaitForReady, EmitConfig, CompleteActivation, SetStarted, WrapUp,
     ReportFailure, SetStopped, Unwind, DownAfterFailure, Release,
     CloseAfterFailure, Call, FailFrom, Down, Goto
  <2>3. QED
    BY <2>1, <2>2, MoveKeepsClient
<1>3. QED
  BY <1>1, <1>2


-----------------------------------------------------------------------------
(* Connect and Disconnect.                                                 *)

\* A call runs under an identity that no goroutine has.
LEMMA FreshCall ==
    ASSUME SessionInv, NEW t \in ID, NextID(t) PROVE pc[t] = "idle"
BY SessionFacts, MaxIDAssumption DEF NextID, Unused, ServiceTypeOK, LockTypeOK, ID

\* A new attempt begins without a connection.
LEMMA ConnectKeepsClient ==
    ASSUME ClientInv, NEW a \in ID, NEW r \in Requests, Connect(a, r)
    PROVE  Client'
<1>1. /\ pc' = [pc EXCEPT ![a] = "reserved"] /\ pc[a] = "idle"
      /\ UNCHANGED <<conn, client, taken, mpc, mtaken>>
  BY FreshCall DEF Connect, ClientInv, monitorVars
<1>2. ~Owned(a) /\ (taken[a] # Nil => "reserved" \notin Holding)
  BY <1>1 DEF Owned, HoldsSlot, AttemptPCs, Holding
<1>3. QED
  BY <1>1, <1>2, MoveKeepsClient DEF HandedOver, Holding, Dialled

\* Disconnect: from the service to the call.
LEMMA DisconnectKeepsClient ==
    ASSUME ClientInv, NEW d \in ID, Disconnect(d) PROVE Client'
<1>1. SessionInv /\ Client
  BY DEF ClientInv
<1>2. /\ pc' = [pc EXCEPT ![d] = "disStopping"] /\ pc[d] = "idle"
      /\ taken' = [taken EXCEPT ![d] = client] /\ client' = Nil
      /\ UNCHANGED <<conn, mpc, mtaken>>
  BY <1>1, FreshCall DEF Disconnect, GrabClient
<1>3. \A n \in ID : n # d => pc'[n] = pc[n] /\ taken'[n] = taken[n]
  BY <1>1, <1>2, SessionFacts
<1>4. pc'[d] = "disStopping" /\ taken'[d] = client
  BY <1>1, <1>2, SessionFacts
<1>5. /\ \A a, e \in ID : e # d => (TakenBy(e, a)' <=> TakenBy(e, a))
      /\ \A a \in ID : TakenBy(d, a)' <=> client = a
      /\ \A a \in ID : ~TakenBy(d, a)
  BY <1>2, <1>3, <1>4 DEF TakenBy, Holding
<1>6. \A a \in ID : /\ EndedBy(a)' <=> EndedBy(a)
                    /\ Owned(a)' <=> Owned(a)
  BY <1>2, <1>3, <1>4 DEF EndedBy, Owned, HoldsSlot, AttemptPCs
<1>7. \A a \in ID : pc[a] \in HandedOver => a # d
  BY <1>2 DEF HandedOver
<1>8. HeldIsOpen'
  BY <1>1, <1>2, <1>3, <1>4, <1>5, <1>6, <1>7, SessionFacts
     DEF Client, HeldIsOpen, Dialled
<1>9. OpenIsHeld'
  BY <1>1, <1>2, <1>5, <1>6 DEF Client, OpenIsHeld
<1>10. OneHolder' /\ TakesOwn'
  BY <1>1, <1>2, <1>5, <1>6, SessionFacts DEF Client, OneHolder, TakesOwn
<1>11. QED
  BY <1>8, <1>9, <1>10 DEF Client

\* Disconnect closes the connection it took, which is nobody else's.
LEMMA CloseAtDisconnectKeepsClient ==
    ASSUME ClientInv, NEW d \in ID, taken[d] \in ID, CloseAtDisconnect(d)
    PROVE  Client'
<1> DEFINE c == taken[d]
<1>1. SessionInv /\ Client
  BY DEF ClientInv
<1>2. /\ pc' = [pc EXCEPT ![d] = "disStopped"] /\ pc[d] = "disClose"
      /\ conn' = [conn EXCEPT ![c] = "closed"]
      /\ UNCHANGED <<client, taken, mpc, mtaken>>
  BY DEF CloseAtDisconnect, Goto, lockVars, monitorVars
<1>3. \A n \in ID : /\ n # d => pc'[n] = pc[n]
                    /\ n # c => conn'[n] = conn[n]
  BY <1>1, <1>2, SessionFacts
<1>4. pc'[d] = "disStopped" /\ conn'[c] = "closed"
  BY <1>1, <1>2, SessionFacts
<1>5. TakenBy(d, c)
  BY <1>2 DEF TakenBy, Holding
<1>6. /\ client # c /\ ~EndedBy(c) /\ pc[c] \in HandedOver
      /\ \A e \in ID : e # d => ~TakenBy(e, c)
  BY <1>1, <1>5 DEF Client, OneHolder, HeldIsOpen
<1>7. /\ \A a, e \in ID : e # d => (TakenBy(e, a)' <=> TakenBy(e, a))
      /\ \A a \in ID : ~TakenBy(d, a)' /\ (TakenBy(d, a) => a = c)
  BY <1>2, <1>3, <1>4 DEF TakenBy, Holding
<1>8. /\ \A a \in ID : EndedBy(a)' <=> EndedBy(a)
      /\ \A a \in ID : a # c => (Owned(a)' <=> Owned(a))
      /\ ~Owned(c)'
  BY <1>2, <1>3, <1>4 DEF EndedBy, Owned, HoldsSlot, AttemptPCs
<1>9. \A a \in ID : pc[a] \in HandedOver \cup Dialled => a # d
  BY <1>2 DEF HandedOver, Dialled
<1>10. c # d /\ pc[c] \notin Dialled
  BY <1>6, <1>9 DEF HandedOver, Dialled
<1>11. HeldIsOpen'
  BY <1>1, <1>2, <1>3, <1>4, <1>6, <1>7, <1>8, <1>9, <1>10
     DEF Client, HeldIsOpen, Dialled
<1>12. OpenIsHeld' /\ OneHolder' /\ TakesOwn'
  BY <1>1, <1>2, <1>3, <1>4, <1>6, <1>7, <1>8
     DEF Client, OpenIsHeld, OneHolder, TakesOwn
<1>13. QED
  BY <1>11, <1>12 DEF Client

\* The rest of a Disconnect.
LEMMA DisconnectStepKeepsClient ==
    ASSUME ClientInv, NEW d \in ID, DisconnectStep(d) PROVE Client'
<1> USE DEF Goto, HandedOver, Holding, Dialled
<1>1. ~Owned(d)
  BY DEF Owned, HoldsSlot, AttemptPCs, DisconnectStep, SetStopping,
     DownAtDisconnect, CloseAtDisconnect, FinishDisconnect, Down, Goto
<1>2. CASE CloseAtDisconnect(d) /\ taken[d] \in ID
  BY <1>2, CloseAtDisconnectKeepsClient
<1>3. CASE CloseAtDisconnect(d) /\ taken[d] \notin ID
  <2>1. taken[d] = Nil /\ UNCHANGED conn
    BY <1>3, SessionFacts DEF ClientInv, CloseAtDisconnect
  <2>2. QED
    BY <1>1, <1>3, <2>1, MoveKeepsClient DEF CloseAtDisconnect, lockVars,
       monitorVars
<1>4. CASE SetStopping(d)
  BY <1>1, <1>4, MoveKeepsClient DEF SetStopping, DownNeeded, lockVars,
     threadVars, monitorVars
<1>5. CASE DownAtDisconnect(d)
  BY <1>1, <1>5, MoveKeepsClient DEF DownAtDisconnect, Down, lockVars,
     threadVars, monitorVars
<1>6. CASE FinishDisconnect(d)
  BY <1>1, <1>6, MoveKeepsClient DEF FinishDisconnect, lockVars, threadVars,
     monitorVars
<1>7. QED
  BY <1>2, <1>3, <1>4, <1>5, <1>6 DEF DisconnectStep

-----------------------------------------------------------------------------
(* The monitor.                                                            *)

\* A monitor that moves without taking a connection or letting go of one.
LEMMA MonitorMoveKeepsClient ==
    ASSUME ClientInv, NEW m \in ID, NEW to, mpc' = [mpc EXCEPT ![m] = to],
           UNCHANGED <<pc, conn, client, taken, mtaken>>,
           EndedBy(m)' <=> EndedBy(m)
    PROVE  Client'
<1>1. SessionInv /\ Client
  BY DEF ClientInv
<1>2. \A a \in ID : /\ EndedBy(a)' <=> EndedBy(a)
                    /\ Owned(a)' <=> Owned(a)
  BY <1>1, SessionFacts DEF EndedBy, Owned, HoldsSlot
<1>3. \A a, d \in ID : TakenBy(d, a)' <=> TakenBy(d, a)
  BY DEF TakenBy
<1>4. QED
  BY <1>1, <1>2, <1>3 DEF Client, HeldIsOpen, OpenIsHeld, OneHolder, TakesOwn

\* From the service to the monitor of the session.
LEMMA EndKeepsClient ==
    ASSUME ClientInv, NEW m \in ID, NEW to, Watching(m), SessionCurrent(m),
           EndSession(m), mpc' = [mpc EXCEPT ![m] = to],
           client # Nil => to \in {"thrFailure", "mclose"},
           UNCHANGED <<pc, conn, taken>>
    PROVE  Client'
<1>1. SessionInv /\ Client
  BY DEF ClientInv
<1>2. client' = Nil /\ mtaken' = [mtaken EXCEPT ![m] = client]
  BY DEF EndSession
<1>3. \A n \in ID : n # m => mpc'[n] = mpc[n] /\ mtaken'[n] = mtaken[n]
  BY <1>1, <1>2, SessionFacts
<1>4. mpc'[m] = to /\ mtaken'[m] = client
  BY <1>1, <1>2, SessionFacts
<1>5. client \in {Nil, m}
  BY <1>1, CurrentIsOwn DEF Watching
<1>6. ~EndedBy(m) /\ (client = m => EndedBy(m)')
  BY <1>1, <1>4, SessionFacts DEF EndedBy, Watching
<1>7. /\ EndedBy(m)' => client = m
      /\ \A a \in ID : a # m => (EndedBy(a)' <=> EndedBy(a)) /\ client # a
  BY <1>1, <1>3, <1>4, <1>5, SessionFacts DEF EndedBy
<1>8. /\ \A a \in ID : Owned(a)' <=> Owned(a)
      /\ \A a, d \in ID : TakenBy(d, a)' <=> TakenBy(d, a)
  BY DEF Owned, HoldsSlot, TakenBy
<1>9. HeldIsOpen' /\ OpenIsHeld'
  BY <1>1, <1>2, <1>6, <1>7, <1>8, SessionFacts
     DEF Client, HeldIsOpen, OpenIsHeld
<1>10. OneHolder' /\ TakesOwn'
  BY <1>1, <1>2, <1>3, <1>4, <1>5, <1>7, <1>8, SessionFacts
     DEF Client, OneHolder, TakesOwn
<1>11. QED
  BY <1>9, <1>10 DEF Client

\* The monitor closes the connection it took.
LEMMA MonitorCloseKeepsClient ==
    ASSUME ClientInv, NEW m \in ID, CloseAfterSession(m) PROVE Client'
<1>1. SessionInv /\ Client
  BY DEF ClientInv
<1>2. /\ mpc' = [mpc EXCEPT ![m] = "done"] /\ mpc[m] = "mclose"
      /\ conn' = [conn EXCEPT ![mtaken[m]] = "closed"]
      /\ UNCHANGED <<pc, client, taken, mtaken>>
  BY DEF CloseAfterSession, MonitorGoto, lockVars
<1>3. \A n \in ID : n # m => mpc'[n] = mpc[n]
  BY <1>1, <1>2, SessionFacts
<1>4. CASE mtaken[m] = Nil
  <2>1. UNCHANGED conn /\ ~EndedBy(m) /\ ~EndedBy(m)'
    BY <1>1, <1>2, <1>4, SessionFacts DEF EndedBy
  <2>2. QED
    BY <1>2, <2>1, MonitorMoveKeepsClient
<1>5. CASE mtaken[m] = m
  <2>1. EndedBy(m) /\ mpc'[m] = "done" /\ conn'[m] = "closed"
    BY <1>1, <1>2, <1>5, SessionFacts DEF EndedBy
  <2>2. \A n \in ID : n # m => conn'[n] = conn[n]
    BY <1>1, <1>2, <1>5, SessionFacts
  <2>3. /\ client # m /\ pc[m] \in HandedOver
        /\ \A d \in ID : ~TakenBy(d, m)
    BY <1>1, <2>1 DEF Client, HeldIsOpen, OneHolder
  <2>4. /\ \A a \in ID : a # m => /\ EndedBy(a)' <=> EndedBy(a)
                                  /\ Owned(a)' <=> Owned(a)
        /\ ~EndedBy(m)'
        /\ \A a, d \in ID : TakenBy(d, a)' <=> TakenBy(d, a)
    BY <1>2, <1>3, <2>1, <2>2 DEF EndedBy, Owned, HoldsSlot, TakenBy
  <2>5. HeldIsOpen' /\ OpenIsHeld' /\ OneHolder' /\ TakesOwn'
    BY <1>1, <1>2, <2>1, <2>2, <2>3, <2>4
       DEF Client, HeldIsOpen, OpenIsHeld, OneHolder, TakesOwn, HandedOver,
       Dialled
  <2>6. QED
    BY <2>5 DEF Client
<1>6. QED
  BY <1>1, <1>4, <1>5 DEF Client, TakesOwn

\* Every step of a monitor.
LEMMA MonitorKeepsClient ==
    ASSUME ClientInv, NEW m \in ID, MonitorStep(m) PROVE Client'
<1> USE DEF MonitorGoto
<1>1. SessionInv /\ mpc \in [ID -> MonitorPCs]
  BY SessionFacts DEF ClientInv
<1>2. CASE CloseAfterSession(m)
  BY <1>2, MonitorCloseKeepsClient
<1>3. CASE (ClearActiveSession(m) /\ SessionCurrent(m))
           \/ (FailActiveSession(m) /\ MayFailSession(m))
  <2>1. /\ Watching(m) /\ SessionCurrent(m) /\ EndSession(m)
        /\ UNCHANGED <<pc, conn, taken>>
    BY <1>3 DEF ClearActiveSession, FailActiveSession, MayFailSession,
       Watching, threadVars
  <2>2. PICK to : /\ mpc' = [mpc EXCEPT ![m] = to]
                  /\ client # Nil => to \in {"thrFailure", "mclose"}
    BY <1>3 DEF ClearActiveSession, AfterClear, FailActiveSession
  <2>3. QED
    BY <2>1, <2>2, EndKeepsClient
<1>4. CASE /\ ~CloseAfterSession(m)
           /\ ~(ClearActiveSession(m) /\ SessionCurrent(m))
           /\ ~(FailActiveSession(m) /\ MayFailSession(m))
  <2>1. UNCHANGED <<pc, conn, client, taken, mtaken>>
    BY <1>4 DEF lockVars, threadVars, MonitorStep, Poll, ApplyError,
       ApplyAlive, ApplyFailed, ApplyStopped, ClearActiveSession,
       FailActiveSession, ReportSessionFailure, CloseAfterSession
  <2>2. PICK to : /\ mpc' = [mpc EXCEPT ![m] = to]
                  /\ to \in {"thrFailure", "mclose"}
                       <=> mpc[m] \in {"thrFailure", "mclose"}
    BY <1>4 DEF AfterError, AfterClear, MonitorStep, Poll, ApplyError,
       ApplyAlive, ApplyFailed, ApplyStopped, ClearActiveSession,
       FailActiveSession, ReportSessionFailure, CloseAfterSession
  <2>3. EndedBy(m)' <=> EndedBy(m)
    BY <1>1, <2>1, <2>2 DEF EndedBy
  <2>4. QED
    BY <2>1, <2>2, <2>3, MonitorMoveKeepsClient
<1>5. QED
  BY <1>2, <1>3, <1>4

-----------------------------------------------------------------------------
\* Every step of the service.
LEMMA NextKeepsClient == ClientInv /\ [Next]_vars => ClientInv'
<1> SUFFICES ASSUME ClientInv, [Next]_vars PROVE Client'
  BY NextKeepsSession DEF ClientInv
<1> USE DEF lockVars, threadVars, monitorVars
<1>1. CASE NetworkManagerCall
  <2>1. CASE SetFailure
    BY <2>1, ClientStays DEF SetFailure, ClientInv
  <2>2. ASSUME NEW id, NEW reply, NewSecrets(id, reply) PROVE Client'
    BY <2>2, ClientStays DEF NewSecrets, ClientInv
  <2>3. QED
    BY <1>1, <2>1, <2>2, ConnectKeepsClient, DisconnectKeepsClient
       DEF NetworkManagerCall
<1>2. ASSUME NEW t \in ID, ThreadStep(t) PROVE Client'
  <2>1. CASE EmitStateChanged(t)
    BY <2>1, ClientStays DEF EmitStateChanged, ClientInv
  <2>2. QED
    BY <1>2, <2>1, AttemptKeepsClient, DisconnectStepKeepsClient
       DEF ThreadStep
<1>3. ASSUME NEW m \in ID, MonitorThreadStep(m) PROVE Client'
  <2>1. CASE MonitorEmitStateChanged(m)
    BY <2>1, ClientStays DEF MonitorEmitStateChanged, ClientInv
  <2>2. QED
    BY <1>3, <2>1, MonitorKeepsClient DEF MonitorThreadStep
<1>4. CASE EngineDrops \/ UNCHANGED vars
  BY <1>4, ClientStays DEF EngineDrops, vars, ClientInv
<1>5. QED
  BY <1>1, <1>2, <1>3, <1>4 DEF Next

\* The invariant of the connections holds in every reachable state.
LEMMA ClientInvariant == Spec => []ClientInv
<1>1. Init => ClientInv
  BY InitType, InitSlot, InitSession, InitClient
     DEF ClientInv, SessionInv, SlotInv
<1>2. QED
  BY <1>1, NextKeepsClient, PTL DEF Spec

\* The holders of a connection are the four of Client.
LEMMA HeldOnce == ClientInv => ClientHeldOnce
<1> SUFFICES ASSUME ClientInv, NEW a \in ID
             PROVE  /\ conn[a] = "open" <=> Holders(a) # {}
                    /\ \A h, k \in Holders(a) : h = k
  BY DEF ClientHeldOnce
<1>1. SessionInv /\ Client
  BY DEF ClientInv
<1>2. \A h : h \in Holders(a) <=>
        \/ h = <<"attempt", a>> /\ Owned(a)
        \/ h = <<"service", a>> /\ client = a
        \/ h = <<"monitor", a>> /\ EndedBy(a)
        \/ \E d \in ID : h = <<"disconnect", d>> /\ TakenBy(d, a)
  <2>1. \A m \in ID : mtaken[m] = a => m = a
    BY <1>1, SessionFacts DEF Client, TakesOwn
  <2>2. QED
    BY <2>1 DEF Holders, Owned, EndedBy, TakenBy, Holding
<1>3. conn[a] = "open" <=> Holders(a) # {}
  BY <1>1, <1>2 DEF Client, OpenIsHeld, HeldIsOpen, Owned
<1>4. Owned(a) => client # a /\ ~EndedBy(a) /\ \A d \in ID : ~TakenBy(d, a)
  BY <1>1 DEF Client, HeldIsOpen, Owned, HoldsSlot, HandedOver, AttemptPCs
<1>5. ASSUME NEW h \in Holders(a), NEW k \in Holders(a) PROVE h = k
  BY <1>1, <1>2, <1>4, <1>5 DEF Client, OneHolder
<1>6. QED
  BY <1>3, <1>5

(* Whichever of the attempt, Disconnect and the monitor ends a session,    *)
(* its gRPC connection has exactly one holder while it is open and none    *)
(* once it is closed: it is closed once, and not used afterwards           *)
(* (completeActivation, Disconnect, clearActiveSession).                   *)
THEOREM ClientCorrect == Spec => []ClientHeldOnce
BY ClientInvariant, HeldOnce, PTL

=============================================================================
