-------------------------- MODULE ServiceSlotProofs --------------------------
(***************************************************************************)
(* PluginService keeps its types, its activation slot is exclusive, and it *)
(* implements ActivationSlot, for every bound on the identities, every     *)
(* failure threshold and every set of requests.                            *)
(***************************************************************************)
EXTENDS PluginService, TLAPS

(* ServiceTypeOK bounds a monitor's failure counter by the threshold.  That is    *)
(* inductive only with the fact that a monitor that polls is below it.     *)
BelowThreshold ==
    \A m \in ID : mpc[m] \in {"poll", "apply"} => mfail[m] < FailureThreshold

TypeInv == ServiceTypeOK /\ BelowThreshold

-----------------------------------------------------------------------------
(* Facts about the operators the actions share.                            *)

\* No pending prompt is a value of the prompt field.
LEMMA NoPromptType == NoPrompt \in PromptType
BY DEF NoPrompt, PromptType, Nil

\* Registering a prompt leaves the field in its type.
LEMMA RegisterType ==
    ASSUME prompt \in PromptType, NEW a \in ID,
           NEW kind \in {"setup-key", "sso"}, RegisterPrompt(a, kind)
    PROVE  prompt' \in PromptType
BY DEF RegisterPrompt, PromptType

\* clearPrompt removes the prompt or leaves it.
LEMMA ClearType ==
    ASSUME prompt \in PromptType, NEW a \in ID, ClearPrompt(a)
    PROVE  prompt' \in PromptType
BY NoPromptType DEF ClearPrompt

\* A cancel function cancels a context, or does nothing when it is nil.
LEMMA CancelledType ==
    ASSUME NEW ctxs \in [ID -> BOOLEAN], NEW owner \in ID \cup {Nil}
    PROVE  Cancelled(ctxs, owner) \in [ID -> BOOLEAN]
BY DEF Cancelled

\* A change of state owes a signal with that state, or none.
LEMMA OwedType ==
    ASSUME NEW s \in States PROVE Owed(s) \in States \cup {"none"}
BY DEF Owed

\* The initial values are of their types.
LEMMA InitType == Init => TypeInv
<1> SUFFICES ASSUME Init PROVE TypeInv
  OBVIOUS
<1>1. LockTypeOK
  <2>1. activationID \in 0..MaxID /\ sessionID \in Nat
    BY MaxIDAssumption DEF Init
  <2>2. QED
    BY <2>1, NoPromptType DEF Init, LockTypeOK, Nil
<1>2. ThreadTypeOK
  <2>1. NoRequest \in RequestType
    BY DEF NoRequest, RequestType, AuthModes
  <2>2. QED
    BY <2>1 DEF Init, ThreadTypeOK, Nil
<1>3. MonitorTypeOK
  BY ThresholdAssumption
     DEF Init, MonitorTypeOK, MonitorPCs, StatusResults, Nil
<1>4. OutsideTypeOK
  BY DEF Init, OutsideTypeOK, States, Nil
<1>5. BelowThreshold
  BY DEF Init, BelowThreshold
<1>6. QED
  BY <1>1, <1>2, <1>3, <1>4, <1>5 DEF TypeInv, ServiceTypeOK

\* A daemon call of an attempt, answered or failed.
LEMMA CallKeepsTypes ==
    ASSUME TypeInv, NEW a \in ID, NEW from, NEW to \in AttemptPCs,
           Call(a, from, to) \/ (to = "fail" /\ FailFrom(a, from))
    PROVE  TypeInv'
BY DEF TypeInv, ServiceTypeOK, LockTypeOK, ThreadTypeOK, MonitorTypeOK, OutsideTypeOK,
       BelowThreshold, Call, FailFrom, Goto, AttemptPCs,
       lockVars, threadVars, monitorVars, daemonVars, signalVars

-----------------------------------------------------------------------------
(* Every step of an activation goroutine.                                  *)

\* Every step of an activation goroutine.
LEMMA AttemptKeepsTypes ==
    ASSUME TypeInv, NEW a \in ID, AttemptStep(a) PROVE TypeInv'
<1> USE DEF TypeInv, ServiceTypeOK, LockTypeOK, ThreadTypeOK, MonitorTypeOK,
        OutsideTypeOK, BelowThreshold, AttemptPCs,
        lockVars, threadVars, monitorVars, daemonVars, signalVars
<1>1. CASE SetStarting(a)
  BY <1>1, OwedType DEF SetStarting, Goto, SetState, States
<1>2. CASE Dial(a)
  BY <1>2 DEF Dial, FailFrom, Goto
<1>3. CASE PrepareProfile(a)
  BY <1>3, CallKeepsTypes DEF PrepareProfile
<1>4. CASE Authenticate(a)
  BY <1>4 DEF Authenticate, Goto
<1>5. CASE AskKey(a)
  BY <1>5, RegisterType DEF AskKey, Goto
<1>6. CASE AwaitKey(a)
  BY <1>6 DEF AwaitKey, FailFrom, Goto
<1>7. CASE Login(a)
  BY <1>7, CallKeepsTypes DEF Login
<1>8. CASE AskSSO(a)
  BY <1>8, RegisterType DEF AskSSO, Goto
<1>9. CASE AwaitSSO(a)
  BY <1>9, CallKeepsTypes DEF AwaitSSO
<1>10. CASE Configure(a)
  BY <1>10, CallKeepsTypes DEF Configure
<1>11. CASE Up(a)
  BY <1>11 DEF Up, FailFrom, Goto
<1>12. CASE UpReturns(a)
  <2>1. CASE FailFrom(a, "upWait")
    BY <2>1 DEF FailFrom, Goto
  <2>2. CASE ~FailFrom(a, "upWait")
    BY <1>12, <2>2 DEF UpReturns, Goto
  <2>3. QED
    BY <2>1, <2>2
<1>13. CASE WaitForReady(a)
  BY <1>13, CallKeepsTypes DEF WaitForReady
<1>14. CASE EmitConfig(a)
  BY <1>14 DEF EmitConfig, FailFrom, Goto
<1>15. CASE CompleteActivation(a)
  <2>1. CASE MayComplete(a)
    <3>1. ThreadTypeOK' /\ OutsideTypeOK'
      BY <1>15, <2>1 DEF CompleteActivation, Goto
    <3>2. /\ StartMonitor(a) /\ prompt' = NoPrompt /\ client' = a
          /\ activating' = FALSE /\ activationCancel' = Nil
          /\ sessionID' = sessionID + 1
          /\ UNCHANGED <<activationID, mpend, mres, mtaken>>
      BY <1>15, <2>1 DEF CompleteActivation
    <3>3. sessionID + 1 \in Nat
      OBVIOUS
    <3>4. LockTypeOK'
      BY <3>2, <3>3, NoPromptType DEF StartMonitor, Nil
    <3>5. mcancelled' \in [ID -> BOOLEAN]
      BY <3>2, CancelledType DEF StartMonitor
    <3>6. 0 \in 0..FailureThreshold /\ 0 < FailureThreshold
      BY ThresholdAssumption
    <3>7. mpc' \in [ID -> MonitorPCs]
      BY <3>2 DEF StartMonitor, MonitorPCs
    <3>8. mfail' \in [ID -> 0..FailureThreshold] /\ BelowThreshold'
      BY <3>2, <3>6 DEF StartMonitor
    <3>9. msession' \in [ID -> Nat]
      BY <3>2, <3>3 DEF StartMonitor
    <3>10. QED
      BY <3>1, <3>2, <3>4, <3>5, <3>7, <3>8, <3>9
  <2>2. CASE ~MayComplete(a)
    BY <1>15, <2>2 DEF CompleteActivation, Goto
  <2>3. QED
    BY <2>1, <2>2
<1>16. CASE SetStarted(a)
  BY <1>16, OwedType DEF SetStarted, Goto, SetState, States
<1>17. CASE WrapUp(a)
  BY <1>17, ClearType DEF WrapUp, Goto
<1>18. CASE ReportFailure(a)
  BY <1>18 DEF ReportFailure, Goto
<1>19. CASE SetStopped(a)
  BY <1>19, OwedType DEF SetStopped, Goto, SetState, States
<1>20. CASE Unwind(a)
  BY <1>20, ClearType DEF Unwind, Goto
<1>21. CASE DownAfterFailure(a)
  BY <1>21 DEF DownAfterFailure, Down, Goto
<1>22. CASE Release(a)
  BY <1>22, NoPromptType DEF Release, Goto, Nil
<1>23. CASE CloseAfterFailure(a)
  BY <1>23 DEF CloseAfterFailure, Goto
<1>24. QED
  BY <1>1, <1>2, <1>3, <1>4, <1>5, <1>6, <1>7, <1>8, <1>9, <1>10, <1>11,
     <1>12, <1>13, <1>14, <1>15, <1>16, <1>17, <1>18, <1>19, <1>20, <1>21,
     <1>22, <1>23 DEF AttemptStep

-----------------------------------------------------------------------------
(* Every step of a Disconnect.                                             *)

\* Every step of a Disconnect.
LEMMA DisconnectKeepsTypes ==
    ASSUME TypeInv, NEW d \in ID, DisconnectStep(d) PROVE TypeInv'
<1> USE DEF TypeInv, ServiceTypeOK, LockTypeOK, ThreadTypeOK, MonitorTypeOK,
        OutsideTypeOK, BelowThreshold, DisconnectPCs,
        lockVars, threadVars, monitorVars, daemonVars, signalVars
<1>1. CASE SetStopping(d)
  BY <1>1, OwedType DEF SetStopping, Goto, SetState, DownNeeded, States
<1>2. CASE DownAtDisconnect(d)
  BY <1>2 DEF DownAtDisconnect, Down, Goto, Nil
<1>3. CASE CloseAtDisconnect(d)
  <2>1. failed' \subseteq ID
    BY <1>3 DEF CloseAtDisconnect
  <2>2. conn' \in [ID -> {"none", "open", "closed"}]
    BY <1>3 DEF CloseAtDisconnect
  <2>3. QED
    BY <1>3, <2>1, <2>2 DEF CloseAtDisconnect, Goto
<1>4. CASE FinishDisconnect(d)
  BY <1>4, OwedType DEF FinishDisconnect, Goto, SetState, States
<1>5. QED
  BY <1>1, <1>2, <1>3, <1>4 DEF DisconnectStep

-----------------------------------------------------------------------------
(* Every step of a monitor.                                                *)

\* What a monitor that ends the session writes.
LEMMA EndSessionType ==
    ASSUME LockTypeOK, MonitorTypeOK, NEW m \in ID, EndSession(m)
    PROVE  /\ mcancelled' \in [ID -> BOOLEAN]
           /\ monitorCancel' \in ID \cup {Nil} /\ client' \in ID \cup {Nil}
           /\ mtaken' \in [ID -> ID \cup {Nil}]
BY CancelledType DEF EndSession, LockTypeOK, MonitorTypeOK

\* Every step of a monitor; one that polls again is below the threshold.
LEMMA MonitorKeepsTypes ==
    ASSUME TypeInv, NEW m \in ID, MonitorStep(m) PROVE TypeInv'
<1> USE DEF TypeInv, ServiceTypeOK, LockTypeOK, ThreadTypeOK, MonitorTypeOK,
        OutsideTypeOK, BelowThreshold, MonitorPCs,
        lockVars, threadVars, monitorVars, daemonVars, signalVars
<1>1. CASE Poll(m)
  BY <1>1 DEF Poll, MonitorGoto, PossibleResults, StatusResults
<1>2. CASE ApplyError(m)
  BY <1>2, ThresholdAssumption DEF ApplyError, AfterError, MonitorGoto
<1>3. CASE ApplyAlive(m)
  BY <1>3, ThresholdAssumption, OwedType
     DEF ApplyAlive, MonitorGoto, MonitorSetState, FailuresReset, States
<1>4. CASE ApplyFailed(m)
  BY <1>4 DEF ApplyFailed, MonitorGoto, StatusResults
<1>5. CASE ApplyStopped(m)
  BY <1>5, OwedType DEF ApplyStopped, MonitorGoto, MonitorSetState, States
<1>6. CASE ClearActiveSession(m)
  <2>1. mpc' \in [ID -> MonitorPCs] /\ BelowThreshold'
    BY <1>6 DEF ClearActiveSession, AfterClear, MonitorGoto
  <2>2. CASE SessionCurrent(m)
    <3>1. EndSession(m)
      BY <1>6, <2>2 DEF ClearActiveSession
    <3>2. QED
      BY <1>6, <2>1, <3>1, EndSessionType DEF ClearActiveSession
  <2>3. CASE ~SessionCurrent(m)
    BY <1>6, <2>1, <2>3 DEF ClearActiveSession
  <2>4. QED
    BY <2>2, <2>3
<1>7. CASE FailActiveSession(m)
  <2>1. mpc' \in [ID -> MonitorPCs] /\ BelowThreshold'
    BY <1>7 DEF FailActiveSession, MonitorGoto
  <2>2. CASE MayFailSession(m)
    <3>1. EndSession(m) /\ MonitorSetState(m, "stopped")
      BY <1>7, <2>2 DEF FailActiveSession
    <3>2. state' \in States /\ mpend' \in [ID -> States \cup {"none"}]
      BY <3>1, OwedType DEF MonitorSetState, States
    <3>3. QED
      BY <1>7, <2>1, <2>2, <3>1, <3>2, EndSessionType DEF FailActiveSession
  <2>3. CASE ~MayFailSession(m)
    BY <1>7, <2>1, <2>3 DEF FailActiveSession
  <2>4. QED
    BY <2>2, <2>3
<1>8. CASE ReportSessionFailure(m)
  BY <1>8 DEF ReportSessionFailure
<1>9. CASE CloseAfterSession(m)
  <2>1. conn' \in [ID -> {"none", "open", "closed"}]
    BY <1>9 DEF CloseAfterSession
  <2>2. QED
    BY <1>9, <2>1 DEF CloseAfterSession, MonitorGoto
<1>10. QED
  BY <1>1, <1>2, <1>3, <1>4, <1>5, <1>6, <1>7, <1>8, <1>9 DEF MonitorStep

-----------------------------------------------------------------------------
(* The calls of NetworkManager, the signals and the daemon.                *)

\* Connect takes the next identity and one of the requests.
LEMMA ConnectKeepsTypes ==
    ASSUME TypeInv, NEW a \in ID, NEW r \in Requests, Connect(a, r)
    PROVE  TypeInv'
<1>1. r \in RequestType
  BY RequestsAssumption
<1>2. activationID' \in 0..MaxID
  BY MaxIDAssumption DEF Connect, ID
<1>3. LockTypeOK'
  BY <1>2, NoPromptType DEF Connect, TypeInv, ServiceTypeOK, LockTypeOK
<1>4. ThreadTypeOK'
  BY <1>1 DEF Connect, TypeInv, ServiceTypeOK, ThreadTypeOK, AttemptPCs
<1>5. QED
  BY <1>3, <1>4 DEF Connect, TypeInv, ServiceTypeOK, MonitorTypeOK, OutsideTypeOK,
     BelowThreshold, monitorVars, daemonVars, signalVars

\* The locked section of Disconnect.
LEMMA DisconnectCallKeepsTypes ==
    ASSUME TypeInv, NEW d \in ID, Disconnect(d) PROVE TypeInv'
<1>1. activationID' \in 0..MaxID /\ sessionID' \in Nat
  BY MaxIDAssumption DEF Disconnect, ID, TypeInv, ServiceTypeOK, LockTypeOK
<1>2. /\ cancelled' \in [ID -> BOOLEAN] /\ mcancelled' \in [ID -> BOOLEAN]
      /\ taken' \in [ID -> ID \cup {Nil}]
      /\ client' \in ID \cup {Nil} /\ monitorCancel' \in ID \cup {Nil}
  BY CancelledType DEF Disconnect, CancelActivation, CancelMonitor, GrabClient,
     TypeInv, ServiceTypeOK, LockTypeOK, ThreadTypeOK, MonitorTypeOK
<1>3. LockTypeOK'
  BY <1>1, <1>2, NoPromptType DEF Disconnect, TypeInv, ServiceTypeOK, LockTypeOK
<1>4. ThreadTypeOK'
  BY <1>2 DEF Disconnect, TypeInv, ServiceTypeOK, ThreadTypeOK, DisconnectPCs
<1>5. MonitorTypeOK' /\ OutsideTypeOK' /\ BelowThreshold'
  BY <1>2 DEF Disconnect, TypeInv, ServiceTypeOK, MonitorTypeOK, OutsideTypeOK,
     BelowThreshold, daemonVars, signalVars
<1>6. QED
  BY <1>3, <1>4, <1>5 DEF TypeInv, ServiceTypeOK

\* SetFailure cancels at most the current attempt.
LEMMA SetFailureKeepsTypes == ASSUME TypeInv, SetFailure PROVE TypeInv'
<1>1. cancelled' \in [ID -> BOOLEAN]
  BY CancelledType DEF SetFailure, CancelActivation, TypeInv, ServiceTypeOK,
     LockTypeOK, ThreadTypeOK
<1>2. QED
  BY <1>1, NoPromptType DEF SetFailure, TypeInv, ServiceTypeOK, LockTypeOK,
     ThreadTypeOK, MonitorTypeOK, OutsideTypeOK, BelowThreshold, monitorVars,
     daemonVars, signalVars

\* NewSecrets delivers a key, cancels, or changes nothing.
LEMMA NewSecretsKeepsTypes ==
    ASSUME TypeInv, NEW id, NEW reply, NewSecrets(id, reply) PROVE TypeInv'
<1>1. cancelled' \in [ID -> BOOLEAN]
  BY CancelledType DEF NewSecrets, DeliverKey, AnswerSSO, CancelActivation,
     TypeInv, ServiceTypeOK, LockTypeOK, ThreadTypeOK
<1>2. delivered' \in [ID -> {"none", "blank", "key"}]
  BY DEF NewSecrets, DeliverKey, AnswerSSO, TypeInv, ServiceTypeOK, ThreadTypeOK
<1>3. QED
  BY <1>1, <1>2, NoPromptType DEF NewSecrets, TypeInv, ServiceTypeOK, LockTypeOK,
     ThreadTypeOK, MonitorTypeOK, OutsideTypeOK, BelowThreshold, monitorVars,
     daemonVars, signalVars

\* A goroutine emits the StateChanged it owes.
LEMMA SignalKeepsTypes ==
    ASSUME TypeInv, NEW t \in ID,
           EmitStateChanged(t) \/ MonitorEmitStateChanged(t)
    PROVE  TypeInv'
BY DEF EmitStateChanged, MonitorEmitStateChanged, TypeInv, ServiceTypeOK, LockTypeOK,
   ThreadTypeOK, MonitorTypeOK, OutsideTypeOK, BelowThreshold, lockVars,
   threadVars, monitorVars, daemonVars

\* The engine stops by itself.
LEMMA DropKeepsTypes == ASSUME TypeInv, EngineDrops PROVE TypeInv'
BY DEF EngineDrops, TypeInv, ServiceTypeOK, LockTypeOK, ThreadTypeOK, MonitorTypeOK,
   OutsideTypeOK, BelowThreshold, lockVars, threadVars, monitorVars, signalVars

\* A step that changes nothing.
LEMMA StutterKeepsTypes == ASSUME TypeInv, UNCHANGED vars PROVE TypeInv'
BY DEF vars, TypeInv, ServiceTypeOK, LockTypeOK, ThreadTypeOK, MonitorTypeOK,
   OutsideTypeOK, BelowThreshold, lockVars, threadVars, monitorVars,
   daemonVars, signalVars

-----------------------------------------------------------------------------
\* Every step of the service keeps the types.
LEMMA NextKeepsTypes == TypeInv /\ [Next]_vars => TypeInv'
<1> SUFFICES ASSUME TypeInv, [Next]_vars PROVE TypeInv'
  OBVIOUS
<1>1. CASE NetworkManagerCall
  BY <1>1, ConnectKeepsTypes, DisconnectCallKeepsTypes, SetFailureKeepsTypes,
     NewSecretsKeepsTypes DEF NetworkManagerCall
<1>2. ASSUME NEW t \in ID, ThreadStep(t) PROVE TypeInv'
  BY <1>2, AttemptKeepsTypes, DisconnectKeepsTypes, SignalKeepsTypes
     DEF ThreadStep
<1>3. ASSUME NEW m \in ID, MonitorThreadStep(m) PROVE TypeInv'
  BY <1>3, MonitorKeepsTypes, SignalKeepsTypes DEF MonitorThreadStep
<1>4. CASE EngineDrops
  BY <1>4, DropKeepsTypes
<1>5. CASE UNCHANGED vars
  BY <1>5, StutterKeepsTypes
<1>6. QED
  BY <1>1, <1>2, <1>3, <1>4, <1>5 DEF Next

\* The strengthened type invariant holds in every reachable state.
LEMMA TypesInvariant == Spec => []TypeInv
BY InitType, NextKeepsTypes, PTL DEF Spec

(* Every variable keeps its type; in particular a monitor gives its        *)
(* session up after FailureThreshold failed polls in a row and never       *)
(* counts further (monitorStatus, nextConsecutiveStatusFailures), and      *)
(* every identity, client and cancel function belongs to a goroutine that  *)
(* activationID has numbered.                                              *)
THEOREM TypeCorrect == Spec => []ServiceTypeOK
<1>1. TypeInv => ServiceTypeOK
  BY DEF TypeInv
<1>2. QED
  BY <1>1, TypesInvariant, PTL

-----------------------------------------------------------------------------
(* The slot.                                                               *)

SlotPCs == AttemptPCs \ {"announce", "wrapUp", "close"}

(* An identity that has not been given out yet has no goroutine; without   *)
(* this a Connect could overwrite a goroutine that holds the slot.         *)
Unused == \A t \in ID : t > activationID => pc[t] = "idle"

SlotInv == TypeInv /\ SlotExclusive /\ Unused

(* What the invariant says of, and all it depends on besides the types.    *)
slotFields == <<activating, activationCancel, client, activationID>>

-----------------------------------------------------------------------------
\* The slot is free before the first call.
LEMMA InitSlot == Init => SlotExclusive /\ Unused
BY DEF Init, SlotExclusive, Unused, HoldsSlot, AttemptPCs, Nil, ID

\* A goroutine that stays on its side of the slot's boundary.
LEMMA GotoKeepsSlot ==
    ASSUME SlotInv, NEW t \in ID, NEW from, NEW to, Goto(t, from, to),
           from # "idle", from \in SlotPCs <=> to \in SlotPCs,
           UNCHANGED slotFields
    PROVE  SlotExclusive' /\ Unused'
BY DEF SlotInv, TypeInv, ServiceTypeOK, ThreadTypeOK, SlotExclusive, Unused,
   HoldsSlot, SlotPCs, Goto, slotFields

\* A step that moves no goroutine, and at most ends the session.
LEMMA OthersKeepSlot ==
    ASSUME SlotInv,
           UNCHANGED <<pc, activating, activationCancel, activationID>>,
           client' = client \/ client' = Nil
    PROVE  SlotExclusive' /\ Unused'
BY DEF SlotInv, SlotExclusive, Unused, HoldsSlot

\* A daemon call of an attempt, successful or not, leaves the attempt in the
\* slot.
LEMMA CallKeepsSlot ==
    ASSUME SlotInv, NEW a \in ID, NEW from \in SlotPCs, NEW to \in SlotPCs,
           Call(a, from, to) \/ (to = "fail" /\ FailFrom(a, from))
    PROVE  SlotExclusive' /\ Unused'
<1>1. Goto(a, from, to) /\ UNCHANGED slotFields
  BY DEF Call, FailFrom, slotFields, lockVars
<1>2. from # "idle"
  BY DEF SlotPCs, AttemptPCs
<1>3. QED
  BY <1>1, <1>2, GotoKeepsSlot

-----------------------------------------------------------------------------
(* Every step of an activation goroutine.  Two of them cross the boundary: *)
(* completeActivation and finishFailedActivation.                          *)

\* Every step of an activation goroutine keeps the slot exclusive.
LEMMA AttemptKeepsSlot ==
    ASSUME SlotInv, NEW a \in ID, AttemptStep(a)
    PROVE  SlotExclusive' /\ Unused'
<1> USE DEF SlotPCs, AttemptPCs, slotFields, lockVars
<1>1. CASE SetStarting(a)
  BY <1>1, GotoKeepsSlot DEF SetStarting
<1>2. CASE Dial(a)
  BY <1>2, GotoKeepsSlot DEF FailFrom, Dial
<1>3. CASE PrepareProfile(a)
  BY <1>3, CallKeepsSlot DEF PrepareProfile
<1>4. CASE Authenticate(a)
  BY <1>4, GotoKeepsSlot DEF Authenticate
<1>5. CASE AskKey(a)
  BY <1>5, GotoKeepsSlot DEF AskKey
<1>6. CASE AwaitKey(a)
  BY <1>6, GotoKeepsSlot DEF FailFrom, AwaitKey
<1>7. CASE Login(a)
  BY <1>7, CallKeepsSlot DEF Login
<1>8. CASE AskSSO(a)
  BY <1>8, GotoKeepsSlot DEF AskSSO
<1>9. CASE AwaitSSO(a)
  BY <1>9, CallKeepsSlot DEF AwaitSSO
<1>10. CASE Configure(a)
  BY <1>10, CallKeepsSlot DEF Configure
<1>11. CASE Up(a)
  BY <1>11, GotoKeepsSlot DEF FailFrom, Up
<1>12. CASE UpReturns(a)
  BY <1>12, GotoKeepsSlot DEF FailFrom, UpReturns
<1>13. CASE WaitForReady(a)
  BY <1>13, CallKeepsSlot DEF WaitForReady
<1>14. CASE EmitConfig(a)
  BY <1>14, GotoKeepsSlot DEF FailFrom, EmitConfig
<1>15. CASE CompleteActivation(a)
  <2>1. CASE MayComplete(a)
    <3>1. a # Nil /\ HoldsSlot(a) /\ activating /\ activationCancel = a
      BY <1>15, <2>1 DEF CompleteActivation, Goto, HoldsSlot, SlotInv,
         SlotExclusive, ID, Nil
    <3>2. /\ activating' = FALSE /\ activationCancel' = Nil
          /\ activationID' = activationID
          /\ pc[a] # "idle" /\ pc' = [pc EXCEPT ![a] = "announce"]
      BY <1>15, <2>1 DEF CompleteActivation, Goto
    <3>3. \A b \in ID : ~HoldsSlot(b)'
      BY <3>1, <3>2 DEF HoldsSlot, SlotInv, SlotExclusive, TypeInv, ServiceTypeOK,
         ThreadTypeOK
    <3>4. QED
      BY <3>2, <3>3 DEF SlotInv, SlotExclusive, Unused, TypeInv, ServiceTypeOK,
         ThreadTypeOK
  <2>2. CASE ~MayComplete(a)
    BY <1>15, <2>2, GotoKeepsSlot DEF CompleteActivation
  <2>3. QED
    BY <2>1, <2>2
<1>16. CASE SetStarted(a)
  BY <1>16, GotoKeepsSlot DEF SetStarted
<1>17. CASE WrapUp(a)
  BY <1>17, GotoKeepsSlot DEF WrapUp
<1>18. CASE ReportFailure(a)
  BY <1>18, GotoKeepsSlot DEF ReportFailure
<1>19. CASE SetStopped(a)
  BY <1>19, GotoKeepsSlot DEF SetStopped
<1>20. CASE Unwind(a)
  BY <1>20, GotoKeepsSlot DEF Unwind
<1>21. CASE DownAfterFailure(a)
  BY <1>21, GotoKeepsSlot DEF Down, DownAfterFailure
<1>22. CASE Release(a)
  <2>1. HoldsSlot(a) /\ activationCancel = a
    BY <1>22 DEF Release, Goto, HoldsSlot, SlotInv, SlotExclusive
  <2>2. /\ activating' = FALSE /\ activationCancel' = Nil
        /\ activationID' = activationID /\ pc[a] # "idle"
        /\ \E to \in {"close", "done"} : pc' = [pc EXCEPT ![a] = to]
    BY <1>22 DEF Release, Goto
  <2>3. \A b \in ID : ~HoldsSlot(b)'
    BY <2>1, <2>2 DEF HoldsSlot, SlotInv, SlotExclusive, TypeInv, ServiceTypeOK,
       ThreadTypeOK
  <2>4. QED
    BY <2>2, <2>3 DEF SlotInv, SlotExclusive, Unused, TypeInv, ServiceTypeOK,
       ThreadTypeOK
<1>23. CASE CloseAfterFailure(a)
  BY <1>23, GotoKeepsSlot DEF CloseAfterFailure
<1>24. QED
  BY <1>1, <1>2, <1>3, <1>4, <1>5, <1>6, <1>7, <1>8, <1>9, <1>10, <1>11,
     <1>12, <1>13, <1>14, <1>15, <1>16, <1>17, <1>18, <1>19, <1>20, <1>21,
     <1>22, <1>23 DEF AttemptStep

-----------------------------------------------------------------------------
(* Every other step.                                                       *)

\* What a Disconnect does after its locked section does not touch the slot.
LEMMA DisconnectKeepsSlot ==
    ASSUME SlotInv, NEW d \in ID, DisconnectStep(d)
    PROVE  SlotExclusive' /\ Unused'
<1> USE DEF SlotPCs, AttemptPCs, slotFields, lockVars
<1>1. CASE SetStopping(d)
  BY <1>1, GotoKeepsSlot DEF SetStopping, DownNeeded
<1>2. CASE DownAtDisconnect(d)
  BY <1>2, GotoKeepsSlot DEF DownAtDisconnect, Down
<1>3. CASE CloseAtDisconnect(d)
  BY <1>3, GotoKeepsSlot DEF CloseAtDisconnect
<1>4. CASE FinishDisconnect(d)
  BY <1>4, GotoKeepsSlot DEF FinishDisconnect
<1>5. QED
  BY <1>1, <1>2, <1>3, <1>4 DEF DisconnectStep

\* A monitor touches none of the slot's fields but the client.
LEMMA MonitorSlotFields ==
    ASSUME NEW m \in ID, MonitorStep(m)
    PROVE  /\ UNCHANGED <<pc, activating, activationCancel, activationID>>
           /\ client' = client \/ client' = Nil
BY DEF MonitorStep, Poll, ApplyError, ApplyAlive, ApplyFailed, ApplyStopped,
   ClearActiveSession, FailActiveSession, ReportSessionFailure,
   CloseAfterSession, EndSession, lockVars

\* Connect reserves the slot only when it is free.
LEMMA ConnectKeepsSlot ==
    ASSUME SlotInv, NEW a \in ID, NEW r \in Requests, Connect(a, r)
    PROVE  SlotExclusive' /\ Unused'
<1>1. a # Nil /\ activationID \in Nat /\ a = activationID + 1
  BY MaxIDAssumption DEF Connect, NextID, SlotInv, TypeInv, ServiceTypeOK, LockTypeOK,
     ID, Nil
<1>2. \A b \in ID : ~HoldsSlot(b)
  BY DEF Connect, SlotFree, SlotInv, SlotExclusive
<1>3. /\ pc' = [pc EXCEPT ![a] = "reserved"] /\ activating'
      /\ activationCancel' = a /\ activationID' = a /\ client' = Nil
  BY DEF Connect, SlotFree
<1>4. SlotExclusive'
  BY <1>1, <1>2, <1>3 DEF SlotExclusive, HoldsSlot, SlotInv, TypeInv, ServiceTypeOK,
     ThreadTypeOK, AttemptPCs
<1>5. Unused'
  BY <1>1, <1>3 DEF Unused, SlotInv, TypeInv, ServiceTypeOK, ThreadTypeOK, ID
<1>6. QED
  BY <1>4, <1>5

\* Disconnect's locked section ends a session, and leaves an attempt its slot.
LEMMA DisconnectCallKeepsSlot ==
    ASSUME SlotInv, NEW d \in ID, Disconnect(d)
    PROVE  SlotExclusive' /\ Unused'
<1>1. activationID \in Nat /\ d = activationID + 1 /\ pc[d] = "idle"
  BY MaxIDAssumption DEF Disconnect, NextID, SlotInv, TypeInv, ServiceTypeOK,
     LockTypeOK, Unused, ID
<1>2. /\ pc' = [pc EXCEPT ![d] = "disStopping"] /\ activationID' = d
      /\ UNCHANGED <<activating, activationCancel>> /\ client' = Nil
  BY DEF Disconnect, GrabClient
<1>3. SlotExclusive'
  BY <1>1, <1>2 DEF SlotExclusive, HoldsSlot, SlotInv, TypeInv, ServiceTypeOK,
     ThreadTypeOK, AttemptPCs
<1>4. Unused'
  BY <1>1, <1>2 DEF Unused, SlotInv, TypeInv, ServiceTypeOK, ThreadTypeOK, ID
<1>5. QED
  BY <1>3, <1>4

\* Every step of the service keeps the slot invariant.
LEMMA NextKeepsSlot == SlotInv /\ [Next]_vars => SlotInv'
<1> SUFFICES ASSUME SlotInv, [Next]_vars PROVE SlotExclusive' /\ Unused'
  BY NextKeepsTypes DEF SlotInv
<1> USE DEF lockVars
<1>1. CASE NetworkManagerCall
  <2>1. CASE SetFailure
    BY <2>1, OthersKeepSlot DEF SetFailure
  <2>2. ASSUME NEW id, NEW reply, NewSecrets(id, reply)
        PROVE  SlotExclusive' /\ Unused'
    BY <2>2, OthersKeepSlot DEF NewSecrets
  <2>3. QED
    BY <1>1, <2>1, <2>2, ConnectKeepsSlot, DisconnectCallKeepsSlot
       DEF NetworkManagerCall
<1>2. ASSUME NEW t \in ID, ThreadStep(t) PROVE SlotExclusive' /\ Unused'
  <2>1. CASE EmitStateChanged(t)
    BY <2>1, OthersKeepSlot DEF EmitStateChanged
  <2>2. QED
    BY <1>2, <2>1, AttemptKeepsSlot, DisconnectKeepsSlot DEF ThreadStep
<1>3. ASSUME NEW m \in ID, MonitorThreadStep(m)
      PROVE  SlotExclusive' /\ Unused'
  <2>1. CASE MonitorEmitStateChanged(m)
    BY <2>1, OthersKeepSlot DEF MonitorEmitStateChanged
  <2>2. CASE MonitorStep(m)
    BY <2>2, MonitorSlotFields, OthersKeepSlot
  <2>3. QED
    BY <1>3, <2>1, <2>2 DEF MonitorThreadStep
<1>4. CASE EngineDrops
  BY <1>4, OthersKeepSlot DEF EngineDrops
<1>5. CASE UNCHANGED vars
  BY <1>5, OthersKeepSlot DEF vars
<1>6. QED
  BY <1>1, <1>2, <1>3, <1>4, <1>5 DEF Next

\* The slot invariant holds in every reachable state.
LEMMA SlotInvariant == Spec => []SlotInv
<1>1. Init => SlotInv
  BY InitType, InitSlot DEF SlotInv
<1>2. QED
  BY <1>1, NextKeepsSlot, PTL DEF Spec

(* However calls, failures and cancellations interleave, at most one       *)
(* activation is in flight, it is the one Disconnect and SetFailure        *)
(* cancel, and none is in flight beside an active session                  *)
(* (reserveActivation, completeActivation, finishFailedActivation).        *)
THEOREM SlotCorrect == Spec => []SlotExclusive
<1>1. SlotInv => SlotExclusive
  BY DEF SlotInv
<1>2. QED
  BY <1>1, SlotInvariant, PTL

-----------------------------------------------------------------------------
(* The refinement of ActivationSlot.                                       *)

\* The service starts where ActivationSlot does.
LEMMA InitRefines == Init => Slot!Init
BY DEF Init, Slot!Init, Nil

\* A step that leaves the slot's fields alone is a stutter of ActivationSlot.
LEMMA SameFields ==
    ASSUME UNCHANGED slotFields PROVE UNCHANGED Slot!slotVars
BY DEF slotFields, Slot!slotVars

\* A session that is ended gives the slot back.
LEMMA SessionEnds ==
    ASSUME SlotInv, client # Nil, client' = Nil,
           UNCHANGED <<activating, activationCancel, activationID>>
    PROVE  Slot!GiveBack
BY DEF Slot!GiveBack, SlotInv, SlotExclusive, Nil

\* Only two steps of an attempt touch the slot.
LEMMA QuietAttemptSteps ==
    ASSUME NEW a \in ID, AttemptStep(a), ~CompleteActivation(a), ~Release(a)
    PROVE  UNCHANGED slotFields
BY DEF AttemptStep, SetStarting, Dial, PrepareProfile, Authenticate, AskKey,
   AwaitKey, Login, AskSSO, AwaitSSO, Configure, Up, UpReturns, WaitForReady,
   EmitConfig, SetStarted, WrapUp, ReportFailure, SetStopped, Unwind,
   DownAfterFailure, CloseAfterFailure, Call, FailFrom, Down, slotFields,
   lockVars

\* completeActivation activates the slot, or finds that it may not.
LEMMA CompleteRefines ==
    ASSUME SlotInv, NEW a \in ID, CompleteActivation(a)
    PROVE  Slot!Activate \/ UNCHANGED Slot!slotVars
<1>1. CASE MayComplete(a)
  <2>1. /\ a # Nil /\ activating /\ activationCancel = a /\ client = Nil
    BY <1>1 DEF CompleteActivation, Goto, HoldsSlot, SlotInv, SlotExclusive,
       AttemptPCs, ID, Nil
  <2>2. client' = a /\ activationID' = activationID
    BY <1>1 DEF CompleteActivation
  <2>3. QED
    BY <2>1, <2>2 DEF Slot!Activate
<1>2. CASE ~MayComplete(a)
  BY <1>2, SameFields DEF CompleteActivation, slotFields, lockVars
<1>3. QED
  BY <1>1, <1>2

\* The deferred cleanup of a failed attempt gives the slot back.
LEMMA ReleaseRefines ==
    ASSUME SlotInv, NEW a \in ID, Release(a) PROVE Slot!GiveBack
<1>1. activating /\ client = Nil
  BY DEF Release, Goto, HoldsSlot, SlotInv, SlotExclusive, AttemptPCs
<1>2. /\ ~activating' /\ activationCancel' = Nil
      /\ UNCHANGED <<client, activationID>>
  BY DEF Release
<1>3. QED
  BY <1>1, <1>2 DEF Slot!GiveBack, Nil

\* Connect reserves the slot for an identity not used before.
LEMMA ConnectRefines ==
    ASSUME SlotInv, NEW a \in ID, NEW r \in Requests, Connect(a, r)
    PROVE  Slot!Reserve(a)
<1>1. a > activationID
  BY MaxIDAssumption DEF Connect, NextID, SlotInv, TypeInv, ServiceTypeOK, LockTypeOK
<1>2. QED
  BY <1>1 DEF Connect, SlotFree, Slot!Reserve

\* Disconnect ends what is active, and makes its own identity the current one.
LEMMA DisconnectRefines ==
    ASSUME SlotInv, NEW d \in ID, Disconnect(d) PROVE Slot!End(d)
<1>1. d > activationID
  BY MaxIDAssumption
     DEF Disconnect, NextID, SlotInv, TypeInv, ServiceTypeOK, LockTypeOK
<1>2. /\ client' = Nil /\ activationID' = d
      /\ UNCHANGED <<activating, activationCancel>>
  BY DEF Disconnect, GrabClient
<1>3. QED
  BY <1>1, <1>2 DEF Slot!End, SlotInv, SlotExclusive, Nil

\* Every step of the service is a step of ActivationSlot or a stutter.
LEMMA StepRefines ==
    SlotInv /\ [Next]_vars => [Slot!Next]_(Slot!slotVars)
<1> SUFFICES ASSUME SlotInv, [Next]_vars
             PROVE  Slot!Next \/ UNCHANGED Slot!slotVars
  OBVIOUS
<1> USE DEF slotFields, lockVars
<1>1. CASE NetworkManagerCall
  <2>1. CASE SetFailure
    BY <2>1, SameFields DEF SetFailure
  <2>2. ASSUME NEW id, NEW reply, NewSecrets(id, reply)
        PROVE  UNCHANGED Slot!slotVars
    BY <2>2, SameFields DEF NewSecrets
  <2>3. ASSUME NEW a \in ID, NEW r \in Requests, Connect(a, r)
        PROVE  Slot!Next
    BY <2>3, ConnectRefines DEF Slot!Next
  <2>4. ASSUME NEW d \in ID, Disconnect(d) PROVE Slot!Next
    BY <2>4, DisconnectRefines DEF Slot!Next
  <2>5. QED
    BY <1>1, <2>1, <2>2, <2>3, <2>4 DEF NetworkManagerCall
<1>2. ASSUME NEW t \in ID, ThreadStep(t)
      PROVE  Slot!Next \/ UNCHANGED Slot!slotVars
  <2>1. CASE EmitStateChanged(t)
    BY <2>1, SameFields DEF EmitStateChanged
  <2>2. CASE DisconnectStep(t)
    BY <2>2, SameFields DEF DisconnectStep, SetStopping, DownAtDisconnect,
       Down, CloseAtDisconnect, FinishDisconnect
  <2>3. CASE AttemptStep(t)
    BY <2>3, SameFields, QuietAttemptSteps, CompleteRefines, ReleaseRefines
       DEF Slot!Next
  <2>4. QED
    BY <1>2, <2>1, <2>2, <2>3 DEF ThreadStep
<1>3. ASSUME NEW m \in ID, MonitorThreadStep(m)
      PROVE  Slot!Next \/ UNCHANGED Slot!slotVars
  <2>1. CASE MonitorEmitStateChanged(m)
    BY <2>1, SameFields DEF MonitorEmitStateChanged
  <2>2. CASE MonitorStep(m)
    BY <2>2, MonitorSlotFields, SessionEnds, SameFields DEF Slot!Next
  <2>3. QED
    BY <1>3, <2>1, <2>2 DEF MonitorThreadStep
<1>4. CASE EngineDrops
  BY <1>4, SameFields DEF EngineDrops
<1>5. CASE UNCHANGED vars
  BY <1>5, SameFields DEF vars
<1>6. QED
  BY <1>1, <1>2, <1>3, <1>4, <1>5 DEF Next

(* The fields under lifecycleMu implement the activation slot: every step  *)
(* of the service reserves it, turns it into a session, gives it back or   *)
(* leaves it as it is, and no identity holds it twice.                     *)
THEOREM SlotRefinement == Spec => ImplementsSlot
<1>1. Init => Slot!Init
  BY InitRefines
<1>2. SlotInv /\ [Next]_vars => [Slot!Next]_(Slot!slotVars)
  BY StepRefines
<1>3. QED
  BY <1>1, <1>2, SlotInvariant, PTL DEF Spec, ImplementsSlot, Slot!Spec

=============================================================================
